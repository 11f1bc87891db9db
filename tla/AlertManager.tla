---------------------------- MODULE AlertManager ----------------------------
(***************************************************************************)
(* backend/src/alert_manager.cpp with the two threads around it: the       *)
(* worker of AlertWsModule, which checks each measurement, stores the      *)
(* alerts and enqueues them, and the main thread, which stops the module   *)
(* (AlertWsModule::stop).  process_alerts runs on a thread of its own.     *)
(*                                                                         *)
(* queue_mutex_ is held by process_alerts exactly at the locations of      *)
(* LockHeld; enqueue_alert holds it for one step.  Deciding to wait and    *)
(* going to sleep are two steps of the worker: stop() changes running_     *)
(* and notifies without the mutex, so it can fall between them.            *)
(*                                                                         *)
(* An alert is named by its database id; ids are handed out in order.  An  *)
(* insert may be stored although its answer is lost: insert_alert returns  *)
(* -1 then (see RowUnanswered of Database).                                *)
(***************************************************************************)
EXTENDS Naturals, Sequences, SequencesExt

CONSTANTS
  Measurement,  \* the checked messages, see AlertsOf
  NoAlert,      \* no alert at hand
  MaxAlerts     \* bound: alerts stored in a behaviour

Alert == 1..MaxAlerts

AlertType == {"CRACK_DEPTH_EXCEEDED", "CRACK_WIDTH_EXCEEDED", "VIBRATION_ANOMALY",
              "CRACK_PROPAGATION_RISK"}

(* check_crack_thresholds: which of the two limits a crack exceeds.        *)
check_crack_thresholds(crack) ==
  SelectSeq(<<"CRACK_DEPTH_EXCEEDED", "CRACK_WIDTH_EXCEEDED">>, LAMBDA t : t \in crack)

(* check_laser_data, check_vibration_data, check_prediction: the alerts a  *)
(* message raises, in order.  A crack is the set of limits it exceeds.     *)
AlertsOf(m) ==
  CASE m.kind = "laser" ->
         IF m.crack_detected
         THEN FlattenSeq([i \in DOMAIN m.cracks |-> check_crack_thresholds(m.cracks[i])])
         ELSE <<>>
    [] m.kind = "vibration" ->
         IF m.rms \/ m.peak THEN <<"VIBRATION_ANOMALY">> ELSE <<>>
    [] m.kind = "prediction" ->
         IF m.risk \in {"CRITICAL", "HIGH"} THEN <<"CRACK_PROPAGATION_RISK">> ELSE <<>>

ASSUME AlertAssumption ==
  /\ MaxAlerts \in Nat /\ NoAlert \notin Nat
  /\ \A m \in Measurement : AlertsOf(m) \in Seq(AlertType)

VARIABLES
  cpc,      \* checker (AlertWs worker): "off", "poll", "insert", "enqueue", "notify", "stuck", "joined"
  raised,   \* checker: alerts of the current message not yet inserted
  saved,    \* checker: saved_alert.id between insert_alert and enqueue_alert
  polling,  \* AlertWsModule::running_
  running,  \* AlertManager::running_
  queue,    \* alert_queue_
  wpc,      \* worker_thread_ in process_alerts
  alert,    \* process_alerts: the local alert
  spc,      \* main thread: "new", "started", "joinChecker", "flag", "notify", "join", "stopped"
  missed,   \* history: notify_all found the worker between its check and its sleep
  stored,   \* history: number of alerts in the database
  unanswered, \* history: the alerts among them whose insert_alert returned -1
  queued,   \* history: alerts enqueued, in order
  handled   \* history: alerts taken through sms, websocket and callbacks

checkVars == <<cpc, raised, saved>>
workVars == <<wpc, alert>>
stopVars == <<spc, polling, running, missed>>
tableVars == <<stored, unanswered>>
alertVars == <<checkVars, workVars, stopVars, tableVars, queue, queued, handled>>

(* Where process_alerts holds queue_mutex_.                                *)
LockHeld == wpc \in {"test", "park", "drain"}

AlertTypeOK ==
  /\ cpc \in {"off", "poll", "insert", "enqueue", "notify", "stuck", "joined"}
  /\ raised \in Seq(AlertType) /\ saved \in Alert \cup {NoAlert}
  /\ polling \in BOOLEAN /\ running \in BOOLEAN /\ missed \in BOOLEAN
  /\ queue \in Seq(Alert) /\ queued \in Seq(Alert) /\ handled \in Seq(Alert)
  /\ wpc \in {"off", "outer", "lock", "test", "park", "waiting", "drain", "deliver", "done"}
  /\ alert \in Alert \cup {NoAlert}
  /\ spc \in {"new", "started", "joinChecker", "flag", "notify", "join", "stopped"}
  /\ stored \in 0..MaxAlerts /\ unanswered \in SUBSET Alert

AlertInit ==
  /\ cpc = "off" /\ raised = <<>> /\ saved = NoAlert
  /\ polling = FALSE /\ running = FALSE /\ missed = FALSE
  /\ queue = <<>> /\ queued = <<>> /\ handled = <<>> /\ stored = 0 /\ unanswered = {}
  /\ wpc = "off" /\ alert = NoAlert /\ spc = "new"
-----------------------------------------------------------------------------
(* AlertWsModule::start: AlertManager::start, then the polling worker.     *)
Start ==
  /\ spc = "new"
  /\ spc' = "started" /\ running' = TRUE /\ polling' = TRUE
  /\ wpc' = "outer" /\ cpc' = "poll"
  /\ UNCHANGED <<raised, saved, missed, alert, queue, tableVars, queued, handled>>

(* The polling worker takes a message and calls its check.                 *)
Check(m) ==
  /\ cpc = "poll" /\ polling
  /\ raised' = AlertsOf(m)
  /\ cpc' = IF AlertsOf(m) = <<>> THEN "poll" ELSE "insert"
  /\ UNCHANGED <<saved, workVars, stopVars, queue, tableVars, queued, handled>>

(* A loop that enqueues only the last alert of a message (mutant).         *)
InsertAlert_lastOnly ==
  /\ cpc = "insert" /\ stored < MaxAlerts
  /\ stored' = stored + 1 /\ saved' = stored + 1
  /\ raised' = Tail(raised)
  /\ cpc' = IF Len(raised) > 1 THEN "insert" ELSE "enqueue"
  /\ UNCHANGED <<unanswered, workVars, stopVars, queue, queued, handled>>

(* insert_alert returns an id; the alert will be enqueued.                 *)
InsertAlert ==
  /\ cpc = "insert" /\ stored < MaxAlerts
  /\ stored' = stored + 1 /\ saved' = stored + 1
  /\ raised' = Tail(raised)
  /\ cpc' = "enqueue"
  /\ UNCHANGED <<unanswered, workVars, stopVars, queue, queued, handled>>

(* insert_alert fails (id <= 0), and the alert is dropped: the row was not *)
(* stored, or it was, but the answer of the database was lost.             *)
InsertFails ==
  /\ cpc = "insert"
  /\ \/ UNCHANGED tableVars
     \/ /\ stored < MaxAlerts
        /\ stored' = stored + 1 /\ unanswered' = unanswered \cup {stored + 1}
  /\ raised' = Tail(raised)
  /\ cpc' = IF Len(raised) = 1 THEN "poll" ELSE "insert"
  /\ UNCHANGED <<saved, workVars, stopVars, queue, queued, handled>>

(* A database call of a handler waits for a connection that never comes    *)
(* back (DatabasePool::acquire, see CallsReturnUnlessLeaked of Database).  *)
CheckerSticks ==
  /\ cpc \in {"poll", "insert"} /\ (cpc = "poll" => polling)
  /\ cpc' = "stuck"
  /\ UNCHANGED <<raised, saved, workVars, stopVars, queue, tableVars, queued, handled>>

(* enqueue_alert, under queue_mutex_.                                      *)
enqueue_alert ==
  /\ cpc = "enqueue" /\ ~LockHeld
  /\ queue' = Append(queue, saved) /\ queued' = Append(queued, saved)
  /\ saved' = NoAlert
  /\ cpc' = "notify"
  /\ UNCHANGED <<raised, workVars, stopVars, tableVars, handled>>

(* A sleeping worker that is notified goes for the mutex again.            *)
Woken == IF wpc = "waiting" THEN "lock" ELSE wpc

(* enqueue_alert: cv_.notify_one, after the mutex is released.             *)
NotifyOne ==
  /\ cpc = "notify"
  /\ wpc' = Woken
  /\ cpc' = IF raised = <<>> THEN "poll" ELSE "insert"
  /\ UNCHANGED <<raised, saved, alert, stopVars, queue, tableVars, queued, handled>>

(* The polling worker sees its running_ false and returns.                 *)
CheckerExits ==
  /\ cpc = "poll" /\ ~polling
  /\ cpc' = "joined"
  /\ UNCHANGED <<raised, saved, workVars, stopVars, queue, tableVars, queued, handled>>

Checker ==
  \/ \E m \in Measurement : Check(m)
  \/ InsertAlert \/ InsertFails \/ CheckerSticks \/ enqueue_alert \/ NotifyOne
  \/ CheckerExits
-----------------------------------------------------------------------------
(* process_alerts: while (running_).                                       *)
TestRunning ==
  /\ wpc = "outer"
  /\ wpc' = IF running THEN "lock" ELSE "done"
  /\ UNCHANGED <<alert, checkVars, stopVars, queue, tableVars, queued, handled>>

(* The mutex is taken, by unique_lock or by the wait that was woken.  It   *)
(* is free: enqueue_alert holds it for one step.                           *)
Acquire ==
  /\ wpc = "lock"
  /\ wpc' = "test"
  /\ UNCHANGED <<alert, checkVars, stopVars, queue, tableVars, queued, handled>>

(* cv_.wait without a predicate, and with one that ignores running_        *)
(* (mutants).                                                              *)
TestPredicate_none ==
  /\ wpc = "test"
  /\ wpc' = "park"
  /\ UNCHANGED <<alert, checkVars, stopVars, queue, tableVars, queued, handled>>

TestPredicate_queueOnly ==
  /\ wpc = "test"
  /\ wpc' = IF queue # <<>> THEN "drain" ELSE "park"
  /\ UNCHANGED <<alert, checkVars, stopVars, queue, tableVars, queued, handled>>

(* cv_.wait evaluates its predicate.                                       *)
TestPredicate ==
  /\ wpc = "test"
  /\ wpc' = IF queue # <<>> \/ ~running THEN "drain" ELSE "park"
  /\ UNCHANGED <<alert, checkVars, stopVars, queue, tableVars, queued, handled>>

(* cv_.wait releases the mutex and sleeps, in one step.                    *)
Park ==
  /\ wpc = "park"
  /\ wpc' = "waiting"
  /\ UNCHANGED <<alert, checkVars, stopVars, queue, tableVars, queued, handled>>

(* A condition variable may wake for no reason.                            *)
SpuriousWake ==
  /\ wpc = "waiting"
  /\ wpc' = "lock"
  /\ UNCHANGED <<alert, checkVars, stopVars, queue, tableVars, queued, handled>>

(* An inner loop that does not pop (mutant).                               *)
TakeAlert_unpopped ==
  /\ wpc = "drain" /\ queue # <<>>
  /\ alert' = Head(queue)
  /\ wpc' = "deliver"
  /\ UNCHANGED <<checkVars, stopVars, queue, tableVars, queued, handled>>

(* The inner loop takes the front alert and unlocks.                       *)
TakeAlert ==
  /\ wpc = "drain" /\ queue # <<>>
  /\ alert' = Head(queue) /\ queue' = Tail(queue)
  /\ wpc' = "deliver"
  /\ UNCHANGED <<checkVars, stopVars, tableVars, queued, handled>>

(* The inner loop is over, the mutex is released.                          *)
Drained ==
  /\ wpc = "drain" /\ queue = <<>>
  /\ wpc' = "outer"
  /\ UNCHANGED <<alert, checkVars, stopVars, queue, tableVars, queued, handled>>

(* send_sms, send_websocket and the callbacks, outside the mutex; an       *)
(* exception is swallowed.  Then the mutex is taken again.                 *)
Deliver ==
  /\ wpc = "deliver"
  /\ handled' = Append(handled, alert)
  /\ alert' = NoAlert
  /\ wpc' = "drain"
  /\ UNCHANGED <<checkVars, stopVars, queue, tableVars, queued>>

ProcessAlerts ==
  TestRunning \/ Acquire \/ TestPredicate \/ Park \/ TakeAlert \/ Drained \/ Deliver
-----------------------------------------------------------------------------
(* AlertWsModule::stop: running_ = false for the polling worker.           *)
StopPolling ==
  /\ spc = "started"
  /\ polling' = FALSE /\ spc' = "joinChecker"
  /\ UNCHANGED <<running, missed, checkVars, workVars, queue, tableVars, queued, handled>>

(* AlertWsModule::stop: join the polling worker.                           *)
JoinChecker ==
  /\ spc = "joinChecker" /\ cpc = "joined"
  /\ spc' = "flag"
  /\ UNCHANGED <<polling, running, missed, checkVars, workVars, queue, tableVars, queued, handled>>

(* AlertManager::stop: running_ = false, without the mutex.                *)
ClearRunning ==
  /\ spc = "flag"
  /\ running' = FALSE /\ spc' = "notify"
  /\ UNCHANGED <<polling, missed, checkVars, workVars, queue, tableVars, queued, handled>>

(* AlertManager::stop: cv_.notify_all, without the mutex.                  *)
NotifyAll ==
  /\ spc = "notify"
  /\ wpc' = Woken /\ missed' = (wpc = "park")
  /\ spc' = "join"
  /\ UNCHANGED <<polling, running, alert, checkVars, queue, tableVars, queued, handled>>

(* AlertManager::stop: join process_alerts.                                *)
JoinWorker ==
  /\ spc = "join" /\ wpc = "done"
  /\ spc' = "stopped"
  /\ UNCHANGED <<polling, running, missed, checkVars, workVars, queue, tableVars, queued, handled>>

Stop == JoinChecker \/ ClearRunning \/ NotifyAll \/ JoinWorker

AlertNext == Start \/ Checker \/ ProcessAlerts \/ SpuriousWake \/ StopPolling \/ Stop

AlertSpec == AlertInit /\ [][AlertNext]_alertVars

(* Threads that can run do run.  Nothing obliges messages to arrive, a     *)
(* stop to be requested or a condition variable to wake spuriously.        *)
Fairness ==
  /\ WF_alertVars(ProcessAlerts) /\ WF_alertVars(Stop)
  /\ WF_alertVars(InsertAlert \/ InsertFails \/ NotifyOne \/ CheckerExits)
  /\ SF_alertVars(enqueue_alert)

FairAlertSpec == AlertSpec /\ Fairness
-----------------------------------------------------------------------------
(* No alert is lost or duplicated between enqueue_alert and the delivery:  *)
(* what was enqueued is what was handled, then the alert at hand, then the *)
(* queue, across every unlock and relock of process_alerts.                *)
Conserved ==
  queued = handled \o (IF wpc = "deliver" THEN <<alert>> ELSE <<>>) \o queue

(* The database and the queue agree: every stored alert was enqueued once, *)
(* in the order of the ids, or is about to be, or its insert_alert had no  *)
(* answer; and an alert without an answer is never enqueued.               *)
StoredIsQueuedUnlessUnanswered ==
  /\ \A i, j \in 1..Len(queued) : i < j => queued[i] < queued[j]
  /\ ToSet(queued) \cap unanswered = {}
  /\ (ToSet(queued) \cup unanswered) \cup (IF saved = NoAlert THEN {} ELSE {saved}) = 1..stored
  /\ saved \notin ToSet(queued) \cup unanswered

(* The worker sleeps on a non-empty queue only while the notify_one for it *)
(* is still to come: pushes are never slept through.                       *)
NoSleepOnWork ==
  wpc = "waiting" /\ queue # <<>> => cpc = "notify"

(* Until the manager is told to stop, every alert in the database is       *)
(* handled in the end, unless its insert_alert had no answer; and stopping *)
(* ends, unless notify_all hit the gap between the predicate and the sleep *)
(* of process_alerts, or a database call keeps the polling worker.         *)
HandlesAndStopsUnlessMissed ==
  /\ \A a \in Alert :
       (stored >= a /\ a \notin unanswered) ~> (a \in ToSet(handled) \/ ~running)
  /\ (spc = "joinChecker") ~> (spc = "stopped" \/ missed \/ cpc = "stuck")

(* As a pipe from enqueue_alert to the delivery it is a FIFO channel.      *)
Chan == INSTANCE Channel WITH Msg <- Alert, sent <- queued, rcvd <- handled
ImplementsChannel == Chan!ChanSpec
=============================================================================
