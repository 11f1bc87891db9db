------------------------------ MODULE Pipeline ------------------------------
(***************************************************************************)
(* The module pipeline that backend/src/main.cpp wires: the modules of     *)
(* backend/include/modules/*_module.h on the run_loop of module_base.h,    *)
(* the queues between them, the frames that the io threads bring in, and   *)
(* the start and stop sequence of MonitorServer.                           *)
(*                                                                         *)
(* A queue is the FIFO channel that LockFreeQueue is shown to implement:   *)
(* sent[q] is everything pushed, taken[q] counts what was popped.  Only    *)
(* vibration_q and laser_in have several producers (io threads), so only   *)
(* there can try_pop miss a message that is behind an unfinished push.     *)
(*                                                                         *)
(* A run_loop tests running_ and pops in one step: a stop() between the    *)
(* two could as well have come after the pop.                              *)
(***************************************************************************)
EXTENDS Naturals, Sequences, FiniteSets, SequencesExt

CONSTANTS
  Preset,       \* input_ of each fan-out module before wire_pipeline, or NULL
  NULL,
  Frame,        \* what a laser frame carries: [crack_detected, cracks]
  MaxLaser,     \* bound: laser frames accepted
  MaxCracks,    \* bound: cracks in all of them
  MaxVibration, \* bound: vibration frames accepted
  MaxThrows     \* bound: calls of process that throw

(* MonitorServer::start and ::stop go through the modules in this order.   *)
Order == <<"LaserFanOut", "CrackRouter", "CrackFanOut", "FatiguePredictor",
           "DemSimulator", "AlertWs">>
Module == {Order[i] : i \in 1..Len(Order)}
Stage == Module \ {"AlertWs"}
FanOut == {"LaserFanOut", "CrackFanOut"}
Queue == {"laser_in", "crack_in", "laser_q_alert", "laser_q_router", "crack_q_fatigue",
          "crack_q_dem", "prediction_q", "dem_q", "vibration_q"}

ASSUME PipelineAssumption ==
  /\ NULL \notin Queue
  /\ Preset["LaserFanOut"] \in {"laser_in", NULL}
  /\ Preset["CrackFanOut"] \in {"crack_in", NULL}
  /\ \A f \in Frame : f.crack_detected \in BOOLEAN /\ f.cracks \in Nat
  /\ MaxLaser \in Nat /\ MaxCracks \in Nat /\ MaxVibration \in Nat /\ MaxThrows \in Nat

(* wire_pipeline: set_input of every module.                               *)
input_ ==
  [m \in Stage |->
     CASE m \in FanOut -> Preset[m]
       [] m = "CrackRouter" -> "laser_q_router"
       [] m = "FatiguePredictor" -> "crack_q_fatigue"
       [] m = "DemSimulator" -> "crack_q_dem"]

(* wire_pipeline: set_output, then the add_outputs, of every module.  The  *)
(* outputs of parser and router are the input() of a fan-out module.       *)
laser_out == Preset["LaserFanOut"]
outputs ==
  [m \in Stage |->
     CASE m = "LaserFanOut" -> <<"laser_q_alert", "laser_q_router">>
       [] m = "CrackRouter" -> <<Preset["CrackFanOut"]>>
       [] m = "CrackFanOut" -> <<"crack_q_fatigue", "crack_q_dem">>
       [] m = "FatiguePredictor" -> <<"prediction_q">>
       [] m = "DemSimulator" -> <<"dem_q">>]

(* AlertWsModule polls its inputs in this order.                           *)
Polled == <<"laser_q_alert", "vibration_q", "prediction_q", "dem_q">>

VARIABLES
  sent,     \* sent[q]: history of the messages pushed to q
  taken,    \* taken[q]: how many of them were popped
  todo,     \* todo[m]: pushes <<queue, message>> left to process(msg), <<>> in between
  failed,   \* failed[m]: ids of the messages whose process threw
  running,  \* running_ of each module
  thread,   \* "off", "on", "exited" or, AlertWs in a handler for ever, "stuck"
  poll,     \* AlertWs: index of the queue polled next, 1 at the top of the loop
  main,     \* MonitorServer: [op, at] in start() and stop(); op "hung" in a wait for ever
  parsing   \* the io threads run: from the end of start() to ioc_.stop()

queueVars == <<sent, taken>>
stageVars == <<todo, failed>>
lifeVars == <<running, thread, main, parsing>>
vars == <<queueVars, stageVars, lifeVars, poll>>

Laser == [id : 1..MaxLaser, crack_detected : {f.crack_detected : f \in Frame},
          cracks : {f.cracks : f \in Frame}]
Result == [id : 1..MaxLaser, crack : Nat]
Message == Laser \cup Result \cup [id : 1..MaxVibration]

TypeOK ==
  /\ sent \in [Queue -> Seq(Message)] /\ taken \in [Queue -> Nat]
  /\ todo \in [Stage -> Seq((Queue \cup {NULL}) \X Message)]
  /\ failed \in [Stage -> SUBSET (1..MaxLaser)]
  /\ running \in [Module -> BOOLEAN] /\ thread \in [Module -> {"off", "on", "exited", "stuck"}]
  /\ poll \in 1..Len(Polled) /\ parsing \in BOOLEAN
  /\ main \in [op : {"start", "run", "stop", "join", "ioc", "hung", "stopped", "crashed"},
           at : 1..Len(Order)]

Init ==
  /\ sent = [q \in Queue |-> <<>>] /\ taken = [q \in Queue |-> 0]
  /\ todo = [m \in Stage |-> <<>>] /\ failed = [m \in Stage |-> {}]
  /\ running = [m \in Module |-> FALSE] /\ thread = [m \in Module |-> "off"]
  /\ poll = 1 /\ parsing = FALSE
  /\ main = [op |-> "start", at |-> 1]

Failures == {f \in Stage \X (1..MaxLaser) : f[2] \in failed[f[1]]}
(* The id of the message in process; every push of process carries it.     *)
InProcess(m) == Head(todo[m])[2].id

Waiting(q) == taken[q] < Len(sent[q])
Oldest(q) == sent[q][taken[q] + 1]
-----------------------------------------------------------------------------
(* The process ends, with every thread in it.                              *)
Crash ==
  /\ main' = [op |-> "crashed", at |-> 1] /\ parsing' = FALSE
  /\ running' = [m \in Module |-> FALSE] /\ thread' = [m \in Module |-> "exited"]
  /\ todo' = [m \in Stage |-> <<>>]
  /\ UNCHANGED <<queueVars, failed, poll>>

(* Bounds the frames that come in.                                         *)
CracksIn(frames) == FoldSeq(LAMBDA f, n : n + f.cracks, 0, frames)

(* The callbacks of ProfinetParserModule::start, on an io thread.  A push  *)
(* through a null laser_out_ is undefined behaviour; the build's outcome   *)
(* is an access near address 0, which ends the process.                    *)
AcceptLaser(f) ==
  /\ parsing
  /\ IF laser_out = NULL
     THEN Crash
     ELSE /\ Len(sent[laser_out]) < MaxLaser /\ CracksIn(sent[laser_out]) + f.cracks <= MaxCracks
          /\ sent' = [sent EXCEPT ![laser_out] =
               Append(@, [id |-> Len(@) + 1, crack_detected |-> f.crack_detected,
                          cracks |-> f.cracks])]
          /\ UNCHANGED <<taken, stageVars, lifeVars, poll>>

AcceptVibration ==
  /\ parsing /\ Len(sent["vibration_q"]) < MaxVibration
  /\ sent' = [sent EXCEPT !["vibration_q"] = Append(@, [id |-> Len(@) + 1])]
  /\ UNCHANGED <<taken, stageVars, lifeVars, poll>>

(* A fan-out that serves its primary output only (mutant).                 *)
Copies_primaryOnly(m, msg) == <<<<outputs[m][1], msg>>>>

(* process of the fan-outs: the message to every output, the primary one   *)
(* first.                                                                  *)
Copies(m, msg) == [i \in DOMAIN outputs[m] |-> <<outputs[m][i], msg>>]

(* A router that looks at the number of cracks only (mutant).              *)
Routed_undetected(m, msg) == IF msg.cracks = 0 THEN <<>> ELSE Copies(m, msg)

(* process of the router: only a message with cracks becomes a detection.  *)
Routed(m, msg) ==
  IF ~msg.crack_detected \/ msg.cracks = 0 THEN <<>> ELSE Copies(m, msg)

(* process of predictor and simulator: one result per crack, in order.     *)
PerCrack(m, msg) ==
  [c \in 1..msg.cracks |-> <<outputs[m][1], [id |-> msg.id, crack |-> c]>>]

Pushes(m, msg) ==
  CASE m \in FanOut -> Copies(m, msg)
    [] m = "CrackRouter" -> Routed(m, msg)
    [] OTHER -> PerCrack(m, msg)

(* run_loop: while running, pop the next message and enter process.        *)
Pop(m) ==
  /\ thread[m] = "on" /\ running[m] /\ todo[m] = <<>>
  /\ input_[m] # NULL /\ Waiting(input_[m])
  /\ taken' = [taken EXCEPT ![input_[m]] = @ + 1]
  /\ todo' = [todo EXCEPT ![m] = Pushes(m, Oldest(input_[m]))]
  /\ UNCHANGED <<sent, failed, lifeVars, poll>>

(* process: the next push, if the output is not null; after the last one   *)
(* process returns.                                                        *)
Push(m) ==
  /\ todo[m] # <<>>
  /\ sent' = [q \in Queue |-> IF q = Head(todo[m])[1] THEN Append(sent[q], Head(todo[m])[2])
                              ELSE sent[q]]
  /\ todo' = [todo EXCEPT ![m] = Tail(@)]
  /\ UNCHANGED <<taken, failed, lifeVars, poll>>

(* process throws: run_loop logs, does not count the message and goes on.  *)
Throw(m) ==
  /\ todo[m] # <<>> /\ Cardinality(Failures) < MaxThrows
  /\ todo' = [todo EXCEPT ![m] = <<>>]
  /\ failed' = [failed EXCEPT ![m] = @ \cup {InProcess(m)}]
  /\ UNCHANGED <<queueVars, lifeVars, poll>>

(* AlertWsModule: one try_pop.  A hit is handled and the loop starts over; *)
(* a miss goes on to the next queue, after the last one to sleep.  The     *)
(* handlers of all but dem_q take a database connection: if none comes     *)
(* back to the pool, acquire waits for ever.                               *)
PollHit ==
  /\ thread["AlertWs"] = "on" /\ Waiting(Polled[poll])
  /\ poll = 1 => running["AlertWs"]
  /\ taken' = [taken EXCEPT ![Polled[poll]] = @ + 1]
  /\ poll' = 1
  /\ \/ UNCHANGED thread
     \/ Polled[poll] # "dem_q" /\ thread' = [thread EXCEPT !["AlertWs"] = "stuck"]
  /\ UNCHANGED <<sent, stageVars, running, main, parsing>>

(* A poll that sticks to the last queue (mutant).                          *)
PollMiss_stick ==
  /\ thread["AlertWs"] = "on" /\ (~Waiting(Polled[poll]) \/ Polled[poll] = "vibration_q")
  /\ poll = 1 => running["AlertWs"]
  /\ poll' = IF poll = Len(Polled) THEN poll ELSE poll + 1
  /\ UNCHANGED <<queueVars, stageVars, lifeVars>>

PollMiss ==
  /\ thread["AlertWs"] = "on" /\ (~Waiting(Polled[poll]) \/ Polled[poll] = "vibration_q")
  /\ poll = 1 => running["AlertWs"]
  /\ poll' = (poll % Len(Polled)) + 1
  /\ UNCHANGED <<queueVars, stageVars, lifeVars>>

(* The loop of a module sees running_ false and its thread ends.  What is  *)
(* still in its queues stays there.                                        *)
Exit(m) ==
  /\ thread[m] = "on" /\ ~running[m]
  /\ IF m = "AlertWs" THEN poll = 1 ELSE todo[m] = <<>>
  /\ thread' = [thread EXCEPT ![m] = "exited"]
  /\ UNCHANGED <<queueVars, stageVars, running, main, parsing, poll>>
-----------------------------------------------------------------------------
(* MonitorServer::start: the next module's start(); after the last one the *)
(* io threads are created, so no frame is handled before.                  *)
StartModule ==
  /\ main.op = "start"
  /\ running' = [running EXCEPT ![Order[main.at]] = TRUE]
  /\ thread' = [thread EXCEPT ![Order[main.at]] = "on"]
  /\ IF main.at = Len(Order)
     THEN main' = [op |-> "run", at |-> 1] /\ parsing' = TRUE
     ELSE main' = [main EXCEPT !.at = @ + 1] /\ UNCHANGED parsing
  /\ UNCHANGED <<queueVars, stageVars, poll>>

(* A signal clears g_running; main calls MonitorServer::stop.              *)
Signal ==
  /\ main.op = "run"
  /\ main' = [op |-> "stop", at |-> 1]
  /\ UNCHANGED <<queueVars, stageVars, running, thread, parsing, poll>>

(* stop() of a module: running_ = false ...                                *)
StopModule ==
  /\ main.op = "stop"
  /\ running' = [running EXCEPT ![Order[main.at]] = FALSE]
  /\ main' = [main EXCEPT !.op = "join"]
  /\ UNCHANGED <<queueVars, stageVars, thread, parsing, poll>>

(* A stop() that does not join (mutant).                                   *)
JoinModule_detached ==
  /\ main.op = "join"
  /\ main' = IF main.at = Len(Order) THEN [main EXCEPT !.op = "ioc"]
             ELSE [op |-> "stop", at |-> main.at + 1]
  /\ UNCHANGED <<queueVars, stageVars, running, thread, parsing, poll>>

(* ... and the join of its thread; then the next module.  The last stop(), *)
(* of AlertWs, also stops the alert manager: the join of its thread waits  *)
(* for ever when the notify came before that thread's wait.                *)
JoinModule ==
  /\ main.op = "join" /\ thread[Order[main.at]] = "exited"
  /\ IF main.at = Len(Order)
     THEN \E op \in {"ioc", "hung"} : main' = [main EXCEPT !.op = op]
     ELSE main' = [op |-> "stop", at |-> main.at + 1]
  /\ UNCHANGED <<queueVars, stageVars, running, thread, parsing, poll>>

(* ioc_.stop() and the join of the io threads.  Until here frames still    *)
(* arrive: stopping the parser module only closes its acceptor.  An io     *)
(* thread that waits for ever, for a connection or for a session's mutex_, *)
(* is never joined.                                                        *)
StopIo ==
  /\ main.op = "ioc"
  /\ parsing' = FALSE
  /\ \E op \in {"stopped", "hung"} : main' = [main EXCEPT !.op = op]
  /\ UNCHANGED <<queueVars, stageVars, running, thread, poll>>

Main == StartModule \/ StopModule \/ JoinModule \/ StopIo

StageStep(m) == Pop(m) \/ Push(m)
AlertStep == PollHit \/ PollMiss

Next ==
  \/ \E f \in Frame : AcceptLaser(f)
  \/ AcceptVibration
  \/ \E m \in Stage : StageStep(m) \/ Throw(m)
  \/ AlertStep
  \/ \E m \in Module : Exit(m)
  \/ Main \/ Signal

Spec == Init /\ [][Next]_vars

(* The steps of which a run has finitely many, as the frames are bounded.  *)
Progress == (\E m \in Stage : StageStep(m)) \/ (\E m \in Module : Exit(m)) \/ Main

(* Every thread keeps running; frames, signals and exceptions need not     *)
(* come.  None of the Progress steps is disabled by another thread for     *)
(* good, and there are finitely many, so fairness of their union is        *)
(* fairness of each.  A push seen as unfinished is finished in the end, so *)
(* a waiting vibration message is not missed for ever.                     *)
Fairness == WF_vars(Progress) /\ WF_vars(AlertStep) /\ SF_vars(PollHit /\ poll = 2)

FairSpec == Spec /\ Fairness
-----------------------------------------------------------------------------
Accepted == IF laser_out = NULL THEN <<>> ELSE sent[laser_out]
Before(r, s) == r.id < s.id \/ (r.id = s.id /\ r.crack < s.crack)
Increasing(s) == \A i, j \in DOMAIN s : i < j => s[i].id < s[j].id
Running == main.op = "run"
Crashed == main.op = "crashed"

(* The two branches behind a fan-out see the same messages in the same     *)
(* order, the second at most one message behind, except for messages whose *)
(* process threw between the two pushes.                                   *)
BranchesAgree ==
  \A m \in FanOut :
    LET first == sent[outputs[m][1]]
        second == sent[outputs[m][2]]
    IN  /\ Increasing(first) /\ Increasing(second)
        /\ Range(second) \subseteq {x \in Range(first) : x.id \notin failed[m]}
        /\ \A i \in DOMAIN first :
             first[i].id \in failed[m] \/ first[i] \in Range(second) \/ i = Len(first)

(* Fatigue predictions and DEM results are exactly those of the frames     *)
(* that came in: one per crack of a frame with a detected crack, in the    *)
(* order of the frames and of their cracks, none missing for a detection   *)
(* that was processed without exception.  And a result never exists before *)
(* its frame was pushed to laser_q_alert.  (AlertWs may still handle the   *)
(* result first, when both arrive between two of its polls.)               *)
ResultsExact ==
  \A m \in {"FatiguePredictor", "DemSimulator"} :
    LET results == sent[outputs[m][1]]
    IN  /\ \A i, j \in DOMAIN results : i < j => Before(results[i], results[j])
        /\ \A i \in DOMAIN results :
             /\ Accepted[results[i].id].crack_detected
             /\ results[i].crack \in 1..Accepted[results[i].id].cracks
             /\ \E x \in Range(sent["laser_q_alert"]) : x.id = results[i].id
        /\ \A i \in 1..taken[input_[m]] :
             LET d == sent[input_[m]][i]
             IN  d.id \notin failed[m] /\ (todo[m] # <<>> => d.id # InProcess(m)) =>
                   \A c \in 1..d.cracks : [id |-> d.id, crack |-> c] \in Range(results)

(* When stop() of a module has returned, its outputs are sealed: nothing   *)
(* is pushed to them any more.                                             *)
StopReturned(m) ==
  \/ main.op \in {"ioc", "hung", "stopped"}
  \/ main.op \in {"stop", "join"} /\ \E i \in 1..main.at - 1 : Order[i] = m

OutputsSealed ==
  [][\A m \in Stage : StopReturned(m) =>
       \A q \in Range(outputs[m]) \ {NULL} : sent'[q] = sent[q]]_vars

Handled(q, r) == \E i \in 1..taken[q] : sent[q][i] = r

(* Everything accepted so far has come out: each vibration frame, whatever *)
(* the laser branch does; each laser frame unless its fan-out threw; and   *)
(* prediction and simulation of every crack of a frame with a detected     *)
(* crack, unless some process threw.                                       *)
AllHandled ==
  /\ ~Waiting("vibration_q")
  /\ failed["LaserFanOut"] = {} => taken["laser_q_alert"] = Len(Accepted)
  /\ Failures = {} =>
       \A n \in 1..Len(Accepted) : Accepted[n].crack_detected =>
         \A c \in 1..Accepted[n].cracks, q \in {"prediction_q", "dem_q"} :
           Handled(q, [id |-> n, crack |-> c])

(* Always again, until it is stopped, the running server has handled all   *)
(* it accepted, if frames pause long enough (here they are bounded); and a *)
(* requested stop ends: no module waits for another one's input.  Unless   *)
(* the AlertWs thread waits for a database connection for ever, or main    *)
(* for the thread of the alert manager or for an io thread.                *)
HandlesAllAndStopsUnlessStuck ==
  []<>((Running /\ AllHandled) \/ main.op \in {"stopped", "hung"} \/ Crashed
         \/ thread["AlertWs"] = "stuck")

(* What the banner of main.cpp prints: ProfinetParser -> LaserFanOut ->    *)
(* AlertWsModule, that is, a frame reaches AlertWs.                        *)
StopRequested == main.op \in {"stop", "join", "ioc", "hung", "stopped"}
FrameArrives == Crashed \/ Len(Accepted) > 0
BannerPath ==
  FrameArrives ~> (taken["laser_q_alert"] > 0 \/ failed["LaserFanOut"] # {} \/ StopRequested)
=============================================================================
