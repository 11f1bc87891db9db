----------------------------- MODULE ThreadPool -----------------------------
(***************************************************************************)
(* backend/include/modules/common/thread_pool.h and .cpp, the pool of the  *)
(* compute modules: workers that wait on condition_, clients that submit,  *)
(* wait for completion or shut the pool down.                              *)
(*                                                                         *)
(* A thread that found its predicate false and has not yet gone to sleep   *)
(* is at "park" and holds queue_mutex_; every other critical section is    *)
(* one step.  stop_, active_tasks_ and the notifications of shutdown() and *)
(* of a finished task do not take the mutex.                               *)
(***************************************************************************)
EXTENDS Naturals, Sequences, FiniteSets

CONSTANTS
  Workers,   \* workers_
  Clients,   \* threads that use the pool
  NULL,      \* no task
  MaxTasks   \* bound: tasks submitted in a behaviour

ASSUME PoolAssumption ==
  /\ IsFiniteSet(Workers) /\ Workers # {} /\ MaxTasks \in Nat /\ NULL \notin Nat
  /\ Workers \cap Clients = {}

(* Tasks are numbered in the order of submission.                          *)
Task == 1..MaxTasks

VARIABLES
  tasks,      \* tasks_
  stop,       \* stop_
  active,     \* active_tasks_
  pc,         \* where each worker and client is
  task,       \* the local task of each worker
  submitted,  \* history: tasks in the order of submit
  started,    \* history: tasks in the order in which workers took them
  done,       \* tasks whose future is set
  missed      \* history: threads that a notify_all found at "park"

hist == <<submitted, started, done, missed>>
vars == <<tasks, stop, active, pc, task, hist>>

WorkerPc == {"lock", "park", "waiting", "run", "count", "notify", "exited"}
ClientPc == {"idle", "submitted", "waitAll", "park", "waiting", "stopping", "join", "down"}

TypeOK ==
  /\ tasks \in Seq(Task) /\ submitted \in Seq(Task) /\ started \in Seq(Task)
  /\ done \in SUBSET Task /\ missed \in SUBSET (Workers \cup Clients)
  /\ stop \in BOOLEAN /\ active \in Nat
  /\ pc \in [Workers \cup Clients -> WorkerPc \cup ClientPc]
  /\ \A w \in Workers : pc[w] \in WorkerPc
  /\ \A c \in Clients : pc[c] \in ClientPc
  /\ task \in [Workers -> Task \cup {NULL}]

Init ==
  /\ tasks = <<>> /\ stop = FALSE /\ active = 0
  /\ pc = [t \in Workers \cup Clients |-> IF t \in Workers THEN "lock" ELSE "idle"]
  /\ task = [w \in Workers |-> NULL]
  /\ submitted = <<>> /\ started = <<>> /\ done = {} /\ missed = {}

(* queue_mutex_ can be taken.                                              *)
MutexFree == \A t \in Workers \cup Clients : pc[t] # "park"
Goto(t, l) == pc' = [pc EXCEPT ![t] = l]
-----------------------------------------------------------------------------
(* submit: push the task and count it, under the mutex.  When stop_ is set *)
(* it throws and changes nothing.                                          *)
Submit(c) ==
  /\ pc[c] = "idle" /\ MutexFree /\ ~stop /\ Len(submitted) < MaxTasks
  /\ tasks' = Append(tasks, Len(submitted) + 1)
  /\ submitted' = Append(submitted, Len(submitted) + 1)
  /\ active' = active + 1
  /\ Goto(c, "submitted")
  /\ UNCHANGED <<stop, task, started, done, missed>>

(* submit: condition_.notify_one wakes some sleeping worker, if any.       *)
NotifyOne(c) ==
  /\ pc[c] = "submitted"
  /\ \/ /\ \A w \in Workers : pc[w] # "waiting"
        /\ Goto(c, "idle")
     \/ \E w \in Workers :
          /\ pc[w] = "waiting"
          /\ pc' = [pc EXCEPT ![c] = "idle", ![w] = "lock"]
  /\ UNCHANGED <<tasks, stop, active, task, hist>>

(* wait_all is called.                                                     *)
CallWaitAll(c) ==
  /\ pc[c] = "idle"
  /\ Goto(c, "waitAll")
  /\ UNCHANGED <<tasks, stop, active, task, hist>>

(* wait_all that looks at the queue only (mutant).                         *)
AllDone_queueOnly == tasks = <<>>

(* wait_all: the predicate of the wait, under the mutex.                   *)
AllDone == tasks = <<>> /\ active = 0

WaitAllReturns(c) ==
  /\ pc[c] = "waitAll" /\ MutexFree /\ AllDone
  /\ Goto(c, "idle")
  /\ UNCHANGED <<tasks, stop, active, task, hist>>

WaitAllParks(c) ==
  /\ pc[c] = "waitAll" /\ MutexFree /\ ~AllDone
  /\ Goto(c, "park")
  /\ UNCHANGED <<tasks, stop, active, task, hist>>

(* condition_variable::wait releases the mutex and sleeps, in one step.    *)
Sleep(t) ==
  /\ pc[t] = "park"
  /\ Goto(t, "waiting")
  /\ UNCHANGED <<tasks, stop, active, task, hist>>

(* A condition variable may wake for no reason.                            *)
SpuriousWake(t) ==
  /\ pc[t] = "waiting"
  /\ Goto(t, IF t \in Workers THEN "lock" ELSE "waitAll")
  /\ UNCHANGED <<tasks, stop, active, task, hist>>

(* shutdown: stop_ = true.  One client, the pool's owner, calls it, once:  *)
(* the second call, by the destructor, finds no worker left.               *)
SetStop(c) ==
  /\ pc[c] = "idle"
  /\ \A d \in Clients : pc[d] \notin {"stopping", "join", "down"}
  /\ stop' = TRUE
  /\ Goto(c, "stopping")
  /\ UNCHANGED <<tasks, active, task, hist>>

(* shutdown: condition_.notify_all.                                        *)
NotifyStop(c) ==
  /\ pc[c] = "stopping"
  /\ pc' = [t \in DOMAIN pc |->
              IF t = c THEN "join"
              ELSE IF t \in Workers /\ pc[t] = "waiting" THEN "lock" ELSE pc[t]]
  /\ missed' = missed \cup {w \in Workers : pc[w] = "park"}
  /\ UNCHANGED <<tasks, stop, active, task, submitted, started, done>>

(* shutdown: all workers are joined.                                       *)
Joined(c) ==
  /\ pc[c] = "join" /\ \A w \in Workers : pc[w] = "exited"
  /\ Goto(c, "down")
  /\ UNCHANGED <<tasks, stop, active, task, hist>>
-----------------------------------------------------------------------------
(* Worker that takes the newest task (mutant).                             *)
Take_newest(w) ==
  /\ pc[w] = "lock" /\ MutexFree /\ tasks # <<>>
  /\ task' = [task EXCEPT ![w] = tasks[Len(tasks)]]
  /\ tasks' = SubSeq(tasks, 1, Len(tasks) - 1)
  /\ started' = Append(started, tasks[Len(tasks)])
  /\ Goto(w, "run")
  /\ UNCHANGED <<stop, active, submitted, done, missed>>

(* Worker: the predicate holds because of a task, which is taken.          *)
Take(w) ==
  /\ pc[w] = "lock" /\ MutexFree /\ tasks # <<>>
  /\ task' = [task EXCEPT ![w] = Head(tasks)]
  /\ tasks' = Tail(tasks)
  /\ started' = Append(started, Head(tasks))
  /\ Goto(w, "run")
  /\ UNCHANGED <<stop, active, submitted, done, missed>>

(* Worker that returns on stop_ with tasks in the queue (mutant).          *)
WorkerExits_early(w) ==
  /\ pc[w] = "lock" /\ MutexFree /\ stop
  /\ Goto(w, "exited")
  /\ UNCHANGED <<tasks, stop, active, task, hist>>

(* Worker: the predicate holds because of stop_, and there is no task.     *)
WorkerExits(w) ==
  /\ pc[w] = "lock" /\ MutexFree /\ tasks = <<>> /\ stop
  /\ Goto(w, "exited")
  /\ UNCHANGED <<tasks, stop, active, task, hist>>

(* Worker: the predicate is false.                                         *)
WorkerParks(w) ==
  /\ pc[w] = "lock" /\ MutexFree /\ tasks = <<>> /\ ~stop
  /\ Goto(w, "park")
  /\ UNCHANGED <<tasks, stop, active, task, hist>>

(* Worker: task() runs and sets its future; an exception ends there too.   *)
Run(w) ==
  /\ pc[w] = "run"
  /\ done' = done \cup {task[w]}
  /\ task' = [task EXCEPT ![w] = NULL]
  /\ Goto(w, "count")
  /\ UNCHANGED <<tasks, stop, active, submitted, started, missed>>

(* Worker that tests the count from before the decrement (mutant).         *)
Count_stale(w) ==
  /\ pc[w] = "count"
  /\ active' = active - 1
  /\ Goto(w, IF active = 0 THEN "notify" ELSE "lock")
  /\ UNCHANGED <<tasks, stop, task, hist>>

(* Worker: --active_tasks_, without the mutex.                             *)
Count(w) ==
  /\ pc[w] = "count"
  /\ active' = active - 1
  /\ Goto(w, IF active = 1 THEN "notify" ELSE "lock")
  /\ UNCHANGED <<tasks, stop, task, hist>>

(* Worker: completion_condition_.notify_all, without the mutex.            *)
NotifyDone(w) ==
  /\ pc[w] = "notify"
  /\ pc' = [t \in DOMAIN pc |->
              IF t = w THEN "lock"
              ELSE IF t \in Clients /\ pc[t] = "waiting" THEN "waitAll" ELSE pc[t]]
  /\ missed' = missed \cup {c \in Clients : pc[c] = "park"}
  /\ UNCHANGED <<tasks, stop, active, task, submitted, started, done>>

Work(w) ==
  Take(w) \/ WorkerExits(w) \/ WorkerParks(w) \/ Run(w) \/ Count(w) \/ NotifyDone(w)

Continue(c) ==
  NotifyOne(c) \/ WaitAllReturns(c) \/ WaitAllParks(c) \/ NotifyStop(c) \/ Joined(c)

Call(c) == Submit(c) \/ CallWaitAll(c) \/ SetStop(c)

Next ==
  \/ \E w \in Workers : Work(w)
  \/ \E c \in Clients : Continue(c) \/ Call(c)
  \/ \E t \in Workers \cup Clients : Sleep(t) \/ SpuriousWake(t)

Spec == Init /\ [][Next]_vars

(* Threads run, tasks end, and a mutex that is free again and again is     *)
(* obtained in the end.  No client has to call, no wake-up is spurious.    *)
Fairness ==
  /\ \A t \in Workers \cup Clients : WF_vars(Sleep(t))
  /\ \A w \in Workers : SF_vars(Work(w))
  /\ \A c \in Clients : SF_vars(Continue(c))

FairSpec == Spec /\ Fairness
-----------------------------------------------------------------------------
(* shutdown() returns only when every task submitted before it is done.    *)
ShutdownDrains ==
  \A c \in Clients : pc[c] = "down" => done = 1..Len(submitted)

(* wait_all() returns only in a state where every task submitted so far is *)
(* done.                                                                   *)
WaitAllIsRight ==
  [][\A c \in Clients :
       (pc[c] = "waitAll" /\ pc'[c] = "idle") => done = 1..Len(submitted)]_vars

(* Every submitted task runs in the end; and shutdown() and wait_all()     *)
(* end, unless a notify_all found the sleeper in the gap between its       *)
(* predicate and its sleep.                                                *)
RunsAndReturnsUnlessMissed ==
  /\ \A t \in Task : (Len(submitted) >= t) ~> (t \in done)
  /\ \A c \in Clients :
       /\ (pc[c] = "stopping") ~> (pc[c] = "down" \/ missed # {})
       /\ (pc[c] = "waitAll") ~> (pc[c] = "idle" \/ missed # {})

(* Between submit and the workers the pool is a FIFO channel.              *)
Chan == INSTANCE Channel WITH Msg <- Task, sent <- submitted, rcvd <- started
ImplementsChannel == Chan!ChanSpec
=============================================================================
