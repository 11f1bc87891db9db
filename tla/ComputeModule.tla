--------------------------- MODULE ComputeModule ---------------------------
(***************************************************************************)
(* The life cycle of three compute modules.  FemStressModule and           *)
(* StrengthFemModule (kind "joinable") run an execute on worker_thread_,   *)
(* which shutdown joins; WashburnPenetrationModule (kind "detached") runs  *)
(* it on a detached thread that submits chunks of cracks to a pool.  The   *)
(* pool is the FIFO channel of tasks that ThreadPool implements.           *)
(*                                                                         *)
(* The external solver of the joinable modules is not part of the model:   *)
(* the channel they create has no peer, is_connected() is false, and every *)
(* solve goes to the adapter.  Undefined behaviour (a null adapter or pool,*)
(* a remainder by zero, freed input, a joinable std::thread assigned to)   *)
(* ends the process.                                                       *)
(***************************************************************************)
EXTENDS Naturals, Sequences, FiniteSets

CONSTANTS
  Client,     \* threads that call the module
  Owner,      \* the one that initializes and shuts down
  Workers,    \* threads of the pool
  NULL,
  MinBatch,   \* min_batch_per_thread
  MaxRuns,    \* bound: executions and batches in a behaviour
  MaxCount,   \* bound: cracks of an execution or a batch
  Counts,     \* bound: numbers of cracks of an execution
  BatchCounts, \* bound: numbers of cracks of a batch
  MaxCancels, \* bound: calls of cancel
  MaxLives    \* bound: calls of initialize

ASSUME ComputeAssumption ==
  /\ Owner \in Client /\ Workers \in Nat \ {0}
  /\ MinBatch \in Nat \ {0} /\ MaxRuns \in Nat
  /\ MaxCount \in Nat /\ Counts \subseteq 0..MaxCount /\ BatchCounts \subseteq 1..MaxCount
  /\ MaxCancels \in Nat /\ MaxLives \in Nat
  /\ NULL \notin 1..MaxRuns /\ NULL \notin {"COMPLETED", "IDLE", "ERROR"}

Run == 1..MaxRuns
Task == [run : Run, cracks : SUBSET (1..MaxCount)]

VARIABLES
  kind,       \* "joinable" or "detached", of the module the behaviour is about
  status_, cancelled_,
  model,      \* adapter_ or per_thread_models_ is there
  pool,       \* "none", "open" or "stopped"
  tasks,      \* the pool's queue of [run, cracks]
  taken,      \* the tasks that workers run
  thread_,    \* the run of worker_thread_, or NULL
  run,        \* run[r]: [by, cracks, at, unsent, pending, predicted, thrown, failed, verdict, mark]
  call,       \* call[c]: [op, at, run], what a client is doing
  crash,      \* why the process ended, or NULL
  life,       \* history: "new", "live" between initialize and shutdown, "shut"
  misuse,     \* history: uses that the code does not withstand
  cancels, lives \* history: calls of cancel and initialize

shared == <<kind, status_, cancelled_, model, pool, thread_>>
history == <<life, misuse, cancels, lives>>
vars == <<shared, tasks, taken, run, call, crash, history>>

idle == [op |-> "none", at |-> "idle", run |-> NULL]
unused == [by |-> NULL, cracks |-> 0, at |-> "none", unsent |-> <<>>, pending |-> {},
           predicted |-> {}, thrown |-> {}, failed |-> FALSE, verdict |-> NULL, mark |-> "no"]
Active == {r \in Run : run[r].at \notin {"none", "ended"}}
Free == {r \in Run : run[r].at = "none"}
NewRun == CHOOSE r \in Run : run[r].at = "none" /\ \A q \in 1..r - 1 : run[q].at # "none"
Async == {r \in Active : run[r].by = "execute"}

(* The chunks of predict_chunked for n cracks and a number of workers.     *)
Ceil(n, d) == (n + d - 1) \div d
ChunkSize(n, takens) == IF Ceil(n, takens) < MinBatch THEN MinBatch ELSE Ceil(n, takens)
Chunk(n, takens, c) ==
  {i \in 1..n : (c - 1) * ChunkSize(n, takens) < i /\ i <= c * ChunkSize(n, takens)}
Chunks(n, takens) == [c \in 1..Ceil(n, ChunkSize(n, takens)) |-> Chunk(n, takens, c)]
Singles(n) == [i \in 1..n |-> {i}]

Init ==
  /\ kind \in {"joinable", "detached"} /\ status_ = "UNINITIALIZED" /\ cancelled_ = FALSE
  /\ model = FALSE /\ pool = (IF kind = "joinable" THEN "none" ELSE "open")
  /\ tasks = <<>> /\ taken = {} /\ thread_ = NULL
  /\ run = [r \in Run |-> unused] /\ call = [c \in Client |-> idle] /\ crash = NULL
  /\ life = "new" /\ misuse = {} /\ cancels = 0 /\ lives = 0

Crash(why) ==
  /\ crash' = why
  /\ UNCHANGED <<shared, tasks, taken, run, call, history>>

(* A cancellation, or its reset, as a run that did not end yet sees it.    *)
Marked(from, to) ==
  [r \in Run |-> IF r \in Active /\ run[r].verdict = NULL /\ run[r].mark \in from
                 THEN [run[r] EXCEPT !.mark = to] ELSE run[r]]

(***************************************************************************)
(* Calls.  The owner shuts down when no other client is in a call.         *)
(***************************************************************************)
MayCall(c) == call[c].at = "idle" /\ call[Owner].op # "shutdown"
At(c, op, at) == call[c].op = op /\ call[c].at = at
Going(c, at) == call' = [call EXCEPT ![c].at = at]
Return(c) == call' = [call EXCEPT ![c] = idle]
RunLeft == Cardinality({c \in Client : call[c].at \in {"flag", "status", "start"}}) < Cardinality(Free)
Outside == IF life = "live" THEN {} ELSE {"outside"}

Initialize ==
  /\ MayCall(Owner) /\ life # "live" /\ lives < MaxLives
  /\ status_' = "IDLE" /\ model' = TRUE
  /\ pool' = (IF kind = "joinable" THEN "open" ELSE pool)
  /\ life' = "live" /\ lives' = lives + 1
  /\ misuse' = misuse \cup (IF kind = "detached" /\ pool = "none" THEN {"reinitialized"} ELSE {})
  /\ UNCHANGED <<kind, cancelled_, thread_, tasks, taken, run, call, crash, cancels>>

(* An exception while the configuration is read (bound: the first time).   *)
InitializeFails ==
  /\ MayCall(Owner) /\ life = "new" /\ lives = 0
  /\ status_' = "ERROR" /\ lives' = 1
  /\ UNCHANGED <<kind, cancelled_, model, pool, thread_, tasks, taken, run, call, crash, life, misuse, cancels>>

(* execute and execute_sync: the test of status_.                          *)
Check(c, op) ==
  /\ MayCall(c) /\ RunLeft
  /\ status_ # "RUNNING"
  /\ call' = [call EXCEPT ![c] = [op |-> op, run |-> NULL,
                                  at |-> IF op = "execute" THEN "flag" ELSE "status"]]
  /\ misuse' = misuse \cup Outside
  /\ UNCHANGED <<shared, tasks, taken, run, crash, life, cancels, lives>>

ClearCancelled(c) ==
  /\ call[c].at = "flag" /\ cancelled_' = FALSE
  /\ Going(c, IF call[c].op = "execute" THEN "status" ELSE "start")
  /\ run' = Marked({"cancelled"}, "reset")
  /\ UNCHANGED <<kind, status_, model, pool, thread_, tasks, taken, crash, history>>

SetRunning(c) ==
  /\ call[c].at = "status" /\ status_' = "RUNNING"
  /\ Going(c, IF call[c].op = "execute" THEN "start" ELSE "flag")
  /\ UNCHANGED <<kind, cancelled_, model, pool, thread_, tasks, taken, run, crash, history>>

(* The input of a Washburn execution does not parse.                       *)
ParseFails(c) ==
  /\ kind = "detached" /\ call[c].at = "start" /\ status_' = "ERROR" /\ Return(c)
  /\ run' = [run EXCEPT ![NewRun] = [unused EXCEPT !.at = "ended", !.by = call[c].op]]
  /\ UNCHANGED <<kind, cancelled_, model, pool, thread_, tasks, taken, crash, history>>

Begun(by, n, chunks) ==
  [by |-> by, cracks |-> n, at |-> IF chunks = <<>> THEN "compute" ELSE "submit", unsent |-> chunks,
   pending |-> {}, predicted |-> {}, thrown |-> {}, failed |-> FALSE, verdict |-> NULL,
   mark |-> IF cancelled_ THEN "cancelled" ELSE "no"]
ChunksOf(n) == IF kind = "joinable" THEN <<>> ELSE Chunks(n, Workers)

(* Assigning to worker_thread_ while it holds a thread nobody joined       *)
(* destroys that thread object, which terminates the process.              *)
Start(c, n) == LET r == NewRun IN
  /\ call[c].at = "start"
  /\ IF kind = "joinable" /\ call[c].op = "execute" /\ thread_ # NULL
     THEN /\ crash' = "terminate" /\ misuse' = misuse \cup {"again"}
          /\ UNCHANGED <<thread_, run, call>>
     ELSE /\ run' = [run EXCEPT ![r] = Begun(call[c].op, n, ChunksOf(n))]
          /\ thread_' = (IF kind = "joinable" /\ call[c].op = "execute" THEN r ELSE thread_)
          /\ call' = [call EXCEPT ![c] = IF call[c].op = "execute" THEN idle
                                         ELSE [@ EXCEPT !.at = "wait", !.run = r]]
          /\ UNCHANGED <<crash, misuse>>
  /\ UNCHANGED <<kind, status_, cancelled_, model, pool, tasks, taken, life, cancels, lives>>

(* analyze_batch_parallel, simulate_batch_parallel, predict_batch_async    *)
(* ("batch_async") and predict_batch ("batch").  The first two return an   *)
(* empty list when there is no adapter.                                    *)
Batch(c, n, by) == LET r == NewRun IN
  /\ MayCall(c) /\ RunLeft
  /\ by \in (IF kind = "joinable" THEN {"batch_async"} ELSE {"batch", "batch_async"})
  /\ kind = "joinable" => model
  /\ run' = [run EXCEPT ![r] = Begun(by, n, Singles(n))]
  /\ call' = [call EXCEPT ![c] = [op |-> by, at |-> "wait", run |-> r]]
  /\ misuse' = misuse \cup Outside
  /\ UNCHANGED <<shared, tasks, taken, crash, life, cancels, lives>>

CallReturns(c) ==
  /\ call[c].at = "wait" /\ Return(c)
  /\ run[call[c].run].at \in (IF call[c].op = "batch_async" THEN {"get", "ended"} ELSE {"ended"})
  /\ UNCHANGED <<shared, tasks, taken, run, crash, history>>

Cancel(c) ==
  /\ MayCall(c) /\ cancels < MaxCancels /\ cancels' = cancels + 1
  /\ cancelled_' = TRUE /\ run' = Marked({"no", "reset"}, "cancelled")
  /\ call' = [call EXCEPT ![c] = [op |-> "cancel", at |-> "cancel", run |-> NULL]]
  /\ UNCHANGED <<kind, status_, model, pool, thread_, tasks, taken, crash, life, misuse, lives>>

CancelEnds(c) ==
  /\ call[c].at = "cancel" /\ status_' = "IDLE"
  /\ IF call[c].op = "cancel" THEN Return(c) ELSE Going(c, "join")
  /\ UNCHANGED <<kind, cancelled_, model, pool, thread_, tasks, taken, run, crash, history>>

(* shutdown: cancel, join, stop the pool, which drains, and reset.  The    *)
(* pool's notify is lost on a worker that looked before stop_ was set and  *)
(* does not wait yet: its join, and shutdown with it, lasts for ever.      *)
Shutdown ==
  /\ \A c \in Client : MayCall(c)
  /\ cancelled_' = TRUE /\ run' = Marked({"no", "reset"}, "cancelled")
  /\ call' = [call EXCEPT ![Owner] = [op |-> "shutdown", at |-> "cancel", run |-> NULL]]
  /\ misuse' = misuse \cup (IF kind = "detached" /\ Async # {} THEN {"abandoned"} ELSE {})
  /\ life' = "shut"
  /\ UNCHANGED <<kind, status_, model, pool, thread_, tasks, taken, crash, cancels, lives>>

StopMissed == pool = "open" /\ tasks = <<>> /\ Cardinality(taken) < Workers

(* (mutant) the thread is detached instead of joined *)
Join_detaches ==
  /\ At(Owner, "shutdown", "join")
  /\ thread_' = NULL /\ pool' = (IF pool = "none" THEN "none" ELSE "stopped")
  /\ Going(Owner, "drain")
  /\ UNCHANGED <<kind, status_, cancelled_, model, tasks, taken, run, crash, history>>

Join ==
  /\ At(Owner, "shutdown", "join")
  /\ \A r \in Run : thread_ = r => run[r].at = "ended"
  /\ thread_' = NULL /\ pool' = (IF pool = "none" THEN "none" ELSE "stopped")
  /\ Going(Owner, "drain") \/ (StopMissed /\ Going(Owner, "hung"))
  /\ UNCHANGED <<kind, status_, cancelled_, model, tasks, taken, run, crash, history>>

(* (mutant) the pool is destroyed when its queue is empty *)
Drained_queueOnly == tasks = <<>>

Drained == tasks = <<>> /\ taken = {}

ShutdownEnds ==
  /\ At(Owner, "shutdown", "drain") /\ Drained
  /\ pool' = "none" /\ model' = FALSE /\ status_' = "UNINITIALIZED" /\ Return(Owner)
  /\ UNCHANGED <<kind, cancelled_, thread_, tasks, taken, run, crash, history>>

(***************************************************************************)
(* A run.  compute_internal and predict_chunked run on worker_thread_, the *)
(* detached thread or, for execute_sync and the batches, on the caller.    *)
(***************************************************************************)
Update(r, to) == run' = [run EXCEPT ![r] = to]
Ended(r) == [unused EXCEPT !.at = "ended", !.by = run[r].by]

(* dispatch_solve; the computation may throw.  No cracks: nothing to do.   *)
Compute(r) ==
  /\ run[r].at = "compute"
  /\ IF kind = "joinable" /\ ~model THEN Crash("null")
     ELSE /\ \E failed \in (IF kind = "joinable" THEN BOOLEAN ELSE {FALSE}) :
               Update(r, [run[r] EXCEPT !.at = "done", !.failed = failed,
                          !.predicted = IF failed THEN {} ELSE 1..run[r].cracks])
          /\ UNCHANGED <<shared, tasks, taken, call, crash, history>>

(* ThreadPool::submit throws once the pool is stopped.                     *)
Submit(r) ==
  /\ run[r].at = "submit"
  /\ CASE pool = "none" -> Crash("null")
       [] pool = "stopped" ->
            /\ Update(r, [run[r] EXCEPT !.at = "done", !.failed = TRUE])
            /\ UNCHANGED <<shared, tasks, taken, call, crash, history>>
       [] pool = "open" ->
            /\ LET chunk == Head(run[r].unsent) IN
               /\ Update(r, [run[r] EXCEPT !.unsent = Tail(@), !.pending = @ \cup {chunk},
                             !.at = IF Len(run[r].unsent) = 1 THEN "get" ELSE "submit"])
               /\ tasks' = Append(tasks, [run |-> r, cracks |-> chunk])
            /\ UNCHANGED <<shared, taken, call, crash, history>>

(* The last future is got.  Those of predict_batch are got in order, and   *)
(* the first one that holds an exception ends it, with later ones pending. *)
Got(r) ==
  /\ run[r].at = "get" /\ run[r].pending = {}
  /\ Update(r, IF run[r].by = "batch" THEN Ended(r) ELSE [run[r] EXCEPT !.at = "done"])
  /\ UNCHANGED <<shared, tasks, taken, call, crash, history>>

Rethrow(r) ==
  /\ kind = "detached" /\ run[r].by = "batch" /\ run[r].at = "get" /\ run[r].pending # {}
  /\ \E i \in run[r].thrown : \A p \in run[r].pending : i \notin p /\ \A j \in p : i < j
  /\ Update(r, Ended(r)) /\ misuse' = misuse \cup {"rethrown"}
  /\ UNCHANGED <<shared, tasks, taken, call, crash, life, cancels, lives>>

(* (mutant) cancelled_ is not looked at *)
Decide_completed(r) ==
  /\ run[r].at = "done" /\ run[r].by = "execute"
  /\ Update(r, [run[r] EXCEPT !.at = "store", !.verdict = "COMPLETED"])
  /\ UNCHANGED <<shared, tasks, taken, call, crash, history>>

(* run_async and run_async_batch read cancelled_, store status_, answer;   *)
(* execute_sync stores COMPLETED or ERROR; the batches touch neither.      *)
Decide(r) ==
  /\ run[r].at = "done" /\ run[r].by = "execute"
  /\ Update(r, [run[r] EXCEPT !.at = "store", !.verdict = IF cancelled_ THEN "IDLE" ELSE "COMPLETED"])
  /\ UNCHANGED <<shared, tasks, taken, call, crash, history>>

DecideSync(r) ==
  /\ run[r].at = "done" /\ run[r].by = "execute_sync"
  /\ Update(r, [run[r] EXCEPT !.at = "store", !.verdict = IF run[r].failed THEN "ERROR" ELSE "COMPLETED"])
  /\ UNCHANGED <<shared, tasks, taken, call, crash, history>>

Store(r) ==
  /\ run[r].at = "store" /\ status_' = run[r].verdict
  /\ Update(r, IF run[r].by = "execute" THEN [run[r] EXCEPT !.at = "answer"] ELSE Ended(r))
  /\ UNCHANGED <<kind, cancelled_, model, pool, thread_, tasks, taken, call, crash, history>>

(* (mutant) no answer when the run was cancelled *)
Answer_unlessCancelled(r) ==
  /\ run[r].at = "answer" /\ run[r].verdict = "COMPLETED" /\ Update(r, Ended(r))
  /\ UNCHANGED <<shared, tasks, taken, call, crash, history>>

Answer(r) ==
  /\ run[r].at = "answer" /\ Update(r, Ended(r))
  /\ UNCHANGED <<shared, tasks, taken, call, crash, history>>

(***************************************************************************)
(* Workers of the pool.  A chunk reads the cracks and options of its run,  *)
(* which are gone when predict_chunked or predict_batch was left.          *)
(***************************************************************************)
Take ==
  /\ Cardinality(taken) < Workers /\ tasks # <<>>
  /\ taken' = taken \cup {Head(tasks)} /\ tasks' = Tail(tasks)
  /\ UNCHANGED <<shared, run, call, crash, history>>

Looks(r) == run[r].by # "batch_async"
Left(r) == run[r].by # "batch_async" /\ run[r].at \notin {"submit", "get"}

(* The task sets its future, to an exception for the cracks thrown.        *)
Done(t, predicted, thrown) ==
  /\ LET r == t.run
         left == run[r].pending \ {t.cracks}
     IN Update(r, IF run[r].by = "batch_async" /\ run[r].at = "get" /\ left = {} THEN Ended(r)
                  ELSE [run[r] EXCEPT !.pending = left, !.predicted = @ \cup predicted,
                                   !.thrown = @ \cup thrown])
  /\ taken' = taken \ {t}

(* What a solve of a joinable module does is its own.  Predictions of a    *)
(* batch throw when the caller's material has a property that is no number,*)
(* all of them; the material of an execution has no properties.            *)
Batched(r) == run[r].by \in {"batch", "batch_async"}
OneMaterial(r) == kind = "detached" /\ Batched(r)

Predict(t) ==
  /\ ~(Looks(t.run) /\ cancelled_)
  /\ CASE Left(t.run) -> Crash("freed")
       [] ~Left(t.run) /\ ~model -> Crash(IF kind = "joinable" THEN "null" ELSE "divide")
       [] ~Left(t.run) /\ model ->
            /\ OneMaterial(t.run) => run[t.run].thrown = {}
            /\ LET todo == t.cracks \ run[t.run].predicted
                   i == CHOOSE k \in todo : \A j \in todo : k <= j
               IN IF todo = {i} THEN Done(t, todo, {})
                  ELSE /\ Update(t.run, [run[t.run] EXCEPT !.predicted = @ \cup {i}])
                       /\ UNCHANGED taken
            /\ UNCHANGED <<shared, tasks, call, crash, history>>

Throw(t) ==
  /\ ~(Looks(t.run) /\ cancelled_) /\ Batched(t.run) /\ ~Left(t.run) /\ model
  /\ OneMaterial(t.run) => run[t.run].predicted = {}
  /\ Done(t, {}, t.cracks) /\ UNCHANGED <<shared, tasks, call, crash, history>>

(* The loop of a chunk ends at the first look that finds cancelled_.       *)
Break(t) ==
  /\ Looks(t.run) /\ cancelled_
  /\ IF Left(t.run) THEN Crash("freed")
     ELSE Done(t, {}, {}) /\ UNCHANGED <<shared, tasks, call, crash, history>>

----------------------------------------------------------------------------
RunStep(r) ==
  crash = NULL /\ (Compute(r) \/ Submit(r) \/ Got(r) \/ Rethrow(r) \/ Decide(r) \/ DecideSync(r)
                     \/ Store(r) \/ Answer(r))
TaskStep(t) == crash = NULL /\ t \in taken /\ (Predict(t) \/ Throw(t) \/ Break(t))
TakeStep == crash = NULL /\ Take
Continue(c) ==
  /\ crash = NULL
  /\ \/ ClearCancelled(c) \/ SetRunning(c) \/ CancelEnds(c) \/ CallReturns(c)
     \/ \E n \in Counts : Start(c, n)
     \/ c = Owner /\ (Join \/ ShutdownEnds)
Call(c) ==
  /\ crash = NULL
  /\ \/ Check(c, "execute") \/ Check(c, "execute_sync") \/ Cancel(c) \/ ParseFails(c)
     \/ \E n \in BatchCounts, by \in {"batch", "batch_async"} : Batch(c, n, by)
     \/ c = Owner /\ (Initialize \/ InitializeFails \/ Shutdown)

Next == (\E r \in Run : RunStep(r)) \/ TakeStep \/ (\E t \in taken : TaskStep(t))
          \/ (\E c \in Client : Continue(c) \/ Call(c))

RunsStep == \E r \in Run : RunStep(r)
TasksStep == \E t \in taken : TaskStep(t)
Spec == Init /\ [][Next]_vars
(* Runs and tasks are finitely many and each takes finitely many steps, so *)
(* that fairness of all of them is fairness of each.                       *)
LiveSpec ==
  /\ Spec /\ WF_vars(RunsStep) /\ WF_vars(TakeStep) /\ WF_vars(TasksStep)
  /\ \A c \in Client : WF_vars(Continue(c))

----------------------------------------------------------------------------
(* Every variable keeps its type: a run has predicted, and waits for,      *)
(* cracks of its own, and a task is of a run.                              *)
TypeOK ==
  /\ kind \in {"joinable", "detached"}
  /\ status_ \in {"UNINITIALIZED", "IDLE", "RUNNING", "COMPLETED", "ERROR"}
  /\ cancelled_ \in BOOLEAN /\ model \in BOOLEAN /\ pool \in {"none", "open", "stopped"}
  /\ thread_ \in Run \cup {NULL} /\ crash \in {NULL, "null", "divide", "freed", "terminate"}
  /\ taken \subseteq Task
  /\ \A r \in Run : run[r].predicted \subseteq 1..run[r].cracks /\ run[r].pending \subseteq SUBSET (1..run[r].cracks)

(* Used within initialize .. shutdown, with one execute of a joinable      *)
(* module per life, one life and no run in progress at the shutdown of a   *)
(* Washburn module, and no predict_batch left by an exception, a module    *)
(* never ends the process, however calls, runs and tasks interleave: no    *)
(* task or run meets an adapter, pool, model or input that is gone.        *)
NoCrashInLife ==
  crash # NULL => misuse \cap (IF kind = "joinable" THEN {"again", "outside"}
                               ELSE {"outside", "abandoned", "reinitialized", "rethrown"}) # {}

(* When shutdown() has returned nothing of the module goes on and status_  *)
(* stays UNINITIALIZED unless somebody cancels; only a Washburn run that   *)
(* was in progress at that moment goes on and may overwrite it.            *)
ShutdownIsFinal ==
  life = "shut" /\ call[Owner].at = "idle" /\ misuse \cap {"abandoned", "outside"} = {} =>
    /\ Active = {} /\ Drained /\ \A c \in Client : call[c].at # "idle" => call[c].op = "cancel"
    /\ status_ \in {"UNINITIALIZED", "IDLE"}
    /\ status_ = "IDLE" => cancels > 0

(* A result with cracks missing is stored as COMPLETED only by             *)
(* execute_sync, which does not look at cancelled_, or when another        *)
(* execute took the cancellation back.                                     *)
PartialIsTold ==
  \A r \in Run :
    run[r].verdict = "COMPLETED" /\ ~run[r].failed /\ run[r].predicted # 1..run[r].cracks =>
      run[r].mark = "reset" \/ (run[r].by = "execute_sync" /\ run[r].mark = "cancelled")

(* Every accepted execute calls its callback, every batch is computed, and *)
(* every call returns, unless the process ended; and so does shutdown(),   *)
(* unless a worker of the pool missed the notify of its stop.              *)
Busy == Active # {} \/ \E c \in Client : call[c].at \notin {"idle", "hung"}
AnsweredUnlessCrashedOrHung == Busy ~> ~Busy \/ crash # NULL
============================================================================
