----------------------------- MODULE VrPreview -----------------------------
(***************************************************************************)
(* backend/modules/vr_preview/vr_module.cpp: VRPreviewModule.  A build     *)
(* submits one task per crack to the worker pool and waits for their       *)
(* futures; builds started by execute or build_preview_async are tasks of  *)
(* the same pool.  The pool is the FIFO channel of tasks that ThreadPool   *)
(* is shown to implement, with a worker per member of Worker.              *)
(*                                                                         *)
(* The clients call the module concurrently; its owner shuts it down when  *)
(* no other client is in a call, and none calls it after that.  A task is  *)
(* <<b, c>>: the task of crack c of build b, or for c = 0 the build.       *)
(*                                                                         *)
(* cancelled_ only decides whether a build that ends stores IDLE or        *)
(* COMPLETED, which no guard tells apart: it is read and set in the steps  *)
(* of status_.                                                             *)
(***************************************************************************)
EXTENDS Naturals, Sequences, FiniteSets

CONSTANTS
  Client,     \* threads that call the module
  Worker,
  NULL,
  Input,      \* what a build may be given: [cracks, bad]
  MaxBuilds,  \* bound: builds in a behaviour
  MaxCracks,  \* bound: cracks of a build
  MaxCancels  \* bound: calls of cancel

ASSUME VrAssumption ==
  /\ IsFiniteSet(Worker) /\ Worker # {}
  /\ MaxBuilds \in Nat /\ MaxCracks \in Nat /\ MaxCancels \in Nat
  /\ NULL \notin Nat /\ NULL \notin Nat \X Nat
  /\ Input \subseteq [cracks : 0..MaxCracks, bad : (0..MaxCracks) \cup {NULL}]
  /\ IsFiniteSet(Client) /\ Client \cap {NULL, "execute", "async"} = {}

Build == 1..MaxBuilds
Crack == 1..MaxCracks
Task == Build \X (0..MaxCracks)

VARIABLES
  tasks,      \* tasks of the pool that no worker took
  worker,     \* the task a worker runs, or NULL
  stop,       \* stop_ of the pool
  build,      \* build[b]: [by, cracks, bad, at, next]; bad is the crack whose mesh
              \* throws, 0 for the porcelain's, or NULL
  future,     \* future[b][c]: "none", "pending", "running", "set" or "thrown"
  status_, cancelled_,
  client,     \* client[c]: "idle", "execute" or "execute_sync" after the test of
              \* status_, "start" before execute's submit, "sync" in a build
  life,       \* "up", "join" in shutdown, "hung" there for ever, "down"
  cancels,    \* history: calls of cancel
  overtaken,  \* history: clients since whose test another call set RUNNING
  races       \* history: calls of such a client that set RUNNING over RUNNING

history == <<cancels, overtaken, races>>
callVars == <<status_, cancelled_, client, life, history>>
vars == <<tasks, worker, stop, build, future, callVars>>

TypeOK ==
  /\ tasks \in Seq(Task) /\ worker \in [Worker -> Task \cup {NULL}] /\ stop \in BOOLEAN
  /\ build \in [Build -> [by : {NULL, "execute", "async"} \cup Client,
                          cracks : 0..MaxCracks, bad : (0..MaxCracks) \cup {NULL},
                          at : {"none", "queued", "submit", "get", "ok", "failed"},
                          next : 1..MaxCracks + 1]]
  /\ future \in [Build -> [Crack -> {"none", "pending", "running", "set", "thrown"}]]
  /\ status_ \in {"UNINITIALIZED", "IDLE", "RUNNING", "COMPLETED", "ERROR"}
  /\ cancelled_ \in BOOLEAN
  /\ client \in [Client -> {"idle", "execute", "execute_sync", "start", "sync"}]
  /\ life \in {"up", "join", "hung", "down"}
  /\ cancels \in Nat /\ overtaken \in SUBSET Client /\ races \in Nat

(* The module after initialize.                                            *)
Init ==
  /\ tasks = <<>> /\ worker = [w \in Worker |-> NULL] /\ stop = FALSE
  /\ build = [b \in Build |-> [by |-> NULL, cracks |-> 0, bad |-> NULL, at |-> "none", next |-> 1]]
  /\ future = [b \in Build |-> [c \in Crack |-> "none"]]
  /\ status_ = "IDLE" /\ cancelled_ = FALSE /\ client = [c \in Client |-> "idle"]
  /\ life = "up" /\ cancels = 0 /\ overtaken = {} /\ races = 0

Started(b) == build[b].at # "none"
Ended(b) == build[b].at \in {"ok", "failed"}
New(b) == ~Started(b) /\ (b > 1 => Started(b - 1))
Begun(b, input, by, at) ==
  build' = [build EXCEPT ![b] = [by |-> by, cracks |-> input.cracks, bad |-> input.bad,
                                 at |-> at, next |-> 1]]
-----------------------------------------------------------------------------
MayCall(c) == client[c] = "idle" /\ life = "up"

(* execute without a look at the status (mutant).                          *)
Check_unguarded(c, op) ==
  /\ MayCall(c)
  /\ client' = [client EXCEPT ![c] = op]
  /\ UNCHANGED <<tasks, worker, stop, build, future, status_, cancelled_, life, history>>

(* execute and execute_sync: the test of status_.  They return false when  *)
(* it is RUNNING.                                                          *)
Check(c, op) ==
  /\ MayCall(c) /\ status_ # "RUNNING"
  /\ client' = [client EXCEPT ![c] = op]
  /\ UNCHANGED <<tasks, worker, stop, build, future, status_, cancelled_, life, history>>

(* ... and the stores, which another call's may have overtaken.            *)
Tested(c) == client[c] \in {"execute", "execute_sync"}
SetRunning(c) ==
  /\ status_' = "RUNNING" /\ cancelled_' = FALSE
  /\ overtaken' = {d \in Client \ {c} : d \in overtaken \/ Tested(d)}
  /\ races' = races + (IF c \in overtaken /\ status_ = "RUNNING" THEN 1 ELSE 0)

Enter(c) ==
  /\ client[c] = "execute" /\ SetRunning(c)
  /\ client' = [client EXCEPT ![c] = "start"]
  /\ UNCHANGED <<tasks, worker, stop, build, future, life, cancels>>

(* execute: the build becomes a task.                                      *)
Execute(c, b, input) ==
  /\ client[c] = "start" /\ New(b)
  /\ tasks' = Append(tasks, <<b, 0>>) /\ Begun(b, input, "execute", "queued")
  /\ client' = [client EXCEPT ![c] = "idle"]
  /\ UNCHANGED <<worker, stop, future, status_, cancelled_, life, history>>

(* execute on an input whose porcelain_id is no number throws after it set *)
(* the status, which stays RUNNING.                                        *)
ExecuteThrows(c) ==
  /\ client[c] = "start"
  /\ client' = [client EXCEPT ![c] = "idle"]
  /\ UNCHANGED <<tasks, worker, stop, build, future, status_, cancelled_, life, history>>

(* build_preview_async, or one element of build_batch_preview.             *)
BuildPreviewAsync(c, b, input) ==
  /\ MayCall(c) /\ New(b)
  /\ tasks' = Append(tasks, <<b, 0>>) /\ Begun(b, input, "async", "queued")
  /\ UNCHANGED <<worker, stop, future, callVars>>

(* execute_sync: the client runs the build itself.                         *)
ExecuteSync(c, b, input) ==
  /\ client[c] = "execute_sync" /\ New(b) /\ SetRunning(c)
  /\ client' = [client EXCEPT ![c] = "sync"]
  /\ Begun(b, input, c, "submit")
  /\ UNCHANGED <<tasks, worker, stop, future, life, cancels>>

Cancelled == cancelled_' = TRUE /\ status_' = "IDLE" /\ cancels' = cancels + 1

Cancel(c) ==
  /\ MayCall(c) /\ cancels < MaxCancels /\ Cancelled
  /\ UNCHANGED <<tasks, worker, stop, build, future, client, life, overtaken, races>>

(* shutdown: cancel, stop the pool and join its workers.  The pool waits   *)
(* for ever when its notify came while a worker that had found no task was *)
(* not asleep yet.                                                         *)
Shutdown ==
  /\ \A c \in Client : MayCall(c)
  /\ Cancelled /\ stop' = TRUE
  /\ \/ life' = "join"
     \/ life' = "hung" /\ tasks = <<>> /\ \E w \in Worker : worker[w] = NULL
  /\ UNCHANGED <<tasks, worker, build, future, client, overtaken, races>>

(* The workers leave when the queue is empty; then the pool is deleted.    *)
ShutdownReturns ==
  /\ life = "join" /\ tasks = <<>> /\ \A w \in Worker : worker[w] = NULL
  /\ status_' = "UNINITIALIZED" /\ life' = "down"
  /\ UNCHANGED <<tasks, worker, stop, build, future, cancelled_, client, history>>
-----------------------------------------------------------------------------
(* A worker takes the oldest task: a build starts, or a crack's mesh.      *)
Take(w) ==
  LET b == Head(tasks)[1]
      c == Head(tasks)[2]
  IN  /\ worker[w] = NULL /\ tasks # <<>>
      /\ tasks' = Tail(tasks) /\ worker' = [worker EXCEPT ![w] = Head(tasks)]
      /\ IF c = 0
         THEN build' = [build EXCEPT ![b].at = "submit"] /\ UNCHANGED future
         ELSE future' = [future EXCEPT ![b][c] = "running"] /\ UNCHANGED build
      /\ UNCHANGED <<stop, callVars>>

(* An exception that does not reach the future (mutant).                   *)
GenerateCrackMesh_swallowed(w) ==
  LET b == worker[w][1]
      c == worker[w][2]
  IN  /\ worker[w] # NULL /\ c # 0
      /\ future' = [future EXCEPT ![b][c] = IF build[b].bad = c THEN @ ELSE "set"]
      /\ worker' = [worker EXCEPT ![w] = NULL]
      /\ UNCHANGED <<tasks, stop, build, callVars>>

(* generate_crack_mesh returns or throws; either is put into the future.   *)
GenerateCrackMesh(w) ==
  LET b == worker[w][1]
      c == worker[w][2]
  IN  /\ worker[w] # NULL /\ c # 0
      /\ future' = [future EXCEPT ![b][c] = IF build[b].bad = c THEN "thrown" ELSE "set"]
      /\ worker' = [worker EXCEPT ![w] = NULL]
      /\ UNCHANGED <<tasks, stop, build, callVars>>

(* A build ends.  run_async_impl reports a failed one as COMPLETED too.    *)
End(b, result) ==
  /\ build' = [build EXCEPT ![b].at = result]
  /\ worker' = [w \in Worker |-> IF worker[w] = <<b, 0>> THEN NULL ELSE worker[w]]
  /\ status_' = CASE build[b].by = "execute" -> (IF cancelled_ THEN "IDLE" ELSE "COMPLETED")
                  [] build[b].by \in Client -> (IF result = "ok" THEN "COMPLETED" ELSE "ERROR")
                  [] OTHER -> status_
  /\ client' = [c \in Client |-> IF build[b].by = c THEN "idle" ELSE client[c]]
  /\ UNCHANGED <<tasks, stop, future, cancelled_, life, history>>

(* generate_porcelain_mesh throws, or submit does on a stopped pool.       *)
SubmitThrows(b) ==
  /\ build[b].at = "submit" /\ (build[b].bad = 0 \/ (stop /\ build[b].next <= build[b].cracks))
  /\ End(b, "failed")

(* build_preview_sync submits the next crack's task.                       *)
SubmitCrack(b) ==
  LET c == build[b].next IN
  /\ build[b].at = "submit" /\ build[b].bad # 0 /\ ~stop /\ c <= build[b].cracks
  /\ tasks' = Append(tasks, <<b, c>>)
  /\ future' = [future EXCEPT ![b][c] = "pending"]
  /\ build' = [build EXCEPT ![b].next = c + 1]
  /\ UNCHANGED <<worker, stop, callVars>>

(* All tasks are submitted; the loop over the futures begins.              *)
Submitted(b) ==
  /\ build[b].at = "submit" /\ build[b].bad # 0 /\ build[b].next > build[b].cracks
  /\ build' = [build EXCEPT ![b].at = "get", ![b].next = 1]
  /\ UNCHANGED <<tasks, worker, stop, future, callVars>>

(* A loop over the futures that stops one short (mutant).                  *)
GetCrack_allButOne(b) ==
  LET c == build[b].next
      state == IF c < build[b].cracks THEN future[b][c] ELSE "all"
  IN  /\ build[b].at = "get"
      /\ \/ state = "set" /\ build' = [build EXCEPT ![b].next = c + 1]
            /\ UNCHANGED <<tasks, worker, stop, future, callVars>>
         \/ state = "thrown" /\ End(b, "failed")
         \/ state = "all" /\ End(b, "ok")

(* f.get() of the next crack: waits, takes the mesh, or throws, which ends *)
(* the build without waiting for the others.                               *)
GetCrack(b) ==
  LET c == build[b].next
      state == IF c <= build[b].cracks THEN future[b][c] ELSE "all"
  IN  /\ build[b].at = "get"
      /\ \/ state = "set" /\ build' = [build EXCEPT ![b].next = c + 1]
            /\ UNCHANGED <<tasks, worker, stop, future, callVars>>
         \/ state = "thrown" /\ End(b, "failed")
         \/ state = "all" /\ End(b, "ok")

BuildStep(b) == SubmitThrows(b) \/ SubmitCrack(b) \/ Submitted(b) \/ GetCrack(b)
WorkerStep(w) == Take(w) \/ GenerateCrackMesh(w)

Starts(c, b, input) == Execute(c, b, input) \/ BuildPreviewAsync(c, b, input) \/ ExecuteSync(c, b, input)
Call(c) == Check(c, "execute") \/ Check(c, "execute_sync") \/ Enter(c) \/ ExecuteThrows(c) \/ Cancel(c)

Next ==
  \/ \E c \in Client : Call(c) \/ \E b \in Build, i \in Input : Starts(c, b, i)
  \/ \E b \in Build : BuildStep(b)
  \/ \E w \in Worker : WorkerStep(w)
  \/ Shutdown \/ ShutdownReturns

Spec == Init /\ [][Next]_vars

(* The threads run on when they can; the client need not call anything.    *)
Fairness ==
  /\ \A b \in Build : WF_vars(BuildStep(b))
  /\ \A w \in Worker : WF_vars(WorkerStep(w))
  /\ WF_vars(ShutdownReturns)

FairSpec == Spec /\ Fairness
-----------------------------------------------------------------------------
Outstanding(b) == {c \in Crack : future[b][c] \in {"pending", "running"}}
InCharge == {b \in Build : build[b].by # "async" /\ Started(b) /\ ~Ended(b)}

(* Every worker runs a build that waits for the task of a crack.           *)
AllWorkersWait ==
  \A w \in Worker :
    /\ worker[w] # NULL /\ worker[w][2] = 0
    /\ LET b == worker[w][1] IN
         build[b].at = "get" /\ build[b].next \in Outstanding(b)

(* A task refers to the crack in its build's input.  It outlives the build *)
(* only when the build failed, because an earlier crack's mesh threw or    *)
(* the pool was stopped while it submitted.                                *)
TasksOutliveFailedOnly ==
  \A b \in Build : Ended(b) =>
    \A c \in Outstanding(b) :
      /\ build[b].at = "failed"
      /\ stop \/ \E d \in Crack : d < c /\ future[b][d] = "thrown"

(* execute and execute_sync run one build at a time: every build that runs *)
(* beside the one the status stands for is due to a call of cancel, which  *)
(* clears the status of a build that goes on, or to a call that set the    *)
(* status after another one that came between its test and its set.        *)
OneBuildPerCancelOrRace ==
  Cardinality(InCharge) <= cancels + races + (IF status_ = "RUNNING" THEN 1 ELSE 0)

(* The builds that are started end (they are finitely many) and shutdown   *)
(* returns, unless every worker waits in a build, or, for shutdown, the    *)
(* pool's notify to stop was lost.                                         *)
EndsUnlessAllWait ==
  []<>(\/ AllWorkersWait
       \/ /\ \A b \in Build : Started(b) => Ended(b)
          /\ stop => life \in {"down", "hung"})
=============================================================================
