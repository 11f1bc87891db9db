------------------------ MODULE ComputeModule_proofs ------------------------
(***************************************************************************)
(* The life of a compute module, for any number of clients, runs, cracks   *)
(* and workers: TypeOK, NoCrashInLife, ShutdownIsFinal and PartialIsTold   *)
(* hold in every reachable state.                                          *)
(*                                                                         *)
(* ComputeInv joins what each part of the module keeps for the others: a   *)
(* run its cracks (RunsOK), the pool the tasks of runs that wait for them  *)
(* (PoolOK), a client the run it waits for (ClientsOK, Awaited), and the   *)
(* module its life (ModuleOK).  What crashes the process is then excluded  *)
(* for a module that was used within initialize .. shutdown (WithinOK),    *)
(* and what outlives shutdown for one that was used properly (ProperOK).   *)
(* The uses themselves only ever become worse (MisuseGrows), so each of    *)
(* the two implications is inductive.                                      *)
(***************************************************************************)
EXTENDS ComputeModule, FiniteSetTheorems, SequenceTheorems, WellFoundedInduction, TLAPS

(***************************************************************************)
(* The states of runs and calls.                                           *)
(***************************************************************************)
RunState ==
  [by : {NULL, "execute", "execute_sync", "batch", "batch_async"}, cracks : 0..MaxCount,
   at : {"none", "compute", "submit", "get", "done", "store", "answer", "ended"},
   unsent : Seq(SUBSET (1..MaxCount)), pending : SUBSET SUBSET (1..MaxCount),
   predicted : SUBSET (1..MaxCount), thrown : SUBSET (1..MaxCount), failed : BOOLEAN,
   verdict : {NULL, "COMPLETED", "IDLE", "ERROR"}, mark : {"no", "cancelled", "reset"}]
CallState ==
  [op : {"none", "execute", "execute_sync", "batch", "batch_async", "cancel", "shutdown"},
   at : {"idle", "flag", "status", "start", "wait", "cancel", "join", "drain", "hung"}, run : Run \cup {NULL}]

Typed ==
  /\ kind \in {"joinable", "detached"} /\ cancelled_ \in BOOLEAN /\ model \in BOOLEAN
  /\ status_ \in {"UNINITIALIZED", "IDLE", "RUNNING", "COMPLETED", "ERROR"}
  /\ pool \in {"none", "open", "stopped"} /\ thread_ \in Run \cup {NULL}
  /\ tasks \in Seq(Task) /\ taken \subseteq Task
  /\ run \in [Run -> RunState] /\ call \in [Client -> CallState]
  /\ crash \in {NULL, "null", "divide", "freed", "terminate"}
  /\ life \in {"new", "live", "shut"} /\ cancels \in Nat /\ lives \in Nat

(***************************************************************************)
(* Runs.  An execution that was never cancelled has every crack predicted, *)
(* in a task or to be submitted, unless it failed; the mark of a run tells *)
(* whether cancelled_ is set.                                              *)
(***************************************************************************)
Covered(x) ==
  \A i \in 1..x.cracks : \/ i \in x.predicted \/ \E p \in x.pending : i \in p
                         \/ \E k \in DOMAIN x.unsent : i \in x.unsent[k]

(* The chunks still to be submitted are new.                               *)
UnsentOK(x) ==
  /\ \A k \in DOMAIN x.unsent : /\ x.unsent[k] # {} /\ x.unsent[k] \subseteq 1..x.cracks
                                /\ x.unsent[k] \cap x.predicted = {}
                                /\ \A p \in x.pending : x.unsent[k] \cap p = {}
  /\ \A k, l \in DOMAIN x.unsent : k # l => x.unsent[k] \cap x.unsent[l] = {}

Stage(x) ==
  /\ x.predicted \subseteq 1..x.cracks /\ \A p \in x.pending : p \subseteq 1..x.cracks
  /\ x.at = "submit" => x.unsent # <<>>
  /\ x.at \in {"compute", "get"} => x.unsent = <<>>
  /\ x.at = "compute" => x.pending = {}
  /\ x.at \in {"done", "store", "answer"} /\ ~x.failed => x.unsent = <<>> /\ x.pending = {}
  /\ x.verdict # NULL <=> x.at \in {"store", "answer"}
  /\ x.verdict # NULL => x.by \in {"execute", "execute_sync"}
  /\ x.by = "batch_async" /\ x.at = "get" => x.pending # {}

Told(x) ==
  x.verdict = "COMPLETED" /\ ~x.failed /\ x.predicted # 1..x.cracks =>
    x.mark = "reset" \/ (x.by = "execute_sync" /\ x.mark = "cancelled")

MarkOK(x, flag) ==
  x.at \notin {"none", "ended"} /\ x.verdict = NULL =>
    /\ flag <=> x.mark = "cancelled"
    /\ x.by \in {"execute", "execute_sync"} /\ ~x.failed /\ x.mark = "no" /\ x.at # "compute" => Covered(x)

RunOK(x, flag) == UnsentOK(x) /\ Stage(x) /\ Told(x) /\ MarkOK(x, flag)

(* Runs are used up in order, and one is left for every call that is about *)
(* to start one.                                                           *)
Starting == {c \in Client : call[c].at \in {"flag", "status", "start"}}
RunsLeft ==
  /\ \E k \in 0..MaxRuns : \A r \in Run : run[r].at = "none" <=> r > k
  /\ IsFiniteSet(Starting) /\ Cardinality(Starting) <= Cardinality(Free)

RunsOK == RunsLeft /\ \A r \in Run : RunOK(run[r], cancelled_)

(***************************************************************************)
(* Tasks.  A task of a run that waits for it is pending there, no crack is *)
(* in two tasks, and those of a task are still to be predicted.            *)
(***************************************************************************)
Apart(t, u) == t.run = u.run => t.cracks \cap u.cracks = {}
Gone(x) == x.by # "batch_async" /\ x.at \notin {"submit", "get"}
Waits(x, t) == ~Gone(x) => t.cracks \in x.pending
Untouched(x, t) == ~Gone(x) => t.cracks \cap x.predicted = {}
Unfinished(x, t) == ~Gone(x) => ~(t.cracks \subseteq x.predicted)

QueueOK ==
  \A i \in DOMAIN tasks :
    LET t == tasks[i] IN
    /\ t.cracks # {} /\ run[t.run].at # "none" /\ Waits(run[t.run], t) /\ Untouched(run[t.run], t)
    /\ \A j \in DOMAIN tasks : i # j => Apart(t, tasks[j])
    /\ \A u \in taken : Apart(t, u)
TakenOK ==
  \A t \in taken :
    /\ t.cracks # {} /\ run[t.run].at # "none" /\ Waits(run[t.run], t) /\ Unfinished(run[t.run], t)
    /\ \A u \in taken : t # u => Apart(t, u)

(* A task of a run, queued or taken.                                       *)
InPool(r, p) == [run |-> r, cracks |-> p] \in taken \/ \E i \in DOMAIN tasks : tasks[i] = [run |-> r, cracks |-> p]
PendingOK == \A r \in Run : run[r].at \in {"submit", "get"} => \A p \in run[r].pending : InPool(r, p)
PoolOK == QueueOK /\ TakenOK /\ PendingOK

(***************************************************************************)
(* Calls.  A synchronous run, and a batch up to its last submit, has a     *)
(* caller that waits for it.  Nobody else is in a call during shutdown.    *)
(***************************************************************************)
CallOK(x) ==
  /\ x.at = "idle" <=> x.op = "none"
  /\ x.at \in {"flag", "status", "start"} => x.op \in {"execute", "execute_sync"}
  /\ x.at = "wait" => x.op \in {"execute_sync", "batch", "batch_async"} /\ x.run \in Run
  /\ x.at = "cancel" => x.op \in {"cancel", "shutdown"}
  /\ x.at \in {"join", "drain", "hung"} => x.op = "shutdown"
  /\ x.op = "shutdown" => x.at \in {"cancel", "join", "drain", "hung"}

(* The owner is in shutdown.                                               *)
Down == call[Owner].op = "shutdown"

ClientsOK ==
  \A c \in Client :
    /\ CallOK(call[c]) /\ (call[c].op = "cancel" => cancels > 0)
    /\ c # Owner => call[c].op # "shutdown" /\ (Down => call[c].at = "idle")
    /\ call[c].at = "wait" => run[call[c].run].at # "none" /\ run[call[c].run].by = call[c].op

(* A run with a caller that waits for it.                                  *)
Needs(x) == x.by \in {"execute_sync", "batch"} \/ (x.by = "batch_async" /\ x.at # "get")

Awaited == \A r \in Active : Needs(run[r]) => \E c \in Client : call[c].at = "wait" /\ call[c].run = r

(* The pool is stopped by shutdown only, and a module lives with a model.  *)
ModuleOK ==
  /\ Down => life = "shut"
  /\ life = "live" => model
  /\ pool = "stopped" => Down /\ call[Owner].at \in {"drain", "hung"}
  /\ \A r \in Active :
       /\ run[r].by \in {"execute", "execute_sync", "batch", "batch_async"}
       /\ kind = "joinable" /\ run[r].by \in {"execute", "execute_sync"} => run[r].at # "submit"

(***************************************************************************)
(* As long as nobody used the module outside of a life or left a Washburn  *)
(* run behind, nothing goes on outside of a life.                          *)
(***************************************************************************)
Within == misuse \cap {"abandoned", "outside"} = {}
WithinOK ==
  /\ \A c \in Client : call[c].op \in {"execute", "execute_sync", "batch", "batch_async"} => life = "live"
  /\ \A r \in Active : run[r].by = "execute" =>
       /\ kind = "joinable" => thread_ = r
       /\ life = "live" \/ (kind = "joinable" /\ Down /\ call[Owner].at \in {"cancel", "join"})
  /\ Active # {} \/ ~Drained => model /\ (life = "live" \/ Down)
  /\ life = "shut" /\ ~Down => status_ \in {"UNINITIALIZED", "IDLE"} /\ (status_ = "IDLE" => cancels > 0)

(* As long as the module is used as it should be, runs and tasks meet what *)
(* they need.                                                              *)
Proper ==
  misuse \cap (IF kind = "joinable" THEN {"again", "outside"}
               ELSE {"outside", "abandoned", "reinitialized", "rethrown"}) = {}
ProperOK ==
  /\ crash = NULL
  /\ life = "live" => pool = "open"
  /\ \A t \in taken : ~Gone(run[t.run])
  /\ \A i \in DOMAIN tasks : ~Gone(run[tasks[i].run])

ComputeInv ==
  /\ Typed /\ (kind = "joinable" => "abandoned" \notin misuse)
  /\ RunsOK /\ PoolOK /\ ClientsOK /\ Awaited /\ ModuleOK
  /\ (Within => WithinOK) /\ (Proper => ProperOK)

(***************************************************************************)
(* What the helpers of the module do to calls and runs.                    *)
(***************************************************************************)
LEMMA IdleFacts ==
  /\ idle \in CallState /\ CallOK(idle) /\ idle.at = "idle" /\ idle.op = "none"
BY DEF idle, CallState, CallOK

(* A run nobody has begun.                                                 *)
LEMMA UnusedFacts ==
  /\ unused \in RunState /\ unused.at = "none" /\ unused.pending = {} /\ unused.predicted = {}
  /\ unused.cracks = 0 /\ unused.verdict = NULL /\ unused.unsent = <<>> /\ unused.failed = FALSE
  /\ unused.thrown = {}
BY ComputeAssumption DEF unused, RunState

(* A step of one call.                                                     *)
Moves(c, y) == call' = [call EXCEPT ![c] = y]

(* A step of one call leaves the calls of the other clients alone.         *)
LEMMA MoveFacts ==
  ASSUME Typed, NEW c \in Client, NEW y \in CallState, Moves(c, y)
  PROVE  /\ call' \in [Client -> CallState] /\ call'[c] = y
         /\ \A d \in Client \ {c} : call'[d] = call[d]
BY DEF Typed, Moves

(* A call that goes on keeps its operation and its run.                    *)
LEMMA GoingFacts ==
  ASSUME Typed, NEW c \in Client,
         NEW at \in {"flag", "status", "start", "cancel", "join", "drain", "hung"}, Going(c, at)
  PROVE  \E y \in CallState : Moves(c, y) /\ y.at = at /\ y.op = call[c].op /\ y.run = call[c].run
<1> DEFINE y == [call[c] EXCEPT !.at = at]
<1>1. call[c] \in CallState
  BY DEF Typed
<1>2. y \in CallState /\ y.at = at /\ y.op = call[c].op /\ y.run = call[c].run
  BY <1>1 DEF CallState
<1>3. Moves(c, y)
  BY DEF Going, Moves
<1> QED BY <1>2, <1>3

(* A client whose call returns is idle.                                    *)
LEMMA ReturnFacts ==
  ASSUME NEW c \in Client, Return(c)
  PROVE  Moves(c, idle)
BY DEF Return, Moves

(* A run as another one, but for its mark.                                 *)
Same(x, y) ==
  /\ y.by = x.by /\ y.cracks = x.cracks /\ y.at = x.at /\ y.unsent = x.unsent /\ y.pending = x.pending
  /\ y.predicted = x.predicted /\ y.thrown = x.thrown /\ y.failed = x.failed /\ y.verdict = x.verdict

(* Marking runs changes the marks of the active ones without a verdict     *)
(* only.                                                                   *)
LEMMA MarkedFacts ==
  ASSUME Typed, NEW from, NEW to \in {"no", "cancelled", "reset"}, run' = Marked(from, to)
  PROVE  /\ run' \in [Run -> RunState]
         /\ \A r \in Run :
              /\ Same(run[r], run'[r])
              /\ run'[r].mark = IF r \in Active /\ run[r].verdict = NULL /\ run[r].mark \in from
                                THEN to ELSE run[r].mark
<1> DEFINE m(r) == [run[r] EXCEPT !.mark = to]
<1>1. ASSUME NEW r \in Run PROVE m(r) \in RunState /\ Same(run[r], m(r)) /\ m(r).mark = to
  <2>1. run[r] \in RunState
    BY DEF Typed
  <2> QED BY <2>1 DEF RunState, Same
<1>2. ASSUME NEW r \in Run PROVE Same(run[r], run[r]) /\ run[r] \in RunState
  BY DEF Same, Typed
<1> HIDE DEF m
<1>3. run' = [r \in Run |-> IF r \in Active /\ run[r].verdict = NULL /\ run[r].mark \in from
                            THEN m(r) ELSE run[r]]
  BY DEF Marked, m
<1> QED BY <1>1, <1>2, <1>3

(* A step of one run.                                                      *)
Becomes(r, y) == run' = [run EXCEPT ![r] = y]

(* A step of one run leaves the others alone.                              *)
LEMMA BecomesFacts ==
  ASSUME Typed, NEW r \in Run, NEW y \in RunState, Becomes(r, y)
  PROVE  /\ run' \in [Run -> RunState] /\ run'[r] = y
         /\ \A q \in Run \ {r} : run'[q] = run[q]
BY DEF Typed, Becomes

(***************************************************************************)
(* The count of the runs that are left.                                    *)
(***************************************************************************)
LEMMA FreeFacts == IsFiniteSet(Run) /\ IsFiniteSet(Free) /\ Cardinality(Free) \in Nat
<1>1. IsFiniteSet(Run)
  BY FS_Interval, ComputeAssumption DEF Run
<1>2. Free \subseteq Run
  BY DEF Free
<1> QED BY <1>1, <1>2, FS_Subset, FS_CardinalityType

StartsAt == {"flag", "status", "start"}

(* Runs are left when no run begins and no other call is about to begin    *)
(* one.                                                                    *)
LEMMA RunsLeftSame ==
  ASSUME RunsLeft, \A r \in Run : run'[r].at = "none" <=> run[r].at = "none",
         \A c \in Client : call'[c].at \in StartsAt => call[c].at \in StartsAt
  PROVE  RunsLeft'
<1>1. Free' = Free
  BY DEF Free
<1>2. Starting' \subseteq Starting
  BY DEF Starting, StartsAt
<1>3. IsFiniteSet(Starting') /\ Cardinality(Starting') <= Cardinality(Starting)
      /\ Cardinality(Starting') \in Nat /\ Cardinality(Starting) \in Nat
  BY <1>2, FS_Subset, FS_CardinalityType DEF RunsLeft
<1>4. Cardinality(Starting') <= Cardinality(Free')
  BY <1>1, <1>3, FreeFacts DEF RunsLeft
<1> QED BY <1>3, <1>4 DEF RunsLeft

(* Runs are left when one call more is about to begin one that is left.    *)
LEMMA RunsLeftCall ==
  ASSUME RunsLeft, RunLeft, run' = run, NEW c \in Client,
         \A d \in Client : call'[d].at \in StartsAt => call[d].at \in StartsAt \/ d = c
  PROVE  RunsLeft'
<1>1. Free' = Free
  BY DEF Free
<1>2. Cardinality(Starting) < Cardinality(Free) /\ IsFiniteSet(Starting)
  BY DEF RunLeft, RunsLeft, Starting
<1>3. IsFiniteSet(Starting \cup {c}) /\ Cardinality(Starting) \in Nat
      /\ Cardinality(Starting \cup {c}) <= Cardinality(Starting) + 1
  BY SMTT(20), <1>2, FS_AddElement, FS_CardinalityType
<1>4. Starting' \subseteq Starting \cup {c}
  BY DEF Starting, StartsAt
<1>5. IsFiniteSet(Starting') /\ Cardinality(Starting') <= Cardinality(Starting \cup {c})
      /\ Cardinality(Starting') \in Nat /\ Cardinality(Starting \cup {c}) \in Nat
  BY <1>3, <1>4, FS_Subset, FS_CardinalityType
<1>6. Cardinality(Starting') <= Cardinality(Free')
  BY <1>1, <1>2, <1>3, <1>5, FreeFacts
<1> QED BY <1>5, <1>6 DEF RunsLeft

(* The first unused run.                                                   *)
LEMMA NewRunFacts ==
  ASSUME RunsLeft, 0 < Cardinality(Free)
  PROVE  /\ NewRun \in Run /\ run[NewRun].at = "none"
         /\ \A q \in Run : q < NewRun => run[q].at # "none"
         /\ \A q \in Run : q > NewRun => run[q].at = "none"
<1>1. PICK k \in 0..MaxRuns : \A r \in Run : run[r].at = "none" <=> r > k
  BY DEF RunsLeft
<1>2. Free # {}
  BY FS_EmptySet
<1>3. PICK r \in Run : r > k
  BY <1>1, <1>2 DEF Free
<1>4. k + 1 \in Run /\ run[k + 1].at = "none" /\ \A q \in 1..(k + 1) - 1 : run[q].at # "none"
  BY <1>1, <1>3, ComputeAssumption DEF Run
<1>5. NewRun \in Run /\ run[NewRun].at = "none" /\ \A q \in 1..NewRun - 1 : run[q].at # "none"
  BY <1>4 DEF NewRun
<1>6. \A q \in Run : q < NewRun => q \in 1..NewRun - 1
  BY <1>5 DEF Run
<1>7. NewRun > k /\ ~(k + 1 < NewRun)
  BY <1>1, <1>4, <1>5, <1>6
<1> QED BY <1>1, <1>5, <1>6, <1>7, ComputeAssumption DEF Run

(* Runs are left when one begins: its call no longer is about to begin it. *)
LEMMA RunsLeftStart ==
  ASSUME Typed, RunsLeft, 0 < Cardinality(Free), NEW y \in RunState, y.at # "none", Becomes(NewRun, y),
         \/ Cardinality(Starting) < Cardinality(Free) /\ Starting' \subseteq Starting
         \/ \E c \in Starting : Starting' \subseteq Starting \ {c}
  PROVE  RunsLeft'
<1> DEFINE r == NewRun
<1>1. r \in Run /\ run[r].at = "none" /\ (\A q \in Run : q < r => run[q].at # "none")
      /\ \A q \in Run : q > r => run[q].at = "none"
  BY NewRunFacts
<1> HIDE DEF r
<1>2. run'[r] = y /\ \A q \in Run \ {r} : run'[q] = run[q]
  BY <1>1, BecomesFacts DEF r
<1>3. \A q \in Run : run'[q].at = "none" <=> q > r
  BY <1>1, <1>2 DEF Run
<1>4. \E k \in 0..MaxRuns : \A q \in Run : run'[q].at = "none" <=> q > k
  <2>1. r \in 0..MaxRuns
    BY <1>1, ComputeAssumption DEF Run
  <2> QED BY <1>3, <2>1
<1>5. Free' = Free \ {r} /\ r \in Free
  BY <1>1, <1>2 DEF Free
<1>6. Cardinality(Free') = Cardinality(Free) - 1 /\ Cardinality(Free) \in Nat
  BY <1>5, FreeFacts, FS_RemoveElement
<1>7. IsFiniteSet(Starting) /\ Cardinality(Starting) <= Cardinality(Free) /\ Cardinality(Starting) \in Nat
  BY FS_CardinalityType DEF RunsLeft
<1>8. IsFiniteSet(Starting') /\ Cardinality(Starting') <= Cardinality(Free')
  <2>1. CASE Cardinality(Starting) < Cardinality(Free) /\ Starting' \subseteq Starting
    <3>1. IsFiniteSet(Starting') /\ Cardinality(Starting') <= Cardinality(Starting)
          /\ Cardinality(Starting') \in Nat
      BY <1>7, <2>1, FS_Subset, FS_CardinalityType
    <3> QED BY <1>6, <1>7, <2>1, <3>1
  <2>2. ASSUME NEW c \in Starting, Starting' \subseteq Starting \ {c}
        PROVE  IsFiniteSet(Starting') /\ Cardinality(Starting') <= Cardinality(Free')
    <3>1. IsFiniteSet(Starting \ {c}) /\ Cardinality(Starting \ {c}) = Cardinality(Starting) - 1
      BY <1>7, FS_RemoveElement
    <3>2. IsFiniteSet(Starting') /\ Cardinality(Starting') <= Cardinality(Starting \ {c})
          /\ Cardinality(Starting') \in Nat
      BY <2>2, <3>1, FS_Subset, FS_CardinalityType
    <3> QED BY <1>6, <1>7, <3>1, <3>2
  <2> QED BY <2>1, <2>2
<1> QED BY <1>4, <1>8 DEF RunsLeft

(***************************************************************************)
(* Steps that change runs without moving a task.                           *)
(***************************************************************************)
Act(x) == x.at \notin {"none", "ended"}
NoTasks(x) == x.at = "none" \/ (~Gone(x) /\ x.pending = {})
PoolFits(x, y) ==
  /\ x.at # "none" => y.at # "none"
  /\ NoTasks(x) \/ Gone(y) \/ (~Gone(x) /\ y.pending = x.pending /\ y.predicted = x.predicted)
  /\ y.at \in {"submit", "get"} => y.pending = {} \/ (x.at \in {"submit", "get"} /\ y.pending = x.pending)

(* The active runs, by their state.                                        *)
LEMMA ActiveFacts == \A r : r \in Active <=> r \in Run /\ Act(run[r])
BY DEF Active, Act

(* Tasks, queued or taken, are of runs and for cracks.                     *)
LEMMA TaskFacts ==
  ASSUME Typed
  PROVE  /\ \A t \in taken : t.run \in Run /\ t.cracks \in SUBSET (1..MaxCount)
         /\ \A i \in DOMAIN tasks : /\ tasks[i] \in Task /\ tasks[i].run \in Run
                                    /\ tasks[i].cracks \in SUBSET (1..MaxCount)
<1>1. \A i \in DOMAIN tasks : tasks[i] \in Task
  BY DEF Typed
<1>2. \A t \in taken : t \in Task
  BY DEF Typed
<1> QED BY <1>1, <1>2 DEF Task

(* What PoolFits keeps of a task of the run.                               *)
LEMMA FitsTask ==
  ASSUME NEW x, NEW y, PoolFits(x, y), NEW t, x.at # "none", Waits(x, t)
  PROVE  /\ y.at # "none" /\ Waits(y, t)
         /\ Untouched(x, t) => Untouched(y, t)
         /\ Unfinished(x, t) => Unfinished(y, t)
BY DEF PoolFits, NoTasks, Waits, Untouched, Unfinished

(* The pool stays as it should be when every run fits its tasks.           *)
LEMMA PoolKeeps ==
  ASSUME Typed, PoolOK, UNCHANGED <<tasks, taken>>, \A r \in Run : PoolFits(run[r], run'[r])
  PROVE  PoolOK'
<1>1. QueueOK'
  <2> SUFFICES ASSUME NEW i \in DOMAIN tasks, NEW t, t = tasks[i]
               PROVE  /\ t.cracks # {} /\ run'[t.run].at # "none" /\ Waits(run'[t.run], t)
                      /\ Untouched(run'[t.run], t)
                      /\ \A j \in DOMAIN tasks : i # j => Apart(t, tasks[j])
                      /\ \A u \in taken : Apart(t, u)
    BY DEF QueueOK
  <2>1. /\ t.cracks # {} /\ run[t.run].at # "none" /\ Waits(run[t.run], t) /\ Untouched(run[t.run], t)
        /\ \A j \in DOMAIN tasks : i # j => Apart(t, tasks[j])
        /\ \A u \in taken : Apart(t, u)
    BY DEF PoolOK, QueueOK
  <2>2. PoolFits(run[t.run], run'[t.run])
    BY TaskFacts
  <2> QED BY <2>1, <2>2, FitsTask
<1>2. TakenOK'
  <2> SUFFICES ASSUME NEW t \in taken
               PROVE  /\ t.cracks # {} /\ run'[t.run].at # "none" /\ Waits(run'[t.run], t)
                      /\ Unfinished(run'[t.run], t)
                      /\ \A u \in taken : t # u => Apart(t, u)
    BY DEF TakenOK
  <2>1. /\ t.cracks # {} /\ run[t.run].at # "none" /\ Waits(run[t.run], t) /\ Unfinished(run[t.run], t)
        /\ \A u \in taken : t # u => Apart(t, u)
    BY DEF PoolOK, TakenOK
  <2>2. PoolFits(run[t.run], run'[t.run])
    BY TaskFacts
  <2> QED BY <2>1, <2>2, FitsTask
<1>3. PendingOK'
  <2> SUFFICES ASSUME NEW r \in Run, run'[r].at \in {"submit", "get"}, NEW p \in run'[r].pending
               PROVE  InPool(r, p)
    BY DEF PendingOK, InPool
  <2>1. run[r].at \in {"submit", "get"} /\ p \in run[r].pending
    BY DEF PoolFits
  <2> QED BY <2>1 DEF PoolOK, PendingOK
<1> QED BY <1>1, <1>2, <1>3 DEF PoolOK

(* Queued and taken tasks that find their run as it was.                   *)
TasksHere ==
  (\A t \in taken : ~Gone(run[t.run])) /\ \A i \in DOMAIN tasks : ~Gone(run[tasks[i].run])

(* The runs of the tasks stay as long as no run with tasks leaves.         *)
LEMMA HereKeeps ==
  ASSUME Typed, PoolOK, TasksHere, UNCHANGED <<tasks, taken>>,
         \A r \in Run : Gone(run[r]) \/ NoTasks(run[r]) \/ ~Gone(run'[r])
  PROVE  TasksHere'
<1>1. ASSUME NEW t, t.run \in Run, t.cracks # {}, run[t.run].at # "none", Waits(run[t.run], t),
             ~Gone(run[t.run])
      PROVE  ~Gone(run'[t.run])
  BY <1>1 DEF Waits, NoTasks
<1>2. \A t \in taken : ~Gone(run'[t.run])
  BY <1>1, TaskFacts DEF PoolOK, TakenOK, TasksHere
<1>3. \A i \in DOMAIN tasks : ~Gone(run'[tasks[i].run])
  BY <1>1, TaskFacts DEF PoolOK, QueueOK, TasksHere
<1> QED BY <1>2, <1>3 DEF TasksHere

(* A use the module does not withstand is never taken back.                *)
LEMMA MisuseGrows ==
  ASSUME misuse \subseteq misuse', kind' = kind
  PROVE  (Within' => Within) /\ (Proper' => Proper)
BY DEF Within, Proper

(* A module used as it should be is used within its life.                  *)
LEMMA ProperWithin == ASSUME ComputeInv, Proper PROVE Within
BY DEF ComputeInv, Typed, Proper, Within

(* Calls keep what they wait for when runs neither vanish nor change       *)
(* hands.                                                                  *)
LEMMA ClientsKeep ==
  ASSUME Typed, ClientsOK, UNCHANGED <<call, cancels>>,
         \A r \in Run : (run[r].at # "none" => run'[r].at # "none" /\ run'[r].by = run[r].by)
  PROVE  ClientsOK'
<1>1. \A c \in Client : CallOK(call[c])
  BY DEF ClientsOK
<1>2. \A c \in Client : call[c].at = "wait" => call[c].run \in Run
  BY <1>1 DEF CallOK
<1>3. Down' <=> Down
  BY DEF Down
<1> QED BY <1>2, <1>3 DEF ClientsOK

(* A step of one run, which may be the end of a proper use.                *)
LEMMA AnyRunStepKeeps ==
  ASSUME ComputeInv, NEW r \in Run, NEW y \in RunState, Becomes(r, y), Active # {} \/ ~Drained,
         y.by = run[r].by, run[r].at # "none", y.at # "none", Act(y) => Act(run[r]),
         Act(y) /\ Needs(y) => Needs(run[r]), y.at = "submit" => run[r].at = "submit",
         RunOK(y, cancelled_), PoolOK', tasks' \in Seq(Task), taken' \subseteq Task,
         Proper' => TasksHere',
         status_' = status_ \/ (r \in Active /\ status_' \in {"IDLE", "COMPLETED", "ERROR"}),
         misuse \subseteq misuse', kind = "joinable" => "abandoned" \notin misuse',
         UNCHANGED <<kind, cancelled_, model, pool, thread_, call, crash, life, cancels, lives>>
  PROVE  ComputeInv'
<1>1. /\ run' \in [Run -> RunState] /\ run'[r] = y /\ \A q \in Run \ {r} : run'[q] = run[q]
  BY BecomesFacts DEF ComputeInv
<1>2. UNCHANGED <<life, cancels, lives, kind, cancelled_, model, pool, thread_, call, crash>>
  OBVIOUS
<1>3. Typed'
  BY <1>1, <1>2 DEF ComputeInv, Typed
<1>4. RunsLeft'
  <2>1. \A q \in Run : run'[q].at = "none" <=> run[q].at = "none"
    BY <1>1
  <2>2. RunsLeft
    BY DEF ComputeInv, RunsOK
  <2> QED BY <1>2, <2>1, <2>2, RunsLeftSame
<1>5. RunsOK'
  BY <1>1, <1>2, <1>4 DEF ComputeInv, RunsOK
<1>6. ClientsOK'
  BY <1>1, <1>2, ClientsKeep DEF ComputeInv
<1>7. \A q \in Run : Act(run'[q]) => Act(run[q]) /\ run'[q].by = run[q].by
                     /\ (Needs(run'[q]) => Needs(run[q])) /\ (run'[q].at = "submit" => run[q].at = "submit")
  BY <1>1
<1>8. \A q : q \in Active' => q \in Active /\ q \in Run /\ Act(run'[q])
  BY <1>7 DEF Active, Act
<1>9. Awaited'
  BY <1>2, <1>7, <1>8 DEF ComputeInv, Awaited
<1>10. ModuleOK'
  BY <1>2, <1>7, <1>8 DEF ComputeInv, ModuleOK, Down
<1>11. Within' => WithinOK'
  <2> SUFFICES ASSUME Within PROVE WithinOK'
    BY <1>2, MisuseGrows
  <2>1. WithinOK
    BY DEF ComputeInv
  <2>2. model /\ (life = "live" \/ Down)
    BY <2>1 DEF WithinOK
  <2>3. Down' <=> Down
    BY <1>2 DEF Down
  <2>4. \A c \in Client : call'[c].op \in {"execute", "execute_sync", "batch", "batch_async"} => life' = "live"
    BY <1>2, <2>1 DEF WithinOK
  <2>5. \A q \in Active' : run'[q].by = "execute" =>
          /\ kind' = "joinable" => thread_' = q
          /\ life' = "live" \/ (kind' = "joinable" /\ Down' /\ call'[Owner].at \in {"cancel", "join"})
    BY <1>2, <1>7, <1>8, <2>1, <2>3 DEF WithinOK
  <2>6. life' = "shut" /\ ~Down' => status_' \in {"UNINITIALIZED", "IDLE"} /\ (status_' = "IDLE" => cancels' > 0)
    BY <1>2, <2>2, <2>3
  <2> QED BY <1>2, <2>2, <2>3, <2>4, <2>5, <2>6 DEF WithinOK
<1>12. Proper' => ProperOK'
  BY <1>2, MisuseGrows DEF ComputeInv, ProperOK, TasksHere
<1> QED BY <1>2, <1>3, <1>5, <1>6, <1>9, <1>10, <1>11, <1>12 DEF ComputeInv

(* A step of one run, for the worker that runs it or for one of its tasks. *)
LEMMA RunStepKeeps ==
  ASSUME ComputeInv, NEW r \in Run, NEW y \in RunState, Becomes(r, y), Active # {} \/ ~Drained,
         y.by = run[r].by, run[r].at # "none", y.at # "none", Act(y) => Act(run[r]),
         Act(y) /\ Needs(y) => Needs(run[r]), y.at = "submit" => run[r].at = "submit",
         RunOK(y, cancelled_), PoolOK', tasks' \in Seq(Task), taken' \subseteq Task,
         Proper => TasksHere',
         status_' = status_ \/ (r \in Active /\ status_' \in {"IDLE", "COMPLETED", "ERROR"}),
         UNCHANGED <<kind, cancelled_, model, pool, thread_, call, crash, history>>
  PROVE  ComputeInv'
<1>1. UNCHANGED <<life, misuse, cancels, lives, kind>>
  BY DEF history
<1>2. misuse \subseteq misuse' /\ (kind = "joinable" => "abandoned" \notin misuse')
  BY <1>1 DEF ComputeInv
<1>3. Proper' => TasksHere'
  BY <1>1 DEF Proper
<1> QED BY <1>1, <1>2, <1>3, AnyRunStepKeeps

(***************************************************************************)
(* The steps of runs.                                                      *)
(***************************************************************************)
LEMMA StepKeeps ==
  ASSUME ComputeInv, NEW r \in Active, NEW y \in RunState, Becomes(r, y),
         y.by = run[r].by, y.at \notin {"none", "submit"}, Act(y) /\ Needs(y) => Needs(run[r]),
         RunOK(y, cancelled_), PoolFits(run[r], y),
         Proper => Gone(run[r]) \/ NoTasks(run[r]) \/ ~Gone(y),
         status_' = status_ \/ status_' \in {"IDLE", "COMPLETED", "ERROR"},
         UNCHANGED <<kind, cancelled_, model, pool, thread_, tasks, taken, call, crash, history>>
  PROVE  ComputeInv'
<1>1. r \in Run /\ Act(run[r]) /\ run[r].at # "none"
  BY ActiveFacts DEF Act
<1>2. /\ run' \in [Run -> RunState] /\ run'[r] = y /\ \A q \in Run \ {r} : run'[q] = run[q]
  BY <1>1, BecomesFacts DEF ComputeInv
<1>3. \A q \in Run : PoolFits(run[q], run[q]) /\ (Gone(run[q]) \/ ~Gone(run[q]))
  BY DEF PoolFits
<1>4. PoolOK'
  BY <1>2, <1>3, PoolKeeps DEF ComputeInv
<1>5. Proper => TasksHere'
  <2> SUFFICES ASSUME Proper PROVE TasksHere'
    OBVIOUS
  <2>1. TasksHere
    BY DEF ComputeInv, ProperOK, TasksHere
  <2>2. \A q \in Run : Gone(run[q]) \/ NoTasks(run[q]) \/ ~Gone(run'[q])
    BY <1>2
  <2> QED BY <2>1, <2>2, HereKeeps DEF ComputeInv
<1>6. tasks' \in Seq(Task) /\ taken' \subseteq Task
  BY DEF ComputeInv, Typed
<1> QED BY <1>1, <1>4, <1>5, <1>6, RunStepKeeps

(* What holds of an active run.                                            *)
LEMMA ActiveRun ==
  ASSUME ComputeInv, NEW r \in Run
  PROVE  run[r] \in RunState /\ RunOK(run[r], cancelled_) /\ cancelled_ \in BOOLEAN
BY DEF ComputeInv, Typed, RunsOK

(* An ended run, by who began it.                                          *)
LEMMA EndedBy ==
  ASSUME NEW b \in {NULL, "execute", "execute_sync", "batch", "batch_async"}, NEW y,
         y = [unused EXCEPT !.at = "ended", !.by = b]
  PROVE  y \in RunState /\ y.by = b /\ y.at = "ended" /\ RunOK(y, cancelled_) /\ y.pending = {}
<1>1. /\ y \in RunState /\ y.by = b /\ y.at = "ended" /\ y.unsent = <<>> /\ y.pending = {}
      /\ y.predicted = {} /\ y.verdict = NULL /\ y.failed = FALSE /\ y.cracks = 0
  BY UnusedFacts DEF RunState
<1>2. UnsentOK(y) /\ Stage(y) /\ Told(y) /\ MarkOK(y, cancelled_)
  BY <1>1, ComputeAssumption DEF UnsentOK, Stage, Told, MarkOK
<1> QED BY <1>1, <1>2 DEF RunOK

(* The end of a run: nothing of it is left but who began it.               *)
LEMMA EndedFacts ==
  ASSUME NEW r \in Run, run[r] \in RunState
  PROVE  /\ Ended(r) \in RunState /\ Ended(r).by = run[r].by /\ Ended(r).at = "ended"
         /\ RunOK(Ended(r), cancelled_) /\ Ended(r).pending = {}
<1> DEFINE b == run[r].by
           y == Ended(r)
<1>1. b \in {NULL, "execute", "execute_sync", "batch", "batch_async"}
  BY DEF RunState
<1>2. y = [unused EXCEPT !.at = "ended", !.by = b]
  BY DEF Ended
<1> HIDE DEF y, b
<1>3. y \in RunState /\ y.by = b /\ y.at = "ended" /\ RunOK(y, cancelled_) /\ y.pending = {}
  BY <1>1, <1>2, EndedBy
<1> QED BY <1>3 DEF y, b

(* Compute preserves the invariant.                                        *)
LEMMA ComputeKeeps ==
  ASSUME ComputeInv, crash = NULL, NEW r \in Run, Compute(r), ~(kind = "joinable" /\ ~model)
  PROVE  ComputeInv'
<1> DEFINE x == run[r]
<1>1. x \in RunState /\ RunOK(x, cancelled_) /\ x.at = "compute"
  BY ActiveRun DEF Compute
<1>2. PICK failed \in BOOLEAN :
        Becomes(r, [x EXCEPT !.at = "done", !.failed = failed,
                    !.predicted = IF failed THEN {} ELSE 1..x.cracks])
  BY DEF Compute, Update, Becomes
<1> DEFINE y == [x EXCEPT !.at = "done", !.failed = failed, !.predicted = IF failed THEN {} ELSE 1..x.cracks]
<1>3. UNCHANGED <<kind, status_, cancelled_, model, pool, thread_, tasks, taken, call, crash, history>>
  BY DEF Compute, shared
<1>4. r \in Active
  BY <1>1, ActiveFacts DEF Act
<1>5. 1..x.cracks \in SUBSET (1..MaxCount)
  BY <1>1, ComputeAssumption DEF RunState
<1>6. /\ y \in RunState /\ y.by = x.by /\ y.at = "done" /\ y.unsent = x.unsent /\ y.pending = x.pending
      /\ y.cracks = x.cracks /\ y.failed = failed /\ y.verdict = x.verdict /\ y.mark = x.mark
      /\ y.predicted = IF failed THEN {} ELSE 1..x.cracks
  BY <1>1, <1>5 DEF RunState
<1>7. Becomes(r, y)
  BY <1>2
<1> HIDE DEF y, x
<1>8. x.unsent = <<>> /\ x.pending = {} /\ x.verdict = NULL
  BY <1>1 DEF RunOK, Stage
<1>9. UnsentOK(y) /\ Stage(y) /\ Told(y) /\ MarkOK(y, cancelled_)
  <2>1. UnsentOK(y) /\ Told(y)
    BY <1>6, <1>8, ComputeAssumption DEF UnsentOK, Told
  <2>2. Stage(y)
    BY <1>6, <1>8 DEF Stage
  <2>3. MarkOK(y, cancelled_)
    BY <1>1, <1>6, <1>8 DEF RunOK, MarkOK, Covered
  <2> QED BY <2>1, <2>2, <2>3
<1>10. PoolFits(x, y) /\ (Gone(x) \/ NoTasks(x) \/ ~Gone(y)) /\ (Act(y) /\ Needs(y) => Needs(x))
  BY <1>1, <1>6, <1>8 DEF PoolFits, NoTasks, Gone, Needs
<1> QED BY <1>3, <1>4, <1>6, <1>7, <1>9, <1>10, StepKeeps DEF x, RunOK

(* Got preserves the invariant.                                            *)
LEMMA GotKeeps ==
  ASSUME ComputeInv, crash = NULL, NEW r \in Run, Got(r)
  PROVE  ComputeInv'
<1> DEFINE x == run[r]
           y == IF x.by = "batch" THEN Ended(r) ELSE [x EXCEPT !.at = "done"]
<1>1. x \in RunState /\ RunOK(x, cancelled_) /\ x.at = "get" /\ x.pending = {}
  BY ActiveRun DEF Got
<1>2. Becomes(r, y)
  BY DEF Got, Update, Becomes
<1>3. UNCHANGED <<kind, status_, cancelled_, model, pool, thread_, tasks, taken, call, crash, history>>
  BY DEF Got, shared
<1>4. r \in Active
  BY <1>1, ActiveFacts DEF Act
<1>5. x.unsent = <<>> /\ x.verdict = NULL /\ x.by # "batch_async"
  BY <1>1 DEF RunOK, Stage
<1>6. y \in RunState /\ y.by = x.by /\ y.at \in {"done", "ended"} /\ y.pending = {} /\ RunOK(y, cancelled_)
  <2>1. CASE x.by = "batch"
    BY <1>1, <2>1, EndedFacts
  <2>2. CASE x.by # "batch"
    <3>1. /\ y \in RunState /\ y.by = x.by /\ y.at = "done" /\ y.unsent = x.unsent /\ y.pending = x.pending
          /\ y.cracks = x.cracks /\ y.failed = x.failed /\ y.verdict = x.verdict /\ y.mark = x.mark
          /\ y.predicted = x.predicted
      BY <1>1, <2>2 DEF RunState
    <3> HIDE DEF y, x
    <3>2. UnsentOK(y) /\ Stage(y)
      BY <1>1, <1>5, <3>1 DEF RunOK, UnsentOK, Stage
    <3>3. Told(y)
      BY <1>5, <3>1, ComputeAssumption DEF Told
    <3>4. MarkOK(y, cancelled_)
      BY <1>1, <1>5, <3>1 DEF RunOK, MarkOK, Covered
    <3> QED BY <1>1, <3>1, <3>2, <3>3, <3>4 DEF RunOK
  <2> QED BY <2>1, <2>2
<1> HIDE DEF y, x
<1>7. PoolFits(x, y) /\ (Gone(x) \/ NoTasks(x) \/ ~Gone(y)) /\ (Act(y) /\ Needs(y) => Needs(x))
  BY <1>1, <1>5, <1>6 DEF PoolFits, NoTasks, Gone, Needs
<1> QED BY <1>2, <1>3, <1>4, <1>6, <1>7, StepKeeps DEF x

(* Rethrow preserves the invariant: the tasks it leaves behind end the     *)
(* proper use of the module.                                               *)
LEMMA RethrowKeeps ==
  ASSUME ComputeInv, crash = NULL, NEW r \in Run, Rethrow(r)
  PROVE  ComputeInv'
<1> DEFINE x == run[r]
           y == Ended(r)
<1>1. x \in RunState /\ RunOK(x, cancelled_) /\ x.at = "get" /\ x.by = "batch" /\ kind = "detached"
  BY ActiveRun DEF Rethrow
<1>2. Becomes(r, y) /\ misuse' = misuse \cup {"rethrown"}
  BY DEF Rethrow, Update, Becomes
<1>3. UNCHANGED <<kind, status_, cancelled_, model, pool, thread_, tasks, taken, call, crash, life, cancels, lives>>
  BY DEF Rethrow, shared
<1>4. r \in Active
  BY <1>1, ActiveFacts DEF Act
<1>5. y \in RunState /\ y.by = x.by /\ y.at = "ended" /\ y.pending = {} /\ RunOK(y, cancelled_)
  BY <1>1, EndedFacts
<1> HIDE DEF y
<1>6. /\ run' \in [Run -> RunState] /\ run'[r] = y /\ \A q \in Run \ {r} : run'[q] = run[q]
  BY <1>2, <1>5, BecomesFacts DEF ComputeInv
<1>7. PoolFits(x, y) /\ \A q \in Run : PoolFits(run[q], run[q])
  BY <1>1, <1>5 DEF PoolFits, Gone
<1>8. PoolOK'
  BY <1>3, <1>6, <1>7, PoolKeeps DEF ComputeInv
<1>9. ~Proper'
  BY <1>1, <1>2, <1>3 DEF Proper
<1>10. misuse \subseteq misuse' /\ tasks' \in Seq(Task) /\ taken' \subseteq Task
  BY <1>2, <1>3 DEF ComputeInv, Typed
<1>11. x.at # "none" /\ ~Act(y) /\ y.at # "submit" /\ y.at # "none"
  BY <1>1, <1>5 DEF Act
<1> HIDE DEF x
<1> QED BY <1>1, <1>2, <1>3, <1>4, <1>5, <1>8, <1>9, <1>10, <1>11, AnyRunStepKeeps DEF x

(* Decided preserves the invariant.                                        *)
LEMMA DecidedKeeps ==
  ASSUME ComputeInv, crash = NULL, NEW r \in Run, NEW v \in {"COMPLETED", "IDLE", "ERROR"},
         run[r].at = "done", run[r].by \in {"execute", "execute_sync"},
         v = "COMPLETED" => (run[r].by = "execute" => ~cancelled_),
         Becomes(r, [run[r] EXCEPT !.at = "store", !.verdict = v]),
         UNCHANGED <<shared, tasks, taken, call, crash, history>>
  PROVE  ComputeInv'
<1> DEFINE x == run[r]
           y == [x EXCEPT !.at = "store", !.verdict = v]
<1>1. x \in RunState /\ RunOK(x, cancelled_) /\ x.at = "done" /\ cancelled_ \in BOOLEAN
  BY ActiveRun
<1>2. r \in Active
  BY <1>1, ActiveFacts DEF Act
<1>3. x.verdict = NULL
  BY <1>1 DEF RunOK, Stage
<1>4. /\ y \in RunState /\ y.by = x.by /\ y.at = "store" /\ y.unsent = x.unsent /\ y.pending = x.pending
      /\ y.cracks = x.cracks /\ y.failed = x.failed /\ y.verdict = v /\ y.mark = x.mark
      /\ y.predicted = x.predicted
  BY <1>1 DEF RunState
<1>5. Becomes(r, y) /\ x.by \in {"execute", "execute_sync"}
      /\ (v = "COMPLETED" => (x.by = "execute" => ~cancelled_))
  OBVIOUS
<1>6. x.mark \in {"no", "cancelled", "reset"}
  BY <1>1 DEF RunState
<1> HIDE DEF y, x
<1>7. UnsentOK(y) /\ Stage(y)
  BY <1>1, <1>4, <1>5, ComputeAssumption DEF RunOK, UnsentOK, Stage
<1>8. Told(y)
  <2> SUFFICES ASSUME v = "COMPLETED", ~x.failed, x.predicted # 1..x.cracks
               PROVE  x.mark = "reset" \/ (x.by = "execute_sync" /\ x.mark = "cancelled")
    BY <1>4 DEF Told
  <2>1. x.unsent = <<>> /\ x.pending = {} /\ x.predicted \subseteq 1..x.cracks
    BY <1>1 DEF RunOK, Stage
  <2>2. ~Covered(x)
    <3>1. PICK i \in 1..x.cracks : i \notin x.predicted
      BY <2>1
    <3>2. \A k : k \notin DOMAIN x.unsent
      BY <2>1
    <3> QED BY <2>1, <3>1, <3>2 DEF Covered
  <2>3. x.mark # "no"
    BY <1>1, <1>3, <1>5, <2>2 DEF RunOK, MarkOK
  <2>4. x.mark = "cancelled" => cancelled_
    BY <1>1, <1>3 DEF RunOK, MarkOK
  <2> QED BY <1>5, <1>6, <2>3, <2>4
<1>9. MarkOK(y, cancelled_)
  BY <1>4, ComputeAssumption DEF MarkOK
<1>10. PoolFits(x, y) /\ (Gone(x) \/ NoTasks(x) \/ ~Gone(y)) /\ (Act(y) /\ Needs(y) => Needs(x))
  BY <1>1, <1>4, <1>5 DEF PoolFits, NoTasks, Gone, Needs
<1>11. UNCHANGED <<kind, status_, cancelled_, model, pool, thread_, tasks, taken, call, crash, history>>
  BY DEF shared
<1> QED BY <1>2, <1>4, <1>5, <1>7, <1>8, <1>9, <1>10, <1>11, StepKeeps DEF x, RunOK

(* Ended preserves the invariant.                                          *)
LEMMA EndedKeeps ==
  ASSUME ComputeInv, crash = NULL, NEW r \in Run, run[r].at \in {"store", "answer"},
         Becomes(r, Ended(r)), status_' = status_ \/ status_' \in {"IDLE", "COMPLETED", "ERROR"},
         UNCHANGED <<kind, cancelled_, model, pool, thread_, tasks, taken, call, crash, history>>
  PROVE  ComputeInv'
<1> DEFINE x == run[r]
           y == Ended(r)
<1>1. x \in RunState /\ RunOK(x, cancelled_) /\ x.at \in {"store", "answer"}
  BY ActiveRun
<1>2. r \in Active
  BY <1>1, ActiveFacts DEF Act
<1>3. y \in RunState /\ y.by = x.by /\ y.at = "ended" /\ y.pending = {} /\ RunOK(y, cancelled_)
  BY <1>1, EndedFacts
<1>4. x.by \in {"execute", "execute_sync"}
  BY <1>1 DEF RunOK, Stage
<1> HIDE DEF x, y
<1>5. PoolFits(x, y) /\ (Gone(x) \/ NoTasks(x) \/ ~Gone(y)) /\ (Act(y) /\ Needs(y) => Needs(x))
  BY <1>1, <1>3, <1>4 DEF PoolFits, NoTasks, Gone, Needs
<1> QED BY <1>2, <1>3, <1>5, StepKeeps DEF x, y

(* Store preserves the invariant.                                          *)
LEMMA StoreKeeps ==
  ASSUME ComputeInv, crash = NULL, NEW r \in Run, Store(r)
  PROVE  ComputeInv'
<1> DEFINE x == run[r]
           y == [x EXCEPT !.at = "answer"]
<1>1. x \in RunState /\ RunOK(x, cancelled_) /\ x.at = "store"
  BY ActiveRun DEF Store
<1>2. r \in Active
  BY <1>1, ActiveFacts DEF Act
<1>3. x.verdict \in {"COMPLETED", "IDLE", "ERROR"} /\ x.by \in {"execute", "execute_sync"}
  BY <1>1 DEF RunOK, Stage, RunState
<1>4. UNCHANGED <<kind, cancelled_, model, pool, thread_, tasks, taken, call, crash, history>>
      /\ status_' \in {"IDLE", "COMPLETED", "ERROR"}
  BY <1>3 DEF Store
<1>5. CASE x.by = "execute"
  <2>1. Becomes(r, y)
    BY <1>5 DEF Store, Update, Becomes
  <2>2. /\ y \in RunState /\ y.by = x.by /\ y.at = "answer" /\ y.unsent = x.unsent /\ y.pending = x.pending
        /\ y.cracks = x.cracks /\ y.failed = x.failed /\ y.verdict = x.verdict /\ y.mark = x.mark
        /\ y.predicted = x.predicted
    BY <1>1 DEF RunState
  <2> HIDE DEF x, y
  <2>3. RunOK(y, cancelled_)
    BY <1>1, <1>3, <2>2, ComputeAssumption DEF RunOK, UnsentOK, Stage, Told, MarkOK
  <2>4. PoolFits(x, y) /\ (Gone(x) \/ NoTasks(x) \/ ~Gone(y)) /\ (Act(y) /\ Needs(y) => Needs(x))
    BY <1>1, <1>3, <2>2 DEF PoolFits, NoTasks, Gone, Needs
  <2> QED BY <1>2, <1>4, <2>1, <2>2, <2>3, <2>4, StepKeeps DEF x
<1>6. CASE x.by # "execute"
  <2>1. Becomes(r, Ended(r))
    BY <1>6 DEF Store, Update, Becomes
  <2> QED BY <1>1, <1>4, <2>1, EndedKeeps
<1> QED BY <1>5, <1>6

(* A set of numbers has a smallest one: the ranges below them are ordered  *)
(* by inclusion.                                                           *)
LEMMA Smallest ==
  ASSUME NEW S \in SUBSET Nat, S # {}
  PROVE  \E k \in S : \A j \in S : k <= j
<1> DEFINE Below == {0..k : k \in S}
           R == StrictSubsetOrdering(Nat)
<1>1. Below \subseteq FiniteSubsetsOf(Nat) /\ Below # {}
  <2>1. \A k \in S : 0..k \in SUBSET Nat /\ IsFiniteSet(0..k)
    BY FS_Interval
  <2> QED BY <2>1 DEF FiniteSubsetsOf
<1>2. IsWellFoundedOn(R, FiniteSubsetsOf(Nat))
  BY FS_StrictSubsetOrderingWellFounded
<1> HIDE DEF Below, R
<1>3. PICK x \in Below : \A y \in Below : ~(<<y, x>> \in R)
  BY <1>1, <1>2, WFMin
<1>4. PICK k \in S : x = 0..k
  BY DEF Below
<1>5. ASSUME NEW j \in S, j < k PROVE FALSE
  <2>1. 0..j \in Below /\ 0..j \in SUBSET Nat /\ 0..k \in SUBSET Nat
    BY DEF Below
  <2>2. 0..j \subseteq 0..k /\ k \in 0..k /\ k \notin 0..j
    BY <1>5
  <2>3. <<0..j, 0..k>> \in R
    BY <2>1, <2>2 DEF R, StrictSubsetOrdering
  <2> QED BY <1>3, <1>4, <2>1, <2>3
<1> QED BY <1>5

(* A run that is submitting, in a module used as it should be.             *)
LEMMA SubmitOpen ==
  ASSUME ComputeInv, Proper, NEW r \in Run, run[r].at = "submit"
  PROVE  pool = "open"
<1>1. r \in Active /\ Within /\ run[r] \in RunState
  BY ActiveFacts, ProperWithin DEF Act, ComputeInv, Typed
<1>2. WithinOK /\ ModuleOK /\ Awaited /\ ClientsOK /\ ProperOK
  BY <1>1 DEF ComputeInv
<1>3. kind \in {"joinable", "detached"}
  BY DEF ComputeInv, Typed
<1>4. CASE run[r].by = "execute"
  <2>1. kind # "joinable"
    BY <1>1, <1>2, <1>4 DEF ModuleOK
  <2>2. life = "live"
    BY <1>1, <1>2, <1>4, <2>1 DEF WithinOK
  <2> QED BY <1>2, <2>2 DEF ProperOK
<1>5. CASE run[r].by # "execute"
  <2>1. Needs(run[r])
    BY <1>1, <1>2, <1>5 DEF RunState, ModuleOK, Needs
  <2>2. PICK c \in Client : call[c].at = "wait" /\ call[c].run = r
    BY <1>1, <1>2, <2>1 DEF Awaited
  <2>3. call[c].op \in {"execute_sync", "batch", "batch_async"}
    BY <1>2, <2>2 DEF ClientsOK, CallOK
  <2>4. life = "live"
    BY <1>2, <2>3 DEF WithinOK
  <2> QED BY <1>2, <2>4 DEF ProperOK
<1> QED BY <1>4, <1>5

(* Refused preserves the invariant.                                        *)
LEMMA RefusedKeeps ==
  ASSUME ComputeInv, crash = NULL, NEW r \in Run, Submit(r), pool = "stopped"
  PROVE  ComputeInv'
<1> DEFINE x == run[r]
           y == [x EXCEPT !.at = "done", !.failed = TRUE]
<1>1. x \in RunState /\ RunOK(x, cancelled_) /\ x.at = "submit"
  BY ActiveRun DEF Submit
<1>2. Becomes(r, y) /\ UNCHANGED <<kind, status_, cancelled_, model, pool, thread_, tasks, taken, call, crash, history>>
  BY DEF Submit, Update, Becomes, shared
<1>3. r \in Active
  BY <1>1, ActiveFacts DEF Act
<1>4. /\ y \in RunState /\ y.by = x.by /\ y.at = "done" /\ y.unsent = x.unsent /\ y.pending = x.pending
      /\ y.cracks = x.cracks /\ y.failed = TRUE /\ y.verdict = x.verdict /\ y.mark = x.mark
      /\ y.predicted = x.predicted
  BY <1>1 DEF RunState
<1>5. ~Proper
  BY <1>1, SubmitOpen
<1> HIDE DEF y, x
<1>6. x.verdict = NULL
  BY <1>1 DEF RunOK, Stage
<1>7. UnsentOK(y) /\ Stage(y)
  BY <1>1, <1>4, <1>6 DEF RunOK, UnsentOK, Stage
<1>8. Told(y)
  BY <1>4 DEF Told
<1>9. MarkOK(y, cancelled_)
  BY <1>1, <1>4, <1>6 DEF RunOK, MarkOK
<1>10. PoolFits(x, y) /\ (Act(y) /\ Needs(y) => Needs(x))
  BY <1>1, <1>4 DEF PoolFits, NoTasks, Gone, Needs
<1> QED BY <1>2, <1>3, <1>4, <1>5, <1>7, <1>8, <1>9, <1>10, StepKeeps DEF x, RunOK

(* The queue with a task more, or without its first one.                   *)
LEMMA Longer ==
  ASSUME NEW S, NEW q \in Seq(S), NEW e \in S
  PROVE  /\ Append(q, e) \in Seq(S)
         /\ DOMAIN Append(q, e) = 1..Len(q) + 1 /\ DOMAIN q = 1..Len(q) /\ Len(q) \in Nat
         /\ \A i \in DOMAIN q : Append(q, e)[i] = q[i]
         /\ Append(q, e)[Len(q) + 1] = e
BY AppendProperties, LenProperties

(* The queue without its first task.                                       *)
LEMMA Shorter ==
  ASSUME NEW S, NEW q \in Seq(S), q # <<>>
  PROVE  /\ Tail(q) \in Seq(S) /\ Head(q) \in S /\ Head(q) = q[1] /\ 1 \in DOMAIN q
         /\ (Tail(q) = <<>> <=> Len(q) = 1)
         /\ \A i \in DOMAIN Tail(q) : i + 1 \in DOMAIN q /\ i + 1 # 1 /\ Tail(q)[i] = q[i + 1]
         /\ \A i \in DOMAIN q : i # 1 => i - 1 \in DOMAIN Tail(q) /\ Tail(q)[i - 1] = q[i]
         /\ \A i, j \in DOMAIN Tail(q) : i # j => i + 1 # j + 1
<1>1. Len(q) \in Nat \ {0} /\ DOMAIN q = 1..Len(q)
  BY EmptySeq, LenProperties
<1>2. /\ Tail(q) \in Seq(S) /\ Head(q) \in S /\ Len(Tail(q)) = Len(q) - 1
      /\ \A i \in 1..Len(Tail(q)) : Tail(q)[i] = q[i + 1]
  BY HeadTailProperties
<1>3. DOMAIN Tail(q) = 1..Len(q) - 1
  BY <1>2, LenProperties
<1>4. Head(q) = q[1]
  OBVIOUS
<1>5. Tail(q) = <<>> <=> Len(q) = 1
  BY <1>1, <1>2, EmptySeq
<1>6. \A i \in 1..Len(q) - 1 : i + 1 \in 1..Len(q) /\ i + 1 # 1 /\ Tail(q)[i] = q[i + 1]
  BY <1>1, <1>2
<1>7. \A i \in 1..Len(q) : i # 1 => i - 1 \in 1..Len(q) - 1 /\ Tail(q)[i - 1] = q[i]
  <2> SUFFICES ASSUME NEW i \in 1..Len(q), i # 1
               PROVE  i - 1 \in 1..Len(q) - 1 /\ Tail(q)[i - 1] = q[i]
    OBVIOUS
  <2>1. i - 1 \in 1..Len(q) - 1 /\ (i - 1) + 1 = i
    BY <1>1
  <2> QED BY <1>6, <2>1
<1>8. \A i, j \in 1..Len(q) - 1 : i # j => i + 1 # j + 1
  BY <1>1
<1> QED BY <1>1, <1>2, <1>3, <1>4, <1>5, <1>6, <1>7, <1>8

(* Accepted preserves the invariant.                                       *)
LEMMA AcceptedKeeps ==
  ASSUME ComputeInv, crash = NULL, NEW r \in Run, Submit(r), pool = "open"
  PROVE  ComputeInv'
<1> DEFINE x == run[r]
           chunk == Head(x.unsent)
           y == [x EXCEPT !.unsent = Tail(@), !.pending = @ \cup {chunk},
                          !.at = IF Len(x.unsent) = 1 THEN "get" ELSE "submit"]
           new == [run |-> r, cracks |-> chunk]
<1>1. x \in RunState /\ RunOK(x, cancelled_) /\ x.at = "submit"
  BY ActiveRun DEF Submit
<1>2. /\ Becomes(r, y) /\ tasks' = Append(tasks, new)
      /\ UNCHANGED <<kind, status_, cancelled_, model, pool, thread_, taken, call, crash, history>>
  BY DEF Submit, Update, Becomes, shared
<1>3. r \in Active
  BY <1>1, ActiveFacts DEF Act
<1>4. x.unsent \in Seq(SUBSET (1..MaxCount)) /\ x.unsent # <<>> /\ x.verdict = NULL
  BY <1>1 DEF RunOK, Stage, RunState
<1> DEFINE u == x.unsent
           v == Tail(u)
<1>5. /\ v \in Seq(SUBSET (1..MaxCount)) /\ chunk \in SUBSET (1..MaxCount) /\ chunk = u[1] /\ 1 \in DOMAIN u
      /\ (v = <<>> <=> Len(u) = 1)
      /\ \A i \in DOMAIN v : i + 1 \in DOMAIN u /\ i + 1 # 1 /\ v[i] = u[i + 1]
      /\ \A i \in DOMAIN u : i # 1 => i - 1 \in DOMAIN v /\ v[i - 1] = u[i]
      /\ \A i, j \in DOMAIN v : i # j => i + 1 # j + 1
  BY <1>4, Shorter
<1>6. /\ y \in RunState /\ y.by = x.by /\ y.unsent = v /\ y.pending = x.pending \cup {chunk}
      /\ y.cracks = x.cracks /\ y.failed = x.failed /\ y.verdict = NULL /\ y.mark = x.mark
      /\ y.predicted = x.predicted /\ y.at = (IF Len(u) = 1 THEN "get" ELSE "submit")
  BY <1>1, <1>4, <1>5 DEF RunState
<1>7. new \in Task /\ new.run = r /\ new.cracks = chunk /\ tasks \in Seq(Task) /\ taken \subseteq Task
  BY <1>5 DEF Task, ComputeInv, Typed
<1> DEFINE n == Len(tasks) + 1
<1>8. /\ tasks' \in Seq(Task) /\ DOMAIN tasks' = 1..n /\ DOMAIN tasks = 1..Len(tasks) /\ Len(tasks) \in Nat
      /\ (\A i \in DOMAIN tasks : tasks'[i] = tasks[i]) /\ tasks'[n] = new
  BY <1>2, <1>7, Longer
<1> HIDE DEF v, u, chunk, y, x, new, n
<1>9. /\ chunk # {} /\ chunk \subseteq 1..x.cracks /\ chunk \cap x.predicted = {}
      /\ \A p \in x.pending : chunk \cap p = {}
      /\ \A i \in DOMAIN v : chunk \cap v[i] = {}
  BY <1>1, <1>5 DEF RunOK, UnsentOK, u
<1>10. UnsentOK(y)
  <2>1. \A i \in DOMAIN v : /\ v[i] # {} /\ v[i] \subseteq 1..x.cracks /\ v[i] \cap x.predicted = {}
                            /\ \A p \in x.pending : v[i] \cap p = {}
    BY <1>1, <1>5 DEF RunOK, UnsentOK, u
  <2>2. \A i, j \in DOMAIN v : i # j => v[i] \cap v[j] = {}
    BY <1>1, <1>5 DEF RunOK, UnsentOK, u
  <2>3. \A i \in DOMAIN v : \A p \in y.pending : v[i] \cap p = {}
    BY <1>6, <1>9, <2>1
  <2> QED BY <1>6, <2>1, <2>2, <2>3 DEF UnsentOK
<1>11. Stage(y)
  BY <1>1, <1>4, <1>5, <1>6, <1>9 DEF RunOK, Stage
<1>12. Told(y)
  BY <1>6, ComputeAssumption DEF Told
<1>13. Covered(x) => Covered(y)
  <2> SUFFICES ASSUME Covered(x), NEW i \in 1..x.cracks
               PROVE  \/ i \in x.predicted \/ \E p \in x.pending \cup {chunk} : i \in p
                      \/ \E k \in DOMAIN v : i \in v[k]
    BY <1>6 DEF Covered
  <2>1. CASE i \in x.predicted \/ \E p \in x.pending : i \in p
    BY <2>1
  <2>2. ASSUME NEW k \in DOMAIN u, i \in u[k]
        PROVE  (\E p \in x.pending \cup {chunk} : i \in p) \/ \E l \in DOMAIN v : i \in v[l]
    <3>1. CASE k = 1
      BY <1>5, <2>2, <3>1
    <3>2. CASE k # 1
      <4>1. k - 1 \in DOMAIN v /\ i \in v[k - 1]
        BY <1>5, <2>2, <3>2
      <4> QED BY <4>1
    <3> QED BY <3>1, <3>2
  <2> QED BY <2>1, <2>2 DEF Covered, u
<1>14. MarkOK(y, cancelled_)
  BY <1>1, <1>4, <1>6, <1>13 DEF RunOK, MarkOK
<1>15. ~Gone(x) /\ ~Gone(y) /\ (Needs(y) => Needs(x)) /\ Act(x) /\ y.at # "none"
  BY <1>1, <1>6 DEF Gone, Needs, Act
<1>16. run' \in [Run -> RunState] /\ run'[r] = y /\ \A q \in Run \ {r} : run'[q] = run[q]
  BY <1>2, <1>6, BecomesFacts DEF ComputeInv
<1>17. ASSUME NEW t \in Task, run[t.run].at # "none", Waits(run[t.run], t)
       PROVE  /\ run'[t.run].at # "none" /\ Waits(run'[t.run], t) /\ Apart(t, new) /\ Apart(new, t)
              /\ (Untouched(run[t.run], t) => Untouched(run'[t.run], t))
              /\ (Unfinished(run[t.run], t) => Unfinished(run'[t.run], t))
  <2>1. CASE t.run = r
    <3>1. t.cracks \in x.pending
      BY <1>15, <1>17, <2>1 DEF Waits, x
    <3> QED BY <1>6, <1>7, <1>9, <1>15, <1>16, <2>1, <3>1 DEF Waits, Apart, Untouched, Unfinished, x
  <2>2. CASE t.run # r
    <3>1. t.run \in Run \ {r}
      BY <2>2 DEF Task
    <3> QED BY <1>7, <1>16, <1>17, <2>2, <3>1 DEF Apart
  <2> QED BY <2>1, <2>2
<1>18. QueueOK'
  <2> SUFFICES ASSUME NEW i \in DOMAIN tasks', NEW t, t = tasks'[i]
               PROVE  /\ t.cracks # {} /\ run'[t.run].at # "none" /\ Waits(run'[t.run], t)
                      /\ Untouched(run'[t.run], t)
                      /\ \A j \in DOMAIN tasks' : i # j => Apart(t, tasks'[j])
                      /\ \A w \in taken : Apart(t, w)
    BY <1>2 DEF QueueOK
  <2>1. ASSUME NEW j \in DOMAIN tasks
        PROVE  /\ tasks[j] \in Task /\ tasks[j].cracks # {} /\ run[tasks[j].run].at # "none"
               /\ Waits(run[tasks[j].run], tasks[j]) /\ Untouched(run[tasks[j].run], tasks[j])
               /\ \A k \in DOMAIN tasks : j # k => Apart(tasks[j], tasks[k])
               /\ \A w \in taken : Apart(tasks[j], w)
    BY TaskFacts DEF ComputeInv, PoolOK, QueueOK
  <2>2. ASSUME NEW w \in taken PROVE w \in Task /\ run[w.run].at # "none" /\ Waits(run[w.run], w)
    BY <1>7 DEF ComputeInv, PoolOK, TakenOK
  <2>3. CASE i \in DOMAIN tasks
    <3>1. t = tasks[i] /\ t \in Task
      BY <1>8, <2>1, <2>3
    <3>2. \A j \in DOMAIN tasks' : j \in DOMAIN tasks \/ j = n
      BY <1>8 DEF n
    <3>3. Apart(t, new)
      BY <1>17, <2>1, <2>3, <3>1
    <3>4. \A j \in DOMAIN tasks' : i # j => Apart(t, tasks'[j])
      BY <1>8, <2>1, <2>3, <3>1, <3>2, <3>3
    <3> QED BY <1>17, <2>1, <2>3, <3>1, <3>4
  <2>4. CASE i \notin DOMAIN tasks
    <3>1. i = n /\ t = new
      BY <1>8, <2>4 DEF n
    <3>2. \A j \in DOMAIN tasks' : i # j => j \in DOMAIN tasks /\ tasks'[j] = tasks[j]
      BY <1>8, <3>1 DEF n
    <3>3. \A j \in DOMAIN tasks' : i # j => Apart(t, tasks'[j])
      BY <1>17, <2>1, <3>1, <3>2
    <3>4. \A w \in taken : Apart(t, w)
      BY <1>17, <2>2, <3>1
    <3>5. run'[t.run] = y /\ Waits(y, t) /\ Untouched(y, t) /\ t.cracks # {}
      BY <1>6, <1>7, <1>9, <1>16, <3>1 DEF Waits, Untouched
    <3> QED BY <1>15, <3>3, <3>4, <3>5
  <2> QED BY <2>3, <2>4
<1>19. TakenOK'
  <2> SUFFICES ASSUME NEW t \in taken
               PROVE  /\ t.cracks # {} /\ run'[t.run].at # "none" /\ Waits(run'[t.run], t)
                      /\ Unfinished(run'[t.run], t)
                      /\ \A w \in taken : t # w => Apart(t, w)
    BY <1>2 DEF TakenOK
  <2>1. /\ t.cracks # {} /\ run[t.run].at # "none" /\ Waits(run[t.run], t) /\ Unfinished(run[t.run], t)
        /\ \A w \in taken : t # w => Apart(t, w)
    BY DEF ComputeInv, PoolOK, TakenOK
  <2> QED BY <1>7, <1>17, <2>1
<1>20. PendingOK'
  <2> SUFFICES ASSUME NEW q \in Run, run'[q].at \in {"submit", "get"}, NEW p \in run'[q].pending
               PROVE  InPool(q, p)'
    BY DEF PendingOK, InPool
  <2>1. InPool(q, p) => InPool(q, p)'
    <3>1. CASE [run |-> q, cracks |-> p] \in taken
      BY <1>2, <3>1 DEF InPool
    <3>2. ASSUME NEW i \in DOMAIN tasks, tasks[i] = [run |-> q, cracks |-> p] PROVE InPool(q, p)'
      <4>1. i \in DOMAIN tasks' /\ tasks'[i] = [run |-> q, cracks |-> p]
        BY <1>8, <3>2 DEF n
      <4> QED BY <4>1 DEF InPool
    <3> QED BY <3>1, <3>2 DEF InPool
  <2>2. CASE q # r
    BY <1>16, <2>1, <2>2 DEF ComputeInv, PoolOK, PendingOK
  <2>3. CASE q = r /\ p \in x.pending
    BY <1>1, <2>1, <2>3 DEF ComputeInv, PoolOK, PendingOK, x
  <2>4. CASE q = r /\ p = chunk
    <3>1. n \in DOMAIN tasks' /\ tasks'[n] = [run |-> q, cracks |-> p]
      BY <1>8, <2>4 DEF n, new
    <3> QED BY <3>1 DEF InPool
  <2> QED BY <1>6, <1>16, <2>2, <2>3, <2>4
<1>21. Proper => TasksHere'
  <2> SUFFICES ASSUME Proper PROVE TasksHere'
    OBVIOUS
  <2>1. TasksHere
    BY DEF ComputeInv, ProperOK, TasksHere
  <2>2. \A q \in Run : ~Gone(run[q]) => ~Gone(run'[q])
    BY <1>15, <1>16
  <2>3. \A t \in taken' : ~Gone(run'[t.run])
    BY <1>2, <2>1, <2>2, TaskFacts DEF TasksHere, ComputeInv
  <2>4. \A i \in DOMAIN tasks : ~Gone(run'[tasks[i].run])
    BY <2>1, <2>2, TaskFacts DEF TasksHere, ComputeInv
  <2>5. ~Gone(run'[new.run])
    BY <1>7, <1>15, <1>16
  <2>6. \A i \in DOMAIN tasks' : (i \in DOMAIN tasks /\ tasks'[i] = tasks[i]) \/ tasks'[i] = new
    BY <1>8 DEF n
  <2> QED BY <2>3, <2>4, <2>5, <2>6 DEF TasksHere
<1>22. PoolOK'
  BY <1>18, <1>19, <1>20 DEF PoolOK
<1>23. taken' \subseteq Task
  BY <1>2, <1>7
<1>24. y.by = run[r].by /\ run[r].at # "none" /\ (Act(y) => Act(run[r]))
       /\ (Act(y) /\ Needs(y) => Needs(run[r])) /\ (y.at = "submit" => run[r].at = "submit")
  BY <1>1, <1>6, <1>15 DEF x
<1> QED BY <1>2, <1>3, <1>6, <1>8, <1>10, <1>11, <1>12, <1>14, <1>15, <1>21, <1>22, <1>23, <1>24, RunStepKeeps DEF RunOK

(***************************************************************************)
(* The steps of tasks.                                                     *)
(***************************************************************************)
LEMMA TakeKeeps ==
  ASSUME ComputeInv, TakeStep
  PROVE  ComputeInv'
<1> DEFINE h == Head(tasks)
           v == Tail(tasks)
           r == h.run
<1>1. /\ tasks # <<>> /\ taken' = taken \cup {h} /\ tasks' = v
      /\ UNCHANGED <<kind, status_, cancelled_, model, pool, thread_, run, call, crash, history>>
  BY DEF TakeStep, Take, shared
<1>2. tasks \in Seq(Task) /\ taken \subseteq Task /\ run \in [Run -> RunState]
  BY DEF ComputeInv, Typed
<1>3. /\ v \in Seq(Task) /\ h \in Task /\ h = tasks[1] /\ 1 \in DOMAIN tasks
      /\ \A i \in DOMAIN v : i + 1 \in DOMAIN tasks /\ i + 1 # 1 /\ v[i] = tasks[i + 1]
      /\ \A i \in DOMAIN tasks : i # 1 => i - 1 \in DOMAIN v /\ v[i - 1] = tasks[i]
      /\ \A i, j \in DOMAIN v : i # j => i + 1 # j + 1
  BY <1>1, <1>2, Shorter
<1>4. r \in Run
  BY <1>3 DEF Task
<1> HIDE DEF h, v, r
<1>5. ASSUME NEW j \in DOMAIN tasks
      PROVE  /\ tasks[j] \in Task /\ tasks[j].cracks # {} /\ run[tasks[j].run].at # "none"
             /\ Waits(run[tasks[j].run], tasks[j]) /\ Untouched(run[tasks[j].run], tasks[j])
             /\ \A k \in DOMAIN tasks : j # k => Apart(tasks[j], tasks[k])
             /\ \A w \in taken : Apart(tasks[j], w)
  BY TaskFacts DEF ComputeInv, PoolOK, QueueOK
<1>6. run[r].at # "none" /\ h.cracks # {} /\ Waits(run[r], h) /\ Untouched(run[r], h)
  BY <1>3, <1>5 DEF r
<1>7. QueueOK'
  <2> SUFFICES ASSUME NEW i \in DOMAIN v, NEW t, t = v[i]
               PROVE  /\ t.cracks # {} /\ run[t.run].at # "none" /\ Waits(run[t.run], t)
                      /\ Untouched(run[t.run], t)
                      /\ \A j \in DOMAIN v : i # j => Apart(t, v[j])
                      /\ \A w \in taken \cup {h} : Apart(t, w)
    BY <1>1 DEF QueueOK
  <2>1. i + 1 \in DOMAIN tasks /\ i + 1 # 1 /\ t = tasks[i + 1]
    BY <1>3
  <2>2. \A j \in DOMAIN v : i # j => Apart(t, v[j])
    BY <1>3, <1>5, <2>1
  <2>3. Apart(t, h)
    BY <1>3, <1>5, <2>1
  <2> QED BY <1>5, <2>1, <2>2, <2>3
<1>8. TakenOK'
  <2> SUFFICES ASSUME NEW t \in taken \cup {h}
               PROVE  /\ t.cracks # {} /\ run[t.run].at # "none" /\ Waits(run[t.run], t)
                      /\ Unfinished(run[t.run], t)
                      /\ \A w \in taken \cup {h} : t # w => Apart(t, w)
    BY <1>1 DEF TakenOK
  <2>1. \A w \in taken : Apart(h, w) /\ Apart(w, h)
    BY <1>3, <1>5 DEF Apart
  <2>2. CASE t \in taken
    BY <2>1, <2>2 DEF ComputeInv, PoolOK, TakenOK
  <2>3. CASE t = h
    <3>1. Unfinished(run[r], h)
      BY <1>6 DEF Unfinished, Untouched
    <3> QED BY <1>6, <2>1, <2>3, <3>1 DEF r
  <2> QED BY <2>2, <2>3
<1>9. PendingOK'
  <2> SUFFICES ASSUME NEW q \in Run, run[q].at \in {"submit", "get"}, NEW p \in run[q].pending
               PROVE  InPool(q, p)'
    BY <1>1 DEF PendingOK, InPool
  <2>1. InPool(q, p)
    BY DEF ComputeInv, PoolOK, PendingOK
  <2>2. ASSUME NEW i \in DOMAIN tasks, tasks[i] = [run |-> q, cracks |-> p] PROVE InPool(q, p)'
    <3>1. CASE i = 1
      BY <1>1, <1>3, <2>2, <3>1 DEF InPool
    <3>2. CASE i # 1
      <4>1. i - 1 \in DOMAIN tasks' /\ tasks'[i - 1] = [run |-> q, cracks |-> p]
        BY <1>1, <1>3, <2>2, <3>2
      <4> QED BY <4>1 DEF InPool
    <3> QED BY <3>1, <3>2
  <2> QED BY <1>1, <2>1, <2>2 DEF InPool
<1>10. Proper => TasksHere'
  <2> SUFFICES ASSUME Proper PROVE TasksHere'
    OBVIOUS
  <2>1. TasksHere
    BY DEF ComputeInv, ProperOK, TasksHere
  <2>2. ~Gone(run[h.run])
    BY <1>3, <2>1 DEF TasksHere
  <2>3. \A i \in DOMAIN v : ~Gone(run[v[i].run])
    BY <1>3, <2>1 DEF TasksHere
  <2>4. \A t \in taken \cup {h} : ~Gone(run[t.run])
    BY <2>1, <2>2 DEF TasksHere
  <2> QED BY <1>1, <2>3, <2>4 DEF TasksHere
<1>11. run[r] \in RunState /\ RunOK(run[r], cancelled_)
  BY <1>4, ActiveRun
<1>12. Becomes(r, run[r])
  BY <1>1, <1>2, <1>4 DEF Becomes
<1>13. PoolOK' /\ tasks' \in Seq(Task) /\ taken' \subseteq Task
  BY <1>1, <1>2, <1>3, <1>7, <1>8, <1>9 DEF PoolOK
<1>14. ~Drained
  BY <1>1 DEF Drained
<1> QED BY <1>1, <1>4, <1>6, <1>10, <1>11, <1>12, <1>13, <1>14, RunStepKeeps

(* A taken task of a run that did not leave it.                            *)
LEMMA TakenFacts ==
  ASSUME ComputeInv, NEW t \in taken, ~Gone(run[t.run])
  PROVE  /\ t \in Task /\ t.run \in Run /\ run[t.run] \in RunState /\ RunOK(run[t.run], cancelled_)
         /\ t.cracks # {} /\ t.cracks \in run[t.run].pending /\ t.cracks \subseteq 1..run[t.run].cracks
         /\ t.cracks \in SUBSET (1..MaxCount) /\ run[t.run].at # "none"
         /\ ~(t.cracks \subseteq run[t.run].predicted) /\ run[t.run].verdict = NULL
<1>1. t.run \in Run /\ t.cracks \in SUBSET (1..MaxCount) /\ t \in Task
  BY TaskFacts DEF ComputeInv, Typed
<1>2. run[t.run] \in RunState /\ RunOK(run[t.run], cancelled_)
  BY <1>1, ActiveRun
<1>3. t.cracks # {} /\ t.cracks \in run[t.run].pending /\ run[t.run].at # "none"
      /\ ~(t.cracks \subseteq run[t.run].predicted)
  BY DEF ComputeInv, PoolOK, TakenOK, Waits, Unfinished
<1>4. t.cracks \subseteq 1..run[t.run].cracks /\ run[t.run].verdict = NULL
  BY <1>2, <1>3 DEF RunOK, Stage, Gone
<1> QED BY <1>1, <1>2, <1>3, <1>4

(* What the other tasks of the run see of a task's step.                   *)
OthersOK(t, y) ==
  \A u : /\ u.run = t.run /\ u.cracks # {} /\ u.cracks \in run[t.run].pending /\ u.cracks \cap t.cracks = {}
         => /\ Waits(y, u)
            /\ Untouched(run[t.run], u) => Untouched(y, u)
            /\ Unfinished(run[t.run], u) => Unfinished(y, u)

(* The pool, when a taken task changes its run and may be done.            *)
LEMMA TaskPool ==
  ASSUME ComputeInv, NEW t \in taken, ~Gone(run[t.run]), NEW y \in RunState, Becomes(t.run, y),
         y.at # "none", OthersOK(t, y), UNCHANGED tasks,
         \/ taken' = taken \ {t}
         \/ taken' = taken /\ Waits(y, t) /\ Unfinished(y, t),
         y.at \in {"submit", "get"} =>
           run[t.run].at = y.at /\ y.pending \subseteq run[t.run].pending /\ (t.cracks \in y.pending => taken' = taken)
  PROVE  PoolOK'
<1> DEFINE r == t.run
           x == run[r]
<1>1. /\ t \in Task /\ r \in Run /\ x \in RunState
      /\ t.cracks # {} /\ t.cracks \in x.pending /\ t.cracks \in SUBSET (1..MaxCount) /\ x.at # "none"
  BY TakenFacts
<1>2. run' \in [Run -> RunState] /\ run'[r] = y /\ \A q \in Run \ {r} : run'[q] = run[q]
  BY <1>1, BecomesFacts DEF ComputeInv
<1>3. ~Gone(x) /\ OthersOK(t, y)
  OBVIOUS
<1> HIDE DEF r, x
<1>4. ASSUME NEW u \in Task, u.cracks # {}, run[u.run].at # "none", Waits(run[u.run], u), Apart(t, u)
      PROVE  /\ run'[u.run].at # "none" /\ Waits(run'[u.run], u)
             /\ (Untouched(run[u.run], u) => Untouched(run'[u.run], u))
             /\ (Unfinished(run[u.run], u) => Unfinished(run'[u.run], u))
  <2>1. CASE u.run = r
    <3>1. u.cracks \in run[t.run].pending /\ u.run = t.run
      BY <1>3, <1>4, <2>1 DEF Waits, x, r
    <3>2. u.cracks \cap t.cracks = {}
      BY <1>4, <3>1 DEF Apart
    <3> QED BY <1>2, <1>3, <1>4, <2>1, <3>1, <3>2 DEF OthersOK, r
  <2>2. CASE u.run # r
    <3>1. u.run \in Run \ {r}
      BY <2>2 DEF Task
    <3> QED BY <1>2, <1>4, <3>1
  <2> QED BY <2>1, <2>2
<1>5. QueueOK'
  <2> SUFFICES ASSUME NEW i \in DOMAIN tasks, NEW u, u = tasks[i]
               PROVE  /\ u.cracks # {} /\ run'[u.run].at # "none" /\ Waits(run'[u.run], u)
                      /\ Untouched(run'[u.run], u)
                      /\ \A j \in DOMAIN tasks : i # j => Apart(u, tasks[j])
                      /\ \A w \in taken : Apart(u, w)
    BY DEF QueueOK
  <2>1. /\ u.cracks # {} /\ run[u.run].at # "none" /\ Waits(run[u.run], u) /\ Untouched(run[u.run], u)
        /\ \A j \in DOMAIN tasks : i # j => Apart(u, tasks[j])
        /\ \A w \in taken : Apart(u, w)
    BY DEF ComputeInv, PoolOK, QueueOK
  <2>2. Apart(t, u) /\ u \in Task
    BY <2>1, TaskFacts DEF Apart, ComputeInv
  <2> QED BY <1>4, <2>1, <2>2
<1>6. TakenOK'
  <2> SUFFICES ASSUME NEW u \in taken'
               PROVE  /\ u.cracks # {} /\ run'[u.run].at # "none" /\ Waits(run'[u.run], u)
                      /\ Unfinished(run'[u.run], u)
                      /\ \A w \in taken : u # w => Apart(u, w)
    BY DEF TakenOK
  <2>1. u \in taken /\ u \in Task
    BY DEF ComputeInv, Typed
  <2>2. /\ u.cracks # {} /\ run[u.run].at # "none" /\ Waits(run[u.run], u) /\ Unfinished(run[u.run], u)
        /\ \A w \in taken : u # w => Apart(u, w)
    BY <2>1 DEF ComputeInv, PoolOK, TakenOK
  <2>3. CASE u # t
    <3>1. Apart(t, u)
      BY <2>1, <2>2, <2>3 DEF Apart
    <3> QED BY <1>4, <2>1, <2>2, <3>1
  <2>4. CASE u = t
    <3>1. taken' = taken /\ Waits(y, t) /\ Unfinished(y, t)
      BY <2>4
    <3> QED BY <1>2, <2>2, <2>4, <3>1 DEF r
  <2> QED BY <2>3, <2>4
<1>7. PendingOK'
  <2> SUFFICES ASSUME NEW q \in Run, run'[q].at \in {"submit", "get"}, NEW p \in run'[q].pending
               PROVE  InPool(q, p)'
    BY DEF PendingOK, InPool
  <2>1. InPool(q, p)
    <3>1. run[q].at \in {"submit", "get"} /\ p \in run[q].pending
      BY <1>2 DEF r
    <3> QED BY <3>1 DEF ComputeInv, PoolOK, PendingOK
  <2>2. CASE [run |-> q, cracks |-> p] # t
    BY <2>1, <2>2 DEF InPool
  <2>3. CASE [run |-> q, cracks |-> p] = t
    <3>1. q = r /\ p = t.cracks
      BY <2>3 DEF r
    <3>2. taken' = taken
      BY <1>2, <3>1
    <3> QED BY <2>1, <3>2 DEF InPool
  <2> QED BY <2>2, <2>3
<1> QED BY <1>5, <1>6, <1>7 DEF PoolOK

(* A task's step that leaves its run to it, or ends the run of a batch.    *)
LEMMA TaskKeeps ==
  ASSUME ComputeInv, NEW t \in taken, ~Gone(run[t.run]), NEW y \in RunState, Becomes(t.run, y),
         y.by = run[t.run].by, y.at = run[t.run].at \/ (y.at = "ended" /\ y.by = "batch_async"),
         RunOK(y, cancelled_), PoolOK', taken' \subseteq taken,
         UNCHANGED <<kind, status_, cancelled_, model, pool, thread_, tasks, call, crash, history>>
  PROVE  ComputeInv'
<1> DEFINE r == t.run
           x == run[r]
<1>1. t \in Task /\ r \in Run /\ x \in RunState /\ x.at # "none"
  BY TakenFacts
<1>2. run' \in [Run -> RunState] /\ run'[r] = y /\ \A q \in Run \ {r} : run'[q] = run[q]
  BY <1>1, BecomesFacts DEF ComputeInv
<1>3. ~Drained
  BY DEF Drained
<1>4. ~Gone(y)
  BY DEF Gone
<1>5. Proper => TasksHere'
  <2> SUFFICES ASSUME Proper PROVE TasksHere'
    OBVIOUS
  <2>1. TasksHere
    BY DEF ComputeInv, ProperOK, TasksHere
  <2>2. \A q \in Run : ~Gone(run[q]) => ~Gone(run'[q])
    BY <1>2, <1>4
  <2> QED BY <2>1, <2>2, TaskFacts DEF TasksHere, ComputeInv
<1>6. tasks' \in Seq(Task) /\ taken' \subseteq Task
  BY DEF ComputeInv, Typed
<1>7. y.at # "none" /\ (Act(y) => Act(x)) /\ (Act(y) /\ Needs(y) => Needs(x))
      /\ (y.at = "submit" => x.at = "submit")
  BY <1>1 DEF Act, Needs
<1> QED BY <1>1, <1>3, <1>5, <1>6, <1>7, RunStepKeeps

(* Done preserves the invariant.                                           *)
LEMMA DoneKeeps ==
  ASSUME ComputeInv, NEW t \in taken, ~Gone(run[t.run]), NEW P, NEW E, Done(t, P, E), P \subseteq t.cracks,
         E \subseteq t.cracks, t.cracks \subseteq run[t.run].predicted \cup P \/ cancelled_ \/ Batched(t.run),
         UNCHANGED <<kind, status_, cancelled_, model, pool, thread_, tasks, call, crash, history>>
  PROVE  ComputeInv'
<1> DEFINE r == t.run
           x == run[r]
           left == x.pending \ {t.cracks}
           more == [x EXCEPT !.pending = left, !.predicted = @ \cup P, !.thrown = @ \cup E]
           y == IF x.by = "batch_async" /\ x.at = "get" /\ left = {} THEN Ended(r) ELSE more
<1>1. /\ t \in Task /\ r \in Run /\ x \in RunState /\ RunOK(x, cancelled_)
      /\ t.cracks # {} /\ t.cracks \in x.pending /\ t.cracks \subseteq 1..x.cracks
      /\ t.cracks \in SUBSET (1..MaxCount) /\ x.at # "none" /\ x.verdict = NULL
  BY TakenFacts
<1>2. Becomes(r, y) /\ taken' = taken \ {t}
  BY DEF Done, Update, Becomes
<1>3. /\ more \in RunState /\ more.by = x.by /\ more.at = x.at /\ more.unsent = x.unsent
      /\ more.pending = left /\ more.cracks = x.cracks /\ more.failed = x.failed
      /\ more.verdict = NULL /\ more.mark = x.mark /\ more.predicted = x.predicted \cup P
  BY <1>1 DEF RunState
<1>4. /\ ~Gone(x) /\ P \subseteq t.cracks
      /\ t.cracks \subseteq x.predicted \cup P \/ cancelled_ \/ x.by \in {"batch", "batch_async"}
  BY DEF Batched
<1> HIDE DEF r, x, more
<1>5. ASSUME ~(x.by = "batch_async" /\ x.at = "get" /\ left = {})
      PROVE  RunOK(more, cancelled_)
  <2>1. UnsentOK(more)
    BY <1>1, <1>3, <1>4 DEF RunOK, UnsentOK
  <2>2. Stage(more)
    BY <1>1, <1>3, <1>4, <1>5 DEF RunOK, Stage
  <2>3. Told(more)
    BY <1>3, ComputeAssumption DEF Told
  <2>4. Covered(x) /\ t.cracks \subseteq x.predicted \cup P => Covered(more)
    BY <1>3 DEF Covered
  <2>5. MarkOK(more, cancelled_)
    BY <1>1, <1>3, <1>4, <2>4 DEF RunOK, MarkOK
  <2> QED BY <2>1, <2>2, <2>3, <2>5 DEF RunOK
<1>6. /\ y \in RunState /\ y.by = x.by /\ RunOK(y, cancelled_)
      /\ y.at = x.at \/ (y.at = "ended" /\ y.by = "batch_async")
      /\ y.at = "ended" \/ (y.at = x.at /\ y.pending = left)
  BY <1>1, <1>3, <1>5, EndedFacts DEF x
<1>7. OthersOK(t, y)
  <2> SUFFICES ASSUME NEW u, u.run = t.run, u.cracks # {}, u.cracks \in x.pending, u.cracks \cap t.cracks = {}
               PROVE  /\ Waits(y, u)
                      /\ Untouched(x, u) => Untouched(y, u)
                      /\ Unfinished(x, u) => Unfinished(y, u)
    BY DEF OthersOK, x, r
  <2>1. u.cracks \in left
    BY <1>1
  <2>2. y = more
    BY <2>1
  <2> QED BY <1>3, <1>4, <2>1, <2>2 DEF Waits, Untouched, Unfinished, Gone
<1>8. y.at # "none" /\ (y.at \in {"submit", "get"} => x.at = y.at /\ y.pending \subseteq x.pending
                         /\ (t.cracks \in y.pending => taken' = taken))
  BY <1>1, <1>6
<1> HIDE DEF y, left
<1>9. PoolOK'
  BY <1>1, <1>2, <1>6, <1>7, <1>8, TaskPool DEF x, r
<1> QED BY <1>2, <1>6, <1>9, TaskKeeps DEF x, r

(* Predict preserves the invariant.                                        *)
LEMMA PredictKeeps ==
  ASSUME ComputeInv, crash = NULL, NEW t \in taken, Predict(t), ~Left(t.run), model
  PROVE  ComputeInv'
<1> DEFINE r == t.run
           x == run[r]
           todo == t.cracks \ x.predicted
           i == CHOOSE k \in todo : \A j \in todo : k <= j
           y == [x EXCEPT !.predicted = @ \cup {i}]
<1>1. ~Gone(x)
  BY DEF Left, Gone
<1>2. /\ t \in Task /\ r \in Run /\ x \in RunState /\ RunOK(x, cancelled_)
      /\ t.cracks # {} /\ t.cracks \in x.pending /\ t.cracks \subseteq 1..x.cracks
      /\ t.cracks \in SUBSET (1..MaxCount) /\ x.at # "none" /\ x.verdict = NULL
      /\ ~(t.cracks \subseteq x.predicted)
  BY <1>1, TakenFacts
<1>3. i \in todo
  <2>1. todo \in SUBSET Nat /\ todo # {}
    BY <1>2
  <2> HIDE DEF todo
  <2>2. \E k \in todo : \A j \in todo : k <= j
    BY <2>1, Smallest
  <2> QED BY <2>2
<1>4. UNCHANGED <<kind, status_, cancelled_, model, pool, thread_, tasks, call, crash, history>>
  BY DEF Predict, shared
<1>5. CASE todo = {i}
  <2>1. Done(t, todo, {})
    BY <1>5 DEF Predict
  <2>2. todo \subseteq t.cracks /\ t.cracks \subseteq x.predicted \cup todo
    OBVIOUS
  <2> HIDE DEF todo
  <2> QED BY <1>1, <1>4, <2>1, <2>2, DoneKeeps
<1>6. CASE todo # {i}
  <2>1. Becomes(r, y) /\ taken' = taken
    BY <1>6 DEF Predict, Update, Becomes
  <2>2. i \in 1..MaxCount /\ i \in t.cracks /\ i \in 1..x.cracks
    BY <1>2, <1>3
  <2>3. PICK j \in todo : j # i
    BY <1>3, <1>6
  <2> HIDE DEF i
  <2>4. /\ y \in RunState /\ y.by = x.by /\ y.at = x.at /\ y.unsent = x.unsent
        /\ y.pending = x.pending /\ y.cracks = x.cracks /\ y.failed = x.failed
        /\ y.verdict = NULL /\ y.mark = x.mark /\ y.predicted = x.predicted \cup {i}
    BY <1>2, <2>2 DEF RunState
  <2>5. j \in t.cracks /\ j \notin y.predicted
    BY <2>3, <2>4
  <2> HIDE DEF y, todo, x, r
  <2>6. UnsentOK(y)
    BY <1>2, <2>2, <2>4 DEF RunOK, UnsentOK
  <2>7. Stage(y)
    BY <1>2, <2>2, <2>4 DEF RunOK, Stage
  <2>8. Told(y)
    BY <2>4, ComputeAssumption DEF Told
  <2>9. Covered(x) => Covered(y)
    BY <2>4 DEF Covered
  <2>10. MarkOK(y, cancelled_)
    BY <1>2, <2>4, <2>9 DEF RunOK, MarkOK
  <2>11. OthersOK(t, y)
    <3> SUFFICES ASSUME NEW u, u.run = t.run, u.cracks # {}, u.cracks \in x.pending, u.cracks \cap t.cracks = {}
                 PROVE  /\ Waits(y, u)
                        /\ Untouched(x, u) => Untouched(y, u)
                        /\ Unfinished(x, u) => Unfinished(y, u)
      BY DEF OthersOK, x, r
    <3> QED BY <2>2, <2>4 DEF Waits, Untouched, Unfinished, Gone
  <2>12. Waits(y, t) /\ Unfinished(y, t)
    BY <1>2, <2>4, <2>5 DEF Waits, Unfinished
  <2>13. y.at # "none" /\ (y.at \in {"submit", "get"} => x.at = y.at /\ y.pending \subseteq x.pending)
    BY <1>2, <2>4
  <2>14. PoolOK'
    BY <1>1, <1>4, <2>1, <2>4, <2>11, <2>12, <2>13, TaskPool DEF x, r
  <2>15. RunOK(y, cancelled_)
    BY <2>6, <2>7, <2>8, <2>10 DEF RunOK
  <2> QED BY <1>1, <1>4, <2>1, <2>4, <2>14, <2>15, TaskKeeps DEF x, r
<1> QED BY <1>5, <1>6

(* Throw preserves the invariant.                                          *)
LEMMA ThrowKeeps ==
  ASSUME ComputeInv, crash = NULL, NEW t \in taken, Throw(t)
  PROVE  ComputeInv'
<1>1. ~Gone(run[t.run]) /\ Batched(t.run)
  BY DEF Throw, Left, Gone
<1>2. Done(t, {}, t.cracks)
      /\ UNCHANGED <<kind, status_, cancelled_, model, pool, thread_, tasks, call, crash, history>>
  BY DEF Throw, shared
<1> QED BY <1>1, <1>2, DoneKeeps

(* Break preserves the invariant.                                          *)
LEMMA BreakKeeps ==
  ASSUME ComputeInv, crash = NULL, NEW t \in taken, Break(t), ~Left(t.run)
  PROVE  ComputeInv'
<1>1. ~Gone(run[t.run])
  BY DEF Left, Gone
<1>2. Done(t, {}, {}) /\ cancelled_
      /\ UNCHANGED <<kind, status_, cancelled_, model, pool, thread_, tasks, call, crash, history>>
  BY DEF Break, shared
<1> QED BY <1>1, <1>2, DoneKeeps

(***************************************************************************)
(* The end of the process.                                                 *)
(***************************************************************************)
LEMMA CrashKeeps ==
  ASSUME ComputeInv, ~Proper, NEW why \in {"null", "divide", "freed", "terminate"}, Crash(why)
  PROVE  ComputeInv'
<1>1. crash' \in {NULL, "null", "divide", "freed", "terminate"}
      /\ UNCHANGED <<kind, status_, cancelled_, model, pool, thread_, tasks, taken, run, call,
                     life, misuse, cancels, lives>>
  BY DEF Crash, shared, history
<1>2. Typed' /\ ~Proper' /\ (kind' = "joinable" => "abandoned" \notin misuse')
  BY <1>1 DEF ComputeInv, Typed, Proper
<1>3. RunsOK'
  BY <1>1 DEF ComputeInv, RunsOK, RunsLeft, Starting, Free
<1>4. PoolOK'
  BY <1>1 DEF ComputeInv, PoolOK, QueueOK, TakenOK, PendingOK, InPool
<1>5. ClientsOK' /\ ModuleOK'
  BY <1>1 DEF ComputeInv, ClientsOK, Down, ModuleOK, Active
<1>6. Awaited' /\ (Within' => WithinOK')
  BY <1>1 DEF ComputeInv, Awaited, Active, Within, WithinOK, Down, Drained
<1> QED BY <1>2, <1>3, <1>4, <1>5, <1>6 DEF ComputeInv

(* A module used as it should be has its model while anything goes on.     *)
LEMMA Modelled ==
  ASSUME ComputeInv, Proper, Active # {} \/ ~Drained
  PROVE  model
<1>1. WithinOK
  BY ProperWithin DEF ComputeInv
<1> QED BY <1>1 DEF WithinOK

(* Every step of a run preserves the invariant.                            *)
LEMMA RunsKeep ==
  ASSUME ComputeInv, NEW r \in Run, RunStep(r)
  PROVE  ComputeInv'
<1>1. crash = NULL
  BY DEF RunStep
<1>2. CASE Compute(r)
  <2>1. CASE kind = "joinable" /\ ~model
    <3>1. r \in Active
      BY <1>2, ActiveFacts DEF Compute, Act
    <3>2. ~Proper /\ Crash("null")
      BY <1>2, <2>1, <3>1, Modelled DEF Compute
    <3> QED BY <3>2, CrashKeeps
  <2> QED BY <1>1, <1>2, <2>1, ComputeKeeps
<1>3. CASE Submit(r)
  <2>1. CASE pool = "none"
    <3>1. ~Proper /\ Crash("null")
      BY <1>3, <2>1, SubmitOpen DEF Submit
    <3> QED BY <3>1, CrashKeeps
  <2>2. pool \in {"none", "open", "stopped"}
    BY DEF ComputeInv, Typed
  <2> QED BY <1>1, <1>3, <2>1, <2>2, RefusedKeeps, AcceptedKeeps
<1>4. CASE Got(r) \/ Rethrow(r)
  BY <1>1, <1>4, GotKeeps, RethrowKeeps, Zenon
<1>5. CASE Decide(r)
  <2>1. PICK v \in {"COMPLETED", "IDLE"} :
          /\ v = "COMPLETED" => ~cancelled_
          /\ Becomes(r, [run[r] EXCEPT !.at = "store", !.verdict = v])
    BY <1>5 DEF Decide, Update, Becomes
  <2>2. /\ run[r].at = "done" /\ run[r].by = "execute"
        /\ UNCHANGED <<shared, tasks, taken, call, crash, history>>
    BY <1>5 DEF Decide
  <2> QED BY <1>1, <2>1, <2>2, DecidedKeeps, Zenon
<1>6. CASE DecideSync(r)
  <2>1. PICK v \in {"COMPLETED", "ERROR"} : Becomes(r, [run[r] EXCEPT !.at = "store", !.verdict = v])
    BY <1>6 DEF DecideSync, Update, Becomes
  <2>2. /\ run[r].at = "done" /\ run[r].by = "execute_sync"
        /\ UNCHANGED <<shared, tasks, taken, call, crash, history>>
    BY <1>6 DEF DecideSync
  <2> QED BY <1>1, <2>1, <2>2, DecidedKeeps, Zenon
<1>7. CASE Store(r)
  BY <1>1, <1>7, StoreKeeps
<1>8. CASE Answer(r)
  <2>1. /\ run[r].at = "answer" /\ Becomes(r, Ended(r))
        /\ UNCHANGED <<kind, status_, cancelled_, model, pool, thread_, tasks, taken, call, crash, history>>
    BY <1>8 DEF Answer, Update, Becomes, shared
  <2> QED BY <1>1, <2>1, EndedKeeps
<1> QED BY <1>2, <1>3, <1>4, <1>5, <1>6, <1>7, <1>8 DEF RunStep

(* Every step of a task preserves the invariant.                           *)
LEMMA TasksKeep ==
  ASSUME ComputeInv, NEW t \in taken, TaskStep(t)
  PROVE  ComputeInv'
<1>1. crash = NULL /\ (Predict(t) \/ Throw(t) \/ Break(t)) /\ ~Drained
  BY DEF TaskStep, Drained
<1>2. Left(t.run) => ~Proper
  BY DEF Left, ComputeInv, ProperOK, Gone
<1>3. CASE Predict(t)
  <2>1. CASE Left(t.run)
    <3>1. Crash("freed")
      BY <1>3, <2>1 DEF Predict
    <3> QED BY <1>2, <2>1, <3>1, CrashKeeps
  <2>2. CASE ~Left(t.run) /\ ~model
    <3>1. PICK why \in {"null", "divide"} : Crash(why)
      BY <1>3, <2>2 DEF Predict
    <3>2. ~Proper
      BY <1>1, <2>2, Modelled
    <3> QED BY <3>1, <3>2, CrashKeeps
  <2> QED BY <1>1, <1>3, <2>1, <2>2, PredictKeeps
<1>4. CASE Break(t)
  <2>1. CASE Left(t.run)
    <3>1. Crash("freed")
      BY <1>4, <2>1 DEF Break
    <3> QED BY <1>2, <2>1, <3>1, CrashKeeps
  <2> QED BY <1>1, <1>4, <2>1, BreakKeeps
<1>5. CASE Throw(t)
  BY <1>1, <1>5, ThrowKeeps
<1> QED BY <1>1, <1>3, <1>4, <1>5

(***************************************************************************)
(* The chunks of a run: not empty, apart, and together all the cracks.     *)
(***************************************************************************)
Parts(s, n) ==
  /\ s \in Seq(SUBSET (1..MaxCount))
  /\ \A k \in DOMAIN s : s[k] # {} /\ s[k] \subseteq 1..n
  /\ \A k, l \in DOMAIN s : k # l => s[k] \cap s[l] = {}
  /\ s # <<>> => \A i \in 1..n : \E k \in DOMAIN s : i \in s[k]

(* A sequence by its length and elements.                                  *)
LEMMA PartsOf ==
  ASSUME NEW n \in 0..MaxCount, NEW m \in Nat, NEW s \in [1..m -> SUBSET (1..n)],
         \A k \in 1..m : s[k] # {},
         \A k, l \in 1..m : k # l => s[k] \cap s[l] = {},
         \A i \in 1..n : \E k \in 1..m : i \in s[k]
  PROVE  Parts(s, n)
<1>1. SUBSET (1..n) \subseteq SUBSET (1..MaxCount)
  BY ComputeAssumption
<1>2. s \in [1..m -> SUBSET (1..MaxCount)]
  BY <1>1
<1>3. s \in Seq(SUBSET (1..MaxCount))
  BY <1>2, SeqDef
<1> QED BY <1>3 DEF Parts

(* The batch's tasks of one crack each are such chunks.                    *)
LEMMA SinglesParts ==
  ASSUME NEW n \in 0..MaxCount
  PROVE  Parts(Singles(n), n)
<1>1. n \in Nat /\ Singles(n) \in [1..n -> SUBSET (1..n)] /\ \A k \in 1..n : Singles(n)[k] = {k}
  BY ComputeAssumption DEF Singles
<1> DEFINE s == Singles(n)
<1> HIDE DEF s
<1>2. /\ \A k \in 1..n : s[k] # {}
      /\ \A k, l \in 1..n : k # l => s[k] \cap s[l] = {}
      /\ \A i \in 1..n : \E k \in 1..n : i \in s[k]
  BY <1>1 DEF s
<1> QED BY <1>1, <1>2, PartsOf DEF s

(* Division of natural numbers.                                            *)
LEMMA Quotient ==
  ASSUME NEW a \in Nat, NEW d \in Nat \ {0}
  PROVE  a \div d \in Nat /\ (a \div d) * d <= a /\ a < (a \div d) * d + d
OBVIOUS

(* Multiplication keeps the order.                                         *)
LEMMA Times ==
  ASSUME NEW a \in Nat, NEW b \in Nat, NEW d \in Nat, a <= b
  PROVE  a * d <= b * d
OBVIOUS

(* So are the pieces of (n + w - 1) / w cracks that predict_chunked makes. *)
LEMMA ChunksParts ==
  ASSUME NEW n \in 0..MaxCount, NEW w \in Nat \ {0}
  PROVE  Parts(Chunks(n, w), n)
<1> DEFINE d == ChunkSize(n, w)
           m == Ceil(n, d)
           s == Chunks(n, w)
<1>1. n \in Nat
  BY ComputeAssumption
<1>2. d \in Nat \ {0}
  <2>1. Ceil(n, w) \in Nat
    BY <1>1, Quotient DEF Ceil
  <2> QED BY <2>1, ComputeAssumption DEF ChunkSize
<1>3. s = [c \in 1..m |-> Chunk(n, w, c)]
  BY DEF Chunks
<1>4. \A c \in Int : Chunk(n, w, c) = {i \in 1..n : (c - 1) * d < i /\ i <= c * d}
  BY DEF Chunk
<1> HIDE DEF d, s
<1>5. m \in Nat /\ m * d <= n + d - 1 /\ n + d - 1 < m * d + d
  BY <1>1, <1>2, Quotient DEF Ceil
<1> HIDE DEF m
<1>6. ASSUME NEW c \in 1..m
      PROVE  /\ s[c] = {i \in 1..n : (c - 1) * d < i /\ i <= c * d}
             /\ c \in Nat /\ c - 1 \in Nat /\ (c - 1) * d \in Nat /\ c * d \in Nat
             /\ c * d = (c - 1) * d + d
  BY <1>2, <1>3, <1>4, <1>5
<1>7. ASSUME NEW c \in 1..m PROVE s[c] # {}
  <2> DEFINE i == (c - 1) * d + 1
  <2>1. c * d <= m * d /\ m * d \in Nat
    BY <1>2, <1>5, Times
  <2>2. i \in 1..n /\ (c - 1) * d < i /\ i <= c * d
    BY <1>1, <1>2, <1>5, <1>6, <2>1
  <2> QED BY <1>6, <2>2
<1>8. ASSUME NEW c \in 1..m, NEW e \in 1..m, c < e PROVE s[c] \cap s[e] = {}
  <2>1. c * d <= (e - 1) * d
    BY <1>2, <1>6, <1>8, Times
  <2> QED BY <1>6, <2>1
<1>9. ASSUME NEW i \in 1..n PROVE \E c \in 1..m : i \in s[c]
  <2> DEFINE q == (i - 1) \div d
             c == q + 1
  <2>1. q \in Nat /\ q * d <= i - 1 /\ i - 1 < q * d + d
    BY <1>2, Quotient
  <2> HIDE DEF q
  <2>2. c * d = q * d + d /\ c - 1 = q /\ c \in Nat /\ 1 <= c /\ q * d \in Nat
    BY <1>2, <2>1
  <2>3. c <= m
    <3> SUFFICES ASSUME m + 1 <= c PROVE FALSE
      BY <1>5, <2>2
    <3>1. (m + 1) * d <= c * d
      BY <1>2, <1>5, <2>2, Times
    <3>2. (m + 1) * d = m * d + d /\ m * d \in Nat
      BY <1>2, <1>5
    <3> QED BY <1>1, <1>2, <1>5, <2>1, <2>2, <3>1, <3>2
  <2>4. c \in 1..m
    BY <2>2, <2>3
  <2>5. (c - 1) * d < i /\ i <= c * d
    BY <1>2, <2>1, <2>2
  <2> QED BY <1>6, <2>4, <2>5
<1>10. s \in [1..m -> SUBSET (1..n)]
  BY <1>3, <1>6
<1>11. \A k, l \in 1..m : k # l => s[k] \cap s[l] = {}
  <2> SUFFICES ASSUME NEW k \in 1..m, NEW l \in 1..m, k # l PROVE s[k] \cap s[l] = {}
    OBVIOUS
  <2>1. k < l \/ l < k
    OBVIOUS
  <2> QED BY <1>8, <2>1
<1> QED BY <1>5, <1>7, <1>9, <1>10, <1>11, PartsOf DEF s

(***************************************************************************)
(* The steps of calls.                                                     *)
(***************************************************************************)
LEMMA ClientsMove ==
  ASSUME Typed, ClientsOK, NEW c \in Client, NEW y \in CallState, Moves(c, y), CallOK(y),
         cancels' \in Nat, cancels <= cancels', y.op = "cancel" => cancels' > 0,
         \A r \in Run : run[r].at # "none" => run'[r].at # "none" /\ run'[r].by = run[r].by,
         y.at = "wait" => run'[y.run].at # "none" /\ run'[y.run].by = y.op,
         c # Owner => y.op # "shutdown" /\ ~Down,
         c = Owner /\ y.op = "shutdown" => \A d \in Client \ {Owner} : call[d].at = "idle"
  PROVE  ClientsOK'
<1>1. call'[c] = y /\ (\A d \in Client \ {c} : call'[d] = call[d]) /\ Owner \in Client
  BY MoveFacts, ComputeAssumption
<1>2. Down' => \A d \in Client \ {Owner} : call'[d].at = "idle"
  <2>1. CASE c = Owner
    BY <1>1, <2>1 DEF Down
  <2>2. CASE c # Owner
    BY <1>1, <2>2 DEF Down
  <2> QED BY <2>1, <2>2
<1>3. ASSUME NEW d \in Client, d # c
      PROVE  /\ CallOK(call'[d]) /\ (call'[d].op = "cancel" => cancels' > 0)
             /\ d # Owner => call'[d].op # "shutdown"
             /\ call'[d].at = "wait" => run'[call'[d].run].at # "none" /\ run'[call'[d].run].by = call'[d].op
  <2>1. call'[d] = call[d]
    BY <1>1, <1>3
  <2>2. /\ CallOK(call[d]) /\ (call[d].op = "cancel" => cancels > 0)
        /\ d # Owner => call[d].op # "shutdown"
        /\ call[d].at = "wait" => run[call[d].run].at # "none" /\ run[call[d].run].by = call[d].op
    BY DEF ClientsOK
  <2>3. call[d].at = "wait" => call[d].run \in Run
    BY <2>2 DEF CallOK
  <2>4. cancels \in Nat
    BY DEF Typed
  <2> QED BY <2>1, <2>2, <2>3, <2>4
<1>4. /\ CallOK(call'[c]) /\ (call'[c].op = "cancel" => cancels' > 0)
      /\ c # Owner => call'[c].op # "shutdown"
      /\ call'[c].at = "wait" => run'[call'[c].run].at # "none" /\ run'[call'[c].run].by = call'[c].op
  BY <1>1
<1> QED BY <1>2, <1>3, <1>4 DEF ClientsOK

(* A client in a call, or about to make one, is not there during shutdown. *)
LEMMA NotDown ==
  ASSUME ComputeInv, NEW c \in Client, c # Owner, call[c].at # "idle"
  PROVE  ~Down
BY DEF ComputeInv, ClientsOK

(* A client that may call is idle, and nobody shuts the module down.       *)
LEMMA MayCallFacts ==
  ASSUME ComputeInv, NEW c \in Client, MayCall(c)
  PROVE  ~Down /\ call[c].at = "idle" /\ call[c].op = "none"
BY DEF ComputeInv, ClientsOK, MayCall, Down, CallOK

(* What the uses that the module withstands make of WithinOK in a life.    *)
LEMMA LiveWithin ==
  ASSUME life' = "live", model',
         \A r \in Active' : run'[r].by = "execute" /\ kind' = "joinable" => thread_' = r
  PROVE  WithinOK'
BY DEF WithinOK

SameRuns == run' \in [Run -> RunState] /\ \A r \in Run : Same(run[r], run'[r])

(* What depends on runs up to their marks only.                            *)
LEMMA SameFacts ==
  ASSUME ComputeInv, SameRuns, UNCHANGED <<tasks, taken>>
  PROVE  /\ PoolOK' /\ (TasksHere => TasksHere') /\ Active' = Active /\ (Drained' <=> Drained)
         /\ \A r \in Run : run'[r].at = run[r].at /\ run'[r].by = run[r].by /\ (Needs(run'[r]) <=> Needs(run[r]))
<1>1. \A r \in Run : PoolFits(run[r], run'[r]) /\ (Gone(run[r]) \/ ~Gone(run'[r]))
  BY DEF SameRuns, Same, PoolFits, Gone
<1>2. PoolOK'
  BY <1>1, PoolKeeps DEF ComputeInv
<1>3. TasksHere => TasksHere'
  BY <1>1, HereKeeps DEF ComputeInv
<1>4. \A r \in Run : run'[r].at = run[r].at /\ run'[r].by = run[r].by /\ (Needs(run'[r]) <=> Needs(run[r]))
  BY DEF SameRuns, Same, Needs
<1>5. Active' = Active
  BY <1>4 DEF Active
<1>6. Drained' <=> Drained
  BY DEF Drained
<1> QED BY <1>2, <1>3, <1>4, <1>5, <1>6

(* A step of one call that begins no run: what it must bring along.        *)
LEMMA CallKeeps ==
  ASSUME ComputeInv, NEW c \in Client, NEW y \in CallState, Moves(c, y), CallOK(y), y.at # "wait",
         y.at \in StartsAt => call[c].at \in StartsAt \/ (RunLeft /\ run' = run),
         SameRuns, \A r \in Run : RunOK(run'[r], cancelled_'),
         UNCHANGED <<kind, tasks, taken, crash>>,
         cancelled_' \in BOOLEAN, model' \in BOOLEAN, pool' \in {"none", "open", "stopped"},
         status_' \in {"UNINITIALIZED", "IDLE", "RUNNING", "COMPLETED", "ERROR"},
         thread_' \in Run \cup {NULL}, life' \in {"new", "live", "shut"}, cancels' \in Nat, lives' \in Nat,
         cancels <= cancels', y.op = "cancel" => cancels' > 0,
         misuse \subseteq misuse', kind = "joinable" => "abandoned" \notin misuse',
         c # Owner => y.op # "shutdown" /\ ~Down,
         c = Owner /\ y.op = "shutdown" => \A d \in Client \ {Owner} : call[d].at = "idle",
         call[c].at = "wait" => ~(call[c].run \in Active /\ Needs(run[call[c].run])),
         Down' => life' = "shut", life' = "live" => model',
         pool' = "stopped" => Down' /\ call'[Owner].at \in {"drain", "hung"},
         Within' => WithinOK', Proper' /\ life' = "live" => pool' = "open"
  PROVE  ComputeInv'
<1>1. call' \in [Client -> CallState] /\ call'[c] = y /\ \A d \in Client \ {c} : call'[d] = call[d]
  BY MoveFacts DEF ComputeInv
<1>2. /\ PoolOK' /\ (TasksHere => TasksHere') /\ Active' = Active
      /\ \A r \in Run : run'[r].at = run[r].at /\ run'[r].by = run[r].by /\ (Needs(run'[r]) <=> Needs(run[r]))
  BY SameFacts
<1>3. Typed'
  BY <1>1 DEF ComputeInv, Typed, SameRuns
<1>4. RunsLeft'
  <2>1. RunsLeft
    BY DEF ComputeInv, RunsOK
  <2>2. CASE y.at \in StartsAt => call[c].at \in StartsAt
    <3>1. \A d \in Client : call'[d].at \in StartsAt => call[d].at \in StartsAt
      BY <1>1, <2>2
    <3> QED BY <1>2, <2>1, <3>1, RunsLeftSame
  <2>3. CASE RunLeft /\ run' = run
    <3>1. \A d \in Client : call'[d].at \in StartsAt => call[d].at \in StartsAt \/ d = c
      BY <1>1
    <3> QED BY <2>1, <2>3, <3>1, RunsLeftCall
  <2> QED BY <2>2, <2>3
<1>5. RunsOK'
  BY <1>4 DEF RunsOK
<1>6. ClientsOK'
  BY <1>2, ClientsMove DEF ComputeInv
<1>7. Awaited'
  <2> SUFFICES ASSUME NEW r \in Active, Needs(run[r])
               PROVE  \E d \in Client : call'[d].at = "wait" /\ call'[d].run = r
    BY <1>2 DEF Awaited, Active
  <2>1. PICK d \in Client : call[d].at = "wait" /\ call[d].run = r
    BY DEF ComputeInv, Awaited
  <2> QED BY <1>1, <2>1
<1>8. ModuleOK'
  BY <1>2 DEF ComputeInv, ModuleOK, Active
<1>9. Proper' => ProperOK'
  <2> SUFFICES ASSUME Proper' PROVE ProperOK'
    OBVIOUS
  <2>1. Proper
    BY MisuseGrows
  <2>2. TasksHere' /\ crash' = NULL
    BY <1>2, <2>1 DEF ComputeInv, ProperOK, TasksHere
  <2> QED BY <2>2 DEF ProperOK, TasksHere
<1> QED BY <1>2, <1>3, <1>5, <1>6, <1>7, <1>8, <1>9 DEF ComputeInv

(* Runs that do not change.                                                *)
LEMMA UnchangedRuns ==
  ASSUME ComputeInv, UNCHANGED <<run, cancelled_>>
  PROVE  SameRuns /\ (\A r \in Run : RunOK(run'[r], cancelled_')) /\ Active' = Active
BY DEF ComputeInv, Typed, RunsOK, SameRuns, Same, Active

(* execute and cancel change the marks together with cancelled_.           *)
LEMMA MarkedRuns ==
  ASSUME ComputeInv,
         \/ cancelled_' = FALSE /\ run' = Marked({"cancelled"}, "reset")
         \/ cancelled_' = TRUE /\ run' = Marked({"no", "reset"}, "cancelled")
  PROVE  SameRuns /\ (\A r \in Run : RunOK(run'[r], cancelled_')) /\ Active' = Active
<1> DEFINE Fits(from, to) == \/ cancelled_' = FALSE /\ from = {"cancelled"} /\ to = "reset"
                             \/ cancelled_' = TRUE /\ from = {"no", "reset"} /\ to = "cancelled"
<1>0. \E from, to : run' = Marked(from, to) /\ Fits(from, to)
  <2>1. CASE cancelled_' = FALSE /\ run' = Marked({"cancelled"}, "reset")
    <3> WITNESS {"cancelled"}, "reset"
    <3> QED BY <2>1
  <2>2. CASE cancelled_' = TRUE /\ run' = Marked({"no", "reset"}, "cancelled")
    <3> WITNESS {"no", "reset"}, "cancelled"
    <3> QED BY <2>2
  <2> QED BY <2>1, <2>2
<1>1. PICK from, to : run' = Marked(from, to) /\ Fits(from, to)
  BY <1>0
<1>2. /\ run' \in [Run -> RunState]
      /\ \A r \in Run :
           /\ Same(run[r], run'[r])
           /\ run'[r].mark = IF r \in Active /\ run[r].verdict = NULL /\ run[r].mark \in from
                             THEN to ELSE run[r].mark
  <2>1. to \in {"no", "cancelled", "reset"}
    BY <1>1
  <2> QED BY <1>1, <2>1, MarkedFacts DEF ComputeInv
<1>3. ASSUME NEW r \in Run PROVE RunOK(run'[r], cancelled_')
  <2> DEFINE x == run[r]
             z == run'[r]
  <2>1. x \in RunState /\ RunOK(x, cancelled_) /\ Same(x, z)
    BY <1>2, ActiveRun
  <2>2. z.mark = IF Act(x) /\ x.verdict = NULL /\ x.mark \in from THEN to ELSE x.mark
    BY <1>2, ActiveFacts
  <2>3. x.mark \in {"no", "cancelled", "reset"}
    BY <2>1 DEF RunState
  <2> HIDE DEF x, z
  <2>4. UnsentOK(z)
    BY <2>1 DEF RunOK, UnsentOK, Same
  <2>5. Stage(z)
    BY <2>1 DEF RunOK, Stage, Same
  <2>6. Told(z)
    <3>1. CASE x.verdict = NULL
      BY <2>1, <3>1, ComputeAssumption DEF Told, Same
    <3>2. CASE x.verdict # NULL
      BY <2>1, <2>2, <3>2 DEF RunOK, Told, Same
    <3> QED BY <3>1, <3>2
  <2>7. Covered(x) <=> Covered(z)
    BY <2>1 DEF Covered, Same
  <2>8. MarkOK(z, cancelled_')
    <3> SUFFICES ASSUME x.at \notin {"none", "ended"}, x.verdict = NULL
                 PROVE  /\ cancelled_' <=> z.mark = "cancelled"
                        /\ x.by \in {"execute", "execute_sync"} /\ ~x.failed /\ z.mark = "no"
                             /\ x.at # "compute" => Covered(z)
      BY <2>1 DEF MarkOK, Same
    <3>1. z.mark = IF x.mark \in from THEN to ELSE x.mark
      BY <2>2 DEF Act
    <3>2. z.mark = "no" => x.mark = "no"
      BY <1>1, <3>1
    <3>3. x.by \in {"execute", "execute_sync"} /\ ~x.failed /\ x.mark = "no" /\ x.at # "compute" => Covered(z)
      BY <2>1, <2>7 DEF RunOK, MarkOK
    <3>4. cancelled_' <=> z.mark = "cancelled"
      BY <1>1, <2>3, <3>1
    <3> QED BY <3>2, <3>3, <3>4
  <2> QED BY <2>4, <2>5, <2>6, <2>8 DEF RunOK, z
<1>4. Active' = Active
  BY <1>2 DEF Active, Same
<1> QED BY <1>2, <1>3, <1>4 DEF SameRuns

(* What holds before a step of a call.                                     *)
LEMMA CallFacts ==
  ASSUME ComputeInv, NEW c \in Client
  PROVE  /\ call[c] \in CallState /\ CallOK(call[c]) /\ Owner \in Client
         /\ kind \in {"joinable", "detached"} /\ cancelled_ \in BOOLEAN /\ model \in BOOLEAN
         /\ status_ \in {"UNINITIALIZED", "IDLE", "RUNNING", "COMPLETED", "ERROR"}
         /\ pool \in {"none", "open", "stopped"} /\ thread_ \in Run \cup {NULL}
         /\ life \in {"new", "live", "shut"} /\ cancels \in Nat /\ lives \in Nat
         /\ (kind = "joinable" => "abandoned" \notin misuse) /\ ModuleOK /\ ClientsOK
         /\ (Within => WithinOK) /\ (Proper => ProperOK)
         /\ (call[c].op = "cancel" => cancels > 0)
BY ComputeAssumption DEF ComputeInv, Typed, ClientsOK

(* Whether the owner is in shutdown after a step of one call.              *)
LEMMA DownMoves ==
  ASSUME ComputeInv, NEW c \in Client, NEW y \in CallState, Moves(c, y)
  PROVE  /\ c = Owner => call'[Owner] = y /\ (Down' <=> y.op = "shutdown")
         /\ c # Owner => call'[Owner] = call[Owner] /\ (Down' <=> Down)
<1>1. call'[c] = y /\ (\A d \in Client \ {c} : call'[d] = call[d]) /\ Owner \in Client
  BY MoveFacts, ComputeAssumption DEF ComputeInv
<1> QED BY <1>1 DEF Down

(* A call that runs something is made in a life.                           *)
LEMMA RunsInLife ==
  ASSUME ComputeInv, Within, NEW c \in Client, call[c].op \in {"execute", "execute_sync", "batch", "batch_async"}
  PROVE  life = "live" /\ model /\ \A r \in Active : run[r].by = "execute" /\ kind = "joinable" => thread_ = r
BY DEF ComputeInv, WithinOK, ModuleOK

(* Check preserves the invariant.                                          *)
LEMMA CheckKeeps ==
  ASSUME ComputeInv, crash = NULL, NEW c \in Client, NEW op \in {"execute", "execute_sync"}, Check(c, op)
  PROVE  ComputeInv'
<1> DEFINE y == [op |-> op, run |-> NULL, at |-> IF op = "execute" THEN "flag" ELSE "status"]
<1>1. /\ y \in CallState /\ CallOK(y) /\ y.at \in StartsAt /\ y.at # "wait" /\ y.op = op
  BY DEF CallState, CallOK, StartsAt
<1>2. Moves(c, y) /\ MayCall(c) /\ RunLeft /\ misuse' = misuse \cup Outside
      /\ UNCHANGED <<kind, status_, cancelled_, model, pool, thread_, tasks, taken, run, crash, life, cancels, lives>>
  BY DEF Check, Moves, shared
<1> HIDE DEF y
<1>3. ~Down /\ call[c].at = "idle"
  BY <1>2, MayCallFacts
<1>4. SameRuns /\ (\A r \in Run : RunOK(run'[r], cancelled_')) /\ Active' = Active
  BY <1>2, UnchangedRuns
<1>5. ~Down'
  BY <1>1, <1>2, <1>3, DownMoves
<1>6. misuse \subseteq misuse' /\ ("abandoned" \in misuse' => "abandoned" \in misuse)
      /\ (Within' => life = "live")
  BY <1>2 DEF Outside, Within
<1>7. Within' => WithinOK'
  <2> SUFFICES ASSUME Within' PROVE WithinOK'
    OBVIOUS
  <2>1. Within /\ life = "live"
    BY <1>2, <1>6, MisuseGrows
  <2>2. \A r \in Active : run[r].by = "execute" /\ kind = "joinable" => thread_ = r
    BY <2>1, CallFacts DEF WithinOK
  <2>3. model
    BY <2>1, CallFacts DEF ModuleOK
  <2> QED BY <1>2, <1>4, <2>1, <2>2, <2>3, LiveWithin
<1>8. Proper' /\ life' = "live" => pool' = "open"
  BY <1>2, <1>6, MisuseGrows, CallFacts DEF ProperOK
<1>9. (life' = "live" => model') /\ (pool' = "stopped" => Down' /\ call'[Owner].at \in {"drain", "hung"})
  BY <1>2, <1>3, CallFacts DEF ModuleOK
<1>10. /\ cancelled_' \in BOOLEAN /\ model' \in BOOLEAN /\ pool' \in {"none", "open", "stopped"}
       /\ status_' \in {"UNINITIALIZED", "IDLE", "RUNNING", "COMPLETED", "ERROR"}
       /\ thread_' \in Run \cup {NULL} /\ life' \in {"new", "live", "shut"} /\ cancels' \in Nat /\ lives' \in Nat
       /\ cancels <= cancels' /\ (y.op = "cancel" => cancels' > 0)
       /\ (c # Owner => y.op # "shutdown" /\ ~Down)
       /\ (c = Owner /\ y.op = "shutdown" => \A d \in Client \ {Owner} : call[d].at = "idle")
       /\ call[c].at # "wait" /\ (kind = "joinable" => "abandoned" \notin misuse')
  BY <1>1, <1>2, <1>3, <1>6, CallFacts
<1> QED BY <1>1, <1>2, <1>4, <1>5, <1>6, <1>7, <1>8, <1>9, <1>10, CallKeeps

(* A step of a call that runs something, and that returns or goes on.      *)
LEMMA RunnerKeeps ==
  ASSUME ComputeInv, NEW c \in Client, NEW y \in CallState, Moves(c, y), CallOK(y),
         call[c].op \in {"execute", "execute_sync", "batch", "batch_async"},
         y.op \in {"none", call[c].op}, y.at # "wait", y.at \in StartsAt => call[c].at \in StartsAt,
         SameRuns, \A r \in Run : RunOK(run'[r], cancelled_'), Active' = Active,
         call[c].at = "wait" => ~(call[c].run \in Active /\ Needs(run[call[c].run])),
         cancelled_' \in BOOLEAN, status_' \in {"UNINITIALIZED", "IDLE", "RUNNING", "COMPLETED", "ERROR"},
         UNCHANGED <<kind, model, pool, thread_, tasks, taken, crash, history>>
  PROVE  ComputeInv'
<1>1. /\ UNCHANGED <<life, misuse, cancels, lives>> /\ call[c] \in CallState /\ CallOK(call[c])
      /\ call[c].op # "shutdown" /\ call[c].at # "idle" /\ y.op \notin {"shutdown", "cancel"}
  BY CallFacts DEF history, CallOK
<1>2. ~Down
  BY <1>1, NotDown DEF Down
<1>3. ~Down'
  BY <1>1, <1>2, DownMoves
<1>4. Within' => WithinOK'
  <2> SUFFICES ASSUME Within PROVE WithinOK'
    BY <1>1 DEF Within
  <2>1. life = "live" /\ model /\ \A r \in Active : run[r].by = "execute" /\ kind = "joinable" => thread_ = r
    BY RunsInLife
  <2>2. \A r \in Active' : run'[r].by = "execute" /\ kind' = "joinable" => thread_' = r
    <3>1. \A r \in Active : r \in Run /\ run'[r].by = run[r].by
      BY DEF SameRuns, Same, Active
    <3> QED BY <2>1, <3>1
  <2> QED BY <1>1, <2>1, <2>2, LiveWithin
<1>5. Proper' /\ life' = "live" => pool' = "open"
  BY <1>1, CallFacts DEF ProperOK, Proper
<1>6. (life' = "live" => model') /\ (pool' = "stopped" => Down' /\ call'[Owner].at \in {"drain", "hung"})
  BY <1>1, <1>2, CallFacts DEF ModuleOK
<1>7. /\ model' \in BOOLEAN /\ pool' \in {"none", "open", "stopped"}
      /\ thread_' \in Run \cup {NULL} /\ life' \in {"new", "live", "shut"} /\ cancels' \in Nat /\ lives' \in Nat
      /\ cancels <= cancels' /\ (y.op = "cancel" => cancels' > 0)
      /\ (c # Owner => y.op # "shutdown" /\ ~Down)
      /\ (c = Owner /\ y.op = "shutdown" => \A d \in Client \ {Owner} : call[d].at = "idle")
      /\ (kind = "joinable" => "abandoned" \notin misuse') /\ misuse \subseteq misuse'
  BY <1>1, <1>2, CallFacts
<1> QED BY <1>3, <1>4, <1>5, <1>6, <1>7, CallKeeps

(* ClearCancelled preserves the invariant.                                 *)
LEMMA ClearCancelledKeeps ==
  ASSUME ComputeInv, crash = NULL, NEW c \in Client, ClearCancelled(c)
  PROVE  ComputeInv'
<1>1. call[c] \in CallState /\ CallOK(call[c]) /\ call[c].at = "flag" /\ call[c].op \in {"execute", "execute_sync"}
  BY CallFacts DEF ClearCancelled, CallOK
<1> DEFINE at == IF call[c].op = "execute" THEN "status" ELSE "start"
<1>2. Going(c, at) /\ at \in StartsAt
  BY DEF ClearCancelled, StartsAt
<1> HIDE DEF at
<1>3. PICK y \in CallState : Moves(c, y) /\ y.at = at /\ y.op = call[c].op /\ y.run = call[c].run
  BY <1>2, GoingFacts DEF ComputeInv, StartsAt
<1>4. CallOK(y) /\ y.at # "wait" /\ call[c].at \in StartsAt
  BY <1>1, <1>2, <1>3 DEF CallOK, StartsAt
<1>5. cancelled_' = FALSE /\ run' = Marked({"cancelled"}, "reset")
      /\ UNCHANGED <<kind, status_, model, pool, thread_, tasks, taken, crash, history>>
  BY DEF ClearCancelled
<1>6. SameRuns /\ (\A r \in Run : RunOK(run'[r], cancelled_')) /\ Active' = Active
  BY <1>5, MarkedRuns
<1>7. cancelled_' \in BOOLEAN /\ status_' \in {"UNINITIALIZED", "IDLE", "RUNNING", "COMPLETED", "ERROR"}
  BY <1>5, CallFacts
<1> QED BY <1>1, <1>3, <1>4, <1>5, <1>6, <1>7, RunnerKeeps

(* SetRunning preserves the invariant.                                     *)
LEMMA SetRunningKeeps ==
  ASSUME ComputeInv, crash = NULL, NEW c \in Client, SetRunning(c)
  PROVE  ComputeInv'
<1>1. call[c] \in CallState /\ CallOK(call[c]) /\ call[c].at = "status" /\ call[c].op \in {"execute", "execute_sync"}
  BY CallFacts DEF SetRunning, CallOK
<1> DEFINE at == IF call[c].op = "execute" THEN "start" ELSE "flag"
<1>2. Going(c, at) /\ at \in StartsAt
  BY DEF SetRunning, StartsAt
<1> HIDE DEF at
<1>3. PICK y \in CallState : Moves(c, y) /\ y.at = at /\ y.op = call[c].op /\ y.run = call[c].run
  BY <1>2, GoingFacts DEF ComputeInv, StartsAt
<1>4. CallOK(y) /\ y.at # "wait" /\ call[c].at \in StartsAt
  BY <1>1, <1>2, <1>3 DEF CallOK, StartsAt
<1>5. status_' = "RUNNING"
      /\ UNCHANGED <<kind, cancelled_, model, pool, thread_, tasks, taken, run, crash, history>>
  BY DEF SetRunning
<1>6. SameRuns /\ (\A r \in Run : RunOK(run'[r], cancelled_')) /\ Active' = Active
  BY <1>5, UnchangedRuns
<1>7. cancelled_' \in BOOLEAN /\ status_' \in {"UNINITIALIZED", "IDLE", "RUNNING", "COMPLETED", "ERROR"}
  BY <1>5, CallFacts
<1> QED BY <1>1, <1>3, <1>4, <1>5, <1>6, <1>7, RunnerKeeps

(* CallReturns preserves the invariant.                                    *)
LEMMA CallReturnsKeeps ==
  ASSUME ComputeInv, crash = NULL, NEW c \in Client, CallReturns(c)
  PROVE  ComputeInv'
<1>1. /\ call[c] \in CallState /\ CallOK(call[c]) /\ call[c].at = "wait"
      /\ call[c].op \in {"execute_sync", "batch", "batch_async"} /\ call[c].run \in Run
      /\ run[call[c].run].by = call[c].op
  BY CallFacts DEF CallReturns, CallOK, ClientsOK
<1>2. Moves(c, idle) /\ idle \in CallState /\ CallOK(idle) /\ idle.at = "idle" /\ idle.op = "none"
  BY ReturnFacts, IdleFacts DEF CallReturns
<1>3. UNCHANGED <<kind, status_, cancelled_, model, pool, thread_, tasks, taken, run, crash, history>>
  BY DEF CallReturns, shared
<1>4. SameRuns /\ (\A r \in Run : RunOK(run'[r], cancelled_')) /\ Active' = Active
  BY <1>3, UnchangedRuns
<1>5. ~(call[c].run \in Active /\ Needs(run[call[c].run]))
  BY <1>1 DEF CallReturns, Active, Needs
<1>6. cancelled_' \in BOOLEAN /\ status_' \in {"UNINITIALIZED", "IDLE", "RUNNING", "COMPLETED", "ERROR"}
  BY <1>3, CallFacts
<1>7. idle.at # "wait" /\ idle.at \notin StartsAt
  BY <1>2 DEF StartsAt
<1> QED BY <1>1, <1>2, <1>3, <1>4, <1>5, <1>6, <1>7, RunnerKeeps

(* Cancel preserves the invariant.                                         *)
LEMMA CancelKeeps ==
  ASSUME ComputeInv, crash = NULL, NEW c \in Client, Cancel(c)
  PROVE  ComputeInv'
<1> DEFINE y == [op |-> "cancel", at |-> "cancel", run |-> NULL]
<1>1. /\ y \in CallState /\ CallOK(y) /\ y.at \notin StartsAt /\ y.at # "wait" /\ y.op = "cancel"
  BY DEF CallState, CallOK, StartsAt
<1>2. /\ Moves(c, y) /\ MayCall(c) /\ cancels' = cancels + 1
      /\ cancelled_' = TRUE /\ run' = Marked({"no", "reset"}, "cancelled")
      /\ UNCHANGED <<kind, status_, model, pool, thread_, tasks, taken, crash, life, misuse, lives>>
  BY DEF Cancel, Moves
<1> HIDE DEF y
<1>3. ~Down /\ call[c].at = "idle"
  BY <1>2, MayCallFacts
<1>4. SameRuns /\ (\A r \in Run : RunOK(run'[r], cancelled_')) /\ Active' = Active
  BY <1>2, MarkedRuns
<1>5. ~Down'
  BY <1>1, <1>2, <1>3, DownMoves
<1>6. cancels' \in Nat /\ cancels <= cancels' /\ cancels' > 0
  BY <1>2, CallFacts
<1>7. Within' => WithinOK'
  <2> SUFFICES ASSUME Within PROVE WithinOK'
    BY <1>2 DEF Within
  <2>1. WithinOK
    BY CallFacts
  <2>2. \A d \in Client : call'[d].op \in {"execute", "execute_sync", "batch", "batch_async"} => life' = "live"
    <3>1. call'[c] = y /\ \A d \in Client \ {c} : call'[d] = call[d]
      BY <1>1, <1>2, MoveFacts DEF ComputeInv
    <3> QED BY <1>1, <1>2, <2>1, <3>1 DEF WithinOK
  <2>3. \A r \in Active' : run'[r].by = "execute" => (kind' = "joinable" => thread_' = r) /\ life' = "live"
    <3>1. \A r \in Active : r \in Run /\ run'[r].by = run[r].by
      BY <1>4 DEF SameRuns, Same, Active
    <3> QED BY <1>2, <1>3, <1>4, <2>1, <3>1 DEF WithinOK
  <2>4. Active' # {} \/ ~Drained' => model' /\ life' = "live"
    BY <1>2, <1>3, <1>4, <2>1 DEF WithinOK, Drained
  <2>5. life' = "shut" => status_' \in {"UNINITIALIZED", "IDLE"} /\ (status_' = "IDLE" => cancels' > 0)
    BY <1>2, <1>3, <1>6, <2>1 DEF WithinOK
  <2> QED BY <2>2, <2>3, <2>4, <2>5 DEF WithinOK
<1>8. Proper' /\ life' = "live" => pool' = "open"
  BY <1>2, CallFacts DEF ProperOK, Proper
<1>9. (life' = "live" => model') /\ (pool' = "stopped" => Down' /\ call'[Owner].at \in {"drain", "hung"})
  BY <1>2, <1>3, CallFacts DEF ModuleOK
<1>10. /\ cancelled_' \in BOOLEAN /\ model' \in BOOLEAN /\ pool' \in {"none", "open", "stopped"}
       /\ status_' \in {"UNINITIALIZED", "IDLE", "RUNNING", "COMPLETED", "ERROR"}
       /\ thread_' \in Run \cup {NULL} /\ life' \in {"new", "live", "shut"} /\ lives' \in Nat
       /\ (c # Owner => y.op # "shutdown" /\ ~Down)
       /\ (c = Owner /\ y.op = "shutdown" => \A d \in Client \ {Owner} : call[d].at = "idle")
       /\ call[c].at # "wait" /\ (kind = "joinable" => "abandoned" \notin misuse') /\ misuse \subseteq misuse'
  BY <1>1, <1>2, <1>3, CallFacts
<1> QED BY <1>1, <1>2, <1>4, <1>5, <1>6, <1>7, <1>8, <1>9, <1>10, CallKeeps

(* CancelEnds preserves the invariant.                                     *)
LEMMA CancelEndsKeeps ==
  ASSUME ComputeInv, crash = NULL, NEW c \in Client, CancelEnds(c), call[c].op = "cancel"
  PROVE  ComputeInv'
<1>1. Moves(c, idle) /\ idle \in CallState /\ CallOK(idle) /\ idle.at = "idle" /\ idle.op = "none"
  BY ReturnFacts, IdleFacts DEF CancelEnds
<1>2. /\ status_' = "IDLE" /\ call[c].at = "cancel"
      /\ UNCHANGED <<kind, cancelled_, model, pool, thread_, tasks, taken, run, crash, life, misuse, cancels, lives>>
  BY DEF CancelEnds, history
<1>3. cancels > 0 /\ cancels \in Nat
  BY CallFacts
<1>4. ~Down
  BY <1>2, NotDown DEF Down
<1>5. ~Down'
  BY <1>1, <1>4, DownMoves
<1>6. SameRuns /\ (\A r \in Run : RunOK(run'[r], cancelled_')) /\ Active' = Active
  BY <1>2, UnchangedRuns
<1>7. Within' => WithinOK'
  <2> SUFFICES ASSUME Within PROVE WithinOK'
    BY <1>2 DEF Within
  <2>1. WithinOK
    BY CallFacts
  <2>2. \A d \in Client : call'[d].op \in {"execute", "execute_sync", "batch", "batch_async"} => life' = "live"
    <3>1. call'[c] = idle /\ \A d \in Client \ {c} : call'[d] = call[d]
      BY <1>1, MoveFacts DEF ComputeInv
    <3> QED BY <1>1, <1>2, <2>1, <3>1 DEF WithinOK
  <2>3. \A r \in Active' : run'[r].by = "execute" => (kind' = "joinable" => thread_' = r) /\ life' = "live"
    BY <1>2, <1>4, <1>6, <2>1 DEF WithinOK
  <2>4. Active' # {} \/ ~Drained' => model' /\ life' = "live"
    BY <1>2, <1>4, <1>6, <2>1 DEF WithinOK, Drained
  <2> QED BY <1>2, <1>3, <2>2, <2>3, <2>4 DEF WithinOK
<1>8. Proper' /\ life' = "live" => pool' = "open"
  BY <1>2, CallFacts DEF ProperOK, Proper
<1>9. (life' = "live" => model') /\ (pool' = "stopped" => Down' /\ call'[Owner].at \in {"drain", "hung"})
  BY <1>2, <1>4, CallFacts DEF ModuleOK
<1>10. /\ cancelled_' \in BOOLEAN /\ model' \in BOOLEAN /\ pool' \in {"none", "open", "stopped"}
       /\ status_' \in {"UNINITIALIZED", "IDLE", "RUNNING", "COMPLETED", "ERROR"}
       /\ thread_' \in Run \cup {NULL} /\ life' \in {"new", "live", "shut"} /\ lives' \in Nat
       /\ cancels' \in Nat /\ cancels <= cancels' /\ idle.at # "wait" /\ idle.at \notin StartsAt
       /\ (c # Owner => idle.op # "shutdown" /\ ~Down)
       /\ call[c].at # "wait" /\ (kind = "joinable" => "abandoned" \notin misuse') /\ misuse \subseteq misuse'
  BY <1>1, <1>2, <1>4, CallFacts DEF StartsAt
<1> QED BY <1>1, <1>2, <1>5, <1>6, <1>7, <1>8, <1>9, <1>10, CallKeeps

(* A step of shutdown, which only the owner is in.                         *)
LEMMA DownKeeps ==
  ASSUME ComputeInv, NEW y \in CallState, Moves(Owner, y), CallOK(y), y.op = "shutdown",
         \A d \in Client \ {Owner} : call[d].at = "idle", call[Owner].at # "wait",
         SameRuns, \A r \in Run : RunOK(run'[r], cancelled_'), Active' = Active,
         cancelled_' \in BOOLEAN, status_' \in {"UNINITIALIZED", "IDLE", "RUNNING", "COMPLETED", "ERROR"},
         life' = "shut", misuse \subseteq misuse', kind = "joinable" => "abandoned" \notin misuse',
         thread_' \in Run \cup {NULL}, pool' \in {"none", "open", "stopped"},
         pool' = "stopped" => y.at \in {"drain", "hung"},
         Within' => \A r \in Active : run[r].by = "execute" =>
                      kind = "joinable" /\ thread_' = r /\ y.at \in {"cancel", "join"},
         UNCHANGED <<kind, model, tasks, taken, crash, cancels, lives>>
  PROVE  ComputeInv'
<1>1. Owner \in Client /\ y.at \notin {"wait"} /\ y.at \notin StartsAt /\ cancels \in Nat /\ lives \in Nat
      /\ model \in BOOLEAN
  BY ComputeAssumption, CallFacts DEF CallOK, StartsAt
<1>2. Down' /\ call'[Owner] = y
  BY <1>1, DownMoves
<1>3. Within' => WithinOK'
  <2> SUFFICES ASSUME Within' PROVE WithinOK'
    OBVIOUS
  <2>1. WithinOK
    BY <1>1, MisuseGrows, CallFacts
  <2>2. \A d \in Client : call'[d].op \in {"execute", "execute_sync", "batch", "batch_async"} => life' = "live"
    <3>1. call'[Owner] = y /\ \A d \in Client \ {Owner} : call'[d] = call[d]
      BY <1>1, MoveFacts DEF ComputeInv
    <3>2. \A d \in Client \ {Owner} : call[d].op = "none"
      BY CallFacts DEF ClientsOK, CallOK
    <3> QED BY <3>1, <3>2
  <2>3. \A r \in Active' : run'[r].by = "execute" =>
          /\ kind' = "joinable" => thread_' = r
          /\ life' = "live" \/ (kind' = "joinable" /\ Down' /\ call'[Owner].at \in {"cancel", "join"})
    <3>1. \A r \in Active : r \in Run /\ run'[r].by = run[r].by
      BY DEF SameRuns, Same, Active
    <3> QED BY <1>2, <3>1
  <2>4. Active' # {} \/ ~Drained' => model' /\ (life' = "live" \/ Down')
    BY <1>2, <2>1 DEF WithinOK, Drained
  <2> QED BY <1>2, <2>2, <2>3, <2>4 DEF WithinOK
<1>4. (Down' => life' = "shut") /\ (life' = "live" => model')
      /\ (pool' = "stopped" => Down' /\ call'[Owner].at \in {"drain", "hung"})
      /\ (Proper' /\ life' = "live" => pool' = "open") /\ life' \in {"new", "live", "shut"}
      /\ lives' \in Nat /\ cancels' \in Nat /\ cancels <= cancels' /\ (y.op = "cancel" => cancels' > 0)
      /\ model' \in BOOLEAN
  BY <1>1, <1>2
<1> QED BY <1>1, <1>3, <1>4, CallKeeps

(* Shutdown preserves the invariant.                                       *)
LEMMA ShutdownKeeps ==
  ASSUME ComputeInv, crash = NULL, Shutdown
  PROVE  ComputeInv'
<1> DEFINE y == [op |-> "shutdown", at |-> "cancel", run |-> NULL]
<1>1. y \in CallState /\ CallOK(y) /\ y.op = "shutdown" /\ y.at = "cancel"
  BY DEF CallState, CallOK
<1>2. /\ Moves(Owner, y) /\ (\A c \in Client : MayCall(c))
      /\ misuse' = misuse \cup (IF kind = "detached" /\ Async # {} THEN {"abandoned"} ELSE {})
      /\ cancelled_' = TRUE /\ run' = Marked({"no", "reset"}, "cancelled") /\ life' = "shut"
      /\ UNCHANGED <<kind, status_, model, pool, thread_, tasks, taken, crash, cancels, lives>>
  BY DEF Shutdown, Moves
<1> HIDE DEF y
<1>3. Owner \in Client /\ ~Down /\ \A c \in Client : call[c].at = "idle"
  BY <1>2, MayCallFacts, ComputeAssumption
<1>4. SameRuns /\ (\A r \in Run : RunOK(run'[r], cancelled_')) /\ Active' = Active
  BY <1>2, MarkedRuns
<1>5. misuse \subseteq misuse' /\ (kind = "joinable" => "abandoned" \notin misuse')
      /\ pool \in {"none", "open"} /\ thread_ \in Run \cup {NULL}
      /\ status_ \in {"UNINITIALIZED", "IDLE", "RUNNING", "COMPLETED", "ERROR"}
  BY <1>2, <1>3, CallFacts DEF ModuleOK
<1>6. Within' => \A r \in Active : run[r].by = "execute" => kind = "joinable" /\ thread_' = r
  <2> SUFFICES ASSUME Within', NEW r \in Active, run[r].by = "execute"
               PROVE  kind = "joinable" /\ thread_' = r
    OBVIOUS
  <2>1. WithinOK /\ kind \in {"joinable", "detached"}
    BY <1>2, <1>3, <1>5, MisuseGrows, CallFacts
  <2>2. r \in Async
    BY DEF Async
  <2>3. kind = "joinable"
    BY <1>2, <2>1, <2>2 DEF Within
  <2> QED BY <1>2, <2>1, <2>3 DEF WithinOK
<1>7. /\ cancelled_' \in BOOLEAN /\ pool' \in {"none", "open", "stopped"} /\ pool' # "stopped"
      /\ thread_' \in Run \cup {NULL} /\ call[Owner].at # "wait" /\ y.at \in {"cancel", "join"}
      /\ status_' \in {"UNINITIALIZED", "IDLE", "RUNNING", "COMPLETED", "ERROR"}
  BY <1>1, <1>2, <1>3, <1>5
<1> QED BY <1>1, <1>2, <1>3, <1>4, <1>5, <1>6, <1>7, DownKeeps

(* What holds in the middle of shutdown.                                   *)
LEMMA DownFacts ==
  ASSUME ComputeInv, Down
  PROVE  /\ Owner \in Client /\ (\A d \in Client \ {Owner} : call[d].at = "idle") /\ life = "shut"
         /\ call[Owner].at \in {"cancel", "join", "drain", "hung"}
BY ComputeAssumption, CallFacts DEF ClientsOK, ModuleOK, CallOK, Down

(* StopCancel preserves the invariant.                                     *)
LEMMA StopCancelKeeps ==
  ASSUME ComputeInv, crash = NULL, NEW c \in Client, CancelEnds(c), call[c].op # "cancel"
  PROVE  ComputeInv'
<1>1. call[c].at = "cancel" /\ call[c].op = "shutdown"
  BY CallFacts DEF CancelEnds, CallOK
<1>2. c = Owner /\ Down
  BY <1>1, CallFacts DEF ClientsOK, Down
<1>3. Going(Owner, "join")
  BY <1>2 DEF CancelEnds
<1>4. PICK y \in CallState : Moves(Owner, y) /\ y.at = "join" /\ y.op = call[Owner].op /\ y.run = call[Owner].run
  BY <1>2, <1>3, GoingFacts DEF ComputeInv
<1>5. CallOK(y) /\ y.op = "shutdown"
  BY <1>1, <1>2, <1>4 DEF CallOK
<1>6. /\ status_' = "IDLE" /\ UNCHANGED <<kind, cancelled_, model, pool, thread_, tasks, taken, run, crash,
                                          life, misuse, cancels, lives>>
  BY DEF CancelEnds, history
<1>7. SameRuns /\ (\A r \in Run : RunOK(run'[r], cancelled_')) /\ Active' = Active
  BY <1>6, UnchangedRuns
<1>8. Within' => \A r \in Active : run[r].by = "execute" => kind = "joinable" /\ thread_' = r
  <2> SUFFICES ASSUME Within PROVE \A r \in Active : run[r].by = "execute" => kind = "joinable" /\ thread_ = r
    BY <1>6 DEF Within
  <2> QED BY <1>2, CallFacts, DownFacts DEF WithinOK
<1>9. /\ (\A d \in Client \ {Owner} : call[d].at = "idle") /\ call[Owner].at # "wait" /\ life' = "shut"
      /\ cancelled_' \in BOOLEAN /\ status_' \in {"UNINITIALIZED", "IDLE", "RUNNING", "COMPLETED", "ERROR"}
      /\ misuse \subseteq misuse' /\ (kind = "joinable" => "abandoned" \notin misuse')
      /\ thread_' \in Run \cup {NULL} /\ pool' \in {"none", "open", "stopped"} /\ pool' # "stopped"
  BY <1>1, <1>2, <1>6, DownFacts, CallFacts DEF ModuleOK
<1> QED BY <1>4, <1>5, <1>6, <1>7, <1>8, <1>9, DownKeeps

(* Join preserves the invariant.                                           *)
LEMMA JoinKeeps ==
  ASSUME ComputeInv, crash = NULL, Join
  PROVE  ComputeInv'
<1>1. Owner \in Client /\ call[Owner].at = "join" /\ call[Owner].op = "shutdown" /\ Down
  BY ComputeAssumption DEF Join, At, Down
<1>2. PICK y \in CallState : Moves(Owner, y) /\ y.at \in {"drain", "hung"} /\ y.op = call[Owner].op
                             /\ y.run = call[Owner].run
  <2>1. PICK at \in {"drain", "hung"} : Going(Owner, at)
    BY DEF Join
  <2> QED BY <1>1, <2>1, GoingFacts DEF ComputeInv
<1>3. CallOK(y) /\ y.op = "shutdown"
  BY <1>1, <1>2 DEF CallOK
<1>4. /\ thread_' = NULL /\ pool' \in {"none", "stopped"} /\ (\A r \in Run : thread_ = r => run[r].at = "ended")
      /\ UNCHANGED <<kind, status_, cancelled_, model, tasks, taken, run, crash, life, misuse, cancels, lives>>
  BY DEF Join, history
<1>5. SameRuns /\ (\A r \in Run : RunOK(run'[r], cancelled_')) /\ Active' = Active
  BY <1>4, UnchangedRuns
<1>6. Within' => \A r \in Active : run[r].by # "execute"
  <2> SUFFICES ASSUME Within, NEW r \in Active, run[r].by = "execute" PROVE FALSE
    BY <1>4 DEF Within
  <2>1. kind = "joinable" /\ thread_ = r
    BY <1>1, CallFacts, DownFacts DEF WithinOK
  <2> QED BY <1>4, <2>1 DEF Active
<1>7. /\ (\A d \in Client \ {Owner} : call[d].at = "idle") /\ call[Owner].at # "wait" /\ life' = "shut"
      /\ cancelled_' \in BOOLEAN /\ status_' \in {"UNINITIALIZED", "IDLE", "RUNNING", "COMPLETED", "ERROR"}
      /\ misuse \subseteq misuse' /\ (kind = "joinable" => "abandoned" \notin misuse')
      /\ thread_' \in Run \cup {NULL} /\ pool' \in {"none", "open", "stopped"}
  BY <1>1, <1>4, DownFacts, CallFacts
<1> QED BY <1>2, <1>3, <1>4, <1>5, <1>6, <1>7, DownKeeps

(* ShutdownEnds preserves the invariant.                                   *)
LEMMA ShutdownEndsKeeps ==
  ASSUME ComputeInv, crash = NULL, ShutdownEnds
  PROVE  ComputeInv'
<1>1. Owner \in Client /\ call[Owner].at = "drain" /\ call[Owner].op = "shutdown" /\ Down /\ Drained
  BY ComputeAssumption DEF ShutdownEnds, At, Down
<1>2. Moves(Owner, idle) /\ idle \in CallState /\ CallOK(idle) /\ idle.at = "idle" /\ idle.op = "none"
  BY ReturnFacts, IdleFacts, <1>1 DEF ShutdownEnds
<1>3. /\ pool' = "none" /\ model' = FALSE /\ status_' = "UNINITIALIZED"
      /\ UNCHANGED <<kind, cancelled_, thread_, tasks, taken, run, crash, life, misuse, cancels, lives>>
  BY DEF ShutdownEnds, history
<1>4. SameRuns /\ (\A r \in Run : RunOK(run'[r], cancelled_')) /\ Active' = Active
  BY <1>3, UnchangedRuns
<1>5. (\A d \in Client \ {Owner} : call[d].at = "idle") /\ life = "shut"
  BY <1>1, DownFacts
<1>6. ~Down'
  BY <1>1, <1>2, DownMoves
<1>7. Within => Active = {}
  <2> SUFFICES ASSUME Within, NEW r \in Active PROVE FALSE
    OBVIOUS
  <2>1. /\ r \in Run /\ run[r] \in RunState /\ RunOK(run[r], cancelled_)
        /\ run[r].by \in {"execute", "execute_sync", "batch", "batch_async"}
    BY ActiveRun, CallFacts, <1>1 DEF Active, ModuleOK
  <2>2. run[r].by # "execute"
    BY <1>1, <1>5, CallFacts DEF WithinOK
  <2>3. ~Needs(run[r])
    BY <1>1, <1>5 DEF ComputeInv, Awaited
  <2>4. run[r].at = "get" /\ run[r].pending # {}
    BY <2>1, <2>2, <2>3 DEF RunState, Needs, RunOK, Stage
  <2>5. PICK p \in run[r].pending : InPool(r, p)
    BY <2>1, <2>4 DEF ComputeInv, PoolOK, PendingOK
  <2> QED BY <1>1, <2>5 DEF InPool, Drained
<1>8. Within' => WithinOK'
  <2> SUFFICES ASSUME Within PROVE WithinOK'
    BY <1>3 DEF Within
  <2>1. \A d \in Client : call'[d].op = "none"
    <3>1. call'[Owner] = idle /\ \A d \in Client \ {Owner} : call'[d] = call[d]
      BY <1>1, <1>2, MoveFacts DEF ComputeInv
    <3>2. \A d \in Client \ {Owner} : call[d].op = "none"
      BY <1>5, CallFacts DEF ClientsOK, CallOK
    <3> QED BY <1>2, <3>1, <3>2
  <2>2. Active' = {} /\ Drained'
    BY <1>1, <1>3, <1>4, <1>7 DEF Drained
  <2> QED BY <1>3, <1>6, <2>1, <2>2 DEF WithinOK
<1>9. /\ cancelled_ \in BOOLEAN /\ thread_ \in Run \cup {NULL} /\ lives \in Nat /\ cancels \in Nat
      /\ (kind = "joinable" => "abandoned" \notin misuse)
  BY <1>1, CallFacts
<1>10. /\ cancelled_' \in BOOLEAN /\ thread_' \in Run \cup {NULL} /\ lives' \in Nat /\ cancels' \in Nat
       /\ cancels <= cancels' /\ misuse \subseteq misuse' /\ (kind = "joinable" => "abandoned" \notin misuse')
       /\ life' \in {"new", "live", "shut"} /\ life' # "live"
  BY <1>3, <1>5, <1>9
<1>11. /\ model' \in BOOLEAN /\ pool' \in {"none", "open", "stopped"} /\ pool' # "stopped"
       /\ status_' \in {"UNINITIALIZED", "IDLE", "RUNNING", "COMPLETED", "ERROR"}
       /\ call[Owner].at # "wait" /\ idle.at # "wait" /\ idle.at \notin StartsAt
  BY <1>1, <1>2, <1>3 DEF StartsAt
<1> QED BY <1>1, <1>2, <1>3, <1>4, <1>6, <1>8, <1>10, <1>11, CallKeeps

(* Initialize preserves the invariant.                                     *)
LEMMA InitializeKeeps ==
  ASSUME ComputeInv, crash = NULL, Initialize \/ InitializeFails
  PROVE  ComputeInv'
<1> DEFINE y == call[Owner]
<1>1. Owner \in Client /\ ~Down /\ y.at = "idle" /\ y.op = "none" /\ y \in CallState /\ CallOK(y)
  BY ComputeAssumption, MayCallFacts, CallFacts DEF Initialize, InitializeFails
<1>2. Moves(Owner, y) /\ call' = call
  BY <1>1 DEF Moves, ComputeInv, Typed, Initialize, InitializeFails
<1> HIDE DEF y
<1>3. UNCHANGED <<kind, cancelled_, thread_, tasks, taken, run, crash, cancels>>
  BY DEF Initialize, InitializeFails
<1>4. SameRuns /\ (\A r \in Run : RunOK(run'[r], cancelled_')) /\ Active' = Active
  BY <1>3, UnchangedRuns
<1>5. ~Down' /\ (Drained' <=> Drained)
  BY <1>1, <1>2, <1>3 DEF Down, Drained
<1>6. /\ cancelled_' \in BOOLEAN /\ thread_' \in Run \cup {NULL} /\ cancels' \in Nat /\ cancels <= cancels'
      /\ y.at # "wait" /\ y.at \notin StartsAt /\ call[Owner].at # "wait"
      /\ kind \in {"joinable", "detached"} /\ pool \in {"none", "open"} /\ lives \in Nat
  BY <1>1, <1>2, <1>3, CallFacts DEF StartsAt, ModuleOK, y
<1>7. CASE Initialize
  <2>1. /\ life # "live" /\ status_' = "IDLE" /\ model' = TRUE /\ life' = "live" /\ lives' = lives + 1
        /\ pool' = (IF kind = "joinable" THEN "open" ELSE pool)
        /\ misuse' = misuse \cup (IF kind = "detached" /\ pool = "none" THEN {"reinitialized"} ELSE {})
    BY <1>7 DEF Initialize
  <2>2. misuse \subseteq misuse' /\ (kind = "joinable" => "abandoned" \notin misuse')
    BY <2>1, CallFacts, <1>1
  <2>3. Within' => WithinOK'
    <3> SUFFICES ASSUME Within' PROVE WithinOK'
      OBVIOUS
    <3>1. WithinOK
      BY <1>1, <1>3, <2>2, MisuseGrows, CallFacts
    <3>2. \A r \in Active' : run'[r].by # "execute"
      BY <1>1, <1>3, <1>4, <2>1, <3>1 DEF WithinOK
    <3> QED BY <2>1, <3>2, LiveWithin
  <2>4. Proper' => pool' = "open"
    BY <1>3, <1>6, <2>1 DEF Proper
  <2>5. pool' \in {"none", "open"} /\ lives' \in Nat
    BY <1>6, <2>1
  <2> QED BY <1>1, <1>2, <1>3, <1>4, <1>5, <1>6, <2>1, <2>2, <2>3, <2>4, <2>5, CallKeeps
<1>8. CASE InitializeFails
  <2>1. life = "new" /\ status_' = "ERROR" /\ lives' = 1 /\ UNCHANGED <<model, pool, life, misuse>>
    BY <1>8 DEF InitializeFails
  <2>2. misuse \subseteq misuse' /\ (kind = "joinable" => "abandoned" \notin misuse')
    BY <2>1, CallFacts, <1>1
  <2>3. Within' => WithinOK'
    <3> SUFFICES ASSUME Within PROVE WithinOK'
      BY <2>1 DEF Within
    <3>1. WithinOK
      BY <1>1, CallFacts
    <3> QED BY <1>1, <1>2, <1>3, <1>4, <1>5, <2>1, <3>1 DEF WithinOK
  <2>4. model' \in BOOLEAN /\ life' # "live"
    BY <2>1, CallFacts, <1>1
  <2> QED BY <1>1, <1>2, <1>3, <1>4, <1>5, <1>6, <2>1, <2>2, <2>3, <2>4, CallKeeps
<1> QED BY <1>7, <1>8

(***************************************************************************)
(* The steps that begin a run.                                             *)
(***************************************************************************)
LEMMA NewRunKeeps ==
  ASSUME ComputeInv, NEW c \in Client, NEW z \in RunState, Becomes(NewRun, z),
         z.at \in {"compute", "submit", "ended"}, z.pending = {}, RunOK(z, cancelled_),
         NEW y \in CallState, Moves(c, y), CallOK(y), y.op \notin {"shutdown", "cancel"}, y.at \notin StartsAt,
         ~Down, call[c].at # "wait", c \in Starting \/ RunLeft,
         y.at = "wait" => y.run = NewRun /\ z.by = y.op,
         Act(z) => z.by \in {"execute", "execute_sync", "batch", "batch_async"} /\ (Needs(z) => y.at = "wait"),
         Act(z) /\ kind = "joinable" => /\ z.by = "execute" => thread_' = NewRun
                                        /\ z.by \in {"execute", "execute_sync"} => z.at # "submit",
         thread_' = thread_ \/ (thread_' = NewRun /\ thread_ = NULL),
         status_' \in {"UNINITIALIZED", "IDLE", "RUNNING", "COMPLETED", "ERROR"},
         misuse \subseteq misuse', kind = "joinable" => "abandoned" \notin misuse', Within' => life = "live",
         UNCHANGED <<kind, cancelled_, model, pool, tasks, taken, crash, life, cancels, lives>>
  PROVE  ComputeInv'
<1> DEFINE r == NewRun
<1>1. RunsLeft /\ IsFiniteSet(Starting) /\ Cardinality(Starting) \in Nat
      /\ Cardinality(Starting) <= Cardinality(Free)
  BY FS_CardinalityType DEF ComputeInv, RunsOK, RunsLeft
<1>2. 0 < Cardinality(Free) /\ (c \in Starting \/ Cardinality(Starting) < Cardinality(Free))
  <2>1. CASE c \in Starting
    <3>1. Cardinality(Starting) # 0
      BY <1>1, <2>1, FS_EmptySet
    <3> QED BY <1>1, <2>1, <3>1, FreeFacts
  <2>2. CASE RunLeft
    BY <1>1, <2>2, FreeFacts DEF RunLeft, Starting
  <2> QED BY <2>1, <2>2
<1>3. r \in Run /\ run[r].at = "none"
  BY <1>1, <1>2, NewRunFacts
<1>4. run' \in [Run -> RunState] /\ run'[r] = z /\ \A q \in Run \ {r} : run'[q] = run[q]
  BY <1>3, BecomesFacts DEF ComputeInv
<1>5. call' \in [Client -> CallState] /\ call'[c] = y /\ \A d \in Client \ {c} : call'[d] = call[d]
  BY MoveFacts DEF ComputeInv
<1>6. Typed'
  <2>1. thread_' \in Run \cup {NULL}
    BY <1>3 DEF ComputeInv, Typed
  <2> QED BY <1>4, <1>5, <2>1 DEF ComputeInv, Typed
<1>7. RunsLeft'
  <2>1. Starting' \subseteq Starting \ {c}
    BY <1>5 DEF Starting, StartsAt
  <2>2. Typed
    BY DEF ComputeInv
  <2> QED BY <1>1, <1>2, <2>1, <2>2, RunsLeftStart
<1>8. RunsOK'
  BY <1>4, <1>7 DEF RunsOK, ComputeInv
<1> HIDE DEF r
<1>9. \A q \in Run : PoolFits(run[q], run'[q]) /\ (Gone(run[q]) \/ NoTasks(run[q]) \/ ~Gone(run'[q]))
  <2>1. PoolFits(run[r], z) /\ NoTasks(run[r])
    BY <1>3 DEF PoolFits, NoTasks
  <2>2. \A q \in Run : PoolFits(run[q], run[q]) /\ (Gone(run[q]) \/ ~Gone(run[q]))
    BY DEF PoolFits
  <2> QED BY <1>4, <2>1, <2>2
<1>10. PoolOK'
  BY <1>9, PoolKeeps DEF ComputeInv
<1>11. ~Down'
  BY DownMoves
<1>12. ClientsOK'
  <2>1. Typed /\ ClientsOK /\ cancels' \in Nat /\ cancels <= cancels'
    BY DEF ComputeInv, Typed
  <2>2. \A q \in Run : run[q].at # "none" => run'[q].at # "none" /\ run'[q].by = run[q].by
    BY <1>3, <1>4
  <2>3. y.at = "wait" => run'[y.run].at # "none" /\ run'[y.run].by = y.op
    BY <1>4 DEF r
  <2> QED BY <2>1, <2>2, <2>3, ClientsMove
<1>13. \A q : q \in Active' =>
         /\ q \in Run
         /\ (q = r /\ run'[q] = z /\ Act(z)) \/ (q \in Active /\ q # r /\ run'[q] = run[q])
  BY <1>4 DEF Active, Act
<1>14. Awaited'
  <2> SUFFICES ASSUME NEW q \in Active', Needs(run'[q])
               PROVE  \E d \in Client : call'[d].at = "wait" /\ call'[d].run = q
    BY DEF Awaited
  <2>1. CASE q = r
    BY <1>5, <1>13, <2>1 DEF r
  <2>2. CASE q # r
    <3>1. PICK d \in Client : call[d].at = "wait" /\ call[d].run = q
      BY <1>13, <2>2 DEF ComputeInv, Awaited
    <3> QED BY <1>5, <3>1
  <2> QED BY <2>1, <2>2
<1>15. ModuleOK'
  <2>1. ModuleOK
    BY DEF ComputeInv
  <2>2. ASSUME NEW q \in Active'
        PROVE  /\ run'[q].by \in {"execute", "execute_sync", "batch", "batch_async"}
               /\ kind = "joinable" /\ run'[q].by \in {"execute", "execute_sync"} => run'[q].at # "submit"
    BY <1>13, <2>1 DEF ModuleOK
  <2> QED BY <1>11, <2>1, <2>2 DEF ModuleOK
<1>16. Within' => WithinOK'
  <2> SUFFICES ASSUME Within' PROVE WithinOK'
    OBVIOUS
  <2>1. WithinOK /\ model
    BY MisuseGrows, CallFacts DEF ModuleOK
  <2>2. \A q \in Active' : run'[q].by = "execute" /\ kind' = "joinable" => thread_' = q
    <3> SUFFICES ASSUME NEW q \in Active', run'[q].by = "execute", kind = "joinable" PROVE thread_' = q
      OBVIOUS
    <3>1. CASE q = r
      BY <1>13, <3>1 DEF r
    <3>2. CASE q # r
      <4>1. thread_ = q /\ q \in Run
        BY <1>13, <2>1, <3>2 DEF WithinOK
      <4> QED BY <4>1, ComputeAssumption DEF Run
    <3> QED BY <3>1, <3>2
  <2> QED BY <2>1, <2>2, LiveWithin
<1>17. Proper' => ProperOK'
  <2> SUFFICES ASSUME Proper' PROVE ProperOK'
    OBVIOUS
  <2>1. ProperOK
    BY MisuseGrows, CallFacts
  <2>2. TasksHere'
    BY <1>9, <2>1, HereKeeps DEF ComputeInv, ProperOK, TasksHere
  <2> QED BY <2>1, <2>2 DEF ProperOK, TasksHere
<1> QED BY <1>6, <1>8, <1>10, <1>12, <1>14, <1>15, <1>16, <1>17 DEF ComputeInv

(* A run that has just begun with such chunks.                             *)
LEMMA BegunFacts ==
  ASSUME NEW by \in {"execute", "execute_sync", "batch", "batch_async"}, NEW n \in 0..MaxCount, NEW s,
         Parts(s, n), cancelled_ \in BOOLEAN, NEW z, z = Begun(by, n, s)
  PROVE  /\ z \in RunState /\ z.by = by /\ z.pending = {} /\ RunOK(z, cancelled_)
         /\ z.at \in {"compute", "submit"} /\ (s = <<>> => z.at = "compute")
<1>1. s \in Seq(SUBSET (1..MaxCount))
  BY DEF Parts
<1>2. /\ z \in RunState /\ z.by = by /\ z.cracks = n /\ z.unsent = s /\ z.pending = {} /\ z.predicted = {}
      /\ z.failed = FALSE /\ z.verdict = NULL /\ z.at = (IF s = <<>> THEN "compute" ELSE "submit")
      /\ z.mark = IF cancelled_ THEN "cancelled" ELSE "no"
  BY <1>1 DEF Begun, RunState
<1>3. UnsentOK(z) /\ Stage(z) /\ Told(z)
  BY <1>2, ComputeAssumption DEF UnsentOK, Stage, Told, Parts
<1>4. s # <<>> => Covered(z)
  BY <1>2 DEF Covered, Parts
<1>5. MarkOK(z, cancelled_)
  BY <1>2, <1>4 DEF MarkOK
<1> QED BY <1>2, <1>3, <1>5 DEF RunOK

(* ParseFails preserves the invariant.                                     *)
LEMMA ParseFailsKeeps ==
  ASSUME ComputeInv, crash = NULL, NEW c \in Client, ParseFails(c)
  PROVE  ComputeInv'
<1>1. call[c] \in CallState /\ call[c].at = "start" /\ call[c].op \in {"execute", "execute_sync"}
  BY CallFacts DEF ParseFails, CallOK
<1> DEFINE z == [unused EXCEPT !.at = "ended", !.by = call[c].op]
<1>2. Becomes(NewRun, z)
  BY DEF ParseFails, Becomes
<1>3. z \in RunState /\ z.at = "ended" /\ RunOK(z, cancelled_) /\ z.pending = {}
  BY <1>1, EndedBy
<1>4. Moves(c, idle) /\ idle \in CallState /\ CallOK(idle) /\ idle.at = "idle" /\ idle.op = "none"
  BY ReturnFacts, IdleFacts DEF ParseFails
<1>5. status_' = "ERROR" /\ UNCHANGED <<kind, cancelled_, model, pool, thread_, tasks, taken, crash,
                                        life, misuse, cancels, lives>>
  BY DEF ParseFails, history
<1>6. c \in Starting /\ ~Down
  BY <1>1, NotDown DEF Starting, Down
<1>7. Within' => life = "live"
  BY <1>1, <1>5, RunsInLife DEF Within
<1>8. misuse \subseteq misuse' /\ (kind = "joinable" => "abandoned" \notin misuse')
      /\ idle.at # "wait" /\ idle.at \notin StartsAt /\ ~Act(z) /\ thread_' = thread_
  BY <1>3, <1>4, <1>5, CallFacts DEF StartsAt, Act
<1> HIDE DEF z
<1> QED BY <1>1, <1>2, <1>3, <1>4, <1>5, <1>6, <1>7, <1>8, NewRunKeeps

(* Start preserves the invariant.                                          *)
LEMMA StartKeeps ==
  ASSUME ComputeInv, crash = NULL, NEW c \in Client, NEW n \in Counts, Start(c, n)
  PROVE  ComputeInv'
<1>1. call[c] \in CallState /\ call[c].at = "start" /\ call[c].op \in {"execute", "execute_sync"}
      /\ kind \in {"joinable", "detached"} /\ cancelled_ \in BOOLEAN
  BY CallFacts DEF Start, CallOK
<1>2. UNCHANGED <<kind, status_, cancelled_, model, pool, tasks, taken, life, cancels, lives>>
  BY DEF Start
<1>3. CASE kind = "joinable" /\ call[c].op = "execute" /\ thread_ # NULL
  <2>1. crash' = "terminate" /\ misuse' = misuse \cup {"again"} /\ UNCHANGED <<thread_, run, call>>
    BY <1>3 DEF Start
  <2>2. Typed' /\ ~Proper' /\ (kind' = "joinable" => "abandoned" \notin misuse')
    BY <1>2, <1>3, <2>1 DEF ComputeInv, Typed, Proper
  <2>3. RunsOK'
    BY <1>2, <2>1 DEF ComputeInv, RunsOK, RunsLeft, Starting, Free
  <2>4. PoolOK'
    BY <1>2, <2>1 DEF ComputeInv, PoolOK, QueueOK, TakenOK, PendingOK, InPool
  <2>5. ClientsOK' /\ ModuleOK'
    BY <1>2, <2>1 DEF ComputeInv, ClientsOK, Down, ModuleOK, Active
  <2>6. Within' => Within
    BY <2>1 DEF Within
  <2>7. Awaited' /\ (Within' => WithinOK')
    BY <1>2, <2>1, <2>6 DEF ComputeInv, Awaited, Active, WithinOK, Down, Drained
  <2> QED BY <2>2, <2>3, <2>4, <2>5, <2>7 DEF ComputeInv
<1>4. CASE ~(kind = "joinable" /\ call[c].op = "execute" /\ thread_ # NULL)
  <2> DEFINE s == ChunksOf(n)
             z == Begun(call[c].op, n, s)
             w == [call[c] EXCEPT !.at = "wait", !.run = NewRun]
             y == IF call[c].op = "execute" THEN idle ELSE w
  <2>1. /\ Becomes(NewRun, z) /\ Moves(c, y)
        /\ thread_' = (IF kind = "joinable" /\ call[c].op = "execute" THEN NewRun ELSE thread_)
        /\ UNCHANGED <<crash, misuse>>
    BY <1>4 DEF Start, Becomes, Moves
  <2>2. n \in 0..MaxCount
    BY ComputeAssumption
  <2>3. Parts(s, n) /\ (kind = "joinable" => s = <<>>)
    <3>1. CASE kind = "joinable"
      BY <3>1, EmptySeq DEF ChunksOf, Parts
    <3>2. CASE kind # "joinable"
      BY <2>2, <3>2, ChunksParts, ComputeAssumption DEF ChunksOf
    <3> QED BY <3>1, <3>2
  <2> HIDE DEF s
  <2>4. /\ z \in RunState /\ z.by = call[c].op /\ z.pending = {} /\ RunOK(z, cancelled_)
        /\ z.at \in {"compute", "submit"} /\ (s = <<>> => z.at = "compute")
    BY <1>1, <2>2, <2>3, BegunFacts
  <2>5. c \in Starting
    BY <1>1 DEF Starting
  <2>6. RunsLeft /\ NewRun \in Run
    <3>1. RunsLeft /\ IsFiniteSet(Starting)
      BY DEF ComputeInv, RunsOK, RunsLeft
    <3>2. Cardinality(Starting) # 0 /\ Cardinality(Starting) \in Nat
      BY <2>5, <3>1, FS_EmptySet, FS_CardinalityType
    <3>3. 0 < Cardinality(Free)
      BY <3>1, <3>2, FreeFacts DEF RunsLeft
    <3> QED BY <3>1, <3>3, NewRunFacts
  <2> HIDE DEF z
  <2>7. w \in CallState /\ w.at = "wait" /\ w.run = NewRun /\ w.op = call[c].op
    BY <1>1, <2>6 DEF CallState
  <2>8. /\ y \in CallState /\ CallOK(y) /\ y.op \notin {"shutdown", "cancel"} /\ y.at \notin StartsAt
        /\ (y.at = "wait" => y.run = NewRun /\ y.op = call[c].op)
        /\ (call[c].op # "execute" => y.at = "wait")
    <3>1. CASE call[c].op = "execute"
      BY <3>1, IdleFacts DEF StartsAt
    <3>2. CASE call[c].op # "execute"
      <4>1. CallOK(w) /\ w.at \notin StartsAt /\ w.op \notin {"shutdown", "cancel"}
        BY <1>1, <2>6, <2>7, <3>2 DEF CallOK, StartsAt
      <4> QED BY <2>7, <3>2, <4>1
    <3> QED BY <3>1, <3>2
  <2> HIDE DEF y, w
  <2>9. z.by \in {"execute", "execute_sync", "batch", "batch_async"} /\ (Needs(z) => y.at = "wait")
    BY <1>1, <2>4, <2>8 DEF Needs
  <2>10. kind = "joinable" => /\ z.by = "execute" => thread_' = NewRun
                              /\ z.at # "submit"
    BY <2>1, <2>3, <2>4
  <2>11. thread_' = thread_ \/ (thread_' = NewRun /\ thread_ = NULL)
    BY <1>4, <2>1
  <2>12. ~Down
    BY <1>1, NotDown DEF Down
  <2>13. Within' => life = "live"
    BY <1>1, <2>1, RunsInLife DEF Within
  <2>14. misuse \subseteq misuse' /\ (kind = "joinable" => "abandoned" \notin misuse')
         /\ status_' \in {"UNINITIALIZED", "IDLE", "RUNNING", "COMPLETED", "ERROR"} /\ call[c].at # "wait"
    BY <1>1, <1>2, <2>1, CallFacts
  <2> QED BY <1>2, <2>1, <2>4, <2>5, <2>8, <2>9, <2>10, <2>11, <2>12, <2>13, <2>14, NewRunKeeps
<1> QED BY <1>3, <1>4

(* Batch preserves the invariant.                                          *)
LEMMA BatchKeeps ==
  ASSUME ComputeInv, crash = NULL, NEW c \in Client, NEW n \in BatchCounts,
         NEW by \in {"batch", "batch_async"}, Batch(c, n, by)
  PROVE  ComputeInv'
<1> DEFINE z == Begun(by, n, Singles(n))
           y == [op |-> by, at |-> "wait", run |-> NewRun]
<1>1. /\ Becomes(NewRun, z) /\ Moves(c, y) /\ MayCall(c) /\ RunLeft /\ misuse' = misuse \cup Outside
      /\ UNCHANGED <<kind, status_, cancelled_, model, pool, thread_, tasks, taken, crash, life, cancels, lives>>
  BY DEF Batch, Becomes, Moves, shared
<1>2. n \in 0..MaxCount /\ cancelled_ \in BOOLEAN
  BY ComputeAssumption, CallFacts
<1>3. z \in RunState /\ z.by = by /\ z.pending = {} /\ RunOK(z, cancelled_) /\ z.at \in {"compute", "submit"}
  BY <1>2, SinglesParts, BegunFacts
<1>4. NewRun \in Run
  <2>1. RunsLeft /\ IsFiniteSet(Starting) /\ Cardinality(Starting) < Cardinality(Free)
    BY <1>1 DEF ComputeInv, RunsOK, RunsLeft, RunLeft, Starting
  <2>2. 0 < Cardinality(Free)
    BY <2>1, FS_CardinalityType, FreeFacts
  <2> QED BY <2>1, <2>2, NewRunFacts
<1>5. /\ y \in CallState /\ CallOK(y) /\ y.op = by /\ y.at = "wait" /\ y.run = NewRun /\ y.at \notin StartsAt
  BY <1>4 DEF CallState, CallOK, StartsAt
<1> HIDE DEF z, y
<1>6. ~Down /\ call[c].at # "wait"
  BY <1>1, MayCallFacts
<1>7. Within' => life = "live"
  BY <1>1 DEF Within, Outside
<1>8. misuse \subseteq misuse' /\ (kind = "joinable" => "abandoned" \notin misuse')
      /\ status_' \in {"UNINITIALIZED", "IDLE", "RUNNING", "COMPLETED", "ERROR"}
  BY <1>1, CallFacts DEF Outside
<1>9. z.by \in {"execute", "execute_sync", "batch", "batch_async"} /\ z.by \notin {"execute", "execute_sync"}
      /\ thread_' = thread_ /\ y.op \notin {"shutdown", "cancel"} /\ z.by = y.op
  BY <1>1, <1>3, <1>5
<1> QED BY <1>1, <1>3, <1>5, <1>6, <1>7, <1>8, <1>9, NewRunKeeps

(***************************************************************************)
(* The invariant.                                                          *)
(***************************************************************************)
LEMMA InvInit == Init => ComputeInv
<1> SUFFICES ASSUME Init PROVE ComputeInv
  OBVIOUS
<1> USE DEF Init
<1>1. /\ \A r \in Run : run[r] = unused
      /\ \A c \in Client : call[c] = idle
  OBVIOUS
<1>2. Active = {} /\ tasks = <<>> /\ taken = {} /\ misuse = {}
  BY UnusedFacts DEF Active
<1>3. Typed
  <2>1. run \in [Run -> RunState] /\ call \in [Client -> CallState]
    BY UnusedFacts, IdleFacts
  <2>2. tasks \in Seq(Task) /\ taken \subseteq Task
    BY EmptySeq
  <2> QED BY <2>1, <2>2 DEF Typed
<1>4. RunsOK
  <2>1. Starting = {}
    BY <1>1, IdleFacts DEF Starting
  <2>2. IsFiniteSet(Starting) /\ Cardinality(Starting) <= Cardinality(Free)
    BY <2>1, FS_EmptySet, FreeFacts
  <2>3. \A r \in Run : run[r].at = "none" <=> r > 0
    BY <1>1, UnusedFacts DEF Run
  <2>4. 0 \in 0..MaxRuns
    BY ComputeAssumption
  <2>5. RunsLeft
    BY <2>2, <2>3, <2>4 DEF RunsLeft
  <2>6. RunOK(unused, cancelled_)
    BY UnusedFacts, ComputeAssumption DEF RunOK, UnsentOK, Stage, Told, MarkOK
  <2> QED BY <1>1, <2>5, <2>6 DEF RunsOK
<1>5. PoolOK
  BY <1>1, <1>2, UnusedFacts DEF PoolOK, QueueOK, TakenOK, PendingOK
<1>6. ClientsOK
  BY <1>1, IdleFacts DEF ClientsOK
<1>7. ~Down
  BY <1>1, IdleFacts, ComputeAssumption DEF Down
<1>8. Awaited /\ ModuleOK
  BY <1>2, <1>7 DEF Awaited, ModuleOK
<1>9. WithinOK
  BY <1>1, <1>2, IdleFacts DEF WithinOK, Drained
<1>10. ProperOK
  BY <1>2 DEF ProperOK
<1> QED BY <1>2, <1>3, <1>4, <1>5, <1>6, <1>8, <1>9, <1>10 DEF ComputeInv

(* The invariant is about the state only.                                  *)
LEMMA InvStutter == ASSUME ComputeInv, UNCHANGED vars PROVE ComputeInv'
<1>1. UNCHANGED <<kind, status_, cancelled_, model, pool, thread_, tasks, taken, run, call, crash,
                  life, misuse, cancels, lives>>
  BY DEF vars, shared, history
<1>2. Typed' /\ RunsOK'
  BY <1>1 DEF ComputeInv, Typed, RunsOK, RunsLeft, Starting, Free
<1>3. PoolOK'
  BY <1>1 DEF ComputeInv, PoolOK, QueueOK, TakenOK, PendingOK, InPool
<1>4. ClientsOK' /\ ModuleOK' /\ Awaited'
  BY <1>1 DEF ComputeInv, ClientsOK, Down, ModuleOK, Active, Awaited
<1>5. (Within' => WithinOK') /\ (Proper' => ProperOK') /\ (kind' = "joinable" => "abandoned" \notin misuse')
  BY <1>1 DEF ComputeInv, Within, WithinOK, Down, Drained, Active, Proper, ProperOK
<1> QED BY <1>2, <1>3, <1>4, <1>5 DEF ComputeInv

(* Every step of a client preserves the invariant.                         *)
LEMMA CallsKeep ==
  ASSUME ComputeInv, NEW c \in Client, Continue(c) \/ Call(c)
  PROVE  ComputeInv'
<1>1. crash = NULL
  BY DEF Continue, Call
<1>2. CASE Continue(c)
  <2>1. CASE ClearCancelled(c) \/ SetRunning(c) \/ CallReturns(c)
    BY <1>1, <2>1, ClearCancelledKeeps, SetRunningKeeps, CallReturnsKeeps
  <2>2. CASE CancelEnds(c)
    BY <1>1, <2>2, CancelEndsKeeps, StopCancelKeeps
  <2>3. CASE \E n \in Counts : Start(c, n)
    BY <1>1, <2>3, StartKeeps
  <2>4. CASE Join \/ ShutdownEnds
    BY <1>1, <2>4, JoinKeeps, ShutdownEndsKeeps
  <2> QED BY <1>2, <2>1, <2>2, <2>3, <2>4 DEF Continue
<1>3. CASE Call(c)
  <2>1. CASE Check(c, "execute") \/ Check(c, "execute_sync")
    BY <1>1, <2>1, CheckKeeps
  <2>2. CASE Cancel(c) \/ ParseFails(c)
    BY <1>1, <2>2, CancelKeeps, ParseFailsKeeps
  <2>3. CASE \E n \in BatchCounts, by \in {"batch", "batch_async"} : Batch(c, n, by)
    BY <1>1, <2>3, BatchKeeps
  <2>4. CASE Initialize \/ InitializeFails \/ Shutdown
    BY <1>1, <2>4, InitializeKeeps, ShutdownKeeps
  <2> QED BY <1>3, <2>1, <2>2, <2>3, <2>4 DEF Call
<1> QED BY <1>2, <1>3

(* Every step preserves the invariant.                                     *)
LEMMA InvNext == ComputeInv /\ [Next]_vars => ComputeInv'
<1> SUFFICES ASSUME ComputeInv, [Next]_vars PROVE ComputeInv'
  OBVIOUS
<1>1. CASE \E r \in Run : RunStep(r)
  BY <1>1, RunsKeep
<1>2. CASE TakeStep
  BY <1>2, TakeKeeps
<1>3. CASE \E t \in taken : TaskStep(t)
  BY <1>3, TasksKeep
<1>4. CASE \E c \in Client : Continue(c) \/ Call(c)
  BY <1>4, CallsKeep
<1>5. CASE UNCHANGED vars
  BY <1>5, InvStutter
<1> QED BY <1>1, <1>2, <1>3, <1>4, <1>5 DEF Next

(* The invariant holds in every reachable state.                           *)
THEOREM ComputeInvariant == Spec => []ComputeInv
<1>1. Init => ComputeInv
  BY InvInit
<1>2. ComputeInv /\ [Next]_vars => ComputeInv'
  BY InvNext
<1> QED BY <1>1, <1>2, PTL DEF Spec

(* Every variable keeps its type, and what a run has predicted or waits    *)
(* for are cracks of it.                                                   *)
THEOREM ComputeTypeCorrect == Spec => []TypeOK
<1>1. ComputeInv => TypeOK
  <2> SUFFICES ASSUME ComputeInv PROVE TypeOK
    OBVIOUS
  <2>1. \A r \in Run : Stage(run[r])
    BY DEF ComputeInv, RunsOK, RunOK
  <2> QED BY <2>1 DEF ComputeInv, Typed, TypeOK, Stage
<1> QED BY <1>1, ComputeInvariant, PTL

(* Used within initialize .. shutdown, a module never ends the process.    *)
THEOREM ModulesWithstandTheirUse == Spec => []NoCrashInLife
<1>1. ComputeInv => NoCrashInLife
  <2> SUFFICES ASSUME ComputeInv, crash # NULL
               PROVE  misuse \cap (IF kind = "joinable" THEN {"again", "outside"}
                                   ELSE {"outside", "abandoned", "reinitialized", "rethrown"}) # {}
    BY DEF NoCrashInLife
  <2>1. ~Proper
    BY DEF ComputeInv, ProperOK
  <2> QED BY <2>1 DEF Proper
<1> QED BY <1>1, ComputeInvariant, PTL

(* When shutdown has returned nothing of the module goes on.               *)
THEOREM ShutdownLeavesNothing == Spec => []ShutdownIsFinal
<1>1. ComputeInv => ShutdownIsFinal
  <2> SUFFICES ASSUME ComputeInv, life = "shut", call[Owner].at = "idle", misuse \cap {"abandoned", "outside"} = {}
               PROVE  /\ Active = {} /\ Drained /\ \A c \in Client : call[c].at # "idle" => call[c].op = "cancel"
                      /\ status_ \in {"UNINITIALIZED", "IDLE"}
                      /\ status_ = "IDLE" => cancels > 0
    BY DEF ShutdownIsFinal
  <2>1. WithinOK
    BY DEF ComputeInv, Within
  <2>2. Owner \in Client /\ ~Down
    BY ComputeAssumption, CallFacts DEF CallOK, Down
  <2>3. Active = {} /\ Drained /\ status_ \in {"UNINITIALIZED", "IDLE"} /\ (status_ = "IDLE" => cancels > 0)
    BY <2>1, <2>2 DEF WithinOK
  <2>4. ASSUME NEW c \in Client, call[c].at # "idle" PROVE call[c].op = "cancel"
    <3>1. call[c] \in CallState /\ CallOK(call[c]) /\ (c # Owner => call[c].op # "shutdown") /\ c # Owner
      BY <2>4, CallFacts DEF ClientsOK
    <3>2. call[c].op \notin {"execute", "execute_sync", "batch", "batch_async"}
      BY <2>1 DEF WithinOK
    <3> QED BY <2>4, <3>1, <3>2 DEF CallState, CallOK
  <2> QED BY <2>3, <2>4
<1> QED BY <1>1, ComputeInvariant, PTL

(* A result with cracks missing is stored as COMPLETED only by             *)
(* execute_sync or when another execute took the cancellation back.        *)
THEOREM PartialResultsAreTold == Spec => []PartialIsTold
<1>1. ComputeInv => PartialIsTold
  BY DEF ComputeInv, RunsOK, RunOK, Told, PartialIsTold
<1> QED BY <1>1, ComputeInvariant, PTL
=============================================================================
