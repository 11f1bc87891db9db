-------------------------- MODULE VrPreview_proofs --------------------------
(***************************************************************************)
(* Proofs about VrPreview for any clients, workers, builds, cracks and     *)
(* cancels.  OneBuildPerCancelOrRace counts, to be inductive, the calls of *)
(* execute that have set RUNNING and not yet submitted their build, and    *)
(* needs three facts more: a client between its test and its set that      *)
(* finds RUNNING was overtaken; after shutdown nobody sets RUNNING; and a  *)
(* build is taken from the pool only once, for otherwise a worker could    *)
(* restart a build that has ended, and it would count again.               *)
(* TasksOutliveFailedOnly needs what every stage of a build says about its *)
(* futures, and that the future of a crack is where its task is: in the    *)
(* queue, with one worker, or done.                                        *)
(***************************************************************************)
EXTENDS VrPreview, FiniteSetTheorems, SequenceTheorems, TLAPS

(* A build in the queue has not begun, and is there once.                  *)
QueuedOnce ==
  \A i \in 1..Len(tasks) : tasks[i][2] = 0 =>
    /\ build[tasks[i][1]].at = "queued"
    /\ \A j \in 1..Len(tasks) : tasks[j] = tasks[i] => i = j

(* Once shutdown was called no client is in a call or sets RUNNING.        *)
DownIsQuiet == life # "up" => status_ # "RUNNING" /\ \A c \in Client : client[c] = "idle"

(* Whoever tested status_ before it became RUNNING was overtaken.          *)
TestedBefore == status_ = "RUNNING" => \A c \in Client : Tested(c) => c \in overtaken

(* Calls of execute that set RUNNING and have not submitted their build.   *)
Starting == {c \in Client : client[c] = "start"}
Paid == cancels + races + (IF status_ = "RUNNING" THEN 1 ELSE 0)
Counted == Cardinality(InCharge) + Cardinality(Starting) <= Paid

IInv == TypeOK /\ QueuedOnce /\ DownIsQuiet /\ TestedBefore /\ Counted

(* Members of a finite set are finitely many, and each of them weighs one. *)
LEMMA Members ==
  ASSUME NEW U, IsFiniteSet(U), NEW S \in SUBSET U, NEW b \in U
  PROVE  /\ IsFiniteSet(S) /\ Cardinality(S) \in Nat
         /\ Cardinality(S \cup {b}) \in Nat /\ Cardinality(S \ {b}) \in Nat
         /\ Cardinality(S \cup {b}) <= Cardinality(S) + 1
         /\ b \in S => Cardinality(S \ {b}) = Cardinality(S) - 1
<1>1. IsFiniteSet(S)
  BY FS_Subset
<1>2. Cardinality(S) \in Nat
  BY <1>1, FS_CardinalityType
<1>3. Cardinality(S \cup {b}) = IF b \in S THEN Cardinality(S) ELSE Cardinality(S) + 1
  BY <1>1, FS_AddElement
<1>4. Cardinality(S \ {b}) = IF b \in S THEN Cardinality(S) - 1 ELSE Cardinality(S)
  BY <1>1, FS_RemoveElement
<1>5. S \ {b} \in SUBSET U /\ IsFiniteSet(S \ {b})
  BY <1>1, FS_Subset
<1>6. Cardinality(S \ {b}) \in Nat
  BY <1>5, FS_CardinalityType
<1> QED BY <1>1, <1>2, <1>3, <1>4, <1>6

LEMMA BuildsFinite == IsFiniteSet(Build)
<1>1. 1 \in Int /\ MaxBuilds \in Int
  BY VrAssumption
<1> QED BY <1>1, FS_Interval DEF Build

LEMMA CardinalitiesAreNumbers == Cardinality(InCharge) \in Nat /\ Cardinality(Starting) \in Nat
<1>1. InCharge \in SUBSET Build /\ Starting \in SUBSET Client
  BY DEF InCharge, Starting
<1> QED BY <1>1, BuildsFinite, VrAssumption, FS_Subset, FS_CardinalityType

LEMMA InitIInv == Init => IInv
<1> SUFFICES ASSUME Init PROVE IInv
  OBVIOUS
<1> USE VrAssumption DEF Init
<1>1. TypeOK
  <2>1. tasks \in Seq(Task)
    BY EmptySeq
  <2>2. build \in [Build -> [by : {NULL, "execute", "async"} \cup Client,
                            cracks : 0..MaxCracks, bad : (0..MaxCracks) \cup {NULL},
                            at : {"none", "queued", "submit", "get", "ok", "failed"},
                            next : 1..MaxCracks + 1]]
    OBVIOUS
  <2> QED BY <2>1, <2>2 DEF TypeOK
<1>2. QueuedOnce
  BY DEF QueuedOnce
<1>3. Counted
  <2>1. InCharge = {} /\ Starting = {}
    BY DEF InCharge, Started, Starting
  <2>2. Cardinality({}) = 0
    BY FS_EmptySet
  <2> QED BY <2>1, <2>2 DEF Counted, Paid
<1> QED BY <1>1, <1>2, <1>3 DEF IInv, DownIsQuiet, TestedBefore

BuildT == [by : {NULL, "execute", "async"} \cup Client,
           cracks : 0..MaxCracks, bad : (0..MaxCracks) \cup {NULL},
           at : {"none", "queued", "submit", "get", "ok", "failed"},
           next : 1..MaxCracks + 1]
FutureT == [Crack -> {"none", "pending", "running", "set", "thrown"}]

QueueTyped == tasks \in Seq(Task) /\ worker \in [Worker -> Task \cup {NULL}] /\ stop \in BOOLEAN
BuildsTyped == build \in [Build -> BuildT] /\ future \in [Build -> FutureT]
CallsTyped ==
  /\ status_ \in {"UNINITIALIZED", "IDLE", "RUNNING", "COMPLETED", "ERROR"}
  /\ cancelled_ \in BOOLEAN
  /\ client \in [Client -> {"idle", "execute", "execute_sync", "start", "sync"}]
  /\ life \in {"up", "join", "hung", "down"}
  /\ cancels \in Nat /\ overtaken \in SUBSET Client /\ races \in Nat

LEMMA TypeOKParts == TypeOK <=> QueueTyped /\ BuildsTyped /\ CallsTyped
BY DEF TypeOK, QueueTyped, BuildsTyped, CallsTyped, BuildT, FutureT

(* Assigning to one field of one build.                                    *)
LEMMA BuildUpdates ==
  ASSUME NEW f \in [Build -> BuildT], NEW b \in Build
  PROVE  /\ \A at \in {"none", "queued", "submit", "get", "ok", "failed"} :
              [f EXCEPT ![b].at = at] \in [Build -> BuildT]
         /\ \A n \in 1..MaxCracks + 1 : [f EXCEPT ![b].next = n] \in [Build -> BuildT]
         /\ \A at \in {"none", "queued", "submit", "get", "ok", "failed"}, n \in 1..MaxCracks + 1 :
              [f EXCEPT ![b].at = at, ![b].next = n] \in [Build -> BuildT]
BY ZenonT(40) DEF BuildT

(* The stores of execute and execute_sync.                                 *)
LEMMA SetRunningTyped ==
  ASSUME CallsTyped, NEW c \in Client, SetRunning(c)
  PROVE  /\ status_' = "RUNNING" /\ cancelled_' \in BOOLEAN
         /\ overtaken' \in SUBSET Client /\ races' \in Nat
<1>1. races \in Nat /\ (races' = races \/ races' = races + 1)
  BY DEF CallsTyped, SetRunning
<1>2. overtaken' \in SUBSET Client
  BY DEF SetRunning
<1>3. races' \in Nat
  BY <1>1
<1>4. status_' = "RUNNING" /\ cancelled_' = FALSE
  BY DEF SetRunning
<1> QED BY <1>2, <1>3, <1>4

(* Every step keeps the types: the position in either loop stays within    *)
(* the cracks of the build.                                                *)
LEMMA NextTypeOK == TypeOK /\ Next => TypeOK'
<1> SUFFICES ASSUME QueueTyped, BuildsTyped, CallsTyped, Next
             PROVE  QueueTyped' /\ BuildsTyped' /\ CallsTyped'
  BY TypeOKParts, PTL
<1> USE VrAssumption
<1>0. ASSUME NEW t \in Task
      PROVE  Append(tasks, t) \in Seq(Task)
  BY DEF QueueTyped
<1>1. ASSUME NEW c \in Client, NEW b \in Build, NEW i \in Input, Starts(c, b, i)
      PROVE  QueueTyped' /\ BuildsTyped' /\ CallsTyped'
  <2>1. <<b, 0>> \in Task /\ i.cracks \in 0..MaxCracks /\ i.bad \in (0..MaxCracks) \cup {NULL}
    BY DEF Task
  <2>2. Append(tasks, <<b, 0>>) \in Seq(Task)
    BY <2>1, <1>0
  <2>3. ASSUME NEW by \in {"execute", "async"} \cup Client, NEW at \in {"queued", "submit"},
               Begun(b, i, by, at)
        PROVE  build' \in [Build -> BuildT]
    <3>1. [by |-> by, cracks |-> i.cracks, bad |-> i.bad, at |-> at, next |-> 1] \in BuildT
      BY <2>1 DEF BuildT
    <3> QED BY <2>3, <3>1 DEF Begun, BuildsTyped
  <2>4. CASE Execute(c, b, i)
    <3>1. build' \in [Build -> BuildT]
      BY <2>3, <2>4 DEF Execute
    <3>2. CallsTyped'
      BY <2>4 DEF Execute, CallsTyped, history
    <3> QED BY <2>2, <2>4, <3>1, <3>2 DEF Execute, QueueTyped, BuildsTyped
  <2>5. CASE BuildPreviewAsync(c, b, i)
    <3>1. build' \in [Build -> BuildT]
      BY <2>3, <2>5 DEF BuildPreviewAsync
    <3> QED BY <2>2, <2>5, <3>1 DEF BuildPreviewAsync, callVars, history, QueueTyped, BuildsTyped, CallsTyped
  <2>6. CASE ExecuteSync(c, b, i)
    <3>1. build' \in [Build -> BuildT]
      BY <2>3, <2>6 DEF ExecuteSync
    <3>2. CallsTyped'
      BY <2>6, SetRunningTyped DEF ExecuteSync, CallsTyped
    <3> QED BY <2>6, <3>1, <3>2 DEF ExecuteSync, QueueTyped, BuildsTyped
  <2> QED BY <1>1, <2>4, <2>5, <2>6 DEF Starts
<1>2. ASSUME NEW b \in Build, NEW result \in {"ok", "failed"}, End(b, result)
      PROVE  QueueTyped' /\ BuildsTyped' /\ CallsTyped'
  <2>1. build' \in [Build -> BuildT]
    BY <1>2, BuildUpdates DEF End, BuildsTyped
  <2>2. CallsTyped'
    BY <1>2 DEF End, CallsTyped, history
  <2> QED BY <1>2, <2>1, <2>2 DEF End, QueueTyped, BuildsTyped
<1>3. ASSUME NEW b \in Build, BuildStep(b)
      PROVE  QueueTyped' /\ BuildsTyped' /\ CallsTyped'
  <2>0. build[b] \in BuildT /\ build[b].next \in 1..MaxCracks + 1 /\ build[b].cracks \in 0..MaxCracks
    BY DEF BuildsTyped, BuildT
  <2>1. CASE SubmitThrows(b)
    BY <2>1, <1>2 DEF SubmitThrows
  <2>2. CASE SubmitCrack(b)
    <3>1. build[b].next \in Crack /\ build[b].next + 1 \in 1..MaxCracks + 1
      BY <2>0, <2>2 DEF SubmitCrack, Crack
    <3>2. Append(tasks, <<b, build[b].next>>) \in Seq(Task)
      BY <3>1, <1>0 DEF Task, Crack
    <3>3. build' \in [Build -> BuildT]
      BY <2>2, <3>1, BuildUpdates DEF SubmitCrack, BuildsTyped
    <3>4. future' \in [Build -> FutureT]
      BY <2>2, <3>1 DEF SubmitCrack, BuildsTyped, FutureT
    <3> QED BY <2>2, <3>2, <3>3, <3>4 DEF SubmitCrack, callVars, history, QueueTyped, BuildsTyped, CallsTyped
  <2>3. CASE Submitted(b)
    <3>1. 1 \in 1..MaxCracks + 1
      OBVIOUS
    <3>2. build' \in [Build -> BuildT]
      BY <2>3, <3>1, BuildUpdates DEF Submitted, BuildsTyped
    <3> QED BY <2>3, <3>2 DEF Submitted, callVars, history, QueueTyped, BuildsTyped, CallsTyped
  <2>4. CASE GetCrack(b)
    <3>1. CASE End(b, "ok") \/ End(b, "failed")
      BY <3>1, <1>2
    <3>2. CASE /\ build[b].next <= build[b].cracks
               /\ build' = [build EXCEPT ![b].next = build[b].next + 1]
               /\ UNCHANGED <<tasks, worker, stop, future, callVars>>
      <4>1. build[b].next + 1 \in 1..MaxCracks + 1
        BY <2>0, <3>2
      <4>2. build' \in [Build -> BuildT]
        BY <3>2, <4>1, BuildUpdates DEF BuildsTyped
      <4> QED BY <3>2, <4>2 DEF callVars, history, QueueTyped, BuildsTyped, CallsTyped
    <3> QED BY <2>4, <3>1, <3>2 DEF GetCrack
  <2> QED BY <1>3, <2>1, <2>2, <2>3, <2>4 DEF BuildStep
<1>4. ASSUME NEW w \in Worker, WorkerStep(w)
      PROVE  QueueTyped' /\ BuildsTyped' /\ CallsTyped'
  <2>1. CASE Take(w)
    <3>1. Head(tasks) \in Task /\ Tail(tasks) \in Seq(Task)
      BY <2>1, HeadTailProperties DEF Take, QueueTyped
    <3>2. Head(tasks)[1] \in Build /\ (Head(tasks)[2] = 0 \/ Head(tasks)[2] \in Crack)
      BY <3>1 DEF Task, Crack
    <3>3. build' \in [Build -> BuildT] /\ future' \in [Build -> FutureT]
      <4>1. CASE Head(tasks)[2] = 0
        <5>1. build' = [build EXCEPT ![Head(tasks)[1]].at = "submit"] /\ future' = future
          BY <2>1, <4>1 DEF Take
        <5> QED BY <5>1, <3>2, BuildUpdates DEF BuildsTyped
      <4>2. CASE Head(tasks)[2] # 0
        <5>1. build' = build
              /\ future' = [future EXCEPT ![Head(tasks)[1]][Head(tasks)[2]] = "running"]
          BY <2>1, <4>2 DEF Take
        <5> QED BY <5>1, <3>2, <4>2 DEF BuildsTyped, FutureT
      <4> QED BY <4>1, <4>2
    <3> QED BY <2>1, <3>1, <3>3 DEF Take, callVars, history, QueueTyped, BuildsTyped, CallsTyped
  <2>2. CASE GenerateCrackMesh(w)
    <3>1. worker[w][1] \in Build /\ worker[w][2] \in Crack
      BY <2>2 DEF GenerateCrackMesh, QueueTyped, Task, Crack
    <3>2. future' \in [Build -> FutureT]
      BY <2>2, <3>1 DEF GenerateCrackMesh, BuildsTyped, FutureT
    <3> QED BY <2>2, <3>2 DEF GenerateCrackMesh, callVars, history, QueueTyped, BuildsTyped, CallsTyped
  <2> QED BY <1>4, <2>1, <2>2 DEF WorkerStep
<1>5. ASSUME NEW c \in Client, Call(c)
      PROVE  QueueTyped' /\ BuildsTyped' /\ CallsTyped'
  <2>1. UNCHANGED <<tasks, worker, stop, build, future, life>>
    BY <1>5 DEF Call, Check, Enter, ExecuteThrows, Cancel
  <2>2. CallsTyped'
    <3>1. ASSUME NEW op \in {"execute", "execute_sync"}, Check(c, op) PROVE CallsTyped'
      BY <3>1 DEF Check, CallsTyped, history
    <3>2. CASE Enter(c)
      BY <3>2, SetRunningTyped DEF Enter, CallsTyped
    <3>3. CASE ExecuteThrows(c)
      BY <3>3 DEF ExecuteThrows, CallsTyped, history
    <3>4. CASE Cancel(c)
      BY <3>4 DEF Cancel, Cancelled, CallsTyped
    <3> QED BY <1>5, <3>1, <3>2, <3>3, <3>4 DEF Call
  <2> QED BY <2>1, <2>2 DEF QueueTyped, BuildsTyped
<1>6. CASE Shutdown
  BY <1>6 DEF Shutdown, Cancelled, QueueTyped, BuildsTyped, CallsTyped
<1>7. CASE ShutdownReturns
  BY <1>7 DEF ShutdownReturns, history, QueueTyped, BuildsTyped, CallsTyped
<1> QED BY <1>1, <1>3, <1>4, <1>5, <1>6, <1>7 DEF Next

(* Appending to the queue: the old entries keep their places.              *)
LEMMA Entries ==
  ASSUME NEW s \in Seq(Task), NEW t \in Task
  PROVE  /\ Append(s, t) \in Seq(Task) /\ Len(Append(s, t)) = Len(s) + 1 /\ Len(s) \in Nat
         /\ \A i \in 1..Len(s) : Append(s, t)[i] = s[i]
         /\ Append(s, t)[Len(s) + 1] = t
OBVIOUS

(* A build is queued when it is new, and leaves the queue when it begins;  *)
(* what else happens to it happens after that.                             *)
LEMMA NextQueuedOnce == TypeOK /\ QueuedOnce /\ Next => QueuedOnce'
<1> SUFFICES ASSUME TypeOK, QueuedOnce, Next PROVE QueuedOnce'
  OBVIOUS
<1> USE VrAssumption
<1>0. tasks \in Seq(Task) /\ build \in [Build -> BuildT] /\ Len(tasks) \in Nat
      /\ \A i \in 1..Len(tasks) : tasks[i] \in Task /\ tasks[i][1] \in Build
  BY TypeOKParts DEF QueueTyped, BuildsTyped, Task
<1>1. ASSUME NEW b \in Build, build[b].at # "queued", tasks' = tasks,
             \A d \in Build \ {b} : build'[d].at = build[d].at
      PROVE  QueuedOnce'
  BY <1>0, <1>1 DEF QueuedOnce
<1>2. ASSUME NEW b \in Build, build[b].at # "queued", build'[b].at = "queued",
             tasks' = Append(tasks, <<b, 0>>),
             \A d \in Build \ {b} : build'[d].at = build[d].at
      PROVE  QueuedOnce'
  <2>1. <<b, 0>> \in Task
    BY DEF Task
  <2>2. \A i \in 1..Len(tasks) : tasks[i] # <<b, 0>> /\ (tasks[i][2] = 0 => tasks[i][1] # b)
    BY <1>0, <1>2 DEF QueuedOnce
  <2>3. /\ Len(tasks') = Len(tasks) + 1 /\ tasks'[Len(tasks) + 1] = <<b, 0>>
        /\ \A i \in 1..Len(tasks) : tasks'[i] = tasks[i]
    BY <1>0, <1>2, <2>1, Entries
  <2>4. ASSUME NEW i \in 1..Len(tasks'), tasks'[i][2] = 0
        PROVE  build'[tasks'[i][1]].at = "queued"
    BY <1>0, <1>2, <2>2, <2>3, <2>4 DEF QueuedOnce
  <2>5. ASSUME NEW i \in 1..Len(tasks'), tasks'[i][2] = 0,
               NEW j \in 1..Len(tasks'), tasks'[j] = tasks'[i]
        PROVE  i = j
    BY <1>0, <2>2, <2>3, <2>5 DEF QueuedOnce
  <2> QED BY <2>4, <2>5 DEF QueuedOnce
<1>3. ASSUME NEW c \in Client, NEW b \in Build, NEW i \in Input,
             Execute(c, b, i) \/ BuildPreviewAsync(c, b, i)
      PROVE  QueuedOnce'
  <2>1. build[b].at # "queued" /\ build'[b].at = "queued" /\ tasks' = Append(tasks, <<b, 0>>)
        /\ \A d \in Build \ {b} : build'[d].at = build[d].at
    BY <1>0, <1>3 DEF Execute, BuildPreviewAsync, New, Started, Begun
  <2> QED BY <2>1, <1>2
<1>4. ASSUME NEW c \in Client, NEW b \in Build, NEW i \in Input, ExecuteSync(c, b, i)
      PROVE  QueuedOnce'
  <2>1. build[b].at # "queued" /\ tasks' = tasks /\ \A d \in Build \ {b} : build'[d].at = build[d].at
    BY <1>0, <1>4 DEF ExecuteSync, New, Started, Begun
  <2> QED BY <2>1, <1>1
<1>5. ASSUME NEW b \in Build, SubmitThrows(b) \/ Submitted(b) \/ GetCrack(b)
      PROVE  QueuedOnce'
  <2>1. build[b].at # "queued" /\ tasks' = tasks
    BY <1>5 DEF SubmitThrows, Submitted, GetCrack, End
  <2>2. \A d \in Build \ {b} : build'[d].at = build[d].at
    BY <1>0, <1>5 DEF SubmitThrows, Submitted, GetCrack, End
  <2> QED BY <2>1, <2>2, <1>1
<1>6. ASSUME NEW b \in Build, SubmitCrack(b)
      PROVE  QueuedOnce'
  <2>1. build[b].next \in 1..MaxCracks + 1 /\ build[b].cracks \in 0..MaxCracks
    BY <1>0 DEF BuildT
  <2>2. <<b, build[b].next>> \in Task /\ build[b].next # 0
    BY <1>6, <2>1 DEF SubmitCrack, Task
  <2>3. /\ Len(tasks') = Len(tasks) + 1 /\ tasks'[Len(tasks) + 1] = <<b, build[b].next>>
        /\ \A i \in 1..Len(tasks) : tasks'[i] = tasks[i]
    BY <1>0, <1>6, <2>2, Entries DEF SubmitCrack
  <2>4. \A d \in Build : build'[d].at = build[d].at
    BY <1>0, <1>6 DEF SubmitCrack
  <2>5. ASSUME NEW i \in 1..Len(tasks'), tasks'[i][2] = 0
        PROVE  i \in 1..Len(tasks) /\ tasks'[i] = tasks[i] /\ tasks[i][1] \in Build
    BY <1>0, <2>2, <2>3, <2>5
  <2> QED BY <1>0, <2>3, <2>4, <2>5 DEF QueuedOnce
<1>7. ASSUME NEW w \in Worker, Take(w)
      PROVE  QueuedOnce'
  <2>1. tasks # <<>> /\ Head(tasks) = tasks[1] /\ tasks' = Tail(tasks) /\ 1 \in 1..Len(tasks)
    BY <1>0, <1>7, HeadTailProperties DEF Take
  <2>2. Len(tasks') = Len(tasks) - 1 /\ \A i \in 1..Len(tasks') : tasks'[i] = tasks[i + 1]
    BY <1>0, <2>1, HeadTailProperties
  <2>3. \A d \in Build : build'[d].at = build[d].at \/ (tasks[1] = <<d, 0>>)
    BY <1>0, <1>7, <2>1 DEF Take, Task
  <2>4. ASSUME NEW i \in 1..Len(tasks'), tasks'[i][2] = 0
        PROVE  build'[tasks'[i][1]].at = "queued"
    <3>1. i + 1 \in 1..Len(tasks) /\ tasks'[i] = tasks[i + 1] /\ i + 1 # 1
      BY <1>0, <2>2
    <3>2. tasks[i + 1] # tasks[1] /\ build[tasks[i + 1][1]].at = "queued"
      BY <2>1, <2>4, <3>1 DEF QueuedOnce
    <3>3. tasks[i + 1] = <<tasks[i + 1][1], 0>> /\ tasks[i + 1][1] \in Build
      BY <1>0, <2>4, <3>1 DEF Task
    <3> QED BY <2>3, <3>1, <3>2, <3>3
  <2>5. ASSUME NEW i \in 1..Len(tasks'), tasks'[i][2] = 0,
               NEW j \in 1..Len(tasks'), tasks'[j] = tasks'[i]
        PROVE  i = j
    BY <1>0, <2>2, <2>5 DEF QueuedOnce
  <2> QED BY <2>4, <2>5 DEF QueuedOnce
<1>8. ASSUME tasks' = tasks, build' = build
      PROVE  QueuedOnce'
  BY <1>8 DEF QueuedOnce
<1>9. ASSUME NEW w \in Worker, GenerateCrackMesh(w)
      PROVE  QueuedOnce'
  BY <1>8, <1>9 DEF GenerateCrackMesh
<1>10. CASE (\E c \in Client : Call(c)) \/ Shutdown \/ ShutdownReturns
  BY <1>8, <1>10 DEF Call, Check, Enter, ExecuteThrows, Cancel, Shutdown, ShutdownReturns
<1> QED BY <1>3, <1>4, <1>5, <1>6, <1>7, <1>9, <1>10 DEF Next, Starts, BuildStep, WorkerStep

LEMMA NextDownIsQuiet == TypeOK /\ DownIsQuiet /\ Next => DownIsQuiet'
<1> SUFFICES ASSUME CallsTyped, DownIsQuiet, Next PROVE DownIsQuiet'
  BY TypeOKParts
<1> USE DEF DownIsQuiet
<1>1. ASSUME NEW b \in Build, NEW result \in {"ok", "failed"}, End(b, result)
      PROVE  DownIsQuiet'
  BY <1>1 DEF End, CallsTyped
<1>2. ASSUME NEW b \in Build, BuildStep(b)
      PROVE  DownIsQuiet'
  BY <1>1, <1>2 DEF BuildStep, SubmitThrows, SubmitCrack, Submitted, GetCrack, callVars
<1>3. ASSUME NEW w \in Worker, WorkerStep(w)
      PROVE  DownIsQuiet'
  BY <1>3 DEF WorkerStep, Take, GenerateCrackMesh, callVars
<1>4. ASSUME NEW c \in Client, Call(c) \/ \E b \in Build, i \in Input : Starts(c, b, i)
      PROVE  DownIsQuiet'
  <2>1. life' = life
    BY <1>4 DEF Call, Check, Enter, ExecuteThrows, Cancel, Starts, Execute, BuildPreviewAsync,
                ExecuteSync, callVars
  <2>2. life = "up"
    BY <1>4 DEF Call, Check, Enter, ExecuteThrows, Cancel, Starts, Execute, BuildPreviewAsync,
                ExecuteSync, MayCall
  <2> QED BY <2>1, <2>2
<1>5. CASE Shutdown \/ ShutdownReturns
  BY <1>5 DEF Shutdown, Cancelled, MayCall, ShutdownReturns
<1> QED BY <1>2, <1>3, <1>4, <1>5 DEF Next

(* A call that sets RUNNING overtakes those that have tested; a call tests *)
(* only what is not RUNNING.                                               *)
LEMMA NextTestedBefore == IInv /\ Next => TestedBefore'
<1> SUFFICES ASSUME CallsTyped, TestedBefore, Next PROVE TestedBefore'
  BY TypeOKParts DEF IInv
<1> USE DEF TestedBefore, Tested
<1>1. ASSUME NEW b \in Build, NEW result \in {"ok", "failed"}, End(b, result)
      PROVE  TestedBefore'
  BY <1>1 DEF End, CallsTyped, history
<1>2. ASSUME NEW b \in Build, BuildStep(b)
      PROVE  TestedBefore'
  BY <1>1, <1>2 DEF BuildStep, SubmitThrows, SubmitCrack, Submitted, GetCrack, callVars, history
<1>3. ASSUME NEW w \in Worker, WorkerStep(w)
      PROVE  TestedBefore'
  BY <1>3 DEF WorkerStep, Take, GenerateCrackMesh, callVars, history
<1>4. ASSUME NEW c \in Client, SetRunning(c), NEW x \in {"start", "sync"},
             client' = [client EXCEPT ![c] = x]
      PROVE  TestedBefore'
  BY <1>4 DEF SetRunning, CallsTyped
<1>5. ASSUME NEW c \in Client, NEW op \in {"execute", "execute_sync"}, Check(c, op)
      PROVE  TestedBefore'
  BY <1>5 DEF Check, history, CallsTyped
<1>6. ASSUME NEW c \in Client, ExecuteThrows(c) \/ \E b \in Build, i \in Input : Execute(c, b, i)
      PROVE  TestedBefore'
  BY <1>6 DEF ExecuteThrows, Execute, history, CallsTyped
<1>7. ASSUME NEW c \in Client, Cancel(c) \/ \E b \in Build, i \in Input : BuildPreviewAsync(c, b, i)
      PROVE  TestedBefore'
  BY <1>7 DEF Cancel, Cancelled, BuildPreviewAsync, callVars, history
<1>8. CASE Shutdown \/ ShutdownReturns
  BY <1>8 DEF Shutdown, Cancelled, ShutdownReturns
<1> QED BY <1>2, <1>3, <1>4, <1>5, <1>6, <1>7, <1>8
        DEF Next, Call, Enter, Starts, ExecuteSync

(* A step that adds no build and no call in charge, and takes away nothing *)
(* that pays for them.                                                     *)
LEMMA CountedStill ==
  ASSUME TypeOK, Counted, InCharge' = InCharge, Starting' = Starting,
         cancels' = cancels, races' = races,
         status_' = "RUNNING" \/ status_ # "RUNNING" \/ status_' = status_
  PROVE  Counted'
<1>1. Cardinality(InCharge') = Cardinality(InCharge) /\ Cardinality(Starting') = Cardinality(Starting)
  OBVIOUS
<1>2. cancels \in Nat /\ races \in Nat
  BY DEF TypeOK
<1> QED BY <1>1, <1>2, CardinalitiesAreNumbers DEF Counted, Paid

(* A call that sets RUNNING weighs one, and either finds it not RUNNING or *)
(* was overtaken.                                                          *)
LEMMA SetRunningPays ==
  ASSUME IInv, NEW c \in Client, Tested(c), SetRunning(c), cancels' = cancels
  PROVE  Paid' = Paid + 1
<1>1. cancels \in Nat /\ races \in Nat
  BY DEF IInv, TypeOK
<1>2. status_ = "RUNNING" => c \in overtaken
  BY DEF IInv, TestedBefore
<1> QED BY <1>1, <1>2 DEF SetRunning, Paid

(* A call that sets RUNNING pays for itself, the build it submits takes    *)
(* its place, a build that ends takes itself out when it clears RUNNING,   *)
(* and a cancel pays for the one it leaves behind.                         *)
LEMMA NextCounted == IInv /\ Next => Counted'
<1> SUFFICES ASSUME IInv, Next PROVE Counted'
  OBVIOUS
<1>0. /\ TypeOK /\ tasks \in Seq(Task) /\ build \in [Build -> BuildT] /\ cancels \in Nat /\ races \in Nat
      /\ client \in [Client -> {"idle", "execute", "execute_sync", "start", "sync"}]
      /\ QueuedOnce /\ Counted /\ DownIsQuiet
  BY TypeOKParts DEF IInv, QueueTyped, BuildsTyped, CallsTyped
<1>1. InCharge \in SUBSET Build /\ Starting \in SUBSET Client
  BY DEF InCharge, Starting
<1>b. ASSUME NEW b \in Build
      PROVE  /\ Cardinality(InCharge \cup {b}) \in Nat /\ Cardinality(InCharge \ {b}) \in Nat
             /\ Cardinality(InCharge \cup {b}) <= Cardinality(InCharge) + 1
             /\ b \in InCharge => Cardinality(InCharge \ {b}) = Cardinality(InCharge) - 1
  BY <1>1, BuildsFinite, Members
<1>c. ASSUME NEW c \in Client
      PROVE  /\ Cardinality(Starting \cup {c}) \in Nat /\ Cardinality(Starting \ {c}) \in Nat
             /\ Cardinality(Starting \cup {c}) <= Cardinality(Starting) + 1
             /\ c \in Starting => Cardinality(Starting \ {c}) = Cardinality(Starting) - 1
  BY <1>1, VrAssumption, Members
<1>n. Cardinality(InCharge) \in Nat /\ Cardinality(Starting) \in Nat
  BY CardinalitiesAreNumbers
<1>p. Paid \in Nat
  BY <1>0 DEF Paid
<1>2. ASSUME build' = build
      PROVE  InCharge' = InCharge
  BY <1>2 DEF InCharge, Started, Ended
<1>3. ASSUME client' = client
      PROVE  Starting' = Starting
  BY <1>3 DEF Starting
<1>4. ASSUME NEW c \in Client, NEW b \in Build, NEW i \in Input, Starts(c, b, i)
      PROVE  Counted'
  <2>1. CASE Execute(c, b, i)
    <3>1. InCharge' = InCharge \cup {b}
      BY <1>0, <2>1 DEF Execute, Begun, InCharge, Started, Ended
    <3>2. c \in Starting /\ Starting' = Starting \ {c}
      BY <1>0, <2>1 DEF Execute, Starting
    <3>3. cancels' = cancels /\ races' = races /\ status_' = status_
      BY <2>1 DEF Execute, history
    <3>4. Cardinality(InCharge') <= Cardinality(InCharge) + 1 /\ Cardinality(InCharge') \in Nat
      BY <1>b, <3>1
    <3>5. Cardinality(Starting') = Cardinality(Starting) - 1
      BY <1>c, <3>2
    <3> QED BY <1>0, <1>n, <3>3, <3>4, <3>5 DEF Counted, Paid
  <2>2. CASE BuildPreviewAsync(c, b, i)
    <3>1. InCharge' = InCharge
      BY <1>0, <2>2 DEF BuildPreviewAsync, New, Begun, InCharge, Started, Ended
    <3>2. client' = client /\ cancels' = cancels /\ races' = races /\ status_' = status_
      BY <2>2 DEF BuildPreviewAsync, callVars, history
    <3> QED BY <1>0, <1>3, <3>1, <3>2, CountedStill
  <2>3. CASE ExecuteSync(c, b, i)
    <3>1. InCharge' = InCharge \cup {b}
      BY <1>0, <2>3, VrAssumption DEF ExecuteSync, Begun, InCharge, Started, Ended
    <3>2. Starting' = Starting
      BY <1>0, <2>3 DEF ExecuteSync, Starting
    <3>3. Tested(c) /\ SetRunning(c) /\ cancels' = cancels
      BY <2>3 DEF ExecuteSync, Tested
    <3>4. Cardinality(InCharge') <= Cardinality(InCharge) + 1 /\ Cardinality(InCharge') \in Nat
      BY <1>b, <3>1
    <3>5. Cardinality(Starting') = Cardinality(Starting)
      BY <3>2
    <3>6. Paid' = Paid + 1
      BY <3>3, SetRunningPays
    <3> QED BY <1>0, <1>n, <1>p, <3>4, <3>5, <3>6 DEF Counted
  <2> QED BY <1>4, <2>1, <2>2, <2>3 DEF Starts
<1>5. ASSUME NEW b \in Build, build[b].at \in {"submit", "get"},
             NEW result \in {"ok", "failed"}, End(b, result)
      PROVE  Counted'
  <2>1. InCharge' = InCharge \ {b}
    BY <1>0, <1>5 DEF End, InCharge, Started, Ended
  <2>2. cancels' = cancels /\ races' = races
    BY <1>5 DEF End, history
  <2>3. Starting' \in SUBSET Starting
    BY <1>0, <1>5 DEF End, Starting
  <2>4. Cardinality(Starting') <= Cardinality(Starting) /\ Cardinality(Starting') \in Nat
    <3>1. IsFiniteSet(Starting)
      BY <1>1, VrAssumption, FS_Subset
    <3> QED BY <2>3, <3>1, FS_Subset, FS_CardinalityType
  <2>5. CASE build[b].by # "async"
    <3>1. b \in InCharge
      BY <1>5, <2>5 DEF InCharge, Started, Ended
    <3>2. Cardinality(InCharge') = Cardinality(InCharge) - 1
      BY <1>b, <2>1, <3>1
    <3> QED BY <1>0, <1>n, <2>2, <2>4, <3>2 DEF Counted, Paid
  <2>6. CASE build[b].by = "async"
    <3>1. Cardinality(InCharge') = Cardinality(InCharge)
      <4>1. InCharge' = InCharge
        BY <2>1, <2>6 DEF InCharge
      <4> QED BY <4>1
    <3>2. status_' = status_
      BY <1>5, <2>6, VrAssumption DEF End
    <3> QED BY <1>0, <1>n, <2>2, <2>4, <3>1, <3>2 DEF Counted, Paid
  <2> QED BY <2>5, <2>6
<1>6. ASSUME NEW b \in Build, BuildStep(b)
      PROVE  Counted'
  <2>1. CASE SubmitThrows(b)
    BY <1>5, <2>1 DEF SubmitThrows
  <2>2. ASSUME InCharge' = InCharge, UNCHANGED callVars
        PROVE  Counted'
    <3>1. UNCHANGED <<client, cancels, races, status_>>
      BY <2>2 DEF callVars, history
    <3> QED BY <1>0, <1>3, <2>2, <3>1, CountedStill
  <2>3. CASE SubmitCrack(b)
    <3>1. InCharge' = InCharge
      BY <1>0, <2>3 DEF SubmitCrack, InCharge, Started, Ended
    <3> QED BY <2>2, <2>3, <3>1 DEF SubmitCrack
  <2>4. CASE Submitted(b)
    <3>1. InCharge' = InCharge
      BY <1>0, <2>4 DEF Submitted, InCharge, Started, Ended
    <3> QED BY <2>2, <2>4, <3>1 DEF Submitted
  <2>5. CASE GetCrack(b)
    <3>1. CASE End(b, "ok") \/ End(b, "failed")
      BY <1>5, <2>5, <3>1 DEF GetCrack
    <3>2. CASE build' = [build EXCEPT ![b].next = build[b].next + 1] /\ UNCHANGED callVars
      <4>1. InCharge' = InCharge
        BY <1>0, <3>2 DEF InCharge, Started, Ended
      <4> QED BY <2>2, <3>2, <4>1
    <3> QED BY <2>5, <3>1, <3>2 DEF GetCrack
  <2> QED BY <1>6, <2>1, <2>3, <2>4, <2>5 DEF BuildStep
<1>7. ASSUME NEW w \in Worker, Take(w)
      PROVE  Counted'
  <2>1. Head(tasks) = tasks[1] /\ 1 \in 1..Len(tasks) /\ tasks[1] \in Task
    BY <1>0, <1>7, HeadTailProperties DEF Take
  <2>2. InCharge' = InCharge
    <3>1. CASE Head(tasks)[2] = 0
      <4>1. build[Head(tasks)[1]].at = "queued" /\ Head(tasks)[1] \in Build
        BY <1>0, <2>1, <3>1 DEF QueuedOnce, Task
      <4>2. build' = [build EXCEPT ![Head(tasks)[1]].at = "submit"]
        BY <1>7, <3>1 DEF Take
      <4> QED BY <1>0, <4>1, <4>2 DEF InCharge, Started, Ended
    <3>2. CASE Head(tasks)[2] # 0
      BY <1>7, <3>2 DEF Take, InCharge, Started, Ended
    <3> QED BY <3>1, <3>2
  <2>3. UNCHANGED <<client, cancels, races, status_>>
    BY <1>7 DEF Take, callVars, history
  <2> QED BY <1>0, <1>3, <2>2, <2>3, CountedStill
<1>8. ASSUME NEW w \in Worker, GenerateCrackMesh(w)
      PROVE  Counted'
  <2>1. UNCHANGED <<build, client, cancels, races, status_>>
    BY <1>8 DEF GenerateCrackMesh, callVars, history
  <2> QED BY <1>0, <1>2, <1>3, <2>1, CountedStill
<1>9. ASSUME NEW c \in Client, Call(c)
      PROVE  Counted'
  <2>0. build' = build
    BY <1>9 DEF Call, Check, Enter, ExecuteThrows, Cancel
  <2>1. ASSUME NEW op \in {"execute", "execute_sync"}, Check(c, op)
        PROVE  Counted'
    <3>1. Starting' = Starting
      BY <1>0, <2>1 DEF Check, MayCall, Starting
    <3>2. UNCHANGED <<cancels, races, status_>>
      BY <2>1 DEF Check, history
    <3> QED BY <1>0, <1>2, <2>0, <3>1, <3>2, CountedStill
  <2>2. CASE Enter(c)
    <3>1. Starting' = Starting \cup {c}
      BY <1>0, <2>2 DEF Enter, Starting
    <3>2. Tested(c) /\ SetRunning(c) /\ cancels' = cancels
      BY <2>2 DEF Enter, Tested
    <3>3. Cardinality(InCharge') = Cardinality(InCharge)
      BY <1>2, <2>0
    <3>4. Cardinality(Starting') <= Cardinality(Starting) + 1 /\ Cardinality(Starting') \in Nat
      BY <1>c, <3>1
    <3>5. Paid' = Paid + 1
      BY <3>2, SetRunningPays
    <3> QED BY <1>0, <1>n, <1>p, <3>3, <3>4, <3>5 DEF Counted
  <2>3. CASE ExecuteThrows(c)
    <3>1. c \in Starting /\ Starting' = Starting \ {c}
      BY <1>0, <2>3 DEF ExecuteThrows, Starting
    <3>2. UNCHANGED <<cancels, races, status_>>
      BY <2>3 DEF ExecuteThrows, history
    <3>3. Cardinality(InCharge') = Cardinality(InCharge)
      BY <1>2, <2>0
    <3>4. Cardinality(Starting') = Cardinality(Starting) - 1
      BY <1>c, <3>1
    <3> QED BY <1>0, <1>n, <3>2, <3>3, <3>4 DEF Counted, Paid
  <2>4. CASE Cancel(c)
    <3>1. client' = client /\ cancels' = cancels + 1 /\ races' = races
      BY <2>4 DEF Cancel, Cancelled
    <3>2. Cardinality(InCharge') = Cardinality(InCharge) /\ Cardinality(Starting') = Cardinality(Starting)
      BY <1>2, <1>3, <2>0, <3>1
    <3> QED BY <1>0, <1>n, <3>1, <3>2 DEF Counted, Paid
  <2> QED BY <1>9, <2>1, <2>2, <2>3, <2>4 DEF Call
<1>10. CASE Shutdown
  <2>1. UNCHANGED <<build, client, races>> /\ cancels' = cancels + 1
    BY <1>10 DEF Shutdown, Cancelled
  <2>2. Cardinality(InCharge') = Cardinality(InCharge) /\ Cardinality(Starting') = Cardinality(Starting)
    BY <1>2, <1>3, <2>1
  <2> QED BY <1>0, <1>n, <2>1, <2>2 DEF Counted, Paid
<1>11. CASE ShutdownReturns
  <2>1. UNCHANGED <<build, client, cancels, races>> /\ status_ # "RUNNING"
    BY <1>0, <1>11 DEF ShutdownReturns, DownIsQuiet, history
  <2> QED BY <1>0, <1>2, <1>3, <2>1, CountedStill
<1> QED BY <1>4, <1>6, <1>7, <1>8, <1>9, <1>10, <1>11 DEF Next, WorkerStep

LEMMA StutterIInv == IInv /\ UNCHANGED vars => IInv'
BY DEF IInv, vars, callVars, history, TypeOK, QueuedOnce, DownIsQuiet, TestedBefore, Tested,
       Counted, Paid, Starting, InCharge, Started, Ended

LEMMA NextIInv == IInv /\ [Next]_vars => IInv'
<1>1. IInv /\ Next => TypeOK' /\ QueuedOnce'
  BY NextTypeOK, NextQueuedOnce DEF IInv
<1> QED BY <1>1, NextDownIsQuiet, NextTestedBefore, NextCounted, StutterIInv DEF IInv

LEMMA SpecIInv == Spec => []IInv
BY InitIInv, NextIInv, PTL DEF Spec

(* The types of VRPreviewModule's state, for any instance.                 *)
THEOREM TypeCorrect == Spec => []TypeOK
<1>1. IInv => TypeOK
  BY DEF IInv
<1> QED BY SpecIInv, <1>1, PTL

(* execute and execute_sync of VRPreviewModule run at most one build more  *)
(* than cancel was called and calls were overtaken between their test of   *)
(* status_ and their set, however the status is overwritten by builds that *)
(* end late; for any clients, workers, builds, cracks and cancels.         *)
THEOREM BuildsBoundedByCancels == Spec => []OneBuildPerCancelOrRace
<1>1. IInv => OneBuildPerCancelOrRace
  BY CardinalitiesAreNumbers DEF IInv, TypeOK, Counted, Paid, OneBuildPerCancelOrRace
<1> QED BY SpecIInv, <1>1, PTL
(***************************************************************************)
(* The tasks of cracks.  A crack's future follows its task: pending while  *)
(* it is queued, running while a worker has it, and then it does not       *)
(* change any more.                                                        *)
(***************************************************************************)
TaskPending ==
  \A i \in 1..Len(tasks) : tasks[i][2] # 0 =>
    /\ future[tasks[i][1]][tasks[i][2]] = "pending"
    /\ \A j \in 1..Len(tasks) : tasks[j] = tasks[i] => i = j
TaskRunning ==
  \A w \in Worker : worker[w] # NULL /\ worker[w][2] # 0 =>
    /\ future[worker[w][1]][worker[w][2]] = "running"
    /\ \A v \in Worker : worker[v] = worker[w] => v = w

(* A build submits its cracks in order and waits for them in order; the    *)
(* futures before the one it waits for have their meshes.                  *)
FuturesOK(r, F, over) ==
  /\ r.at \in {"none", "queued"} => r.next = 1 /\ \A c \in Crack : F[c] = "none"
  /\ r.at = "submit" =>
       r.next <= r.cracks + 1 /\ \A c \in Crack : F[c] # "none" => c < r.next /\ r.bad # 0
  /\ r.at = "get" =>
       /\ \A c \in Crack : F[c] # "none" => c <= r.cracks
       /\ \A c \in Crack : c < r.next => F[c] = "set"
  /\ r.at \in {"ok", "failed"} =>
       \A c \in Crack : F[c] \in {"pending", "running"} =>
         /\ r.at = "failed"
         /\ over \/ \E d \in Crack : d < c /\ F[d] = "thrown"
TasksInv == TaskPending /\ TaskRunning /\ \A b \in Build : FuturesOK(build[b], future[b], stop)

(* A task that is taken or finished leaves what is known of its build.     *)
LEMMA FutureMoves ==
  ASSUME NEW r \in BuildT, NEW F \in FutureT, NEW c \in Crack, F[c] \in {"pending", "running"},
         NEW x \in {"running", "set", "thrown"}, NEW over, FuturesOK(r, F, over)
  PROVE  FuturesOK(r, [F EXCEPT ![c] = x], over)
<1> DEFINE G == [F EXCEPT ![c] = x]
<1>1. G[c] = x /\ \A d \in Crack : d # c => G[d] = F[d]
  BY DEF FutureT
<1>2. Crack \subseteq Nat /\ r.next \in Nat
  BY DEF Crack, BuildT
<1> HIDE DEF G
<1>3. r.at \notin {"none", "queued"}
  BY DEF FuturesOK
<1>4. r.at = "submit" =>
        r.next <= r.cracks + 1 /\ \A d \in Crack : G[d] # "none" => d < r.next /\ r.bad # 0
  BY <1>1 DEF FuturesOK
<1>5. r.at = "get" =>
        /\ \A d \in Crack : G[d] # "none" => d <= r.cracks
        /\ \A d \in Crack : d < r.next => G[d] = "set"
  BY <1>1 DEF FuturesOK
<1>6. ASSUME r.at \in {"ok", "failed"}, NEW d \in Crack, G[d] \in {"pending", "running"}
      PROVE  r.at = "failed" /\ (over \/ \E e \in Crack : e < d /\ G[e] = "thrown")
  <2>1. F[d] \in {"pending", "running"}
    BY <1>1, <1>6
  <2> QED BY <1>1, <1>6, <2>1 DEF FuturesOK
<1>7. FuturesOK(r, G, over)
  BY <1>3, <1>4, <1>5, <1>6 DEF FuturesOK
<1> QED BY <1>7 DEF G

(* What the state's parts are, for the steps below.                        *)
LEMMA TaskFacts ==
  ASSUME TypeOK
  PROVE  /\ tasks \in Seq(Task) /\ Len(tasks) \in Nat
         /\ \A i \in 1..Len(tasks) :
              tasks[i] \in Task /\ tasks[i][1] \in Build /\ tasks[i][2] \in 0..MaxCracks
              /\ tasks[i] = <<tasks[i][1], tasks[i][2]>>
         /\ \A w \in Worker : worker[w] # NULL =>
              worker[w] \in Task /\ worker[w][1] \in Build /\ worker[w][2] \in 0..MaxCracks
              /\ worker[w] = <<worker[w][1], worker[w][2]>>
         /\ worker \in [Worker -> Task \cup {NULL}]
         /\ build \in [Build -> BuildT] /\ future \in [Build -> FutureT] /\ stop \in BOOLEAN
         /\ \A c \in 0..MaxCracks : c # 0 => c \in Crack
         /\ \A c \in Crack : c \in 0..MaxCracks /\ c # 0
<1>1. /\ tasks \in Seq(Task) /\ worker \in [Worker -> Task \cup {NULL}]
      /\ build \in [Build -> BuildT] /\ future \in [Build -> FutureT] /\ stop \in BOOLEAN
  BY TypeOKParts DEF QueueTyped, BuildsTyped
<1>2. Len(tasks) \in Nat /\ \A i \in 1..Len(tasks) : tasks[i] \in Task
  BY <1>1
<1>3. \A t \in Task : t[1] \in Build /\ t[2] \in 0..MaxCracks /\ t = <<t[1], t[2]>>
  BY DEF Task
<1>4. /\ \A c \in 0..MaxCracks : c # 0 => c \in Crack
      /\ \A c \in Crack : c \in 0..MaxCracks /\ c # 0
  BY DEF Crack
<1> QED BY <1>1, <1>2, <1>3, <1>4

(* A worker takes the oldest task.                                         *)
LEMMA TakeTasks ==
  ASSUME IInv, TasksInv, NEW w \in Worker, Take(w)
  PROVE  TasksInv'
<1>1. /\ worker[w] = NULL /\ tasks # <<>> /\ tasks' = Tail(tasks) /\ stop' = stop
      /\ worker' = [worker EXCEPT ![w] = Head(tasks)]
  BY DEF Take
<1>2. /\ Len(tasks) > 0 /\ Head(tasks) = tasks[1] /\ Len(tasks') = Len(tasks) - 1
      /\ \A i \in 1..Len(tasks') : i + 1 \in 1..Len(tasks) /\ tasks'[i] = tasks[i + 1]
  BY <1>1, TaskFacts, HeadTailProperties DEF IInv
<1>3. PICK b \in Build, c \in 0..MaxCracks : tasks[1] = <<b, c>>
  BY <1>2, TaskFacts DEF IInv
<1>7. 1 \in 1..Len(tasks) /\ \A j \in 2..Len(tasks) : j \in 1..Len(tasks) /\ j # 1
  BY <1>2, TaskFacts DEF IInv
<1>4. /\ worker'[w] = <<b, c>> /\ \A v \in Worker \ {w} : worker'[v] = worker[v]
      /\ c = 0 => build' = [build EXCEPT ![b].at = "submit"] /\ future' = future
      /\ c # 0 => build' = build /\ future' = [future EXCEPT ![b][c] = "running"]
  BY <1>1, <1>2, <1>3, TaskFacts DEF IInv, Take
<1>5. CASE c = 0
  <2>1. build[b].at = "queued" /\ \A j \in 2..Len(tasks) : tasks[j] # <<b, 0>>
    BY <1>3, <1>5, <1>7 DEF IInv, QueuedOnce
  <2>2. TaskPending'
    BY <1>2, <1>4, <1>5, TaskFacts DEF IInv, TasksInv, TaskPending
  <2>3. TaskRunning'
    BY <1>1, <1>4, <1>5 DEF TasksInv, TaskRunning
  <2>4. ASSUME NEW d \in Build PROVE FuturesOK(build'[d], future'[d], stop')
    <3>1. CASE d # b
      BY <1>1, <1>4, <1>5, <3>1, TaskFacts DEF IInv, TasksInv
    <3>2. CASE d = b
      <4>1. /\ build'[b].at = "submit" /\ build'[b].next = build[b].next
            /\ build'[b].cracks = build[b].cracks /\ build[b].cracks \in 0..MaxCracks
        BY <1>4, <1>5, TaskFacts DEF IInv, BuildT
      <4>2. build[b].next = 1 /\ \A e \in Crack : future[b][e] = "none"
        BY <2>1 DEF TasksInv, FuturesOK
      <4>3. 1 <= build[b].cracks + 1
        BY <4>1
      <4> QED BY <1>4, <1>5, <3>2, <4>1, <4>2, <4>3 DEF FuturesOK
    <3> QED BY <3>1, <3>2
  <2> QED BY <2>2, <2>3, <2>4 DEF TasksInv
<1>6. CASE c # 0
  <2>1. /\ future[b][c] = "pending" /\ c \in Crack
        /\ \A j \in 2..Len(tasks) : tasks[j] # <<b, c>>
    <3>1. c \in Crack
      BY <1>6 DEF Crack
    <3> QED BY <1>3, <1>6, <1>7, <3>1 DEF TasksInv, TaskPending
  <2>2. /\ future'[b][c] = "running"
        /\ \A d \in Build, e \in Crack : <<d, e>> # <<b, c>> => future'[d][e] = future[d][e]
    BY <1>4, <1>6, <2>1, TaskFacts DEF IInv, FutureT
  <2>3. TaskPending'
    <3> SUFFICES ASSUME NEW i \in 1..Len(tasks'), tasks'[i][2] # 0
                 PROVE  /\ future'[tasks'[i][1]][tasks'[i][2]] = "pending"
                        /\ \A j \in 1..Len(tasks') : tasks'[j] = tasks'[i] => i = j
      BY DEF TaskPending
    <3>1. i + 1 \in 2..Len(tasks) /\ tasks'[i] = tasks[i + 1] /\ i + 1 \in 1..Len(tasks)
      BY <1>2, TaskFacts DEF IInv
    <3>2. /\ tasks[i + 1] # <<b, c>> /\ tasks[i + 1] = <<tasks[i + 1][1], tasks[i + 1][2]>>
          /\ tasks[i + 1][1] \in Build /\ tasks[i + 1][2] \in Crack
      BY <2>1, <3>1, TaskFacts DEF IInv
    <3>3. /\ future[tasks[i + 1][1]][tasks[i + 1][2]] = "pending"
          /\ \A j \in 1..Len(tasks) : tasks[j] = tasks[i + 1] => i + 1 = j
      BY <3>1 DEF TasksInv, TaskPending
    <3> QED BY <1>2, <2>2, <3>1, <3>2, <3>3
  <2>4. ASSUME NEW v \in Worker, worker'[v] # NULL, worker'[v][2] # 0
        PROVE  /\ future'[worker'[v][1]][worker'[v][2]] = "running"
               /\ \A u \in Worker : worker'[u] = worker'[v] => u = v
    <3>1. \A u \in Worker \ {w} : worker[u] # <<b, c>>
      <4>1. <<b, c>> # NULL
        BY VrAssumption DEF Build
      <4> SUFFICES ASSUME NEW u \in Worker, worker[u] = <<b, c>> PROVE FALSE
        OBVIOUS
      <4>2. worker[u] # NULL /\ worker[u][1] = b /\ worker[u][2] = c
        BY <4>1
      <4> QED BY <1>6, <2>1, <4>2 DEF TasksInv, TaskRunning
    <3>2. CASE v = w
      BY <1>4, <2>2, <3>1, <3>2
    <3>3. CASE v # w
      <4>1. worker[v] # NULL /\ worker'[v] = worker[v] /\ worker[v][1] \in Build
            /\ worker[v][2] \in Crack /\ worker[v] = <<worker[v][1], worker[v][2]>>
        BY <1>4, <2>4, <3>3, TaskFacts DEF IInv
      <4>2. /\ future[worker[v][1]][worker[v][2]] = "running"
            /\ \A u \in Worker : worker[u] = worker[v] => u = v
        BY <2>4, <4>1 DEF TasksInv, TaskRunning
      <4>3. worker[v] # <<b, c>>
        BY <3>1, <3>3
      <4>4. future'[worker[v][1]][worker[v][2]] = "running"
        BY <2>2, <4>1, <4>2, <4>3
      <4> QED BY <1>4, <3>1, <4>1, <4>2, <4>4
    <3> QED BY <3>2, <3>3
  <2>5. ASSUME NEW d \in Build PROVE FuturesOK(build'[d], future'[d], stop')
    <3>1. CASE d # b
      BY <1>1, <1>4, <1>6, <3>1, TaskFacts DEF IInv, TasksInv
    <3>2. CASE d = b
      <4>1. future'[b] = [future[b] EXCEPT ![c] = "running"]
        BY <1>4, <1>6, TaskFacts DEF IInv
      <4>2. build[b] \in BuildT /\ future[b] \in FutureT /\ FuturesOK(build[b], future[b], stop)
        BY TaskFacts DEF IInv, TasksInv
      <4>3. FuturesOK(build[b], [future[b] EXCEPT ![c] = "running"], stop)
        BY <2>1, <4>2, FutureMoves
      <4> QED BY <1>1, <1>4, <1>6, <3>2, <4>1, <4>3
    <3> QED BY <3>1, <3>2
  <2> QED BY <2>3, <2>4, <2>5 DEF TasksInv, TaskRunning
<1> QED BY <1>5, <1>6

(* A worker finishes the task of a crack.                                  *)
LEMMA GenerateTasks ==
  ASSUME IInv, TasksInv, NEW w \in Worker, GenerateCrackMesh(w)
  PROVE  TasksInv'
<1> DEFINE b == worker[w][1]
           c == worker[w][2]
<1>1. /\ worker[w] # NULL /\ c # 0 /\ tasks' = tasks /\ build' = build /\ stop' = stop
      /\ worker' = [worker EXCEPT ![w] = NULL]
  BY DEF GenerateCrackMesh
<1>2. b \in Build /\ c \in Crack /\ worker[w] = <<b, c>> /\ future[b][c] = "running"
  BY <1>1, TaskFacts DEF IInv, TasksInv, TaskRunning
<1>3. PICK x \in {"set", "thrown"} : future' = [future EXCEPT ![b][c] = x]
  BY <1>1 DEF GenerateCrackMesh
<1> HIDE DEF b, c
<1>4. \A d \in Build, e \in Crack : <<d, e>> # <<b, c>> => future'[d][e] = future[d][e]
  BY <1>2, <1>3, TaskFacts DEF IInv, FutureT
<1>5. TaskPending'
  <2> SUFFICES ASSUME NEW i \in 1..Len(tasks), tasks[i][2] # 0
               PROVE  /\ future'[tasks[i][1]][tasks[i][2]] = "pending"
                      /\ \A j \in 1..Len(tasks) : tasks[j] = tasks[i] => i = j
    BY <1>1 DEF TaskPending
  <2>1. /\ tasks[i] = <<tasks[i][1], tasks[i][2]>>
        /\ tasks[i][1] \in Build /\ tasks[i][2] \in Crack
    BY TaskFacts DEF IInv
  <2>2. /\ future[tasks[i][1]][tasks[i][2]] = "pending"
        /\ \A j \in 1..Len(tasks) : tasks[j] = tasks[i] => i = j
    BY DEF TasksInv, TaskPending
  <2>3. <<tasks[i][1], tasks[i][2]>> # <<b, c>>
    BY <1>2, <2>2
  <2> QED BY <1>4, <2>1, <2>2, <2>3
<1>6. ASSUME NEW v \in Worker, worker'[v] # NULL, worker'[v][2] # 0
      PROVE  /\ future'[worker'[v][1]][worker'[v][2]] = "running"
             /\ \A u \in Worker : worker'[u] = worker'[v] => u = v
  <2>0. worker'[w] = NULL /\ \A u \in Worker \ {w} : worker'[u] = worker[u]
    BY <1>1, TaskFacts DEF IInv
  <2>1. /\ v # w /\ worker'[v] = worker[v] /\ worker[v] # NULL /\ worker[v][1] \in Build
        /\ worker[v][2] \in Crack /\ worker[v] = <<worker[v][1], worker[v][2]>>
    BY <1>6, <2>0, TaskFacts DEF IInv
  <2>2. /\ future[worker[v][1]][worker[v][2]] = "running"
        /\ \A u \in Worker : worker[u] = worker[v] => u = v
    BY <1>6, <2>1 DEF TasksInv, TaskRunning
  <2>3. future'[worker[v][1]][worker[v][2]] = "running"
    BY <1>2, <1>4, <2>1, <2>2
  <2> QED BY <1>6, <2>0, <2>1, <2>2, <2>3
<1>7. ASSUME NEW d \in Build PROVE FuturesOK(build'[d], future'[d], stop')
  <2>1. CASE d # b
    BY <1>1, <1>3, <2>1, TaskFacts DEF IInv, TasksInv
  <2>2. CASE d = b
    <3>1. future'[b] = [future[b] EXCEPT ![c] = x]
      BY <1>2, <1>3, TaskFacts DEF IInv
    <3>2. build[b] \in BuildT /\ future[b] \in FutureT /\ FuturesOK(build[b], future[b], stop)
      BY <1>2, TaskFacts DEF IInv, TasksInv
    <3>3. FuturesOK(build[b], [future[b] EXCEPT ![c] = x], stop)
      BY <1>2, <3>2, FutureMoves
    <3> QED BY <1>1, <2>2, <3>1, <3>3
  <2> QED BY <2>1, <2>2
<1> QED BY <1>5, <1>6, <1>7 DEF TasksInv, TaskRunning

(* A build submits the task of its next crack.                             *)
LEMMA SubmitTasks ==
  ASSUME IInv, TasksInv, NEW b \in Build, SubmitCrack(b)
  PROVE  TasksInv'
<1> DEFINE c == build[b].next
<1>1. /\ build[b].at = "submit" /\ build[b].bad # 0 /\ c <= build[b].cracks
      /\ tasks' = Append(tasks, <<b, c>>) /\ UNCHANGED <<worker, stop>>
      /\ future' = [future EXCEPT ![b][c] = "pending"]
      /\ build' = [build EXCEPT ![b].next = c + 1]
  BY DEF SubmitCrack
<1>2. build[b] \in BuildT /\ c \in 1..MaxCracks + 1 /\ build[b].cracks \in 0..MaxCracks
  BY TaskFacts DEF IInv, BuildT
<1>3. c \in Crack /\ <<b, c>> \in Task /\ c # 0
  BY <1>1, <1>2, VrAssumption DEF Crack, Task
<1>4. future[b][c] = "none"
  BY <1>1, <1>3, TaskFacts DEF IInv, TasksInv, FuturesOK, Crack
<1>5. /\ future'[b][c] = "pending"
      /\ \A d \in Build, e \in Crack : <<d, e>> # <<b, c>> => future'[d][e] = future[d][e]
  BY <1>1, <1>3, TaskFacts DEF IInv, FutureT
<1>6. /\ Len(tasks') = Len(tasks) + 1 /\ tasks'[Len(tasks) + 1] = <<b, c>>
      /\ \A i \in 1..Len(tasks) : tasks'[i] = tasks[i]
  BY <1>1, <1>3, TaskFacts, Entries DEF IInv
<1>7. build' = [build EXCEPT ![b] = [build[b] EXCEPT !.next = c + 1]]
  BY <1>1, TaskFacts DEF IInv
<1>8. /\ build'[b].at = "submit" /\ build'[b].next = c + 1 /\ build'[b].cracks = build[b].cracks
      /\ build'[b].bad = build[b].bad /\ \A d \in Build \ {b} : build'[d] = build[d]
  BY <1>1, <1>2, <1>7, TaskFacts DEF IInv, BuildT
<1> HIDE DEF c
<1>9. TaskPending'
  <2>1. ASSUME NEW i \in 1..Len(tasks), tasks[i][2] # 0
        PROVE  /\ future'[tasks[i][1]][tasks[i][2]] = "pending" /\ tasks[i] # <<b, c>>
               /\ \A j \in 1..Len(tasks) : tasks[j] = tasks[i] => i = j
    <3>1. /\ tasks[i] = <<tasks[i][1], tasks[i][2]>>
          /\ tasks[i][1] \in Build /\ tasks[i][2] \in Crack
      BY <2>1, TaskFacts DEF IInv
    <3>2. /\ future[tasks[i][1]][tasks[i][2]] = "pending"
          /\ \A j \in 1..Len(tasks) : tasks[j] = tasks[i] => i = j
      BY <2>1 DEF TasksInv, TaskPending
    <3>3. <<tasks[i][1], tasks[i][2]>> # <<b, c>>
      BY <1>4, <3>2
    <3> QED BY <1>5, <3>1, <3>2, <3>3
  <2> SUFFICES ASSUME NEW i \in 1..Len(tasks'), tasks'[i][2] # 0
               PROVE  /\ future'[tasks'[i][1]][tasks'[i][2]] = "pending"
                      /\ \A j \in 1..Len(tasks') : tasks'[j] = tasks'[i] => i = j
    BY DEF TaskPending
  <2>2. CASE i \in 1..Len(tasks)
    <3>1. tasks'[i] = tasks[i] /\ tasks[i][2] # 0
      BY <1>6, <2>2
    <3>2. \A j \in 1..Len(tasks') : j \in 1..Len(tasks) \/ j = Len(tasks) + 1
      BY <1>6, TaskFacts DEF IInv
    <3> QED BY <1>6, <2>1, <2>2, <3>1, <3>2
  <2>3. CASE i = Len(tasks) + 1
    <3>1. \A j \in 1..Len(tasks) : tasks'[j] # <<b, c>>
      BY <1>3, <1>6, <2>1
    <3>2. \A j \in 1..Len(tasks') : j \in 1..Len(tasks) \/ j = Len(tasks) + 1
      BY <1>6, TaskFacts DEF IInv
    <3> QED BY <1>5, <1>6, <2>3, <3>1, <3>2
  <2> QED BY <1>6, <2>2, <2>3, TaskFacts DEF IInv
<1>10. TaskRunning'
  <2> SUFFICES ASSUME NEW v \in Worker, worker[v] # NULL, worker[v][2] # 0
               PROVE  /\ future'[worker[v][1]][worker[v][2]] = "running"
                      /\ \A u \in Worker : worker[u] = worker[v] => u = v
    BY <1>1 DEF TaskRunning
  <2>1. /\ future[worker[v][1]][worker[v][2]] = "running"
        /\ \A u \in Worker : worker[u] = worker[v] => u = v
    BY DEF TasksInv, TaskRunning
  <2>2. worker[v][1] \in Build /\ worker[v][2] \in Crack
    BY TaskFacts DEF IInv
  <2>3. <<worker[v][1], worker[v][2]>> # <<b, c>>
    BY <1>4, <2>1
  <2> QED BY <1>5, <2>1, <2>2, <2>3
<1>11. ASSUME NEW d \in Build PROVE FuturesOK(build'[d], future'[d], stop')
  <2>1. CASE d # b
    <3>1. future'[d] = future[d]
      BY <1>1, <2>1, TaskFacts DEF IInv
    <3> QED BY <1>1, <1>8, <2>1, <3>1 DEF TasksInv
  <2>2. CASE d = b
    <3>1. \A e \in Crack : future'[b][e] # "none" => e < c + 1
      <4> SUFFICES ASSUME NEW e \in Crack, future'[b][e] # "none" PROVE e < c + 1
        OBVIOUS
      <4>1. e # c => future'[b][e] = future[b][e]
        BY <1>5
      <4>2. e # c => e < c
        BY <1>1, <4>1 DEF TasksInv, FuturesOK, c
      <4> QED BY <1>2, <1>3, <4>2 DEF Crack
    <3>2. c + 1 <= build[b].cracks + 1
      BY <1>1, <1>2
    <3> QED BY <1>1, <1>8, <2>2, <3>1, <3>2 DEF FuturesOK
  <2> QED BY <2>1, <2>2
<1> QED BY <1>9, <1>10, <1>11 DEF TasksInv

(* A step that leaves the queue, the workers and the futures alone.        *)
LEMMA QuietTasks ==
  ASSUME IInv, TasksInv, UNCHANGED <<tasks, worker, future>>,
         \A d \in Build : FuturesOK(build'[d], future[d], stop')
  PROVE  TasksInv'
BY DEF TasksInv, TaskPending, TaskRunning

(* Stopping the pool only permits more.                                    *)
LEMMA StopPermits ==
  ASSUME NEW r, NEW F, NEW over, NEW later, over => later, FuturesOK(r, F, over)
  PROVE  FuturesOK(r, F, later)
BY DEF FuturesOK

(* A call that starts a build: it has no task of a crack yet.              *)
LEMMA StartTasks ==
  ASSUME IInv, TasksInv, NEW c \in Client, NEW b \in Build, NEW i \in Input, Starts(c, b, i)
  PROVE  TasksInv'
<1>1. /\ UNCHANGED <<worker, future, stop>> /\ tasks' \in {tasks, Append(tasks, <<b, 0>>)}
      /\ \E by \in {"execute", "async"} \cup Client, at \in {"queued", "submit"} :
           Begun(b, i, by, at)
      /\ New(b)
  <2>1. CASE Execute(c, b, i)
    BY <2>1 DEF Execute, callVars
  <2>2. CASE BuildPreviewAsync(c, b, i)
    BY <2>2 DEF BuildPreviewAsync, callVars
  <2>3. CASE ExecuteSync(c, b, i)
    BY <2>3 DEF ExecuteSync, callVars
  <2> QED BY <2>1, <2>2, <2>3 DEF Starts
<1>2. PICK by, at : /\ at \in {"queued", "submit"}
                    /\ build' = [build EXCEPT ![b] = [by |-> by, cracks |-> i.cracks,
                                   bad |-> i.bad, at |-> at, next |-> 1]]
  BY <1>1 DEF Begun
<1>3. /\ build'[b].at = at /\ build'[b].next = 1 /\ build'[b].cracks = i.cracks
      /\ i.cracks \in 0..MaxCracks /\ \A d \in Build \ {b} : build'[d] = build[d]
  BY <1>2, TaskFacts, VrAssumption DEF IInv
<1>4. \A e \in Crack : future[b][e] = "none"
  BY <1>1 DEF New, Started, TasksInv, FuturesOK
<1>5. ASSUME NEW d \in Build PROVE FuturesOK(build'[d], future'[d], stop')
  <2>1. CASE d # b
    BY <1>1, <1>3, <2>1 DEF TasksInv
  <2>2. CASE d = b
    <3>1. 1 <= i.cracks + 1
      BY <1>3
    <3> QED BY <1>1, <1>2, <1>3, <1>4, <2>2, <3>1 DEF FuturesOK
  <2> QED BY <2>1, <2>2
<1>6. TaskPending'
  <2>1. <<b, 0>> \in Task
    BY VrAssumption DEF Task
  <2>2. CASE tasks' = tasks
    BY <1>1, <2>2 DEF TasksInv, TaskPending
  <2>3. CASE tasks' = Append(tasks, <<b, 0>>)
    <3>1. /\ Len(tasks') = Len(tasks) + 1 /\ tasks'[Len(tasks) + 1] = <<b, 0>>
          /\ \A j \in 1..Len(tasks) : tasks'[j] = tasks[j]
          /\ Len(tasks) \in Nat
      BY <2>1, <2>3, TaskFacts, Entries DEF IInv
    <3>2. \A j \in 1..Len(tasks') : tasks'[j][2] # 0 => j \in 1..Len(tasks)
      BY <3>1
    <3> QED BY <1>1, <3>1, <3>2 DEF TasksInv, TaskPending
  <2> QED BY <1>1, <2>2, <2>3
<1> QED BY <1>1, <1>5, <1>6 DEF TasksInv, TaskRunning

(* A build ends when the loop over its futures is done, or fails when it   *)
(* cannot submit or an earlier mesh threw.                                 *)
LEMMA EndTasks ==
  ASSUME IInv, TasksInv, NEW b \in Build, NEW result \in {"ok", "failed"}, End(b, result),
         \A c \in Crack : future[b][c] \in {"pending", "running"} =>
           result = "failed" /\ (stop \/ \E d \in Crack : d < c /\ future[b][d] = "thrown")
  PROVE  TasksInv'
<1>1. /\ UNCHANGED <<tasks, stop, future>> /\ build' = [build EXCEPT ![b].at = result]
      /\ worker' = [w \in Worker |-> IF worker[w] = <<b, 0>> THEN NULL ELSE worker[w]]
  BY DEF End
<1>2. build'[b].at = result /\ \A d \in Build \ {b} : build'[d] = build[d]
  BY <1>1, TaskFacts DEF IInv, BuildT
<1>3. \A d \in Build : FuturesOK(build'[d], future'[d], stop')
  BY <1>1, <1>2 DEF TasksInv, FuturesOK
<1>4. TaskRunning'
  <2> SUFFICES ASSUME NEW v \in Worker, worker'[v] # NULL, worker'[v][2] # 0
               PROVE  /\ future[worker'[v][1]][worker'[v][2]] = "running"
                      /\ \A u \in Worker : worker'[u] = worker'[v] => u = v
    BY <1>1 DEF TaskRunning
  <2>1. worker'[v] = worker[v] /\ \A u \in Worker : worker'[u] \in {worker[u], NULL}
    BY <1>1
  <2> QED BY <2>1 DEF TasksInv, TaskRunning
<1> QED BY <1>1, <1>3, <1>4 DEF TasksInv, TaskPending

(* The loops of a build, over its cracks and then over their futures.      *)
LEMMA BuildTasks ==
  ASSUME IInv, TasksInv, NEW b \in Build, BuildStep(b)
  PROVE  TasksInv'
<1>0. build[b] \in BuildT /\ FuturesOK(build[b], future[b], stop) /\ build \in [Build -> BuildT]
  BY TaskFacts DEF IInv, TasksInv
<1>1. CASE SubmitThrows(b)
  <2>1. build[b].at = "submit" /\ End(b, "failed") /\ (build[b].bad = 0 \/ stop)
    BY <1>1 DEF SubmitThrows
  <2>2. \A c \in Crack : future[b][c] \in {"pending", "running"} => stop
    BY <1>0, <2>1 DEF FuturesOK
  <2> QED BY <2>1, <2>2, EndTasks
<1>2. CASE SubmitCrack(b)
  BY <1>2, SubmitTasks
<1>3. CASE Submitted(b)
  <2>1. /\ build[b].at = "submit" /\ build[b].next > build[b].cracks
        /\ build' = [build EXCEPT ![b].at = "get", ![b].next = 1]
        /\ UNCHANGED <<tasks, worker, stop, future>>
    BY <1>3 DEF Submitted
  <2>2. /\ build'[b].at = "get" /\ build'[b].next = 1 /\ build'[b].cracks = build[b].cracks
        /\ \A d \in Build \ {b} : build'[d] = build[d]
    BY <1>0, <2>1 DEF BuildT
  <2>3. \A c \in Crack : future[b][c] # "none" => c <= build[b].cracks
    BY <1>0, <2>1 DEF FuturesOK, BuildT, Crack
  <2>4. \A c \in Crack : ~(c < 1)
    BY DEF Crack
  <2>5. ASSUME NEW d \in Build PROVE FuturesOK(build'[d], future[d], stop')
    <3>1. CASE d = b
      BY <2>2, <2>3, <2>4, <3>1 DEF FuturesOK
    <3>2. CASE d # b
      BY <2>1, <2>2, <3>2 DEF TasksInv
    <3> QED BY <3>1, <3>2
  <2> QED BY <2>1, <2>5, QuietTasks
<1>4. CASE GetCrack(b)
  <2> DEFINE c == build[b].next
  <2>0. build[b].at = "get" /\ c \in 1..MaxCracks + 1 /\ build[b].cracks \in 0..MaxCracks
    BY <1>0, <1>4 DEF GetCrack, BuildT
  <2>1. \/ /\ c <= build[b].cracks /\ future[b][c] = "set"
           /\ build' = [build EXCEPT ![b].next = c + 1]
           /\ UNCHANGED <<tasks, worker, stop, future>>
        \/ c <= build[b].cracks /\ future[b][c] = "thrown" /\ End(b, "failed")
        \/ c > build[b].cracks /\ End(b, "ok")
    <3>1. c <= build[b].cracks => future[b][c] # "all"
      <4>1. c <= build[b].cracks => c \in Crack
        BY <2>0, VrAssumption DEF Crack
      <4> QED BY <4>1, TaskFacts DEF IInv, FutureT
    <3>2. c <= build[b].cracks \/ c > build[b].cracks
      BY <2>0
    <3> QED BY <1>4, <3>1, <3>2 DEF GetCrack
  <2>2. /\ \A d \in Crack : future[b][d] # "none" => d <= build[b].cracks
        /\ \A d \in Crack : d < c => future[b][d] = "set"
    BY <1>0, <2>0 DEF FuturesOK
  <2>3. \A d \in Crack : d \in Nat
    BY DEF Crack
  <2>4. CASE /\ c <= build[b].cracks /\ future[b][c] = "set"
             /\ build' = [build EXCEPT ![b].next = c + 1]
             /\ UNCHANGED <<tasks, worker, stop, future>>
    <3>1. /\ build'[b].at = "get" /\ build'[b].next = c + 1 /\ build'[b].cracks = build[b].cracks
          /\ \A d \in Build \ {b} : build'[d] = build[d]
      BY <1>0, <2>0, <2>4 DEF BuildT
    <3>2. \A d \in Crack : d < c + 1 => future[b][d] = "set"
      BY <2>0, <2>2, <2>3, <2>4
    <3> HIDE DEF c
    <3>3. \A d \in Build : FuturesOK(build'[d], future[d], stop')
      BY <2>2, <2>4, <3>1, <3>2 DEF TasksInv, FuturesOK
    <3> QED BY <2>4, <3>3, QuietTasks
  <2>5. CASE c <= build[b].cracks /\ future[b][c] = "thrown" /\ End(b, "failed")
    <3>1. c \in Crack
      BY <2>0, <2>5, VrAssumption DEF Crack
    <3>2. \A d \in Crack : future[b][d] \in {"pending", "running"} => c < d
      BY <2>0, <2>2, <2>3, <2>5
    <3> HIDE DEF c
    <3> QED BY <2>5, <3>1, <3>2, EndTasks
  <2>6. CASE c > build[b].cracks /\ End(b, "ok")
    <3>1. \A d \in Crack : future[b][d] \notin {"pending", "running"}
      BY <2>0, <2>2, <2>3, <2>6
    <3> QED BY <2>6, <3>1, EndTasks
  <2> QED BY <2>1, <2>4, <2>5, <2>6
<1> QED BY <1>1, <1>2, <1>3, <1>4 DEF BuildStep

(* Futures follow their tasks in every reachable state.                    *)
LEMMA TasksInvariance == Spec => []TasksInv
<1>1. Init => TasksInv
  BY DEF Init, TasksInv, TaskPending, TaskRunning, FuturesOK
<1>2. IInv /\ TasksInv /\ [Next]_vars => TasksInv'
  <2> SUFFICES ASSUME IInv, TasksInv, [Next]_vars PROVE TasksInv'
    OBVIOUS
  <2>1. ASSUME UNCHANGED <<tasks, worker, build, future>>, stop => stop'
        PROVE  TasksInv'
    <3>1. \A d \in Build : FuturesOK(build'[d], future[d], stop')
      BY <2>1, StopPermits DEF TasksInv
    <3> QED BY <2>1, <3>1, QuietTasks
  <2>2. CASE (\E c \in Client : Call(c)) \/ Shutdown \/ ShutdownReturns \/ UNCHANGED vars
    BY <2>1, <2>2 DEF Call, Check, Enter, ExecuteThrows, Cancel, Shutdown, ShutdownReturns, vars
  <2> QED BY <2>2, TakeTasks, GenerateTasks, StartTasks, BuildTasks DEF Next, WorkerStep
<1> QED BY <1>1, <1>2, SpecIInv, PTL DEF Spec

(* The task of a crack runs on after its build only when the build failed: *)
(* an earlier crack threw or the pool was stopped.                         *)
THEOREM OutlivingTasksOfFailedBuilds == Spec => []TasksOutliveFailedOnly
<1>1. TasksInv => TasksOutliveFailedOnly
  BY DEF TasksInv, FuturesOK, TasksOutliveFailedOnly, Ended, Outstanding
<1> QED BY <1>1, TasksInvariance, PTL
=============================================================================
