------------------------- MODULE ThreadPool_proofs -------------------------
(***************************************************************************)
(* The thread pool for any workers, clients and tasks: it is a FIFO        *)
(* channel, and what shutdown() and wait_all() promise when they return    *)
(* holds.  active_tasks_ is changed without queue_mutex_; that it counts   *)
(* the tasks in the queue and in the workers' hands at every step is what  *)
(* wait_all() rests on.                                                    *)
(***************************************************************************)
EXTENDS ThreadPool, FiniteSetTheorems, SequenceTheorems, TLAPS

(* Tasks leave the queue in the order of their numbers.                    *)
Fifo ==
  /\ Len(submitted) = Len(started) + Len(tasks) /\ Len(submitted) <= MaxTasks
  /\ \A i \in 1..Len(submitted) : submitted[i] = i
  /\ \A i \in 1..Len(tasks) : tasks[i] = Len(started) + i

(* active_tasks_ counts the tasks that are queued, run or to be counted.   *)
Busy == {w \in Workers : pc[w] \in {"run", "count"}}
Counted == active = Len(tasks) + Cardinality(Busy)

(* A task that was taken is done or in the hands of a worker.              *)
Tracked ==
  /\ done \subseteq 1..Len(started)
  /\ \A i \in 1..Len(started) : i \in done \/ \E w \in Workers : pc[w] = "run" /\ task[w] = i
  /\ \A w \in Workers : pc[w] = "run" => task[w] \in 1..Len(started)

(* Workers leave for good, with an empty queue that nobody fills again.    *)
Leaving ==
  /\ \A w \in Workers : pc[w] = "exited" => stop /\ tasks = <<>>
  /\ \A c \in Clients : pc[c] = "down" => \A w \in Workers : pc[w] = "exited"

IInv == TypeOK /\ Fifo /\ Counted /\ Tracked /\ Leaving

LEMMA Lengths ==
  ASSUME TypeOK
  PROVE  /\ Len(tasks) \in Nat /\ Len(submitted) \in Nat /\ Len(started) \in Nat
         /\ tasks = <<>> <=> Len(tasks) = 0
         /\ pc \in [Workers \cup Clients -> WorkerPc \cup ClientPc]
BY LenProperties, EmptySeq DEF TypeOK

LEMMA InitIInv == Init => IInv
<1> SUFFICES ASSUME Init PROVE IInv
  OBVIOUS
<1> USE PoolAssumption DEF Init
<1>1. TypeOK
  BY EmptySeq DEF TypeOK, WorkerPc, ClientPc
<1>2. Len(tasks) = 0 /\ Len(submitted) = 0 /\ Len(started) = 0
  OBVIOUS
<1>3. Counted
  <2>1. Busy = {}
    BY DEF Busy
  <2> QED BY <1>2, <2>1, FS_EmptySet DEF Counted
<1>4. Fifo
  BY <1>2 DEF Fifo
<1>5. Tracked /\ Leaving
  BY <1>2 DEF Tracked, Leaving
<1> QED BY <1>1, <1>3, <1>4, <1>5 DEF IInv

(* Steps that move no task.                                                *)
LEMMA QuietStep ==
  ASSUME IInv, UNCHANGED <<tasks, active, task, submitted, started, done>>,
         stop' \in BOOLEAN, stop => stop', missed' \in SUBSET (Workers \cup Clients),
         pc' \in [Workers \cup Clients -> WorkerPc \cup ClientPc],
         \A w \in Workers : /\ pc'[w] \in WorkerPc
                            /\ pc[w] \in {"run", "count", "exited"} => pc'[w] = pc[w]
                            /\ pc'[w] \in {"run", "count"} => pc'[w] = pc[w]
                            /\ pc'[w] = "exited" => stop' /\ tasks = <<>>,
         \A c \in Clients : /\ pc'[c] \in ClientPc
                            /\ pc'[c] = "down" => \A w \in Workers : pc[w] = "exited"
  PROVE  IInv'
<1>1. TypeOK'
  BY DEF IInv, TypeOK
<1>2. Busy' = Busy
  BY DEF Busy
<1>3. Fifo' /\ Counted'
  BY <1>2 DEF IInv, Fifo, Counted
<1>4. Tracked'
  BY DEF IInv, Tracked
<1>5. Leaving'
  BY DEF IInv, Leaving
<1> QED BY <1>1, <1>3, <1>4, <1>5 DEF IInv

(* A step of one thread that moves no task.                                *)
LEMMA QuietGoto ==
  ASSUME IInv, UNCHANGED <<tasks, active, task, hist>>, stop' \in BOOLEAN, stop => stop',
         NEW t \in Workers \cup Clients, NEW l, Goto(t, l),
         t \in Workers => /\ pc[t] \notin {"run", "count", "exited"}
                          /\ l \in WorkerPc \ {"run", "count"}
                          /\ l = "exited" => stop' /\ tasks = <<>>,
         t \in Clients => /\ l \in ClientPc
                          /\ l = "down" => \A w \in Workers : pc[w] = "exited"
  PROVE  IInv'
<1>1. /\ pc \in [Workers \cup Clients -> WorkerPc \cup ClientPc]
      /\ \A w \in Workers : pc[w] \in WorkerPc
      /\ \A c \in Clients : pc[c] \in ClientPc
  BY DEF IInv, TypeOK
<1>2. /\ pc' \in [Workers \cup Clients -> WorkerPc \cup ClientPc]
      /\ \A u \in Workers \cup Clients : pc'[u] = IF u = t THEN l ELSE pc[u]
  BY <1>1 DEF Goto
<1>3. missed' \in SUBSET (Workers \cup Clients) /\ UNCHANGED <<submitted, started, done>>
  BY DEF hist, IInv, TypeOK
<1>4. \A w \in Workers : pc[w] = "exited" => stop /\ tasks = <<>>
  BY DEF IInv, Leaving
<1>5. \A c \in Clients : pc[c] = "down" => \A w \in Workers : pc[w] = "exited"
  BY DEF IInv, Leaving
<1>6. ASSUME NEW w \in Workers
      PROVE  /\ pc'[w] \in WorkerPc
             /\ pc[w] \in {"run", "count", "exited"} => pc'[w] = pc[w]
             /\ pc'[w] \in {"run", "count"} => pc'[w] = pc[w]
             /\ pc'[w] = "exited" => stop' /\ tasks = <<>>
  BY <1>1, <1>2, <1>4
<1>7. ASSUME NEW c \in Clients
      PROVE  /\ pc'[c] \in ClientPc
             /\ pc'[c] = "down" => \A w \in Workers : pc[w] = "exited"
  BY <1>1, <1>2, <1>5
<1> QED BY <1>2, <1>3, <1>6, <1>7, QuietStep

(***************************************************************************)
(* The clients.                                                            *)
(***************************************************************************)
LEMMA SubmitIInv ==
  ASSUME IInv, NEW c \in Clients, Submit(c)
  PROVE  IInv'
<1> USE PoolAssumption DEF Submit
<1>1. Len(submitted) \in Nat /\ Len(submitted) + 1 \in Task /\ Len(tasks) \in Nat /\ Len(started) \in Nat /\ active \in Nat
  BY Lengths DEF IInv, TypeOK, Task
<1>2. /\ tasks' \in Seq(Task) /\ Len(tasks') = Len(tasks) + 1
      /\ \A i \in 1..Len(tasks) : tasks'[i] = tasks[i]
      /\ tasks'[Len(tasks) + 1] = Len(submitted) + 1
  BY <1>1, AppendProperties DEF IInv, TypeOK
<1>3. /\ submitted' \in Seq(Task) /\ Len(submitted') = Len(submitted) + 1
      /\ \A i \in 1..Len(submitted) : submitted'[i] = submitted[i]
      /\ submitted'[Len(submitted) + 1] = Len(submitted) + 1
  BY <1>1, AppendProperties DEF IInv, TypeOK
<1>4. /\ pc' \in [Workers \cup Clients -> WorkerPc \cup ClientPc] /\ pc'[c] = "submitted"
      /\ \A u \in (Workers \cup Clients) \ {c} : pc'[u] = pc[u]
  BY DEF IInv, TypeOK, Goto, ClientPc
<1>5. /\ \A w \in Workers : pc'[w] = pc[w]
      /\ UNCHANGED <<stop, task, started, done, missed>> /\ active' = active + 1
      /\ ~stop
  BY <1>4
<1> HIDE DEF Submit
<1>6. TypeOK'
  <2>1. \A d \in Clients : pc'[d] \in ClientPc
    BY <1>4 DEF IInv, TypeOK, ClientPc
  <2>2. active' \in Nat
    BY <1>1, <1>5
  <2> QED BY <1>2, <1>3, <1>4, <1>5, <2>1, <2>2 DEF IInv, TypeOK
<1>7. Fifo'
  <2>1. Len(submitted) + 1 = Len(started) + Len(tasks) + 1
    BY <1>1 DEF IInv, Fifo
  <2>2. \A i \in 1..(Len(submitted) + 1) : submitted'[i] = i
    <3> SUFFICES ASSUME NEW i \in 1..(Len(submitted) + 1) PROVE submitted'[i] = i
      OBVIOUS
    <3>1. CASE i = Len(submitted) + 1
      BY <1>3, <3>1
    <3>2. CASE i \in 1..Len(submitted)
      BY <1>3, <3>2 DEF IInv, Fifo
    <3> QED BY <1>1, <3>1, <3>2
  <2>3. \A i \in 1..(Len(tasks) + 1) : tasks'[i] = Len(started) + i
    <3> SUFFICES ASSUME NEW i \in 1..(Len(tasks) + 1) PROVE tasks'[i] = Len(started) + i
      OBVIOUS
    <3>1. CASE i = Len(tasks) + 1
      BY <1>1, <1>2, <2>1, <3>1
    <3>2. CASE i \in 1..Len(tasks)
      BY <1>1, <1>2, <3>2 DEF IInv, Fifo
    <3> QED BY <1>1, <3>1, <3>2
  <2>4. Len(submitted) + 1 <= MaxTasks
    BY <1>1 DEF Task
  <2>5. started' = started /\ Len(submitted') = Len(started') + Len(tasks')
    BY <1>1, <1>2, <1>3, <1>5, <2>1
  <2>6. \A i \in 1..Len(submitted') : submitted'[i] = i
    BY <1>3, <2>2
  <2>7. \A i \in 1..Len(tasks') : tasks'[i] = Len(started') + i
    BY <1>2, <2>3, <2>5
  <2> QED BY <1>3, <2>4, <2>5, <2>6, <2>7 DEF Fifo
<1>8. Counted'
  <2>1. Busy' = Busy /\ Cardinality(Busy) \in Nat
    BY <1>5, FS_Subset, FS_CardinalityType DEF Busy
  <2> QED BY <1>1, <1>2, <1>5, <2>1 DEF IInv, Counted
<1>9. Tracked' /\ Leaving'
  BY <1>4, <1>5 DEF IInv, Tracked, Leaving
<1> QED BY <1>6, <1>7, <1>8, <1>9 DEF IInv

LEMMA NotifyIInv ==
  ASSUME IInv, NEW c \in Clients, NotifyOne(c) \/ NotifyStop(c)
  PROVE  IInv'
<1>1. /\ pc \in [Workers \cup Clients -> WorkerPc \cup ClientPc] /\ c \notin Workers
      /\ \A w \in Workers : pc[w] \in WorkerPc
      /\ \A d \in Clients : pc[d] \in ClientPc
  BY PoolAssumption DEF IInv, TypeOK
<1>2. PICK l \in {"idle", "join"} :
        /\ pc' \in [Workers \cup Clients -> WorkerPc \cup ClientPc] /\ pc'[c] = l
        /\ \A w \in Workers : pc'[w] = pc[w] \/ (pc[w] = "waiting" /\ pc'[w] = "lock")
        /\ \A d \in Clients \ {c} : pc'[d] = pc[d]
  <2>1. CASE NotifyOne(c)
    <3>1. CASE Goto(c, "idle")
      BY <1>1, <3>1 DEF Goto, ClientPc
    <3>2. CASE \E w \in Workers : pc[w] = "waiting" /\ pc' = [pc EXCEPT ![c] = "idle", ![w] = "lock"]
      <4> PICK w \in Workers : pc[w] = "waiting" /\ pc' = [pc EXCEPT ![c] = "idle", ![w] = "lock"]
        BY <3>2
      <4>1. w # c /\ w \notin Clients
        BY PoolAssumption
      <4> QED BY <1>1, <4>1 DEF ClientPc, WorkerPc
    <3> QED BY <2>1, <3>1, <3>2 DEF NotifyOne
  <2>2. CASE NotifyStop(c)
    BY <1>1, <2>2, PoolAssumption DEF NotifyStop, ClientPc, WorkerPc
  <2> QED BY <2>1, <2>2
<1>3. /\ UNCHANGED <<tasks, stop, active, task, submitted, started, done>>
      /\ missed' \in SUBSET (Workers \cup Clients)
  BY DEF NotifyOne, NotifyStop, hist, IInv, TypeOK
<1>4. ASSUME NEW w \in Workers
      PROVE  /\ pc'[w] \in WorkerPc
             /\ pc[w] \in {"run", "count", "exited"} => pc'[w] = pc[w]
             /\ pc'[w] \in {"run", "count"} => pc'[w] = pc[w]
             /\ pc'[w] = "exited" => stop' /\ tasks = <<>>
  BY <1>1, <1>2, <1>3 DEF IInv, Leaving, WorkerPc
<1>5. ASSUME NEW d \in Clients
      PROVE  /\ pc'[d] \in ClientPc
             /\ pc'[d] = "down" => \A w \in Workers : pc[w] = "exited"
  BY <1>1, <1>2 DEF IInv, Leaving, ClientPc
<1>6. stop' \in BOOLEAN
  BY <1>3 DEF IInv, TypeOK
<1> QED BY <1>2, <1>3, <1>4, <1>5, <1>6, QuietStep

LEMMA ClientIInv ==
  ASSUME IInv, NEW c \in Clients,
         CallWaitAll(c) \/ WaitAllReturns(c) \/ WaitAllParks(c) \/ SetStop(c) \/ Joined(c)
  PROVE  IInv'
<1>1. c \notin Workers /\ c \in Workers \cup Clients /\ stop \in BOOLEAN
  BY PoolAssumption DEF IInv, TypeOK
<1>2. PICK l \in ClientPc :
        Goto(c, l) /\ (l = "down" => \A w \in Workers : pc[w] = "exited")
  BY DEF CallWaitAll, WaitAllReturns, WaitAllParks, SetStop, Joined, ClientPc
<1>3. UNCHANGED <<tasks, active, task, hist>> /\ stop' \in BOOLEAN /\ (stop => stop')
  BY <1>1 DEF CallWaitAll, WaitAllReturns, WaitAllParks, SetStop, Joined
<1> QED BY <1>1, <1>2, <1>3, QuietGoto

LEMMA SleepIInv ==
  ASSUME IInv, NEW t \in Workers \cup Clients, Sleep(t) \/ SpuriousWake(t)
  PROVE  IInv'
<1>1. pc[t] \notin {"run", "count", "exited"} /\ stop \in BOOLEAN
  BY DEF Sleep, SpuriousWake, IInv, TypeOK
<1>2. PICK l : Goto(t, l) /\ l = IF pc[t] = "park" THEN "waiting"
                                 ELSE IF t \in Workers THEN "lock" ELSE "waitAll"
  BY DEF Sleep, SpuriousWake
<1>3. UNCHANGED <<tasks, active, task, hist>> /\ stop' = stop
  BY DEF Sleep, SpuriousWake
<1>4. /\ t \in Workers => l \in WorkerPc \ {"run", "count"} /\ l # "exited"
      /\ t \in Clients => l \in ClientPc /\ l # "down"
  BY <1>2, PoolAssumption DEF WorkerPc, ClientPc
<1> QED BY <1>1, <1>2, <1>3, <1>4, QuietGoto

(***************************************************************************)
(* The workers.                                                            *)
(***************************************************************************)
LEMMA WorkerFacts ==
  ASSUME IInv, NEW w \in Workers
  PROVE  /\ w \notin Clients /\ w \in Workers \cup Clients
         /\ IsFiniteSet(Busy) /\ Cardinality(Busy) \in Nat /\ Len(tasks) \in Nat
         /\ stop \in BOOLEAN /\ active \in Nat
<1>1. IsFiniteSet(Busy)
  BY PoolAssumption, FS_Subset DEF Busy
<1> QED BY <1>1, PoolAssumption, FS_CardinalityType, Lengths DEF IInv, TypeOK

(* A worker that goes from one place to another.                           *)
LEMMA WorkerMoves ==
  ASSUME IInv, NEW w \in Workers, NEW l \in WorkerPc, Goto(w, l)
  PROVE  /\ pc' \in [Workers \cup Clients -> WorkerPc \cup ClientPc] /\ pc'[w] = l
         /\ \A u \in (Workers \cup Clients) \ {w} : pc'[u] = pc[u]
         /\ \A u \in Workers : pc'[u] \in WorkerPc
         /\ \A c \in Clients : pc'[c] = pc[c] /\ pc'[c] \in ClientPc
<1>1. /\ pc \in [Workers \cup Clients -> WorkerPc \cup ClientPc]
      /\ \A u \in Workers : pc[u] \in WorkerPc
      /\ \A c \in Clients : pc[c] \in ClientPc
  BY DEF IInv, TypeOK
<1>2. /\ pc' \in [Workers \cup Clients -> WorkerPc \cup ClientPc] /\ pc'[w] = l
      /\ \A u \in (Workers \cup Clients) \ {w} : pc'[u] = pc[u]
  BY <1>1 DEF Goto
<1> QED BY <1>1, <1>2, WorkerFacts

LEMMA TakeIInv ==
  ASSUME IInv, NEW w \in Workers, Take(w)
  PROVE  IInv'
<1> USE DEF Take
<1> DEFINE next == Head(tasks)
<1>1. /\ Len(tasks) \in Nat \ {0} /\ Len(started) \in Nat /\ Len(submitted) \in Nat
      /\ pc[w] = "lock"
  BY Lengths DEF IInv
<1>2. next \in Task /\ next = Len(started) + 1
  <2>1. next = tasks[1] /\ tasks \in Seq(Task)
    BY DEF IInv, TypeOK
  <2>2. 1 \in 1..Len(tasks)
    BY <1>1
  <2> HIDE DEF next
  <2> QED BY <1>1, <2>1, <2>2, ElementOfSeq DEF IInv, Fifo
<1>3. /\ tasks' \in Seq(Task) /\ Len(tasks') = Len(tasks) - 1
      /\ \A i \in 1..Len(tasks') : tasks'[i] = tasks[i + 1]
  BY HeadTailProperties DEF IInv, TypeOK
<1>4. /\ started' \in Seq(Task) /\ Len(started') = Len(started) + 1
  BY <1>2, AppendProperties DEF IInv, TypeOK
<1>5. task' = [task EXCEPT ![w] = next] /\ Goto(w, "run") /\ task \in [Workers -> Task \cup {NULL}]
  BY DEF IInv, TypeOK
<1>6. /\ pc' \in [Workers \cup Clients -> WorkerPc \cup ClientPc] /\ pc'[w] = "run"
      /\ \A u \in Workers \ {w} : pc'[u] = pc[u]
      /\ \A u \in Workers : pc'[u] \in WorkerPc
      /\ \A c \in Clients : pc'[c] = pc[c] /\ pc'[c] \in ClientPc
  BY <1>5, WorkerMoves DEF WorkerPc
<1>7. UNCHANGED <<stop, active, submitted, done, missed>>
  OBVIOUS
<1> HIDE DEF next
<1>8. task' \in [Workers -> Task \cup {NULL}] /\ task'[w] = next
      /\ \A u \in Workers \ {w} : task'[u] = task[u]
  BY <1>2, <1>5
<1> HIDE DEF Take
<1>9. TypeOK'
  BY <1>3, <1>4, <1>6, <1>7, <1>8 DEF IInv, TypeOK
<1>10. Fifo'
  <2>2. started'[Len(started) + 1] = next /\ \A i \in 1..Len(started) : started'[i] = started[i]
    BY <1>2, AppendProperties DEF IInv, TypeOK, Take, next
  <2>1. ASSUME NEW i \in 1..Len(tasks') PROVE tasks'[i] = Len(started') + i
    <3>1. i + 1 \in 1..Len(tasks)
      BY <1>1, <1>3
    <3> QED BY <1>1, <1>3, <1>4, <3>1 DEF IInv, Fifo
  <2>3. /\ Len(submitted) = Len(started) + Len(tasks) /\ Len(submitted) <= MaxTasks
        /\ \A i \in 1..Len(submitted) : submitted[i] = i
    BY DEF IInv, Fifo
  <2>4. Len(submitted') = Len(started') + Len(tasks')
    BY <1>1, <1>3, <1>4, <1>7, <2>3
  <2> QED BY <1>7, <2>1, <2>3, <2>4 DEF Fifo
<1>11. Counted'
  <2>1. Busy' = Busy \cup {w} /\ w \notin Busy
    BY <1>1, <1>6 DEF Busy
  <2>2. Cardinality(Busy') = Cardinality(Busy) + 1
    BY <2>1, WorkerFacts, FS_AddElement
  <2> QED BY <1>1, <1>3, <1>7, <2>2, WorkerFacts DEF IInv, Counted
<1>12. Tracked'
  <2>1. ASSUME NEW i \in 1..Len(started')
        PROVE  i \in done \/ \E u \in Workers : pc'[u] = "run" /\ task'[u] = i
    <3>1. CASE i = Len(started) + 1
      BY <1>2, <1>6, <1>8, <3>1
    <3>2. CASE i \in 1..Len(started)
      <4>1. i \in done \/ \E u \in Workers : pc[u] = "run" /\ task[u] = i
        BY <3>2 DEF IInv, Tracked
      <4> QED BY <1>1, <1>6, <1>8, <4>1
    <3> QED BY <1>1, <1>4, <3>1, <3>2
  <2>2. 1..Len(started) \subseteq 1..Len(started') /\ Len(started) + 1 \in 1..Len(started')
    BY <1>1, <1>4
  <2> QED BY <1>2, <1>6, <1>7, <1>8, <2>1, <2>2 DEF IInv, Tracked
<1>13. Leaving'
  <2>1. \A u \in Workers : pc[u] # "exited"
    BY DEF Take, IInv, Leaving
  <2> QED BY <1>6, <2>1 DEF IInv, Leaving
<1> QED BY <1>9, <1>10, <1>11, <1>12, <1>13 DEF IInv

LEMMA RunIInv ==
  ASSUME IInv, NEW w \in Workers, Run(w)
  PROVE  IInv'
<1> USE DEF Run
<1>1. /\ pc' \in [Workers \cup Clients -> WorkerPc \cup ClientPc] /\ pc'[w] = "count"
      /\ \A u \in Workers \ {w} : pc'[u] = pc[u]
      /\ \A u \in Workers : pc'[u] \in WorkerPc
      /\ \A c \in Clients : pc'[c] = pc[c] /\ pc'[c] \in ClientPc
  BY WorkerMoves DEF WorkerPc
<1>2. /\ task' \in [Workers -> Task \cup {NULL}]
      /\ \A u \in Workers \ {w} : task'[u] = task[u]
  BY DEF IInv, TypeOK
<1>3. UNCHANGED <<tasks, stop, active, submitted, started, missed>> /\ pc[w] = "run"
  OBVIOUS
<1>4. task[w] \in 1..Len(started) /\ 1..Len(started) \subseteq Task
  <2>1. Len(started) <= MaxTasks
    BY Lengths, PoolAssumption DEF IInv, Fifo
  <2> QED BY <1>3, <2>1, Lengths, PoolAssumption DEF IInv, Tracked, Task
<1>5. TypeOK'
  BY <1>1, <1>2, <1>3, <1>4 DEF IInv, TypeOK
<1>6. Counted'
  <2>1. Busy' = Busy
    BY <1>1, <1>3 DEF Busy
  <2> QED BY <1>3, <2>1 DEF IInv, Counted
<1>7. Tracked'
  BY <1>1, <1>2, <1>3, <1>4 DEF IInv, Tracked
<1>8. Fifo' /\ Leaving'
  <2>1. Fifo'
    BY <1>3 DEF IInv, Fifo
  <2>2. Leaving'
    BY <1>1, <1>3 DEF IInv, Leaving
  <2> QED BY <2>1, <2>2
<1> QED BY <1>5, <1>6, <1>7, <1>8 DEF IInv

LEMMA CountIInv ==
  ASSUME IInv, NEW w \in Workers, Count(w)
  PROVE  IInv'
<1> USE DEF Count
<1>1. PICK l \in {"notify", "lock"} : Goto(w, l)
  OBVIOUS
<1>2. /\ pc' \in [Workers \cup Clients -> WorkerPc \cup ClientPc] /\ pc'[w] = l
      /\ \A u \in Workers \ {w} : pc'[u] = pc[u]
      /\ \A u \in Workers : pc'[u] \in WorkerPc
      /\ \A c \in Clients : pc'[c] = pc[c] /\ pc'[c] \in ClientPc
  BY <1>1, WorkerMoves DEF WorkerPc
<1>3. /\ UNCHANGED <<tasks, stop, task, hist>> /\ pc[w] = "count" /\ active' = active - 1
      /\ UNCHANGED <<submitted, started, done, missed>>
  BY DEF hist
<1> HIDE DEF Count
<1>4. Cardinality(Busy') = Cardinality(Busy) - 1 /\ Cardinality(Busy) # 0
  <2>1. Busy' = Busy \ {w} /\ w \in Busy
    BY <1>2, <1>3 DEF Busy
  <2> QED BY <2>1, WorkerFacts, FS_RemoveElement, FS_EmptySet
<1>5. Counted' /\ active' \in Nat
  BY <1>3, <1>4, WorkerFacts DEF IInv, Counted
<1>6. TypeOK'
  BY <1>2, <1>3, <1>5 DEF IInv, TypeOK
<1>7. Tracked'
  BY <1>2, <1>3 DEF IInv, Tracked
<1>8. Fifo' /\ Leaving'
  BY <1>2, <1>3 DEF IInv, Fifo, Leaving
<1> QED BY <1>5, <1>6, <1>7, <1>8 DEF IInv

LEMMA WaitIInv ==
  ASSUME IInv, NEW w \in Workers, WorkerExits(w) \/ WorkerParks(w)
  PROVE  IInv'
<1>1. pc[w] = "lock" /\ UNCHANGED <<tasks, stop, active, task, hist>>
  BY DEF WorkerExits, WorkerParks
<1>2. PICK l \in {"exited", "park"} : Goto(w, l) /\ (l = "exited" => stop /\ tasks = <<>>)
  BY DEF WorkerExits, WorkerParks
<1> QED BY <1>1, <1>2, WorkerFacts, QuietGoto DEF WorkerPc

LEMMA NotifyDoneIInv ==
  ASSUME IInv, NEW w \in Workers, NotifyDone(w)
  PROVE  IInv'
<1>1. /\ pc \in [Workers \cup Clients -> WorkerPc \cup ClientPc] /\ Workers \cap Clients = {}
      /\ \A u \in Workers : pc[u] \in WorkerPc
      /\ \A c \in Clients : pc[c] \in ClientPc
  BY PoolAssumption DEF IInv, TypeOK
<1>2. /\ pc' \in [Workers \cup Clients -> WorkerPc \cup ClientPc]
      /\ pc[w] = "notify" /\ pc'[w] = "lock"
      /\ \A u \in Workers \ {w} : pc'[u] = pc[u]
      /\ \A c \in Clients : pc'[c] = pc[c] \/ pc'[c] = "waitAll"
  BY <1>1 DEF NotifyDone, WorkerPc, ClientPc
<1>3. /\ UNCHANGED <<tasks, stop, active, task, submitted, started, done>>
      /\ missed' \in SUBSET (Workers \cup Clients) /\ stop' \in BOOLEAN
  BY DEF NotifyDone, IInv, TypeOK
<1>4. ASSUME NEW u \in Workers
      PROVE  /\ pc'[u] \in WorkerPc
             /\ pc[u] \in {"run", "count", "exited"} => pc'[u] = pc[u]
             /\ pc'[u] \in {"run", "count"} => pc'[u] = pc[u]
             /\ pc'[u] = "exited" => stop' /\ tasks = <<>>
  BY <1>1, <1>2, <1>3 DEF IInv, Leaving, WorkerPc
<1>5. ASSUME NEW c \in Clients
      PROVE  /\ pc'[c] \in ClientPc
             /\ pc'[c] = "down" => \A u \in Workers : pc[u] = "exited"
  BY <1>1, <1>2 DEF IInv, Leaving, ClientPc
<1> QED BY <1>2, <1>3, <1>4, <1>5, QuietStep

LEMMA NextIInv == IInv /\ [Next]_vars => IInv'
<1> SUFFICES ASSUME IInv, [Next]_vars PROVE IInv'
  OBVIOUS
<1>1. ASSUME NEW w \in Workers, Work(w) PROVE IInv'
  BY <1>1, TakeIInv, RunIInv, CountIInv, WaitIInv, NotifyDoneIInv DEF Work
<1>2. ASSUME NEW c \in Clients, Continue(c) \/ Call(c) PROVE IInv'
  BY <1>2, SubmitIInv, NotifyIInv, ClientIInv DEF Continue, Call
<1>3. ASSUME NEW t \in Workers \cup Clients, Sleep(t) \/ SpuriousWake(t) PROVE IInv'
  BY <1>3, SleepIInv
<1>4. CASE UNCHANGED vars
  BY <1>4 DEF vars, hist, IInv, TypeOK, Fifo, Counted, Busy, Tracked, Leaving
<1> QED BY <1>1, <1>2, <1>3, <1>4 DEF Next

LEMMA Invariance == Spec => []IInv
<1> QED BY InitIInv, NextIInv, PTL DEF Spec

(***************************************************************************)
(* The theorems.                                                           *)
(***************************************************************************)
(* Every member and history of the pool keeps its type.                    *)
THEOREM TypeCorrect == Spec => []TypeOK
<1>1. IInv => TypeOK
  BY DEF IInv
<1> QED BY <1>1, Invariance, PTL

(* With an empty queue and no worker at a task every task is done.         *)
LEMMA AllAreDone ==
  ASSUME IInv, tasks = <<>>, \A w \in Workers : pc[w] # "run"
  PROVE  done = 1..Len(submitted)
<1>1. Len(submitted) = Len(started)
  BY Lengths DEF IInv, Fifo
<1> QED BY <1>1 DEF IInv, Tracked

(* When shutdown() has joined the workers, every task is done: a worker    *)
(* leaves on an empty queue only, and nothing is submitted after stop_.    *)
THEOREM ShutdownIsComplete == Spec => []ShutdownDrains
<1>1. IInv => ShutdownDrains
  <2> SUFFICES ASSUME IInv, NEW c \in Clients, pc[c] = "down" PROVE done = 1..Len(submitted)
    BY DEF ShutdownDrains
  <2>1. \A w \in Workers : pc[w] = "exited"
    BY DEF IInv, Leaving
  <2>2. tasks = <<>>
    BY <2>1, PoolAssumption DEF IInv, Leaving
  <2> QED BY <2>1, <2>2, AllAreDone
<1> QED BY <1>1, Invariance, PTL

(* wait_all() returns only when every task submitted so far is done, since *)
(* active_tasks_ counts a task from its submit to its end.                 *)
THEOREM WaitAllIsComplete == Spec => WaitAllIsRight
<1>1. IInv /\ [Next]_vars =>
        [\A c \in Clients :
           (pc[c] = "waitAll" /\ pc'[c] = "idle") => done = 1..Len(submitted)]_vars
  <2> SUFFICES ASSUME IInv, Next, NEW c \in Clients, pc[c] = "waitAll", pc'[c] = "idle"
               PROVE  done = 1..Len(submitted)
    OBVIOUS
  <2>1. pc \in [Workers \cup Clients -> WorkerPc \cup ClientPc] /\ c \notin Workers
    BY PoolAssumption DEF IInv, TypeOK
  <2>2. WaitAllReturns(c)
    <3>1. ASSUME NEW w \in Workers, Work(w) PROVE FALSE
      BY <2>1, <3>1 DEF Work, Take, WorkerExits, WorkerParks, Run, Count, NotifyDone, Goto
    <3>2. ASSUME NEW d \in Clients, d # c, Continue(d) \/ Call(d) PROVE FALSE
      BY <2>1, <3>2 DEF Continue, Call, NotifyOne, WaitAllReturns, WaitAllParks, NotifyStop,
           Joined, Submit, CallWaitAll, SetStop, Goto
    <3>3. ASSUME NEW t \in Workers \cup Clients, Sleep(t) \/ SpuriousWake(t) PROVE FALSE
      BY <2>1, <3>3 DEF Sleep, SpuriousWake, Goto
    <3>4. ASSUME Continue(c) \/ Call(c) PROVE WaitAllReturns(c)
      BY <2>1, <3>4 DEF Continue, Call, NotifyOne, WaitAllParks, NotifyStop, Joined, Submit,
           CallWaitAll, SetStop, Goto
    <3> QED BY <3>1, <3>2, <3>3, <3>4 DEF Next
  <2>3. tasks = <<>> /\ active = 0
    BY <2>2 DEF WaitAllReturns, AllDone
  <2>4. Busy = {}
    <3>1. IsFiniteSet(Busy)
      BY PoolAssumption, FS_Subset DEF Busy
    <3>2. Cardinality(Busy) = 0
      BY <2>3, <3>1, Lengths, FS_CardinalityType DEF IInv, Counted
    <3> QED BY <3>1, <3>2, FS_EmptySet
  <2> QED BY <2>3, <2>4, AllAreDone DEF Busy
<1> QED BY <1>1, Invariance, PTL DEF Spec, WaitAllIsRight

(* Between submit and the workers the pool is the abstract FIFO channel.   *)
THEOREM PoolImplementsChannel == Spec => ImplementsChannel
<1> USE DEF Chan!ChanNext, Chan!Send, Chan!Recv, Chan!chanVars
<1>1. Init => Chan!ChanInit
  BY DEF Init, Chan!ChanInit
<1>2. IInv /\ [Next]_vars => [Chan!ChanNext]_(Chan!chanVars)
  <2> SUFFICES ASSUME IInv, [Next]_vars PROVE [Chan!ChanNext]_(Chan!chanVars)
    OBVIOUS
  <2>1. ASSUME NEW c \in Clients, Submit(c) PROVE Chan!ChanNext
    <3>1. Len(submitted) + 1 \in Task
      BY <2>1, Lengths, PoolAssumption DEF Submit, Task, IInv
    <3>2. Chan!Send(Len(submitted) + 1)
      BY <2>1 DEF Submit
    <3> QED BY <3>1, <3>2
  <2>2. ASSUME NEW w \in Workers, Take(w) PROVE Chan!ChanNext
    <3>1. Len(tasks) \in Nat \ {0} /\ Len(started) \in Nat /\ Len(submitted) \in Nat
      BY <2>2, Lengths DEF Take, IInv
    <3>2. Len(started) < Len(submitted) /\ Len(started) + 1 \in 1..Len(submitted)
      BY <3>1 DEF IInv, Fifo
    <3>3. Head(tasks) = tasks[1] /\ 1 \in 1..Len(tasks)
      BY <3>1 DEF IInv, TypeOK
    <3>4. Head(tasks) = submitted[Len(started) + 1]
      BY <3>1, <3>2, <3>3 DEF IInv, Fifo
    <3> QED BY <2>2, <3>2, <3>4 DEF Take
  <2>3. CASE UNCHANGED <<submitted, started>>
    BY <2>3
  <2>4. \/ \E c \in Clients : Submit(c)
        \/ \E w \in Workers : Take(w)
        \/ UNCHANGED <<submitted, started>>
    BY DEF Next, Work, Continue, Call, WorkerExits, WorkerParks, Run, Count, NotifyDone, NotifyOne,
         WaitAllReturns, WaitAllParks, NotifyStop, Joined, CallWaitAll, SetStop, Sleep,
         SpuriousWake, vars, hist
  <2> QED BY <2>1, <2>2, <2>3, <2>4
<1> QED BY <1>1, <1>2, Invariance, PTL DEF Spec, ImplementsChannel, Chan!ChanSpec
=============================================================================
