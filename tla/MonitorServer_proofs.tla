------------------------ MODULE MonitorServer_proofs ------------------------
(***************************************************************************)
(* What the AlertWs module does with a message it has taken: it stores and *)
(* pushes it for others to read (MonitorServer), and raises alerts for it, *)
(* which are delivered (AlertManager).                                     *)
(*                                                                         *)
(* LatestIsWholeAndCurrent and PushedIsReadable hold for any number of io  *)
(* threads, messages, requests and faults.  The first rests on             *)
(* routes_mutex_: a handler between two of its calls is the only one, so   *)
(* analyses are stored in the order in which their cracks were read and    *)
(* their time was taken.  The second rests on the order of the worker,     *)
(* which pushes after the last insert, and needs no lock.                  *)
(*                                                                         *)
(* Conserved, StoredIsQueuedUnlessUnanswered and NoSleepOnWork hold for    *)
(* any messages and any MaxAlerts.  The inductive invariant adds what      *)
(* process_alerts knows while it holds the mutex: between a failed         *)
(* predicate and the sleep the queue stays empty, because enqueue_alert    *)
(* cannot get the mutex.                                                   *)
(***************************************************************************)
EXTENDS MonitorServer, AlertManager, SequenceTheorems, TLAPS

(* The worker has a message, and in the loop a crack of it.                *)
WorkerReady ==
  /\ worker.at # "poll" => worker.msg \in Message
  /\ worker.at = "log" => worker.next = 1
  /\ worker.at = "crack" => worker.next <= worker.msg.cracks

(* A handler between two of its calls holds the lock.                      *)
Busy == {"cracks", "created", "insert", "grid", "latest", "points"}
Locked == \A t \in Thread : http[t].at \in Busy => routes_mutex_ = t

(* What one answer knows of the rows of another: a row of it, or Limit     *)
(* rows that are no older.                                                 *)
Knows(seen, rows) == \A r \in rows : Covers(seen, r)

(* An analysis knows cracks of its porcelain, and was made before now.     *)
Known(A, table, now) ==
  \A i \in 1..Len(A) :
    A[i].second <= now /\ A[i].seen \subseteq {r \in table : r.code[1] = A[i].porcelain}

(* Analyses are stored in the order of their times and of their knowledge. *)
NoNewer(A, F, i, j) ==
  /\ A[i].second <= A[j].second
  /\ A[i].porcelain = A[j].porcelain /\ A[j].by \notin F => Knows(A[j].seen, A[i].seen)
Ordered(A, F) == \A i, j \in 1..Len(A) : i < j => NoNewer(A, F, i, j)

(* Points belong to the analysis of the request that stored them, and are  *)
(* missing only while that request is about to store them or after a fault.*)
OwnGrids(G, A) == \A g \in G : g[1] \in 1..Len(A) /\ A[g[1]].by = g[2]
Whole ==
  \A i \in 1..Len(analyses) :
    \/ <<i, analyses[i].by>> \in grids \/ analyses[i].by \in faulty.request
    \/ \E t \in Thread : http[t].at = "grid" /\ http[t].analysis = i

(* What a handler knows at each of its steps.                              *)
Earlier(A, job) == {i \in 1..Len(A) : i <= job.stored /\ A[i].porcelain = job.porcelain}
Current(A, F, job) ==
  /\ job.analysis \in 1..Len(A)
  /\ A[job.analysis].by \notin F =>
       \A i \in Earlier(A, job) : \/ Knows(A[job.analysis].seen, A[i].seen)
                                  \/ A[i].second = A[job.analysis].second
JobOK(A, F, now, job) ==
  /\ job.at # "idle" => job.porcelain \in Porcelain /\ job.id \in 1..MaxRequests
  /\ job.stored <= Len(A)
  /\ job.at \in {"cracks", "created", "insert", "grid"} => job.route # "latest"
  /\ job.at \in {"cracks", "created", "insert", "latest"} => job.analysis = 0
  /\ job.at \in {"created", "insert"} /\ job.id \notin F =>
       \A i \in 1..Len(A) : A[i].porcelain = job.porcelain => Knows(job.seen, A[i].seen)
  /\ job.at = "insert" =>
       job.second <= now /\ \A i \in 1..Len(A) : A[i].second <= job.second
  /\ job.at = "grid" /\ job.analysis # 0 =>
       job.analysis \in 1..Len(A) /\ A[job.analysis].by = job.id
  /\ job.at = "points" => Current(A, F, job)
  /\ job.at = "answer" /\ job.route = "latest" /\ job.id \notin F =>
       IF job.analysis = 0 THEN Earlier(A, job) = {}
       ELSE Current(A, F, job) /\ (A[job.analysis].by \notin F => job.grid = {A[job.analysis].by})

(* The cracks a handler analyzes are cracks of its porcelain.              *)
Honest(table, job) ==
  job.at \in {"created", "insert"} => job.seen \subseteq {r \in table : r.code[1] = job.porcelain}

IInv ==
  /\ TypeOK /\ WorkerReady /\ Locked
  /\ Known(analyses, Rows(cracks), clock) /\ Ordered(analyses, faulty.request)
  /\ OwnGrids(grids, analyses) /\ Whole
  /\ \A t \in Thread : /\ JobOK(analyses, faulty.request, clock, http[t])
                        /\ Honest(Rows(cracks), http[t])

LEMMA InitIInv == Init => IInv
<1> SUFFICES ASSUME Init PROVE IInv
  OBVIOUS
<1> USE MonitorAssumption DEF Init
<1>1. Idle \in Http
  BY DEF Idle, Http, Route
<1>2. WorkerOK
  <2>1. worker \in WorkerState
    BY DEF WorkerState
  <2> QED BY <2>1, EmptySeq DEF WorkerOK
<1>3. TypeOK
  BY <1>1, <1>2, EmptySeq DEF TypeOK, HttpOK, TablesOK, FaultsOK
<1>4. \A t \in Thread : http[t] = Idle
  OBVIOUS
<1>5. analyses = <<>> /\ Len(analyses) = 0 /\ grids = {}
  OBVIOUS
<1>6. \A t \in Thread : /\ JobOK(analyses, faulty.request, clock, http[t])
                         /\ Honest(Rows(cracks), http[t])
  BY <1>4, <1>5 DEF JobOK, Honest, Idle
<1>7. WorkerReady /\ Locked
  BY <1>4 DEF WorkerReady, Locked, Busy, Idle
<1>8. Known(analyses, Rows(cracks), clock) /\ Ordered(analyses, faulty.request)
  BY <1>5 DEF Known, Ordered
<1>9. OwnGrids(grids, analyses) /\ Whole
  BY <1>5 DEF OwnGrids, Whole
<1> QED BY <1>3, <1>6, <1>7, <1>8, <1>9 DEF IInv

(* Calls only add to what failed.                                          *)
LEMMA FaultsGrow ==
  ASSUME FaultsOK, NEW for \in {"crack", "request"},
         NEW who \in (IF for = "crack" THEN CrackId ELSE 1..MaxRequests), Works \/ Fails(for, who)
  PROVE  /\ FaultsOK' /\ faulty.request \subseteq faulty'.request
         /\ for = "crack" => faulty'.request = faulty.request
BY MonitorAssumption DEF FaultsOK, Works, Fails, faultVars

(* What holds of a job holds when more is known to have failed and time    *)
(* has gone on; when it is not between two calls, also when analyses were  *)
(* stored meanwhile.                                                       *)
LEMMA JobSame ==
  ASSUME NEW A, NEW F, NEW E, F \subseteq E, NEW now \in Nat, NEW later \in Nat, now <= later,
         NEW job \in Http, JobOK(A, F, now, job)
  PROVE  JobOK(A, E, later, job)
BY DEF JobOK, Current, Http

LEMMA JobStable ==
  ASSUME NEW A \in Seq(Analysis), NEW B \in Seq(Analysis), Len(A) <= Len(B),
         \A i \in 1..Len(A) : B[i] = A[i],
         NEW F, NEW E, F \subseteq E, NEW now, NEW later,
         NEW job \in Http, job.at \in {"idle", "answer"}, JobOK(A, F, now, job)
  PROVE  JobOK(B, E, later, job)
<1>1. Len(A) \in Nat /\ Len(B) \in Nat
  BY LenProperties
<1>2. job.stored \in Nat /\ job.analysis \in Nat
  BY DEF Http
<1>3. Earlier(B, job) = Earlier(A, job)
  BY <1>1, <1>2 DEF Earlier, JobOK
<1>4. Current(A, F, job) => Current(B, E, job) /\ B[job.analysis] = A[job.analysis]
  BY SMTT(20), <1>1, <1>3 DEF Current, Earlier
<1> QED BY <1>1, <1>2, <1>3, <1>4 DEF JobOK

LEMMA AnalysisTyped ==
  ASSUME TablesOK, NEW i \in 1..Len(analyses)
  PROVE  /\ analyses[i] \in Analysis /\ analyses[i].second \in Nat
         /\ analyses[i].by \in 1..MaxRequests
<1>1. analyses[i] \in Analysis
  BY ElementOfSeq DEF TablesOK
<1> QED BY <1>1 DEF Analysis

(* A step that leaves the analyses and the jobs alone.                     *)
LEMMA QuietStep ==
  ASSUME IInv, TypeOK', WorkerReady', UNCHANGED <<httpVars, analyses, grids>>,
         faulty'.request = faulty.request, clock <= clock', Rows(cracks) \subseteq Rows(cracks')
  PROVE  IInv'
<1>1. clock \in Nat /\ clock' \in Nat /\ http \in [Thread -> Http]
  BY DEF IInv, TypeOK, WorkerOK, HttpOK
<1>2. Locked' /\ Ordered(analyses, faulty.request)' /\ OwnGrids(grids, analyses)' /\ Whole'
  BY DEF IInv, Locked, Ordered, NoNewer, OwnGrids, Whole, httpVars
<1>3. Known(analyses, Rows(cracks), clock)'
  <2> SUFFICES ASSUME NEW i \in 1..Len(analyses)
               PROVE  /\ analyses[i].second <= clock'
                      /\ analyses[i].seen \subseteq
                           {r \in Rows(cracks') : r.code[1] = analyses[i].porcelain}
    BY DEF Known, Rows
  <2>1. analyses[i].second <= clock /\ analyses[i].second \in Nat
    BY AnalysisTyped DEF IInv, Known, TypeOK
  <2> QED BY <1>1, <2>1 DEF IInv, Known
<1>4. \A t \in Thread : JobOK(analyses, faulty.request, clock, http[t])'
  <2> SUFFICES ASSUME NEW t \in Thread
               PROVE  JobOK(analyses, faulty.request, clock', http[t])
    BY DEF httpVars
  <2> QED BY <1>1, JobSame DEF IInv
<1>5. \A t \in Thread : Honest(Rows(cracks), http[t])'
  BY DEF IInv, Honest, httpVars
<1> QED BY <1>2, <1>3, <1>4, <1>5 DEF IInv

(***************************************************************************)
(* The clock and the worker.                                               *)
(***************************************************************************)
LEMMA TickIInv == IInv /\ Tick => IInv'
<1> SUFFICES ASSUME IInv, Tick PROVE IInv'
  OBVIOUS
<1> USE DEF Tick, workerVars, httpVars, tables, faultVars
<1>1. TypeOK'
  BY SMTT(20), MonitorAssumption DEF IInv, TypeOK, WorkerOK, HttpOK, TablesOK, FaultsOK
<1>2. WorkerReady'
  BY DEF IInv, WorkerReady
<1>3. Rows(cracks') = Rows(cracks) /\ clock <= clock'
  BY MonitorAssumption DEF IInv, TypeOK, WorkerOK, Rows
<1> QED BY <1>1, <1>2, <1>3, QuietStep

LEMMA TakeIInv ==
  ASSUME IInv, NEW msg \in Message, Take(msg)
  PROVE  IInv'
<1> USE DEF Take, httpVars, tables, faultVars
<1>1. worker' \in WorkerState /\ taken' \in 0..MaxMessages
  BY MonitorAssumption DEF WorkerState, IInv, TypeOK, WorkerOK
<1>2. TypeOK'
  BY <1>1 DEF IInv, TypeOK, WorkerOK, HttpOK, TablesOK, FaultsOK
<1>3. WorkerReady'
  BY DEF WorkerReady
<1>4. Rows(cracks') = Rows(cracks) /\ clock <= clock'
  BY MonitorAssumption DEF IInv, TypeOK, WorkerOK, Rows
<1> QED BY <1>2, <1>3, <1>4, QuietStep

LEMMA LogIInv == IInv /\ LogAndInsertData => IInv'
<1> SUFFICES ASSUME IInv, LogAndInsertData PROVE IInv'
  OBVIOUS
<1> USE DEF LogAndInsertData, WorkerAt, WorkerTo, httpVars, faultVars
<1>1. worker.msg \in Message /\ worker.next \in 1..(MaxCracks + 1)
  BY DEF IInv, WorkerReady, TypeOK, WorkerOK, WorkerState
<1>2. \E p \in {"crack", "push", "poll"} :
        /\ worker' = [worker EXCEPT !.at = p]
        /\ p = "crack" => worker.msg.cracks > 0
  OBVIOUS
<1>3. worker' \in WorkerState
  BY <1>2 DEF IInv, TypeOK, WorkerOK, WorkerState
<1>4. TypeOK'
  BY <1>3 DEF IInv, TypeOK, WorkerOK, HttpOK, TablesOK, FaultsOK
<1>5. Rows(cracks') = Rows(cracks) /\ clock <= clock'
  BY MonitorAssumption DEF IInv, TypeOK, WorkerOK, Rows
<1>6. WorkerReady'
  <2>1. worker.next = 1 /\ worker.msg.cracks \in Nat
    BY <1>1, MonitorAssumption DEF IInv, WorkerReady, Message
  <2> QED BY <1>1, <1>2, <1>3, <2>1 DEF WorkerReady, WorkerState, IInv, TypeOK, WorkerOK
<1> QED BY <1>4, <1>5, <1>6, QuietStep

LEMMA InsertCrackIInv == IInv /\ InsertCrack => IInv'
<1> SUFFICES ASSUME IInv, InsertCrack PROVE IInv'
  OBVIOUS
<1> USE DEF InsertCrack, WorkerAt, httpVars
<1> DEFINE next == worker.next
           table == Append(cracks, NewRow)
<1>1. /\ worker.msg \in Message /\ next \in 1..MaxCracks /\ next <= worker.msg.cracks
      /\ worker.at = "crack" /\ worker.msg.cracks \in 0..MaxCracks
  <2>1. worker.msg \in Message /\ worker.next <= worker.msg.cracks
    BY DEF IInv, WorkerReady
  <2> QED BY <2>1, MonitorAssumption DEF IInv, TypeOK, WorkerOK, WorkerState, Message
<1>2. Crack \in CrackId /\ NewRow \in Row
  BY <1>1 DEF Crack, CrackId, NewRow, Row, Message, IInv, TypeOK, WorkerOK
<1>3. table \in Seq(Row) /\ Rows(cracks) \subseteq Rows(table)
  <2>1. cracks \in Seq(Row) /\ Len(cracks) \in Nat
    BY LenProperties DEF IInv, TypeOK, WorkerOK
  <2>2. /\ table \in Seq(Row) /\ Len(table) = Len(cracks) + 1
        /\ \A i \in 1..Len(cracks) : table[i] = cracks[i]
    BY <1>2, <2>1, AppendProperties
  <2>3. DOMAIN cracks = 1..Len(cracks) /\ DOMAIN table = 1..Len(table)
    BY <2>1, <2>2, LenProperties
  <2> HIDE DEF table
  <2> QED BY <2>1, <2>2, <2>3 DEF Rows
<1>4. cracks' \in Seq(Row) /\ Rows(cracks) \subseteq Rows(cracks')
  <2>1. cracks' = cracks \/ cracks' = table
    OBVIOUS
  <2>2. cracks \in Seq(Row)
    BY DEF IInv, TypeOK, WorkerOK
  <2> HIDE DEF table
  <2> QED BY <1>3, <2>1, <2>2 DEF Rows
<1>5. FaultsOK' /\ faulty'.request = faulty.request
  <2>1. Works \/ Fails("crack", Crack)
    OBVIOUS
  <2> QED BY <1>2, <2>1, FaultsGrow DEF IInv, TypeOK
<1>6. worker' = [worker EXCEPT !.next = next + 1,
                               !.at = IF next < worker.msg.cracks THEN @ ELSE "push"]
  OBVIOUS
<1>7. worker' \in WorkerState /\ WorkerReady'
  <2>1. worker \in WorkerState
    BY DEF IInv, TypeOK, WorkerOK
  <2>2. /\ worker' \in WorkerState /\ worker'.msg = worker.msg /\ worker'.next = next + 1
        /\ worker'.at = IF next < worker.msg.cracks THEN "crack" ELSE "push"
    <3>1. next + 1 \in 1..(MaxCracks + 1)
      BY <1>1, MonitorAssumption
    <3>2. worker'.at \in {"crack", "push"} /\ worker'.at = IF next < worker.msg.cracks THEN "crack" ELSE "push"
      BY <1>1, <1>6, <2>1 DEF WorkerState
    <3>3. worker'.msg = worker.msg /\ worker'.next = next + 1
      BY <1>6, <2>1 DEF WorkerState
    <3>4. worker' = [at |-> worker'.at, msg |-> worker'.msg, next |-> worker'.next]
      BY <1>6, <2>1 DEF WorkerState
    <3> HIDE DEF next
    <3> QED BY <1>1, <3>1, <3>2, <3>3, <3>4 DEF WorkerState
  <2> QED BY <1>1, <2>2 DEF WorkerReady
<1>8. TypeOK'
  BY <1>2, <1>4, <1>5, <1>7 DEF IInv, TypeOK, WorkerOK, HttpOK, TablesOK
<1>9. clock <= clock'
  BY MonitorAssumption DEF IInv, TypeOK, WorkerOK
<1> QED BY <1>4, <1>5, <1>7, <1>8, <1>9, QuietStep

LEMMA PushIInv == IInv /\ CheckAndPush => IInv'
<1> SUFFICES ASSUME IInv, CheckAndPush PROVE IInv'
  OBVIOUS
<1> USE DEF CheckAndPush, WorkerAt, WorkerTo, httpVars, faultVars
<1>1. worker.msg \in Message
  BY DEF IInv, WorkerReady
<1>2. worker' \in WorkerState /\ WorkerReady'
  BY DEF IInv, TypeOK, WorkerOK, WorkerState, WorkerReady
<1>3. TypeOK'
  BY <1>1, <1>2 DEF IInv, TypeOK, WorkerOK, HttpOK, TablesOK, FaultsOK
<1>4. Rows(cracks') = Rows(cracks) /\ clock <= clock'
  BY MonitorAssumption DEF IInv, TypeOK, WorkerOK, Rows
<1> QED BY <1>2, <1>3, <1>4, QuietStep

(***************************************************************************)
(* The handlers.  All but Answer are steps of a thread beside which every  *)
(* other one is between two requests or about to answer.                   *)
(***************************************************************************)
QuietBeside(t) == \A u \in Thread \ {t} : http[u].at \in {"idle", "answer"}

LEMMA Alone ==
  ASSUME IInv, NEW t \in Thread, http[t].at \in Busy \/ routes_mutex_ = NULL
  PROVE  QuietBeside(t)
<1> SUFFICES ASSUME NEW u \in Thread \ {t} PROVE http[u].at \in {"idle", "answer"}
  BY DEF QuietBeside
<1>1. http[u] \in Http
  BY DEF IInv, TypeOK, HttpOK
<1>2. http[u].at \notin Busy
  BY MonitorAssumption DEF IInv, Locked
<1> QED BY <1>1, <1>2 DEF Http, Busy

LEMMA JobStep ==
  ASSUME IInv, NEW t \in Thread, QuietBeside(t), NEW job \in Http,
         http' = [http EXCEPT ![t] = job], UNCHANGED <<clock, workerVars, cracks>>,
         TablesOK', FaultsOK', faulty.request \subseteq faulty'.request,
         routes_mutex_' \in Thread \cup {NULL}, requests' \in 0..MaxRequests,
         job.at \in Busy => routes_mutex_' = t,
         Len(analyses) <= Len(analyses'), \A i \in 1..Len(analyses) : analyses'[i] = analyses[i],
         Known(analyses', Rows(cracks), clock), Ordered(analyses', faulty'.request),
         OwnGrids(grids', analyses'), Whole', JobOK(analyses', faulty'.request, clock, job),
         Honest(Rows(cracks), job)
  PROVE  IInv'
<1>1. http \in [Thread -> Http] /\ analyses \in Seq(Analysis) /\ analyses' \in Seq(Analysis)
  BY DEF IInv, TypeOK, HttpOK, TablesOK
<1>2. /\ http' \in [Thread -> Http] /\ http'[t] = job
      /\ \A u \in Thread \ {t} : http'[u] = http[u]
  BY <1>1
<1>3. TypeOK' /\ WorkerReady'
  BY <1>2 DEF IInv, TypeOK, WorkerOK, HttpOK, WorkerReady, workerVars
<1>4. Locked'
  BY <1>2 DEF Locked, Busy, QuietBeside
<1>5. ASSUME NEW u \in Thread PROVE JobOK(analyses', faulty'.request, clock', http'[u])
  <2>1. CASE u = t
    BY <2>1, <1>2
  <2>2. CASE u # t
    <3>1. http'[u] = http[u] /\ http[u] \in Http /\ http[u].at \in {"idle", "answer"}
      BY <2>2, <1>1, <1>2 DEF QuietBeside
    <3>2. JobOK(analyses, faulty.request, clock, http[u])
      BY DEF IInv
    <3> QED BY <1>1, <3>1, <3>2, JobStable
  <2> QED BY <2>1, <2>2
<1>6. Rows(cracks') = Rows(cracks) /\ clock' = clock
  BY DEF Rows
<1>7. \A u \in Thread : Honest(Rows(cracks), http'[u])
  BY <1>2 DEF IInv
<1> QED BY <1>3, <1>4, <1>5, <1>6, <1>7 DEF IInv

(* Steps that store nothing.                                               *)
LEMMA ReadStep ==
  ASSUME IInv, NEW t \in Thread, QuietBeside(t), http[t].at # "grid", NEW job \in Http,
         http' = [http EXCEPT ![t] = job], UNCHANGED <<clock, workerVars, tables>>,
         FaultsOK', faulty.request \subseteq faulty'.request,
         routes_mutex_' \in Thread \cup {NULL}, requests' \in 0..MaxRequests,
         job.at \in Busy => routes_mutex_' = t,
         JobOK(analyses, faulty'.request, clock, job), Honest(Rows(cracks), job)
  PROVE  IInv'
<1>1. analyses' = analyses /\ grids' = grids /\ cracks' = cracks
  BY DEF tables
<1>2. TablesOK' /\ Len(analyses) <= Len(analyses')
  <2>1. analyses \in Seq(Analysis) /\ Len(analyses) \in Nat
    BY LenProperties DEF IInv, TypeOK, TablesOK
  <2> QED BY <1>1, <2>1 DEF IInv, TypeOK, TablesOK
<1>3. Known(analyses', Rows(cracks), clock) /\ Ordered(analyses', faulty'.request)
  BY <1>1 DEF IInv, Ordered, NoNewer
<1>4. OwnGrids(grids', analyses')
  BY <1>1 DEF IInv
<1>5. Whole'
  <2> SUFFICES ASSUME NEW i \in 1..Len(analyses)
               PROVE  <<i, analyses[i].by>> \in grids \/ analyses[i].by \in faulty'.request
    BY <1>1 DEF Whole
  <2>1. ~ \E u \in Thread : http[u].at = "grid" /\ http[u].analysis = i
    BY DEF QuietBeside
  <2> QED BY <2>1 DEF IInv, Whole
<1>6. UNCHANGED <<clock, workerVars, cracks>> /\ \A i \in 1..Len(analyses) : analyses'[i] = analyses[i]
  BY <1>1
<1> QED BY <1>1, <1>2, <1>3, <1>4, <1>5, <1>6, JobStep

(* What every handler starts from.                                         *)
LEMMA HandlerFacts ==
  ASSUME IInv, NEW t \in Thread
  PROVE  /\ http[t] \in Http /\ http \in [Thread -> Http] /\ Honest(Rows(cracks), http[t])
         /\ JobOK(analyses, faulty.request, clock, http[t])
         /\ http[t].at \in Busy => http[t].id \in 1..MaxRequests /\ QuietBeside(t)
                                     /\ routes_mutex_ = t
         /\ FaultsOK /\ requests \in 0..MaxRequests /\ Len(analyses) \in Nat
         /\ clock \in 0..MaxSecond
BY Alone, LenProperties
   DEF IInv, TypeOK, WorkerOK, HttpOK, TablesOK, JobOK, Busy, Locked

LEMMA RequestIInv ==
  ASSUME IInv, NEW t \in Thread, NEW route \in Route, NEW p \in Porcelain \cup {HUGE},
         Request(t, route, p)
  PROVE  IInv'
<1> USE DEF Request, HttpAt, tables, faultVars
<1>1. /\ QuietBeside(t) /\ http[t] \in Http /\ routes_mutex_' \in Thread \cup {NULL}
      /\ requests' \in 1..MaxRequests /\ requests' \in 0..MaxRequests
  <2>1. QuietBeside(t)
    BY Alone
  <2>2. requests \in 0..MaxRequests /\ requests < MaxRequests /\ requests' = requests + 1
    BY HandlerFacts
  <2>3. MaxRequests \in Nat
    BY MonitorAssumption
  <2>4. routes_mutex_' \in Thread \cup {NULL}
    OBVIOUS
  <2> QED BY <2>1, <2>2, <2>3, <2>4, HandlerFacts
<1>2. FaultsOK' /\ faulty' = faulty
  BY HandlerFacts DEF FaultsOK
<1>3. CASE p = HUGE
  <2>1. http' = [http EXCEPT ![t] = http[t]]
    BY <1>3, HandlerFacts
  <2>2. http[t].at \notin Busy /\ http[t].at # "grid"
    BY DEF Busy
  <2>3. JobOK(analyses, faulty'.request, clock, http[t]) /\ Honest(Rows(cracks), http[t])
    BY <1>2, HandlerFacts
  <2> QED BY <1>1, <1>2, <2>1, <2>2, <2>3, ReadStep
<1>4. CASE p # HUGE
  <2> DEFINE job == Job(route, p)
  <2>1. /\ job \in Http /\ job.at = (IF route = "latest" THEN "latest" ELSE "cracks")
        /\ job.id = requests' /\ job.route = route /\ job.porcelain = p
        /\ job.stored = Len(analyses) /\ job.analysis = 0
    <3>1. broadcast \in SUBSET Message /\ Len(analyses) \in Nat /\ 0 \in 0..MaxSecond
      BY HandlerFacts, MonitorAssumption DEF IInv, TypeOK, WorkerOK
    <3>2. {0, requests + 1} \subseteq 0..MaxRequests
      BY <1>1, MonitorAssumption
    <3> QED BY <3>1, <3>2 DEF Http, Job
  <2>2. JobOK(analyses, faulty'.request, clock, job) /\ Honest(Rows(cracks), job)
    <3> HIDE DEF job
    <3> QED BY <1>1, <1>4, <2>1, HandlerFacts DEF JobOK, Honest
  <2>3. http' = [http EXCEPT ![t] = job] /\ routes_mutex_' = t
    BY <1>4
  <2> HIDE DEF job
  <2> QED BY <1>1, <1>2, <2>1, <2>2, <2>3, ReadStep
<1> QED BY <1>3, <1>4

LEMMA ReadCracksIInv ==
  ASSUME IInv, NEW t \in Thread, ReadCracks(t)
  PROVE  IInv'
<1> USE DEF ReadCracks, HttpAt, tables
<1> PICK found \in SUBSET Rows(cracks) :
      /\ \/ Works /\ Newest(found, {r \in Rows(cracks) : r.code[1] = http[t].porcelain})
         \/ Fails("request", http[t].id) /\ found = {}
      /\ IF http[t].route = "cracks" THEN Return(t, [http[t] EXCEPT !.seen = found])
         ELSE /\ http' = [http EXCEPT ![t].seen = found, ![t].at = "created"]
              /\ UNCHANGED routes_mutex_
  OBVIOUS
<1>1. http[t].at = "cracks" /\ http[t].at \in Busy
  BY DEF Busy
<1>2. FaultsOK' /\ faulty.request \subseteq faulty'.request
  BY <1>1, HandlerFacts, FaultsGrow
<1>3. found \in SUBSET Row
  BY ElementOfSeq DEF IInv, TypeOK, WorkerOK, Rows
<1>4. /\ found \subseteq {r \in Rows(cracks) : r.code[1] = http[t].porcelain}
      /\ http[t].id \notin faulty'.request =>
           Knows(found, {r \in Rows(cracks) : r.code[1] = http[t].porcelain})
  BY <1>1, HandlerFacts DEF Fails, FaultsOK, Newest, Knows
<1>5. CASE http[t].route = "cracks"
  <2> DEFINE job == [http[t] EXCEPT !.seen = found, !.at = "answer"]
  <2>1. http' = [http EXCEPT ![t] = job] /\ routes_mutex_' = NULL
    BY <1>1, <1>5, HandlerFacts DEF Return
  <2>2. job \in Http /\ job = [http[t] EXCEPT !.seen = found, !.at = "answer"]
    BY ZenonT(40), <1>3, HandlerFacts DEF Http
  <2>3. JobOK(analyses, faulty'.request, clock, job)
    BY <1>1, <1>5, HandlerFacts DEF JobOK, Http
  <2>4. job.at \notin Busy /\ Honest(Rows(cracks), job)
    BY HandlerFacts DEF Http, Busy, Honest
  <2> HIDE DEF job
  <2> QED BY <1>1, <1>2, <2>1, <2>2, <2>3, <2>4, HandlerFacts, ReadStep
<1>6. CASE http[t].route # "cracks"
  <2> DEFINE job == [http[t] EXCEPT !.seen = found, !.at = "created"]
  <2>1. http' = [http EXCEPT ![t] = job] /\ routes_mutex_' = t
    BY <1>1, <1>6, HandlerFacts
  <2>2. job \in Http
    BY ZenonT(40), <1>3, HandlerFacts DEF Http
  <2>3. JobOK(analyses, faulty'.request, clock, job)
    <3>1. /\ job.at = "created" /\ job.seen = found /\ job.route = http[t].route
          /\ job.id = http[t].id /\ job.porcelain = http[t].porcelain
          /\ job.stored = http[t].stored /\ job.analysis = http[t].analysis
      BY HandlerFacts DEF Http
    <3>2. ASSUME job.id \notin faulty'.request, NEW i \in 1..Len(analyses),
                 analyses[i].porcelain = job.porcelain
          PROVE  Knows(job.seen, analyses[i].seen)
      BY <1>4, <3>1, <3>2 DEF IInv, Known, Knows
    <3> HIDE DEF job
    <3> QED BY <1>1, <3>1, <3>2, HandlerFacts DEF JobOK
  <2>4. Honest(Rows(cracks), job)
    <3>1. job.seen = found /\ job.porcelain = http[t].porcelain
      BY HandlerFacts DEF Http
    <3> HIDE DEF job
    <3> QED BY <1>4, <3>1 DEF Honest
  <2> HIDE DEF job
  <2> QED BY <1>1, <1>2, <2>1, <2>2, <2>3, <2>4, HandlerFacts, ReadStep
<1> QED BY <1>5, <1>6

LEMMA AnalyzeIInv ==
  ASSUME IInv, NEW t \in Thread, Analyze(t)
  PROVE  IInv'
<1> USE DEF Analyze, HttpAt, tables, faultVars
<1> DEFINE job == [http[t] EXCEPT !.second = clock, !.at = "insert"]
<1>1. http[t].at = "created" /\ http[t].at \in Busy
  BY DEF Busy
<1>2. FaultsOK' /\ faulty' = faulty
  BY HandlerFacts DEF FaultsOK
<1>3. http' = [http EXCEPT ![t] = job] /\ routes_mutex_' = t
  BY <1>1, HandlerFacts
<1>4. job \in Http
  BY HandlerFacts DEF Http
<1>5. JobOK(analyses, faulty'.request, clock, job)
  <2>1. /\ job.at = "insert" /\ job.seen = http[t].seen /\ job.route = http[t].route
        /\ job.id = http[t].id /\ job.porcelain = http[t].porcelain
        /\ job.stored = http[t].stored /\ job.analysis = http[t].analysis /\ job.second = clock
    BY HandlerFacts DEF Http
  <2>2. clock <= clock /\ \A i \in 1..Len(analyses) : analyses[i].second <= clock
    BY HandlerFacts, MonitorAssumption DEF IInv, Known
  <2> HIDE DEF job
  <2> QED BY <1>1, <1>2, <2>1, <2>2, HandlerFacts DEF JobOK
<1>6. Honest(Rows(cracks), job)
  <2>1. job.seen = http[t].seen /\ job.porcelain = http[t].porcelain
    BY HandlerFacts DEF Http
  <2> HIDE DEF job
  <2> QED BY <1>1, <2>1, HandlerFacts DEF Honest
<1> HIDE DEF job
<1> QED BY ZenonT(40), <1>1, <1>2, <1>3, <1>4, <1>5, <1>6, HandlerFacts, ReadStep

LEMMA InsertAnalysisIInv ==
  ASSUME IInv, NEW t \in Thread, InsertAnalysis(t)
  PROVE  IInv'
<1> USE DEF InsertAnalysis, HttpAt
<1> DEFINE row == [porcelain |-> http[t].porcelain, second |-> http[t].second,
                   seen |-> http[t].seen, by |-> http[t].id]
           n == Len(analyses)
<1>1. http[t].at = "insert" /\ http[t].at \in Busy /\ http[t].at # "grid"
  BY DEF Busy
<1>2. FaultsOK' /\ faulty.request \subseteq faulty'.request
  BY <1>1, HandlerFacts, FaultsGrow
<1>3. routes_mutex_' = t /\ requests' \in 0..MaxRequests
  BY <1>1, HandlerFacts
<1>4. PICK id \in {0, n + 1} :
        /\ http' = [http EXCEPT ![t] = [http[t] EXCEPT !.analysis = id, !.at = "grid"]]
        /\ \/ id = n + 1 /\ analyses' = Append(analyses, row)
           \/ id = 0 /\ analyses' = Append(analyses, row) /\ http[t].id \in faulty'.request
           \/ id = 0 /\ analyses' = analyses
  <2>1. http[t] = [http[t] EXCEPT !.analysis = 0] /\ http \in [Thread -> Http]
    BY <1>1, HandlerFacts DEF JobOK, Http
  <2>2. Fails("request", http[t].id) => http[t].id \in faulty'.request
    BY HandlerFacts DEF Fails, FaultsOK
  <2>3. CASE analyses' = Append(analyses, row) /\ Works
             /\ http' = [http EXCEPT ![t].analysis = Len(analyses) + 1, ![t].at = "grid"]
    BY <2>1, <2>3 DEF Http
  <2>4. CASE /\ Fails("request", http[t].id) /\ analyses' \in {analyses, Append(analyses, row)}
             /\ http' = [http EXCEPT ![t].at = "grid"]
    BY <2>1, <2>2, <2>4 DEF Http
  <2> QED BY <2>3, <2>4
<1> DEFINE job == [http[t] EXCEPT !.analysis = id, !.at = "grid"]
<1>5. /\ job \in Http /\ job.at = "grid" /\ job.analysis = id /\ job.id = http[t].id
      /\ job.porcelain = http[t].porcelain /\ job.stored = http[t].stored
      /\ job.route = http[t].route /\ http' = [http EXCEPT ![t] = job] /\ http'[t] = job
  <2>1. id \in Nat /\ http[t] \in Http /\ http \in [Thread -> Http]
    BY HandlerFacts
  <2>2. job \in Http /\ http' = [http EXCEPT ![t] = job]
    BY <1>4, <2>1 DEF Http
  <2> QED BY <2>1, <2>2 DEF Http
<1>6. Honest(Rows(cracks), job)
  BY <1>5 DEF Honest
<1>7. CASE analyses' = analyses /\ id = 0
  <2>1. JobOK(analyses, faulty'.request, clock, job)
    <3> HIDE DEF job
    <3> QED BY <1>1, <1>5, <1>7, HandlerFacts DEF JobOK
  <2>2. UNCHANGED <<clock, workerVars, tables>>
    BY <1>7 DEF tables
  <2> HIDE DEF job
  <2> QED BY <1>1, <1>2, <1>3, <1>5, <1>6, <2>1, <2>2, HandlerFacts, ReadStep
<1>8. CASE analyses' = Append(analyses, row) /\ (id = n + 1 \/ (id = 0 /\ http[t].id \in faulty'.request))
  <2>1. row \in Analysis /\ analyses \in Seq(Analysis) /\ n \in Nat
    BY <1>1, HandlerFacts DEF Analysis, IInv, TypeOK, TablesOK, JobOK, Http
  <2>2. /\ analyses' \in Seq(Analysis) /\ Len(analyses') = n + 1 /\ analyses'[n + 1] = row
        /\ \A i \in 1..n : analyses'[i] = analyses[i]
    BY <1>8, <2>1, AppendProperties
  <2> DEFINE A == analyses' 
  <2>3. TablesOK'
    BY <2>2 DEF IInv, TypeOK, TablesOK
  <2>4. Known(A, Rows(cracks), clock)
    <3>1. row.second <= clock /\ row.seen \subseteq {r \in Rows(cracks) : r.code[1] = row.porcelain}
      BY <1>1, HandlerFacts DEF JobOK, Honest
    <3> HIDE DEF row
    <3> QED BY <2>1, <2>2, <3>1 DEF IInv, Known
  <2>5. Ordered(A, faulty'.request)
    <3>1. ASSUME NEW i \in 1..n
          PROVE  /\ analyses[i].second <= row.second
                 /\ analyses[i].porcelain = row.porcelain /\ row.by \notin faulty'.request =>
                      Knows(row.seen, analyses[i].seen)
      BY <1>1, <1>2, HandlerFacts DEF JobOK
    <3> SUFFICES ASSUME NEW i \in 1..(n + 1), NEW j \in 1..(n + 1), i < j
                 PROVE  NoNewer(A, faulty'.request, i, j)
      BY <2>2 DEF Ordered
    <3> HIDE DEF row
    <3>2. i \in 1..n
      BY <2>1
    <3>3. CASE j = n + 1
      BY <2>2, <3>1, <3>2, <3>3 DEF NoNewer
    <3>4. CASE j \in 1..n
      BY <1>2, <2>2, <3>2, <3>4 DEF NoNewer, IInv, Ordered
    <3> QED BY <2>1, <3>3, <3>4
  <2>6. OwnGrids(grids', A)
    BY <2>1, <2>2 DEF IInv, OwnGrids
  <2>7. Whole'
    <3> SUFFICES ASSUME NEW i \in 1..(n + 1)
                 PROVE  \/ <<i, A[i].by>> \in grids \/ A[i].by \in faulty'.request
                        \/ \E u \in Thread : http'[u].at = "grid" /\ http'[u].analysis = i
      BY <2>2 DEF Whole
    <3>1. CASE i \in 1..n
      <4>1. ~ \E u \in Thread : http[u].at = "grid" /\ http[u].analysis = i
        BY <1>1, HandlerFacts DEF QuietBeside
      <4> QED BY <1>2, <2>2, <3>1, <4>1 DEF IInv, Whole
    <3>2. CASE i = n + 1 /\ id = n + 1
      <4> HIDE DEF job
      <4>1. http'[t].at = "grid" /\ http'[t].analysis = i
        BY <1>5, <3>2
      <4> QED BY <4>1
    <3>3. CASE i = n + 1 /\ http[t].id \in faulty'.request
      BY <2>2, <3>3
    <3>4. \/ i \in 1..n
          \/ i = n + 1 /\ id = n + 1
          \/ i = n + 1 /\ http[t].id \in faulty'.request
      <4>1. i \in 1..n \/ i = n + 1
        BY <2>1
      <4>2. id = n + 1 \/ http[t].id \in faulty'.request
        BY <1>8
      <4> HIDE DEF job, row, A
      <4> QED BY <4>1, <4>2
    <3> HIDE DEF job, row
    <3> QED BY <3>1, <3>2, <3>3, <3>4
  <2>8. JobOK(A, faulty'.request, clock, job)
    <3>1. http[t].stored <= n /\ http[t].stored \in Nat
      BY HandlerFacts DEF JobOK, Http
    <3>2. row.by = http[t].id
      OBVIOUS
    <3> HIDE DEF job, row
    <3> QED BY <1>1, <1>5, <1>8, <2>1, <2>2, <3>1, <3>2, HandlerFacts DEF JobOK
  <2>9. UNCHANGED <<clock, workerVars, cracks>> /\ n <= Len(A)
    BY <2>1, <2>2
  <2> HIDE DEF job, row
  <2> QED BY <1>1, <1>2, <1>3, <1>5, <1>6, <2>2, <2>3, <2>4, <2>5, <2>6, <2>7, <2>8, <2>9,
             HandlerFacts, JobStep
<1> QED BY <1>4, <1>7, <1>8

LEMMA InsertGridIInv ==
  ASSUME IInv, NEW t \in Thread, InsertGrid(t)
  PROVE  IInv'
<1> USE DEF InsertGrid, HttpAt
<1> DEFINE new == <<http[t].analysis, http[t].id>>
           job == [http[t] EXCEPT !.at = "answer"]
<1>1. http[t].at = "grid" /\ http[t].at \in Busy
  BY DEF Busy
<1>2. FaultsOK' /\ faulty.request \subseteq faulty'.request
  BY <1>1, HandlerFacts, FaultsGrow
<1>3. /\ http' = [http EXCEPT ![t] = job] /\ routes_mutex_' = NULL
  BY <1>1, HandlerFacts DEF Return
<1>4. /\ job \in Http /\ job.at = "answer" /\ job.route = http[t].route
      /\ job.stored = http[t].stored /\ job.id = http[t].id /\ job.porcelain = http[t].porcelain
  BY HandlerFacts DEF Http
<1>5. JobOK(analyses, faulty'.request, clock, job) /\ Honest(Rows(cracks), job)
  <2> HIDE DEF job
  <2> QED BY <1>1, <1>4, HandlerFacts DEF JobOK, Honest
<1>6. analyses' = analyses /\ cracks' = cracks
  OBVIOUS
<1>7. /\ grids' \subseteq grids \cup {new}
      /\ http[t].analysis = 0 => grids' = grids
      /\ grids \subseteq grids'
      /\ new \notin grids' => http[t].analysis = 0 \/ http[t].id \in faulty'.request
  <2>1. Fails("request", http[t].id) => http[t].id \in faulty'.request
    BY HandlerFacts DEF Fails, FaultsOK
  <2> HIDE DEF job
  <2> QED BY <2>1
<1>8. http[t].analysis # 0 =>
        http[t].analysis \in 1..Len(analyses) /\ analyses[http[t].analysis].by = http[t].id
  BY <1>1, HandlerFacts DEF JobOK
<1>9. OwnGrids(grids', analyses')
  BY <1>6, <1>7, <1>8 DEF IInv, OwnGrids
<1>10. TablesOK'
  <2>1. http[t].analysis \in Nat /\ http[t].id \in 1..MaxRequests
    BY <1>1, HandlerFacts DEF Http
  <2> HIDE DEF InsertGrid
  <2> QED BY <1>6, <1>7, <2>1 DEF IInv, TypeOK, TablesOK
<1>11. Whole'
  <2> SUFFICES ASSUME NEW i \in 1..Len(analyses)
               PROVE  <<i, analyses[i].by>> \in grids' \/ analyses[i].by \in faulty'.request
    BY <1>6 DEF Whole
  <2>1. CASE http[t].analysis = i
    <3>1. http[t].analysis # 0
      BY <2>1, HandlerFacts
    <3> QED BY <1>7, <1>8, <2>1, <3>1
  <2>2. CASE http[t].analysis # i
    <3>1. ~ \E u \in Thread : http[u].at = "grid" /\ http[u].analysis = i
      BY <1>1, <2>2, HandlerFacts DEF QuietBeside
    <3> QED BY <1>2, <1>7, <3>1 DEF IInv, Whole
  <2> QED BY <2>1, <2>2
<1>12. Known(analyses', Rows(cracks), clock) /\ Ordered(analyses', faulty'.request)
  BY <1>2, <1>6 DEF IInv, Ordered, NoNewer
<1>13. Len(analyses) <= Len(analyses') /\ \A i \in 1..Len(analyses) : analyses'[i] = analyses[i]
  BY <1>6, HandlerFacts
<1>14. requests' \in 0..MaxRequests /\ UNCHANGED <<clock, workerVars, cracks>>
  BY HandlerFacts
<1>15. job.at \notin Busy
  BY <1>4 DEF Busy
<1> HIDE DEF job, InsertGrid
<1> QED BY <1>1, <1>2, <1>3, <1>4, <1>5, <1>6, <1>9, <1>10, <1>11, <1>12, <1>13, <1>14, <1>15,
           HandlerFacts, JobStep

(* A latest row knows as much as each row stored before it, and a row      *)
(* stored after it is of the same second.                                  *)
LEMMA LatestIsCurrent ==
  ASSUME IInv, NEW i \in 1..Len(analyses), NEW j \in 1..Len(analyses),
         analyses[i].porcelain = analyses[j].porcelain,
         analyses[j].second <= analyses[i].second, analyses[i].by \notin faulty.request
  PROVE  Knows(analyses[i].seen, analyses[j].seen) \/ analyses[j].second = analyses[i].second
<1>1. analyses[i].second \in Nat /\ analyses[j].second \in Nat /\ Len(analyses) \in Nat
  BY AnalysisTyped, HandlerFacts, LenProperties DEF IInv, TypeOK, TablesOK
<1>2. CASE j < i
  BY <1>2 DEF IInv, Ordered, NoNewer
<1>3. CASE i < j
  <2>1. analyses[i].second <= analyses[j].second
    BY <1>3 DEF IInv, Ordered, NoNewer
  <2> QED BY <1>1, <2>1
<1>4. CASE i = j
  BY <1>4 DEF Knows, Covers
<1> QED BY <1>1, <1>2, <1>3, <1>4

LEMMA ReadLatestIInv ==
  ASSUME IInv, NEW t \in Thread, ReadLatest(t)
  PROVE  IInv'
<1> USE DEF HttpAt, tables
<1> DEFINE of == {i \in 1..Len(analyses) : analyses[i].porcelain = http[t].porcelain}
<1>1. http[t].at = "latest" /\ http[t].at \in Busy /\ http[t].analysis = 0
  BY HandlerFacts DEF Busy, ReadLatest, JobOK
<1>2. DOMAIN analyses = 1..Len(analyses)
  BY LenProperties DEF IInv, TypeOK, TablesOK
<1>3. \/ \E i \in of : /\ \A j \in of : analyses[j].second <= analyses[i].second
                       /\ http' = [http EXCEPT ![t].analysis = i, ![t].at = "points"]
                       /\ Works /\ UNCHANGED routes_mutex_
      \/ (IF of = {} THEN Works ELSE Fails("request", http[t].id)) /\ Return(t, http[t])
  BY <1>2 DEF ReadLatest
<1>4. UNCHANGED <<clock, workerVars, requests, tables>>
  BY DEF ReadLatest
<1>5. FaultsOK' /\ faulty.request \subseteq faulty'.request
  <2>1. Works \/ Fails("request", http[t].id)
    BY <1>3
  <2> QED BY <1>1, <2>1, HandlerFacts, FaultsGrow
<1> HIDE DEF of
<1>6. ASSUME NEW i \in of, \A j \in of : analyses[j].second <= analyses[i].second,
             http' = [http EXCEPT ![t].analysis = i, ![t].at = "points"],
             Works, UNCHANGED routes_mutex_
      PROVE  IInv'
  <2> DEFINE job == [http[t] EXCEPT !.analysis = i, !.at = "points"]
  <2>1. i \in 1..Len(analyses) /\ i \in Nat /\ analyses[i].porcelain = http[t].porcelain
    BY DEF of
  <2>2. http' = [http EXCEPT ![t] = job] /\ routes_mutex_' = t
    BY <1>1, <1>6, HandlerFacts
  <2>3. /\ job \in Http /\ job.at = "points" /\ job.route = http[t].route /\ job.id = http[t].id
        /\ job.porcelain = http[t].porcelain /\ job.stored = http[t].stored /\ job.analysis = i
    BY <2>1, HandlerFacts DEF Http
  <2>4. faulty' = faulty
    BY <1>6 DEF Works, faultVars
  <2> HIDE DEF job
  <2>5. Current(analyses, faulty'.request, job)
    <3> SUFFICES ASSUME analyses[i].by \notin faulty.request, NEW j \in Earlier(analyses, job)
                 PROVE  \/ Knows(analyses[i].seen, analyses[j].seen)
                        \/ analyses[j].second = analyses[i].second
      BY <2>1, <2>3, <2>4 DEF Current
    <3>1. j \in of /\ j \in 1..Len(analyses) /\ analyses[j].porcelain = analyses[i].porcelain
      BY <2>1, <2>3 DEF Earlier, of
    <3> QED BY <1>6, <2>1, <3>1, LatestIsCurrent
  <2>6. JobOK(analyses, faulty'.request, clock, job) /\ Honest(Rows(cracks), job)
    BY <1>1, <2>3, <2>5, HandlerFacts DEF JobOK, Honest
  <2> QED BY <1>1, <1>4, <1>5, <2>2, <2>3, <2>6, HandlerFacts, ReadStep
<1>7. ASSUME IF of = {} THEN Works ELSE Fails("request", http[t].id), Return(t, http[t])
      PROVE  IInv'
  <2> DEFINE job == [http[t] EXCEPT !.at = "answer"]
  <2>1. http' = [http EXCEPT ![t] = job] /\ routes_mutex_' = NULL
    BY <1>1, <1>7, HandlerFacts DEF Return
  <2>2. /\ job \in Http /\ job.at = "answer" /\ job.route = http[t].route /\ job.id = http[t].id
        /\ job.porcelain = http[t].porcelain /\ job.stored = http[t].stored /\ job.analysis = 0
    BY ZenonT(40), <1>1, HandlerFacts DEF Http
  <2>3. Earlier(analyses, job) \subseteq of
    <3> HIDE DEF job
    <3> QED BY <2>2 DEF Earlier, of
  <2>4. of # {} => http[t].id \in faulty'.request
    BY <1>1, <1>7, HandlerFacts DEF Fails, FaultsOK
  <2> HIDE DEF job
  <2>5. JobOK(analyses, faulty'.request, clock, job) /\ Honest(Rows(cracks), job)
    BY <1>1, <2>2, <2>3, <2>4, HandlerFacts DEF JobOK, Honest
  <2>6. job.at \notin Busy
    BY <2>2 DEF Busy
  <2> QED BY <1>1, <1>4, <1>5, <2>1, <2>2, <2>5, <2>6, HandlerFacts, ReadStep
<1> QED BY <1>3, <1>6, <1>7

LEMMA ReadGridIInv ==
  ASSUME IInv, NEW t \in Thread, ReadGrid(t)
  PROVE  IInv'
<1> USE DEF HttpAt, tables
<1> DEFINE points == {by \in 1..MaxRequests : <<http[t].analysis, by>> \in grids}
<1>1. /\ http[t].at = "points" /\ http[t].at \in Busy
      /\ Current(analyses, faulty.request, http[t])
  BY HandlerFacts DEF Busy, ReadGrid, JobOK
<1>2. PICK grid \in SUBSET (1..MaxRequests) :
        /\ http' = [http EXCEPT ![t] = [http[t] EXCEPT !.grid = grid, !.at = "answer"]]
        /\ routes_mutex_' = NULL
        /\ \/ grid = points /\ Works
           \/ Fails("request", http[t].id)
  <2>1. http[t] = [http[t] EXCEPT !.grid = http[t].grid] /\ http[t].grid \in SUBSET (1..MaxRequests)
    BY HandlerFacts DEF Http
  <2>2. routes_mutex_ = t
    BY <1>1, HandlerFacts
  <2>3. CASE Return(t, [http[t] EXCEPT !.grid = points]) /\ Works
    BY <2>2, <2>3, HandlerFacts DEF Return, Http
  <2>4. CASE Return(t, http[t]) /\ Fails("request", http[t].id)
    BY <2>1, <2>2, <2>4, HandlerFacts DEF Return, Http
  <2> QED BY <2>3, <2>4 DEF ReadGrid
<1>3. UNCHANGED <<clock, workerVars, requests, tables>>
  BY DEF ReadGrid
<1>4. FaultsOK' /\ faulty.request \subseteq faulty'.request
  BY <1>1, <1>2, HandlerFacts, FaultsGrow
<1> DEFINE job == [http[t] EXCEPT !.grid = grid, !.at = "answer"]
<1>5. /\ job \in Http /\ job.at = "answer" /\ job.route = http[t].route /\ job.id = http[t].id
      /\ job.porcelain = http[t].porcelain /\ job.stored = http[t].stored
      /\ job.analysis = http[t].analysis /\ job.grid = grid
  BY HandlerFacts DEF Http
<1>6. job.id \notin faulty'.request =>
        /\ Current(analyses, faulty'.request, job)
        /\ analyses[job.analysis].by \notin faulty'.request =>
             job.grid = {analyses[job.analysis].by}
  <2> SUFFICES ASSUME http[t].id \notin faulty'.request
               PROVE  /\ Current(analyses, faulty'.request, job)
                      /\ analyses[http[t].analysis].by \notin faulty'.request =>
                           grid = {analyses[http[t].analysis].by}
    BY <1>5
  <2>1. faulty' = faulty /\ grid = points
    BY <1>1, <1>2, HandlerFacts DEF Fails, FaultsOK, Works, faultVars
  <2>2. http[t].analysis \in 1..Len(analyses)
    BY <1>1 DEF Current
  <2>3. Current(analyses, faulty'.request, job)
    <3> HIDE DEF job
    <3> QED BY <1>1, <1>5, <2>1 DEF Current, Earlier
  <2>4. analyses[http[t].analysis].by \in 1..MaxRequests
    BY <2>2, AnalysisTyped DEF IInv, TypeOK
  <2>5. \A by \in points : by = analyses[http[t].analysis].by
    BY DEF IInv, OwnGrids
  <2>6. ASSUME analyses[http[t].analysis].by \notin faulty.request
        PROVE  analyses[http[t].analysis].by \in points
    <3>1. ~ \E u \in Thread : http[u].at = "grid" /\ http[u].analysis = http[t].analysis
      BY <1>1, HandlerFacts DEF QuietBeside
    <3> QED BY <2>2, <2>4, <2>6, <3>1 DEF IInv, Whole
  <2> QED BY <2>1, <2>3, <2>5, <2>6
<1> HIDE DEF job
<1>7. JobOK(analyses, faulty'.request, clock, job) /\ Honest(Rows(cracks), job)
  <2>1. job.analysis # 0
    BY <1>1, <1>5, HandlerFacts DEF Current
  <2> QED BY <1>1, <1>5, <1>6, <2>1, HandlerFacts DEF JobOK, Honest
<1>8. job.at \notin Busy
  BY <1>5 DEF Busy
<1>9. http' = [http EXCEPT ![t] = job]
  BY <1>2 DEF job
<1> QED BY <1>1, <1>2, <1>3, <1>4, <1>5, <1>7, <1>8, <1>9, HandlerFacts, ReadStep

LEMMA AnswerIInv ==
  ASSUME IInv, NEW t \in Thread, Answer(t)
  PROVE  IInv'
<1> USE DEF Answer, HttpAt, tables, faultVars
<1>1. http[t].at = "answer" /\ http \in [Thread -> Http]
  BY HandlerFacts
<1>2. Idle \in Http /\ Idle.at = "idle"
  BY MonitorAssumption DEF Idle, Http, Route
<1>3. /\ http' \in [Thread -> Http] /\ http'[t] = Idle
      /\ \A u \in Thread \ {t} : http'[u] = http[u]
  BY <1>1, <1>2
<1>4. TypeOK' /\ WorkerReady'
  BY <1>3 DEF IInv, TypeOK, WorkerOK, HttpOK, TablesOK, FaultsOK, WorkerReady, workerVars
<1>5. Locked'
  BY <1>2, <1>3 DEF IInv, Locked, Busy
<1>6. Known(analyses, Rows(cracks), clock)' /\ Ordered(analyses, faulty.request)'
  BY DEF IInv, Known, Rows, Ordered, NoNewer
<1>7. OwnGrids(grids, analyses)' /\ Whole'
  <2>1. OwnGrids(grids, analyses)'
    BY DEF IInv, OwnGrids
  <2> SUFFICES ASSUME NEW i \in 1..Len(analyses), NEW u \in Thread,
                      http[u].at = "grid", http[u].analysis = i
               PROVE  http'[u].at = "grid" /\ http'[u].analysis = i
    BY <2>1 DEF IInv, Whole
  <2> QED BY <1>1, <1>3
<1>8. ASSUME NEW u \in Thread
      PROVE  JobOK(analyses, faulty.request, clock, http'[u]) /\ Honest(Rows(cracks), http'[u])
  <2>1. CASE u = t
    BY <1>2, <1>3, <2>1, HandlerFacts DEF JobOK, Honest, Idle
  <2>2. CASE u # t
    BY <1>3, <2>2, HandlerFacts
  <2> QED BY <2>1, <2>2
<1>9. \A u \in Thread : (JobOK(analyses, faulty.request, clock, http[u]) /\ Honest(Rows(cracks), http[u]))'
  BY <1>8 DEF workerVars, Rows
<1> QED BY <1>4, <1>5, <1>6, <1>7, <1>9 DEF IInv

LEMMA NextIInv == IInv /\ [Next]_vars => IInv'
<1> SUFFICES ASSUME IInv, [Next]_vars PROVE IInv'
  OBVIOUS
<1>1. CASE Tick
  BY <1>1, TickIInv
<1>2. CASE Worker
  BY <1>2, TakeIInv, LogIInv, InsertCrackIInv, PushIInv DEF Worker
<1>3. ASSUME NEW t \in Thread, Handler(t) PROVE IInv'
  BY <1>3, RequestIInv, ReadCracksIInv, AnalyzeIInv, InsertAnalysisIInv, InsertGridIInv,
     ReadLatestIInv, ReadGridIInv, AnswerIInv DEF Handler
<1>4. CASE UNCHANGED vars
  <2> USE DEF vars, workerVars, httpVars, tables, faultVars
  <2>1. TypeOK' /\ WorkerReady'
    BY <1>4 DEF IInv, TypeOK, WorkerOK, HttpOK, TablesOK, FaultsOK, WorkerReady
  <2>2. Rows(cracks') = Rows(cracks) /\ clock <= clock'
    BY <1>4, MonitorAssumption DEF IInv, TypeOK, WorkerOK, Rows
  <2> QED BY <1>4, <2>1, <2>2, QuietStep
<1> QED BY <1>1, <1>2, <1>3, <1>4 DEF Next

(***************************************************************************)
(* The theorems.                                                           *)
(***************************************************************************)
LEMMA Invariance == Spec => []IInv
<1>1. Init => IInv
  BY InitIInv
<1>2. IInv /\ [Next]_vars => IInv'
  BY NextIInv
<1> QED BY <1>1, <1>2, PTL DEF Spec

(* Every variable of the monitor server keeps its type.                    *)
THEOREM TypeCorrect == Spec => []TypeOK
<1>1. IInv => TypeOK
  BY DEF IInv
<1> QED BY <1>1, Invariance, PTL

(* get_latest_stress_analysis answers with an analysis, all of its points  *)
(* and the knowledge of every earlier analysis, or Limit cracks that are   *)
(* no older than what it lacks, because the handler that stores an         *)
(* analysis and its points keeps routes_mutex_ in between.                 *)
THEOREM LatestIsRight == Spec => []LatestIsWholeAndCurrent
<1>1. IInv => LatestIsWholeAndCurrent
  <2> SUFFICES ASSUME IInv, NEW t \in Thread, Answered(t, "latest")
               PROVE  LET job == http[t]
                          earlier == {analyses[i] : i \in {j \in 1..job.stored :
                                                 analyses[j].porcelain = job.porcelain}} IN
                      IF job.analysis = 0 THEN earlier = {}
                      ELSE LET row == analyses[job.analysis] IN
                           row.by \notin faulty.request =>
                             /\ job.grid = {row.by}
                             /\ \A x \in earlier :
                                  x.second = row.second \/ Knows(row.seen, x.seen)
    BY DEF LatestIsWholeAndCurrent, Knows
  <2>1. \A i \in 1..http[t].stored : analyses[i].porcelain = http[t].porcelain =>
          i \in Earlier(analyses, http[t])
    <3>1. http[t].stored <= Len(analyses) /\ http[t].stored \in Nat /\ Len(analyses) \in Nat
      BY HandlerFacts DEF JobOK, Http
    <3> QED BY <3>1 DEF Earlier
  <2>2. IF http[t].analysis = 0 THEN Earlier(analyses, http[t]) = {}
        ELSE /\ Current(analyses, faulty.request, http[t])
             /\ analyses[http[t].analysis].by \notin faulty.request =>
                  http[t].grid = {analyses[http[t].analysis].by}
    BY HandlerFacts DEF JobOK, Answered
  <2> QED BY <2>1, <2>2 DEF Current
<1> QED BY <1>1, Invariance, PTL
(***************************************************************************)
(* The cracks of what was pushed.  Failures, tries and rows only become    *)
(* more, so what an answer has found it keeps having found.                *)
(***************************************************************************)

(* Crack i of a message failed, or is among some rows under the code it    *)
(* was tried with.                                                         *)
Found(F, W, msg, i, rows) ==
  \/ <<msg.id, i>> \in F
  \/ \E w \in W, r \in rows :
       w.crack = <<msg.id, i>> /\ w.code = r.code /\ w.code[1] = msg.porcelain

(* A handler was asked after what it remembers as pushed, and an answer of *)
(* the route for cracks has those of all these messages, or is full.       *)
Shown(F, W, table, msg, i, seen) ==
  \/ <<msg.id, i>> \in F
  \/ \E w \in W, r \in table :
       w.crack = <<msg.id, i>> /\ w.code = r.code /\ Covers(seen, r)
JobReadable(F, E, W, B, table, job) ==
  /\ job.pushed \subseteq B
  /\ job.at \in {"created", "insert", "grid"} => job.route = "analyze"
  /\ job.at \in {"latest", "points"} => job.route = "latest"
  /\ job.at = "answer" /\ job.route = "cracks" /\ job.id \notin E =>
       \A msg \in job.pushed : msg.crack_detected /\ msg.porcelain = job.porcelain =>
         \A i \in 1..msg.cracks : Shown(F, W, table, msg, i, job.seen)

(* What was pushed, and what the worker is done with, is in the table.     *)
PushedFound ==
  \A msg \in broadcast : msg.crack_detected => \A i \in 1..msg.cracks :
    Found(faulty.crack, tried, msg, i, Rows(cracks))
WorkerFound ==
  worker.at \in {"crack", "push"} /\ worker.msg.crack_detected =>
    \A i \in 1..worker.msg.cracks : worker.at = "push" \/ i < worker.next =>
      Found(faulty.crack, tried, worker.msg, i, Rows(cracks))
Readable ==
  /\ PushedFound /\ WorkerFound
  /\ \A t \in Thread : JobReadable(faulty.crack, faulty.request, tried, broadcast, Rows(cracks), http[t])

(* What was found stays found.                                             *)
LEMMA FoundGrows ==
  ASSUME NEW F, NEW G, F \subseteq G, NEW W, NEW X, W \subseteq X, NEW rows, NEW more,
         rows \subseteq more, NEW msg, NEW i, Found(F, W, msg, i, rows)
  PROVE  Found(G, X, msg, i, more)
BY DEF Found

(* An answer keeps what it has found, and questions what they know.        *)
LEMMA JobReadableGrows ==
  ASSUME NEW F, NEW G, F \subseteq G, NEW W, NEW X, W \subseteq X, NEW E, NEW D, E \subseteq D,
         NEW B, NEW C, B \subseteq C, NEW rows, NEW more, rows \subseteq more,
         NEW job, JobReadable(F, E, W, B, rows, job)
  PROVE  JobReadable(G, D, X, C, more, job)
<1>1. \A msg, i : Shown(F, W, rows, msg, i, job.seen) => Shown(G, X, more, msg, i, job.seen)
  BY DEF Shown
<1> QED BY <1>1 DEF JobReadable

(* Nothing is taken back: no failure, no try, no push and no row.          *)
LEMMA Growing ==
  ASSUME IInv, [Next]_vars
  PROVE  /\ faulty.crack \subseteq faulty'.crack /\ faulty.request \subseteq faulty'.request
         /\ tried \subseteq tried' /\ broadcast \subseteq broadcast'
         /\ Rows(cracks) \subseteq Rows(cracks')
<1>1. \A for \in {"crack", "request"} : \A who : Works \/ Fails(for, who) =>
        faulty.crack \subseteq faulty'.crack /\ faulty.request \subseteq faulty'.request
  BY DEF IInv, TypeOK, FaultsOK, Works, Fails, faultVars
<1>2. cracks' = cracks => Rows(cracks) \subseteq Rows(cracks')
  BY DEF Rows
<1>3. CASE Tick
  BY <1>2, <1>3 DEF Tick, workerVars, tables, faultVars
<1>4. ASSUME NEW msg \in Message, Take(msg) PROVE UNCHANGED <<faulty, tried, broadcast, cracks>>
  BY <1>4 DEF Take, tables, faultVars
<1>5. CASE LogAndInsertData
  BY <1>2, <1>5 DEF LogAndInsertData, faultVars
<1>6. CASE InsertCrack
  <2>1. /\ Works \/ Fails("crack", Crack)
        /\ tried \subseteq tried' /\ broadcast' = broadcast
        /\ cracks' \in {cracks, Append(cracks, NewRow)}
    BY <1>6 DEF InsertCrack
  <2>2. Rows(cracks) \subseteq Rows(Append(cracks, NewRow))
    <3>1. cracks \in Seq(Row)
      BY DEF IInv, TypeOK, WorkerOK
    <3> QED BY <3>1 DEF Rows
  <2> QED BY <1>1, <1>2, <2>1, <2>2
<1>7. CASE CheckAndPush
  BY <1>2, <1>7 DEF CheckAndPush, faultVars
<1>8. ASSUME NEW t \in Thread, Handler(t)
      PROVE  /\ UNCHANGED <<tried, broadcast, cracks>>
             /\ Works \/ Fails("request", http[t].id)
  BY <1>8 DEF Handler, Request, ReadCracks, Analyze, InsertAnalysis, InsertGrid, ReadLatest,
              ReadGrid, Answer, HttpAt, Works, workerVars, tables
<1>9. CASE UNCHANGED vars
  BY <1>2, <1>9 DEF vars, workerVars, tables, faultVars
<1> QED BY <1>1, <1>2, <1>3, <1>4, <1>5, <1>6, <1>7, <1>8, <1>9 DEF Next, Worker

(* The crack that the worker inserts is found, unless the call failed.     *)
LEMMA InsertedFound ==
  ASSUME IInv, InsertCrack
  PROVE  Found(faulty'.crack, tried', worker.msg, worker.next, Rows(cracks'))
<1>1. cracks \in Seq(Row) /\ NewRow.crack = Crack /\ NewRow.code = <<worker.msg.porcelain, clock>>
  BY DEF IInv, TypeOK, WorkerOK, NewRow
<1>2. NewRow \in tried' /\ NewRow.code[1] = worker.msg.porcelain
  BY <1>1 DEF InsertCrack
<1>3. CASE Fails("crack", Crack)
  BY <1>3 DEF IInv, TypeOK, FaultsOK, Fails, Found, Crack
<1>4. CASE cracks' = Append(cracks, NewRow)
  <2>1. NewRow \in Rows(cracks')
    <3>1. Len(cracks) + 1 \in DOMAIN cracks' /\ cracks'[Len(cracks) + 1] = NewRow
      BY <1>1, <1>4 DEF IInv
    <3> QED BY <3>1 DEF Rows
  <2> QED BY <1>1, <1>2, <2>1 DEF Found, Crack
<1>5. CASE NewRow.code \in {r.code : r \in Rows(cracks)} /\ cracks' = cracks
  BY <1>1, <1>2, <1>5 DEF Found, Crack
<1> QED BY <1>3, <1>4, <1>5 DEF InsertCrack

(* Only the worker pushes, and when it does it is done with every crack.   *)
LEMMA PushedFoundStep ==
  ASSUME IInv, Readable, [Next]_vars
  PROVE  PushedFound'
<1> SUFFICES ASSUME NEW msg \in broadcast', msg.crack_detected, NEW i \in 1..msg.cracks
             PROVE  Found(faulty'.crack, tried', msg, i, Rows(cracks'))
  BY DEF PushedFound, Rows
<1>1. CASE msg \in broadcast
  BY <1>1, Growing, FoundGrows DEF Readable, PushedFound
<1>2. CASE msg \notin broadcast
  <2>1. CheckAndPush
    BY <1>2 DEF Next, Tick, Worker, Take, LogAndInsertData, WorkerAt, InsertCrack, Handler, Request,
                ReadCracks, Analyze, InsertAnalysis, InsertGrid, ReadLatest, ReadGrid, Answer,
                HttpAt, workerVars, vars
  <2>2. msg = worker.msg /\ worker.at = "push"
    BY <1>2, <2>1 DEF CheckAndPush, WorkerAt
  <2> QED BY <2>2, Growing, FoundGrows DEF Readable, WorkerFound
<1> QED BY <1>1, <1>2

(* The worker goes on from a crack when it is inserted, known or failed.   *)
LEMMA WorkerFoundStep ==
  ASSUME IInv, Readable, [Next]_vars
  PROVE  WorkerFound'
<1> DEFINE Goal == worker'.at \in {"crack", "push"} /\ worker'.msg.crack_detected =>
                     \A i \in 1..worker'.msg.cracks : worker'.at = "push" \/ i < worker'.next =>
                       Found(faulty'.crack, tried', worker'.msg, i, Rows(cracks'))
<1> SUFFICES Goal
  BY DEF WorkerFound, Rows
<1>1. ASSUME worker' = worker PROVE Goal
  BY <1>1, Growing, FoundGrows DEF Readable, WorkerFound
<1>2. ASSUME NEW msg \in Message, Take(msg) PROVE Goal
  BY <1>2, MonitorAssumption DEF Take, Message
<1>3. CASE LogAndInsertData
  <2>1. worker.at = "log" /\ worker.next = 1 /\ worker.msg.cracks \in Nat /\ worker \in WorkerState
    BY <1>3, MonitorAssumption
       DEF LogAndInsertData, WorkerAt, IInv, WorkerReady, TypeOK, WorkerOK, Message
  <2>2. \E p \in {"crack", "push", "poll"} :
          /\ worker' = [worker EXCEPT !.at = p]
          /\ p = "push" => ~ (worker.msg.crack_detected /\ worker.msg.cracks > 0)
    BY <1>3 DEF LogAndInsertData, WorkerTo
  <2> QED BY <2>1, <2>2 DEF WorkerState
<1>4. CASE InsertCrack
  <2>1. /\ worker.at = "crack" /\ worker.next \in Nat /\ worker.next <= worker.msg.cracks
        /\ worker \in WorkerState /\ worker.msg.cracks \in Nat
    BY <1>4, MonitorAssumption
       DEF InsertCrack, WorkerAt, IInv, WorkerReady, TypeOK, WorkerOK, Message, WorkerState
  <2>2. /\ worker'.msg = worker.msg /\ worker'.next = worker.next + 1
        /\ worker'.at = IF worker.next < worker.msg.cracks THEN "crack" ELSE "push"
    BY <1>4, <2>1 DEF InsertCrack, WorkerState
  <2>3. ASSUME worker.msg.crack_detected, NEW i \in 1..worker.msg.cracks, i <= worker.next
        PROVE  Found(faulty'.crack, tried', worker.msg, i, Rows(cracks'))
    <3>1. CASE i = worker.next
      BY <1>4, <3>1, InsertedFound
    <3>2. CASE i < worker.next
      BY <2>1, <2>3, <3>2, Growing, FoundGrows DEF Readable, WorkerFound
    <3> QED BY <2>1, <2>3, <3>1, <3>2
  <2> QED BY <2>1, <2>2, <2>3
<1>5. CASE CheckAndPush
  <2>1. worker \in WorkerState
    BY DEF IInv, TypeOK, WorkerOK
  <2>2. worker'.at = "poll"
    BY <1>5, <2>1 DEF CheckAndPush, WorkerTo, WorkerState
  <2> QED BY <2>2
<1>6. ASSUME NEW t \in Thread, Handler(t) PROVE worker' = worker
  BY <1>6 DEF Handler, Request, ReadCracks, Analyze, InsertAnalysis, InsertGrid, ReadLatest,
              ReadGrid, Answer, HttpAt, workerVars
<1>7. (Tick \/ UNCHANGED vars) => worker' = worker
  BY DEF Tick, vars, workerVars
<1> HIDE DEF Goal
<1> QED BY <1>1, <1>2, <1>3, <1>4, <1>5, <1>6, <1>7 DEF Next, Worker

(* What a handler has found, one action at a time; the other jobs only     *)
(* keep what they have.                                                    *)
LEMMA JobsReadableStep ==
  ASSUME IInv, Readable, [Next]_vars, NEW u \in Thread
  PROVE  JobReadable(faulty'.crack, faulty'.request, tried', broadcast', Rows(cracks'), http'[u])
<1>0. /\ http \in [Thread -> Http] /\ http[u] \in Http
      /\ JobReadable(faulty.crack, faulty.request, tried, broadcast, Rows(cracks), http[u])
  BY HandlerFacts DEF Readable
<1>1. ASSUME http'[u] = http[u]
      PROVE  JobReadable(faulty'.crack, faulty'.request, tried', broadcast', Rows(cracks'), http'[u])
  BY <1>0, <1>1, Growing, JobReadableGrows
<1> DEFINE Kept(job) == /\ job.pushed = http[u].pushed /\ job.route = http[u].route
                        /\ job.id = http[u].id /\ job.porcelain = http[u].porcelain
<1>2. ASSUME NEW job, http'[u] = job, Kept(job),
             \/ job.at \in {"created", "insert", "grid"} /\ job.route = "analyze"
             \/ job.at = "points" /\ job.route = "latest"
             \/ job.at = "answer" /\ job.route # "cracks"
             \/ job.at = "answer" /\ job.id \in faulty'.request
      PROVE  JobReadable(faulty'.crack, faulty'.request, tried', broadcast', Rows(cracks'), http'[u])
  <2>1. job.pushed \subseteq broadcast'
    BY <1>0, <1>2, Growing DEF JobReadable
  <2> QED BY <1>2, <2>1 DEF JobReadable
<1>3. ASSUME NEW route \in Route, NEW p \in Porcelain \cup {HUGE}, Request(u, route, p)
      PROVE  JobReadable(faulty'.crack, faulty'.request, tried', broadcast', Rows(cracks'), http'[u])
  <2>1. CASE p = HUGE
    BY <1>1, <1>3, <2>1 DEF Request
  <2>2. CASE p # HUGE
    <3>1. http'[u] = Job(route, p) /\ broadcast' = broadcast
      BY <1>0, <1>3, <2>2 DEF Request, HttpAt, workerVars
    <3> QED BY <3>1 DEF Job, JobReadable
  <2> QED BY <2>1, <2>2
<1>4. ASSUME ReadCracks(u)
      PROVE  JobReadable(faulty'.crack, faulty'.request, tried', broadcast', Rows(cracks'), http'[u])
  <2>1. PICK found \in SUBSET Rows(cracks) :
          /\ \/ Works /\ Newest(found, {r \in Rows(cracks) : r.code[1] = http[u].porcelain})
             \/ Fails("request", http[u].id) /\ found = {}
          /\ IF http[u].route = "cracks" THEN Return(u, [http[u] EXCEPT !.seen = found])
             ELSE http' = [http EXCEPT ![u].seen = found, ![u].at = "created"]
    BY <1>4 DEF ReadCracks
  <2>2. UNCHANGED <<tried, broadcast>> /\ http[u].at = "cracks"
    BY <1>4 DEF ReadCracks, HttpAt, workerVars
  <2>3. CASE http[u].route # "cracks"
    <3>1. http[u].route = "analyze"
      BY <2>2, <2>3, HandlerFacts DEF JobOK, Http, Route
    <3> DEFINE job == [http[u] EXCEPT !.seen = found, !.at = "created"]
    <3>2. http'[u] = job /\ job.at = "created" /\ Kept(job)
      BY <1>0, <2>1, <2>3 DEF Http
    <3> HIDE DEF job
    <3> QED BY <1>2, <3>1, <3>2
  <2>4. CASE http[u].route = "cracks"
    <3> DEFINE job == [http[u] EXCEPT !.seen = found, !.at = "answer"]
    <3>1. http'[u] = job /\ job.at = "answer" /\ Kept(job) /\ job.seen = found
      BY <1>0, <2>1, <2>4 DEF Return, Http
    <3> HIDE DEF job
    <3>2. CASE Fails("request", http[u].id)
      <4>1. http[u].id \in faulty'.request
        BY <3>2 DEF IInv, TypeOK, FaultsOK, Fails
      <4> QED BY <1>2, <3>1, <4>1
    <3>3. CASE Works /\ Newest(found, {r \in Rows(cracks) : r.code[1] = http[u].porcelain})
      <4>1. faulty' = faulty
        BY <3>3 DEF Works, faultVars
      <4>2. ASSUME NEW msg \in job.pushed, msg.crack_detected, msg.porcelain = job.porcelain,
                   NEW i \in 1..msg.cracks
            PROVE  Shown(faulty.crack, tried, Rows(cracks), msg, i, job.seen)
        <5>1. Found(faulty.crack, tried, msg, i, Rows(cracks))
          BY <1>0, <3>1, <4>2 DEF Readable, PushedFound, JobReadable
        <5>2. \A r \in Rows(cracks) : r.code[1] = http[u].porcelain => Covers(job.seen, r)
          BY <3>1, <3>3 DEF Newest
        <5> QED BY <3>1, <4>2, <5>1, <5>2 DEF Found, Shown
      <4>3. cracks' = cracks
        BY <1>4 DEF ReadCracks, tables
      <4> QED BY <1>0, <2>2, <3>1, <4>1, <4>2, <4>3 DEF JobReadable
    <3> QED BY <2>1, <3>2, <3>3
  <2> QED BY <2>3, <2>4
<1>5. CASE Analyze(u)
  <2> DEFINE job == [http[u] EXCEPT !.second = clock, !.at = "insert"]
  <2>1. http'[u] = job /\ job.at = "insert" /\ Kept(job) /\ http[u].route = "analyze"
    BY <1>0, <1>5 DEF Analyze, HttpAt, Http, JobReadable
  <2> HIDE DEF job
  <2> QED BY <1>2, <2>1
<1>6. CASE InsertAnalysis(u)
  <2>1. http[u].at = "insert" /\ http[u].route = "analyze"
    BY <1>0, <1>6 DEF InsertAnalysis, HttpAt, JobReadable
  <2>2. PICK n : http' = [http EXCEPT ![u].analysis = n, ![u].at = "grid"]
    <3>1. http[u] = [http[u] EXCEPT !.analysis = http[u].analysis]
      BY <1>0 DEF Http
    <3>2. \/ http' = [http EXCEPT ![u].analysis = Len(analyses) + 1, ![u].at = "grid"]
          \/ http' = [http EXCEPT ![u].at = "grid"]
      BY <1>6 DEF InsertAnalysis
    <3>3. [http EXCEPT ![u].at = "grid"] = [http EXCEPT ![u].analysis = http[u].analysis, ![u].at = "grid"]
      BY <1>0 DEF Http
    <3> QED BY <3>2, <3>3
  <2> DEFINE job == [http[u] EXCEPT !.analysis = n, !.at = "grid"]
  <2>3. http'[u] = job /\ job.at = "grid" /\ Kept(job)
    BY <1>0, <2>2 DEF Http
  <2> HIDE DEF job
  <2> QED BY <1>2, <2>1, <2>3
<1>7. CASE InsertGrid(u)
  <2> DEFINE job == [http[u] EXCEPT !.at = "answer"]
  <2>1. http'[u] = job /\ job.at = "answer" /\ Kept(job) /\ http[u].route = "analyze"
    BY <1>0, <1>7 DEF InsertGrid, Return, HttpAt, Http, JobReadable
  <2> HIDE DEF job
  <2> QED BY <1>2, <2>1
<1>8. CASE ReadLatest(u)
  <2>1. http[u].route = "latest"
    <3>1. http[u].at = "latest"
      BY <1>8 DEF ReadLatest, HttpAt
    <3> QED BY <1>0, <3>1 DEF JobReadable
  <2>2. \E n : \E at \in {"points", "answer"} : http'[u] = [http[u] EXCEPT !.analysis = n, !.at = at]
    <3>1. \/ Return(u, http[u])
          \/ \E i : http' = [http EXCEPT ![u].analysis = i, ![u].at = "points"]
      BY <1>8 DEF ReadLatest
    <3>2. CASE Return(u, http[u])
      <4>1. http'[u] = [http[u] EXCEPT !.analysis = http[u].analysis, !.at = "answer"]
        BY <1>0, <3>2 DEF Return, Http
      <4> WITNESS http[u].analysis
      <4> QED BY <4>1
    <3>3. ASSUME NEW i, http' = [http EXCEPT ![u].analysis = i, ![u].at = "points"]
          PROVE  \E n : \E at \in {"points", "answer"} :
                   http'[u] = [http[u] EXCEPT !.analysis = n, !.at = at]
      <4>1. http'[u] = [http[u] EXCEPT !.analysis = i, !.at = "points"]
        BY <1>0, <3>3
      <4> WITNESS i
      <4> QED BY <4>1
    <3> QED BY <3>1, <3>2, <3>3
  <2>3. PICK n, at : at \in {"points", "answer"} /\ http'[u] = [http[u] EXCEPT !.analysis = n, !.at = at]
    BY <2>2
  <2> DEFINE job == [http[u] EXCEPT !.analysis = n, !.at = at]
  <2>4. http'[u] = job /\ job.at = at /\ Kept(job)
    BY <1>0, <2>3 DEF Http
  <2> HIDE DEF job
  <2> QED BY <1>2, <2>1, <2>3, <2>4
<1>9. CASE ReadGrid(u)
  <2>1. http[u].route = "latest"
    BY <1>0, <1>9 DEF ReadGrid, HttpAt, JobReadable
  <2>2. PICK grid : http'[u] = [http[u] EXCEPT !.grid = grid, !.at = "answer"]
    <3>1. CASE Return(u, http[u])
      <4>1. http'[u] = [http[u] EXCEPT !.grid = http[u].grid, !.at = "answer"]
        BY <1>0, <3>1 DEF Return, Http
      <4> QED BY <4>1
    <3>2. ASSUME NEW grid, Return(u, [http[u] EXCEPT !.grid = grid])
          PROVE  http'[u] = [http[u] EXCEPT !.grid = grid, !.at = "answer"]
      BY <1>0, <3>2 DEF Return
    <3> QED BY <1>9, <3>1, <3>2 DEF ReadGrid
  <2> DEFINE job == [http[u] EXCEPT !.grid = grid, !.at = "answer"]
  <2>3. http'[u] = job /\ job.at = "answer" /\ Kept(job)
    BY <1>0, <2>2 DEF Http
  <2> HIDE DEF job
  <2> QED BY <1>2, <2>1, <2>3
<1>10. CASE Answer(u)
  <2>1. http'[u] = Idle
    BY <1>0, <1>10 DEF Answer
  <2> QED BY <2>1 DEF Idle, JobReadable
<1>11. ASSUME NEW t \in Thread \ {u}, Handler(t) PROVE http'[u] = http[u]
  BY <1>0, <1>11 DEF Handler, Request, ReadCracks, Analyze, InsertAnalysis, InsertGrid, ReadLatest,
                     ReadGrid, Answer, Return
<1>12. Tick \/ Worker \/ UNCHANGED vars => http' = http
  BY DEF Tick, Worker, Take, LogAndInsertData, InsertCrack, CheckAndPush, WorkerAt, vars, httpVars
<1> QED BY <1>1, <1>3, <1>4, <1>5, <1>6, <1>7, <1>8, <1>9, <1>10, <1>11, <1>12 DEF Next, Handler

(* What was pushed is found in every reachable state.                      *)
LEMMA ReadableInvariance == Spec => []Readable
<1>1. Init => Readable
  <2> SUFFICES ASSUME Init PROVE Readable
    OBVIOUS
  <2>1. PushedFound /\ WorkerFound
    BY DEF Init, PushedFound, WorkerFound
  <2>2. \A t \in Thread : JobReadable(faulty.crack, faulty.request, tried, broadcast, Rows(cracks), http[t])
    BY DEF Init, Idle, JobReadable
  <2> QED BY <2>1, <2>2 DEF Readable
<1>2. IInv /\ Readable /\ [Next]_vars => Readable'
  <2> SUFFICES ASSUME IInv, Readable, [Next]_vars PROVE Readable'
    OBVIOUS
  <2>1. \A u \in Thread :
          JobReadable(faulty'.crack, faulty'.request, tried', broadcast', Rows(cracks'), http'[u])
    BY JobsReadableStep
  <2> QED BY <2>1, PushedFoundStep, WorkerFoundStep DEF Readable
<1> QED BY <1>1, <1>2, Invariance, PTL DEF Spec

(* Whoever asks for the cracks of a porcelain after a push finds the       *)
(* cracks of the pushed message, those that took their codes, or Limit     *)
(* cracks that are no older, but for failures.                             *)
THEOREM PushedCracksAreReadable == Spec => []PushedIsReadable
<1>1. Readable => PushedIsReadable
  BY DEF Readable, JobReadable, Shown, PushedIsReadable, Answered
<1> QED BY <1>1, ReadableInvariance, PTL
-----------------------------------------------------------------------------
(* What AlertManager knows at each step of its threads.                    *)
AlertLocal ==
  /\ wpc = "park" => queue = <<>>
  /\ wpc = "deliver" => alert # NoAlert
  /\ cpc = "enqueue" <=> saved # NoAlert
  /\ cpc = "insert" => raised # <<>>
  /\ saved # NoAlert => saved = stored
  /\ spc = "new" => wpc = "off" /\ cpc = "off"

AlertInv == AlertTypeOK /\ Conserved /\ StoredIsQueuedUnlessUnanswered /\ NoSleepOnWork /\ AlertLocal

(* Moving an alert over the boundary between two parts of a concatenation. *)
LEMMA HeadOver ==
  ASSUME NEW S, NEW s \in Seq(S), NEW t \in Seq(S), t # <<>>
  PROVE  (s \o <<Head(t)>>) \o Tail(t) = s \o t
<1>1. t = <<Head(t)>> \o Tail(t) /\ Head(t) \in S /\ Tail(t) \in Seq(S)
  BY HeadTailProperties, SMT
<1> QED BY <1>1, ConcatAssociative

(* Only a sequence of one element has an empty tail.                       *)
LEMMA TailNonEmpty ==
  ASSUME NEW S, NEW s \in Seq(S), s # <<>>
  PROVE  Tail(s) \in Seq(S) /\ (Len(s) # 1 => Tail(s) # <<>>)
<1>1. Tail(s) \in Seq(S) /\ Len(Tail(s)) = Len(s) - 1
  BY HeadTailProperties
<1>2. Len(s) \in Nat
  BY LenProperties
<1>3. ASSUME Tail(s) = <<>> PROVE Len(s) = 1
  <2>1. Len(Tail(s)) = 0
    BY <1>3, EmptySeq, Zenon
  <2> QED BY <2>1, <1>1, <1>2
<1> QED BY <1>1, <1>3

(* Nothing is enqueued or stored before start().                           *)
LEMMA AlertInvInit == AlertInit => AlertInv
<1> SUFFICES ASSUME AlertInit PROVE AlertInv
  OBVIOUS
<1> USE AlertAssumption DEF AlertInit
<1>1. AlertTypeOK
  <2>1. raised \in Seq(AlertType) /\ queue \in Seq(Alert) /\ queued \in Seq(Alert)
        /\ handled \in Seq(Alert)
    BY EmptySeq
  <2>2. stored \in 0..MaxAlerts
    OBVIOUS
  <2> QED BY <2>1, <2>2, Zenon DEF AlertTypeOK
<1>4. AlertLocal /\ NoSleepOnWork
  BY DEF AlertLocal, NoSleepOnWork
<1>2. Conserved
  <2>1. <<>> \in Seq(Alert)
    OBVIOUS
  <2>2. handled \o <<>> = <<>> /\ <<>> \o queue = <<>>
    BY <2>1, ConcatEmptySeq
  <2> QED BY <2>2 DEF Conserved
<1>3. StoredIsQueuedUnlessUnanswered
  <2>1. Len(queued) = 0 /\ ToSet(queued) = {} /\ 1..0 = {}
    BY DEF ToSet
  <2> QED BY <2>1 DEF StoredIsQueuedUnlessUnanswered
<1> QED BY <1>1, <1>2, <1>3, <1>4 DEF AlertInv

(* The steps that leave the queue, the database and their histories alone. *)
Quiet ==
  \/ Start \/ CheckerExits \/ NotifyOne \/ CheckerSticks \/ (\E m \in Measurement : Check(m))
  \/ TestRunning \/ Acquire \/ TestPredicate \/ Park \/ SpuriousWake \/ Drained
  \/ StopPolling \/ Stop \/ UNCHANGED alertVars

LEMMA QuietFrame ==
  Quiet => UNCHANGED <<queue, stored, unanswered, queued, handled, saved, alert>>
BY DEF Quiet, Start, CheckerExits, NotifyOne, CheckerSticks, Check, TestRunning, Acquire,
       TestPredicate, Park, SpuriousWake, Drained, StopPolling, Stop, JoinChecker,
       ClearRunning, NotifyAll, JoinWorker, alertVars, checkVars, workVars, stopVars, tableVars

(* Every step keeps the types and the local facts of the threads.          *)
LEMMA LocalStep == AlertInv /\ [AlertNext]_alertVars => AlertTypeOK' /\ AlertLocal'
<1> SUFFICES ASSUME AlertInv, [AlertNext]_alertVars PROVE AlertTypeOK' /\ AlertLocal'
  OBVIOUS
<1> USE AlertAssumption DEF AlertInv, AlertTypeOK, AlertLocal, Alert, checkVars, workVars, stopVars, tableVars
<1>1. ASSUME NEW m \in Measurement, Check(m) PROVE AlertTypeOK' /\ AlertLocal'
  BY <1>1 DEF Check
<1>2. CASE Start
  BY <1>2 DEF Start
<1>3. CASE InsertAlert
  <2>1. raised # <<>>
    BY <1>3 DEF InsertAlert
  <2>2. Tail(raised) \in Seq(AlertType)
    BY <2>1, HeadTailProperties
  <2>3. stored + 1 \in Alert
    BY <1>3 DEF InsertAlert
  <2> QED BY <1>3, <2>2, <2>3 DEF InsertAlert
<1>4. CASE InsertFails
  <2>1. raised # <<>> /\ raised' = Tail(raised)
    BY <1>4 DEF InsertFails
  <2>2. raised' \in Seq(AlertType) /\ (Len(raised) # 1 => raised' # <<>>)
    BY <2>1, TailNonEmpty
  <2>3. stored' \in 0..MaxAlerts /\ unanswered' \in SUBSET (1..MaxAlerts)
    <3>1. CASE UNCHANGED tableVars
      BY <3>1
    <3>2. CASE stored < MaxAlerts /\ stored' = stored + 1 /\ unanswered' = unanswered \cup {stored + 1}
      BY <3>2
    <3> QED BY <1>4, <3>1, <3>2 DEF InsertFails
  <2>4. cpc = "insert" /\ cpc' = IF Len(raised) = 1 THEN "poll" ELSE "insert"
    BY <1>4 DEF InsertFails
  <2>5. UNCHANGED <<saved, workVars, stopVars, queue, queued, handled>>
    BY <1>4 DEF InsertFails
  <2>6. saved = NoAlert
    BY <2>4
  <2>7. AlertTypeOK'
    BY <2>2, <2>3, <2>4, <2>5
  <2>8. AlertLocal'
    BY <2>2, <2>4, <2>5, <2>6
  <2> QED BY <2>7, <2>8
<1>5. CASE enqueue_alert
  BY <1>5 DEF enqueue_alert, LockHeld
<1>6. CASE NotifyOne
  BY <1>6 DEF NotifyOne, Woken
<1>7. CASE CheckerExits
  BY <1>7 DEF CheckerExits
<1>14. CASE CheckerSticks
  <2>1. /\ cpc # "enqueue" /\ cpc' = "stuck"
        /\ UNCHANGED <<raised, saved, workVars, stopVars, queue, tableVars, queued, handled>>
    BY <1>14 DEF CheckerSticks
  <2>2. AlertTypeOK'
    BY <2>1
  <2>3. spc # "new"
    BY <1>14 DEF CheckerSticks
  <2>4. AlertLocal'
    BY <2>1, <2>3
  <2> QED BY <2>2, <2>4
<1>8. CASE TestRunning \/ Acquire \/ SpuriousWake \/ Drained
  BY <1>8 DEF TestRunning, Acquire, SpuriousWake, Drained
<1>15. CASE TestPredicate \/ Park
  BY <1>15 DEF TestPredicate, Park
<1>9. CASE TakeAlert
  BY <1>9 DEF TakeAlert
<1>10. CASE Deliver
  <2>1. Append(handled, alert) \in Seq(Alert)
    BY <1>10 DEF Deliver
  <2> QED BY <1>10, <2>1 DEF Deliver
<1>11. CASE StopPolling \/ JoinChecker \/ ClearRunning \/ JoinWorker
  BY ZenonT(40), <1>11 DEF StopPolling, JoinChecker, ClearRunning, JoinWorker
<1>12. CASE NotifyAll
  BY <1>12 DEF NotifyAll, Woken
<1>13. CASE UNCHANGED alertVars
  BY <1>13 DEF alertVars
<1> QED BY <1>1, <1>2, <1>3, <1>4, <1>5, <1>6, <1>7, <1>8, <1>9, <1>10, <1>11, <1>12, <1>13, <1>14, <1>15
        DEF AlertNext, Checker, ProcessAlerts, Stop

(* No step loses, duplicates or reorders an alert.                         *)
LEMMA ConservedStep == AlertInv /\ [AlertNext]_alertVars => Conserved'
<1> SUFFICES ASSUME AlertInv, [AlertNext]_alertVars PROVE Conserved'
  OBVIOUS
<1> DEFINE hand == IF wpc = "deliver" THEN <<alert>> ELSE <<>>
<1>0. /\ queue \in Seq(Alert) /\ handled \in Seq(Alert) /\ hand \in Seq(Alert)
      /\ handled \o hand \in Seq(Alert)
  BY DEF AlertInv, AlertTypeOK, AlertLocal
<1>1. queued = (handled \o hand) \o queue
  BY DEF AlertInv, Conserved
<1> DEFINE front == handled \o hand
<1>2. CASE enqueue_alert
  <2>1. saved \in Alert /\ queue' = Append(queue, saved) /\ queued' = Append(queued, saved)
    BY <1>2 DEF enqueue_alert, AlertInv, AlertTypeOK, AlertLocal
  <2>2. UNCHANGED <<handled, wpc, alert>>
    BY <1>2 DEF enqueue_alert, workVars
  <2>3. front \in Seq(Alert) /\ <<saved>> \in Seq(Alert)
    BY <1>0, <2>1
  <2> HIDE DEF front
  <2>4. (front \o queue) \o <<saved>> = front \o (queue \o <<saved>>)
    BY <1>0, <2>3, ConcatAssociative
  <2>5. Append(front \o queue, saved) = (front \o queue) \o <<saved>>
        /\ Append(queue, saved) = queue \o <<saved>>
    BY <1>0, <2>1, <2>3, ConcatProperties, AppendIsConcat
  <2> QED BY <1>1, <2>1, <2>2, <2>4, <2>5 DEF Conserved, front
<1>3. CASE TakeAlert
  <2>1. hand = <<>> /\ queue # <<>> /\ queued' = queued /\ handled' = handled
    BY <1>3 DEF TakeAlert
  <2>2. wpc' = "deliver" /\ alert' = Head(queue) /\ queue' = Tail(queue)
    BY <1>3 DEF TakeAlert
  <2>3. queued = handled \o queue
    BY <1>0, <1>1, <2>1, ConcatEmptySeq
  <2>4. (handled \o <<Head(queue)>>) \o Tail(queue) = handled \o queue
    BY <1>0, <2>1, HeadOver
  <2> QED BY <2>1, <2>2, <2>3, <2>4 DEF Conserved
<1>4. CASE Deliver
  <2>1. hand = <<alert>> /\ queued' = queued /\ queue' = queue /\ wpc' = "drain"
    BY <1>4 DEF Deliver
  <2>2. handled' = handled \o <<alert>>
    BY <1>0, <1>4, <2>1, AppendIsConcat DEF Deliver, AlertInv, AlertTypeOK, AlertLocal
  <2>3. handled' \o <<>> = handled'
    BY <1>0, <2>1, <2>2, ConcatEmptySeq
  <2> QED BY <1>1, <2>1, <2>2, <2>3 DEF Conserved
<1>5. CASE InsertAlert \/ InsertFails \/ Quiet
  <2>1. UNCHANGED <<queue, queued, handled, alert>>
    BY <1>5, QuietFrame DEF InsertAlert, InsertFails, workVars
  <2>2. wpc' = "deliver" <=> wpc = "deliver"
    <3>1. CASE NotifyOne \/ NotifyAll
      BY <3>1 DEF NotifyOne, NotifyAll, Woken
    <3>2. CASE TestRunning \/ Acquire \/ TestPredicate \/ Park \/ SpuriousWake \/ Drained
      BY <3>2 DEF TestRunning, Acquire, TestPredicate, Park, SpuriousWake, Drained
    <3>3. CASE Start
      BY <3>3 DEF Start, AlertInv, AlertLocal
    <3>4. CASE \/ CheckerExits \/ CheckerSticks \/ InsertAlert \/ InsertFails \/ (\E m \in Measurement : Check(m))
               \/ StopPolling \/ JoinChecker \/ ClearRunning \/ JoinWorker \/ UNCHANGED alertVars
      BY <3>4 DEF CheckerExits, CheckerSticks, InsertAlert, InsertFails, Check, StopPolling, JoinChecker,
           ClearRunning, JoinWorker, alertVars, workVars
    <3> QED BY <1>5, <3>1, <3>2, <3>3, <3>4 DEF Quiet, Stop
  <2> QED BY <2>1, <2>2 DEF Conserved, AlertInv
<1> QED BY <1>2, <1>3, <1>4, <1>5 DEF AlertNext, Checker, ProcessAlerts, Quiet

(* Appending to a sequence adds one element to its set.                    *)
LEMMA ToSetAppend ==
  ASSUME NEW S, NEW s \in Seq(S), NEW e \in S
  PROVE  ToSet(Append(s, e)) = ToSet(s) \cup {e}
<1>1. /\ DOMAIN s = 1..Len(s) /\ DOMAIN Append(s, e) = 1..(Len(s) + 1) /\ Len(s) \in Nat
      /\ Append(s, e)[Len(s) + 1] = e /\ \A i \in 1..Len(s) : Append(s, e)[i] = s[i]
  BY AppendProperties, LenProperties
<1>2. 1..(Len(s) + 1) = 1..Len(s) \cup {Len(s) + 1}
  BY <1>1
<1> HIDE DEF ToSet
<1> QED BY <1>1, <1>2 DEF ToSet

(* Ids enter the queue in the order in which the database gave them out,   *)
(* and those without an answer never enter it.                             *)
LEMMA StoredStep == AlertInv /\ [AlertNext]_alertVars => StoredIsQueuedUnlessUnanswered'
<1> SUFFICES ASSUME AlertInv, [AlertNext]_alertVars PROVE StoredIsQueuedUnlessUnanswered'
  OBVIOUS
<1>0. queued \in Seq(Alert) /\ Len(queued) \in Nat /\ stored \in Nat /\ NoAlert \notin Nat
  BY AlertAssumption, LenProperties DEF AlertInv, AlertTypeOK
<1> DEFINE known == ToSet(queued) \cup unanswered
<1>1. CASE enqueue_alert
  <2>1. saved \in Alert /\ saved = stored /\ saved # NoAlert
    BY <1>0, <1>1 DEF enqueue_alert, AlertInv, AlertTypeOK, AlertLocal, Alert
  <2>2. queued' = Append(queued, saved) /\ saved' = NoAlert /\ UNCHANGED <<stored, unanswered>>
    BY <1>1 DEF enqueue_alert, tableVars
  <2>3. /\ Len(queued') = Len(queued) + 1 /\ queued'[Len(queued) + 1] = saved
        /\ \A i \in 1..Len(queued) : queued'[i] = queued[i]
    BY <1>0, <2>1, <2>2, AppendProperties
  <2>4. ToSet(queued') = ToSet(queued) \cup {saved}
    BY <1>0, <2>1, <2>2, ToSetAppend
  <2>5. /\ saved \notin known /\ known \cup {saved} = 1..stored
        /\ ToSet(queued) \cap unanswered = {}
    BY <2>1 DEF AlertInv, StoredIsQueuedUnlessUnanswered
  <2>6. \A i \in 1..Len(queued) : queued[i] \in 1..stored /\ queued[i] # saved
    <3>1. \A i \in 1..Len(queued) : queued[i] \in ToSet(queued)
      BY <1>0, LenProperties DEF ToSet
    <3> QED BY <2>5, <3>1
  <2>7. \A i, j \in 1..Len(queued') : i < j => queued'[i] < queued'[j]
    <3> SUFFICES ASSUME NEW i \in 1..Len(queued'), NEW j \in 1..Len(queued'), i < j
                 PROVE  queued'[i] < queued'[j]
      OBVIOUS
    <3>1. i \in 1..Len(queued) /\ (j \in 1..Len(queued) \/ j = Len(queued) + 1)
      BY <1>0, <2>3
    <3>2. CASE j \in 1..Len(queued)
      BY <2>3, <3>1, <3>2 DEF AlertInv, StoredIsQueuedUnlessUnanswered
    <3>3. CASE j = Len(queued) + 1
      <4>1. queued'[i] \in 1..stored /\ queued'[i] # stored /\ queued'[j] = stored
        BY <2>1, <2>3, <2>6, <3>1, <3>3
      <4> QED BY <1>0, <4>1
    <3> QED BY <3>1, <3>2, <3>3
  <2>8. NoAlert \notin 1..stored
    BY <1>0
  <2> QED BY <2>2, <2>4, <2>5, <2>7, <2>8 DEF StoredIsQueuedUnlessUnanswered
<1>2. CASE InsertAlert \/ (InsertFails /\ stored' = stored + 1 /\ unanswered' = unanswered \cup {stored + 1})
  <2>1. saved = NoAlert /\ queued' = queued /\ stored' = stored + 1
    BY <1>2 DEF InsertAlert, InsertFails, AlertInv, AlertLocal
  <2>2. \/ saved' = stored + 1 /\ unanswered' = unanswered
        \/ saved' = NoAlert /\ unanswered' = unanswered \cup {stored + 1}
    BY <1>2, <2>1 DEF InsertAlert, InsertFails
  <2>3. known = 1..stored /\ ToSet(queued) \cap unanswered = {}
    BY <2>1 DEF AlertInv, StoredIsQueuedUnlessUnanswered
  <2>4. 1..(stored + 1) = 1..stored \cup {stored + 1} /\ stored + 1 \notin 1..stored
        /\ NoAlert \notin 1..(stored + 1)
    BY <1>0
  <2>5. stored + 1 # NoAlert
    BY <1>0
  <2>6. \A i, j \in 1..Len(queued) : i < j => queued[i] < queued[j]
    BY DEF AlertInv, StoredIsQueuedUnlessUnanswered
  <2> QED BY <2>1, <2>2, <2>3, <2>4, <2>5, <2>6 DEF StoredIsQueuedUnlessUnanswered
<1>3. CASE TakeAlert \/ Deliver \/ Quiet \/ (InsertFails /\ UNCHANGED tableVars)
  <2>1. UNCHANGED <<queued, stored, unanswered, saved>>
    BY <1>3, QuietFrame DEF TakeAlert, Deliver, InsertFails, checkVars, tableVars
  <2> QED BY <2>1 DEF AlertInv, StoredIsQueuedUnlessUnanswered
<1>4. InsertFails => \/ UNCHANGED tableVars
                     \/ stored' = stored + 1 /\ unanswered' = unanswered \cup {stored + 1}
  BY DEF InsertFails
<1> QED BY <1>1, <1>2, <1>3, <1>4 DEF AlertNext, Checker, ProcessAlerts, Quiet

(* The worker goes to sleep on an empty queue, and whoever fills the queue *)
(* afterwards has the notification still to give.                          *)
LEMMA NoSleepStep == AlertInv /\ [AlertNext]_alertVars => NoSleepOnWork'
<1> SUFFICES ASSUME AlertInv, [AlertNext]_alertVars PROVE NoSleepOnWork'
  OBVIOUS
<1> USE DEF AlertInv, NoSleepOnWork
<1>1. CASE Park
  BY <1>1 DEF Park, AlertLocal
<1>2. CASE enqueue_alert
  BY <1>2 DEF enqueue_alert
<1>3. CASE NotifyOne \/ NotifyAll
  BY <1>3 DEF NotifyOne, NotifyAll, Woken
<1>4. CASE Start \/ TestRunning \/ Acquire \/ TestPredicate \/ SpuriousWake \/ Drained
           \/ TakeAlert \/ Deliver
  BY <1>4 DEF Start, TestRunning, Acquire, TestPredicate, SpuriousWake, Drained, TakeAlert, Deliver
<1>5. CASE \/ CheckerExits \/ CheckerSticks \/ InsertAlert \/ InsertFails \/ (\E m \in Measurement : Check(m))
           \/ StopPolling \/ JoinChecker \/ ClearRunning \/ JoinWorker \/ UNCHANGED alertVars
  BY <1>5 DEF CheckerExits, CheckerSticks, InsertAlert, InsertFails, Check, StopPolling, JoinChecker,
       ClearRunning, JoinWorker, alertVars, workVars, checkVars
<1> QED BY <1>1, <1>2, <1>3, <1>4, <1>5 DEF AlertNext, Checker, ProcessAlerts, Stop

(* The inductive invariant holds in every reachable state.                 *)
LEMMA AlertInvariant == AlertSpec => []AlertInv
<1>1. AlertInv /\ [AlertNext]_alertVars => AlertInv'
  BY LocalStep, ConservedStep, StoredStep, NoSleepStep DEF AlertInv
<1> QED BY AlertInvInit, <1>1, PTL DEF AlertSpec
-----------------------------------------------------------------------------
(* No alert is lost, duplicated or reordered between enqueue_alert and the *)
(* delivery, whatever the interleaving of checker, worker and stop().      *)
THEOREM AlertsConserved == AlertSpec => []Conserved
<1>1. AlertInv => Conserved
  BY DEF AlertInv
<1> QED BY AlertInvariant, <1>1, PTL

(* The queue received every alert of the database once, in the order of    *)
(* the ids, but for those whose insert_alert had no answer: none of these  *)
(* is ever enqueued, and no alert that is not in the database is.          *)
THEOREM AlertsFollowDatabase == AlertSpec => []StoredIsQueuedUnlessUnanswered
<1>1. AlertInv => StoredIsQueuedUnlessUnanswered
  BY DEF AlertInv
<1> QED BY AlertInvariant, <1>1, PTL

(* process_alerts never sleeps through an enqueued alert.                  *)
THEOREM NeverSleepsOnWork == AlertSpec => []NoSleepOnWork
<1>1. AlertInv => NoSleepOnWork
  BY DEF AlertInv
<1> QED BY AlertInvariant, <1>1, PTL

(* enqueue_alert and process_alerts implement the abstract FIFO channel:   *)
(* a delivery is the Recv of the oldest alert not yet delivered.           *)
THEOREM AlertsImplementChannel == AlertSpec => ImplementsChannel
<1> USE DEF Chan!ChanNext, Chan!Send, Chan!Recv, Chan!chanVars
<1>1. AlertInit => Chan!ChanInit
  BY DEF AlertInit, Chan!ChanInit
<1>2. AlertInv /\ [AlertNext]_alertVars => [Chan!ChanNext]_(Chan!chanVars)
  <2> SUFFICES ASSUME AlertInv, [AlertNext]_alertVars PROVE [Chan!ChanNext]_(Chan!chanVars)
    OBVIOUS
  <2>1. CASE enqueue_alert
    <3>1. saved \in Alert
      BY <2>1 DEF enqueue_alert, AlertInv, AlertTypeOK, AlertLocal
    <3>2. Chan!Send(saved)
      BY <2>1 DEF enqueue_alert
    <3> QED BY <3>1, <3>2
  <2>2. CASE Deliver
    <3>1. queue \in Seq(Alert) /\ handled \in Seq(Alert) /\ alert \in Alert
      BY <2>2 DEF Deliver, AlertInv, AlertTypeOK, AlertLocal
    <3>2. queued = (handled \o <<alert>>) \o queue
      BY <2>2 DEF Deliver, AlertInv, Conserved
    <3>3. Len(handled) < Len(queued) /\ queued[Len(handled) + 1] = alert
      BY <3>1, <3>2
    <3> QED BY <2>2, <3>3 DEF Deliver
  <2>3. CASE TakeAlert \/ InsertAlert \/ InsertFails \/ Quiet
    BY <2>3, QuietFrame DEF TakeAlert, InsertAlert, InsertFails
  <2> QED BY <2>1, <2>2, <2>3 DEF AlertNext, Checker, ProcessAlerts, Quiet
<1> QED BY <1>1, <1>2, AlertInvariant, PTL DEF AlertSpec, ImplementsChannel, Chan!ChanSpec
=============================================================================
