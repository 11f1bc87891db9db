-------------------------- MODULE Database_proofs --------------------------
(***************************************************************************)
(* PoolIsSound, AllOrNothing, ResultIsTrue and GridIsSavedUnlessLeft for   *)
(* any number of callers, connections, calls, rows, refused statements and *)
(* broken links.                                                           *)
(* The invariant says where every connection is (Pool), what the server    *)
(* keeps of a transaction (Server), that calls differ (Ids), how far each  *)
(* call is at every place of its function (Good), and what the finished    *)
(* calls left behind (Finished); a second one, GridsOK, where a prepared   *)
(* statement may be left.                                                  *)
(***************************************************************************)
EXTENDS Database, FiniteSetTheorems, SequenceTheorems, TLAPS

Pool ==
  /\ \A t \in Thread : conn[t] = NULL <=> pc[t] \in {"idle", "acquire"}
  /\ \A t, u \in Thread : conn[t] = conn[u] /\ conn[t] # NULL => t = u
  /\ \A t \in Thread : conn[t] \notin leaked
  /\ \A i, j \in 1..Len(available_) : available_[i] = available_[j] => i = j
  /\ \A i \in 1..Len(available_) :
       /\ available_[i] \notin leaked /\ txn[available_[i]] = "none"
       /\ \A t \in Thread : conn[t] # available_[i]
  /\ \A c \in Conn : \/ c \in leaked \/ \E t \in Thread : conn[t] = c
                     \/ \E i \in 1..Len(available_) : available_[i] = c

Server ==
  \A c \in Conn : /\ ~up[c] => txn[c] = "none"
                  /\ txn[c] # "open" => buffer[c] = {}

Ids ==
  /\ \A t \in Thread : call[t] # NULL => call[t].id <= calls
  /\ \A t, u \in Thread : call[t] # NULL /\ call[u] # NULL /\ call[t].id = call[u].id => t = u
  /\ \A r \in returned : r.id <= calls
  /\ \A r \in returned, t \in Thread : call[t] # NULL /\ r.id = call[t].id => pc[t] = "idle"
  /\ \A i \in 1..MaxCalls, j \in 1..MaxRows : <<i, j>> \in table => i <= calls

(* The rows of call r in the table, and those of thread t's call in the    *)
(* transaction it has open.                                                *)
NoneStored(r) == \A j \in 1..r.n : <<r.id, j>> \notin table
AllStored(r) == \A j \in 1..r.n : <<r.id, j>> \in table
Atomic(r) == NoneStored(r) \/ AllStored(r)
Fresh(t) == \A j \in 1..MaxRows : <<call[t].id, j>> \notin table
Inserted(t, k) ==
  \A i \in 1..MaxCalls, j \in 1..MaxRows :
    <<i, j>> \in buffer[conn[t]] <=> i = call[t].id /\ j <= k

(* The loop over the rows, or the only statement.                          *)
AtStatement(t) ==
  KindOf(t) \notin Transactional => txn[conn[t]] = "none" /\ ~ok[t] /\ next[t] = 1
AtRow(t) ==
  KindOf(t) \in Transactional =>
    /\ next[t] <= call[t].n /\ (up[conn[t]] => txn[conn[t]] # "none")
    /\ txn[conn[t]] = "open" => Inserted(t, next[t] - 1) /\ (next[t] > 1 => ok[t])
    /\ KindOf(t) \notin Points => ok[t] /\ (up[conn[t]] => txn[conn[t]] = "open")
AtEnd(t) ==
  /\ KindOf(t) \in Transactional /\ Fresh(t) /\ (up[conn[t]] => txn[conn[t]] # "none")
  /\ txn[conn[t]] = "open" => Inserted(t, call[t].n)

Good(t) ==
  /\ pc[t] # "idle" => call[t] \in Call /\ call[t].n \in Sizes(KindOf(t))
  /\ pc[t] = "idle" /\ call[t] # NULL => Atomic(call[t])
  /\ pc[t] \in {"acquire", "begin"} =>
       /\ Fresh(t) /\ next[t] = 1 /\ (ok[t] <=> KindOf(t) \in Transactional \ Points)
  /\ pc[t] = "begin" => KindOf(t) \in Transactional /\ txn[conn[t]] = "none"
  /\ pc[t] = "prepare" =>
       /\ KindOf(t) \in Grids /\ Fresh(t) /\ ok[t] /\ next[t] = 1
       /\ (up[conn[t]] => txn[conn[t]] = "open") /\ buffer[conn[t]] = {}
  /\ pc[t] = "row" => Fresh(t) /\ AtStatement(t) /\ AtRow(t)
  /\ pc[t] = "deallocate" =>
       /\ AtEnd(t) /\ KindOf(t) \in Grids
       /\ (txn[conn[t]] = "open" => ok[t]) /\ (ok[t] /\ up[conn[t]] => txn[conn[t]] = "open")
  /\ pc[t] = "commit" =>
       /\ AtEnd(t) /\ (txn[conn[t]] = "open" /\ ~ok[t] => call[t].n = 0)
       /\ (KindOf(t) \notin Points => ok[t] /\ (up[conn[t]] => txn[conn[t]] = "open"))
  /\ pc[t] = "rollback" => ~ok[t] /\ KindOf(t) \in Transactional
  /\ pc[t] = "release" =>
       /\ txn[conn[t]] = "none"
       /\ ok[t] /\ KindOf(t) \notin Batches \cup Points => AllStored(call[t])
  /\ pc[t] \in {"rollback", "release"} =>
       Atomic(call[t]) /\ (~ok[t] /\ call[t].id \notin doubtful => NoneStored(call[t]))

Finished ==
  \A r \in returned :
    /\ Atomic(r)
    /\ r.result = "true" /\ r.kind \notin Batches \cup Points => AllStored(r)
    /\ r.result # "true" /\ r.id \notin doubtful => NoneStored(r)

IInv == TypeOK /\ Pool /\ Server /\ Ids /\ (\A t \in Thread : Good(t)) /\ Finished
-----------------------------------------------------------------------------
LEMMA KindFacts ==
  ASSUME NEW k \in Kind
  PROVE  /\ k \in Queries => Sizes(k) = {0} /\ k \notin Transactional
         /\ k \in Inserts => Sizes(k) = {1} /\ k \notin Transactional /\ k \notin Queries
         /\ k \in Points => Sizes(k) = 0..MaxRows /\ k \notin Grids
         /\ k \in Transactional /\ k \notin Points => Sizes(k) = 1..MaxRows
         /\ k \in Transactional => k \notin Queries /\ k \notin Inserts
         /\ k \in Transactional <=> k \in Batches \cup Points \cup Detections \cup Grids
         /\ k \in Queries \cup Inserts \cup Transactional
         /\ k \in Batches => k \notin Detections /\ k \notin Grids /\ k \notin Points
         /\ StopsAtError(k) <=> k \notin Points
         /\ ChecksCommit(k) <=> k \in Detections \cup Grids \cup Points
<1> DEFINE Singles == SensorInserts \cup CrackInserts \cup AlertInserts \cup ResultInserts
                        \cup PacketInserts \cup StressInserts \cup PenetrationInserts
                        \cup BendingInserts \cup RepairInserts
<1>1. k \in Queries => k \notin Inserts /\ k \notin Transactional
  BY DEF Queries, Inserts, Transactional, Batches, Points, Detections, Grids, SensorInserts,
         CrackInserts, AlertInserts, ResultInserts, PacketInserts, StressInserts,
         PenetrationInserts, BendingInserts, RepairInserts, PorcelainQueries, CrackQueries,
         AlertQueries, MaterialQueries, StatusUpdates, StressQueries, PenetrationQueries,
         BendingQueries
<1>2. k \in Inserts => k \notin Transactional
  BY DEF Inserts, Transactional, Batches, Points, Detections, Grids, SensorInserts,
         CrackInserts, AlertInserts, ResultInserts, PacketInserts, StressInserts,
         PenetrationInserts, BendingInserts, RepairInserts
<1>3. /\ k \in Points => k \notin Grids
      /\ k \in Batches => k \notin Detections /\ k \notin Grids /\ k \notin Points
  BY DEF Batches, Points, Detections, Grids
<1>4. /\ k \in Transactional <=> k \in Batches \cup Points \cup Detections \cup Grids
      /\ k \in Queries \cup Inserts \cup Transactional
  BY DatabaseAssumption DEF AllKinds, Transactional
<1> QED BY <1>1, <1>2, <1>3, <1>4 DEF Sizes, StopsAtError, ChecksCommit

(***************************************************************************)
(* A statement of thread t leaves the other calls, their connections and   *)
(* their rows alone.                                                       *)
(***************************************************************************)
Others(t) ==
  /\ \A u \in Thread \ {t} : pc'[u] = pc[u] /\ next'[u] = next[u] /\ ok'[u] = ok[u]
  /\ \A c \in Conn \ {conn[t]} : up'[c] = up[c] /\ txn'[c] = txn[c] /\ buffer'[c] = buffer[c]
OtherRows(id) ==
  \A i \in (1..MaxCalls) \ {id} :
    /\ i \in doubtful' <=> i \in doubtful
    /\ \A j \in 1..MaxRows : <<i, j>> \in table' <=> <<i, j>> \in table

LEMMA AtomicKept ==
  ASSUME NEW r, r.id \in 1..MaxCalls, r.n \in 0..MaxRows, NEW id, r.id # id, OtherRows(id),
         DatabaseAssumption
  PROVE  /\ NoneStored(r)' <=> NoneStored(r)
         /\ AllStored(r)' <=> AllStored(r)
         /\ Atomic(r)' <=> Atomic(r)
         /\ r.id \in doubtful' <=> r.id \in doubtful
<1>1. \A j \in 1..r.n : j \in 1..MaxRows
  BY DEF DatabaseAssumption
<1>2. \A j \in 1..r.n : <<r.id, j>> \in table' <=> <<r.id, j>> \in table
  BY <1>1 DEF OtherRows
<1>3. (NoneStored(r)' <=> NoneStored(r)) /\ (AllStored(r)' <=> AllStored(r))
  BY <1>2 DEF NoneStored, AllStored
<1> QED BY <1>3 DEF Atomic, OtherRows

LEMMA GoodKept ==
  ASSUME IInv, NEW u \in Thread, NEW id, call[u] # NULL => call[u].id # id, OtherRows(id),
         pc'[u] = pc[u], call'[u] = call[u], conn'[u] = conn[u], next'[u] = next[u], ok'[u] = ok[u],
         conn[u] \in Conn => /\ up'[conn[u]] = up[conn[u]] /\ txn'[conn[u]] = txn[conn[u]]
                             /\ buffer'[conn[u]] = buffer[conn[u]]
  PROVE  Good(u)'
<1> USE DatabaseAssumption
<1>1. Good(u) /\ call[u] \in Call \cup {NULL} /\ (pc[u] # "idle" => call[u] \in Call /\ call[u] # NULL)
  BY DEF IInv, TypeOK, Good, Call
<1>2. CASE call[u] = NULL
  <2>1. pc[u] = "idle"
    BY <1>1, <1>2
  <2> QED BY <2>1, <1>2 DEF Good
<1>3. CASE call[u] # NULL
  <2>1. call[u] \in Call /\ call[u].id \in 1..MaxCalls /\ call[u].n \in 0..MaxRows
    BY <1>1, <1>3 DEF Call
  <2>2. /\ NoneStored(call[u])' <=> NoneStored(call[u])
        /\ AllStored(call[u])' <=> AllStored(call[u])
        /\ Atomic(call[u])' <=> Atomic(call[u])
        /\ call[u].id \in doubtful' <=> call[u].id \in doubtful
    <3>1. call'[u] = call[u]
      OBVIOUS
    <3>2. ASSUME NEW r, r = call[u]
          PROVE  /\ NoneStored(r)' <=> NoneStored(r)
                 /\ AllStored(r)' <=> AllStored(r)
                 /\ Atomic(r)' <=> Atomic(r)
                 /\ r.id \in doubtful' <=> r.id \in doubtful
      BY <1>3, <2>1, <3>2, AtomicKept
    <3> QED BY <3>2 DEF NoneStored, AllStored, Atomic
  <2>3. Fresh(u)' <=> Fresh(u)
    BY <1>3, <2>1 DEF Fresh, OtherRows
  <2>4. pc[u] \notin {"idle", "acquire"} => conn[u] \in Conn
    BY DEF IInv, TypeOK, Pool
  <2>5. CASE pc[u] \in {"idle", "acquire"}
    BY <1>1, <2>1, <2>2, <2>3, <2>5 DEF Good, KindOf
  <2>6. CASE pc[u] \notin {"idle", "acquire"}
    <3>1. /\ up'[conn'[u]] = up[conn[u]] /\ txn'[conn'[u]] = txn[conn[u]]
          /\ buffer'[conn'[u]] = buffer[conn[u]]
      BY <2>4, <2>6
    <3>2. \A k : Inserted(u, k)' <=> Inserted(u, k)
      BY <3>1 DEF Inserted
    <3>3. KindOf(u)' = KindOf(u)
      BY DEF KindOf
    <3>4. (AtStatement(u)' <=> AtStatement(u)) /\ (AtRow(u)' <=> AtRow(u)) /\ (AtEnd(u)' <=> AtEnd(u))
      BY <2>3, <3>1, <3>2, <3>3 DEF AtStatement, AtRow, AtEnd
    <3> QED BY <1>1, <2>1, <2>2, <2>3, <2>6, <3>1, <3>2, <3>3, <3>4 DEF Good
  <2> QED BY <2>5, <2>6
<1> QED BY <1>2, <1>3

(* The statement of one thread keeps the invariant when it keeps its own   *)
(* part of it.                                                             *)
LEMMA StatementKeeps ==
  ASSUME IInv, TypeOK', Server', NEW t \in Thread, pc[t] \notin {"idle", "acquire"},
         pc'[t] \notin {"idle", "acquire"}, Others(t), OtherRows(call[t].id), Good(t)',
         UNCHANGED <<available_, call, conn, calls, leaked, returned>>
  PROVE  IInv'
<1> USE DatabaseAssumption
<1>1. call[t] \in Call /\ call[t] # NULL /\ call[t].id \in 1..calls /\ calls \in 0..MaxCalls /\ conn[t] \in Conn
  BY DEF IInv, TypeOK, Good, Call, Ids, Pool
<1>2. ASSUME NEW u \in Thread, u # t PROVE Good(u)'
  <2>1. call[u] # NULL => call[u].id # call[t].id
    BY <1>1, <1>2 DEF IInv, Ids
  <2>2. conn[u] \in Conn => conn[u] # conn[t]
    BY <1>1, <1>2 DEF IInv, Pool
  <2> QED BY <1>2, <2>1, <2>2, GoodKept DEF Others
<1>3. Pool'
  <2>1. \A u \in Thread : pc'[u] \in {"idle", "acquire"} <=> pc[u] \in {"idle", "acquire"}
    BY DEF Others
  <2>2. \A i \in 1..Len(available_) : txn'[available_[i]] = "none"
    BY <1>1 DEF IInv, Pool, TypeOK, Others
  <2> QED BY <2>1, <2>2 DEF IInv, Pool
<1>4. Ids'
  <2>1. \A i \in 1..MaxCalls, j \in 1..MaxRows : <<i, j>> \in table' => i <= calls
    BY <1>1 DEF IInv, Ids, OtherRows
  <2>2. \A u \in Thread : pc[u] = "idle" => pc'[u] = "idle"
    BY DEF Others
  <2> QED BY <2>1, <2>2 DEF IInv, Ids
<1>5. Finished'
  <2> SUFFICES ASSUME NEW r \in returned
               PROVE  /\ Atomic(r)'
                      /\ r.result = "true" /\ r.kind \notin Batches \cup Points => AllStored(r)'
                      /\ r.result # "true" /\ r.id \notin doubtful' => NoneStored(r)'
    BY DEF Finished
  <2>1. r.id \in 1..MaxCalls /\ r.n \in 0..MaxRows /\ r.id # call[t].id
    BY <1>1 DEF IInv, TypeOK, Ids
  <2>2. /\ NoneStored(r)' <=> NoneStored(r)
        /\ AllStored(r)' <=> AllStored(r)
        /\ Atomic(r)' <=> Atomic(r)
        /\ r.id \in doubtful' <=> r.id \in doubtful
    BY <2>1, AtomicKept
  <2> QED BY <2>2 DEF IInv, Finished
<1> QED BY <1>2, <1>3, <1>4, <1>5 DEF IInv

(* What is known of a thread inside its function.                          *)
LEMMA Inside ==
  ASSUME IInv, NEW t \in Thread, pc[t] # "idle"
  PROVE  /\ call[t] \in Call /\ call[t] # NULL /\ call[t].id \in 1..MaxCalls
         /\ call[t].n \in 0..MaxRows /\ KindOf(t) \in Kind /\ call[t].n \in Sizes(KindOf(t))
         /\ pc[t] # "acquire" => conn[t] \in Conn
         /\ next[t] \in 1..MaxRows /\ ok[t] \in BOOLEAN
BY DatabaseAssumption DEF IInv, TypeOK, Good, Call, Pool, KindOf

LEMMA BeginIInv == ASSUME IInv, NEW t \in Thread, Begin(t) PROVE IInv'
<1> DEFINE c == conn[t]
<1> USE DEF Begin, Goto
<1>1. /\ c \in Conn /\ KindOf(t) \in Kind /\ call[t].n \in 0..MaxRows /\ call[t].n \in Sizes(KindOf(t))
      /\ call[t] \in Call /\ call[t].id \in 1..MaxCalls /\ next[t] \in 1..MaxRows
  BY Inside
<1>2. /\ txn[c] = "none" /\ buffer[c] = {} /\ Fresh(t) /\ next[t] = 1 /\ KindOf(t) \in Transactional
      /\ ok[t] <=> KindOf(t) \notin Points
  BY <1>1 DEF IInv, Good, Server
<1>3. /\ pc'[t] \in {"prepare", "row", "commit", "release"} /\ KindOf(t)' = KindOf(t)
      /\ next' = next /\ call' = call /\ conn' = conn /\ table' = table /\ doubtful' = doubtful
      /\ up' = up /\ buffer' = buffer
  BY DEF IInv, TypeOK, KindOf
<1>4. Others(t) /\ OtherRows(call[t].id)
  BY <1>3 DEF IInv, TypeOK, Others, OtherRows
<1>5. TypeOK' /\ Server'
  <2>1. CASE Answering(c)
    <3>1. txn' = [txn EXCEPT ![c] = "open"] /\ ok' = ok
      BY <2>1
    <3>2. up[c]
      BY <2>1 DEF Answering
    <3> QED BY ZenonT(40), <1>1, <3>1, <3>2 DEF IInv, TypeOK, Server
  <2>2. CASE ~Answering(c)
    <3>1. ok' = [ok EXCEPT ![t] = FALSE] /\ txn' = txn
      BY <2>2
    <3> QED BY <1>1, <3>1 DEF IInv, TypeOK, Server
  <2> QED BY <2>1, <2>2
<1>6. Good(t)'
  <2>1. Fresh(t)' /\ NoneStored(call[t])' /\ Inserted(t, 0)'
    BY <1>1, <1>2, <1>3, DatabaseAssumption DEF Fresh, NoneStored, Inserted
  <2>2. CASE Answering(c)
    <3>1. /\ txn'[c] = "open" /\ ok' = ok
          /\ pc'[t] = IF KindOf(t) \in Grids THEN "prepare" ELSE IF call[t].n = 0 THEN "commit" ELSE "row"
      BY <2>2, <1>1 DEF IInv, TypeOK
    <3>2. KindOf(t) \in Grids => KindOf(t) \notin Points
      BY <1>1, KindFacts
    <3>3. CASE pc'[t] = "prepare"
      BY <1>1, <1>2, <1>3, <2>1, <3>1, <3>2, <3>3 DEF Good
    <3>4. CASE pc'[t] = "commit"
      BY <1>1, <1>2, <1>3, <2>1, <3>1, <3>2, <3>4, KindFacts DEF Good, AtEnd
    <3>5. CASE pc'[t] = "row"
      BY <1>1, <1>2, <1>3, <2>1, <3>1, <3>2, <3>5, KindFacts DEF Good, AtRow, AtStatement
    <3> QED BY <3>1, <3>3, <3>4, <3>5
  <2>3. CASE ~Answering(c)
    <3>1. pc'[t] = "release" /\ ~ok'[t] /\ txn' = txn
      BY <2>3, <1>1 DEF IInv, TypeOK
    <3> QED BY <1>1, <1>2, <1>3, <2>1, <3>1 DEF Good, Atomic
  <2> QED BY <2>2, <2>3
<1> QED BY <1>3, <1>4, <1>5, <1>6, StatementKeeps

LEMMA PrepareIInv == ASSUME IInv, NEW t \in Thread, Prepare(t) PROVE IInv'
<1> DEFINE c == conn[t]
<1> USE DEF Prepare, Goto
<1>1. /\ c \in Conn /\ KindOf(t) \in Kind /\ call[t].n \in 0..MaxRows /\ call[t].n \in Sizes(KindOf(t))
      /\ call[t] \in Call /\ call[t].id \in 1..MaxCalls /\ next[t] \in 1..MaxRows
  BY Inside
<1>2. /\ KindOf(t) \in Grids /\ Fresh(t) /\ ok[t] /\ next[t] = 1 /\ buffer[c] = {}
      /\ up[c] => txn[c] = "open"
      /\ ~up[c] => txn[c] = "none"
  BY <1>1 DEF IInv, Good, Server
<1>3. /\ KindOf(t)' = KindOf(t) /\ next' = next /\ call' = call /\ conn' = conn /\ table' = table
      /\ doubtful' = doubtful /\ up' = up
  BY DEF KindOf
<1>4. Fresh(t)' /\ NoneStored(call[t])'
  BY <1>1, <1>2, <1>3, DatabaseAssumption DEF Fresh, NoneStored
<1>5. CASE Answering(c) /\ ~prepared[c]
  <2>1. /\ pc' = [pc EXCEPT ![t] = "row"] /\ prepared' = [prepared EXCEPT ![c] = TRUE]
        /\ txn' = txn /\ buffer' = buffer /\ ok' = ok
    BY <1>5
  <2>2. TypeOK' /\ Server' /\ pc'[t] = "row"
    BY <1>1, <2>1 DEF IInv, TypeOK, Server
  <2>3. Inserted(t, 0)'
    BY <1>1, <1>2, <1>3, <2>1 DEF Inserted
  <2>4. Good(t)'
    <3>1. KindOf(t) \in Transactional /\ KindOf(t) \notin Points /\ call[t].n \in 1..MaxRows
      BY <1>1, <1>2, KindFacts
    <3>2. /\ next'[t] = 1 /\ ok'[t] /\ up'[c] = up[c] /\ txn'[c] = txn[c]
      BY <1>2, <1>3, <2>1
    <3>3. AtRow(t)' /\ AtStatement(t)'
      BY <1>2, <1>3, <2>3, <3>1, <3>2 DEF AtRow, AtStatement
    <3> QED BY <1>1, <1>3, <1>4, <2>2, <3>3 DEF Good
  <2>5. Others(t) /\ OtherRows(call[t].id)
    BY <1>3, <2>1 DEF IInv, TypeOK, Others, OtherRows
  <2>6. pc[t] \notin {"idle", "acquire"} /\ pc'[t] \notin {"idle", "acquire"}
    BY <2>2
  <2> QED BY <2>2, <2>4, <2>5, <2>6, StatementKeeps
<1>6. CASE ~(Answering(c) /\ ~prepared[c])
  <2>1. /\ pc' = [pc EXCEPT ![t] = "rollback"] /\ prepared' = prepared
        /\ txn' = [txn EXCEPT ![c] = IF up[c] THEN "aborted" ELSE @]
        /\ buffer' = [buffer EXCEPT ![c] = {}] /\ ok' = [ok EXCEPT ![t] = FALSE]
    BY <1>6
  <2>2. TypeOK' /\ Server' /\ pc'[t] = "rollback" /\ ~ok'[t]
    BY <1>1, <1>2, <2>1 DEF IInv, TypeOK, Server
  <2>3. Good(t)'
    BY <1>1, <1>2, <1>3, <1>4, <2>2, KindFacts DEF Good, Atomic
  <2>4. Others(t) /\ OtherRows(call[t].id)
    BY <1>3, <2>1 DEF IInv, TypeOK, Others, OtherRows
  <2>5. pc[t] \notin {"idle", "acquire"} /\ pc'[t] \notin {"idle", "acquire"}
    BY <2>2
  <2> QED BY <2>2, <2>3, <2>4, <2>5, StatementKeeps
<1> QED BY <1>5, <1>6

LEMMA DeallocateIInv == ASSUME IInv, NEW t \in Thread, Deallocate(t) PROVE IInv'
<1> DEFINE c == conn[t]
<1> USE DEF Deallocate, Goto
<1>1. /\ c \in Conn /\ KindOf(t) \in Kind /\ call[t].n \in 0..MaxRows /\ call[t].n \in Sizes(KindOf(t))
      /\ call[t] \in Call /\ call[t].id \in 1..MaxCalls /\ ok[t] \in BOOLEAN
  BY Inside
<1>2. /\ KindOf(t) \in Grids /\ AtEnd(t) /\ (ok[t] /\ up[c] => txn[c] = "open")
  BY <1>1 DEF IInv, Good
<1>3. /\ KindOf(t)' = KindOf(t) /\ next' = next /\ call' = call /\ conn' = conn /\ table' = table
      /\ doubtful' = doubtful /\ up' = up /\ txn' = txn /\ buffer' = buffer /\ ok' = ok
  BY DEF KindOf
<1>4. pc'[t] = (IF ok[t] THEN "commit" ELSE "rollback")
  BY DEF IInv, TypeOK
<1>5. TypeOK' /\ Server'
  <2>1. prepared'[c] \in BOOLEAN /\ prepared' \in [Conn -> BOOLEAN]
    BY <1>1 DEF IInv, TypeOK, Answering
  <2> QED BY <1>3, <2>1 DEF IInv, TypeOK, Server
<1>6. AtEnd(t)'
  BY <1>2, <1>3 DEF AtEnd, Fresh, Inserted
<1>7. NoneStored(call[t])'
  BY <1>1, <1>2, <1>3, DatabaseAssumption DEF AtEnd, Fresh, NoneStored
<1>8. Good(t)'
  BY <1>1, <1>2, <1>3, <1>4, <1>6, <1>7, KindFacts DEF Good, Atomic
<1>9. Others(t) /\ OtherRows(call[t].id)
  BY <1>3 DEF IInv, TypeOK, Others, OtherRows
<1> QED BY <1>4, <1>5, <1>8, <1>9, StatementKeeps

LEMMA RollbackIInv == ASSUME IInv, NEW t \in Thread, Rollback(t) PROVE IInv'
<1> DEFINE c == conn[t]
<1> USE DEF Rollback, Goto, EndTxn
<1>1. /\ c \in Conn /\ call[t] \in Call /\ call[t].n \in Sizes(KindOf(t))
  BY Inside
<1>2. ~ok[t] /\ Atomic(call[t]) /\ (call[t].id \notin doubtful => NoneStored(call[t]))
  BY DEF IInv, Good
<1>3. /\ KindOf(t)' = KindOf(t) /\ next' = next /\ call' = call /\ conn' = conn /\ table' = table
      /\ doubtful' = doubtful /\ up' = up /\ ok' = ok
  BY DEF KindOf
<1>4. pc'[t] = "release" /\ txn'[c] = "none" /\ TypeOK' /\ Server'
  BY <1>1 DEF IInv, TypeOK, Server
<1>5. (Atomic(call[t])' <=> Atomic(call[t])) /\ (NoneStored(call[t])' <=> NoneStored(call[t]))
  BY <1>3 DEF Atomic, NoneStored, AllStored
<1>6. Good(t)'
  BY <1>1, <1>2, <1>3, <1>4, <1>5 DEF Good
<1>7. Others(t) /\ OtherRows(call[t].id)
  BY <1>3 DEF IInv, TypeOK, Others, OtherRows
<1> QED BY <1>4, <1>6, <1>7, StatementKeeps

(* The three ways COMMIT may end.                                          *)
LEMMA AtCommit ==
  ASSUME IInv, NEW t \in Thread, pc[t] = "commit"
  PROVE  /\ conn[t] \in Conn /\ call[t] \in Call /\ KindOf(t) \in Kind /\ call[t].id \in 1..MaxCalls
         /\ call[t].n \in 0..MaxRows /\ call[t].n \in Sizes(KindOf(t)) /\ ok[t] \in BOOLEAN
         /\ KindOf(t) \in Transactional /\ Fresh(t) /\ NoneStored(call[t])
         /\ txn[conn[t]] = "open" => Inserted(t, call[t].n)
         /\ txn[conn[t]] # "open" => buffer[conn[t]] = {}
         /\ txn[conn[t]] = "open" /\ ~ok[t] => call[t].n = 0
         /\ KindOf(t) \notin Points => ok[t] /\ (up[conn[t]] => txn[conn[t]] = "open")
<1>1. Good(t) /\ conn[t] \in Conn /\ call[t] \in Call /\ KindOf(t) \in Kind /\ call[t].id \in 1..MaxCalls
      /\ call[t].n \in 0..MaxRows /\ call[t].n \in Sizes(KindOf(t)) /\ ok[t] \in BOOLEAN
  BY Inside DEF IInv
<1>2. AtEnd(t)
  BY <1>1 DEF Good
<1>3. NoneStored(call[t])
  BY <1>1, <1>2, DatabaseAssumption DEF AtEnd, Fresh, NoneStored
<1> QED BY <1>1, <1>2, <1>3 DEF AtEnd, Good, IInv, Server

(* What the transaction kept becomes visible, all of it or nothing.        *)
LEMMA Committed ==
  ASSUME IInv, NEW t \in Thread, pc[t] = "commit", table' = table \cup buffer[conn[t]],
         UNCHANGED <<call, calls>>
  PROVE  /\ Atomic(call[t])' /\ table' \in SUBSET Row
         /\ txn[conn[t]] = "open" => AllStored(call[t])'
         /\ txn[conn[t]] # "open" \/ call[t].n = 0 => NoneStored(call[t])'
         /\ \A i \in (1..MaxCalls) \ {call[t].id}, j \in 1..MaxRows :
              <<i, j>> \in table' <=> <<i, j>> \in table
<1> USE AtCommit
<1>1. table' \in SUBSET Row
  BY DEF IInv, TypeOK
<1>2. ASSUME txn[conn[t]] = "open" PROVE AllStored(call[t])'
  BY <1>2, DatabaseAssumption DEF AllStored, Inserted
<1>3. ASSUME txn[conn[t]] # "open" PROVE NoneStored(call[t])'
  BY <1>3 DEF NoneStored
<1>4. ASSUME call[t].n = 0 PROVE NoneStored(call[t])'
  BY <1>4 DEF NoneStored
<1>5. ASSUME NEW i \in (1..MaxCalls) \ {call[t].id}, NEW j \in 1..MaxRows
      PROVE  <<i, j>> \in table' <=> <<i, j>> \in table
  BY <1>5 DEF Inserted
<1> QED BY <1>1, <1>2, <1>3, <1>4, <1>5 DEF Atomic

LEMMA CommitSucceedsIInv == ASSUME IInv, NEW t \in Thread, CommitSucceeds(t) PROVE IInv'
<1> DEFINE c == conn[t]
<1> USE DEF CommitSucceeds, Goto, EndTxn
<1>1. pc[t] = "commit" /\ c \in Conn /\ call[t] \in Call /\ call[t].n \in Sizes(KindOf(t))
      /\ ok[t] \in BOOLEAN
  BY AtCommit
<1>2. /\ KindOf(t)' = KindOf(t) /\ next' = next /\ call' = call /\ conn' = conn /\ calls' = calls
      /\ doubtful' = doubtful /\ up' = up /\ ok' = ok /\ up[c] /\ table' = table \cup buffer[c]
  BY DEF KindOf
<1>3. pc'[t] = "release" /\ txn'[c] = "none" /\ TypeOK' /\ Server'
  BY <1>1, <1>2, Committed DEF IInv, TypeOK, Server
<1>4. ok[t] /\ KindOf(t) \notin Points => AllStored(call[t])'
  BY <1>1, <1>2, AtCommit, Committed
<1>5. ~ok[t] => NoneStored(call[t])'
  BY <1>1, <1>2, AtCommit, Committed
<1>6. Good(t)'
  BY <1>1, <1>2, <1>3, <1>4, <1>5, Committed DEF Good
<1>7. Others(t) /\ OtherRows(call[t].id)
  BY <1>1, <1>2, Committed DEF IInv, TypeOK, Others, OtherRows
<1> QED BY <1>1, <1>3, <1>6, <1>7, StatementKeeps

LEMMA CommitFails ==
  ASSUME IInv, NEW t \in Thread, pc[t] = "commit", CommitFailed(t)
  PROVE  /\ pc'[t] \in {"rollback", "release"} /\ pc' \in [Thread -> {"idle", "acquire", "begin", "prepare",
                          "row", "deallocate", "commit", "rollback", "release"}]
         /\ ok' \in [Thread -> BOOLEAN]
         /\ pc'[t] = "rollback" => ~ok'[t]
         /\ pc'[t] = "release" => ok'[t] /\ KindOf(t) \in Batches
         /\ \A u \in Thread \ {t} : pc'[u] = pc[u] /\ ok'[u] = ok[u]
<1> USE DEF CommitFailed, Goto, IInv, TypeOK
<1>1. CASE ChecksCommit(KindOf(t))
  BY <1>1
<1>2. CASE ~ChecksCommit(KindOf(t))
  <2>1. KindOf(t) \in Batches /\ ok[t]
    BY <1>2, AtCommit, KindFacts
  <2> QED BY <1>2, <2>1
<1> QED BY <1>1, <1>2

LEMMA CommitRefusedIInv == ASSUME IInv, NEW t \in Thread, CommitRefused(t) PROVE IInv'
<1> DEFINE c == conn[t]
<1> USE DEF CommitRefused, EndTxn
<1>1. /\ pc[t] = "commit" /\ c \in Conn /\ call[t] \in Call /\ call[t].n \in Sizes(KindOf(t))
      /\ call[t].id \in 1..MaxCalls
  BY AtCommit
<1>2. /\ KindOf(t)' = KindOf(t) /\ next' = next /\ call' = call /\ conn' = conn /\ calls' = calls
      /\ doubtful' = doubtful /\ up' = up /\ table' = table
  BY DEF KindOf
<1>3. /\ refused' \in SUBSET (1..MaxCalls) /\ txn' \in [Conn -> {"none", "open", "aborted"}]
      /\ buffer' \in [Conn -> SUBSET Row] /\ txn'[c] = "none" /\ buffer'[c] = {}
      /\ \A d \in Conn \ {c} : txn'[d] = txn[d] /\ buffer'[d] = buffer[d]
  <2>1. CASE up[c]
    <3>1. /\ refused' = refused \cup {call[t].id} /\ txn' = [txn EXCEPT ![c] = "none"]
          /\ buffer' = [buffer EXCEPT ![c] = {}]
      BY <2>1
    <3> QED BY <1>1, <3>1 DEF IInv, TypeOK
  <2>2. CASE ~up[c]
    <3>1. refused' = refused /\ txn' = txn /\ buffer' = buffer
      BY <2>2
    <3> QED BY <1>1, <2>2, <3>1 DEF IInv, TypeOK, Server
  <2> QED BY <2>1, <2>2
<1>4. TypeOK' /\ Server'
  <2>1. TypeOK'
    BY <1>1, <1>2, <1>3, CommitFails DEF IInv, TypeOK
  <2>2. Server'
    BY <1>2, <1>3 DEF IInv, Server
  <2> QED BY <2>1, <2>2
<1>5. NoneStored(call[t])'
  BY <1>1, <1>2, AtCommit DEF NoneStored
<1>6. Good(t)'
  BY <1>1, <1>2, <1>3, <1>5, AtCommit, CommitFails DEF Good, Atomic
<1>7. Others(t) /\ OtherRows(call[t].id)
  BY <1>1, <1>2, <1>3, CommitFails DEF Others, OtherRows
<1> QED BY <1>1, <1>4, <1>6, <1>7, CommitFails, StatementKeeps

LEMMA CommitUnansweredIInv == ASSUME IInv, NEW t \in Thread, CommitUnanswered(t) PROVE IInv'
<1> DEFINE c == conn[t]
<1> USE DEF CommitUnanswered, Cut
<1>1. /\ pc[t] = "commit" /\ c \in Conn /\ call[t] \in Call /\ call[t].n \in Sizes(KindOf(t))
      /\ call[t].id \in 1..MaxCalls
  BY AtCommit
<1>2. /\ KindOf(t)' = KindOf(t) /\ next' = next /\ call' = call /\ conn' = conn /\ calls' = calls
      /\ doubtful' = doubtful \cup {call[t].id} /\ table' = table \cup buffer[c]
  BY DEF KindOf
<1>3. TypeOK' /\ Server' /\ txn'[c] = "none"
  <2>1. /\ up' = [up EXCEPT ![c] = FALSE] /\ txn' = [txn EXCEPT ![c] = "none"]
        /\ buffer' = [buffer EXCEPT ![c] = {}] /\ prepared' = [prepared EXCEPT ![c] = FALSE]
    OBVIOUS
  <2>2. /\ up' \in [Conn -> BOOLEAN] /\ txn' \in [Conn -> {"none", "open", "aborted"}]
        /\ buffer' \in [Conn -> SUBSET Row] /\ prepared' \in [Conn -> BOOLEAN]
        /\ doubtful' \in SUBSET (1..MaxCalls)
    BY <1>1, <1>2, <2>1 DEF IInv, TypeOK
  <2>3. TypeOK'
    BY <1>1, <1>2, <2>2, Committed, CommitFails DEF IInv, TypeOK
  <2>4. Server' /\ txn'[c] = "none"
    BY <1>1, <2>1 DEF IInv, TypeOK, Server
  <2> QED BY <2>3, <2>4
<1>4. Atomic(call[t])'
  BY <1>1, <1>2, Committed
<1>5. Good(t)'
  BY <1>1, <1>2, <1>3, <1>4, AtCommit, CommitFails DEF Good
<1>6. Others(t) /\ OtherRows(call[t].id)
  BY ZenonT(40), <1>1, <1>2, Committed, CommitFails DEF IInv, TypeOK, Others, OtherRows
<1> QED BY <1>1, <1>3, <1>5, <1>6, CommitFails, StatementKeeps

(***************************************************************************)
(* The statements of the loop over the rows.                               *)
(***************************************************************************)
LEMMA InRow ==
  ASSUME IInv, NEW t \in Thread, pc[t] = "row"
  PROVE  /\ conn[t] \in Conn /\ call[t] \in Call /\ KindOf(t) \in Kind /\ call[t].id \in 1..MaxCalls
         /\ call[t].n \in 0..MaxRows /\ call[t].n \in Sizes(KindOf(t)) /\ ok[t] \in BOOLEAN
         /\ next[t] \in 1..MaxRows /\ Fresh(t) /\ NoneStored(call[t])
         /\ AtStatement(t) /\ AtRow(t)
         /\ ~up[conn[t]] => txn[conn[t]] = "none"
         /\ txn[conn[t]] # "open" => buffer[conn[t]] = {}
<1>1. /\ Good(t) /\ conn[t] \in Conn /\ call[t] \in Call /\ KindOf(t) \in Kind
      /\ call[t].id \in 1..MaxCalls /\ call[t].n \in 0..MaxRows /\ call[t].n \in Sizes(KindOf(t))
      /\ ok[t] \in BOOLEAN /\ next[t] \in 1..MaxRows
  BY Inside DEF IInv
<1>2. Fresh(t) /\ AtStatement(t) /\ AtRow(t)
  BY <1>1 DEF Good
<1>3. NoneStored(call[t])
  BY <1>1, <1>2, DatabaseAssumption DEF Fresh, NoneStored
<1> QED BY <1>1, <1>2, <1>3 DEF IInv, Server

(* Where the loop goes on, and the types of what it changes.               *)
LEMMA MovesOn ==
  ASSUME IInv, NEW t \in Thread, pc[t] = "row", Granted(t) \/ NotGranted(t)
  PROVE  /\ pc' \in [Thread -> {"idle", "acquire", "begin", "prepare", "row", "deallocate",
                                "commit", "rollback", "release"}]
         /\ pc'[t] \notin {"idle", "acquire"} /\ next' \in [Thread -> 1..MaxRows]
         /\ ok' \in [Thread -> BOOLEAN]
         /\ \A u \in Thread \ {t} : pc'[u] = pc[u] /\ next'[u] = next[u] /\ ok'[u] = ok[u]
<1> USE DEF Goto
<1>1. \A g \in BOOLEAN : After(t, g) \in {"release", "row", "deallocate", "rollback", "commit"}
  BY DEF After
<1>2. (IF next[t] < call[t].n THEN next[t] + 1 ELSE next[t]) \in 1..MaxRows
  BY InRow, DatabaseAssumption
<1>3. next' = [next EXCEPT ![t] = IF @ < call[t].n THEN @ + 1 ELSE @]
  BY DEF Granted, NotGranted
<1>4. PICK g \in BOOLEAN : pc' = [pc EXCEPT ![t] = After(t, g)]
  BY DEF Granted, NotGranted
<1>5. PICK b \in BOOLEAN : ok' = [ok EXCEPT ![t] = b]
  <2>1. CASE Granted(t)
    BY <2>1 DEF Granted
  <2>2. CASE NotGranted(t)
    <3>1. (ok[t] /\ ~StopsAtError(KindOf(t))) \in BOOLEAN
      OBVIOUS
    <3> QED BY <2>2, <3>1 DEF NotGranted
  <2> QED BY <2>1, <2>2
<1>6. next' \in [Thread -> 1..MaxRows] /\ \A u \in Thread \ {t} : next'[u] = next[u]
  BY <1>2, <1>3 DEF IInv, TypeOK
<1>7. ok' \in [Thread -> BOOLEAN] /\ \A u \in Thread \ {t} : ok'[u] = ok[u]
  BY <1>5 DEF IInv, TypeOK
<1>8. /\ pc' \in [Thread -> {"idle", "acquire", "begin", "prepare", "row", "deallocate",
                             "commit", "rollback", "release"}]
      /\ pc'[t] = After(t, g) /\ \A u \in Thread \ {t} : pc'[u] = pc[u]
  BY <1>1, <1>4 DEF IInv, TypeOK
<1> QED BY <1>1, <1>6, <1>7, <1>8

LEMMA GrantedTo ==
  ASSUME IInv, NEW t \in Thread, pc[t] = "row", Granted(t)
  PROVE  /\ ok'[t]
         /\ KindOf(t) \notin Transactional => pc'[t] = "release"
         /\ KindOf(t) \in Transactional =>
              \/ next[t] < call[t].n /\ pc'[t] = "row" /\ next'[t] = next[t] + 1
              \/ next[t] = call[t].n /\ pc'[t] = IF KindOf(t) \in Grids THEN "deallocate" ELSE "commit"
<1> USE DEF Goto
<1>1. ok'[t] /\ pc'[t] = After(t, TRUE)
  BY DEF Granted, IInv, TypeOK
<1>2. next'[t] = IF next[t] < call[t].n THEN next[t] + 1 ELSE next[t]
  BY DEF Granted, IInv, TypeOK
<1>3. KindOf(t) \in Transactional => next[t] <= call[t].n
  BY InRow DEF AtRow
<1>4. next[t] \in Nat /\ call[t].n \in Nat
  BY InRow, DatabaseAssumption
<1> QED BY <1>1, <1>2, <1>3, <1>4 DEF After

LEMMA NotGrantedTo ==
  ASSUME IInv, NEW t \in Thread, pc[t] = "row", NotGranted(t)
  PROVE  /\ KindOf(t) \notin Transactional => pc'[t] = "release" /\ ~ok'[t]
         /\ KindOf(t) \in Transactional /\ KindOf(t) \notin Points =>
              ~ok'[t] /\ pc'[t] = IF KindOf(t) \in Grids THEN "deallocate" ELSE "rollback"
         /\ KindOf(t) \in Points =>
              /\ ok'[t] = ok[t] /\ call[t].n > 0
              /\ \/ next[t] < call[t].n /\ pc'[t] = "row" /\ next'[t] = next[t] + 1
                 \/ next[t] = call[t].n /\ pc'[t] = "commit"
<1> USE DEF Goto
<1>1. pc'[t] = After(t, FALSE)
  BY DEF NotGranted, IInv, TypeOK
<1>2. ok'[t] = (ok[t] /\ ~StopsAtError(KindOf(t)))
  BY DEF NotGranted, IInv, TypeOK
<1>3. next'[t] = IF next[t] < call[t].n THEN next[t] + 1 ELSE next[t]
  BY DEF NotGranted, IInv, TypeOK
<1>4. /\ KindOf(t) \in Transactional => next[t] <= call[t].n
      /\ KindOf(t) \notin Transactional => ~ok[t]
  BY InRow DEF AtRow, AtStatement
<1>5. next[t] \in Nat \ {0} /\ call[t].n \in Nat /\ KindOf(t) \in Kind /\ ok[t] \in BOOLEAN
  BY InRow, DatabaseAssumption
<1>6. /\ StopsAtError(KindOf(t)) <=> KindOf(t) \notin Points
      /\ KindOf(t) \in Points => KindOf(t) \in Transactional /\ KindOf(t) \notin Grids
  BY <1>5, KindFacts
<1>7. CASE KindOf(t) \notin Transactional
  BY <1>1, <1>2, <1>4, <1>5, <1>6, <1>7 DEF After
<1>8. CASE KindOf(t) \in Transactional /\ KindOf(t) \notin Points
  BY <1>1, <1>2, <1>6, <1>8 DEF After
<1>9. CASE KindOf(t) \in Points
  BY <1>1, <1>2, <1>3, <1>4, <1>5, <1>6, <1>9 DEF After
<1> QED BY <1>6, <1>7, <1>8, <1>9

LEMMA RowStoredIInv == ASSUME IInv, NEW t \in Thread, RowStored(t) PROVE IInv'
<1> DEFINE c == conn[t]
<1> USE DEF RowStored
<1>1. /\ pc[t] = "row" /\ c \in Conn /\ call[t] \in Call /\ KindOf(t) \in Kind
      /\ call[t].id \in 1..MaxCalls /\ call[t].n \in 0..MaxRows /\ call[t].n \in Sizes(KindOf(t))
      /\ next[t] \in 1..MaxRows /\ up[c] /\ txn[c] # "aborted"
  BY InRow DEF Answering
<1>2. /\ KindOf(t)' = KindOf(t) /\ call' = call /\ conn' = conn /\ calls' = calls
      /\ doubtful' = doubtful /\ up' = up /\ txn' = txn
  BY DEF KindOf
<1>3. NewRow(t) \in SUBSET Row /\ \A i \in 1..MaxCalls, j \in 1..MaxRows :
        <<i, j>> \in NewRow(t) <=> KindOf(t) \notin Queries /\ i = call[t].id /\ j = next[t]
  BY <1>1 DEF NewRow, Row
<1>4. CASE KindOf(t) \notin Transactional
  <2>1. txn[c] = "none" /\ next[t] = 1
    BY <1>1, <1>4, InRow DEF AtStatement
  <2>2. table' = table \cup NewRow(t) /\ buffer' = buffer
    BY <2>1
  <2>3. TypeOK' /\ Server'
    BY <1>2, <1>3, <2>2, MovesOn DEF IInv, TypeOK, Server
  <2>4. pc'[t] = "release" /\ ok'[t]
    BY <1>1, <1>4, GrantedTo
  <2>5. call[t].n = 0 \/ (call[t].n = 1 /\ KindOf(t) \notin Queries)
    BY <1>1, <1>4, KindFacts
  <2>6. AllStored(call[t])'
    BY <1>1, <1>2, <1>3, <2>1, <2>2, <2>5 DEF AllStored
  <2>7. Good(t)'
    BY <1>1, <1>2, <2>1, <2>4, <2>6 DEF Good, Atomic
  <2>8. Others(t) /\ OtherRows(call[t].id)
    BY <1>1, <1>2, <1>3, <2>2, MovesOn DEF Others, OtherRows
  <2> QED BY <1>1, <2>3, <2>4, <2>7, <2>8, StatementKeeps
<1>5. CASE KindOf(t) \in Transactional
  <2>1. txn[c] = "open" /\ Inserted(t, next[t] - 1) /\ KindOf(t) \notin Queries /\ next[t] <= call[t].n
    <3>1. txn[c] = "open"
      BY <1>1, <1>5, InRow DEF AtRow, IInv, TypeOK
    <3> QED BY <3>1, <1>1, <1>5, InRow, KindFacts DEF AtRow
  <2>2. table' = table /\ buffer' = [buffer EXCEPT ![c] = @ \cup NewRow(t)]
    BY <2>1
  <2>3. buffer' \in [Conn -> SUBSET Row] /\ buffer'[c] = buffer[c] \cup NewRow(t)
        /\ \A d \in Conn \ {c} : buffer'[d] = buffer[d]
    BY <1>1, <1>3, <2>2 DEF IInv, TypeOK
  <2>4. TypeOK' /\ Server'
    <3>1. TypeOK'
      BY <1>2, <2>2, <2>3, MovesOn DEF IInv, TypeOK
    <3>2. Server'
      BY <1>2, <2>1, <2>3 DEF IInv, Server
    <3> QED BY <3>1, <3>2
  <2>5. \A i \in 1..MaxCalls, j \in 1..MaxRows :
          <<i, j>> \in buffer'[c] <=> i = call[t].id /\ j <= next[t]
    <3>1. \A i \in 1..MaxCalls, j \in 1..MaxRows :
            <<i, j>> \in buffer'[c] <=> i = call[t].id /\ (j <= next[t] - 1 \/ j = next[t])
      BY <1>3, <2>1, <2>3 DEF Inserted
    <3>2. \A j \in 1..MaxRows : (j <= next[t] - 1 \/ j = next[t]) <=> j <= next[t]
      BY <1>1, DatabaseAssumption
    <3> QED BY <3>1, <3>2
  <2>6. Fresh(t)' /\ ok'[t] /\ txn'[c] = "open"
    BY <1>1, <1>2, <2>1, <2>2, InRow, GrantedTo DEF Fresh
  <2>7. Good(t)' /\ pc'[t] \notin {"idle", "acquire"}
    <3>1. CASE next[t] < call[t].n /\ pc'[t] = "row" /\ next'[t] = next[t] + 1
      <4>1. next'[t] - 1 = next[t] /\ next'[t] <= call[t].n
        BY <1>1, <3>1, DatabaseAssumption
      <4>2. Inserted(t, next[t] - 1)'
        BY <1>2, <2>5, <4>1 DEF Inserted
      <4>3. AtRow(t)' /\ AtStatement(t)'
        BY <1>2, <1>5, <2>6, <4>1, <4>2 DEF AtRow, AtStatement
      <4> QED BY <1>1, <1>2, <2>6, <3>1, <4>3 DEF Good
    <3>2. CASE next[t] = call[t].n /\ pc'[t] = IF KindOf(t) \in Grids THEN "deallocate" ELSE "commit"
      <4>1. AtEnd(t)'
        BY <1>2, <1>5, <2>5, <2>6, <3>2 DEF AtEnd, Inserted
      <4> QED BY <1>1, <1>2, <2>6, <3>2, <4>1 DEF Good
    <3> QED BY <1>1, <1>5, <3>1, <3>2, GrantedTo
  <2>8. Others(t) /\ OtherRows(call[t].id)
    BY <1>1, <1>2, <2>2, <2>3, MovesOn DEF Others, OtherRows
  <2> QED BY <1>1, <2>4, <2>7, <2>8, StatementKeeps
<1> QED BY <1>4, <1>5

(* A transactional call goes on without a transaction it could commit.     *)
LEMMA GoesOn ==
  ASSUME IInv, NEW t \in Thread, pc[t] = "row", NotGranted(t), KindOf(t) \in Transactional,
         Fresh(t)', txn'[conn[t]] # "open", up'[conn[t]] => txn'[conn[t]] # "none",
         UNCHANGED <<call, conn>>
  PROVE  Good(t)'
<1>1. /\ call[t] \in Call /\ KindOf(t) \in Kind /\ call[t].id \in 1..MaxCalls
      /\ call[t].n \in 0..MaxRows /\ call[t].n \in Sizes(KindOf(t))
      /\ KindOf(t)' = KindOf(t) /\ next[t] \in 1..MaxRows /\ call' = call /\ conn' = conn
  BY InRow DEF KindOf
<1>2. NoneStored(call[t])'
  BY <1>1, DatabaseAssumption DEF Fresh, NoneStored
<1>3. AtEnd(t)'
  BY <1>1 DEF AtEnd
<1>4. CASE KindOf(t) \in Points
  <2>1. CASE next[t] < call[t].n /\ pc'[t] = "row" /\ next'[t] = next[t] + 1
    <3>1. next'[t] <= call[t].n
      BY <1>1, <2>1, DatabaseAssumption
    <3>2. AtRow(t)' /\ AtStatement(t)'
      BY <1>1, <1>4, <3>1 DEF AtRow, AtStatement
    <3> QED BY <1>1, <2>1, <3>2 DEF Good
  <2>2. CASE next[t] = call[t].n /\ pc'[t] = "commit"
    BY <1>1, <1>3, <1>4, <2>2 DEF Good
  <2> QED BY <1>4, <2>1, <2>2, NotGrantedTo
<1>5. CASE KindOf(t) \notin Points
  <2>1. ~ok'[t] /\ pc'[t] = IF KindOf(t) \in Grids THEN "deallocate" ELSE "rollback"
    BY <1>5, NotGrantedTo
  <2> QED BY <1>1, <1>2, <1>3, <1>5, <2>1 DEF Good, Atomic
<1> QED BY <1>4, <1>5

LEMMA RowRefusedIInv == ASSUME IInv, NEW t \in Thread, RowRefused(t) PROVE IInv'
<1> DEFINE c == conn[t]
<1> USE DEF RowRefused
<1>1. /\ pc[t] = "row" /\ c \in Conn /\ call[t] \in Call /\ KindOf(t) \in Kind
      /\ call[t].id \in 1..MaxCalls /\ call[t].n \in Sizes(KindOf(t)) /\ NotGranted(t)
  BY InRow
<1>2. /\ KindOf(t)' = KindOf(t) /\ call' = call /\ conn' = conn /\ calls' = calls
      /\ doubtful' = doubtful /\ up' = up /\ table' = table
  BY DEF KindOf
<1>3. /\ refused' \in SUBSET (1..MaxCalls) /\ txn' \in [Conn -> {"none", "open", "aborted"}]
      /\ buffer' \in [Conn -> SUBSET Row] /\ buffer'[c] = {} /\ txn'[c] # "open"
      /\ txn'[c] = "none" <=> txn[c] = "none"
      /\ \A d \in Conn \ {c} : txn'[d] = txn[d] /\ buffer'[d] = buffer[d]
  <2>1. CASE Answering(c)
    <3>1. /\ refused' = refused \cup {call[t].id} /\ buffer' = [buffer EXCEPT ![c] = {}]
          /\ txn' = [txn EXCEPT ![c] = IF txn[c] = "open" THEN "aborted" ELSE txn[c]]
      BY <2>1
    <3> QED BY <1>1, <3>1 DEF IInv, TypeOK
  <2>2. CASE ~Answering(c)
    <3>1. refused' = refused /\ txn' = txn /\ buffer' = buffer
      BY <2>2
    <3>2. txn[c] # "open"
      BY <2>2, <1>1, InRow DEF Answering
    <3> QED BY <1>1, <3>1, <3>2, InRow DEF IInv, TypeOK
  <2> QED BY <2>1, <2>2
<1>4. TypeOK' /\ Server'
  <2>1. TypeOK'
    BY <1>1, <1>2, <1>3, MovesOn DEF IInv, TypeOK
  <2>2. Server'
    BY <1>1, <1>2, <1>3 DEF IInv, Server
  <2> QED BY <2>1, <2>2
<1>5. Fresh(t)' /\ NoneStored(call[t])'
  BY <1>1, <1>2, InRow DEF Fresh, NoneStored
<1>6. Good(t)'
  <2>1. CASE KindOf(t) \in Transactional
    <3>1. up'[c] => txn'[c] # "none"
      BY <1>1, <1>2, <1>3, <2>1, InRow DEF AtRow
    <3> QED BY <1>1, <1>2, <1>3, <1>5, <2>1, <3>1, GoesOn
  <2>2. CASE KindOf(t) \notin Transactional
    <3>1. pc'[t] = "release" /\ ~ok'[t] /\ txn'[c] = "none"
      BY <1>1, <1>3, <2>2, InRow, NotGrantedTo DEF AtStatement
    <3> QED BY <1>1, <1>2, <1>5, <3>1 DEF Good, Atomic
  <2> QED BY <2>1, <2>2
<1>7. Others(t) /\ OtherRows(call[t].id)
  BY <1>1, <1>2, <1>3, MovesOn DEF Others, OtherRows
<1> QED BY <1>1, <1>4, <1>6, <1>7, MovesOn, StatementKeeps

LEMMA RowUnansweredIInv == ASSUME IInv, NEW t \in Thread, RowUnanswered(t) PROVE IInv'
<1> DEFINE c == conn[t]
<1> USE DEF RowUnanswered, Cut
<1>1. /\ pc[t] = "row" /\ c \in Conn /\ call[t] \in Call /\ KindOf(t) \in Kind
      /\ call[t].id \in 1..MaxCalls /\ call[t].n \in 0..MaxRows /\ call[t].n \in Sizes(KindOf(t))
      /\ next[t] \in 1..MaxRows /\ NotGranted(t) /\ up[c] /\ txn[c] # "aborted"
  BY InRow DEF Answering
<1>2. /\ KindOf(t)' = KindOf(t) /\ call' = call /\ conn' = conn /\ calls' = calls
      /\ doubtful' = doubtful \cup {call[t].id}
  BY DEF KindOf
<1>3. NewRow(t) \in SUBSET Row /\ \A i \in 1..MaxCalls, j \in 1..MaxRows :
        <<i, j>> \in NewRow(t) <=> KindOf(t) \notin Queries /\ i = call[t].id /\ j = next[t]
  BY <1>1 DEF NewRow, Row
<1>4. /\ up' \in [Conn -> BOOLEAN] /\ txn' \in [Conn -> {"none", "open", "aborted"}]
      /\ buffer' \in [Conn -> SUBSET Row] /\ prepared' \in [Conn -> BOOLEAN]
      /\ doubtful' \in SUBSET (1..MaxCalls)
      /\ ~up'[c] /\ txn'[c] = "none" /\ buffer'[c] = {}
      /\ \A d \in Conn \ {c} : up'[d] = up[d] /\ txn'[d] = txn[d] /\ buffer'[d] = buffer[d]
  <2>1. /\ up' = [up EXCEPT ![c] = FALSE] /\ txn' = [txn EXCEPT ![c] = "none"]
        /\ buffer' = [buffer EXCEPT ![c] = {}] /\ prepared' = [prepared EXCEPT ![c] = FALSE]
    OBVIOUS
  <2> QED BY <1>1, <1>2, <2>1 DEF IInv, TypeOK
<1>5. table' \in SUBSET Row /\ table' \in {table, table \cup NewRow(t)}
  BY <1>3 DEF IInv, TypeOK
<1>6. TypeOK' /\ Server'
  <2>1. TypeOK'
    BY SMTT(20), <1>1, <1>2, <1>4, <1>5, MovesOn DEF IInv, TypeOK
  <2>2. Server'
    BY <1>1, <1>4 DEF IInv, Server
  <2> QED BY <2>1, <2>2
<1>7. Good(t)'
  <2>1. CASE KindOf(t) \in Transactional
    <3>1. txn[c] # "none"
      BY <1>1, <2>1, InRow DEF AtRow
    <3>2. Fresh(t)'
      BY <1>1, <1>2, <3>1, InRow DEF Fresh
    <3> QED BY <1>1, <1>2, <1>4, <2>1, <3>2, GoesOn
  <2>2. CASE KindOf(t) \notin Transactional
    <3>1. pc'[t] = "release" /\ ~ok'[t] /\ txn[c] = "none" /\ next[t] = 1
      BY <1>1, <2>2, InRow, NotGrantedTo DEF AtStatement
    <3>2. table' = table \cup NewRow(t)
      BY <3>1
    <3>3. call[t].n = 0 \/ (call[t].n = 1 /\ KindOf(t) \notin Queries)
      BY <1>1, <2>2, KindFacts
    <3>4. AllStored(call[t])'
      BY <1>1, <1>2, <1>3, <3>1, <3>2, <3>3 DEF AllStored
    <3> QED BY <1>1, <1>2, <1>4, <3>1, <3>4 DEF Good, Atomic
  <2> QED BY <2>1, <2>2
<1>8. Others(t) /\ OtherRows(call[t].id)
  BY <1>1, <1>2, <1>3, <1>4, <1>5, MovesOn DEF Others, OtherRows
<1> QED BY <1>1, <1>6, <1>7, <1>8, MovesOn, StatementKeeps

(***************************************************************************)
(* Taking a connection, giving it back, losing it, and starting a call.    *)
(***************************************************************************)
LEMMA SameRows ==
  ASSUME NEW r, NEW q, r.id = q.id, r.n = q.n
  PROVE  (NoneStored(r) <=> NoneStored(q)) /\ (AllStored(r) <=> AllStored(q)) /\ (Atomic(r) <=> Atomic(q))
BY DEF NoneStored, AllStored, Atomic

LEMMA StillGood ==
  ASSUME IInv, NEW u \in Thread, UNCHANGED <<up, txn, buffer, table, doubtful>>,
         pc'[u] = pc[u], call'[u] = call[u], conn'[u] = conn[u], next'[u] = next[u], ok'[u] = ok[u]
  PROVE  Good(u)'
<1>1. OtherRows(0)
  BY DEF OtherRows
<1>2. call[u] # NULL => call[u].id # 0
  BY DatabaseAssumption DEF IInv, TypeOK, Call
<1> QED BY <1>1, <1>2, GoodKept

LEMMA AcquireIInv == ASSUME IInv, NEW t \in Thread, Acquire(t) PROVE IInv'
<1> DEFINE n == Len(available_)
<1> USE DatabaseAssumption DEF Acquire, Goto, server
<1>1. /\ available_ \in Seq(Conn) /\ n \in Nat \ {0} /\ available_[n] \in Conn
      /\ pc[t] = "acquire" /\ KindOf(t) \in Kind
  <2>1. available_ \in Seq(Conn) /\ available_ # <<>> /\ pc[t] = "acquire"
    BY DEF IInv, TypeOK
  <2>2. n \in Nat \ {0}
    BY <2>1, EmptySeq, LenProperties
  <2>3. KindOf(t) \in Kind
    BY <2>1, Inside
  <2> QED BY <2>1, <2>2, <2>3, LenProperties
<1>2. /\ available_' \in Seq(Conn) /\ Len(available_') = n - 1
      /\ \A i \in 1..(n - 1) : available_'[i] = available_[i]
  <2>1. available_' = SubSeq(available_, 1, n - 1)
    BY DEF Front
  <2>2. available_' = [i \in 1..(n - 1) |-> available_[i]]
    BY <1>1, <2>1
  <2>3. \A i \in 1..(n - 1) : available_[i] \in Conn
    BY <1>1
  <2> QED BY <1>1, <2>2, <2>3
<1>3. /\ conn' = [conn EXCEPT ![t] = available_[n]]
      /\ pc' = [pc EXCEPT ![t] = IF KindOf(t) \in Transactional THEN "begin" ELSE "row"]
  BY DEF Last
<1>4. TypeOK'
  <2>1. pc' \in [Thread -> {"idle", "acquire", "begin", "prepare", "row", "deallocate",
                             "commit", "rollback", "release"}]
    BY <1>3 DEF IInv, TypeOK
  <2>2. conn' \in [Thread -> Conn \cup {NULL}]
    BY <1>1, <1>3 DEF IInv, TypeOK
  <2> QED BY <1>2, <2>1, <2>2 DEF IInv, TypeOK
<1>5. /\ conn'[t] = available_[n] /\ conn'[t] # NULL
      /\ pc'[t] = IF KindOf(t) \in Transactional THEN "begin" ELSE "row"
      /\ \A u \in Thread \ {t} : conn'[u] = conn[u] /\ pc'[u] = pc[u]
  BY <1>1, <1>3 DEF IInv, TypeOK
<1>6. UNCHANGED <<server, call, next, ok, calls, leaked, returned>>
  OBVIOUS
<1> HIDE DEF Acquire
<1>7. Pool'
  <2>1. n \in 1..n /\ \A i \in 1..(n - 1) : i \in 1..n /\ i # n
    BY <1>1
  <2>2. /\ \A u \in Thread : conn[u] # available_[n]
        /\ available_[n] \notin leaked /\ available_[n] # NULL
        /\ \A i \in 1..(n - 1) : available_[i] # available_[n]
    BY <1>1, <1>5, <2>1 DEF IInv, Pool
  <2>3. \A i \in 1..(n - 1) :
          /\ available_[i] \notin leaked /\ txn[available_[i]] = "none"
          /\ \A u \in Thread : conn[u] # available_[i]
    BY <2>1 DEF IInv, Pool
  <2>4. \A i, j \in 1..(n - 1) : available_[i] = available_[j] => i = j
    BY <2>1 DEF IInv, Pool
  <2>5. /\ \A u \in Thread : conn'[u] = NULL <=> pc'[u] \in {"idle", "acquire"}
        /\ \A u \in Thread : conn'[u] \notin leaked
    BY <1>5, <2>2 DEF IInv, Pool
  <2>6. \A u, w \in Thread : conn'[u] = conn'[w] /\ conn'[u] # NULL => u = w
    BY <1>5, <2>2 DEF IInv, Pool
  <2>7. \A i \in 1..(n - 1) : \A u \in Thread : conn'[u] # available_[i]
    BY <1>5, <2>2, <2>3
  <2>8. ASSUME NEW d \in Conn
        PROVE  \/ d \in leaked \/ \E u \in Thread : conn'[u] = d
               \/ \E i \in 1..(n - 1) : available_[i] = d
    <3>1. CASE \E u \in Thread : conn[u] = d
      <4> PICK u \in Thread : conn[u] = d
        BY <3>1
      <4>1. u # t
        BY <1>1 DEF IInv, Pool
      <4> QED BY <4>1, <1>5
    <3>2. CASE \E i \in 1..n : available_[i] = d
      <4> PICK i \in 1..n : available_[i] = d
        BY <3>2
      <4>1. i = n \/ i \in 1..(n - 1)
        BY <1>1
      <4> QED BY <4>1, <1>5
    <3> QED BY <3>1, <3>2 DEF IInv, Pool
  <2>9. \A i, j \in 1..(n - 1) : available_'[i] = available_'[j] => i = j
    BY <1>2, <2>4
  <2>10. \A i \in 1..(n - 1) :
           /\ available_'[i] \notin leaked /\ txn[available_'[i]] = "none"
           /\ \A u \in Thread : conn'[u] # available_'[i]
    BY <1>2, <2>3, <2>7
  <2>11. leaked' = leaked /\ txn' = txn /\ 1..Len(available_') = 1..(n - 1)
    BY <1>2, <1>6
  <2>12. \A d \in Conn : \/ d \in leaked \/ \E u \in Thread : conn'[u] = d
                         \/ \E i \in 1..(n - 1) : available_'[i] = d
    BY <1>2, <2>8
  <2> QED BY <2>5, <2>6, <2>9, <2>10, <2>11, <2>12 DEF Pool
<1>8. ASSUME NEW u \in Thread PROVE Good(u)'
  <2>1. CASE u # t
    BY <1>5, <1>6, <2>1, StillGood
  <2>2. CASE u = t
    <3>1. /\ Fresh(t) /\ next[t] = 1 /\ (ok[t] <=> KindOf(t) \in Transactional \ Points)
          /\ call[t] \in Call /\ call[t].n \in Sizes(KindOf(t))
      BY <1>1 DEF IInv, Good
    <3>2. txn[available_[n]] = "none" /\ n \in 1..n
      BY <1>1 DEF IInv, Pool
    <3>3. Fresh(t)' /\ KindOf(t)' = KindOf(t) /\ call' = call /\ next' = next /\ ok' = ok /\ txn' = txn
      BY <1>6, <3>1 DEF Fresh, KindOf
    <3>4. CASE KindOf(t) \in Transactional
      BY <1>5, <2>2, <3>1, <3>2, <3>3, <3>4 DEF Good
    <3>5. CASE KindOf(t) \notin Transactional
      BY <1>5, <2>2, <3>1, <3>2, <3>3, <3>5 DEF Good, AtStatement, AtRow
    <3> QED BY <3>4, <3>5
  <2> QED BY <2>1, <2>2
<1>9. Server' /\ Finished'
  BY <1>6 DEF IInv, Server, Finished, Atomic, NoneStored, AllStored
<1>10. Ids'
  BY <1>1, <1>5, <1>6 DEF IInv, Ids
<1> QED BY <1>4, <1>7, <1>8, <1>9, <1>10 DEF IInv

(* A call ends, and what it returned is recorded.                          *)
LEMMA EndKeeps ==
  ASSUME IInv, NEW t \in Thread, pc[t] # "idle", TypeOK', Pool',
         NEW res, pc' = [pc EXCEPT ![t] = "idle"],
         returned' = returned \cup {[id |-> call[t].id, kind |-> KindOf(t), n |-> call[t].n, result |-> res]},
         Atomic(call[t]),
         res = "true" /\ KindOf(t) \notin Batches \cup Points => AllStored(call[t]),
         res # "true" /\ call[t].id \notin doubtful => NoneStored(call[t]),
         \A u \in Thread \ {t} : conn'[u] = conn[u], UNCHANGED <<server, call, next, ok, calls>>
  PROVE  IInv'
<1> DEFINE r0 == [id |-> call[t].id, kind |-> KindOf(t), n |-> call[t].n, result |-> res]
<1> USE DEF server
<1>1. call[t] \in Call /\ call[t] # NULL /\ call[t].id <= calls
  BY Inside DEF IInv, Ids
<1>2. pc'[t] = "idle" /\ \A u \in Thread \ {t} : pc'[u] = pc[u]
  BY DEF IInv, TypeOK
<1>3. ASSUME NEW u \in Thread PROVE Good(u)'
  <2>1. CASE u # t
    BY <1>2, <2>1, StillGood
  <2>2. CASE u = t
    <3>1. Atomic(call[t])'
      BY DEF Atomic, NoneStored, AllStored
    <3> QED BY <1>2, <2>2, <3>1 DEF Good
  <2> QED BY <2>1, <2>2
<1>4. r0.id = call[t].id /\ r0.n = call[t].n /\ r0.kind = KindOf(t) /\ r0.result = res
  OBVIOUS
<1>5. returned' = returned \cup {r0}
  OBVIOUS
<1> HIDE DEF r0
<1>6. Finished'
  <2>1. /\ Atomic(r0)
        /\ r0.result = "true" /\ r0.kind \notin Batches \cup Points => AllStored(r0)
        /\ r0.result # "true" /\ r0.id \notin doubtful => NoneStored(r0)
    BY <1>4, SameRows
  <2>2. \A r \in returned' :
          /\ Atomic(r)
          /\ r.result = "true" /\ r.kind \notin Batches \cup Points => AllStored(r)
          /\ r.result # "true" /\ r.id \notin doubtful => NoneStored(r)
    BY <1>5, <2>1 DEF IInv, Finished
  <2> QED BY <2>2 DEF Finished, Atomic, NoneStored, AllStored
<1>7. Ids'
  <2>1. \A r \in returned' : r.id <= calls
    BY <1>1, <1>4, <1>5 DEF IInv, Ids
  <2>2. \A r \in returned', u \in Thread : call[u] # NULL /\ r.id = call[u].id => pc'[u] = "idle"
    BY <1>1, <1>2, <1>4, <1>5 DEF IInv, Ids
  <2> QED BY <2>1, <2>2 DEF IInv, Ids
<1>8. Server'
  BY DEF IInv, Server
<1> QED BY <1>3, <1>6, <1>7, <1>8 DEF IInv

LEMMA ReturnedType ==
  ASSUME IInv, NEW t \in Thread, pc[t] # "idle", NEW res \in {"true", "false", "thrown"}
  PROVE  [id |-> call[t].id, kind |-> KindOf(t), n |-> call[t].n, result |-> res]
           \in [id : 1..MaxCalls, kind : Kind, n : 0..MaxRows, result : {"true", "false", "thrown"}]
<1>1. call[t].id \in 1..MaxCalls /\ KindOf(t) \in Kind /\ call[t].n \in 0..MaxRows
  BY Inside
<1> QED BY <1>1

LEMMA ReleaseIInv == ASSUME IInv, NEW t \in Thread, Release(t) PROVE IInv'
<1> DEFINE c == conn[t]
           n == Len(available_)
           res == IF ok[t] THEN "true" ELSE "false"
           r0 == [id |-> call[t].id, kind |-> KindOf(t), n |-> call[t].n, result |-> res]
<1> USE DatabaseAssumption DEF Release, Goto, server
<1>1. /\ pc[t] = "release" /\ c \in Conn /\ available_ \in Seq(Conn) /\ n \in Nat
      /\ available_' = Append(available_, c) /\ conn' = [conn EXCEPT ![t] = NULL]
      /\ pc' = [pc EXCEPT ![t] = "idle"] /\ leaked' = leaked
  BY Inside, LenProperties DEF IInv, TypeOK
<1>2. /\ available_' \in Seq(Conn) /\ Len(available_') = n + 1 /\ available_'[n + 1] = c
      /\ \A i \in 1..n : available_'[i] = available_[i]
  BY <1>1, AppendProperties
<1>3. /\ conn'[t] = NULL /\ pc'[t] = "idle"
      /\ \A u \in Thread \ {t} : conn'[u] = conn[u] /\ pc'[u] = pc[u]
  BY <1>1 DEF IInv, TypeOK
<1>4. TypeOK'
  <2>1. r0 \in [id : 1..MaxCalls, kind : Kind, n : 0..MaxRows, result : {"true", "false", "thrown"}]
    BY <1>1, ReturnedType
  <2>2. returned' = returned \cup {r0}
    OBVIOUS
  <2> HIDE DEF r0
  <2>3. pc' \in [Thread -> {"idle", "acquire", "begin", "prepare", "row", "deallocate",
                             "commit", "rollback", "release"}] /\ conn' \in [Thread -> Conn \cup {NULL}]
    BY <1>1 DEF IInv, TypeOK
  <2> QED BY <1>2, <2>1, <2>2, <2>3 DEF IInv, TypeOK
<1>5. Pool'
  <2>1. txn[c] = "none" /\ c # NULL
    BY <1>1 DEF IInv, Good
  <2>2. \A i \in 1..(n + 1) : i \in 1..n \/ i = n + 1
    BY <1>1
  <2>3. \A i \in 1..(n + 1) : \/ i \in 1..n /\ available_'[i] = available_[i]
                              \/ i = n + 1 /\ available_'[i] = c
    BY <1>2, <2>2
  <2>4. \A i \in 1..n : available_[i] # c
    BY <1>1 DEF IInv, Pool
  <2>5. \A i, j \in 1..(n + 1) : available_'[i] = available_'[j] => i = j
    BY <2>3, <2>4 DEF IInv, Pool
  <2>6. \A i \in 1..(n + 1) :
          /\ available_'[i] \notin leaked /\ txn[available_'[i]] = "none"
          /\ \A u \in Thread : conn'[u] # available_'[i]
    <3>1. \A u \in Thread : conn'[u] # c
      BY <1>3, <2>1 DEF IInv, Pool
    <3>2. \A i \in 1..n : available_[i] \in Conn
      BY <1>1
    <3> QED BY <1>3, <2>1, <2>3, <3>1, <3>2 DEF IInv, Pool
  <2>7. ASSUME NEW d \in Conn
        PROVE  \/ d \in leaked \/ \E u \in Thread : conn'[u] = d
               \/ \E i \in 1..(n + 1) : available_'[i] = d
    <3>1. CASE d = c
      <4>1. n + 1 \in 1..(n + 1)
        BY <1>1
      <4> QED BY <1>2, <3>1, <4>1
    <3>2. CASE d # c
      <4>1. \A i \in 1..n : i \in 1..(n + 1)
        BY <1>1
      <4> QED BY <1>2, <1>3, <3>2, <4>1 DEF IInv, Pool
    <3> QED BY <3>1, <3>2
  <2>8. \A u \in Thread : conn'[u] = NULL <=> pc'[u] \in {"idle", "acquire"}
    BY <1>3 DEF IInv, Pool
  <2>9. \A u, w \in Thread : conn'[u] = conn'[w] /\ conn'[u] # NULL => u = w
    BY <1>3 DEF IInv, Pool
  <2>10. leaked \in SUBSET Conn /\ NULL \notin leaked /\ \A u \in Thread : conn'[u] \notin leaked
    BY <1>3 DEF IInv, Pool, TypeOK
  <2> QED BY <1>1, <1>2, <2>5, <2>6, <2>7, <2>8, <2>9, <2>10 DEF Pool
<1>6. /\ Atomic(call[t])
      /\ res = "true" /\ KindOf(t) \notin Batches \cup Points => AllStored(call[t])
      /\ res # "true" /\ call[t].id \notin doubtful => NoneStored(call[t])
  BY <1>1 DEF IInv, Good
<1>7. /\ returned' = returned \cup
            {[id |-> call[t].id, kind |-> KindOf(t), n |-> call[t].n, result |-> res]}
      /\ UNCHANGED <<server, call, next, ok, calls>>
  OBVIOUS
<1> HIDE DEF res, Release
<1> QED BY <1>1, <1>3, <1>4, <1>5, <1>6, <1>7, EndKeeps

LEMMA ThrowIInv == ASSUME IInv, NEW t \in Thread, Throw(t) PROVE IInv'
<1> DEFINE c == conn[t]
           r0 == [id |-> call[t].id, kind |-> KindOf(t), n |-> call[t].n, result |-> "thrown"]
<1> USE DatabaseAssumption DEF Throw, Goto, server
<1>1. /\ pc[t] = "row" /\ c \in Conn /\ leaked' = leaked \cup {c} /\ available_' = available_
      /\ conn' = [conn EXCEPT ![t] = NULL] /\ pc' = [pc EXCEPT ![t] = "idle"] /\ txn' = txn
  BY Inside
<1>2. /\ conn'[t] = NULL /\ pc'[t] = "idle"
      /\ \A u \in Thread \ {t} : conn'[u] = conn[u] /\ pc'[u] = pc[u]
  BY <1>1 DEF IInv, TypeOK
<1>3. TypeOK'
  <2>1. r0 \in [id : 1..MaxCalls, kind : Kind, n : 0..MaxRows, result : {"true", "false", "thrown"}]
    BY <1>1, ReturnedType
  <2>2. returned' = returned \cup {r0}
    OBVIOUS
  <2> HIDE DEF r0
  <2>3. pc' \in [Thread -> {"idle", "acquire", "begin", "prepare", "row", "deallocate",
                             "commit", "rollback", "release"}] /\ conn' \in [Thread -> Conn \cup {NULL}]
    BY <1>1 DEF IInv, TypeOK
  <2> QED BY <1>1, <2>1, <2>2, <2>3 DEF IInv, TypeOK
<1>4. Pool'
  <2>1. c # NULL /\ NULL \notin leaked /\ \A i \in 1..Len(available_) : available_[i] # NULL
    BY <1>1 DEF IInv, TypeOK
  <2>2. \A u \in Thread : conn'[u] = NULL <=> pc'[u] \in {"idle", "acquire"}
    BY <1>2 DEF IInv, Pool
  <2>3. \A u, w \in Thread : conn'[u] = conn'[w] /\ conn'[u] # NULL => u = w
    BY <1>2 DEF IInv, Pool
  <2>4. \A u \in Thread : conn'[u] \notin leaked \cup {c}
    BY <1>2, <2>1 DEF IInv, Pool
  <2>5. \A i \in 1..Len(available_) :
          available_[i] \notin leaked \cup {c} /\ \A u \in Thread : conn'[u] # available_[i]
    BY <1>2, <2>1 DEF IInv, Pool
  <2>6. \A d \in Conn : \/ d \in leaked \cup {c} \/ \E u \in Thread : conn'[u] = d
                        \/ \E i \in 1..Len(available_) : available_[i] = d
    BY <1>2 DEF IInv, Pool
  <2> QED BY <1>1, <2>2, <2>3, <2>4, <2>5, <2>6 DEF IInv, Pool
<1>5. NoneStored(call[t])
  BY <1>1, InRow
<1>6. Atomic(call[t])
  BY <1>5 DEF Atomic
<1>7. /\ returned' = returned \cup
            {[id |-> call[t].id, kind |-> KindOf(t), n |-> call[t].n, result |-> "thrown"]}
      /\ UNCHANGED <<server, call, next, ok, calls>>
  OBVIOUS
<1>8. ASSUME NEW res, res = "thrown" PROVE IInv'
  <2>1. returned' = returned \cup
          {[id |-> call[t].id, kind |-> KindOf(t), n |-> call[t].n, result |-> res]}
    BY <1>7, <1>8
  <2>2. res # "true"
    BY <1>8
  <2> HIDE DEF Throw
  <2> QED BY <1>1, <1>2, <1>3, <1>4, <1>5, <1>6, <1>7, <2>1, <2>2, EndKeeps
<1> QED BY <1>8

LEMMA CallDbIInv ==
  ASSUME IInv, NEW t \in Thread, NEW kind \in Kind, NEW n \in Sizes(kind), CallDb(t, kind, n)
  PROVE  IInv'
<1> DEFINE q == [id |-> calls + 1, kind |-> kind, n |-> n]
<1> USE DatabaseAssumption DEF CallDb, Goto, server
<1>1. calls + 1 \in 1..MaxCalls /\ calls' = calls + 1 /\ calls \in Nat /\ n \in 0..MaxRows
  BY KindFacts DEF IInv, TypeOK
<1>2. q \in Call /\ q.id = calls + 1 /\ q.n = n /\ q.kind = kind /\ q # NULL
  BY <1>1 DEF Call
<1>3. call' = [call EXCEPT ![t] = q]
  OBVIOUS
<1> HIDE DEF q
<1>4. /\ ok' \in [Thread -> BOOLEAN] /\ (ok'[t] <=> kind \in Transactional \ Points)
      /\ \A u \in Thread \ {t} : ok'[u] = ok[u]
  <2>1. ok' = [ok EXCEPT ![t] = kind \in Transactional \ Points]
    OBVIOUS
  <2> DEFINE b == kind \in Transactional \ Points
  <2>2. ok' = [ok EXCEPT ![t] = b] /\ b \in BOOLEAN /\ ok \in [Thread -> BOOLEAN]
    BY <2>1 DEF IInv, TypeOK
  <2> HIDE DEF b, CallDb
  <2>3. ok' \in [Thread -> BOOLEAN] /\ ok'[t] = b /\ \A u \in Thread \ {t} : ok'[u] = ok[u]
    BY <2>2
  <2> QED BY <2>3 DEF b
<1>5. TypeOK'
  <2>1. call' \in [Thread -> Call \cup {NULL}]
    BY <1>2, <1>3 DEF IInv, TypeOK
  <2>2. ok' \in [Thread -> BOOLEAN]
    BY <1>4 DEF IInv, TypeOK
  <2>3. pc' \in [Thread -> {"idle", "acquire", "begin", "prepare", "row", "deallocate",
                             "commit", "rollback", "release"}] /\ next' \in [Thread -> 1..MaxRows]
    BY DEF IInv, TypeOK
  <2>4. calls' \in 0..MaxCalls
    BY <1>1
  <2> HIDE DEF CallDb
  <2>5. UNCHANGED <<available_, server, conn, leaked, returned>>
    BY DEF CallDb
  <2> QED BY <2>1, <2>2, <2>3, <2>4, <2>5 DEF IInv, TypeOK
<1>6. /\ call'[t] = q /\ pc'[t] = "acquire" /\ next'[t] = 1 /\ (ok'[t] <=> kind \in Transactional \ Points)
      /\ \A u \in Thread \ {t} : /\ call'[u] = call[u] /\ pc'[u] = pc[u] /\ next'[u] = next[u]
                                 /\ ok'[u] = ok[u]
  BY <1>3, <1>4 DEF IInv, TypeOK
<1>7. UNCHANGED <<available_, conn, leaked, returned, up, txn, buffer, table, doubtful>> /\ pc[t] = "idle"
  OBVIOUS
<1> HIDE DEF CallDb
<1>8. Pool'
  <2>1. \A u \in Thread : pc'[u] \in {"idle", "acquire"} <=> pc[u] \in {"idle", "acquire"}
    BY <1>6, <1>7
  <2> QED BY <1>7, <2>1 DEF IInv, Pool
<1>9. Server' /\ Finished'
  BY <1>7 DEF IInv, Server, Finished, Atomic, NoneStored, AllStored
<1>10. Ids'
  <2>1. \A u \in Thread \ {t} : call[u] # NULL => call[u].id \in Nat /\ call[u].id <= calls
    BY DEF IInv, TypeOK, Ids, Call
  <2>2. \A u \in Thread : call'[u] # NULL => call'[u].id <= calls'
    BY <1>1, <1>2, <1>6, <2>1
  <2>3. \A u, w \in Thread : call'[u] # NULL /\ call'[w] # NULL /\ call'[u].id = call'[w].id => u = w
    BY <1>1, <1>2, <1>6, <2>1 DEF IInv, Ids
  <2>4. \A r \in returned : r.id \in Nat /\ r.id <= calls
    BY DEF IInv, TypeOK, Ids
  <2>5. \A r \in returned', u \in Thread : call'[u] # NULL /\ r.id = call'[u].id => pc'[u] = "idle"
    BY <1>1, <1>2, <1>6, <1>7, <2>4 DEF IInv, Ids
  <2>6. \A r \in returned' : r.id <= calls'
    BY <1>1, <1>7, <2>4
  <2>7. \A i \in 1..MaxCalls, j \in 1..MaxRows : <<i, j>> \in table' => i <= calls'
    BY <1>1, <1>7 DEF IInv, Ids
  <2> QED BY <2>2, <2>3, <2>5, <2>6, <2>7 DEF Ids
<1>11. ASSUME NEW u \in Thread PROVE Good(u)'
  <2>1. CASE u # t
    <3>1. conn'[u] = conn[u]
      BY <1>7
    <3> QED BY <1>6, <1>7, <2>1, <3>1, StillGood
  <2>2. CASE u = t
    <3>1. Fresh(t)'
      BY <1>1, <1>2, <1>6, <1>7 DEF IInv, Ids, Fresh
    <3>2. KindOf(t)' = kind
      BY <1>2, <1>6 DEF KindOf
    <3> QED BY <1>2, <1>6, <2>2, <3>1, <3>2 DEF Good
  <2> QED BY <2>1, <2>2
<1> QED BY <1>5, <1>8, <1>9, <1>10, <1>11 DEF IInv

LEMMA LinkBreaksIInv == ASSUME IInv, NEW c \in Conn, LinkBreaks(c) PROVE IInv'
<1> USE DEF LinkBreaks, Cut, local
<1>1. UNCHANGED <<available_, table, doubtful, pc, call, conn, next, ok, calls, leaked, returned>>
  OBVIOUS
<1>2. /\ up' = [up EXCEPT ![c] = FALSE] /\ txn' = [txn EXCEPT ![c] = "none"]
      /\ buffer' = [buffer EXCEPT ![c] = {}] /\ prepared' = [prepared EXCEPT ![c] = FALSE]
      /\ refused' = refused
  OBVIOUS
<1> HIDE DEF LinkBreaks
<1>3. ~up'[c] /\ txn'[c] = "none" /\ buffer'[c] = {}
      /\ \A d \in Conn \ {c} : up'[d] = up[d] /\ txn'[d] = txn[d] /\ buffer'[d] = buffer[d]
  BY <1>2 DEF IInv, TypeOK
<1>4. TypeOK'
  <2>1. /\ up' \in [Conn -> BOOLEAN] /\ txn' \in [Conn -> {"none", "open", "aborted"}]
        /\ buffer' \in [Conn -> SUBSET Row] /\ prepared' \in [Conn -> BOOLEAN]
    BY <1>2 DEF IInv, TypeOK
  <2> QED BY <1>1, <1>2, <2>1 DEF IInv, TypeOK
<1>5. Server' /\ Ids' /\ Finished'
  <2>1. Server'
    BY <1>3 DEF IInv, Server
  <2>2. Ids'
    BY <1>1 DEF IInv, Ids
  <2>3. Finished'
    BY <1>1 DEF IInv, Finished, Atomic, NoneStored, AllStored
  <2> QED BY <2>1, <2>2, <2>3
<1>6. Pool'
  <2>1. \A i \in 1..Len(available_) : txn'[available_[i]] = "none"
    BY <1>3 DEF IInv, TypeOK, Pool
  <2> QED BY <1>1, <2>1 DEF IInv, Pool
<1>7. ASSUME NEW u \in Thread PROVE Good(u)'
  <2>1. OtherRows(0) /\ (call[u] # NULL => call[u].id # 0)
    BY <1>1, DatabaseAssumption DEF OtherRows, IInv, TypeOK, Call
  <2>2. CASE conn[u] # c
    BY <1>1, <1>3, <2>1, <2>2, GoodKept
  <2>3. CASE conn[u] = c
    <3>1. Good(u) /\ KindOf(u)' = KindOf(u) /\ (Fresh(u)' <=> Fresh(u))
      BY <1>1 DEF IInv, KindOf, Fresh
    <3>2. /\ Atomic(call[u])' <=> Atomic(call[u])
          /\ NoneStored(call[u])' <=> NoneStored(call[u])
          /\ AllStored(call[u])' <=> AllStored(call[u])
      BY <1>1 DEF Atomic, NoneStored, AllStored
    <3>3. /\ AtStatement(u) => AtStatement(u)'
          /\ AtRow(u) => AtRow(u)'
          /\ AtEnd(u) => AtEnd(u)'
      BY <1>1, <1>3, <2>3, <3>1 DEF AtStatement, AtRow, AtEnd
    <3> QED BY <1>1, <1>3, <2>3, <3>1, <3>2, <3>3 DEF Good
  <2> QED BY <2>2, <2>3
<1> QED BY <1>4, <1>5, <1>6, <1>7 DEF IInv

(***************************************************************************)
(* Init and Next.                                                          *)
(***************************************************************************)
(* The pool starts with every connection once.                             *)
LEMMA AllAvailable ==
  /\ SetToSeq(Conn) \in Seq(Conn)
  /\ \A i, j \in 1..Len(SetToSeq(Conn)) : SetToSeq(Conn)[i] = SetToSeq(Conn)[j] => i = j
  /\ \A c \in Conn : \E i \in 1..Len(SetToSeq(Conn)) : SetToSeq(Conn)[i] = c
<1> DEFINE n == Cardinality(Conn)
           f == SetToSeq(Conn)
<1>1. n \in Nat /\ ExistsBijection(1..n, Conn)
  BY DatabaseAssumption, FS_CardinalityType
<1>2. \E g \in [1..n -> Conn] : IsInjective(g)
  BY <1>1 DEF ExistsBijection, Bijection, Injection
<1>3. f \in [1..n -> Conn] /\ IsInjective(f)
  BY <1>2 DEF SetToSeq
<1> HIDE DEF f
<1>4. f \in Seq(Conn) /\ Len(f) = n
  BY <1>1, <1>3
<1>5. f \in Injection(1..n, Conn)
  BY <1>3 DEF Injection
<1>6. Cardinality(1..n) = n
  BY <1>1, FS_Interval
<1>7. f \in Surjection(1..n, Conn)
  BY <1>5, <1>6, FS_Injection, DatabaseAssumption
<1>8. \A i, j \in 1..n : f[i] = f[j] => i = j
  BY <1>3 DEF IsInjective
<1>9. \A c \in Conn : \E i \in 1..n : f[i] = c
  BY <1>7 DEF Surjection
<1> QED BY <1>4, <1>8, <1>9 DEF f

LEMMA InitIInv == Init => IInv
<1> SUFFICES ASSUME Init PROVE IInv
  OBVIOUS
<1> USE DatabaseAssumption DEF Init
<1>1. available_ = SetToSeq(Conn)
  OBVIOUS
<1>2. /\ available_ \in Seq(Conn) /\ (\A i \in 1..Len(available_) : available_[i] \in Conn)
      /\ \A i, j \in 1..Len(available_) : available_[i] = available_[j] => i = j
      /\ \A c \in Conn : \E i \in 1..Len(available_) : available_[i] = c
  BY <1>1, AllAvailable
<1>3. TypeOK
  BY <1>2 DEF TypeOK
<1>4. Pool
  BY <1>2 DEF Pool
<1>5. Server /\ Ids /\ Finished
  BY DEF Server, Ids, Finished
<1>6. \A t \in Thread : Good(t)
  BY DEF Good
<1> QED BY <1>3, <1>4, <1>5, <1>6 DEF IInv

LEMMA NextIInv == IInv /\ [Next]_vars => IInv'
<1> SUFFICES ASSUME IInv, [Next]_vars PROVE IInv'
  OBVIOUS
<1>1. CASE UNCHANGED vars
  <2>1. UNCHANGED <<available_, up, txn, buffer, prepared, table, refused, doubtful, pc, call,
                    conn, next, ok, calls, leaked, returned>>
    BY <1>1 DEF vars, server, local
  <2>2. TypeOK' /\ Pool' /\ Server' /\ Ids'
    BY <2>1 DEF IInv, TypeOK, Pool, Server, Ids
  <2>3. Finished'
    BY <2>1 DEF IInv, Finished, Atomic, NoneStored, AllStored
  <2>4. \A t \in Thread : Good(t)'
    BY <2>1, StillGood
  <2> QED BY <2>2, <2>3, <2>4 DEF IInv
<1>2. ASSUME NEW t \in Thread, NEW kind \in Kind, NEW n \in Sizes(kind), CallDb(t, kind, n)
      PROVE  IInv'
  BY <1>2, CallDbIInv
<1>3. ASSUME NEW t \in Thread, Acquire(t) PROVE IInv'
  BY <1>3, AcquireIInv
<1>4. ASSUME NEW t \in Thread, Step(t) PROVE IInv'
  BY <1>4, BeginIInv, PrepareIInv, RowStoredIInv, RowRefusedIInv, RowUnansweredIInv, ThrowIInv,
     DeallocateIInv, CommitSucceedsIInv, CommitRefusedIInv, CommitUnansweredIInv, RollbackIInv,
     ReleaseIInv DEF Step, Row_, Commit
<1>5. ASSUME NEW c \in Conn, LinkBreaks(c) PROVE IInv'
  BY <1>5, LinkBreaksIInv
<1> QED BY <1>1, <1>2, <1>3, <1>4, <1>5 DEF Next

LEMMA Invariance == Spec => []IInv
<1> QED BY InitIInv, NextIInv, PTL DEF Spec

(***************************************************************************)
(* The theorems.                                                           *)
(***************************************************************************)
(* The pool, the server and the calls keep their types.                    *)
THEOREM TypeCorrect == Spec => []TypeOK
<1>1. IInv => TypeOK
  BY DEF IInv
<1> QED BY <1>1, Invariance, PTL

(* acquire and release never give a connection to two callers, and every   *)
(* error path of every function ends its transaction before it releases.   *)
THEOREM PoolStaysSound == Spec => []PoolIsSound
<1>1. IInv => PoolIsSound
  <2> SUFFICES ASSUME IInv, NEW c \in Conn
               PROVE  /\ Cardinality(Held(c)) + Cardinality(Idle(c)) + (IF c \in leaked THEN 1 ELSE 0) = 1
                      /\ Idle(c) # {} => txn[c] = "none"
    BY DEF PoolIsSound, OnePlaceEach, PoolIsClean
  <2>1. available_ \in Seq(Conn) /\ DOMAIN available_ = 1..Len(available_) /\ c # NULL
    BY DatabaseAssumption, LenProperties DEF IInv, TypeOK
  <2>2. \A t, u \in Held(c) : t = u
    BY <2>1 DEF IInv, Pool, Held
  <2>3. \A i, j \in Idle(c) : i = j
    BY <2>1 DEF IInv, Pool, Idle
  <2>4. Idle(c) # {} => txn[c] = "none" /\ Held(c) = {} /\ c \notin leaked
    BY <2>1 DEF IInv, Pool, Idle, Held
  <2>5. Held(c) # {} => c \notin leaked
    BY <2>1 DEF IInv, Pool, Held
  <2>6. c \in leaked \/ Held(c) # {} \/ Idle(c) # {}
    BY <2>1 DEF IInv, Pool, Held, Idle
  <2>7. ASSUME NEW S, \A x, y \in S : x = y
        PROVE  Cardinality(S) = IF S = {} THEN 0 ELSE 1
    <3>1. S = {} \/ \E x : S = {x}
      BY <2>7
    <3> QED BY <3>1, FS_EmptySet, FS_Singleton
  <2>8. /\ Cardinality(Held(c)) = IF Held(c) = {} THEN 0 ELSE 1
        /\ Cardinality(Idle(c)) = IF Idle(c) = {} THEN 0 ELSE 1
    BY <2>2, <2>3, <2>7
  <2> QED BY <2>4, <2>5, <2>6, <2>8
<1> QED BY <1>1, Invariance, PTL

LEMMA RowsCut ==
  ASSUME NEW r, r.n \in Nat
  PROVE  /\ NoneStored(r) <=> RowsOf(r) \cap table = {}
         /\ AllStored(r) <=> RowsOf(r) \subseteq table
BY DEF NoneStored, AllStored, RowsOf

(* Whatever is refused and wherever the link breaks, the rows of a call    *)
(* are in the tables all or none, while it runs and after it returned.     *)
THEOREM RowsAreAtomic == Spec => []AllOrNothing
<1>1. IInv => AllOrNothing
  <2> SUFFICES ASSUME IInv, NEW r \in returned \cup ({call[t] : t \in Thread} \ {NULL})
               PROVE  RowsOf(r) \cap table \in {{}, RowsOf(r)}
    BY DEF AllOrNothing
  <2>1. r.n \in Nat /\ Atomic(r)
    <3>1. CASE r \in returned
      BY <3>1, DatabaseAssumption DEF IInv, Finished, TypeOK
    <3>2. CASE r \notin returned
      <4>1. PICK t \in Thread : r = call[t] /\ call[t] # NULL
        BY <3>2
      <4>2. Good(t) /\ call[t] \in Call /\ call[t].n \in 0..MaxRows
        BY <4>1 DEF IInv, TypeOK, Call
      <4>3. Fresh(t) => NoneStored(call[t])
        BY <4>2, DatabaseAssumption DEF Fresh, NoneStored
      <4>4. pc[t] \in {"idle", "acquire", "begin", "prepare", "row", "deallocate", "commit",
                       "rollback", "release"}
        BY DEF IInv, TypeOK
      <4>5. Fresh(t) \/ Atomic(call[t])
        BY <4>1, <4>2, <4>4 DEF Good, AtEnd
      <4> QED BY <4>1, <4>2, <4>3, <4>5, DatabaseAssumption DEF Atomic
    <3> QED BY <3>1, <3>2
  <2> QED BY <2>1, RowsCut DEF Atomic
<1> QED BY <1>1, Invariance, PTL

(* What a function returns is what the tables hold, except where it does   *)
(* not look at COMMIT or loses the answer.                                 *)
THEOREM ResultsAreTrue == Spec => []ResultIsTrue
<1>1. IInv => ResultIsTrue
  <2> SUFFICES ASSUME IInv, NEW r \in returned
               PROVE  /\ r.result = "true" /\ r.kind \notin Batches \cup Points => RowsOf(r) \subseteq table
                      /\ r.result # "true" /\ r.id \notin doubtful => RowsOf(r) \cap table = {}
    BY DEF ResultIsTrue
  <2>1. r.n \in Nat
    BY DatabaseAssumption DEF IInv, TypeOK
  <2> QED BY <2>1, RowsCut DEF IInv, Finished
<1> QED BY <1>1, Invariance, PTL
(***************************************************************************)
(* Stress grids: as long as every link is up and no refused grid has       *)
(* returned, a statement is prepared only on the connection of a grid that *)
(* is at its rows or was refused one of them, and only such a grid fails.  *)
(***************************************************************************)
LinkDown == \E c \in Conn : ~up[c]
GridLeft == \E q \in returned : q.kind \in Grids /\ q.id \in refused

GridOf(t) ==
  /\ conn[t] # NULL /\ prepared[conn[t]] =>
       /\ KindOf(t) \in Grids
       /\ \/ pc[t] \in {"row", "deallocate"}
          \/ pc[t] \in {"rollback", "release"} /\ call[t].id \in refused
  /\ pc[t] \in {"deallocate", "rollback", "release"} /\ KindOf(t) \in Grids /\ ~ok[t] =>
       call[t].id \in refused

GridsOK ==
  /\ \A t \in Thread : GridOf(t)
  /\ \A i \in 1..Len(available_) : ~prepared[available_[i]]
  /\ \A r \in returned : r.kind \in Grids /\ r.result = "false" => r.id \in refused

GridInv == LinkDown \/ GridLeft \/ GridsOK

(* A thread that a step leaves alone keeps its part.                       *)
LEMMA GridKept ==
  ASSUME NEW u \in Thread, GridOf(u), refused \subseteq refused', pc'[u] = pc[u],
         call'[u] = call[u], conn'[u] = conn[u], ok'[u] = ok[u],
         conn[u] # NULL /\ prepared'[conn[u]] => prepared[conn[u]]
  PROVE  GridOf(u)'
<1>1. KindOf(u)' = KindOf(u) /\ prepared'[conn'[u]] = prepared'[conn[u]]
  BY DEF KindOf
<1> QED BY <1>1 DEF GridOf

(* A statement of thread t.                                                *)
LEMMA GridStatement ==
  ASSUME IInv, GridsOK, NEW t \in Thread, pc[t] \notin {"idle", "acquire"}, GridOf(t)',
         \A u \in Thread \ {t} : pc'[u] = pc[u] /\ ok'[u] = ok[u],
         refused \subseteq refused', UNCHANGED <<available_, call, conn, returned>>,
         \A d \in Conn \ {conn[t]} : prepared'[d] = prepared[d]
  PROVE  GridsOK'
<1>1. conn[t] \in Conn
  BY Inside
<1>2. ASSUME NEW u \in Thread, u # t PROVE GridOf(u)'
  <2>1. conn[u] # NULL => conn[u] \in Conn \ {conn[t]}
    BY <1>1, <1>2 DEF IInv, Pool, TypeOK
  <2> QED BY <1>2, <2>1, GridKept DEF GridsOK
<1>3. \A i \in 1..Len(available_) : available_[i] \in Conn \ {conn[t]}
  BY <1>1 DEF IInv, Pool, TypeOK
<1>4. \A i \in 1..Len(available_') : ~prepared'[available_'[i]]
  BY <1>3 DEF GridsOK
<1>5. \A r \in returned' : r.kind \in Grids /\ r.result = "false" => r.id \in refused'
  BY DEF GridsOK
<1> QED BY <1>2, <1>4, <1>5 DEF GridsOK

LEMMA GridBegin ==
  ASSUME IInv, GridsOK, ~LinkDown, NEW t \in Thread, Begin(t)
  PROVE  GridsOK'
<1> USE DEF Begin, Goto
<1>1. conn[t] \in Conn /\ KindOf(t) \in Kind /\ pc[t] = "begin"
  BY Inside
<1>2. up[conn[t]] /\ txn[conn[t]] = "none"
  BY <1>1 DEF IInv, Good, LinkDown
<1>3. Answering(conn[t])
  BY <1>2 DEF Answering
<1>4. pc' = [pc EXCEPT ![t] = IF KindOf(t) \in Grids THEN "prepare"
                              ELSE IF call[t].n = 0 THEN "commit" ELSE "row"]
  BY <1>3
<1>5. /\ pc'[t] \in {"prepare", "row", "commit"} /\ \A u \in Thread \ {t} : pc'[u] = pc[u]
      /\ UNCHANGED <<available_, call, conn, returned, refused, prepared, ok>>
  BY <1>3, <1>4 DEF IInv, TypeOK
<1> HIDE DEF Begin
<1>6. ~prepared[conn[t]]
  BY <1>1, DatabaseAssumption DEF GridsOK, GridOf
<1>7. GridOf(t)'
  BY <1>5, <1>6 DEF GridOf
<1> QED BY <1>1, <1>5, <1>7, GridStatement

LEMMA GridPrepare ==
  ASSUME IInv, GridsOK, ~LinkDown, NEW t \in Thread, Prepare(t)
  PROVE  GridsOK'
<1> USE DEF Prepare, Goto
<1>1. conn[t] \in Conn /\ KindOf(t) \in Kind /\ pc[t] = "prepare" /\ KindOf(t) \in Grids
  BY Inside DEF IInv, Good
<1>2. up[conn[t]] /\ txn[conn[t]] = "open"
  BY <1>1 DEF IInv, Good, LinkDown
<1>3. ~prepared[conn[t]]
  BY <1>1, DatabaseAssumption DEF GridsOK, GridOf
<1>4. Answering(conn[t]) /\ ~prepared[conn[t]]
  BY <1>2, <1>3 DEF Answering
<1>5. /\ pc' = [pc EXCEPT ![t] = "row"] /\ prepared' = [prepared EXCEPT ![conn[t]] = TRUE]
      /\ UNCHANGED <<available_, call, conn, returned, refused, ok>>
  BY <1>4
<1> HIDE DEF Prepare
<1>6. pc'[t] = "row" /\ (\A u \in Thread \ {t} : pc'[u] = pc[u])
      /\ \A d \in Conn \ {conn[t]} : prepared'[d] = prepared[d]
  BY <1>5 DEF IInv, TypeOK
<1>7. GridOf(t)'
  BY <1>1, <1>5, <1>6 DEF GridOf, KindOf
<1> QED BY <1>1, <1>5, <1>6, <1>7, GridStatement

LEMMA GridRow ==
  ASSUME IInv, GridsOK, ~LinkDown, NEW t \in Thread, RowStored(t) \/ RowRefused(t)
  PROVE  GridsOK'
<1>1. /\ conn[t] \in Conn /\ KindOf(t) \in Kind /\ pc[t] = "row" /\ ok[t] \in BOOLEAN
      /\ UNCHANGED <<available_, call, conn, returned, prepared>>
  BY Inside DEF RowStored, RowRefused
<1>2. KindOf(t) \in Grids => KindOf(t) \in Transactional /\ StopsAtError(KindOf(t))
  BY <1>1, KindFacts
<1>3. KindOf(t) \in Grids => Answering(conn[t])
  BY <1>1, <1>2, KindFacts DEF IInv, Good, AtRow, LinkDown, Answering
<1>4. refused \subseteq refused'
  BY DEF RowStored, RowRefused
<1>5. \E g \in BOOLEAN : pc' = [pc EXCEPT ![t] = After(t, g)] /\ (g => ok' = [ok EXCEPT ![t] = TRUE])
                         /\ (~g => ok' = [ok EXCEPT ![t] = @ /\ ~StopsAtError(KindOf(t))])
                         /\ (~g /\ Answering(conn[t]) => call[t].id \in refused')
  <2>1. CASE RowStored(t)
    BY <2>1 DEF RowStored, Granted, Goto
  <2>2. CASE RowRefused(t)
    BY <2>2 DEF RowRefused, NotGranted, Goto
  <2> QED BY <2>1, <2>2
<1>6. PICK g \in BOOLEAN : /\ pc' = [pc EXCEPT ![t] = After(t, g)]
                           /\ g => ok' = [ok EXCEPT ![t] = TRUE]
                           /\ ~g => ok' = [ok EXCEPT ![t] = @ /\ ~StopsAtError(KindOf(t))]
                           /\ ~g /\ Answering(conn[t]) => call[t].id \in refused'
  BY <1>5
<1>7. /\ pc'[t] = After(t, g) /\ (g => ok'[t])
      /\ \A u \in Thread \ {t} : pc'[u] = pc[u] /\ ok'[u] = ok[u]
  BY <1>6 DEF IInv, TypeOK
<1>8. /\ KindOf(t) \in Grids => After(t, g) \in {"row", "deallocate"}
      /\ After(t, g) = "deallocate" => KindOf(t) \in Grids
  BY <1>2 DEF After
<1>9. GridOf(t)'
  <2>1. KindOf(t)' = KindOf(t) /\ call'[t] = call[t] /\ conn'[t] = conn[t] /\ prepared' = prepared
    BY <1>1 DEF KindOf
  <2>2. conn[t] # NULL /\ prepared[conn[t]] => KindOf(t) \in Grids
    BY <1>1 DEF GridsOK, GridOf
  <2>3. KindOf(t) \in Grids => pc'[t] \in {"row", "deallocate"} /\ (~ok'[t] => call[t].id \in refused')
    BY <1>3, <1>6, <1>7, <1>8
  <2> QED BY <2>1, <2>2, <2>3 DEF GridOf
<1> QED BY <1>1, <1>4, <1>7, <1>9, GridStatement

LEMMA GridDeallocate ==
  ASSUME IInv, GridsOK, ~LinkDown, NEW t \in Thread, Deallocate(t)
  PROVE  GridsOK'
<1> USE DEF Deallocate, Goto
<1>1. /\ conn[t] \in Conn /\ KindOf(t) \in Kind /\ pc[t] = "deallocate" /\ KindOf(t) \in Grids
      /\ ok[t] \in BOOLEAN
  BY Inside DEF IInv, Good
<1>2. up[conn[t]]
  BY <1>1 DEF LinkDown
<1>3. ok[t] => Answering(conn[t])
  BY <1>1, <1>2 DEF IInv, Good, Answering
<1>4. ~ok[t] => call[t].id \in refused
  BY <1>1 DEF GridsOK, GridOf
<1>5. /\ prepared' = [prepared EXCEPT ![conn[t]] = @ /\ ~Answering(conn[t])]
      /\ pc' = [pc EXCEPT ![t] = IF ok[t] THEN "commit" ELSE "rollback"]
      /\ UNCHANGED <<available_, call, conn, returned, refused, ok>>
  OBVIOUS
<1> HIDE DEF Deallocate
<1>6. /\ pc'[t] = IF ok[t] THEN "commit" ELSE "rollback"
      /\ \A u \in Thread \ {t} : pc'[u] = pc[u]
      /\ \A d \in Conn \ {conn[t]} : prepared'[d] = prepared[d]
      /\ Answering(conn[t]) => ~prepared'[conn[t]]
  BY <1>1, <1>5 DEF IInv, TypeOK
<1>7. GridOf(t)'
  <2>1. KindOf(t)' = KindOf(t) /\ call'[t] = call[t] /\ conn'[t] = conn[t] /\ ok'[t] = ok[t]
        /\ refused' = refused
    BY <1>5 DEF KindOf
  <2>2. CASE ok[t]
    BY <1>3, <1>6, <2>1, <2>2 DEF GridOf
  <2>3. CASE ~ok[t]
    BY <1>1, <1>4, <1>6, <2>1, <2>3 DEF GridOf
  <2> QED BY <2>2, <2>3
<1> QED BY <1>1, <1>5, <1>6, <1>7, GridStatement

LEMMA GridCommit ==
  ASSUME IInv, GridsOK, ~LinkDown, NEW t \in Thread, CommitSucceeds(t) \/ CommitRefused(t)
  PROVE  GridsOK'
<1>1. /\ conn[t] \in Conn /\ KindOf(t) \in Kind /\ pc[t] = "commit" /\ ok[t] \in BOOLEAN
      /\ UNCHANGED <<available_, call, conn, returned, prepared>>
      /\ refused \subseteq refused'
  BY Inside DEF CommitSucceeds, CommitRefused
<1>2. up[conn[t]]
  BY <1>1 DEF LinkDown
<1>3. ~prepared[conn[t]]
  BY <1>1, DatabaseAssumption DEF GridsOK, GridOf
<1>4. KindOf(t) \in Grids => ok[t]
  BY <1>1, KindFacts DEF IInv, Good
<1>5. /\ \A u \in Thread \ {t} : pc'[u] = pc[u] /\ ok'[u] = ok[u]
      /\ (ok'[t] <=> ok[t]) \/ call[t].id \in refused'
  <2>1. CASE CommitSucceeds(t)
    BY <2>1 DEF CommitSucceeds, Goto, IInv, TypeOK
  <2>2. CASE CommitRefused(t)
    BY <1>2, <2>2 DEF CommitRefused, CommitFailed, Goto, IInv, TypeOK
  <2> QED BY <2>1, <2>2
<1>6. GridOf(t)'
  <2>1. KindOf(t)' = KindOf(t) /\ call'[t] = call[t] /\ conn'[t] = conn[t] /\ prepared' = prepared
    BY <1>1 DEF KindOf
  <2> QED BY <1>3, <1>4, <1>5, <2>1 DEF GridOf
<1> QED BY <1>1, <1>5, <1>6, GridStatement

LEMMA GridRollback ==
  ASSUME IInv, GridsOK, NEW t \in Thread, Rollback(t)
  PROVE  GridsOK'
<1> USE DEF Rollback, Goto
<1>1. conn[t] \in Conn /\ pc[t] = "rollback"
      /\ UNCHANGED <<available_, call, conn, returned, prepared, refused, ok>>
  BY Inside
<1>2. pc'[t] = "release" /\ \A u \in Thread \ {t} : pc'[u] = pc[u]
  BY DEF IInv, TypeOK
<1> HIDE DEF Rollback
<1>3. GridOf(t)'
  <2>1. KindOf(t)' = KindOf(t) /\ call'[t] = call[t] /\ conn'[t] = conn[t] /\ prepared' = prepared
        /\ ok' = ok /\ refused' = refused
    BY <1>1 DEF KindOf
  <2>2. GridOf(t)
    BY DEF GridsOK
  <2> QED BY <1>1, <1>2, <2>1, <2>2 DEF GridOf
<1> QED BY <1>1, <1>2, <1>3, GridStatement

(* A function returns: a refused grid excuses what comes after it.         *)
LEMMA GridRelease ==
  ASSUME IInv, GridsOK, NEW t \in Thread, Release(t)
  PROVE  GridsOK' \/ GridLeft'
<1> USE DEF Release, Goto
<1>1. /\ conn[t] \in Conn /\ pc[t] = "release" /\ ok[t] \in BOOLEAN /\ available_ \in Seq(Conn)
      /\ conn[t] # NULL
  BY Inside, DatabaseAssumption DEF IInv, TypeOK
<1>2. ASSUME NEW b, b = [id |-> call[t].id, kind |-> KindOf(t), n |-> call[t].n,
                         result |-> IF ok[t] THEN "true" ELSE "false"]
      PROVE  GridsOK' \/ GridLeft'
  <2>1. /\ returned' = returned \cup {b} /\ b.id = call[t].id /\ b.kind = KindOf(t)
        /\ b.result = "false" => ~ok[t]
    BY <1>2
  <2>2. /\ available_' = Append(available_, conn[t]) /\ conn' = [conn EXCEPT ![t] = NULL]
        /\ pc' = [pc EXCEPT ![t] = "idle"] /\ UNCHANGED <<call, ok, prepared, refused>>
    BY DEF server
  <2> HIDE DEF Release
  <2>3. GridOf(t)
    BY DEF GridsOK
  <2>4. CASE KindOf(t) \in Grids /\ call[t].id \in refused
    BY <2>1, <2>2, <2>4 DEF GridLeft
  <2>5. CASE ~(KindOf(t) \in Grids /\ call[t].id \in refused)
    <3>1. ~prepared[conn[t]] /\ (KindOf(t) \in Grids => ok[t])
      BY <1>1, <2>3, <2>5 DEF GridOf
    <3>2. \A i \in 1..Len(available_') : ~prepared'[available_'[i]]
      BY <1>1, <2>2, <3>1 DEF GridsOK
    <3>3. \A r \in returned' : r.kind \in Grids /\ r.result = "false" => r.id \in refused'
      BY <2>1, <2>2, <3>1 DEF GridsOK
    <3>4. ASSUME NEW u \in Thread PROVE GridOf(u)'
      <4>1. CASE u = t
        BY <2>2, <4>1 DEF GridOf, IInv, TypeOK
      <4>2. CASE u # t
        <5>1. pc'[u] = pc[u] /\ call'[u] = call[u] /\ conn'[u] = conn[u] /\ ok'[u] = ok[u]
              /\ refused \subseteq refused' /\ prepared' = prepared
          BY <2>2, <4>2 DEF IInv, TypeOK
        <5> QED BY <5>1, GridKept DEF GridsOK
      <4> QED BY <4>1, <4>2
    <3> QED BY <3>2, <3>3, <3>4 DEF GridsOK
  <2> QED BY <2>4, <2>5
<1> QED BY <1>2

LEMMA GridThrow ==
  ASSUME IInv, GridsOK, NEW t \in Thread, Throw(t)
  PROVE  GridsOK'
<1> USE DEF Throw, Goto
<1>1. ASSUME NEW b, b = [id |-> call[t].id, kind |-> KindOf(t), n |-> call[t].n, result |-> "thrown"]
      PROVE  GridsOK'
  <2>1. returned' = returned \cup {b} /\ b.result # "false"
    BY <1>1
  <2>2. /\ conn' = [conn EXCEPT ![t] = NULL] /\ pc' = [pc EXCEPT ![t] = "idle"]
        /\ UNCHANGED <<available_, call, ok, prepared, refused>>
    BY DEF server
  <2> HIDE DEF Throw
  <2>3. \A i \in 1..Len(available_') : ~prepared'[available_'[i]]
    BY <2>2 DEF GridsOK
  <2>4. \A r \in returned' : r.kind \in Grids /\ r.result = "false" => r.id \in refused'
    BY <2>1, <2>2 DEF GridsOK
  <2>5. ASSUME NEW u \in Thread PROVE GridOf(u)'
    <3>1. CASE u = t
      BY <2>2, <3>1 DEF GridOf, IInv, TypeOK
    <3>2. CASE u # t
      <4>1. pc'[u] = pc[u] /\ call'[u] = call[u] /\ conn'[u] = conn[u] /\ ok'[u] = ok[u]
            /\ refused \subseteq refused' /\ prepared' = prepared
        BY <2>2, <3>2 DEF IInv, TypeOK
      <4> QED BY <4>1, GridKept DEF GridsOK
    <3> QED BY <3>1, <3>2
  <2> QED BY <2>3, <2>4, <2>5 DEF GridsOK
<1> QED BY <1>1

LEMMA GridAcquire ==
  ASSUME IInv, GridsOK, NEW t \in Thread, Acquire(t)
  PROVE  GridsOK'
<1> USE DEF Acquire, Goto
<1>1. /\ available_ \in Seq(Conn) /\ available_ # <<>> /\ pc[t] = "acquire"
      /\ UNCHANGED <<call, ok, prepared, refused, returned>>
  BY DEF IInv, TypeOK, server
<1>2. /\ Last(available_) = available_[Len(available_)] /\ Len(available_) \in 1..Len(available_)
      /\ Len(Front(available_)) = Len(available_) - 1
      /\ \A i \in 1..Len(Front(available_)) : Front(available_)[i] = available_[i]
  <2>1. Len(available_) \in Nat \ {0} /\ \A i \in 1..Len(available_) : available_[i] \in Conn
    BY <1>1, EmptySeq, LenProperties
  <2>2. Last(available_) = available_[Len(available_)]
        /\ Front(available_) = SubSeq(available_, 1, Len(available_) - 1)
    BY DEF Last, Front
  <2>3. Front(available_) = [i \in 1..(Len(available_) - 1) |-> available_[i]]
    BY <2>1, <2>2
  <2> DEFINE m == Len(available_)
             F == Front(available_)
  <2>4. F = [i \in 1..(m - 1) |-> available_[i]] /\ m \in Nat \ {0}
    BY <2>1, <2>3
  <2> HIDE DEF m, F, Acquire
  <2>5. F \in Seq(Conn) /\ Len(F) = m - 1
    <3>1. \A i \in 1..(m - 1) : available_[i] \in Conn
      BY <2>1, <2>4 DEF m
    <3> QED BY <2>4, <3>1
  <2>6. m \in 1..m /\ \A i \in 1..(m - 1) : F[i] = available_[i]
    BY <2>4
  <2> QED BY <2>2, <2>5, <2>6 DEF m, F
<1>3. ~prepared[Last(available_)]
  BY <1>1, <1>2 DEF GridsOK
<1>4. \A i \in 1..Len(available_') : ~prepared'[available_'[i]]
  <2>1. available_' = Front(available_)
    OBVIOUS
  <2> QED BY <1>1, <1>2, <2>1 DEF GridsOK
<1>5. \A r \in returned' : r.kind \in Grids /\ r.result = "false" => r.id \in refused'
  BY <1>1 DEF GridsOK
<1>6. ASSUME NEW u \in Thread PROVE GridOf(u)'
  <2>1. CASE u = t
    <3>1. conn'[t] = Last(available_) /\ pc'[t] \in {"begin", "row"}
      BY DEF IInv, TypeOK
    <3> QED BY <1>1, <1>3, <2>1, <3>1 DEF GridOf
  <2>2. CASE u # t
    <3>1. pc'[u] = pc[u] /\ call'[u] = call[u] /\ conn'[u] = conn[u] /\ ok'[u] = ok[u]
          /\ refused \subseteq refused' /\ prepared' = prepared
      BY <1>1, <2>2 DEF IInv, TypeOK
    <3> QED BY <3>1, GridKept DEF GridsOK
  <2> QED BY <2>1, <2>2
<1> QED BY <1>4, <1>5, <1>6 DEF GridsOK

LEMMA GridCallDb ==
  ASSUME IInv, GridsOK, NEW t \in Thread, NEW kind \in Kind, NEW n \in Sizes(kind),
         CallDb(t, kind, n)
  PROVE  GridsOK'
<1> USE DEF CallDb, Goto
<1>1. /\ UNCHANGED <<available_, conn, prepared, refused, returned>> /\ pc[t] = "idle"
      /\ pc' = [pc EXCEPT ![t] = "acquire"]
  BY DEF server
<1>2. \A u \in Thread \ {t} : call'[u] = call[u] /\ ok'[u] = ok[u] /\ pc'[u] = pc[u]
  BY DEF IInv, TypeOK
<1> HIDE DEF CallDb
<1>3. ASSUME NEW u \in Thread PROVE GridOf(u)'
  <2>1. CASE u = t
    <3>1. conn[t] = NULL /\ pc'[t] = "acquire"
      BY <1>1 DEF IInv, Pool, TypeOK
    <3> QED BY <1>1, <2>1, <3>1 DEF GridOf
  <2>2. CASE u # t
    BY <1>1, <1>2, <2>2, GridKept DEF GridsOK
  <2> QED BY <2>1, <2>2
<1> QED BY <1>1, <1>3 DEF GridsOK

(* What a step does to the links and to the history.                       *)
LEMMA GridHistory ==
  ASSUME IInv, Next
  PROVE  /\ refused \subseteq refused' /\ returned \subseteq returned'
         /\ \/ up' = up
            \/ \E c \in Conn : up[c] /\ up' = [up EXCEPT ![c] = FALSE]
<1>1. ASSUME NEW t \in Thread, NEW kind \in Kind, NEW n \in Sizes(kind), CallDb(t, kind, n)
      PROVE  refused' = refused /\ returned' = returned /\ up' = up
  BY <1>1 DEF CallDb, server
<1>2. ASSUME NEW t \in Thread, Acquire(t)
      PROVE  refused' = refused /\ returned' = returned /\ up' = up
  BY <1>2 DEF Acquire, server
<1>3. ASSUME NEW t \in Thread,
             Begin(t) \/ Prepare(t) \/ RowStored(t) \/ RowRefused(t) \/ Deallocate(t)
               \/ CommitSucceeds(t) \/ CommitRefused(t) \/ Rollback(t)
      PROVE  refused \subseteq refused' /\ returned' = returned /\ up' = up
  BY <1>3 DEF Begin, Prepare, RowStored, RowRefused, Deallocate, CommitSucceeds, CommitRefused, Rollback
<1>4. ASSUME NEW t \in Thread, Release(t) \/ Throw(t)
      PROVE  refused' = refused /\ returned \subseteq returned' /\ up' = up
  BY <1>4 DEF Release, Throw, server
<1>5. ASSUME NEW t \in Thread, RowUnanswered(t) \/ CommitUnanswered(t)
      PROVE  /\ refused' = refused /\ returned' = returned
             /\ \E c \in Conn : up[c] /\ up' = [up EXCEPT ![c] = FALSE]
  <2>1. conn[t] \in Conn
    BY <1>5, Inside DEF RowUnanswered, CommitUnanswered
  <2> QED BY <1>5, <2>1 DEF RowUnanswered, CommitUnanswered, Cut, Answering
<1>6. ASSUME NEW c \in Conn, LinkBreaks(c)
      PROVE  refused' = refused /\ returned' = returned /\ up[c] /\ up' = [up EXCEPT ![c] = FALSE]
  BY <1>6 DEF LinkBreaks, Cut
<1> QED BY <1>1, <1>2, <1>3, <1>4, <1>5, <1>6 DEF Next, Step, Row_, Commit

LEMMA GridStep == ASSUME IInv, GridInv, Next PROVE GridInv'
<1>1. /\ refused \subseteq refused' /\ returned \subseteq returned'
      /\ up' = up \/ \E c \in Conn : up[c] /\ up' = [up EXCEPT ![c] = FALSE]
  BY GridHistory
<1>2. CASE \E c \in Conn : up[c] /\ up' = [up EXCEPT ![c] = FALSE]
  <2>1. PICK c \in Conn : up' = [up EXCEPT ![c] = FALSE]
    BY <1>2
  <2>2. ~up'[c]
    BY <2>1 DEF IInv, TypeOK
  <2> QED BY <2>2 DEF GridInv, LinkDown
<1>3. CASE up' = up /\ (LinkDown \/ GridLeft)
  BY <1>1, <1>3 DEF GridInv, LinkDown, GridLeft
<1>4. CASE up' = up /\ ~LinkDown /\ ~GridLeft
  <2>1. GridsOK
    BY <1>4 DEF GridInv
  <2>2. ASSUME NEW t \in Thread, NEW kind \in Kind, NEW n \in Sizes(kind), CallDb(t, kind, n)
        PROVE  GridsOK'
    BY <2>1, <2>2, GridCallDb
  <2>3. ASSUME NEW t \in Thread, Acquire(t) PROVE GridsOK'
    BY <2>1, <2>3, GridAcquire
  <2>4. ASSUME NEW t \in Thread, Step(t) PROVE GridsOK' \/ GridLeft'
    <3>1. ~RowUnanswered(t) /\ ~CommitUnanswered(t)
      <4>1. ASSUME RowUnanswered(t) \/ CommitUnanswered(t) PROVE FALSE
        <5>1. conn[t] \in Conn /\ up[conn[t]] /\ up' = [up EXCEPT ![conn[t]] = FALSE]
          BY <4>1, Inside DEF RowUnanswered, CommitUnanswered, Cut, Answering
        <5> QED BY <1>4, <5>1 DEF IInv, TypeOK
      <4> QED BY <4>1
    <3> QED BY <1>4, <2>1, <2>4, <3>1, GridBegin, GridPrepare, GridRow, GridThrow, GridDeallocate,
               GridCommit, GridRollback, GridRelease DEF Step, Row_, Commit
  <2>5. ASSUME NEW c \in Conn, LinkBreaks(c) PROVE FALSE
    BY <1>4, <2>5 DEF LinkBreaks, Cut, IInv, TypeOK
  <2> QED BY <2>2, <2>3, <2>4, <2>5 DEF Next, GridInv
<1> QED BY <1>1, <1>2, <1>3, <1>4

(* A stress grid fails only when one of its own statements was refused,    *)
(* when a link broke, or when a refused grid left its prepared statement   *)
(* on a connection: insert_stress_grid_points cleans up on every other     *)
(* path.                                                                   *)
THEOREM GridsAreSavedUnlessLeft == Spec => []GridIsSavedUnlessLeft
<1>1. Init => GridInv
  <2> SUFFICES ASSUME Init PROVE GridsOK
    BY DEF GridInv
  <2>1. available_ \in Seq(Conn)
    BY InitIInv DEF IInv, TypeOK
  <2>2. /\ \A t \in Thread : pc[t] = "idle" /\ conn[t] = NULL
        /\ \A c \in Conn : ~prepared[c]
        /\ returned = {}
    BY DEF Init
  <2> QED BY <2>1, <2>2 DEF GridsOK, GridOf
<1>2. IInv /\ GridInv /\ [Next]_vars => GridInv'
  <2> SUFFICES ASSUME IInv, GridInv, [Next]_vars PROVE GridInv'
    OBVIOUS
  <2>1. CASE UNCHANGED vars
    <3>1. UNCHANGED <<available_, up, prepared, refused, pc, call, conn, ok, returned>>
      BY <2>1 DEF vars, server, local
    <3>2. \A t \in Thread : GridOf(t) => GridOf(t)'
      BY <3>1 DEF GridOf, KindOf
    <3> QED BY <3>1, <3>2 DEF GridInv, GridsOK, LinkDown, GridLeft
  <2> QED BY <2>1, GridStep
<1>3. GridInv => GridIsSavedUnlessLeft
  BY DEF GridInv, GridsOK, LinkDown, GridLeft, GridIsSavedUnlessLeft
<1> QED BY <1>1, <1>2, <1>3, Invariance, PTL DEF Spec
=============================================================================
