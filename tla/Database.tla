------------------------------ MODULE Database ------------------------------
(***************************************************************************)
(* backend/src/database.cpp and database_extensions.cpp: the connection    *)
(* pool and the calls of DatabaseManager, made by the AlertWs worker and   *)
(* the io threads, against a PostgreSQL server that is modelled as far as  *)
(* the calls rely on it: autocommit, a transaction that an error aborts,   *)
(* a COMMIT of an aborted transaction that reports success, prepared       *)
(* statements that survive a rollback, and a link that may break.          *)
(*                                                                         *)
(* Every call follows one of the few control skeletons below.  A row is    *)
(* <<call, i>>: the i-th row the call tries to insert.                     *)
(***************************************************************************)
EXTENDS Naturals, Sequences, FiniteSets, SequencesExt

CONSTANTS
  Thread,     \* callers
  Conn,       \* connections that were up when the pool was built
  Kind,       \* the functions that are called, out of AllKinds
  NULL,
  MaxCalls,   \* bound: calls in a behaviour
  MaxRows,    \* bound: rows of a batch
  MaxErrors,  \* bound: calls with refused statements
  MaxLost     \* bound: links that break

(* Functions that send one statement outside a transaction.                *)
SensorInserts == {"insert_laser_data", "insert_vibration_data"}
CrackInserts == {"insert_crack"}
AlertInserts == {"insert_alert"}
ResultInserts == {"insert_prediction", "insert_simulation"}
PacketInserts == {"log_profinet_packet"}
StressInserts == {"insert_stress_analysis"}
PenetrationInserts == {"insert_penetration_prediction"}
BendingInserts == {"insert_bending_test_result"}
RepairInserts == {"insert_virtual_repair_record"}
PorcelainQueries == {"get_all_porcelains", "get_porcelain"}
CrackQueries == {"get_cracks_by_porcelain", "get_crack", "get_crack_points"}
AlertQueries == {"get_active_alerts"}
MaterialQueries == {"get_repair_materials"}
StatusUpdates == {"update_alert_status"}
StressQueries == {"get_latest_stress_analysis", "get_stress_analysis_history"}
PenetrationQueries == {"get_penetration_predictions"}
BendingQueries == {"get_bending_test_results"}

Inserts == SensorInserts \cup CrackInserts \cup AlertInserts \cup ResultInserts
             \cup PacketInserts \cup StressInserts \cup PenetrationInserts
             \cup BendingInserts \cup RepairInserts
Queries == PorcelainQueries \cup CrackQueries \cup AlertQueries \cup MaterialQueries
             \cup StatusUpdates \cup StressQueries \cup PenetrationQueries \cup BendingQueries

(* Functions that insert several rows in a transaction.                    *)
Batches == {"batch_insert_laser_data", "batch_insert_vibration_data"}
Points == {"insert_crack_points"}
Detections == {"batch_insert_crack_detections"}
Grids == {"insert_stress_grid_points"}
Transactional == Batches \cup Points \cup Detections \cup Grids
AllKinds == Inserts \cup Queries \cup Transactional

(* A failed statement ends the loop over the rows, except for the points   *)
(* of a crack, where the loop goes on.                                     *)
StopsAtError(kind) == kind \notin Points

(* batch_insert_crack_detections without a look at COMMIT (mutant).        *)
ChecksCommit_notDetections(kind) == kind \in Grids \cup Points

(* The result of COMMIT decides what the function returns.                 *)
ChecksCommit(kind) == kind \in Detections \cup Grids \cup Points

(* The rows of a call.  The batches return before they take a connection   *)
(* when there is nothing to insert, so they start at one row.              *)
Sizes(kind) ==
  IF kind \in Queries THEN {0}
  ELSE IF kind \in Inserts THEN {1}
  ELSE IF kind \in Points THEN 0..MaxRows
  ELSE 1..MaxRows

(* Between acquire and the statement only the dump of the raw payload of a *)
(* packet can throw: bytes that are no UTF-8.  All other JSON comes from a *)
(* JSON parser or from a jsonb column.                                     *)
MayThrow(kind) == kind \in PacketInserts

ASSUME DatabaseAssumption ==
  /\ Kind \subseteq AllKinds /\ IsFiniteSet(Conn)
  /\ NULL \notin Conn \cup [id : 1..MaxCalls, kind : Kind, n : 0..MaxRows]
  /\ {MaxCalls, MaxRows, MaxErrors, MaxLost} \subseteq Nat /\ MaxRows > 0

VARIABLES
  available_, \* the pool's stack of idle connections
  up,         \* the link of each connection
  txn,        \* server: "none", "open" or "aborted", of each connection
  buffer,     \* server: rows inserted in the open transaction
  prepared,   \* server: stress_grid_point_insert is prepared on the connection
  table,      \* server: committed rows
  pc,         \* where each thread is in its call
  call,       \* the call of each thread: [id, kind, n]
  conn,       \* the connection it holds, or NULL
  next,       \* the row it inserts next
  ok,         \* ok, or id > 0, or last_id > 0: what it will return
  calls,      \* number of calls made
  refused,    \* history: calls with a statement the server refused
  doubtful,   \* history: calls whose link broke before the server's answer
  leaked,     \* history: connections an exception kept from the pool
  returned    \* history: [id, kind, n, result] of the finished calls

server == <<up, txn, buffer, prepared, table, refused, doubtful>>
local == <<pc, call, conn, next, ok>>
vars == <<available_, server, local, calls, leaked, returned>>

Row == (1..MaxCalls) \X (1..MaxRows)
Call == [id : 1..MaxCalls, kind : Kind, n : 0..MaxRows]

TypeOK ==
  /\ available_ \in Seq(Conn) /\ up \in [Conn -> BOOLEAN]
  /\ txn \in [Conn -> {"none", "open", "aborted"}] /\ buffer \in [Conn -> SUBSET Row]
  /\ prepared \in [Conn -> BOOLEAN] /\ table \in SUBSET Row
  /\ pc \in [Thread -> {"idle", "acquire", "begin", "prepare", "row", "deallocate",
                        "commit", "rollback", "release"}]
  /\ call \in [Thread -> Call \cup {NULL}] /\ conn \in [Thread -> Conn \cup {NULL}]
  /\ next \in [Thread -> 1..MaxRows] /\ ok \in [Thread -> BOOLEAN]
  /\ calls \in 0..MaxCalls /\ refused \in SUBSET (1..MaxCalls)
  /\ doubtful \in SUBSET (1..MaxCalls) /\ leaked \in SUBSET Conn
  /\ returned \in SUBSET [id : 1..MaxCalls, kind : Kind, n : 0..MaxRows,
                          result : {"true", "false", "thrown"}]

(* DatabasePool::DatabasePool: all connected connections are available.    *)
Init ==
  /\ available_ = SetToSeq(Conn) /\ up = [c \in Conn |-> TRUE]
  /\ txn = [c \in Conn |-> "none"] /\ buffer = [c \in Conn |-> {}]
  /\ prepared = [c \in Conn |-> FALSE] /\ table = {}
  /\ pc = [t \in Thread |-> "idle"] /\ call = [t \in Thread |-> NULL]
  /\ conn = [t \in Thread |-> NULL] /\ next = [t \in Thread |-> 1]
  /\ ok = [t \in Thread |-> FALSE] /\ calls = 0 /\ refused = {}
  /\ doubtful = {} /\ leaked = {} /\ returned = {}

Goto(t, l) == pc' = [pc EXCEPT ![t] = l]
KindOf(t) == call[t].kind
RowsOf(r) == {r.id} \X (1..r.n)
Answering(c) == up[c] /\ txn[c] # "aborted"
MayRefuse(t) == call[t].id \in refused \/ Cardinality(refused) < MaxErrors
MayBreak == Cardinality({c \in Conn : ~up[c]}) < MaxLost

(* The server drops a connection: what was not committed is gone.          *)
Cut(c) ==
  /\ up' = [up EXCEPT ![c] = FALSE] /\ txn' = [txn EXCEPT ![c] = "none"]
  /\ buffer' = [buffer EXCEPT ![c] = {}] /\ prepared' = [prepared EXCEPT ![c] = FALSE]
-----------------------------------------------------------------------------
(* A function of DatabaseManager is called.                                *)
CallDb(t, kind, n) ==
  /\ pc[t] = "idle" /\ calls < MaxCalls
  /\ calls' = calls + 1
  /\ call' = [call EXCEPT ![t] = [id |-> calls + 1, kind |-> kind, n |-> n]]
  /\ next' = [next EXCEPT ![t] = 1]
  /\ ok' = [ok EXCEPT ![t] = kind \in Transactional \ Points]
  /\ Goto(t, "acquire")
  /\ UNCHANGED <<available_, server, conn, leaked, returned>>

(* DatabasePool::acquire: the last connection released; waits for one.     *)
Acquire(t) ==
  /\ pc[t] = "acquire" /\ available_ # <<>>
  /\ conn' = [conn EXCEPT ![t] = Last(available_)]
  /\ available_' = Front(available_)
  /\ Goto(t, IF KindOf(t) \in Transactional THEN "begin" ELSE "row")
  /\ UNCHANGED <<server, call, next, ok, calls, leaked, returned>>

(* DatabasePool::release, and the return of the function.                  *)
Release(t) ==
  /\ pc[t] = "release"
  /\ available_' = Append(available_, conn[t])
  /\ conn' = [conn EXCEPT ![t] = NULL]
  /\ returned' = returned \cup {[id |-> call[t].id, kind |-> KindOf(t), n |-> call[t].n,
                                 result |-> IF ok[t] THEN "true" ELSE "false"]}
  /\ Goto(t, "idle")
  /\ UNCHANGED <<server, call, next, ok, calls, leaked>>

(* The dump of the payload throws: nobody releases the connection.         *)
Throw(t) ==
  /\ pc[t] = "row" /\ MayThrow(KindOf(t))
  /\ leaked' = leaked \cup {conn[t]}
  /\ conn' = [conn EXCEPT ![t] = NULL]
  /\ returned' = returned \cup {[id |-> call[t].id, kind |-> KindOf(t), n |-> call[t].n,
                                 result |-> "thrown"]}
  /\ Goto(t, "idle")
  /\ UNCHANGED <<available_, server, call, next, ok, calls>>

(* begin_transaction that is taken to succeed (mutant).                    *)
Begin_unchecked(t) ==
  /\ pc[t] = "begin"
  /\ Goto(t, IF KindOf(t) \in Grids THEN "prepare" ELSE IF call[t].n = 0 THEN "commit" ELSE "row")
  /\ UNCHANGED <<available_, server, call, conn, next, ok, calls, leaked, returned>>

(* A failed begin_transaction after which the connection is kept (mutant). *)
Begin_keeps(t) ==
  LET c == conn[t] IN
  /\ pc[t] = "begin"
  /\ IF Answering(c)
     THEN /\ txn' = [txn EXCEPT ![c] = "open"]
          /\ Goto(t, IF KindOf(t) \in Grids THEN "prepare" ELSE IF call[t].n = 0 THEN "commit" ELSE "row")
          /\ UNCHANGED ok
     ELSE /\ ok' = [ok EXCEPT ![t] = FALSE] /\ Goto(t, "begin")
          /\ UNCHANGED txn
  /\ UNCHANGED <<available_, up, buffer, prepared, table, refused, doubtful,
                 call, conn, next, calls, leaked, returned>>

(* begin_transaction; when it fails the function returns at once.          *)
Begin(t) ==
  LET c == conn[t] IN
  /\ pc[t] = "begin"
  /\ IF Answering(c)
     THEN /\ txn' = [txn EXCEPT ![c] = "open"]
          /\ Goto(t, IF KindOf(t) \in Grids THEN "prepare" ELSE IF call[t].n = 0 THEN "commit" ELSE "row")
          /\ UNCHANGED ok
     ELSE /\ ok' = [ok EXCEPT ![t] = FALSE] /\ Goto(t, "release")
          /\ UNCHANGED txn
  /\ UNCHANGED <<available_, up, buffer, prepared, table, refused, doubtful,
                 call, conn, next, calls, leaked, returned>>

(* PREPARE; the server refuses it when the name is taken, which aborts the *)
(* transaction.                                                            *)
Prepare(t) ==
  LET c == conn[t] IN
  /\ pc[t] = "prepare"
  /\ IF Answering(c) /\ ~prepared[c]
     THEN /\ prepared' = [prepared EXCEPT ![c] = TRUE]
          /\ Goto(t, "row")
          /\ UNCHANGED <<txn, buffer, ok>>
     ELSE /\ txn' = [txn EXCEPT ![c] = IF up[c] THEN "aborted" ELSE @]
          /\ buffer' = [buffer EXCEPT ![c] = {}]
          /\ ok' = [ok EXCEPT ![t] = FALSE] /\ Goto(t, "rollback")
          /\ UNCHANGED prepared
  /\ UNCHANGED <<available_, up, table, refused, doubtful, call, conn, next, calls, leaked, returned>>

(* Where a function goes after the statement: on in its loop or out of it. *)
After(t, granted) ==
  LET kind == KindOf(t)
      stop == ~granted /\ StopsAtError(kind)
  IN  IF kind \notin Transactional THEN "release"
      ELSE IF ~stop /\ next[t] < call[t].n THEN "row"
      ELSE IF kind \in Grids THEN "deallocate"
      ELSE IF stop THEN "rollback"
      ELSE "commit"

NewRow(t) == IF KindOf(t) \in Queries THEN {} ELSE {<<call[t].id, next[t]>>}

(* The statement was granted: on to the next row.                          *)
Granted(t) ==
  /\ ok' = [ok EXCEPT ![t] = TRUE]
  /\ next' = [next EXCEPT ![t] = IF @ < call[t].n THEN @ + 1 ELSE @]
  /\ Goto(t, After(t, TRUE))

(* It was not: some functions stop at the first failure.                   *)
NotGranted(t) ==
  /\ ok' = [ok EXCEPT ![t] = @ /\ ~StopsAtError(KindOf(t))]
  /\ next' = [next EXCEPT ![t] = IF @ < call[t].n THEN @ + 1 ELSE @]
  /\ Goto(t, After(t, FALSE))

(* The statement is executed, inside the transaction if there is one.      *)
RowStored(t) ==
  LET c == conn[t] IN
  /\ pc[t] = "row" /\ Answering(c)
  /\ IF txn[c] = "open"
     THEN buffer' = [buffer EXCEPT ![c] = @ \cup NewRow(t)] /\ UNCHANGED table
     ELSE table' = table \cup NewRow(t) /\ UNCHANGED buffer
  /\ Granted(t)
  /\ UNCHANGED <<available_, up, txn, prepared, refused, doubtful, call, conn, calls, leaked, returned>>

(* The statement is refused, and so is every one in an aborted transaction *)
(* and on a broken link.                                                   *)
RowRefused(t) ==
  LET c == conn[t] IN
  /\ pc[t] = "row"
  /\ IF Answering(c)
     THEN /\ MayRefuse(t)
          /\ refused' = refused \cup {call[t].id}
          /\ txn' = [txn EXCEPT ![c] = IF @ = "open" THEN "aborted" ELSE @]
          /\ buffer' = [buffer EXCEPT ![c] = {}]
     ELSE UNCHANGED <<refused, txn, buffer>>
  /\ NotGranted(t)
  /\ UNCHANGED <<available_, up, prepared, table, doubtful, call, conn, calls, leaked, returned>>

(* The link breaks after the server executed the statement.                *)
RowUnanswered(t) ==
  LET c == conn[t] IN
  /\ pc[t] = "row" /\ Answering(c) /\ MayBreak
  /\ table' = IF txn[c] = "none" THEN table \cup NewRow(t) ELSE table
  /\ doubtful' = doubtful \cup {call[t].id}
  /\ Cut(c)
  /\ NotGranted(t)
  /\ UNCHANGED <<available_, refused, call, conn, calls, leaked, returned>>

(* A success path without DEALLOCATE (mutant).                             *)
Deallocate_skipped(t) ==
  /\ pc[t] = "deallocate"
  /\ Goto(t, IF ok[t] THEN "commit" ELSE "rollback")
  /\ UNCHANGED <<available_, server, call, conn, next, ok, calls, leaked, returned>>

(* DEALLOCATE, before the transaction is ended: refused in an aborted one. *)
Deallocate(t) ==
  LET c == conn[t] IN
  /\ pc[t] = "deallocate"
  /\ prepared' = [prepared EXCEPT ![c] = @ /\ ~Answering(c)]
  /\ Goto(t, IF ok[t] THEN "commit" ELSE "rollback")
  /\ UNCHANGED <<available_, up, txn, buffer, table, refused, doubtful,
                 call, conn, next, ok, calls, leaked, returned>>

EndTxn(c) == txn' = [txn EXCEPT ![c] = "none"] /\ buffer' = [buffer EXCEPT ![c] = {}]

(* COMMIT reports success, also when it ended an aborted transaction.      *)
CommitSucceeds(t) ==
  LET c == conn[t] IN
  /\ pc[t] = "commit" /\ up[c]
  /\ table' = table \cup buffer[c]
  /\ EndTxn(c)
  /\ Goto(t, "release")
  /\ UNCHANGED <<available_, up, prepared, refused, doubtful, call, conn, next, ok, calls, leaked, returned>>

(* A failed COMMIT is followed by ROLLBACK, or not looked at.              *)
CommitFailed(t) ==
  IF ChecksCommit(KindOf(t))
  THEN ok' = [ok EXCEPT ![t] = FALSE] /\ Goto(t, "rollback")
  ELSE UNCHANGED ok /\ Goto(t, "release")

(* COMMIT is refused, or the link is broken.                               *)
CommitRefused(t) ==
  LET c == conn[t] IN
  /\ pc[t] = "commit"
  /\ IF up[c]
     THEN /\ txn[c] = "open" /\ MayRefuse(t)
          /\ refused' = refused \cup {call[t].id} /\ EndTxn(c)
     ELSE UNCHANGED <<refused, txn, buffer>>
  /\ CommitFailed(t)
  /\ UNCHANGED <<available_, up, prepared, table, doubtful, call, conn, next, calls, leaked, returned>>

(* The link breaks after the server committed.                             *)
CommitUnanswered(t) ==
  LET c == conn[t] IN
  /\ pc[t] = "commit" /\ up[c] /\ MayBreak
  /\ table' = table \cup buffer[c]
  /\ doubtful' = doubtful \cup {call[t].id}
  /\ Cut(c)
  /\ CommitFailed(t)
  /\ UNCHANGED <<available_, refused, call, conn, next, calls, leaked, returned>>

(* A function that returns its failed transaction to the pool (mutant).    *)
Rollback_forgotten(t) ==
  /\ pc[t] = "rollback"
  /\ Goto(t, "release")
  /\ UNCHANGED <<available_, server, call, conn, next, ok, calls, leaked, returned>>

(* rollback_transaction.                                                   *)
Rollback(t) ==
  /\ pc[t] = "rollback"
  /\ EndTxn(conn[t])
  /\ Goto(t, "release")
  /\ UNCHANGED <<available_, up, prepared, table, refused, doubtful,
                 call, conn, next, ok, calls, leaked, returned>>

(* The link of a connection breaks between two statements.                 *)
LinkBreaks(c) ==
  /\ up[c] /\ MayBreak
  /\ Cut(c)
  /\ UNCHANGED <<available_, table, refused, doubtful, local, calls, leaked, returned>>

Row_(t) == RowStored(t) \/ RowRefused(t) \/ RowUnanswered(t) \/ Throw(t)
Commit(t) == CommitSucceeds(t) \/ CommitRefused(t) \/ CommitUnanswered(t)
Step(t) ==
  Begin(t) \/ Prepare(t) \/ Row_(t) \/ Deallocate(t) \/ Commit(t) \/ Rollback(t) \/ Release(t)

Next ==
  \/ \E t \in Thread :
       (\E kind \in Kind : \E n \in Sizes(kind) : CallDb(t, kind, n)) \/ Acquire(t) \/ Step(t)
  \/ \E c \in Conn : LinkBreaks(c)

Spec == Init /\ [][Next]_vars

(* The server answers or the link breaks, and a caller takes a connection  *)
(* that stays free.  Nobody has to call.                                   *)
Fairness == \A t \in Thread : WF_vars(Step(t)) /\ WF_vars(Acquire(t))

FairSpec == Spec /\ Fairness
-----------------------------------------------------------------------------
Held(c) == {t \in Thread : conn[t] = c}
Idle(c) == {i \in DOMAIN available_ : available_[i] = c}

(* Every connection is in the pool, or with one thread, or was lost to an  *)
(* exception: never in two places, so two threads never share one.         *)
OnePlaceEach ==
  \A c \in Conn :
    Cardinality(Held(c)) + Cardinality(Idle(c)) + (IF c \in leaked THEN 1 ELSE 0) = 1

(* No call leaves a transaction open behind it: the next borrower's insert *)
(* would wait for a COMMIT that never comes.                               *)
PoolIsClean == \A c \in Conn : Idle(c) # {} => txn[c] = "none"

(* The pool hands out every connection to one caller at a time, and clean. *)
PoolIsSound == OnePlaceEach /\ PoolIsClean

(* The rows of a call are committed all or none, at any time, whatever     *)
(* statement is refused and wherever the link breaks.                      *)
AllOrNothing ==
  \A r \in returned \cup ({call[t] : t \in Thread} \ {NULL}) :
    RowsOf(r) \cap table \in {{}, RowsOf(r)}

(* What a call returned is true: success means the rows are there, except  *)
(* for the two batches and the crack points, which do not notice; failure  *)
(* means they are not, unless the link broke before the answer.            *)
ResultIsTrue ==
  \A r \in returned :
    /\ r.result = "true" /\ r.kind \notin Batches \cup Points => RowsOf(r) \subseteq table
    /\ r.result # "true" /\ r.id \notin doubtful => RowsOf(r) \cap table = {}

(* Every call returns, unless exceptions have emptied the pool: that is    *)
(* the only way to wait for ever.                                          *)
CallsReturnUnlessLeaked ==
  \A t \in Thread : (pc[t] = "acquire") ~> (pc[t] = "idle" \/ leaked = Conn)

(* A stress grid none of whose rows is refused is saved, unless a link     *)
(* broke or an earlier grid was refused: only a refused grid leaves its    *)
(* prepared statement on a connection, where the next PREPARE fails.       *)
GridIsSavedUnlessLeft ==
  \A r \in returned :
    r.kind \in Grids /\ r.result = "false" =>
      \/ r.id \in refused \cup doubtful
      \/ \E c \in Conn : ~up[c]
      \/ \E q \in returned : q.kind \in Grids /\ q.id \in refused
=============================================================================
