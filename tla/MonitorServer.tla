--------------------------- MODULE MonitorServer ---------------------------
(***************************************************************************)
(* What the AlertWs worker (include/modules/alert_ws_module.h) writes and  *)
(* what the REST handlers (src/http_server.cpp) read and write meanwhile.  *)
(* The worker handles one message after the other; a handler runs on an io *)
(* thread with routes_mutex_ held, so handlers exclude one another but not *)
(* the worker.  Every database call is a step of its own: a handler made   *)
(* of several calls is not atomic.  Database.tla models what a call does   *)
(* on its connection; here it is done, or fails, or is done and reports a  *)
(* failure because its answer was lost.                                    *)
(*                                                                         *)
(* Points of cracks are left out of the tables: the column crack_points.   *)
(* point_3d is a geometry, database.cpp inserts a numeric[] and reads it   *)
(* with subscripts, so every insert_crack_points stores nothing and every  *)
(* get_crack_points returns nothing.  What the alert check stores and      *)
(* queues is AlertManager's.  Handlers that make one query only, and those *)
(* that store one result nobody reads back, are left out.                  *)
(***************************************************************************)
EXTENDS Naturals, Sequences, FiniteSets

CONSTANTS
  Thread,      \* io threads
  Porcelain,   \* ids of porcelains
  Content,     \* what messages say: <<kind, cracks, crack_detected, measurement_time>>
  HUGE,        \* an id in a path that std::stoi refuses
  NULL,
  MaxMessages, \* bound: messages of the pipeline
  MaxCracks,   \* bound: cracks of a message
  MaxRequests, \* bound: HTTP requests
  MaxSecond,   \* bound: the clock, in seconds
  MaxFaults,   \* bound: database calls that fail
  Limit        \* rows that get_cracks_by_porcelain answers with at most

ASSUME MonitorAssumption ==
  /\ HUGE \notin Porcelain /\ NULL \notin Thread
  /\ \A c \in Content : c[1] = "laser" \/ <<c[2], c[3], c[4]>> = <<0, FALSE, 0>>
  /\ {MaxMessages, MaxCracks, MaxRequests, MaxSecond, MaxFaults, Limit} \subseteq Nat

VARIABLES
  clock,         \* system_clock::now(), in seconds
  worker,        \* the AlertWs worker: [at, msg, next]
  broadcast,     \* messages whose JSON went to the WebSocket server
  processed_,    \* processed_
  taken,         \* messages taken from the queues
  routes_mutex_, \* the thread that holds it, or NULL
  http,          \* what each io thread does
  requests,      \* number of requests so far
  cracks,        \* table: rows [crack, code, detected_date], the index is the id
  analyses,      \* table: rows [porcelain, second, seen, by], likewise
  grids,         \* table: <<id of an analysis, request that stored the points>>
  tried,         \* history: rows insert_crack was called with
  faulty,        \* history: the cracks and the requests a call failed for
  faults         \* number of failed calls

tables == <<cracks, analyses, grids>>
workerVars == <<worker, broadcast, processed_, taken, tried>>
httpVars == <<routes_mutex_, http, requests>>
faultVars == <<faulty, faults>>
vars == <<clock, workerVars, httpVars, tables, faultVars>>

Kind == {"laser", "vibration", "prediction", "dem"}
Message == [id : 1..MaxMessages, kind : Kind, porcelain : Porcelain, cracks : 0..MaxCracks,
            crack_detected : BOOLEAN, measurement_time : 0..MaxSecond]
CrackId == (1..MaxMessages) \X (1..MaxCracks)
Row == [crack : CrackId, code : Porcelain \X (0..MaxSecond), detected_date : 0..MaxSecond]
Route == {"cracks", "analyze", "latest"}
Http == [at : {"idle", "cracks", "created", "insert", "grid", "latest", "points",
               "answer"},
         id : 0..MaxRequests, route : Route, porcelain : Porcelain \cup {HUGE},
         seen : SUBSET Row, second : 0..MaxSecond, analysis : Nat,
         grid : SUBSET (1..MaxRequests),
         pushed : SUBSET Message, stored : Nat]

WorkerState == [at : {"poll", "log", "crack", "push"}, msg : Message \cup {NULL},
                next : 1..(MaxCracks + 1)]
Analysis == [porcelain : Porcelain, second : 0..MaxSecond, seen : SUBSET Row,
             by : 1..MaxRequests]

WorkerOK ==
  /\ clock \in 0..MaxSecond /\ worker \in WorkerState
  /\ broadcast \subseteq Message /\ processed_ \in Nat /\ taken \in 0..MaxMessages
  /\ tried \subseteq Row /\ cracks \in Seq(Row)
HttpOK ==
  /\ routes_mutex_ \in Thread \cup {NULL} /\ http \in [Thread -> Http]
  /\ requests \in 0..MaxRequests
TablesOK == analyses \in Seq(Analysis) /\ grids \subseteq Nat \X (1..MaxRequests)
FaultsOK ==
  /\ faulty \in [crack : SUBSET CrackId, request : SUBSET (1..MaxRequests)]
  /\ faults \in 0..MaxFaults
TypeOK == WorkerOK /\ HttpOK /\ TablesOK /\ FaultsOK

Idle == [at |-> "idle", id |-> 0, route |-> "cracks", porcelain |-> HUGE, seen |-> {},
         second |-> 0, analysis |-> 0, grid |-> {}, pushed |-> {}, stored |-> 0]

Init ==
  /\ clock = 0
  /\ worker = [at |-> "poll", msg |-> NULL, next |-> 1]
  /\ broadcast = {} /\ processed_ = 0 /\ taken = 0 /\ tried = {}
  /\ routes_mutex_ = NULL /\ http = [t \in Thread |-> Idle] /\ requests = 0
  /\ cracks = <<>> /\ analyses = <<>> /\ grids = {}
  /\ faulty = [crack |-> {}, request |-> {}] /\ faults = 0

Rows(table) == {table[i] : i \in DOMAIN table}

(* A call that works, and one that fails for a crack or a request.         *)
Works == UNCHANGED faultVars
Fails(for, who) ==
  /\ faults < MaxFaults /\ faults' = faults + 1
  /\ faulty' = [faulty EXCEPT ![for] = @ \cup {who}]

Tick ==
  /\ clock < MaxSecond /\ clock' = clock + 1
  /\ UNCHANGED <<workerVars, httpVars, tables, faultVars>>
-----------------------------------------------------------------------------
(* The worker of AlertWsModule.                                            *)
WorkerAt(p) == worker.at = p /\ UNCHANGED <<clock, httpVars, analyses, grids, taken>>
WorkerTo(p) == worker' = [worker EXCEPT !.at = p]

(* try_pop of one of the four queues, and where its handler starts.  Of a  *)
(* laser message the cracks, whether any was detected and the time of the  *)
(* measurement are what the frame says, each by itself.                    *)
Take(msg) ==
  /\ worker.at = "poll" /\ taken < MaxMessages /\ msg.id = taken + 1
  /\ <<msg.kind, msg.cracks, msg.crack_detected, msg.measurement_time>> \in Content
  /\ taken' = taken + 1
  /\ worker' = [at |-> IF msg.kind \in {"laser", "vibration"} THEN "log" ELSE "push",
                msg |-> msg, next |-> 1]
  /\ UNCHANGED <<clock, broadcast, processed_, tried, httpVars, tables, faultVars>>

(* log_profinet_packet, then insert_laser_data or insert_vibration_data,   *)
(* whose result is not looked at; cracks are stored if one was detected.   *)
(* A payload that is no UTF-8 makes the dump for the log throw, and the    *)
(* catch of the handler drops the rest.                                    *)
LogAndInsertData ==
  /\ WorkerAt("log")
  /\ \/ WorkerTo(IF worker.msg.crack_detected /\ worker.msg.cracks > 0 THEN "crack" ELSE "push")
     \/ WorkerTo("poll")
  /\ UNCHANGED <<broadcast, processed_, tried, cracks, faultVars>>

Crack == <<worker.msg.id, worker.next>>
NewRow == [crack |-> Crack, code |-> <<worker.msg.porcelain, clock>>,
           detected_date |-> worker.msg.measurement_time]

(* A loop that ends at the first crack that is refused (mutant).           *)
InsertCrack_stops ==
  /\ WorkerAt("crack")
  /\ tried' = tried \cup {NewRow}
  /\ \/ /\ NewRow.code \notin {r.code : r \in Rows(cracks)} /\ Works
        /\ cracks' = Append(cracks, NewRow)
        /\ worker' = [worker EXCEPT !.next = @ + 1,
                                    !.at = IF worker.next < worker.msg.cracks THEN @ ELSE "push"]
     \/ /\ NewRow.code \in {r.code : r \in Rows(cracks)} /\ Works
        /\ WorkerTo("push") /\ UNCHANGED cracks
  /\ UNCHANGED <<broadcast, processed_>>

(* A crack of the message: its code names the porcelain and the second of  *)
(* the clock, and the schema wants codes to be unique; its date is that of *)
(* the measurement.  The loop goes on with the next crack whatever         *)
(* insert_crack returns.                                                   *)
InsertCrack ==
  /\ WorkerAt("crack")
  /\ tried' = tried \cup {NewRow}
  /\ \/ /\ NewRow.code \notin {r.code : r \in Rows(cracks)}
        /\ cracks' = Append(cracks, NewRow)
        /\ Works \/ Fails("crack", Crack)
     \/ /\ NewRow.code \in {r.code : r \in Rows(cracks)} /\ Works
        /\ UNCHANGED cracks
     \/ Fails("crack", Crack) /\ UNCHANGED cracks
  /\ worker' = [worker EXCEPT !.next = @ + 1,
                              !.at = IF worker.next < worker.msg.cracks THEN @ ELSE "push"]
  /\ UNCHANGED <<broadcast, processed_>>

(* check_laser_data, check_vibration_data or check_prediction, then        *)
(* broadcast_json; then the message counts.                                *)
CheckAndPush ==
  /\ WorkerAt("push") /\ WorkerTo("poll")
  /\ broadcast' = broadcast \cup {worker.msg} /\ processed_' = processed_ + 1
  /\ UNCHANGED <<tried, cracks, faultVars>>

Worker == (\E msg \in Message : Take(msg)) \/ LogAndInsertData \/ InsertCrack \/ CheckAndPush
-----------------------------------------------------------------------------
(* The HTTP server.                                                        *)
HttpAt(t, p) == http[t].at = p /\ UNCHANGED <<clock, workerVars>>

Job(route, p) ==
  [at |-> IF route = "latest" THEN "latest" ELSE "cracks", id |-> requests + 1,
   route |-> route, porcelain |-> p, seen |-> {}, second |-> 0, analysis |-> 0, grid |-> {},
   pushed |-> broadcast, stored |-> Len(analyses)]

(* A route_request that looks up the route under the lock and runs the     *)
(* handler without it (mutant).                                            *)
Request_lookupLocked(t, route, p) ==
  /\ HttpAt(t, "idle") /\ requests < MaxRequests /\ routes_mutex_ = NULL
  /\ requests' = requests + 1
  /\ p \in Porcelain /\ http' = [http EXCEPT ![t] = Job(route, p)]
  /\ UNCHANGED <<routes_mutex_, tables, faultVars>>

(* handle_request and route_request, which holds routes_mutex_ for as long *)
(* as the handler runs: waiting for it is as good as coming later.  What   *)
(* was pushed and stored by then is remembered.  An id out of range makes  *)
(* the handler throw: the lock is released and there is no answer.         *)
Request(t, route, p) ==
  /\ HttpAt(t, "idle") /\ requests < MaxRequests /\ routes_mutex_ = NULL
  /\ requests' = requests + 1
  /\ IF p = HUGE THEN UNCHANGED <<http, routes_mutex_>>
     ELSE http' = [http EXCEPT ![t] = Job(route, p)] /\ routes_mutex_' = t
  /\ UNCHANGED <<tables, faultVars>>

(* The handler returns: the lock guard goes out of scope.                  *)
Return(t, job) ==
  /\ http' = [http EXCEPT ![t] = [job EXCEPT !.at = "answer"]]
  /\ routes_mutex_' = IF routes_mutex_ = t THEN NULL ELSE routes_mutex_

(* An answer has a row, or is full of rows that are no older.              *)
Covers(rows, r) ==
  \/ r \in rows
  \/ Cardinality(rows) = Limit /\ \A q \in rows : q.detected_date >= r.detected_date

(* ORDER BY detected_date DESC LIMIT: of one date any may come first.      *)
Newest(found, rows) ==
  found \subseteq rows /\ Cardinality(found) <= Limit /\ \A r \in rows : Covers(found, r)

(* get_cracks_by_porcelain; a query that fails returns nothing.            *)
ReadCracks(t) ==
  /\ HttpAt(t, "cracks")
  /\ \E found \in SUBSET Rows(cracks) :
       /\ \/ Works /\ Newest(found, {r \in Rows(cracks) : r.code[1] = http[t].porcelain})
          \/ Fails("request", http[t].id) /\ found = {}
       /\ IF http[t].route = "cracks" THEN Return(t, [http[t] EXCEPT !.seen = found])
          ELSE /\ http' = [http EXCEPT ![t].seen = found, ![t].at = "created"]
               /\ UNCHANGED routes_mutex_
  /\ UNCHANGED <<requests, tables>>

(* analyze: created_at is taken when the result is assembled.              *)
Analyze(t) ==
  /\ HttpAt(t, "created")
  /\ http' = [http EXCEPT ![t].second = clock, ![t].at = "insert"]
  /\ UNCHANGED <<routes_mutex_, requests, tables, faultVars>>

(* insert_stress_analysis: id -1, here 0, when it reports a failure.       *)
InsertAnalysis(t) ==
  LET job == http[t]
      row == [porcelain |-> job.porcelain, second |-> job.second, seen |-> job.seen,
              by |-> job.id] IN
  /\ HttpAt(t, "insert")
  /\ \/ /\ analyses' = Append(analyses, row) /\ Works
        /\ http' = [http EXCEPT ![t].analysis = Len(analyses) + 1, ![t].at = "grid"]
     \/ /\ Fails("request", job.id) /\ analyses' \in {analyses, Append(analyses, row)}
        /\ http' = [http EXCEPT ![t].at = "grid"]
  /\ UNCHANGED <<routes_mutex_, requests, cracks, grids>>

(* insert_stress_grid_points, refused for an id that is no analysis.  The  *)
(* handler answers with the result it computed in any case.                *)
InsertGrid(t) ==
  LET stored == grids \cup {<<http[t].analysis, http[t].id>>} IN
  /\ HttpAt(t, "grid")
  /\ \/ grids' = (IF http[t].analysis = 0 THEN grids ELSE stored) /\ Works
     \/ http[t].analysis # 0 /\ Fails("request", http[t].id) /\ grids' \in {grids, stored}
  /\ Return(t, http[t])
  /\ UNCHANGED <<requests, cracks, analyses>>

(* get_latest_stress_analysis, its two queries: created_at is a second, of *)
(* the same second any one may come first.                                 *)
ReadLatest(t) ==
  LET of == {i \in DOMAIN analyses : analyses[i].porcelain = http[t].porcelain}
      latest == {i \in of : \A j \in of : analyses[j].second <= analyses[i].second} IN
  /\ HttpAt(t, "latest")
  /\ \/ \E i \in latest : /\ http' = [http EXCEPT ![t].analysis = i, ![t].at = "points"]
                          /\ Works /\ UNCHANGED routes_mutex_
     \/ (IF of = {} THEN Works ELSE Fails("request", http[t].id)) /\ Return(t, http[t])
  /\ UNCHANGED <<requests, tables>>

ReadGrid(t) ==
  LET points == {by \in 1..MaxRequests : <<http[t].analysis, by>> \in grids} IN
  /\ HttpAt(t, "points")
  /\ \/ Return(t, [http[t] EXCEPT !.grid = points]) /\ Works
     \/ Return(t, http[t]) /\ Fails("request", http[t].id)
  /\ UNCHANGED <<requests, tables>>

(* handle_request: the answer is written to a socket that goes with the    *)
(* function, so the client gets all of it or a part.                       *)
Answer(t) ==
  /\ HttpAt(t, "answer")
  /\ http' = [http EXCEPT ![t] = Idle]
  /\ UNCHANGED <<routes_mutex_, requests, tables, faultVars>>

Handler(t) ==
  \/ \E route \in Route, p \in Porcelain \cup {HUGE} : Request(t, route, p)
  \/ ReadCracks(t) \/ Analyze(t) \/ InsertAnalysis(t) \/ InsertGrid(t)
  \/ ReadLatest(t) \/ ReadGrid(t) \/ Answer(t)

Next == Tick \/ Worker \/ \E t \in Thread : Handler(t)

Spec == Init /\ [][Next]_vars
-----------------------------------------------------------------------------
Answered(t, route) == http[t].at = "answer" /\ http[t].route = route /\ http[t].id \notin faulty.request

(* Whoever asks for the cracks of a porcelain after the push of a laser    *)
(* message that detected cracks finds the row of each, or one that had its *)
(* code before, or Limit rows of which none is older than that row; unless *)
(* a database call failed for it.                                          *)
PushedIsReadable ==
  \A t \in Thread : Answered(t, "cracks") =>
    \A msg \in http[t].pushed :
      msg.crack_detected /\ msg.porcelain = http[t].porcelain =>
        \A i \in 1..msg.cracks :
          \/ <<msg.id, i>> \in faulty.crack
          \/ \E w \in tried, r \in Rows(cracks) :
               w.crack = <<msg.id, i>> /\ w.code = r.code /\ Covers(http[t].seen, r)

(* The latest analysis is answered with exactly the points its own request *)
(* stored, unless a call of that request failed; and of the cracks that an *)
(* analysis stored before the question knew it lacks none, unless both are *)
(* of one second or it is based on Limit cracks that are no older.         *)
LatestIsWholeAndCurrent ==
  \A t \in Thread : Answered(t, "latest") =>
    LET job == http[t]
        earlier == {analyses[i] : i \in {j \in 1..job.stored :
                                           analyses[j].porcelain = job.porcelain}} IN
    IF job.analysis = 0 THEN earlier = {}
    ELSE LET row == analyses[job.analysis] IN
         row.by \notin faulty.request =>
           /\ job.grid = {row.by}
           /\ \A x \in earlier : x.second = row.second \/ \A r \in x.seen : Covers(row.seen, r)
=============================================================================
