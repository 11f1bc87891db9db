------------------------ MODULE PorcelainMonitorApp ------------------------
(***************************************************************************)
(* frontend/js/app.js and api-client.js: what the page shows of the        *)
(* selected porcelain and of the alerts, while answers of the REST API     *)
(* arrive in any order or fail, composed with the WebSocketClient that     *)
(* tells it of new alerts.                                                 *)
(*                                                                         *)
(* A request is newest until a later one asks for the same display.  fresh *)
(* holds the displays whose last change was the answer of such a request.  *)
(* A selection asks for the cracks and then for their points; the points   *)
(* of all cracks are one request, as a missing one is replaced by a mock.  *)
(* Alerts pushed, status updates answered and changes of the type filter   *)
(* are counted together; a list of alerts is the count it was asked for at.*)
(*                                                                         *)
(* Left out: panels that only show the result of their own button (stress, *)
(* prediction, simulation, penetration, bending, repair), the search in a  *)
(* list that is loaded, the alert badge and the list of realtime data.     *)
(***************************************************************************)
EXTENDS WsClient, Bags

CONSTANTS
  Porcelain,    \* ids of porcelains
  Dynasty,      \* values of the dynasty filter
  ALL,          \* the value it starts with
  MOCK,         \* made up by the page
  NONE,
  MaxEvents,    \* bound: events from outside, those of the user included
  MaxFailures   \* bound: requests that fail

ASSUME AppAssumption ==
  /\ MOCK \notin Porcelain \cup Dynasty /\ NONE \notin Porcelain \cup Dynasty \cup {MOCK}
  /\ MaxEvents \in Nat /\ MaxFailures \in Nat /\ ALL \in Dynasty

VARIABLES
  currentPorcelain, \* currentPorcelain
  tab,              \* the active tab
  dynasty,          \* value of dynasty-filter
  shown,            \* whose data each display shows
  fresh,            \* history: displays last changed by their newest request
  alerts,           \* the count of changes that the alert list was asked for at
  changes,          \* history: what the alert list is loaded again for, so far
  requests,         \* bag of [kind, of, newest]: requests without answer yet
  missed,           \* history: a push reached no open socket or was lost with one, since
                    \* the list was last asked for
  events,           \* number of events so far
  failures          \* number of requests that failed

appVars == <<currentPorcelain, tab, dynasty, shown, fresh, alerts>>
countVars == <<events, failures>>
vars == <<clientVars, appVars, changes, requests, missed, countVars>>

Tab == {"viewer", "cracks", "alerts"}
Display == {"list", "cracks", "scene", "table"}
(* list and init: the list of porcelains; cracks and points: the two steps *)
(* of a selection; table: the cracks tab; alerts: the alert list; status:  *)
(* an alert that is acknowledged or dismissed.                             *)
Kind == {"init", "list", "cracks", "points", "table", "alerts", "status"}
Request == [kind : Kind, of : Porcelain \cup Dynasty \cup {MOCK} \cup (0..MaxEvents),
            newest : BOOLEAN]

AppTypeOK ==
  /\ currentPorcelain \in Porcelain \cup {MOCK, NONE} /\ tab \in Tab /\ dynasty \in Dynasty
  /\ shown \in [Display -> Porcelain \cup Dynasty \cup {MOCK, NONE}]
  /\ fresh \in SUBSET (Display \cup {"alerts"})
  /\ alerts \in 0..MaxEvents /\ changes \in 0..MaxEvents
  /\ IsABag(requests) /\ DOMAIN requests \subseteq Request
  /\ missed \in BOOLEAN /\ events \in 0..MaxEvents /\ failures \in 0..MaxFailures

Ask(kind, of) == [kind |-> kind, of |-> of, newest |-> TRUE]

Init ==
  /\ ClientInit
  /\ currentPorcelain = NONE /\ tab = "viewer" /\ dynasty = ALL
  /\ shown = [d \in Display |-> NONE] /\ fresh = {} /\ alerts = 0 /\ changes = 0
  /\ requests = SetToBag({Ask("init", dynasty)})
  /\ missed = FALSE /\ events = 0 /\ failures = 0

(* The later request of a kind makes earlier ones of these kinds outdated. *)
Outdates(kind) ==
  CASE kind = "cracks" -> {"cracks", "points"}
    [] kind = "list" -> {"list", "init"}
    [] OTHER -> {kind}

(* How often r is pending once the requests in done are answered and those *)
(* in new are issued: what is outdated is no longer the newest.            *)
Pending(r, done, new) ==
  LET outdated == UNION {Outdates(n.kind) : n \in {x \in new : x.newest}}
      Left(q) == IF q \in DOMAIN requests THEN requests[q] - (IF q \in done THEN 1 ELSE 0) ELSE 0
  IN  (IF r \in new THEN 1 ELSE 0)
        + (IF r.kind \notin outdated THEN Left(r)
           ELSE IF r.newest THEN 0 ELSE Left(r) + Left([r EXCEPT !.newest = TRUE]))

Exchange(done, new) ==
  LET all == DOMAIN requests \cup {[r EXCEPT !.newest = FALSE] : r \in DOMAIN requests} \cup new
  IN  requests' = [r \in {q \in all : Pending(q, done, new) > 0} |-> Pending(r, done, new)]

Issue(new) == Exchange({}, new)
-----------------------------------------------------------------------------
(* What a handler asks for.                                                *)
LoadAlerts == {Ask("alerts", changes)}
LoadCracksData(p) == {Ask("table", p)}

Event == events < MaxEvents /\ events' = events + 1 /\ UNCHANGED failures

(* selectPorcelain, up to its first await; the user picks from the list.   *)
SelectPorcelain(p) ==
  /\ Event /\ shown["list"] # NONE
  /\ currentPorcelain' = p
  /\ Issue({Ask("cracks", p)})
  /\ UNCHANGED <<clientVars, tab, dynasty, shown, fresh, alerts, changes, missed>>

(* switchTab                                                               *)
SwitchTab(t) ==
  /\ Event /\ t # tab
  /\ tab' = t
  /\ IF t = "cracks" /\ currentPorcelain # NONE
     THEN Issue(LoadCracksData(currentPorcelain)) /\ UNCHANGED missed
     ELSE IF t = "alerts" THEN Issue(LoadAlerts) /\ missed' = FALSE
     ELSE UNCHANGED <<requests, missed>>
  /\ UNCHANGED <<clientVars, currentPorcelain, dynasty, shown, fresh, alerts, changes>>

(* The dynasty filter changes: loadPorcelains.                             *)
FilterChanges(d) ==
  /\ Event /\ d # dynasty
  /\ dynasty' = d
  /\ Issue({Ask("list", d)})
  /\ UNCHANGED <<clientVars, currentPorcelain, tab, shown, fresh, alerts, changes, missed>>

(* refresh-cracks, refresh-alerts.                                         *)
RefreshCracks ==
  /\ Event /\ tab = "cracks" /\ currentPorcelain # NONE
  /\ Issue(LoadCracksData(currentPorcelain))
  /\ UNCHANGED <<clientVars, appVars, changes, missed>>

RefreshAlerts ==
  /\ Event /\ tab = "alerts"
  /\ Issue(LoadAlerts) /\ missed' = FALSE
  /\ UNCHANGED <<clientVars, appVars, changes>>

(* acknowledgeAlert, dismissAlert, up to the await.                        *)
UpdateStatus ==
  /\ Event /\ tab = "alerts"
  /\ Issue({Ask("status", 0)})
  /\ UNCHANGED <<clientVars, appVars, changes, missed>>

(* The alert type filter changes: loadAlerts, which reads it at once.      *)
FilterAlerts ==
  /\ Event /\ tab = "alerts" /\ changes < MaxEvents
  /\ changes' = changes + 1
  /\ Issue({Ask("alerts", changes')}) /\ missed' = FALSE
  /\ UNCHANGED <<clientVars, appVars>>

(* send_websocket of the server: an alert, stored before, is pushed.       *)
AlertPushed ==
  /\ Event /\ changes < MaxEvents
  /\ ServerPushes
  /\ changes' = changes + 1
  /\ missed' = (missed \/ Sockets("open") = 0)
  /\ UNCHANGED <<appVars, requests>>

(* A handleAlert that only refreshes the badge (mutant).                   *)
HandleAlert_badgeOnly ==
  /\ OnMessage
  /\ missed' = FALSE
  /\ UNCHANGED <<appVars, changes, requests, countVars>>

(* handleAlert, on a message of the client.                                *)
HandleAlert ==
  /\ OnMessage
  /\ Issue(LoadAlerts) /\ missed' = FALSE
  /\ UNCHANGED <<appVars, changes, countVars>>

(* The connected and disconnected handlers change the status dot only.     *)
Connection ==
  /\ OnOpen \/ OnClose \/ TimerFires
  /\ missed' = (missed \/ inbox' < inbox)
  /\ UNCHANGED <<appVars, changes, requests, countVars>>

OwnerOrServer ==
  /\ \/ Event /\ (Disconnect \/ Connect \/ ServerGoesDown)
     \/ ServerComesBack /\ UNCHANGED countVars
  /\ UNCHANGED <<appVars, changes, requests, missed>>
-----------------------------------------------------------------------------
(* A display shows whose data it got, by an answer that is good or not.    *)
Show(d, of, isFresh) ==
  /\ shown' = [shown EXCEPT ![d] = of]
  /\ fresh' = IF isFresh THEN fresh \cup {d} ELSE fresh \ {d}

Succeeds == UNCHANGED countVars
Fails == failures < MaxFailures /\ failures' = failures + 1 /\ UNCHANGED events

(* loadPorcelains and renderPorcelainList: the first porcelain of the list *)
(* is selected when none is, which issues the requests of a selection.     *)
(* init() then loads the alerts.                                           *)
PorcelainsArrive(r) ==
  /\ r.kind \in {"init", "list"} /\ Succeeds
  /\ Show("list", r.of, r.newest)
  /\ LET next == IF r.kind = "init" THEN LoadAlerts ELSE {} IN
     /\ missed' = (missed /\ r.kind # "init")
     /\ IF currentPorcelain = NONE
        THEN \E p \in Porcelain : /\ currentPorcelain' = p
                                  /\ Exchange({r}, next \cup {Ask("cracks", p)})
        ELSE Exchange({r}, next) /\ UNCHANGED currentPorcelain
  /\ UNCHANGED <<clientVars, tab, dynasty, alerts, changes>>

(* The first load fails: init() goes on with mock data and loads no        *)
(* alerts.  A later one fails: the exception is lost.                      *)
PorcelainsFail(r) ==
  /\ r.kind \in {"init", "list"} /\ Fails
  /\ IF r.kind = "list" THEN fresh' = fresh \ {"list"} /\ UNCHANGED shown
     ELSE Show("list", MOCK, FALSE)
  /\ IF r.kind = "init" /\ currentPorcelain = NONE
     THEN currentPorcelain' = MOCK /\ Exchange({r}, {Ask("cracks", MOCK)})
     ELSE Exchange({r}, {}) /\ UNCHANGED currentPorcelain
  /\ UNCHANGED <<clientVars, tab, dynasty, alerts, changes, missed>>

(* selectPorcelain after its first await: the points are asked for, of an  *)
(* earlier selection too.                                                  *)
CracksArrive(r) ==
  /\ r.kind = "cracks" /\ Succeeds
  /\ Show("cracks", r.of, r.newest)
  /\ Exchange({r}, {[r EXCEPT !.kind = "points"]})
  /\ UNCHANGED <<clientVars, currentPorcelain, tab, dynasty, alerts, changes, missed>>

(* Its catch: mock cracks on the scene; currentCracks stays as it is.      *)
CracksFail(r) ==
  /\ r.kind = "cracks" /\ Fails
  /\ shown' = [shown EXCEPT !["scene"] = MOCK] /\ fresh' = fresh \ {"scene", "cracks"}
  /\ Exchange({r}, {})
  /\ UNCHANGED <<clientVars, currentPorcelain, tab, dynasty, alerts, changes, missed>>

(* A selection that leaves the active cracks tab alone (mutant).           *)
PointsArrive_noTable(r) ==
  /\ r.kind = "points" /\ Succeeds
  /\ Show("scene", r.of, r.newest)
  /\ Exchange({r}, {})
  /\ UNCHANGED <<clientVars, currentPorcelain, tab, dynasty, alerts, changes, missed>>

(* The rest of selectPorcelain: viewer and selects, then the table of the  *)
(* cracks tab if that is active.                                           *)
PointsArrive(r) ==
  /\ r.kind = "points" /\ Succeeds
  /\ Show("scene", r.of, r.newest)
  /\ Exchange({r}, IF tab = "cracks" THEN LoadCracksData(r.of) ELSE {})
  /\ UNCHANGED <<clientVars, currentPorcelain, tab, dynasty, alerts, changes, missed>>

(* loadCracksData                                                          *)
TableArrives(r) ==
  /\ r.kind = "table"
  /\ \/ Succeeds /\ Show("table", r.of, r.newest)
     \/ Fails /\ Show("table", MOCK, FALSE)
  /\ Exchange({r}, {})
  /\ UNCHANGED <<clientVars, currentPorcelain, tab, dynasty, alerts, changes, missed>>

(* loadAlerts: the list, or mock alerts in its place.                      *)
AlertsArrive(r) ==
  /\ r.kind = "alerts" /\ (Succeeds \/ Fails)
  /\ alerts' = r.of
  /\ fresh' = IF r.newest THEN fresh \cup {"alerts"} ELSE fresh \ {"alerts"}
  /\ Exchange({r}, {})
  /\ UNCHANGED <<clientVars, currentPorcelain, tab, dynasty, shown, changes, missed>>

(* acknowledgeAlert, dismissAlert after the await: the list is loaded      *)
(* again, also after a failure, of which the user is not told.  The server *)
(* has no route for PUT /alerts/id/status: with it the update fails.       *)
StatusUpdated(r) ==
  /\ r.kind = "status" /\ changes < MaxEvents /\ (Succeeds \/ Fails)
  /\ changes' = changes + 1
  /\ Exchange({r}, {Ask("alerts", changes')}) /\ missed' = FALSE
  /\ UNCHANGED <<clientVars, appVars>>

User ==
  \/ \E p \in Porcelain : SelectPorcelain(p)
  \/ \E t \in Tab : SwitchTab(t)
  \/ \E d \in Dynasty : FilterChanges(d)
  \/ RefreshCracks \/ RefreshAlerts \/ FilterAlerts \/ UpdateStatus

Answer(r) ==
  \/ PorcelainsArrive(r) \/ PorcelainsFail(r) \/ CracksArrive(r) \/ CracksFail(r)
  \/ PointsArrive(r) \/ TableArrives(r) \/ AlertsArrive(r) \/ StatusUpdated(r)

Next ==
  \/ User \/ AlertPushed \/ OwnerOrServer
  \/ Connection \/ HandleAlert
  \/ \E r \in DOMAIN requests : Answer(r)

Spec == Init /\ [][Next]_vars
FairSpec == Spec /\ ClientFairness
-----------------------------------------------------------------------------
Awaits(kinds) == \E r \in DOMAIN requests : r.kind \in kinds

(* A display for which no answer is awaited shows the current porcelain,   *)
(* or the list of the current filter, whatever was clicked and answered in *)
(* which order, unless its last answer was overtaken by an earlier request *)
(* of its kind or its newest request failed.  The table of the cracks tab  *)
(* is loaded by a selection once the scene has been, so it depends on that.*)
SettledUnlessOvertaken ==
  /\ "list" \in fresh /\ ~Awaits({"init", "list"}) => shown["list"] = dynasty
  /\ "cracks" \in fresh /\ ~Awaits({"cracks"}) => shown["cracks"] = currentPorcelain
  /\ "scene" \in fresh /\ ~Awaits({"cracks", "points"}) =>
       /\ shown["scene"] = currentPorcelain
       /\ tab = "cracks" /\ "table" \in fresh /\ ~Awaits({"table"}) =>
            shown["table"] = currentPorcelain

(* When nothing is on its way, the alert list (or the mock in its place)   *)
(* was asked for after the last alert pushed, the last status update       *)
(* answered and the last change of the type filter, unless a push was      *)
(* missed or the last list was overtaken by an earlier request.  It shows  *)
(* no list from before what it was told of; whether a list is the alert    *)
(* table is up to the server.                                              *)
ListFollowsPushesUnlessMissed ==
  "alerts" \in fresh /\ inbox = 0 /\ ~missed /\ ~Awaits({"alerts", "status"}) =>
    alerts = changes
=============================================================================
