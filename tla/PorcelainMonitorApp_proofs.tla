--------------------- MODULE PorcelainMonitorApp_proofs ---------------------
(***************************************************************************)
(* The browser keeps one connection, and what the page shows is right once *)
(* its requests are answered, whatever the user and the server do and in   *)
(* whatever order answers arrive or fail, for any number of porcelains,    *)
(* attempts, events and failures.                                          *)
(***************************************************************************)
EXTENDS PorcelainMonitorApp, TLAPS

(* What connect, the handlers and disconnect keep as long as connect never *)
(* ran beside a live socket or a timer: then no old socket is alive, the   *)
(* interval of the heartbeat is known exactly while the socket is open,    *)
(* and after a disconnect there are no attempts left.                      *)
Single ==
  /\ old["connecting"] = 0 /\ old["open"] = 0 /\ old["closing"] = 0
  /\ timers # 0 => timers = 1 /\ ws = "closed"
  /\ ws = "open" => isConnected
  /\ isConnected => ws \in {"open", "closing"}
  /\ heartbeatInterval <=> ws = "open"
  /\ heartbeats = IF ws = "open" THEN 1 ELSE 0
  /\ told = "disconnect" /\ ~timerAtOff =>
       ws \in {"closing", "closed"} /\ timers = 0 /\ reconnectAttempts = MaxReconnectAttempts

Typed ==
  /\ ws \in {"connecting", "open", "closing", "closed"} /\ old \in [Live -> Nat]
  /\ timers \in Nat /\ reconnectAttempts \in Nat
  /\ isConnected \in BOOLEAN /\ heartbeatInterval \in BOOLEAN
  /\ overlap \in BOOLEAN /\ timerAtOff \in BOOLEAN

Inv == Typed /\ (~overlap => Single)

LEMMA InvInit == Init => Inv
<1> SUFFICES ASSUME Init PROVE Inv
  OBVIOUS
<1>1. Typed
  BY AttemptsAssumption DEF Init, ClientInit, Typed, Live
<1>2. Single
  BY AttemptsAssumption DEF Init, ClientInit, Single, Live
<1> QED BY <1>1, <1>2 DEF Inv

(* What a socket that changes its state does to the sockets.               *)
LEMMA BecomesTyped ==
  ASSUME Typed, NEW s \in Live, NEW to \in Live \cup {"closed"}, Becomes(s, to)
  PROVE  ws' \in {"connecting", "open", "closing", "closed"} /\ old' \in [Live -> Nat]
BY DEF Typed, Becomes, Live

LEMMA BecomesSingle ==
  ASSUME Typed, Single, NEW s \in Live, NEW to, Becomes(s, to)
  PROVE  ws = s /\ ws' = to /\ old' = old
BY DEF Typed, Single, Becomes, Live

LEMMA NewSocketTyped ==
  ASSUME Typed, NewSocket
  PROVE  ws' = "connecting" /\ old' \in [Live -> Nat]
BY DEF Typed, NewSocket, Live

(* A new socket that does not overlap leaves no old one behind.            *)
LEMMA NewSocketSingle ==
  ASSUME Typed, Single, NewSocket, ~(LiveSockets > 0)
  PROVE  ws = "closed" /\ old' = old
BY DEF Typed, Single, NewSocket, Live, LiveSockets, Sockets

(* The steps of the client, one by one.                                    *)
LEMMA InvOpen == Inv /\ OnOpen => Inv'
<1> SUFFICES ASSUME Inv, OnOpen PROVE Inv'
  OBVIOUS
<1>1. Typed'
  BY BecomesTyped DEF Inv, OnOpen, Typed, StartHeartbeat, toldVars, Live
<1>2. ASSUME Single PROVE Single'
  <2>1. ws = "connecting" /\ ws' = "open" /\ old' = old
    BY <1>2, BecomesSingle DEF Inv, OnOpen, Live
  <2> QED BY <1>2, <2>1 DEF Inv, OnOpen, Typed, StartHeartbeat, toldVars, Single
<1> QED BY <1>1, <1>2 DEF Inv, OnOpen, toldVars

LEMMA InvClose == Inv /\ OnClose => Inv'
<1> SUFFICES ASSUME Inv, OnClose PROVE Inv'
  OBVIOUS
<1> PICK s \in Live : (s = "closing" \/ ~serverUp) /\ Becomes(s, "closed")
  BY DEF OnClose
<1>1. Typed'
  <2>1. ws' \in {"connecting", "open", "closing", "closed"} /\ old' \in [Live -> Nat]
    BY BecomesTyped DEF Inv
  <2>2. timers' \in Nat /\ reconnectAttempts' \in Nat
    BY DEF Inv, Typed, OnClose, ScheduleReconnect
  <2>3. isConnected' \in BOOLEAN /\ heartbeatInterval' \in BOOLEAN
    BY DEF OnClose, StopHeartbeat
  <2>4. overlap' \in BOOLEAN /\ timerAtOff' \in BOOLEAN
    BY DEF Inv, Typed, OnClose, toldVars
  <2> QED BY <2>1, <2>2, <2>3, <2>4 DEF Typed
<1>2. ASSUME Single PROVE Single'
  <2>1. ws = s /\ ws' = "closed" /\ old' = old
    BY <1>2, BecomesSingle DEF Inv
  <2> QED BY <1>2, <2>1, AttemptsAssumption
          DEF Inv, OnClose, Typed, StopHeartbeat, ScheduleReconnect, toldVars, Single, Live
<1> QED BY <1>1, <1>2 DEF Inv, OnClose, toldVars

LEMMA InvTimer == Inv /\ TimerFires => Inv'
<1> SUFFICES ASSUME Inv, TimerFires PROVE Inv'
  OBVIOUS
<1>1. Typed'
  BY NewSocketTyped DEF Inv, TimerFires, Typed
<1>2. ASSUME ~overlap' PROVE Single'
  <2>1. Single /\ ~(LiveSockets > 0) /\ ~(timers > 1)
    BY <1>2 DEF Inv, Typed, TimerFires
  <2>2. ws' = "connecting" /\ ws = "closed" /\ old' = old
    BY <2>1, NewSocketTyped, NewSocketSingle DEF Inv, TimerFires
  <2> QED BY <2>1, <2>2 DEF Inv, TimerFires, Typed, Single
<1> QED BY <1>1, <1>2 DEF Inv

LEMMA InvDisconnect == Inv /\ Disconnect => Inv'
<1> SUFFICES ASSUME Inv, Disconnect PROVE Inv'
  OBVIOUS
<1>1. Typed'
  <2>1. ws' \in {"connecting", "open", "closing", "closed"} /\ old' \in [Live -> Nat]
    BY DEF Inv, Typed, Disconnect
  <2>2. timers' \in Nat /\ reconnectAttempts' \in Nat
    BY AttemptsAssumption DEF Inv, Typed, Disconnect
  <2>3. isConnected' \in BOOLEAN /\ heartbeatInterval' \in BOOLEAN
    BY DEF Inv, Typed, Disconnect, StopHeartbeat
  <2>4. overlap' \in BOOLEAN
    BY DEF Inv, Typed, Disconnect
  <2>5. timerAtOff' \in BOOLEAN
    BY DEF Disconnect
  <2> QED BY <2>1, <2>2, <2>3, <2>4, <2>5 DEF Typed
<1>2. ASSUME Single PROVE Single'
  <2>1. old'["connecting"] = 0 /\ old'["open"] = 0 /\ old'["closing"] = 0
    BY <1>2 DEF Disconnect, Single
  <2>2. timers' # 0 => timers' = 1 /\ ws' = "closed"
    BY <1>2 DEF Disconnect, Single
  <2>3. (ws' = "open" => isConnected') /\ (isConnected' => ws' \in {"open", "closing"})
    <3>1. ws' # "open" /\ (ws = "open" => ws' = "closing") /\ (ws = "closing" => ws' = "closing")
      BY DEF Disconnect, Inv, Typed
    <3>2. isConnected' => ws \in {"open", "closing"}
      BY <1>2, Zenon DEF Disconnect, Single
    <3> QED BY <3>1, <3>2
  <2>4. heartbeats' = 0 /\ heartbeatInterval' = FALSE /\ ws' # "open"
    BY <1>2 DEF Disconnect, StopHeartbeat, Single, Inv, Typed
  <2>5. ~timerAtOff' => ws' \in {"closing", "closed"} /\ timers' = 0
                         /\ reconnectAttempts' = MaxReconnectAttempts
    <3>1. timers > 0 => timerAtOff'
      BY Zenon DEF Disconnect
    <3>2. ws' \in {"closing", "closed"} /\ timers' = timers /\ timers \in Nat
          /\ reconnectAttempts' = MaxReconnectAttempts
      BY DEF Disconnect, Inv, Typed
    <3> QED BY <3>1, <3>2
  <2> QED BY <2>1, <2>2, <2>3, <2>4, <2>5 DEF Single
<1> QED BY <1>1, <1>2 DEF Inv, Disconnect

LEMMA InvConnect == Inv /\ Connect => Inv'
<1> SUFFICES ASSUME Inv, Connect PROVE Inv'
  OBVIOUS
<1>1. Typed'
  BY NewSocketTyped DEF Inv, Connect, Typed, linkVars
<1>2. ASSUME ~overlap' PROVE Single'
  <2>1. Single /\ ~(LiveSockets > 0) /\ ~(timers > 0)
    BY <1>2 DEF Inv, Typed, Connect
  <2>2. ws' = "connecting" /\ ws = "closed" /\ old' = old
    BY <2>1, NewSocketTyped, NewSocketSingle DEF Inv, Connect
  <2> QED BY <2>1, <2>2 DEF Inv, Connect, Typed, Single, linkVars
<1> QED BY <1>1, <1>2 DEF Inv

LEMMA InvSame == Inv /\ UNCHANGED <<socketVars, linkVars, toldVars>> => Inv'
BY DEF Inv, Typed, Single, socketVars, linkVars, toldVars

LEMMA InvNext == Inv /\ [Next]_vars => Inv'
<1> SUFFICES ASSUME Inv, [Next]_vars PROVE Inv'
  OBVIOUS
<1>1. CASE User
  BY <1>1, InvSame DEF User, SelectPorcelain, SwitchTab, FilterChanges, RefreshCracks, RefreshAlerts,
     FilterAlerts, UpdateStatus, clientVars
<1>2. CASE AlertPushed
  BY <1>2, InvSame DEF AlertPushed, ServerPushes
<1>3. CASE OwnerOrServer
  BY <1>3, InvSame, InvConnect, InvDisconnect DEF OwnerOrServer, ServerGoesDown, ServerComesBack
<1>4. CASE Connection
  BY <1>4, InvOpen, InvClose, InvTimer DEF Connection
<1>5. CASE HandleAlert
  BY <1>5, InvSame DEF HandleAlert, OnMessage
<1>6. ASSUME NEW r, Answer(r) PROVE Inv'
  BY <1>6, InvSame DEF Answer, PorcelainsArrive, PorcelainsFail, CracksArrive, CracksFail, PointsArrive,
     TableArrives, AlertsArrive, StatusUpdated, clientVars
<1>7. CASE UNCHANGED vars
  BY <1>7, InvSame DEF vars, clientVars
<1> QED BY <1>1, <1>2, <1>3, <1>4, <1>5, <1>6, <1>7 DEF Next

(* As long as connect never ran beside a live socket or a timer, there is  *)
(* at most one socket or timer, isConnected is the truth, one heartbeat    *)
(* runs exactly while connected, and disconnect is final.                  *)
THEOREM OneConnection == Spec => []OneConnectionUnlessOverlap
<1>1. Inv => OneConnectionUnlessOverlap
  BY DEF Inv, Typed, Single, OneConnectionUnlessOverlap, LiveSockets, Sockets, Live
<1> QED BY <1>1, InvInit, InvNext, PTL DEF Spec
-----------------------------------------------------------------------------
(***************************************************************************)
(* The displays.  Every display is good: the newest request for it, if one *)
(* is pending, asks for what is current, and if none is, a display that is *)
(* fresh shows it.  For the table of the cracks tab that holds once the    *)
(* scene is settled, for the alert list unless a push is on its way or was *)
(* missed.                                                                 *)
(***************************************************************************)
NewestIn(R, kinds) == \E r \in R : r.kind \in kinds /\ r.newest

Good(R, kinds, current, isFresh, show) ==
  /\ \A r \in R : r.kind \in kinds /\ r.newest => r.of = current
  /\ isFresh => show = current \/ NewestIn(R, kinds)

(* What the requests of a kind may ask for.                                *)
Wellformed(r) ==
  /\ r \in Request
  /\ r.kind \in {"init", "list"} => r.of \in Dynasty
  /\ r.kind \in {"cracks", "points", "table"} => r.of \in Porcelain \cup {MOCK}
  /\ r.kind \in {"alerts", "status"} => r.of \in 0..MaxEvents

RequestsOK == IsABag(requests) /\ \A r \in DOMAIN requests : Wellformed(r)

TableShown == tab = "cracks" /\ "scene" \in fresh /\ ~NewestIn(DOMAIN requests, {"cracks", "points"})

ListGood == Good(DOMAIN requests, {"init", "list"}, dynasty, "list" \in fresh, shown["list"])
CracksGood ==
  Good(DOMAIN requests, {"cracks"}, currentPorcelain, "cracks" \in fresh, shown["cracks"])
SceneGood ==
  Good(DOMAIN requests, {"cracks", "points"}, currentPorcelain, "scene" \in fresh, shown["scene"])
TableGood ==
  TableShown => Good(DOMAIN requests, {"table"}, currentPorcelain, "table" \in fresh, shown["table"])
AlertsGood ==
  inbox = 0 /\ ~missed => Good(DOMAIN requests, {"alerts"}, changes, "alerts" \in fresh, alerts)

AppInv ==
  /\ AppTypeOK /\ RequestsOK /\ inbox \in Nat
  /\ "scene" \in fresh => currentPorcelain # NONE
  /\ ListGood /\ CracksGood /\ SceneGood /\ TableGood /\ AlertsGood

(* A newest request among those in new outdates the requests of a kind.    *)
OutdatedBy(kind, new) == \E n \in new : n.newest /\ kind \in Outdates(n.kind)

(* What is pending after an exchange: the newest requests are those issued *)
(* and those that nothing outdated, and no request that was not answered   *)
(* is lost.                                                                *)
LEMMA ExchangeFacts ==
  ASSUME RequestsOK, NEW done \in SUBSET DOMAIN requests, NEW new, \A x \in new : Wellformed(x),
         Exchange(done, new)
  PROVE  /\ RequestsOK'
         /\ new \subseteq DOMAIN requests'
         /\ \A q \in DOMAIN requests' : q.newest =>
              q \in new \/ (q \in DOMAIN requests /\ ~OutdatedBy(q.kind, new))
         /\ \A q \in DOMAIN requests \ done : ~OutdatedBy(q.kind, new) => q \in DOMAIN requests'
<1> DEFINE outdated == UNION {Outdates(n.kind) : n \in {x \in new : x.newest}}
           Left(q) == IF q \in DOMAIN requests THEN requests[q] - (IF q \in done THEN 1 ELSE 0) ELSE 0
           Asked(q) == IF q \in new THEN 1 ELSE 0
           AsNewest(q) == [q EXCEPT !.newest = TRUE]
           all == DOMAIN requests \cup {[r EXCEPT !.newest = FALSE] : r \in DOMAIN requests} \cup new
<1>1. \A k : k \in outdated <=> OutdatedBy(k, new)
  BY DEF OutdatedBy
<1>2. \A q : Pending(q, done, new) =
               Asked(q) + (IF q.kind \notin outdated THEN Left(q)
                           ELSE IF q.newest THEN 0 ELSE Left(q) + Left(AsNewest(q)))
  BY DEF Pending
<1>3. requests' = [r \in {q \in all : Pending(q, done, new) > 0} |-> Pending(r, done, new)]
  BY DEF Exchange
<1>4. \A q : Left(q) \in Nat
  <2>1. \A q \in DOMAIN requests : requests[q] \in Nat /\ requests[q] > 0
    BY DEF RequestsOK, IsABag
  <2> QED BY <2>1
<1>5. \A q \in DOMAIN requests \ done : Left(q) > 0
  BY DEF RequestsOK, IsABag
<1>6. \A q : q \notin DOMAIN requests => Left(q) = 0
  OBVIOUS
<1> HIDE DEF outdated, Left, AsNewest
<1>7. \A q : Pending(q, done, new) \in Nat
  BY <1>2, <1>4
<1>8. DOMAIN requests' = {q \in all : Pending(q, done, new) > 0}
      /\ \A q \in DOMAIN requests' : requests'[q] = Pending(q, done, new)
  BY <1>3
<1>9. \A q \in all : Wellformed(q)
  <2>1. ASSUME NEW r \in DOMAIN requests PROVE Wellformed([r EXCEPT !.newest = FALSE])
    <3>1. Wellformed(r)
      BY DEF RequestsOK
    <3>2. r \in Request
      BY <3>1 DEF Wellformed
    <3>3. /\ [r EXCEPT !.newest = FALSE] \in Request
          /\ [r EXCEPT !.newest = FALSE].kind = r.kind /\ [r EXCEPT !.newest = FALSE].of = r.of
      BY <3>2 DEF Request
    <3> QED BY <3>1, <3>3 DEF Wellformed
  <2> QED BY <2>1 DEF RequestsOK
<1>10. RequestsOK'
  <2>1. IsABag(requests')
    BY <1>3, <1>7 DEF IsABag
  <2> QED BY <1>8, <1>9, <2>1 DEF RequestsOK
<1>11. new \subseteq DOMAIN requests'
  <2> SUFFICES ASSUME NEW q \in new PROVE Pending(q, done, new) > 0
    BY <1>8
  <2>1. Asked(q) = 1
    OBVIOUS
  <2> QED BY <1>2, <1>4, <2>1
<1>12. ASSUME NEW q \in DOMAIN requests', q.newest, q \notin new
       PROVE  q \in DOMAIN requests /\ ~OutdatedBy(q.kind, new)
  <2>1. Pending(q, done, new) > 0 /\ Asked(q) = 0
    BY <1>8, <1>12
  <2>2. q.kind \notin outdated /\ Left(q) > 0
    BY <1>2, <1>4, <1>12, <2>1
  <2> QED BY <1>1, <1>6, <2>2
<1>13. ASSUME NEW q \in DOMAIN requests \ done, ~OutdatedBy(q.kind, new) PROVE q \in DOMAIN requests'
  <2>1. Pending(q, done, new) = Asked(q) + Left(q)
    BY <1>1, <1>2, <1>13
  <2>2. Pending(q, done, new) > 0
    BY <1>4, <1>5, <2>1
  <2> QED BY <1>8, <2>2
<1> QED BY <1>10, <1>11, <1>12, <1>13

(* What an exchange does to a display: it asks for it, or it changes what  *)
(* the display shows, or it leaves the requests for it alone.              *)
LEMMA GoodExchange ==
  ASSUME RequestsOK, NEW done \in SUBSET DOMAIN requests, NEW new, \A x \in new : Wellformed(x),
         Exchange(done, new), NEW kinds,
         NEW current, NEW isFresh, NEW show, Good(DOMAIN requests, kinds, current, isFresh, show),
         NEW current2, NEW isFresh2, NEW show2,
         \A x \in new : x.newest /\ x.kind \in kinds => x.of = current2,
         current2 = current \/ \A k \in kinds : OutdatedBy(k, new),
         \/ \E x \in new : x.newest /\ x.kind \in kinds
         \/ isFresh2 => show2 = current2
         \/ /\ current2 = current /\ (isFresh2 => isFresh) /\ show2 = show
            /\ \A k \in kinds : ~OutdatedBy(k, new)
            /\ \A r \in done : r.kind \in kinds => ~r.newest
  PROVE  Good(DOMAIN requests', kinds, current2, isFresh2, show2)
<1>1. /\ new \subseteq DOMAIN requests'
      /\ \A q \in DOMAIN requests' : q.newest =>
           q \in new \/ (q \in DOMAIN requests /\ ~OutdatedBy(q.kind, new))
      /\ \A q \in DOMAIN requests \ done : ~OutdatedBy(q.kind, new) => q \in DOMAIN requests'
  BY ExchangeFacts
<1>2. \A q \in DOMAIN requests' : q.kind \in kinds /\ q.newest => q.of = current2
  BY <1>1 DEF Good
<1>3. ASSUME isFresh2 PROVE show2 = current2 \/ NewestIn(DOMAIN requests', kinds)
  <2>1. CASE \E x \in new : x.newest /\ x.kind \in kinds
    BY <1>1, <2>1 DEF NewestIn
  <2>2. CASE /\ current2 = current /\ (isFresh2 => isFresh) /\ show2 = show
             /\ \A k \in kinds : ~OutdatedBy(k, new)
             /\ \A r \in done : r.kind \in kinds => ~r.newest
    BY <1>1, <1>3, <2>2 DEF Good, NewestIn
  <2> QED BY <1>3, <2>1, <2>2
<1> QED BY <1>2, <1>3 DEF Good

(* No newest request of these kinds is pending after an exchange that      *)
(* neither asks for them nor answers them, if none was before.             *)
LEMMA NewestKept ==
  ASSUME RequestsOK, NEW done \in SUBSET DOMAIN requests, NEW new, \A x \in new : Wellformed(x),
         Exchange(done, new), NEW kinds, \A k \in kinds : ~OutdatedBy(k, new),
         \A r \in done : r.kind \in kinds => ~r.newest
  PROVE  NewestIn(DOMAIN requests, kinds) => NewestIn(DOMAIN requests', kinds)
<1>1. \A q \in DOMAIN requests \ done : ~OutdatedBy(q.kind, new) => q \in DOMAIN requests'
  BY ExchangeFacts
<1> QED BY <1>1 DEF NewestIn

(* An exchange of requests of this program.                                *)
Exchanged(done, new) ==
  done \subseteq DOMAIN requests /\ (\A x \in new : Wellformed(x)) /\ Exchange(done, new)

(* It leaves the requests of these kinds alone.                            *)
Calm(done, new, kinds) ==
  /\ \A k \in kinds : ~OutdatedBy(k, new)
  /\ \A r \in done : r.kind \in kinds => ~r.newest

LEMMA OutdatesFacts ==
  /\ Outdates("cracks") = {"cracks", "points"} /\ Outdates("list") = {"list", "init"}
  /\ \A k : k \notin {"cracks", "list"} => Outdates(k) = {k}
  /\ \A k : k \in Outdates(k)
BY DEF Outdates

LEMMA AskFacts ==
  ASSUME NEW k, NEW of
  PROVE  /\ Ask(k, of).kind = k /\ Ask(k, of).of = of /\ Ask(k, of).newest
         /\ \A kind : OutdatedBy(kind, {Ask(k, of)}) <=> kind \in Outdates(k)
         /\ k \in {"init", "list"} /\ of \in Dynasty => Wellformed(Ask(k, of))
         /\ k \in {"cracks", "points", "table"} /\ of \in Porcelain \cup {MOCK} => Wellformed(Ask(k, of))
         /\ k \in {"alerts", "status"} /\ of \in 0..MaxEvents => Wellformed(Ask(k, of))
<1>1. Ask(k, of).kind = k /\ Ask(k, of).of = of /\ Ask(k, of).newest = TRUE
  BY DEF Ask
<1>2. k \in Kind /\ of \in Porcelain \cup Dynasty \cup {MOCK} \cup (0..MaxEvents) => Ask(k, of) \in Request
  BY DEF Ask, Request
<1> QED BY <1>1, <1>2 DEF OutdatedBy, Wellformed, Kind

(* What nothing outdates stays calm: the five displays.                    *)
LEMMA CalmFacts ==
  ASSUME NEW done, NEW new, \A x \in new \cup done : x.kind \in Kind
  PROVE  /\ (\A x \in new \cup done : x.kind \notin {"init", "list"}) => Calm(done, new, {"init", "list"})
         /\ (\A x \in new \cup done : x.kind \notin {"cracks", "points"}) =>
              Calm(done, new, {"cracks", "points"}) /\ Calm(done, new, {"cracks"})
         /\ (\A x \in new \cup done : x.kind # "cracks") => Calm(done, new, {"cracks"})
         /\ (\A x \in new \cup done : x.kind # "table") => Calm(done, new, {"table"})
         /\ (\A x \in new \cup done : x.kind # "alerts") => Calm(done, new, {"alerts"})
<1>1. \A x \in new : /\ "init" \in Outdates(x.kind) => x.kind \in {"init", "list"}
                     /\ "list" \in Outdates(x.kind) => x.kind \in {"init", "list"}
                     /\ "cracks" \in Outdates(x.kind) => x.kind = "cracks"
                     /\ "points" \in Outdates(x.kind) => x.kind \in {"cracks", "points"}
                     /\ "table" \in Outdates(x.kind) => x.kind = "table"
                     /\ "alerts" \in Outdates(x.kind) => x.kind = "alerts"
  BY DEF Outdates
<1> QED BY <1>1 DEF Calm, OutdatedBy

LEMMA GoodSame ==
  ASSUME RequestsOK, NEW done, NEW new, Exchanged(done, new), NEW kinds, Calm(done, new, kinds),
         NEW current, NEW isFresh, NEW show, Good(DOMAIN requests, kinds, current, isFresh, show),
         NEW isFresh2, isFresh2 => isFresh
  PROVE  Good(DOMAIN requests', kinds, current, isFresh2, show)
<1>1. \A x \in new : x.newest /\ x.kind \in kinds => x.of = current
  BY OutdatesFacts DEF Calm, OutdatedBy
<1>2. done \in SUBSET DOMAIN requests /\ (\A x \in new : Wellformed(x)) /\ Exchange(done, new)
  BY DEF Exchanged
<1>3. (\A k \in kinds : ~OutdatedBy(k, new)) /\ \A r \in done : r.kind \in kinds => ~r.newest
  BY DEF Calm
<1> QED BY <1>1, <1>2, <1>3, GoodExchange

LEMMA GoodAsked ==
  ASSUME RequestsOK, NEW done, NEW new, Exchanged(done, new), NEW kinds,
         \A k \in kinds : OutdatedBy(k, new), \E x \in new : x.newest /\ x.kind \in kinds,
         NEW current, \A x \in new : x.newest /\ x.kind \in kinds => x.of = current,
         NEW isFresh, NEW show
  PROVE  Good(DOMAIN requests', kinds, current, isFresh, show)
<1>1. /\ new \subseteq DOMAIN requests'
      /\ \A q \in DOMAIN requests' : q.newest =>
           q \in new \/ (q \in DOMAIN requests /\ ~OutdatedBy(q.kind, new))
  BY ExchangeFacts DEF Exchanged
<1> QED BY <1>1 DEF Good, NewestIn

(* The answer to a request of these kinds: the display is fresh only when  *)
(* it shows what is current.                                               *)
LEMMA GoodAnswered ==
  ASSUME RequestsOK, NEW done, NEW new, Exchanged(done, new), NEW kinds,
         \A x \in new : x.kind \notin kinds,
         NEW current, NEW isFresh, NEW show, Good(DOMAIN requests, kinds, current, isFresh, show),
         NEW isFresh2, NEW show2, isFresh2 => show2 = current
  PROVE  Good(DOMAIN requests', kinds, current, isFresh2, show2)
<1>1. \A x \in new : x.newest /\ x.kind \in kinds => x.of = current
  OBVIOUS
<1>2. done \in SUBSET DOMAIN requests /\ (\A x \in new : Wellformed(x)) /\ Exchange(done, new)
  BY DEF Exchanged
<1> QED BY <1>1, <1>2, GoodExchange

(* The displays that an exchange leaves alone.                             *)
LEMMA ListSame ==
  ASSUME AppInv, NEW done, NEW new, Exchanged(done, new), Calm(done, new, {"init", "list"}),
         dynasty' = dynasty, "list" \in fresh' => "list" \in fresh, shown'["list"] = shown["list"]
  PROVE  ListGood'
BY GoodSame DEF AppInv, ListGood

LEMMA CracksSame ==
  ASSUME AppInv, NEW done, NEW new, Exchanged(done, new), Calm(done, new, {"cracks"}),
         currentPorcelain' = currentPorcelain, "cracks" \in fresh' => "cracks" \in fresh,
         shown'["cracks"] = shown["cracks"]
  PROVE  CracksGood'
BY GoodSame DEF AppInv, CracksGood

LEMMA SceneSame ==
  ASSUME AppInv, NEW done, NEW new, Exchanged(done, new), Calm(done, new, {"cracks", "points"}),
         currentPorcelain' = currentPorcelain, "scene" \in fresh' => "scene" \in fresh,
         shown'["scene"] = shown["scene"]
  PROVE  SceneGood'
BY GoodSame DEF AppInv, SceneGood

LEMMA TableShownBefore ==
  ASSUME RequestsOK, NEW done, NEW new, Exchanged(done, new), Calm(done, new, {"cracks", "points"}),
         tab' = tab, "scene" \in fresh' => "scene" \in fresh
  PROVE  TableShown' => TableShown
<1>1. NewestIn(DOMAIN requests, {"cracks", "points"}) => NewestIn(DOMAIN requests', {"cracks", "points"})
  BY NewestKept DEF Exchanged, Calm
<1> QED BY <1>1 DEF TableShown

LEMMA TableSame ==
  ASSUME AppInv, NEW done, NEW new, Exchanged(done, new), Calm(done, new, {"cracks", "points"}),
         Calm(done, new, {"table"}), tab' = tab, currentPorcelain' = currentPorcelain,
         "scene" \in fresh' => "scene" \in fresh, "table" \in fresh' => "table" \in fresh,
         shown'["table"] = shown["table"]
  PROVE  TableGood'
<1> SUFFICES ASSUME TableShown'
             PROVE  Good(DOMAIN requests', {"table"}, currentPorcelain', "table" \in fresh', shown'["table"])
  BY DEF TableGood
<1>1. RequestsOK /\ TableShown
  BY TableShownBefore DEF AppInv
<1>2. Good(DOMAIN requests, {"table"}, currentPorcelain, "table" \in fresh, shown["table"])
  BY <1>1 DEF AppInv, TableGood
<1> QED BY <1>1, <1>2, GoodSame

LEMMA AlertsSame ==
  ASSUME AppInv, NEW done, NEW new, Exchanged(done, new), Calm(done, new, {"alerts"}),
         changes' = changes, alerts' = alerts, "alerts" \in fresh' => "alerts" \in fresh,
         inbox' = 0 /\ ~missed' => inbox = 0 /\ ~missed
  PROVE  AlertsGood'
<1> SUFFICES ASSUME inbox' = 0, ~missed'
             PROVE  Good(DOMAIN requests', {"alerts"}, changes', "alerts" \in fresh', alerts')
  BY DEF AlertsGood
<1>1. RequestsOK /\ Good(DOMAIN requests, {"alerts"}, changes, "alerts" \in fresh, alerts)
  BY DEF AppInv, AlertsGood
<1> QED BY <1>1, GoodSame

(* The displays that an exchange asks for.                                 *)
LEMMA SelectionAsked ==
  ASSUME AppInv, NEW done, NEW new, Exchanged(done, new), NEW p, Ask("cracks", p) \in new,
         currentPorcelain' = p, \A x \in new : x.kind \in {"cracks", "points"} => x = Ask("cracks", p)
  PROVE  CracksGood' /\ SceneGood' /\ TableGood'
<1>1. /\ Ask("cracks", p).kind = "cracks" /\ Ask("cracks", p).newest /\ Ask("cracks", p).of = p
      /\ OutdatedBy("cracks", new) /\ OutdatedBy("points", new)
  BY AskFacts, OutdatesFacts DEF OutdatedBy
<1>2. RequestsOK
  BY DEF AppInv
<1>3. CracksGood'
  BY <1>1, <1>2, GoodAsked DEF CracksGood
<1>4. SceneGood'
  BY <1>1, <1>2, GoodAsked DEF SceneGood
<1>5. new \subseteq DOMAIN requests'
  BY <1>2, ExchangeFacts DEF Exchanged
<1>6. ~TableShown'
  BY <1>1, <1>5 DEF TableShown, NewestIn
<1> QED BY <1>3, <1>4, <1>6 DEF TableGood

LEMMA TableAsked ==
  ASSUME AppInv, NEW done, NEW of, Exchanged(done, {Ask("table", of)}),
         TableShown' => of = currentPorcelain'
  PROVE  TableGood'
<1>1. /\ Ask("table", of).kind = "table" /\ Ask("table", of).newest /\ Ask("table", of).of = of
      /\ OutdatedBy("table", {Ask("table", of)})
  BY AskFacts, OutdatesFacts
<1> QED BY <1>1, GoodAsked DEF TableGood, AppInv

LEMMA AlertsAsked ==
  ASSUME AppInv, NEW done, NEW new, Exchanged(done, new), Ask("alerts", changes') \in new,
         \A x \in new : x.kind = "alerts" => x = Ask("alerts", changes')
  PROVE  AlertsGood'
<1> DEFINE a == Ask("alerts", changes')
<1>1. a.kind = "alerts" /\ a.newest /\ a.of = changes' /\ "alerts" \in Outdates("alerts")
  BY AskFacts, OutdatesFacts
<1>2. OutdatedBy("alerts", new)
  BY <1>1 DEF OutdatedBy
<1> HIDE DEF a
<1>3. (\E x \in new : x.newest /\ x.kind \in {"alerts"})
      /\ \A x \in new : x.newest /\ x.kind \in {"alerts"} => x.of = changes'
  BY <1>1 DEF a
<1>4. Good(DOMAIN requests', {"alerts"}, changes', "alerts" \in fresh', alerts')
  BY <1>2, <1>3, GoodAsked DEF AppInv
<1> QED BY <1>4 DEF AlertsGood

(* What an exchange keeps of the requests.                                 *)
LEMMA RequestsKept ==
  ASSUME AppInv, NEW done, NEW new, Exchanged(done, new)
  PROVE  RequestsOK' /\ IsABag(requests') /\ DOMAIN requests' \subseteq Request
<1>1. RequestsOK'
  BY ExchangeFacts DEF Exchanged, AppInv
<1> QED BY <1>1 DEF RequestsOK, Wellformed

(* A request that the page makes.                                          *)
LEMMA AskExchanged ==
  ASSUME NEW k \in Kind, NEW of, Issue({Ask(k, of)}),
         k \in {"init", "list"} => of \in Dynasty,
         k \in {"cracks", "points", "table"} => of \in Porcelain \cup {MOCK},
         k \in {"alerts", "status"} => of \in 0..MaxEvents
  PROVE  /\ Exchanged({}, {Ask(k, of)})
         /\ k \notin {"init", "list"} => Calm({}, {Ask(k, of)}, {"init", "list"})
         /\ k \notin {"cracks", "points"} => /\ Calm({}, {Ask(k, of)}, {"cracks", "points"})
                                             /\ Calm({}, {Ask(k, of)}, {"cracks"})
         /\ k # "table" => Calm({}, {Ask(k, of)}, {"table"})
         /\ k # "alerts" => Calm({}, {Ask(k, of)}, {"alerts"})
<1>1. Ask(k, of).kind = k /\ Wellformed(Ask(k, of))
  BY AskFacts DEF Kind
<1>2. \A x \in {Ask(k, of)} \cup {} : x.kind = k
  BY <1>1
<1> DEFINE new == {Ask(k, of)}
           done == {}
<1>3. \A x \in new \cup done : x.kind = k /\ x.kind \in Kind
  BY <1>2
<1>4. Exchanged(done, new)
  BY <1>1 DEF Exchanged, Issue
<1> SUFFICES
      /\ Exchanged(done, new)
      /\ k \notin {"init", "list"} => Calm(done, new, {"init", "list"})
      /\ k \notin {"cracks", "points"} => Calm(done, new, {"cracks", "points"}) /\ Calm(done, new, {"cracks"})
      /\ k # "table" => Calm(done, new, {"table"})
      /\ k # "alerts" => Calm(done, new, {"alerts"})
  OBVIOUS
<1> HIDE DEF new, done
<1> QED BY <1>3, <1>4, CalmFacts

(* The handlers of the page, one by one.                                   *)
LEMMA EventFacts ==
  ASSUME AppInv, Event
  PROVE  events' \in 0..MaxEvents /\ failures' = failures
BY AppAssumption DEF Event, AppInv, AppTypeOK

LEMMA SelectKeeps == ASSUME AppInv, NEW p \in Porcelain, SelectPorcelain(p) PROVE AppInv'
<1>1. "cracks" \in Kind
  BY DEF Kind
<1>2. /\ Exchanged({}, {Ask("cracks", p)}) /\ Calm({}, {Ask("cracks", p)}, {"init", "list"})
      /\ Calm({}, {Ask("cracks", p)}, {"alerts"})
  BY <1>1, AskExchanged DEF SelectPorcelain
<1>3. CracksGood' /\ SceneGood' /\ TableGood'
  BY <1>2, SelectionAsked DEF SelectPorcelain
<1>4. ListGood' /\ AlertsGood'
  BY <1>2, ListSame, AlertsSame DEF SelectPorcelain, clientVars, netVars
<1>5. AppTypeOK' /\ RequestsOK'
  BY <1>2, RequestsKept, EventFacts DEF SelectPorcelain, AppInv, AppTypeOK
<1>6. currentPorcelain' # NONE /\ inbox' \in Nat
  BY AppAssumption DEF SelectPorcelain, AppInv, clientVars, netVars
<1> QED BY <1>3, <1>4, <1>5, <1>6 DEF AppInv

(* A step that asks for the cracks tab, for the alert list or for a status *)
(* and leaves what the page shows alone.                                   *)
OnlyAsks(k, of) ==
  /\ Issue({Ask(k, of)}) /\ k \in {"table", "alerts", "status"}
  /\ k = "table" => of = currentPorcelain /\ currentPorcelain # NONE
  /\ k = "alerts" => of = changes /\ missed' = FALSE
  /\ k = "status" => of = 0
  /\ k # "alerts" => missed' = missed /\ inbox' = inbox
  /\ UNCHANGED <<currentPorcelain, dynasty, shown, fresh, alerts, changes, failures>>
  /\ tab' = tab \/ k = "table" \/ (k = "alerts" /\ tab' = "alerts")
  /\ inbox' \in Nat /\ tab' \in Tab /\ events' \in 0..MaxEvents

LEMMA AskKeeps == ASSUME AppInv, NEW k, NEW of, OnlyAsks(k, of) PROVE AppInv'
<1> USE DEF OnlyAsks
<1> DEFINE new == {Ask(k, of)}
<1>1. /\ Exchanged({}, new) /\ Calm({}, new, {"init", "list"})
      /\ Calm({}, new, {"cracks", "points"}) /\ Calm({}, new, {"cracks"})
      /\ (k # "table" => Calm({}, new, {"table"})) /\ (k # "alerts" => Calm({}, new, {"alerts"}))
  <2>1. k \in Kind /\ k \notin {"init", "list", "cracks", "points"}
    BY DEF Kind
  <2>2. k = "table" => of \in Porcelain \cup {MOCK}
    BY DEF AppInv, AppTypeOK
  <2>3. k \in {"alerts", "status"} => of \in 0..MaxEvents
    BY AppAssumption DEF AppInv, AppTypeOK
  <2> QED BY <2>1, <2>2, <2>3, AskExchanged
<1> HIDE DEF new
<1>2. ListGood' /\ CracksGood' /\ SceneGood'
  BY <1>1, ListSame, CracksSame, SceneSame
<1>3. TableGood'
  <2>1. CASE k = "table"
    BY <1>1, <2>1, TableAsked DEF new
  <2>2. CASE k # "table" /\ tab' = tab
    BY <1>1, <2>2, TableSame
  <2>3. CASE tab' = "alerts"
    BY <2>3 DEF TableGood, TableShown
  <2> QED BY <2>1, <2>2, <2>3
<1>4. AlertsGood'
  <2>1. CASE k = "alerts"
    <3>1. new = {Ask("alerts", changes')}
      BY <2>1 DEF new
    <3> QED BY <1>1, <3>1, AlertsAsked
  <2>2. CASE k # "alerts"
    BY <1>1, <2>2, AlertsSame
  <2> QED BY <2>1, <2>2
<1>5. RequestsOK' /\ IsABag(requests') /\ DOMAIN requests' \subseteq Request
  BY <1>1, RequestsKept
<1>6. missed' \in BOOLEAN
  BY DEF AppInv, AppTypeOK
<1>7. AppTypeOK'
  BY <1>5, <1>6 DEF AppInv, AppTypeOK
<1> QED BY <1>2, <1>3, <1>4, <1>5, <1>7 DEF AppInv

LEMMA TableKeeps ==
  ASSUME AppInv, Issue(LoadCracksData(currentPorcelain)), currentPorcelain # NONE,
         missed' = missed, inbox' = inbox,
         UNCHANGED <<currentPorcelain, dynasty, shown, fresh, alerts, changes, failures>>,
         tab' \in Tab, events' \in 0..MaxEvents
  PROVE  AppInv'
<1>1. OnlyAsks("table", currentPorcelain)
  <2>1. Issue({Ask("table", currentPorcelain)}) /\ inbox' \in Nat
    BY DEF LoadCracksData, AppInv
  <2> QED BY <2>1 DEF OnlyAsks
<1> QED BY <1>1, AskKeeps

LEMMA AlertsKeeps ==
  ASSUME AppInv, Issue(LoadAlerts), missed' = FALSE, inbox' \in Nat,
         UNCHANGED <<currentPorcelain, dynasty, shown, fresh, alerts, changes, failures>>,
         tab' = tab \/ tab' = "alerts", tab' \in Tab, events' \in 0..MaxEvents
  PROVE  AppInv'
<1>1. OnlyAsks("alerts", changes)
  <2>1. Issue({Ask("alerts", changes)})
    BY DEF LoadAlerts
  <2> QED BY <2>1 DEF OnlyAsks
<1> QED BY <1>1, AskKeeps

(* A step that neither asks nor shows anything.                            *)
LEMMA IdleKeeps ==
  ASSUME AppInv, UNCHANGED <<currentPorcelain, dynasty, shown, fresh, alerts, requests, failures>>,
         tab' \in Tab, tab' = "cracks" => tab = "cracks" \/ currentPorcelain = NONE,
         inbox' = 0 /\ ~missed' => inbox = 0 /\ ~missed /\ changes' = changes,
         inbox' \in Nat, missed' \in BOOLEAN, changes' \in 0..MaxEvents, events' \in 0..MaxEvents
  PROVE  AppInv'
<1>1. ListGood' /\ CracksGood' /\ SceneGood'
  BY DEF AppInv, ListGood, CracksGood, SceneGood
<1>2. TableShown' => TableShown
  BY DEF AppInv, TableShown
<1>3. TableGood' /\ AlertsGood'
  BY <1>2 DEF AppInv, TableGood, AlertsGood
<1>4. AppTypeOK' /\ RequestsOK'
  BY DEF AppInv, AppTypeOK, RequestsOK
<1> QED BY <1>1, <1>3, <1>4 DEF AppInv

LEMMA SwitchTabKeeps == ASSUME AppInv, NEW t \in Tab, SwitchTab(t) PROVE AppInv'
<1>1. /\ UNCHANGED <<currentPorcelain, dynasty, shown, fresh, alerts, changes>>
      /\ events' \in 0..MaxEvents /\ failures' = failures /\ inbox' = inbox /\ inbox' \in Nat /\ tab' = t
  BY EventFacts DEF SwitchTab, AppInv, clientVars, netVars
<1>2. CASE t = "cracks" /\ currentPorcelain # NONE
  BY <1>1, <1>2, TableKeeps DEF SwitchTab
<1>3. CASE t = "alerts"
  BY <1>1, <1>3, AlertsKeeps DEF SwitchTab
<1>4. CASE ~(t = "cracks" /\ currentPorcelain # NONE) /\ t # "alerts"
  <2>1. requests' = requests /\ missed' = missed
    BY <1>4 DEF SwitchTab
  <2> QED BY <1>1, <1>4, <2>1, IdleKeeps DEF AppInv, AppTypeOK
<1> QED BY <1>2, <1>3, <1>4

LEMMA RefreshKeeps == AppInv /\ (RefreshCracks \/ RefreshAlerts \/ UpdateStatus) => AppInv'
<1> SUFFICES ASSUME AppInv, RefreshCracks \/ RefreshAlerts \/ UpdateStatus PROVE AppInv'
  OBVIOUS
<1>1. /\ UNCHANGED <<currentPorcelain, dynasty, shown, fresh, alerts, changes, tab>>
      /\ events' \in 0..MaxEvents /\ failures' = failures /\ inbox' = inbox /\ inbox' \in Nat
      /\ tab' \in Tab
  BY EventFacts
     DEF RefreshCracks, RefreshAlerts, UpdateStatus, AppInv, AppTypeOK, clientVars, netVars, appVars
<1>2. CASE RefreshCracks
  BY <1>1, <1>2, TableKeeps DEF RefreshCracks
<1>3. CASE RefreshAlerts
  BY <1>1, <1>3, AlertsKeeps DEF RefreshAlerts
<1>4. CASE UpdateStatus
  <2>1. OnlyAsks("status", 0)
    BY <1>1, <1>4 DEF OnlyAsks, UpdateStatus
  <2> QED BY <2>1, AskKeeps
<1> QED BY <1>2, <1>3, <1>4

LEMMA FilterKeeps == ASSUME AppInv, NEW d \in Dynasty, FilterChanges(d) PROVE AppInv'
<1> DEFINE new == {Ask("list", d)}
<1>1. /\ Exchanged({}, new) /\ Calm({}, new, {"alerts"}) /\ Calm({}, new, {"table"})
      /\ Calm({}, new, {"cracks", "points"}) /\ Calm({}, new, {"cracks"})
  BY AskExchanged DEF FilterChanges, Kind
<1>2. OutdatedBy("list", new) /\ OutdatedBy("init", new)
  BY AskFacts, OutdatesFacts
<1>3. (\E x \in new : x.newest /\ x.kind \in {"init", "list"}) /\ \A x \in new : x.of = d
  <2> DEFINE a == Ask("list", d)
  <2>1. a.kind = "list" /\ a.newest /\ a.of = d
    BY ZenonT(40), AskFacts
  <2> HIDE DEF a
  <2> QED BY <2>1 DEF a
<1> HIDE DEF new
<1>4. ListGood'
  <2>1. Good(DOMAIN requests', {"init", "list"}, dynasty', "list" \in fresh', shown'["list"])
    BY <1>1, <1>2, <1>3, GoodAsked DEF FilterChanges, AppInv
  <2> QED BY <2>1 DEF ListGood
<1>5. CracksGood' /\ SceneGood'
  BY <1>1, CracksSame, SceneSame DEF FilterChanges
<1>6. TableGood' /\ AlertsGood'
  BY <1>1, TableSame, AlertsSame DEF FilterChanges, clientVars, netVars
<1>7. AppTypeOK' /\ RequestsOK'
  BY <1>1, RequestsKept, EventFacts DEF FilterChanges, AppInv, AppTypeOK
<1> QED BY <1>4, <1>5, <1>6, <1>7 DEF FilterChanges, AppInv, clientVars, netVars

LEMMA FilterAlertsKeeps == AppInv /\ FilterAlerts => AppInv'
<1> SUFFICES ASSUME AppInv, FilterAlerts PROVE AppInv'
  OBVIOUS
<1> DEFINE new == {Ask("alerts", changes')}
<1>1. /\ UNCHANGED <<clientVars, appVars>> /\ changes' \in 0..MaxEvents /\ missed' = FALSE
      /\ events' \in 0..MaxEvents /\ failures' = failures
  BY EventFacts, AppAssumption DEF FilterAlerts, AppInv, AppTypeOK
<1>2. UNCHANGED <<currentPorcelain, tab, dynasty, shown, fresh, alerts>> /\ inbox' = inbox
  BY <1>1 DEF appVars, clientVars, netVars
<1>3. /\ Exchanged({}, new) /\ Calm({}, new, {"init", "list"}) /\ Calm({}, new, {"table"})
      /\ Calm({}, new, {"cracks", "points"}) /\ Calm({}, new, {"cracks"})
  BY <1>1, AskExchanged DEF FilterAlerts, Kind
<1>4. ListGood' /\ CracksGood' /\ SceneGood' /\ TableGood'
  BY <1>2, <1>3, ListSame, CracksSame, SceneSame, TableSame
<1>5. Ask("alerts", changes') \in new /\ \A x \in new : x.kind = "alerts" => x = Ask("alerts", changes')
  OBVIOUS
<1> HIDE DEF new
<1>6. AlertsGood'
  BY <1>3, <1>5, AlertsAsked
<1>7. RequestsOK' /\ IsABag(requests') /\ DOMAIN requests' \subseteq Request
  BY <1>3, RequestsKept
<1>8. AppTypeOK'
  BY <1>1, <1>2, <1>7 DEF AppInv, AppTypeOK
<1> QED BY <1>2, <1>4, <1>6, <1>7, <1>8 DEF AppInv

LEMMA OutsideKeeps == AppInv /\ Inv /\ (AlertPushed \/ OwnerOrServer \/ Connection) => AppInv'
<1> SUFFICES ASSUME AppInv, Inv, AlertPushed \/ OwnerOrServer \/ Connection PROVE AppInv'
  OBVIOUS
<1>1. inbox \in Nat /\ missed \in BOOLEAN /\ changes \in 0..MaxEvents /\ MaxEvents \in Nat /\ tab \in Tab
      /\ events \in 0..MaxEvents
  BY AppAssumption DEF AppInv, AppTypeOK
<1>2. UNCHANGED <<currentPorcelain, dynasty, shown, fresh, alerts, requests, failures, tab>>
  BY DEF AlertPushed, OwnerOrServer, Connection, appVars, Event, countVars
<1>3. CASE AlertPushed
  <2>1. Sockets("open") \in Nat
    BY DEF Inv, Typed, Sockets, Live
  <2>2. inbox' = inbox + Sockets("open") /\ (Sockets("open") = 0 => missed' = TRUE) /\ missed' \in BOOLEAN
    BY <1>1, <1>3 DEF AlertPushed, ServerPushes
  <2>3. changes' \in 0..MaxEvents /\ events' \in 0..MaxEvents
    BY <1>1, <1>3, EventFacts DEF AlertPushed
  <2> QED BY <1>1, <1>2, <2>1, <2>2, <2>3, IdleKeeps
<1>4. CASE OwnerOrServer
  BY <1>1, <1>2, <1>4, EventFacts, IdleKeeps
     DEF OwnerOrServer, Disconnect, Connect, ServerGoesDown, ServerComesBack, netVars, countVars
<1>5. CASE Connection
  <2>1. inbox' \in Nat
    <3>1. CASE OnClose
      BY <1>1, <3>1 DEF OnClose
    <3>2. CASE OnOpen \/ TimerFires
      BY <1>1, <3>2 DEF OnOpen, TimerFires, netVars
    <3> QED BY <1>5, <3>1, <3>2 DEF Connection
  <2>2. missed' \in BOOLEAN /\ (inbox' < inbox => missed' = TRUE) /\ (missed' => missed \/ inbox' < inbox)
        /\ (missed => missed')
    BY <1>1, <1>5, Zenon DEF Connection
  <2>3. UNCHANGED <<changes, events>>
    BY <1>5 DEF Connection, countVars
  <2> QED BY <1>1, <1>2, <2>1, <2>2, <2>3, IdleKeeps
<1> QED BY <1>3, <1>4, <1>5

LEMMA HandleKeeps == AppInv /\ HandleAlert => AppInv'
<1> SUFFICES ASSUME AppInv, HandleAlert PROVE AppInv'
  OBVIOUS
<1>1. inbox' \in Nat
  BY DEF HandleAlert, OnMessage, AppInv
<1>2. /\ UNCHANGED <<currentPorcelain, dynasty, shown, fresh, alerts, changes, tab, events, failures>>
      /\ tab' \in Tab /\ events' \in 0..MaxEvents
  BY DEF HandleAlert, appVars, countVars, AppInv, AppTypeOK
<1> QED BY <1>1, <1>2, AlertsKeeps DEF HandleAlert

(* An answer to r: the newest request of a display asked for what is       *)
(* current.                                                                *)
LEMMA AnswerFacts ==
  ASSUME AppInv, NEW r \in DOMAIN requests
  PROVE  /\ Wellformed(r) /\ r.kind \in Kind
         /\ r.newest /\ r.kind \in {"init", "list"} => r.of = dynasty
         /\ r.newest /\ r.kind \in {"cracks", "points"} => r.of = currentPorcelain
         /\ r.newest /\ r.kind = "table" /\ TableShown => r.of = currentPorcelain
         /\ r.newest /\ r.kind = "alerts" /\ inbox = 0 /\ ~missed => r.of = changes
<1>1. Wellformed(r) /\ r.kind \in Kind
  BY DEF AppInv, RequestsOK, Wellformed, Request
<1> QED BY <1>1 DEF AppInv, ListGood, SceneGood, TableGood, AlertsGood, Good

LEMMA AnswerExchanged ==
  ASSUME AppInv, NEW r \in DOMAIN requests, NEW new, \A x \in new : Wellformed(x), Exchange({r}, new)
  PROVE  /\ Exchanged({r}, new)
         /\ \A x \in new \cup {r} : x.kind \in Kind
<1>1. \A x \in new : x.kind \in Kind
  BY DEF Wellformed, Request
<1>2. r.kind \in Kind
  BY AnswerFacts
<1> QED BY <1>1, <1>2 DEF Exchanged

LEMMA ShowFacts ==
  ASSUME AppInv, NEW d \in Display, NEW of \in Porcelain \cup Dynasty \cup {MOCK, NONE},
         NEW isFresh, Show(d, of, isFresh)
  PROVE  /\ shown' \in [Display -> Porcelain \cup Dynasty \cup {MOCK, NONE}]
         /\ fresh' \in SUBSET (Display \cup {"alerts"})
         /\ shown'[d] = of /\ (d \in fresh' => isFresh)
         /\ \A e \in Display \ {d} : shown'[e] = shown[e]
         /\ \A e : e # d /\ e \in fresh' => e \in fresh
BY DEF Show, AppInv, AppTypeOK

LEMMA CountFacts ==
  ASSUME AppInv, Succeeds \/ Fails
  PROVE  events' \in 0..MaxEvents /\ failures' \in 0..MaxFailures
BY AppAssumption DEF AppInv, AppTypeOK, Succeeds, Fails, countVars

(* The list of porcelains arrives, or fails.                               *)
LEMMA ListAnswered ==
  ASSUME AppInv, NEW r \in DOMAIN requests, r.kind \in {"init", "list"},
         NEW new, Exchanged({r}, new), \A x \in new : x.kind \in {"alerts", "cracks"},
         dynasty' = dynasty, "list" \in fresh' => r.newest /\ shown'["list"] = r.of
  PROVE  ListGood'
<1>1. "list" \in fresh' => shown'["list"] = dynasty
  BY AnswerFacts
<1>2. \A x \in new : x.kind \notin {"init", "list"}
  OBVIOUS
<1>3. Good(DOMAIN requests', {"init", "list"}, dynasty, "list" \in fresh', shown'["list"])
  BY <1>1, <1>2, GoodAnswered DEF AppInv, ListGood
<1> QED BY <1>3 DEF ListGood

(* What else the answer to the list does: it selects a porcelain, or       *)
(* leaves the selection alone.                                             *)
LEMMA ListRest ==
  ASSUME AppInv, NEW r \in DOMAIN requests, r.kind \in {"init", "list"},
         NEW next \in {LoadAlerts, {}}, NEW new,
         \/ new = next /\ currentPorcelain' = currentPorcelain
         \/ /\ currentPorcelain' \in Porcelain \cup {MOCK}
            /\ new = next \cup {Ask("cracks", currentPorcelain')},
         Exchange({r}, new), missed' = missed \/ next = LoadAlerts, missed' \in BOOLEAN,
         "list" \in fresh' => r.newest /\ shown'["list"] = r.of,
         shown' \in [Display -> Porcelain \cup Dynasty \cup {MOCK, NONE}],
         \A e \in Display \ {"list"} : shown'[e] = shown[e],
         \A e : e # "list" /\ e \in fresh' => e \in fresh,
         UNCHANGED <<clientVars, tab, dynasty, alerts, changes>>, Succeeds \/ Fails
  PROVE  AppInv'
<1>1. LoadAlerts = {Ask("alerts", changes)} /\ changes \in 0..MaxEvents
  BY DEF LoadAlerts, AppInv, AppTypeOK
<1>2. Ask("alerts", changes).kind = "alerts" /\ Wellformed(Ask("alerts", changes))
  BY <1>1, AskFacts
<1>3. \A p \in Porcelain \cup {MOCK} : Ask("cracks", p).kind = "cracks" /\ Wellformed(Ask("cracks", p))
  BY AskFacts
<1>4. (\A x \in next : x = Ask("alerts", changes)) /\ (next = {} \/ Ask("alerts", changes) \in next)
  BY <1>1
<1>5. \A x \in new : x.kind \in {"alerts", "cracks"} /\ Wellformed(x)
  BY <1>2, <1>3, <1>4
<1>6. Exchanged({r}, new) /\ \A x \in new \cup {r} : x.kind \in Kind
  BY <1>5, AnswerExchanged
<1>7. ListGood'
  BY <1>5, <1>6, ListAnswered
<1>8. CracksGood' /\ SceneGood' /\ TableGood'
  <2>1. CASE new = next /\ currentPorcelain' = currentPorcelain
    <3>1. \A x \in new \cup {r} : x.kind \notin {"cracks", "points", "table"}
      BY <1>2, <1>4, <2>1
    <3>2. Calm({r}, new, {"cracks"}) /\ Calm({r}, new, {"cracks", "points"}) /\ Calm({r}, new, {"table"})
      BY <1>6, <3>1, CalmFacts
    <3>3. shown'["cracks"] = shown["cracks"] /\ shown'["scene"] = shown["scene"]
          /\ shown'["table"] = shown["table"]
      BY DEF Display
    <3> QED BY <1>6, <2>1, <3>2, <3>3, CracksSame, SceneSame, TableSame
  <2>2. CASE /\ currentPorcelain' \in Porcelain \cup {MOCK}
             /\ new = next \cup {Ask("cracks", currentPorcelain')}
    <3> DEFINE a == Ask("cracks", currentPorcelain')
    <3>1. a \in new /\ \A x \in new : x.kind \in {"cracks", "points"} => x = a
      <4>1. ASSUME NEW x \in new, x.kind \in {"cracks", "points"} PROVE x = a
        BY <1>2, <1>4, <2>2, <4>1
      <4> QED BY <2>2, <4>1
    <3> QED BY <1>6, <3>1, SelectionAsked
  <2> QED BY <2>1, <2>2
<1>9. AlertsGood'
  <2>1. CASE Ask("alerts", changes) \in next
    <3>1. Ask("alerts", changes') \in new
      BY <2>1
    <3>2. ASSUME NEW x \in new, x.kind = "alerts" PROVE x = Ask("alerts", changes')
      BY <1>3, <1>4, <3>2
    <3> QED BY <1>6, <3>1, <3>2, AlertsAsked
  <2>2. CASE Ask("alerts", changes) \notin next
    <3>1. next = {} /\ missed' = missed
      BY <1>1, <1>4, <2>2
    <3>2. \A x \in new \cup {r} : x.kind # "alerts"
      BY <1>3, <3>1
    <3>3. Calm({r}, new, {"alerts"})
      BY <1>6, <3>2, CalmFacts
    <3> QED BY <1>6, <3>1, <3>3, AlertsSame DEF clientVars, netVars
  <2> QED BY <2>1, <2>2
<1>10. RequestsOK' /\ IsABag(requests') /\ DOMAIN requests' \subseteq Request
  BY <1>6, RequestsKept
<1>11. fresh' \in SUBSET (Display \cup {"alerts"})
  BY DEF AppInv, AppTypeOK, Display
<1>12. currentPorcelain' \in Porcelain \cup {MOCK, NONE} /\ ("scene" \in fresh' => currentPorcelain' # NONE)
  BY AppAssumption DEF AppInv, AppTypeOK
<1>13. AppTypeOK'
  BY <1>10, <1>11, <1>12, CountFacts DEF AppInv, AppTypeOK
<1> QED BY <1>7, <1>8, <1>9, <1>10, <1>12, <1>13 DEF AppInv, clientVars, netVars

LEMMA PorcelainsArriveKeeps == ASSUME AppInv, NEW r \in DOMAIN requests, PorcelainsArrive(r) PROVE AppInv'
<1> DEFINE next == IF r.kind = "init" THEN LoadAlerts ELSE {}
<1>1. r.kind \in {"init", "list"} /\ Succeeds /\ Show("list", r.of, r.newest)
      /\ UNCHANGED <<clientVars, tab, dynasty, alerts, changes>>
  BY DEF PorcelainsArrive
<1>2. r.of \in Dynasty /\ "list" \in Display
  BY <1>1, AnswerFacts DEF Wellformed, Display
<1>3. /\ shown' \in [Display -> Porcelain \cup Dynasty \cup {MOCK, NONE}]
      /\ "list" \in fresh' => r.newest /\ shown'["list"] = r.of
      /\ \A e \in Display \ {"list"} : shown'[e] = shown[e]
      /\ \A e : e # "list" /\ e \in fresh' => e \in fresh
  BY <1>1, <1>2, ShowFacts
<1>4. next \in {LoadAlerts, {}} /\ missed' \in BOOLEAN /\ (missed' = missed \/ next = LoadAlerts)
  <2>1. missed' = (missed /\ r.kind # "init") /\ missed \in BOOLEAN
    BY Zenon DEF PorcelainsArrive, AppInv, AppTypeOK
  <2>2. missed' \in BOOLEAN /\ (r.kind # "init" => missed' = missed)
    BY <2>1, Zenon
  <2> QED BY <2>2
<1>5. \E new : /\ Exchange({r}, new)
               /\ \/ new = next /\ currentPorcelain' = currentPorcelain
                  \/ /\ currentPorcelain' \in Porcelain \cup {MOCK}
                     /\ new = next \cup {Ask("cracks", currentPorcelain')}
  <2>1. CASE currentPorcelain = NONE
    BY <2>1 DEF PorcelainsArrive
  <2>2. CASE currentPorcelain # NONE
    BY <2>2 DEF PorcelainsArrive
  <2> QED BY <2>1, <2>2
<1> HIDE DEF next
<1> QED BY <1>1, <1>3, <1>4, <1>5, ListRest

LEMMA PorcelainsFailKeeps == ASSUME AppInv, NEW r \in DOMAIN requests, PorcelainsFail(r) PROVE AppInv'
<1> DEFINE next == {}
<1>1. r.kind \in {"init", "list"} /\ Fails /\ missed' = missed /\ missed' \in BOOLEAN
      /\ UNCHANGED <<clientVars, tab, dynasty, alerts, changes>>
  BY DEF PorcelainsFail, AppInv, AppTypeOK
<1>2. "list" \in Display /\ shown \in [Display -> Porcelain \cup Dynasty \cup {MOCK, NONE}]
  BY DEF Display, AppInv, AppTypeOK
<1>3. /\ shown' \in [Display -> Porcelain \cup Dynasty \cup {MOCK, NONE}]
      /\ "list" \notin fresh' /\ \A e \in Display \ {"list"} : shown'[e] = shown[e]
      /\ \A e : e # "list" /\ e \in fresh' => e \in fresh
  <2>1. CASE r.kind = "list"
    BY <1>2, <2>1 DEF PorcelainsFail
  <2>2. CASE r.kind # "list"
    <3>1. Show("list", MOCK, FALSE)
      BY <2>2 DEF PorcelainsFail
    <3> QED BY <1>2, <3>1, ShowFacts
  <2> QED BY <2>1, <2>2
<1>4. \E new : /\ Exchange({r}, new)
               /\ \/ new = next /\ currentPorcelain' = currentPorcelain
                  \/ /\ currentPorcelain' \in Porcelain \cup {MOCK}
                     /\ new = next \cup {Ask("cracks", currentPorcelain')}
  <2>1. CASE r.kind = "init" /\ currentPorcelain = NONE
    <3>1. currentPorcelain' = MOCK /\ Exchange({r}, {Ask("cracks", currentPorcelain')})
      BY <2>1 DEF PorcelainsFail
    <3>2. {Ask("cracks", currentPorcelain')} = next \cup {Ask("cracks", currentPorcelain')}
      OBVIOUS
    <3> QED BY <3>1, <3>2
  <2>2. CASE ~(r.kind = "init" /\ currentPorcelain = NONE)
    BY <2>2 DEF PorcelainsFail
  <2> QED BY <2>1, <2>2
<1>5. next \in {LoadAlerts, {}}
  OBVIOUS
<1> HIDE DEF next
<1> QED BY <1>1, <1>3, <1>4, <1>5, ListRest

(* The answer to the first request of a selection asks for the points of   *)
(* the same porcelain, as newest only if it was the newest itself.         *)
LEMMA CracksArriveKeeps == ASSUME AppInv, NEW r \in DOMAIN requests, CracksArrive(r) PROVE AppInv'
<1> DEFINE n == [r EXCEPT !.kind = "points"]
           new == {n}
<1>1. /\ r.kind = "cracks" /\ Succeeds /\ Show("cracks", r.of, r.newest) /\ Exchange({r}, new)
      /\ UNCHANGED <<clientVars, currentPorcelain, tab, dynasty, alerts, changes, missed>>
  BY DEF CracksArrive
<1>2. r \in Request /\ r.of \in Porcelain \cup {MOCK} /\ (r.newest => r.of = currentPorcelain)
  BY <1>1, AnswerFacts DEF Wellformed
<1>3. n.kind = "points" /\ n.newest = r.newest /\ n.of = r.of /\ n \in Request
  BY <1>2 DEF Request, Kind
<1>4. Wellformed(n)
  BY <1>2, <1>3 DEF Wellformed
<1> HIDE DEF n
<1>5. \A x \in new : x = n
  OBVIOUS
<1>6. n \in new
  OBVIOUS
<1> HIDE DEF new
<1>7. Exchanged({r}, new) /\ \A x \in new \cup {r} : x.kind \in Kind
  BY <1>1, <1>4, <1>5, AnswerExchanged
<1>8. /\ shown' \in [Display -> Porcelain \cup Dynasty \cup {MOCK, NONE}]
      /\ fresh' \in SUBSET (Display \cup {"alerts"})
      /\ shown'["cracks"] = r.of /\ ("cracks" \in fresh' => r.newest)
      /\ shown'["list"] = shown["list"] /\ shown'["scene"] = shown["scene"]
      /\ shown'["table"] = shown["table"]
      /\ \A e : e # "cracks" /\ e \in fresh' => e \in fresh
  BY <1>1, <1>2, ShowFacts DEF Display
<1>9. \A x \in new \cup {r} : x.kind \in {"cracks", "points"}
  BY <1>1, <1>3, <1>5
<1>10. Calm({r}, new, {"init", "list"}) /\ Calm({r}, new, {"table"}) /\ Calm({r}, new, {"alerts"})
  BY <1>7, <1>9, CalmFacts
<1>11. ListGood' /\ AlertsGood'
  BY <1>1, <1>7, <1>8, <1>10, ListSame, AlertsSame DEF clientVars, netVars
<1>12. CracksGood'
  <2>1. \A x \in new : x.kind \notin {"cracks"}
    BY <1>3, <1>5
  <2>2. "cracks" \in fresh' => shown'["cracks"] = currentPorcelain
    BY <1>2, <1>8
  <2>3. Good(DOMAIN requests', {"cracks"}, currentPorcelain, "cracks" \in fresh', shown'["cracks"])
    BY <1>7, <2>1, <2>2, GoodAnswered DEF AppInv, CracksGood
  <2> QED BY <1>1, <2>3 DEF CracksGood
<1>13. RequestsOK' /\ IsABag(requests') /\ DOMAIN requests' \subseteq Request /\ new \subseteq DOMAIN requests'
  BY <1>7, RequestsKept, ExchangeFacts DEF AppInv, Exchanged
<1>14. SceneGood' /\ TableGood'
  <2>1. CASE r.newest
    <3>1. n.newest /\ n.kind \in {"cracks", "points"} /\ n.of = currentPorcelain /\ n \in DOMAIN requests'
      BY <1>2, <1>3, <1>6, <1>13, <2>1
    <3>2. ~TableShown'
      BY <3>1 DEF TableShown, NewestIn
    <3>3. Good(DOMAIN requests', {"cracks", "points"}, currentPorcelain, "scene" \in fresh', shown'["scene"])
      <4>1. \A x \in new : x.newest /\ x.kind \in {"cracks", "points"} => x.of = currentPorcelain
        BY <1>5, <3>1
      <4>2. \E x \in new : x.newest /\ x.kind \in {"cracks", "points"}
        BY <1>6, <3>1
      <4>3. {r} \in SUBSET DOMAIN requests /\ (\A x \in new : Wellformed(x)) /\ Exchange({r}, new)
        BY <1>7 DEF Exchanged
      <4> QED BY <4>1, <4>2, <4>3, GoodExchange DEF AppInv, SceneGood
    <3> QED BY <1>1, <3>2, <3>3 DEF SceneGood, TableGood
  <2>2. CASE ~r.newest
    <3>1. Calm({r}, new, {"cracks", "points"})
      BY <1>3, <1>5, <2>2 DEF Calm, OutdatedBy
    <3> QED BY <1>1, <1>7, <1>8, <1>10, <3>1, SceneSame, TableSame
  <2> QED BY <2>1, <2>2
<1>15. AppTypeOK'
  BY <1>1, <1>8, <1>13, CountFacts DEF AppInv, AppTypeOK
<1> QED BY <1>1, <1>8, <1>11, <1>12, <1>13, <1>14, <1>15 DEF AppInv, clientVars, netVars

(* An answer that issues nothing.                                          *)
LEMMA QuietFacts ==
  ASSUME AppInv, NEW r \in DOMAIN requests, Exchange({r}, {})
  PROVE  /\ Exchanged({r}, {})
         /\ r.kind \notin {"init", "list"} => Calm({r}, {}, {"init", "list"})
         /\ r.kind \notin {"cracks", "points"} => Calm({r}, {}, {"cracks", "points"})
         /\ r.kind # "cracks" => Calm({r}, {}, {"cracks"})
         /\ r.kind # "table" => Calm({r}, {}, {"table"})
         /\ r.kind # "alerts" => Calm({r}, {}, {"alerts"})
<1>1. Exchanged({r}, {})
  BY AnswerExchanged
<1> QED BY <1>1 DEF Calm, OutdatedBy

(* The answer to a request for a display, with nothing asked for.          *)
LEMMA QuietAnswered ==
  ASSUME AppInv, NEW r \in DOMAIN requests, Exchanged({r}, {}), NEW kinds, NEW current, NEW isFresh,
         NEW show, Good(DOMAIN requests, kinds, current, isFresh, show),
         NEW isFresh2, NEW show2, isFresh2 => show2 = current
  PROVE  Good(DOMAIN requests', kinds, current, isFresh2, show2)
<1> DEFINE new == {}
<1>1. Exchanged({r}, new) /\ \A x \in new : x.kind \notin kinds
  OBVIOUS
<1> HIDE DEF new
<1> QED BY <1>1, GoodAnswered DEF AppInv

LEMMA CracksFailKeeps == ASSUME AppInv, NEW r \in DOMAIN requests, CracksFail(r) PROVE AppInv'
<1>1. /\ r.kind = "cracks" /\ Fails /\ Exchange({r}, {})
      /\ UNCHANGED <<clientVars, currentPorcelain, tab, dynasty, alerts, changes, missed>>
      /\ fresh' = fresh \ {"scene", "cracks"}
  BY DEF CracksFail
<1>2. /\ shown' \in [Display -> Porcelain \cup Dynasty \cup {MOCK, NONE}]
      /\ shown'["list"] = shown["list"] /\ fresh' \in SUBSET (Display \cup {"alerts"})
  BY <1>1 DEF CracksFail, AppInv, AppTypeOK, Display
<1>3. Exchanged({r}, {}) /\ Calm({r}, {}, {"init", "list"}) /\ Calm({r}, {}, {"alerts"})
  BY <1>1, QuietFacts
<1>4. ListGood' /\ AlertsGood'
  BY <1>1, <1>2, <1>3, ListSame, AlertsSame DEF clientVars, netVars
<1>5. Good(DOMAIN requests', {"cracks"}, currentPorcelain, "cracks" \in fresh', shown'["cracks"])
  BY <1>1, <1>3, QuietAnswered DEF AppInv, CracksGood
<1>6. Good(DOMAIN requests', {"cracks", "points"}, currentPorcelain, "scene" \in fresh', shown'["scene"])
  BY <1>1, <1>3, QuietAnswered DEF AppInv, SceneGood
<1>7. TableGood'
  BY <1>1 DEF TableGood, TableShown
<1>8. RequestsOK' /\ IsABag(requests') /\ DOMAIN requests' \subseteq Request
  BY <1>3, RequestsKept
<1>9. AppTypeOK'
  BY <1>1, <1>2, <1>8, CountFacts DEF AppInv, AppTypeOK
<1> QED BY <1>1, <1>4, <1>5, <1>6, <1>7, <1>8, <1>9 DEF AppInv, CracksGood, SceneGood, clientVars, netVars

LEMMA PointsArriveKeeps == ASSUME AppInv, NEW r \in DOMAIN requests, PointsArrive(r) PROVE AppInv'
<1> DEFINE new == IF tab = "cracks" THEN LoadCracksData(r.of) ELSE {}
<1>1. /\ r.kind = "points" /\ Succeeds /\ Show("scene", r.of, r.newest) /\ Exchange({r}, new)
      /\ UNCHANGED <<clientVars, currentPorcelain, tab, dynasty, alerts, changes, missed>>
  BY DEF PointsArrive
<1>2. r.of \in Porcelain \cup {MOCK} /\ (r.newest => r.of = currentPorcelain)
  BY <1>1, AnswerFacts DEF Wellformed
<1>3. \A x \in new : x.kind = "table" /\ Wellformed(x)
  <2>1. Ask("table", r.of).kind = "table" /\ Wellformed(Ask("table", r.of))
    BY <1>2, AskFacts
  <2> QED BY <2>1 DEF LoadCracksData
<1>4. (tab = "cracks" => new = {Ask("table", r.of)}) /\ (tab # "cracks" => new = {})
  BY DEF LoadCracksData
<1> HIDE DEF new
<1>5. Exchanged({r}, new) /\ \A x \in new \cup {r} : x.kind \in Kind
  BY <1>1, <1>3, AnswerExchanged
<1>6. /\ shown' \in [Display -> Porcelain \cup Dynasty \cup {MOCK, NONE}]
      /\ fresh' \in SUBSET (Display \cup {"alerts"})
      /\ shown'["scene"] = r.of /\ ("scene" \in fresh' => r.newest)
      /\ shown'["list"] = shown["list"] /\ shown'["cracks"] = shown["cracks"]
      /\ \A e : e # "scene" /\ e \in fresh' => e \in fresh
  <2>1. "scene" \in Display /\ "list" \in Display \ {"scene"} /\ "cracks" \in Display \ {"scene"}
    BY DEF Display
  <2>2. r.of \in Porcelain \cup Dynasty \cup {MOCK, NONE} /\ Show("scene", r.of, r.newest)
    BY <1>1, <1>2
  <2>3. /\ shown' \in [Display -> Porcelain \cup Dynasty \cup {MOCK, NONE}]
        /\ fresh' \in SUBSET (Display \cup {"alerts"})
        /\ shown'["scene"] = r.of /\ ("scene" \in fresh' => r.newest)
        /\ \A e \in Display \ {"scene"} : shown'[e] = shown[e]
        /\ \A e : e # "scene" /\ e \in fresh' => e \in fresh
    BY <2>1, <2>2, ShowFacts
  <2> QED BY <2>1, <2>3
<1>7. \A x \in new \cup {r} : x.kind \in {"points", "table"}
  BY <1>1, <1>3
<1>8. Calm({r}, new, {"init", "list"}) /\ Calm({r}, new, {"cracks"}) /\ Calm({r}, new, {"alerts"})
  BY <1>5, <1>7, CalmFacts
<1>9. ListGood' /\ CracksGood' /\ AlertsGood'
  BY <1>1, <1>5, <1>6, <1>8, ListSame, CracksSame, AlertsSame DEF clientVars, netVars
<1>10. Good(DOMAIN requests', {"cracks", "points"}, currentPorcelain, "scene" \in fresh', shown'["scene"])
  <2>1. \A x \in new : x.kind \notin {"cracks", "points"}
    BY <1>3
  <2>2. "scene" \in fresh' => shown'["scene"] = currentPorcelain
    BY <1>2, <1>6
  <2> QED BY <1>5, <2>1, <2>2, GoodAnswered DEF AppInv, SceneGood
<1>11. TableGood'
  <2>1. CASE tab = "cracks"
    <3>1. TableShown' => r.of = currentPorcelain'
      BY <1>1, <1>2, <1>6 DEF TableShown
    <3> QED BY <1>4, <1>5, <2>1, <3>1, TableAsked
  <2>2. CASE tab # "cracks"
    BY <1>1, <2>2 DEF TableGood, TableShown
  <2> QED BY <2>1, <2>2
<1>12. RequestsOK' /\ IsABag(requests') /\ DOMAIN requests' \subseteq Request
  BY <1>5, RequestsKept
<1>13. "scene" \in fresh' => currentPorcelain # NONE
  BY <1>2, <1>6, AppAssumption
<1>14. AppTypeOK'
  BY <1>1, <1>6, <1>12, CountFacts DEF AppInv, AppTypeOK
<1> QED BY <1>1, <1>9, <1>10, <1>11, <1>12, <1>13, <1>14 DEF AppInv, SceneGood, clientVars, netVars

LEMMA TableArrivesKeeps == ASSUME AppInv, NEW r \in DOMAIN requests, TableArrives(r) PROVE AppInv'
<1>1. /\ r.kind = "table" /\ (Succeeds \/ Fails) /\ Exchange({r}, {})
      /\ Show("table", r.of, r.newest) \/ Show("table", MOCK, FALSE)
      /\ UNCHANGED <<clientVars, currentPorcelain, tab, dynasty, alerts, changes, missed>>
  BY DEF TableArrives
<1>2. r.of \in Porcelain \cup {MOCK}
  BY <1>1, AnswerFacts DEF Wellformed
<1>3. /\ shown' \in [Display -> Porcelain \cup Dynasty \cup {MOCK, NONE}]
      /\ fresh' \in SUBSET (Display \cup {"alerts"})
      /\ "table" \in fresh' => r.newest /\ shown'["table"] = r.of
      /\ shown'["list"] = shown["list"] /\ shown'["cracks"] = shown["cracks"]
      /\ shown'["scene"] = shown["scene"]
      /\ \A e : e # "table" /\ e \in fresh' => e \in fresh
  <2>1. CASE Show("table", r.of, r.newest)
    BY <1>2, <2>1, ShowFacts DEF Display
  <2>2. CASE Show("table", MOCK, FALSE)
    BY <2>2, ShowFacts DEF Display
  <2> QED BY <1>1, <2>1, <2>2
<1>4. /\ Exchanged({r}, {}) /\ Calm({r}, {}, {"init", "list"}) /\ Calm({r}, {}, {"alerts"})
      /\ Calm({r}, {}, {"cracks"}) /\ Calm({r}, {}, {"cracks", "points"})
  BY <1>1, QuietFacts
<1>5. ListGood' /\ CracksGood' /\ SceneGood' /\ AlertsGood'
  BY <1>1, <1>3, <1>4, ListSame, CracksSame, SceneSame, AlertsSame DEF clientVars, netVars
<1>6. TableGood'
  <2> SUFFICES ASSUME TableShown'
               PROVE  Good(DOMAIN requests', {"table"}, currentPorcelain', "table" \in fresh', shown'["table"])
    BY DEF TableGood
  <2>1. TableShown
    BY <1>1, <1>3, <1>4, TableShownBefore DEF AppInv
  <2>2. "table" \in fresh' => shown'["table"] = currentPorcelain
    BY <1>1, <1>3, <2>1, AnswerFacts
  <2>3. Good(DOMAIN requests', {"table"}, currentPorcelain, "table" \in fresh', shown'["table"])
    BY <1>4, <2>1, <2>2, QuietAnswered DEF AppInv, TableGood
  <2> QED BY <1>1, <2>3
<1>7. RequestsOK' /\ IsABag(requests') /\ DOMAIN requests' \subseteq Request
  BY <1>4, RequestsKept
<1>8. AppTypeOK'
  BY <1>1, <1>3, <1>7, CountFacts DEF AppInv, AppTypeOK
<1> QED BY <1>1, <1>3, <1>5, <1>6, <1>7, <1>8 DEF AppInv, clientVars, netVars

LEMMA AlertsArriveKeeps == ASSUME AppInv, NEW r \in DOMAIN requests, AlertsArrive(r) PROVE AppInv'
<1>1. /\ r.kind = "alerts" /\ Exchange({r}, {})
      /\ UNCHANGED <<clientVars, currentPorcelain, tab, dynasty, shown, changes, missed>>
  BY DEF AlertsArrive
<1>2. r.of \in 0..MaxEvents /\ changes \in 0..MaxEvents /\ MaxEvents \in Nat
  BY <1>1, AnswerFacts, AppAssumption DEF Wellformed, AppInv, AppTypeOK
<1>3. /\ Succeeds \/ Fails
      /\ alerts' \in 0..MaxEvents /\ alerts' = r.of
      /\ fresh' \subseteq fresh \cup {"alerts"}
      /\ "alerts" \in fresh' => r.newest
  BY <1>2 DEF AlertsArrive
<1>4. /\ Exchanged({r}, {}) /\ Calm({r}, {}, {"init", "list"}) /\ Calm({r}, {}, {"table"})
      /\ Calm({r}, {}, {"cracks"}) /\ Calm({r}, {}, {"cracks", "points"})
  BY <1>1, QuietFacts
<1>5. ListGood' /\ CracksGood' /\ SceneGood'
  BY <1>1, <1>3, <1>4, ListSame, CracksSame, SceneSame
<1>6. TableGood'
  BY <1>1, <1>3, <1>4, TableSame
<1>7. AlertsGood'
  <2> SUFFICES ASSUME inbox' = 0, ~missed'
               PROVE  Good(DOMAIN requests', {"alerts"}, changes', "alerts" \in fresh', alerts')
    BY DEF AlertsGood
  <2>1. inbox = 0 /\ ~missed
    BY <1>1 DEF clientVars, netVars
  <2>2. "alerts" \in fresh' => alerts' = changes
    BY <1>1, <1>2, <1>3, <2>1, AnswerFacts
  <2>3. Good(DOMAIN requests', {"alerts"}, changes, "alerts" \in fresh', alerts')
    BY <1>4, <2>1, <2>2, QuietAnswered DEF AppInv, AlertsGood
  <2> QED BY <1>1, <2>3
<1>8. RequestsOK' /\ IsABag(requests') /\ DOMAIN requests' \subseteq Request
  BY <1>4, RequestsKept
<1>9. fresh' \in SUBSET (Display \cup {"alerts"}) /\ ("scene" \in fresh' => currentPorcelain # NONE)
  BY <1>3 DEF AppInv, AppTypeOK
<1>10. AppTypeOK'
  BY <1>1, <1>3, <1>8, <1>9, CountFacts DEF AppInv, AppTypeOK
<1> QED BY <1>1, <1>5, <1>6, <1>7, <1>8, <1>9, <1>10 DEF AppInv, clientVars, netVars

LEMMA StatusUpdatedKeeps == ASSUME AppInv, NEW r \in DOMAIN requests, StatusUpdated(r) PROVE AppInv'
<1> DEFINE new == {Ask("alerts", changes')}
<1>1. /\ r.kind = "status" /\ (Succeeds \/ Fails) /\ Exchange({r}, new) /\ missed' = FALSE
      /\ UNCHANGED <<clientVars, appVars>> /\ changes < MaxEvents /\ changes' = changes + 1
  BY DEF StatusUpdated
<1>2. changes' \in 0..MaxEvents
  BY <1>1, AppAssumption DEF AppInv, AppTypeOK
<1>3. Ask("alerts", changes').kind = "alerts" /\ Wellformed(Ask("alerts", changes'))
  BY <1>2, AskFacts
<1>4. (\A x \in new : x.kind = "alerts" /\ Wellformed(x)) /\ Ask("alerts", changes') \in new
      /\ \A x \in new : x.kind = "alerts" => x = Ask("alerts", changes')
  BY <1>3
<1> HIDE DEF new
<1>5. Exchanged({r}, new) /\ \A x \in new \cup {r} : x.kind \in Kind
  BY <1>1, <1>4, AnswerExchanged
<1>6. \A x \in new \cup {r} : x.kind \in {"alerts", "status"}
  BY <1>1, <1>4
<1>7. /\ Calm({r}, new, {"init", "list"}) /\ Calm({r}, new, {"table"})
      /\ Calm({r}, new, {"cracks"}) /\ Calm({r}, new, {"cracks", "points"})
  BY <1>5, <1>6, CalmFacts
<1>8. UNCHANGED <<currentPorcelain, tab, dynasty, shown, fresh, alerts>>
  BY <1>1 DEF appVars
<1>9. ListGood' /\ CracksGood' /\ SceneGood' /\ TableGood'
  BY <1>5, <1>7, <1>8, ListSame, CracksSame, SceneSame, TableSame
<1>10. AlertsGood'
  BY <1>4, <1>5, AlertsAsked
<1>11. RequestsOK' /\ IsABag(requests') /\ DOMAIN requests' \subseteq Request
  BY <1>5, RequestsKept
<1>12. AppTypeOK'
  BY <1>1, <1>2, <1>8, <1>11, CountFacts DEF AppInv, AppTypeOK
<1> QED BY <1>1, <1>8, <1>9, <1>10, <1>11, <1>12 DEF AppInv, clientVars, netVars

LEMMA AppInvInit == Init => AppInv
<1> SUFFICES ASSUME Init PROVE AppInv
  OBVIOUS
<1> DEFINE a == Ask("init", dynasty)
<1>1. /\ currentPorcelain = NONE /\ tab = "viewer" /\ dynasty = ALL /\ ALL \in Dynasty
      /\ shown = [d \in Display |-> NONE] /\ fresh = {} /\ alerts = 0 /\ changes = 0 /\ inbox = 0
      /\ missed = FALSE /\ events = 0 /\ failures = 0 /\ MaxEvents \in Nat /\ MaxFailures \in Nat
  BY AppAssumption DEF Init, ClientInit
<1>2. a.kind = "init" /\ a.of = dynasty /\ Wellformed(a)
  BY ZenonT(40), <1>1, AskFacts
<1> HIDE DEF a
<1>3. requests = [x \in {a} |-> 1]
  BY DEF Init, SetToBag, a
<1>4. DOMAIN requests = {a} /\ IsABag(requests)
  BY <1>3 DEF IsABag
<1>5. RequestsOK
  BY <1>2, <1>4 DEF RequestsOK
<1>6. ListGood /\ CracksGood /\ SceneGood /\ TableGood /\ AlertsGood
  BY <1>1, <1>2, <1>4 DEF ListGood, CracksGood, SceneGood, TableGood, TableShown, AlertsGood, Good
<1>7. AppTypeOK
  <2>1. DOMAIN requests \subseteq Request
    BY <1>2, <1>4 DEF Wellformed
  <2>2. shown \in [Display -> Porcelain \cup Dynasty \cup {MOCK, NONE}]
    BY <1>1
  <2>3. /\ currentPorcelain \in Porcelain \cup {MOCK, NONE} /\ tab \in Tab /\ dynasty \in Dynasty
        /\ fresh \in SUBSET (Display \cup {"alerts"})
        /\ missed \in BOOLEAN
    BY <1>1 DEF Tab
  <2>4. /\ alerts \in 0..MaxEvents /\ changes \in 0..MaxEvents
        /\ events \in 0..MaxEvents /\ failures \in 0..MaxFailures
    BY <1>1
  <2> QED BY <1>4, <2>1, <2>2, <2>3, <2>4 DEF AppTypeOK
<1> QED BY <1>1, <1>5, <1>6, <1>7 DEF AppInv

LEMMA AppInvNext == AppInv /\ Inv /\ [Next]_vars => AppInv'
<1> SUFFICES ASSUME AppInv, Inv, [Next]_vars PROVE AppInv'
  OBVIOUS
<1>1. CASE User
  BY <1>1, SelectKeeps, SwitchTabKeeps, FilterKeeps, RefreshKeeps, FilterAlertsKeeps DEF User
<1>2. CASE AlertPushed \/ OwnerOrServer \/ Connection
  BY <1>2, OutsideKeeps
<1>3. CASE HandleAlert
  BY <1>3, HandleKeeps
<1>4. ASSUME NEW r \in DOMAIN requests, Answer(r) PROVE AppInv'
  BY <1>4, PorcelainsArriveKeeps, PorcelainsFailKeeps, CracksArriveKeeps, CracksFailKeeps,
     PointsArriveKeeps, TableArrivesKeeps, AlertsArriveKeeps, StatusUpdatedKeeps DEF Answer
<1>5. CASE UNCHANGED vars
  <2>1. /\ UNCHANGED <<currentPorcelain, dynasty, shown, fresh, alerts, requests, failures>>
        /\ UNCHANGED <<tab, inbox, missed, changes, events>>
    BY <1>5 DEF vars, clientVars, netVars, appVars, countVars
  <2> QED BY <2>1, IdleKeeps DEF AppInv, AppTypeOK
<1> QED BY <1>1, <1>2, <1>3, <1>4, <1>5 DEF Next

(* Once no answer is awaited for it, a display that no later request       *)
(* overtook and no failure hit shows the current porcelain, or the list of *)
(* the current filter: in whatever order the user clicks and the answers   *)
(* of the REST API arrive or fail.                                         *)
THEOREM SettledDisplays == Spec => []SettledUnlessOvertaken
<1>1. AppInv => SettledUnlessOvertaken
  <2> SUFFICES ASSUME AppInv PROVE SettledUnlessOvertaken
    OBVIOUS
  <2>1. \A kinds : NewestIn(DOMAIN requests, kinds) => Awaits(kinds)
    BY DEF NewestIn, Awaits
  <2>2. ("list" \in fresh /\ ~Awaits({"init", "list"}) => shown["list"] = dynasty)
        /\ ("cracks" \in fresh /\ ~Awaits({"cracks"}) => shown["cracks"] = currentPorcelain)
    BY <2>1 DEF AppInv, ListGood, CracksGood, Good
  <2>3. "scene" \in fresh /\ ~Awaits({"cracks", "points"}) =>
          /\ shown["scene"] = currentPorcelain
          /\ tab = "cracks" /\ "table" \in fresh /\ ~Awaits({"table"}) => shown["table"] = currentPorcelain
    BY <2>1 DEF AppInv, SceneGood, TableGood, TableShown, Good
  <2> QED BY <2>2, <2>3 DEF SettledUnlessOvertaken
<1> QED BY <1>1, InvInit, InvNext, AppInvInit, AppInvNext, PTL DEF Spec

(* When nothing is on its way, the alert list was asked for after the last *)
(* pushed alert, the last answered status update and the last change of    *)
(* the type filter, unless a push was missed or the list was overtaken.    *)
THEOREM AlertListFollowsPushes == Spec => []ListFollowsPushesUnlessMissed
<1>1. AppInv => ListFollowsPushesUnlessMissed
  BY DEF AppInv, AlertsGood, Good, NewestIn, Awaits, ListFollowsPushesUnlessMissed
<1> QED BY <1>1, InvInit, InvNext, AppInvInit, AppInvNext, PTL DEF Spec

(* The state of the page and its pending requests have their types.        *)
THEOREM AppTypeCorrect == Spec => []AppTypeOK
<1>1. AppInv => AppTypeOK
  BY DEF AppInv
<1> QED BY <1>1, InvInit, InvNext, AppInvInit, AppInvNext, PTL DEF Spec
=============================================================================
