------------------------------ MODULE WsClient ------------------------------
(***************************************************************************)
(* frontend/js/websocket-client.js: WebSocketClient, with the sockets it   *)
(* made, its reconnect timers and its heartbeat.  The browser runs one     *)
(* handler at a time, so a method or an event handler is one step.  The    *)
(* handlers of every socket work on the same object: an old socket that    *)
(* closes late changes the state that belongs to the new one.              *)
(*                                                                         *)
(* The URL is a constant, so `new WebSocket' does not throw.  Topics, and  *)
(* what is sent to the server, are left out: the server ignores both.      *)
(***************************************************************************)
EXTENDS Naturals

CONSTANT MaxReconnectAttempts  \* maxReconnectAttempts, 10 in the code

ASSUME AttemptsAssumption == MaxReconnectAttempts \in Nat

VARIABLES
  ws,                \* readyState of this.ws
  old,               \* old[s]: earlier sockets in state s, close event to come
  isConnected,       \* isConnected
  reconnectAttempts, \* reconnectAttempts
  timers,            \* pending timeouts of scheduleReconnect
  heartbeatInterval, \* heartbeatInterval is not null
  heartbeats,        \* intervals that run
  inbox,             \* messages on their way from the server
  serverUp,          \* the server accepts and keeps connections
  told,              \* history: last call of the owner, "connect" or "disconnect"
  timerAtOff,        \* history: a timer was pending when disconnect was called
  overlap            \* history: connect ran beside a live socket or a timer

socketVars == <<ws, old>>
linkVars == <<isConnected, reconnectAttempts, timers, heartbeatInterval, heartbeats>>
netVars == <<inbox, serverUp>>
toldVars == <<told, timerAtOff, overlap>>
clientVars == <<socketVars, linkVars, netVars, toldVars>>

Live == {"connecting", "open", "closing"}

ClientTypeOK ==
  /\ ws \in Live \cup {"closed"} /\ old \in [Live -> Nat]
  /\ reconnectAttempts \in 0..MaxReconnectAttempts
  /\ {timers, heartbeats, inbox} \subseteq Nat
  /\ {isConnected, heartbeatInterval, serverUp, timerAtOff, overlap} \subseteq BOOLEAN
  /\ told \in {"connect", "disconnect"}

(* The application calls connect once, when it is created.                 *)
ClientInit ==
  /\ ws = "connecting" /\ old = [s \in Live |-> 0]
  /\ isConnected = FALSE /\ reconnectAttempts = 0 /\ timers = 0
  /\ heartbeatInterval = FALSE /\ heartbeats = 0
  /\ inbox = 0 /\ serverUp = TRUE
  /\ told = "connect" /\ timerAtOff = FALSE /\ overlap = FALSE

Sockets(s) == old[s] + (IF ws = s THEN 1 ELSE 0)
LiveSockets == Sockets("connecting") + Sockets("open") + Sockets("closing")
-----------------------------------------------------------------------------
(* Some socket goes from one state to another.                             *)
Becomes(from, to) ==
  \/ ws = from /\ ws' = to /\ UNCHANGED old
  \/ /\ old[from] > 0
     /\ old' = [s \in Live |-> (IF s = from THEN old[s] - 1 ELSE old[s])
                                 + (IF s = to THEN 1 ELSE 0)]
     /\ UNCHANGED ws

(* connect: a new socket takes the place of this.ws.                       *)
NewSocket ==
  /\ ws' = "connecting"
  /\ old' = IF ws \in Live THEN [old EXCEPT ![ws] = @ + 1] ELSE old

(* startHeartbeat does not look for an interval that runs already.         *)
StartHeartbeat == heartbeatInterval' = TRUE /\ heartbeats' = heartbeats + 1

(* stopHeartbeat                                                           *)
StopHeartbeat ==
  /\ heartbeats' = IF heartbeatInterval THEN heartbeats - 1 ELSE heartbeats
  /\ heartbeatInterval' = FALSE

(* A scheduleReconnect that counts and forgets the timer (mutant).         *)
ScheduleReconnect_untimed ==
  IF reconnectAttempts >= MaxReconnectAttempts
  THEN UNCHANGED <<reconnectAttempts, timers>>
  ELSE reconnectAttempts' = reconnectAttempts + 1 /\ timers' = timers

(* scheduleReconnect: gives up after the last attempt.                     *)
ScheduleReconnect ==
  IF reconnectAttempts >= MaxReconnectAttempts
  THEN UNCHANGED <<reconnectAttempts, timers>>
  ELSE reconnectAttempts' = reconnectAttempts + 1 /\ timers' = timers + 1

(* onopen                                                                  *)
OnOpen ==
  /\ serverUp /\ Becomes("connecting", "open")
  /\ isConnected' = TRUE /\ reconnectAttempts' = 0
  /\ StartHeartbeat
  /\ UNCHANGED <<timers, netVars, toldVars>>

(* onclose, of a socket that was closed, refused or cut.  What was on its  *)
(* way to it is lost.                                                      *)
OnClose ==
  /\ \E s \in Live : (s = "closing" \/ ~serverUp) /\ Becomes(s, "closed")
  /\ isConnected' = FALSE
  /\ StopHeartbeat
  /\ ScheduleReconnect
  /\ inbox' \in IF Sockets("open")' = 0 THEN {0} ELSE 0..inbox
  /\ UNCHANGED <<serverUp, toldVars>>

(* The timeout of scheduleReconnect calls connect.                         *)
TimerFires ==
  /\ timers > 0
  /\ timers' = timers - 1
  /\ NewSocket
  /\ overlap' = (overlap \/ LiveSockets > 0 \/ timers > 1)
  /\ UNCHANGED <<isConnected, reconnectAttempts, heartbeatInterval, heartbeats, netVars,
                 told, timerAtOff>>

(* onmessage and handleMessage.                                            *)
OnMessage ==
  /\ inbox > 0
  /\ inbox' = inbox - 1
  /\ UNCHANGED <<socketVars, linkVars, serverUp, toldVars>>

(* A disconnect that leaves reconnecting on (mutant).                      *)
Disconnect_reconnects ==
  /\ told = "connect"
  /\ ws' = IF ws \in {"connecting", "open"} THEN "closing" ELSE ws
  /\ StopHeartbeat
  /\ told' = "disconnect" /\ timerAtOff' = (timers > 0)
  /\ UNCHANGED <<old, isConnected, reconnectAttempts, timers, netVars, overlap>>

(* disconnect: a pending timer stays.                                      *)
Disconnect ==
  /\ told = "connect"
  /\ ws' = IF ws \in {"connecting", "open"} THEN "closing" ELSE ws
  /\ StopHeartbeat
  /\ reconnectAttempts' = MaxReconnectAttempts
  /\ told' = "disconnect" /\ timerAtOff' = (timers > 0)
  /\ UNCHANGED <<old, isConnected, timers, netVars, overlap>>

(* The owner calls connect again.                                          *)
Connect ==
  /\ told = "disconnect"
  /\ NewSocket
  /\ told' = "connect" /\ overlap' = (overlap \/ LiveSockets > 0 \/ timers > 0)
  /\ UNCHANGED <<linkVars, netVars, timerAtOff>>

ServerGoesDown ==
  /\ serverUp /\ serverUp' = FALSE
  /\ UNCHANGED <<socketVars, linkVars, inbox, toldVars>>

ServerComesBack ==
  /\ ~serverUp /\ serverUp' = TRUE
  /\ UNCHANGED <<socketVars, linkVars, inbox, toldVars>>

(* The server pushes a message to every open connection.                   *)
ServerPushes ==
  /\ serverUp
  /\ inbox' = inbox + Sockets("open")
  /\ UNCHANGED <<socketVars, linkVars, serverUp, toldVars>>

(* A browser runs its timers and events, and a server that is up answers.  *)
ClientFairness == WF_clientVars(OnOpen \/ OnClose \/ TimerFires)
-----------------------------------------------------------------------------
(* As long as connect never ran beside a live socket or a timer: there is  *)
(* at most one socket or timer, never both; isConnected is the truth, but  *)
(* for the close event of a disconnect; one heartbeat runs exactly while   *)
(* connected; and after a disconnect without pending timer nothing is      *)
(* opened again.                                                           *)
OneConnectionUnlessOverlap ==
  ~overlap =>
    /\ LiveSockets + timers <= 1
    /\ ws = "open" => isConnected
    /\ isConnected => ws \in {"open", "closing"}
    /\ heartbeats = IF ws = "open" THEN 1 ELSE 0
    /\ told = "disconnect" /\ ~timerAtOff => ws \in {"closing", "closed"} /\ timers = 0

(* No attempt goes on and none will follow.  A socket that an overlapping  *)
(* connect left behind may still be open.                                  *)
GivenUp ==
  /\ reconnectAttempts = MaxReconnectAttempts /\ Sockets("connecting") = 0 /\ timers = 0

(* When the server stays up and nobody disconnects, the client is          *)
(* connected again in the end, unless it used up its attempts.             *)
ReconnectsUnlessGivenUp ==
  []<>(isConnected \/ ~serverUp \/ told = "disconnect" \/ GivenUp)
=============================================================================
