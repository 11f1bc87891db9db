-------------------------- MODULE WebSocketServer --------------------------
(***************************************************************************)
(* backend/src/websocket_server.cpp: WebSocketServer and its sessions.     *)
(* Worker threads broadcast, which posts do_send to the strand of every    *)
(* session; the io threads run the handlers of a strand one at a time.     *)
(* A session's mutex_ and send_queue_ are used by handlers of its strand   *)
(* only, so a handler is one step, unless it locks mutex_ twice.           *)
(*                                                                         *)
(* A Beast stream accepts reads and writes after the WebSocket handshake   *)
(* only.  handle_accept, which start() arms for every connection, does not *)
(* perform it: as the server is wired today no client receives anything.   *)
(* handle_http_request, which has no caller yet, does.  A connection may   *)
(* come in on either path.                                                 *)
(*                                                                         *)
(* The io threads run the REST handlers too, and main stops them right     *)
(* after the servers: what is posted or being written then is dropped.     *)
(***************************************************************************)
EXTENDS Naturals, Sequences, FiniteSets, SequencesExt, Functions

CONSTANTS
  Session,     \* the connections that clients may open
  Io,          \* io threads
  NULL,
  LOST,        \* what an io thread is at that runs no handlers any more
  MaxMessages  \* bound: messages broadcast

ASSUME WebSocketAssumption ==
  {NULL, LOST} \cap Session = {} /\ NULL # LOST /\ MaxMessages \in Nat

Message == 1..MaxMessages

VARIABLES
  sessions_,   \* sessions_ of the server
  accepting,   \* acceptor_ is open
  stream,      \* stream of a session: "new", "handshake", "open" or "closed"
  strand,      \* strand[s]: handlers posted, not run yet
  send_queue_, \* send_queue_ of each session
  writing,     \* messages of each session given to async_write, not completed
  hung,        \* hung[t]: the session whose mutex_ io thread t waits for, LOST or NULL
  broadcast,   \* history: messages broadcast so far
  posted,      \* history: messages posted to each session
  received,    \* history: messages each client received
  failed       \* history: sessions with a failed write

serverVars == <<sessions_, accepting, broadcast>>
sessionVars == <<strand, send_queue_, writing>>
clientVars == <<stream, received, failed>>
vars == <<serverVars, sessionVars, clientVars, hung, posted>>

DoSendOf(m) == [op |-> "do_send", arg |-> m]
OnWriteOf(ok) == [op |-> "on_write", arg |-> ok]
Handler == {DoSendOf(m) : m \in Message} \cup {OnWriteOf(ok) : ok \in BOOLEAN}

TypeOK ==
  /\ sessions_ \in Seq(Session) /\ IsInjective(sessions_) /\ accepting \in BOOLEAN
  /\ stream \in [Session -> {"new", "handshake", "open", "closed"}]
  /\ strand \in [Session -> Seq(Handler)] /\ send_queue_ \in [Session -> Seq(Message)]
  /\ writing \in [Session -> Seq(Message)] /\ hung \in [Io -> Session \cup {NULL, LOST}]
  /\ broadcast \in 0..MaxMessages /\ posted \in [Session -> Seq(Message)]
  /\ received \in [Session -> Seq(Message)] /\ failed \in SUBSET Session

Init ==
  /\ sessions_ = <<>> /\ accepting = TRUE /\ broadcast = 0
  /\ stream = [s \in Session |-> "new"] /\ received = [s \in Session |-> <<>>]
  /\ failed = {} /\ strand = [s \in Session |-> <<>>]
  /\ send_queue_ = [s \in Session |-> <<>>] /\ writing = [s \in Session |-> <<>>]
  /\ hung = [t \in Io |-> NULL] /\ posted = [s \in Session |-> <<>>]

Free(t) == hung[t] = NULL
IoRuns == \E t \in Io : Free(t)
StrandFree(s) == \A t \in Io : hung[t] # s
Pending(s, op) == {i \in DOMAIN strand[s] : strand[s][i].op = op}
-----------------------------------------------------------------------------
(* A connection comes in: handle_accept adds a session and starts a read   *)
(* that fails at once; handle_http_request adds it and starts async_accept.*)
Accept(s) ==
  /\ accepting /\ IoRuns
  /\ stream[s] = "new"
  /\ sessions_' = Append(sessions_, s)
  /\ \E path \in {"handshake", "closed"} : stream' = [stream EXCEPT ![s] = path]
  /\ UNCHANGED <<accepting, broadcast, sessionVars, received, failed, hung, posted>>

(* The handshake ends: on_accept starts to read, or gives up.              *)
OnAccept(s) ==
  /\ stream[s] = "handshake" /\ StrandFree(s) /\ IoRuns
  /\ \E result \in {"open", "closed"} : stream' = [stream EXCEPT ![s] = result]
  /\ UNCHANGED <<serverVars, sessionVars, received, failed, hung, posted>>

(* The client leaves: on_read returns without a new read.                  *)
OnRead(s) ==
  /\ stream[s] = "open" /\ StrandFree(s) /\ IoRuns
  /\ stream' = [stream EXCEPT ![s] = "closed"]
  /\ UNCHANGED <<serverVars, sessionVars, received, failed, hung, posted>>

(* broadcast, on the AlertWs or the alert worker: do_send is posted to     *)
(* every session, under sessions_mutex_.                                   *)
Broadcast ==
  LET m == broadcast + 1
      Add(f, x) == [s \in Session |-> IF s \in Range(sessions_) THEN Append(f[s], x) ELSE f[s]]
  IN  /\ accepting /\ broadcast < MaxMessages
      /\ broadcast' = m
      /\ strand' = Add(strand, DoSendOf(m)) /\ posted' = Add(posted, m)
      /\ UNCHANGED <<sessions_, accepting, send_queue_, writing, clientVars, hung>>

Runs(t, s, op) ==
  /\ Free(t) /\ StrandFree(s)
  /\ strand[s] # <<>> /\ Head(strand[s]).op = op

(* do_send that writes every message at once (mutant).                     *)
DoSend_always(t, s) ==
  LET m == Head(strand[s]).arg IN
  /\ Runs(t, s, "do_send")
  /\ strand' = [strand EXCEPT ![s] = Tail(@)]
  /\ send_queue_' = [send_queue_ EXCEPT ![s] = Append(@, m)]
  /\ writing' = [writing EXCEPT ![s] = Append(@, m)]
  /\ UNCHANGED <<serverVars, clientVars, hung, posted>>

(* do_send: queue the message; the first one is written at once.           *)
DoSend(t, s) ==
  LET m == Head(strand[s]).arg IN
  /\ Runs(t, s, "do_send")
  /\ strand' = [strand EXCEPT ![s] = Tail(@)]
  /\ send_queue_' = [send_queue_ EXCEPT ![s] = Append(@, m)]
  /\ writing' = [writing EXCEPT ![s] = IF send_queue_[s] = <<>> THEN Append(@, m) ELSE @]
  /\ UNCHANGED <<serverVars, clientVars, hung, posted>>

(* async_write completes: with success on an open stream only.             *)
WriteSucceeds(s) ==
  /\ writing[s] # <<>> /\ stream[s] = "open" /\ IoRuns
  /\ received' = [received EXCEPT ![s] = Append(@, Head(writing[s]))]
  /\ writing' = [writing EXCEPT ![s] = Tail(@)]
  /\ strand' = [strand EXCEPT ![s] = Append(@, OnWriteOf(TRUE))]
  /\ UNCHANGED <<serverVars, stream, failed, send_queue_, hung, posted>>

WriteFails(s) ==
  /\ writing[s] # <<>> /\ IoRuns
  /\ failed' = failed \cup {s}
  /\ stream' = [stream EXCEPT ![s] = IF @ = "open" THEN "closed" ELSE @]
  /\ writing' = [writing EXCEPT ![s] = Tail(@)]
  /\ strand' = [strand EXCEPT ![s] = Append(@, OnWriteOf(FALSE))]
  /\ UNCHANGED <<serverVars, received, send_queue_, hung, posted>>

(* on_write that takes the message out of the queue before it looks at the *)
(* error (mutant).                                                         *)
OnWrite_popsFirst(t, s) ==
  /\ Runs(t, s, "on_write")
  /\ strand' = [strand EXCEPT ![s] = Tail(@)]
  /\ send_queue_' = [send_queue_ EXCEPT ![s] = Tail(@)]
  /\ hung' = [hung EXCEPT ![t] = IF Len(send_queue_[s]) > 1 THEN s ELSE NULL]
  /\ UNCHANGED <<serverVars, clientVars, writing, posted>>

(* on_write that takes nothing out (mutant).                               *)
OnWrite_keeps(t, s) ==
  /\ Runs(t, s, "on_write")
  /\ strand' = [strand EXCEPT ![s] = Tail(@)]
  /\ UNCHANGED <<serverVars, clientVars, writing, send_queue_, hung, posted>>

(* on_write: after an error it returns and leaves the queue as it is.      *)
(* Otherwise it locks mutex_, takes the message out and, when there is     *)
(* another one, calls do_send, which locks mutex_ again: the thread hangs, *)
(* and with it the strand.                                                 *)
OnWrite(t, s) ==
  LET ok == Head(strand[s]).arg IN
  /\ Runs(t, s, "on_write")
  /\ strand' = [strand EXCEPT ![s] = Tail(@)]
  /\ send_queue_' = [send_queue_ EXCEPT ![s] = IF ok THEN Tail(@) ELSE @]
  /\ hung' = [hung EXCEPT ![t] = IF ok /\ Len(send_queue_[s]) > 1 THEN s ELSE NULL]
  /\ UNCHANGED <<serverVars, clientVars, writing, posted>>

(* stop: the acceptor is closed and the sessions are dropped; the handlers *)
(* that are posted keep theirs.  Both workers have been joined before, so  *)
(* nothing is broadcast any more.                                          *)
Stop ==
  /\ accepting
  /\ accepting' = FALSE /\ sessions_' = <<>>
  /\ UNCHANGED <<broadcast, sessionVars, clientVars, hung, posted>>

(* A REST handler waits for ever in acquire; or, once g_running is false,  *)
(* throws, which ends its thread.                                          *)
IoThreadLost(t) ==
  /\ Free(t) /\ hung' = [hung EXCEPT ![t] = LOST]
  /\ UNCHANGED <<serverVars, sessionVars, clientVars, posted>>

(* MonitorServer::stop goes on to ioc_.stop(): no handler is run any more. *)
StopIo ==
  /\ ~accepting /\ IoRuns
  /\ hung' = [t \in Io |-> IF Free(t) THEN LOST ELSE hung[t]]
  /\ UNCHANGED <<serverVars, sessionVars, clientVars, posted>>

Handle(s) == OnAccept(s) \/ \E t \in Io : DoSend(t, s) \/ OnWrite(t, s)
Written(s) == WriteSucceeds(s) \/ WriteFails(s)

Next ==
  \/ \E s \in Session : Accept(s) \/ OnRead(s) \/ Handle(s) \/ Written(s)
  \/ Broadcast \/ Stop \/ StopIo
  \/ \E t \in Io : IoThreadLost(t)

Spec == Init /\ [][Next]_vars

(* The io threads run what is posted, and a write ends in one way or the   *)
(* other, as long as a thread is there to do it.  Nobody has to connect,   *)
(* leave, broadcast or stop, and no thread has to be lost.                 *)
Fairness == \A s \in Session : WF_vars(Handle(s)) /\ WF_vars(Written(s))

FairSpec == Spec /\ Fairness
-----------------------------------------------------------------------------
Increasing(q) == \A i, j \in DOMAIN q : i < j => q[i] < q[j]
Precede(M, N) == \A m \in M, n \in N : m < n

(* Every message posted to a session was received, or is queued, or waits  *)
(* in the strand: nothing is lost, and each of the three holds its part    *)
(* once, in the order of the broadcasts, whatever handlers ran in which    *)
(* order and whatever failed.  The front of the queue counts as received   *)
(* as soon as its write succeeded.                                         *)
Conserved ==
  \A s \in Session :
    LET done == \E i \in DOMAIN strand[s] : strand[s][i] = OnWriteOf(TRUE)
        queued == IF done THEN Tail(send_queue_[s]) ELSE send_queue_[s]
        DoSends == Pending(s, "do_send")
        waiting == {strand[s][i].arg : i \in DoSends}
    IN  /\ Range(posted[s]) = Range(received[s]) \cup Range(queued) \cup waiting
        /\ Increasing(received[s]) /\ Increasing(queued)
        /\ \A i, j \in DoSends : i < j => strand[s][i].arg < strand[s][j].arg
        /\ Precede(Range(received[s]), Range(queued) \cup waiting)
        /\ Precede(Range(queued), waiting)

(* A stream is given one write at a time, and its buffer is the front of   *)
(* the queue until on_write has run.                                       *)
OneWriteAtATime ==
  \A s \in Session :
    /\ Len(writing[s]) + Cardinality(Pending(s, "on_write")) <= 1
    /\ writing[s] # <<>> => Head(writing[s]) = Head(send_queue_[s])

(* A message posted to a session reaches the client, unless a write of the *)
(* session failed, an io thread hangs in its on_write, or no io thread is  *)
(* left: each hangs, is lost to a REST handler or has stopped with ioc_.   *)
PushedUnlessStuck ==
  \A s \in Session, m \in Message :
    m \in Range(posted[s]) ~>
      \/ m \in Range(received[s])
      \/ s \in failed
      \/ ~StrandFree(s)
      \/ ~IoRuns
=============================================================================
