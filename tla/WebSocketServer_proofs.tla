---------------------- MODULE WebSocketServer_proofs ----------------------
(***************************************************************************)
(* OneWriteAtATime and Conserved for any sessions, io threads and messages.*)
(* A session is free to write only while its queue is empty: from the      *)
(* write of a message until its on_write took it out, the queue is not.    *)
(* The messages of a session are in the order of the broadcasts, first     *)
(* those received, then those queued, then those that wait in its strand.  *)
(***************************************************************************)
EXTENDS WebSocketServer, FiniteSetTheorems, SequenceTheorems, TLAPS

(* What a strand, a queue and the writes of a session are like: one write  *)
(* or one on_write, and a message in the queue as long as there is one.    *)
Sound(posts, queue, writes) ==
  /\ \A i, j \in 1..Len(posts) : posts[i].op = "on_write" /\ posts[j].op = "on_write" => i = j
  /\ \A i \in 1..Len(posts) : posts[i].op = "on_write" => queue # <<>> /\ writes = <<>>
  /\ writes # <<>> => Len(writes) = 1 /\ queue # <<>> /\ writes[1] = queue[1]

(* A session that was accepted is not new any more.                        *)
Accepted == \A i \in 1..Len(sessions_) : stream[sessions_[i]] # "new"

IInv ==
  /\ TypeOK /\ Accepted
  /\ \A s \in Session : Sound(strand[s], send_queue_[s], writing[s])

LEMMA HandlerKinds ==
  /\ \A m \in Message : DoSendOf(m) \in Handler /\ DoSendOf(m).op = "do_send"
  /\ \A ok \in BOOLEAN : OnWriteOf(ok) \in Handler /\ OnWriteOf(ok).op = "on_write"
  /\ \A h \in Handler : /\ h.op = "do_send" => h.arg \in Message
                        /\ h.op = "on_write" => h.arg \in BOOLEAN
<1>1. /\ \A m \in Message : DoSendOf(m) \in Handler
      /\ \A ok \in BOOLEAN : OnWriteOf(ok) \in Handler
  BY Zenon DEF Handler
<1>2. \A m : DoSendOf(m).op = "do_send" /\ DoSendOf(m).arg = m
  BY DEF DoSendOf
<1>3. \A ok : OnWriteOf(ok).op = "on_write" /\ OnWriteOf(ok).arg = ok
  BY DEF OnWriteOf
<1>4. ASSUME NEW h \in Handler
      PROVE  \/ h.op = "do_send" /\ h.arg \in Message
             \/ h.op = "on_write" /\ h.arg \in BOOLEAN
  <2>1. \/ \E m \in Message : h = DoSendOf(m)
        \/ \E ok \in BOOLEAN : h = OnWriteOf(ok)
    BY Zenon DEF Handler
  <2>2. ASSUME NEW m \in Message, h = DoSendOf(m) PROVE h.op = "do_send" /\ h.arg \in Message
    BY <1>2, <2>2
  <2>3. ASSUME NEW ok \in BOOLEAN, h = OnWriteOf(ok) PROVE h.op = "on_write" /\ h.arg \in BOOLEAN
    BY Zenon, <1>3, <2>3
  <2> QED BY Zenon, <2>1, <2>2, <2>3
<1>5. "do_send" # "on_write"
  OBVIOUS
<1> QED BY Zenon, <1>1, <1>2, <1>3, <1>4, <1>5

LEMMA InitIInv == Init => IInv
<1> SUFFICES ASSUME Init PROVE IInv
  OBVIOUS
<1> USE WebSocketAssumption DEF Init
<1>1. Len(<<>>) = 0 /\ DOMAIN sessions_ = {} /\ Len(sessions_) = 0
  OBVIOUS
<1>2. IsInjective(sessions_)
  BY <1>1 DEF IsInjective
<1>3. \A S : <<>> \in Seq(S)
  BY EmptySeq
<1>4. TypeOK
  BY <1>2, <1>3 DEF TypeOK
<1>5. \A s \in Session : Sound(strand[s], send_queue_[s], writing[s])
  BY <1>1 DEF Sound
<1> QED BY <1>1, <1>4, <1>5 DEF IInv, Accepted

(***************************************************************************)
(* What the handlers of a session do to it.                                *)
(***************************************************************************)
LEMMA PostKeeps ==
  ASSUME NEW posts \in Seq(Handler), NEW queue, NEW writes, Sound(posts, queue, writes),
         NEW m \in Message
  PROVE  Sound(Append(posts, DoSendOf(m)), queue, writes)
<1> DEFINE more == Append(posts, DoSendOf(m))
<1>1. /\ Len(more) = Len(posts) + 1 /\ Len(posts) \in Nat
      /\ \A i \in 1..Len(posts) : more[i] = posts[i]
      /\ more[Len(posts) + 1].op = "do_send"
  BY HandlerKinds, AppendProperties, LenProperties
<1>2. \A i \in 1..Len(more) : more[i].op = "on_write" => i \in 1..Len(posts) /\ more[i] = posts[i]
  <2> HIDE DEF more
  <2> SUFFICES ASSUME NEW i \in 1..Len(more), more[i].op = "on_write" PROVE i \in 1..Len(posts)
    BY <1>1
  <2>1. i # Len(posts) + 1
    BY <1>1
  <2> QED BY <1>1, <2>1
<1> HIDE DEF more
<1> QED BY <1>2 DEF Sound, more

LEMMA WrittenKeeps ==
  ASSUME NEW posts \in Seq(Handler), NEW queue, NEW writes \in Seq(Message), writes # <<>>,
         Sound(posts, queue, writes), NEW ok \in BOOLEAN
  PROVE  Sound(Append(posts, OnWriteOf(ok)), queue, Tail(writes))
<1> DEFINE more == Append(posts, OnWriteOf(ok))
<1>1. /\ Len(more) = Len(posts) + 1 /\ Len(posts) \in Nat
      /\ \A i \in 1..Len(posts) : more[i] = posts[i]
  BY HandlerKinds, AppendProperties, LenProperties
<1>2. Tail(writes) = <<>> /\ queue # <<>>
  <2>1. Len(writes) = 1 /\ queue # <<>>
    BY DEF Sound
  <2>2. Tail(writes) \in Seq(Message) /\ Len(Tail(writes)) = 0
    BY <2>1, HeadTailProperties
  <2> QED BY <2>1, <2>2, EmptySeq
<1>3. \A i \in 1..Len(more) : more[i].op = "on_write" => i = Len(posts) + 1
  <2> HIDE DEF more
  <2> SUFFICES ASSUME NEW i \in 1..Len(posts) PROVE more[i].op # "on_write"
    BY <1>1
  <2> QED BY <1>1 DEF Sound
<1> HIDE DEF more
<1> QED BY <1>2, <1>3 DEF Sound, more

LEMMA TailOf ==
  ASSUME NEW posts \in Seq(Handler), posts # <<>>
  PROVE  /\ Tail(posts) \in Seq(Handler) /\ Head(posts) = posts[1] /\ 1 \in 1..Len(posts)
         /\ \A i \in 1..Len(Tail(posts)) : /\ i + 1 \in 1..Len(posts) /\ i + 1 # 1
                                           /\ Tail(posts)[i] = posts[i + 1]
<1>1. Tail(posts) \in Seq(Handler) /\ Len(posts) \in Nat \ {0} /\ Len(Tail(posts)) = Len(posts) - 1
  BY HeadTailProperties, EmptySeq
<1>2. \A i \in 1..Len(Tail(posts)) : Tail(posts)[i] = posts[i + 1]
  BY HeadTailProperties
<1> QED BY <1>1, <1>2

LEMMA DoSendKeeps ==
  ASSUME NEW posts \in Seq(Handler), NEW queue \in Seq(Message), NEW writes \in Seq(Message),
         Sound(posts, queue, writes), posts # <<>>, NEW m \in Message
  PROVE  Sound(Tail(posts), Append(queue, m), IF queue = <<>> THEN Append(writes, m) ELSE writes)
<1>1. /\ \A i, j \in 1..Len(Tail(posts)) :
           Tail(posts)[i].op = "on_write" /\ Tail(posts)[j].op = "on_write" => i = j
      /\ \A i \in 1..Len(Tail(posts)) :
           Tail(posts)[i].op = "on_write" => queue # <<>> /\ writes = <<>>
  <2>1. Len(Tail(posts)) \in Nat
    BY TailOf, LenProperties
  <2>2. ASSUME NEW i \in 1..Len(Tail(posts)), NEW j \in 1..Len(Tail(posts)),
               Tail(posts)[i].op = "on_write", Tail(posts)[j].op = "on_write"
        PROVE  i = j
    <3>1. i + 1 = j + 1
      BY <2>2, TailOf DEF Sound
    <3> QED BY <2>1, <3>1
  <2>3. ASSUME NEW i \in 1..Len(Tail(posts)), Tail(posts)[i].op = "on_write"
        PROVE  queue # <<>> /\ writes = <<>>
    BY <2>3, TailOf DEF Sound
  <2> QED BY <2>2, <2>3
<1>2. /\ Append(queue, m) \in Seq(Message) /\ Len(Append(queue, m)) = Len(queue) + 1
      /\ Len(queue) \in Nat /\ Append(queue, m)[Len(queue) + 1] = m
      /\ \A i \in 1..Len(queue) : Append(queue, m)[i] = queue[i]
  BY AppendProperties, LenProperties
<1>3. Append(queue, m) # <<>>
  BY <1>2, EmptySeq
<1>4. CASE queue = <<>>
  <2>1. writes = <<>> /\ Len(queue) = 0
    BY <1>4 DEF Sound
  <2>2. Append(writes, m) = Append(queue, m) /\ Len(Append(writes, m)) = 1
    BY <1>2, <1>4, <2>1
  <2> QED BY <1>1, <1>3, <1>4, <2>2 DEF Sound
<1>5. CASE queue # <<>>
  <2>1. Append(queue, m)[1] = queue[1]
    BY <1>2, <1>5, EmptySeq
  <2> QED BY <1>1, <1>3, <1>5, <2>1 DEF Sound
<1> QED BY <1>4, <1>5

LEMMA OnWriteKeeps ==
  ASSUME NEW posts \in Seq(Handler), NEW queue, NEW rest, NEW writes,
         Sound(posts, queue, writes), posts # <<>>, Head(posts).op = "on_write"
  PROVE  Sound(Tail(posts), rest, writes)
<1>1. writes = <<>>
  BY TailOf DEF Sound
<1>2. \A i \in 1..Len(Tail(posts)) : Tail(posts)[i].op # "on_write"
  BY TailOf DEF Sound
<1> QED BY <1>1, <1>2 DEF Sound

(***************************************************************************)
(* The steps.                                                              *)
(***************************************************************************)
LEMMA Typed ==
  ASSUME IInv, NEW s \in Session
  PROVE  /\ strand[s] \in Seq(Handler) /\ send_queue_[s] \in Seq(Message)
         /\ writing[s] \in Seq(Message) /\ received[s] \in Seq(Message)
         /\ posted[s] \in Seq(Message) /\ Sound(strand[s], send_queue_[s], writing[s])
BY DEF IInv, TypeOK

(* The step of one session.                                                *)
LEMMA SessionStep ==
  ASSUME IInv, TypeOK', NEW s \in Session, UNCHANGED sessions_,
         stream' = stream \/ stream' = [stream EXCEPT ![s] = IF @ = "open" THEN "closed" ELSE @],
         NEW posts, NEW queue, NEW writes, Sound(posts, queue, writes),
         strand' = [strand EXCEPT ![s] = posts], send_queue_' = [send_queue_ EXCEPT ![s] = queue],
         writing' = [writing EXCEPT ![s] = writes]
  PROVE  IInv'
<1>1. \A u \in Session : Sound(strand'[u], send_queue_'[u], writing'[u])
  BY DEF IInv, TypeOK
<1>2. \A i \in 1..Len(sessions_) : sessions_[i] \in Session
  BY ElementOfSeq DEF IInv, TypeOK
<1>3. Accepted'
  BY ZenonT(40), <1>2 DEF IInv, Accepted, TypeOK
<1> QED BY <1>1, <1>3 DEF IInv

(* A step that changes no session but its stream.                          *)
LEMMA StreamStep ==
  ASSUME IInv, TypeOK', Accepted', UNCHANGED sessionVars
  PROVE  IInv'
BY DEF IInv, sessionVars

LEMMA AcceptIInv ==
  ASSUME IInv, NEW s \in Session, Accept(s)
  PROVE  IInv'
<1> USE DEF Accept, sessionVars
<1> DEFINE n == Len(sessions_)
<1>1. sessions_ \in Seq(Session) /\ n \in Nat /\ DOMAIN sessions_ = 1..n
  BY LenProperties DEF IInv, TypeOK
<1>2. /\ sessions_' \in Seq(Session) /\ Len(sessions_') = n + 1 /\ sessions_'[n + 1] = s
      /\ \A i \in 1..n : sessions_'[i] = sessions_[i]
      /\ DOMAIN sessions_' = 1..(n + 1)
  BY <1>1, AppendProperties, LenProperties
<1>3. PICK path \in {"handshake", "closed"} : stream' = [stream EXCEPT ![s] = path]
  OBVIOUS
<1>4. /\ stream' \in [Session -> {"new", "handshake", "open", "closed"}] /\ stream'[s] = path
      /\ \A u \in Session \ {s} : stream'[u] = stream[u]
  BY <1>3 DEF IInv, TypeOK
<1>5. \A i \in 1..n : sessions_[i] \in Session /\ sessions_[i] # s
  BY <1>1, ElementOfSeq DEF IInv, Accepted
<1> HIDE DEF n
<1>6. IsInjective(sessions_')
  <2> SUFFICES ASSUME NEW i \in 1..(n + 1), NEW j \in 1..(n + 1), sessions_'[i] = sessions_'[j]
               PROVE  i = j
    BY <1>2 DEF IsInjective
  <2>1. (i \in 1..n \/ i = n + 1) /\ (j \in 1..n \/ j = n + 1)
    BY <1>1 DEF n
  <2>2. CASE i \in 1..n /\ j \in 1..n
    BY <1>1, <1>2, <2>2 DEF IInv, TypeOK, IsInjective
  <2>3. CASE i = n + 1 \/ j = n + 1
    BY <1>2, <1>5, <2>1, <2>3
  <2> QED BY <2>1, <2>2, <2>3
<1>7. TypeOK'
  BY <1>2, <1>4, <1>6 DEF IInv, TypeOK
<1>8. Accepted'
  <2> SUFFICES ASSUME NEW i \in 1..(n + 1) PROVE stream'[sessions_'[i]] # "new"
    BY <1>2 DEF Accepted
  <2>1. i \in 1..n \/ i = n + 1
    BY <1>1 DEF n
  <2>2. CASE i \in 1..n
    BY <1>2, <1>4, <1>5, <2>2 DEF IInv, Accepted, n
  <2>3. CASE i = n + 1
    BY <1>2, <1>4, <2>3
  <2> QED BY <2>1, <2>2, <2>3
<1> QED BY <1>7, <1>8, StreamStep

LEMMA StreamIInv ==
  ASSUME IInv, NEW s \in Session, OnAccept(s) \/ OnRead(s)
  PROVE  IInv'
<1> USE DEF OnAccept, OnRead, serverVars, sessionVars
<1>1. PICK result \in {"open", "closed"} : stream' = [stream EXCEPT ![s] = result]
  OBVIOUS
<1>2. TypeOK'
  BY <1>1 DEF IInv, TypeOK
<1>3. Accepted'
  <2>1. \A i \in 1..Len(sessions_) : sessions_[i] \in Session
    BY ElementOfSeq DEF IInv, TypeOK
  <2> QED BY <1>1, <2>1 DEF IInv, TypeOK, Accepted
<1> QED BY <1>2, <1>3, StreamStep

LEMMA BroadcastIInv == IInv /\ Broadcast => IInv'
<1> SUFFICES ASSUME IInv, Broadcast PROVE IInv'
  OBVIOUS
<1> DEFINE m == broadcast + 1
<1>1. m \in Message /\ broadcast' \in 0..MaxMessages
  BY WebSocketAssumption DEF Broadcast, IInv, TypeOK, Message
<1>2. /\ strand' = [s \in Session |-> IF s \in Range(sessions_) THEN Append(strand[s], DoSendOf(m))
                                      ELSE strand[s]]
      /\ posted' = [s \in Session |-> IF s \in Range(sessions_) THEN Append(posted[s], m)
                                      ELSE posted[s]]
      /\ UNCHANGED <<sessions_, accepting, send_queue_, writing, stream, received, failed, hung>>
  BY DEF Broadcast, clientVars
<1> HIDE DEF m
<1>3. ASSUME NEW s \in Session
      PROVE  /\ strand'[s] \in Seq(Handler) /\ posted'[s] \in Seq(Message)
             /\ Sound(strand'[s], send_queue_'[s], writing'[s])
  <2>1. /\ Append(strand[s], DoSendOf(m)) \in Seq(Handler) /\ Append(posted[s], m) \in Seq(Message)
        /\ Sound(Append(strand[s], DoSendOf(m)), send_queue_[s], writing[s])
    BY <1>1, Typed, HandlerKinds, AppendProperties, PostKeeps
  <2> QED BY <1>2, <2>1, Typed
<1>4. strand' \in [Session -> Seq(Handler)] /\ posted' \in [Session -> Seq(Message)]
  BY <1>2, <1>3
<1>5. TypeOK'
  BY <1>1, <1>2, <1>4 DEF IInv, TypeOK
<1>6. Accepted'
  BY <1>2 DEF IInv, Accepted
<1> QED BY <1>3, <1>5, <1>6 DEF IInv

LEMMA DoSendIInv ==
  ASSUME IInv, NEW t \in Io, NEW s \in Session, DoSend(t, s)
  PROVE  IInv'
<1> DEFINE m == Head(strand[s]).arg
           writes == IF send_queue_[s] = <<>> THEN Append(writing[s], m) ELSE writing[s]
<1>1. strand[s] # <<>> /\ Head(strand[s]).op = "do_send"
  BY DEF DoSend, Runs
<1>2. m \in Message
  BY <1>1, Typed, HeadTailProperties, HandlerKinds
<1>3. /\ strand' = [strand EXCEPT ![s] = Tail(strand[s])]
      /\ send_queue_' = [send_queue_ EXCEPT ![s] = Append(send_queue_[s], m)]
      /\ writing' = [writing EXCEPT ![s] = writes]
      /\ UNCHANGED <<sessions_, accepting, broadcast, stream, received, failed, hung, posted>>
  BY DEF DoSend, serverVars, clientVars
<1> HIDE DEF m
<1>4. /\ Tail(strand[s]) \in Seq(Handler) /\ Append(send_queue_[s], m) \in Seq(Message)
      /\ writes \in Seq(Message)
  BY <1>1, <1>2, Typed, TailOf, AppendProperties
<1>5. Sound(Tail(strand[s]), Append(send_queue_[s], m), writes)
  BY <1>1, <1>2, Typed, DoSendKeeps
<1> HIDE DEF writes
<1>6. TypeOK'
  BY <1>3, <1>4 DEF IInv, TypeOK
<1> QED BY <1>3, <1>5, <1>6, SessionStep

LEMMA WrittenIInv ==
  ASSUME IInv, NEW s \in Session, Written(s)
  PROVE  IInv'
<1>1. PICK ok \in BOOLEAN :
        /\ writing[s] # <<>>
        /\ strand' = [strand EXCEPT ![s] = Append(strand[s], OnWriteOf(ok))]
        /\ writing' = [writing EXCEPT ![s] = Tail(writing[s])]
  BY DEF Written, WriteSucceeds, WriteFails
<1>2. /\ UNCHANGED <<sessions_, accepting, broadcast, send_queue_, hung, posted>>
      /\ received' = received \/ received' = [received EXCEPT ![s] = Append(@, Head(writing[s]))]
      /\ stream' = stream \/ stream' = [stream EXCEPT ![s] = IF @ = "open" THEN "closed" ELSE @]
      /\ failed' \in {failed, failed \cup {s}}
  BY DEF Written, WriteSucceeds, WriteFails, serverVars
<1>3. /\ Append(strand[s], OnWriteOf(ok)) \in Seq(Handler) /\ Tail(writing[s]) \in Seq(Message)
      /\ Append(received[s], Head(writing[s])) \in Seq(Message)
  BY <1>1, Typed, HandlerKinds, HeadTailProperties, AppendProperties
<1>4. Sound(Append(strand[s], OnWriteOf(ok)), send_queue_[s], Tail(writing[s]))
  BY <1>1, Typed, WrittenKeeps
<1>5. TypeOK'
  <2>1. received' \in [Session -> Seq(Message)]
    BY <1>2, <1>3 DEF IInv, TypeOK
  <2>2. stream' \in [Session -> {"new", "handshake", "open", "closed"}]
    BY <1>2 DEF IInv, TypeOK
  <2>3. strand' \in [Session -> Seq(Handler)] /\ writing' \in [Session -> Seq(Message)]
    BY <1>1, <1>3 DEF IInv, TypeOK
  <2> QED BY <1>2, <2>1, <2>2, <2>3 DEF IInv, TypeOK
<1>6. send_queue_' = [send_queue_ EXCEPT ![s] = send_queue_[s]]
  BY <1>2 DEF IInv, TypeOK
<1> QED BY <1>1, <1>2, <1>4, <1>5, <1>6, SessionStep

LEMMA OnWriteIInv ==
  ASSUME IInv, NEW t \in Io, NEW s \in Session, OnWrite(t, s)
  PROVE  IInv'
<1> DEFINE rest == IF Head(strand[s]).arg THEN Tail(send_queue_[s]) ELSE send_queue_[s]
<1>1. strand[s] # <<>> /\ Head(strand[s]).op = "on_write"
  BY DEF OnWrite, Runs
<1>2. send_queue_[s] # <<>>
  BY <1>1, Typed, TailOf DEF Sound
<1>3. /\ strand' = [strand EXCEPT ![s] = Tail(strand[s])]
      /\ send_queue_' = [send_queue_ EXCEPT ![s] = rest]
      /\ UNCHANGED <<sessions_, accepting, broadcast, stream, received, failed, writing, posted>>
  BY DEF OnWrite, serverVars, clientVars
<1>4. rest \in Seq(Message) /\ Tail(strand[s]) \in Seq(Handler)
  BY <1>1, <1>2, Typed, HeadTailProperties
<1> HIDE DEF rest
<1>5. hung' \in [Io -> Session \cup {NULL, LOST}]
  BY DEF OnWrite, IInv, TypeOK
<1>6. TypeOK'
  BY <1>3, <1>4, <1>5 DEF IInv, TypeOK
<1>7. Sound(Tail(strand[s]), rest, writing[s])
  BY <1>1, Typed, OnWriteKeeps
<1>8. writing' = [writing EXCEPT ![s] = writing[s]]
  BY <1>3 DEF IInv, TypeOK
<1> QED BY <1>3, <1>6, <1>7, <1>8, SessionStep

LEMMA StopIInv == IInv /\ Stop => IInv'
<1> SUFFICES ASSUME IInv, Stop PROVE IInv'
  OBVIOUS
<1> USE DEF Stop, sessionVars, clientVars
<1>1. sessions_' \in Seq(Session) /\ Len(sessions_') = 0 /\ DOMAIN sessions_' = {}
  BY EmptySeq, LenProperties
<1>2. IsInjective(sessions_')
  BY <1>1 DEF IsInjective
<1>3. TypeOK'
  BY <1>1, <1>2 DEF IInv, TypeOK
<1>4. Accepted'
  BY <1>1 DEF Accepted
<1> QED BY <1>3, <1>4, StreamStep

LEMMA LostIInv == IInv /\ (StopIo \/ \E t \in Io : IoThreadLost(t)) => IInv'
<1> SUFFICES ASSUME IInv, StopIo \/ \E t \in Io : IoThreadLost(t) PROVE IInv'
  OBVIOUS
<1> USE DEF StopIo, IoThreadLost, serverVars, sessionVars, clientVars
<1>1. hung' \in [Io -> Session \cup {NULL, LOST}]
  BY DEF IInv, TypeOK
<1>2. UNCHANGED <<serverVars, sessionVars, clientVars, posted>>
  OBVIOUS
<1>3. TypeOK'
  BY <1>1, <1>2 DEF IInv, TypeOK
<1>4. Accepted'
  BY <1>2 DEF IInv, Accepted
<1> QED BY <1>2, <1>3, <1>4, StreamStep

LEMMA NextIInv == IInv /\ [Next]_vars => IInv'
<1> SUFFICES ASSUME IInv, [Next]_vars PROVE IInv'
  OBVIOUS
<1>1. ASSUME NEW s \in Session, Accept(s) \/ OnRead(s) \/ Handle(s) \/ Written(s) PROVE IInv'
  BY <1>1, AcceptIInv, StreamIInv, DoSendIInv, OnWriteIInv, WrittenIInv DEF Handle
<1>2. CASE UNCHANGED vars
  BY <1>2 DEF vars, serverVars, sessionVars, clientVars, IInv, TypeOK, Accepted
<1> QED BY <1>1, <1>2, BroadcastIInv, StopIInv, LostIInv DEF Next

LEMMA Invariance == Spec => []IInv
<1> QED BY InitIInv, NextIInv, PTL DEF Spec

(***************************************************************************)
(* The theorems.                                                           *)
(***************************************************************************)
(* Sessions are in the list once, and every queue holds what it should.    *)
THEOREM TypeCorrect == Spec => []TypeOK
<1>1. IInv => TypeOK
  BY DEF IInv
<1> QED BY <1>1, Invariance, PTL

(* do_send and on_write give a stream one write at a time, of the front of *)
(* the queue, also after failed writes and beside threads that hang.       *)
THEOREM WritesOneAtATime == Spec => []OneWriteAtATime
<1>1. IInv => OneWriteAtATime
  <2> SUFFICES ASSUME IInv, NEW s \in Session
               PROVE  /\ Len(writing[s]) + Cardinality(Pending(s, "on_write")) <= 1
                      /\ writing[s] # <<>> => Head(writing[s]) = Head(send_queue_[s])
    BY DEF OneWriteAtATime
  <2>1. Sound(strand[s], send_queue_[s], writing[s]) /\ DOMAIN strand[s] = 1..Len(strand[s])
    BY Typed, LenProperties
  <2>2. CASE Pending(s, "on_write") = {}
    <3>1. Cardinality(Pending(s, "on_write")) = 0
      BY <2>2, FS_EmptySet
    <3>2. Len(writing[s]) \in {0, 1}
      BY <2>1, EmptySeq DEF Sound
    <3>3. Len(writing[s]) + Cardinality(Pending(s, "on_write")) <= 1
      <4> DEFINE len == Len(writing[s])
             card == Cardinality(Pending(s, "on_write"))
      <4>1. len \in {0, 1} /\ card = 0
        BY <3>1, <3>2
      <4> HIDE DEF len, card
      <4>2. len + card <= 1
        BY <4>1
      <4> QED BY <4>2 DEF len, card
    <3>4. writing[s] # <<>> => Head(writing[s]) = Head(send_queue_[s])
      <4>1. writing[s] \in Seq(Message) /\ send_queue_[s] \in Seq(Message)
        BY Typed
      <4>2. SUFFICES ASSUME writing[s] # <<>> PROVE Head(writing[s]) = Head(send_queue_[s])
        OBVIOUS
      <4>3. send_queue_[s] # <<>> /\ writing[s][1] = send_queue_[s][1]
        BY <2>1, <4>2 DEF Sound
      <4>4. Head(writing[s]) = writing[s][1] /\ Head(send_queue_[s]) = send_queue_[s][1]
        BY <4>1, <4>2, <4>3, HeadTailProperties
      <4> QED BY <4>3, <4>4
    <3> QED BY <3>3, <3>4
  <2>3. CASE Pending(s, "on_write") # {}
    <3> PICK i \in 1..Len(strand[s]) : strand[s][i].op = "on_write"
      BY <2>1, <2>3 DEF Pending
    <3>1. Pending(s, "on_write") = {i}
      BY <2>1 DEF Pending, Sound
    <3>2. Cardinality(Pending(s, "on_write")) = 1
      BY <3>1, FS_Singleton
    <3>3. writing[s] = <<>> /\ Len(writing[s]) = 0
      BY <2>1 DEF Sound
    <3> QED BY <3>2, <3>3
  <2> QED BY <2>2, <2>3
<1> QED BY <1>1, Invariance, PTL
(***************************************************************************)
(* Conservation.  first is where the part of the queue begins that counts  *)
(* as queued: past the front once its write succeeded.                     *)
(***************************************************************************)
Waits(posts, m) == \E i \in 1..Len(posts) : posts[i] = DoSendOf(m)
Holds(q, first, m) == \E i \in first..Len(q) : q[i] = m
FirstQueued(posts) == IF \E i \in 1..Len(posts) : posts[i] = OnWriteOf(TRUE) THEN 2 ELSE 1

(* Nothing is lost or invented, nothing is ahead of what was broadcast.    *)
Complete(first, posts, queue, rec, post, last) ==
  /\ \A m \in Message : Holds(post, 1, m) <=>
       Holds(rec, 1, m) \/ Holds(queue, first, m) \/ Waits(posts, m)
  /\ \A i \in 1..Len(post) : post[i] <= last
  /\ \A i \in 1..Len(queue) : queue[i] <= last

(* The messages are in the order of the broadcasts: those received, then   *)
(* those in the queue, then those in the strand.                           *)
InOrder(first, posts, queue, rec) ==
  /\ \A i, j \in 1..Len(rec) : i < j => rec[i] < rec[j]
  /\ \A i, j \in 1..Len(queue) : i < j => queue[i] < queue[j]
  /\ \A i \in 1..Len(rec), j \in first..Len(queue) : rec[i] < queue[j]
  /\ \A k \in 1..Len(posts), m \in Message : posts[k] = DoSendOf(m) =>
       /\ \A i \in 1..Len(rec) : rec[i] < m
       /\ \A i \in 1..Len(queue) : queue[i] < m
       /\ \A i \in 1..Len(posts), n \in Message : i < k /\ posts[i] = DoSendOf(n) => n < m

Keeps(s) ==
  /\ Complete(FirstQueued(strand[s]), strand[s], send_queue_[s], received[s], posted[s], broadcast)
  /\ InOrder(FirstQueued(strand[s]), strand[s], send_queue_[s], received[s])

KeepsAll == \A s \in Session : Keeps(s)

LEMMA HandlerForms ==
  /\ \A m, n : DoSendOf(m) = DoSendOf(n) => m = n
  /\ \A m, ok : DoSendOf(m) # OnWriteOf(ok)
  /\ OnWriteOf(TRUE) # OnWriteOf(FALSE)
  /\ \A h \in Handler : h.op = "do_send" => h.arg \in Message /\ h = DoSendOf(h.arg)
  /\ \A h \in Handler : h.op = "on_write" =>
       h = OnWriteOf(h.arg) /\ (h = OnWriteOf(TRUE) \/ h = OnWriteOf(FALSE))
<1>1. \A m : DoSendOf(m).op = "do_send" /\ DoSendOf(m).arg = m
  BY DEF DoSendOf
<1>2. \A ok : OnWriteOf(ok).op = "on_write" /\ OnWriteOf(ok).arg = ok
  BY DEF OnWriteOf
<1>3. "do_send" # "on_write"
  OBVIOUS
<1>4. ASSUME NEW m, NEW n, DoSendOf(m) = DoSendOf(n) PROVE m = n
  <2>1. DoSendOf(m).arg = DoSendOf(n).arg
    BY Zenon, <1>4
  <2>2. DoSendOf(m).arg = m /\ DoSendOf(n).arg = n
    BY <1>1
  <2> QED BY Zenon, <2>1, <2>2
<1>5. \A m, ok : DoSendOf(m) # OnWriteOf(ok)
  BY Zenon, <1>1, <1>2, <1>3
<1>6. OnWriteOf(TRUE) # OnWriteOf(FALSE)
  <2> SUFFICES ASSUME OnWriteOf(TRUE) = OnWriteOf(FALSE) PROVE FALSE
    OBVIOUS
  <2>1. OnWriteOf(TRUE).arg = OnWriteOf(FALSE).arg
    BY Zenon
  <2>2. (OnWriteOf(TRUE).arg <=> TRUE) /\ (OnWriteOf(FALSE).arg <=> FALSE)
    BY DEF OnWriteOf
  <2> QED BY Zenon, <2>1, <2>2
<1>7. ASSUME NEW h \in Handler
      PROVE  \/ h.op = "do_send" /\ h.arg \in Message /\ h = DoSendOf(h.arg)
             \/ h.op = "on_write" /\ h = OnWriteOf(h.arg) /\ (h = OnWriteOf(TRUE) \/ h = OnWriteOf(FALSE))
  <2>1. \/ \E m \in Message : h = DoSendOf(m)
        \/ \E ok \in BOOLEAN : h = OnWriteOf(ok)
    BY Zenon DEF Handler
  <2>2. ASSUME NEW m \in Message, h = DoSendOf(m)
        PROVE  h.op = "do_send" /\ h.arg \in Message /\ h = DoSendOf(h.arg)
    BY Zenon, <1>1, <2>2
  <2>3. ASSUME NEW ok \in BOOLEAN, h = OnWriteOf(ok)
        PROVE  h.op = "on_write" /\ h = OnWriteOf(h.arg) /\ (h = OnWriteOf(TRUE) \/ h = OnWriteOf(FALSE))
    BY Zenon, <1>2, <2>3
  <2> QED BY Zenon, <2>1, <2>2, <2>3
<1> QED BY Zenon, <1>3, <1>4, <1>5, <1>6, <1>7

LEMMA Appended ==
  ASSUME NEW S, NEW q \in Seq(S), NEW x \in S
  PROVE  /\ Len(q) \in Nat /\ Append(q, x) \in Seq(S) /\ Len(Append(q, x)) = Len(q) + 1
         /\ Append(q, x)[Len(q) + 1] = x
         /\ \A i \in 1..Len(q) : Append(q, x)[i] = q[i] /\ i \in 1..Len(Append(q, x))
         /\ Len(q) + 1 \in 1..Len(Append(q, x))
         /\ \A i \in 1..Len(Append(q, x)) : i \in 1..Len(q) \/ i = Len(q) + 1
<1>1. /\ Append(q, x) \in Seq(S) /\ Len(Append(q, x)) = Len(q) + 1 /\ Append(q, x)[Len(q) + 1] = x
      /\ \A i \in 1..Len(q) : Append(q, x)[i] = q[i]
  BY AppendProperties
<1>2. Len(q) \in Nat
  BY LenProperties
<1> QED BY <1>1, <1>2

LEMMA HoldsAppended ==
  ASSUME NEW S, NEW q \in Seq(S), NEW x \in S, NEW first \in 1..(Len(q) + 1)
  PROVE  \A m : Holds(Append(q, x), first, m) <=> Holds(q, first, m) \/ m = x
<1> DEFINE a == Append(q, x)
<1>1. /\ Len(q) \in Nat /\ Len(a) = Len(q) + 1 /\ a[Len(q) + 1] = x
      /\ \A i \in 1..Len(q) : a[i] = q[i]
  BY Appended
<1>2. /\ \A i \in first..Len(a) : i \in first..Len(q) \/ i = Len(q) + 1
      /\ \A i \in first..Len(q) : i \in first..Len(a) /\ i \in 1..Len(q)
      /\ Len(q) + 1 \in first..Len(a)
  <2> HIDE DEF a
  <2> QED BY <1>1
<1> HIDE DEF a
<1> QED BY <1>1, <1>2 DEF Holds, a

LEMMA WaitsAppended ==
  ASSUME NEW posts \in Seq(Handler), NEW h \in Handler
  PROVE  /\ \A m : Waits(Append(posts, h), m) <=> Waits(posts, m) \/ h = DoSendOf(m)
         /\ FirstQueued(Append(posts, h)) = IF h = OnWriteOf(TRUE) THEN 2 ELSE FirstQueued(posts)
<1> DEFINE a == Append(posts, h)
<1>1. /\ \A i \in 1..Len(posts) : a[i] = posts[i] /\ i \in 1..Len(a)
      /\ a[Len(posts) + 1] = h /\ Len(posts) + 1 \in 1..Len(a)
      /\ \A i \in 1..Len(a) : i \in 1..Len(posts) \/ i = Len(posts) + 1
  BY Appended
<1> HIDE DEF a
<1>2. \A k : (\E i \in 1..Len(a) : a[i] = k) <=> (\E i \in 1..Len(posts) : posts[i] = k) \/ h = k
  BY <1>1
<1> QED BY <1>2 DEF Waits, FirstQueued, a

LEMMA WaitsTail ==
  ASSUME NEW posts \in Seq(Handler), posts # <<>>
  PROVE  /\ \A m : Waits(posts, m) <=> Waits(Tail(posts), m) \/ Head(posts) = DoSendOf(m)
         /\ FirstQueued(posts) = IF Head(posts) = OnWriteOf(TRUE) THEN 2 ELSE FirstQueued(Tail(posts))
<1> DEFINE r == Tail(posts)
<1>1. /\ Head(posts) = posts[1] /\ 1 \in 1..Len(posts)
      /\ \A i \in 1..Len(r) : i + 1 \in 1..Len(posts) /\ r[i] = posts[i + 1]
  BY TailOf
<1>2. \A i \in 1..Len(posts) : i # 1 => i - 1 \in 1..Len(r) /\ (i - 1) + 1 = i
  <2>1. Len(posts) \in Nat \ {0} /\ Len(r) = Len(posts) - 1
    BY HeadTailProperties, EmptySeq
  <2> HIDE DEF r
  <2> QED BY <2>1
<1>3. \A i \in 1..Len(posts) : i # 1 => i - 1 \in 1..Len(r) /\ r[i - 1] = posts[i]
  BY <1>1, <1>2
<1> HIDE DEF r
<1>4. \A k : (\E i \in 1..Len(posts) : posts[i] = k) <=> (\E i \in 1..Len(r) : r[i] = k) \/ Head(posts) = k
  BY <1>1, <1>3
<1> QED BY <1>4 DEF Waits, FirstQueued, r

(* do_send is posted.                                                      *)
LEMMA PostConserves ==
  ASSUME NEW posts \in Seq(Handler), NEW queue \in Seq(Message), NEW rec \in Seq(Message),
         NEW post \in Seq(Message), NEW last \in Nat, last + 1 \in Message,
         NEW first \in {1, 2},
         Complete(first, posts, queue, rec, post, last), InOrder(first, posts, queue, rec)
  PROVE  /\ Complete(first, Append(posts, DoSendOf(last + 1)), queue, rec, Append(post, last + 1), last + 1)
         /\ InOrder(first, Append(posts, DoSendOf(last + 1)), queue, rec)
<1> DEFINE n == last + 1
           h == DoSendOf(n)
           more == Append(posts, h)
<1>1. h \in Handler /\ \A m : h = DoSendOf(m) <=> m = n
  BY HandlerKinds, HandlerForms
<1>2. \A m : Waits(more, m) <=> Waits(posts, m) \/ m = n
  BY <1>1, WaitsAppended
<1>3. /\ \A i \in 1..Len(posts) : more[i] = posts[i] /\ i \in 1..Len(more)
      /\ more[Len(posts) + 1] = h /\ Len(posts) \in Nat
      /\ \A i \in 1..Len(more) : i \in 1..Len(posts) \/ i = Len(posts) + 1
  BY <1>1, Appended
<1>4. \A m : Holds(Append(post, n), 1, m) <=> Holds(post, 1, m) \/ m = n
  <2>1. 1 \in 1..(Len(post) + 1)
    BY LenProperties
  <2> QED BY <2>1, HoldsAppended
<1>5. \A i \in 1..Len(Append(post, n)) : Append(post, n)[i] <= n
  <2>1. \A i \in 1..Len(post) : post[i] \in Nat /\ post[i] <= n
    <3>1. \A i \in 1..Len(post) : post[i] \in Message
      BY ElementOfSeq
    <3> QED BY <3>1 DEF Complete, Message
  <2> QED BY <2>1, Appended
<1>6. /\ \A i \in 1..Len(queue) : queue[i] \in Nat /\ queue[i] <= last
      /\ \A i \in 1..Len(rec) : rec[i] \in Nat /\ rec[i] <= last
      /\ \A k \in 1..Len(posts), m \in Message : posts[k] = DoSendOf(m) => m <= last
  <2>1. \A i \in 1..Len(queue) : queue[i] \in Nat
    <3>1. \A i \in 1..Len(queue) : queue[i] \in Message
      BY ElementOfSeq
    <3> QED BY <3>1 DEF Message
  <2>2. \A i \in 1..Len(rec) : rec[i] \in Message
    BY ElementOfSeq
  <2>3. \A m \in Message : Holds(post, 1, m) => m <= last
    BY DEF Complete, Holds
  <2>4. \A i \in 1..Len(rec) : Holds(rec, 1, rec[i])
    BY DEF Holds
  <2>5. \A k \in 1..Len(posts), m \in Message : posts[k] = DoSendOf(m) => Waits(posts, m)
    BY DEF Waits
  <2> QED BY <2>1, <2>2, <2>3, <2>4, <2>5 DEF Complete, Message
<1> HIDE DEF n, h, more
<1>7. n \in Message /\ n = last + 1 /\ \A i : i <= last /\ i \in Nat => i < n /\ i <= n
  BY DEF n
<1>8. Complete(first, more, queue, rec, Append(post, n), n)
  BY <1>2, <1>4, <1>5, <1>6, <1>7 DEF Complete
<1>9. ASSUME NEW k \in 1..Len(more), NEW m \in Message, more[k] = DoSendOf(m)
      PROVE  /\ \A i \in 1..Len(rec) : rec[i] < m
             /\ \A i \in 1..Len(queue) : queue[i] < m
             /\ \A i \in 1..Len(more), o \in Message : i < k /\ more[i] = DoSendOf(o) => o < m
  <2>1. CASE k \in 1..Len(posts)
    <3>1. posts[k] = DoSendOf(m)
      BY <1>3, <1>9, <2>1
    <3>2. \A i \in 1..Len(more) : i < k => i \in 1..Len(posts) /\ more[i] = posts[i]
      BY <1>3, <2>1
    <3> QED BY <2>1, <3>1, <3>2 DEF InOrder
  <2>2. CASE k = Len(posts) + 1
    <3>1. m = n
      BY <1>1, <1>3, <1>9, <2>2
    <3>2. \A i \in 1..Len(more) : i < k => i \in 1..Len(posts) /\ more[i] = posts[i]
      BY <1>3, <2>2
    <3>3. \A o \in Message : o \in Nat
      BY DEF Message
    <3> QED BY <1>6, <1>7, <3>1, <3>2, <3>3
  <2> QED BY <1>3, <2>1, <2>2
<1>10. InOrder(first, more, queue, rec)
  BY <1>9 DEF InOrder
<1> QED BY <1>8, <1>10 DEF n, h, more

(* do_send runs: the message goes from the strand to the queue.            *)
LEMMA DoSendConserves ==
  ASSUME NEW posts \in Seq(Handler), NEW queue \in Seq(Message), NEW rec \in Seq(Message),
         NEW post \in Seq(Message), NEW last \in Nat, NEW first \in {1, 2},
         posts # <<>>, NEW m \in Message, Head(posts) = DoSendOf(m), first = 2 => queue # <<>>,
         Complete(first, posts, queue, rec, post, last), InOrder(first, posts, queue, rec)
  PROVE  /\ Complete(first, Tail(posts), Append(queue, m), rec, post, last)
         /\ InOrder(first, Tail(posts), Append(queue, m), rec)
<1> DEFINE rest == Tail(posts)
           more == Append(queue, m)
<1>1. /\ posts[1] = DoSendOf(m) /\ 1 \in 1..Len(posts)
      /\ \A i \in 1..Len(rest) : i + 1 \in 1..Len(posts) /\ i + 1 # 1 /\ rest[i] = posts[i + 1]
  BY TailOf
<1>2. \A o : Waits(posts, o) <=> Waits(rest, o) \/ o = m
  BY WaitsTail, HandlerForms
<1>3. /\ Len(queue) \in Nat /\ Len(more) = Len(queue) + 1 /\ more[Len(queue) + 1] = m
      /\ \A i \in 1..Len(queue) : more[i] = queue[i]
      /\ \A i \in 1..Len(more) : i \in 1..Len(queue) \/ i = Len(queue) + 1
  BY Appended
<1>4. first \in 1..(Len(queue) + 1)
  <2>1. first = 2 => Len(queue) # 0
    BY EmptySeq
  <2> QED BY <1>3, <2>1
<1>5. \A o : Holds(more, first, o) <=> Holds(queue, first, o) \/ o = m
  BY <1>4, HoldsAppended
<1>6. /\ \A i \in 1..Len(queue) : queue[i] \in Nat /\ queue[i] < m
      /\ \A i \in 1..Len(rec) : rec[i] \in Nat /\ rec[i] < m
      /\ m \in Nat
  <2>1. /\ \A i \in 1..Len(queue) : queue[i] \in Nat
        /\ \A i \in 1..Len(rec) : rec[i] \in Nat
    <3>1. /\ \A i \in 1..Len(queue) : queue[i] \in Message
          /\ \A i \in 1..Len(rec) : rec[i] \in Message
      BY ElementOfSeq
    <3> QED BY <3>1 DEF Message
  <2> QED BY <1>1, <2>1 DEF InOrder, Message
<1>7. m <= last
  <2>1. Holds(post, 1, m)
    BY <1>2 DEF Complete
  <2> QED BY <2>1 DEF Complete, Holds
<1> HIDE DEF rest, more
<1>8. Complete(first, rest, more, rec, post, last)
  <2>1. \A i \in 1..Len(more) : more[i] <= last
    BY <1>3, <1>7 DEF Complete
  <2> QED BY <1>2, <1>5, <2>1 DEF Complete
<1>9. \A i, j \in 1..Len(more) : i < j => more[i] < more[j]
  <2> SUFFICES ASSUME NEW i \in 1..Len(more), NEW j \in 1..Len(more), i < j PROVE more[i] < more[j]
    OBVIOUS
  <2>1. i \in 1..Len(queue)
    BY <1>3
  <2>2. CASE j \in 1..Len(queue)
    BY <1>3, <2>1, <2>2 DEF InOrder
  <2>3. CASE j = Len(queue) + 1
    BY <1>3, <1>6, <2>1, <2>3
  <2> QED BY <1>3, <2>2, <2>3
<1>10. \A i \in 1..Len(rec), j \in first..Len(more) : rec[i] < more[j]
  <2> SUFFICES ASSUME NEW i \in 1..Len(rec), NEW j \in first..Len(more) PROVE rec[i] < more[j]
    OBVIOUS
  <2>1. CASE j \in first..Len(queue)
    <3>1. j \in 1..Len(queue)
      BY <1>3, <2>1
    <3> QED BY <1>3, <2>1, <3>1 DEF InOrder
  <2>2. CASE j = Len(queue) + 1
    BY <1>3, <1>6, <2>2
  <2> QED BY <1>3, <2>1, <2>2
<1>11. ASSUME NEW k \in 1..Len(rest), NEW o \in Message, rest[k] = DoSendOf(o)
       PROVE  /\ \A i \in 1..Len(rec) : rec[i] < o
              /\ \A i \in 1..Len(more) : more[i] < o
              /\ \A i \in 1..Len(rest), p \in Message : i < k /\ rest[i] = DoSendOf(p) => p < o
  <2>1. posts[k + 1] = DoSendOf(o) /\ k + 1 \in 1..Len(posts) /\ 1 < k + 1
    BY <1>1, <1>11
  <2>2. m < o
    BY <1>1, <2>1 DEF InOrder
  <2>3. \A i \in 1..Len(more) : more[i] < o
    BY <1>3, <2>1, <2>2 DEF InOrder
  <2>4. ASSUME NEW i \in 1..Len(rest), NEW p \in Message, i < k, rest[i] = DoSendOf(p) PROVE p < o
    <3>1. posts[i + 1] = DoSendOf(p) /\ i + 1 \in 1..Len(posts) /\ i + 1 < k + 1
      BY <1>1, <2>4
    <3> QED BY <2>1, <3>1 DEF InOrder
  <2> QED BY <2>1, <2>3, <2>4 DEF InOrder
<1>12. InOrder(first, rest, more, rec)
  BY <1>9, <1>10, <1>11 DEF InOrder
<1> QED BY <1>8, <1>12 DEF rest, more

LEMMA LaterConserves ==
  ASSUME NEW posts, NEW queue \in Seq(Message), NEW rec, NEW post \in Seq(Message),
         NEW last \in Nat, NEW first, Complete(first, posts, queue, rec, post, last)
  PROVE  Complete(first, posts, queue, rec, post, last + 1)
<1>1. /\ \A i \in 1..Len(queue) : queue[i] \in Message
      /\ \A i \in 1..Len(post) : post[i] \in Message
  BY ElementOfSeq
<1>2. /\ \A i \in 1..Len(queue) : queue[i] <= last + 1
      /\ \A i \in 1..Len(post) : post[i] <= last + 1
  BY <1>1 DEF Complete, Message
<1> QED BY <1>2 DEF Complete

(* Every other handler that is posted leaves what waits alone.             *)
LEMMA WaitersSame ==
  ASSUME NEW posts \in Seq(Handler), NEW h \in Handler, \A m : h # DoSendOf(m)
  PROVE  /\ \A m : Waits(Append(posts, h), m) <=> Waits(posts, m)
         /\ \A i \in 1..Len(Append(posts, h)), m \in Message :
              Append(posts, h)[i] = DoSendOf(m) => i \in 1..Len(posts) /\ posts[i] = DoSendOf(m)
<1>1. \A m : Waits(Append(posts, h), m) <=> Waits(posts, m)
  BY WaitsAppended
<1> DEFINE a == Append(posts, h)
<1>2. /\ \A i \in 1..Len(posts) : a[i] = posts[i]
      /\ a[Len(posts) + 1] = h
      /\ \A i \in 1..Len(a) : i \in 1..Len(posts) \/ i = Len(posts) + 1
  BY Appended
<1> HIDE DEF a
<1>3. \A i \in 1..Len(a), m \in Message :
        a[i] = DoSendOf(m) => i \in 1..Len(posts) /\ posts[i] = DoSendOf(m)
  BY <1>2
<1> QED BY <1>1, <1>3 DEF a

LEMMA FailureConserves ==
  ASSUME NEW posts \in Seq(Handler), NEW queue, NEW rec, NEW post, NEW last, NEW first,
         Complete(first, posts, queue, rec, post, last), InOrder(first, posts, queue, rec)
  PROVE  /\ Complete(first, Append(posts, OnWriteOf(FALSE)), queue, rec, post, last)
         /\ InOrder(first, Append(posts, OnWriteOf(FALSE)), queue, rec)
<1> DEFINE h == OnWriteOf(FALSE)
           a == Append(posts, h)
<1>1. h \in Handler /\ \A m : h # DoSendOf(m)
  BY HandlerKinds, HandlerForms
<1>2. /\ \A m : Waits(a, m) <=> Waits(posts, m)
      /\ \A i \in 1..Len(a), m \in Message :
           a[i] = DoSendOf(m) => i \in 1..Len(posts) /\ posts[i] = DoSendOf(m)
  BY <1>1, WaitersSame
<1> HIDE DEF a
<1>3. Complete(first, a, queue, rec, post, last)
  BY <1>2 DEF Complete
<1>4. InOrder(first, a, queue, rec)
  BY <1>2 DEF InOrder
<1> QED BY <1>3, <1>4 DEF a

(* A write succeeds: the front of the queue is received.                   *)
LEMMA SuccessConserves ==
  ASSUME NEW posts \in Seq(Handler), NEW queue \in Seq(Message), NEW rec \in Seq(Message),
         NEW post, NEW last, queue # <<>>,
         Complete(1, posts, queue, rec, post, last), InOrder(1, posts, queue, rec)
  PROVE  /\ Complete(2, Append(posts, OnWriteOf(TRUE)), queue, Append(rec, queue[1]), post, last)
         /\ InOrder(2, Append(posts, OnWriteOf(TRUE)), queue, Append(rec, queue[1]))
<1> DEFINE h == OnWriteOf(TRUE)
           a == Append(posts, h)
           m == queue[1]
           got == Append(rec, m)
<1>1. h \in Handler /\ \A o : h # DoSendOf(o)
  BY HandlerKinds, HandlerForms
<1>2. /\ \A o : Waits(a, o) <=> Waits(posts, o)
      /\ \A i \in 1..Len(a), o \in Message :
           a[i] = DoSendOf(o) => i \in 1..Len(posts) /\ posts[i] = DoSendOf(o)
  BY <1>1, WaitersSame
<1>3. /\ Len(queue) \in Nat \ {0} /\ m \in Message /\ 1 \in 1..Len(queue)
      /\ \A i \in 2..Len(queue) : i \in 1..Len(queue) /\ 1 < i
      /\ \A i \in 1..Len(queue) : i = 1 \/ i \in 2..Len(queue)
  <2>1. Len(queue) \in Nat \ {0}
    BY EmptySeq, LenProperties
  <2>2. 1 \in 1..Len(queue)
    BY <2>1
  <2>3. m \in Message
    BY <2>2, ElementOfSeq
  <2> QED BY <2>1, <2>2, <2>3
<1>4. /\ Len(rec) \in Nat /\ Len(got) = Len(rec) + 1 /\ got[Len(rec) + 1] = m
      /\ \A i \in 1..Len(rec) : got[i] = rec[i]
      /\ \A i \in 1..Len(got) : i \in 1..Len(rec) \/ i = Len(rec) + 1
  BY <1>3, Appended
<1>5. \A o : Holds(got, 1, o) <=> Holds(rec, 1, o) \/ o = m
  <2>1. 1 \in 1..(Len(rec) + 1)
    BY <1>4
  <2> QED BY <1>3, <2>1, HoldsAppended
<1>6. \A o : Holds(queue, 1, o) <=> Holds(queue, 2, o) \/ o = m
  BY <1>3 DEF Holds
<1> HIDE DEF a, m, got
<1>7. Complete(2, a, queue, got, post, last)
  BY <1>2, <1>5, <1>6 DEF Complete
<1>8. \A i, j \in 1..Len(got) : i < j => got[i] < got[j]
  <2> SUFFICES ASSUME NEW i \in 1..Len(got), NEW j \in 1..Len(got), i < j PROVE got[i] < got[j]
    OBVIOUS
  <2>1. i \in 1..Len(rec)
    BY <1>4
  <2>2. CASE j \in 1..Len(rec)
    BY <1>4, <2>1, <2>2 DEF InOrder
  <2>3. CASE j = Len(rec) + 1
    BY <1>3, <1>4, <2>1, <2>3 DEF InOrder, m
  <2> QED BY <1>4, <2>2, <2>3
<1>9. \A i \in 1..Len(got), j \in 2..Len(queue) : got[i] < queue[j]
  BY <1>3, <1>4 DEF InOrder, m
<1>10. \A k \in 1..Len(a), o \in Message : a[k] = DoSendOf(o) =>
         /\ \A i \in 1..Len(got) : got[i] < o
         /\ \A i \in 1..Len(queue) : queue[i] < o
         /\ \A i \in 1..Len(a), p \in Message : i < k /\ a[i] = DoSendOf(p) => p < o
  <2> SUFFICES ASSUME NEW k \in 1..Len(a), NEW o \in Message, a[k] = DoSendOf(o)
               PROVE  /\ \A i \in 1..Len(got) : got[i] < o
                      /\ \A i \in 1..Len(queue) : queue[i] < o
                      /\ \A i \in 1..Len(a), p \in Message : i < k /\ a[i] = DoSendOf(p) => p < o
    OBVIOUS
  <2>1. k \in 1..Len(posts) /\ posts[k] = DoSendOf(o)
    BY <1>2
  <2>2. /\ \A i \in 1..Len(rec) : rec[i] < o
        /\ \A i \in 1..Len(queue) : queue[i] < o
        /\ \A i \in 1..Len(posts), p \in Message : i < k /\ posts[i] = DoSendOf(p) => p < o
    BY <2>1 DEF InOrder
  <2> QED BY <1>2, <1>3, <1>4, <2>2 DEF m
<1>11. InOrder(2, a, queue, got)
  BY <1>8, <1>9, <1>10 DEF InOrder
<1> QED BY <1>7, <1>11 DEF a, m, got

(* on_write runs: after a success the front leaves the queue.              *)
LEMMA OnWriteConserves ==
  ASSUME NEW posts \in Seq(Handler), NEW queue \in Seq(Message), NEW rec, NEW post, NEW last,
         queue # <<>>, posts # <<>>, Head(posts).op = "on_write",
         FirstQueued(Tail(posts)) = 1,
         Complete(FirstQueued(posts), posts, queue, rec, post, last),
         InOrder(FirstQueued(posts), posts, queue, rec),
         NEW kept, kept = IF Head(posts).arg THEN Tail(queue) ELSE queue
  PROVE  Complete(1, Tail(posts), kept, rec, post, last) /\ InOrder(1, Tail(posts), kept, rec)
<1> DEFINE rest == Tail(posts)
<1>1. /\ Head(posts) = posts[1] /\ Head(posts) \in Handler
      /\ \A i \in 1..Len(rest) : i + 1 \in 1..Len(posts) /\ i + 1 # 1 /\ rest[i] = posts[i + 1]
  BY TailOf, HeadTailProperties
<1>2. \A m : Head(posts) # DoSendOf(m)
  BY <1>1, HandlerForms
<1>3. \A m : Waits(posts, m) <=> Waits(rest, m)
  BY <1>2, WaitsTail
<1> HIDE DEF rest
<1>4. \A k \in 1..Len(rest), o \in Message : rest[k] = DoSendOf(o) =>
         /\ \A i \in 1..Len(rec) : rec[i] < o
         /\ \A i \in 1..Len(queue) : queue[i] < o
         /\ \A i \in 1..Len(rest), p \in Message : i < k /\ rest[i] = DoSendOf(p) => p < o
  <2> SUFFICES ASSUME NEW k \in 1..Len(rest), NEW o \in Message, rest[k] = DoSendOf(o)
               PROVE  /\ \A i \in 1..Len(rec) : rec[i] < o
                      /\ \A i \in 1..Len(queue) : queue[i] < o
                      /\ \A i \in 1..Len(rest), p \in Message : i < k /\ rest[i] = DoSendOf(p) => p < o
    OBVIOUS
  <2>1. posts[k + 1] = DoSendOf(o) /\ k + 1 \in 1..Len(posts)
    BY <1>1
  <2>2. ASSUME NEW i \in 1..Len(rest), NEW p \in Message, i < k, rest[i] = DoSendOf(p) PROVE p < o
    <3>1. posts[i + 1] = DoSendOf(p) /\ i + 1 \in 1..Len(posts) /\ i + 1 < k + 1
      BY <1>1, <2>2
    <3> QED BY <2>1, <3>1 DEF InOrder
  <2> QED BY <2>1, <2>2 DEF InOrder
<1>5. CASE Head(posts) = OnWriteOf(FALSE)
  <2>1. FirstQueued(posts) = 1
    BY <1>5, WaitsTail, HandlerForms
  <2>2. kept = queue
    <3>1. ~Head(posts).arg
      BY <1>5 DEF OnWriteOf
    <3> QED BY <3>1
  <2> QED BY <1>3, <1>4, <2>1, <2>2 DEF Complete, InOrder, rest
<1>6. CASE Head(posts) = OnWriteOf(TRUE)
  <2>1. FirstQueued(posts) = 2
    BY <1>6, WaitsTail
  <2>2. kept = Tail(queue)
    <3>1. Head(posts).arg
      BY <1>6 DEF OnWriteOf
    <3> QED BY <3>1
  <2>3. /\ \A i \in 1..Len(kept) : i + 1 \in 2..Len(queue) /\ i + 1 \in 1..Len(queue) /\ kept[i] = queue[i + 1]
        /\ \A i \in 2..Len(queue) : i - 1 \in 1..Len(kept) /\ kept[i - 1] = queue[i]
    <3>1. /\ Len(queue) \in Nat \ {0} /\ Len(kept) = Len(queue) - 1
          /\ \A i \in 1..Len(kept) : kept[i] = queue[i + 1]
      BY <2>2, HeadTailProperties, EmptySeq
    <3>2. \A i \in 2..Len(queue) : i - 1 \in 1..Len(kept) /\ (i - 1) + 1 = i
      BY <3>1
    <3> QED BY <3>1, <3>2
  <2>4. ASSUME NEW m PROVE Holds(queue, 2, m) <=> Holds(kept, 1, m)
    <3>1. ASSUME NEW i \in 2..Len(queue), queue[i] = m PROVE Holds(kept, 1, m)
      <4>1. i - 1 \in 1..Len(kept) /\ kept[i - 1] = m
        BY <2>3, <3>1
      <4> QED BY <4>1 DEF Holds
    <3>2. ASSUME NEW i \in 1..Len(kept), kept[i] = m PROVE Holds(queue, 2, m)
      <4>1. i + 1 \in 2..Len(queue) /\ queue[i + 1] = m
        BY <2>3, <3>2
      <4> QED BY <4>1 DEF Holds
    <3> QED BY <3>1, <3>2 DEF Holds
  <2>5. \A i, j \in 1..Len(kept) : i < j => kept[i] < kept[j]
    <3> SUFFICES ASSUME NEW i \in 1..Len(kept), NEW j \in 1..Len(kept), i < j PROVE kept[i] < kept[j]
      OBVIOUS
    <3>1. i + 1 < j + 1
      OBVIOUS
    <3> QED BY <2>3, <3>1 DEF InOrder
  <2>6. \A i \in 1..Len(rec), j \in 1..Len(kept) : rec[i] < kept[j]
    BY <2>1, <2>3 DEF InOrder
  <2>7. \A i \in 1..Len(kept) : kept[i] <= last
    BY <2>3 DEF Complete
  <2>8. Complete(1, rest, kept, rec, post, last)
    BY <1>3, <2>1, <2>4, <2>7 DEF Complete
  <2>9. \A k \in 1..Len(rest), o \in Message : rest[k] = DoSendOf(o) =>
         /\ \A i \in 1..Len(rec) : rec[i] < o
         /\ \A i \in 1..Len(kept) : kept[i] < o
         /\ \A i \in 1..Len(rest), p \in Message : i < k /\ rest[i] = DoSendOf(p) => p < o
    BY <1>4, <2>3
  <2>10. InOrder(1, rest, kept, rec)
    BY <2>5, <2>6, <2>9 DEF InOrder
  <2> QED BY <2>8, <2>10 DEF rest
<1> QED BY <1>1, <1>5, <1>6, HandlerForms

(***************************************************************************)
(* The steps.                                                              *)
(***************************************************************************)
(* The front of the queue counts as received only between the write and    *)
(* its on_write, and then the queue is not empty.                          *)
LEMMA FirstFacts ==
  ASSUME NEW posts \in Seq(Handler), NEW queue, NEW writes, Sound(posts, queue, writes)
  PROVE  /\ FirstQueued(posts) \in {1, 2}
         /\ FirstQueued(posts) = 2 => queue # <<>>
         /\ writes # <<>> => FirstQueued(posts) = 1
         /\ posts # <<>> /\ Head(posts).op = "on_write" => FirstQueued(Tail(posts)) = 1
<1>1. \A i \in 1..Len(posts) : posts[i] = OnWriteOf(TRUE) => posts[i].op = "on_write"
  BY DEF OnWriteOf
<1>2. ASSUME posts # <<>>, Head(posts).op = "on_write", NEW i \in 1..Len(Tail(posts))
      PROVE  Tail(posts)[i] # OnWriteOf(TRUE)
  <2>1. /\ Head(posts) = posts[1] /\ 1 \in 1..Len(posts)
        /\ i + 1 \in 1..Len(posts) /\ i + 1 # 1 /\ Tail(posts)[i] = posts[i + 1]
    BY <1>2, TailOf
  <2>2. posts[1].op = "on_write"
    BY <1>2, <2>1
  <2>3. ~(posts[i + 1].op = "on_write")
    BY <2>1, <2>2 DEF Sound
  <2> QED BY <1>1, <2>1, <2>3
<1>3. /\ FirstQueued(posts) \in {1, 2}
      /\ FirstQueued(posts) = 2 => \E i \in 1..Len(posts) : posts[i].op = "on_write"
  <2>1. CASE \E i \in 1..Len(posts) : posts[i] = OnWriteOf(TRUE)
    <3>1. PICK i \in 1..Len(posts) : posts[i] = OnWriteOf(TRUE)
      BY <2>1
    <3>2. posts[i].op = "on_write"
      BY <1>1, <3>1
    <3> QED BY <2>1, <3>2 DEF FirstQueued
  <2>2. CASE ~\E i \in 1..Len(posts) : posts[i] = OnWriteOf(TRUE)
    BY <2>2 DEF FirstQueued
  <2> QED BY <2>1, <2>2
<1>4. ASSUME posts # <<>>, Head(posts).op = "on_write" PROVE FirstQueued(Tail(posts)) = 1
  BY <1>2, <1>4 DEF FirstQueued
<1>5. (\E i \in 1..Len(posts) : posts[i].op = "on_write") => queue # <<>> /\ writes = <<>>
  BY DEF Sound
<1> QED BY <1>3, <1>4, <1>5

(* A step of session s.                                                    *)
LEMMA KeepsOne ==
  ASSUME IInv, KeepsAll, NEW s \in Session, Keeps(s)', broadcast' = broadcast,
         \A u \in Session \ {s} : /\ strand'[u] = strand[u] /\ send_queue_'[u] = send_queue_[u]
                                  /\ received'[u] = received[u] /\ posted'[u] = posted[u]
  PROVE  KeepsAll'
<1>1. ASSUME NEW u \in Session, u # s PROVE Keeps(u)'
  BY <1>1 DEF KeepsAll, Keeps
<1> QED BY <1>1 DEF KeepsAll

LEMMA KeepsBroadcast == IInv /\ KeepsAll /\ Broadcast => KeepsAll'
<1> SUFFICES ASSUME IInv, KeepsAll, Broadcast, NEW s \in Session PROVE Keeps(s)'
  BY DEF KeepsAll
<1> DEFINE m == broadcast + 1
<1>1. broadcast \in Nat /\ m \in Message /\ broadcast' = m
  BY WebSocketAssumption DEF Broadcast, IInv, TypeOK, Message
<1>2. /\ strand'[s] = IF s \in Range(sessions_) THEN Append(strand[s], DoSendOf(m)) ELSE strand[s]
      /\ posted'[s] = IF s \in Range(sessions_) THEN Append(posted[s], m) ELSE posted[s]
      /\ send_queue_' = send_queue_ /\ received' = received
  BY DEF Broadcast, clientVars
<1>3. /\ strand[s] \in Seq(Handler) /\ send_queue_[s] \in Seq(Message)
      /\ received[s] \in Seq(Message) /\ posted[s] \in Seq(Message)
      /\ FirstQueued(strand[s]) \in {1, 2} /\ Keeps(s)
  BY Typed, FirstFacts DEF KeepsAll
<1> HIDE DEF m
<1>4. CASE s \in Range(sessions_)
  <2>1. DoSendOf(m) \in Handler /\ DoSendOf(m) # OnWriteOf(TRUE)
    BY <1>1, HandlerKinds, HandlerForms
  <2>2. FirstQueued(strand'[s]) = FirstQueued(strand[s])
    BY <1>2, <1>3, <1>4, <2>1, WaitsAppended
  <2>3. /\ Complete(FirstQueued(strand[s]), Append(strand[s], DoSendOf(m)), send_queue_[s],
                    received[s], Append(posted[s], m), m)
        /\ InOrder(FirstQueued(strand[s]), Append(strand[s], DoSendOf(m)), send_queue_[s], received[s])
    BY <1>1, <1>3, PostConserves DEF Keeps, m
  <2> QED BY <1>1, <1>2, <1>4, <2>2, <2>3 DEF Keeps
<1>5. CASE s \notin Range(sessions_)
  <2>1. Complete(FirstQueued(strand[s]), strand[s], send_queue_[s], received[s], posted[s], m)
    BY <1>1, <1>3, LaterConserves DEF Keeps, m
  <2> QED BY <1>1, <1>2, <1>3, <1>5, <2>1 DEF Keeps
<1> QED BY <1>4, <1>5

LEMMA KeepsDoSend ==
  ASSUME IInv, KeepsAll, NEW t \in Io, NEW s \in Session, DoSend(t, s)
  PROVE  KeepsAll'
<1> DEFINE h == Head(strand[s])
           m == h.arg
<1>1. strand[s] # <<>> /\ h.op = "do_send"
  BY DEF DoSend, Runs
<1>2. /\ strand' = [strand EXCEPT ![s] = Tail(strand[s])]
      /\ send_queue_' = [send_queue_ EXCEPT ![s] = Append(send_queue_[s], m)]
      /\ UNCHANGED <<broadcast, received, posted>>
  BY DEF DoSend, serverVars, clientVars
<1>3. /\ strand[s] \in Seq(Handler) /\ send_queue_[s] \in Seq(Message)
      /\ received[s] \in Seq(Message) /\ posted[s] \in Seq(Message)
      /\ FirstQueued(strand[s]) \in {1, 2} /\ Keeps(s) /\ broadcast \in Nat
      /\ FirstQueued(strand[s]) = 2 => send_queue_[s] # <<>>
  BY Typed, FirstFacts DEF KeepsAll, IInv, TypeOK
<1>4. h \in Handler
  BY <1>1, <1>3, HeadTailProperties
<1>5. m \in Message /\ h = DoSendOf(m)
  BY <1>1, <1>4, HandlerForms
<1>6. FirstQueued(Tail(strand[s])) = FirstQueued(strand[s])
  <2>1. h # OnWriteOf(TRUE)
    BY <1>5, HandlerForms
  <2> QED BY <1>1, <1>3, <2>1, WaitsTail
<1> HIDE DEF m, h
<1>7. /\ Complete(FirstQueued(strand[s]), Tail(strand[s]), Append(send_queue_[s], m), received[s],
                  posted[s], broadcast)
      /\ InOrder(FirstQueued(strand[s]), Tail(strand[s]), Append(send_queue_[s], m), received[s])
  <2>1. Head(strand[s]) = DoSendOf(m)
    BY <1>5 DEF h
  <2> QED BY <1>1, <1>3, <1>5, <2>1, DoSendConserves DEF Keeps
<1>8. /\ strand'[s] = Tail(strand[s]) /\ send_queue_'[s] = Append(send_queue_[s], m)
      /\ \A u \in Session \ {s} : strand'[u] = strand[u] /\ send_queue_'[u] = send_queue_[u]
  BY <1>2 DEF IInv, TypeOK
<1>9. Keeps(s)'
  BY <1>2, <1>6, <1>7, <1>8 DEF Keeps
<1> QED BY <1>2, <1>8, <1>9, KeepsOne

LEMMA KeepsWritten ==
  ASSUME IInv, KeepsAll, NEW s \in Session, Written(s)
  PROVE  KeepsAll'
<1>1. /\ strand[s] \in Seq(Handler) /\ send_queue_[s] \in Seq(Message)
      /\ received[s] \in Seq(Message) /\ posted[s] \in Seq(Message) /\ writing[s] \in Seq(Message)
      /\ Keeps(s) /\ Sound(strand[s], send_queue_[s], writing[s])
  BY Typed DEF KeepsAll
<1>2. writing[s] # <<>>
  BY DEF Written, WriteSucceeds, WriteFails
<1>3. FirstQueued(strand[s]) = 1 /\ send_queue_[s] # <<>> /\ Head(writing[s]) = send_queue_[s][1]
  <2>1. FirstQueued(strand[s]) = 1
    BY <1>1, <1>2, FirstFacts
  <2>2. send_queue_[s] # <<>> /\ writing[s][1] = send_queue_[s][1]
    BY <1>1, <1>2 DEF Sound
  <2>3. Head(writing[s]) = writing[s][1]
    BY <1>1, <1>2, HeadTailProperties
  <2> QED BY <2>1, <2>2, <2>3
<1>4. CASE WriteFails(s)
  <2>1. /\ strand' = [strand EXCEPT ![s] = Append(strand[s], OnWriteOf(FALSE))]
        /\ UNCHANGED <<broadcast, send_queue_, received, posted>>
    BY <1>4 DEF WriteFails, serverVars
  <2>2. strand'[s] = Append(strand[s], OnWriteOf(FALSE)) /\ \A u \in Session \ {s} : strand'[u] = strand[u]
    BY <2>1 DEF IInv, TypeOK
  <2>3. FirstQueued(strand'[s]) = 1
    <3>1. OnWriteOf(FALSE) \in Handler /\ OnWriteOf(FALSE) # OnWriteOf(TRUE)
      BY HandlerKinds, HandlerForms
    <3>2. ASSUME NEW h, h = OnWriteOf(FALSE) PROVE FirstQueued(Append(strand[s], h)) = 1
      BY <1>1, <1>3, <3>1, <3>2, WaitsAppended
    <3> QED BY <2>2, <3>2
  <2>4. /\ Complete(1, Append(strand[s], OnWriteOf(FALSE)), send_queue_[s], received[s], posted[s], broadcast)
        /\ InOrder(1, Append(strand[s], OnWriteOf(FALSE)), send_queue_[s], received[s])
    BY <1>1, <1>3, FailureConserves DEF Keeps
  <2>5. Keeps(s)'
    BY <2>1, <2>2, <2>3, <2>4 DEF Keeps
  <2> QED BY <2>1, <2>2, <2>5, KeepsOne
<1>5. CASE WriteSucceeds(s)
  <2>1. /\ strand' = [strand EXCEPT ![s] = Append(strand[s], OnWriteOf(TRUE))]
        /\ received' = [received EXCEPT ![s] = Append(received[s], send_queue_[s][1])]
        /\ UNCHANGED <<broadcast, send_queue_, posted>>
    BY <1>3, <1>5 DEF WriteSucceeds, serverVars
  <2>2. /\ strand'[s] = Append(strand[s], OnWriteOf(TRUE))
        /\ received'[s] = Append(received[s], send_queue_[s][1])
        /\ \A u \in Session \ {s} : strand'[u] = strand[u] /\ received'[u] = received[u]
    BY <2>1 DEF IInv, TypeOK
  <2>3. FirstQueued(strand'[s]) = 2
    BY <1>1, <2>2, WaitsAppended, HandlerKinds
  <2>4. /\ Complete(2, Append(strand[s], OnWriteOf(TRUE)), send_queue_[s],
                    Append(received[s], send_queue_[s][1]), posted[s], broadcast)
        /\ InOrder(2, Append(strand[s], OnWriteOf(TRUE)), send_queue_[s],
                   Append(received[s], send_queue_[s][1]))
    BY <1>1, <1>3, SuccessConserves DEF Keeps
  <2>5. Keeps(s)'
    BY <2>1, <2>2, <2>3, <2>4 DEF Keeps
  <2> QED BY <2>1, <2>2, <2>5, KeepsOne
<1> QED BY <1>4, <1>5 DEF Written

LEMMA KeepsOnWrite ==
  ASSUME IInv, KeepsAll, NEW t \in Io, NEW s \in Session, OnWrite(t, s)
  PROVE  KeepsAll'
<1> DEFINE kept == IF Head(strand[s]).arg THEN Tail(send_queue_[s]) ELSE send_queue_[s]
<1>1. strand[s] # <<>> /\ Head(strand[s]).op = "on_write"
  BY DEF OnWrite, Runs
<1>2. /\ strand' = [strand EXCEPT ![s] = Tail(strand[s])]
      /\ send_queue_' = [send_queue_ EXCEPT ![s] = kept]
      /\ UNCHANGED <<broadcast, received, posted>>
  BY DEF OnWrite, serverVars, clientVars
<1>3. /\ strand[s] \in Seq(Handler) /\ send_queue_[s] \in Seq(Message)
      /\ Keeps(s) /\ Sound(strand[s], send_queue_[s], writing[s])
  BY Typed DEF KeepsAll
<1>4. send_queue_[s] # <<>> /\ FirstQueued(Tail(strand[s])) = 1
  BY <1>1, <1>3, FirstFacts, TailOf DEF Sound
<1>5. /\ Complete(1, Tail(strand[s]), kept, received[s], posted[s], broadcast)
      /\ InOrder(1, Tail(strand[s]), kept, received[s])
  BY <1>1, <1>3, <1>4, OnWriteConserves DEF Keeps
<1> HIDE DEF kept
<1>6. /\ strand'[s] = Tail(strand[s]) /\ send_queue_'[s] = kept
      /\ \A u \in Session \ {s} : strand'[u] = strand[u] /\ send_queue_'[u] = send_queue_[u]
  BY <1>2 DEF IInv, TypeOK
<1>7. Keeps(s)'
  BY <1>2, <1>4, <1>5, <1>6 DEF Keeps
<1> QED BY <1>2, <1>6, <1>7, KeepsOne

(* Whatever handlers run in which order and whatever write fails, every    *)
(* message posted to a session was received, is queued or waits, in the    *)
(* order of the broadcasts: do_send and on_write lose none, send none      *)
(* twice and overtake none.                                                *)
THEOREM NothingLostOrReordered == Spec => []Conserved
<1>1. Init => KeepsAll
  <2> SUFFICES ASSUME Init, NEW s \in Session PROVE Keeps(s)
    BY DEF KeepsAll
  <2>1. strand[s] = <<>> /\ send_queue_[s] = <<>> /\ received[s] = <<>> /\ posted[s] = <<>>
    BY DEF Init
  <2>2. Len(<<>>) = 0 /\ 1..0 = {} /\ 2..0 = {}
    OBVIOUS
  <2> QED BY <2>1, <2>2 DEF Keeps, Complete, InOrder, Holds, Waits, FirstQueued
<1>2. IInv /\ KeepsAll /\ [Next]_vars => KeepsAll'
  <2> SUFFICES ASSUME IInv, KeepsAll, [Next]_vars PROVE KeepsAll'
    OBVIOUS
  <2>1. CASE UNCHANGED <<strand, send_queue_, received, posted, broadcast>>
    BY <2>1 DEF KeepsAll, Keeps
  <2>2. ASSUME NEW s \in Session, Accept(s) \/ OnRead(s) \/ Handle(s) \/ Written(s) PROVE KeepsAll'
    BY <2>1, <2>2, KeepsDoSend, KeepsOnWrite, KeepsWritten
       DEF Handle, Accept, OnRead, OnAccept, sessionVars, serverVars
  <2>3. CASE Stop \/ StopIo \/ \E t \in Io : IoThreadLost(t)
    BY <2>1, <2>3 DEF Stop, StopIo, IoThreadLost, serverVars, sessionVars, clientVars
  <2>4. CASE UNCHANGED vars
    BY <2>1, <2>4 DEF vars, serverVars, sessionVars, clientVars
  <2> QED BY <2>2, <2>3, <2>4, KeepsBroadcast DEF Next
<1>3. IInv /\ KeepsAll => Conserved
  <2> SUFFICES ASSUME IInv, KeepsAll, NEW s \in Session
               PROVE  LET done == \E i \in DOMAIN strand[s] : strand[s][i] = OnWriteOf(TRUE)
                          queued == IF done THEN Tail(send_queue_[s]) ELSE send_queue_[s]
                          DoSends == Pending(s, "do_send")
                          waiting == {strand[s][i].arg : i \in DoSends}
                      IN  /\ Range(posted[s]) = Range(received[s]) \cup Range(queued) \cup waiting
                          /\ Increasing(received[s]) /\ Increasing(queued)
                          /\ \A i, j \in DoSends : i < j => strand[s][i].arg < strand[s][j].arg
                          /\ Precede(Range(received[s]), Range(queued) \cup waiting)
                          /\ Precede(Range(queued), waiting)
    BY DEF Conserved
  <2> DEFINE done == \E i \in DOMAIN strand[s] : strand[s][i] = OnWriteOf(TRUE)
             queued == IF done THEN Tail(send_queue_[s]) ELSE send_queue_[s]
             DoSends == Pending(s, "do_send")
             waiting == {strand[s][i].arg : i \in DoSends}
             first == FirstQueued(strand[s])
             queue == send_queue_[s]
  <2>1. /\ strand[s] \in Seq(Handler) /\ queue \in Seq(Message)
        /\ received[s] \in Seq(Message) /\ posted[s] \in Seq(Message) /\ Keeps(s)
        /\ Sound(strand[s], queue, writing[s]) /\ DOMAIN strand[s] = 1..Len(strand[s])
        /\ DOMAIN received[s] = 1..Len(received[s]) /\ DOMAIN posted[s] = 1..Len(posted[s])
    BY Typed, LenProperties DEF KeepsAll
  <2>2. first = IF done THEN 2 ELSE 1
    BY <2>1 DEF FirstQueued
  <2>3. done => queue # <<>>
    BY <2>1, <2>2, FirstFacts
  <2>4. /\ queued \in Seq(Message) /\ DOMAIN queued = 1..Len(queued)
        /\ \A i \in 1..Len(queued) : /\ i + (first - 1) \in first..Len(queue)
                                     /\ i + (first - 1) \in 1..Len(queue)
                                     /\ queued[i] = queue[i + (first - 1)]
        /\ \A i \in first..Len(queue) : i - (first - 1) \in 1..Len(queued) /\ queued[i - (first - 1)] = queue[i]
    <3>1. CASE done
      <4>1. /\ queued \in Seq(Message) /\ Len(queue) \in Nat \ {0} /\ Len(queued) = Len(queue) - 1
            /\ \A i \in 1..Len(queued) : queued[i] = queue[i + 1]
        BY <2>1, <2>3, <3>1, HeadTailProperties, EmptySeq
      <4>2. first = 2
        BY <2>2, <3>1
      <4>3. DOMAIN queued = 1..Len(queued)
        BY <4>1, LenProperties
      <4> HIDE DEF queued, first, done, queue
      <4>4. \A i \in 2..Len(queue) : i - 1 \in 1..Len(queued) /\ (i - 1) + 1 = i
        BY <4>1
      <4> QED BY <4>1, <4>2, <4>3, <4>4
    <3>2. CASE ~done
      <4>1. queued = queue /\ Len(queue) \in Nat /\ first = 1 /\ DOMAIN queued = 1..Len(queued)
        BY <2>1, <2>2, <3>2, LenProperties
      <4> HIDE DEF queued, first, done, queue
      <4> QED BY <2>1, <4>1
    <3> QED BY <3>1, <3>2
  <2>5. \A i \in DoSends : /\ i \in 1..Len(strand[s]) /\ strand[s][i].arg \in Message
                           /\ strand[s][i] = DoSendOf(strand[s][i].arg)
    <3>1. \A i \in 1..Len(strand[s]) : strand[s][i] \in Handler
      BY <2>1, ElementOfSeq
    <3> QED BY <2>1, <3>1, HandlerForms DEF Pending
  <2>6. \A i \in 1..Len(strand[s]), m \in Message : strand[s][i] = DoSendOf(m) =>
          i \in DoSends /\ strand[s][i].arg = m
    BY <2>1 DEF Pending, DoSendOf
  <2>7. \A m \in Message : m \in waiting <=> Waits(strand[s], m)
    BY <2>5, <2>6 DEF Waits
  <2>8. /\ \A m : m \in Range(received[s]) <=> Holds(received[s], 1, m)
        /\ \A m : m \in Range(posted[s]) <=> Holds(posted[s], 1, m)
    BY <2>1 DEF Holds, Range
  <2>9. \A m : m \in Range(queued) <=> Holds(queue, first, m)
    <3> HIDE DEF queued, first, queue
    <3> QED BY <2>4 DEF Holds, Range
  <2>10. /\ Range(received[s]) \subseteq Message /\ Range(posted[s]) \subseteq Message
         /\ Range(queued) \subseteq Message /\ waiting \subseteq Message
    <3>1. /\ \A i \in 1..Len(received[s]) : received[s][i] \in Message
          /\ \A i \in 1..Len(posted[s]) : posted[s][i] \in Message
          /\ \A i \in 1..Len(queued) : queued[i] \in Message
      BY <2>1, <2>4, ElementOfSeq
    <3> HIDE DEF queued
    <3> QED BY <2>1, <2>4, <2>5, <3>1 DEF Range
  <2>11. Complete(first, strand[s], queue, received[s], posted[s], broadcast)
         /\ InOrder(first, strand[s], queue, received[s])
    BY <2>1 DEF Keeps
  <2> HIDE DEF queued, first, queue, done, waiting, DoSends
  <2>12. Range(posted[s]) = Range(received[s]) \cup Range(queued) \cup waiting
    BY <2>7, <2>8, <2>9, <2>10, <2>11 DEF Complete
  <2>13. Increasing(received[s])
    BY <2>1, <2>11 DEF Increasing, InOrder
  <2>14. Increasing(queued)
    <3> SUFFICES ASSUME NEW i \in 1..Len(queued), NEW j \in 1..Len(queued), i < j
                 PROVE  queued[i] < queued[j]
      BY <2>4 DEF Increasing
    <3>1. first \in {1, 2}
      BY <2>2
    <3>2. i + (first - 1) < j + (first - 1)
      BY <3>1
    <3>3. /\ i + (first - 1) \in 1..Len(queue) /\ queued[i] = queue[i + (first - 1)]
          /\ j + (first - 1) \in 1..Len(queue) /\ queued[j] = queue[j + (first - 1)]
      BY <2>4
    <3>4. queue[i + (first - 1)] < queue[j + (first - 1)]
      BY <2>11, <3>2, <3>3 DEF InOrder
    <3> QED BY <3>3, <3>4
  <2>15. \A i, j \in DoSends : i < j => strand[s][i].arg < strand[s][j].arg
    <3> SUFFICES ASSUME NEW i \in DoSends, NEW j \in DoSends, i < j
                 PROVE  strand[s][i].arg < strand[s][j].arg
      OBVIOUS
    <3> QED BY <2>5, <2>11 DEF InOrder
  <2>16. Precede(Range(received[s]), Range(queued) \cup waiting)
    <3> SUFFICES ASSUME NEW m \in Range(received[s]), NEW n \in Range(queued) \cup waiting PROVE m < n
      BY DEF Precede
    <3>1. PICK i \in 1..Len(received[s]) : m = received[s][i]
      BY <2>8 DEF Holds
    <3>2. CASE n \in Range(queued)
      <4>1. PICK j \in first..Len(queue) : n = queue[j]
        BY <2>9, <3>2 DEF Holds
      <4> QED BY <2>11, <3>1, <4>1 DEF InOrder
    <3>3. CASE n \in waiting
      <4>1. PICK k \in 1..Len(strand[s]) : strand[s][k] = DoSendOf(n)
        BY <2>7, <2>10, <3>3 DEF Waits
      <4> QED BY <2>10, <2>11, <3>1, <3>3, <4>1 DEF InOrder
    <3> QED BY <3>2, <3>3
  <2>17. Precede(Range(queued), waiting)
    <3> SUFFICES ASSUME NEW m \in Range(queued), NEW n \in waiting PROVE m < n
      BY DEF Precede
    <3>1. PICK i \in 1..Len(queue) : m = queue[i]
      <4>1. PICK i \in 1..Len(queued) : m = queued[i]
        BY <2>4 DEF Range
      <4> QED BY <2>4, <4>1
    <3>2. PICK k \in 1..Len(strand[s]) : strand[s][k] = DoSendOf(n)
      BY <2>7, <2>10 DEF Waits
    <3> QED BY <2>10, <2>11, <3>1, <3>2 DEF InOrder
  <2> QED BY <2>12, <2>13, <2>14, <2>15, <2>16, <2>17 DEF queued, done, waiting, DoSends
<1> QED BY <1>1, <1>2, <1>3, Invariance, PTL DEF Spec
=============================================================================
