-------------------------- MODULE Pipeline_proofs --------------------------
(***************************************************************************)
(* Proofs about the queues of the pipeline, for any frames, bounds and     *)
(* wiring, about the lock-free list that each of them is, for any          *)
(* producers, payloads and MaxPush, and about the server of the frames     *)
(* that enter it, for any connections, readings and reads.                 *)
(*                                                                         *)
(* First the list.  Its inductive invariant says what the nodes look like: *)
(* a next pointer, once set, leads to the next number; a node of the list  *)
(* that has none is the tail or has exactly one producer about to link     *)
(* behind it; nodes behind head_ are linked, so no pending link can reach  *)
(* a deleted node; and the consumer is always exactly one node from where  *)
(* it freed last.                                                          *)
(*                                                                         *)
(* Then the pipeline.  Its inductive invariant explains every message in   *)
(* a queue by the frames: queues keep the order of the frames, hold only   *)
(* what was accepted, and what a stage has pushed is what it popped, but   *)
(* for the message in process and those whose process threw.               *)
(*                                                                         *)
(* Last the frames of the sensors.  The inductive invariant has two parts. *)
(* A session has cut the words it read at its ends, each a frame's length  *)
(* from the one before, and holds the rest.  And the words on a connection *)
(* are the packets written, one behind another from positions that exist   *)
(* (rather than being computed); where the packets fit, the ends are these *)
(* positions, so that what is cut is what was written.                     *)
(***************************************************************************)
EXTENDS LockFreeQueue, Pipeline, Profinet, SequenceTheorems, TLAPS

ListOK ==
  /\ Len(pushed) = tail /\ head <= tail
  /\ \A n \in Node : next[n] # NullPtr => next[n] = n + 1 /\ n < tail
  /\ \A n \in Node : n < head => next[n] # NullPtr
  /\ \A n \in Node : head < n /\ n <= tail => value[n] = pushed[n]

LinksOK ==
  /\ \A p \in Producers : ppc[p] = "link" =>
       newNode[p] = oldTail[p] + 1 /\ newNode[p] <= tail /\ next[oldTail[p]] = NullPtr
  /\ \A p, q \in Producers :
       ppc[p] = "link" /\ ppc[q] = "link" /\ oldTail[p] = oldTail[q] => p = q
  /\ \A n \in Node : n < tail /\ next[n] = NullPtr =>
       \E p \in Producers : ppc[p] = "link" /\ oldTail[p] = n

ConsumerOK ==
  /\ \A n \in freed : n < head /\ (cpc \in {"move", "delete"} => n # oldHead)
  /\ cpc \in {"loadNext", "cas"} => oldHead = head
  /\ cpc = "cas" => nextOf = head + 1 /\ next[head] # NullPtr
  /\ cpc \in {"move", "delete"} => head = oldHead + 1
  /\ cpc = "move" => nextOf = head /\ value[head] = pushed[head]
  /\ Len(popped) = IF cpc = "move" THEN head - 1 ELSE head

QueueInv == QueueTypeOK /\ ListOK /\ LinksOK /\ ConsumerOK

(* The constructor's state satisfies the inductive invariant.              *)
LEMMA QueueInitInv == QueueInit => QueueInv
  BY QueueAssumption DEF QueueInit, QueueInv, QueueTypeOK, ListOK, LinksOK, ConsumerOK, Node

(* Every step of push and of try_pop keeps the types.                      *)
LEMMA QueueTypeStep == QueueInv /\ [QueueNext]_listVars => QueueTypeOK'
<1> SUFFICES ASSUME QueueInv, [QueueNext]_listVars PROVE QueueTypeOK'
  OBVIOUS
<1> USE QueueAssumption DEF QueueInv, QueueTypeOK, Node
<1>1. ASSUME NEW p \in Producers, NEW m \in Msg, Exchange(p, m) PROVE QueueTypeOK'
  BY <1>1 DEF Exchange, consVars
<1>2. ASSUME NEW p \in Producers, Link(p) PROVE QueueTypeOK'
  BY <1>2 DEF Link, consVars
<1>3. CASE LoadHead
  BY <1>3 DEF LoadHead, memory, prodVars
<1>4. CASE LoadNext
  BY <1>4 DEF LoadNext, memory, prodVars
<1>5. CASE CasTakes
  BY <1>5 DEF CasTakes, prodVars, ConsumerOK, ListOK
<1>6. CASE CasFails
  BY <1>6 DEF CasFails, memory, prodVars
<1>7. CASE MoveOut
  <2>1. nextOf = head /\ head # 0 /\ value[head] = pushed[head] /\ head \in 1..Len(pushed)
    BY <1>7 DEF MoveOut, ConsumerOK, ListOK
  <2> QED BY <1>7, <2>1 DEF MoveOut, prodVars
<1>8. CASE DeleteOld
  BY <1>8 DEF DeleteOld, prodVars
<1>9. CASE UNCHANGED listVars
  BY <1>9 DEF listVars, memory, prodVars, consVars
<1> QED BY <1>1, <1>2, <1>3, <1>4, <1>5, <1>6, <1>7, <1>8, <1>9 DEF QueueNext, TryPop

(* The shape of the list survives every step: links only ever go from n to *)
(* n + 1, and the consumer moves head_ only over a node that is linked.    *)
LEMMA ListStep == QueueInv /\ [QueueNext]_listVars => ListOK'
<1> SUFFICES ASSUME QueueInv, [QueueNext]_listVars PROVE ListOK'
  OBVIOUS
<1> USE QueueAssumption DEF QueueInv, QueueTypeOK, Node, ListOK
<1>1. ASSUME NEW p \in Producers, NEW m \in Msg, Exchange(p, m) PROVE ListOK'
  <2>1. Len(pushed') = tail' /\ head' = head /\ next' = next /\ tail' = tail + 1
    BY <1>1 DEF Exchange
  <2>2. ASSUME NEW n \in Node, head < n, n <= tail + 1 PROVE value'[n] = pushed'[n]
    <3>1. CASE n = tail + 1
      BY <1>1, <3>1 DEF Exchange
    <3>2. CASE n <= tail
      <4>1. n \in 1..Len(pushed) /\ value[n] = pushed[n]
        BY <2>2, <3>2
      <4>2. pushed'[n] = pushed[n]
        BY <1>1, <4>1 DEF Exchange
      <4> QED BY <1>1, <3>2, <4>1, <4>2 DEF Exchange
    <3> QED BY <2>2, <3>1, <3>2
  <2> QED BY <2>1, <2>2
<1>2. ASSUME NEW p \in Producers, Link(p) PROVE ListOK'
  BY <1>2 DEF Link, consVars, LinksOK
<1>3. CASE LoadHead
  BY <1>3 DEF LoadHead, memory, prodVars
<1>4. CASE LoadNext
  BY <1>4 DEF LoadNext, memory, prodVars
<1>5. CASE CasTakes
  BY <1>5 DEF CasTakes, prodVars, ConsumerOK
<1>6. CASE CasFails
  BY <1>6 DEF CasFails, memory, prodVars
<1>7. CASE MoveOut
  BY <1>7 DEF MoveOut, prodVars, ConsumerOK
<1>8. CASE DeleteOld
  BY <1>8 DEF DeleteOld, prodVars
<1>9. CASE UNCHANGED listVars
  BY <1>9 DEF listVars, memory, prodVars, consVars
<1> QED BY <1>1, <1>2, <1>3, <1>4, <1>5, <1>6, <1>7, <1>8, <1>9 DEF QueueNext, TryPop

(* A pending link keeps its node pair to itself, and a gap in the list is  *)
(* always somebody's pending link.                                         *)
LEMMA LinksStep == QueueInv /\ [QueueNext]_listVars => LinksOK'
<1> SUFFICES ASSUME QueueInv, [QueueNext]_listVars PROVE LinksOK'
  OBVIOUS
<1> USE QueueAssumption DEF QueueInv, QueueTypeOK, Node, LinksOK
<1>1. ASSUME NEW p \in Producers, NEW m \in Msg, Exchange(p, m) PROVE LinksOK'
  <2>1. next[tail] = NullPtr /\ tail \in Node
    BY <1>1 DEF Exchange, ListOK
  <2>2. \A q \in Producers \ {p} :
          ppc'[q] = ppc[q] /\ oldTail'[q] = oldTail[q] /\ newNode'[q] = newNode[q]
    BY <1>1 DEF Exchange
  <2>3. ppc'[p] = "link" /\ oldTail'[p] = tail /\ newNode'[p] = tail + 1
    BY <1>1 DEF Exchange
  <2>4. next' = next /\ tail' = tail + 1 /\ ppc[p] = "idle"
    BY <1>1 DEF Exchange
  <2>5. \A q \in Producers : ppc'[q] = "link" =>
          newNode'[q] = oldTail'[q] + 1 /\ newNode'[q] <= tail' /\ next'[oldTail'[q]] = NullPtr
    BY <2>1, <2>2, <2>3, <2>4
  <2>6. \A q \in Producers \ {p} : ppc[q] = "link" => oldTail[q] # tail
    OBVIOUS
  <2>7. \A q, r \in Producers :
          ppc'[q] = "link" /\ ppc'[r] = "link" /\ oldTail'[q] = oldTail'[r] => q = r
    BY SMTT(20), <2>2, <2>3, <2>6
  <2>8. ASSUME NEW n \in Node, n < tail', next'[n] = NullPtr
        PROVE  \E q \in Producers : ppc'[q] = "link" /\ oldTail'[q] = n
    <3>1. CASE n = tail
      BY <3>1, <2>3
    <3>2. CASE n < tail
      <4>1. PICK q \in Producers : ppc[q] = "link" /\ oldTail[q] = n
        BY <3>2, <2>4, <2>8
      <4> QED BY <4>1, <2>2, <2>4
    <3> QED BY <3>1, <3>2, <2>4, <2>8
  <2> QED BY <2>5, <2>7, <2>8
<1>2. ASSUME NEW p \in Producers, Link(p) PROVE LinksOK'
  <2>1. \A q \in Producers \ {p} : ppc'[q] = ppc[q]
    BY <1>2 DEF Link
  <2>2. ppc'[p] = "idle" /\ UNCHANGED <<oldTail, newNode, tail>>
    BY <1>2 DEF Link
  <2>3. \A n \in Node \ {oldTail[p]} : next'[n] = next[n]
    BY <1>2 DEF Link
  <2>4. next'[oldTail[p]] = newNode[p] /\ newNode[p] # NullPtr /\ ppc[p] = "link"
    BY <1>2 DEF Link
  <2>5. \A q \in Producers : ppc'[q] = "link" =>
          newNode'[q] = oldTail'[q] + 1 /\ newNode'[q] <= tail' /\ next'[oldTail'[q]] = NullPtr
    BY <2>1, <2>2, <2>3, <2>4
  <2>6. \A q, r \in Producers :
          ppc'[q] = "link" /\ ppc'[r] = "link" /\ oldTail'[q] = oldTail'[r] => q = r
    BY <2>1, <2>2
  <2>7. ASSUME NEW n \in Node, n < tail', next'[n] = NullPtr
        PROVE  \E q \in Producers : ppc'[q] = "link" /\ oldTail'[q] = n
    <3>1. PICK q \in Producers : ppc[q] = "link" /\ oldTail[q] = n
      BY <2>2, <2>3, <2>4, <2>7
    <3> QED BY <3>1, <2>1, <2>2, <2>4, <2>7
  <2> QED BY <2>5, <2>6, <2>7
<1>3. CASE TryPop
  BY <1>3 DEF TryPop, LoadHead, LoadNext, CasTakes, CasFails, MoveOut, DeleteOld, memory, prodVars
<1>4. CASE UNCHANGED listVars
  BY <1>4 DEF listVars, memory, prodVars, consVars
<1> QED BY <1>1, <1>2, <1>3, <1>4 DEF QueueNext

(* The consumer's local pointers keep their relation to head_ and to the   *)
(* freed nodes, whatever the producers do between its steps.               *)
LEMMA ConsumerStep == QueueInv /\ [QueueNext]_listVars => ConsumerOK'
<1> SUFFICES ASSUME QueueInv, [QueueNext]_listVars PROVE ConsumerOK'
  OBVIOUS
<1> USE QueueAssumption DEF QueueInv, QueueTypeOK, Node, ConsumerOK
<1>1. ASSUME NEW p \in Producers, NEW m \in Msg, Exchange(p, m) PROVE ConsumerOK'
  BY <1>1 DEF Exchange, consVars, ListOK
<1>2. ASSUME NEW p \in Producers, Link(p) PROVE ConsumerOK'
  BY <1>2 DEF Link, consVars, LinksOK
<1>3. CASE LoadHead
  BY <1>3 DEF LoadHead, memory, prodVars
<1>4. CASE LoadNext
  BY <1>4 DEF LoadNext, memory, prodVars, ListOK
<1>5. CASE CasTakes
  BY <1>5 DEF CasTakes, prodVars, ListOK
<1>6. CASE CasFails
  BY <1>6 DEF CasFails, memory, prodVars
<1>7. CASE MoveOut
  BY <1>7 DEF MoveOut, prodVars, ListOK
<1>8. CASE DeleteOld
  BY <1>8 DEF DeleteOld, prodVars
<1>9. CASE UNCHANGED listVars
  BY <1>9 DEF listVars, memory, prodVars, consVars
<1> QED BY <1>1, <1>2, <1>3, <1>4, <1>5, <1>6, <1>7, <1>8, <1>9 DEF QueueNext, TryPop

(* The inductive invariant holds in every reachable state.                 *)
LEMMA QueueInvariance == QueueSpec => []QueueInv
<1>1. QueueInv /\ [QueueNext]_listVars => QueueInv'
  BY QueueTypeStep, ListStep, LinksStep, ConsumerStep DEF QueueInv
<1> QED BY QueueInitInv, <1>1, PTL DEF QueueSpec
-----------------------------------------------------------------------------
(* The state of the queue and of the threads inside push and try_pop       *)
(* always has its type.                                                    *)
THEOREM QueueTypeCorrect == QueueSpec => []QueueTypeOK
<1>1. QueueInv => QueueTypeOK
  BY DEF QueueInv
<1> QED BY QueueInvariance, <1>1, PTL

(* push and try_pop never touch a deleted node, for any number of          *)
(* producers and of pushes.                                                *)
THEOREM MemorySafe == QueueSpec => []NoUseAfterFree
<1>1. QueueInv => NoUseAfterFree
  BY QueueAssumption
     DEF QueueInv, QueueTypeOK, Node, ListOK, LinksOK, ConsumerOK, NoUseAfterFree
<1> QED BY QueueInvariance, <1>1, PTL

(* A pushed message that try_pop cannot see yet is always behind the       *)
(* unfinished link of some producer.                                       *)
THEOREM HiddenOnlyWhileLinking == QueueSpec => []HiddenOnlyByPendingLink
<1>1. QueueInv => HiddenOnlyByPendingLink
  BY QueueAssumption DEF QueueInv, QueueTypeOK, Node, LinksOK, HiddenOnlyByPendingLink
<1> QED BY QueueInvariance, <1>1, PTL

(* The queue implements the abstract FIFO channel: every exchange is a     *)
(* Send, every MoveOut is the Recv of the oldest message still inside, and *)
(* every other step is a stutter.                                          *)
THEOREM QueueImplementsChannel == QueueSpec => ImplementsChannel
<1>1. QueueInit => Chan!ChanInit
  BY DEF QueueInit, Chan!ChanInit
<1>2. QueueInv /\ [QueueNext]_listVars => [Chan!ChanNext]_(Chan!chanVars)
  <2> SUFFICES ASSUME QueueInv, [QueueNext]_listVars PROVE [Chan!ChanNext]_(Chan!chanVars)
    OBVIOUS
  <2> USE DEF Chan!ChanNext, Chan!Send, Chan!Recv, Chan!chanVars
  <2>1. ASSUME NEW p \in Producers, NEW m \in Msg, Exchange(p, m)
        PROVE  Chan!Send(m)
    BY <2>1 DEF Exchange
  <2>2. CASE MoveOut
    <3>1. Len(popped) + 1 = head /\ Len(popped) < Len(pushed) /\ value[nextOf] = pushed[head]
      BY <2>2, QueueAssumption DEF MoveOut, QueueInv, QueueTypeOK, Node, ListOK, ConsumerOK
    <3> QED BY <2>2, <3>1 DEF MoveOut
  <2>3. ASSUME \/ \E p \in Producers : Link(p)
               \/ LoadHead \/ LoadNext \/ CasTakes \/ CasFails \/ DeleteOld
               \/ UNCHANGED listVars
        PROVE  UNCHANGED <<pushed, popped>>
    BY <2>3 DEF Link, LoadHead, LoadNext, CasTakes, CasFails, DeleteOld, listVars
  <2> QED BY <2>1, <2>2, <2>3 DEF QueueNext, TryPop
<1> QED BY <1>1, <1>2, QueueInvariance, PTL DEF QueueSpec, ImplementsChannel, Chan!ChanSpec
-----------------------------------------------------------------------------
(* The queues by what they carry, and the modules by what they do.         *)
LaserQueue == {"laser_in", "laser_q_alert", "laser_q_router", "crack_in", "crack_q_fatigue",
               "crack_q_dem"}
BehindAlert == LaserQueue \ {"laser_in", "laser_q_alert"}
CrackQueue == {"crack_in", "crack_q_fatigue", "crack_q_dem"}
ResultStage == {"FatiguePredictor", "DemSimulator"}
ForwardStage == {"LaserFanOut", "CrackRouter", "CrackFanOut"}

In(m) == sent[input_[m]]
Popped(m) == taken[input_[m]]
(* The message in process, or the last one that was.                       *)
Current(m) == In(m)[Popped(m)]
(* How many of the popped messages were offered to output k.               *)
Offered(m, k) == IF Len(todo[m]) > Len(outputs[m]) - k THEN Popped(m) - 1 ELSE Popped(m)
(* How many results of the j-th message stage m was given were pushed.     *)
ResultsOf(m, j) == IF j = Popped(m) THEN In(m)[j].cracks - Len(todo[m]) ELSE In(m)[j].cracks

(* Messages keep the order of the frames in every queue.                   *)
QueuesOK ==
  /\ \A q \in LaserQueue : sent[q] \in Seq(Laser) /\ Increasing(sent[q])
  /\ \A m \in ResultStage : sent[outputs[m][1]] \in Seq(Result)
  /\ \A q \in Queue : taken[q] <= Len(sent[q])

(* Without an entry to the laser branch nothing flows through it.          *)
QuietOK ==
  laser_out = NULL =>
    /\ \A q \in Queue \ {"vibration_q"} : sent[q] = <<>>
    /\ \A m \in Stage : todo[m] = <<>>

Genuine(x) == x.id \in 1..Len(Accepted) /\ Accepted[x.id] = x

(* Every message is one of the accepted frames, those behind the laser     *)
(* fan-out are on the alert branch too, and detections have cracks.        *)
GenuineOK ==
  /\ \A i \in DOMAIN Accepted : Accepted[i].id = i
  /\ \A q \in LaserQueue : \A i \in DOMAIN sent[q] : Genuine(sent[q][i])
  /\ \A q \in BehindAlert : \A i \in DOMAIN sent[q] :
       \E j \in DOMAIN sent["laser_q_alert"] : sent["laser_q_alert"][j] = sent[q][i]
  /\ \A q \in CrackQueue : \A i \in DOMAIN sent[q] :
       sent[q][i].crack_detected /\ sent[q][i].cracks > 0

FanOutTodo(m) ==
  \/ todo[m] = <<<<outputs[m][1], Current(m)>>, <<outputs[m][2], Current(m)>>>>
  \/ /\ todo[m] = <<<<outputs[m][2], Current(m)>>>>
     /\ Len(sent[outputs[m][1]]) > 0
     /\ sent[outputs[m][1]][Len(sent[outputs[m][1]])] = Current(m)

RouterTodo(m) ==
  /\ todo[m] = <<<<outputs[m][1], Current(m)>>>>
  /\ Current(m).crack_detected /\ Current(m).cracks > 0

ResultTodo(m) ==
  /\ Len(todo[m]) <= Current(m).cracks
  /\ \A i \in 1..Len(todo[m]) :
       todo[m][i] = <<outputs[m][1], [id |-> Current(m).id,
                                      crack |-> Current(m).cracks - Len(todo[m]) + i]>>

(* What a stage in process still has to push, all of it for the message it *)
(* popped last.                                                            *)
TodoOK(m) ==
  todo[m] # <<>> =>
    /\ input_[m] # NULL /\ Popped(m) > 0
    /\ Current(m).id \notin failed[m]
    /\ m \in FanOut => FanOutTodo(m)
    /\ m = "CrackRouter" => RouterTodo(m)
    /\ m \in ResultStage => ResultTodo(m)

FailedOK(m) ==
  \A n \in failed[m] : input_[m] # NULL /\ \E j \in 1..Popped(m) : In(m)[j].id = n

(* An output holds only messages that were popped and already offered.     *)
ForwardOK(m) ==
  \A k \in DOMAIN outputs[m] : outputs[m][k] # NULL =>
    \A i \in DOMAIN sent[outputs[m][k]] :
      input_[m] # NULL /\ \E j \in 1..Offered(m, k) : sent[outputs[m][k]][i] = In(m)[j]

(* The second branch of a fan-out lacks what failed, and what is between   *)
(* the two pushes right now.                                               *)
BranchOK(m) ==
  /\ \A i \in DOMAIN sent[outputs[m][2]] :
       /\ sent[outputs[m][2]][i].id \notin failed[m]
       /\ \E j \in DOMAIN sent[outputs[m][1]] : sent[outputs[m][1]][j] = sent[outputs[m][2]][i]
  /\ \A i \in DOMAIN sent[outputs[m][1]] :
       \/ sent[outputs[m][1]][i].id \in failed[m]
       \/ \E j \in DOMAIN sent[outputs[m][2]] : sent[outputs[m][2]][j] = sent[outputs[m][1]][i]
       \/ Len(todo[m]) = 1 /\ i = Len(sent[outputs[m][1]])

(* Results are in order, of popped messages, and complete up to the one in *)
(* process.                                                                *)
ResultsOK(m) ==
  LET results == sent[outputs[m][1]]
  IN  /\ \A i, j \in DOMAIN results : i < j => Before(results[i], results[j])
      /\ \A i \in DOMAIN results : \E j \in 1..Popped(m) :
           results[i].id = In(m)[j].id /\ results[i].crack \in 1..ResultsOf(m, j)
      /\ \A j \in 1..Popped(m) : In(m)[j].id \notin failed[m] =>
           \A c \in 1..ResultsOf(m, j) : \E i \in DOMAIN results :
             results[i] = [id |-> In(m)[j].id, crack |-> c]

StageOK(m) ==
  /\ TodoOK(m) /\ FailedOK(m)
  /\ m \in ForwardStage => ForwardOK(m)
  /\ m \in FanOut => BranchOK(m)
  /\ m \in ResultStage => ResultsOK(m)

FlowInv == TypeOK /\ QueuesOK /\ QuietOK /\ GenuineOK /\ \A m \in Stage : StageOK(m)

(* A step that neither moves a message of stage m nor changes what it has  *)
(* read so far.                                                            *)
Unmoved(m) ==
  /\ todo'[m] = todo[m] /\ failed'[m] = failed[m]
  /\ \A k \in DOMAIN outputs[m] :
       outputs[m][k] # NULL => sent'[outputs[m][k]] = sent[outputs[m][k]]
  /\ input_[m] # NULL =>
       /\ taken'[input_[m]] = taken[input_[m]]
       /\ \A j \in 1..taken[input_[m]] : sent'[input_[m]][j] = sent[input_[m]][j]
-----------------------------------------------------------------------------
(* What wire_pipeline connects: each queue has one stage that pushes to it *)
(* and one module that pops from it.                                       *)
LEMMA Wiring ==
  /\ Stage = ForwardStage \cup ResultStage /\ FanOut \subseteq ForwardStage
  /\ \A m \in FanOut : /\ outputs[m] \in [1..2 -> LaserQueue] /\ Len(outputs[m]) = 2
                       /\ outputs[m][1] # outputs[m][2]
  /\ /\ outputs["CrackRouter"] = <<Preset["CrackFanOut"]>>
     /\ input_["CrackRouter"] = "laser_q_router"
  /\ /\ outputs["LaserFanOut"] = <<"laser_q_alert", "laser_q_router">>
     /\ input_["LaserFanOut"] = Preset["LaserFanOut"]
  /\ /\ outputs["CrackFanOut"] = <<"crack_q_fatigue", "crack_q_dem">>
     /\ input_["CrackFanOut"] = Preset["CrackFanOut"]
  /\ outputs["FatiguePredictor"] = <<"prediction_q">> /\ outputs["DemSimulator"] = <<"dem_q">>
  /\ \A m \in ResultStage : Len(outputs[m]) = 1 /\ input_[m] \in CrackQueue
<1> USE PipelineAssumption
<1>1. Order = <<"LaserFanOut", "CrackRouter", "CrackFanOut", "FatiguePredictor",
                "DemSimulator", "AlertWs">>
  BY DEF Order
<1>2. Module = {"LaserFanOut", "CrackRouter", "CrackFanOut", "FatiguePredictor",
                "DemSimulator", "AlertWs"}
  <2>1. Len(Order) = 6
    BY <1>1
  <2>2. \A i \in 1..6 : i = 1 \/ i = 2 \/ i = 3 \/ i = 4 \/ i = 5 \/ i = 6
    OBVIOUS
  <2>3. /\ Order[1] = "LaserFanOut" /\ Order[2] = "CrackRouter" /\ Order[3] = "CrackFanOut"
        /\ Order[4] = "FatiguePredictor" /\ Order[5] = "DemSimulator" /\ Order[6] = "AlertWs"
    BY <1>1
  <2>4. 1 \in 1..6 /\ 2 \in 1..6 /\ 3 \in 1..6 /\ 4 \in 1..6 /\ 5 \in 1..6 /\ 6 \in 1..6
    OBVIOUS
  <2> HIDE DEF Order
  <2>5. Module = {Order[i] : i \in 1..6}
    BY <2>1 DEF Module
  <2> QED BY <2>2, <2>3, <2>4, <2>5
<1>3. Stage = ForwardStage \cup ResultStage
  BY <1>2 DEF Stage, ForwardStage, ResultStage
<1>4. FanOut \subseteq ForwardStage
  BY DEF FanOut, ForwardStage
<1>5. /\ outputs["LaserFanOut"] = <<"laser_q_alert", "laser_q_router">>
      /\ outputs["CrackRouter"] = <<Preset["CrackFanOut"]>>
      /\ outputs["CrackFanOut"] = <<"crack_q_fatigue", "crack_q_dem">>
      /\ outputs["FatiguePredictor"] = <<"prediction_q">> /\ outputs["DemSimulator"] = <<"dem_q">>
  BY <1>3 DEF outputs, ForwardStage, ResultStage
<1>6. /\ input_["LaserFanOut"] = Preset["LaserFanOut"] /\ input_["CrackFanOut"] = Preset["CrackFanOut"]
      /\ input_["CrackRouter"] = "laser_q_router"
      /\ input_["FatiguePredictor"] = "crack_q_fatigue" /\ input_["DemSimulator"] = "crack_q_dem"
  BY <1>3 DEF input_, ForwardStage, ResultStage, FanOut
<1>7. \A m \in FanOut : /\ outputs[m] \in [1..2 -> LaserQueue] /\ Len(outputs[m]) = 2
                        /\ outputs[m][1] # outputs[m][2]
  BY <1>5 DEF FanOut, LaserQueue
<1>8. \A m \in ResultStage : Len(outputs[m]) = 1 /\ input_[m] \in CrackQueue
  BY <1>5, <1>6 DEF ResultStage, CrackQueue
<1> QED BY <1>3, <1>4, <1>5, <1>6, <1>7, <1>8

(* The same, without the names: no two outputs are one queue, no two       *)
(* stages have one input, and no stage pushes to where frames come in.     *)
LEMMA OutputsDisjoint ==
  \A m, n \in Stage : \A k \in DOMAIN outputs[m], l \in DOMAIN outputs[n] :
    outputs[m][k] # NULL =>
      /\ outputs[m][k] \in Queue \ {"laser_in", "vibration_q"}
      /\ outputs[m][k] = outputs[n][l] => m = n /\ k = l
<1> USE PipelineAssumption, Wiring
<1> SUFFICES ASSUME NEW m \in Stage, NEW n \in Stage,
                    NEW k \in DOMAIN outputs[m], NEW l \in DOMAIN outputs[n],
                    outputs[m][k] # NULL
             PROVE  /\ outputs[m][k] \in Queue \ {"laser_in", "vibration_q"}
                    /\ outputs[m][k] = outputs[n][l] => m = n /\ k = l
  OBVIOUS
<1>1. \A s \in Stage : \A i \in DOMAIN outputs[s] :
        \/ s = "LaserFanOut" /\ i = 1 /\ outputs[s][i] = "laser_q_alert"
        \/ s = "LaserFanOut" /\ i = 2 /\ outputs[s][i] = "laser_q_router"
        \/ s = "CrackRouter" /\ i = 1 /\ outputs[s][i] \in {"crack_in", NULL}
        \/ s = "CrackFanOut" /\ i = 1 /\ outputs[s][i] = "crack_q_fatigue"
        \/ s = "CrackFanOut" /\ i = 2 /\ outputs[s][i] = "crack_q_dem"
        \/ s = "FatiguePredictor" /\ i = 1 /\ outputs[s][i] = "prediction_q"
        \/ s = "DemSimulator" /\ i = 1 /\ outputs[s][i] = "dem_q"
  BY DEF ForwardStage, ResultStage
<1> QED BY <1>1 DEF Queue

(* Inputs are queues of laser messages, none is polled by AlertWs, and no  *)
(* two modules share one.                                                  *)
LEMMA InputsDistinct ==
  \A m \in Stage :
    /\ input_[m] \in LaserQueue \cup {NULL}
    /\ input_[m] \notin {Polled[i] : i \in 1..Len(Polled)}
    /\ \A n \in Stage : input_[m] = input_[n] /\ input_[m] # NULL => m = n
<1> USE PipelineAssumption, Wiring
<1>1. input_["FatiguePredictor"] = "crack_q_fatigue" /\ input_["DemSimulator"] = "crack_q_dem"
  BY DEF input_, ResultStage, FanOut
<1>2. \A i \in 1..Len(Polled) : Polled[i] \in {"laser_q_alert", "vibration_q", "prediction_q", "dem_q"}
  BY DEF Polled
<1>3. \A m \in Stage :
        \/ m = "LaserFanOut" /\ input_[m] \in {"laser_in", NULL}
        \/ m = "CrackRouter" /\ input_[m] = "laser_q_router"
        \/ m = "CrackFanOut" /\ input_[m] \in {"crack_in", NULL}
        \/ m = "FatiguePredictor" /\ input_[m] = "crack_q_fatigue"
        \/ m = "DemSimulator" /\ input_[m] = "crack_q_dem"
  BY <1>1 DEF ForwardStage, ResultStage
<1>4. NULL \notin {"laser_q_alert", "vibration_q", "prediction_q", "dem_q"}
  BY DEF Queue
<1> QED BY <1>2, <1>3, <1>4 DEF LaserQueue

(* What Append does, whatever the type of the new element.                 *)
LEMMA Appended ==
  ASSUME NEW S, NEW s \in Seq(S), NEW x
  PROVE  /\ Len(s) \in Nat /\ DOMAIN s = 1..Len(s)
         /\ Len(Append(s, x)) = Len(s) + 1 /\ DOMAIN Append(s, x) = 1..(Len(s) + 1)
         /\ \A j \in 1..Len(s) : Append(s, x)[j] = s[j]
         /\ Append(s, x)[Len(s) + 1] = x
<1>1. s \in Seq(S \cup {x}) /\ x \in S \cup {x}
  OBVIOUS
<1> QED BY <1>1

(* Tuples of one and of two, for the pushes a fan-out has left.            *)
LEMMA ShortTuples ==
  \A a, b : /\ Tail(<<a, b>>) = <<b>> /\ Tail(<<a>>) = <<>>
            /\ \A s : Len(s) = 1 => s # <<a, b>>
            /\ \A s : Len(s) = 2 => s # <<a>>
OBVIOUS

(* The counters of a message stage read sensible values.                   *)
LEMMA Counters ==
  ASSUME TypeOK, QueuesOK, NEW m \in Stage, input_[m] # NULL
  PROVE  /\ input_[m] \in LaserQueue /\ input_[m] \in Queue
         /\ Popped(m) \in Nat /\ Popped(m) <= Len(In(m)) /\ In(m) \in Seq(Laser)
         /\ DOMAIN In(m) = 1..Len(In(m)) /\ Len(In(m)) \in Nat
         /\ \A j \in 1..Popped(m) : In(m)[j] \in Laser
         /\ \A i, j \in 1..Popped(m) : i < j => In(m)[i].id < In(m)[j].id
<1>1. input_[m] \in LaserQueue /\ input_[m] \in Queue
  BY InputsDistinct DEF LaserQueue, Queue
<1> QED BY <1>1 DEF TypeOK, QueuesOK, In, Popped, Increasing

(* The shape of the queues behind the outputs of a stage.                  *)
LEMMA Outputs ==
  ASSUME TypeOK, QueuesOK
  PROVE  /\ \A m \in ForwardStage : \A k \in DOMAIN outputs[m] : outputs[m][k] # NULL =>
              outputs[m][k] \in LaserQueue /\ sent[outputs[m][k]] \in Seq(Laser)
         /\ \A m \in Stage : \A k \in DOMAIN outputs[m] : outputs[m][k] # NULL =>
              sent[outputs[m][k]] \in Seq(Message)
         /\ \A m \in Stage : todo[m] \in Seq((Queue \cup {NULL}) \X Message)
<1>1. \A m \in ForwardStage : \A k \in DOMAIN outputs[m] : outputs[m][k] # NULL =>
         outputs[m][k] \in LaserQueue
  BY Wiring, PipelineAssumption DEF ForwardStage, LaserQueue
<1>2. \A m \in Stage : \A k \in DOMAIN outputs[m] : outputs[m][k] # NULL => outputs[m][k] \in Queue
  BY OutputsDisjoint
<1> QED BY <1>1, <1>2 DEF QueuesOK, TypeOK

(* What a step that does not move anything of a stage leaves true of it.   *)
LEMMA UnmovedOK ==
  ASSUME TypeOK, QueuesOK, NEW m \in Stage, StageOK(m), Unmoved(m)
  PROVE  StageOK(m)'
<1>1. todo'[m] = todo[m] /\ failed'[m] = failed[m]
  BY DEF Unmoved
<1>2. \A k \in DOMAIN outputs[m] :
        outputs[m][k] # NULL => sent'[outputs[m][k]] = sent[outputs[m][k]]
  BY DEF Unmoved
<1>3. input_[m] # NULL =>
        /\ Popped(m)' = Popped(m) /\ Popped(m) \in Nat
        /\ \A j \in 1..Popped(m) : In(m)'[j] = In(m)[j]
  BY Counters DEF Unmoved, In, Popped
<1>4. input_[m] # NULL /\ Popped(m) > 0 => Current(m)' = Current(m)
  BY <1>3 DEF Current
<1>5. \A k : input_[m] # NULL => Offered(m, k)' = Offered(m, k)
  BY <1>1, <1>3 DEF Offered
<1>6. \A j : input_[m] # NULL /\ j \in 1..Popped(m) => ResultsOf(m, j)' = ResultsOf(m, j)
  BY <1>1, <1>3 DEF ResultsOf
<1>7. m \in FanOut => 1 \in DOMAIN outputs[m] /\ 2 \in DOMAIN outputs[m]
                      /\ outputs[m][1] # NULL /\ outputs[m][2] # NULL
  BY Wiring, PipelineAssumption DEF FanOut, Queue
<1>8. m \in ResultStage => 1 \in DOMAIN outputs[m] /\ outputs[m][1] # NULL /\ input_[m] # NULL
  BY Wiring, PipelineAssumption DEF ResultStage, Queue, CrackQueue
<1>9. TodoOK(m)'
  <2> SUFFICES ASSUME todo[m] # <<>> PROVE TodoOK(m)'
    BY <1>1 DEF TodoOK
  <2>1. TodoOK(m)
    BY DEF StageOK
  <2>2. /\ input_[m] # NULL /\ Popped(m)' > 0 /\ Current(m)' = Current(m)
        /\ Current(m).id \notin failed'[m]
    BY <1>1, <1>3, <1>4, <2>1 DEF TodoOK
  <2>3. m \in FanOut /\ FanOutTodo(m) => FanOutTodo(m)'
    BY <1>1, <1>2, <1>7, <2>2 DEF FanOutTodo
  <2>4. RouterTodo(m) => RouterTodo(m)'
    BY <1>1, <2>2 DEF RouterTodo
  <2>5. ResultTodo(m) => ResultTodo(m)'
    BY <1>1, <2>2 DEF ResultTodo
  <2> QED BY <1>1, <2>1, <2>2, <2>3, <2>4, <2>5 DEF TodoOK
<1>10. FailedOK(m)'
  BY <1>1, <1>3 DEF StageOK, FailedOK
<1>11. m \in ForwardStage => ForwardOK(m)'
  <2> SUFFICES ASSUME m \in ForwardStage, NEW k \in DOMAIN outputs[m], outputs[m][k] # NULL,
                      NEW i \in DOMAIN sent'[outputs[m][k]]
               PROVE  input_[m] # NULL /\ \E j \in 1..Offered(m, k)' :
                        sent'[outputs[m][k]][i] = In(m)'[j]
    BY DEF ForwardOK
  <2>1. input_[m] # NULL /\ \E j \in 1..Offered(m, k) : sent[outputs[m][k]][i] = In(m)[j]
    BY <1>2 DEF StageOK, ForwardOK
  <2>2. PICK j \in 1..Offered(m, k) : sent[outputs[m][k]][i] = In(m)[j]
    BY <2>1
  <2>3. j \in 1..Popped(m)
    BY <2>1, <1>3 DEF Offered
  <2> QED BY <1>2, <1>3, <1>5, <2>1, <2>2, <2>3
<1>12. m \in FanOut => BranchOK(m)'
  BY <1>1, <1>2, <1>7 DEF StageOK, BranchOK
<1>13. m \in ResultStage => ResultsOK(m)'
  BY <1>1, <1>2, <1>3, <1>6, <1>8 DEF StageOK, ResultsOK
<1> QED BY <1>9, <1>10, <1>11, <1>12, <1>13 DEF StageOK

(* The next push of a stage: to its output k the message x, which for all  *)
(* but the result stages is the message in process itself.                 *)
NextPush(m, k, x) ==
  /\ Head(todo[m]) = <<outputs[m][k], x>>
  /\ m \in ForwardStage => /\ x = Current(m) /\ x \in Laser
                           /\ Len(todo[m]) = Len(outputs[m]) - k + 1
  /\ m \in ResultStage =>
       k = 1 /\ x = [id |-> Current(m).id, crack |-> Current(m).cracks - Len(todo[m]) + 1]

(* A stage in process has a next push: its output, and the message, which  *)
(* is the one popped last or a result of it.                               *)
LEMMA NextPushExists ==
  ASSUME FlowInv, NEW m \in Stage, todo[m] # <<>>
  PROVE  \E k \in DOMAIN outputs[m] : \E x : NextPush(m, k, x)
<1>1. TodoOK(m) /\ todo[m] \in Seq((Queue \cup {NULL}) \X Message)
  BY Outputs DEF FlowInv, StageOK
<1>2. Current(m) \in Laser
  BY <1>1, Counters DEF FlowInv, TodoOK, Current
<1>3. CASE m \in FanOut
  <2>1. FanOutTodo(m) /\ 1 \in DOMAIN outputs[m] /\ 2 \in DOMAIN outputs[m] /\ Len(outputs[m]) = 2
    BY <1>1, <1>3, Wiring DEF TodoOK
  <2>2. m \notin ResultStage
    BY <1>3 DEF FanOut, ResultStage
  <2>3. CASE todo[m] = <<<<outputs[m][1], Current(m)>>, <<outputs[m][2], Current(m)>>>>
    <3>1. NextPush(m, 1, Current(m))
      BY <1>2, <2>1, <2>2, <2>3 DEF NextPush
    <3> QED BY <2>1, <3>1
  <2>4. CASE todo[m] = <<<<outputs[m][2], Current(m)>>>>
    <3>1. NextPush(m, 2, Current(m))
      BY <1>2, <2>1, <2>2, <2>4 DEF NextPush
    <3> QED BY <2>1, <3>1
  <2> QED BY <2>1, <2>3, <2>4 DEF FanOutTodo
<1>4. CASE m = "CrackRouter"
  <2>1. RouterTodo(m) /\ Len(outputs[m]) = 1 /\ 1 \in DOMAIN outputs[m] /\ m \notin ResultStage
    BY <1>1, <1>4, Wiring DEF TodoOK, ResultStage
  <2>2. NextPush(m, 1, Current(m))
    BY <1>2, <2>1 DEF NextPush, RouterTodo
  <2> QED BY <2>1, <2>2
<1>5. CASE m \in ResultStage
  <2>1. ResultTodo(m) /\ Len(outputs[m]) = 1 /\ 1 \in DOMAIN outputs[m] /\ m \notin ForwardStage
    BY <1>1, <1>5, Wiring DEF TodoOK, ResultStage, ForwardStage
  <2>2. Len(todo[m]) > 0 /\ Head(todo[m]) = todo[m][1] /\ Len(todo[m]) \in Nat
    BY <1>1
  <2>3. NextPush(m, 1, [id |-> Current(m).id, crack |-> Current(m).cracks - Len(todo[m]) + 1])
    BY <1>5, <2>1, <2>2 DEF NextPush, ResultTodo
  <2> QED BY <2>1, <2>3
<1> QED BY <1>3, <1>4, <1>5, Wiring DEF ForwardStage, FanOut

(* A push leaves alone what every other stage has read and written.        *)
LEMMA PushMovesOnly ==
  ASSUME FlowInv, NEW m \in Stage, Push(m), NEW k \in DOMAIN outputs[m], NEW x, NextPush(m, k, x)
  PROVE  /\ \A q \in Queue : sent'[q] = IF q = outputs[m][k] THEN Append(sent[q], x) ELSE sent[q]
         /\ todo'[m] = Tail(todo[m]) /\ taken' = taken /\ failed' = failed
         /\ \A n \in Stage : input_[n] # NULL =>
              \A j \in 1..taken[input_[n]] : sent'[input_[n]][j] = sent[input_[n]][j]
         /\ \A n \in Stage \ {m} : Unmoved(n)
<1>1. \A q \in Queue : sent'[q] = IF q = outputs[m][k] THEN Append(sent[q], x) ELSE sent[q]
  BY DEF Push, NextPush
<1>2. todo'[m] = Tail(todo[m]) /\ taken' = taken /\ failed' = failed
  BY DEF Push, FlowInv, TypeOK
<1>3. ASSUME NEW n \in Stage, input_[n] # NULL, NEW j \in 1..taken[input_[n]]
      PROVE  sent'[input_[n]][j] = sent[input_[n]][j]
  <2>1. /\ input_[n] \in Queue
        /\ sent[input_[n]] \in Seq(Laser) /\ j \in 1..Len(sent[input_[n]])
    BY <1>3, Counters DEF FlowInv, Popped, In
  <2>2. Append(sent[input_[n]], x)[j] = sent[input_[n]][j]
    BY <2>1, Appended
  <2> QED BY <1>1, <2>1, <2>2
<1>4. ASSUME NEW n \in Stage \ {m} PROVE Unmoved(n)
  <2>1. todo'[n] = todo[n] /\ failed'[n] = failed[n]
    BY DEF Push, FlowInv, TypeOK
  <2>2. \A l \in DOMAIN outputs[n] :
          outputs[n][l] # NULL => sent'[outputs[n][l]] = sent[outputs[n][l]]
    BY <1>1, OutputsDisjoint
  <2> QED BY <1>2, <1>3, <2>1, <2>2 DEF Unmoved
<1> QED BY <1>1, <1>2, <1>3, <1>4

(* A push keeps what is true of the stage that makes it.                   *)
LEMMA PushKeepsStage ==
  ASSUME FlowInv, NEW m \in Stage, Push(m)
  PROVE  StageOK(m)'
<1>1. todo[m] # <<>> /\ TodoOK(m) /\ StageOK(m)
  BY DEF Push, FlowInv, StageOK
<1>2. PICK k \in DOMAIN outputs[m] : \E x : NextPush(m, k, x)
  BY <1>1, NextPushExists
<1>3. PICK x : NextPush(m, k, x)
  BY <1>2
<1>4. /\ \A q \in Queue : sent'[q] = IF q = outputs[m][k] THEN Append(sent[q], x) ELSE sent[q]
      /\ todo'[m] = Tail(todo[m]) /\ taken' = taken /\ failed' = failed
  BY <1>3, PushMovesOnly
<1>5. input_[m] # NULL /\ Popped(m) \in Nat /\ Popped(m) > 0 /\ Current(m).id \notin failed[m]
  BY <1>1, Counters DEF TodoOK, FlowInv
<1>6. Popped(m)' = Popped(m) /\ \A j \in 1..Popped(m) : In(m)'[j] = In(m)[j]
  BY <1>3, <1>4, <1>5, PushMovesOnly DEF In, Popped
<1>7. Current(m)' = Current(m) /\ Current(m) = In(m)[Popped(m)] /\ Current(m) \in Laser
  BY <1>5, <1>6, Counters DEF Current, FlowInv
<1>8. /\ Len(todo[m]) \in Nat /\ Len(todo[m]) > 0 /\ Len(todo'[m]) = Len(todo[m]) - 1
      /\ \A i \in 1..Len(todo'[m]) : todo'[m][i] = todo[m][i + 1]
      /\ Head(todo[m]) = todo[m][1]
  BY <1>1, <1>4, Outputs DEF FlowInv
<1>9. FailedOK(m)'
  BY <1>1, <1>4, <1>5, <1>6 DEF StageOK, FailedOK
<1>10. CASE m \in ForwardStage
  <2>1. /\ x = Current(m) /\ x \in Laser /\ Len(todo[m]) = Len(outputs[m]) - k + 1
        /\ m \notin ResultStage
    BY <1>3, <1>10 DEF NextPush, ForwardStage, ResultStage
  <2>2. ForwardOK(m)'
    <3> SUFFICES ASSUME NEW l \in DOMAIN outputs[m], outputs[m][l] # NULL,
                        NEW i \in DOMAIN sent'[outputs[m][l]]
                 PROVE  \E j \in 1..Offered(m, l)' : sent'[outputs[m][l]][i] = In(m)'[j]
      BY <1>5 DEF ForwardOK
    <3> DEFINE o == outputs[m][l]
    <3>1. o \in Queue /\ sent[o] \in Seq(Laser)
      BY <1>10, OutputsDisjoint, Outputs DEF FlowInv
    <3>2. Len(outputs[m]) \in Nat /\ DOMAIN outputs[m] = 1..Len(outputs[m])
      BY <1>10, Wiring DEF ForwardStage, FanOut
    <3>3. /\ Offered(m, l) \in Nat /\ Offered(m, l)' \in Nat
          /\ Offered(m, l) <= Offered(m, l)' /\ Offered(m, l)' <= Popped(m)
      BY <1>5, <1>6, <1>8, <3>2 DEF Offered
    <3>4. ASSUME i \in DOMAIN sent[o], sent'[o][i] = sent[o][i]
          PROVE  \E j \in 1..Offered(m, l)' : sent'[o][i] = In(m)'[j]
      <4>1. PICK j \in 1..Offered(m, l) : sent[o][i] = In(m)[j]
        BY <1>1, <1>10, <3>4 DEF StageOK, ForwardOK
      <4>2. j \in 1..Offered(m, l)' /\ j \in 1..Popped(m)
        BY <1>5, <3>3
      <4> QED BY <1>6, <3>4, <4>1, <4>2
    <3>5. CASE l = k
      <4>1. sent'[o] = Append(sent[o], x)
        BY <1>4, <3>1, <3>5
      <4>2. Offered(m, l)' = Popped(m)
        BY <1>6, <1>8, <2>1, <3>2, <3>5 DEF Offered
      <4>3. CASE i \in 1..Len(sent[o])
        BY <3>1, <3>4, <4>1, <4>3, Appended
      <4>4. CASE i = Len(sent[o]) + 1
        <5>1. sent'[o][i] = x
          BY <3>1, <4>1, <4>4, Appended
        <5> QED BY <1>5, <1>6, <1>7, <2>1, <4>2, <5>1
      <4> QED BY <3>1, <4>1, <4>3, <4>4, Appended
    <3>6. CASE l # k
      <4>1. sent'[o] = sent[o]
        BY <1>4, <3>1, <3>6, OutputsDisjoint
      <4> QED BY <3>4, <4>1
    <3> QED BY <3>5, <3>6
  <2>3. CASE m = "CrackRouter"
    <3>1. Len(outputs[m]) = 1 /\ k = 1 /\ m \notin FanOut
      BY <2>3, Wiring DEF FanOut
    <3>2. todo'[m] = <<>>
      <4>1. todo[m] = <<<<outputs[m][1], Current(m)>>>>
        BY <1>1, <2>3 DEF TodoOK, RouterTodo
      <4> QED BY <1>4, <4>1, ShortTuples
    <3> QED BY <1>9, <2>1, <2>2, <3>1, <3>2 DEF StageOK, TodoOK
  <2>4. CASE m \in FanOut
    <3> DEFINE first == sent[outputs[m][1]]
               second == sent[outputs[m][2]]
    <3>1. /\ outputs[m][1] \in Queue /\ outputs[m][2] \in Queue /\ outputs[m][1] # outputs[m][2]
          /\ Len(outputs[m]) = 2 /\ k \in {1, 2} /\ m # "CrackRouter"
          /\ first \in Seq(Laser) /\ second \in Seq(Laser)
      BY <2>4, Wiring DEF LaserQueue, Queue, FanOut, FlowInv, QueuesOK
    <3>2. BranchOK(m) /\ FanOutTodo(m)
      BY <1>1, <2>4 DEF StageOK, TodoOK
    <3>3. CASE k = 1
      <4>1. first' = Append(first, x) /\ second' = second /\ Len(todo[m]) = 2
        <5>1. sent'[outputs[m][1]] = Append(sent[outputs[m][1]], x)
          BY <1>4, <3>1, <3>3
        <5>2. sent'[outputs[m][2]] = sent[outputs[m][2]]
          BY <1>4, <3>1, <3>3
        <5>3. Len(todo[m]) = 2
          BY <2>1, <3>1, <3>3
        <5> QED BY <5>1, <5>2, <5>3
      <4>2. /\ DOMAIN first = 1..Len(first) /\ Len(first) \in Nat
            /\ Len(first') = Len(first) + 1 /\ DOMAIN first' = 1..(Len(first) + 1)
            /\ \A j \in 1..Len(first) : first'[j] = first[j]
            /\ first'[Len(first) + 1] = x
        BY <3>1, <4>1, Appended
      <4>3. todo'[m] = <<<<outputs[m][2], x>>>>
        <5>1. todo[m] = <<<<outputs[m][1], x>>, <<outputs[m][2], x>>>>
          <6>1. todo[m] # <<<<outputs[m][2], Current(m)>>>>
            BY <4>1, ShortTuples
          <6> QED BY <2>1, <3>2, <6>1 DEF FanOutTodo
        <5> QED BY <1>4, <5>1, ShortTuples
      <4>4. FanOutTodo(m)'
        BY <1>7, <2>1, <4>2, <4>3 DEF FanOutTodo
      <4>5. TodoOK(m)'
        BY <1>4, <1>5, <1>6, <1>7, <2>1, <3>1, <4>4 DEF TodoOK
      <4>6. ASSUME NEW i \in DOMAIN second'
            PROVE  second'[i].id \notin failed'[m] /\ \E j \in DOMAIN first' : first'[j] = second'[i]
        <5>1. second[i].id \notin failed[m] /\ \E j \in DOMAIN first : first[j] = second[i]
          BY <3>2, <4>1 DEF BranchOK
        <5> QED BY <1>4, <4>1, <4>2, <5>1
      <4>7. ASSUME NEW i \in DOMAIN first'
            PROVE  \/ first'[i].id \in failed'[m]
                   \/ \E j \in DOMAIN second' : second'[j] = first'[i]
                   \/ Len(todo'[m]) = 1 /\ i = Len(first')
        <5>1. CASE i \in DOMAIN first
          <6>1. first[i].id \in failed[m] \/ \E j \in DOMAIN second : second[j] = first[i]
            BY <3>2, <4>1, <5>1 DEF BranchOK
          <6> QED BY <1>4, <4>1, <4>2, <5>1, <6>1
        <5>2. CASE i = Len(first) + 1
          BY <4>2, <4>3, <5>2
        <5>3. i \in DOMAIN first \/ i = Len(first) + 1
          BY <4>2
        <5> QED BY <5>1, <5>2, <5>3
      <4>8. BranchOK(m)'
        BY <4>6, <4>7 DEF BranchOK
      <4> QED BY <1>9, <2>1, <2>2, <4>5, <4>8 DEF StageOK
    <3>4. CASE k = 2
      <4>1. first' = first /\ second' = Append(second, x) /\ Len(todo[m]) = 1
        <5>1. sent'[outputs[m][1]] = sent[outputs[m][1]]
          BY <1>4, <3>1, <3>4
        <5>2. sent'[outputs[m][2]] = Append(sent[outputs[m][2]], x)
          BY <1>4, <3>1, <3>4
        <5>3. Len(todo[m]) = 1
          BY <2>1, <3>1, <3>4
        <5> QED BY <5>1, <5>2, <5>3
      <4>2. /\ DOMAIN second = 1..Len(second) /\ Len(second) \in Nat
            /\ DOMAIN second' = 1..(Len(second) + 1)
            /\ \A j \in 1..Len(second) : second'[j] = second[j]
            /\ second'[Len(second) + 1] = x
        BY <3>1, <4>1, Appended
      <4>3. Len(first) \in DOMAIN first /\ first[Len(first)] = x
        BY <2>1, <3>1, <3>2, <4>1 DEF FanOutTodo
      <4>4. todo'[m] = <<>>
        <5>1. todo[m] = <<<<outputs[m][2], x>>>>
          <6>1. todo[m] # <<<<outputs[m][1], Current(m)>>, <<outputs[m][2], Current(m)>>>>
            BY <4>1, ShortTuples
          <6> QED BY <2>1, <3>2, <6>1 DEF FanOutTodo
        <5> QED BY <1>4, <5>1, ShortTuples
      <4>5. TodoOK(m)'
        BY <4>4 DEF TodoOK
      <4>6. ASSUME NEW i \in DOMAIN second'
            PROVE  second'[i].id \notin failed'[m] /\ \E j \in DOMAIN first' : first'[j] = second'[i]
        <5>1. CASE i \in DOMAIN second
          <6>1. second[i].id \notin failed[m] /\ \E j \in DOMAIN first : first[j] = second[i]
            BY <3>2, <5>1 DEF BranchOK
          <6> QED BY <1>4, <4>1, <4>2, <5>1, <6>1
        <5>2. CASE i = Len(second) + 1
          BY <1>4, <1>5, <2>1, <4>1, <4>2, <4>3, <5>2
        <5> QED BY SMTT(20), <4>2, <5>1, <5>2
      <4>7. ASSUME NEW i \in DOMAIN first'
            PROVE  first'[i].id \in failed'[m] \/ \E j \in DOMAIN second' : second'[j] = first'[i]
        <5>1. \/ first[i].id \in failed[m]
              \/ \E j \in DOMAIN second : second[j] = first[i]
              \/ i = Len(first)
          BY <3>2, <4>1 DEF BranchOK
        <5>2. first'[i] = first[i] /\ failed'[m] = failed[m]
          BY <1>4, <4>1
        <5>3. ASSUME NEW j \in DOMAIN second, second[j] = first[i]
              PROVE  \E l \in DOMAIN second' : second'[l] = first'[i]
          BY <4>2, <5>2, <5>3
        <5>4. ASSUME i = Len(first)
              PROVE  \E l \in DOMAIN second' : second'[l] = first'[i]
          <6>1. Len(second) + 1 \in DOMAIN second' /\ second'[Len(second) + 1] = x
            BY <4>2
          <6>2. first'[i] = x
            BY <4>3, <5>2, <5>4
          <6> QED BY <6>1, <6>2
        <5> QED BY <5>1, <5>2, <5>3, <5>4
      <4>8. BranchOK(m)'
        BY <4>6, <4>7 DEF BranchOK
      <4> QED BY <1>9, <2>1, <2>2, <4>5, <4>8 DEF StageOK
    <3> QED BY <3>1, <3>3, <3>4
  <2> QED BY <1>10, <2>3, <2>4 DEF ForwardStage, FanOut
<1>11. CASE m \in ResultStage
  <2> DEFINE results == sent[outputs[m][1]]
             c == Current(m).cracks - Len(todo[m]) + 1
  <2>1. /\ outputs[m][1] \in Queue /\ Len(outputs[m]) = 1 /\ results \in Seq(Result)
        /\ m \notin ForwardStage /\ m \notin FanOut /\ m # "CrackRouter"
    BY <1>11, Wiring DEF FanOut, ForwardStage, ResultStage, Queue, FlowInv, QueuesOK
  <2>2. k = 1 /\ x = [id |-> Current(m).id, crack |-> c]
    BY <1>3, <1>11 DEF NextPush
  <2>3. ResultTodo(m) /\ ResultsOK(m)
    BY <1>1, <1>11 DEF TodoOK, StageOK
  <2>4. Current(m).cracks \in Nat /\ c \in Nat /\ c > 0 /\ c <= Current(m).cracks
    BY <1>7, <1>8, <2>3, PipelineAssumption DEF ResultTodo, Laser
  <2>5. ResultTodo(m)'
    <3>1. Len(todo'[m]) <= Current(m).cracks
      BY <1>8, <2>3, <2>4 DEF ResultTodo
    <3>2. ASSUME NEW i \in 1..Len(todo'[m])
          PROVE  todo'[m][i] = <<outputs[m][1], [id |-> Current(m).id,
                                 crack |-> Current(m).cracks - Len(todo'[m]) + i]>>
      <4>1. i + 1 \in 1..Len(todo[m])
        BY <1>8
      <4>2. todo[m][i + 1] = <<outputs[m][1], [id |-> Current(m).id,
                              crack |-> Current(m).cracks - Len(todo[m]) + (i + 1)]>>
        BY <2>3, <4>1 DEF ResultTodo
      <4>3. Current(m).cracks - Len(todo[m]) + (i + 1) = Current(m).cracks - Len(todo'[m]) + i
        <5>1. \A a, b, e \in Nat : a - b + (e + 1) = a - (b - 1) + e
          OBVIOUS
        <5>2. i \in Nat /\ Len(todo'[m]) = Len(todo[m]) - 1 /\ Len(todo[m]) \in Nat
          BY <1>8
        <5>3. Current(m).cracks \in Nat
          BY <2>4
        <5> QED BY <5>1, <5>2, <5>3
      <4> QED BY <1>8, <4>2, <4>3
    <3> QED BY <1>7, <3>1, <3>2 DEF ResultTodo
  <2>6. TodoOK(m)'
    BY <1>4, <1>5, <1>6, <1>7, <2>1, <2>5 DEF TodoOK
  <2>7. results' = Append(results, x)
    BY <1>4, <2>1, <2>2
  <2>8. /\ DOMAIN results = 1..Len(results) /\ Len(results) \in Nat
        /\ DOMAIN results' = 1..(Len(results) + 1)
        /\ \A j \in 1..Len(results) : results'[j] = results[j]
        /\ results'[Len(results) + 1] = x
    BY <2>1, <2>7, Appended
  <2>9. ASSUME NEW j \in 1..Popped(m)
        PROVE  /\ j # Popped(m) => ResultsOf(m, j)' = ResultsOf(m, j)
               /\ j = Popped(m) => ResultsOf(m, j) = c - 1 /\ ResultsOf(m, j)' = c
    BY SMTT(20), <1>5, <1>6, <1>7, <1>8, <2>4 DEF ResultsOf
  <2>10. ASSUME NEW i \in DOMAIN results PROVE Before(results[i], x)
    <3>1. PICK j \in 1..Popped(m) :
            results[i].id = In(m)[j].id /\ results[i].crack \in 1..ResultsOf(m, j)
      BY <2>3 DEF ResultsOK
    <3>2. CASE j = Popped(m)
      BY <1>7, <2>2, <2>4, <2>9, <3>1, <3>2 DEF Before
    <3>3. CASE j < Popped(m)
      <4>1. In(m)[j].id < In(m)[Popped(m)].id
        BY <1>5, <3>3, Counters DEF FlowInv
      <4> QED BY <1>7, <2>2, <3>1, <4>1 DEF Before
    <3> QED BY <1>5, <3>2, <3>3
  <2>11. \A i, j \in DOMAIN results' : i < j => Before(results'[i], results'[j])
    <3> SUFFICES ASSUME NEW i \in DOMAIN results', NEW j \in DOMAIN results', i < j
                 PROVE  Before(results'[i], results'[j])
      OBVIOUS
    <3>1. CASE j \in DOMAIN results
      <4>1. i \in DOMAIN results
        BY <2>8, <3>1
      <4>2. Before(results[i], results[j])
        BY <2>3, <3>1, <4>1 DEF ResultsOK
      <4> QED BY <2>8, <3>1, <4>1, <4>2
    <3>2. CASE j = Len(results) + 1
      <4>1. i \in DOMAIN results
        BY <2>8, <3>2
      <4> QED BY <2>8, <2>10, <3>2, <4>1
    <3> QED BY <2>8, <3>1, <3>2
  <2>12. ASSUME NEW i \in DOMAIN results'
         PROVE  \E j \in 1..Popped(m)' :
                  results'[i].id = In(m)'[j].id /\ results'[i].crack \in 1..ResultsOf(m, j)'
    <3>1. CASE i \in DOMAIN results
      <4>1. PICK j \in 1..Popped(m) :
              results[i].id = In(m)[j].id /\ results[i].crack \in 1..ResultsOf(m, j)
        BY <2>3, <3>1 DEF ResultsOK
      <4>2. results[i].crack \in 1..ResultsOf(m, j)'
        <5>1. CASE j = Popped(m)
          <6>1. ResultsOf(m, j) = c - 1 /\ ResultsOf(m, j)' = c
            BY <2>9, <4>1, <5>1
          <6> HIDE DEF c
          <6> QED BY <2>4, <4>1, <6>1
        <5>2. CASE j # Popped(m)
          BY <2>9, <4>1, <5>2
        <5> QED BY <5>1, <5>2
      <4> QED BY <1>6, <2>8, <3>1, <4>1, <4>2
    <3>2. CASE i = Len(results) + 1
      <4>1. PICK p \in 1..Popped(m) : p = Popped(m)
        BY <1>5
      <4>2. results'[i].id = In(m)'[p].id /\ results'[i].crack = c
        BY <1>5, <1>6, <1>7, <2>2, <2>8, <3>2, <4>1
      <4>3. ResultsOf(m, p)' = c /\ p \in 1..Popped(m)'
        BY <1>6, <2>9, <4>1
      <4> HIDE DEF c
      <4> QED BY <2>4, <4>2, <4>3
    <3> QED BY <2>8, <3>1, <3>2
  <2>13. ASSUME NEW j \in 1..Popped(m)', In(m)'[j].id \notin failed'[m],
                NEW d \in 1..ResultsOf(m, j)'
         PROVE  \E i \in DOMAIN results' : results'[i] = [id |-> In(m)'[j].id, crack |-> d]
    <3>1. CASE d \in 1..ResultsOf(m, j)
      <4>1. PICK i \in DOMAIN results : results[i] = [id |-> In(m)[j].id, crack |-> d]
        BY <1>4, <1>6, <2>3, <2>13, <3>1 DEF ResultsOK
      <4> QED BY <1>6, <2>8, <4>1
    <3>2. CASE j = Popped(m) /\ d = c
      BY <1>5, <1>6, <1>7, <2>2, <2>8, <3>2
    <3>3. j \in 1..Popped(m)
      BY <1>6
    <3>4. CASE j = Popped(m)
      <4>1. ResultsOf(m, j) = c - 1 /\ ResultsOf(m, j)' = c
        BY <2>9, <3>3, <3>4
      <4> HIDE DEF c
      <4>2. d \in 1..c
        BY <2>13, <4>1
      <4>3. d = c \/ d \in 1..(c - 1)
        BY <2>4, <4>2
      <4> QED BY <3>1, <3>2, <3>4, <4>1, <4>3
    <3>5. CASE j # Popped(m)
      BY <2>9, <2>13, <3>1, <3>3, <3>5
    <3> QED BY <3>4, <3>5
  <2>14. ResultsOK(m)'
    BY <2>11, <2>12, <2>13 DEF ResultsOK
  <2> QED BY <1>9, <2>1, <2>6, <2>14 DEF StageOK
<1> QED BY <1>10, <1>11, Wiring

(* The next message starts from nothing: no result of it, no failure.      *)
LEMMA PopKeepsStage ==
  ASSUME FlowInv, NEW m \in Stage, Pop(m)
  PROVE  StageOK(m)'
<1> DEFINE p == taken[input_[m]]
           x == In(m)[p + 1]
<1>1. todo[m] = <<>> /\ input_[m] # NULL /\ StageOK(m) /\ p < Len(In(m))
  BY DEF Pop, FlowInv, Waiting, In
<1>2. /\ sent' = sent /\ failed' = failed /\ taken'[input_[m]] = p + 1
      /\ todo'[m] = Pushes(m, x)
  BY <1>1, Counters DEF Pop, FlowInv, TypeOK, Oldest, In
<1>3. /\ p \in Nat /\ p + 1 \in 1..Len(In(m)) /\ x \in Laser /\ In(m)' = In(m)
      /\ \A j \in 1..p : In(m)[j].id < x.id
      /\ Popped(m) = p /\ Popped(m)' = p + 1 /\ Current(m)' = x
  <2>1. /\ In(m) \in Seq(Laser) /\ Increasing(In(m)) /\ p \in Nat /\ Len(In(m)) \in Nat
        /\ DOMAIN In(m) = 1..Len(In(m))
    BY <1>1, Counters DEF FlowInv, QueuesOK, In, Popped
  <2> QED BY <1>1, <1>2, <2>1 DEF Increasing, In, Popped, Current
<1>4. /\ x.cracks \in Nat /\ x.id \in 1..MaxLaser
  BY <1>3, PipelineAssumption DEF Laser
<1>5. x.id \notin failed[m]
  BY <1>1, <1>3, <1>4 DEF StageOK, FailedOK, Laser
<1>6. FailedOK(m)'
  BY <1>1, <1>2, <1>3 DEF StageOK, FailedOK
<1>7. CASE m \in ForwardStage
  <2>1. ForwardOK(m)'
    <3> SUFFICES ASSUME NEW l \in DOMAIN outputs[m], outputs[m][l] # NULL,
                        NEW i \in DOMAIN sent[outputs[m][l]]
                 PROVE  \E j \in 1..Offered(m, l)' : sent[outputs[m][l]][i] = In(m)[j]
      BY <1>1, <1>2, <1>3 DEF ForwardOK
    <3>1. PICK j \in 1..Offered(m, l) : sent[outputs[m][l]][i] = In(m)[j]
      BY <1>1, <1>7 DEF StageOK, ForwardOK
    <3>2. j \in 1..p
      BY <1>3, <3>1 DEF Offered
    <3>3. Offered(m, l)' \in {p, p + 1}
      BY <1>3 DEF Offered
    <3> QED BY <1>3, <3>1, <3>2, <3>3
  <2>2. CASE m \in FanOut
    <3>1. todo'[m] = <<<<outputs[m][1], x>>, <<outputs[m][2], x>>>>
      <4>1. DOMAIN outputs[m] = 1..2
        BY <2>2, Wiring
      <4>2. todo'[m] = [i \in 1..2 |-> <<outputs[m][i], x>>]
        <5>1. Pushes(m, x) = Copies(m, x)
          BY <2>2 DEF Pushes, FanOut
        <5> QED BY <1>2, <4>1, <5>1 DEF Copies
      <4> QED BY <4>2
    <3>2. TodoOK(m)'
      <4>1. FanOutTodo(m)'
        BY <1>3, <3>1 DEF FanOutTodo
      <4>2. m # "CrackRouter" /\ m \notin ResultStage
        BY <2>2 DEF FanOut, ResultStage
      <4> QED BY <1>1, <1>2, <1>3, <1>5, <4>1, <4>2 DEF TodoOK
    <3>3. BranchOK(m)'
      <4>1. BranchOK(m) /\ Len(todo[m]) # 1
        BY <1>1, <2>2 DEF StageOK
      <4> QED BY <1>2, <4>1 DEF BranchOK
    <3> QED BY <1>6, <1>7, <2>1, <3>2, <3>3 DEF StageOK, ForwardStage, ResultStage
  <2>3. CASE m = "CrackRouter"
    <3>1. m \notin FanOut /\ m \notin ResultStage
      BY <2>3 DEF FanOut, ResultStage
    <3>2. todo'[m] # <<>> => RouterTodo(m)'
      <4>1. DOMAIN outputs[m] = 1..1
        BY <2>3, Wiring
      <4>2. Copies(m, x) = [i \in 1..1 |-> <<outputs[m][i], x>>]
        BY <4>1 DEF Copies
      <4>3. Copies(m, x) = <<<<outputs[m][1], x>>>>
        BY <4>2
      <4>4. todo'[m] = IF ~x.crack_detected \/ x.cracks = 0 THEN <<>> ELSE Copies(m, x)
        BY <1>2, <2>3, <3>1 DEF Pushes, Routed
      <4>5. x.cracks # 0 => x.cracks > 0
        BY <1>4
      <4> QED BY <1>3, <4>3, <4>4, <4>5 DEF RouterTodo
    <3>3. TodoOK(m)'
      BY <1>1, <1>2, <1>3, <1>5, <3>1, <3>2 DEF TodoOK
    <3> QED BY <1>6, <2>1, <3>1, <3>3 DEF StageOK
  <2> QED BY <1>7, <2>2, <2>3 DEF ForwardStage, FanOut
<1>8. CASE m \in ResultStage
  <2>1. m \notin ForwardStage /\ m \notin FanOut /\ m # "CrackRouter"
    BY <1>8 DEF FanOut, ForwardStage, ResultStage
  <2>2. todo'[m] = [c \in 1..x.cracks |-> <<outputs[m][1], [id |-> x.id, crack |-> c]>>]
    BY <1>2, <2>1 DEF Pushes, PerCrack
  <2>3. Len(todo'[m]) = x.cracks
    BY <1>4, <2>2
  <2>4. ResultTodo(m)'
    <3>1. ASSUME NEW i \in 1..x.cracks
          PROVE  todo'[m][i] = <<outputs[m][1], [id |-> x.id, crack |-> x.cracks - x.cracks + i]>>
      <4>1. x.cracks - x.cracks + i = i
        BY <1>4
      <4> QED BY <2>2, <4>1
    <3>2. Current(m)' = x /\ x.cracks \in Nat
      <4>1. x.cracks \in Nat
        BY <1>4
      <4>2. Current(m)' = x
        BY <1>3
      <4> QED BY <4>1, <4>2
    <3> DEFINE q == todo'[m]
               y == outputs[m][1]
               n == x.cracks
               d == x.id
    <3>3. Len(q) = n /\ \A i \in 1..n : q[i] = <<y, [id |-> d, crack |-> n - n + i]>>
      BY <2>3, <3>1
    <3>4. /\ q = todo'[m] /\ y = outputs[m][1] /\ x.cracks = n /\ x.id = d
          /\ n \in Nat
      BY <3>2
    <3> HIDE DEF q, y, n, d
    <3>5. Len(q) <= n /\ \A i \in 1..Len(q) : q[i] = <<y, [id |-> d, crack |-> n - Len(q) + i]>>
      BY <3>3, <3>4
    <3> QED BY <3>2, <3>4, <3>5 DEF ResultTodo
  <2>5. TodoOK(m)'
    BY <1>1, <1>2, <1>3, <1>5, <2>1, <2>4 DEF TodoOK
  <2>6. ASSUME NEW j \in 1..(p + 1)
        PROVE  /\ j \in 1..p => ResultsOf(m, j)' = ResultsOf(m, j)
               /\ j \notin 1..p => ResultsOf(m, j)' = 0 /\ j = p + 1
    <3>1. CASE j = p + 1
      BY <1>3, <1>4, <2>3, <3>1 DEF ResultsOf
    <3>2. CASE j \in 1..p
      <4>1. ResultsOf(m, j)' = In(m)[j].cracks
        BY <1>3, <3>2 DEF ResultsOf
      <4>2. In(m)[j].cracks \in Nat /\ Len(todo[m]) = 0
        <5>1. In(m)[j] \in Laser
          BY <1>1, <1>3, <3>2, Counters DEF FlowInv
        <5> QED BY <1>1, <5>1, PipelineAssumption DEF Laser
      <4> QED BY <1>3, <3>2, <4>1, <4>2 DEF ResultsOf
    <3> QED BY <1>3, <3>1, <3>2
  <2>7. ResultsOK(m)
    BY <1>1, <1>8 DEF StageOK
  <2>8. ResultsOK(m)'
    <3> DEFINE results == sent[outputs[m][1]]
    <3>1. \A i, j \in DOMAIN results : i < j => Before(results[i], results[j])
      BY <2>7 DEF ResultsOK
    <3>2. ASSUME NEW i \in DOMAIN results
          PROVE  \E j \in 1..(p + 1) :
                   results[i].id = In(m)[j].id /\ results[i].crack \in 1..ResultsOf(m, j)'
      <4>1. PICK j \in 1..p :
              results[i].id = In(m)[j].id /\ results[i].crack \in 1..ResultsOf(m, j)
        BY <1>3, <2>7 DEF ResultsOK
      <4> QED BY <1>3, <2>6, <4>1
    <3>3. ASSUME NEW j \in 1..(p + 1), In(m)[j].id \notin failed[m],
                 NEW d \in 1..ResultsOf(m, j)'
          PROVE  \E i \in DOMAIN results : results[i] = [id |-> In(m)[j].id, crack |-> d]
      <4>1. j \in 1..p /\ d \in 1..ResultsOf(m, j)
        BY <2>6, <3>3
      <4> QED BY <1>3, <2>7, <3>3, <4>1 DEF ResultsOK
    <3> QED BY <1>2, <1>3, <3>1, <3>2, <3>3 DEF ResultsOK
  <2> QED BY <1>6, <2>1, <2>5, <2>8 DEF StageOK
<1> QED BY <1>7, <1>8, Wiring

(* An exception leaves the message counted as failed, and what was pushed  *)
(* of it before stays.                                                     *)
LEMMA ThrowKeepsStage ==
  ASSUME FlowInv, NEW m \in Stage, Throw(m)
  PROVE  /\ InProcess(m) = Current(m).id /\ Current(m) \in Laser
         /\ StageOK(m)'
<1>1. todo[m] # <<>> /\ StageOK(m) /\ TodoOK(m)
  BY DEF Throw, FlowInv, StageOK
<1>2. InProcess(m) = Current(m).id
  <2>1. PICK k \in DOMAIN outputs[m] : \E x : NextPush(m, k, x)
    BY <1>1, NextPushExists
  <2>2. PICK x : NextPush(m, k, x)
    BY <2>1
  <2> QED BY <2>2, Wiring DEF NextPush, InProcess
<1>3. /\ sent' = sent /\ taken' = taken /\ todo'[m] = <<>>
      /\ failed'[m] = failed[m] \cup {Current(m).id}
  BY <1>2 DEF Throw, FlowInv, TypeOK, queueVars
<1>4. /\ input_[m] # NULL /\ Popped(m) \in Nat /\ Popped(m) > 0
      /\ Current(m) = In(m)[Popped(m)] /\ Current(m) \in Laser
      /\ \A j \in 1..Popped(m) : In(m)[j] \in Laser
      /\ \A i, j \in 1..Popped(m) : i < j => In(m)[i].id < In(m)[j].id
  BY <1>1, Counters DEF TodoOK, FlowInv, Current
<1>5. Popped(m)' = Popped(m) /\ In(m)' = In(m)
  BY <1>3 DEF Popped, In
<1>6. Len(todo[m]) \in Nat /\ Len(todo[m]) > 0 /\ Len(todo'[m]) = 0
  BY <1>1, <1>3, Outputs DEF FlowInv
<1>7. TodoOK(m)'
  BY <1>3 DEF TodoOK
<1>8. FailedOK(m)'
  BY <1>1, <1>3, <1>4, <1>5 DEF StageOK, FailedOK
<1>9. CASE m \in ForwardStage
  <2>1. ForwardOK(m)'
    <3> SUFFICES ASSUME NEW l \in DOMAIN outputs[m], outputs[m][l] # NULL,
                        NEW i \in DOMAIN sent[outputs[m][l]]
                 PROVE  \E j \in 1..Offered(m, l)' : sent[outputs[m][l]][i] = In(m)[j]
      BY <1>3, <1>4, <1>5 DEF ForwardOK
    <3>1. PICK j \in 1..Offered(m, l) : sent[outputs[m][l]][i] = In(m)[j]
      BY <1>1, <1>9 DEF StageOK, ForwardOK
    <3>2. Len(outputs[m]) \in Nat /\ l \in 1..Len(outputs[m])
      BY <1>9, Wiring DEF ForwardStage, FanOut
    <3>3. Offered(m, l)' = Popped(m)
      BY <1>5, <1>6, <3>2 DEF Offered
    <3>4. j \in 1..Popped(m)
      BY <1>4, <3>1 DEF Offered
    <3> QED BY <3>1, <3>3, <3>4
  <2>2. ASSUME m \in FanOut PROVE BranchOK(m)'
    <3> DEFINE first == sent[outputs[m][1]]
               second == sent[outputs[m][2]]
    <3>1. BranchOK(m) /\ FanOutTodo(m) /\ ForwardOK(m)
      BY <1>1, <1>9, <2>2 DEF StageOK, TodoOK
    <3>2. 2 \in DOMAIN outputs[m] /\ outputs[m][2] # NULL /\ Len(outputs[m]) = 2
      BY <2>2, Wiring, PipelineAssumption DEF LaserQueue, Queue, FanOut
    <3>3. ASSUME NEW i \in DOMAIN second
          PROVE  /\ second[i].id \notin failed'[m]
                 /\ \E j \in DOMAIN first : first[j] = second[i]
      <4>1. second[i].id \notin failed[m] /\ \E j \in DOMAIN first : first[j] = second[i]
        BY <3>1 DEF BranchOK
      <4>2. PICK j \in 1..Offered(m, 2) : second[i] = In(m)[j]
        BY <3>1, <3>2 DEF ForwardOK
      <4>3. Offered(m, 2) = Popped(m) - 1
        BY <1>6, <3>2 DEF Offered
      <4>4. second[i].id < Current(m).id
        BY <1>4, <4>2, <4>3
      <4>5. second[i].id # Current(m).id
        BY <1>4, <4>2, <4>3, <4>4 DEF Laser
      <4> QED BY <1>3, <4>1, <4>5
    <3>4. ASSUME NEW i \in DOMAIN first
          PROVE  first[i].id \in failed'[m] \/ \E j \in DOMAIN second : second[j] = first[i]
      <4>1. CASE Len(todo[m]) = 1 /\ i = Len(first)
        <5>1. todo[m] # <<<<outputs[m][1], Current(m)>>, <<outputs[m][2], Current(m)>>>>
          BY <4>1, ShortTuples
        <5>2. first[i] = Current(m)
          BY <3>1, <4>1, <5>1 DEF FanOutTodo
        <5> QED BY <1>3, <5>2
      <4>2. CASE ~(Len(todo[m]) = 1 /\ i = Len(first))
        BY <1>3, <3>1, <4>2 DEF BranchOK
      <4> QED BY <4>1, <4>2
    <3> QED BY <1>3, <3>3, <3>4 DEF BranchOK
  <2> QED BY <1>2, <1>4, <1>7, <1>8, <1>9, <2>1, <2>2 DEF StageOK, ForwardStage, ResultStage
<1>10. CASE m \in ResultStage
  <2> DEFINE results == sent[outputs[m][1]]
  <2>1. m \notin ForwardStage /\ m \notin FanOut
    BY <1>10 DEF FanOut, ForwardStage, ResultStage
  <2>2. ResultsOK(m)
    BY <1>1, <1>10 DEF StageOK
  <2>3. ASSUME NEW j \in 1..Popped(m)
        PROVE  /\ ResultsOf(m, j)' \in Nat /\ ResultsOf(m, j) \in Int
               /\ ResultsOf(m, j) <= ResultsOf(m, j)'
               /\ j # Popped(m) => ResultsOf(m, j)' = ResultsOf(m, j)
    <3>1. In(m)[j].cracks \in Nat
      BY <1>4, PipelineAssumption DEF Laser
    <3>2. ResultsOf(m, j)' = In(m)[j].cracks
      BY <1>5, <1>6, <3>1 DEF ResultsOf
    <3> QED BY <1>6, <3>1, <3>2 DEF ResultsOf
  <2>4. ASSUME NEW i \in DOMAIN results
        PROVE  \E j \in 1..Popped(m) :
                 results[i].id = In(m)[j].id /\ results[i].crack \in 1..ResultsOf(m, j)'
    <3>1. PICK j \in 1..Popped(m) :
            results[i].id = In(m)[j].id /\ results[i].crack \in 1..ResultsOf(m, j)
      BY <2>2 DEF ResultsOK
    <3>2. results[i].crack \in 1..ResultsOf(m, j)'
      BY <2>3, <3>1
    <3> QED BY <3>1, <3>2
  <2>5. ASSUME NEW j \in 1..Popped(m), In(m)[j].id \notin failed'[m],
               NEW d \in 1..ResultsOf(m, j)'
        PROVE  \E i \in DOMAIN results : results[i] = [id |-> In(m)[j].id, crack |-> d]
    <3>1. j # Popped(m) /\ In(m)[j].id \notin failed[m]
      BY <1>3, <1>4, <2>5
    <3>2. d \in 1..ResultsOf(m, j)
      BY <2>3, <3>1
    <3> QED BY <2>2, <3>1, <3>2 DEF ResultsOK
  <2>6. \A i, j \in DOMAIN results : i < j => Before(results[i], results[j])
    BY <2>2 DEF ResultsOK
  <2>7. ResultsOK(m)'
    BY <1>3, <1>5, <2>4, <2>5, <2>6 DEF ResultsOK
  <2> QED BY <1>2, <1>4, <1>7, <1>8, <2>1, <2>7 DEF StageOK
<1> QED BY <1>9, <1>10, Wiring

(* The sequences of main and of AlertWs are what TypeOK takes them for.    *)
LEMMA Orders ==
  /\ Len(Order) = 6 /\ \A i \in 1..6 : Order[i] \in Module
  /\ Len(Polled) = 4 /\ \A i \in 1..4 : Polled[i] \in Queue
  /\ Stage \subseteq Module
<1>1. Len(Order) = 6 /\ Len(Polled) = 4
  BY DEF Order, Polled
<1>2. \A i \in 1..4 : Polled[i] \in Queue
  BY DEF Polled, Queue
<1> QED BY <1>1, <1>2 DEF Module, Stage

(* What a step of the io threads, of AlertWs, of main and of a thread that *)
(* ends leaves alone.  A crash moves nothing, as nothing was on its way.   *)
LEMMA Arrivals ==
  ASSUME FlowInv, NEW f \in Frame, AcceptLaser(f)
  PROVE  \/ UNCHANGED <<sent, taken, todo, failed>>
         \/ /\ laser_out = "laser_in" /\ Accepted = sent["laser_in"]
            /\ \E x \in Laser :
                 /\ x.id = Len(Accepted) + 1
                 /\ sent' = [sent EXCEPT !["laser_in"] = Append(@, x)]
            /\ UNCHANGED <<taken, todo, failed>>
<1>1. CASE laser_out = NULL
  <2>1. UNCHANGED <<sent, taken, failed>> /\ todo' = [m \in Stage |-> <<>>]
    BY <1>1 DEF AcceptLaser, Crash, queueVars
  <2>2. todo = [m \in Stage |-> <<>>]
    BY <1>1 DEF FlowInv, TypeOK, QuietOK
  <2> QED BY <2>1, <2>2
<1>2. CASE laser_out # NULL
  <2>1. laser_out = "laser_in" /\ Accepted = sent["laser_in"]
    BY <1>2, PipelineAssumption DEF laser_out, Accepted
  <2> DEFINE x == [id |-> Len(sent["laser_in"]) + 1, crack_detected |-> f.crack_detected,
                   cracks |-> f.cracks]
  <2>2. UNCHANGED <<taken, todo, failed>> /\ Len(sent["laser_in"]) < MaxLaser
    BY <1>2, <2>1 DEF AcceptLaser, stageVars
  <2>3. sent' = [sent EXCEPT !["laser_in"] = Append(@, x)]
    BY <1>2, <2>1 DEF AcceptLaser
  <2>4. Len(sent["laser_in"]) \in Nat
    BY DEF FlowInv, TypeOK, Queue
  <2>5. x \in Laser /\ x.id = Len(Accepted) + 1
    BY <2>1, <2>2, <2>4, PipelineAssumption DEF Laser
  <2> QED BY <2>1, <2>2, <2>3, <2>5
<1> QED BY <1>1, <1>2

(* The io threads push where no stage does, and AlertWs pops where no      *)
(* stage pops.                                                             *)
LEMMA OthersMoveNothing ==
  ASSUME FlowInv, NEW m \in Stage,
         \/ \E f \in Frame : AcceptLaser(f)
         \/ AcceptVibration
         \/ PollHit
         \/ UNCHANGED <<sent, taken, todo, failed>>
  PROVE  Unmoved(m)
<1>1. CASE UNCHANGED <<sent, taken, todo, failed>>
  BY <1>1 DEF Unmoved
<1>2. ASSUME NEW q \in {"laser_in", "vibration_q"}, NEW x,
             sent' = [sent EXCEPT ![q] = Append(@, x)], UNCHANGED <<taken, todo, failed>>
      PROVE  Unmoved(m)
  <2>1. \A k \in DOMAIN outputs[m] : outputs[m][k] # NULL =>
          sent'[outputs[m][k]] = sent[outputs[m][k]]
    BY <1>2, OutputsDisjoint DEF FlowInv, TypeOK
  <2>2. ASSUME input_[m] # NULL, NEW j \in 1..taken[input_[m]]
        PROVE  sent'[input_[m]][j] = sent[input_[m]][j]
    <3>1. input_[m] \in Queue /\ sent[input_[m]] \in Seq(Laser) /\ j \in 1..Len(sent[input_[m]])
      BY <2>2, Counters DEF FlowInv, Popped, In
    <3>2. Append(sent[input_[m]], x)[j] = sent[input_[m]][j]
      BY <3>1, Appended
    <3> QED BY <1>2, <3>1, <3>2 DEF FlowInv, TypeOK
  <2> QED BY <1>2, <2>1, <2>2 DEF Unmoved
<1>3. ASSUME NEW f \in Frame, AcceptLaser(f) PROVE Unmoved(m)
  BY <1>1, <1>2, <1>3, Arrivals
<1>4. CASE AcceptVibration
  BY <1>2, <1>4 DEF AcceptVibration, stageVars
<1>5. CASE PollHit
  <2>1. UNCHANGED <<sent, todo, failed>>
    BY <1>5 DEF PollHit, stageVars
  <2>2. input_[m] # NULL => taken'[input_[m]] = taken[input_[m]]
    <3>1. input_[m] # Polled[poll]
      BY InputsDistinct DEF FlowInv, TypeOK
    <3>2. taken' = [taken EXCEPT ![Polled[poll]] = @ + 1]
      BY <1>5 DEF PollHit
    <3> QED BY <3>1, <3>2, Counters DEF FlowInv, TypeOK
  <2> QED BY <2>1, <2>2 DEF Unmoved
<1> QED BY <1>1, <1>3, <1>4, <1>5

(* A pop or an exception moves nothing of another stage.                   *)
LEMMA PopAndThrowMoveOnly ==
  ASSUME FlowInv, NEW m \in Stage, Pop(m) \/ Throw(m), NEW n \in Stage \ {m}
  PROVE  Unmoved(n)
<1>1. CASE Pop(m)
  <2>1. sent' = sent /\ failed' = failed /\ todo'[n] = todo[n]
    BY <1>1 DEF Pop, FlowInv, TypeOK
  <2>2. input_[m] # NULL /\ taken' = [taken EXCEPT ![input_[m]] = @ + 1]
    BY <1>1 DEF Pop
  <2>3. input_[n] # NULL => taken'[input_[n]] = taken[input_[n]]
    BY <2>2, InputsDistinct, Counters DEF FlowInv, TypeOK
  <2> QED BY <2>1, <2>3 DEF Unmoved
<1>2. CASE Throw(m)
  <2>1. sent' = sent /\ taken' = taken /\ failed'[n] = failed[n] /\ todo'[n] = todo[n]
    BY <1>2 DEF Throw, FlowInv, TypeOK, queueVars
  <2> QED BY <2>1 DEF Unmoved
<1> QED BY <1>1, <1>2

(* The steps of main and of threads that end move no message.              *)
LEMMA StillSteps ==
  ASSUME \/ PollMiss \/ Main \/ Signal \/ (\E m \in Module : Exit(m)) \/ UNCHANGED vars
  PROVE  UNCHANGED <<sent, taken, todo, failed>>
BY DEF PollMiss, Main, Signal, Exit, StartModule, StopModule, JoinModule, StopIo, vars,
       queueVars, stageVars

(* Every step keeps what is known of every stage.                          *)
LEMMA StagesStep ==
  ASSUME FlowInv, [Next]_vars
  PROVE  \A m \in Stage : StageOK(m)'
<1> TAKE m \in Stage
<1>1. TypeOK /\ QueuesOK /\ StageOK(m)
  BY DEF FlowInv
<1>2. ASSUME NEW n \in Stage, Pop(n) \/ Throw(n) PROVE StageOK(m)'
  BY <1>1, <1>2, PopKeepsStage, ThrowKeepsStage, PopAndThrowMoveOnly, UnmovedOK
<1>3. ASSUME NEW n \in Stage, Push(n) PROVE StageOK(m)'
  <2>1. CASE n = m
    BY <1>3, <2>1, PushKeepsStage
  <2>2. CASE n # m
    <3>1. PICK k \in DOMAIN outputs[n] : \E x : NextPush(n, k, x)
      BY <1>3, NextPushExists DEF Push
    <3>2. PICK x : NextPush(n, k, x)
      BY <3>1
    <3>3. Unmoved(m)
      BY <1>3, <2>2, <3>2, PushMovesOnly
    <3> QED BY <1>1, <3>3, UnmovedOK
  <2> QED BY <2>1, <2>2
<1>4. ASSUME \/ \E f \in Frame : AcceptLaser(f)
             \/ AcceptVibration \/ PollHit \/ UNCHANGED <<sent, taken, todo, failed>>
      PROVE  StageOK(m)'
  BY <1>1, <1>4, OthersMoveNothing, UnmovedOK
<1> QED BY <1>2, <1>3, <1>4, StillSteps DEF Next, StageStep, AlertStep

(* What is pushed has the type of the queue it is pushed to.               *)
LEMMA PushedMessage ==
  ASSUME FlowInv, NEW m \in Stage, todo[m] # <<>>, NEW k \in DOMAIN outputs[m], NEW x,
         NextPush(m, k, x)
  PROVE  /\ x \in Message /\ Current(m) \in Laser
         /\ m \in ForwardStage => x \in Laser /\ x = Current(m)
         /\ m \in ResultStage => x \in Result
<1>1. TodoOK(m) /\ Len(todo[m]) \in Nat /\ Len(todo[m]) > 0
  BY Outputs DEF FlowInv, StageOK
<1>2. Current(m) \in Laser
  BY <1>1, Counters DEF FlowInv, TodoOK, Current
<1>3. ASSUME m \in ResultStage PROVE x \in Result
  <2>1. Len(todo[m]) <= Current(m).cracks
    BY <1>1, <1>3 DEF TodoOK, ResultTodo
  <2>2. Current(m).cracks \in Nat
    BY <1>2, PipelineAssumption DEF Laser
  <2>3. Current(m).cracks - Len(todo[m]) + 1 \in Nat
    BY <1>1, <2>1, <2>2
  <2> QED BY <1>2, <1>3, <2>3 DEF NextPush, Laser, Result
<1> QED BY <1>2, <1>3, Wiring DEF NextPush, Message

(* What process pushes is a sequence of messages for queues.               *)
LEMMA PushesTyped ==
  ASSUME FlowInv, NEW m \in Stage, Pop(m)
  PROVE  todo' \in [Stage -> Seq((Queue \cup {NULL}) \X Message)]
<1> DEFINE x == Oldest(input_[m])
           Entry == (Queue \cup {NULL}) \X Message
<1>1. x \in Laser /\ x \in Message
  <2>1. /\ input_[m] # NULL /\ taken[input_[m]] + 1 \in 1..Len(sent[input_[m]])
        /\ sent[input_[m]] \in Seq(Laser)
    BY Counters DEF Pop, Waiting, In, Popped, FlowInv
  <2> QED BY <2>1 DEF Oldest, Message
<1>2. Copies(m, x) \in Seq(Entry)
  <2>1. \E n \in Nat : DOMAIN outputs[m] = 1..n
    <3>1. DOMAIN outputs[m] = 1..2 \/ DOMAIN outputs[m] = 1..1
      BY Wiring DEF ForwardStage, FanOut, ResultStage
    <3> QED BY <3>1
  <2>2. \A i \in DOMAIN outputs[m] : outputs[m][i] \in Queue \cup {NULL}
    BY OutputsDisjoint
  <2> QED BY <1>1, <2>1, <2>2 DEF Copies
<1>3. m = "CrackRouter" => Routed(m, x) \in Seq(Entry)
  BY <1>2 DEF Routed
<1>4. m \in ResultStage => PerCrack(m, x) \in Seq(Entry)
  <2> SUFFICES ASSUME m \in ResultStage PROVE PerCrack(m, x) \in Seq(Entry)
    OBVIOUS
  <2>1. x.cracks \in Nat /\ x.id \in 1..MaxLaser
    BY <1>1, PipelineAssumption DEF Laser
  <2>2. 1 \in DOMAIN outputs[m] /\ outputs[m][1] \in Queue
    BY Wiring DEF ResultStage, Queue
  <2>3. \A c \in 1..x.cracks : <<outputs[m][1], [id |-> x.id, crack |-> c]>> \in Entry
    <3>1. ASSUME NEW c \in 1..x.cracks PROVE [id |-> x.id, crack |-> c] \in Message
      <4>1. c \in Nat
        BY <2>1
      <4> QED BY <2>1, <4>1 DEF Message, Result
    <3> QED BY <2>2, <3>1
  <2> QED BY <2>1, <2>3 DEF PerCrack
<1>5. Pushes(m, x) \in Seq(Entry)
  <2>1. CASE m \in FanOut
    BY <1>2, <2>1 DEF Pushes, FanOut
  <2>2. CASE m = "CrackRouter"
    BY <1>3, <2>2 DEF Pushes, FanOut
  <2>3. CASE m \in ResultStage
    BY <1>4, <2>3 DEF Pushes, FanOut, ResultStage
  <2> QED BY <2>1, <2>2, <2>3, Wiring DEF ForwardStage, FanOut
<1> QED BY <1>5 DEF Pop, FlowInv, TypeOK

(* Queues, counters, threads and main keep their types.                    *)
LEMMA FlowTypeStep ==
  ASSUME FlowInv, [Next]_vars
  PROVE  TypeOK'
<1> USE Orders DEF TypeOK
<1>0. TypeOK /\ Len(Order) = 6 /\ Len(Polled) = 4
  BY DEF FlowInv
<1>flow. ASSUME /\ sent' \in [Queue -> Seq(Message)] /\ taken' \in [Queue -> Nat]
                /\ todo' \in [Stage -> Seq((Queue \cup {NULL}) \X Message)]
                /\ failed' \in [Stage -> SUBSET (1..MaxLaser)]
                /\ poll' \in 1..4 /\ UNCHANGED lifeVars
         PROVE  TypeOK'
  BY <1>0, <1>flow DEF lifeVars
<1>life. ASSUME /\ UNCHANGED <<sent, taken, failed, poll>>
                /\ todo' \in [Stage -> Seq((Queue \cup {NULL}) \X Message)]
                /\ running' \in [Module -> BOOLEAN]
                /\ thread' \in [Module -> {"off", "on", "exited", "stuck"}] /\ parsing' \in BOOLEAN
                /\ main' \in [op : {"start", "run", "stop", "join", "ioc", "hung", "stopped", "crashed"},
                              at : 1..6]
         PROVE  TypeOK'
  BY <1>0, <1>life
<1>1. ASSUME NEW f \in Frame, AcceptLaser(f) PROVE TypeOK'
  <2>1. CASE laser_out = NULL
    <3>1. Crash
      BY <1>1, <2>1 DEF AcceptLaser
    <3>2. UNCHANGED <<sent, taken, failed, poll>> /\ todo' = [m \in Stage |-> <<>>]
      BY <3>1 DEF Crash, queueVars
    <3>3. /\ running' = [m \in Module |-> FALSE] /\ thread' = [m \in Module |-> "exited"]
          /\ main' = [op |-> "crashed", at |-> 1] /\ parsing' = FALSE
      BY <3>1 DEF Crash
    <3>4. todo' \in [Stage -> Seq((Queue \cup {NULL}) \X Message)]
      BY <3>2
    <3>5. /\ running' \in [Module -> BOOLEAN] /\ parsing' \in BOOLEAN
          /\ thread' \in [Module -> {"off", "on", "exited", "stuck"}]
          /\ main' \in [op : {"start", "run", "stop", "join", "ioc", "hung", "stopped", "crashed"}, at : 1..6]
      <4> HIDE DEF TypeOK
      <4>1. running' \in [Module -> BOOLEAN] /\ parsing' \in BOOLEAN
        BY <3>3
      <4>2. thread' \in [Module -> {"off", "on", "exited", "stuck"}]
        BY <3>3
      <4>3. main' \in [op : {"start", "run", "stop", "join", "ioc", "hung", "stopped", "crashed"}, at : 1..6]
        BY <3>3
      <4> QED BY <4>1, <4>2, <4>3
    <3> HIDE DEF TypeOK
    <3> QED BY <1>life, <3>2, <3>4, <3>5
  <2>2. CASE laser_out # NULL
    <3>1. UNCHANGED <<taken, todo, failed, lifeVars, poll>>
      BY <1>1, <2>2 DEF AcceptLaser, stageVars
    <3>2. sent' \in [Queue -> Seq(Message)]
      <4>1. CASE UNCHANGED <<sent, taken, todo, failed>>
        BY <1>0, <4>1
      <4>2. ASSUME NEW x \in Laser, sent' = [sent EXCEPT !["laser_in"] = Append(@, x)]
            PROVE  sent' \in [Queue -> Seq(Message)]
        <5>1. "laser_in" \in Queue /\ x \in Message
          BY DEF Queue, Message
        <5>2. Append(sent["laser_in"], x) \in Seq(Message)
          BY <1>0, <5>1
        <5> QED BY <1>0, <4>2, <5>1, <5>2
      <4> QED BY <1>1, <4>1, <4>2, Arrivals
    <3> QED BY <1>0, <1>flow, <3>1, <3>2
  <2> QED BY <2>1, <2>2
<1>2. CASE AcceptVibration
  <2>1. /\ sent' = [sent EXCEPT !["vibration_q"] = Append(@, [id |-> Len(@) + 1])]
        /\ UNCHANGED <<taken, stageVars, lifeVars, poll>>
        /\ Len(sent["vibration_q"]) < MaxVibration
    BY <1>2 DEF AcceptVibration
  <2>2. sent["vibration_q"] \in Seq(Message) /\ Len(sent["vibration_q"]) \in Nat
    BY <1>0 DEF Queue
  <2>3. [id |-> Len(sent["vibration_q"]) + 1] \in Message
    BY <2>1, <2>2, PipelineAssumption DEF Message
  <2>4. Append(sent["vibration_q"], [id |-> Len(sent["vibration_q"]) + 1]) \in Seq(Message)
    BY <2>2, <2>3
  <2>5. sent' \in [Queue -> Seq(Message)]
    BY <1>0, <2>1, <2>4
  <2> QED BY <1>0, <1>flow, <2>1, <2>5 DEF stageVars
<1>3. ASSUME NEW m \in Stage, Pop(m) PROVE TypeOK'
  <2>1. taken' \in [Queue -> Nat]
    <3>1. input_[m] \in Queue
      BY <1>3, Counters DEF FlowInv, Pop
    <3> QED BY SMTT(20), <1>0, <1>3, <3>1 DEF Pop
  <2>2. UNCHANGED <<sent, failed, lifeVars, poll>>
    BY <1>3 DEF Pop
  <2> QED BY <1>0, <1>3, <1>flow, <2>1, <2>2, PushesTyped
<1>4. ASSUME NEW m \in Stage, Push(m) PROVE TypeOK'
  <2>1. PICK k \in DOMAIN outputs[m] : \E x : NextPush(m, k, x)
    BY <1>4, NextPushExists DEF Push
  <2>2. PICK x : NextPush(m, k, x)
    BY <2>1
  <2>3. x \in Message
    BY <1>4, <2>2, PushedMessage DEF Push
  <2>4. \A q \in Queue : sent'[q] \in Seq(Message)
    <3>1. \A q \in Queue : sent'[q] = IF q = outputs[m][k] THEN Append(sent[q], x) ELSE sent[q]
      BY <1>4, <2>2, PushMovesOnly
    <3>2. \A q \in Queue : Append(sent[q], x) \in Seq(Message) /\ sent[q] \in Seq(Message)
      BY <1>0, <2>3
    <3> QED BY <3>1, <3>2
  <2>5. sent' \in [Queue -> Seq(Message)]
    <3>1. sent' = [q \in Queue |-> sent'[q]]
      BY <1>4 DEF Push
    <3> QED BY <2>4, <3>1
  <2>6. todo' \in [Stage -> Seq((Queue \cup {NULL}) \X Message)]
    <3>1. todo[m] \in Seq((Queue \cup {NULL}) \X Message) /\ todo[m] # <<>>
      BY <1>0, <1>4 DEF Push
    <3>2. Tail(todo[m]) \in Seq((Queue \cup {NULL}) \X Message)
      BY <3>1
    <3> QED BY <1>0, <1>4, <3>2 DEF Push
  <2>7. UNCHANGED <<taken, failed, lifeVars, poll>>
    BY <1>4 DEF Push
  <2> QED BY <1>0, <1>flow, <2>5, <2>6, <2>7
<1>5. ASSUME NEW m \in Stage, Throw(m) PROVE TypeOK'
  <2>1. InProcess(m) \in 1..MaxLaser
    BY <1>5, ThrowKeepsStage DEF Laser
  <2>2. failed' \in [Stage -> SUBSET (1..MaxLaser)]
    BY <1>0, <1>5, <2>1 DEF Throw
  <2>3. todo' \in [Stage -> Seq((Queue \cup {NULL}) \X Message)]
    BY <1>0, <1>5 DEF Throw
  <2>4. UNCHANGED <<sent, taken, lifeVars, poll>>
    BY <1>5 DEF Throw, queueVars
  <2> QED BY <1>0, <1>flow, <2>2, <2>3, <2>4
<1>6. CASE PollHit
  <2>1. taken' \in [Queue -> Nat]
    BY <1>0, <1>6 DEF PollHit
  <2>2. UNCHANGED <<sent, todo, failed, running, main, parsing>> /\ poll' = 1
    BY <1>6 DEF PollHit, stageVars
  <2>3. /\ sent' \in [Queue -> Seq(Message)] /\ poll' \in 1..4
        /\ todo' \in [Stage -> Seq((Queue \cup {NULL}) \X Message)]
        /\ failed' \in [Stage -> SUBSET (1..MaxLaser)]
    BY <1>0, <2>2
  <2>4. \/ UNCHANGED thread
        \/ thread' = [thread EXCEPT !["AlertWs"] = "stuck"]
    BY <1>6 DEF PollHit
  <2>5. thread' \in [Module -> {"off", "on", "exited", "stuck"}]
    BY <1>0, <2>4
  <2>6. UNCHANGED <<running, main, parsing>>
    BY <2>2
  <2> QED BY <1>0, <2>1, <2>3, <2>5, <2>6
<1>7. CASE PollMiss
  <2>1. poll' \in 1..4
    BY <1>0, <1>7 DEF PollMiss
  <2>2. UNCHANGED <<sent, taken, todo, failed, lifeVars>>
    BY <1>7 DEF PollMiss, queueVars, stageVars
  <2> QED BY <1>0, <1>flow, <2>1, <2>2
<1>8. ASSUME NEW m \in Module, Exit(m) PROVE TypeOK'
  BY <1>0, <1>8 DEF Exit, queueVars, stageVars
<1>9. CASE StartModule
  <2>1. main.at \in 1..6 /\ Order[main.at] \in Module
    BY <1>0
  <2>2. UNCHANGED <<sent, taken, todo, failed, poll>>
    BY <1>9 DEF StartModule, queueVars, stageVars
  <2>3. running' \in [Module -> BOOLEAN] /\ thread' \in [Module -> {"off", "on", "exited", "stuck"}]
    BY <1>0, <1>9, <2>1 DEF StartModule
  <2>4. parsing' \in BOOLEAN
    BY <1>0, <1>9 DEF StartModule
  <2>5. main' \in [op : {"start", "run", "stop", "join", "ioc", "hung", "stopped", "crashed"}, at : 1..6]
    BY <1>0, <1>9, <2>1 DEF StartModule
  <2> QED BY <1>0, <1>life, <2>2, <2>3, <2>4, <2>5
<1>10. CASE Signal
  BY <1>0, <1>10 DEF Signal, queueVars, stageVars
<1>11. CASE StopModule
  <2>1. main.at \in 1..6 /\ Order[main.at] \in Module
    BY <1>0
  <2>2. UNCHANGED <<sent, taken, todo, failed, thread, parsing, poll>>
    BY <1>11 DEF StopModule, queueVars, stageVars
  <2>3. running' \in [Module -> BOOLEAN]
    BY <1>0, <1>11, <2>1 DEF StopModule
  <2>4. main' \in [op : {"start", "run", "stop", "join", "ioc", "hung", "stopped", "crashed"}, at : 1..6]
    BY <1>0, <1>11, <2>1 DEF StopModule
  <2> QED BY <1>0, <1>life, <2>2, <2>3, <2>4
<1>12. CASE JoinModule
  <2>1. main.at \in 1..6
    BY <1>0
  <2>2. UNCHANGED <<sent, taken, todo, failed, running, thread, parsing, poll>>
    BY <1>12 DEF JoinModule, queueVars, stageVars
  <2>3. main' \in [op : {"start", "run", "stop", "join", "ioc", "hung", "stopped", "crashed"}, at : 1..6]
    <3>1. CASE main.at = 6
      <4>1. PICK op \in {"ioc", "hung"} : main' = [main EXCEPT !.op = op]
        BY <1>0, <1>12, <3>1 DEF JoinModule
      <4> QED BY <1>0, <4>1
    <3>2. CASE main.at # 6
      <4>1. main' = [op |-> "stop", at |-> main.at + 1]
        BY <1>0, <1>12, <3>2 DEF JoinModule
      <4>2. main.at + 1 \in 1..6
        BY <2>1, <3>2
      <4> QED BY <4>1, <4>2
    <3> QED BY <3>1, <3>2
  <2> QED BY <1>0, <1>life, <2>2, <2>3
<1>13. CASE StopIo
  <2>1. /\ UNCHANGED <<sent, taken, todo, failed, running, thread, poll>> /\ parsing' = FALSE
        /\ \E op \in {"stopped", "hung"} : main' = [main EXCEPT !.op = op]
    BY <1>13 DEF StopIo, queueVars, stageVars
  <2> QED BY <1>0, <2>1
<1>14. CASE UNCHANGED vars
  BY <1>0, <1>14 DEF vars, queueVars, stageVars, lifeVars
<1> QED BY <1>1, <1>2, <1>3, <1>4, <1>5, <1>6, <1>7, <1>8, <1>9, <1>10, <1>11, <1>12, <1>13, <1>14
        DEF Next, StageStep, AlertStep, Main

(* In which queues a stage finds its messages and where it puts them.      *)
LEMMA Neighbours ==
  /\ \A m \in ForwardStage \ {"LaserFanOut"} : input_[m] \in BehindAlert \cup {NULL}
  /\ input_["CrackFanOut"] \in CrackQueue \cup {NULL}
  /\ \A m \in Stage : \A k \in DOMAIN outputs[m] :
       /\ outputs[m][k] \in BehindAlert => m \in ForwardStage
       /\ outputs[m][k] \in BehindAlert /\ m = "LaserFanOut" => k = 2
       /\ outputs[m][k] \in CrackQueue => m \in {"CrackRouter", "CrackFanOut"}
       /\ outputs[m][k] \in LaserQueue => m \in ForwardStage
  /\ "laser_q_alert" = outputs["LaserFanOut"][1] /\ "laser_q_alert" \in LaserQueue
  /\ BehindAlert \subseteq LaserQueue /\ LaserQueue \subseteq Queue
  /\ NULL \notin LaserQueue /\ "laser_q_alert" \notin BehindAlert /\ "laser_in" \notin BehindAlert
  /\ CrackQueue \subseteq BehindAlert
<1> USE PipelineAssumption, Wiring
<1>1. \A s \in Stage : \A i \in DOMAIN outputs[s] :
        \/ s = "LaserFanOut" /\ i = 1 /\ outputs[s][i] = "laser_q_alert"
        \/ s = "LaserFanOut" /\ i = 2 /\ outputs[s][i] = "laser_q_router"
        \/ s = "CrackRouter" /\ i = 1 /\ outputs[s][i] \in {"crack_in", NULL}
        \/ s = "CrackFanOut" /\ i = 1 /\ outputs[s][i] = "crack_q_fatigue"
        \/ s = "CrackFanOut" /\ i = 2 /\ outputs[s][i] = "crack_q_dem"
        \/ s = "FatiguePredictor" /\ i = 1 /\ outputs[s][i] = "prediction_q"
        \/ s = "DemSimulator" /\ i = 1 /\ outputs[s][i] = "dem_q"
  BY DEF ForwardStage, ResultStage
<1>2. NULL \notin LaserQueue
  BY DEF Queue, LaserQueue
<1> USE DEF BehindAlert, LaserQueue, CrackQueue, ForwardStage
<1>3. \A m \in ForwardStage \ {"LaserFanOut"} : input_[m] \in BehindAlert \cup {NULL}
  OBVIOUS
<1>4. input_["CrackFanOut"] \in CrackQueue \cup {NULL}
  OBVIOUS
<1>5. \A m \in Stage : \A k \in DOMAIN outputs[m] :
        /\ outputs[m][k] \in BehindAlert => m \in ForwardStage
        /\ outputs[m][k] \in BehindAlert /\ m = "LaserFanOut" => k = 2
        /\ outputs[m][k] \in CrackQueue => m \in {"CrackRouter", "CrackFanOut"}
        /\ outputs[m][k] \in LaserQueue => m \in ForwardStage
  BY <1>1, <1>2
<1>6. "laser_q_alert" = outputs["LaserFanOut"][1] /\ LaserQueue \subseteq Queue
  BY DEF Queue
<1> QED BY <1>2, <1>3, <1>4, <1>5, <1>6

(* The next message for an output comes after all that are in it.          *)
LEMMA PushedInOrder ==
  ASSUME FlowInv, NEW m \in ForwardStage, NEW k \in DOMAIN outputs[m], outputs[m][k] # NULL,
         NextPush(m, k, Current(m)), todo[m] # <<>>
  PROVE  \A i \in DOMAIN sent[outputs[m][k]] : sent[outputs[m][k]][i].id < Current(m).id
<1> TAKE i \in DOMAIN sent[outputs[m][k]]
<1>1. /\ m \in Stage /\ Len(todo[m]) = Len(outputs[m]) - k + 1
      /\ Len(outputs[m]) \in Nat /\ k \in Nat
  BY Wiring DEF NextPush, ForwardStage, FanOut
<1>2. StageOK(m) /\ TypeOK /\ QueuesOK
  BY <1>1 DEF FlowInv
<1>3. input_[m] # NULL /\ Popped(m) > 0
  BY <1>2 DEF StageOK, TodoOK
<1>4. /\ Popped(m) \in Nat
      /\ \A a, b \in 1..Popped(m) : a < b => In(m)[a].id < In(m)[b].id
  BY <1>1, <1>2, <1>3, Counters
<1>5. PICK j \in 1..Offered(m, k) : sent[outputs[m][k]][i] = In(m)[j]
  BY <1>2 DEF StageOK, ForwardOK
<1>6. Offered(m, k) = Popped(m) - 1
  BY <1>1, <1>4 DEF Offered
<1> QED BY <1>3, <1>4, <1>5, <1>6 DEF Current

(* Messages stay typed and in order in every queue.                        *)
LEMMA QueuesStep ==
  ASSUME FlowInv, [Next]_vars
  PROVE  QueuesOK'
<1>0. TypeOK /\ QueuesOK
  BY DEF FlowInv
<1>1. CASE UNCHANGED <<sent, taken, todo, failed>>
  BY <1>0, <1>1 DEF QueuesOK
<1>2. ASSUME NEW q \in Queue, NEW x, taken' = taken,
             \A r \in Queue : sent'[r] = IF r = q THEN Append(sent[r], x) ELSE sent[r],
             q \in LaserQueue => x \in Laser /\ \A i \in DOMAIN sent[q] : sent[q][i].id < x.id,
             \A m \in ResultStage : q = outputs[m][1] => x \in Result
      PROVE  QueuesOK'
  <2>1. ASSUME NEW r \in LaserQueue PROVE sent'[r] \in Seq(Laser) /\ Increasing(sent'[r])
    <3>1. r \in Queue /\ sent[r] \in Seq(Laser) /\ Increasing(sent[r])
      BY <1>0, Neighbours DEF QueuesOK
    <3>2. CASE r = q
      <4>1. /\ sent'[r] = Append(sent[r], x) /\ x \in Laser
            /\ \A i \in DOMAIN sent[r] : sent[r][i].id < x.id
        BY <1>2, <3>1, <3>2
      <4>2. sent'[r] \in Seq(Laser)
        BY <3>1, <4>1
      <4>3. /\ DOMAIN sent[r] = 1..Len(sent[r]) /\ DOMAIN sent'[r] = 1..(Len(sent[r]) + 1)
            /\ Len(sent[r]) \in Nat
            /\ \A j \in 1..Len(sent[r]) : sent'[r][j] = sent[r][j]
            /\ sent'[r][Len(sent[r]) + 1] = x
        BY <3>1, <4>1, Appended
      <4>4. ASSUME NEW i \in DOMAIN sent'[r], NEW j \in DOMAIN sent'[r], i < j
            PROVE  sent'[r][i].id < sent'[r][j].id
        <5>1. i \in DOMAIN sent[r]
          BY <4>3, <4>4
        <5>2. CASE j \in DOMAIN sent[r]
          BY <3>1, <4>3, <4>4, <5>1, <5>2 DEF Increasing
        <5>3. CASE j = Len(sent[r]) + 1
          BY <4>1, <4>3, <5>1, <5>3
        <5> QED BY <4>3, <5>2, <5>3
      <4> QED BY <4>2, <4>4 DEF Increasing
    <3>3. CASE r # q
      BY <1>2, <3>1, <3>3
    <3> QED BY <3>2, <3>3
  <2>2. ASSUME NEW m \in ResultStage PROVE sent'[outputs[m][1]] \in Seq(Result)
    <3>1. outputs[m][1] \in Queue /\ sent[outputs[m][1]] \in Seq(Result)
      BY <1>0, Wiring DEF ResultStage, Queue, QueuesOK
    <3>2. CASE q = outputs[m][1]
      <4>1. x \in Result /\ sent'[q] = Append(sent[q], x)
        BY <1>2, <3>1, <3>2
      <4> QED BY <3>1, <3>2, <4>1
    <3>3. CASE q # outputs[m][1]
      <4>1. sent'[outputs[m][1]] = sent[outputs[m][1]]
        BY <1>2, <3>1, <3>3
      <4> QED BY <3>1, <4>1
    <3> QED BY <3>2, <3>3
  <2>3. ASSUME NEW r \in Queue PROVE taken'[r] <= Len(sent'[r])
    <3>1. sent[r] \in Seq(Message) /\ taken[r] \in Nat /\ taken[r] <= Len(sent[r])
      BY <1>0 DEF TypeOK, QueuesOK
    <3>2. Len(Append(sent[r], x)) = Len(sent[r]) + 1 /\ Len(sent[r]) \in Nat
      BY <3>1, Appended
    <3>3. sent'[r] = Append(sent[r], x) \/ sent'[r] = sent[r]
      BY <1>2
    <3>4. taken'[r] = taken[r]
      BY <1>2
    <3>5. Len(sent'[r]) \in {Len(sent[r]), Len(sent[r]) + 1}
      BY <3>2, <3>3
    <3> QED BY <3>1, <3>2, <3>4, <3>5
  <2> QED BY <2>1, <2>2, <2>3 DEF QueuesOK
<1>3. ASSUME NEW f \in Frame, AcceptLaser(f) PROVE QueuesOK'
  <2>1. CASE UNCHANGED <<sent, taken, todo, failed>>
    BY <1>1, <2>1
  <2>2. ASSUME NEW x \in Laser, x.id = Len(Accepted) + 1, taken' = taken,
               laser_out = "laser_in", Accepted = sent["laser_in"],
               sent' = [sent EXCEPT !["laser_in"] = Append(@, x)]
        PROVE  QueuesOK'
    <3>1. "laser_in" \in Queue /\ "laser_in" \in LaserQueue
      BY DEF Queue, LaserQueue
    <3>2. \A r \in Queue : sent'[r] = IF r = "laser_in" THEN Append(sent[r], x) ELSE sent[r]
      BY <1>0, <2>2, <3>1 DEF TypeOK
    <3>3. \A i \in DOMAIN sent["laser_in"] : sent["laser_in"][i].id < x.id
      <4>1. sent["laser_in"] \in Seq(Laser)
        BY <1>0, <3>1 DEF QueuesOK
      <4>2. \A i \in DOMAIN sent["laser_in"] : sent["laser_in"][i].id = i
        BY <2>2 DEF FlowInv, GenuineOK
      <4> QED BY <2>2, <4>1, <4>2
    <3>4. \A m \in ResultStage : outputs[m][1] # "laser_in"
      BY Wiring DEF ResultStage
    <3> QED BY <1>2, <2>2, <3>1, <3>2, <3>3, <3>4
  <2> QED BY <1>3, <2>1, <2>2, Arrivals
<1>4. CASE AcceptVibration
  <2> DEFINE x == [id |-> Len(sent["vibration_q"]) + 1]
  <2>1. /\ sent' = [sent EXCEPT !["vibration_q"] = Append(@, x)] /\ taken' = taken
        /\ "vibration_q" \in Queue /\ "vibration_q" \notin LaserQueue
    BY <1>4 DEF AcceptVibration, Queue, LaserQueue
  <2>2. \A r \in Queue : sent'[r] = IF r = "vibration_q" THEN Append(sent[r], x) ELSE sent[r]
    BY <1>0, <2>1 DEF TypeOK
  <2>3. \A m \in ResultStage : outputs[m][1] # "vibration_q"
    BY Wiring DEF ResultStage
  <2> HIDE DEF x
  <2> QED BY <1>2, <2>1, <2>2, <2>3
<1>5. ASSUME NEW m \in Stage, Push(m) PROVE QueuesOK'
  <2>1. PICK k \in DOMAIN outputs[m] : \E x : NextPush(m, k, x)
    BY <1>5, NextPushExists DEF Push
  <2>2. PICK x : NextPush(m, k, x)
    BY <2>1
  <2>3. /\ \A q \in Queue : sent'[q] = IF q = outputs[m][k] THEN Append(sent[q], x) ELSE sent[q]
        /\ taken' = taken
    BY <1>5, <2>2, PushMovesOnly
  <2>4. CASE outputs[m][k] = NULL
    <3>1. \A q \in Queue : sent'[q] = sent[q]
      BY <2>3, <2>4, PipelineAssumption
    <3>2. \A n \in ResultStage : outputs[n][1] \in Queue
      BY Wiring DEF ResultStage, Queue
    <3> QED BY <1>0, <2>3, <3>1, <3>2, Neighbours DEF QueuesOK
  <2>5. CASE outputs[m][k] # NULL
    <3>1. outputs[m][k] \in Queue
      BY <2>5, OutputsDisjoint
    <3>2. ASSUME outputs[m][k] \in LaserQueue
          PROVE  x \in Laser /\ \A i \in DOMAIN sent[outputs[m][k]] : sent[outputs[m][k]][i].id < x.id
      <4>1. m \in ForwardStage /\ todo[m] # <<>>
        BY <1>5, <3>2, Neighbours DEF Push
      <4>2. x \in Laser /\ x = Current(m)
        BY <2>2, <4>1, PushedMessage
      <4> QED BY <2>2, <2>5, <4>1, <4>2, PushedInOrder
    <3>3. ASSUME NEW n \in ResultStage, outputs[m][k] = outputs[n][1] PROVE x \in Result
      <4>1. m = n /\ todo[m] # <<>>
        BY <1>5, <2>5, <3>3, OutputsDisjoint, Wiring DEF Push, ResultStage
      <4> QED BY <2>2, <4>1, PushedMessage
    <3> QED BY <1>2, <2>3, <3>1, <3>2, <3>3
  <2> QED BY <2>4, <2>5
<1>6. ASSUME NEW q \in Queue, Waiting(q), sent' = sent, taken' = [taken EXCEPT ![q] = @ + 1]
      PROVE  QueuesOK'
  <2>1. \A r \in Queue : taken'[r] <= Len(sent[r])
    BY <1>0, <1>6 DEF Waiting, QueuesOK, TypeOK
  <2> QED BY <1>0, <1>6, <2>1 DEF QueuesOK
<1>7. ASSUME NEW m \in Stage, Pop(m) PROVE QueuesOK'
  <2>1. input_[m] \in Queue
    BY <1>0, <1>7, Counters DEF Pop
  <2> QED BY <1>6, <1>7, <2>1 DEF Pop
<1>8. ASSUME NEW m \in Stage, Throw(m) PROVE QueuesOK'
  BY <1>0, <1>8 DEF Throw, queueVars, QueuesOK
<1>9. CASE PollHit
  <2>1. Polled[poll] \in Queue
    BY <1>0, Orders DEF TypeOK
  <2> QED BY <1>6, <1>9, <2>1 DEF PollHit
<1> QED BY <1>1, <1>3, <1>4, <1>5, <1>7, <1>8, <1>9, StillSteps DEF Next, StageStep, AlertStep

(* Every message stays one of the frames that came in, also in the queue   *)
(* it is pushed to next.                                                   *)
LEMMA GenuineStep ==
  ASSUME FlowInv, [Next]_vars
  PROVE  GenuineOK'
<1>0. TypeOK /\ QueuesOK /\ QuietOK /\ GenuineOK
  BY DEF FlowInv
<1>1. ASSUME UNCHANGED sent PROVE GenuineOK'
  BY <1>0, <1>1 DEF GenuineOK, Genuine, Accepted
<1>2. \A q \in LaserQueue : q \in Queue /\ sent[q] \in Seq(Laser) /\ DOMAIN sent[q] = 1..Len(sent[q])
  BY <1>0, Neighbours DEF QueuesOK
<1>3. ASSUME NEW f \in Frame, AcceptLaser(f) PROVE GenuineOK'
  <2>1. ASSUME NEW x \in Laser, x.id = Len(Accepted) + 1,
               laser_out = "laser_in", Accepted = sent["laser_in"],
               sent' = [sent EXCEPT !["laser_in"] = Append(@, x)]
        PROVE  GenuineOK'
    <3>1. "laser_in" \in LaserQueue /\ "laser_in" # NULL
      BY PipelineAssumption DEF LaserQueue, Queue
    <3>2. Accepted' = Append(Accepted, x)
      BY <1>0, <1>2, <2>1, <3>1 DEF TypeOK, Accepted
    <3>3. /\ Len(Accepted) \in Nat /\ DOMAIN Accepted = 1..Len(Accepted)
          /\ Len(Accepted') = Len(Accepted) + 1 /\ DOMAIN Accepted' = 1..(Len(Accepted) + 1)
          /\ \A j \in 1..Len(Accepted) : Accepted'[j] = Accepted[j]
          /\ Accepted'[Len(Accepted) + 1] = x
      BY <1>2, <2>1, <3>1, <3>2, Appended
    <3>4. \A i \in DOMAIN Accepted' : Accepted'[i].id = i
      BY <1>0, <2>1, <3>3 DEF GenuineOK
    <3>5. \A y : Genuine(y) => Genuine(y)'
      BY <3>3 DEF Genuine
    <3>6. \A q \in LaserQueue \ {"laser_in"} : sent'[q] = sent[q]
      BY <1>0, <1>2, <2>1 DEF TypeOK
    <3>7. ASSUME NEW q \in LaserQueue, NEW i \in DOMAIN sent'[q]
          PROVE  sent'[q][i].id \in 1..Len(Accepted') /\ Accepted'[sent'[q][i].id] = sent'[q][i]
      <4>1. CASE q = "laser_in"
        <5>1. sent'[q] = Accepted'
          BY <1>0, <1>2, <2>1, <3>2, <4>1 DEF TypeOK
        <5> QED BY <3>3, <3>4, <3>7, <5>1
      <4>2. CASE q # "laser_in"
        <5>1. Genuine(sent[q][i]) /\ sent'[q] = sent[q]
          BY <1>0, <3>6, <3>7, <4>2 DEF GenuineOK
        <5> QED BY <3>3, <5>1 DEF Genuine
      <4> QED BY <4>1, <4>2
    <3>8. \A q \in BehindAlert \cup {"laser_q_alert"} : sent'[q] = sent[q]
      BY <3>6, Neighbours, PipelineAssumption DEF LaserQueue
    <3>9. \A q \in CrackQueue : sent'[q] = sent[q]
      BY <3>8, Neighbours
    <3> QED BY <1>0, <3>4, <3>7, <3>8, <3>9 DEF GenuineOK, Genuine
  <2> QED BY <1>1, <1>3, <2>1, Arrivals
<1>4. CASE AcceptVibration
  <2>1. \A q \in LaserQueue : sent'[q] = sent[q]
    BY <1>0, <1>4, Neighbours DEF AcceptVibration, TypeOK, LaserQueue
  <2>2. Accepted' = Accepted
    <3>1. laser_out # NULL => laser_out \in LaserQueue
      BY PipelineAssumption DEF laser_out, LaserQueue
    <3> QED BY <2>1, <3>1 DEF Accepted
  <2> QED BY <1>0, <2>1, <2>2, Neighbours DEF GenuineOK, Genuine, LaserQueue
<1>5. ASSUME NEW m \in Stage, Push(m) PROVE GenuineOK'
  <2>1. PICK k \in DOMAIN outputs[m] : \E x : NextPush(m, k, x)
    BY <1>5, NextPushExists DEF Push
  <2>2. PICK x : NextPush(m, k, x)
    BY <2>1
  <2> DEFINE o == outputs[m][k]
  <2>3. /\ \A q \in Queue : sent'[q] = IF q = o THEN Append(sent[q], x) ELSE sent[q]
        /\ todo[m] # <<>>
    <3>1. todo[m] # <<>>
      BY <1>5 DEF Push
    <3>2. \A q \in Queue : sent'[q] = IF q = o THEN Append(sent[q], x) ELSE sent[q]
      BY <1>5, <2>2, PushMovesOnly
    <3> QED BY <3>1, <3>2
  <2>4. Accepted' = Accepted
    <3>1. laser_out # NULL => laser_out = "laser_in" /\ laser_out \in Queue
      BY PipelineAssumption DEF laser_out, Queue
    <3>2. o # "laser_in"
      BY OutputsDisjoint, PipelineAssumption DEF Queue
    <3> QED BY <2>3, <3>1, <3>2 DEF Accepted
  <2>5. \A y : Genuine(y)' <=> Genuine(y)
    BY <2>4 DEF Genuine
  <2>6. CASE o \notin LaserQueue
    <3>1. \A q \in LaserQueue : sent'[q] = sent[q]
      BY <2>3, <2>6, <1>2
    <3> QED BY <1>0, <2>4, <3>1, Neighbours DEF GenuineOK, Genuine
  <2>7. CASE o \in LaserQueue
    <3>1. m \in ForwardStage /\ StageOK(m)
      BY <2>7, Neighbours DEF FlowInv
    <3>2. x = Current(m) /\ input_[m] # NULL /\ input_[m] \in LaserQueue /\ TodoOK(m)
      BY <1>0, <2>2, <2>3, <3>1, PushedMessage, Counters DEF StageOK, TodoOK
    <3>3. PICK p \in DOMAIN sent[input_[m]] : x = sent[input_[m]][p]
      <4>1. Popped(m) \in DOMAIN In(m)
        BY <1>0, <2>3, <3>2, Counters DEF TodoOK
      <4> QED BY <3>2, <4>1 DEF Current, In
    <3>4. Genuine(x)
      BY <1>0, <3>2, <3>3 DEF GenuineOK
    <3>5. /\ sent'[o] = Append(sent[o], x) /\ sent[o] \in Seq(Laser)
          /\ \A q \in LaserQueue \ {o} : sent'[q] = sent[q]
      BY <1>2, <2>3, <2>7
    <3>6. /\ DOMAIN sent[o] = 1..Len(sent[o]) /\ DOMAIN sent'[o] = 1..(Len(sent[o]) + 1)
          /\ \A j \in 1..Len(sent[o]) : sent'[o][j] = sent[o][j]
          /\ sent'[o][Len(sent[o]) + 1] = x
      BY <3>5, Appended
    <3> HIDE DEF o
    <3>7. ASSUME NEW q \in LaserQueue, NEW i \in DOMAIN sent'[q]
          PROVE  \/ i \in DOMAIN sent[q] /\ sent'[q][i] = sent[q][i]
                 \/ q = o /\ sent'[q][i] = x
      BY <3>5, <3>6
    <3>8. \A q \in LaserQueue : \A i \in DOMAIN sent'[q] : Genuine(sent'[q][i])
      BY <1>0, <3>4, <3>7 DEF GenuineOK
    <3>9. \A j \in DOMAIN sent["laser_q_alert"] :
            j \in DOMAIN sent'["laser_q_alert"] /\ sent'["laser_q_alert"][j] = sent["laser_q_alert"][j]
      BY SMTT(20), <3>5, <3>6, Neighbours
    <3>10. ASSUME o \in BehindAlert
           PROVE  \E j \in DOMAIN sent["laser_q_alert"] : sent["laser_q_alert"][j] = x
      <4>1. CASE m = "LaserFanOut"
        <5>1. k = 2 /\ m \in FanOut /\ outputs[m][1] = "laser_q_alert"
          BY <3>10, <4>1, Neighbours DEF FanOut, o
        <5>2. Len(todo[m]) = 1
          <6>1. Len(outputs[m]) = 2
            BY <5>1, Wiring
          <6>2. Len(todo[m]) = Len(outputs[m]) - k + 1
            BY <2>2, <3>1 DEF NextPush
          <6> QED BY <5>1, <6>1, <6>2
        <5>3. sent["laser_q_alert"][Len(sent["laser_q_alert"])] = x /\ Len(sent["laser_q_alert"]) > 0
          <6>1. FanOutTodo(m)
            BY <2>3, <3>2, <5>1 DEF TodoOK
          <6>2. todo[m] # <<<<outputs[m][1], Current(m)>>, <<outputs[m][2], Current(m)>>>>
            BY <5>2, ShortTuples
          <6> QED BY <3>2, <5>1, <6>1, <6>2 DEF FanOutTodo
        <5>4. Len(sent["laser_q_alert"]) \in DOMAIN sent["laser_q_alert"]
          BY <1>2, <5>3, Neighbours
        <5> QED BY <5>3, <5>4
      <4>2. CASE m # "LaserFanOut"
        <5>1. input_[m] \in BehindAlert
          BY <3>1, <3>2, <4>2, Neighbours
        <5> QED BY <1>0, <3>3, <5>1 DEF GenuineOK
      <4> QED BY <4>1, <4>2
    <3>11. ASSUME NEW q \in BehindAlert, NEW i \in DOMAIN sent'[q]
           PROVE  \E j \in DOMAIN sent'["laser_q_alert"] : sent'["laser_q_alert"][j] = sent'[q][i]
      <4>1. \E j \in DOMAIN sent["laser_q_alert"] : sent["laser_q_alert"][j] = sent'[q][i]
        BY <1>0, <3>7, <3>10, <3>11, Neighbours DEF GenuineOK
      <4> QED BY <3>9, <4>1
    <3>12. ASSUME o \in CrackQueue PROVE x.crack_detected /\ x.cracks > 0
      <4>1. CASE m = "CrackRouter"
        BY <2>3, <3>2, <4>1 DEF TodoOK, RouterTodo
      <4>2. CASE m = "CrackFanOut"
        <5>1. input_[m] \in CrackQueue
          BY <3>2, <4>2, Neighbours
        <5> QED BY <1>0, <3>3, <5>1 DEF GenuineOK
      <4> QED BY <3>12, <4>1, <4>2, Neighbours DEF o
    <3>13. ASSUME NEW q \in CrackQueue, NEW i \in DOMAIN sent'[q]
           PROVE  sent'[q][i].crack_detected /\ sent'[q][i].cracks > 0
      BY <1>0, <3>7, <3>12, <3>13, Neighbours DEF GenuineOK
    <3>14. \A i \in DOMAIN Accepted' : Accepted'[i].id = i
      BY <1>0, <2>4 DEF GenuineOK
    <3>15. \A q \in LaserQueue : \A i \in DOMAIN sent'[q] :
             sent'[q][i].id \in 1..Len(Accepted') /\ Accepted'[sent'[q][i].id] = sent'[q][i]
      BY <2>4, <3>8 DEF Genuine
    <3> QED BY <3>11, <3>13, <3>14, <3>15 DEF GenuineOK, Genuine
  <2> QED BY <2>6, <2>7
<1>6. ASSUME \/ \E m \in Stage : Pop(m) \/ Throw(m)
             \/ PollHit \/ UNCHANGED <<sent, taken, todo, failed>>
      PROVE  GenuineOK'
  <2>1. sent' = sent
    BY <1>6 DEF Pop, Throw, PollHit, queueVars
  <2> QED BY <1>1, <2>1
<1> QED BY <1>3, <1>4, <1>5, <1>6, StillSteps DEF Next, StageStep, AlertStep

(* A laser branch without an entry stays empty.                            *)
LEMMA QuietStep ==
  ASSUME FlowInv, [Next]_vars
  PROVE  QuietOK'
<1> SUFFICES ASSUME laser_out = NULL
             PROVE  /\ \A q \in Queue \ {"vibration_q"} : sent'[q] = <<>>
                    /\ \A m \in Stage : todo'[m] = <<>>
  BY DEF QuietOK, laser_out
<1>1. TypeOK /\ (\A q \in Queue \ {"vibration_q"} : sent[q] = <<>>) /\ \A m \in Stage : todo[m] = <<>>
  BY DEF FlowInv, QuietOK
<1>2. CASE UNCHANGED <<sent, taken, todo, failed>>
  BY <1>1, <1>2
<1>3. ASSUME NEW f \in Frame, AcceptLaser(f) PROVE UNCHANGED <<sent, taken, todo, failed>>
  BY <1>3, Arrivals, PipelineAssumption DEF Queue
<1>4. CASE AcceptVibration
  BY <1>1, <1>4 DEF AcceptVibration, stageVars, TypeOK
<1>5. ASSUME NEW m \in Stage, Pop(m) PROVE FALSE
  <2>1. input_[m] \in Queue \ {"vibration_q"} /\ taken[input_[m]] < Len(sent[input_[m]])
    BY <1>1, <1>5, InputsDistinct DEF Pop, Waiting, LaserQueue, Queue
  <2>2. sent[input_[m]] = <<>> /\ taken[input_[m]] \in Nat
    BY <1>1, <2>1 DEF TypeOK
  <2> QED BY <2>1, <2>2
<1>6. ASSUME NEW m \in Stage, Push(m) \/ Throw(m) PROVE FALSE
  BY <1>1, <1>6 DEF Push, Throw
<1>7. CASE PollHit
  BY <1>1, <1>7 DEF PollHit, stageVars
<1> QED BY <1>2, <1>3, <1>4, <1>5, <1>6, <1>7, StillSteps DEF Next, StageStep, AlertStep

(* Before start() nothing was moved.                                       *)
LEMMA FlowInitInv == Init => FlowInv
<1> SUFFICES ASSUME Init PROVE FlowInv
  OBVIOUS
<1> USE Orders, PipelineAssumption
<1>0. Init
  OBVIOUS
<1> USE DEF Init
<1>1. TypeOK
  <2>1. sent \in [Queue -> Seq(Message)] /\ taken \in [Queue -> Nat]
    BY <1>0
  <2>2. /\ todo \in [Stage -> Seq((Queue \cup {NULL}) \X Message)]
        /\ failed \in [Stage -> SUBSET (1..MaxLaser)]
    BY <1>0
  <2>3. running \in [Module -> BOOLEAN] /\ thread \in [Module -> {"off", "on", "exited", "stuck"}]
    BY <1>0
  <2>4. poll \in 1..Len(Polled) /\ parsing \in BOOLEAN
    <3>1. 1 \in 1..Len(Polled)
      BY DEF Polled
    <3> QED BY <1>0, <3>1
  <2>5. main \in [op : {"start", "run", "stop", "join", "ioc", "hung", "stopped", "crashed"},
                  at : 1..Len(Order)]
    BY <1>0
  <2> QED BY <2>1, <2>2, <2>3, <2>4, <2>5 DEF TypeOK
<1>2. \A q \in Queue : sent[q] = <<>> /\ taken[q] = 0
  OBVIOUS
<1>3. \A m \in Stage : todo[m] = <<>> /\ failed[m] = {}
  OBVIOUS
<1>4. \A m \in Stage : \A k \in DOMAIN outputs[m] : outputs[m][k] # NULL => sent[outputs[m][k]] = <<>>
  BY <1>2, OutputsDisjoint
<1>5. QueuesOK
  <2>1. \A m \in ResultStage : outputs[m][1] \in Queue
    BY Wiring DEF ResultStage, Queue
  <2> QED BY <1>2, <2>1, Neighbours DEF QueuesOK, Increasing
<1>6. QuietOK
  BY <1>2, <1>3 DEF QuietOK
<1>7. Accepted = <<>>
  BY <1>2 DEF Accepted, laser_out, Queue
<1>8. GenuineOK
  BY <1>2, <1>7, Neighbours DEF GenuineOK
<1>9. ASSUME NEW m \in Stage PROVE StageOK(m)
  <2>1. TodoOK(m) /\ FailedOK(m)
    BY <1>3 DEF TodoOK, FailedOK
  <2>2. ForwardOK(m)
    BY <1>4 DEF ForwardOK
  <2>3. ASSUME m \in FanOut PROVE BranchOK(m)
    <3>1. sent[outputs[m][1]] = <<>> /\ sent[outputs[m][2]] = <<>>
      BY <1>2, <2>3, Wiring, Neighbours
    <3> QED BY <3>1 DEF BranchOK
  <2>4. ASSUME m \in ResultStage PROVE ResultsOK(m)
    <3>1. sent[outputs[m][1]] = <<>>
      BY <1>2, <2>4, Wiring DEF ResultStage, Queue
    <3>2. Popped(m) = 0
      BY <1>2, <2>4, Wiring, Neighbours DEF Popped
    <3> QED BY <3>1, <3>2 DEF ResultsOK
  <2> QED BY <2>1, <2>2, <2>3, <2>4 DEF StageOK
<1> QED BY <1>1, <1>5, <1>6, <1>8, <1>9 DEF FlowInv

(* What the queues hold is explained by the frames, in every reachable     *)
(* state.                                                                  *)
LEMMA FlowInvariance == Spec => []FlowInv
<1>1. FlowInv /\ [Next]_vars => FlowInv'
  <2> SUFFICES ASSUME FlowInv, [Next]_vars PROVE FlowInv'
    OBVIOUS
  <2> QED BY FlowTypeStep, QueuesStep, QuietStep, GenuineStep, StagesStep DEF FlowInv
<1> QED BY FlowInitInv, <1>1, PTL DEF Spec
-----------------------------------------------------------------------------
(* Queues, counters, threads and main of the pipeline keep their types,    *)
(* whatever frames come in.                                                *)
THEOREM PipelineTypeCorrect == Spec => []TypeOK
<1>1. FlowInv => TypeOK
  BY DEF FlowInv
<1> QED BY FlowInvariance, <1>1, PTL

(* Behind a fan-out both branches get the same messages in the same order, *)
(* but for those whose process threw between the two pushes.               *)
THEOREM FanOutBranchesAgree == Spec => []BranchesAgree
<1>1. FlowInv => BranchesAgree
  <2> SUFFICES ASSUME FlowInv, NEW m \in FanOut
               PROVE  LET first == sent[outputs[m][1]]
                          second == sent[outputs[m][2]]
                      IN  /\ Increasing(first) /\ Increasing(second)
                          /\ Range(second) \subseteq {x \in Range(first) : x.id \notin failed[m]}
                          /\ \A i \in DOMAIN first : \/ first[i].id \in failed[m]
                                                     \/ first[i] \in Range(second)
                                                     \/ i = Len(first)
    BY DEF BranchesAgree
  <2>1. Increasing(sent[outputs[m][1]]) /\ Increasing(sent[outputs[m][2]])
    BY Wiring DEF FlowInv, QueuesOK
  <2>2. BranchOK(m)
    BY Wiring DEF FlowInv, StageOK
  <2> QED BY <2>1, <2>2 DEF BranchOK, Range
<1> QED BY FlowInvariance, <1>1, PTL

(* Predictions and simulations are exactly one per crack of the frames     *)
(* with a detected crack, in their order, and none of a processed          *)
(* detection is missing.                                                   *)
THEOREM ResultsAreExact == Spec => []ResultsExact
<1>1. FlowInv => ResultsExact
  <2> SUFFICES ASSUME FlowInv, NEW m \in ResultStage PROVE
        LET results == sent[outputs[m][1]]
        IN  /\ \A i, j \in DOMAIN results : i < j => Before(results[i], results[j])
            /\ \A i \in DOMAIN results :
                 /\ Accepted[results[i].id].crack_detected
                 /\ results[i].crack \in 1..Accepted[results[i].id].cracks
                 /\ \E x \in Range(sent["laser_q_alert"]) : x.id = results[i].id
            /\ \A i \in 1..taken[input_[m]] :
                 LET d == sent[input_[m]][i]
                 IN  d.id \notin failed[m] /\ (todo[m] # <<>> => d.id # InProcess(m)) =>
                       \A c \in 1..d.cracks : [id |-> d.id, crack |-> c] \in Range(results)
    BY DEF ResultsExact, ResultStage
  <2> DEFINE results == sent[outputs[m][1]]
  <2>1. /\ m \in Stage /\ StageOK(m) /\ ResultsOK(m) /\ TodoOK(m) /\ GenuineOK
        /\ TypeOK /\ QueuesOK
    BY Wiring DEF FlowInv, StageOK
  <2>2. /\ input_[m] # NULL /\ input_[m] \in CrackQueue /\ input_[m] \in BehindAlert
        /\ input_[m] \in LaserQueue
    BY Wiring, Neighbours
  <2>3. /\ Popped(m) \in Nat /\ \A j \in 1..Popped(m) : j \in DOMAIN In(m) /\ In(m)[j] \in Laser
        /\ \A i, j \in 1..Popped(m) : i < j => In(m)[i].id < In(m)[j].id
    BY <2>1, <2>2, Counters
  <2>4. \A j \in 1..Popped(m) :
          /\ Accepted[In(m)[j].id] = In(m)[j] /\ In(m)[j].crack_detected
          /\ In(m)[j].cracks \in Nat /\ In(m)[j].id \in Nat
          /\ \E i \in DOMAIN sent["laser_q_alert"] : sent["laser_q_alert"][i] = In(m)[j]
    <3> SUFFICES ASSUME NEW j \in 1..Popped(m)
                 PROVE  /\ Accepted[In(m)[j].id] = In(m)[j] /\ In(m)[j].crack_detected
                        /\ In(m)[j].cracks \in Nat /\ In(m)[j].id \in Nat
                        /\ \E i \in DOMAIN sent["laser_q_alert"] :
                             sent["laser_q_alert"][i] = In(m)[j]
      OBVIOUS
    <3>1. j \in DOMAIN In(m) /\ In(m)[j] \in Laser
      BY <2>3
    <3>2. Genuine(In(m)[j])
      BY <2>1, <2>2, <3>1 DEF GenuineOK, In
    <3>3. In(m)[j].crack_detected
      BY <2>1, <2>2, <3>1 DEF GenuineOK, In
    <3>4. \E i \in DOMAIN sent["laser_q_alert"] : sent["laser_q_alert"][i] = In(m)[j]
      BY <2>1, <2>2, <3>1 DEF GenuineOK, In
    <3>5. In(m)[j].id \in Nat
      BY <3>1 DEF Laser
    <3>6. In(m)[j].cracks \in Nat
      BY <3>1, PipelineAssumption DEF Laser
    <3> QED BY <3>2, <3>3, <3>4, <3>5, <3>6 DEF Genuine
  <2>5. Len(todo[m]) \in Nat /\ (todo[m] # <<>> => Len(todo[m]) > 0) /\ (todo[m] = <<>> => Len(todo[m]) = 0)
    BY <2>1, Outputs
  <2>6. \A i, j \in DOMAIN results : i < j => Before(results[i], results[j])
    BY <2>1 DEF ResultsOK
  <2>7. ASSUME NEW i \in DOMAIN results
        PROVE  /\ Accepted[results[i].id].crack_detected
               /\ results[i].crack \in 1..Accepted[results[i].id].cracks
               /\ \E x \in Range(sent["laser_q_alert"]) : x.id = results[i].id
    <3>1. PICK j \in 1..Popped(m) :
            results[i].id = In(m)[j].id /\ results[i].crack \in 1..ResultsOf(m, j)
      BY <2>1 DEF ResultsOK
    <3>2. results[i].crack \in 1..In(m)[j].cracks
      BY <2>4, <2>5, <3>1 DEF ResultsOf
    <3> QED BY <2>4, <3>1, <3>2 DEF Range
  <2>8. ASSUME NEW i \in 1..Popped(m), In(m)[i].id \notin failed[m],
               todo[m] # <<>> => In(m)[i].id # InProcess(m), NEW c \in 1..In(m)[i].cracks
        PROVE  [id |-> In(m)[i].id, crack |-> c] \in Range(results)
    <3>1. c \in 1..ResultsOf(m, i)
      <4>1. CASE i = Popped(m) /\ todo[m] # <<>>
        <5>1. PICK k \in DOMAIN outputs[m] : \E x : NextPush(m, k, x)
          BY <2>1, <4>1, NextPushExists
        <5>2. PICK x : NextPush(m, k, x)
          BY <5>1
        <5>3. InProcess(m) = Current(m).id
          BY <5>2 DEF NextPush, InProcess
        <5> QED BY <2>8, <4>1, <5>3 DEF Current
      <4>2. CASE ~(i = Popped(m) /\ todo[m] # <<>>)
        BY <2>4, <2>5, <4>2 DEF ResultsOf
      <4> QED BY <4>1, <4>2
    <3>2. PICK l \in DOMAIN results : results[l] = [id |-> In(m)[i].id, crack |-> c]
      BY <2>1, <2>8, <3>1 DEF ResultsOK
    <3> QED BY <3>2 DEF Range
  <2> QED BY <2>6, <2>7, <2>8 DEF In, Popped
<1> QED BY FlowInvariance, <1>1, PTL

(* A module whose stop() has returned has no thread, and a module without  *)
(* a running thread has nothing left to push.                              *)
StopsOK ==
  \A m \in Stage : /\ StopReturned(m) => thread[m] = "exited"
                   /\ thread[m] # "on" => todo[m] = <<>>

(* Every step keeps it: stop() joins the thread before it returns.         *)
LEMMA StopsStep ==
  ASSUME FlowInv, StopsOK, [Next]_vars
  PROVE  StopsOK'
<1> SUFFICES ASSUME NEW m \in Stage
             PROVE  /\ StopReturned(m)' => thread'[m] = "exited"
                    /\ thread'[m] # "on" => todo'[m] = <<>>
  BY DEF StopsOK
<1>0. /\ TypeOK /\ m \in Module /\ Len(Order) = 6 /\ \A i \in 1..6 : Order[i] \in Module
      /\ (StopReturned(m) => thread[m] = "exited") /\ (thread[m] # "on" => todo[m] = <<>>)
  BY Orders DEF FlowInv, StopsOK
<1>1. ASSUME UNCHANGED <<main, thread>>, thread[m] # "on" => todo'[m] = todo[m]
      PROVE  /\ StopReturned(m)' => thread'[m] = "exited"
             /\ thread'[m] # "on" => todo'[m] = <<>>
  BY <1>0, <1>1 DEF StopReturned
<1> DEFINE Goal == /\ StopReturned(m)' => thread'[m] = "exited"
                   /\ thread'[m] # "on" => todo'[m] = <<>>
<1>2. ASSUME NEW f \in Frame, AcceptLaser(f) PROVE Goal
  <2>1. CASE laser_out = NULL
    <3>1. Crash
      BY <1>2, <2>1 DEF AcceptLaser
    <3> QED BY <1>0, <3>1 DEF Crash
  <2>2. CASE laser_out # NULL
    BY <1>1, <1>2, <2>2 DEF AcceptLaser, stageVars, lifeVars
  <2> QED BY <2>1, <2>2
<1>3. CASE AcceptVibration
  BY <1>1, <1>3 DEF AcceptVibration, stageVars, lifeVars
<1>4. ASSUME NEW n \in Stage, Pop(n) \/ Push(n) \/ Throw(n) PROVE Goal
  <2>1. UNCHANGED <<main, thread>>
    BY <1>4 DEF Pop, Push, Throw, lifeVars
  <2>2. thread[m] # "on" => todo'[m] = todo[m]
    <3>1. n # m => todo'[m] = todo[m]
      BY <1>0, <1>4 DEF Pop, Push, Throw, TypeOK
    <3>2. thread[n] # "on" => todo[n] = <<>>
      BY <1>4 DEF StopsOK
    <3>3. thread[n] = "on"
      BY <1>4, <3>2 DEF Pop, Push, Throw
    <3> QED BY <3>1, <3>3
  <2> QED BY <1>1, <2>1, <2>2
<1>5. CASE PollHit \/ PollMiss
  <2>1. UNCHANGED <<main, todo>> /\ thread'[m] = thread[m]
    BY <1>0, <1>5 DEF PollHit, PollMiss, stageVars, lifeVars, Stage, TypeOK
  <2> QED BY <1>0, <2>1 DEF StopReturned
<1>6. ASSUME NEW n \in Module, Exit(n) PROVE Goal
  <2>1. UNCHANGED <<main, todo>> /\ thread' = [thread EXCEPT ![n] = "exited"]
    BY <1>6 DEF Exit, stageVars
  <2>2. n = m => todo[m] = <<>>
    BY <1>6 DEF Exit, Stage
  <2> QED BY <1>0, <2>1, <2>2 DEF StopReturned, TypeOK
<1>7. CASE StartModule
  <2>1. /\ main.op = "start" /\ main'.op \in {"start", "run"} /\ UNCHANGED todo
        /\ \A n \in Module : thread'[n] \in {thread[n], "on"}
    BY <1>0, <1>7 DEF StartModule, stageVars, TypeOK
  <2> QED BY <1>0, <2>1 DEF StopReturned
<1>8. CASE Signal
  BY <1>0, <1>8 DEF Signal, stageVars, StopReturned, TypeOK
<1>9. CASE StopModule
  <2>1. main.op = "stop" /\ main'.op = "join" /\ main'.at = main.at /\ UNCHANGED <<todo, thread>>
    BY <1>0, <1>9 DEF StopModule, stageVars, TypeOK
  <2> QED BY <1>0, <2>1 DEF StopReturned
<1>10. CASE JoinModule
  <2>1. /\ main.op = "join" /\ thread[Order[main.at]] = "exited" /\ UNCHANGED <<todo, thread>>
        /\ main.at \in 1..6
    BY <1>0, <1>10 DEF JoinModule, stageVars, TypeOK
  <2>2. ASSUME StopReturned(m)' PROVE thread[m] = "exited"
    <3>1. CASE main.at # 6
      <4>1. main' = [op |-> "stop", at |-> main.at + 1]
        BY <1>0, <1>10, <3>1 DEF JoinModule
      <4>2. PICK i \in 1..main.at : Order[i] = m
        BY <2>1, <2>2, <4>1 DEF StopReturned
      <4>3. i = main.at \/ i \in 1..main.at - 1
        BY <2>1
      <4> QED BY <1>0, <2>1, <4>2, <4>3 DEF StopReturned
    <3>2. CASE main.at = 6
      <4>1. PICK i \in 1..6 : Order[i] = m
        BY <1>0 DEF Module
      <4>2. i = main.at \/ i \in 1..main.at - 1
        BY <3>2
      <4> QED BY <1>0, <2>1, <4>1, <4>2 DEF StopReturned
    <3> QED BY <3>1, <3>2
  <2> QED BY <1>0, <2>1, <2>2
<1>11. CASE StopIo
  BY <1>0, <1>11 DEF StopIo, stageVars, StopReturned, TypeOK
<1>12. CASE UNCHANGED vars
  BY <1>1, <1>12 DEF vars, stageVars, lifeVars
<1> QED BY <1>2, <1>3, <1>4, <1>5, <1>6, <1>7, <1>8, <1>9, <1>10, <1>11, <1>12
        DEF Next, StageStep, AlertStep, Main

(* Nothing is pushed to the outputs of a module once its stop() returned.  *)
THEOREM StoppedOutputsSealed == Spec => OutputsSealed
<1>1. Init => StopsOK
  BY Orders DEF Init, StopsOK, StopReturned
<1>2. FlowInv /\ StopsOK /\ [Next]_vars => StopsOK'
  BY StopsStep
<1> DEFINE Sealed == \A m \in Stage : StopReturned(m) =>
                       \A q \in Range(outputs[m]) \ {NULL} : sent'[q] = sent[q]
<1>3. FlowInv /\ StopsOK /\ [Next]_vars => Sealed
  <2> SUFFICES ASSUME FlowInv, StopsOK, [Next]_vars, NEW m \in Stage, StopReturned(m),
                      NEW k \in DOMAIN outputs[m], outputs[m][k] # NULL
               PROVE  sent'[outputs[m][k]] = sent[outputs[m][k]]
    BY DEF Range
  <2>1. todo[m] = <<>> /\ outputs[m][k] \in Queue
    BY OutputsDisjoint DEF StopsOK
  <2>2. ASSUME Unmoved(m) PROVE sent'[outputs[m][k]] = sent[outputs[m][k]]
    BY <2>2 DEF Unmoved
  <2>3. ASSUME NEW n \in Stage, Push(n) PROVE sent'[outputs[m][k]] = sent[outputs[m][k]]
    <3>1. PICK l \in DOMAIN outputs[n] : \E x : NextPush(n, l, x)
      BY <2>3, NextPushExists DEF Push
    <3>2. PICK x : NextPush(n, l, x)
      BY <3>1
    <3>3. n # m
      BY <2>1, <2>3 DEF Push
    <3> QED BY <2>2, <2>3, <3>2, <3>3, PushMovesOnly
  <2>4. ASSUME \E n \in Stage : Pop(n) \/ Throw(n)
        PROVE  sent'[outputs[m][k]] = sent[outputs[m][k]]
    BY <2>4 DEF Pop, Throw, queueVars
  <2> QED BY <2>2, <2>3, <2>4, OthersMoveNothing, StillSteps DEF Next, StageStep, AlertStep
<1>4. Spec => [][Sealed]_vars
  BY <1>1, <1>2, <1>3, FlowInvariance, PTL DEF Spec
<1> QED BY <1>4 DEF OutputsSealed

(***************************************************************************)
(* Words, packets and what becomes of them.                                *)
(***************************************************************************)
(* Slices of the rest of a sequence are slices of the sequence.            *)
LEMMA RestOf ==
  ASSUME NEW S, NEW w \in Seq(S), NEW e \in 0..Len(w), NEW b, b = SubSeq(w, e + 1, Len(w))
  PROVE  /\ b \in Seq(S) /\ Len(b) = Len(w) - e
         /\ \A i \in 1..Len(b) : b[i] = w[e + i]
<1>1. \A i \in (e + 1)..Len(w) : w[i] \in S
  BY ElementOfSeq
<1>2. Len(w) \in Nat /\ e + 1 \in Int
  BY LenProperties
<1> QED BY <1>1, <1>2, SubSeqProperties

LEMMA SliceOfRest ==
  ASSUME NEW S, NEW w \in Seq(S), NEW e \in 0..Len(w), NEW b, b = SubSeq(w, e + 1, Len(w)),
         NEW i \in Nat \ {0}, NEW j \in Nat, j <= Len(b)
  PROVE  SubSeq(b, i, j) = SubSeq(w, e + i, e + j)
<1>1. /\ b \in Seq(S) /\ Len(b) = Len(w) - e /\ Len(w) \in Nat
      /\ \A k \in 1..Len(b) : b[k] = w[e + k]
  BY RestOf, LenProperties
<1>2. \A k \in i..j : b[k] \in S
  BY <1>1, ElementOfSeq
<1>3. \A k \in (e + i)..(e + j) : w[k] \in S
  BY <1>1, ElementOfSeq
<1> DEFINE x == SubSeq(b, i, j)
           y == SubSeq(w, e + i, e + j)
<1>4. /\ x \in Seq(S) /\ Len(x) = IF i <= j THEN j - i + 1 ELSE 0
      /\ \A k \in 1..(j - i + 1) : x[k] = b[i + k - 1]
  BY <1>2, SubSeqProperties
<1>5. /\ y \in Seq(S) /\ Len(y) = IF e + i <= e + j THEN (e + j) - (e + i) + 1 ELSE 0
      /\ \A k \in 1..((e + j) - (e + i) + 1) : y[k] = w[e + i + k - 1]
  <2>1. e + i \in Int /\ e + j \in Int
    BY <1>1
  <2> QED BY <1>3, <2>1, SubSeqProperties
<1> HIDE DEF x, y
<1>6. Len(x) = Len(y)
  BY <1>1, <1>4, <1>5
<1>7. \A k \in 1..Len(x) : x[k] = y[k]
  <2> SUFFICES ASSUME NEW k \in 1..Len(x) PROVE x[k] = y[k]
    OBVIOUS
  <2>1. k \in 1..(j - i + 1) /\ k \in 1..((e + j) - (e + i) + 1) /\ i + k - 1 \in 1..Len(b)
    BY <1>1, <1>4
  <2>2. x[k] = b[i + k - 1] /\ b[i + k - 1] = w[e + (i + k - 1)]
    BY <1>1, <1>4, <2>1
  <2>3. y[k] = w[e + i + k - 1] /\ e + i + k - 1 = e + (i + k - 1)
    BY <1>1, <1>5, <2>1
  <2> QED BY <2>2, <2>3
<1>8. x = y
  BY <1>4, <1>5, <1>6, <1>7, SeqEqual
<1> QED BY <1>8 DEF x, y

(* The rest of a longer sequence.                                          *)
LEMMA RestOfConcat ==
  ASSUME NEW S, NEW w \in Seq(S), NEW t \in Seq(S), NEW e \in 0..Len(w)
  PROVE  SubSeq(w, e + 1, Len(w)) \o t = SubSeq(w \o t, e + 1, Len(w \o t))
<1> DEFINE b == SubSeq(w, e + 1, Len(w))
           v == w \o t
           d == SubSeq(v, e + 1, Len(v))
<1>1. /\ b \in Seq(S) /\ Len(b) = Len(w) - e /\ \A i \in 1..Len(b) : b[i] = w[e + i]
  BY RestOf
<1>2. /\ v \in Seq(S) /\ Len(v) = Len(w) + Len(t) /\ Len(w) \in Nat /\ Len(t) \in Nat
      /\ \A i \in 1..(Len(w) + Len(t)) : v[i] = IF i <= Len(w) THEN w[i] ELSE t[i - Len(w)]
  BY ConcatProperties, LenProperties
<1>3. /\ d \in Seq(S) /\ Len(d) = Len(v) - e /\ \A i \in 1..Len(d) : d[i] = v[e + i]
  <2>1. e \in 0..Len(v)
    BY <1>2
  <2> HIDE DEF v
  <2> QED BY <1>2, <2>1, RestOf
<1>4. /\ b \o t \in Seq(S) /\ Len(b \o t) = Len(b) + Len(t)
      /\ \A i \in 1..(Len(b) + Len(t)) : (b \o t)[i] = IF i <= Len(b) THEN b[i] ELSE t[i - Len(b)]
  <2> HIDE DEF b
  <2> QED BY <1>1, ConcatProperties
<1> HIDE DEF b, v, d
<1>5. Len(b \o t) = Len(d)
  BY <1>1, <1>2, <1>3, <1>4
<1>6. \A i \in 1..Len(b \o t) : (b \o t)[i] = d[i]
  <2> SUFFICES ASSUME NEW i \in 1..Len(b \o t) PROVE (b \o t)[i] = d[i]
    OBVIOUS
  <2>1. d[i] = v[e + i] /\ e + i \in 1..(Len(w) + Len(t)) /\ i \in 1..(Len(b) + Len(t))
    BY <1>1, <1>2, <1>3, <1>4, <1>5
  <2>2. CASE i <= Len(b)
    <3>1. (b \o t)[i] = b[i] /\ b[i] = w[e + i] /\ e + i <= Len(w)
      BY <1>1, <1>2, <1>4, <2>1, <2>2
    <3> QED BY <1>2, <2>1, <3>1
  <2>3. CASE ~(i <= Len(b))
    <3>1. (b \o t)[i] = t[i - Len(b)] /\ ~(e + i <= Len(w)) /\ e + i - Len(w) = i - Len(b)
      BY <1>1, <1>2, <1>4, <2>1, <2>3
    <3> QED BY <1>2, <2>1, <3>1
  <2> QED BY <2>2, <2>3
<1>7. b \o t = d
  BY <1>3, <1>4, <1>5, <1>6, SeqEqual
<1> QED BY <1>7 DEF b, v, d

(* What is needed of the numbers of the protocol.                          *)
LEMMA TwoBytesFacts ==
  /\ TwoBytes \in Nat \ {0} /\ \A x : x \in Half <=> x \in Nat /\ x < TwoBytes
  /\ 1 \in Half /\ 0 \in Half /\ DataKind \subseteq Half
<1> DEFINE k == TwoBytes
<1>1. k \in Nat /\ 1 < k /\ LASER_DATA \in Nat /\ LASER_DATA < k /\ VIBRATION_DATA \in Nat /\ VIBRATION_DATA < k
  BY DEF TwoBytes, LASER_DATA, VIBRATION_DATA
<1> HIDE DEF k
<1>2. Half = 0..(k - 1)
  BY DEF Half, k
<1>3. \A x : x \in Half <=> x \in Nat /\ x < k
  BY <1>1, <1>2
<1>4. k = TwoBytes
  BY DEF k
<1> QED BY <1>1, <1>3, <1>4 DEF DataKind

LEMMA DivMod ==
  ASSUME NEW a \in Nat, NEW d \in Nat \ {0}
  PROVE  /\ a \div d \in Nat /\ a % d \in Nat /\ a % d < d
         /\ a = (d * (a \div d)) + (a % d)
<1>1. a % d \in 0..(d - 1)
  OBVIOUS
<1>2. a \div d \in Nat
  OBVIOUS
<1>3. a = (d * (a \div d)) + (a % d)
  OBVIOUS
<1> QED BY <1>1, <1>2, <1>3

LEMMA WordFacts ==
  ASSUME NEW v \in Nat
  PROVE  /\ Word(v) \in WordType /\ Count(Word(v)) = v
         /\ v < TwoBytes => Word(v).lo = v
<1> DEFINE q == v \div TwoBytes
           m == v % TwoBytes
<1>1. q \in Nat /\ m \in Nat /\ m < TwoBytes /\ v = (TwoBytes * q) + m
  BY DivMod, TwoBytesFacts
<1>2. Word(v) = [lo |-> m, hi |-> q]
  BY DEF Word
<1> HIDE DEF q, m
<1>3. Word(v).lo = m /\ Word(v).hi = q
  BY <1>2
<1>4. Word(v) \in WordType
  BY <1>1, <1>2, TwoBytesFacts DEF WordType
<1>5. Count(Word(v)) = v
  BY <1>1, <1>3, TwoBytesFacts DEF Count
<1>6. v < TwoBytes => m = v
  <2> SUFFICES ASSUME v < TwoBytes PROVE q = 0
    BY <1>1, TwoBytesFacts
  <2>1. \A t \in Nat \ {0}, h \in Nat : t * h < t => h = 0
    OBVIOUS
  <2>2. TwoBytes * q < TwoBytes
    BY <1>1, TwoBytesFacts
  <2> QED BY <1>1, <2>1, <2>2, TwoBytesFacts
<1> QED BY <1>3, <1>4, <1>5, <1>6

LEMMA WordTyped ==
  /\ MEASURED \in WordType
  /\ \A w \in WordType : w.lo \in Nat /\ w.lo < TwoBytes /\ w.hi \in Nat /\ Count(w) \in Nat
<1>1. 0 \in Half /\ \A x \in Half : x \in Nat /\ x < TwoBytes
  BY TwoBytesFacts
<1>2. MEASURED \in WordType
  BY <1>1 DEF MEASURED, WordType
<1>3. \A w \in WordType : w.lo \in Half /\ w.hi \in Nat
  BY DEF WordType
<1>4. \A x, y \in Nat : x + TwoBytes * y \in Nat
  BY TwoBytesFacts
<1> QED BY <1>1, <1>2, <1>3, <1>4 DEF Count

LEMMA SeqOfFunction ==
  ASSUME NEW S, NEW n \in Nat, NEW s \in [1..n -> S]
  PROVE  s \in Seq(S) /\ Len(s) = n
<1>1. s \in Seq(S)
  BY SeqDef
<1>2. DOMAIN s = 1..n /\ DOMAIN s = 1..Len(s) /\ Len(s) \in Nat
  BY <1>1, LenProperties
<1> QED BY <1>1, <1>2

LEMMA Joined ==
  ASSUME NEW S, NEW s \in Seq(S), NEW t \in Seq(S)
  PROVE  /\ s \o t \in Seq(S) /\ Len(s \o t) = Len(s) + Len(t)
         /\ \A i \in 1..Len(s) : (s \o t)[i] = s[i]
         /\ \A i \in 1..Len(t) : (s \o t)[Len(s) + i] = t[i]
<1>1. Len(s) \in Nat /\ Len(t) \in Nat
  BY LenProperties
<1>2. /\ s \o t \in Seq(S) /\ Len(s \o t) = Len(s) + Len(t)
      /\ \A i \in 1..(Len(s) + Len(t)) : (s \o t)[i] = IF i <= Len(s) THEN s[i] ELSE t[i - Len(s)]
  BY ConcatProperties
<1>3. \A i \in 1..Len(s) : (s \o t)[i] = s[i]
  BY <1>1, <1>2
<1>4. \A i \in 1..Len(t) : (s \o t)[Len(s) + i] = t[i]
  <2> SUFFICES ASSUME NEW i \in 1..Len(t) PROVE (s \o t)[Len(s) + i] = t[i]
    OBVIOUS
  <2>1. Len(s) + i \in 1..(Len(s) + Len(t)) /\ ~(Len(s) + i <= Len(s)) /\ (Len(s) + i) - Len(s) = i
    BY <1>1
  <2> QED BY <1>2, <2>1
<1> QED BY <1>2, <1>3, <1>4

(* What a sensor may send.                                                 *)
LEMMA SensorTyped ==
  ASSUME NEW f \in SensorFrame
  PROVE  /\ f.reading \in [kind : DataKind, sensor : Nat, items : Nat]
         /\ f.padding \in Nat /\ f.t \in Nat /\ f.t < TwoBytes
<1>1. f.reading \in Reading /\ f.padding \in Padding /\ f.t \in TimeBits
  BY DEF SensorFrame
<1>2. f.t \in Half
  BY <1>1, ProfinetAssumption
<1>3. \A x \in Half : x \in Nat /\ x < TwoBytes
  BY TwoBytesFacts
<1>4. f.reading \in [kind : DataKind, sensor : Nat, items : Nat]
  BY <1>1, ProfinetAssumption
<1>5. f.padding \in Nat
  <2>1. Padding \subseteq Nat
    BY ProfinetAssumption
  <2> QED BY <1>1, <2>1
<1> QED BY <1>2, <1>3, <1>4, <1>5

LEMMA PayloadFacts ==
  ASSUME NEW r \in [kind : DataKind, sensor : Nat, items : Nat]
  PROVE  /\ Payload(r) \in Seq(WordType) /\ Len(Payload(r)) = 4 + r.items
         /\ Payload(r)[1] = Word(r.sensor) /\ Payload(r)[3] = Word(r.items)
<1> DEFINE h == <<Word(r.sensor), MEASURED, Word(r.items)>>
           b == [i \in 1..r.items |-> MEASURED]
           z == Zeros(1)
<1>1. r.sensor \in Nat /\ r.items \in Nat
  OBVIOUS
<1>2. Word(r.sensor) \in WordType /\ Word(r.items) \in WordType /\ MEASURED \in WordType /\ Word(0) \in WordType
  BY <1>1, WordFacts, WordTyped
<1>3. h \in Seq(WordType) /\ Len(h) = 3 /\ h[1] = Word(r.sensor) /\ h[3] = Word(r.items)
  BY <1>2
<1>4. b \in Seq(WordType) /\ Len(b) = r.items
  <2>1. b \in [1..r.items -> WordType]
    BY <1>2
  <2> HIDE DEF b
  <2> QED BY <1>1, <2>1, SeqOfFunction
<1>5. z \in Seq(WordType) /\ Len(z) = 1
  <2> DEFINE n == 1
  <2>1. z \in [1..n -> WordType] /\ n \in Nat
    BY <1>2 DEF Zeros
  <2> HIDE DEF z, n
  <2>2. z \in Seq(WordType) /\ Len(z) = n
    BY <2>1, SeqOfFunction
  <2> QED BY <2>2 DEF n
<1>6. Payload(r) = (h \o b) \o z
  BY DEF Payload
<1> HIDE DEF h, b, z
<1>7. /\ h \o b \in Seq(WordType) /\ Len(h \o b) = 3 + r.items
      /\ (h \o b)[1] = h[1] /\ (h \o b)[3] = h[3]
  <2>1. h \in Seq(WordType) /\ b \in Seq(WordType)
    BY <1>3, <1>4
  <2>2. /\ h \o b \in Seq(WordType) /\ Len(h \o b) = Len(h) + Len(b)
        /\ \A i \in 1..Len(h) : (h \o b)[i] = h[i]
    BY <2>1, Joined
  <2> QED BY <1>1, <1>3, <1>4, <2>2
<1> DEFINE hb == h \o b
<1>8. /\ hb \o z \in Seq(WordType) /\ Len(hb \o z) = 4 + r.items
      /\ (hb \o z)[1] = hb[1] /\ (hb \o z)[3] = hb[3]
  <2> HIDE DEF hb
  <2>1. hb \in Seq(WordType) /\ Len(hb) = 3 + r.items
    BY <1>7 DEF hb
  <2>2. 1 \in 1..Len(hb) /\ 3 \in 1..Len(hb)
    BY <1>1, <2>1
  <2>3. hb \in Seq(WordType) /\ z \in Seq(WordType)
    BY <1>5, <2>1
  <2> DEFINE g == hb \o z
  <2>4. /\ g \in Seq(WordType) /\ Len(g) = Len(hb) + Len(z)
        /\ \A i \in 1..Len(hb) : g[i] = hb[i]
    BY <2>3, Joined
  <2> HIDE DEF g
  <2>5. Len(g) = 4 + r.items
    BY <1>1, <1>5, <2>1, <2>4
  <2>6. g[1] = hb[1] /\ g[3] = hb[3]
    BY <2>2, <2>4
  <2> QED BY <2>4, <2>5, <2>6 DEF g
<1> QED BY <1>3, <1>6, <1>7, <1>8

(* A packet of a frame, and where the parser finds what.                   *)
LEMMA PacketFacts ==
  ASSUME NEW f \in SensorFrame, NEW n \in Nat
  PROVE  /\ Packet(f, n) \in Seq(WordType)
         /\ Len(Packet(f, n)) = 5 + f.padding + Len(Payload(f.reading))
         /\ Packet(f, n)[1].lo = f.reading.kind /\ Packet(f, n)[2] = Word(n)
         /\ Packet(f, n)[4].lo = f.t /\ Packet(f, n)[5].hi = Len(Payload(f.reading))
         /\ \A i \in 1..Len(Payload(f.reading)) :
              Packet(f, n)[5 + f.padding + i] = Payload(f.reading)[i]
<1> DEFINE p == Payload(f.reading)
           h == << [lo |-> f.reading.kind, hi |-> 257], Word(n), Word(0), Word(f.t),
                   [lo |-> 1, hi |-> Len(p)] >>
           z == Zeros(f.padding)
<1>1. /\ f.reading \in [kind : DataKind, sensor : Nat, items : Nat]
      /\ f.padding \in Nat /\ f.t \in Nat /\ f.t < TwoBytes
  BY SensorTyped
<1>2. p \in Seq(WordType) /\ Len(p) \in Nat
  <2>1. p \in Seq(WordType)
    BY <1>1, PayloadFacts
  <2> HIDE DEF p
  <2> QED BY <2>1, LenProperties
<1>3. Packet(f, n) = (h \o z) \o p
  BY DEF Packet
<1> HIDE DEF p
<1>4. /\ h \in Seq(WordType) /\ Len(h) = 5
      /\ h[1].lo = f.reading.kind /\ h[2] = Word(n) /\ h[4] = Word(f.t) /\ h[5].hi = Len(p)
  <2>1. f.reading.kind \in Half /\ 1 \in Half
    <3>1. f.reading.kind \in DataKind
      BY <1>1
    <3> QED BY <3>1, TwoBytesFacts
  <2>2. [lo |-> f.reading.kind, hi |-> 257] \in WordType /\ [lo |-> 1, hi |-> Len(p)] \in WordType
    BY <1>2, <2>1 DEF WordType
  <2>3. Word(n) \in WordType /\ Word(0) \in WordType /\ Word(f.t) \in WordType
    BY <1>1, WordFacts
  <2> QED BY <2>2, <2>3
<1>5. z \in Seq(WordType) /\ Len(z) = f.padding
  <2>1. z \in [1..f.padding -> WordType]
    BY WordFacts DEF Zeros
  <2> HIDE DEF z
  <2> QED BY <1>1, <2>1, SeqOfFunction
<1>6. Word(f.t).lo = f.t
  BY <1>1, WordFacts
<1> HIDE DEF h, z
<1> DEFINE hz == h \o z
<1>7. /\ hz \in Seq(WordType) /\ Len(hz) = 5 + f.padding
      /\ \A i \in 1..5 : hz[i] = h[i]
  <2>1. h \in Seq(WordType) /\ z \in Seq(WordType)
    BY <1>4, <1>5
  <2>2. /\ hz \in Seq(WordType) /\ Len(hz) = Len(h) + Len(z)
        /\ \A i \in 1..Len(h) : hz[i] = h[i]
    BY <2>1, Joined
  <2> HIDE DEF hz
  <2> QED BY <1>4, <1>5, <2>2
<1> HIDE DEF hz
<1> DEFINE k == hz \o p
<1>8. /\ k \in Seq(WordType) /\ Len(k) = 5 + f.padding + Len(p)
      /\ \A i \in 1..(5 + f.padding) : k[i] = hz[i]
      /\ \A i \in 1..Len(p) : k[5 + f.padding + i] = p[i]
  <2>1. hz \in Seq(WordType) /\ p \in Seq(WordType)
    BY <1>2, <1>7
  <2>2. /\ k \in Seq(WordType) /\ Len(k) = Len(hz) + Len(p)
        /\ \A i \in 1..Len(hz) : k[i] = hz[i]
        /\ \A i \in 1..Len(p) : k[Len(hz) + i] = p[i]
    BY <2>1, Joined
  <2>3. Len(hz) = 5 + f.padding
    BY <1>7
  <2> HIDE DEF k
  <2> QED BY <2>2, <2>3
<1>9. Packet(f, n) = k
  BY <1>3, Zenon DEF k, hz
<1>10. k[1] = h[1] /\ k[2] = h[2] /\ k[4] = h[4] /\ k[5] = h[5]
  <2> HIDE DEF k
  <2>1. \A i \in {1, 2, 4, 5} : i \in 1..5 /\ i \in 1..(5 + f.padding)
    BY <1>1
  <2> QED BY <1>7, <1>8, <2>1
<1> HIDE DEF k
<1> QED BY <1>4, <1>6, <1>8, <1>9, <1>10 DEF p

(* Without padding, the parser gets from a packet what was sent.           *)
LEMMA PacketDecodes ==
  ASSUME NEW f \in SensorFrame, NEW n \in Nat, f.padding = 0
  PROVE  OutcomeOf(Packet(f, n)) = [what |-> "handed over", data |-> f.reading, cycle |-> n]
<1> DEFINE k == Packet(f, n)
           p == Payload(f.reading)
           q == PayloadOf(k)
<1>1. /\ k \in Seq(WordType) /\ Len(k) = 5 + Len(p) /\ k[1].lo = f.reading.kind /\ k[2] = Word(n)
      /\ k[5].hi = Len(p) /\ \A i \in 1..Len(p) : k[5 + i] = p[i]
  <2>1. Len(p) \in Nat
    <3>1. f.reading \in [kind : DataKind, sensor : Nat, items : Nat]
      BY SensorTyped
    <3>2. p \in Seq(WordType)
      BY <3>1, PayloadFacts
    <3> HIDE DEF p
    <3> QED BY <3>2, LenProperties
  <2>2. /\ k \in Seq(WordType) /\ Len(k) = 5 + f.padding + Len(p) /\ k[1].lo = f.reading.kind /\ k[2] = Word(n)
        /\ k[5].hi = Len(p) /\ \A i \in 1..Len(p) : k[5 + f.padding + i] = p[i]
    BY PacketFacts
  <2> HIDE DEF k, p
  <2> QED BY <2>1, <2>2
<1>2. /\ f.reading \in [kind : DataKind, sensor : Nat, items : Nat]
      /\ p \in Seq(WordType) /\ Len(p) = 4 + f.reading.items
      /\ p[1] = Word(f.reading.sensor) /\ p[3] = Word(f.reading.items)
  <2>1. f.reading \in [kind : DataKind, sensor : Nat, items : Nat]
    BY SensorTyped
  <2> QED BY <2>1, PayloadFacts
<1>3. q = SubSeq(k, 6, 5 + k[5].hi)
  BY DEF PayloadOf
<1>4. OutcomeOf(k) =
        IF ~Parses(k) THEN Discarded
        ELSE IF k[1].lo \notin DataKind THEN Acknowledged(k)
        ELSE IF Readable(q) THEN HandedOver(k) ELSE Discarded
  BY DEF OutcomeOf
<1>5. HandedOver(k) = [what |-> "handed over", data |-> Data(k[1].lo, q), cycle |-> Count(k[2])]
  BY DEF HandedOver
<1> HIDE DEF k, p, q
<1>6. q = p
  <2>1. \A i \in 6..(5 + Len(p)) : k[i] \in WordType
    <3>1. Len(p) \in Nat
      BY <1>2
    <3> QED BY <1>1, <3>1, ElementOfSeq
  <2>2. /\ q \in Seq(WordType) /\ Len(q) = Len(p)
        /\ \A i \in 1..Len(p) : q[i] = k[6 + i - 1]
    <3>1. Len(p) \in Nat /\ 5 + Len(p) \in Int /\ q = SubSeq(k, 6, 5 + Len(p))
      BY SMTT(20), <1>1, <1>2, <1>3
    <3>2. /\ q \in Seq(WordType) /\ Len(q) = IF 6 <= 5 + Len(p) THEN (5 + Len(p)) - 6 + 1 ELSE 0
          /\ \A i \in 1..((5 + Len(p)) - 6 + 1) : q[i] = k[6 + i - 1]
      BY <2>1, <3>1, SubSeqProperties
    <3> QED BY <3>1, <3>2
  <2>3. \A i \in 1..Len(q) : q[i] = p[i]
    <3> SUFFICES ASSUME NEW i \in 1..Len(p) PROVE q[i] = p[i]
      BY <2>2
    <3>1. 6 + i - 1 = 5 + i
      BY <1>2
    <3> QED BY <1>1, <2>2, <3>1
  <2> QED BY <1>2, <2>2, <2>3, SeqEqual
<1>7. f.reading.sensor \in Nat /\ f.reading.items \in Nat
  BY <1>2
<1>8. Count(p[1]) = f.reading.sensor /\ Count(p[3]) = f.reading.items /\ Count(k[2]) = n
  <2>1. p[1] = Word(f.reading.sensor) /\ p[3] = Word(f.reading.items) /\ k[2] = Word(n)
    BY <1>1, <1>2
  <2>2. \A v \in Nat : Count(Word(v)) = v
    BY WordFacts
  <2> QED BY <1>7, <2>1, <2>2
<1>9. Parses(k) /\ Readable(q)
  <2>1. Parses(k)
    BY <1>1, <1>2, <1>7 DEF Parses
  <2>2. Readable(p)
    BY <1>2, <1>7, <1>8 DEF Readable
  <2> QED BY <1>6, <2>1, <2>2
<1>10. k[1].lo \in DataKind
  BY <1>1, <1>2
<1>11. Data(k[1].lo, p) = f.reading
  BY <1>1, <1>2, <1>8 DEF Data
<1>12. OutcomeOf(k) = [what |-> "handed over", data |-> f.reading, cycle |-> n]
  BY <1>4, <1>5, <1>6, <1>8, <1>9, <1>10, <1>11
<1> QED BY <1>12 DEF k

(***************************************************************************)
(* A session has cut the words w it has read at the ends e, and b is the   *)
(* rest; its frames came out as o.  It may have discarded some when its    *)
(* connection, in the state st, was reset.                                 *)
(***************************************************************************)
Outcome == {Discarded} \cup {OutcomeOf(w) : w \in Seq(WordType)}

EndOf(e, k) == IF k = 0 THEN 0 ELSE e[k]

Cut(w, e, x, st, k) ==
  /\ EndOf(e, k - 1) \in Nat /\ EndOf(e, k - 1) + 4 <= Len(w)
  /\ EndOf(e, k) = EndOf(e, k - 1) + 4 + w[EndOf(e, k - 1) + 4].lo
  /\ 4 * k <= EndOf(e, k) /\ EndOf(e, k) <= Len(w)
  /\ \/ x = OutcomeOf(SubSeq(w, EndOf(e, k - 1) + 1, EndOf(e, k)))
     \/ st = "reset" /\ x = Discarded

NextEnd(w, z, y) == z + 4 <= Len(w) /\ y = z + 4 + w[z + 4].lo

SessionOK(w, e, o, b, a, st) ==
  /\ w \in Seq(WordType) /\ e \in Seq(Nat) /\ o \in Seq(Outcome) /\ Len(e) = Len(o)
  /\ \A k \in 1..Len(o) : Cut(w, e, o[k], st, k)
  /\ b = SubSeq(w, EndOf(e, Len(o)) + 1, Len(w))
  /\ a = "read" => ~Whole(b)

LEMMA RestFacts ==
  ASSUME NEW w, NEW e, NEW o, NEW b, NEW a, NEW st, SessionOK(w, e, o, b, a, st)
  PROVE  /\ Len(o) \in Nat /\ Len(w) \in Nat /\ EndOf(e, Len(o)) \in 0..Len(w) /\ 4 * Len(o) <= EndOf(e, Len(o))
         /\ b \in Seq(WordType) /\ Len(b) = Len(w) - EndOf(e, Len(o))
         /\ \A i \in 1..Len(b) : b[i] = w[EndOf(e, Len(o)) + i]
<1> DEFINE n == Len(o)
           z == EndOf(e, n)
<1>1. w \in Seq(WordType) /\ o \in Seq(Outcome) /\ b = SubSeq(w, z + 1, Len(w))
  BY DEF SessionOK
<1>2. n \in Nat /\ Len(w) \in Nat
  BY <1>1, LenProperties
<1>3. z \in 0..Len(w) /\ 4 * n <= z
  <2>1. CASE n = 0
    BY <1>2, <2>1 DEF EndOf
  <2>2. CASE n # 0
    <3>1. e \in Seq(Nat) /\ Len(e) = n /\ n \in 1..Len(e) /\ n \in 1..n
      BY <1>2, <2>2 DEF SessionOK
    <3>2. e[n] \in Nat
      BY <3>1, ElementOfSeq
    <3>3. Cut(w, e, o[n], st, n)
      BY <3>1 DEF SessionOK
    <3>4. z = e[n] /\ 4 * n <= z /\ z <= Len(w)
      BY <2>2, <3>3 DEF EndOf, Cut
    <3> QED BY <1>2, <3>2, <3>4
  <2> QED BY <2>1, <2>2
<1> HIDE DEF n, z
<1>4. /\ b \in Seq(WordType) /\ Len(b) = Len(w) - z
      /\ \A i \in 1..Len(b) : b[i] = w[z + i]
  BY <1>1, <1>3, RestOf
<1> QED BY <1>2, <1>3, <1>4 DEF n, z

(* A frame stays cut when more is read, and when the connection dies.      *)
LEMMA CutKeeps ==
  ASSUME NEW w \in Seq(WordType), NEW t \in Seq(WordType), NEW e, NEW x, NEW st, NEW k \in Nat \ {0},
         Cut(w, e, x, st, k)
  PROVE  Cut(w \o t, e, x, st, k)
<1> DEFINE i == EndOf(e, k - 1)
           j == EndOf(e, k)
           v == w \o t
<1>1. /\ i \in Nat /\ i + 4 <= Len(w) /\ j = i + 4 + w[i + 4].lo /\ 4 * k <= j /\ j <= Len(w)
      /\ x = OutcomeOf(SubSeq(w, i + 1, j)) \/ (st = "reset" /\ x = Discarded)
  BY DEF Cut
<1>2. Len(w) \in Nat /\ Len(t) \in Nat
  BY LenProperties
<1>3. v \in Seq(WordType) /\ Len(v) = Len(w) + Len(t) /\ \A m \in 1..Len(w) : v[m] = w[m]
  BY Joined
<1> HIDE DEF i, j, v
<1>4. v[i + 4] = w[i + 4]
  BY <1>1, <1>2, <1>3
<1>5. w[i + 4].lo \in Nat
  <2>1. i + 4 \in 1..Len(w)
    BY <1>1, <1>2
  <2> QED BY <2>1, ElementOfSeq, WordTyped
<1>6. SubSeq(v, i + 1, j) = SubSeq(w, i + 1, j)
  <2>1. i + 1 \in 1..Len(w) /\ j \in 1..Len(w)
    BY <1>1, <1>2, <1>5
  <2> QED BY <2>1, SubSeqOfConcat1 DEF v
<1>7. i + 4 <= Len(v) /\ j <= Len(v)
  BY <1>1, <1>2, <1>3, <1>5
<1> QED BY <1>1, <1>4, <1>6, <1>7 DEF Cut, i, j, v

LEMMA SessionReads ==
  ASSUME NEW w, NEW e, NEW o, NEW b, NEW a, NEW st, SessionOK(w, e, o, b, a, st), NEW t \in Seq(WordType)
  PROVE  SessionOK(w \o t, e, o, b \o t, "parse", st)
<1>1. /\ w \in Seq(WordType) /\ EndOf(e, Len(o)) \in 0..Len(w) /\ Len(o) \in Nat
      /\ b = SubSeq(w, EndOf(e, Len(o)) + 1, Len(w))
  <2>1. EndOf(e, Len(o)) \in 0..Len(w) /\ Len(o) \in Nat
    BY RestFacts
  <2> QED BY <2>1 DEF SessionOK
<1>2. w \o t \in Seq(WordType)
  BY <1>1, Joined
<1>3. b \o t = SubSeq(w \o t, EndOf(e, Len(o)) + 1, Len(w \o t))
  <2> DEFINE z == EndOf(e, Len(o))
  <2>1. z \in 0..Len(w) /\ b = SubSeq(w, z + 1, Len(w))
    BY <1>1
  <2> HIDE DEF z
  <2>2. SubSeq(w, z + 1, Len(w)) \o t = SubSeq(w \o t, z + 1, Len(w \o t))
    BY <1>1, <2>1, RestOfConcat
  <2> QED BY <2>1, <2>2 DEF z
<1>4. \A k \in 1..Len(o) : Cut(w \o t, e, o[k], st, k)
  BY <1>1, CutKeeps DEF SessionOK
<1> QED BY <1>2, <1>3, <1>4 DEF SessionOK

LEMMA SessionKeeps ==
  ASSUME NEW w, NEW e, NEW o, NEW b, NEW a, NEW st, SessionOK(w, e, o, b, a, st),
         NEW new, st = "reset" => new = "reset"
  PROVE  SessionOK(w, e, o, b, a, new)
BY DEF SessionOK, Cut

(* Part of a frame is never longer than the buffer may be.                 *)
LEMMA SessionWaits ==
  ASSUME NEW w, NEW e, NEW o, NEW b, NEW a, NEW st, SessionOK(w, e, o, b, a, st), ~Whole(b)
  PROVE  SessionOK(w, e, o, b, "read", st) /\ ~(Len(b) > MaxFrameBuf)
<1>1. SessionOK(w, e, o, b, "read", st)
  BY DEF SessionOK
<1>2. b \in Seq(WordType) /\ Len(b) \in Nat
  BY RestFacts, LenProperties
<1>3. MaxFrameBuf \in Nat /\ 4 + (TwoBytes - 1) <= MaxFrameBuf
  BY ProfinetAssumption
<1> DEFINE most == 4 + (TwoBytes - 1)
<1>4. most \in Nat /\ 4 <= most /\ most <= MaxFrameBuf /\ \A x \in Nat : x < TwoBytes => 4 + x <= most
  BY <1>3, TwoBytesFacts
<1> HIDE DEF most
<1>5. CASE Len(b) < 4
  BY <1>1, <1>2, <1>3, <1>4, <1>5
<1>6. CASE 4 <= Len(b)
  <2>1. b[4] \in WordType
    BY <1>2, <1>6, ElementOfSeq
  <2>2. b[4].lo \in Nat /\ b[4].lo < TwoBytes
    BY <2>1, WordTyped
  <2>3. Len(b) < 4 + b[4].lo
    BY <1>2, <1>6, <2>2 DEF Whole, FrameTotal, HEADER_SIZE
  <2>4. 4 + b[4].lo <= most
    BY <1>4, <2>2
  <2> QED BY <1>1, <1>2, <1>3, <1>4, <2>2, <2>3, <2>4
<1> QED BY <1>2, <1>5, <1>6

(* A round of the loop cuts the next frame.                                *)
LEMMA SessionCuts ==
  ASSUME NEW w, NEW e, NEW o, NEW b, NEW a, NEW st, SessionOK(w, e, o, b, a, st), Whole(b),
         NEW r, r = SubSeq(b, FrameTotal(b) + 1, Len(b)),
         NEW x, x = OutcomeOf(SubSeq(b, 1, FrameTotal(b))) \/ (st = "reset" /\ x = Discarded)
  PROVE  /\ SessionOK(w, Append(e, Len(w) - Len(r)), Append(o, x), r, "parse", st)
         /\ NextEnd(w, EndOf(e, Len(o)), Len(w) - Len(r))
<1> DEFINE n == Len(o)
           z == EndOf(e, n)
           total == FrameTotal(b)
<1>1. /\ n \in Nat /\ Len(w) \in Nat /\ z \in 0..Len(w) /\ 4 * n <= z
      /\ b \in Seq(WordType) /\ Len(b) = Len(w) - z
      /\ \A i \in 1..Len(b) : b[i] = w[z + i]
  BY RestFacts
<1>2. /\ w \in Seq(WordType) /\ e \in Seq(Nat) /\ o \in Seq(Outcome) /\ Len(e) = n
      /\ b = SubSeq(w, z + 1, Len(w))
  BY DEF SessionOK
<1>3. 4 <= Len(b) /\ total <= Len(b) /\ total = 4 + b[4].lo
  BY DEF Whole, FrameTotal, HEADER_SIZE
<1> HIDE DEF n, z, total
<1>4. b[4] = w[z + 4] /\ w[z + 4].lo \in Nat /\ total \in Nat /\ z + 4 <= Len(w)
  <2>1. b[4] = w[z + 4] /\ z + 4 \in 1..Len(w)
    BY <1>1, <1>3
  <2>2. w[z + 4] \in WordType
    BY <1>2, <2>1, ElementOfSeq
  <2>3. w[z + 4].lo \in Nat
    BY <2>2, WordTyped
  <2>4. total \in Nat
    <3> DEFINE l == w[z + 4].lo
    <3>1. total = 4 + l /\ l \in Nat
      BY <1>3, <2>1, <2>3
    <3> HIDE DEF l
    <3> QED BY <3>1
  <2>5. z + 4 <= Len(w)
    BY <1>1, <2>1
  <2> QED BY <2>1, <2>3, <2>4, <2>5
<1>20. Len(b) \in Nat /\ total + 1 \in Nat \ {0} /\ z + total \in 0..Len(w) /\ 1 \in Nat \ {0}
  <2>1. /\ Len(w) \in Nat /\ z \in 0..Len(w) /\ Len(b) = Len(w) - z
        /\ total <= Len(b) /\ total \in Nat
    BY <1>1, <1>3, <1>4
  <2> QED BY <2>1
<1>5. SubSeq(b, 1, total) = SubSeq(w, z + 1, z + total)
  <2>1. /\ w \in Seq(WordType) /\ z \in 0..Len(w) /\ b = SubSeq(w, z + 1, Len(w))
        /\ total \in Nat /\ total <= Len(b)
    BY <1>1, <1>2, <1>3, <1>4
  <2> QED BY <1>20, <2>1, SliceOfRest
<1>6. r = SubSeq(w, z + total + 1, Len(w)) /\ Len(r) = Len(w) - (z + total)
  <2>1. w \in Seq(WordType) /\ z \in 0..Len(w) /\ b = SubSeq(w, z + 1, Len(w))
    BY <1>1, <1>2
  <2>2. r = SubSeq(b, total + 1, Len(b))
    BY DEF total
  <2>3. SubSeq(b, total + 1, Len(b)) = SubSeq(w, z + (total + 1), z + Len(b))
    <3> DEFINE i == total + 1
               j == Len(b)
    <3>1. i \in Nat \ {0} /\ j \in Nat /\ j <= Len(b)
      BY <1>20
    <3> HIDE DEF i, j
    <3>2. SubSeq(b, i, j) = SubSeq(w, z + i, z + j)
      BY <2>1, <3>1, SliceOfRest
    <3> QED BY <3>2 DEF i, j
  <2>4. z + (total + 1) = z + total + 1 /\ z + Len(b) = Len(w)
    <3>1. Len(w) \in Nat /\ z \in 0..Len(w) /\ Len(b) = Len(w) - z /\ total \in Nat
      BY <1>1, <1>4
    <3> QED BY <3>1
  <2>5. r = SubSeq(w, z + total + 1, Len(w))
    BY <2>2, <2>3, <2>4
  <2>6. Len(r) = Len(w) - (z + total)
    <3> DEFINE u == z + total
    <3>1. u \in 0..Len(w) /\ r = SubSeq(w, u + 1, Len(w))
      BY <1>20, <2>5
    <3> HIDE DEF u
    <3>2. Len(r) = Len(w) - u
      BY <2>1, <3>1, RestOf
    <3> QED BY <3>2 DEF u
  <2> QED BY <2>5, <2>6
<1> DEFINE y == z + total
           ee == Append(e, y)
           oo == Append(o, x)
<1>7. Len(w) - Len(r) = y /\ y = z + 4 + w[z + 4].lo /\ y \in Nat /\ y <= Len(w)
  <2>1. Len(w) \in Nat /\ z \in 0..Len(w) /\ Len(r) = Len(w) - (z + total) /\ total \in Nat
    BY <1>1, <1>4, <1>6
  <2>2. total = 4 + w[z + 4].lo /\ w[z + 4].lo \in Nat
    BY <1>3, <1>4
  <2>3. z + total = z + 4 + w[z + 4].lo
    <3> DEFINE l == w[z + 4].lo
    <3>1. total = 4 + l /\ l \in Nat /\ z \in Nat
      BY <2>1, <2>2
    <3> HIDE DEF l
    <3>2. z + total = z + 4 + l
      BY <3>1
    <3> QED BY <3>2 DEF l
  <2>4. Len(w) - (Len(w) - (z + total)) = z + total /\ z + total \in Nat /\ z + total <= Len(w)
    BY <1>20, <2>1
  <2> QED BY <2>1, <2>3, <2>4
<1>8. x \in Outcome
  <2>1. SubSeq(b, 1, total) \in Seq(WordType)
    <3>1. \A i \in 1..total : b[i] \in WordType
      BY <1>1, <1>3, <1>4, ElementOfSeq
    <3> QED BY <1>4, <3>1, SubSeqProperties
  <2> QED BY <2>1 DEF Outcome, total
<1> HIDE DEF y
<1>9. /\ ee \in Seq(Nat) /\ Len(ee) = n + 1 /\ ee[n + 1] = y /\ \A i \in 1..n : ee[i] = e[i]
  BY SMTT(20), <1>1, <1>2, <1>7, AppendProperties
<1>10. /\ oo \in Seq(Outcome) /\ Len(oo) = n + 1 /\ oo[n + 1] = x /\ \A i \in 1..n : oo[i] = o[i]
  <2>1. Len(o) = n
    BY DEF n
  <2> QED BY SMTT(60), <1>1, <1>2, <1>8, <2>1, AppendProperties
<1> HIDE DEF ee, oo
<1>11. /\ \A k \in 0..n : EndOf(ee, k) = EndOf(e, k)
       /\ EndOf(ee, n + 1) = y
  <2>1. \A k \in 0..n : k # 0 => k \in 1..n
    BY <1>1
  <2>2. n + 1 # 0
    BY <1>1
  <2> QED BY <1>9, <2>1, <2>2 DEF EndOf
<1>12. \A k \in 1..(n + 1) : Cut(w, ee, oo[k], st, k)
  <2> SUFFICES ASSUME NEW k \in 1..(n + 1) PROVE Cut(w, ee, oo[k], st, k)
    OBVIOUS
  <2>1. CASE k <= n
    <3>1. /\ k \in 1..n /\ oo[k] = o[k]
          /\ EndOf(ee, k - 1) = EndOf(e, k - 1) /\ EndOf(ee, k) = EndOf(e, k)
      <4>1. k \in 1..n /\ k \in 0..n /\ k - 1 \in 0..n
        BY <1>1, <2>1
      <4> QED BY <1>10, <1>11, <4>1
    <3>2. Cut(w, e, o[k], st, k)
      BY <3>1 DEF SessionOK, n
    <3> QED BY <3>1, <3>2 DEF Cut
  <2>2. CASE k = n + 1
    <3>1. EndOf(ee, k - 1) = z /\ EndOf(ee, k) = y /\ oo[k] = x
      BY <1>1, <1>10, <1>11, <2>2 DEF z
    <3>2. x = OutcomeOf(SubSeq(w, z + 1, y)) \/ (st = "reset" /\ x = Discarded)
      BY <1>5 DEF total, y
    <3>3. 4 * k <= y /\ z \in Nat
      <4>1. n \in Nat /\ z \in Nat /\ 4 * n <= z /\ w[z + 4].lo \in Nat /\ y = z + 4 + w[z + 4].lo
        BY <1>1, <1>4, <1>7
      <4> QED BY <2>2, <4>1
    <3>4. z + 4 <= Len(w) /\ y = z + 4 + w[z + 4].lo /\ y <= Len(w)
      BY <1>4, <1>7
    <3> QED BY <3>1, <3>2, <3>3, <3>4 DEF Cut
  <2> QED BY <1>1, <2>1, <2>2
<1>13. EndOf(ee, Len(oo)) = y /\ Len(ee) = Len(oo)
  BY <1>9, <1>10, <1>11
<1>14. r = SubSeq(w, y + 1, Len(w))
  BY <1>6 DEF y
<1>15. SessionOK(w, ee, oo, r, "parse", st)
  BY <1>2, <1>9, <1>10, <1>12, <1>13, <1>14 DEF SessionOK
<1>16. NextEnd(w, z, y)
  BY <1>4, <1>7 DEF NextEnd
<1> QED BY <1>7, <1>15, <1>16 DEF n, z, ee, oo

(***************************************************************************)
(* The packets of the frames s begin in the words w where p tells; a       *)
(* connection that was reset has lost the last ones.                       *)
(***************************************************************************)
Layout(p, s, w, st) ==
  /\ p \in [0..Len(s) -> Nat] /\ p[0] = 0
  /\ \A k \in 1..Len(s) : p[k] = p[k - 1] + Len(Packet(s[k], k))
  /\ \A i, j \in 0..Len(s) : i < j => p[i] < p[j]
  /\ Len(w) <= p[Len(s)] /\ (st = "reset" \/ Len(w) = p[Len(s)])
  /\ \A k \in 1..Len(s) : \A i \in 1..Len(Packet(s[k], k)) :
       p[k - 1] + i <= Len(w) => w[p[k - 1] + i] = Packet(s[k], k)[i]

(* Where all frames fit, the session cuts where packets end.               *)
AllFit(s) == \A i \in 1..Len(s) : Fits(s[i])
CutsPackets(p, s, e, o) ==
  AllFit(s) => Len(o) <= Len(s) /\ \A k \in 0..Len(o) : EndOf(e, k) = p[k]

Laid(s, w, e, o, st) == \E p \in [0..Len(s) -> Nat] : Layout(p, s, w, st) /\ CutsPackets(p, s, e, o)

LEMMA LaidFirst == ASSUME NEW st PROVE Laid(<<>>, <<>>, <<>>, <<>>, st)
<1> DEFINE p == [k \in 0..0 |-> 0]
<1>1. Len(<<>>) = 0
  OBVIOUS
<1>2. p \in [0..0 -> Nat] /\ p[0] = 0
  OBVIOUS
<1> HIDE DEF p
<1>3. Layout(p, <<>>, <<>>, st)
  BY <1>1, <1>2 DEF Layout
<1>4. CutsPackets(p, <<>>, <<>>, <<>>)
  BY <1>1, <1>2 DEF CutsPackets, EndOf
<1> QED BY <1>1, <1>2, <1>3, <1>4 DEF Laid

LEMMA LaidKeeps ==
  ASSUME NEW s, NEW w, NEW e, NEW o, NEW st, Laid(s, w, e, o, st), NEW new, st # "reset"
  PROVE  Laid(s, w, e, o, new)
<1>1. PICK p \in [0..Len(s) -> Nat] : Layout(p, s, w, st) /\ CutsPackets(p, s, e, o)
  BY DEF Laid
<1>2. Layout(p, s, w, new)
  BY <1>1 DEF Layout
<1> QED BY <1>1, <1>2 DEF Laid

(* A packet more.                                                          *)
LEMMA LaidSends ==
  ASSUME NEW s \in Seq(SensorFrame), NEW w \in Seq(WordType), NEW e, NEW o, NEW st, st # "reset",
         Len(o) \in Nat, Laid(s, w, e, o, st), NEW f \in SensorFrame
  PROVE  Laid(Append(s, f), w \o Packet(f, Len(s) + 1), e, o, st)
<1>1. PICK p \in [0..Len(s) -> Nat] : Layout(p, s, w, st) /\ CutsPackets(p, s, e, o)
  BY DEF Laid
<1> DEFINE m == Len(s)
           k0 == Packet(f, m + 1)
           l == Len(k0)
           v == w \o k0
           r == Append(s, f)
           q == [k \in 0..(m + 1) |-> IF k <= m THEN p[k] ELSE p[m] + l]
<1>2. m \in Nat /\ Len(w) \in Nat
  BY LenProperties
<1>3. k0 \in Seq(WordType) /\ l \in Nat /\ 0 < l
  <2>1. /\ k0 \in Seq(WordType) /\ Len(k0) = 5 + f.padding + Len(Payload(f.reading))
        /\ f.padding \in Nat /\ Payload(f.reading) \in Seq(WordType)
    BY <1>2, PacketFacts, SensorTyped, PayloadFacts
  <2>2. Len(Payload(f.reading)) \in Nat
    BY <2>1, LenProperties
  <2> HIDE DEF k0
  <2> QED BY <2>1, <2>2
<1>4. r \in Seq(SensorFrame) /\ Len(r) = m + 1 /\ r[m + 1] = f /\ \A i \in 1..m : r[i] = s[i]
  BY AppendProperties
<1>5. /\ p \in [0..m -> Nat] /\ p[0] = 0
      /\ \A k \in 1..m : p[k] = p[k - 1] + Len(Packet(s[k], k))
      /\ \A i, j \in 0..m : i < j => p[i] < p[j]
      /\ Len(w) = p[m]
      /\ \A k \in 1..m : \A i \in 1..Len(Packet(s[k], k)) :
           p[k - 1] + i <= Len(w) => w[p[k - 1] + i] = Packet(s[k], k)[i]
  BY <1>1 DEF Layout
<1> HIDE DEF k0
<1>6. /\ Len(v) = Len(w) + l /\ \A i \in 1..Len(w) : v[i] = w[i]
      /\ \A i \in 1..l : v[Len(w) + i] = k0[i]
  BY <1>3, Joined
<1> HIDE DEF m, l, v, r
<1>7. /\ q \in [0..(m + 1) -> Nat] /\ q[m + 1] = p[m] + l
      /\ \A k \in 0..m : q[k] = p[k]
  <2>1. p[m] \in Nat
    BY <1>2, <1>5
  <2> QED BY <1>2, <1>3, <1>5, <2>1
<1> HIDE DEF q
<1>8. \A k \in 1..(m + 1) : q[k] = q[k - 1] + Len(Packet(r[k], k))
  <2> SUFFICES ASSUME NEW k \in 1..(m + 1) PROVE q[k] = q[k - 1] + Len(Packet(r[k], k))
    OBVIOUS
  <2>1. CASE k = m + 1
    <3>1. k - 1 = m /\ m \in 0..m
      BY <1>2, <2>1
    <3> QED BY <1>4, <1>7, <2>1, <3>1 DEF l, k0
  <2>2. CASE k <= m
    <3>1. k \in 1..m /\ k \in 0..m /\ k - 1 \in 0..m
      BY <1>2, <2>2
    <3> QED BY <1>4, <1>5, <1>7, <3>1
  <2> QED BY <1>2, <2>1, <2>2
<1>9. \A i, j \in 0..(m + 1) : i < j => q[i] < q[j]
  <2> SUFFICES ASSUME NEW i \in 0..(m + 1), NEW j \in 0..(m + 1), i < j PROVE q[i] < q[j]
    OBVIOUS
  <2>1. i \in 0..m /\ m \in 0..m
    BY <1>2
  <2>2. p[i] \in Nat /\ p[m] \in Nat /\ q[i] = p[i]
    BY <1>5, <1>7, <2>1
  <2>3. CASE j <= m
    <3>1. j \in 0..m
      BY <1>2, <2>3
    <3> QED BY <1>5, <1>7, <2>1, <3>1
  <2>4. CASE j = m + 1
    <3>1. p[i] <= p[m]
      <4>1. i < m => p[i] < p[m]
        BY <1>5, <2>1
      <4>2. i = m \/ i < m
        BY <1>2, <2>1
      <4> QED BY <2>2, <4>1, <4>2
    <3>2. q[j] = p[m] + l
      BY <1>7, <2>4
    <3> QED BY <1>3, <2>2, <3>1, <3>2
  <2> QED BY <1>2, <2>3, <2>4
<1>10. Len(v) = q[m + 1]
  BY <1>5, <1>6, <1>7
<1>11. \A k \in 1..(m + 1) : \A i \in 1..Len(Packet(r[k], k)) :
         q[k - 1] + i <= Len(v) => v[q[k - 1] + i] = Packet(r[k], k)[i]
  <2> SUFFICES ASSUME NEW k \in 1..(m + 1), NEW i \in 1..Len(Packet(r[k], k))
               PROVE  v[q[k - 1] + i] = Packet(r[k], k)[i]
    OBVIOUS
  <2>1. CASE k = m + 1
    <3>1. k - 1 = m /\ m \in 0..m /\ Packet(r[k], k) = k0
      BY <1>2, <1>4, <2>1 DEF k0, m
    <3>2. q[k - 1] = Len(w) /\ i \in 1..l
      BY <1>5, <1>7, <3>1 DEF l
    <3> QED BY <1>6, <3>1, <3>2
  <2>2. CASE k <= m
    <3>1. k \in 1..m /\ k \in 0..m /\ k - 1 \in 0..m
      BY <1>2, <2>2
    <3>2. q[k - 1] = p[k - 1] /\ r[k] = s[k] /\ p[k] = p[k - 1] + Len(Packet(s[k], k)) /\ p[k - 1] \in Nat
      BY <1>4, <1>5, <1>7, <3>1
    <3>3. p[k] <= p[m] /\ p[k] \in Nat /\ p[m] \in Nat
      <4>1. p[k] \in Nat /\ p[m] \in Nat /\ m \in 0..m
        BY <1>2, <1>5, <3>1
      <4>2. k < m => p[k] < p[m]
        BY <1>5, <3>1, <4>1
      <4>3. k = m \/ k < m
        BY <1>2, <3>1
      <4> QED BY <4>1, <4>2, <4>3
    <3>4. Len(Packet(s[k], k)) \in Nat
      <4>1. s[k] \in SensorFrame /\ k \in Nat
        BY <3>1, ElementOfSeq DEF m
      <4>2. Packet(s[k], k) \in Seq(WordType)
        BY <4>1, PacketFacts
      <4> QED BY <4>2, LenProperties
    <3>5. p[k - 1] + i <= Len(w) /\ p[k - 1] + i \in 1..Len(w)
      <4> DEFINE b == p[k - 1]
                 c == Len(Packet(s[k], k))
      <4>1. b \in Nat /\ c \in Nat /\ i \in 1..c /\ b + c <= Len(w)
        BY <1>5, <3>2, <3>3, <3>4
      <4> HIDE DEF b, c
      <4>2. b + i <= Len(w) /\ b + i \in 1..Len(w)
        BY <1>2, <4>1
      <4> QED BY <4>2 DEF b
    <3>6. w[p[k - 1] + i] = Packet(s[k], k)[i]
      BY <1>5, <3>1, <3>2, <3>5
    <3> QED BY <1>6, <3>2, <3>5, <3>6
  <2> QED BY <1>2, <2>1, <2>2
<1>12. Layout(q, r, v, st)
  <2>1. 0 \in 0..m /\ Len(v) \in Nat
    BY <1>2, <1>3, <1>6
  <2>2. q[0] = 0 /\ Len(v) <= q[m + 1]
    BY <1>5, <1>7, <1>10, <2>1
  <2> QED BY <1>4, <1>7, <1>8, <1>9, <1>10, <1>11, <2>2 DEF Layout
<1>13. CutsPackets(q, r, e, o)
  <2> SUFFICES ASSUME AllFit(r) PROVE Len(o) <= Len(r) /\ \A k \in 0..Len(o) : EndOf(e, k) = q[k]
    BY DEF CutsPackets
  <2>1. AllFit(s)
    <3>1. \A i \in 1..m : i \in 1..(m + 1)
      BY <1>2
    <3> QED BY <1>4, <3>1 DEF AllFit, m
  <2>2. Len(o) <= m /\ \A k \in 0..Len(o) : EndOf(e, k) = p[k]
    BY <1>1, <2>1 DEF CutsPackets, m
  <2>3. \A k \in 0..Len(o) : k \in 0..m
    BY <1>2, <2>2
  <2> QED BY <1>2, <1>4, <1>7, <2>2, <2>3
<1>14. Laid(r, v, e, o, st)
  <2>1. q \in [0..Len(r) -> Nat]
    BY <1>4, <1>7
  <2> QED BY <1>12, <1>13, <2>1 DEF Laid
<1> QED BY <1>14 DEF r, v, k0, m

(* A connection that dies loses the end of what was sent.                  *)
LEMMA LaidDies ==
  ASSUME NEW s \in Seq(SensorFrame), NEW g \in Seq(WordType), NEW t \in Seq(WordType), NEW e, NEW o, NEW st,
         Laid(s, g \o t, e, o, st)
  PROVE  Laid(s, g \o <<>>, e, o, "reset")
<1>1. PICK p \in [0..Len(s) -> Nat] : Layout(p, s, g \o t, st) /\ CutsPackets(p, s, e, o)
  BY DEF Laid
<1> DEFINE w == g \o t
<1>2. g \o <<>> = g
  BY ConcatEmptySeq
<1>3. Len(w) = Len(g) + Len(t) /\ \A i \in 1..Len(g) : w[i] = g[i]
  BY Joined
<1>4. Len(g) \in Nat /\ Len(t) \in Nat /\ Len(s) \in Nat
  BY LenProperties
<1>5. Layout(p, s, w, st)
  BY <1>1
<1> HIDE DEF w
<1>6. p[Len(s)] \in Nat /\ Len(g) <= p[Len(s)]
  BY SMTT(20), <1>3, <1>4, <1>5 DEF Layout
<1>7. \A k \in 1..Len(s) : \A i \in 1..Len(Packet(s[k], k)) :
        p[k - 1] + i <= Len(g) => g[p[k - 1] + i] = Packet(s[k], k)[i]
  <2> SUFFICES ASSUME NEW k \in 1..Len(s), NEW i \in 1..Len(Packet(s[k], k)), p[k - 1] + i <= Len(g)
               PROVE  g[p[k - 1] + i] = Packet(s[k], k)[i]
    OBVIOUS
  <2>1. p[k - 1] \in Nat /\ i \in Nat \ {0}
    <3>1. k - 1 \in 0..Len(s) /\ k \in Nat
      BY <1>4
    <3>2. s[k] \in SensorFrame
      BY ElementOfSeq
    <3>3. Len(Packet(s[k], k)) \in Nat
      BY <3>1, <3>2, PacketFacts, LenProperties
    <3> QED BY SMTT(20), <3>1, <3>3
  <2>2. p[k - 1] + i \in 1..Len(g) /\ p[k - 1] + i <= Len(w)
    BY <1>3, <1>4, <2>1
  <2> QED BY <1>3, <1>5, <2>2 DEF Layout
<1>8. Layout(p, s, g, "reset")
  BY <1>5, <1>6, <1>7 DEF Layout
<1> QED BY <1>1, <1>2, <1>8 DEF Laid

(* A session that cuts another frame of packets that fit cuts a packet.    *)
LEMMA LaidCuts ==
  ASSUME NEW s \in Seq(SensorFrame), NEW g \in Seq(WordType), NEW t \in Seq(WordType),
         NEW e \in Seq(Nat), NEW o \in Seq(Outcome), NEW st, Len(e) = Len(o), Laid(s, g \o t, e, o, st),
         NEW x \in Outcome, NEW y \in Nat, EndOf(e, Len(o)) \in Nat, EndOf(e, Len(o)) + 4 <= Len(g),
         y = EndOf(e, Len(o)) + 4 + g[EndOf(e, Len(o)) + 4].lo
  PROVE  Laid(s, g \o t, Append(e, y), Append(o, x), st)
<1> DEFINE w == g \o t
           n == Len(o)
           m == Len(s)
           ee == Append(e, y)
           oo == Append(o, x)
<1>1. PICK p \in [0..m -> Nat] : Layout(p, s, w, st) /\ CutsPackets(p, s, e, o)
  BY DEF Laid
<1>2. Len(w) = Len(g) + Len(t) /\ \A i \in 1..Len(g) : w[i] = g[i]
  BY Joined
<1>3. Len(g) \in Nat /\ Len(t) \in Nat /\ m \in Nat /\ n \in Nat
  BY LenProperties
<1>4. Len(oo) = n + 1 /\ ee[n + 1] = y /\ \A i \in 1..n : ee[i] = e[i]
  BY <1>3, AppendProperties
<1> HIDE DEF w, ee, oo, n, m
<1>5. CutsPackets(p, s, ee, oo)
  <2> SUFFICES ASSUME AllFit(s)
               PROVE  n + 1 <= m /\ \A k \in 0..(n + 1) : EndOf(ee, k) = p[k]
    BY <1>4 DEF CutsPackets, m
  <2>1. n <= m /\ \A k \in 0..n : EndOf(e, k) = p[k]
    BY <1>1 DEF CutsPackets, n, m
  <2>2. Len(w) <= p[m] /\ p[m] \in Nat /\ m \in 0..m /\ n \in 0..n /\ n \in 0..m
    <3>1. Len(w) <= p[m]
      BY <1>1 DEF Layout, m
    <3>2. m \in 0..m /\ n \in 0..n /\ n \in 0..m
      BY <1>3, <2>1
    <3> QED BY <3>1, <3>2
  <2>3. EndOf(e, n) = p[n] /\ p[n] \in Nat
    BY <2>1, <2>2
  <2>4. p[n] + 4 <= Len(g) /\ y = p[n] + 4 + g[p[n] + 4].lo
    BY <2>3 DEF n
  <2>5. n # m
    BY <1>2, <1>3, <2>2, <2>3, <2>4
  <2>6. n + 1 \in 1..m /\ (n + 1) - 1 = n
    BY <1>3, <2>1, <2>5
  <2> DEFINE f == s[n + 1]
             k0 == Packet(f, n + 1)
  <2>7. f \in SensorFrame /\ f.padding = 0 /\ f.t = 1 + Len(Payload(f.reading))
    BY <2>6, ElementOfSeq DEF AllFit, Fits, m
  <2>8. k0[4].lo = f.t /\ Len(k0) = 5 + f.padding + Len(Payload(f.reading)) /\ Len(Payload(f.reading)) \in Nat
    <3>1. Payload(f.reading) \in Seq(WordType)
      BY <2>7, SensorTyped, PayloadFacts
    <3>2. n + 1 \in Nat
      BY <1>3
    <3> HIDE DEF f
    <3> QED BY <2>7, <3>1, <3>2, PacketFacts, LenProperties
  <2>9. /\ p[n + 1] = p[(n + 1) - 1] + Len(k0)
        /\ \A i \in 1..Len(k0) : p[(n + 1) - 1] + i <= Len(w) => w[p[(n + 1) - 1] + i] = k0[i]
    BY <1>1, <2>6 DEF Layout, m
  <2> HIDE DEF f, k0
  <2>10. Len(k0) = 4 + f.t /\ 4 \in 1..Len(k0)
    <3>1. Len(k0) = 5 + Len(Payload(f.reading))
      BY <2>7, <2>8
    <3> QED BY <2>7, <2>8, <3>1
  <2>11. w[p[n] + 4] = k0[4] /\ g[p[n] + 4] = w[p[n] + 4]
    <3>1. p[n] + 4 \in 1..Len(g) /\ p[n] + 4 <= Len(w)
      BY <1>2, <1>3, <2>3, <2>4
    <3> QED BY <1>2, <2>6, <2>9, <2>10, <3>1
  <2>12. y = p[n + 1]
    <3>1. y = p[n] + 4 + f.t
      BY <2>4, <2>8, <2>11
    <3>2. p[n + 1] = p[n] + (4 + f.t)
      BY <2>6, <2>9, <2>10
    <3>3. f.t \in Nat
      BY <2>7, <2>8
    <3> DEFINE l == f.t
               a == p[n]
    <3>4. a \in Nat /\ l \in Nat /\ y = a + 4 + l /\ p[n + 1] = a + (4 + l)
      BY <2>3, <3>1, <3>2, <3>3
    <3> HIDE DEF a, l
    <3> QED BY <3>4
  <2>13. \A k \in 0..(n + 1) : EndOf(ee, k) = p[k]
    <3> SUFFICES ASSUME NEW k \in 0..(n + 1) PROVE EndOf(ee, k) = p[k]
      OBVIOUS
    <3>1. CASE k = n + 1
      BY <1>3, <1>4, <2>12, <3>1 DEF EndOf
    <3>2. CASE k <= n
      <4>1. k \in 0..n /\ (k # 0 => k \in 1..n)
        BY <1>3, <3>2
      <4>2. EndOf(ee, k) = EndOf(e, k)
        BY <1>4, <4>1 DEF EndOf
      <4> QED BY <2>1, <4>1, <4>2
    <3> QED BY <1>3, <3>1, <3>2
  <2>14. n + 1 <= m
    BY <1>3, <2>6
  <2> QED BY <2>13, <2>14
<1>6. Laid(s, w, ee, oo, st)
  BY <1>1, <1>5 DEF Laid, m
<1> QED BY <1>6 DEF w, ee, oo

(***************************************************************************)
(* The server.                                                             *)
(***************************************************************************)
Datagram == [reading : Reading, padding : Padding, outcome : Outcome]
DatagramOK(d) == d.padding = 0 => d.outcome.what = "handed over" /\ d.outcome.data = d.reading

SensorTypes ==
  /\ acceptor \in {"off", "open", "closed", "stopped"}
  /\ conn \in [Conn -> {"none", "backlog", "open", "reset"}]
  /\ at \in [Conn -> {"read", "parse"}]
  /\ stream \in [Conn -> Seq(WordType)] /\ frame_buf_ \in [Conn -> Seq(WordType)]
  /\ got \in [Conn -> Seq(WordType)] /\ ends \in [Conn -> Seq(Nat)]
  /\ outcome \in [Conn -> Seq(Outcome)] /\ written \in [Conn -> Seq(SensorFrame)]
  /\ datagrams \in Seq(Datagram) /\ \A k \in 1..Len(datagrams) : DatagramOK(datagrams[k])

Sessions == \A c \in Conn : SessionOK(got[c], ends[c], outcome[c], frame_buf_[c], at[c], conn[c])
Streams == \A c \in Conn : Laid(written[c], got[c] \o stream[c], ends[c], outcome[c], conn[c])
SensorInv == SensorTypes /\ Sessions /\ Streams

LEMMA SensorInvInit == ProfinetInit => SensorInv
<1> SUFFICES ASSUME ProfinetInit PROVE SensorInv
  OBVIOUS
<1>1. SensorTypes
  BY DEF ProfinetInit, SensorTypes
<1>2. ASSUME NEW c \in Conn
      PROVE  /\ SessionOK(got[c], ends[c], outcome[c], frame_buf_[c], at[c], conn[c])
             /\ Laid(written[c], got[c] \o stream[c], ends[c], outcome[c], conn[c])
  <2>1. /\ got[c] = <<>> /\ ends[c] = <<>> /\ outcome[c] = <<>> /\ frame_buf_[c] = <<>>
        /\ written[c] = <<>> /\ stream[c] = <<>> /\ at[c] = "read"
    BY DEF ProfinetInit
  <2>2. Len(<<>>) = 0
    OBVIOUS
  <2>3. <<>> = SubSeq(<<>>, 0 + 1, 0)
    <3>1. 0 + 1 \in Int /\ 0 \in Int /\ 0 < 0 + 1
      OBVIOUS
    <3> QED BY <3>1, SubSeqEmpty
  <2>4. ~Whole(<<>>)
    BY <2>2 DEF Whole, HEADER_SIZE
  <2>5. SessionOK(<<>>, <<>>, <<>>, <<>>, "read", conn[c])
    BY <2>2, <2>3, <2>4, EmptySeq DEF SessionOK, EndOf
  <2>6. <<>> \o <<>> = <<>>
    BY EmptySeq, ConcatEmptySeq
  <2> QED BY <2>1, <2>5, <2>6, LaidFirst
<1> QED BY <1>1, <1>2 DEF SensorInv, Sessions, Streams

(* Steps that leave sessions and streams alone, but for the state of       *)
(* connections.                                                            *)
LEMMA ConnStep ==
  ASSUME SensorInv, SensorTypes', UNCHANGED <<at, frame_buf_, got, ends, outcome, written>>,
         \A c \in Conn : \/ conn'[c] = conn[c] /\ stream'[c] = stream[c]
                         \/ conn[c] # "reset" /\ conn'[c] # "reset" /\ stream'[c] = stream[c]
                         \/ conn'[c] = "reset" /\ stream'[c] = <<>>
  PROVE  SensorInv'
<1>1. ASSUME NEW c \in Conn
      PROVE  /\ SessionOK(got[c], ends[c], outcome[c], frame_buf_[c], at[c], conn'[c])
             /\ Laid(written[c], got[c] \o stream'[c], ends[c], outcome[c], conn'[c])
  <2>1. /\ SessionOK(got[c], ends[c], outcome[c], frame_buf_[c], at[c], conn[c])
        /\ Laid(written[c], got[c] \o stream[c], ends[c], outcome[c], conn[c])
    BY DEF SensorInv, Sessions, Streams
  <2>2. written[c] \in Seq(SensorFrame) /\ got[c] \in Seq(WordType) /\ stream[c] \in Seq(WordType)
    BY DEF SensorInv, SensorTypes
  <2>3. CASE conn'[c] = conn[c] /\ stream'[c] = stream[c]
    BY <2>1, <2>3
  <2>4. CASE conn[c] # "reset" /\ conn'[c] # "reset" /\ stream'[c] = stream[c]
    BY <2>1, <2>4, SessionKeeps, LaidKeeps
  <2>5. CASE conn'[c] = "reset" /\ stream'[c] = <<>>
    BY <2>1, <2>2, <2>5, SessionKeeps, LaidDies
  <2> QED BY <2>3, <2>4, <2>5
<1> QED BY <1>1 DEF SensorInv, Sessions, Streams

(* Steps of one session.                                                   *)
LEMMA OneStep ==
  ASSUME SensorInv, SensorTypes', NEW c \in Conn, UNCHANGED conn,
         \A d \in Conn \ {c} : /\ at'[d] = at[d] /\ frame_buf_'[d] = frame_buf_[d] /\ got'[d] = got[d]
                               /\ ends'[d] = ends[d] /\ outcome'[d] = outcome[d]
                               /\ stream'[d] = stream[d] /\ written'[d] = written[d],
         SessionOK(got'[c], ends'[c], outcome'[c], frame_buf_'[c], at'[c], conn[c]),
         Laid(written'[c], got'[c] \o stream'[c], ends'[c], outcome'[c], conn[c])
  PROVE  SensorInv'
<1>1. ASSUME NEW d \in Conn
      PROVE  /\ SessionOK(got'[d], ends'[d], outcome'[d], frame_buf_'[d], at'[d], conn'[d])
             /\ Laid(written'[d], got'[d] \o stream'[d], ends'[d], outcome'[d], conn'[d])
  <2>1. CASE d = c
    BY <2>1
  <2>2. CASE d # c
    <3>1. /\ SessionOK(got[d], ends[d], outcome[d], frame_buf_[d], at[d], conn[d])
          /\ Laid(written[d], got[d] \o stream[d], ends[d], outcome[d], conn[d])
      BY DEF SensorInv, Sessions, Streams
    <3> QED BY <2>2, <3>1
  <2> QED BY <2>1, <2>2
<1> QED BY <1>1 DEF SensorInv, Sessions, Streams

LEMMA SendDataKeeps ==
  ASSUME SensorInv, NEW c \in Conn, NEW f \in SensorFrame, SendData(c, f)
  PROVE  SensorInv'
<1> DEFINE k == Packet(f, Len(written[c]) + 1)
<1>1. /\ written[c] \in Seq(SensorFrame) /\ stream[c] \in Seq(WordType) /\ got[c] \in Seq(WordType)
      /\ outcome[c] \in Seq(Outcome)
  BY DEF SensorInv, SensorTypes
<1>2. Len(written[c]) \in Nat /\ Len(outcome[c]) \in Nat
  BY <1>1, LenProperties
<1>3. k \in Seq(WordType)
  BY <1>2, PacketFacts
<1> HIDE DEF k
<1>4. /\ stream' = [stream EXCEPT ![c] = stream[c] \o k]
      /\ written' = [written EXCEPT ![c] = Append(written[c], f)] /\ conn[c] # "reset"
      /\ UNCHANGED <<acceptor, conn, at, frame_buf_, got, ends, outcome, datagrams>>
  BY DEF SendData, sessionVars, k
<1>5. stream[c] \o k \in Seq(WordType) /\ Append(written[c], f) \in Seq(SensorFrame)
  BY <1>1, <1>3, Joined, AppendProperties
<1>6. SensorTypes'
  BY <1>4, <1>5 DEF SensorInv, SensorTypes
<1>7. stream'[c] = stream[c] \o k /\ written'[c] = Append(written[c], f)
  BY <1>4 DEF SensorInv, SensorTypes
<1>8. Laid(written'[c], got[c] \o stream'[c], ends[c], outcome[c], conn[c])
  <2>1. Laid(written[c], got[c] \o stream[c], ends[c], outcome[c], conn[c]) /\ got[c] \o stream[c] \in Seq(WordType)
    BY <1>1, Joined DEF SensorInv, Streams
  <2>2. Laid(Append(written[c], f), (got[c] \o stream[c]) \o k, ends[c], outcome[c], conn[c])
    BY <1>1, <1>2, <1>4, <2>1, LaidSends DEF k
  <2>3. (got[c] \o stream[c]) \o k = got[c] \o (stream[c] \o k)
    <3> DEFINE g == got[c]
               s == stream[c]
    <3>1. g \in Seq(WordType) /\ s \in Seq(WordType) /\ k \in Seq(WordType)
      BY <1>1, <1>3
    <3> HIDE DEF g, s
    <3>2. (g \o s) \o k = g \o (s \o k)
      BY <3>1, ConcatAssociative
    <3> QED BY <3>2 DEF g, s
  <2> QED BY <1>7, <2>2, <2>3
<1>9. SessionOK(got[c], ends[c], outcome[c], frame_buf_[c], at[c], conn[c])
  BY DEF SensorInv, Sessions
<1>10. \A d \in Conn \ {c} : stream'[d] = stream[d] /\ written'[d] = written[d]
  BY <1>4 DEF SensorInv, SensorTypes
<1> QED BY <1>4, <1>6, <1>8, <1>9, <1>10, OneStep

LEMMA DoReadKeeps ==
  ASSUME SensorInv, NEW c \in Conn, NEW n \in 1..Len(stream[c]), DoRead(c, n)
  PROVE  SensorInv'
<1> DEFINE t == SubSeq(stream[c], 1, n)
           u == SubSeq(stream[c], n + 1, Len(stream[c]))
<1>1. stream[c] \in Seq(WordType) /\ got[c] \in Seq(WordType) /\ frame_buf_[c] \in Seq(WordType)
  BY DEF SensorInv, SensorTypes
<1>2. t \in Seq(WordType) /\ u \in Seq(WordType) /\ t \o u = stream[c]
  <2> DEFINE s == stream[c]
  <2>1. s \in Seq(WordType) /\ Len(s) \in Nat /\ n \in 1..Len(s)
    BY <1>1, LenProperties
  <2> HIDE DEF s
  <2>2. \A i \in 1..Len(s) : s[i] \in WordType
    BY <2>1, ElementOfSeq
  <2>3. SubSeq(s, 1, n) \in Seq(WordType)
    <3>1. \A i \in 1..n : s[i] \in WordType
      BY <2>1, <2>2
    <3>2. 1 \in Int /\ n \in Int
      BY <2>1
    <3> QED BY <3>1, <3>2, SubSeqProperties
  <2>4. SubSeq(s, n + 1, Len(s)) \in Seq(WordType)
    <3>1. \A i \in (n + 1)..Len(s) : s[i] \in WordType
      BY <2>1, <2>2
    <3>2. n + 1 \in Int /\ Len(s) \in Int
      BY <2>1
    <3> QED BY <3>1, <3>2, SubSeqProperties
  <2>5. SubSeq(s, 1, n) \o SubSeq(s, n + 1, Len(s)) = s
    <3>1. 1 \in 1..(Len(s) + 1) /\ n \in (1 - 1)..Len(s) /\ Len(s) \in n..Len(s)
      BY <2>1
    <3>2. SubSeq(s, 1, n) \o SubSeq(s, n + 1, Len(s)) = SubSeq(s, 1, Len(s))
      BY <2>1, <3>1, ConcatAdjacentSubSeq
    <3> QED BY <2>1, <3>2, SubSeqFull
  <2> QED BY <2>3, <2>4, <2>5 DEF s
<1>3. /\ frame_buf_' = [frame_buf_ EXCEPT ![c] = frame_buf_[c] \o t]
      /\ got' = [got EXCEPT ![c] = got[c] \o t] /\ stream' = [stream EXCEPT ![c] = u]
      /\ at' = [at EXCEPT ![c] = "parse"]
      /\ UNCHANGED <<acceptor, conn, ends, outcome, written, datagrams>>
  BY DEF DoRead
<1> HIDE DEF t, u
<1>4. frame_buf_[c] \o t \in Seq(WordType) /\ got[c] \o t \in Seq(WordType)
  BY <1>1, <1>2, Joined
<1>5. SensorTypes'
  BY <1>2, <1>3, <1>4 DEF SensorInv, SensorTypes
<1>6. /\ frame_buf_'[c] = frame_buf_[c] \o t /\ got'[c] = got[c] \o t /\ stream'[c] = u /\ at'[c] = "parse"
      /\ \A d \in Conn \ {c} : /\ frame_buf_'[d] = frame_buf_[d] /\ got'[d] = got[d]
                               /\ stream'[d] = stream[d] /\ at'[d] = at[d]
  BY <1>3 DEF SensorInv, SensorTypes
<1>7. SessionOK(got'[c], ends[c], outcome[c], frame_buf_'[c], "parse", conn[c])
  <2>1. SessionOK(got[c], ends[c], outcome[c], frame_buf_[c], at[c], conn[c])
    BY DEF SensorInv, Sessions
  <2> QED BY <1>2, <1>6, <2>1, SessionReads
<1>8. Laid(written[c], got'[c] \o stream'[c], ends[c], outcome[c], conn[c])
  <2>1. Laid(written[c], got[c] \o stream[c], ends[c], outcome[c], conn[c])
    BY DEF SensorInv, Streams
  <2>2. (got[c] \o t) \o u = got[c] \o stream[c]
    <3> DEFINE g == got[c]
    <3>1. g \in Seq(WordType)
      BY <1>1
    <3> HIDE DEF g
    <3>2. t \in Seq(WordType) /\ u \in Seq(WordType)
      BY <1>2
    <3>3. (g \o t) \o u = g \o (t \o u)
      BY SMTT(20), <3>1, <3>2, ConcatAssociative
    <3> QED BY <1>2, <3>3 DEF g
  <2> QED BY <1>6, <2>1, <2>2
<1> QED BY <1>3, <1>5, <1>6, <1>7, <1>8, OneStep

LEMMA ParseFrameKeeps ==
  ASSUME SensorInv, NEW c \in Conn, ParseFrame(c)
  PROVE  SensorInv'
<1> DEFINE buf == frame_buf_[c]
           rest == SubSeq(buf, FrameTotal(buf) + 1, Len(buf))
           out == IF conn[c] = "reset" THEN Discarded ELSE OutcomeOf(SubSeq(buf, 1, FrameTotal(buf)))
           cut == Len(got[c]) - Len(rest)
<1>1. /\ got[c] \in Seq(WordType) /\ ends[c] \in Seq(Nat) /\ outcome[c] \in Seq(Outcome)
      /\ written[c] \in Seq(SensorFrame) /\ stream[c] \in Seq(WordType)
  BY DEF SensorInv, SensorTypes
<1>2. /\ SessionOK(got[c], ends[c], outcome[c], buf, at[c], conn[c])
      /\ Laid(written[c], got[c] \o stream[c], ends[c], outcome[c], conn[c])
  BY DEF SensorInv, Sessions, Streams
<1>3. /\ Whole(buf) /\ at[c] = "parse"
      /\ outcome' = [outcome EXCEPT ![c] = Append(outcome[c], out)]
      /\ frame_buf_' = [frame_buf_ EXCEPT ![c] = rest]
      /\ ends' = [ends EXCEPT ![c] = Append(ends[c], Len(got[c]) - Len(frame_buf_'[c]))]
      /\ UNCHANGED <<acceptor, conn, stream, at, got, written, datagrams>>
  BY DEF ParseFrame
<1>4. out = OutcomeOf(SubSeq(buf, 1, FrameTotal(buf))) \/ (conn[c] = "reset" /\ out = Discarded)
  OBVIOUS
<1>5. rest = SubSeq(buf, FrameTotal(buf) + 1, Len(buf))
  OBVIOUS
<1>6. frame_buf_'[c] = rest
  BY <1>3 DEF SensorInv, SensorTypes
<1>7. ends' = [ends EXCEPT ![c] = Append(ends[c], cut)]
  BY <1>3, <1>6
<1> HIDE DEF buf, rest, out
<1>8. /\ SessionOK(got[c], Append(ends[c], cut), Append(outcome[c], out), rest, "parse", conn[c])
      /\ NextEnd(got[c], EndOf(ends[c], Len(outcome[c])), cut)
  BY <1>2, <1>3, <1>4, <1>5, SessionCuts, Zenon
<1> HIDE DEF cut
<1>9. out \in Outcome /\ cut \in Nat /\ rest \in Seq(WordType)
  <2> DEFINE oo == Append(outcome[c], out)
             ee == Append(ends[c], cut)
  <2>1. oo \in Seq(Outcome) /\ ee \in Seq(Nat)
    BY <1>8 DEF SessionOK
  <2>2. Len(outcome[c]) \in Nat /\ Len(ends[c]) \in Nat
    BY <1>1, LenProperties
  <2>3. /\ Len(oo) = Len(outcome[c]) + 1 /\ oo[Len(outcome[c]) + 1] = out
        /\ Len(ee) = Len(ends[c]) + 1 /\ ee[Len(ends[c]) + 1] = cut
    <3>1. outcome[c] \in Seq(Outcome \cup {out}) /\ out \in Outcome \cup {out}
      BY <1>1, SeqMonotonic
    <3>2. ends[c] \in Seq(Nat \cup {cut}) /\ cut \in Nat \cup {cut}
      BY <1>1, SeqMonotonic
    <3> QED BY <3>1, <3>2, AppendProperties
  <2> HIDE DEF oo, ee
  <2>4. Len(outcome[c]) + 1 \in 1..Len(oo) /\ Len(ends[c]) + 1 \in 1..Len(ee)
    BY <2>2, <2>3
  <2>5. out \in Outcome /\ cut \in Nat
    BY <2>1, <2>3, <2>4, ElementOfSeq
  <2>6. rest \in Seq(WordType)
    BY <1>8, RestFacts
  <2> QED BY <2>5, <2>6
<1>10. /\ Append(outcome[c], out) \in Seq(Outcome) /\ Append(ends[c], cut) \in Seq(Nat)
  BY <1>1, <1>9, AppendProperties
<1>11. SensorTypes'
  BY <1>3, <1>7, <1>9, <1>10 DEF SensorInv, SensorTypes
<1>12. /\ outcome'[c] = Append(outcome[c], out) /\ ends'[c] = Append(ends[c], cut)
       /\ \A d \in Conn \ {c} : frame_buf_'[d] = frame_buf_[d] /\ ends'[d] = ends[d] /\ outcome'[d] = outcome[d]
  BY <1>3, <1>7 DEF SensorInv, SensorTypes
<1>13. SessionOK(got'[c], ends'[c], outcome'[c], frame_buf_'[c], at'[c], conn[c])
  BY <1>3, <1>6, <1>8, <1>12
<1>14. Laid(written[c], got[c] \o stream[c], Append(ends[c], cut), Append(outcome[c], out), conn[c])
  <2>1. EndOf(ends[c], Len(outcome[c])) \in Nat /\ Len(ends[c]) = Len(outcome[c])
    <3>1. EndOf(ends[c], Len(outcome[c])) \in 0..Len(got[c])
      BY <1>2, RestFacts
    <3> QED BY <1>2, <3>1 DEF SessionOK
  <2> QED BY <1>1, <1>2, <1>8, <1>9, <2>1, LaidCuts DEF NextEnd
<1>15. Laid(written'[c], got'[c] \o stream'[c], ends'[c], outcome'[c], conn[c])
  BY <1>3, <1>12, <1>14
<1> QED BY <1>3, <1>11, <1>12, <1>13, <1>15, OneStep

LEMMA ParseDoneKeeps ==
  ASSUME SensorInv, NEW c \in Conn, ParseDone(c)
  PROVE  SensorInv'
<1>1. SessionOK(got[c], ends[c], outcome[c], frame_buf_[c], at[c], conn[c]) /\ ~Whole(frame_buf_[c])
  BY DEF SensorInv, Sessions, ParseDone
<1>2. /\ SessionOK(got[c], ends[c], outcome[c], frame_buf_[c], "read", conn[c])
      /\ ~(Len(frame_buf_[c]) > MaxFrameBuf)
  BY <1>1, SessionWaits
<1>3. /\ at' = [at EXCEPT ![c] = "read"]
      /\ UNCHANGED <<acceptor, conn, stream, frame_buf_, outcome, ends, got, written, datagrams>>
  BY <1>2 DEF ParseDone
<1>4. SensorTypes' /\ at'[c] = "read" /\ \A d \in Conn \ {c} : at'[d] = at[d]
  BY <1>3 DEF SensorInv, SensorTypes
<1>5. Laid(written[c], got[c] \o stream[c], ends[c], outcome[c], conn[c])
  BY DEF SensorInv, Streams
<1> QED BY <1>2, <1>3, <1>4, <1>5, OneStep

IsHandedOver(x, r, n) == x.what = "handed over" /\ x.data = r /\ x.cycle = n

LEMMA FieldsOfHandedOver ==
  ASSUME NEW v, NEW i, NEW z, z = [what |-> "handed over", data |-> v, cycle |-> i]
  PROVE  IsHandedOver(z, v, i)
BY DEF IsHandedOver

LEMMA HandleReceiveKeeps ==
  ASSUME SensorInv, NEW f \in SensorFrame, HandleReceive(f)
  PROVE  SensorInv'
<1> DEFINE n == Len(datagrams) + 1
           x == OutcomeOf(Packet(f, n))
           d == [reading |-> f.reading, padding |-> f.padding, outcome |-> x]
<1>1. datagrams \in Seq(Datagram) /\ n \in Nat
  <2>1. datagrams \in Seq(Datagram)
    BY DEF SensorInv, SensorTypes
  <2> QED BY <2>1, LenProperties
<1>2. /\ datagrams' = Append(datagrams, d)
      /\ UNCHANGED <<acceptor, conn, stream, at, frame_buf_, got, ends, outcome, written>>
  BY DEF HandleReceive, sessionVars
<1>3. Packet(f, n) \in Seq(WordType)
  BY <1>1, PacketFacts
<1>4. x \in Outcome
  BY <1>3 DEF Outcome
<1>5. f.padding = 0 => x = [what |-> "handed over", data |-> f.reading, cycle |-> n]
  BY <1>1, PacketDecodes
<1> HIDE DEF x
<1>6. d \in Datagram
  BY <1>4 DEF Datagram, SensorFrame
<1>7. DatagramOK(d)
  <2>1. d.padding = f.padding /\ d.outcome = x /\ d.reading = f.reading
    OBVIOUS
  <2> HIDE DEF d
  <2>2. f.padding = 0 => x.what = "handed over" /\ x.data = f.reading
    <3> SUFFICES ASSUME f.padding = 0 PROVE x.what = "handed over" /\ x.data = f.reading
      OBVIOUS
    <3>1. x = [what |-> "handed over", data |-> f.reading, cycle |-> n]
      BY <1>5
    <3> QED BY <3>1, FieldsOfHandedOver DEF IsHandedOver
  <2> QED BY <2>1, <2>2 DEF DatagramOK
<1> HIDE DEF d
<1>8. datagrams' \in Seq(Datagram) /\ \A k \in 1..Len(datagrams') : DatagramOK(datagrams'[k])
  <2>1. /\ datagrams' \in Seq(Datagram) /\ Len(datagrams') = n /\ datagrams'[n] = d
        /\ \A k \in 1..Len(datagrams) : datagrams'[k] = datagrams[k]
    BY <1>1, <1>2, <1>6, AppendProperties
  <2>2. \A k \in 1..n : k = n \/ k \in 1..Len(datagrams)
    <3>1. Len(datagrams) \in Nat
      BY <1>1, LenProperties
    <3> QED BY <3>1
  <2>3. \A k \in 1..Len(datagrams) : DatagramOK(datagrams[k])
    BY DEF SensorInv, SensorTypes
  <2> HIDE DEF n
  <2> QED BY <1>7, <2>1, <2>2, <2>3
<1>9. SensorTypes'
  BY <1>2, <1>8 DEF SensorInv, SensorTypes
<1> QED BY <1>2, <1>9, ConnStep

LEMMA ConnKeeps ==
  ASSUME SensorInv, Start \/ Stop \/ StopIoThreads
                    \/ \E c \in Conn : Connect(c) \/ Accept(c) \/ Reset(c)
  PROVE  SensorInv'
<1>1. /\ UNCHANGED <<at, frame_buf_, got, ends, outcome, written, datagrams>>
      /\ acceptor' \in {"off", "open", "closed", "stopped"}
  BY DEF SensorInv, SensorTypes, Start, Stop, StopIoThreads, Connect, Accept, Reset, sessionVars
<1>2. /\ conn' \in [Conn -> {"none", "backlog", "open", "reset"}]
      /\ stream' \in [Conn -> Seq(WordType)]
      /\ \A c \in Conn : \/ conn'[c] = conn[c] /\ stream'[c] = stream[c]
                         \/ conn[c] # "reset" /\ conn'[c] # "reset" /\ stream'[c] = stream[c]
                         \/ conn'[c] = "reset" /\ stream'[c] = <<>>
  <2>1. /\ conn \in [Conn -> {"none", "backlog", "open", "reset"}] /\ stream \in [Conn -> Seq(WordType)]
        /\ <<>> \in Seq(WordType)
    BY EmptySeq DEF SensorInv, SensorTypes
  <2>2. CASE Start \/ StopIoThreads
    BY <2>1, <2>2 DEF Start, StopIoThreads
  <2>3. CASE Stop
    BY <2>1, <2>3 DEF Stop
  <2>4. ASSUME NEW c \in Conn, Connect(c) \/ Accept(c) PROVE <1>2!:
    BY <2>1, <2>4 DEF Connect, Accept
  <2>5. ASSUME NEW c \in Conn, Reset(c) PROVE <1>2!:
    BY <2>1, <2>5 DEF Reset
  <2> QED BY <2>2, <2>3, <2>4, <2>5
<1>3. SensorTypes'
  BY <1>1, <1>2 DEF SensorInv, SensorTypes
<1> QED BY <1>1, <1>2, <1>3, ConnStep

LEMMA SensorInvNext == SensorInv /\ [ProfinetNext]_profinetVars => SensorInv'
<1> SUFFICES ASSUME SensorInv, [ProfinetNext]_profinetVars PROVE SensorInv'
  OBVIOUS
<1>1. CASE UNCHANGED profinetVars
  <2>1. UNCHANGED <<acceptor, conn, stream, at, frame_buf_, got, ends, outcome, written, datagrams>>
    BY <1>1 DEF profinetVars, sessionVars
  <2>2. SensorTypes'
    BY <2>1 DEF SensorInv, SensorTypes
  <2> QED BY <2>1, <2>2, ConnStep
<1>2. CASE Start \/ Stop \/ StopIoThreads
  BY <1>2, ConnKeeps
<1>3. CASE \E c \in Conn : Connect(c) \/ Accept(c) \/ Reset(c)
  BY <1>3, ConnKeeps
<1>4. ASSUME NEW c \in Conn, NEW n \in 1..Len(stream[c]), DoRead(c, n) PROVE SensorInv'
  BY <1>4, DoReadKeeps
<1>5. ASSUME NEW c \in Conn, ParseFrame(c) \/ ParseDone(c) PROVE SensorInv'
  BY <1>5, ParseFrameKeeps, ParseDoneKeeps
<1>6. ASSUME NEW c \in Conn, NEW f \in SensorFrame, SendData(c, f) PROVE SensorInv'
  BY <1>6, SendDataKeeps
<1>7. ASSUME NEW f \in SensorFrame, HandleReceive(f) PROVE SensorInv'
  BY <1>7, HandleReceiveKeeps
<1> QED BY <1>1, <1>2, <1>3, <1>4, <1>5, <1>6, <1>7 DEF ProfinetNext

LEMMA SensorInvariant == ProfinetSpec => []SensorInv
BY SensorInvInit, SensorInvNext, PTL DEF ProfinetSpec

LEMMA FramingOfSession ==
  ASSUME SensorInv, NEW c \in Conn
  PROVE  LET n == Len(outcome[c])
             end(k) == IF k = 0 THEN 0 ELSE ends[c][k]
         IN  /\ frame_buf_[c] = SubSeq(got[c], end(n) + 1, Len(got[c]))
             /\ \A k \in 1..n :
                  /\ end(k) = end(k - 1) + HEADER_SIZE + got[c][end(k - 1) + 4].lo
                  /\ \/ outcome[c][k] = OutcomeOf(SubSeq(got[c], end(k - 1) + 1, end(k)))
                     \/ conn[c] = "reset" /\ outcome[c][k] = Discarded
             /\ at[c] = "read" => ~Whole(frame_buf_[c])
<1> DEFINE n == Len(outcome[c])
           end(k) == IF k = 0 THEN 0 ELSE ends[c][k]
<1>1. SessionOK(got[c], ends[c], outcome[c], frame_buf_[c], at[c], conn[c])
  BY DEF SensorInv, Sessions
<1>2. \A k : end(k) = EndOf(ends[c], k)
  BY DEF EndOf
<1>3. frame_buf_[c] = SubSeq(got[c], end(n) + 1, Len(got[c])) /\ (at[c] = "read" => ~Whole(frame_buf_[c]))
  BY <1>1, <1>2 DEF SessionOK
<1>4. ASSUME NEW k \in 1..n
      PROVE  /\ end(k) = end(k - 1) + HEADER_SIZE + got[c][end(k - 1) + 4].lo
             /\ \/ outcome[c][k] = OutcomeOf(SubSeq(got[c], end(k - 1) + 1, end(k)))
                \/ conn[c] = "reset" /\ outcome[c][k] = Discarded
  <2>1. Cut(got[c], ends[c], outcome[c][k], conn[c], k)
    BY <1>1 DEF SessionOK
  <2>2. end(k) = EndOf(ends[c], k) /\ end(k - 1) = EndOf(ends[c], k - 1)
    BY <1>2
  <2> HIDE DEF end
  <2> QED BY <2>1, <2>2 DEF Cut, HEADER_SIZE
<1> QED BY <1>3, <1>4

(* Whatever a sensor writes and however it arrives, the frames that a      *)
(* session cuts are those of the whole stream, one after another, and no   *)
(* word is lost, read twice, cleared or left in a whole frame.             *)
THEOREM FramesAreThoseOfTheStream == ProfinetSpec => []FramingOfStream
<1>1. SensorInv => FramingOfStream
  BY FramingOfSession DEF FramingOfStream
<1> QED BY <1>1, SensorInvariant, PTL

(* What a session that cuts packets makes of them.                         *)
LEMMA PacketsDecode ==
  ASSUME NEW s \in Seq(SensorFrame), NEW g \in Seq(WordType), NEW t \in Seq(WordType), NEW p, NEW e, NEW o,
         NEW st, Layout(p, s, g \o t, st), CutsPackets(p, s, e, o), AllFit(s), NEW k \in 1..Len(o),
         Len(o) \in Nat, Cut(g, e, o[k], st, k)
  PROVE  \/ IsHandedOver(o[k], s[k].reading, k)
         \/ st = "reset" /\ o[k] = Discarded
<1> DEFINE i == p[k - 1]
           j == p[k]
           v == g \o t
           f == s[k]
           b == Packet(f, k)
           m == SubSeq(g, i + 1, j)
<1>1. Len(o) <= Len(s) /\ \A h \in 0..Len(o) : EndOf(e, h) = p[h]
  BY DEF CutsPackets
<1>2. Len(s) \in Nat /\ Len(g) \in Nat /\ Len(t) \in Nat
  BY LenProperties
<1>3. k \in 1..Len(s) /\ k \in 0..Len(o) /\ k - 1 \in 0..Len(o) /\ k \in Nat /\ k - 1 \in 0..Len(s) /\ k \in 0..Len(s)
  BY <1>1, <1>2
<1>4. EndOf(e, k - 1) = i /\ EndOf(e, k) = j
  BY <1>1, <1>3
<1>5. f \in SensorFrame /\ f.padding = 0
  BY <1>3, ElementOfSeq DEF AllFit, Fits
<1>6. IsHandedOver(OutcomeOf(b), f.reading, k)
  <2>1. OutcomeOf(b) = [what |-> "handed over", data |-> f.reading, cycle |-> k]
    BY <1>3, <1>5, PacketDecodes
  <2> QED BY <2>1, FieldsOfHandedOver
<1>7. b \in Seq(WordType) /\ Len(b) \in Nat
  BY <1>3, <1>5, PacketFacts, LenProperties
<1>8. /\ i \in Nat /\ j \in Nat /\ j = i + Len(b)
      /\ \A h \in 1..Len(b) : i + h <= Len(v) => v[i + h] = b[h]
  <2>1. p \in [0..Len(s) -> Nat]
    BY DEF Layout
  <2>2. i \in Nat /\ j \in Nat
    BY <1>3, <2>1
  <2> QED BY <1>3, <2>2 DEF Layout
<1>9. j <= Len(g) /\ (o[k] = OutcomeOf(m) \/ (st = "reset" /\ o[k] = Discarded))
  BY <1>4 DEF Cut
<1>10. Len(v) = Len(g) + Len(t) /\ \A h \in 1..Len(g) : v[h] = g[h]
  BY Joined
<1> HIDE DEF b, v, i, j, f, m
<1>11. m \in Seq(WordType) /\ Len(m) = Len(b) /\ \A h \in 1..Len(b) : m[h] = g[i + h]
  <2>1. \A h \in (i + 1)..j : g[h] \in WordType
    <3>1. \A h \in (i + 1)..j : h \in 1..Len(g)
      BY <1>2, <1>8, <1>9
    <3> QED BY <3>1, ElementOfSeq
  <2>2. i + 1 \in Int /\ j \in Int /\ m = SubSeq(g, i + 1, j)
    BY <1>8 DEF m
  <2>3. /\ m \in Seq(WordType) /\ Len(m) = IF i + 1 <= j THEN j - (i + 1) + 1 ELSE 0
        /\ \A h \in 1..(j - (i + 1) + 1) : m[h] = g[i + 1 + h - 1]
    BY SMTT(20), <2>1, <2>2, SubSeqProperties
  <2>4. j - (i + 1) + 1 = Len(b) /\ (i + 1 <= j <=> Len(b) # 0)
    BY <1>7, <1>8
  <2>5. \A h \in 1..Len(b) : i + 1 + h - 1 = i + h
    BY <1>7, <1>8
  <2> QED BY <2>3, <2>4, <2>5
<1>12. \A h \in 1..Len(b) : m[h] = b[h]
  <2> SUFFICES ASSUME NEW h \in 1..Len(b) PROVE m[h] = b[h]
    OBVIOUS
  <2>1. i + h \in 1..Len(g) /\ i + h <= Len(v)
    BY <1>2, <1>7, <1>8, <1>9, <1>10
  <2> QED BY <1>8, <1>10, <1>11, <2>1
<1>13. m = b
  BY <1>7, <1>11, <1>12, SeqEqual
<1> QED BY <1>6, <1>9, <1>13 DEF f

(* A connection whose frames all fit the parser's layout and its idea of   *)
(* their length is decoded to the readings sent, in their order, and so is *)
(* a datagram whose payload is where the parser reads it.                  *)
THEOREM FittingFramesAreDecoded == ProfinetSpec => []FittingFramesDecode
<1>1. ASSUME SensorInv, NEW c \in Conn, \A i \in 1..Len(written[c]) : Fits(written[c][i]),
             NEW k \in 1..Len(outcome[c])
      PROVE  \/ /\ outcome[c][k].what = "handed over" /\ outcome[c][k].cycle = k
                /\ outcome[c][k].data = written[c][k].reading
             \/ conn[c] = "reset" /\ outcome[c][k] = Discarded
  <2> DEFINE s == written[c]
             g == got[c]
             t == stream[c]
             e == ends[c]
             o == outcome[c]
             st == conn[c]
  <2>1. s \in Seq(SensorFrame) /\ g \in Seq(WordType) /\ t \in Seq(WordType) /\ o \in Seq(Outcome)
    BY <1>1 DEF SensorInv, SensorTypes
  <2>2. Laid(s, g \o t, e, o, st)
    BY <1>1 DEF SensorInv, Streams
  <2>3. Cut(g, e, o[k], st, k)
    BY <1>1 DEF SensorInv, Sessions, SessionOK
  <2>4. AllFit(s) /\ k \in 1..Len(o)
    BY <1>1 DEF AllFit
  <2> HIDE DEF s, g, t, e, o, st
  <2>5. PICK p \in [0..Len(s) -> Nat] : Layout(p, s, g \o t, st) /\ CutsPackets(p, s, e, o)
    BY <2>2 DEF Laid
  <2>6. Len(o) \in Nat
    BY <2>1, LenProperties
  <2>7. \/ IsHandedOver(o[k], s[k].reading, k)
        \/ st = "reset" /\ o[k] = Discarded
    BY <2>1, <2>3, <2>4, <2>5, <2>6, PacketsDecode
  <2>8. CASE IsHandedOver(o[k], s[k].reading, k)
    BY <2>8 DEF s, o, IsHandedOver
  <2>9. CASE st = "reset" /\ o[k] = Discarded
    BY <2>9 DEF st, o
  <2> QED BY <2>7, <2>8, <2>9
<1>2. ASSUME SensorInv, NEW k \in 1..Len(datagrams)
      PROVE  datagrams[k].padding = 0 =>
               datagrams[k].outcome.what = "handed over" /\ datagrams[k].outcome.data = datagrams[k].reading
  BY <1>2 DEF SensorInv, SensorTypes, DatagramOK
<1>3. SensorInv => FittingFramesDecode
  BY <1>1, <1>2 DEF FittingFramesDecode
<1> QED BY <1>3, SensorInvariant, PTL

(* The state keeps its types, and a session cuts no more frames than it    *)
(* has read headers.                                                       *)
THEOREM SensorTypeCorrect == ProfinetSpec => []ProfinetTypeOK
<1>1. ASSUME SensorInv, NEW c \in Conn
      PROVE  Len(ends[c]) = Len(outcome[c]) /\ HEADER_SIZE * Len(outcome[c]) <= Len(got[c])
  <2> DEFINE n == Len(outcome[c])
             z == EndOf(ends[c], n)
             l == Len(got[c])
  <2>1. SessionOK(got[c], ends[c], outcome[c], frame_buf_[c], at[c], conn[c])
    BY <1>1 DEF SensorInv, Sessions
  <2>2. n \in Nat /\ l \in Nat /\ z \in 0..l /\ 4 * n <= z
    BY <2>1, RestFacts
  <2>3. Len(ends[c]) = n
    BY <2>1 DEF SessionOK
  <2> HIDE DEF n, z, l
  <2>4. HEADER_SIZE * n <= l
    BY <2>2 DEF HEADER_SIZE
  <2> QED BY <2>3, <2>4 DEF n, l
<1>2. SensorInv => ProfinetTypeOK
  BY <1>1 DEF SensorInv, SensorTypes, ProfinetTypeOK
<1> QED BY <1>2, SensorInvariant, PTL
=============================================================================
