------------------------------ MODULE Channel ------------------------------
(***************************************************************************)
(* What one queue between two pipeline modules promises: messages arrive   *)
(* once each, in the order in which they entered, and none is invented.    *)
(* sent and rcvd are the whole histories, so the contents of the channel   *)
(* are what sent has beyond rcvd.  A receive may fail to find a message    *)
(* that is there: such an attempt changes nothing, it is a stutter.        *)
(***************************************************************************)
EXTENDS Naturals, Sequences

CONSTANT Msg

VARIABLES sent, rcvd

chanVars == <<sent, rcvd>>

ChanInit == sent = <<>> /\ rcvd = <<>>

Send(m) == sent' = Append(sent, m) /\ UNCHANGED rcvd

Recv ==
  /\ Len(rcvd) < Len(sent)
  /\ rcvd' = Append(rcvd, sent[Len(rcvd) + 1])
  /\ UNCHANGED sent

ChanNext == (\E m \in Msg : Send(m)) \/ Recv

ChanSpec == ChanInit /\ [][ChanNext]_chanVars
=============================================================================
