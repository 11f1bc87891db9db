--------------------------- MODULE LockFreeQueue ---------------------------
(***************************************************************************)
(* The linked queue of backend/include/lockfree_queue.h that joins the     *)
(* pipeline modules.  A producer swings tail_ to its new node and, in a    *)
(* second atomic step, links the node behind the old tail; the consumer    *)
(* loads head_, loads its next pointer, moves head_ with a weak CAS, moves *)
(* the value out of the new dummy and deletes the old one.                 *)
(*                                                                         *)
(* Nodes are numbered in the order of the exchanges on tail_, node 0 is    *)
(* the constructor's dummy.  wire_pipeline gives every queue to exactly    *)
(* one module as its input and a module pops from one thread, so there is  *)
(* one consumer.  A deleted node's address is not used again in the model: *)
(* no thread keeps an address across the delete (that is what              *)
(* NoUseAfterFree says), so reuse cannot be observed.  A moved-from        *)
(* payload is NullPtr: reading it again would hand out an empty message.   *)
(***************************************************************************)
EXTENDS Naturals, Sequences

CONSTANTS
  Producers,  \* threads that push: io threads, or the upstream module
  Msg,        \* message payloads
  NullPtr,    \* the null pointer, and the empty std::optional of a node
  MaxPush     \* bound: pushes in a behaviour

ASSUME QueueAssumption ==
  /\ MaxPush \in Nat
  /\ NullPtr \notin Nat \cup Msg

Node == 0..MaxPush

VARIABLES
  next,     \* next[n]: the next pointer stored in node n
  value,    \* value[n]: the optional payload of node n
  head,     \* head_
  tail,     \* tail_
  freed,    \* the deleted nodes
  ppc,      \* where each producer is: "idle" or "link" (between the two steps)
  oldTail,  \* old_tail of each producer
  newNode,  \* new_node of each producer
  cpc,      \* where the consumer is in try_pop
  oldHead,  \* old_head of the consumer
  nextOf,   \* the local next of the consumer
  pushed,   \* history: payloads in the order of the exchanges
  popped    \* history: payloads handed out, in order

memory == <<next, value, head, tail, freed>>
prodVars == <<ppc, oldTail, newNode>>
consVars == <<cpc, oldHead, nextOf>>
listVars == <<memory, prodVars, consVars, pushed, popped>>

QueueTypeOK ==
  /\ next \in [Node -> Node \cup {NullPtr}]
  /\ value \in [Node -> Msg \cup {NullPtr}]
  /\ head \in Node /\ tail \in Node
  /\ freed \in SUBSET Node
  /\ ppc \in [Producers -> {"idle", "link"}]
  /\ oldTail \in [Producers -> Node] /\ newNode \in [Producers -> Node]
  /\ cpc \in {"idle", "loadNext", "cas", "move", "delete"}
  /\ oldHead \in Node
  /\ nextOf \in Node \cup {NullPtr}
  /\ pushed \in Seq(Msg) /\ popped \in Seq(Msg)

QueueInit ==
  /\ next = [n \in Node |-> NullPtr]
  /\ value = [n \in Node |-> NullPtr]
  /\ head = 0 /\ tail = 0 /\ freed = {}
  /\ ppc = [p \in Producers |-> "idle"]
  /\ oldTail = [p \in Producers |-> 0]
  /\ newNode = [p \in Producers |-> 0]
  /\ cpc = "idle"
  /\ oldHead = 0
  /\ nextOf = NullPtr
  /\ pushed = <<>> /\ popped = <<>>
-----------------------------------------------------------------------------
(* push: construct the node and exchange it with tail_.                    *)
Exchange(p, m) ==
  /\ ppc[p] = "idle" /\ tail < MaxPush
  /\ value' = [value EXCEPT ![tail + 1] = m]
  /\ oldTail' = [oldTail EXCEPT ![p] = tail]
  /\ newNode' = [newNode EXCEPT ![p] = tail + 1]
  /\ tail' = tail + 1
  /\ ppc' = [ppc EXCEPT ![p] = "link"]
  /\ pushed' = Append(pushed, m)
  /\ UNCHANGED <<next, head, freed, consVars, popped>>

(* push that reads tail_ again to link, and push that does not link        *)
(* (mutants).                                                              *)
Link_rereads(p) ==
  /\ ppc[p] = "link"
  /\ next' = [next EXCEPT ![tail] = newNode[p]]
  /\ ppc' = [ppc EXCEPT ![p] = "idle"]
  /\ UNCHANGED <<value, head, tail, freed, oldTail, newNode, consVars, pushed, popped>>

Link_forgotten(p) ==
  /\ ppc[p] = "link"
  /\ ppc' = [ppc EXCEPT ![p] = "idle"]
  /\ UNCHANGED <<memory, oldTail, newNode, consVars, pushed, popped>>

(* push: store the new node behind the old tail, which makes it reachable. *)
Link(p) ==
  /\ ppc[p] = "link"
  /\ next' = [next EXCEPT ![oldTail[p]] = newNode[p]]
  /\ ppc' = [ppc EXCEPT ![p] = "idle"]
  /\ UNCHANGED <<value, head, tail, freed, oldTail, newNode, consVars, pushed, popped>>

(* try_pop: load head_.                                                    *)
LoadHead ==
  /\ cpc = "idle"
  /\ oldHead' = head
  /\ cpc' = "loadNext"
  /\ UNCHANGED <<memory, prodVars, nextOf, pushed, popped>>

(* try_pop: load old_head->next; null means "empty" and returns false.     *)
LoadNext ==
  /\ cpc = "loadNext"
  /\ nextOf' = next[oldHead]
  /\ cpc' = IF next[oldHead] = NullPtr THEN "idle" ELSE "cas"
  /\ UNCHANGED <<memory, prodVars, oldHead, pushed, popped>>

(* try_pop: the CAS takes the node.                                        *)
CasTakes ==
  /\ cpc = "cas" /\ head = oldHead
  /\ head' = nextOf
  /\ cpc' = "move"
  /\ UNCHANGED <<next, value, tail, freed, prodVars, oldHead, nextOf, pushed, popped>>

(* try_pop: the CAS fails, because head_ moved or spuriously, and reloads. *)
CasFails ==
  /\ cpc = "cas"
  /\ oldHead' = head
  /\ cpc' = "loadNext"
  /\ UNCHANGED <<memory, prodVars, nextOf, pushed, popped>>

(* try_pop that reads the old dummy's payload (mutant).                    *)
MoveOut_ofDummy ==
  /\ cpc = "move"
  /\ popped' = Append(popped, value[oldHead])
  /\ value' = [value EXCEPT ![oldHead] = NullPtr]
  /\ cpc' = "delete"
  /\ UNCHANGED <<next, head, tail, freed, prodVars, oldHead, nextOf, pushed>>

(* try_pop: move the payload out of the node that is the dummy from now on. *)
MoveOut ==
  /\ cpc = "move"
  /\ popped' = Append(popped, value[nextOf])
  /\ value' = [value EXCEPT ![nextOf] = NullPtr]
  /\ cpc' = "delete"
  /\ UNCHANGED <<next, head, tail, freed, prodVars, oldHead, nextOf, pushed>>

(* try_pop that deletes the node it took the payload from (mutant).        *)
DeleteOld_next ==
  /\ cpc = "delete"
  /\ freed' = freed \cup {nextOf}
  /\ cpc' = "idle"
  /\ UNCHANGED <<next, value, head, tail, prodVars, oldHead, nextOf, pushed, popped>>

(* try_pop: delete the old dummy and return true.                          *)
DeleteOld ==
  /\ cpc = "delete"
  /\ freed' = freed \cup {oldHead}
  /\ cpc' = "idle"
  /\ UNCHANGED <<next, value, head, tail, prodVars, oldHead, nextOf, pushed, popped>>

TryPop ==
  LoadHead \/ LoadNext \/ CasTakes \/ CasFails \/ MoveOut \/ DeleteOld

QueueNext ==
  \/ \E p \in Producers : (\E m \in Msg : Exchange(p, m)) \/ Link(p)
  \/ TryPop

QueueSpec == QueueInit /\ [][QueueNext]_listVars

(* A push that began is finished by its thread; the consumer's run_loop    *)
(* polls for ever; a weak CAS does not fail spuriously for ever.           *)
QueueFairness ==
  /\ \A p \in Producers : WF_listVars(Link(p))
  /\ WF_listVars(TryPop) /\ SF_listVars(CasTakes)

QueueFairSpec == QueueSpec /\ QueueFairness
-----------------------------------------------------------------------------
(* No thread is about to follow a pointer to a deleted node: a producer    *)
(* never links behind a node the consumer deleted, the consumer never      *)
(* reads one, and head_ and tail_ never dangle.                            *)
NoUseAfterFree ==
  /\ {head, tail} \cap freed = {}
  /\ \A p \in Producers : ppc[p] = "link" => {oldTail[p], newNode[p]} \cap freed = {}
  /\ cpc \in {"loadNext", "delete"} => oldHead \notin freed
  /\ cpc = "move" => nextOf \notin freed

(* The only thing that can hide a pushed message from try_pop is a push    *)
(* still between its two steps: a node without successor that is not the   *)
(* tail has its producer about to link it.                                 *)
HiddenOnlyByPendingLink ==
  \A n \in head..tail :
    (n < tail /\ next[n] = NullPtr) =>
      \E p \in Producers : ppc[p] = "link" /\ oldTail[p] = n

(* Every pushed message is popped in the end, although try_pop may report  *)
(* "empty" many times before.                                              *)
EveryPushPopped ==
  \A n \in 1..MaxPush : (Len(pushed) >= n) ~> (Len(popped) >= n)

(* The queue implements the abstract channel: payloads come out of try_pop *)
(* once each, whole, in the order in which the pushes exchanged tail_.     *)
Chan == INSTANCE Channel WITH sent <- pushed, rcvd <- popped
ImplementsChannel == Chan!ChanSpec
=============================================================================
