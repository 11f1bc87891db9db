-------------------------- MODULE MCLockFreeQueue --------------------------
(* Instance: two producers, the one consumer, two payloads, four pushes.   *)
EXTENDS LockFreeQueue

CONSTANTS p1, p2, a, b

MCProducers == {p1, p2}
MCMsg == {a, b}
=============================================================================
