---------------------------- MODULE MCThreadPool ----------------------------
(* Instance: two workers, so that one can sleep while the other is the     *)
(* last to finish, and two clients.                                        *)
EXTENDS ThreadPool

CONSTANTS w1, w2, c1, c2

MCWorkers == {w1, w2}
MCClients == {c1, c2}
=============================================================================
