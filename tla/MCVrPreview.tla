---------------------------- MODULE MCVrPreview ----------------------------
(* Instances: two workers, so that builds and cracks compete for them, as  *)
(* many builds, so that all workers may wait inside one, and two clients,  *)
(* so that a call overtakes another one between its test and its set.      *)
EXTENDS VrPreview

CONSTANTS w1, w2, c1, c2

MCWorker == {w1, w2}
MCClient == {c1, c2}

(* A build that succeeds, one whose first crack throws before the second   *)
(* one ran, and one whose porcelain throws.                                *)
MCInput == {[cracks |-> 1, bad |-> NULL], [cracks |-> 2, bad |-> 1], [cracks |-> 1, bad |-> 0]}
=============================================================================
