--------------------------- MODULE MCComputeModule ---------------------------
(* Two clients, two workers: a second call meets each step of the first.   *)
EXTENDS ComputeModule
MCClient == {"owner", "other"}
==============================================================================
