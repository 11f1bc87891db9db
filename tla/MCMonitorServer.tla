-------------------------- MODULE MCMonitorServer --------------------------
(* Instance: two messages whose cracks can share a second, and three       *)
(* requests on two threads.  One porcelain is enough for codes to clash.   *)
EXTENDS MonitorServer, TLC

CONSTANTS t1, t2, p

MCThread == {t1, t2}
MCPorcelain == {p}
MCContent ==
  {<<"laser", 2, TRUE, 0>>, <<"laser", 1, TRUE, 1>>, <<"laser", 1, FALSE, 0>>,
   <<"prediction", 0, FALSE, 0>>}
Symmetry == Permutations(MCThread)
=============================================================================
