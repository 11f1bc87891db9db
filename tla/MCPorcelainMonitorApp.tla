----------------------- MODULE MCPorcelainMonitorApp -----------------------
(* Instance: two porcelains and two filters, so that answers for one can   *)
(* overtake those for the other, and an alert can come while the server is *)
(* down and back.                                                          *)
EXTENDS PorcelainMonitorApp

CONSTANTS a, b, SONG

MCPorcelain == {a, b}
MCDynasty == {ALL, SONG}
=============================================================================
