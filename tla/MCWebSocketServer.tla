------------------------- MODULE MCWebSocketServer -------------------------
(* Instances: two clients and two io threads, so that one session may hang *)
(* while the other one is served.                                          *)
EXTENDS WebSocketServer

CONSTANTS s1, s2, t1, t2

MCSession == {s1, s2}
MCIo == {t1, t2}
=============================================================================
