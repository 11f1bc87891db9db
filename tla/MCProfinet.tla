----------------------------- MODULE MCProfinet -----------------------------
(* Instance: one connection, since sessions share nothing.  The time bits  *)
(* end a frame with its header, or, for a payload of no or one item, where *)
(* the parser needs it, at its true end, or inside the frame after it.     *)
EXTENDS Profinet

CONSTANT c1

MCConn == {c1}
MCTimeBits == {0, 5, 6}
MCReading == {[kind |-> LASER_DATA, sensor |-> 1, items |-> 1],
              [kind |-> VIBRATION_DATA, sensor |-> 2, items |-> 0]}
=============================================================================
