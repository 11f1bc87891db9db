----------------------------- MODULE MCDatabase -----------------------------
(* Instances: one function of every control skeleton, and one connection   *)
(* for two callers, so that a call waits for it, meets what another one    *)
(* left on it, or finds it gone.                                           *)
EXTENDS Database

CONSTANTS t1, t2, c1

MCThread == {t1, t2}
MCConn == {c1}

MCKind == {"log_profinet_packet", "get_crack", "insert_crack_points", "batch_insert_laser_data",
           "batch_insert_crack_detections", "insert_stress_grid_points"}
=============================================================================
