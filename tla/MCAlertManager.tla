--------------------------- MODULE MCAlertManager ---------------------------
(* Instance: messages of every kind, with no, one and several alerts.      *)
EXTENDS AlertManager

both == {"CRACK_DEPTH_EXCEEDED", "CRACK_WIDTH_EXCEEDED"}

MCMeasurement ==
  {[kind |-> "laser", crack_detected |-> d, cracks |-> c] :
     d \in BOOLEAN, c \in {<<>>, <<both>>, <<{"CRACK_WIDTH_EXCEEDED"}, {}, both>>}}
  \cup {[kind |-> "vibration", rms |-> r, peak |-> p] : r, p \in BOOLEAN}
  \cup {[kind |-> "prediction", risk |-> r] : r \in {"LOW", "HIGH"}}
=============================================================================
