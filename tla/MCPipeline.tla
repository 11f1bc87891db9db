----------------------------- MODULE MCPipeline -----------------------------
(* Instances: the wiring that the banner of main.cpp draws, with an input  *)
(* queue given to the two fan-out modules, and the wiring of wire_pipeline *)
(* as it stands, where both inputs are still null.                         *)
EXTENDS Pipeline

BannerWiring == [m \in FanOut |-> IF m = "LaserFanOut" THEN "laser_in" ELSE "crack_in"]
CodeWiring == [m \in FanOut |-> NULL]

MCFrame == {[crack_detected |-> TRUE, cracks |-> 2], [crack_detected |-> TRUE, cracks |-> 1],
            [crack_detected |-> FALSE, cracks |-> 1]}
=============================================================================
