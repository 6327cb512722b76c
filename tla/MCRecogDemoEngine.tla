-------------------------- MODULE MCRecogDemoEngine --------------------------
(* Instances of RecogDemoEngine for TLC. *)
EXTENDS RecogDemoEngine, TLC

AllStops == {{}} \cup {{i} : i \in Ids}
=============================================================================
