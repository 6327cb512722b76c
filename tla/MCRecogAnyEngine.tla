-------------------------- MODULE MCRecogAnyEngine --------------------------
(* Instances of RecogAnyEngine for TLC. *)
EXTENDS RecogAnyEngine, TLC

AllStops == {{}} \cup {{i} : i \in Ids}
=============================================================================
