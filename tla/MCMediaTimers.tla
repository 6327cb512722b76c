---------------------------- MODULE MCMediaTimers ----------------------------
(***************************************************************************)
(* Instances of MediaTimers for TLC.                                       *)
(***************************************************************************)
EXTENDS MediaTimers

MCTimers == Streams \X {"tx", "rx"}

=============================================================================
