-------------------------- MODULE MCServerConnection --------------------------
(***************************************************************************)
(* Instances of ServerConnection for TLC.                                  *)
(***************************************************************************)
EXTENDS ServerConnection

MCTimers == Conns \X {"inactivity", "termination"}

=============================================================================
