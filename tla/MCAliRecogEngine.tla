-------------------------- MODULE MCAliRecogEngine --------------------------
(* Instances of AliRecogEngine for TLC. *)
EXTENDS AliRecogEngine, TLC

\* With one RECOGNIZE at a time a STOP needs no list.
PlainStops == {{}}
=============================================================================
