--------------------------- MODULE MCAliRecogPool ---------------------------
(* Instances of AliRecogPool for TLC. *)
EXTENDS AliRecogPool, TLC

CONSTANTS s1, s2
TwoSessions == {s1, s2}

\* Nothing tells the sessions apart.
SessionSymmetry == Permutations(TwoSessions)
=============================================================================
