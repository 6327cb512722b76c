----------------------------- MODULE MCAliSynth -----------------------------
(* An instance of AliSynth for TLC. *)
EXTENDS AliSynth

CONSTANT s1
OneSession == {s1}

\* A chunk of a single frame and one of two.
TwoChunks == {<<1, 2>>}
=============================================================================
