-------------------------- MODULE MCSynthAnyEngine --------------------------
(* Instances of SynthAnyEngine for TLC. *)
EXTENDS SynthAnyEngine, TLC

PlainStops == {{}}
\* The client stops its second SPEAK, and nothing else.
StopSecond == {{2}}
AllMethods == {"SPEAK", "STOP", "PAUSE", "RESUME", "BARGE-IN-OCCURRED", "CONTROL",
               "DEFINE-LEXICON", "SET-PARAMS"}
AllStops == {{}} \cup {{i} : i \in Ids}
=============================================================================
