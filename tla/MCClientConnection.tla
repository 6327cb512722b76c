------------------------- MODULE MCClientConnection -------------------------
(***************************************************************************)
(* Instances of ClientConnection for TLC.                                  *)
(***************************************************************************)
EXTENDS ClientConnection

CONSTANT Talker   \* the channel that sends two requests, the others send one

MCTimers == Channels

MCMaxRequests == [ch \in Channels |-> IF ch = Talker THEN 2 ELSE 1]

=============================================================================
