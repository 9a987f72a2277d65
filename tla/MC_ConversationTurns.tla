------------------------ MODULE MC_ConversationTurns ------------------------
(* One worker keeps its timeouts and one may sleep through them, so that a   *)
(* lease can lapse under a worker that then writes.                          *)
EXTENDS ConversationTurns

CONSTANTS p1, s1
=============================================================================
