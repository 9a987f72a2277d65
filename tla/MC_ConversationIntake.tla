------------------------ MODULE MC_ConversationIntake ------------------------
(* Two requests beside the rows of an earlier one, with two users and client *)
(* ids, with or without a trip, which is one user's, and as many             *)
(* conversations as they can ever create.                                    *)
EXTENDS ConversationIntake

Owners == [t \in Trips |-> CHOOSE u \in Users : TRUE]
=============================================================================
