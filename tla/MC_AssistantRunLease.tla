------------------------ MODULE MC_AssistantRunLease ------------------------
(* Two workers that keep their deadlines and one that may be suspended: the *)
(* smallest cast in which a run is reclaimed from a sleeper, reclaimed again *)
(* after a failure, and watched by a third caller.                           *)
EXTENDS AssistantRunLease, TLC

CONSTANTS p1, p2, s1

MCWorkers == {p1, p2, s1}
MCPunctual == {p1, p2}
PunctualSymmetry == Permutations(MCPunctual)
=============================================================================
