----------------------- MODULE MC_GenerationAdmission -----------------------
(* Three global slots, two a user, two admissions a user and day.  With the  *)
(* leases that failed cleanups leave behind, three requests reach either     *)
(* limit: one user has three messages, the other two, and several requests   *)
(* may ask for the same message.                                             *)
EXTENDS GenerationAdmission, TLC

CONSTANTS p1, p2, p3, ana, bo, a1, a2, a3, b1, b2

MCRequests == {p1, p2, p3}
MCSender == (a1 :> ana) @@ (a2 :> ana) @@ (a3 :> ana) @@ (b1 :> bo) @@ (b2 :> bo)
InstanceSymmetry ==
    Permutations(MCRequests) \cup Permutations({a1, a2, a3}) \cup Permutations({b1, b2})
=============================================================================
