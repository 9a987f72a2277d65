------------------------- MODULE MC_TripItineraries -------------------------
(* Two requests race, over as many saves and generations as three versions   *)
(* allow.  Requests and messages are interchangeable; the symmetry is used   *)
(* for invariants and action properties only.                                *)
EXTENDS TripItineraries, TLC

CONSTANTS r1, r2, m1, m2, none

Symmetry == Permutations(Requests) \cup Permutations(Messages)
=============================================================================
