--------------------------- MODULE MC_TripDialogue ---------------------------
(* Updates of one field, or of a few that are given together, over three     *)
(* days, with parties of up to two adults and two minors, one of whom may be  *)
(* an infant.  A start, an end and a length may come in one message, which is *)
(* the only way to have all three.                                            *)
EXTENDS TripDialogue

Party ==
    {[adults |-> 1], [adults |-> 2, minor_count |-> 0]}
    \cup {[minor_count |-> 2], [minor_count |-> 2, minor_ages |-> <<1, 1>>]}
    \cup {[minor_ages |-> ages] : ages \in {None, <<9, 1>>}}
    \cup {[infant_on_lap |-> laps] : laps \in {<<FALSE>>, <<TRUE>>, <<TRUE, TRUE>>}}

Dates ==
    {[start_date |-> d] : d \in 0 .. 1} \cup {[end_date |-> d] : d \in {None, 2}}
    \cup {[duration_days |-> n] : n \in {None, 2}}
    \cup {[date_window_end |-> 2], [date_window_start |-> 1, date_window_end |-> 3],
          [start_date |-> 1, date_window_end |-> 3],
          [start_date |-> 0, end_date |-> 1, duration_days |-> 2]}

\* The parts of a trip that no rule relates to its dates or its minors, given together.
Rest ==
    {[destination |-> "LIS", origin |-> "HOM", transport |-> "flight", cabin_class |-> "economy"],
     [destination |-> "LIS", transport |-> "flight", cabin_class |-> "economy"],
     [origin |-> "LIS"], [transport |-> "rail"],
     [needs_lodging |-> TRUE, rooms |-> 2], [needs_lodging |-> FALSE, budget_decision |-> "no_limit"],
     [budget_decision |-> "specified", total_budget |-> 5, budget_currency |-> "EUR"]}

MCUpdates == Party \cup Dates \cup Rest
==============================================================================
