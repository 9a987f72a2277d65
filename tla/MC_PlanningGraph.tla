--------------------------- MODULE MC_PlanningGraph ---------------------------
(* A country with two cities, one of which has the name of another country,   *)
(* and a misspelling of the first country; updates that give a whole trip, or *)
(* change its destination, its rooms or its dates to a window.                *)
EXTENDS PlanningGraph, TLC

CONSTANTS pt, gt, lis, ant

MCName == [x \in {pt, gt, lis, ant} |-> CASE x = pt -> "Portugal" [] x = gt -> "Antigua"
                                          [] x = lis -> "Lisbon" [] x = ant -> "Antigua"]
MCCountryOf == [c \in {lis, ant} |-> pt]
MCRank == (lis :> 1) @@ (ant :> 2)
MCCodeOrder == (pt :> 1) @@ (gt :> 2)
MCExactly == ("Portugal" :> {pt}) @@ ("Antigua" :> {gt})
MCNearly == "Portugl" :> {pt}

Trip ==
    [destination |-> "Lisbon", origin |-> "Home", start_date |-> 2, end_date |-> 3, adults |-> 2,
     minor_count |-> 0, transport |-> "flight", cabin_class |-> "economy",
     needs_lodging |-> TRUE, rooms |-> 1, budget_decision |-> "no_limit"]

MCUpdates ==
    {[said |-> Trip, inferred |-> TRUE]}
    \cup {[said |-> u, inferred |-> FALSE] :
            u \in {[destination |-> "Portugl"], [destination |-> "Antigua"], [rooms |-> 2],
                  [date_window_start |-> 2, date_window_end |-> 4, duration_days |-> 2]}}

MCDealLists == {{[from |-> 0, days |-> 2]}}

MCDealRequests ==
    {[origin |-> "Home", destination |-> "Lisbon", start |-> 2, end |-> 4, adults |-> 1,
      children |-> 0, seated |-> 0, laps |-> 0, currency |-> "USD"]}
==============================================================================
