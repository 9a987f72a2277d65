---------------------------- MODULE TravelOptions ----------------------------
(* What the research for a trip may return, what of it the user may choose,   *)
(* and how a choice is resolved.  An offer of a flight is identified by what  *)
(* it was offered for and a number; a hotel by its number in the list alone,  *)
(* and the stay that it was offered for is recorded beside it.                *)
EXTENDS TripRequirements

CONSTANTS
    FlightLists,    \* the numbers of the flights that a search may offer
    HotelLists,     \* the numbers of the hotels that a search may offer
    DealLists       \* the deals that a discovery may offer: sets of [from, days] in its window

\* What flights are offered for, and what hotels are offered for.
Journey(q) ==
    [origin |-> q.origin, destination |-> q.destination, start |-> q.start, end |-> q.end,
     adults |-> q.adults, minors |-> q.children + q.seated + q.laps]
Stay(q) ==
    [destination |-> q.destination, start |-> q.start, end |-> q.end,
     adults |-> q.adults, minors |-> q.children + q.seated + q.laps, rooms |-> q.rooms]

\* PlanningResearchService.cache_key; which providers are available does not change.
CacheKey(r) == [request |-> ToTripRequest(r), transport |-> r.transport, lodging |-> r.needs_lodging]

------------------------------------------------------------------------------
(* Research.  Every kind is searched on its own; a search may fail, ask for   *)
(* guidance, verify that there is nothing, or return offers.                  *)

NoSearch == [offers |-> {}, nearby |-> {}, empty |-> FALSE, warned |-> FALSE, guided |-> FALSE]
SearchFails == [NoSearch EXCEPT !.warned = TRUE]
SearchGuides == [NoSearch EXCEPT !.guided = TRUE]
SearchEmpty == [NoSearch EXCEPT !.warned = TRUE, !.empty = TRUE]

SearchOffers(asked, numbers) == [NoSearch EXCEPT !.offers = {[for |-> asked, n |-> n] : n \in numbers}]
SearchNearby(dates, failed) == [NoSearch EXCEPT !.nearby = dates, !.warned = failed]

\* The dates one day earlier or later, none of which begins in the past.
NearbyDates(q, today) ==
    {[start |-> q.start + shift, end |-> q.end + shift] :
        shift \in {s \in {-1, 1} : q.start + s >= today}}

\* Both searches ask for other dates once the first day has passed, and search before that.
Searched(start, today, results) == {SearchFails, SearchGuides} \cup (IF start < today THEN {} ELSE results)

\* _search_flights_with_nearby_dates: exact dates first, and the nearby dates only when no
\* offer was verified; of those, some may fail and some have nothing.
FlightSearch(q, today, nearby) ==
    Searched(q.start, today,
        {SearchEmpty} \cup {SearchOffers(Journey(q), list) : list \in FlightLists}
        \cup (IF nearby
              THEN {SearchNearby(dates, failed) :
                      dates \in (SUBSET NearbyDates(q, today)) \ {{}}, failed \in BOOLEAN}
              ELSE {}))

HotelSearch(q, today) ==
    Searched(q.start, today, {SearchEmpty} \cup {SearchOffers(Stay(q), list) : list \in HotelLists})

\* PlanningResearchService.research: a selected deal takes the place of the flight search;
\* places and the forecast can only warn.
ResearchResults(r, today, nearby, deal) ==
    LET q == ToTripRequest(r)
        flights == IF r.transport = "flight" /\ deal = None
                   THEN FlightSearch(q, today, nearby)
                   ELSE {[NoSearch EXCEPT !.offers = IF deal = None THEN {} ELSE {deal}]}
        hotels == IF r.needs_lodging = TRUE THEN HotelSearch(q, today) ELSE {NoSearch} IN
    {[key |-> CacheKey(r), flights |-> f.offers, nearby |-> f.nearby, hotels |-> h.offers,
      empty |-> {k \in {"flight", "hotel"} : IF k = "flight" THEN f.empty ELSE h.empty},
      warned |-> f.warned \/ h.warned \/ other, guided |-> f.guided \/ h.guided, fresh |-> TRUE] :
        f \in flights, h \in hotels, other \in BOOLEAN}

\* research_for_selection: only what was selected is left for the itinerary.
Selected(research, flight, hotel) ==
    [research EXCEPT !.flights = @ \cap {flight}, !.nearby = {},
                     !.hotels = {h \in @ : hotel # None /\ h.n = hotel.n}]

------------------------------------------------------------------------------
(* Choices.                                                                  *)

\* travel_options and flight_date_options.
Options(research, kind) ==
    CASE kind = "flight" -> research.flights
      [] kind = "hotel" -> research.hotels
      [] kind = "flight_dates" -> research.nearby

\* The identifier by which an option is known.
Id(kind, option) == IF kind = "hotel" THEN option.n ELSE option

Ask(kind, options, reason) == [kind |-> kind, options |-> options, reason |-> reason]

\* _resolve_selection: a choice that is still offered stands, one option needs no choice.
Resolve(kind, research, choice) ==
    LET options == Options(research, kind) IN
    IF choice # None /\ \E o \in options : Id(kind, o) = Id(kind, choice)
    THEN [choice |-> choice, ask |-> None]
    ELSE IF Cardinality(options) > 1 THEN [choice |-> None, ask |-> Ask(kind, options, "choose")]
    ELSE IF options # {} THEN [choice |-> CHOOSE o \in options : TRUE, ask |-> None]
    ELSE [choice |-> None, ask |-> IF kind \in research.empty THEN Ask(kind, {}, "no_results") ELSE None]

------------------------------------------------------------------------------
(* Deals.                                                                    *)

Party(d) == d.children + d.seated + d.laps

\* DealDiscoveryService.discover: the first deals whose dates lie in the window.
DealOptions(d) ==
    {{[for |-> [origin |-> d.origin, destination |-> d.destination,
                start |-> d.start + o.from, end |-> d.start + o.from + o.days - 1,
                adults |-> d.adults, minors |-> Party(d)], n |-> 0] :
        o \in {x \in list : d.start + x.from + x.days - 1 <= d.end}} : list \in DealLists}
==============================================================================
