--------------------------- MODULE TripRequirements ---------------------------
(* The rules of partial trip requirements: merge_requirements with the        *)
(* validation of TripRequirements, what TripRequirementsPolicy still asks for, *)
(* and the requests that complete requirements are turned into.  Dates are     *)
(* numbered days; names, currencies and interests are values of small sets.    *)
(* Pace and constraints, on which no rule depends, are left out.               *)
EXTENDS Integers, Sequences, FiniteSets

CONSTANTS
    LastDate,       \* date.max, the end of the supported calendar
    None,           \* an answer that is not known
    Invalid         \* the outcome of a constructor that raises

ASSUME DateAssumption == LastDate \in Nat

MaxTravelers == 100
MaxWindow == 31
MaxDealTravelers == 9
MaxNights == 99
MaxInterests == 10
InfantAge == 2

Fields ==
    {"destination", "origin", "start_date", "end_date", "date_window_start", "date_window_end",
     "duration_days", "adults", "minor_count", "minor_ages", "transport", "cabin_class",
     "infant_on_lap", "needs_lodging", "rooms", "budget_decision", "total_budget",
     "budget_currency", "interests"}

\* TripRequirements(): nothing is known yet.
Unknown == [f \in Fields |-> IF f = "interests" THEN {} ELSE None]

\* What an answer to a field is, where the rules calculate with it.
IsAnswer(f, v) ==
    /\ f \in {"start_date", "end_date", "date_window_start", "date_window_end",
             "duration_days", "adults", "minor_count", "rooms"} => v \in Int
    /\ f = "minor_ages" => v \in Seq(Nat)
    /\ f = "infant_on_lap" => v \in Seq(BOOLEAN)
    /\ f = "needs_lodging" => v \in BOOLEAN

Infants(ages) == Cardinality({k \in DOMAIN ages : ages[k] < InfantAge})
Laps(laps) == Cardinality({k \in DOMAIN laps : laps[k]})

------------------------------------------------------------------------------
(* Validation.                                                               *)

\* resolved_end_date: the end date, or the one that the duration gives.
ResolvedEnd(r) ==
    IF r.end_date # None THEN r.end_date
    ELSE IF r.start_date # None /\ r.duration_days # None
         THEN r.start_date + r.duration_days - 1 ELSE None

Days(first, last) == last - first + 1

\* Exact dates: in order, within the calendar, and as long as the duration says.
ValidDates(r) ==
    LET end == ResolvedEnd(r) IN
    /\ end # None => end <= LastDate
    /\ r.start_date # None /\ end # None => end > r.start_date
    /\ r.start_date # None /\ r.end_date # None /\ r.duration_days # None
         => r.duration_days = Days(r.start_date, r.end_date)

\* A flexible window: instead of exact dates, at most a month, and room for the trip.
ValidWindow(r) ==
    /\ r.start_date # None \/ r.end_date # None
         => r.date_window_start = None /\ r.date_window_end = None
    /\ r.date_window_start # None /\ r.date_window_end # None =>
         LET window == Days(r.date_window_start, r.date_window_end) IN
         /\ window \in 2 .. MaxWindow
         /\ r.duration_days # None => r.duration_days <= window

ValidParty(r) ==
    LET minors == IF r.minor_count # None THEN r.minor_count
                  ELSE IF r.minor_ages # None THEN Len(r.minor_ages) ELSE 0 IN
    /\ r.minor_count # None /\ r.minor_ages # None => Len(r.minor_ages) = r.minor_count
    /\ r.adults # None => r.adults + minors <= MaxTravelers
    /\ r.infant_on_lap # None =>
         /\ r.minor_ages # None
         /\ Len(r.infant_on_lap) = Infants(r.minor_ages)
         /\ r.adults # None => Laps(r.infant_on_lap) <= r.adults

\* validate_known_requirements, and the bounds of the fields.
Valid(r) ==
    /\ r.duration_days # None => r.duration_days >= 2
    /\ r.adults # None => r.adults \in 1 .. MaxTravelers
    /\ r.minor_count # None => r.minor_count \in 0 .. MaxTravelers - 1
    /\ r.minor_ages # None => Len(r.minor_ages) < MaxTravelers
    /\ r.infant_on_lap # None => Len(r.infant_on_lap) < MaxTravelers
    /\ r.rooms # None => r.rooms \in 1 .. MaxTravelers
    /\ r.total_budget # None => r.total_budget > 0
    /\ Cardinality(r.interests) <= MaxInterests
    /\ ValidDates(r) /\ ValidWindow(r) /\ ValidParty(r)
    /\ r.origin # None => r.origin # r.destination
    /\ r.needs_lodging = TRUE /\ r.adults # None /\ r.rooms # None => r.rooms <= r.adults
    /\ r.budget_decision \in {"undecided", "no_limit"} => r.total_budget = None

------------------------------------------------------------------------------
(* merge_requirements.  The updates are a function on the fields they name.  *)

Says(u, f) == f \in DOMAIN u /\ u[f] # None

\* Variant: a new minor count forgets the ages that come with it.
Mutant_ForgetsAges(r, u) ==
    IF "minor_count" \in DOMAIN u /\ u.minor_count # r.minor_count
    THEN {"minor_ages", "infant_on_lap"} ELSE {}

\* The fields that go with an answer on which they depend.
OutdatedParty(r, u) ==
    LET said == DOMAIN u
        recounted == "minor_count" \in said /\ (u.minor_count # r.minor_count \/ u.minor_count = 0)
    IN  (IF recounted THEN {"minor_ages", "infant_on_lap"} \ said ELSE {})
        \cup (IF "minor_ages" \in said THEN {"infant_on_lap"} \ said ELSE {})

\* Variant: a new start date leaves the end date of the old one.
Mutant_KeepsEnd(r, u) ==
    LET said == DOMAIN u IN
    (IF Says(u, "start_date") \/ Says(u, "end_date") THEN {"date_window_start", "date_window_end"}
     ELSE IF Says(u, "date_window_start") \/ Says(u, "date_window_end")
          THEN {"start_date", "end_date"} ELSE {})
    \cup (IF "end_date" \in said
          THEN IF "duration_days" \in said THEN {} ELSE {"duration_days"}
          ELSE IF "duration_days" \in said THEN {"end_date"} ELSE {})

OutdatedDates(r, u) ==
    LET said == DOMAIN u IN
    (IF Says(u, "start_date") \/ Says(u, "end_date") THEN {"date_window_start", "date_window_end"}
     ELSE IF Says(u, "date_window_start") \/ Says(u, "date_window_end")
          THEN {"start_date", "end_date"} ELSE {})
    \cup (IF "end_date" \in said
          THEN IF "duration_days" \in said THEN {} ELSE {"duration_days"}
          ELSE IF "duration_days" \in said \/ ("start_date" \in said /\ r.duration_days # None)
               THEN {"end_date"} ELSE {})

Outdated(r, u) ==
    LET said == DOMAIN u IN
    OutdatedDates(r, u) \cup OutdatedParty(r, u)
    \cup (IF "budget_decision" \in said /\ u.budget_decision \in {"undecided", "no_limit"}
          THEN {"total_budget", "budget_currency"} \ said ELSE {})
    \cup (IF "needs_lodging" \in said /\ u.needs_lodging = FALSE THEN {"rooms"} \ said ELSE {})

\* Exact dates and a window cannot be given at once.
Contradictory(u) ==
    /\ Says(u, "start_date") \/ Says(u, "end_date")
    /\ Says(u, "date_window_start") \/ Says(u, "date_window_end")

\* Omitted fields survive, null clears a field, and the result is validated.
MergeRequirements(r, u) ==
    LET outdated == Outdated(r, u)
        value(f) == IF f \in DOMAIN u THEN u[f] ELSE r[f]
        merged == [f \in Fields |->
            IF f \in outdated THEN None
            ELSE IF f = "interests" /\ value(f) = None THEN {} ELSE value(f)]
    IN  IF DOMAIN u \subseteq Fields /\ ~Contradictory(u) /\ Valid(merged) THEN merged ELSE Invalid

------------------------------------------------------------------------------
(* TripRequirementsPolicy.missing_fields, at a day, for a profile that has a *)
(* budget tier or not.                                                       *)

\* Variant: dates that have passed are not asked for again.
Mutant_PastDates(r, today) ==
    IF r.date_window_start # None \/ r.date_window_end # None
    THEN {f \in {"date_window_start", "date_window_end", "duration_days"} : r[f] = None}
    ELSE {f \in {"start_date"} : r[f] = None} \cup {f \in {"end_date"} : ResolvedEnd(r) = None}

MissingDates(r, today) ==
    LET start == r.date_window_start  end == r.date_window_end IN
    IF start # None \/ end # None
    THEN (IF start = None \/ end = None \/ start < today \/ end < today
          THEN {"date_window"} ELSE {})
         \cup (IF r.duration_days = None THEN {"duration_days"} ELSE {})
    ELSE (IF r.start_date = None \/ r.start_date < today THEN {"start_date"} ELSE {})
         \cup (IF ResolvedEnd(r) = None \/ ResolvedEnd(r) < today THEN {"end_date"} ELSE {})

\* Variant: an origin is never asked for.
Mutant_NoOrigin(r) == IF r.transport = None THEN {"transport"} ELSE {}

MissingRoute(r) ==
    IF r.transport = None THEN {"transport"}
    ELSE IF r.transport # "own_arrangements" /\ r.origin = None THEN {"origin"} ELSE {}

MissingTransport(r) ==
    MissingRoute(r)
    \cup (IF r.transport = "flight" /\ r.cabin_class = None THEN {"cabin_class"} ELSE {})
    \cup (IF r.transport = "flight" /\ r.minor_ages # None /\ r.infant_on_lap = None
             /\ Infants(r.minor_ages) > 0
          THEN {"infant_seating"} ELSE {})

MissingParty(r) ==
    {f \in {"destination", "adults", "minor_count"} : r[f] = None}
    \cup (IF r.minor_count # None /\ r.minor_count > 0 /\ r.minor_ages = None
          THEN {"minor_ages"} ELSE {})
    \cup (IF r.needs_lodging = None THEN {"needs_lodging"}
          ELSE IF r.needs_lodging /\ r.rooms = None THEN {"rooms"} ELSE {})

MissingBudget(r, tier) ==
    IF r.budget_decision = None THEN IF tier THEN {} ELSE {"budget_decision"}
    ELSE IF r.budget_decision = "specified"
         THEN {f \in {"total_budget", "budget_currency"} : r[f] = None} ELSE {}

MissingFields(r, today, tier) ==
    MissingDates(r, today) \cup MissingTransport(r) \cup MissingParty(r) \cup MissingBudget(r, tier)

------------------------------------------------------------------------------
(* The requests that complete requirements become.                           *)

\* to_trip_request; the ages of minors are counted by how they travel.
ToTripRequest(r) ==
    LET ages == IF r.minor_ages = None THEN <<>> ELSE r.minor_ages
        laps == IF r.infant_on_lap = None THEN 0 ELSE Laps(r.infant_on_lap)
    IN  [origin |-> r.origin, destination |-> r.destination,
         start |-> r.start_date, end |-> ResolvedEnd(r), adults |-> r.adults,
         children |-> Len(ages) - Infants(ages), seated |-> Infants(ages) - laps, laps |-> laps,
         rooms |-> IF r.needs_lodging = TRUE THEN r.rooms ELSE 1,
         interests |-> r.interests, budget |-> r.total_budget,
         currency |-> IF r.budget_currency = None THEN "USD" ELSE r.budget_currency,
         cabin |-> IF r.cabin_class = None THEN "economy" ELSE r.cabin_class]

Travelers(q) == q.adults + q.children + q.seated + q.laps

\* The validators of TripRequest and TravelerParty.
BuildsTrip(q) ==
    /\ q.destination # None /\ q.start # None /\ q.end # None /\ q.end > q.start
    /\ q.adults # None /\ q.laps <= q.adults /\ Travelers(q) <= MaxTravelers
    /\ q.rooms # None /\ q.rooms <= q.adults
    /\ q.origin # q.destination

\* FlightSearchPreparationInput and HotelSearchInput.
BuildsFlightSearch(q) == q.origin # None /\ q.origin # q.destination /\ q.laps <= q.adults
BuildsHotelSearch(q) == q.end - q.start \in 1 .. MaxNights /\ q.rooms <= q.adults

\* DealDiscoveryWorkflow._build_request and DealDiscoveryInput.
ToDealRequest(r) ==
    LET q == ToTripRequest(r) IN
    [origin |-> r.origin, destination |-> r.destination,
     start |-> r.date_window_start, end |-> r.date_window_end, adults |-> r.adults,
     children |-> q.children, seated |-> q.seated, laps |-> q.laps, currency |-> q.currency]

BuildsDealSearch(d) ==
    /\ d.origin # None /\ d.destination # None /\ d.origin # d.destination
    /\ d.start # None /\ d.end # None /\ Days(d.start, d.end) \in 1 .. MaxWindow
    /\ d.adults # None /\ d.laps <= d.adults /\ Travelers(d) <= MaxDealTravelers

==============================================================================
