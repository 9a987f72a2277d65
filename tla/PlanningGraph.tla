----------------------------- MODULE PlanningGraph -----------------------------
(* The planning graph of a conversation: one message at a time is understood, *)
(* deterministically where it answers a pending question and by a model       *)
(* otherwise, merged into the planning state, saved, and answered by a        *)
(* question, by research and an itinerary, by flight deals or by a search of  *)
(* its own.  A turn works on a copy of the saved state; when it fails, the    *)
(* copy is lost and the same message may be answered again.  What a message   *)
(* says is chosen when it is understood.  That one turn runs at a time is the *)
(* subject of ConversationTurns.                                              *)
EXTENDS TravelOptions, DestinationResolution

CONSTANTS
    Updates,        \* what may be extracted from a message: [said, inferred], the fields
                    \* that it updates and whether the model inferred the flight
    DealRequests,   \* the requests of standalone deal searches
    Profile,        \* the interests of the user's profile
    Tier,           \* whether the profile has a budget tier
    FirstDay, LastDay,      \* the days on which the conversation may go on
    MaxMessages,    \* bound: the messages of the conversation
    MaxEdits        \* bound: how often the catalogue changes

ASSUME PlanningAssumption ==
    /\ FirstDay \in 0 .. LastDate /\ LastDay \in FirstDay .. LastDate
    /\ None \notin Int
    /\ \A u \in Updates :
         /\ DOMAIN u.said \subseteq Fields
         /\ \A f \in DOMAIN u.said : u.said[f] = None \/ IsAnswer(f, u.said[f])
    /\ \A d \in DealRequests : \A k \in {"start", "adults", "children", "seated", "laps"} : d[k] \in Int
    /\ \A list \in DealLists : \A o \in list : o.from \in Int /\ o.days \in Int

MaxPlanningDays == 30
Attempts == 2       \* of the extraction and of the itinerary

VARIABLES
    saved,          \* PlanningState in the database
    mine,           \* requirements_message_id is the message that is being answered
    planning,       \* the copy of the turn
    pc,             \* the node of the graph, or "idle" between turns
    attempt,        \* the attempt of a structured call
    outcome,        \* how the last turn ended
    routed,         \* the day on which the turn was routed, or None
    published,      \* the cities of the catalogue
    today,          \* utc_now().date()
    messages, edits \* messages and changes of the catalogue so far

turn == <<pc, attempt, outcome, routed>>
world == <<published, today, messages, edits>>
vars == <<saved, mine, planning, turn, world>>

\* PlanningState(); its language and its revision, which no step reads, are left out, and
\* so is the pending search, which only the prompt repeats.
NewPlanning ==
    [req |-> Unknown, phase |-> "idle", city |-> None, countries |-> None,
     inferred |-> FALSE, overridden |-> FALSE, itinerary |-> None, research |-> None,
     pending |-> None, deals |-> None, deal |-> None, flight |-> None, hotel |-> None,
     nearby |-> FALSE]

Init ==
    /\ saved = NewPlanning /\ planning = NewPlanning /\ mine = FALSE
    /\ pc = "idle" /\ attempt = 1 /\ outcome = "answered" /\ routed = None
    /\ published = Cities /\ today = FirstDay /\ messages = 0 /\ edits = 0

------------------------------------------------------------------------------
(* Routing.                                                                  *)

Missing(p, day) == MissingFields(p.req, day, Tier)
Asks(p) == p.countries # None \/ p.city # None

\* Variant: a pending destination no longer holds up the research.
Mutant_RouteOf(p, day) ==
    IF Missing(p, day) # {} THEN "commit"
    ELSE IF p.req.date_window_start # None THEN "deals" ELSE "research"

\* route_planning_requirements: a pending destination, then missing answers, then searches.
RouteOf(p, day) ==
    IF Asks(p) \/ Missing(p, day) # {} THEN "commit"
    ELSE IF p.req.date_window_start # None
         THEN IF /\ p.req.duration_days <= MaxPlanningDays
                 /\ p.req.transport = "flight" /\ p.req.cabin_class = "economy"
              THEN "deals" ELSE "commit"
         ELSE IF Days(p.req.start_date, ResolvedEnd(p.req)) > MaxPlanningDays
              THEN "commit" ELSE "research"

PhaseOf(p, day) == IF Asks(p) \/ Missing(p, day) # {} THEN "collecting" ELSE "ready"

\* The turn goes on at a node with p.
Moves(node, p) == pc' = node /\ planning' = p /\ attempt' = 1 /\ UNCHANGED outcome
To(node, p) == Moves(node, p) /\ UNCHANGED routed

\* The turn ends with an outcome; what is left of its copy is what was saved.
Ends(how, state) ==
    /\ pc' = "idle" /\ outcome' = how /\ planning' = state
    /\ attempt' = 1 /\ routed' = None
Fails == Ends("failed", saved)

Keeps == UNCHANGED <<saved, mine, world>>

\* The turn goes where p needs it to on this day, which is settled before p is persisted if
\* it changed the requirements; no later node reads the clock for it again.
Goes(p, changed) ==
    /\ Moves(IF changed THEN "persist" ELSE RouteOf(p, today), [p EXCEPT !.phase = PhaseOf(p, today)])
    /\ routed' = today

\* route_destination_requirements: a destination that may be a country is asked about.
Checked(p) ==
    LET found == PrepareCountry(p.req.destination, published) IN
    IF p.req.destination = None \/ Asks(p) \/ found.status = "not_recognized" THEN p
    ELSE IF found.status = "ambiguous" THEN [p EXCEPT !.countries = found.matches]
    ELSE [p EXCEPT !.city = CityChoice(CHOOSE k \in found.matches : TRUE, published,
                                       found.status = "confirmation_required")]

GoesChecked(p, changed) == Goes(Checked(p), changed \/ Checked(p) # p)

Merged(p, u) == MergeRequirements(p.req, u)

\* The updates u, and those of v to other fields.
Besides(u, v) == [f \in DOMAIN u \cup DOMAIN v |-> IF f \in DOMAIN u THEN u[f] ELSE v[f]]

------------------------------------------------------------------------------
(* Replies to pending questions, understood without a model.                 *)

\* Variant: the pending question survives the choice of another trip.
Mutant_Forgotten(p) == [p EXCEPT !.itinerary = None, !.research = None, !.hotel = None]

\* What a choice of another trip makes worthless.
Forgotten(p) ==
    [p EXCEPT !.itinerary = None, !.research = None, !.pending = None, !.hotel = None]

\* A reply was understood: the turn goes on, or the merge raised.
Replied(p, changed) == IF p = Invalid THEN Fails ELSE Goes(p, changed)
RepliedChecked(p, changed) == IF p = Invalid THEN Fails ELSE GoesChecked(p, changed)

\* confirm_country: the country becomes the destination until a city is chosen.
ConfirmCountry(country) ==
    LET req == Merged(planning, [destination |-> NameOf[country]]) IN
    IF req = Invalid THEN Invalid
    ELSE [planning EXCEPT !.req = req, !.countries = None, !.city = CityChoice(country, published, FALSE)]

CityChosen(p, req, cleared) ==
    [Forgotten(p) EXCEPT !.req = req, !.city = None, !.countries = None,
                         !.inferred = @ /\ ~cleared, !.deal = None, !.deals = None,
                         !.flight = None, !.nearby = FALSE]

\* A confirmed city: transport that was inferred for another destination is asked for anew,
\* and a city that contradicts the rest is not taken.
SelectCity(city) ==
    LET cleared == planning.inferred /\ NameOf[city] # planning.req.destination
        u == Besides([destination |-> NameOf[city]],
                     IF cleared THEN [transport |-> None, cabin_class |-> None] ELSE <<>>)
        req == Merged(planning, u) IN
    IF req = Invalid THEN Replied(planning, FALSE) ELSE Replied(CityChosen(planning, req, cleared), TRUE)

Narrowed(options) == Replied([planning EXCEPT !.city.options = options, !.countries = None], TRUE)

\* destination_reply: a country that was offered, a spelling that is confirmed, a city by its
\* option, which is looked up again, or by its name; other numbers only repeat the question.
ReplyCountry ==
    planning.countries # None /\ \E k \in planning.countries : Replied(ConfirmCountry(k), TRUE)

ChoosesCity == planning.countries = None /\ planning.city # None

ReplyYes == ChoosesCity /\ planning.city.confirm /\ Replied(ConfirmCountry(planning.city.country), TRUE)

ReplyOption ==
    ChoosesCity /\ \E c \in planning.city.options :
        IF c \in published THEN SelectCity(c) ELSE Narrowed(planning.city.options \ {c})

ReplyCityName ==
    ChoosesCity /\ \E name \in {NameOf[c] : c \in published} :
        LET cities == PublishedCities(name, {planning.city.country}, published) IN
        /\ cities # {}
        /\ IF Cardinality(cities) = 1 THEN SelectCity(CHOOSE c \in cities : TRUE)
           ELSE Narrowed(cities)

ReplyOutOfRange == Asks(planning) /\ Replied(planning, FALSE)

\* A deal that was offered: the trip takes its route, party and dates, and its flight.
PickDeal ==
    /\ planning.pending # None /\ planning.pending.kind = "deal" /\ planning.deals # None
    /\ \E o \in planning.deals.options \cap planning.pending.options :
         LET req == Merged(planning,
                 [origin |-> o.for.origin, destination |-> o.for.destination,
                  adults |-> o.for.adults, minor_count |-> o.for.minors,
                  transport |-> "flight", cabin_class |-> "economy",
                  start_date |-> o.for.start, end_date |-> o.for.end,
                  duration_days |-> Days(o.for.start, o.for.end)]) IN
         RepliedChecked(IF req = Invalid THEN Invalid
                        ELSE [Forgotten(planning) EXCEPT !.req = req, !.deal = o, !.flight = o], TRUE)

\* Options that are pending and still in the research that is stored.
Offered(kind) ==
    IF \/ planning.research = None \/ planning.pending = None
       \/ planning.pending.kind # kind \/ planning.pending.reason # "choose"
    THEN {}
    ELSE {o \in Options(planning.research, kind) :
            \E x \in planning.pending.options : Id(kind, x) = Id(kind, o)}

\* Nearby dates: the trip moves, and its flights are searched for again.
PickDates ==
    \E d \in Offered("flight_dates") :
        LET req == Merged(planning, [start_date |-> d.start, end_date |-> d.end,
                                     duration_days |-> Days(d.start, d.end)]) IN
        RepliedChecked(IF req = Invalid THEN Invalid
                       ELSE [Forgotten(planning) EXCEPT !.req = req, !.flight = None], TRUE)

PickFlight ==
    \E o \in Offered("flight") :
        RepliedChecked([planning EXCEPT !.pending = None, !.flight = o], FALSE)

PickHotel ==
    \E o \in Offered("hotel") :
        RepliedChecked([planning EXCEPT !.pending = None, !.hotel = o], FALSE)

Reply ==
    /\ pc = "extract" /\ attempt = 1 /\ ~mine
    /\ \/ ReplyCountry \/ ReplyYes \/ ReplyOption \/ ReplyCityName \/ ReplyOutOfRange
       \/ PickDeal \/ PickDates \/ PickFlight \/ PickHotel
    /\ Keeps

\* A message whose requirements were persisted before its turn failed is not read again.
Retried == pc = "extract" /\ mine /\ RepliedChecked(planning, FALSE) /\ Keeps

------------------------------------------------------------------------------
(* Understanding by a model.                                                 *)

\* The structured output is invalid, and one repair is allowed.
Repairs(stage) ==
    /\ pc = stage /\ (pc = "extract" => ~mine)
    /\ attempt < Attempts /\ attempt' = attempt + 1
    /\ UNCHANGED <<planning, pc, outcome, routed>> /\ Keeps

\* Chat, the question for the budget of a hotel search, and updates that contradict what is
\* known are answered without a change; a search of its own is made.
Chat == To("commit", planning)
Search == To("standalone", planning)

FlightFields ==
    {"origin", "destination", "start_date", "end_date", "date_window_start", "date_window_end",
     "duration_days", "adults", "minor_count", "minor_ages", "infant_on_lap", "transport",
     "cabin_class", "budget_currency"}

\* Variant: more rooms do not cost the hotel.
Mutant_HotelFields ==
    {"destination", "start_date", "end_date", "date_window_start", "date_window_end",
     "duration_days", "adults", "minor_count", "minor_ages", "needs_lodging",
     "budget_decision", "total_budget", "budget_currency"}

HotelFields ==
    {"destination", "start_date", "end_date", "date_window_start", "date_window_end",
     "duration_days", "adults", "minor_count", "minor_ages", "needs_lodging", "rooms",
     "budget_decision", "total_budget", "budget_currency"}

Without(u, fields) == [f \in DOMAIN u \ fields |-> u[f]]

\* While a city or a country is pending, another destination is accepted only when it is a
\* country or the one published city of its name in the pending country.
Verified(base, u) ==
    IF ~("destination" \in DOMAIN u) \/ ~Asks(base) THEN [updates |-> u, city |-> FALSE, cities |-> {}]
    ELSE LET text == u.destination
             cities == IF base.city = None THEN {}
                       ELSE PublishedCities(text, {base.city.country}, published) IN
         IF text \in {None, base.req.destination} \/ Recognize(text, FALSE).status = "exact"
         THEN [updates |-> u, city |-> FALSE, cities |-> {}]
         ELSE IF Cardinality(cities) = 1 THEN [updates |-> u, city |-> TRUE, cities |-> {}]
         ELSE [updates |-> Without(u, {"destination"}), city |-> FALSE, cities |-> cities]

\* The interests of the profile, until the conversation has its own.
Defaults(base) ==
    IF ~base.overridden /\ base.req.interests = {} /\ Profile # {}
    THEN [interests |-> Profile] ELSE <<>>

\* Transport that was inferred for a route does not outlive it.
Outdone(base, u) ==
    IF /\ base.inferred /\ ~("transport" \in DOMAIN u)
       /\ \E f \in {"origin", "destination"} \cap DOMAIN u : u[f] # base.req[f]
    THEN [transport |-> None, cabin_class |-> None] ELSE <<>>

\* A question that the updates make pointless.
Pointless(pending, said) ==
    pending # None /\
        \/ pending.kind \in {"flight", "deal"} /\ said \cap FlightFields # {}
        \/ pending.kind = "hotel" /\ said \cap HotelFields # {}

\* The planning state after an update: flights and hotels are forgotten when one of the
\* fields changed for which they were chosen.
Updated(base, req, u, verified, inferred) ==
    LET said == DOMAIN verified.updates
        flights == said \cap FlightFields # {}
        hotels == said \cap HotelFields # {}
        moved == req.destination # base.req.destination
        retaken == "transport" \in DOMAIN u IN
    [base EXCEPT
        !.req = req,
        !.inferred = IF retaken THEN u.transport = "flight" /\ inferred ELSE @,
        !.overridden = @ \/ "interests" \in said,
        !.pending = IF Pointless(@, said) THEN None ELSE @,
        !.city = IF Cardinality(verified.cities) > 1 THEN [@ EXCEPT !.options = verified.cities]
                 ELSE IF moved \/ req.interests # base.req.interests THEN None ELSE @,
        !.countries = IF moved THEN None ELSE @,
        !.deal = IF flights THEN None ELSE @,
        !.flight = IF flights THEN None ELSE @,
        !.hotel = IF hotels THEN None ELSE @,
        !.nearby = IF flights THEN FALSE ELSE @]

\* Intents plan, revise and new_trip.
Update(said, new, inferred) ==
    LET base == IF new THEN NewPlanning ELSE planning
        verified == Verified(base, said)
        u == Besides(Outdone(base, verified.updates), Besides(verified.updates, Defaults(base)))
        req == Merged(base, u)
        updated == Updated(base, req, u, verified, inferred) IN
    IF req = Invalid THEN Chat
    ELSE IF verified.city THEN Goes(updated, TRUE)
    ELSE GoesChecked(updated, TRUE)

\* Variant: a message is read again after its requirements were persisted.
Mutant_Understand ==
    /\ pc = "extract" /\ \E u \in Updates : Update(u.said, FALSE, u.inferred)
    /\ Keeps

Understand ==
    /\ pc = "extract" /\ ~mine
    /\ \/ Chat \/ Search
       \/ \E u \in Updates, new \in BOOLEAN : Update(u.said, new, u.inferred)
    /\ Keeps

------------------------------------------------------------------------------
(* The other nodes of the graph.                                             *)

\* persist_requirements: from here on the message is not understood a second time.
Persist ==
    /\ pc = "persist" /\ saved' = planning /\ mine' = TRUE /\ pc' = RouteOf(planning, routed)
    /\ UNCHANGED <<planning, attempt, outcome, routed, world>>

\* _is_reusable: the research of the same request that is fresh, that contains the selected
\* deal, and that either a choice refers to or nothing is wrong with.
Reusable(p) ==
    /\ p.research # None /\ p.research.key = CacheKey(p.req) /\ p.research.fresh
    /\ p.deal # None => p.deal \in p.research.flights
    /\ p.pending # None \/ p.flight # None \/ p.hotel # None \/ ~p.research.warned

Results(p) ==
    IF Reusable(p) THEN {p.research}
    ELSE ResearchResults(p.req, today, p.deal # None \/ ~p.nearby, p.deal)

\* The flight of the trip, the question that has to be answered first, or neither.
FlightChoice(p, r) ==
    LET d == Resolve("flight", r, p.flight) IN
    IF p.req.transport # "flight" THEN [choice |-> p.flight, ask |-> None]
    ELSE IF d.choice = None /\ r.flights = {} /\ r.nearby # {}
         THEN [choice |-> None, ask |-> Ask("flight_dates", r.nearby, "choose")]
         ELSE d

HotelChoice(p, r) ==
    IF p.req.needs_lodging # TRUE THEN [choice |-> p.hotel, ask |-> None]
    ELSE Resolve("hotel", r, p.hotel)

\* PlanningResearchWorkflow.run: guidance is passed on; then the flight and the hotel are
\* settled in turn, by a question where there is a choice; then the itinerary is written.
Research ==
    /\ pc = "research"
    /\ \E r \in Results(planning) :
         LET flight == FlightChoice(planning, r)
             hotel == HotelChoice(planning, r)
             known == [planning EXCEPT !.research = r, !.flight = flight.choice] IN
         IF r.guided THEN To("commit", planning)
         ELSE IF flight.ask # None
         THEN To("commit", [known EXCEPT !.pending = flight.ask,
                                         !.nearby = r.nearby # {} \/ "flight" \in r.empty])
         ELSE IF hotel.ask # None
         THEN To("commit", [known EXCEPT !.pending = hotel.ask, !.hotel = hotel.choice])
         ELSE To("synthesize", [known EXCEPT !.pending = None, !.hotel = hotel.choice,
                                  !.research = Selected(r, flight.choice, hotel.choice)])
    /\ Keeps

\* Variant: the itinerary may leave out the hotel that is selected.
Mutant_Required(p) == {o \in p.research.flights : o = p.flight}

\* Evidence that the itinerary must refer to, and what it may refer to.
Required(p) ==
    {o \in p.research.flights : o = p.flight} \cup {h \in p.research.hotels : h.n = p.hotel.n}

\* validate_researched_itinerary: what is shown is evidence of the research and contains what
\* was selected; the schedule is right or repaired.
Accepted(p, shown) ==
    /\ shown \subseteq p.research.flights \cup p.research.hotels
    /\ Required(p) \subseteq shown

\* TripSynthesisWorkflow.run: a valid itinerary becomes part of the planning state.
Synthesize ==
    /\ pc = "synthesize"
    /\ \E shown \in SUBSET (planning.research.flights \cup planning.research.hotels) :
         /\ Accepted(planning, shown)
         /\ To("commit", [planning EXCEPT !.phase = "generated",
                            !.itinerary = [key |-> CacheKey(planning.req), shown |-> shown]])
    /\ Keeps

\* _get_snapshot: the deals of the same request, if its airports were known and it is fresh.
SameDeals(p, d) == p.deals # None /\ p.deals.request = d /\ p.deals.fresh /\ p.deals.resolved

Snapshot(d, options, resolved, reply) ==
    [request |-> d, options |-> options, resolved |-> resolved, reply |-> reply, fresh |-> TRUE]

\* DealDiscoveryService.discover reads the clock when both airports are known: a window that
\* begins in the past by then is refused.
Discoveries(d, reply) ==
    {Snapshot(d, {}, FALSE, reply)}
    \cup {Snapshot(d, options, TRUE, reply) : options \in IF d.start < today THEN {} ELSE DealOptions(d)}
RefusesWindow(d) == d.start < today /\ Fails

AskDeal(snapshot) ==
    IF snapshot.options = {} THEN None ELSE Ask("deal", snapshot.options, "choose")

\* DealDiscoveryWorkflow.run: a request that the discovery refuses fails the turn.
Deals ==
    /\ pc = "deals"
    /\ LET d == ToDealRequest(planning.req)
           Finds(found) == To("commit", [planning EXCEPT !.deals = found, !.pending = AskDeal(found)]) IN
       IF ~BuildsDealSearch(d) THEN Fails
       ELSE IF SameDeals(planning, d) THEN Finds(planning.deals)
       ELSE RefusesWindow(d) \/ \E found \in Discoveries(d, FALSE) : Finds(found)
    /\ Keeps

\* StandaloneSearchWorkflow.run: deals become the deals of the conversation, unless airports
\* are unclear; other searches change nothing.
StandaloneDeals ==
    /\ pc = "standalone"
    /\ \E d \in DealRequests :
         LET Finds(found) == To("commit", [planning EXCEPT !.deals = IF found.resolved THEN found ELSE None,
                                                           !.pending = AskDeal(found)]) IN
         IF SameDeals(planning, d) /\ planning.deals.reply THEN Finds(planning.deals)
         ELSE RefusesWindow(d) \/ \E found \in Discoveries(d, TRUE) : Finds(found)
    /\ Keeps

StandaloneSearch == pc = "standalone" /\ To("commit", planning) /\ Keeps

\* The answer is stored with the planning state.
Commit ==
    /\ pc = "commit" /\ saved' = planning /\ Ends("answered", planning)
    /\ UNCHANGED <<mine, world>>

\* An error, a refusal or a crash loses the turn at any node.
Fail == pc # "idle" /\ Fails /\ Keeps

------------------------------------------------------------------------------
(* Messages and the world.                                                   *)

Begins == pc = "idle" /\ pc' = "extract" /\ outcome' = "none" /\ UNCHANGED <<saved, planning, attempt, routed>>

\* Another message, of which the requirements cannot be persisted yet.
NewMessage ==
    /\ Begins /\ mine' = FALSE
    /\ messages < MaxMessages /\ messages' = messages + 1 /\ UNCHANGED <<published, today, edits>>

\* The same message again after its turn failed.
Retry == outcome = "failed" /\ Begins /\ UNCHANGED <<mine, world>>

Between == pc = "idle" /\ UNCHANGED <<mine, turn, messages>>

\* Five minutes pass, or ten; research and deals are no longer fresh.
Lapses(p) == saved' = p /\ planning' = p
Lapse ==
    /\ Between /\ UNCHANGED <<published, today, edits>>
    /\ \/ saved.research # None /\ Lapses([saved EXCEPT !.research.fresh = FALSE])
       \/ saved.deals # None /\ Lapses([saved EXCEPT !.deals.fresh = FALSE])

\* Midnight, during a turn or between turns.
NextDay ==
    /\ today < LastDay /\ today' = today + 1
    /\ UNCHANGED <<saved, mine, planning, turn, published, messages, edits>>

\* A city is published or taken back.
Edit ==
    /\ Between /\ edits < MaxEdits /\ edits' = edits + 1
    /\ \E c \in Cities : published' = (published \ {c}) \cup ({c} \ published)
    /\ UNCHANGED <<saved, planning, today>>

Step ==
    \/ Fail \/ Reply \/ Retried \/ Understand \/ Persist \/ Research \/ Deals
    \/ StandaloneDeals \/ StandaloneSearch \/ Synthesize \/ Commit
    \/ Repairs("extract") \/ Repairs("synthesize")

Next == NewMessage \/ Retry \/ Lapse \/ NextDay \/ Edit \/ Step
Spec == Init /\ [][Next]_vars

------------------------------------------------------------------------------
\* The journey and the stay of requirements, as far as they are known: the minors are as
\* many as the requirements say, also before their ages are known.
JourneyOf(r) == [Journey(ToTripRequest(r)) EXCEPT !.minors = r.minor_count]
StayOf(r) == [Stay(ToTripRequest(r)) EXCEPT !.minors = r.minor_count]

\* An option was offered for what is asked, but for the destination while that is the name
\* of a country, as it is until one of its cities is chosen.
OfferedFor(option, asked) ==
    \/ option.for = asked
    \/ /\ asked.destination \in {NameOf[k] : k \in Countries}
       /\ option.for = [asked EXCEPT !.destination = option.for.destination]

\* A flight and a hotel that are selected were offered for the journey and for the stay of
\* the requirements, whatever was answered since; and a deal that was taken is the flight of
\* the trip until both are given up.
SelectionFitsTrip ==
    /\ saved.flight # None => OfferedFor(saved.flight, JourneyOf(saved.req))
    /\ saved.hotel # None => OfferedFor(saved.hotel, StayOf(saved.req))
    /\ saved.deal # None => saved.flight = saved.deal

\* A question with options is about options that are still stored, so that the reply to it
\* can be understood.
PendingIsAnswerable ==
    saved.pending # None /\ saved.pending.reason = "choose" =>
        IF saved.pending.kind = "deal"
        THEN saved.deals # None /\ saved.pending.options \subseteq saved.deals.options
        ELSE /\ saved.research # None
             /\ saved.pending.options \subseteq Options(saved.research, saved.pending.kind)

\* What is searched for is what a retry on the same day would search for: the requirements are
\* saved, nothing is missing, and no destination is in question.
SearchesWhatIsSaved ==
    pc \in {"research", "deals", "synthesize"} =>
        saved.req = planning.req /\ ~Asks(saved) /\ Missing(saved, routed) = {}

\* Whatever was answered, in whatever way it was understood, and however long ago: the requests
\* of a turn that searches pass the validators of the searches, which lie outside the handling
\* of contradictions, and begin no earlier than the day on which this turn was routed, however
\* often its message failed before.  Only a party can be too large for deals.
SearchesAreBuilt ==
    /\ pc = "research" =>
         LET q == ToTripRequest(planning.req) IN
         /\ BuildsTrip(q) /\ q.start >= routed /\ BuildsHotelSearch(q)
         /\ planning.req.transport = "flight" => BuildsFlightSearch(q)
    /\ pc = "deals" =>
         LET d == ToDealRequest(planning.req) IN
         d.start >= routed /\ (Travelers(d) <= MaxDealTravelers => BuildsDealSearch(d))

\* A generated itinerary is the itinerary of the requirements as they are, with the flight
\* and the hotel that are selected.
GeneratedIsCurrent ==
    saved.phase = "generated" =>
        /\ saved.itinerary # None /\ saved.itinerary.key = CacheKey(saved.req)
        /\ saved.flight # None => saved.flight \in saved.itinerary.shown
        /\ saved.hotel # None => \E h \in saved.itinerary.shown : h.n = saved.hotel.n

\* A message changes the requirements once: when it is answered again after a failure, the
\* trip that was persisted for it stays.
RetryKeepsTrip == [][mine /\ mine' => saved'.req = saved.req]_vars
==============================================================================
