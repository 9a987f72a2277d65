-------------------------- MODULE PlanningGraph_proofs --------------------------
(* What a turn of the planning graph may rely on, for every catalogue, every    *)
(* set of updates and offers, and any number of messages.  The inductive        *)
(* invariant says how the copy that a turn works on is related to what is       *)
(* saved: at the start of a turn they are the same, from the searches on they   *)
(* have the same requirements, and so they do in every turn of a message whose  *)
(* requirements were persisted.  A second invariant, which rests on the first,  *)
(* relates what is selected, asked about, stored and written to those           *)
(* requirements.  At the end, what holds of the requirements themselves in any  *)
(* dialogue about a trip, over the same rules.                                  *)
EXTENDS PlanningGraph, TripDialogue, FiniteSetTheorems, TLAPS

\* The fields of the planning state.
Keys ==
    {"req", "phase", "city", "countries", "inferred", "overridden", "itinerary", "research",
     "pending", "deals", "deal", "flight", "hotel", "nearby"}

\* A state that differs from p at most in what no search and no message depends on.
SameTrip(p, q) == q.req = p.req /\ q.city = p.city /\ q.countries = p.countries

Shaped == DOMAIN planning = Keys /\ DOMAIN saved = Keys
StartsFromSaved == pc \in {"idle", "extract"} => planning = saved
RetriesSaved == mine => planning.req = saved.req
Routed == pc \in {"research", "deals"} => pc = RouteOf(planning, routed)
OnDays == today \in Int /\ (pc \in {"persist", "research", "deals"} => routed \in Int)

IInv == Shaped /\ StartsFromSaved /\ SearchesWhatIsSaved /\ RetriesSaved /\ Routed /\ OnDays

\* A route depends on the trip and on the day alone.
LEMMA SameRoute ==
  ASSUME NEW p, NEW q, NEW day, SameTrip(p, q)
  PROVE  RouteOf(q, day) = RouteOf(p, day)
BY DEF SameTrip, RouteOf, Asks, Missing

------------------------------------------------------------------------------
\* A merge that finds a possible country changes the question and not the requirements.
LEMMA CheckedKeeps ==
  ASSUME NEW p, DOMAIN p = Keys
  PROVE  DOMAIN Checked(p) = Keys /\ Checked(p).req = p.req
BY DEF Checked, Keys

\* A turn that goes on with p: it searches at once only for what is saved.
LEMMA GoesOn ==
  ASSUME IInv, pc = "extract", Keeps, NEW p, NEW changed \in BOOLEAN, DOMAIN p = Keys,
         ~changed => SameTrip(planning, p),
         mine => p.req = planning.req,
         Goes(p, changed)
  PROVE  IInv'
<1> DEFINE q == [p EXCEPT !.phase = PhaseOf(p, today)]
<1>1. /\ planning' = q /\ pc' = (IF changed THEN "persist" ELSE RouteOf(p, today))
      /\ saved' = saved /\ mine' = mine /\ planning = saved
      /\ today' = today /\ routed' = today
  BY DEF Goes, Moves, Keeps, world, IInv, StartsFromSaved
<1>2. DOMAIN q = Keys /\ SameTrip(p, q)
  BY DEF SameTrip, Keys
<1> HIDE DEF q
<1>3. RouteOf(p, today) \in {"commit", "research", "deals"}
  BY DEF RouteOf
<1>4. RouteOf(p, today) # "commit" => ~Asks(p) /\ Missing(p, today) = {}
  BY DEF RouteOf
<1>5. Shaped'
  BY <1>1, <1>2 DEF IInv, Shaped
<1>6. StartsFromSaved'
  BY <1>1, <1>3 DEF StartsFromSaved
<1>7. RetriesSaved'
  BY <1>1, <1>2 DEF RetriesSaved, SameTrip
<1>8. SearchesWhatIsSaved'
  <2> SUFFICES ASSUME pc' \in {"research", "deals", "synthesize"}
               PROVE  saved'.req = planning'.req /\ ~Asks(saved') /\ Missing(saved, routed)' = {}
    BY DEF SearchesWhatIsSaved
  <2>1. ~changed /\ ~Asks(p) /\ Missing(p, today) = {}
    BY <1>1, <1>3, <1>4
  <2>2. saved' = planning /\ SameTrip(saved', p) /\ SameTrip(p, planning')
    BY <1>1, <1>2, <2>1
  <2> QED
    BY <1>1, <2>1, <2>2 DEF SameTrip, Asks, Missing
<1>9. Routed'
  <2>1. RouteOf(q, today) = RouteOf(p, today)
    BY <1>2, SameRoute
  <2> QED
    BY <1>1, <2>1 DEF Routed, RouteOf, Asks, Missing
<1>10. OnDays'
  BY <1>1 DEF IInv, OnDays
<1> QED
  BY <1>5, <1>6, <1>7, <1>8, <1>9, <1>10 DEF IInv

\* The same for a turn that first asks whether the destination may be a country.
LEMMA GoesOnChecked ==
  ASSUME IInv, pc = "extract", Keeps, NEW p, NEW changed \in BOOLEAN, DOMAIN p = Keys,
         ~changed => SameTrip(planning, p),
         mine => p.req = planning.req,
         GoesChecked(p, changed)
  PROVE  IInv'
<1> DEFINE c == changed \/ Checked(p) # p
<1>1. Goes(Checked(p), c)
  BY DEF GoesChecked
<1>2. DOMAIN Checked(p) = Keys /\ Checked(p).req = p.req
  BY CheckedKeeps
<1>3. ~c => SameTrip(planning, Checked(p))
  OBVIOUS
<1>4. c \in BOOLEAN
  OBVIOUS
<1> HIDE DEF c
<1> QED
  BY <1>1, <1>2, <1>3, <1>4, GoesOn

\* A turn that fails is back where it began.
LEMMA FailureKeeps ==
  ASSUME IInv, Keeps, Fails
  PROVE  IInv'
<1>1. /\ planning' = saved /\ saved' = saved /\ mine' = mine /\ pc' = "idle" /\ today' = today
  BY DEF Fails, Ends, Keeps, world
<1> QED
  BY <1>1 DEF IInv, Shaped, StartsFromSaved, SearchesWhatIsSaved, RetriesSaved, Routed, OnDays

\* A node that leaves the requirements alone and ends the turn's searches.
LEMMA NodeKeeps ==
  ASSUME IInv, Keeps, NEW p, NEW node \in {"commit", "standalone"},
         DOMAIN p = Keys, p.req = planning.req, To(node, p)
  PROVE  IInv'
<1>1. /\ planning' = p /\ saved' = saved /\ mine' = mine /\ pc' = node /\ today' = today
  BY DEF To, Moves, Keeps, world
<1> QED
  BY <1>1 DEF IInv, Shaped, StartsFromSaved, SearchesWhatIsSaved, RetriesSaved, Routed, OnDays

LEMMA RepliesOn ==
  ASSUME IInv, pc = "extract", Keeps, NEW p, NEW changed \in BOOLEAN, p # Invalid => DOMAIN p = Keys,
         ~changed => SameTrip(planning, p), ~mine, Replied(p, changed)
  PROVE  IInv'
<1>1. CASE p = Invalid
  BY <1>1, FailureKeeps DEF Replied
<1>2. CASE p # Invalid
  BY <1>2, GoesOn DEF Replied
<1> QED BY <1>1, <1>2

LEMMA RepliesOnChecked ==
  ASSUME IInv, pc = "extract", Keeps, NEW p, NEW changed \in BOOLEAN, p # Invalid => DOMAIN p = Keys,
         ~changed => SameTrip(planning, p), ~mine, RepliedChecked(p, changed)
  PROVE  IInv'
<1>1. CASE p = Invalid
  BY <1>1, FailureKeeps DEF RepliedChecked
<1>2. CASE p # Invalid
  BY <1>2, GoesOnChecked DEF RepliedChecked
<1> QED BY <1>1, <1>2

------------------------------------------------------------------------------
(* The steps of a turn.                                                        *)

LEMMA ReplyPreserves ==
  ASSUME IInv, Reply
  PROVE  IInv'
<1> USE DEF Reply
<1>1. pc = "extract" /\ ~mine /\ Keeps /\ DOMAIN planning = Keys
  BY DEF IInv, Shaped
<1>2. ASSUME NEW city, SelectCity(city)
      PROVE  IInv'
  <2> DEFINE cleared == planning.inferred /\ NameOf[city] # planning.req.destination
  <2>1. PICK req : IF req = Invalid THEN Replied(planning, FALSE)
                   ELSE Replied(CityChosen(planning, req, cleared), TRUE)
    BY <1>2 DEF SelectCity
  <2>2. DOMAIN CityChosen(planning, req, cleared) = Keys
    BY <1>1 DEF CityChosen, Forgotten, Keys
  <2> HIDE DEF cleared
  <2> QED
    BY <1>1, <2>1, <2>2, RepliesOn DEF SameTrip
<1>3. ASSUME NEW options, Narrowed(options)
      PROVE  IInv'
  <2>1. DOMAIN [planning EXCEPT !.city.options = options, !.countries = None] = Keys
    BY <1>1
  <2> QED
    BY <1>1, <1>3, <2>1, RepliesOn DEF Narrowed
<1>4. ASSUME NEW k, Replied(ConfirmCountry(k), TRUE)
      PROVE  IInv'
  <2>1. ConfirmCountry(k) # Invalid => DOMAIN ConfirmCountry(k) = Keys
    BY <1>1 DEF ConfirmCountry, Keys
  <2> QED
    BY <1>1, <1>4, <2>1, RepliesOn
<1>5. CASE ReplyCountry
  BY <1>4, <1>5 DEF ReplyCountry
<1>6. CASE ReplyYes
  BY <1>4, <1>6 DEF ReplyYes
<1>7. CASE ReplyOption
  BY <1>2, <1>3, <1>7 DEF ReplyOption
<1>8. CASE ReplyCityName
  BY <1>2, <1>3, <1>8 DEF ReplyCityName
<1>9. CASE ReplyOutOfRange
  BY <1>1, <1>9, RepliesOn DEF ReplyOutOfRange, SameTrip
<1>10. CASE PickDeal
  <2>1. PICK o, req : RepliedChecked(IF req = Invalid THEN Invalid
                        ELSE [Forgotten(planning) EXCEPT !.req = req, !.deal = o, !.flight = o], TRUE)
    BY <1>10 DEF PickDeal
  <2>2. DOMAIN [Forgotten(planning) EXCEPT !.req = req, !.deal = o, !.flight = o] = Keys
    BY <1>1 DEF Forgotten, Keys
  <2> QED
    BY <1>1, <2>1, <2>2, RepliesOnChecked
<1>11. CASE PickDates
  <2>1. PICK req : RepliedChecked(IF req = Invalid THEN Invalid
                        ELSE [Forgotten(planning) EXCEPT !.req = req, !.flight = None], TRUE)
    BY <1>11 DEF PickDates
  <2>2. DOMAIN [Forgotten(planning) EXCEPT !.req = req, !.flight = None] = Keys
    BY <1>1 DEF Forgotten, Keys
  <2> QED
    BY <1>1, <2>1, <2>2, RepliesOnChecked
<1>12. CASE PickFlight
  <2>1. PICK o : RepliedChecked([planning EXCEPT !.pending = None, !.flight = o], FALSE)
    BY <1>12 DEF PickFlight
  <2>2. /\ DOMAIN [planning EXCEPT !.pending = None, !.flight = o] = Keys
        /\ SameTrip(planning, [planning EXCEPT !.pending = None, !.flight = o])
    BY <1>1 DEF Keys, SameTrip
  <2> QED
    BY <1>1, <2>1, <2>2, RepliesOnChecked
<1>13. CASE PickHotel
  <2>1. PICK o : RepliedChecked([planning EXCEPT !.pending = None, !.hotel = o], FALSE)
    BY <1>13 DEF PickHotel
  <2>2. /\ DOMAIN [planning EXCEPT !.pending = None, !.hotel = o] = Keys
        /\ SameTrip(planning, [planning EXCEPT !.pending = None, !.hotel = o])
    BY <1>1 DEF Keys, SameTrip
  <2> QED
    BY <1>1, <2>1, <2>2, RepliesOnChecked
<1> QED
  BY <1>5, <1>6, <1>7, <1>8, <1>9, <1>10, <1>11, <1>12, <1>13

\* A message whose requirements were persisted goes on from what was persisted.
LEMMA RetriedPreserves ==
  ASSUME IInv, Retried
  PROVE  IInv'
<1>1. pc = "extract" /\ Keeps /\ DOMAIN planning = Keys /\ RepliedChecked(planning, FALSE)
  BY DEF Retried, IInv, Shaped
<1>2. CASE planning = Invalid
  BY <1>1, <1>2, FailureKeeps DEF RepliedChecked
<1>3. CASE planning # Invalid
  BY <1>1, <1>3, GoesOnChecked DEF RepliedChecked, SameTrip
<1> QED
  BY <1>2, <1>3

LEMMA UnderstandPreserves ==
  ASSUME IInv, Understand
  PROVE  IInv'
<1>1. pc = "extract" /\ ~mine /\ Keeps /\ DOMAIN planning = Keys /\ DOMAIN NewPlanning = Keys
  BY DEF Understand, IInv, Shaped, NewPlanning, Keys
<1>2. CASE Chat
  BY <1>1, <1>2, NodeKeeps DEF Chat
<1>3. CASE Search
  BY <1>1, <1>3, NodeKeeps DEF Search
<1>4. ASSUME NEW said, NEW new \in BOOLEAN, NEW inferred, Update(said, new, inferred)
      PROVE  IInv'
  <2> DEFINE base == IF new THEN NewPlanning ELSE planning
  <2>1. PICK req, u, verified :
          IF req = Invalid THEN Chat
          ELSE IF verified.city THEN Goes(Updated(base, req, u, verified, inferred), TRUE)
          ELSE GoesChecked(Updated(base, req, u, verified, inferred), TRUE)
    BY <1>4 DEF Update
  <2>2. DOMAIN Updated(base, req, u, verified, inferred) = Keys
    BY <1>1 DEF Updated, Keys
  <2> DEFINE p == Updated(base, req, u, verified, inferred)
  <2>3. DOMAIN p = Keys /\ (Chat \/ Goes(p, TRUE) \/ GoesChecked(p, TRUE))
    BY <2>1, <2>2
  <2> HIDE DEF p
  <2>4. CASE Goes(p, TRUE)
    BY <1>1, <2>3, <2>4, GoesOn
  <2>5. CASE GoesChecked(p, TRUE)
    BY <1>1, <2>3, <2>5, GoesOnChecked
  <2> QED
    BY <1>2, <2>3, <2>4, <2>5
<1> QED
  BY <1>2, <1>3, <1>4 DEF Understand

LEMMA PersistPreserves ==
  ASSUME IInv, Persist
  PROVE  IInv'
<1>1. /\ saved' = planning /\ planning' = planning /\ pc' = RouteOf(planning, routed)
      /\ today' = today /\ routed' = routed /\ pc = "persist" /\ DOMAIN planning = Keys
  BY DEF Persist, world, IInv, Shaped
<1>2. RouteOf(planning, routed) \in {"commit", "research", "deals"}
  BY DEF RouteOf
<1>3. RouteOf(planning, routed) # "commit" => ~Asks(planning) /\ Missing(planning, routed) = {}
  BY DEF RouteOf
<1>4. Shaped' /\ RetriesSaved'
  BY <1>1 DEF Shaped, RetriesSaved
<1>5. StartsFromSaved'
  BY <1>1 DEF StartsFromSaved
<1>6. SearchesWhatIsSaved'
  <2> SUFFICES ASSUME pc' # "commit"
               PROVE  saved'.req = planning'.req /\ ~Asks(saved') /\ Missing(saved, routed)' = {}
    BY DEF SearchesWhatIsSaved
  <2> QED
    BY <1>1, <1>3 DEF Asks, Missing
<1>7. Routed'
  BY <1>1 DEF Routed, RouteOf, Asks, Missing
<1>8. OnDays'
  BY <1>1 DEF IInv, OnDays
<1> QED
  BY <1>4, <1>5, <1>6, <1>7, <1>8 DEF IInv

\* Research asks, or goes on to the itinerary of the same trip.
LEMMA ResearchPreserves ==
  ASSUME IInv, Research
  PROVE  IInv'
<1>1. pc = "research" /\ Keeps /\ DOMAIN planning = Keys
  BY DEF Research, IInv, Shaped
<1>2. PICK node, p :
        /\ node \in {"commit", "synthesize"}
        /\ DOMAIN p = Keys /\ p.req = planning.req /\ To(node, p)
  <2>1. PICK r, flight, hotel :
          IF r.guided THEN To("commit", planning)
          ELSE IF flight.ask # None
          THEN To("commit", [planning EXCEPT !.research = r, !.flight = flight.choice,
                               !.pending = flight.ask, !.nearby = r.nearby # {} \/ "flight" \in r.empty])
          ELSE IF hotel.ask # None
          THEN To("commit", [planning EXCEPT !.research = r, !.flight = flight.choice,
                               !.pending = hotel.ask, !.hotel = hotel.choice])
          ELSE To("synthesize", [planning EXCEPT !.research = r, !.flight = flight.choice,
                                   !.pending = None, !.hotel = hotel.choice,
                                   !.research = Selected(r, flight.choice, hotel.choice)])
    BY DEF Research
  <2> DEFINE flown == [planning EXCEPT !.research = r, !.flight = flight.choice,
                         !.pending = flight.ask, !.nearby = r.nearby # {} \/ "flight" \in r.empty]
             lodged == [planning EXCEPT !.research = r, !.flight = flight.choice,
                          !.pending = hotel.ask, !.hotel = hotel.choice]
             settled == [planning EXCEPT !.research = r, !.flight = flight.choice,
                           !.pending = None, !.hotel = hotel.choice,
                           !.research = Selected(r, flight.choice, hotel.choice)]
  <2>2. DOMAIN flown = Keys /\ flown.req = planning.req
    BY <1>1 DEF Keys
  <2>3. DOMAIN lodged = Keys /\ lodged.req = planning.req
    BY <1>1 DEF Keys
  <2>4. DOMAIN settled = Keys /\ settled.req = planning.req
    BY <1>1 DEF Keys
  <2>5. \/ To("commit", planning) \/ To("commit", flown)
        \/ To("commit", lodged) \/ To("synthesize", settled)
    BY <2>1
  <2> HIDE DEF flown, lodged, settled
  <2> QED
    BY <1>1, <2>2, <2>3, <2>4, <2>5
<1>3. /\ planning' = p /\ saved' = saved /\ mine' = mine /\ pc' = node /\ today' = today
      /\ routed' = routed
  BY <1>1, <1>2 DEF To, Moves, Keeps, world
<1>4. Shaped' /\ StartsFromSaved' /\ RetriesSaved' /\ Routed' /\ OnDays'
  BY <1>2, <1>3 DEF IInv, Shaped, StartsFromSaved, RetriesSaved, Routed, OnDays
<1>5. SearchesWhatIsSaved'
  BY <1>1, <1>2, <1>3 DEF IInv, SearchesWhatIsSaved, Missing
<1> QED
  BY <1>4, <1>5 DEF IInv

LEMMA SearchPreserves ==
  ASSUME IInv, Deals \/ StandaloneDeals \/ StandaloneSearch \/ Synthesize
  PROVE  IInv'
<1>1. Keeps /\ DOMAIN planning = Keys
  BY DEF Deals, StandaloneDeals, StandaloneSearch, Synthesize, IInv, Shaped
<1>2. ASSUME NEW a, NEW b
      PROVE  /\ DOMAIN [planning EXCEPT !.deals = a, !.pending = b] = Keys
             /\ [planning EXCEPT !.deals = a, !.pending = b].req = planning.req
             /\ DOMAIN [planning EXCEPT !.phase = a, !.itinerary = b] = Keys
             /\ [planning EXCEPT !.phase = a, !.itinerary = b].req = planning.req
  BY <1>1 DEF Keys
<1>3. ASSUME NEW a, NEW b, \/ To("commit", [planning EXCEPT !.deals = a, !.pending = b])
                           \/ To("commit", [planning EXCEPT !.phase = a, !.itinerary = b])
      PROVE  IInv'
  BY <1>1, <1>2, <1>3, NodeKeeps
<1>4. CASE Deals
  BY <1>1, <1>3, <1>4, FailureKeeps DEF Deals, RefusesWindow
<1>5. CASE StandaloneDeals
  BY <1>1, <1>3, <1>5, FailureKeeps DEF StandaloneDeals, RefusesWindow
<1>6. CASE StandaloneSearch
  BY <1>1, <1>6, NodeKeeps DEF StandaloneSearch
<1>7. CASE Synthesize
  BY <1>3, <1>7 DEF Synthesize
<1> QED
  BY <1>4, <1>5, <1>6, <1>7

------------------------------------------------------------------------------
(* All steps.                                                                  *)

LEMMA Initially == Init => IInv
<1>1. Init => today \in Int
  BY PlanningAssumption, DateAssumption DEF Init
<1> QED
  BY <1>1 DEF Init, NewPlanning, IInv, Shaped, StartsFromSaved, SearchesWhatIsSaved, RetriesSaved,
              Routed, OnDays, Keys

LEMMA Preserved == IInv /\ [Next]_vars => IInv'
<1> SUFFICES ASSUME IInv, [Next]_vars
             PROVE  IInv'
  OBVIOUS
<1> USE DEF IInv, Shaped, StartsFromSaved, SearchesWhatIsSaved, RetriesSaved, Routed, OnDays
<1>1. CASE NewMessage
  BY <1>1 DEF NewMessage, Begins
<1>2. CASE Retry
  BY <1>2 DEF Retry, Begins, world
<1>3. CASE Lapse
  <2>1. PICK p : /\ saved' = p /\ planning' = p /\ DOMAIN p = DOMAIN saved
                 /\ pc = "idle" /\ pc' = pc /\ mine' = mine /\ today' = today
    BY <1>3 DEF Lapse, Between, turn, Lapses
  <2> QED
    BY <2>1
<1>4. CASE NextDay
  BY <1>4 DEF NextDay, turn
<1>5. CASE Edit
  BY <1>5 DEF Edit, Between, turn
<1>6. CASE Step
  <2>1. CASE Fail
    BY <2>1, FailureKeeps DEF Fail
  <2>2. CASE Commit
    BY <2>2 DEF Commit, Ends, world
  <2>3. ASSUME NEW stage, Repairs(stage)
        PROVE  IInv'
    <3>1. /\ saved' = saved /\ planning' = planning /\ mine' = mine /\ pc' = pc
          /\ today' = today /\ routed' = routed
      BY <2>3 DEF Repairs, Keeps, world
    <3> QED
      BY <3>1 DEF RouteOf, Asks, Missing
  <2> QED
    BY <1>6, <2>1, <2>2, <2>3, ReplyPreserves, RetriedPreserves, UnderstandPreserves,
       PersistPreserves, ResearchPreserves, SearchPreserves DEF Step
<1>7. CASE UNCHANGED vars
  BY <1>7 DEF vars, turn, world, RouteOf, Asks, Missing
<1> QED
  BY <1>1, <1>2, <1>3, <1>4, <1>5, <1>6, <1>7 DEF Next

LEMMA Invariant == Spec => []IInv
BY Initially, Preserved, PTL DEF Spec

\* A turn searches for what is saved and complete and asks for no destination
\* (PlanningGraphBuilder routes the state that it persisted).
THEOREM SearchesAreOfSaved == Spec => []SearchesWhatIsSaved
<1>1. IInv => SearchesWhatIsSaved
  BY DEF IInv
<1> QED
  BY <1>1, Invariant, PTL

\* While a message is the one whose requirements were persisted, no step of a turn, of a
\* failure or of another attempt at it changes the requirements that are saved.
LEMMA MineKeepsTrip ==
  ASSUME IInv, [Next]_vars, mine, mine'
  PROVE  saved'.req = saved.req
<1>1. RetriesSaved /\ DOMAIN saved = Keys
  BY DEF IInv, Shaped
<1>2. CASE UNCHANGED saved
  BY <1>2
<1>3. CASE saved' = planning
  BY <1>1, <1>3 DEF RetriesSaved
<1>4. CASE Lapse
  BY <1>1, <1>4 DEF Lapse, Lapses, Keys
<1>5. \/ UNCHANGED saved \/ saved' = planning \/ Lapse
  BY DEF Next, Step, vars, NewMessage, Retry, Begins, NextDay, Edit, Fail, Reply, Retried,
         Understand, Persist, Research, Deals, StandaloneDeals, StandaloneSearch, Synthesize,
         Commit, Repairs, Keeps
<1> QED
  BY <1>2, <1>3, <1>4, <1>5

\* A message changes the requirements once, however often it is answered again.
THEOREM RetriesKeepTrip == Spec => RetryKeepsTrip
<1>1. IInv /\ [Next]_vars => [mine /\ mine' => saved'.req = saved.req]_vars
  BY MineKeepsTrip
<1> QED
  BY <1>1, Invariant, PTL DEF Spec, RetryKeepsTrip

------------------------------------------------------------------------------
(* What is selected.  The second invariant holds of the copy of the turn and  *)
(* of what is saved, so that a turn that fails loses nothing: what is selected *)
(* and what is asked about fits the requirements, the research fits its key,   *)
(* and an itinerary that counts as generated shows what is selected.           *)

\* The value that stands for nothing is no record, as Python's None is no ResearchEvidence.
NoneIsNoRecord == \A f : f = [x \in DOMAIN f |-> f[x]] => f # None

\* The fields of research, of a discovery of deals and of a journey.
ResearchKeys == {"key", "flights", "nearby", "hotels", "empty", "warned", "guided", "fresh"}
DealsKeys == {"request", "options", "resolved", "reply", "fresh"}
JourneyKeys == {"origin", "destination", "start", "end", "adults", "minors"}

\* Requirements are valid, and the answers that the rules calculate with are known or not.
CountedFields ==
    {"start_date", "end_date", "date_window_start", "date_window_end", "duration_days",
     "adults", "minor_count", "minor_ages", "infant_on_lap", "needs_lodging", "rooms"}
Counted(r) ==
    /\ Valid(r)
    /\ \A f \in CountedFields : r[f] = None \/ IsAnswer(f, r[f])

\* The trip is one with a flight, or with a hotel, and that is what the option was offered for.
FlightFits(r, o) == r.transport = "flight" /\ OfferedFor(o, JourneyOf(r))
HotelFits(r, h) == r.needs_lodging = TRUE /\ OfferedFor(h, StayOf(r))

\* What is selected fits the requirements, and no other flight is asked for beside a deal.
ChosenFits(p) ==
    /\ p.flight # None => FlightFits(p.req, p.flight)
    /\ p.hotel # None => HotelFits(p.req, p.hotel)
    /\ p.deal # None =>
         p.flight = p.deal /\ (p.pending # None => p.pending.kind \notin {"flight", "flight_dates"})

\* A question about flights or hotels is about options that fit, as long as it is pending.
PendingFits(p) ==
    p.pending # None =>
        /\ p.pending.kind \in {"flight", "hotel", "flight_dates", "deal"}
        /\ p.pending.kind = "flight" => \A o \in p.research.flights : FlightFits(p.req, o)
        /\ p.pending.kind = "hotel" => \A h \in p.research.hotels : HotelFits(p.req, h)
        /\ p.pending.reason = "choose" =>
             IF p.pending.kind = "deal"
             THEN p.deals # None /\ p.pending.options \subseteq p.deals.options
             ELSE /\ p.research # None
                  /\ p.pending.options \subseteq Options(p.research, p.pending.kind)

\* Dates that begin and end on a day.
AreDays(dates) == \A d \in dates : d.start \in Int /\ d.end \in Int

\* Research that is stored was made for the request that is its key.
ResearchFits(p) ==
    p.research # None =>
        /\ DOMAIN p.research = ResearchKeys
        /\ \A o \in p.research.flights : OfferedFor(o, Journey(p.research.key.request))
        /\ \A h \in p.research.hotels : h.for = Stay(p.research.key.request)
        /\ AreDays(p.research.nearby)

\* A deal is a journey of a party between days.
IsDeal(o) ==
    /\ o.for = [k \in JourneyKeys |-> o.for[k]]
    /\ o.for.start \in Int /\ o.for.end \in Int /\ o.for.adults \in Int /\ o.for.minors \in Int

\* Deals that are stored are such deals.
DealsFit(p) ==
    p.deals # None =>
        /\ DOMAIN p.deals = DealsKeys
        /\ \A o \in p.deals.options : IsDeal(o)

\* What is asked about a destination is about countries.
Placed(p) ==
    /\ p.countries # None => p.countries \subseteq Countries
    /\ p.city # None => DOMAIN p.city = {"country", "options", "confirm"} /\ p.city.country \in Countries

Fits(p) ==
    /\ Counted(p.req) /\ Placed(p)
    /\ ChosenFits(p) /\ PendingFits(p) /\ ResearchFits(p) /\ DealsFit(p)

\* An itinerary that is current shows what is selected and was written for the requirements.
Current(p) ==
    p.phase = "generated" =>
        /\ p.itinerary # None /\ p.itinerary.key = CacheKey(p.req)
        /\ p.flight # None => p.flight \in p.itinerary.shown
        /\ p.hotel # None => \E h \in p.itinerary.shown : h.n = p.hotel.n

\* On the way to an itinerary there is none, and what is selected is among the evidence.
Settled ==
    /\ pc \in {"persist", "research", "deals", "synthesize"} => planning.phase # "generated"
    /\ pc = "synthesize" =>
         /\ planning.flight # None => planning.flight \in planning.research.flights
         /\ planning.hotel # None => \E h \in planning.research.hotels : h.n = planning.hotel.n

\* The selection, the pending question and the itinerary fit, in what is saved as in the copy.
TripInv ==
    /\ published \subseteq Cities
    /\ Fits(planning) /\ Fits(saved)
    /\ Current(planning) /\ Current(saved)
    /\ Settled

------------------------------------------------------------------------------
(* Requirements: what a merge leaves, and how the party is counted.            *)

\* The infants of a party and those on a lap are counted by natural numbers.
LEMMA InfantsCounted == ASSUME NEW ages \in Seq(Nat) PROVE Infants(ages) \in Nat
<1>1. IsFiniteSet(1 .. Len(ages))
  BY FS_Interval
<1>2. IsFiniteSet({k \in DOMAIN ages : ages[k] < InfantAge})
  BY <1>1, FS_Subset
<1> QED
  BY <1>2, FS_CardinalityType DEF Infants

LEMMA LapsCounted == ASSUME NEW laps \in Seq(BOOLEAN) PROVE Laps(laps) \in Nat
<1>1. IsFiniteSet(1 .. Len(laps))
  BY FS_Interval
<1>2. IsFiniteSet({k \in DOMAIN laps : laps[k]})
  BY <1>1, FS_Subset
<1> QED
  BY <1>2, FS_CardinalityType DEF Laps

\* A merge that does not raise names known fields only, contradicts nothing, is valid,
\* and takes every field from the update, or from the requirements, or forgets it.
LEMMA MergeSucceeds ==
  ASSUME NEW r, NEW u, MergeRequirements(r, u) # Invalid
  PROVE  /\ DOMAIN u \subseteq Fields
         /\ ~Contradictory(u)
         /\ Valid(MergeRequirements(r, u))
         /\ \A f \in Fields :
              MergeRequirements(r, u)[f] =
                IF f \in Outdated(r, u) THEN None
                ELSE IF f = "interests" /\ (IF f \in DOMAIN u THEN u[f] ELSE r[f]) = None THEN {}
                ELSE IF f \in DOMAIN u THEN u[f] ELSE r[f]
<1> DEFINE merged == [f \in Fields |->
               IF f \in Outdated(r, u) THEN None
               ELSE IF f = "interests" /\ (IF f \in DOMAIN u THEN u[f] ELSE r[f]) = None THEN {}
               ELSE IF f \in DOMAIN u THEN u[f] ELSE r[f]]
<1>1. MergeRequirements(r, u) =
        IF DOMAIN u \subseteq Fields /\ ~Contradictory(u) /\ Valid(merged) THEN merged ELSE Invalid
  BY Zenon DEF MergeRequirements
<1>2. /\ DOMAIN u \subseteq Fields /\ ~Contradictory(u) /\ Valid(merged)
      /\ MergeRequirements(r, u) = merged
  <2> HIDE DEF merged
  <2> QED BY <1>1
<1> QED
  BY <1>2, Zenon

\* A merge of answers leaves requirements of which the party can be counted.
LEMMA CountedMerge ==
  ASSUME NEW r, NEW u, Counted(r), MergeRequirements(r, u) # Invalid,
         \A f \in CountedFields \cap DOMAIN u : u[f] = None \/ IsAnswer(f, u[f])
  PROVE  Counted(MergeRequirements(r, u))
<1> DEFINE merged == MergeRequirements(r, u)
<1>1. Valid(merged)
  BY MergeSucceeds
<1>2. ASSUME NEW f \in CountedFields
      PROVE  merged[f] = None \/ IsAnswer(f, merged[f])
  <2>1. f \in Fields /\ f # "interests"
    BY DEF Fields, CountedFields
  <2>2. merged[f] = IF f \in Outdated(r, u) THEN None ELSE IF f \in DOMAIN u THEN u[f] ELSE r[f]
    BY <2>1, MergeSucceeds
  <2> HIDE DEF merged
  <2> QED
    BY <2>2 DEF Counted
<1> QED
  BY <1>1, <1>2 DEF Counted

\* An update that names no field of the flight, but perhaps the destination, leaves the rest
\* of the journey.
LEMMA JourneyKept ==
  ASSUME NEW r, NEW u, MergeRequirements(r, u) # Invalid,
         DOMAIN u \cap FlightFields \subseteq {"destination"}
  PROVE  \A f \in {"origin", "start_date", "end_date", "duration_days", "adults", "minor_count",
                   "transport"} : MergeRequirements(r, u)[f] = r[f]
<1> SUFFICES ASSUME NEW f \in {"origin", "start_date", "end_date", "duration_days", "adults",
                               "minor_count", "transport"}
             PROVE  MergeRequirements(r, u)[f] = r[f]
  OBVIOUS
<1>1. f \in Fields /\ f \notin DOMAIN u /\ f # "interests"
  BY DEF Fields, FlightFields
<1>2. f \notin Outdated(r, u)
  BY DEF FlightFields, Outdated, OutdatedDates, OutdatedParty, Says
<1> QED
  BY <1>1, <1>2, MergeSucceeds

\* The same for the stay.
LEMMA StayKept ==
  ASSUME NEW r, NEW u, MergeRequirements(r, u) # Invalid,
         DOMAIN u \cap HotelFields \subseteq {"destination"}
  PROVE  \A f \in {"start_date", "end_date", "duration_days", "adults", "minor_count",
                   "needs_lodging", "rooms"} : MergeRequirements(r, u)[f] = r[f]
<1> SUFFICES ASSUME NEW f \in {"start_date", "end_date", "duration_days", "adults",
                               "minor_count", "needs_lodging", "rooms"}
             PROVE  MergeRequirements(r, u)[f] = r[f]
  OBVIOUS
<1>1. f \in Fields /\ f \notin DOMAIN u /\ f # "interests"
  BY DEF Fields, HotelFields
<1>2. f \notin Outdated(r, u)
  BY DEF HotelFields, Outdated, OutdatedDates, OutdatedParty, Says
<1> QED
  BY <1>1, <1>2, MergeSucceeds

\* No update outdates the destination.
LEMMA DestinationTold ==
  ASSUME NEW r, NEW u, MergeRequirements(r, u) # Invalid
  PROVE  MergeRequirements(r, u).destination =
           IF "destination" \in DOMAIN u THEN u.destination ELSE r.destination
<1>1. "destination" \in Fields \ Outdated(r, u)
  BY DEF Fields, Outdated, OutdatedDates, OutdatedParty
<1> QED
  BY <1>1, MergeSucceeds

\* The fields of requirements on which their journey and their stay depend.
LEMMA JourneyIs ==
  ASSUME NEW r
  PROVE  JourneyOf(r) = [origin |-> r.origin, destination |-> r.destination, start |-> r.start_date,
                         end |-> ResolvedEnd(r), adults |-> r.adults, minors |-> r.minor_count]
BY DEF JourneyOf, Journey, ToTripRequest

LEMMA StayIs ==
  ASSUME NEW r
  PROVE  StayOf(r) = [destination |-> r.destination, start |-> r.start_date, end |-> ResolvedEnd(r),
                      adults |-> r.adults, minors |-> r.minor_count,
                      rooms |-> IF r.needs_lodging = TRUE THEN r.rooms ELSE 1]
BY DEF StayOf, Stay, ToTripRequest

\* When nothing is missing, the travelers of the requests are those of the requirements.
LEMMA PartyCounted ==
  ASSUME NEW r, NEW day, NEW tier, Counted(r), MissingFields(r, day, tier) = {}
  PROVE  /\ Journey(ToTripRequest(r)) = JourneyOf(r)
         /\ Stay(ToTripRequest(r)) = StayOf(r)
         /\ Party(ToTripRequest(r)) = r.minor_count
<1> DEFINE q == ToTripRequest(r)
           ages == IF r.minor_ages = None THEN <<>> ELSE r.minor_ages
           laps == IF r.infant_on_lap = None THEN 0 ELSE Laps(r.infant_on_lap)
<1>1. /\ r.minor_count # None /\ r.minor_count \in 0 .. MaxTravelers - 1
      /\ r.minor_count > 0 => r.minor_ages # None
      /\ r.minor_ages # None => Len(r.minor_ages) = r.minor_count
  BY DEF Counted, Valid, ValidParty, MissingFields, MissingParty
<1>2. ages \in Seq(Nat) /\ Len(ages) = r.minor_count
  <2>1. r.minor_ages = None => r.minor_count = 0
    BY <1>1 DEF MaxTravelers
  <2>2. r.minor_ages = None \/ r.minor_ages \in Seq(Nat)
    BY DEF Counted, CountedFields, IsAnswer
  <2> QED BY <1>1, <2>1, <2>2
<1>3. laps \in Int
  <2>1. r.infant_on_lap = None \/ r.infant_on_lap \in Seq(BOOLEAN)
    BY DEF Counted, CountedFields, IsAnswer
  <2>2. r.infant_on_lap # None => Laps(r.infant_on_lap) \in Nat
    BY <2>1, LapsCounted, Zenon
  <2> QED BY <2>2
<1>4. Infants(ages) \in Int
  <2>1. Infants(ages) \in Nat
    BY <1>2, InfantsCounted, Zenon
  <2> QED BY <2>1
<1>5. /\ q.children = Len(ages) - Infants(ages)
      /\ q.seated = Infants(ages) - laps /\ q.laps = laps
  BY DEF ToTripRequest
<1> HIDE DEF q, ages, laps
<1>6. q.children + q.seated + q.laps = r.minor_count
  <2>1. \A l, i, s \in Int : (l - i) + (i - s) + s = l
    OBVIOUS
  <2>2. r.minor_count \in Int
    <3>1. r.minor_count \in 0 .. MaxTravelers - 1
      BY <1>1
    <3>2. \A n \in 0 .. MaxTravelers - 1 : n \in Int
      BY DEF MaxTravelers
    <3> QED BY <3>1, <3>2, Zenon
  <2> QED
    BY <1>2, <1>3, <1>4, <1>5, <2>1, <2>2
<1> QED
  BY <1>6 DEF q, JourneyOf, StayOf, Journey, Stay, Party

------------------------------------------------------------------------------
(* Planning states: what fits goes on to fit.                                  *)

\* Only the requirements, what is stored of searches, and what is asked and selected matter.
LEMMA SameFits ==
  ASSUME NEW p, NEW q, Fits(p), Placed(q), q.req = p.req, q.research = p.research, q.deals = p.deals,
         q.pending = p.pending, q.deal = p.deal, q.flight = p.flight, q.hotel = p.hotel
  PROVE  Fits(q)
BY DEF Fits, ChosenFits, PendingFits, ResearchFits, DealsFit

\* Where nothing is selected, stored or asked, everything fits.
LEMMA NothingFits ==
  ASSUME NEW p, Counted(p.req), p.research = None, p.deals = None, p.pending = None,
         p.deal = None, p.flight = None, p.hotel = None, p.city = None, p.countries = None
  PROVE  Fits(p)
BY DEF Fits, Placed, ChosenFits, PendingFits, ResearchFits, DealsFit

\* A flight fits another journey that is the same but for its destination, a country's name.
LEMMA FlightFitsStill ==
  ASSUME NEW r, NEW m, NEW o, FlightFits(r, o),
         \A f \in {"origin", "start_date", "end_date", "duration_days", "adults", "minor_count",
                   "transport"} : m[f] = r[f],
         m.destination # r.destination => m.destination \in {NameOf[k] : k \in Countries}
  PROVE  FlightFits(m, o)
<1> DEFINE journey == [origin |-> r.origin, destination |-> r.destination, start |-> r.start_date,
                     end |-> ResolvedEnd(r), adults |-> r.adults, minors |-> r.minor_count]
           other == [origin |-> m.origin, destination |-> m.destination, start |-> m.start_date,
                     end |-> ResolvedEnd(m), adults |-> m.adults, minors |-> m.minor_count]
<1>1. JourneyOf(r) = journey /\ JourneyOf(m) = other
  BY JourneyIs
<1>2. ResolvedEnd(m) = ResolvedEnd(r)
  BY DEF ResolvedEnd
<1>3. other = [journey EXCEPT !.destination = m.destination]
  BY <1>2
<1>4. OfferedFor(o, journey)
  BY <1>1, Zenon DEF FlightFits
<1>5. OfferedFor(o, other)
  BY <1>2, <1>4 DEF OfferedFor
<1> QED
  BY <1>1, <1>5 DEF FlightFits

\* The same for a hotel.
LEMMA HotelFitsStill ==
  ASSUME NEW r, NEW m, NEW h, HotelFits(r, h),
         \A f \in {"start_date", "end_date", "duration_days", "adults", "minor_count",
                   "needs_lodging", "rooms"} : m[f] = r[f],
         m.destination # r.destination => m.destination \in {NameOf[k] : k \in Countries}
  PROVE  HotelFits(m, h)
<1> DEFINE stay == [destination |-> r.destination, start |-> r.start_date, end |-> ResolvedEnd(r),
                    adults |-> r.adults, minors |-> r.minor_count,
                    rooms |-> IF r.needs_lodging = TRUE THEN r.rooms ELSE 1]
           other == [destination |-> m.destination, start |-> m.start_date, end |-> ResolvedEnd(m),
                     adults |-> m.adults, minors |-> m.minor_count,
                     rooms |-> IF m.needs_lodging = TRUE THEN m.rooms ELSE 1]
<1>1. StayOf(r) = stay /\ StayOf(m) = other
  BY StayIs
<1>2. ResolvedEnd(m) = ResolvedEnd(r) /\ m.needs_lodging = r.needs_lodging /\ m.rooms = r.rooms
  BY DEF ResolvedEnd
<1>3. OfferedFor(h, stay)
  BY <1>1, Zenon DEF HotelFits
<1>4. OfferedFor(h, other)
  BY <1>2, <1>3 DEF OfferedFor
<1> QED
  BY <1>1, <1>2, <1>4 DEF HotelFits

\* New requirements fit what was selected and asked, as far as it is kept, if flights and
\* hotels that fit the old ones fit them, or are given up.
LEMMA FitsOn ==
  ASSUME NEW p, NEW q, Fits(p), Counted(q.req), Placed(q), q.research = p.research, q.deals = p.deals,
         q.pending \in {None, p.pending}, q.deal \in {None, p.deal},
         q.flight \in {None, p.flight}, q.hotel \in {None, p.hotel},
         q.deal # None => q.flight = p.flight,
         \/ \A o : FlightFits(p.req, o) => FlightFits(q.req, o)
         \/ q.flight = None /\ q.deal = None /\ (q.pending # None => q.pending.kind # "flight"),
         \/ \A h : HotelFits(p.req, h) => HotelFits(q.req, h)
         \/ q.hotel = None /\ (q.pending # None => q.pending.kind # "hotel")
  PROVE  Fits(q)
<1>1. ChosenFits(q)
  BY DEF Fits, ChosenFits
<1>2. PendingFits(q)
  BY DEF Fits, PendingFits
<1>3. ResearchFits(q) /\ DealsFit(q)
  BY DEF Fits, ResearchFits, DealsFit
<1> QED
  BY <1>1, <1>2, <1>3 DEF Fits

\* The countries that a text may mean, and those of the cities that it names.
LEMMA CountriesPrepared ==
  ASSUME published \subseteq Cities, NEW text
  PROVE  LET found == PrepareCountry(text, published) IN
         /\ found.matches \subseteq Countries
         /\ found.status \notin {"not_recognized", "ambiguous"} => found.matches # {}
<1> DEFINE recognition == Recognize(text, TRUE)
           proposals == recognition.matches \cup {CountryOf[c] : c \in PublishedCities(text, Countries, published)}
<1>1. /\ recognition.matches \subseteq Countries
      /\ recognition.status # "not_recognized" => recognition.matches # {}
  <2>1. CountriesNamed(text) \subseteq Countries /\ CountriesMeant(text) \subseteq Countries
    BY PlaceAssumption DEF CountriesNamed, CountriesMeant
  <2> QED
    BY <2>1 DEF Recognize, Recognized
<1>2. proposals \subseteq Countries
  <2>1. \A c \in Cities : CountryOf[c] \in Countries
    BY PlaceAssumption
  <2>2. PublishedCities(text, Countries, published) \subseteq Cities
    BY DEF PublishedCities
  <2> HIDE DEF recognition
  <2> QED
    BY <1>1, <2>1, <2>2
<1>3. FirstByCode(proposals) \subseteq Countries
  BY <1>2 DEF FirstByCode
<1> QED
  BY <1>1, <1>3 DEF PrepareCountry

\* A destination that may be a country is asked about by countries.
LEMMA CheckedPlaced ==
  ASSUME published \subseteq Cities, NEW p, DOMAIN p = Keys, Placed(p)
  PROVE  Placed(Checked(p))
<1> DEFINE found == PrepareCountry(p.req.destination, published)
           k == CHOOSE c \in found.matches : TRUE
           choice == CityChoice(k, published, found.status = "confirmation_required")
<1>1. CASE Checked(p) = p
  BY <1>1
<1>2. CASE found.status # "not_recognized" /\ Checked(p) = [p EXCEPT !.countries = found.matches]
  <2>1. found.matches \subseteq Countries
    BY CountriesPrepared
  <2> HIDE DEF found
  <2> QED
    BY <1>2, <2>1 DEF Placed, Keys
<1>3. CASE /\ found.status \notin {"not_recognized", "ambiguous"}
           /\ Checked(p) = [p EXCEPT !.city = choice]
  <2>1. k \in Countries
    BY <1>3, CountriesPrepared
  <2>2. DOMAIN choice = {"country", "options", "confirm"} /\ choice.country = k
    BY DEF CityChoice
  <2> HIDE DEF choice, k
  <2> QED
    BY <1>3, <2>1, <2>2 DEF Placed, Keys
<1> QED
  BY <1>1, <1>2, <1>3 DEF Checked

------------------------------------------------------------------------------
(* The ways in which a step leaves a node.                                     *)

\* A turn that goes on with a trip that fits.
LEMMA TripGoes ==
  ASSUME TripInv, Keeps, NEW p, NEW changed, DOMAIN p = Keys, Fits(p), Goes(p, changed)
  PROVE  TripInv'
<1> DEFINE q == [p EXCEPT !.phase = PhaseOf(p, today)]
<1>1. /\ planning' = q /\ saved' = saved /\ published' = published
      /\ pc' \in {"persist", "commit", "research", "deals"}
  BY DEF Goes, Moves, Keeps, world, RouteOf
<1>2. /\ q.req = p.req /\ q.research = p.research /\ q.deals = p.deals /\ q.pending = p.pending
      /\ q.deal = p.deal /\ q.flight = p.flight /\ q.hotel = p.hotel
      /\ q.city = p.city /\ q.countries = p.countries /\ q.phase \in {"collecting", "ready"}
  BY DEF Keys, PhaseOf
<1> HIDE DEF q
<1>3. Fits(q)
  BY <1>2, SameFits DEF Fits, Placed
<1>4. Current(q)
  BY <1>2 DEF Current
<1>5. Settled'
  BY <1>1, <1>2 DEF Settled
<1> QED
  BY <1>1, <1>3, <1>4, <1>5 DEF TripInv

\* The question whether the destination is a country touches nothing that is selected.
LEMMA TripGoesChecked ==
  ASSUME TripInv, Keeps, NEW p, NEW changed, DOMAIN p = Keys, Fits(p), GoesChecked(p, changed)
  PROVE  TripInv'
<1>1. /\ DOMAIN Checked(p) = Keys /\ Checked(p).req = p.req
      /\ Checked(p).research = p.research /\ Checked(p).deals = p.deals
      /\ Checked(p).pending = p.pending /\ Checked(p).deal = p.deal
      /\ Checked(p).flight = p.flight /\ Checked(p).hotel = p.hotel
  BY DEF Checked, Keys
<1>2. Placed(Checked(p))
  BY CheckedPlaced DEF Fits, TripInv
<1>3. Fits(Checked(p))
  BY <1>1, <1>2, SameFits
<1> QED
  BY <1>1, <1>3, TripGoes DEF GoesChecked

\* A turn that fails is left with what was saved.
LEMMA TripFails ==
  ASSUME TripInv, Keeps, Fails
  PROVE  TripInv'
<1>1. planning' = saved /\ saved' = saved /\ published' = published /\ pc' = "idle"
  BY DEF Fails, Ends, Keeps, world
<1> QED
  BY <1>1 DEF TripInv, Settled

\* A reply goes on with a trip that fits, or raised.
LEMMA TripReplies ==
  ASSUME TripInv, Keeps, NEW p, NEW changed, p # Invalid => DOMAIN p = Keys /\ Fits(p),
         Replied(p, changed) \/ RepliedChecked(p, changed)
  PROVE  TripInv'
<1>1. CASE p = Invalid
  BY <1>1, TripFails DEF Replied, RepliedChecked
<1>2. CASE p # Invalid
  BY <1>2, TripGoes, TripGoesChecked DEF Replied, RepliedChecked
<1> QED BY <1>1, <1>2

\* A node that leaves a trip that fits, with an itinerary that is current, to be answered.
LEMMA TripEnds ==
  ASSUME TripInv, Keeps, NEW p, NEW node \in {"commit", "standalone"}, Fits(p), Current(p),
         To(node, p)
  PROVE  TripInv'
<1>1. planning' = p /\ saved' = saved /\ published' = published /\ pc' = node
  BY DEF To, Moves, Keeps, world
<1> QED
  BY <1>1 DEF TripInv, Settled

------------------------------------------------------------------------------
(* Replies.                                                                    *)

\* An update that says nothing the rules calculate with leaves it as it is.
LEMMA OtherwiseCounted ==
  ASSUME NEW p, Fits(p), NEW u, DOMAIN u \cap CountedFields = {}, Merged(p, u) # Invalid
  PROVE  Counted(Merged(p, u))
BY CountedMerge DEF Merged, Fits

\* A country that takes the place of the destination leaves the rest of what was offered.
LEMMA CountryFits ==
  ASSUME NEW k \in Countries, Fits(planning), DOMAIN planning = Keys, ConfirmCountry(k) # Invalid
  PROVE  DOMAIN ConfirmCountry(k) = Keys /\ Fits(ConfirmCountry(k))
<1> DEFINE u == [destination |-> NameOf[k]]
           req == Merged(planning, u)
           q == [planning EXCEPT !.req = req, !.countries = None, !.city = CityChoice(k, published, FALSE)]
<1>1. req # Invalid /\ ConfirmCountry(k) = q
  BY DEF ConfirmCountry
<1>2. DOMAIN q = Keys
  BY DEF Keys
<1>3. DOMAIN u = {"destination"} /\ u.destination \in {NameOf[c] : c \in Countries}
  OBVIOUS
<1>4. Counted(req)
  BY <1>1, <1>3, OtherwiseCounted DEF CountedFields
<1>5. /\ \A f \in {"origin", "start_date", "end_date", "duration_days", "adults", "minor_count",
                   "transport"} : req[f] = planning.req[f]
      /\ \A f \in {"start_date", "end_date", "duration_days", "adults", "minor_count",
                   "needs_lodging", "rooms"} : req[f] = planning.req[f]
      /\ req.destination = u.destination
  <2> HIDE DEF u
  <2> QED
    BY <1>1, <1>3, JourneyKept, StayKept, DestinationTold DEF Merged
<1>6. /\ \A o : FlightFits(planning.req, o) => FlightFits(req, o)
      /\ \A h : HotelFits(planning.req, h) => HotelFits(req, h)
  <2> HIDE DEF req, u
  <2> QED
    BY <1>3, <1>5, FlightFitsStill, HotelFitsStill
<1>7. /\ q.req = req /\ q.research = planning.research /\ q.deals = planning.deals
      /\ q.pending = planning.pending /\ q.deal = planning.deal
      /\ q.flight = planning.flight /\ q.hotel = planning.hotel
  BY DEF Keys
<1>8. Placed(q)
  BY DEF Placed, CityChoice, Keys
<1> HIDE DEF q, req, u
<1> QED
  BY <1>1, <1>2, <1>4, <1>6, <1>7, <1>8, FitsOn

\* A city that is chosen leaves nothing of what was stored, asked and selected.
LEMMA CityFits ==
  ASSUME Fits(planning), DOMAIN planning = Keys, NEW u, NEW cleared,
         DOMAIN u \cap CountedFields = {}, Merged(planning, u) # Invalid
  PROVE  /\ DOMAIN CityChosen(planning, Merged(planning, u), cleared) = Keys
         /\ Fits(CityChosen(planning, Merged(planning, u), cleared))
<1> DEFINE req == Merged(planning, u)
           q == CityChosen(planning, req, cleared)
<1>1. Counted(req)
  BY OtherwiseCounted
<1> HIDE DEF req
<1>2. /\ DOMAIN q = Keys /\ q.req = req /\ q.research = None /\ q.deals = None
      /\ q.pending = None /\ q.deal = None /\ q.flight = None /\ q.hotel = None
      /\ q.city = None /\ q.countries = None
  BY DEF CityChosen, Forgotten, Keys
<1> HIDE DEF q
<1>3. Fits(q)
  BY <1>1, <1>2, NothingFits
<1> QED
  BY <1>2, <1>3 DEF q, req

\* The deal that is taken was offered for the journey that the trip becomes.
LEMMA DealFits ==
  ASSUME Fits(planning), DOMAIN planning = Keys, planning.deals # None,
         NEW o \in planning.deals.options, NEW u,
         u = [origin |-> o.for.origin, destination |-> o.for.destination,
              adults |-> o.for.adults, minor_count |-> o.for.minors,
              transport |-> "flight", cabin_class |-> "economy",
              start_date |-> o.for.start, end_date |-> o.for.end,
              duration_days |-> Days(o.for.start, o.for.end)],
         Merged(planning, u) # Invalid
  PROVE  LET q == [Forgotten(planning) EXCEPT !.req = Merged(planning, u), !.deal = o, !.flight = o]
         IN  DOMAIN q = Keys /\ Fits(q)
<1> DEFINE req == Merged(planning, u)
           q == [Forgotten(planning) EXCEPT !.req = req, !.deal = o, !.flight = o]
           told == {"origin", "destination", "adults", "minor_count", "transport", "start_date", "end_date"}
<1>1. o.for = [k \in JourneyKeys |-> o.for[k]] /\ o.for.end # None /\ o.for.start # None
  BY PlanningAssumption DEF Fits, DealsFit, IsDeal
<1>2. /\ "duration_days" \in DOMAIN u /\ told \subseteq DOMAIN u
      /\ "date_window_start" \notin DOMAIN u /\ "date_window_end" \notin DOMAIN u
  OBVIOUS
<1>3. Counted(req)
  <2>1. IsDeal(o)
    BY DEF Fits, DealsFit
  <2>2. /\ u.adults \in Int /\ u.minor_count \in Int
        /\ u.start_date \in Int /\ u.end_date \in Int /\ u.duration_days \in Int
    BY <2>1 DEF IsDeal, Days
  <2>3. CountedFields \cap DOMAIN u = {"adults", "minor_count", "start_date", "end_date", "duration_days"}
    BY DEF CountedFields
  <2>4. \A f \in CountedFields \cap DOMAIN u : IsAnswer(f, u[f])
    BY <2>2, <2>3 DEF IsAnswer
  <2> HIDE DEF told
  <2> QED
    BY <2>4, CountedMerge DEF Merged, Fits
<1>4. ASSUME NEW f \in told PROVE req[f] = u[f]
  <2>1. f \in Fields /\ f # "interests"
    BY DEF Fields
  <2>2. f \notin Outdated(planning.req, u)
    BY <1>2 DEF Outdated, OutdatedDates, OutdatedParty, Says
  <2> QED
    BY <1>2, <2>1, <2>2, MergeSucceeds DEF Merged
<1>5. /\ req.origin = o.for.origin /\ req.destination = o.for.destination
      /\ req.adults = o.for.adults /\ req.minor_count = o.for.minors /\ req.transport = "flight"
      /\ req.start_date = o.for.start /\ req.end_date = o.for.end
  BY <1>4
<1> HIDE DEF req
<1>6. ResolvedEnd(req) = o.for.end
  BY <1>1, <1>5 DEF ResolvedEnd
<1>7. o.for = [origin |-> o.for.origin, destination |-> o.for.destination, start |-> o.for.start,
               end |-> o.for.end, adults |-> o.for.adults, minors |-> o.for.minors]
  BY <1>1 DEF JourneyKeys
<1>8. FlightFits(req, o)
  BY <1>5, <1>6, <1>7, JourneyIs, Zenon DEF FlightFits, OfferedFor
<1>9. /\ DOMAIN q = Keys /\ q.req = req /\ q.research = None /\ q.deals = planning.deals
      /\ q.pending = None /\ q.deal = o /\ q.flight = o /\ q.hotel = None
      /\ q.city = planning.city /\ q.countries = planning.countries
  BY DEF Forgotten, Keys
<1> HIDE DEF q
<1>10. Fits(q)
  BY <1>3, <1>8, <1>9 DEF Fits, Placed, ChosenFits, PendingFits, ResearchFits, DealsFit
<1> QED
  BY <1>9, <1>10 DEF q, req

\* What is offered is stored, is what was asked about, and fits.
LEMMA OfferedFits ==
  ASSUME Fits(planning), NEW kind \in {"flight", "hotel", "flight_dates"}, NEW o \in Offered(kind)
  PROVE  /\ planning.pending # None /\ planning.pending.kind = kind
         /\ kind = "flight" => FlightFits(planning.req, o)
         /\ kind = "hotel" => HotelFits(planning.req, o)
         /\ kind = "flight_dates" => o.start \in Int /\ o.end \in Int
         /\ kind \in {"flight", "flight_dates"} => planning.deal = None
<1>1. /\ planning.pending # None /\ planning.pending.kind = kind
      /\ o \in Options(planning.research, kind)
  BY DEF Offered
<1>2. /\ kind = "flight" => o \in planning.research.flights
      /\ kind = "hotel" => o \in planning.research.hotels
      /\ kind = "flight_dates" => o \in planning.research.nearby /\ planning.research # None
  BY <1>1 DEF Options, Offered
<1> QED
  BY <1>1, <1>2 DEF Fits, ChosenFits, PendingFits, ResearchFits, AreDays

\* Replies choose among what was offered, or change the destination.
LEMMA TripReply ==
  ASSUME IInv, TripInv, Reply
  PROVE  TripInv'
<1> USE DEF Reply
<1>1. Keeps /\ DOMAIN planning = Keys /\ Fits(planning)
  BY DEF IInv, Shaped, TripInv
<1>2. ASSUME NEW city, SelectCity(city)
      PROVE  TripInv'
  <2> DEFINE cleared == planning.inferred /\ NameOf[city] # planning.req.destination
             u == Besides([destination |-> NameOf[city]],
                          IF cleared THEN [transport |-> None, cabin_class |-> None] ELSE <<>>)
             req == Merged(planning, u)
  <2>1. IF req = Invalid THEN Replied(planning, FALSE)
        ELSE Replied(CityChosen(planning, req, cleared), TRUE)
    BY <1>2 DEF SelectCity
  <2>2. DOMAIN u \cap CountedFields = {}
    BY DEF Besides, CountedFields
  <2> HIDE DEF u, cleared
  <2>3. req # Invalid => /\ DOMAIN CityChosen(planning, req, cleared) = Keys
                         /\ Fits(CityChosen(planning, req, cleared))
    BY <1>1, <2>2, CityFits
  <2> QED
    BY <1>1, <2>1, <2>3, TripReplies
<1>3. ASSUME NEW options, ChoosesCity, Narrowed(options)
      PROVE  TripInv'
  <2> DEFINE q == [planning EXCEPT !.city.options = options, !.countries = None]
  <2>1. /\ DOMAIN q = Keys /\ q.req = planning.req /\ q.research = planning.research
        /\ q.deals = planning.deals /\ q.pending = planning.pending /\ q.deal = planning.deal
        /\ q.flight = planning.flight /\ q.hotel = planning.hotel
    BY <1>1 DEF Keys
  <2>2. Replied(q, TRUE) /\ Placed(q)
    BY <1>1, <1>3 DEF Narrowed, ChoosesCity, Fits, Placed, Keys
  <2> HIDE DEF q
  <2>3. Fits(q)
    BY <1>1, <2>1, <2>2, SameFits
  <2> QED
    BY <1>1, <2>1, <2>2, <2>3, TripReplies
<1>4. ASSUME NEW k \in Countries, Replied(ConfirmCountry(k), TRUE)
      PROVE  TripInv'
  BY <1>1, <1>4, CountryFits, TripReplies
<1>5. CASE ReplyCountry
  BY <1>1, <1>4, <1>5 DEF ReplyCountry, Fits, Placed
<1>6. CASE ReplyYes
  BY <1>1, <1>4, <1>6 DEF ReplyYes, ChoosesCity, Fits, Placed
<1>7. CASE ReplyOption
  BY <1>2, <1>3, <1>7 DEF ReplyOption
<1>8. CASE ReplyCityName
  BY <1>2, <1>3, <1>8 DEF ReplyCityName
<1>9. CASE ReplyOutOfRange
  BY <1>1, <1>9, TripReplies DEF ReplyOutOfRange
<1>10. CASE PickDeal
  <2>1. planning.deals # None
    BY <1>10 DEF PickDeal
  <2>2. PICK o \in planning.deals.options \cap planning.pending.options :
          LET req == Merged(planning,
                 [origin |-> o.for.origin, destination |-> o.for.destination,
                  adults |-> o.for.adults, minor_count |-> o.for.minors,
                  transport |-> "flight", cabin_class |-> "economy",
                  start_date |-> o.for.start, end_date |-> o.for.end,
                  duration_days |-> Days(o.for.start, o.for.end)]) IN
          RepliedChecked(IF req = Invalid THEN Invalid
                         ELSE [Forgotten(planning) EXCEPT !.req = req, !.deal = o, !.flight = o], TRUE)
    BY <1>10 DEF PickDeal
  <2> DEFINE u == [origin |-> o.for.origin, destination |-> o.for.destination,
                   adults |-> o.for.adults, minor_count |-> o.for.minors,
                   transport |-> "flight", cabin_class |-> "economy",
                   start_date |-> o.for.start, end_date |-> o.for.end,
                   duration_days |-> Days(o.for.start, o.for.end)]
             q == [Forgotten(planning) EXCEPT !.req = Merged(planning, u), !.deal = o, !.flight = o]
  <2>3. Merged(planning, u) # Invalid => DOMAIN q = Keys /\ Fits(q)
    BY <1>1, <2>1, DealFits
  <2>4. RepliedChecked(IF Merged(planning, u) = Invalid THEN Invalid ELSE q, TRUE)
    BY <2>2, Zenon
  <2> HIDE DEF q, u
  <2> QED
    BY <1>1, <2>3, <2>4, TripReplies
<1>11. CASE PickDates
  <2>1. PICK d \in Offered("flight_dates") :
          LET req == Merged(planning, [start_date |-> d.start, end_date |-> d.end,
                                       duration_days |-> Days(d.start, d.end)]) IN
          RepliedChecked(IF req = Invalid THEN Invalid
                         ELSE [Forgotten(planning) EXCEPT !.req = req, !.flight = None], TRUE)
    BY <1>11 DEF PickDates
  <2> DEFINE u == [start_date |-> d.start, end_date |-> d.end, duration_days |-> Days(d.start, d.end)]
             req == Merged(planning, u)
             q == [Forgotten(planning) EXCEPT !.req = req, !.flight = None]
  <2>2. RepliedChecked(IF req = Invalid THEN Invalid ELSE q, TRUE)
    BY <2>1, Zenon
  <2>3. d.start \in Int /\ d.end \in Int /\ planning.deal = None
    BY <1>1, OfferedFits
  <2>4. \A f \in CountedFields \cap DOMAIN u : IsAnswer(f, u[f])
    BY <2>3 DEF IsAnswer, CountedFields, Days
  <2> HIDE DEF u
  <2>5. req # Invalid => Counted(req)
    BY <1>1, <2>4, CountedMerge DEF Merged, Fits
  <2> HIDE DEF req
  <2>6. /\ DOMAIN q = Keys /\ q.req = req /\ q.research = None /\ q.deals = planning.deals
        /\ q.pending = None /\ q.deal = None /\ q.flight = None /\ q.hotel = None
        /\ q.city = planning.city /\ q.countries = planning.countries
    BY <1>1, <2>3 DEF Forgotten, Keys
  <2> HIDE DEF q
  <2>7. req # Invalid => Fits(q)
    BY <1>1, <2>5, <2>6 DEF Fits, Placed, ChosenFits, PendingFits, ResearchFits, DealsFit
  <2> QED
    BY <1>1, <2>2, <2>6, <2>7, TripReplies
<1>12. CASE PickFlight
  <2>1. PICK o \in Offered("flight") :
          RepliedChecked([planning EXCEPT !.pending = None, !.flight = o], FALSE)
    BY <1>12 DEF PickFlight
  <2> DEFINE q == [planning EXCEPT !.pending = None, !.flight = o]
  <2>2. FlightFits(planning.req, o) /\ planning.deal = None
    BY <1>1, OfferedFits
  <2>3. /\ DOMAIN q = Keys /\ q.req = planning.req /\ q.research = planning.research
        /\ q.deals = planning.deals /\ q.pending = None /\ q.deal = planning.deal
        /\ q.flight = o /\ q.hotel = planning.hotel
        /\ q.city = planning.city /\ q.countries = planning.countries
    BY <1>1 DEF Keys
  <2>4. RepliedChecked(q, FALSE)
    BY <2>1
  <2> HIDE DEF q
  <2>5. Fits(q)
    BY <1>1, <2>2, <2>3 DEF Fits, Placed, ChosenFits, PendingFits, ResearchFits, DealsFit
  <2> QED
    BY <1>1, <2>3, <2>4, <2>5, TripReplies
<1>13. CASE PickHotel
  <2>1. PICK o \in Offered("hotel") :
          RepliedChecked([planning EXCEPT !.pending = None, !.hotel = o], FALSE)
    BY <1>13 DEF PickHotel
  <2> DEFINE q == [planning EXCEPT !.pending = None, !.hotel = o]
  <2>2. HotelFits(planning.req, o)
    BY <1>1, OfferedFits
  <2>3. /\ DOMAIN q = Keys /\ q.req = planning.req /\ q.research = planning.research
        /\ q.deals = planning.deals /\ q.pending = None /\ q.deal = planning.deal
        /\ q.flight = planning.flight /\ q.hotel = o
        /\ q.city = planning.city /\ q.countries = planning.countries
    BY <1>1 DEF Keys
  <2>4. RepliedChecked(q, FALSE)
    BY <2>1
  <2> HIDE DEF q
  <2>5. Fits(q)
    BY <1>1, <2>2, <2>3 DEF Fits, Placed, ChosenFits, PendingFits, ResearchFits, DealsFit
  <2> QED
    BY <1>1, <2>3, <2>4, <2>5, TripReplies
<1> QED
  BY <1>5, <1>6, <1>7, <1>8, <1>9, <1>10, <1>11, <1>12, <1>13

------------------------------------------------------------------------------
(* Updates.                                                                    *)

\* A new planning state fits.
LEMMA NewFits == DOMAIN NewPlanning = Keys /\ Fits(NewPlanning) /\ Current(NewPlanning)
<1>1. \A f \in Fields : Unknown[f] = IF f = "interests" THEN {} ELSE None
  BY DEF Unknown
<1>2. Valid(Unknown)
  <2>1. Unknown.interests = {}
    BY <1>1 DEF Fields
  <2>2. Cardinality(Unknown.interests) <= MaxInterests
    BY <2>1, FS_EmptySet DEF MaxInterests
  <2> QED
    BY <1>1, <2>2 DEF Fields, Valid, ValidDates, ResolvedEnd, ValidWindow, ValidParty
<1>3. Counted(Unknown)
  BY <1>1, <1>2 DEF Counted, CountedFields, Fields
<1> QED
  BY <1>3, NothingFits DEF NewPlanning, Keys, Current

\* What is verified of an update is part of it, and cities are found for a pending city only.
LEMMA VerifiedSays ==
  ASSUME NEW base, NEW said
  PROVE  LET verified == Verified(base, said) IN
         /\ DOMAIN verified.updates \subseteq DOMAIN said
         /\ \A f \in DOMAIN verified.updates : verified.updates[f] = said[f]
         /\ Cardinality(verified.cities) > 1 => base.city # None
<1>1. Cardinality({}) = 0
  BY FS_EmptySet
<1>2. /\ DOMAIN Without(said, {"destination"}) \subseteq DOMAIN said
      /\ \A f \in DOMAIN Without(said, {"destination"}) : Without(said, {"destination"})[f] = said[f]
  BY DEF Without
<1> DEFINE cities == IF base.city = None THEN {}
                     ELSE PublishedCities(said.destination, {base.city.country}, published)
<1>3. Verified(base, said) \in
        {[updates |-> said, city |-> FALSE, cities |-> {}], [updates |-> said, city |-> TRUE, cities |-> {}],
         [updates |-> Without(said, {"destination"}), city |-> FALSE, cities |-> cities]}
  BY Zenon DEF Verified
<1>4. base.city = None => cities = {}
  OBVIOUS
<1> HIDE DEF cities
<1> QED
  BY <1>1, <1>2, <1>3, <1>4

\* The updates that are merged: those that were verified, transport that is asked for anew
\* when the route changes, and the interests of the profile.
LEMMA UpdatesSay ==
  ASSUME NEW base, NEW v
  PROVE  LET u == Besides(Outdone(base, v), Besides(v, Defaults(base))) IN
         /\ \A f \in CountedFields \cap DOMAIN u : f \in DOMAIN v /\ u[f] = v[f]
         /\ DOMAIN v \cap FlightFields = {} => DOMAIN u \cap FlightFields = {}
         /\ DOMAIN v \cap HotelFields = {} => DOMAIN u \cap HotelFields = {}
<1> DEFINE o == Outdone(base, v)
           d == Defaults(base)
           u == Besides(o, Besides(v, d))
<1>1. DOMAIN o \subseteq {"transport", "cabin_class"} /\ DOMAIN d \subseteq {"interests"}
  BY DEF Outdone, Defaults
<1>2. DOMAIN v \cap FlightFields = {} => DOMAIN o = {}
  BY DEF Outdone, FlightFields
<1> HIDE DEF o, d
<1>3. /\ DOMAIN u = DOMAIN o \cup DOMAIN v \cup DOMAIN d
      /\ \A f \in DOMAIN v \ DOMAIN o : u[f] = v[f]
  BY DEF Besides
<1> QED
  BY <1>1, <1>2, <1>3 DEF CountedFields, FlightFields, HotelFields, o, d

\* An update gives up the flight or the hotel when it names a field for which they were
\* chosen, and otherwise they still fit.
LEMMA UpdatedFits ==
  ASSUME NEW base, Fits(base), DOMAIN base = Keys, NEW said, NEW inferred,
         \A f \in DOMAIN said : said[f] = None \/ IsAnswer(f, said[f]),
         NEW verified, verified = Verified(base, said),
         NEW u, u = Besides(Outdone(base, verified.updates), Besides(verified.updates, Defaults(base))),
         Merged(base, u) # Invalid
  PROVE  LET p == Updated(base, Merged(base, u), u, verified, inferred) IN
         DOMAIN p = Keys /\ Fits(p)
<1> DEFINE req == Merged(base, u)
           v == verified.updates
           p == Updated(base, req, u, verified, inferred)
<1>1. /\ DOMAIN v \subseteq DOMAIN said
      /\ \A f \in DOMAIN v : v[f] = said[f]
      /\ Cardinality(verified.cities) > 1 => base.city # None
  BY VerifiedSays
<1>2. /\ \A f \in CountedFields \cap DOMAIN u : f \in DOMAIN v /\ u[f] = v[f]
      /\ DOMAIN v \cap FlightFields = {} => DOMAIN u \cap FlightFields = {}
      /\ DOMAIN v \cap HotelFields = {} => DOMAIN u \cap HotelFields = {}
  BY UpdatesSay
<1>3. Counted(req)
  BY <1>1, <1>2, CountedMerge DEF Merged, Fits
<1>4. DOMAIN v \cap FlightFields = {} => \A o : FlightFits(base.req, o) => FlightFits(req, o)
  <2> SUFFICES ASSUME DOMAIN v \cap FlightFields = {}, NEW o, FlightFits(base.req, o)
               PROVE  FlightFits(req, o)
    OBVIOUS
  <2>1. \A f \in {"origin", "start_date", "end_date", "duration_days", "adults", "minor_count",
                  "transport"} : req[f] = base.req[f]
    BY <1>2, JourneyKept DEF Merged
  <2>2. "destination" \notin DOMAIN u
    BY <1>2 DEF FlightFields
  <2>3. req.destination = base.req.destination
    BY <2>2, DestinationTold DEF Merged
  <2> HIDE DEF req
  <2> QED
    BY <2>1, <2>3, FlightFitsStill
<1>5. DOMAIN v \cap HotelFields = {} => \A h : HotelFits(base.req, h) => HotelFits(req, h)
  <2> SUFFICES ASSUME DOMAIN v \cap HotelFields = {}, NEW h, HotelFits(base.req, h)
               PROVE  HotelFits(req, h)
    OBVIOUS
  <2>1. \A f \in {"start_date", "end_date", "duration_days", "adults", "minor_count",
                  "needs_lodging", "rooms"} : req[f] = base.req[f]
    BY <1>2, StayKept DEF Merged
  <2>2. "destination" \notin DOMAIN u
    BY <1>2 DEF HotelFields
  <2>3. req.destination = base.req.destination
    BY <2>2, DestinationTold DEF Merged
  <2> HIDE DEF req
  <2> QED
    BY <2>1, <2>3, HotelFitsStill
<1> HIDE DEF req
<1>6. /\ DOMAIN p = Keys /\ p.req = req /\ p.research = base.research /\ p.deals = base.deals
      /\ p.pending = IF Pointless(base.pending, DOMAIN v) THEN None ELSE base.pending
      /\ p.deal = IF DOMAIN v \cap FlightFields # {} THEN None ELSE base.deal
      /\ p.flight = IF DOMAIN v \cap FlightFields # {} THEN None ELSE base.flight
      /\ p.hotel = IF DOMAIN v \cap HotelFields # {} THEN None ELSE base.hotel
      /\ p.countries \in {None, base.countries}
      /\ \/ p.city \in {None, base.city}
         \/ Cardinality(verified.cities) > 1 /\ p.city = [base.city EXCEPT !.options = verified.cities]
  BY Zenon DEF Updated, Keys
<1> HIDE DEF p, v
<1>7. Placed(p)
  BY <1>1, <1>6 DEF Fits, Placed
<1>8. /\ DOMAIN v \cap FlightFields # {} =>
           p.flight = None /\ p.deal = None /\ (p.pending # None => p.pending.kind # "flight")
      /\ DOMAIN v \cap HotelFields # {} =>
           p.hotel = None /\ (p.pending # None => p.pending.kind # "hotel")
  BY <1>6 DEF Pointless
<1>9. Fits(p)
  BY <1>3, <1>4, <1>5, <1>6, <1>7, <1>8, FitsOn
<1> QED
  BY <1>6, <1>9 DEF p, req

\* What a model understands gives up what it contradicts, in the trip or in a new one.
LEMMA TripUnderstands ==
  ASSUME IInv, TripInv, Understand
  PROVE  TripInv'
<1>1. Keeps /\ DOMAIN planning = Keys /\ Fits(planning) /\ Current(planning)
  BY DEF Understand, IInv, Shaped, TripInv
<1>2. CASE Chat
  BY <1>1, <1>2, TripEnds DEF Chat
<1>3. CASE Search
  BY <1>1, <1>3, TripEnds DEF Search
<1>4. ASSUME NEW x \in Updates, NEW new \in BOOLEAN, Update(x.said, new, x.inferred)
      PROVE  TripInv'
  <2> DEFINE base == IF new THEN NewPlanning ELSE planning
             verified == Verified(base, x.said)
             u == Besides(Outdone(base, verified.updates), Besides(verified.updates, Defaults(base)))
             p == Updated(base, Merged(base, u), u, verified, x.inferred)
  <2>1. IF Merged(base, u) = Invalid THEN Chat
        ELSE IF verified.city THEN Goes(p, TRUE) ELSE GoesChecked(p, TRUE)
    BY <1>4, Zenon DEF Update
  <2>2. Fits(base) /\ DOMAIN base = Keys
    BY <1>1, NewFits
  <2>3. \A f \in DOMAIN x.said : x.said[f] = None \/ IsAnswer(f, x.said[f])
    BY PlanningAssumption
  <2> HIDE DEF base
  <2>4. Merged(base, u) # Invalid => DOMAIN p = Keys /\ Fits(p)
    BY <2>2, <2>3, UpdatedFits
  <2> HIDE DEF p, u, verified
  <2>5. CASE Merged(base, u) = Invalid
    BY <1>2, <2>1, <2>5
  <2>6. CASE Merged(base, u) # Invalid
    BY <1>1, <2>1, <2>4, <2>6, TripGoes, TripGoesChecked
  <2> QED
    BY <2>5, <2>6
<1> QED
  BY <1>2, <1>3, <1>4 DEF Understand

------------------------------------------------------------------------------
(* Research.                                                                   *)

\* What a search for flights or hotels offers, it offers for what was asked.
LEMMA SearchesOffer ==
  ASSUME NEW q, NEW day, NEW nearby
  PROVE  /\ \A f \in FlightSearch(q, day, nearby) : \A o \in f.offers : o.for = Journey(q)
         /\ \A h \in HotelSearch(q, day) : \A o \in h.offers : o.for = Stay(q)
         /\ q.start \in Int /\ q.end \in Int => \A f \in FlightSearch(q, day, nearby) : AreDays(f.nearby)
<1>1. /\ SearchFails.offers = {} /\ SearchGuides.offers = {} /\ SearchEmpty.offers = {}
      /\ SearchFails.nearby = {} /\ SearchGuides.nearby = {} /\ SearchEmpty.nearby = {}
      /\ \A dates, failed : SearchNearby(dates, failed).offers = {}
      /\ \A dates, failed : SearchNearby(dates, failed).nearby = dates
  BY DEF NoSearch, SearchFails, SearchGuides, SearchEmpty, SearchNearby
<1>2. \A asked, list : /\ \A o \in SearchOffers(asked, list).offers : o.for = asked
                       /\ SearchOffers(asked, list).nearby = {}
  BY DEF SearchOffers, NoSearch
<1>3. q.start \in Int /\ q.end \in Int => AreDays(NearbyDates(q, day))
  BY DEF NearbyDates, AreDays
<1>4. ASSUME q.start \in Int, q.end \in Int, NEW f \in FlightSearch(q, day, nearby)
      PROVE  AreDays(f.nearby)
  <2>1. AreDays({})
    BY DEF AreDays
  <2>2. \A dates \in SUBSET NearbyDates(q, day) : AreDays(dates)
    BY <1>3, <1>4 DEF AreDays
  <2> QED
    BY <1>1, <1>2, <2>1, <2>2 DEF FlightSearch, Searched
<1> QED
  BY <1>1, <1>2, <1>4 DEF FlightSearch, HotelSearch, Searched

\* Research has the key of its requirements; a deal takes the place of other flights.
LEMMA ResearchFound ==
  ASSUME NoneIsNoRecord, NEW req, NEW day, NEW nearby, NEW deal,
         NEW r \in ResearchResults(req, day, nearby, deal)
  PROVE  /\ r # None /\ DOMAIN r = ResearchKeys /\ r.key = CacheKey(req)
         /\ deal # None => r.flights = {deal}
         /\ deal = None => \A o \in r.flights : o.for = Journey(ToTripRequest(req))
         /\ \A h \in r.hotels : h.for = Stay(ToTripRequest(req))
         /\ ToTripRequest(req).start \in Int /\ ToTripRequest(req).end \in Int => AreDays(r.nearby)
<1> DEFINE q == ToTripRequest(req)
           flights == IF req.transport = "flight" /\ deal = None
                      THEN FlightSearch(q, day, nearby)
                      ELSE {[NoSearch EXCEPT !.offers = IF deal = None THEN {} ELSE {deal}]}
           hotels == IF req.needs_lodging = TRUE THEN HotelSearch(q, day) ELSE {NoSearch}
<1>1. PICK f \in flights, h \in hotels, other \in BOOLEAN :
        r = [key |-> CacheKey(req), flights |-> f.offers, nearby |-> f.nearby, hotels |-> h.offers,
             empty |-> {k \in {"flight", "hotel"} : IF k = "flight" THEN f.empty ELSE h.empty},
             warned |-> f.warned \/ h.warned \/ other, guided |-> f.guided \/ h.guided, fresh |-> TRUE]
  BY DEF ResearchResults
<1>2. /\ DOMAIN r = ResearchKeys /\ r.key = CacheKey(req)
      /\ r.flights = f.offers /\ r.hotels = h.offers /\ r.nearby = f.nearby
  BY <1>1 DEF ResearchKeys
<1>3. r # None
  BY <1>1 DEF NoneIsNoRecord
<1>4. /\ deal # None => f.offers = {deal}
      /\ deal = None => \A o \in f.offers : o.for = Journey(q)
  <2>1. CASE req.transport = "flight" /\ deal = None
    BY <2>1, SearchesOffer
  <2>2. CASE ~(req.transport = "flight" /\ deal = None)
    BY <2>2 DEF NoSearch
  <2> QED BY <2>1, <2>2
<1>5. \A o \in h.offers : o.for = Stay(q)
  <2>1. CASE req.needs_lodging = TRUE
    BY <2>1, SearchesOffer
  <2>2. CASE req.needs_lodging # TRUE
    <3>1. h = NoSearch
      BY <2>2
    <3>2. NoSearch.offers = {}
      BY DEF NoSearch
    <3> QED
      BY <3>1, <3>2
  <2> QED BY <2>1, <2>2
<1>6. q.start \in Int /\ q.end \in Int => AreDays(f.nearby)
  <2>1. CASE req.transport = "flight" /\ deal = None
    <3>1. f \in FlightSearch(q, day, nearby)
      BY <2>1
    <3> HIDE DEF q
    <3> QED
      BY <3>1, SearchesOffer
  <2>2. CASE ~(req.transport = "flight" /\ deal = None)
    BY <2>2 DEF NoSearch, AreDays
  <2> QED BY <2>1, <2>2
<1> HIDE DEF q
<1> QED
  BY <1>2, <1>3, <1>4, <1>5, <1>6 DEF q

\* Research that a turn makes or uses again is research for its requirements.
LEMMA ResultsFit ==
  ASSUME NoneIsNoRecord, NEW p, Fits(p), NEW day, MissingFields(p.req, day, Tier) = {},
         NEW r \in Results(p)
  PROVE  /\ r # None /\ DOMAIN r = ResearchKeys /\ r.key.request = ToTripRequest(p.req)
         /\ Journey(r.key.request) = JourneyOf(p.req) /\ Stay(r.key.request) = StayOf(p.req)
         /\ \A o \in r.flights : OfferedFor(o, JourneyOf(p.req))
         /\ \A h \in r.hotels : OfferedFor(h, StayOf(p.req)) /\ h.for = Stay(r.key.request)
         /\ p.deal # None => p.deal \in r.flights
         /\ ToTripRequest(p.req).start \in Int /\ ToTripRequest(p.req).end \in Int => AreDays(r.nearby)
<1>1. CacheKey(p.req).request = ToTripRequest(p.req)
  BY DEF CacheKey
<1>2. /\ Journey(ToTripRequest(p.req)) = JourneyOf(p.req)
      /\ Stay(ToTripRequest(p.req)) = StayOf(p.req)
  BY PartyCounted DEF Fits
<1>3. p.deal # None => OfferedFor(p.deal, JourneyOf(p.req))
  BY DEF Fits, ChosenFits, FlightFits
<1>4. CASE Reusable(p)
  <2>1. r = p.research /\ r # None /\ r.key = CacheKey(p.req) /\ (p.deal # None => p.deal \in r.flights)
    BY <1>4 DEF Results, Reusable
  <2> QED
    BY <1>1, <1>2, <2>1 DEF Fits, ResearchFits, OfferedFor
<1>5. CASE ~Reusable(p)
  <2>1. r \in ResearchResults(p.req, today, p.deal # None \/ ~p.nearby, p.deal)
    BY <1>5 DEF Results
  <2>2. /\ r # None /\ DOMAIN r = ResearchKeys /\ r.key = CacheKey(p.req)
        /\ p.deal # None => r.flights = {p.deal}
        /\ p.deal = None => \A o \in r.flights : o.for = Journey(ToTripRequest(p.req))
        /\ \A h \in r.hotels : h.for = Stay(ToTripRequest(p.req))
        /\ ToTripRequest(p.req).start \in Int /\ ToTripRequest(p.req).end \in Int => AreDays(r.nearby)
    BY <2>1, ResearchFound
  <2> QED
    BY <1>1, <1>2, <1>3, <2>2 DEF OfferedFor
<1> QED
  BY <1>4, <1>5

\* A trip that is researched begins and ends on days.
LEMMA ExactDays ==
  ASSUME NEW p, NEW day, Counted(p.req), MissingFields(p.req, day, Tier) = {},
         RouteOf(p, day) = "research"
  PROVE  ToTripRequest(p.req).start \in Int /\ ToTripRequest(p.req).end \in Int
<1>1. p.req.date_window_start = None
  BY DEF RouteOf
<1>2. p.req.start_date # None /\ ResolvedEnd(p.req) # None
  BY <1>1 DEF MissingFields, MissingDates
<1>3. \A f \in {"start_date", "end_date", "duration_days"} : p.req[f] = None \/ p.req[f] \in Int
  BY DEF Counted, CountedFields, IsAnswer
<1>4. p.req.start_date \in Int /\ ResolvedEnd(p.req) \in Int
  BY <1>2, <1>3 DEF ResolvedEnd
<1> QED
  BY <1>4 DEF ToTripRequest

\* A choice that is resolved is among the options, one that stood before included.
LEMMA ChoiceResolved ==
  ASSUME NEW kind, NEW r, NEW choice
  PROVE  LET d == Resolve(kind, r, choice) IN
         /\ d.choice # None =>
              /\ \E o \in Options(r, kind) : Id(kind, o) = Id(kind, d.choice)
              /\ d.choice = choice \/ d.choice \in Options(r, kind)
         /\ d.ask # None =>
              /\ d.ask.kind = kind /\ (d.ask.reason = "choose" => d.ask.options = Options(r, kind))
         /\ choice # None /\ choice \in Options(r, kind) => d.choice = choice /\ d.ask = None
<1> DEFINE options == Options(r, kind)
<1> HIDE DEF options
<1>1. Resolve(kind, r, choice) =
        IF choice # None /\ \E o \in options : Id(kind, o) = Id(kind, choice)
        THEN [choice |-> choice, ask |-> None]
        ELSE IF Cardinality(options) > 1 THEN [choice |-> None, ask |-> Ask(kind, options, "choose")]
        ELSE IF options # {} THEN [choice |-> CHOOSE o \in options : TRUE, ask |-> None]
        ELSE [choice |-> None, ask |-> IF kind \in r.empty THEN Ask(kind, {}, "no_results") ELSE None]
  BY Zenon DEF Resolve, options
<1>2. options # {} => (CHOOSE o \in options : TRUE) \in options
  OBVIOUS
<1> DEFINE d == Resolve(kind, r, choice)
           some == CHOOSE o \in options : TRUE
<1>3. \/ d = [choice |-> choice, ask |-> None] /\ choice # None /\ \E o \in options : Id(kind, o) = Id(kind, choice)
      \/ /\ ~(choice # None /\ \E o \in options : Id(kind, o) = Id(kind, choice))
         /\ \/ d = [choice |-> None, ask |-> Ask(kind, options, "choose")]
            \/ d = [choice |-> some, ask |-> None] /\ some \in options
            \/ d = [choice |-> None, ask |-> IF kind \in r.empty THEN Ask(kind, {}, "no_results") ELSE None]
  BY <1>1, <1>2, Zenon
<1> HIDE DEF d, some
<1> QED
  BY <1>3 DEF Ask, d, options

\* The flight that research leaves is one of its flights, and the deal when there is one; a
\* question is about what it found.
LEMMA FlightChosen ==
  ASSUME NEW p, Fits(p), NEW r, p.deal # None => p.deal \in r.flights
  PROVE  LET c == FlightChoice(p, r) IN
         /\ c.choice # None => p.req.transport = "flight" /\ c.choice \in r.flights
         /\ p.deal # None => c.choice = p.deal /\ c.ask = None
         /\ c.ask # None =>
              /\ p.req.transport = "flight" /\ c.ask.kind \in {"flight", "flight_dates"}
              /\ c.ask.reason = "choose" => c.ask.options \subseteq Options(r, c.ask.kind)
<1> DEFINE c == FlightChoice(p, r)
           d == Resolve("flight", r, p.flight)
<1>1. /\ p.flight # None => p.req.transport = "flight"
      /\ p.deal # None => p.flight = p.deal
  BY DEF Fits, ChosenFits, FlightFits
<1>2. Options(r, "flight") = r.flights /\ \A o : Id("flight", o) = o
  BY DEF Options, Id
<1>3. /\ d.choice # None => d.choice \in r.flights
      /\ d.ask # None => d.ask.kind = "flight" /\ (d.ask.reason = "choose" => d.ask.options = r.flights)
      /\ p.deal # None => d.choice = p.deal /\ d.ask = None
  BY <1>1, <1>2, ChoiceResolved
<1> HIDE DEF d
<1>4. c = IF p.req.transport # "flight" THEN [choice |-> p.flight, ask |-> None]
          ELSE IF d.choice = None /\ r.flights = {} /\ r.nearby # {}
               THEN [choice |-> None, ask |-> Ask("flight_dates", r.nearby, "choose")]
               ELSE d
  BY Zenon DEF FlightChoice, d
<1>5. CASE p.req.transport # "flight"
  BY <1>1, <1>4, <1>5
<1>6. CASE p.req.transport = "flight" /\ d.choice = None /\ r.flights = {} /\ r.nearby # {}
  <2>1. p.deal = None
    BY <1>6
  <2>2. c = [choice |-> None, ask |-> Ask("flight_dates", r.nearby, "choose")]
    BY <1>4, <1>6
  <2>3. Options(r, "flight_dates") = r.nearby
    BY DEF Options
  <2> QED
    BY <1>6, <2>1, <2>2, <2>3 DEF Ask
<1>7. CASE p.req.transport = "flight" /\ ~(d.choice = None /\ r.flights = {} /\ r.nearby # {})
  <2>1. c = d
    BY <1>4, <1>7
  <2> QED
    BY <1>2, <1>3, <1>7, <2>1
<1> QED
  BY <1>5, <1>6, <1>7

\* The hotel that research leaves is known by a hotel of the research and fits.
LEMMA HotelChosen ==
  ASSUME NEW p, Fits(p), NEW r, \A h \in r.hotels : OfferedFor(h, StayOf(p.req))
  PROVE  LET c == HotelChoice(p, r) IN
         /\ c.choice # None => HotelFits(p.req, c.choice) /\ \E h \in r.hotels : h.n = c.choice.n
         /\ c.ask # None =>
              /\ p.req.needs_lodging = TRUE /\ c.ask.kind = "hotel"
              /\ c.ask.reason = "choose" => c.ask.options \subseteq Options(r, c.ask.kind)
<1> DEFINE c == HotelChoice(p, r)
           d == Resolve("hotel", r, p.hotel)
<1>1. p.hotel # None => HotelFits(p.req, p.hotel)
  BY DEF Fits, ChosenFits
<1>2. Options(r, "hotel") = r.hotels /\ \A o : Id("hotel", o) = o.n
  BY DEF Options, Id
<1>3. /\ d.choice # None => /\ \E h \in r.hotels : h.n = d.choice.n
                            /\ d.choice = p.hotel \/ d.choice \in r.hotels
      /\ d.ask # None => d.ask.kind = "hotel" /\ (d.ask.reason = "choose" => d.ask.options = r.hotels)
  BY <1>2, ChoiceResolved
<1> HIDE DEF d
<1>4. c = IF p.req.needs_lodging # TRUE THEN [choice |-> p.hotel, ask |-> None] ELSE d
  BY Zenon DEF HotelChoice, d
<1>5. CASE p.req.needs_lodging # TRUE
  <2>1. c.choice = p.hotel /\ c.ask = None
    BY <1>4, <1>5
  <2>2. p.hotel = None
    BY <1>1, <1>5 DEF HotelFits
  <2> QED
    BY <2>1, <2>2
<1>6. CASE p.req.needs_lodging = TRUE
  <2>1. c = d
    BY <1>4, <1>6
  <2>2. d.choice # None => HotelFits(p.req, d.choice)
    BY <1>1, <1>3, <1>6 DEF HotelFits
  <2> QED
    BY <1>2, <1>3, <1>6, <2>1, <2>2
<1> QED
  BY <1>5, <1>6

\* Research asks about what fits, or settles on what fits and keeps the evidence of it.
LEMMA TripResearches ==
  ASSUME NoneIsNoRecord, IInv, TripInv, Research
  PROVE  TripInv'
<1>1. /\ Keeps /\ DOMAIN planning = Keys /\ Fits(planning) /\ pc = "research"
      /\ planning.phase # "generated"
  BY DEF Research, IInv, Shaped, TripInv, Settled
<1>2. MissingFields(planning.req, routed, Tier) = {}
  BY <1>1 DEF IInv, SearchesWhatIsSaved, Missing
<1>3. PICK r \in Results(planning) :
        LET flight == FlightChoice(planning, r)
            hotel == HotelChoice(planning, r)
            known == [planning EXCEPT !.research = r, !.flight = flight.choice] IN
        IF r.guided THEN To("commit", planning)
        ELSE IF flight.ask # None
        THEN To("commit", [known EXCEPT !.pending = flight.ask,
                                        !.nearby = r.nearby # {} \/ "flight" \in r.empty])
        ELSE IF hotel.ask # None
        THEN To("commit", [known EXCEPT !.pending = hotel.ask, !.hotel = hotel.choice])
        ELSE To("synthesize", [known EXCEPT !.pending = None, !.hotel = hotel.choice,
                                 !.research = Selected(r, flight.choice, hotel.choice)])
  BY Zenon DEF Research
<1> DEFINE flight == FlightChoice(planning, r)
           hotel == HotelChoice(planning, r)
           known == [planning EXCEPT !.research = r, !.flight = flight.choice]
           flown == [known EXCEPT !.pending = flight.ask, !.nearby = r.nearby # {} \/ "flight" \in r.empty]
           lodged == [known EXCEPT !.pending = hotel.ask, !.hotel = hotel.choice]
           left == Selected(r, flight.choice, hotel.choice)
           settled == [known EXCEPT !.pending = None, !.hotel = hotel.choice, !.research = left]
<1>4. /\ r # None /\ DOMAIN r = ResearchKeys
      /\ Journey(r.key.request) = JourneyOf(planning.req) /\ Stay(r.key.request) = StayOf(planning.req)
      /\ \A o \in r.flights : OfferedFor(o, JourneyOf(planning.req))
      /\ \A h \in r.hotels : OfferedFor(h, StayOf(planning.req)) /\ h.for = Stay(r.key.request)
      /\ planning.deal # None => planning.deal \in r.flights
      /\ AreDays(r.nearby)
  <2>1. ToTripRequest(planning.req).start \in Int /\ ToTripRequest(planning.req).end \in Int
    BY <1>1, <1>2, ExactDays DEF IInv, Routed, Fits
  <2> QED
    BY <1>1, <1>2, <2>1, ResultsFit
<1>5. /\ flight.choice # None => planning.req.transport = "flight" /\ flight.choice \in r.flights
      /\ planning.deal # None => flight.choice = planning.deal /\ flight.ask = None
      /\ flight.ask # None =>
           /\ planning.req.transport = "flight" /\ flight.ask.kind \in {"flight", "flight_dates"}
           /\ flight.ask.reason = "choose" => flight.ask.options \subseteq Options(r, flight.ask.kind)
  BY <1>1, <1>4, FlightChosen
<1>6. /\ hotel.choice # None =>
           HotelFits(planning.req, hotel.choice) /\ \E h \in r.hotels : h.n = hotel.choice.n
      /\ hotel.ask # None =>
           /\ planning.req.needs_lodging = TRUE /\ hotel.ask.kind = "hotel"
           /\ hotel.ask.reason = "choose" => hotel.ask.options \subseteq Options(r, hotel.ask.kind)
  BY <1>1, <1>4, HotelChosen
<1>7. \/ To("commit", planning)
      \/ flight.ask # None /\ To("commit", flown)
      \/ hotel.ask # None /\ flight.ask = None /\ To("commit", lodged)
      \/ hotel.ask = None /\ flight.ask = None /\ To("synthesize", settled)
  BY <1>3, Zenon
<1> HIDE DEF flight, hotel
<1>8. flight.choice # None => FlightFits(planning.req, flight.choice)
  BY <1>4, <1>5 DEF FlightFits
<1>9. CASE To("commit", planning)
  BY <1>1, <1>9, TripEnds DEF Current
<1>10. CASE flight.ask # None /\ To("commit", flown)
  <2>1. /\ flown.req = planning.req /\ flown.research = r /\ flown.deals = planning.deals
        /\ flown.pending = flight.ask /\ flown.deal = planning.deal /\ flown.flight = flight.choice
        /\ flown.hotel = planning.hotel /\ flown.city = planning.city
        /\ flown.countries = planning.countries /\ flown.phase = planning.phase
    BY <1>1 DEF Keys
  <2> HIDE DEF flown
  <2>2. ChosenFits(flown)
    BY <1>1, <1>5, <1>8, <1>10, <2>1 DEF Fits, ChosenFits
  <2>3. PendingFits(flown)
    BY <1>4, <1>5, <1>10, <2>1 DEF PendingFits, FlightFits
  <2>4. ResearchFits(flown) /\ DealsFit(flown) /\ Counted(flown.req) /\ Placed(flown)
    BY <1>1, <1>4, <2>1 DEF Fits, ResearchFits, DealsFit, Placed
  <2>5. Fits(flown) /\ Current(flown)
    BY <1>1, <2>1, <2>2, <2>3, <2>4 DEF Fits, Current
  <2> QED
    BY <1>1, <1>10, <2>5, TripEnds
<1>11. CASE hotel.ask # None /\ flight.ask = None /\ To("commit", lodged)
  <2>1. /\ lodged.req = planning.req /\ lodged.research = r /\ lodged.deals = planning.deals
        /\ lodged.pending = hotel.ask /\ lodged.deal = planning.deal
        /\ lodged.flight = flight.choice /\ lodged.hotel = hotel.choice
        /\ lodged.city = planning.city /\ lodged.countries = planning.countries
        /\ lodged.phase = planning.phase
    BY <1>1 DEF Keys
  <2> HIDE DEF lodged
  <2>2. ChosenFits(lodged)
    BY <1>1, <1>5, <1>6, <1>8, <1>11, <2>1 DEF ChosenFits
  <2>3. PendingFits(lodged)
    BY <1>4, <1>6, <1>11, <2>1 DEF PendingFits, HotelFits
  <2>4. ResearchFits(lodged) /\ DealsFit(lodged) /\ Counted(lodged.req) /\ Placed(lodged)
    BY <1>1, <1>4, <2>1 DEF Fits, ResearchFits, DealsFit, Placed
  <2>5. Fits(lodged) /\ Current(lodged)
    BY <1>1, <2>1, <2>2, <2>3, <2>4 DEF Fits, Current
  <2> QED
    BY <1>1, <1>11, <2>5, TripEnds
<1>12. CASE hotel.ask = None /\ flight.ask = None /\ To("synthesize", settled)
  <2>1. /\ DOMAIN left = ResearchKeys /\ left.key = r.key
        /\ left.flights = r.flights \cap {flight.choice}
        /\ left.hotels = {h \in r.hotels : hotel.choice # None /\ h.n = hotel.choice.n}
        /\ left.nearby = {}
        /\ left = [x \in DOMAIN left |-> left[x]]
    BY <1>4 DEF Selected, ResearchKeys
  <2> HIDE DEF left
  <2>2. /\ settled.req = planning.req /\ settled.research = left /\ settled.deals = planning.deals
        /\ settled.pending = None /\ settled.deal = planning.deal
        /\ settled.flight = flight.choice /\ settled.hotel = hotel.choice
        /\ settled.city = planning.city /\ settled.countries = planning.countries
        /\ settled.phase = planning.phase
    BY <1>1 DEF Keys
  <2> HIDE DEF settled
  <2>3. ChosenFits(settled) /\ PendingFits(settled)
    BY <1>5, <1>6, <1>8, <2>2 DEF ChosenFits, PendingFits
  <2>4. ResearchFits(settled)
    BY <1>4, <2>1, <2>2 DEF ResearchFits, AreDays
  <2>5. DealsFit(settled) /\ Counted(settled.req) /\ Placed(settled)
    BY <1>1, <2>2 DEF Fits, DealsFit, Placed
  <2>6. Fits(settled) /\ Current(settled)
    BY <1>1, <2>2, <2>3, <2>4, <2>5 DEF Fits, Current
  <2>7. /\ settled.flight # None => settled.flight \in settled.research.flights
        /\ settled.hotel # None => \E h \in settled.research.hotels : h.n = settled.hotel.n
    BY <1>5, <1>6, <2>1, <2>2
  <2>8. planning' = settled /\ saved' = saved /\ published' = published /\ pc' = "synthesize"
    BY <1>1, <1>12 DEF To, Moves, Keeps, world
  <2>9. Settled'
    BY <1>1, <2>2, <2>7, <2>8 DEF Settled
  <2> QED
    BY <2>6, <2>8, <2>9 DEF TripInv
<1> QED
  BY <1>7, <1>9, <1>10, <1>11, <1>12

------------------------------------------------------------------------------
(* The other steps of a turn.                                                  *)

\* A message whose requirements were persisted goes on with the trip that it persisted.
LEMMA TripRetried ==
  ASSUME IInv, TripInv, Retried
  PROVE  TripInv'
BY TripReplies DEF Retried, IInv, Shaped, TripInv

\* Requirements that are persisted are those of a trip that fits, without an itinerary.
LEMMA TripPersists ==
  ASSUME TripInv, Persist
  PROVE  TripInv'
<1>1. /\ saved' = planning /\ planning' = planning /\ published' = published
      /\ pc = "persist" /\ pc' \in {"commit", "research", "deals"}
  BY DEF Persist, world, RouteOf
<1>2. Settled'
  BY <1>1 DEF TripInv, Settled
<1> QED
  BY <1>1, <1>2 DEF TripInv

\* A discovery finds journeys between days, and only when its airports are known.
LEMMA DiscoveriesFit ==
  ASSUME NoneIsNoRecord, NEW d, d.start \in Int, d.adults \in Int, Party(d) \in Int, NEW reply, NEW found \in Discoveries(d, reply)
  PROVE  /\ found # None /\ DOMAIN found = DealsKeys
         /\ ~found.resolved => found.options = {}
         /\ \A o \in found.options : IsDeal(o)
<1>1. ASSUME NEW options, NEW resolved
      PROVE  LET s == Snapshot(d, options, resolved, reply) IN
             s # None /\ DOMAIN s = DealsKeys /\ s.options = options /\ s.resolved = resolved
  BY DEF Snapshot, DealsKeys, NoneIsNoRecord
<1>2. ASSUME NEW options \in DealOptions(d), NEW o \in options
      PROVE  IsDeal(o)
  <2>1. PICK list \in DealLists :
          options = {[for |-> [origin |-> d.origin, destination |-> d.destination,
                               start |-> d.start + x.from, end |-> d.start + x.from + x.days - 1,
                               adults |-> d.adults, minors |-> Party(d)], n |-> 0] :
                       x \in {y \in list : d.start + y.from + y.days - 1 <= d.end}}
    BY DEF DealOptions
  <2>2. PICK x \in list :
          o = [for |-> [origin |-> d.origin, destination |-> d.destination,
                        start |-> d.start + x.from, end |-> d.start + x.from + x.days - 1,
                        adults |-> d.adults, minors |-> Party(d)], n |-> 0]
    BY <2>1
  <2>3. x.from \in Int /\ x.days \in Int
    BY PlanningAssumption
  <2>4. /\ o.for = [origin |-> d.origin, destination |-> d.destination,
                    start |-> d.start + x.from, end |-> d.start + x.from + x.days - 1,
                    adults |-> d.adults, minors |-> Party(d)]
    BY <2>2
  <2> QED
    BY <2>3, <2>4 DEF IsDeal, JourneyKeys
<1>3. CASE found = Snapshot(d, {}, FALSE, reply)
  <2>1. found # None /\ DOMAIN found = DealsKeys /\ found.options = {}
    BY <1>1, <1>3
  <2> QED
    BY <2>1
<1>4. ASSUME NEW options \in DealOptions(d), found = Snapshot(d, options, TRUE, reply)
      PROVE  /\ found # None /\ DOMAIN found = DealsKeys /\ found.resolved /\ found.options = options
             /\ \A o \in found.options : IsDeal(o)
  <2>1. found # None /\ DOMAIN found = DealsKeys /\ found.resolved /\ found.options = options
    BY <1>1, <1>4
  <2> QED
    BY <1>2, <2>1
<1>5. \/ found = Snapshot(d, {}, FALSE, reply)
      \/ \E options \in DealOptions(d) : found = Snapshot(d, options, TRUE, reply)
  BY DEF Discoveries
<1> QED
  BY <1>3, <1>4, <1>5

\* Deals that are found, again or anew, are asked about while they are stored.
LEMMA DealsAsked ==
  ASSUME TripInv, Keeps, DOMAIN planning = Keys, NEW found,
         NEW kept \in {None, found}, kept = None => found.options = {},
         /\ found # None /\ DOMAIN found = DealsKeys
         /\ \A o \in found.options : IsDeal(o),
         To("commit", [planning EXCEPT !.deals = kept, !.pending = AskDeal(found)])
  PROVE  TripInv'
<1> DEFINE p == [planning EXCEPT !.deals = kept, !.pending = AskDeal(found)]
<1>1. /\ p.req = planning.req /\ p.research = planning.research /\ p.deals = kept
      /\ p.pending = AskDeal(found) /\ p.deal = planning.deal /\ p.flight = planning.flight
      /\ p.hotel = planning.hotel /\ p.city = planning.city /\ p.countries = planning.countries
      /\ p.phase = planning.phase /\ p.itinerary = planning.itinerary
  BY DEF Keys
<1>2. AskDeal(found) # None =>
        /\ AskDeal(found).kind = "deal" /\ AskDeal(found).options = found.options
        /\ found.options # {}
  BY DEF AskDeal, Ask
<1> HIDE DEF p
<1>3. ChosenFits(p) /\ PendingFits(p)
  BY <1>1, <1>2 DEF TripInv, Fits, ChosenFits, PendingFits
<1>4. Counted(p.req) /\ Placed(p) /\ ResearchFits(p) /\ DealsFit(p)
  BY <1>1 DEF TripInv, Fits, Placed, ResearchFits, DealsFit
<1>5. Fits(p) /\ Current(p)
  BY <1>1, <1>3, <1>4 DEF TripInv, Fits, Current
<1> QED
  BY <1>5, TripEnds DEF p

\* Deals that are still those of the request are as they were stored.
LEMMA SameDealsFit ==
  ASSUME TripInv, NEW d, SameDeals(planning, d)
  PROVE  /\ planning.deals # None /\ DOMAIN planning.deals = DealsKeys
         /\ \A o \in planning.deals.options : IsDeal(o)
BY DEF SameDeals, TripInv, Fits, DealsFit

\* Deals are searched for in a window that begins on a day, or the turn fails.
LEMMA TripDeals ==
  ASSUME NoneIsNoRecord, IInv, TripInv, Deals
  PROVE  TripInv'
<1> DEFINE d == ToDealRequest(planning.req)
<1>1. Keeps /\ DOMAIN planning = Keys /\ planning.phase # "generated" /\ Counted(planning.req)
  BY DEF Deals, IInv, Shaped, TripInv, Settled, Fits
<1>2. CASE ~BuildsDealSearch(d)
  BY <1>1, <1>2, TripFails DEF Deals
<1>3. CASE BuildsDealSearch(d)
  <2>1. d.start \in Int /\ d.adults \in Int /\ Party(d) \in Int
    <3>1. /\ d.start = planning.req.date_window_start /\ d.start # None
          /\ d.adults = planning.req.adults /\ d.adults # None
          /\ Party(d) = planning.req.minor_count
      <4>1. MissingFields(planning.req, routed, Tier) = {}
        BY DEF Deals, IInv, SearchesWhatIsSaved, Missing
      <4>2. Party(d) = planning.req.minor_count
        <5>1. Party(ToTripRequest(planning.req)) = planning.req.minor_count
          BY <1>1, <4>1, PartyCounted
        <5>2. Party(d) = Party(ToTripRequest(planning.req))
          BY DEF ToDealRequest, Party
        <5> QED
          BY <5>1, <5>2
      <4> QED
        BY <1>3, <4>2 DEF ToDealRequest, BuildsDealSearch
    <3>2. planning.req.minor_count # None
      BY DEF Deals, IInv, SearchesWhatIsSaved, Missing, MissingFields, MissingParty
    <3> QED
      BY <1>1, <3>1, <3>2 DEF Counted, CountedFields, IsAnswer
  <2>2. \/ RefusesWindow(d)
        \/ \E found \in IF SameDeals(planning, d) THEN {planning.deals} ELSE Discoveries(d, FALSE) :
             To("commit", [planning EXCEPT !.deals = found, !.pending = AskDeal(found)])
    BY <1>3 DEF Deals
  <2> HIDE DEF d
  <2>3. CASE RefusesWindow(d)
    BY <1>1, <2>3, TripFails DEF RefusesWindow
  <2>4. ASSUME NEW found \in IF SameDeals(planning, d) THEN {planning.deals} ELSE Discoveries(d, FALSE),
               To("commit", [planning EXCEPT !.deals = found, !.pending = AskDeal(found)])
        PROVE  TripInv'
    <3>1. CASE SameDeals(planning, d)
      BY <1>1, <2>4, <3>1, SameDealsFit, DealsAsked
    <3>2. CASE ~SameDeals(planning, d)
      <4>1. /\ found # None /\ DOMAIN found = DealsKeys
            /\ \A o \in found.options : IsDeal(o)
        BY <2>1, <2>4, <3>2, DiscoveriesFit
      <4> QED
        BY <1>1, <2>4, <4>1, DealsAsked
    <3> QED BY <3>1, <3>2
  <2> QED
    BY <2>2, <2>3, <2>4
<1> QED
  BY <1>2, <1>3

\* A search of its own leaves the trip, and its deals are stored as long as they are asked about.
LEMMA TripStandalone ==
  ASSUME NoneIsNoRecord, IInv, TripInv, StandaloneDeals \/ StandaloneSearch
  PROVE  TripInv'
<1>1. Keeps /\ DOMAIN planning = Keys /\ pc = "standalone" /\ Fits(planning) /\ Current(planning)
  BY DEF StandaloneDeals, StandaloneSearch, IInv, Shaped, TripInv
<1>2. CASE StandaloneDeals
  <2>1. PICK d \in DealRequests :
          \/ RefusesWindow(d)
          \/ \E found \in IF SameDeals(planning, d) /\ planning.deals.reply THEN {planning.deals}
                          ELSE Discoveries(d, TRUE) :
               To("commit", [planning EXCEPT !.deals = IF found.resolved THEN found ELSE None,
                                             !.pending = AskDeal(found)])
    BY <1>2 DEF StandaloneDeals
  <2>2. CASE RefusesWindow(d)
    BY <1>1, <2>2, TripFails DEF RefusesWindow
  <2>3. d.start \in Int /\ d.adults \in Int /\ Party(d) \in Int
    BY PlanningAssumption DEF Party
  <2>4. ASSUME NEW found \in IF SameDeals(planning, d) /\ planning.deals.reply THEN {planning.deals}
                              ELSE Discoveries(d, TRUE),
               To("commit", [planning EXCEPT !.deals = IF found.resolved THEN found ELSE None,
                                             !.pending = AskDeal(found)])
        PROVE  TripInv'
    <3>1. /\ found # None /\ DOMAIN found = DealsKeys
          /\ \A o \in found.options : IsDeal(o)
      BY <2>3, <2>4, SameDealsFit, DiscoveriesFit
    <3>2. ~found.resolved => found.options = {}
      BY <2>3, <2>4, DiscoveriesFit DEF SameDeals
    <3> DEFINE kept == IF found.resolved THEN found ELSE None
    <3>3. kept \in {None, found} /\ (kept = None => found.options = {})
      BY <3>1, <3>2
    <3>4. To("commit", [planning EXCEPT !.deals = kept, !.pending = AskDeal(found)])
      BY <2>4
    <3> HIDE DEF kept
    <3> QED
      BY <1>1, <3>1, <3>3, <3>4, DealsAsked
  <2> QED
    BY <2>1, <2>2, <2>4
<1>3. CASE StandaloneSearch
  BY <1>1, <1>3, TripEnds DEF StandaloneSearch
<1> QED
  BY <1>2, <1>3

\* An itinerary that is accepted shows what is selected.
LEMMA TripSynthesizes ==
  ASSUME NoneIsNoRecord, IInv, TripInv, Synthesize
  PROVE  TripInv'
<1>1. /\ Keeps /\ DOMAIN planning = Keys /\ Fits(planning)
      /\ planning.flight # None => planning.flight \in planning.research.flights
      /\ planning.hotel # None => \E h \in planning.research.hotels : h.n = planning.hotel.n
  BY DEF Synthesize, IInv, Shaped, TripInv, Settled
<1>2. PICK shown : /\ Accepted(planning, shown)
                   /\ To("commit", [planning EXCEPT !.phase = "generated",
                                      !.itinerary = [key |-> CacheKey(planning.req), shown |-> shown]])
  BY DEF Synthesize
<1> DEFINE written == [key |-> CacheKey(planning.req), shown |-> shown]
           p == [planning EXCEPT !.phase = "generated", !.itinerary = written]
<1>3. written # None /\ written.key = CacheKey(planning.req) /\ written.shown = shown
  BY DEF NoneIsNoRecord
<1> HIDE DEF written
<1>4. /\ p.req = planning.req /\ p.research = planning.research /\ p.deals = planning.deals
      /\ p.pending = planning.pending /\ p.deal = planning.deal /\ p.flight = planning.flight
      /\ p.hotel = planning.hotel /\ p.city = planning.city /\ p.countries = planning.countries
      /\ p.itinerary = written
  BY <1>1 DEF Keys
<1>5. To("commit", p)
  BY <1>2 DEF written
<1> HIDE DEF p
<1>6. Fits(p)
  BY <1>1, <1>4, SameFits DEF Fits, Placed
<1>7. Current(p)
  BY <1>1, <1>2, <1>3, <1>4 DEF Current, Accepted, Required
<1> QED
  BY <1>1, <1>5, <1>6, <1>7, TripEnds

------------------------------------------------------------------------------
(* All steps.                                                                  *)

\* A conversation begins with nothing selected.
LEMMA TripBegins == Init => TripInv
BY NewFits DEF Init, TripInv, Settled

\* Time makes what was searched for stale, and leaves what it was searched for.
LEMMA TripLapses ==
  ASSUME NoneIsNoRecord, IInv, TripInv, Lapse
  PROVE  TripInv'
<1>1. DOMAIN saved = Keys /\ pc' = "idle" /\ published' = published /\ Fits(saved) /\ Current(saved)
  BY DEF Lapse, Between, turn, IInv, Shaped, TripInv
<1>2. ASSUME NEW p, saved' = p, planning' = p, Fits(p), Current(p)
      PROVE  TripInv'
  BY <1>1, <1>2 DEF TripInv, Settled
<1>3. CASE saved.research # None /\ Lapses([saved EXCEPT !.research.fresh = FALSE])
  <2> DEFINE r == [saved.research EXCEPT !.fresh = FALSE]
             p == [saved EXCEPT !.research.fresh = FALSE]
  <2>1. DOMAIN saved.research = ResearchKeys
    BY <1>1, <1>3 DEF Fits, ResearchFits
  <2>2. /\ r # None /\ DOMAIN r = ResearchKeys /\ r.key = saved.research.key
        /\ r.flights = saved.research.flights /\ r.hotels = saved.research.hotels
        /\ r.nearby = saved.research.nearby
    BY <2>1 DEF ResearchKeys, NoneIsNoRecord
  <2>3. /\ p.req = saved.req /\ p.research = r /\ p.deals = saved.deals
        /\ p.pending = saved.pending /\ p.deal = saved.deal /\ p.flight = saved.flight
        /\ p.hotel = saved.hotel /\ p.city = saved.city /\ p.countries = saved.countries
        /\ p.itinerary = saved.itinerary /\ p.phase = saved.phase
    BY <1>1 DEF Keys
  <2>4. saved' = p /\ planning' = p
    BY <1>3 DEF Lapses
  <2> HIDE DEF p, r
  <2>5. ChosenFits(p) /\ DealsFit(p) /\ Counted(p.req) /\ Placed(p)
    BY <1>1, <2>3 DEF Fits, ChosenFits, DealsFit, Placed
  <2>6. ResearchFits(p)
    BY <1>1, <1>3, <2>2, <2>3 DEF Fits, ResearchFits
  <2>7. PendingFits(p)
    BY <1>1, <1>3, <2>2, <2>3 DEF Fits, PendingFits, Options
  <2>8. Fits(p) /\ Current(p)
    BY <1>1, <2>3, <2>5, <2>6, <2>7 DEF Fits, Current
  <2> QED
    BY <1>2, <2>4, <2>8
<1>4. CASE saved.deals # None /\ Lapses([saved EXCEPT !.deals.fresh = FALSE])
  <2> DEFINE d == [saved.deals EXCEPT !.fresh = FALSE]
             p == [saved EXCEPT !.deals.fresh = FALSE]
  <2>1. DOMAIN saved.deals = DealsKeys
    BY <1>1, <1>4 DEF Fits, DealsFit
  <2>2. d # None /\ DOMAIN d = DealsKeys /\ d.options = saved.deals.options
    BY <2>1 DEF DealsKeys, NoneIsNoRecord
  <2>3. /\ p.req = saved.req /\ p.research = saved.research /\ p.deals = d
        /\ p.pending = saved.pending /\ p.deal = saved.deal /\ p.flight = saved.flight
        /\ p.hotel = saved.hotel /\ p.city = saved.city /\ p.countries = saved.countries
        /\ p.itinerary = saved.itinerary /\ p.phase = saved.phase
    BY <1>1 DEF Keys
  <2>4. saved' = p /\ planning' = p
    BY <1>4 DEF Lapses
  <2> HIDE DEF p, d
  <2>5. ChosenFits(p) /\ ResearchFits(p) /\ Counted(p.req) /\ Placed(p)
    BY <1>1, <2>3 DEF Fits, ChosenFits, ResearchFits, Placed
  <2>6. DealsFit(p)
    BY <1>1, <1>4, <2>2, <2>3 DEF Fits, DealsFit
  <2>7. PendingFits(p)
    BY <1>1, <1>4, <2>2, <2>3 DEF Fits, PendingFits
  <2>8. Fits(p) /\ Current(p)
    BY <1>1, <2>3, <2>5, <2>6, <2>7 DEF Fits, Current
  <2> QED
    BY <1>2, <2>4, <2>8
<1> QED
  BY <1>3, <1>4 DEF Lapse

\* Every step of a turn, and what happens between turns, preserves what fits.
LEMMA TripPreserved == NoneIsNoRecord /\ IInv /\ TripInv /\ [Next]_vars => TripInv'
<1> SUFFICES ASSUME NoneIsNoRecord, IInv, TripInv, [Next]_vars
             PROVE  TripInv'
  OBVIOUS
<1>1. CASE NewMessage \/ Retry \/ NextDay \/ UNCHANGED vars
  <2>1. /\ saved' = saved /\ planning' = planning /\ published' = published
        /\ pc' \in {pc, "extract"}
    BY <1>1 DEF NewMessage, Retry, NextDay, Begins, turn, world, vars
  <2> QED
    BY <2>1 DEF TripInv, Settled
<1>2. CASE Edit
  <2>1. /\ saved' = saved /\ planning' = planning /\ pc' = pc
        /\ \E c \in Cities : published' = (published \ {c}) \cup ({c} \ published)
    BY <1>2 DEF Edit, Between, turn
  <2>2. published' \subseteq Cities
    BY <2>1 DEF TripInv
  <2> QED
    BY <2>1, <2>2 DEF TripInv, Settled
<1>3. CASE Step
  <2>1. CASE Fail
    BY <2>1, TripFails DEF Fail
  <2>2. CASE Commit
    <3>1. saved' = planning /\ planning' = planning /\ published' = published /\ pc' = "idle"
      BY <2>2 DEF Commit, Ends, world
    <3> QED
      BY <3>1 DEF TripInv, Settled
  <2>3. ASSUME NEW stage, Repairs(stage)
        PROVE  TripInv'
    BY <2>3 DEF Repairs, Keeps, world, TripInv, Settled
  <2> QED
    BY <1>3, <2>1, <2>2, <2>3, TripReply, TripRetried, TripUnderstands, TripPersists,
       TripResearches, TripDeals, TripStandalone, TripSynthesizes DEF Step
<1> QED
  BY <1>1, <1>2, <1>3, TripLapses DEF Next

\* What is selected and asked fits in every state.
LEMMA TripInvariant ==
  ASSUME NoneIsNoRecord
  PROVE  Spec => []TripInv
<1>1. IInv /\ TripInv /\ [Next]_vars => TripInv'
  BY TripPreserved
<1> QED
  BY <1>1, TripBegins, Invariant, PTL DEF Spec

\* The flight and the hotel that are selected were offered for the trip as it is, and a deal
\* that was taken is its flight (extract, destination_reply and the research workflow give
\* them up whenever they no longer are).
THEOREM SelectionsFit ==
  ASSUME NoneIsNoRecord
  PROVE  Spec => []SelectionFitsTrip
<1>1. TripInv => SelectionFitsTrip
  BY DEF TripInv, Fits, ChosenFits, FlightFits, HotelFits, SelectionFitsTrip
<1> QED
  BY <1>1, TripInvariant, PTL

\* A question that is pending is about options that are still stored, so that match_selection
\* understands the reply.
THEOREM PendingAnswerable ==
  ASSUME NoneIsNoRecord
  PROVE  Spec => []PendingIsAnswerable
<1>1. TripInv => PendingIsAnswerable
  BY DEF TripInv, Fits, PendingFits, PendingIsAnswerable
<1> QED
  BY <1>1, TripInvariant, PTL

\* An itinerary that counts as generated is that of the saved requirements and shows the
\* flight and the hotel that are selected.
THEOREM ItinerariesCurrent ==
  ASSUME NoneIsNoRecord
  PROVE  Spec => []GeneratedIsCurrent
<1>1. TripInv => GeneratedIsCurrent
  BY DEF TripInv, Current, GeneratedIsCurrent
<1> QED
  BY <1>1, TripInvariant, PTL

------------------------------------------------------------------------------
(* The dialogue about a trip, for every set of updates, every calendar and     *)
(* every day.  The inductive invariant says that the requirements are valid    *)
(* and that what the rules calculate with are numbers and sequences; the rest  *)
(* is the comparison of the validators.                                        *)

\* The answers that are known are answers, and together they are valid.
Known(r) == \A f \in Fields : r[f] = None \/ IsAnswer(f, r[f])

DialogueInv ==
    /\ date \in Int
    /\ Known(requirements)
    /\ requirements.interests # None
    /\ Valid(requirements)

\* Interests are never among the answers that an update outdates.
LEMMA InterestsStay == ASSUME NEW r, NEW u PROVE "interests" \notin Outdated(r, u)
  BY DEF Outdated, OutdatedDates, OutdatedParty

LEMMA DialogueBegins == DialogueInit => DialogueInv
<1> SUFFICES ASSUME DialogueInit PROVE DialogueInv
  OBVIOUS
<1>1. date \in Int
  BY DialogueAssumption, DateAssumption DEF DialogueInit
<1>2. \A f \in Fields : requirements[f] = IF f = "interests" THEN {} ELSE None
  BY DEF DialogueInit, Unknown
<1>3. Known(requirements)
  BY <1>2 DEF Known, IsAnswer
<1>4. requirements.interests # None
  BY <1>2, AnswerAssumption DEF Fields
<1>5. Valid(requirements)
  <2>1. requirements.interests = {}
    BY <1>2 DEF Fields
  <2>2. Cardinality(requirements.interests) <= MaxInterests
    BY <2>1, FS_EmptySet DEF MaxInterests
  <2> QED
    BY <1>2, <2>2 DEF Fields, Valid, ValidDates, ResolvedEnd, ValidWindow, ValidParty
<1> QED
  BY <1>1, <1>3, <1>4, <1>5 DEF DialogueInv

LEMMA DialogueGoesOn == DialogueInv /\ [DialogueNext]_dialogue => DialogueInv'
<1> SUFFICES ASSUME DialogueInv, [DialogueNext]_dialogue PROVE DialogueInv'
  OBVIOUS
<1>1. CASE DayPasses
  BY <1>1 DEF DayPasses, DialogueInv
<1>2. ASSUME NEW u \in Revisions, Say(u) PROVE DialogueInv'
  <2> DEFINE merged == MergeRequirements(requirements, u)
  <2>1. merged # Invalid /\ requirements' = merged /\ date' = date
    BY <1>2 DEF Say
  <2> HIDE DEF merged
  <2>2. /\ Valid(merged)
        /\ \A f \in Fields :
             merged[f] = IF f \in Outdated(requirements, u) THEN None
                         ELSE IF f = "interests" /\ (IF f \in DOMAIN u THEN u[f] ELSE requirements[f]) = None
                         THEN {}
                         ELSE IF f \in DOMAIN u THEN u[f] ELSE requirements[f]
    BY <2>1, MergeSucceeds DEF merged
  <2>3. Known(merged)
    <3> SUFFICES ASSUME NEW f \in Fields PROVE merged[f] = None \/ IsAnswer(f, merged[f])
      BY DEF Known
    <3>1. CASE f = "interests"
      BY <3>1 DEF IsAnswer
    <3>2. CASE f # "interests"
      BY <3>2, <2>2, AnswerAssumption DEF DialogueInv, Known
    <3> QED BY <3>1, <3>2
  <2>4. merged.interests # None
    BY <2>2, InterestsStay, AnswerAssumption DEF Fields
  <2> QED
    BY <2>1, <2>2, <2>3, <2>4 DEF DialogueInv
<1>3. CASE UNCHANGED dialogue
  BY <1>3 DEF dialogue, DialogueInv
<1> QED
  BY <1>1, <1>2, <1>3 DEF DialogueNext

LEMMA DialogueInvariant == DialogueSpec => []DialogueInv
  BY DialogueBegins, DialogueGoesOn, PTL DEF DialogueSpec

------------------------------------------------------------------------------
(* No answer is lost.                                                        *)

\* What a message says it does not outdate.
LEMMA SaidIsKept ==
  ASSUME NEW r, NEW u, ~Contradictory(u), NEW f \in DOMAIN u, u[f] # None
  PROVE  f \notin Outdated(r, u)
<1>1. f \notin OutdatedDates(r, u)
  BY DEF OutdatedDates, Contradictory, Says
<1>2. f \notin OutdatedParty(r, u)
  BY DEF OutdatedParty
<1> QED
  BY <1>1, <1>2 DEF Outdated

\* An answer is outdated only when one on which it depends is given.
LEMMA OutdatedDepends ==
  ASSUME NEW r, NEW u, NEW f \in Outdated(r, u), f \notin DOMAIN u
  PROVE  DependsOn(f) \cap DOMAIN u # {}
<1>1. CASE f \in OutdatedDates(r, u)
  BY <1>1 DEF OutdatedDates, Says, DependsOn
<1>2. CASE f \in OutdatedParty(r, u)
  BY <1>2 DEF OutdatedParty, DependsOn
<1>3. CASE f \in Outdated(r, u) \ (OutdatedDates(r, u) \cup OutdatedParty(r, u))
  BY <1>3 DEF Outdated, DependsOn
<1> QED
  BY <1>1, <1>2, <1>3

\* merge_requirements never loses an answer that still holds, whatever was said before.
THEOREM NoAnswerLost == DialogueSpec => []AnswersKept
<1>1. DialogueInv => AnswersKept
  <2> SUFFICES ASSUME DialogueInv, NEW u \in Revisions,
                      MergeRequirements(requirements, u) # Invalid
               PROVE  /\ \A f \in DOMAIN u : u[f] # None =>
                             MergeRequirements(requirements, u)[f] = u[f]
                      /\ \A f \in Fields \ DOMAIN u :
                             MergeRequirements(requirements, u)[f] # requirements[f] =>
                               DependsOn(f) \cap DOMAIN u # {}
    BY DEF AnswersKept
  <2> DEFINE merged == MergeRequirements(requirements, u)
  <2>1. /\ DOMAIN u \subseteq Fields /\ ~Contradictory(u)
        /\ \A f \in Fields :
              merged[f] = IF f \in Outdated(requirements, u) THEN None
                          ELSE IF f = "interests" /\ (IF f \in DOMAIN u THEN u[f] ELSE requirements[f]) = None
                          THEN {}
                          ELSE IF f \in DOMAIN u THEN u[f] ELSE requirements[f]
    BY MergeSucceeds
  <2> HIDE DEF merged
  <2>2. ASSUME NEW f \in DOMAIN u, u[f] # None PROVE merged[f] = u[f]
    BY <2>1, <2>2, SaidIsKept
  <2>3. ASSUME NEW f \in Fields \ DOMAIN u, merged[f] # requirements[f]
        PROVE  DependsOn(f) \cap DOMAIN u # {}
    <3>1. f \in Outdated(requirements, u)
      BY <2>1, <2>3 DEF DialogueInv
    <3> QED
      BY <3>1, OutdatedDepends
  <2> QED
    BY <2>2, <2>3 DEF merged
<1> QED
  BY <1>1, DialogueInvariant, PTL

------------------------------------------------------------------------------
(* A trip of a known length is moved by its start.                           *)

\* The outcome of a constructor that raises is no object that it constructs.
InvalidIsNoRecord == \A f : f = [x \in DOMAIN f |-> f[x]] => f # Invalid

\* Requirements stay valid when their start moves within the calendar and their length stays.
LEMMA MovedIsValid ==
  ASSUME NEW r, NEW m, Known(r), Valid(r), NEW day \in Int, r.duration_days # None,
         day + r.duration_days - 1 <= LastDate,
         m.start_date = day, m.end_date = None, m.date_window_start = None, m.date_window_end = None,
         \A f \in Fields \ {"start_date", "end_date", "date_window_start", "date_window_end"} : m[f] = r[f]
  PROVE  Valid(m) /\ ResolvedEnd(m) = day + r.duration_days - 1
<1>1. /\ m.duration_days = r.duration_days /\ m.adults = r.adults /\ m.minor_count = r.minor_count
      /\ m.rooms = r.rooms /\ m.minor_ages = r.minor_ages /\ m.infant_on_lap = r.infant_on_lap
      /\ m.origin = r.origin /\ m.destination = r.destination /\ m.needs_lodging = r.needs_lodging
      /\ m.budget_decision = r.budget_decision /\ m.total_budget = r.total_budget
      /\ m.interests = r.interests
  BY DEF Fields
<1>2. r.duration_days \in Int /\ r.duration_days >= 2
  BY DEF Known, IsAnswer, Fields, Valid
<1>3. ResolvedEnd(m) = day + r.duration_days - 1
  BY <1>1, AnswerAssumption DEF ResolvedEnd
<1>4. ValidDates(m)
  BY <1>2, <1>3, DateAssumption DEF ValidDates
<1>5. ValidWindow(m)
  BY DEF ValidWindow
<1>6. ValidParty(m)
  BY <1>1, Zenon DEF Valid, ValidParty
<1>7. Valid(m)
  BY <1>1, <1>4, <1>5, <1>6, Zenon DEF Valid
<1> QED
  BY <1>3, <1>7

\* A new start date alone moves a trip of a known length: the merge takes the start, forgets
\* the old end, and does not raise.
THEOREM StartAloneMoves ==
  ASSUME InvalidIsNoRecord
  PROVE  DialogueSpec => []StartMoves
<1>1. DialogueInv => StartMoves
  <2> SUFFICES ASSUME DialogueInv, NEW u \in Revisions, DOMAIN u = {"start_date"}, u.start_date # None,
                      requirements.duration_days # None,
                      u.start_date + requirements.duration_days - 1 <= LastDate
               PROVE  LET merged == MergeRequirements(requirements, u) IN
                      /\ merged # Invalid
                      /\ ResolvedEnd(merged) = u.start_date + requirements.duration_days - 1
    BY DEF StartMoves
  <2> DEFINE r == requirements
             m == [f \in Fields |->
                     IF f \in Outdated(r, u) THEN None
                     ELSE IF f = "interests" /\ (IF f \in DOMAIN u THEN u[f] ELSE r[f]) = None THEN {}
                     ELSE IF f \in DOMAIN u THEN u[f] ELSE r[f]]
  <2>1. Outdated(r, u) = {"date_window_start", "date_window_end", "end_date"}
    BY DEF Outdated, OutdatedDates, OutdatedParty, Says
  <2>2. u.start_date \in Int
    BY AnswerAssumption DEF IsAnswer
  <2>3. /\ m.start_date = u.start_date /\ m.end_date = None
        /\ m.date_window_start = None /\ m.date_window_end = None
        /\ \A f \in Fields \ {"start_date", "end_date", "date_window_start", "date_window_end"} : m[f] = r[f]
    BY <2>1 DEF Fields, DialogueInv
  <2>4. m # Invalid
    BY DEF InvalidIsNoRecord
  <2>5. DOMAIN u \subseteq Fields /\ ~Contradictory(u)
    BY DEF Fields, Contradictory, Says
  <2>6. MergeRequirements(r, u) =
          IF DOMAIN u \subseteq Fields /\ ~Contradictory(u) /\ Valid(m) THEN m ELSE Invalid
    BY Zenon DEF MergeRequirements
  <2> HIDE DEF m
  <2>7. Valid(m) /\ ResolvedEnd(m) = u.start_date + r.duration_days - 1
    BY <2>2, <2>3, MovedIsValid DEF DialogueInv
  <2> QED
    BY <2>4, <2>5, <2>6, <2>7
<1> QED
  BY <1>1, DialogueInvariant, PTL

------------------------------------------------------------------------------
(* Complete requirements build the searches.                                 *)

\* Of a party whose answers are known, the policy asks for nothing only when all of them
\* are there.
LEMMA CompleteRequirements ==
  ASSUME NEW r, NEW day \in Int, NEW tier, Known(r), MissingFields(r, day, tier) = {}
  PROVE  /\ r.destination # None /\ r.adults # None /\ r.minor_count # None
         /\ r.needs_lodging \in BOOLEAN /\ (r.needs_lodging = TRUE => r.rooms # None)
         /\ r.transport = "flight" => r.origin # None
         /\ r.date_window_start = None =>
              r.start_date \in Int /\ r.start_date >= day /\ ResolvedEnd(r) # None
         /\ r.date_window_start # None =>
              /\ r.date_window_start \in Int /\ r.date_window_start >= day
              /\ r.date_window_end # None
<1>1. MissingParty(r) = {} /\ MissingRoute(r) = {} /\ MissingDates(r, day) = {}
  BY DEF MissingFields, MissingTransport
<1>2. /\ r.destination # None /\ r.adults # None /\ r.minor_count # None
      /\ r.needs_lodging # None /\ (r.needs_lodging = TRUE => r.rooms # None)
  BY <1>1 DEF MissingParty
<1>3. r.transport = "flight" => r.origin # None
  BY <1>1 DEF MissingRoute
<1>4. /\ r.date_window_start = None =>
           r.start_date # None /\ ~(r.start_date < day) /\ ResolvedEnd(r) # None
      /\ r.date_window_start # None =>
           ~(r.date_window_start < day) /\ r.date_window_end # None
  BY <1>1 DEF MissingDates
<1>5. /\ r.adults = None \/ r.adults \in Int
      /\ r.rooms = None \/ r.rooms \in Int
      /\ r.start_date = None \/ r.start_date \in Int
      /\ r.date_window_start = None \/ r.date_window_start \in Int
      /\ r.needs_lodging = None \/ r.needs_lodging \in BOOLEAN
  BY DEF Known, IsAnswer, Fields
<1> QED
  BY <1>2, <1>3, <1>4, <1>5

\* The party of a trip request is the party of the requirements.
LEMMA PartyFits ==
  ASSUME NEW r, Known(r), ValidParty(r), r.adults \in 1 .. MaxTravelers,
         r.adults # None, r.minor_count # None
  PROVE  LET q == ToTripRequest(r) IN
         /\ q.children \in Int /\ q.seated \in Int /\ q.laps \in Nat
         /\ q.laps <= r.adults /\ Travelers(q) <= MaxTravelers
<1> DEFINE q == ToTripRequest(r)
           ages == IF r.minor_ages = None THEN <<>> ELSE r.minor_ages
           laps == IF r.infant_on_lap = None THEN 0 ELSE Laps(r.infant_on_lap)
<1>1. ages \in Seq(Nat)
  BY DEF Known, IsAnswer, Fields
<1>2. laps \in Nat /\ laps <= r.adults
  <2>1. r.infant_on_lap # None => r.infant_on_lap \in Seq(BOOLEAN) /\ Laps(r.infant_on_lap) <= r.adults
    BY DEF Known, IsAnswer, Fields, ValidParty, MaxTravelers
  <2>2. r.infant_on_lap # None => Laps(r.infant_on_lap) \in Nat
    BY <2>1, LapsCounted, Zenon
  <2>3. r.adults \in Int /\ r.adults >= 0
    BY DEF MaxTravelers
  <2>4. CASE r.infant_on_lap = None
    BY <2>3, <2>4
  <2>5. CASE r.infant_on_lap # None
    <3>1. laps = Laps(r.infant_on_lap)
      BY <2>5
    <3> HIDE DEF laps
    <3> QED
      BY <2>1, <2>2, <2>5, <3>1
  <2> QED
    BY <2>4, <2>5
<1>3. r.adults + Len(ages) <= MaxTravelers
  <2>1. CASE r.minor_ages = None
    BY <2>1 DEF MaxTravelers
  <2>2. CASE r.minor_ages # None
    <3>1. r.minor_count = Len(r.minor_ages) /\ r.adults + r.minor_count <= MaxTravelers
      BY <2>2 DEF ValidParty, MaxTravelers
    <3> QED
      BY <2>2, <3>1
  <2> QED BY <2>1, <2>2
<1>4. /\ q.adults = r.adults /\ q.children = Len(ages) - Infants(ages)
      /\ q.seated = Infants(ages) - laps /\ q.laps = laps
  BY DEF ToTripRequest
<1> HIDE DEF q, ages, laps
<1>5. Infants(ages) \in Nat
  BY <1>1, InfantsCounted, Zenon
<1>6. Len(ages) \in Int /\ r.adults \in Int
  <2>1. \A s \in Seq(Nat) : Len(s) \in Int
    OBVIOUS
  <2>2. r.adults \in Int
    BY DEF MaxTravelers
  <2> QED
    BY <1>1, <2>1, <2>2, Zenon
<1>7. Travelers(q) = r.adults + Len(ages)
  <2>1. Travelers(q) = r.adults + (Len(ages) - Infants(ages)) + (Infants(ages) - laps) + laps
    BY <1>4, Zenon DEF Travelers
  <2>2. \A a, l, i, s \in Int : a + (l - i) + (i - s) + s = a + l
    OBVIOUS
  <2>3. Infants(ages) \in Int /\ laps \in Int
    BY <1>2, <1>5
  <2> QED
    BY <1>6, <2>1, <2>2, <2>3
<1> QED
  BY <1>2, <1>3, <1>4, <1>5, <1>6, <1>7 DEF q

\* When the policy asks for nothing more of valid requirements, the requests that they become
\* pass their own validators and begin today or later.
LEMMA CompleteBuilds ==
  ASSUME None \notin Int, NEW r, NEW day \in Int, NEW tier, Known(r), Valid(r),
         MissingFields(r, day, tier) = {}
  PROVE  LET q == ToTripRequest(r)  d == ToDealRequest(r) IN
         /\ r.date_window_start = None =>
              /\ BuildsTrip(q) /\ q.start >= day /\ q.start \in Int /\ q.end \in Int
              /\ q.end - q.start < MaxNights => BuildsHotelSearch(q)
              /\ r.transport = "flight" => BuildsFlightSearch(q)
         /\ r.date_window_start # None =>
              /\ d.start >= day
              /\ r.transport = "flight" /\ Travelers(d) <= MaxDealTravelers => BuildsDealSearch(d)
<1> DEFINE q == ToTripRequest(r)
           d == ToDealRequest(r)
<1>1. /\ ValidDates(r) /\ ValidWindow(r) /\ ValidParty(r)
      /\ r.adults # None => r.adults \in 1 .. MaxTravelers
      /\ r.rooms # None => r.rooms \in 1 .. MaxTravelers
      /\ r.origin # None => r.origin # r.destination
      /\ r.needs_lodging = TRUE /\ r.adults # None /\ r.rooms # None => r.rooms <= r.adults
  BY Zenon DEF Valid
<1>2. /\ r.destination # None /\ r.adults # None /\ r.minor_count # None
      /\ r.needs_lodging \in BOOLEAN /\ (r.needs_lodging = TRUE => r.rooms # None)
      /\ r.transport = "flight" => r.origin # None
      /\ r.date_window_start = None =>
           r.start_date \in Int /\ r.start_date >= day /\ ResolvedEnd(r) # None
      /\ r.date_window_start # None =>
           /\ r.date_window_start \in Int /\ r.date_window_start >= day
           /\ r.date_window_end # None
  BY CompleteRequirements
<1>3. /\ r.adults \in 1 .. MaxTravelers
      /\ q.children \in Int /\ q.seated \in Int /\ q.laps \in Nat
      /\ q.laps <= r.adults /\ Travelers(q) <= MaxTravelers
  BY <1>1, <1>2, PartyFits
<1>4. /\ q.origin = r.origin /\ q.destination = r.destination /\ q.adults = r.adults
      /\ q.start = r.start_date /\ q.end = ResolvedEnd(r)
      /\ q.rooms = IF r.needs_lodging = TRUE THEN r.rooms ELSE 1
  BY DEF ToTripRequest
<1>5. /\ d.origin = r.origin /\ d.destination = r.destination /\ d.adults = r.adults
      /\ d.start = r.date_window_start /\ d.end = r.date_window_end /\ d.laps = q.laps
  BY DEF ToDealRequest
<1> HIDE DEF q, d
<1>6. q.rooms # None /\ q.rooms \in Int /\ q.rooms <= r.adults
  BY <1>1, <1>2, <1>3, <1>4 DEF MaxTravelers
<1>7. q.origin # q.destination
  BY <1>1, <1>2, <1>4
<1>8. ASSUME r.date_window_start = None
      PROVE  /\ BuildsTrip(q) /\ q.start >= day /\ q.start \in Int /\ q.end \in Int
             /\ q.end - q.start < MaxNights => BuildsHotelSearch(q)
             /\ r.transport = "flight" => BuildsFlightSearch(q)
  <2>1. ResolvedEnd(r) \in Int /\ ResolvedEnd(r) > r.start_date
    <3>1. /\ r.end_date = None \/ r.end_date \in Int
          /\ r.duration_days = None \/ r.duration_days \in Int
      BY DEF Known, IsAnswer, Fields
    <3>2. ResolvedEnd(r) \in Int
      BY <1>2, <1>8, <3>1 DEF ResolvedEnd
    <3> QED
      BY <1>1, <1>2, <1>8, <3>2 DEF ValidDates
  <2>2. BuildsTrip(q)
    BY <1>2, <1>3, <1>4, <1>6, <1>7, <1>8, <2>1 DEF BuildsTrip
  <2>3. q.end - q.start < MaxNights => BuildsHotelSearch(q)
    BY <1>2, <1>4, <1>6, <1>8, <2>1 DEF BuildsHotelSearch, MaxNights
  <2>4. r.transport = "flight" => BuildsFlightSearch(q)
    BY <1>2, <1>3, <1>4, <1>7 DEF BuildsFlightSearch
  <2> QED
    BY <1>2, <1>4, <1>8, <2>1, <2>2, <2>3, <2>4
<1>9. ASSUME r.date_window_start # None
      PROVE  /\ d.start >= day
             /\ r.transport = "flight" /\ Travelers(d) <= MaxDealTravelers => BuildsDealSearch(d)
  <2>1. Days(r.date_window_start, r.date_window_end) \in 1 .. MaxWindow
    BY <1>1, <1>2, <1>9 DEF ValidWindow, MaxWindow
  <2> QED
    BY <1>1, <1>2, <1>3, <1>5, <1>9, <2>1 DEF BuildsDealSearch
<1> QED
  BY <1>8, <1>9 DEF q, d

\* When the policy asks for nothing more, the trip, hotel, flight and deal requests that
\* the requirements become pass their own validators.
THEOREM CompleteSearches == DialogueSpec => []CompleteIsSearchable
<1>1. ASSUME DialogueInv, MissingFields(requirements, date, HasTier) = {}
      PROVE  LET q == ToTripRequest(requirements)  d == ToDealRequest(requirements) IN
             /\ requirements.date_window_start = None =>
                  /\ BuildsTrip(q) /\ q.start >= date
                  /\ q.end - q.start < MaxNights => BuildsHotelSearch(q)
                  /\ requirements.transport = "flight" => BuildsFlightSearch(q)
             /\ requirements.date_window_start # None =>
                  (requirements.transport = "flight" /\ Travelers(d) <= MaxDealTravelers
                     => BuildsDealSearch(d))
  BY <1>1, CompleteBuilds, AnswerAssumption DEF DialogueInv
<1>2. DialogueInv => CompleteIsSearchable
  BY <1>1 DEF CompleteIsSearchable
<1> QED
  BY <1>2, DialogueInvariant, PTL

------------------------------------------------------------------------------
(* The same of the planning graph, where a turn reaches a search by whichever  *)
(* way its requirements were understood.                                       *)

\* Answers that the rules calculate with are all the answers of which they ask what they are.
LEMMA CountedIsKnown == ASSUME NEW r, Counted(r) PROVE Known(r) /\ Valid(r)
BY DEF Counted, CountedFields, Known, IsAnswer

\* A turn that searches has requests that pass the validators of the searches and begin on the
\* day on which the turn was routed or later, however its requirements came about and however
\* many days pass in the turn: TripResearchService and DealDiscoveryService are called outside
\* the handling of contradictions, and read the clock again.
THEOREM SearchesBuilt ==
  ASSUME NoneIsNoRecord
  PROVE  Spec => []SearchesAreBuilt
<1>1. IInv /\ TripInv => SearchesAreBuilt
  <2> SUFFICES ASSUME IInv, TripInv, pc \in {"research", "deals"}
               PROVE  SearchesAreBuilt
    BY DEF SearchesAreBuilt
  <2> DEFINE r == planning.req
             q == ToTripRequest(r)
             d == ToDealRequest(r)
  <2>1. /\ Missing(planning, routed) = {} /\ pc = RouteOf(planning, routed) /\ routed \in Int
        /\ Known(r) /\ Valid(r) /\ None \notin Int
    BY CountedIsKnown, PlanningAssumption
       DEF IInv, SearchesWhatIsSaved, Routed, OnDays, TripInv, Fits, Missing
  <2>2. /\ r.date_window_start = None =>
             /\ BuildsTrip(q) /\ q.start >= routed /\ q.start \in Int /\ q.end \in Int
             /\ q.end - q.start < MaxNights => BuildsHotelSearch(q)
             /\ r.transport = "flight" => BuildsFlightSearch(q)
        /\ r.date_window_start # None =>
             /\ d.start >= routed
             /\ r.transport = "flight" /\ Travelers(d) <= MaxDealTravelers => BuildsDealSearch(d)
    BY <2>1, CompleteBuilds DEF Missing
  <2>3. q.start = r.start_date /\ q.end = ResolvedEnd(r)
    BY DEF ToTripRequest
  <2> HIDE DEF q, d
  <2>4. CASE pc = "research"
    <3>1. r.date_window_start = None /\ ~(Days(r.start_date, ResolvedEnd(r)) > MaxPlanningDays)
      BY <2>1, <2>4 DEF RouteOf
    <3>2. q.end - q.start < MaxNights
      BY <2>2, <2>3, <3>1 DEF Days, MaxPlanningDays, MaxNights
    <3> QED
      BY <2>2, <2>4, <3>1, <3>2 DEF SearchesAreBuilt, q
  <2>5. CASE pc = "deals"
    <3>1. r.date_window_start # None /\ r.transport = "flight"
      BY <2>1, <2>5 DEF RouteOf
    <3> QED
      BY <2>2, <2>5, <3>1 DEF SearchesAreBuilt, d
  <2> QED
    BY <2>4, <2>5
<1> QED
  BY <1>1, Invariant, TripInvariant, PTL
==============================================================================
