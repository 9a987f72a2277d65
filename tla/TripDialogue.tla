----------------------------- MODULE TripDialogue -----------------------------
(* Trip requirements as a conversation collects them: every message that      *)
(* revises the trip is merged into what is known and refused when the two     *)
(* contradict, and days pass between messages.                                *)
EXTENDS TripRequirements

CONSTANTS
    Revisions,      \* the updates that may be extracted from a message
    FirstDate,      \* the day on which the conversation begins
    HasTier         \* whether the profile of the user has a budget tier

ASSUME DialogueAssumption ==
    /\ FirstDate \in 0 .. LastDate /\ HasTier \in BOOLEAN
    /\ \A u \in Revisions : DOMAIN u \subseteq Fields

ASSUME AnswerAssumption ==
    /\ None \notin Int /\ None # {}
    /\ \A u \in Revisions : \A f \in DOMAIN u : u[f] = None \/ IsAnswer(f, u[f])

VARIABLES
    requirements,   \* TripRequirements of the planning state
    date            \* utc_now().date()

dialogue == <<requirements, date>>

DialogueInit == requirements = Unknown /\ date = FirstDate

\* merge_requirements; on a conflict the reply asks for a correction and nothing changes.
Say(u) ==
    LET merged == MergeRequirements(requirements, u) IN
    /\ merged # Invalid
    /\ requirements' = merged
    /\ UNCHANGED date

DayPasses == date < LastDate /\ date' = date + 1 /\ UNCHANGED requirements

DialogueNext == DayPasses \/ \E u \in Revisions : Say(u)
DialogueSpec == DialogueInit /\ [][DialogueNext]_dialogue

------------------------------------------------------------------------------
\* The answers on which an answer depends: when one of them is given, it may be forgotten.
DependsOn(f) ==
    CASE f = "end_date" -> {"start_date", "duration_days", "date_window_start", "date_window_end"}
      [] f = "duration_days" -> {"end_date"}
      [] f = "start_date" -> {"date_window_start", "date_window_end"}
      [] f \in {"date_window_start", "date_window_end"} -> {"start_date", "end_date"}
      [] f = "minor_ages" -> {"minor_count"}
      [] f = "infant_on_lap" -> {"minor_count", "minor_ages"}
      [] f = "rooms" -> {"needs_lodging"}
      [] f \in {"total_budget", "budget_currency"} -> {"budget_decision"}
      [] OTHER -> {}

\* A message never loses an answer: what it says is what is stored, and what it does not
\* name stays, unless an answer on which that one depends is given anew.
AnswersKept ==
    \A u \in Revisions :
        LET merged == MergeRequirements(requirements, u) IN
        merged # Invalid =>
            /\ \A f \in DOMAIN u : u[f] # None => merged[f] = u[f]
            /\ \A f \in Fields \ DOMAIN u :
                 merged[f] # requirements[f] => DependsOn(f) \cap DOMAIN u # {}

\* A trip of a known length can be moved by its start alone: the answer is accepted and the
\* end moves along, instead of being refused as a contradiction of the old end.
StartMoves ==
    \A u \in Revisions :
        DOMAIN u = {"start_date"} /\ u.start_date # None /\ requirements.duration_days # None =>
            LET merged == MergeRequirements(requirements, u)
                end == u.start_date + requirements.duration_days - 1 IN
            end <= LastDate => merged # Invalid /\ ResolvedEnd(merged) = end

\* When nothing is left to ask, the searches can be made: the trip request with its party
\* and rooms is built for exact dates, and with it the hotel and the flight search; for a
\* window, the deal search of a party that it supports.  The validators of those requests
\* are others than those of the requirements, and a refusal would fail every turn.
CompleteIsSearchable ==
    MissingFields(requirements, date, HasTier) = {} =>
        LET q == ToTripRequest(requirements)
            d == ToDealRequest(requirements) IN
        IF requirements.date_window_start = None
        THEN /\ BuildsTrip(q) /\ q.start >= date
             /\ q.end - q.start < MaxNights => BuildsHotelSearch(q)
             /\ requirements.transport = "flight" => BuildsFlightSearch(q)
        ELSE requirements.transport = "flight" /\ Travelers(d) <= MaxDealTravelers
               => BuildsDealSearch(d)
==============================================================================
