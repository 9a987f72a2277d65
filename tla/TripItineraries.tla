--------------------------- MODULE TripItineraries ---------------------------
(* One trip and its versioned itineraries: TripService, ItineraryService and *)
(* ItineraryRepository.  Every writer locks the trip's row and commits its   *)
(* transaction before it lets go, so what a transaction does from the lock   *)
(* to the commit is one step.  What a request reads BEFORE the row is locked *)
(* is a step of its own: the message lookup of create_generated_draft, and   *)
(* the itinerary row of save_itinerary.  The latter comes from a SELECT that *)
(* joins itineraries with trips FOR UPDATE OF trips: PostgreSQL evaluates it *)
(* on the snapshot of the statement, then waits for the trip alone.          *)
EXTENDS Naturals, FiniteSets

CONSTANTS
    Requests,     \* concurrent API calls and generations on this trip
    Messages,     \* user messages a generated draft may come from
    None,         \* SQL NULL
    MaxVersions,  \* bound: itinerary versions of the trip
    MaxDays       \* bound: calendar days of the trip

ASSUME NoneAssumption == None \notin Messages
ASSUME BoundAssumption == MaxVersions \in Nat /\ MaxDays \in Nat /\ MaxDays >= 2

VARIABLES
    trip,      \* the trips row: exists, calendar days, status
    versions,  \* the itineraries rows by version; days is the last day of their items
    live,      \* messages that have not been deleted
    pc,        \* where each request is
    target,    \* the version a request saves
    source,    \* the message a request generates a draft for
    seen       \* the status its snapshot showed

requests == <<pc, target, source, seen>>
vars == <<trip, versions, live, requests>>

Existing == DOMAIN versions
Days == 2 .. MaxDays
Statuses == {"draft", "saved", "superseded"}
Rows == [status : Statuses, source : Messages \cup {None}, days : 1 .. MaxDays]

TypeOK ==
    /\ trip \in [exists : BOOLEAN, days : Days, status : {"draft", "planned", "archived"}]
    /\ \E n \in 0 .. MaxVersions : versions \in [1 .. n -> Rows]
    /\ live \subseteq Messages
    /\ pc \in [Requests -> {"idle", "saving", "generating"}]
    /\ target \in [Requests -> 0 .. MaxVersions]
    /\ source \in [Requests -> Messages \cup {None}]
    /\ seen \in [Requests -> Statuses]

Init ==
    /\ trip \in [exists : {TRUE}, days : Days, status : {"draft"}]
    /\ versions = <<>>
    /\ live = Messages
    /\ pc = [r \in Requests |-> "idle"]
    /\ target = [r \in Requests |-> 0]
    /\ source = [r \in Requests |-> None]
    /\ seen = [r \in Requests |-> "draft"]

------------------------------------------------------------------------------
(* TripService.                                                              *)

\* validate_trip_dates: end_date is after start_date.
ValidDates(days) == days \in Days

UpdateTrip ==
    /\ trip.exists
    /\ \E days \in 0 .. MaxDays :
         /\ ValidDates(days)
         /\ trip' = [trip EXCEPT !.days = days]
    /\ UNCHANGED <<versions, live, requests>>

\* _transition_status; reaching the status a trip has already is no error.
Transition(status, allowed) ==
    /\ trip.exists
    /\ trip.status \in allowed \cup {status}
    /\ trip' = [trip EXCEPT !.status = status]
    /\ UNCHANGED <<versions, live, requests>>

MarkTripPlanned == Transition("planned", {"draft"})
ArchiveTrip == Transition("archived", {"draft", "planned"})

\* The itineraries go with the trip (ON DELETE CASCADE).
DeleteTrip ==
    /\ trip.exists
    /\ trip' = [trip EXCEPT !.exists = FALSE]
    /\ versions' = <<>>
    /\ UNCHANGED <<live, requests>>

------------------------------------------------------------------------------
(* Drafts.                                                                   *)

\* _create_for_locked_trip: the next version, refused when an item falls outside the trip.
Draft(days, message) ==
    LET v == Cardinality(Existing) + 1 IN
    /\ trip.exists
    /\ v <= MaxVersions
    /\ days <= trip.days
    /\ versions' = [k \in Existing \cup {v} |->
         IF k = v THEN [status |-> "draft", source |-> message, days |-> days]
                  ELSE versions[k]]

\* A draft the user writes; create_draft refuses one without items.
CreateDraft ==
    /\ \E days \in 1 .. MaxDays : Draft(days, None)
    /\ UNCHANGED <<trip, live, requests>>

DraftFor(message) == {v \in Existing : versions[v].source = message}

Finish(r) ==
    /\ pc' = [pc EXCEPT ![r] = "idle"]
    /\ target' = [target EXCEPT ![r] = 0]
    /\ source' = [source EXCEPT ![r] = None]
    /\ seen' = [seen EXCEPT ![r] = "draft"]

\* create_generated_draft looks for the message's draft before it locks the trip; when
\* there is one it returns that and changes nothing.
FindGeneratedDraft(r, message) ==
    /\ pc[r] = "idle"
    /\ message \in live
    /\ DraftFor(message) = {}
    /\ pc' = [pc EXCEPT ![r] = "generating"]
    /\ source' = [source EXCEPT ![r] = message]
    /\ UNCHANGED <<trip, versions, live, target, seen>>

\* Variant: the second lookup, under the lock, is dropped.
Mutant_LooksOnce(message) == TRUE

StillWithoutDraft(message) == DraftFor(message) = {}

CreateGeneratedDraft(r) ==
    /\ pc[r] = "generating"
    /\ source[r] \in live
    /\ StillWithoutDraft(source[r])
    /\ \E days \in 1 .. MaxDays : Draft(days, source[r])
    /\ Finish(r)
    /\ UNCHANGED <<trip, live>>

\* The draft exists by now, the trip or the message is gone, an item falls outside the
\* trip, or the transaction the draft is part of rolls back.
AbandonGeneratedDraft(r) ==
    /\ pc[r] = "generating"
    /\ Finish(r)
    /\ UNCHANGED <<trip, versions, live>>

\* A message goes with its conversation; its draft stays (ON DELETE SET NULL).
DeleteMessage(message) ==
    /\ message \in live
    /\ live' = live \ {message}
    /\ versions' = [v \in Existing |-> [versions[v] EXCEPT !.source = IF @ = message THEN None
                                                                                    ELSE @]]
    /\ UNCHANGED <<trip, requests>>

------------------------------------------------------------------------------
(* Saving a version.                                                         *)

\* get_for_user_with_trip_lock: the statement's snapshot shows the row.
ReadForSave(r, v) ==
    /\ pc[r] = "idle"
    /\ v \in Existing
    /\ pc' = [pc EXCEPT ![r] = "saving"]
    /\ target' = [target EXCEPT ![r] = v]
    /\ seen' = [seen EXCEPT ![r] = versions[v].status]
    /\ UNCHANGED <<trip, versions, live, source>>

SeenDraft(r) == seen[r] = "draft"

\* Variant: only the versions before the saved one are superseded.
Mutant_SupersedesOlder(v, k) == k < v /\ versions[k].status = "saved"

\* The predicate of the UPDATE that supersedes.
Superseded(v, k) == k # v /\ versions[k].status = "saved"

\* Variant: the version is saved only if it is still a draft.
Mutant_SavesOnlyDraft(v) == IF versions[v].status = "draft" THEN "saved" ELSE versions[v].status

\* The ORM's UPDATE of the row by its id.
SavedStatus(v) == "saved"

\* The lock is granted: replace_saved_with, and commit.
SaveItinerary(r) ==
    LET v == target[r] IN
    /\ pc[r] = "saving"
    /\ trip.exists
    /\ SeenDraft(r)
    /\ versions' = [k \in Existing |->
         IF k = v THEN [versions[k] EXCEPT !.status = SavedStatus(v)]
         ELSE IF Superseded(v, k) THEN [versions[k] EXCEPT !.status = "superseded"]
         ELSE versions[k]]
    /\ Finish(r)
    /\ UNCHANGED <<trip, live>>

\* The snapshot showed a saved version (nothing to do) or a superseded one (refused), or
\* the trip is gone; or the request fails and rolls back.
SaveNothing(r) ==
    /\ pc[r] = "saving"
    /\ Finish(r)
    /\ UNCHANGED <<trip, versions, live>>

Next ==
    \/ UpdateTrip \/ MarkTripPlanned \/ ArchiveTrip \/ DeleteTrip \/ CreateDraft
    \/ \E m \in Messages : DeleteMessage(m)
    \/ \E r \in Requests :
         \/ \E m \in Messages : FindGeneratedDraft(r, m)
         \/ CreateGeneratedDraft(r) \/ AbandonGeneratedDraft(r)
         \/ \E v \in Existing : ReadForSave(r, v)
         \/ SaveItinerary(r) \/ SaveNothing(r)

Spec == Init /\ [][Next]_vars

------------------------------------------------------------------------------
(* Properties.                                                               *)

\* The trip never has two saved itineraries, although two saves may both have seen
\* drafts: the partial unique index uq_itineraries_one_saved_per_trip never fires.
OneSavedVersion ==
    \A v, k \in Existing : versions[v].status = "saved" /\ versions[k].status = "saved" => v = k

\* However many generations of one message race, one draft comes of it: the constraint
\* uq_itineraries_source_message never fires.
OneDraftPerMessage ==
    \A m \in Messages : Cardinality(DraftFor(m)) <= 1

HasSaved(rows) == \E v \in DOMAIN rows : rows[v].status = "saved"

\* A trip that has a saved itinerary keeps one until it is deleted: whatever a save saw
\* in its snapshot, what it supersedes it replaces.
SavedIsReplaced ==
    [][HasSaved(versions) /\ trip'.exists => HasSaved(versions')]_vars

\* "A superseded itinerary cannot become saved" (ItineraryService.save_itinerary).
SupersededIsFinal ==
    [][ \A v \in Existing \cap DOMAIN versions' :
          versions[v].status = "superseded" => versions'[v].status = "superseded" ]_vars
==============================================================================
