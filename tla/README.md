# Formal model of the map server

The repository is the backend of a travel assistant: a FastAPI application that keeps users,
trips, conversations and itineraries in PostgreSQL, takes messages over REST and WebSocket, and
answers them with a LangGraph workflow that calls language models and travel providers. Several
API processes share one database, and nothing but that database keeps them apart: a message can
be sent twice, over two sockets, to two processes; a process can be suspended, cancelled or
killed at any `await`. What must not happen then (two replies, two drafts, two model bills, an
overtaken turn, a lost message) is one half of what this directory is about. The other half is
what the planning graph makes of a conversation over many messages: which answers it keeps, what
it still offers, and whether the itinerary it shows belongs to the trip it has saved; and the
catalogue that it plans with, which is imported, edited and migrated while clients page through it.

The modules here model that in TLA+. TLC checks them on small instances (the `.cfg` files),
and the TLA+ proof system proves the main safety properties of nine of them for every value
of their constants (the `*_proofs.tla` files). `PROJECT.json` maps each definition to the lines it stands for.

## 1. Inventory

| Component | State it keeps | Operations | What makes it correct |
| --- | --- | --- | --- |
| **Assistant runs and replies** (`assistant_runs.py`, `conversation_processing_service.py`) | `assistant_runs` row of a user message (status, claim token, lease, attempts), the reply in `messages` | claim, reclaim, complete, fail; `save_reply` with its rollback path | one reply per message, bounded model starts, reply and run commit together |
| **Generation admission** (`generation_admission.py`) | `generation_leases`, `generation_usage` | `reserve`: advisory lock, three checks, charge, body under a deadline, cleanup | limits hold over all processes, one generation per message, the quota is not lost or refunded |
| **Conversation planning turns** (`conversation_planning_service.py`, `repositories/planning.py`, `travel_response_service.py`) | planning lease and `planning_state` of the conversation | `turn()`: poll, order check, stale check; anchor, save requirements, stage, release | graph runs do not overlap, state never goes back, every message comes to an end |
| **Conversation intake** (`conversation_service.py`, `repositories/messages.py`) | `conversations`, user `messages` with `turn_number` and `client_message_id` | `accept_request`, `delete_conversation` | a message is stored once however often it is sent; turns become visible in order; nothing busy is deleted |
| **Trips and itineraries** (`trip_service.py`, `itinerary_service.py` and repositories) | `trips`, versioned `itineraries` | dates, status, delete; draft, generated draft, save with supersession | one saved version, one draft per message |
| **Authentication sessions** (`auth/service.py`, `auth_sessions.py`) | `auth_sessions`: rotation chain, family, revocation | log in, rotate, revoke session / family / user | a used refresh token revokes its family; nothing revoked is revived |
| **Travel socket, connection manager** (`websocket/travel.py`, `connection_manager.py`) | per connection: pending requests and tasks; per process: indexes by user and session | receive loop, monitor, response tasks, register, unregister, close by session, close all | a terminal event per accepted request, bound on pending, nothing left behind, revoked sessions are closed |
| **Planning graph** (`graph/planning_builder.py`, `graph/planning/`) | `PlanningState`: requirements, pending questions, selections, research, deals, itinerary | understand a reply or a message, route, persist, research, deals, standalone search, synthesise, commit | what is saved stays consistent over replies, revisions, failures and lapses |
| **Requirement and trip rules** (`domain/trip_requirements.py`, `trip_requirements_policy.py`, `domain/trips.py`) | none | merge, validate, ask, build requests | no answer is lost; what is complete can be searched |
| **Search and research services** (`planning_research_service.py`, `destination_resolution_service.py`, ...) | none | research, nearby dates, deals, resolution of a destination | seen through the graph |
| **Destinations and onboarding** (`destination_catalogue_service.py`, `repositories/destinations.py`, `user_preferences.py`) | destinations, places, media, preferences | paged lists under a cursor, saving and skipping preferences | pages are complete and in order; preferences are one choice |
| **Migrations, scripts and data** (`alembic/versions`, `scripts/`) | the schema and its revision, catalogue rows | upgrade, downgrade, build a manifest, import photos | the schema is that of its revision; every destination keeps a cover |
| **Model gateway** (`subgraphs/model_gateway.py`) | call budget in a context variable | call, retry, fall back | budget holds across fallbacks and repairs |
| **Providers and MCP tools**, **lifecycle and configuration**, **REST API, schemas, observability** | stateless | HTTP calls, wiring, mapping | per-call |

### How they interact

A request is first made durable by `accept_request` (conversation intake). The socket then starts
one task per accepted message, `TravelResponseService.generate_reply`:

    cached reply? -> reserve (admission) -> turn() (planning lease, order)
       -> start_processing (claim of the run) -> anchor -> graph (may commit requirements)
       -> one transaction: stage planning state, free the lease, generated draft, reply, complete run
       -> release of the lease (finally) -> cleanup of the admission

Four nested leases or claims, each a row with a token and an expiry, guard this path: admission
lease, planning lease, run claim, and the row locks inside single transactions. The tokens are
random, so only the call that took a lease can use or release it; the expiry is what frees it when
that call vanishes. Each timeout on the path is derived from the lease it must not outlive
(`config.py:195-209`, `lease_seconds - 5`).

Inside `graph`, a turn works on a copy of the planning state that the lease returned: it merges the message into the
requirements (requirement rules), resolves destinations against the published catalogue, searches through the
services, and hands the state back to be committed with the reply. The catalogue is written by migrations and by the
photo import, and read by the graph and by the destination lists.

### Hard behaviours

* interleavings of processes at statement level under READ COMMITTED;
* `func.now()` is the start of the transaction, not of the statement;
* cancellation in the middle of a commit whose outcome is then unknown to the worker;
* a suspended process that resumes after its leases have lapsed and been taken over;
* crashes, failed cleanups that are only logged, and rows that stay until they lapse;
* repeated and lost requests; a repetition that overlaps the original;
* a SELECT FOR UPDATE that waits for one table and shows a stale row of another;
* two transactions that lock a trip and a conversation in opposite orders;
* a turn that reads the clock again after midnight has passed in it;
* a turn that fails between the commit of its requirements and its answer, and is made again;
* choices that refer to offers which lapse, are searched for anew, or belonged to another trip;
* validators of the same facts in four places (requirements, policy, trip and search requests);
* cursors that outlive the preferences, the entries and the schema that they were made under.

The full list, with lines and the properties that cover each, is under `hazards` in
`PROJECT.json`; the hazards without a property carry a note that says why.

## 2. Modules

| Module | Models | State and actions |
| --- | --- | --- |
| `ReplyOnce` | the promise of the run table, as an abstract specification | how many starts, which is in charge, which answered |
| `AssistantRunLease` | one message's run and reply, with its workers | one action per statement of `acquire_claim`, `save_reply`, `fail_processing`; refines `ReplyOnce` |
| `GenerationAdmission` | `reserve` over all processes | the transaction is one action because the advisory lock serialises it; entry, body, cleanup and disappearance are others |
| `ConversationTurns` | one conversation: turns, planning lease, planning state, with each message's admission refusals and run | composes the three mechanisms along the path above |
| `ConversationIntake` | `accept_request`, `delete_conversation`, and the anchor of a turn as far as it locks rows | one action per statement at which another session can come between |
| `TravelSocket` | one WebSocket: receive loop, session monitor, response tasks, send lock, and the connection manager's closes | one action per stretch of code between two awaits |
| `AuthSessions` | one user's sessions: login, rotation, reuse, logout and logout-all | one action per stretch between waiting for one row lock and the next |
| `TripItineraries` | one trip, its versions, its writers | what is read before the trip's lock is an action of its own; from lock to commit is one |
| `TripRequirements` | merging, validation, the policy's questions and the requests that are built | operators only |
| `TripDialogue` | a dialogue about a trip, over `TripRequirements` | a message is merged or refused; a day passes |
| `DestinationResolution` | texts, countries, published cities and the options of a country | operators only |
| `TravelOptions` | what research and discoveries may return, and what a choice resolves to | operators only |
| `PlanningGraph` | the planning graph of one conversation, over the last three and `TripRequirements` | one action per node, and one per kind of reply; failure at any node |
| `SchemaRevisions` | all 22 revisions as statements on tables, columns, constraints and indexes | operators only |
| `CatalogueMigrations` | what revisions and the manifest do to destinations, places, media and preferences | operators only, over `SchemaRevisions` |
| `DestinationRanking` | the order of lists, in the domain and in SQL | operators only |
| `DestinationCatalogue` | a client that pages, devices that save preferences, the photo import, an editor, and migrations | one action per statement or transaction |

`MC_*` modules give the instances; `*_proofs` modules hold theorems and proofs.

The code corresponds to the modules as follows.

**AssistantRunLease.** `run` is the row, `reply` the committed assistant message (named by the claim
that wrote it), `inserted` the uncommitted reply that holds the unique key of `reply_to_message_id`.
`AcquireClaim` / `MissClaim` are the INSERT .. ON CONFLICT and the guarded UPDATE of
`acquire_claim`, evaluated with the time at which the transaction began; claim tokens (uuid4) are the
numbers of the claims, which keeps them unique and lets the refinement name them. `SaveReply` is
`complete_run` and the commit; `SaveUnacknowledged` is the same commit with the worker cancelled
while it is in flight, after which its cleanup calls `fail_processing` on a run it has completed.
`Interrupt` is a failure of the graph or a timeout, `Crash` everything that leaves no cleanup.

**GenerationAdmission.** `leases` and `usage` are the two tables; `entered` is the event-loop time
from which the deadline is computed (`generation_admission.py:49`), before the advisory lock is
waited for, which is what makes the deadline earlier than the lease's expiry. A refusal rolls back,
the deletion of lapsed leases included. `Vanish` is the cleanup that fails or a process that
dies: its lease stays with no holder.

**ConversationTurns.** Messages are numbered by their turn. `AcquireTurn` is the UPDATE of
`PlanningRepository.acquire` with its subquery `earlier` (`EarlierPending`); a pending message holds later ones back
while its run's lease lasts, or, if it has no run, while it is younger than a lease and not deferred. The stale check
and the claim follow the lease with nothing in between, so `RefuseStale`, `ReturnCached`, `ClaimRun` and `MissClaim`
are alternatives of one place (`"acquired"`). `CommitReply` is the one transaction that stages the state, frees the
lease, saves the reply and completes the run. `LosesOwnership` is the RuntimeError of a guarded write that matched no
row. Here times are countdowns, because only what is left of a lease or timeout matters, and the state space is finite
without a bound on a clock: `holds` of a message is how long it still holds later ones back while it has no run, which
a deferral or its first claim ends. The statement-level detail of the run table is in `AssistantRunLease`; here a
claim is one step.

**ConversationIntake.** Row locks are explicit (`locks`); the unique index of `client_message_id` is
modelled as PostgreSQL runs it: an uncommitted entry of the same id makes the INSERT wait, a
committed one raises IntegrityError, after which the code rolls back and looks again. `turn_number` is an
Identity column: drawn at the INSERT, not returned by a rollback, and visible only at the commit. Without a
named conversation, a new one is created in the same transaction. A request about a trip first locks the trip
(`LockTrip`), then the conversation. The anchor of a turn takes them in the opposite order: `PlanningRepository.stage`
updates the conversation, and the foreign key of `planning_trip_id` then takes FOR KEY SHARE on the trip (`Anchor`,
`EndAnchor`). So a request can hold the trip and wait for the conversation while the anchor holds the conversation and
waits for the trip. Nothing in the code prevents it; PostgreSQL's deadlock detection ends it (`Deadlocked`) by aborting
the request, whose client is told of an internal error, or the anchor, whose turn fails and may be made again.

**TripItineraries.** `ReadForSave` is the snapshot of the statement that joins `itineraries` with
`trips` FOR UPDATE OF `trips`: PostgreSQL waits for the trip's row and then returns the itinerary as the
snapshot saw it. `SaveItinerary` is what follows the lock, with the two UPDATEs of
`replace_saved_with`: one by predicate, which sees current rows, and one by id.

**TravelSocket.** All tasks run on one event loop, so an action is what a task does between two awaits. A cancelled
task (`cancelled`) does nothing more, except that its cleanup takes time (`TaskDies` comes later) and may raise
another exception instead (`CancellationReplaced`), after which the task reports a failure as if it had not been
cancelled. `close_invalid_session` is two actions, as in the code: `CancelOthers` at once, and the close when
`send_lock` is free; between them the loop may create another task. A check of the session that fails for want of a
database is allowed at any time, one that passes only while the session is valid. `Evict` is the manager's removal and
close, which does not take `send_lock` and cancels nothing. Requests are numbered as they arrive.

**AuthSessions.** PostgreSQL runs the SELECT ... FOR UPDATE of the revocations on the snapshot with which it starts
(`RevokesFamily`, `RevokesAll` fill `queue`), locks the rows one by one (`LocksRow`: the rows of a family by
`created_at`, those of a user in any order) and tests the WHERE clause again on each row as it is by then
(`Qualifies`); the row stays locked either way. A refresh and a logout need one row, so they commit in the step that
locks it; a reuse keeps the row of its token locked while it revokes the family, which is how two reuses come to wait
for each other. `Storable` is the check constraint that `revoke_token_family` satisfies by taking the later of two
times and `revoke_all_by_user` may violate. `Fails` is any error or cancellation, with its rollback.

**TripRequirements, TripDialogue.** A set of requirements is a record of all fields, `None` where nothing is known.
`MergeRequirements` is `merge_requirements`: what an update contradicts (`Contradictory`) raises, what it makes
outdated (`Outdated`) is forgotten, the rest is overwritten, and the result is validated as `TripRequirements` does
(`Valid`). `MissingFields` is `TripRequirementsPolicy.missing_fields`, and `ToTripRequest`, `ToDealRequest` with
`BuildsTrip`, `BuildsFlightSearch`, `BuildsHotelSearch` and `BuildsDealSearch` are the requests with the validators of
their classes. Dates are numbered days up to the end of the calendar.

**PlanningGraph.** `saved` is the planning state in the database, `planning` the copy of the turn, `pc` the node;
`mine` says that the requirements of the message that is being answered have been persisted
(`requirements_message_id`). `Reply` is the deterministic understanding of answers to pending questions
(`destination_reply`, `selected_deal` and the choices of `travel_selection.py`), `Understand` that of a model, whose
extraction is an element of `Updates`; `Goes` and `GoesChecked` are what `route_planning_requirements` and
`route_destination_requirements` make of it. `Persist`, `Research`, `Deals`, `StandaloneDeals`, `StandaloneSearch`,
`Synthesize` and `Commit` are the other nodes. The clock is read where the code reads it: once by the routing (`Goes`
records that day in `routed`, and the route stands while the requirements are persisted), and again by the searches.
Midnight (`NextDay`) may come between any two steps. Exact flights and hotels whose first day has passed by then bring
the guidance of `InvalidTravelDateError` (`Searched`), and a discovery whose window has passed raises and fails the turn
(`RefusesWindow`); the retry is routed on the new day and asks for other dates. `Fail` may come at any of them: the copy is lost, and `Retry` is the
same message again. `Lapse` ends the freshness of research and deals; their return values are chosen in
`TravelOptions`, errors, guidance and empty results included. Invalid structured output is `Repairs`, once per call.

**SchemaRevisions, CatalogueMigrations.** A revision is its list of creations, drops and renames on schema objects,
with the names the naming convention gives to them; `Migrated` applies the revisions between two, in either direction,
to the schema and to the rows of the catalogue. A statement that meets an object that is there already, or not there,
fails the run (`failed`), and alembic's transaction takes it back.

**DestinationRanking, DestinationCatalogue.** `RankSuggested`, `RankPopular` and `RankFeatured` are
`destination_ranking.py`; `SqlRank` and `InCollection` are the expressions of the repository. A page is two
statements: `Ask` reads preferences and checks the cursor's context, `Page` reads one row more than the page holds.
Saving preferences is the upsert (`Upsert`, which waits for another transaction's row), the deletes, and the commit of
the inserts. The import is its preflight, one step per uploaded object, and one transaction. A run of alembic is one
transaction, and waits for the sessions that have the tables open that it changes (`Waits`).

### Abstractions

* In `PlanningGraph` one turn runs at a time, which is what `ConversationTurns` shows. Languages, wording, revisions
  of the state and prices are left out; a hotel is its number in the list, as in the code; a list of offers is a set
  of numbers. The pending standalone search, which only prompts repeat, is left out.
* Pace and constraints are left out of the requirements, since no rule reads them; names, currencies and interests are
  values.
* In `DestinationCatalogue` the import's transaction and a migration over several revisions are one step each, because
  row locks and the locks of ALTER TABLE let nobody in between; a request that meets a missing table fails and changes
  nothing, so it is a step that is not taken.

* `AuthSessions` has one user, whose status may be changed from outside (`Disable`); registration is its initial
  state. Times are a coarse clock; that a session is rotated is that it has a replacement, and that it is revoked is a
  flag, without time or reason. Passwords, token encoding and the sockets to be closed are left out (for the latter
  see `TravelSocket`).

* In `ConversationIntake` a message is its content, `[text, trip]`, compared as one. The trip is constant, and trips
  are not deleted: a deletion would clear `trip_id` of the messages (a hazard without a property, noted in
  `PROJECT.json`), and, since ON DELETE SET NULL updates conversations after the trip is locked, form the same circle
  with an anchor. The transaction that commits a generated reply locks the trip before the conversation, as a request
  does, and adds no circle.
* In `PlanningGraph` offers lapse and the catalogue changes between turns only. A turn reads the freshness of an offer
  in one step, so a lapse within a turn is one just before or just after it, and the catalogue only
  in the node that understands its message, whose reads see one catalogue here. A search that lasts past midnight
  returns what one made before it may return.
* All clocks (database, event loops) are one clock. Skew between them is a hazard without a property.
* The graph is one step that may commit requirements, fail, or answer. Preferences, trip switching
  and the content of answers are left out.
* `ConversationTurns` has one conversation and does not delete it; deletion is in `ConversationIntake`,
  with the planning lease reduced to held or not held.
* In `TripItineraries` an itinerary is its status, its source message and the last day of its
  items; dates are a number of days.

## 3. Runs

All runs deadlock-check except `intake`, `itineraries`, `socket`, `requirements`, `planning` and
`catalogue`, where everything may be done. Symmetry sets are used for invariants and action properties only (never with liveness).

| Run | Instance | What it shows |
| --- | --- | --- |
| `lease` | 2 punctual workers and a sleeper, 2 attempts, lease 3, budget 2, clock to 7; 222 k states | `PunctualWorkerOwnsRun`, `ExhaustedIsFinal`, and the refinement `AnswersOnce` of `ReplyOnce` |
| `admission` | 3 requests, 5 messages of 2 users, 3 global slots, 2 per user, 2 admissions per user and day; 989 k states | `ConcurrencyBounded`, `QuotaKept`, `OneBodyPerMessage` |
| `turns` | 2 messages, a punctual worker and a sleeper, 2 attempts, 1 mishap; 367 k states | `TypeOK`, `TurnHoldsLease`, `TurnsNeverGoBack`, `PromptTurnNotStale`, `ExtractedOnce`; liveness: `EveryMessageSettles` |
| `intake` | 2 requests beside the rows of an earlier one, 2 users, 2 ids, requests about a trip or about none, 4 conversations, one loss, one deletion; 305 k states | `AnswersAreTrue`, `TurnsAppearInOrder`, `BusyIsNotDeleted`; liveness: `EveryRequestAnswered` |
| `socket` | 3 requests, 2 pending at most; 101 k states | `NothingOutlivesEndpoint`, `LateRequestsRefused`; liveness: `InvalidSessionEnds`, `AcceptedIsAnswered` |
| `sessions` | 2 requests at a time, any number in sequence, 3 sessions, clock to 1; 290 k states | `OneCurrentPerFamily`, `RevokedForGood`, `RevocationCoversSeen`; liveness: `RequestsEnd` |
| `sessions_logout_all` | the same | `LogoutAllSignsOutDevices` is violated, see below |
| `itineraries` | 2 requests, 2 messages, 3 versions, 3 days; 950 k states | `OneSavedVersion`, `OneDraftPerMessage`, `SavedIsReplaced` |
| `itineraries_superseded` | the same | `SupersededIsFinal` is violated, see below |
| `requirements` | 26 updates of one or a few fields, three days; 61 k states | `AnswersKept`, `StartMoves`, `CompleteIsSearchable` |
| `planning` | 4 messages, a country of two cities one of which has another country's name, one edit, two days with midnight anywhere; 2.1 M states | `SelectionFitsTrip`, `PendingIsAnswerable`, `SearchesWhatIsSaved`, `SearchesAreBuilt`, `GeneratedIsCurrent`, `RetryKeepsTrip` |
| `catalogue` | 4 destinations, 4 places, 2 writers, 2 folders, pages of 1 and 2, 3 operations, the opening of a listing included; 130 k states | `PagesComplete`, `PreferenceIsOneChoice`, `CoverKept`, `SchemaFollowsRevision` |

`TypeOK` is checked in one run; of the other modules it is proved, alone or as part of an invariant. `AnswersAreTrue` is the conjunction of three promises of intake: whoever
is told "accepted" was told of a message of theirs, no empty conversation is left, and an error has a reason.
`PreferenceIsOneChoice` reads across migrations: a downgrade keeps one of several styles, and that is the one thing
that it may lose.

Why the bounds are enough to meet the interesting cases:

* *Workers.* In `lease`, two punctual workers and one that sleeps are the cast in which a run is reclaimed from a
  sleeper, fails, is reclaimed again and is watched by a third caller. A fourth worker repeats one of these roles. In
  `turns` a worker that sleeps and one that does not are enough for a lease to be taken over and for the loser to
  write afterwards.
* *Attempts 2, lease 3, budget 2.* The last attempt differs from the first, and a lease outlasts its budget by exactly
  one step of the clock, so that an off-by-one would be seen. The clock runs over two leases.
* *Two messages.* Turn order, staleness and overtaking are relations of two turns.
* *Limits.* With the leases that failed cleanups leave behind, three requests reach the global limit of 3 and the
  user's of 2; the clock crosses midnight, and retention is 0 days so that pruning happens.
* *Intake.* The rows of an earlier request are part of the initial states, so two requests can be a repetition of it
  and another user's request with the same id. Four conversations are as many as the two can create, repeating after a
  deletion; identities are not reused. One trip gives the circles of one request and one
  anchor; a longer circle needs two conversations, two trips and two requests beside
  the messages that are anchored. `Deadlocked` is defined for those too, but the run does not reach them. One request is
  the owner's of the earlier rows (`Canonical`), and one conversation is deleted: a second deletion meets
  a request as the first does.
* *Socket.* The third request finds the socket at capacity or comes after an earlier one has ended; two response tasks
  are the fewest that can cancel each other.
* *Sessions.* Three sessions are a chain in which two used tokens are presented while the third is current, or two
  devices one of which refreshes. Two transactions suffice to wait for each other; in one tick a session expires or is
  created after a revocation has taken its time.
* *Versions.* Three versions: one that is saved, one that replaces it and one that replaces both.
* *Dialogues.* Updates of dates have room for a start, an end, a length and a window that contradict each other;
  one gives a start, an end and a length together, since an end and a length that are given apart replace each other:
  after it a new start has an explicit old end to forget. Minors are up to two with an infant, so laps can be too many, too few or out of date. The number of messages is not
  bounded. Deals within the nine travellers of a discovery are not at the limit here; the proofs of
  `CompleteIsSearchable` and `SearchesAreBuilt` cover it.
* *Planning.* Four messages are a trip, the choice of a flight, the choice of a hotel, and a revision or a lapse after
  that; or a trip, a country, a city of it, a deal. Each may fail and be answered again any number of times. Searches
  offer two flights and two hotels, which is a choice; one of the nearby dates is in the past. The second day begins
  before, during or after any turn, and the trip and the window begin on the first day, so that each search meets dates
  that have just passed.
* *Catalogue.* Opening a listing is one of the three operations, so up to two operations of others come between its
  two or three pages: e.g. a downgrade and an upgrade, or a preference that is changed and changed back. Without a
  listing three of them meet: an import, a downgrade and an upgrade, or a save on each device and a migration. All revisions are reachable in one
  step, hence every pair of them in two.
* `MaxMishaps`, `MaxLost` and `MaxDeleted` bound the crashes, refusals and lost answers; leases that lapse under a sleeper need no
  mishap. `MaxMessages`, `MaxEdits` and `MaxOperations` bound the histories.

### Fairness, and why the code justifies it

* `turns`: weak fairness of time and of each step of a live worker: the event loop runs what can run. Weak fairness of
  delivery: the client sends a message again until it has a final event (`docs/websocket-protocol.md`). Strong
  fairness of `AcquireTurn`: `turn()` polls on entry and then at jittered intervals of at most 2.5 s, so a lease that
  is free again and again is in the end found free by a worker that keeps asking. Nothing is assumed of
  `SaveRequirements`, of failures or of crashes. A worker that crashes is not assumed to come back; the lapse of its
  leases is what lets others go on.
* `intake`: strong fairness of each request's steps: PostgreSQL gives a row to those who wait for it in turn,
  while anchors and leases may take it again and again. Weak fairness of its deadlock detection, and of a deletion or an
  anchor that holds a lock. Nothing is assumed of sending, of leases or of new anchors. Steps that wait are disabled
  while they wait, and without the deadlock detection (`Deadlocked` false) TLC finds `EveryRequestAnswered` violated.
* `socket`: weak fairness of the loop's steps (not of what the client chooses to send, nor of the idle timeout), and
  of the monitor's check of a session that has become invalid, which it makes at least every
  `websocket_auth_check_seconds`. Strong fairness of each response task and of the monitor's close: `asyncio.Lock` is
  first come, first served, so whoever waits for `send_lock` gets it however many pings are answered meanwhile.
  Nothing is assumed of the manager: sessions are also revoked by other processes, which do not know this socket.
* `sessions`: strong fairness of each request's steps, since PostgreSQL gives a row to those who wait for it in turn,
  and weak fairness of its deadlock detection. Nothing is assumed of new requests or of other failures.
* `requirements`, `planning` and `catalogue` assume none: nobody has to write another message or ask for another page.
  That a turn of the graph ends is a matter of its timeout, which `turns` has.

### Findings

**Logout-all.** `docs/authentication.md:144`: "Logout-all revokes every active user session and forces all devices to
reauthenticate." `sessions_logout_all` violates it in seven states: a refresh holds the row of its session while
logout-all chooses its rows; logout-all waits for that row, finds it rotated and skips it, and the replacement,
committed after its snapshot, it never sees. The answer is 204 and the device stays signed in. The reuse of a token
races with a rotation in the same way. What the code does ensure is `RevocationCoversSeen` (proved): whatever existed
when the revocation began is unusable afterwards, so a repetition revokes what the race has left. Locking the user's
row first, in both operations, would close it.

**Superseded itineraries.** `ItineraryService.save_itinerary` says (`itinerary_service.py:126`) "A superseded
itinerary cannot become saved", and `SupersededIsFinal` states it of the rows. The run `itineraries_superseded`
violates it: the status that is tested is the one in the statement's snapshot, from before the wait for the trip's
row. With drafts A and B of a trip, three requests queue on the trip's row: save B, save A, save B again, each with a
snapshot in which its version is a draft. The first makes B saved, the second supersedes B, the third saw a draft,
passes the test and makes B saved. There is still one saved version (`OneSavedVersion`, proved): the effect is that of
an old click that wins over a later choice. Reading the itinerary again after the lock would close it.

## 4. Proofs

Checked by tlapm for every value of the constants that satisfies the named assumptions. These
are what `config.py` validates (`Budget < Lease`, at least one attempt, positive limits), that the NULL
is not a value, and, for the dialogue and the planning graph, the types of the answers an update may give
(`AnswerAssumption`, `PlanningAssumption`). For the catalogue they are that the seeds, the places and the manifest do
not share names (`CatalogueAssumption`), that a folder has at most one photo per slot, which `scan` refuses
otherwise, and the manifest's folder a cover for each of its destinations (`FolderAssumption`, `PhotosAssumption`),
that an onboarding saves values of the enumerations (`SelectionsAssumption`), and that slugs are different, and the
places of one destination sorted (`FactsAssumption`, `PlacesAssumption`), which unique constraints ensure.
`SchemaAssumption` is of another kind: it mentions no constant. It says that the statements of the 22 revisions,
executed from the schema of any revision to any other, arrive at the schema of the target; TLC computes it whenever
`DestinationCatalogue` is run, and the proofs take the result from there, so that `MigrationsSucceed` is about the
rows, the revisions and what comes between two runs. Five theorems need more of the NULL or of the outcome of a
constructor that raises, and say so in their statement: that it is different from every object (`NoneIsNoRecord`,
`InvalidIsNoRecord`). In the program they are; TLC's model values are too; the logic alone does not say it.

**`AssistantRunLease_proofs`** (`TypeCorrect`, `ReplyAtomic`, `PunctualOwnership`, `ExhaustionFinal`, `ImplementsReplyOnce`).
`ReplyIffCompleted` is not inductive: one has to know that a "completed" run has no token, that tokens are charged
to the row and no two workers share one (`TokensIssued`), and that what `save_reply` has found stays
(`ExistingSeen`). `Inv` adds these. It involves no clock: atomicity and the refinement of `ReplyOnce` hold
even where leases are arbitrary. `TimedInv` adds what does depend on time: a punctual worker is within
its deadline, which its own lease outlives, and after ATTEMPTS_EXHAUSTED only the holder of a lapsed lease could
still answer. The refinement maps a claim to `Start`, a completed run to `Answer`, a failed one to `GiveUp`.

**`GenerationAdmission_proofs`** (`TypeCorrect`, `BodiesAreLeased`, `OneBodyEach`, `LimitsHold`, `QuotaHolds`). The
bodies that run are bounded because each has a live lease for a message of its own (`LeaseInv`), and the live leases
are bounded (`LimitsKept`). The count is of messages, not of leases: a lease whose request vanishes changes, its
message does not. `QuotaKept` is inductive on top of `LeaseInv`: an admission adds one on both sides and pruning
touches no day that has to be remembered.

**`TripsAndCatalogue_proofs`**, about two components that share no state. *Trips* (`TypeCorrect`, `SavedIsUnique`,
`DraftIsUnique`, `SaveReplaces`). The inductive invariant adds that a save that waits aims at a version that exists
while the trip does, and that two versions do not share a source. So neither unique index is needed for correctness:
they would only turn a bug into an error.

*The catalogue* (`CatalogueInvariance`, `MigrationsSucceed`, `ChoicesAreWhole`, `CoversAreKept`, `PagesAreComplete`).
A migration succeeds only on the rows it was written for, so the invariant says what the rows are at each revision (`Sound`): which
destinations and places there are (`DestinationsAt`, `PlacesAt`), where covers are kept and that each destination has
one (`ImagesSound`, `LinksSound`), and that an asset with a key of the manifest is the manifest's own and is there
exactly from the import of the manifest on (`AssetsSound`). The last point is what lets a downgrade by id and an upgrade that
refuses a known key follow one another, even if the photo import has attached the manifest's photos again or replaced
them in their slots. There is one lemma for each migration that changes rows and each direction (`SeedsUp`,
`ImagesMoved`, `ExpansionUp`, `ImportUp`, `ImportDown`, `ExpansionDown`, `SeedsDown`, `PreferencesDown`);
`MigratedSound` puts them together for a run between any two revisions. The transaction of the photo import is a
recursive function over the folder: that it exists and keeps rows sound or fails is shown by the smallest photo for
which it would not (`AttachesExist`, `AttachedAllSound`). What it attaches is in the bucket because nothing leaves the bucket (`Uploaded`,
`ImportSound`). `PreferenceIsOneChoice` becomes inductive with the statement that one transaction at a time has the
row, and that what it has seen deleted is what is still committed (`WritersSound`); it needs that migrations of the
tables wait for it (`Waits`). No bound on operations, writers, destinations or photos is used.

*The pages*, over the same rows. `PagesSound` says that what has been seen is of the list and in its order
(`SeenSound`), that the cursor is the key of the last of it and was made under the context that is current
(`CursorSound`), and that what has been listed throughout has been seen or is behind the cursor (`SteadySound`). A page
needs that a set of rows with different keys has one order (`OrderedEnumerates`, by counting the rows that come
before each: that count is an injection into as many places as there are rows, hence onto them). Asking for the next
page needs that the context names every input of the ranking, so that preferences under the same context rank the same
(`SameContext`). That the SQL of the repository and the ranking of the domain agree is `SameScore`, `SameFilter`,
`RowsOfLists` and `ReferenceLists`.

**`TravelSocket_proofs`** (`TypeCorrect`, `EndpointLeavesNothing`, `LateRefused`, `PendingBound`). The inductive invariant
says who may hold `send_lock` (`LockUsed`), that before the registration and after the return there is nothing, that
the request the loop is handling has no task yet (`CurrentShape`), and that a late request stays "received"
(`LateShape`). The bound needs one thing more, `RoomKept`: while the loop stores a request and sends its
acceptance there is still room for its task, because every other task can only end.

**`AuthSessions_proofs`** (`TypeCorrect`, `ChainsDoNotFork`, `RevocationIsFinal`, `RevocationCovers`). Every step
either keeps the shape of the rows or adds one session (`SameShape`, `Adds`), and whatever makes a session unusable
stays (`Monotone`). The inductive invariant says that a family has one session without a replacement (`Families`), and
that what a revocation has seen is still to be locked, has been locked, or need not be revoked (`Covered`); the latter
survives the steps of others because of `Monotone`. The proof assumes nothing of the order in which rows are locked.

**`PlanningGraph_proofs`** (`SearchesAreOfSaved`, `RetriesKeepTrip`, `SearchesBuilt`, `SelectionsFit`,
`PendingAnswerable`, `ItinerariesCurrent`). There are two inductive invariants. The first relates the copy of a
turn to what is saved: the same at the start of a turn (`StartsFromSaved`), the same requirements from the searches on
(`SearchesWhatIsSaved`), the same in every turn of a message whose requirements were persisted (`RetriesSaved`), a search is the one that the trip is routed to on the day that the turn read (`Routed`), and that day is known
(`OnDays`).
What makes it inductive is that a turn reaches a search only unchanged or through `persist`: `GoesOn` shows it once
for every way of understanding a message, and the rest is one lemma per action. No bound on messages or edits is used,
nor anything about what research returns.

The second, `TripInv`, is about what a conversation remembers, and holds of the saved state and of the copy alike,
since each becomes the other at a commit and at a failure. That a selected flight fits the trip is not inductive: it was
picked among the offers of the research that is stored, which fit only while the question is pending that they were
found for. So `Fits` also says that stored research has offers for its own key (`ResearchFits`), that while a flight or
a hotel is asked for the offers fit the requirements, and that the options are among what is stored
(`PendingFits`), that a deal is the flight and no other flight is asked for beside it (`ChosenFits`), and
that the requirements are valid (`Counted`). `Current` is the same for the itinerary, and `Settled` for the nodes in
between: what is selected is among the evidence when the itinerary is written. The argument is by the fields that
an update names: whatever changes a journey or a stay is in `FlightFields` or `HotelFields`, so the update gives up
what was selected for it and the question about it; the replies that choose another trip (`PickDeal`, `PickDates`,
`SelectCity`) give it up on their own. `SearchesBuilt` puts the two together: the requirements of a turn that
searches are valid and known to be numbers where they are calculated with, also when a deal or nearby dates have put
their own days and party in (`IsDeal`, `AreDays`), nothing is missing from them on the day on which the turn was routed, and
the route bounds their length. The theorem says no more of the days than the code ensures: after midnight the searches
themselves refuse what has passed. The exception that the code makes is in `SelectionFitsTrip`: while
a country's name stands in for the city that is still to be chosen, what is selected may be for another destination. TLC
checked the invariant on the constants of the run and, on richer ones, in simulation before it was proved.

*The dialogue*, in the same module because it is over the same rules and rests on the same lemmas about a merge and a
party (`NoAnswerLost`, `StartAloneMoves`, `CompleteSearches`). The inductive invariant says that the requirements are
valid (`Valid`) and that what the rules calculate with are numbers and sequences (`Known`); it needs the lemma that a
merge which succeeds is valid (`MergeSucceeds`). `NoAnswerLost` then compares what a merge forgets with what an answer
depends on (`OutdatedDepends`). `StartAloneMoves` has to show the converse, that a merge does *not* raise: with the old
end forgotten and the length kept, every rule that mentions the start still holds (`MovedIsValid`). `CompleteSearches`
compares the validators: a field that the policy does not ask for is known, and with the validity of the requirements
it satisfies what `TripRequest`, the hotel and flight searches and the deal discovery check again. The arithmetic of
the party (infants, laps and seats add up to the minors, `InfantsCounted`, `PartyFits`) is the part that a unit test
with examples covers least.

**`ConversationTurns_proofs`** (`TypeCorrect`, `GraphRunsDoNotOverlap`, `StateFollowsTurns`,
`RequirementsExtractedOnce`, `PromptTurnsAreCurrent`, `MessagesImplementReplyOnce`).
A punctual worker's timeout ends before the lease it holds (`LeaseInv`; this is where `Budget < Lease` is used), so no other worker acquires, and a release frees only the
lease of its own token. `StateInv` says what a worker that still holds the lease works on: the committed state once
it has acquired the turn, that state with the turn's number between claim and anchor, the committed state again from
the anchor on. It needs no clock, for a write compares the token; so a sleeper that writes late changes nothing.
From it follow both that turns never go back (`Writes`, `WritersOnly`) and `ExtractInv`: after the commit of a
message's requirements the state is either past that message or says that they are there. `PromptInv` says that while a
message holds back later ones, nobody claims it and no worker inside turn(), and so no committed state, is
past it. What these need to know of the rest is `WorkShape`: whoever works, works for an accepted message.
`MessagesImplementReplyOnce` is a second refinement of `ReplyOnce`, once for each message and with the turns of the
other messages in between: a claim maps to `Start`, the commit of the reply to `Answer`, a failed run to `GiveUp`, and
`LoudSteps` says that no other step can be seen. It rests on `AnswerInv`, that a message has a reply exactly if its
run is completed, and like the first it involves no clock. No run lists it, because TLC
accepts no quantified refinement.

**`ConversationIntake_proofs`** (`TypeCorrect`, `AnswersHold`, `TurnsAppear`, `BusyStays`). `ConversationTurns` takes it
that messages are accepted in the order of their turns; `TurnsAppear` shows it. The inductive invariant says who works where: an open request holds the lock of the
conversation it named, or has one of its own that nobody sees (`OpenShape`), no two work on one (`OpenApart`), and a
conversation to be deleted is locked, not leased, and once gone stays gone (`DeletionShape`), and an anchor holds only
a conversation that has a message about the trip it waits for (`AnchorShape`). Hence nobody commits
between the INSERT that draws a turn number and its commit in the same conversation (`TurnShape`), although the
sequence itself is shared and commits overtake one another. `ErrorShape` follows an id that was refused: until a
deletion takes place, the message that refused it is there and stays its owner's. An error has a third reason beside
these two, the abort of a request that waits in a circle; `AnchorShape` is what says that both it and the conversation
are then about a trip.

Every invariant and action property that a run expects to hold is proved. Only model-checked: the liveness properties
(the prover handles neither fairness nor ENABLED), and the findings. No module has a RECURSIVE operator.

## 5. Not modelled

* *Model gateway.* Its budget and its fallback cannot be reached: one provider is built, and a turn makes at most four
  of the twelve calls that the budget allows. What it does to a turn, fail or return something invalid, is in
  `PlanningGraph`.
* *Destinations and onboarding*, in part: detail, gallery and home reads (single statements, or a fixed composition of
  the lists that are modelled), the deactivation of media and places, the time at which an onboarding was completed,
  and the validation of a cursor's values, which is that of a decoder.
* *Search and research services*, in part: the provider calls, their prices and the ranking of results; only their
  outcomes are modelled.
* *Trips, sessions*, in part: trip text, locations, the listing of trips; registration beyond its outcome, password
  hashes, reasons of revocations.
* *Migrations, scripts*, in part: rows of other tables than the catalogue's, the upload of the manifest, one-off
  reports.
* *Providers and MCP tools*: HTTP and schema mapping without state of their own. *REST layer and observability*:
  mapping of requests and errors. *Lifecycle and configuration*: wiring; its validated relations are the assumptions
  of the modules.

Hazards without a property are in `PROJECT.json` with the reason. What could follow: the deletion of a conversation
whose turn is waited for, which needs `ConversationTurns` and `ConversationIntake` composed; and that the requirements
of `PlanningGraph` change as `TripDialogue` lets them, with a new trip as one more action of the latter.
