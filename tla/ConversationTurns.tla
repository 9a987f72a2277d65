-------------------------- MODULE ConversationTurns --------------------------
(* One conversation and the workers that answer its messages: admission by   *)
(* GenerationAdmission (here only its refusals), the conversation's planning *)
(* lease and turn order (ConversationPlanningService, PlanningRepository),   *)
(* the assistant run of each message, and the one transaction that stages    *)
(* the planning state, saves the reply and completes the run.                *)
(*                                                                           *)
(* Messages are numbered by turn_number.  A worker is one call of            *)
(* TravelResponseService.generate_reply.  Its lease token and claim token    *)
(* are known to that call only, so they are represented by the worker        *)
(* itself, and by Gone once the call has vanished.  Times are countdowns.    *)
(* A Sleeper's process may be suspended: no timeout binds it, and any of its *)
(* waits may be cut short.                                                   *)
EXTENDS Naturals, FiniteSets

CONSTANTS
    Workers, Sleepers,
    Last,          \* messages the user sends: turns 1 .. Last
    MaxAttempts,   \* Settings.max_model_attempts
    Lease,         \* assistant_run_lease_seconds, also the planning lease
    Wait,          \* travel_response_timeout_seconds: how long turn() waits
    Budget,        \* lease_seconds - 5: how long the body of turn() may take
    MaxMishaps,    \* bound on crashes, refusals and early failures of a run
    Gone,          \* the holder of a token that nobody knows any more
    None           \* SQL NULL

ASSUME SleeperAssumption == Sleepers \subseteq Workers
ASSUME HolderAssumption == Gone \notin Workers /\ None \notin Workers /\ Gone # None
ASSUME CountAssumption == Last \in Nat /\ MaxAttempts \in Nat \ {0} /\ MaxMishaps \in Nat
ASSUME TimeAssumption ==
    /\ Lease \in Nat /\ Wait \in Nat /\ Budget \in Nat
    /\ Wait < Lease /\ Budget < Lease

VARIABLES
    messages,   \* the user messages: whether replied, and for how long a message still
                \* holds back later ones: created_at + Lease as a countdown, 0 from its
                \* deferral or first run on, for nothing reads created_at after that
    runs,       \* their assistant_runs rows
    lease,      \* planning_lease_token and planning_lease_expires_at
    state,      \* planning_state: last_turn_number and requirements_message_id
    pc, turn,   \* where each worker is, and for which message
    timer,      \* countdown to the worker's wait timeout, then to its lease_deadline
    snapshot,   \* the PlanningTurn.state it works on
    told,       \* the final event the user has received for each message
    extracted,  \* history: how often requirements were committed for each message
    mishaps

database == <<messages, runs, lease, state>>
workers == <<pc, turn, timer, snapshot>>
vars == <<database, workers, told, extracted, mishaps>>

Turns == 1 .. Last
Accepted == DOMAIN messages
Punctual == Workers \ Sleepers
Holders == Workers \cup {Gone, None}
States == [last : 0 .. Last, requirements : 0 .. Last]

\* Inside turn(): the body runs under timeout_at(lease_deadline).
Body == {"acquired", "anchor", "graph"}
PCs == {"idle", "defer", "waiting", "failing", "releasing"} \cup Body

MessageRows == [holds : 0 .. Lease, replied : BOOLEAN]
RunRows == [status : {"absent", "processing", "completed", "failed"},
            holder : Holders, left : 0 .. Lease, attempts : 0 .. MaxAttempts]
LeaseRows == [holder : Holders, left : 0 .. Lease]
Events == {"nothing", "completed", "stale_request", "attempts_exhausted"}

\* Turn numbers are given in order and without a gap.
InOrder == \E n \in 0 .. Last : messages \in [1 .. n -> MessageRows]

TypeOK ==
    /\ InOrder
    /\ runs \in [Turns -> RunRows]
    /\ lease \in LeaseRows
    /\ state \in States
    /\ pc \in [Workers -> PCs]
    /\ turn \in [Workers -> 0 .. Last]
    /\ timer \in [Workers -> 0 .. Lease]
    /\ snapshot \in [Workers -> States]
    /\ told \in [Turns -> Events]
    /\ extracted \in [Turns -> Nat]
    /\ mishaps \in 0 .. MaxMishaps

NoState == [last |-> 0, requirements |-> 0]
NoRun == [status |-> "absent", holder |-> None, left |-> 0, attempts |-> 0]
Free == [holder |-> None, left |-> 0]

Init ==
    /\ messages = <<>>
    /\ runs = [m \in Turns |-> NoRun]
    /\ lease = Free
    /\ state = NoState
    /\ pc = [w \in Workers |-> "idle"]
    /\ turn = [w \in Workers |-> 0]
    /\ timer = [w \in Workers |-> 0]
    /\ snapshot = [w \in Workers |-> NoState]
    /\ told = [m \in Turns |-> "nothing"]
    /\ extracted = [m \in Turns |-> 0]
    /\ mishaps = 0

------------------------------------------------------------------------------
(* Accepting and delivering messages.                                        *)

Goto(w, label) == pc' = [pc EXCEPT ![w] = label]

Leave(w) ==
    /\ Goto(w, "idle")
    /\ turn' = [turn EXCEPT ![w] = 0]
    /\ timer' = [timer EXCEPT ![w] = 0]
    /\ snapshot' = [snapshot EXCEPT ![w] = NoState]

Tell(m, event) == told' = [told EXCEPT ![m] = event]

Mishap == mishaps < MaxMishaps /\ mishaps' = mishaps + 1

\* accept_request commits a new user message with the next turn number.
Accept ==
    LET m == Cardinality(Accepted) + 1 IN
    /\ m <= Last
    /\ messages' = [k \in 1 .. m |->
         IF k = m THEN [holds |-> Lease, replied |-> FALSE]
                  ELSE messages[k]]
    /\ UNCHANGED <<runs, lease, state, workers, told, extracted, mishaps>>

\* generate_reply on a message with a committed reply: no admission and no turn.
DeliverCached(m) ==
    /\ told[m] = "nothing"
    /\ messages[m].replied
    /\ Tell(m, "completed")
    /\ UNCHANGED <<database, workers, extracted, mishaps>>

\* A timeout of t for a worker that keeps it.
Timeout(w, t) == timer' = [timer EXCEPT ![w] = IF w \in Sleepers THEN 0 ELSE t]

\* generate_reply is admitted and begins to wait for its turn: the first delivery of
\* the message, or one more because the client has had no final event for it.
Deliver(w, m) ==
    /\ pc[w] = "idle"
    /\ told[m] = "nothing"
    /\ ~messages[m].replied
    /\ Goto(w, "waiting")
    /\ turn' = [turn EXCEPT ![w] = m]
    /\ Timeout(w, Wait)
    /\ UNCHANGED <<database, snapshot, told, extracted, mishaps>>

\* GenerationAdmissionError: the message is deferred in a transaction of its own.
RefuseAdmission(w, m) ==
    /\ pc[w] = "idle"
    /\ told[m] = "nothing"
    /\ ~messages[m].replied
    /\ Mishap
    /\ Goto(w, "defer")
    /\ turn' = [turn EXCEPT ![w] = m]
    /\ UNCHANGED <<database, timer, snapshot, told, extracted>>

DeferGeneration(w) ==
    /\ pc[w] = "defer"
    /\ messages' = [messages EXCEPT ![turn[w]].holds = 0]
    /\ Leave(w)
    /\ UNCHANGED <<runs, lease, state, told, extracted, mishaps>>

------------------------------------------------------------------------------
(* turn(): wait for the conversation lease, check the turn order.            *)

\* Variant: only turns that are being processed hold back later ones.
Mutant_UnstartedTurnsDoNotWait(m) ==
    \E k \in Accepted :
        /\ k < m
        /\ ~messages[k].replied
        /\ runs[k].status = "processing" /\ runs[k].left > 0

\* The subquery `earlier` of PlanningRepository.acquire.
EarlierPending(m) ==
    \E k \in Accepted :
        /\ k < m
        /\ ~messages[k].replied
        /\ \/ runs[k].status = "processing" /\ runs[k].left > 0
           \/ runs[k].status = "absent" /\ messages[k].holds > 0

\* The UPDATE that takes the lease returns the planning state as it then is.
AcquireTurn(w) ==
    /\ pc[w] = "waiting"
    /\ ~EarlierPending(turn[w])
    /\ lease.holder = None \/ lease.left = 0
    /\ lease' = [holder |-> w, left |-> Lease]
    /\ snapshot' = [snapshot EXCEPT ![w] = state]
    /\ Timeout(w, Budget)
    /\ Goto(w, "acquired")
    /\ UNCHANGED <<messages, runs, state, turn, told, extracted, mishaps>>

WaitTimeout(w) ==
    /\ pc[w] = "waiting"
    /\ timer[w] = 0
    /\ Leave(w)
    /\ UNCHANGED <<database, told, extracted, mishaps>>

StaleTurn(w) == turn[w] < snapshot[w].last

\* Variant: the release does not compare the token.
Mutant_ReleasesAnyLease(w) == lease' = Free

\* PlanningRepository.release: only the holder of the token frees the lease.
ReleaseLease(w) == lease' = IF lease.holder = w THEN Free ELSE lease

\* StalePlanningRequestError: the lease is released and the caller told.
RefuseStale(w) ==
    /\ pc[w] = "acquired"
    /\ StaleTurn(w)
    /\ Tell(turn[w], "stale_request")
    /\ ReleaseLease(w)
    /\ Leave(w)
    /\ UNCHANGED <<messages, runs, state, extracted, mishaps>>

------------------------------------------------------------------------------
(* A turn that is not stale: start_processing, then the graph, with the planning lease held.           *)

\* Another worker has answered the message in the meantime.
ReturnCached(w) ==
    /\ pc[w] = "acquired" /\ ~StaleTurn(w)
    /\ messages[turn[w]].replied
    /\ Tell(turn[w], "completed")
    /\ ReleaseLease(w)
    /\ Leave(w)
    /\ UNCHANGED <<messages, runs, state, extracted, mishaps>>

\* Variant: a run left "processing" by a dead worker is never given up.
Mutant_OnlyFailedLapses(run) == run.status = "failed"

Lapsed(run) ==
    \/ run.status = "failed"
    \/ run.status = "processing" /\ run.left = 0

\* Variant: the attempt limit is not applied to a reclaim.
Mutant_ClaimsForever(run) == run.status = "absent" \/ Lapsed(run)

Claimable(run) ==
    \/ run.status = "absent"
    \/ Lapsed(run) /\ run.attempts < MaxAttempts

ClaimRun(w) ==
    LET run == runs[turn[w]] IN
    /\ pc[w] = "acquired" /\ ~StaleTurn(w)
    /\ ~messages[turn[w]].replied
    /\ Claimable(run)
    /\ runs' = [runs EXCEPT ![turn[w]] =
         [status |-> "processing", holder |-> w, left |-> Lease, attempts |-> run.attempts + 1]]
    /\ snapshot' = [snapshot EXCEPT ![w].last = turn[w]]
    /\ messages' = [messages EXCEPT ![turn[w]].holds = 0]
    /\ Goto(w, "anchor")
    /\ UNCHANGED <<lease, state, turn, timer, told, extracted, mishaps>>

\* The run is spent, or somebody else's; "processing" is no final event.
MissClaim(w) ==
    LET run == runs[turn[w]] IN
    /\ pc[w] = "acquired" /\ ~StaleTurn(w)
    /\ ~messages[turn[w]].replied
    /\ ~Claimable(run)
    /\ IF Lapsed(run) THEN Tell(turn[w], "attempts_exhausted") ELSE UNCHANGED told
    /\ ReleaseLease(w)
    /\ Leave(w)
    /\ UNCHANGED <<messages, runs, state, extracted, mishaps>>

\* Variant: stage writes whoever asks.
Mutant_StagesUnowned(w) == TRUE

\* The predicate of PlanningRepository.stage, and that of complete_run and fail_run.
OwnsLease(w) == lease.holder = w /\ lease.left > 0
OwnsRun(w) == runs[turn[w]].status = "processing" /\ runs[turn[w]].holder = w

\* The worker leaves the body of turn() for its handlers.
LeaveBody(w, label) ==
    /\ Goto(w, label)
    /\ timer' = [timer EXCEPT ![w] = 0]
    /\ snapshot' = [snapshot EXCEPT ![w] = NoState]
    /\ UNCHANGED turn

\* ensure_context_anchor commits the state, the new last_turn_number included.
Anchor(w) ==
    /\ pc[w] = "anchor"
    /\ OwnsLease(w)
    /\ state' = snapshot[w]
    /\ Goto(w, "graph")
    /\ UNCHANGED <<messages, runs, lease, turn, timer, snapshot, told, extracted,
                   mishaps>>

\* Variant: a retry extracts the requirements again.
Mutant_NoReplay(w) == FALSE

\* The turn resumes from requirements an earlier attempt of this message committed.
IsRequirementsReplay(w) == snapshot[w].requirements = turn[w]

\* persist_requirements, in mid-graph: save_requirements commits and keeps the lease.
SaveRequirements(w) ==
    /\ pc[w] = "graph"
    /\ ~IsRequirementsReplay(w)
    /\ OwnsLease(w)
    /\ snapshot' = [snapshot EXCEPT ![w].requirements = turn[w]]
    /\ state' = snapshot'[w]
    /\ extracted' = [extracted EXCEPT ![turn[w]] = @ + 1]
    /\ UNCHANGED <<messages, runs, lease, pc, turn, timer, told, mishaps>>

\* stage, create_generated_draft and save_reply in one transaction: the planning state,
\* the release of the lease, the reply and the completed run are committed together.
CommitReply(w) ==
    /\ pc[w] = "graph"
    /\ OwnsLease(w)
    /\ OwnsRun(w)
    /\ state' = snapshot[w]
    /\ lease' = Free
    /\ messages' = [messages EXCEPT ![turn[w]].replied = TRUE]
    /\ runs' = [runs EXCEPT ![turn[w]].status = "completed",
                            ![turn[w]].holder = None, ![turn[w]].left = 0]
    /\ LeaveBody(w, "releasing")
    /\ UNCHANGED <<told, extracted, mishaps>>

\* A write finds that the lease or the claim is no longer owned: RuntimeError.
LosesOwnership(w) ==
    /\ pc[w] \in {"anchor", "graph"}
    /\ ~(OwnsLease(w) /\ OwnsRun(w))
    /\ LeaveBody(w, "failing")
    /\ UNCHANGED <<database, told, extracted, mishaps>>

\* The graph raises, or response_timeout or lease_deadline cancels the attempt.
AttemptFails(w) ==
    /\ pc[w] \in {"anchor", "graph"}
    /\ LeaveBody(w, "failing")
    /\ UNCHANGED <<database, told, extracted, mishaps>>

------------------------------------------------------------------------------
(* Cleanup, crashes, time.                                                   *)

\* fail_processing; without the claim (or without the five seconds) it changes nothing.
FailRun(w) ==
    /\ pc[w] = "failing"
    /\ OwnsRun(w)
    /\ runs' = [runs EXCEPT ![turn[w]].status = "failed",
                            ![turn[w]].holder = None, ![turn[w]].left = 0]
    /\ Goto(w, "releasing")
    /\ UNCHANGED <<messages, lease, state, turn, timer, snapshot, told, extracted,
                   mishaps>>

FailNothing(w) ==
    /\ pc[w] = "failing"
    /\ ~OwnsRun(w)
    /\ Goto(w, "releasing")
    /\ UNCHANGED <<database, turn, timer, snapshot, told, extracted, mishaps>>

\* The finally clause of turn(); a worker that committed its reply returns it.
Release(w) ==
    /\ pc[w] = "releasing"
    /\ IF messages[turn[w]].replied THEN Tell(turn[w], "completed") ELSE UNCHANGED told
    /\ ReleaseLease(w)
    /\ Leave(w)
    /\ UNCHANGED <<messages, runs, state, extracted, mishaps>>

Disown(holder, w) == IF holder = w THEN Gone ELSE holder

\* The process dies, or the call is cancelled where it has no cleanup or cannot finish
\* it: between the commit of acquire and `acquired = True`, for one.
Vanish(w) ==
    /\ pc[w] # "idle"
    /\ Mishap
    /\ lease' = [lease EXCEPT !.holder = Disown(@, w)]
    /\ runs' = [m \in Turns |-> [runs[m] EXCEPT !.holder = Disown(@, w)]]
    /\ Leave(w)
    /\ UNCHANGED <<messages, state, told, extracted>>

Less(t) == IF t = 0 THEN 0 ELSE t - 1

\* Time passes for every lease and timeout; no Punctual worker outstays a timeout.
Tick ==
    /\ \A w \in Punctual : pc[w] \in Body \cup {"waiting"} => timer[w] > 0
    /\ messages' = [m \in Accepted |-> [messages[m] EXCEPT !.holds = Less(@)]]
    /\ runs' = [m \in Turns |-> [runs[m] EXCEPT !.left = Less(@)]]
    /\ lease' = [lease EXCEPT !.left = Less(@)]
    /\ timer' = [w \in Workers |-> Less(timer[w])]
    /\ UNCHANGED <<state, pc, turn, snapshot, told, extracted, mishaps>>

\* What a worker does of its own accord.
Advance(w) ==
    \/ DeferGeneration(w) \/ AcquireTurn(w) \/ WaitTimeout(w)
    \/ RefuseStale(w) \/ ReturnCached(w) \/ ClaimRun(w) \/ MissClaim(w)
    \/ Anchor(w) \/ CommitReply(w) \/ LosesOwnership(w)
    \/ FailRun(w) \/ FailNothing(w) \/ Release(w)

Next ==
    \/ Accept \/ Tick
    \/ \E m \in Accepted : DeliverCached(m)
    \/ \E w \in Workers, m \in Accepted : Deliver(w, m) \/ RefuseAdmission(w, m)
    \/ \E w \in Workers :
         Advance(w) \/ SaveRequirements(w) \/ AttemptFails(w) \/ Vanish(w)

\* A worker that can go on goes on, time passes, and the client sends a message again
\* until it has a final event for it.  turn() polls on entry and then at jittered
\* intervals of at most 2.5 seconds, so a lease that is free again and again is
\* eventually found free by a worker that keeps asking.
Fairness ==
    /\ WF_vars(Tick)
    /\ \A w \in Workers : WF_vars(Advance(w)) /\ SF_vars(AcquireTurn(w))
    /\ \A m \in Turns :
         WF_vars(m \in Accepted /\ (DeliverCached(m) \/ \E w \in Workers : Deliver(w, m)))

Spec == Init /\ [][Next]_vars /\ Fairness

------------------------------------------------------------------------------
(* Properties.                                                               *)

\* Whoever is inside turn() and keeps its timeouts holds the conversation's unlapsed
\* lease: two graph runs of one conversation never overlap.
TurnHoldsLease ==
    \A w \in Punctual : pc[w] \in Body => OwnsLease(w)

\* The planning state never goes back to an older turn, and a reply is committed only
\* with the state of its own turn: not after a newer turn has been reached, however
\* long the worker that brings it was asleep.
TurnsNeverGoBack ==
    [][ /\ state'.last >= state.last
        /\ \A m \in Accepted :
             messages'[m].replied /\ ~messages[m].replied => state'.last = m ]_vars

\* A message that reaches its turn before it has been attempted, deferred or left
\* alone for the length of a lease was not overtaken by a later one while it waited:
\* it is not answered STALE_REQUEST.
PromptTurnNotStale ==
    \A w \in Workers :
        pc[w] = "acquired" /\ messages[turn[w]].holds > 0 => ~StaleTurn(w)

\* The requirements of a message are extracted and committed once: whatever fails after
\* that commit, a retry resumes from them, and no sleeper replaces them.
ExtractedOnce ==
    \A m \in Turns : extracted[m] <= 1

\* Every accepted message comes to a final event: a reply, STALE_REQUEST or
\* ATTEMPTS_EXHAUSTED.  No crash leaves it "processing" for ever.  (Acceptance and a
\* final event are both for good, so "again and again, all of them" says it.)
EveryMessageSettles ==
    []<>(\A m \in Accepted : told[m] # "nothing")
==============================================================================
