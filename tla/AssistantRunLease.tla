-------------------------- MODULE AssistantRunLease --------------------------
(* One user message, the app.assistant_runs row that leases its processing,  *)
(* the assistant reply that answers it, and the workers that try to produce  *)
(* that reply: ConversationProcessingService and the two guarded updates of  *)
(* AssistantRunRepository, driven as TravelResponseService._generate_reply   *)
(* drives them.  A worker is one call of _generate_reply: the first request, *)
(* a client's retry, or the same message sent over a second socket.          *)
(*                                                                           *)
(* Every database statement sees committed rows (PostgreSQL READ COMMITTED), *)
(* and func.now() is the time at which the worker's transaction began, not   *)
(* the time of the statement.  Time is a discrete clock; asyncio cancels a   *)
(* Punctual worker at its deadline, any other worker may be suspended with   *)
(* its process (no cancellation is delivered) and resume later.              *)
EXTENDS Naturals, FiniteSets

CONSTANTS
    Workers,       \* calls of _generate_reply for this message
    Punctual,      \* the workers whose event loop keeps its timeouts
    MaxAttempts,   \* Settings.max_model_attempts
    Lease,         \* Settings.assistant_run_lease_seconds
    Budget,        \* lease_seconds - 5: what turn()'s timeout_at leaves a worker
    MaxClock,      \* bound on the clock of a run of the checker
    None           \* SQL NULL

ASSUME PunctualAssumption == Punctual \subseteq Workers
ASSUME AttemptsAssumption == MaxAttempts \in Nat \ {0}
ASSUME LeaseAssumption == Lease \in Nat \ {0} /\ Budget \in Nat /\ Budget < Lease
ASSUME ClockAssumption == MaxClock \in Nat
ASSUME NoneAssumption == None \notin Nat /\ None \notin Workers

VARIABLES
    run,       \* the assistant_runs row of the message
    reply,     \* the committed assistant message: the claim that wrote it, or None
    inserted,  \* the worker whose uncommitted transaction holds the reply's unique key
    issued,    \* how many claim tokens have been granted; each uuid4 is its number
    clock,     \* database and event-loop time
    pc,        \* where each worker is in _generate_reply
    txNow,     \* func.now() of the worker's transaction
    token,     \* the worker's AssistantRunClaim.claim_token
    existing,  \* whether the worker's save_reply found a reply already there
    exhausted  \* whether some caller has been told ATTEMPTS_EXHAUSTED

vars == <<run, reply, inserted, issued, clock, pc, txNow, token, existing, exhausted>>

Statuses == {"absent", "processing", "completed", "failed"}

\* Between "generate" and "complete" the worker holds what it believes to be the claim.
Working == {"generate", "lookup", "insert", "complete"}
PCs == {"idle", "prepare", "claim", "observe", "failing"} \cup Working

Tokens == 1 .. MaxAttempts

TypeOK ==
    /\ run \in [status: Statuses, token: Tokens \cup {None}, expires: Nat,
                attempts: 0 .. MaxAttempts, reply: Tokens \cup {None}]
    /\ reply \in Tokens \cup {None}
    /\ inserted \in Workers \cup {None}
    /\ issued \in 0 .. MaxAttempts
    /\ clock \in Nat
    /\ pc \in [Workers -> PCs]
    /\ txNow \in [Workers -> Nat]
    /\ token \in [Workers -> Tokens \cup {None}]
    /\ existing \in [Workers -> BOOLEAN]
    /\ exhausted \in BOOLEAN

Init ==
    /\ run = [status |-> "absent", token |-> None, expires |-> 0,
              attempts |-> 0, reply |-> None]
    /\ reply = None
    /\ inserted = None
    /\ issued = 0
    /\ clock = 0
    /\ pc = [w \in Workers |-> "idle"]
    /\ txNow = [w \in Workers |-> 0]
    /\ token = [w \in Workers |-> None]
    /\ existing = [w \in Workers |-> FALSE]
    /\ exhausted = FALSE

------------------------------------------------------------------------------
(* start_processing: the cached reply, then the claim.                       *)

\* The worker leaves _generate_reply; its session's open transaction is gone.
Leave(w) ==
    /\ pc' = [pc EXCEPT ![w] = "idle"]
    /\ txNow' = [txNow EXCEPT ![w] = 0]
    /\ token' = [token EXCEPT ![w] = None]
    /\ existing' = [existing EXCEPT ![w] = FALSE]
    /\ inserted' = IF inserted = w THEN None ELSE inserted

\* The session's transaction begins with the first statement of prepare().
Begin(w) ==
    /\ pc[w] = "idle"
    /\ pc' = [pc EXCEPT ![w] = "prepare"]
    /\ txNow' = [txNow EXCEPT ![w] = clock]
    /\ UNCHANGED <<run, reply, inserted, issued, clock, token, existing, exhausted>>

ReturnCachedReply(w) ==
    /\ pc[w] = "prepare"
    /\ reply # None
    /\ Leave(w)
    /\ UNCHANGED <<run, reply, issued, clock, exhausted>>

LoadHistory(w) ==
    /\ pc[w] = "prepare"
    /\ reply = None
    /\ pc' = [pc EXCEPT ![w] = "claim"]
    /\ UNCHANGED <<run, reply, inserted, issued, clock, txNow, token, existing, exhausted>>

\* Variant: the reclaim forgets that a lease must have run out.
Mutant_ReclaimsLiveLease(t) ==
    /\ run.attempts < MaxAttempts
    /\ run.status \in {"failed", "processing"}

\* The WHERE clause of the reclaiming UPDATE, evaluated with now() = t.
Reclaimable(t) ==
    /\ run.attempts < MaxAttempts
    /\ \/ run.status = "failed"
       \/ run.status = "processing" /\ run.expires <= t

\* The row both statements leave: a new token, a lease counted from now() = t.
ClaimedRow(t) ==
    [status |-> "processing", token |-> issued + 1, expires |-> t + Lease,
     attempts |-> run.attempts + 1, reply |-> None]

\* acquire_claim finds the row free: INSERT .. ON CONFLICT DO NOTHING, or else UPDATE.
\* acquire_processing_claim commits at once.
AcquireClaim(w) ==
    /\ pc[w] = "claim"
    /\ run.status = "absent" \/ Reclaimable(txNow[w])
    /\ run' = ClaimedRow(txNow[w])
    /\ issued' = issued + 1
    /\ token' = [token EXCEPT ![w] = issued + 1]
    /\ pc' = [pc EXCEPT ![w] = "generate"]
    /\ UNCHANGED <<reply, inserted, clock, txNow, existing, exhausted>>

\* Neither statement returned a row; another SELECT will read the run.
MissClaim(w) ==
    /\ pc[w] = "claim"
    /\ run.status # "absent"
    /\ ~Reclaimable(txNow[w])
    /\ pc' = [pc EXCEPT ![w] = "observe"]
    /\ UNCHANGED <<run, reply, inserted, issued, clock, txNow, token, existing, exhausted>>

\* Variant: a run in its last attempt counts as exhausted while its lease is running.
Mutant_ExhaustedTooEarly(t) ==
    /\ run.status \in {"failed", "processing"}
    /\ run.attempts >= MaxAttempts

\* ProcessingStart.is_attempts_exhausted on the row read at observed_at = t.
IsAttemptsExhausted(t) ==
    /\ \/ run.status = "failed"
       \/ run.status = "processing" /\ run.expires <= t
    /\ run.attempts >= MaxAttempts

\* The caller is answered ATTEMPTS_EXHAUSTED or "processing".
ObserveRun(w) ==
    /\ pc[w] = "observe"
    /\ exhausted' = (exhausted \/ IsAttemptsExhausted(txNow[w]))
    /\ Leave(w)
    /\ UNCHANGED <<run, reply, issued, clock>>

------------------------------------------------------------------------------
(* The model call and save_reply.                                            *)

\* The graph has produced a response; save_reply starts.
Generate(w) ==
    /\ pc[w] = "generate"
    /\ pc' = [pc EXCEPT ![w] = "lookup"]
    /\ UNCHANGED <<run, reply, inserted, issued, clock, txNow, token, existing, exhausted>>

LookupReply(w) ==
    /\ pc[w] = "lookup"
    /\ existing' = [existing EXCEPT ![w] = reply # None]
    /\ pc' = [pc EXCEPT ![w] = IF reply = None THEN "insert" ELSE "complete"]
    /\ UNCHANGED <<run, reply, inserted, issued, clock, txNow, token, exhausted>>

\* The flush of create_assistant_message, uncommitted; while another transaction
\* holds the unique key of reply_to_message_id, it waits.
InsertReply(w) ==
    /\ pc[w] = "insert"
    /\ inserted = None
    /\ reply = None
    /\ inserted' = w
    /\ pc' = [pc EXCEPT ![w] = "complete"]
    /\ UNCHANGED <<run, reply, issued, clock, txNow, token, existing, exhausted>>

\* IntegrityError: the transaction is rolled back and the committed reply read.
InsertConflict(w) ==
    /\ pc[w] = "insert"
    /\ inserted = None
    /\ reply # None
    /\ existing' = [existing EXCEPT ![w] = TRUE]
    /\ pc' = [pc EXCEPT ![w] = "complete"]
    /\ UNCHANGED <<run, reply, inserted, issued, clock, txNow, token, exhausted>>

\* Variant: complete_run and fail_run check the status and not the token.
Mutant_AnyProcessingRun(w) ==
    run.status = "processing"

\* The ownership predicate of complete_run and fail_run.  It does not look at expires.
OwnsRun(w) ==
    /\ run.status = "processing"
    /\ run.token = token[w]

\* complete_run, then the commit that makes reply and run visible together.
SaveReply(w) ==
    /\ pc[w] = "complete"
    /\ OwnsRun(w)
    /\ reply' = IF existing[w] THEN reply ELSE token[w]
    /\ run' = [run EXCEPT !.status = "completed", !.token = None, !.expires = 0,
                          !.reply = reply']

\* The commit's acknowledgement reaches the worker, and the caller gets the reply.
SaveAcknowledged(w) ==
    /\ SaveReply(w)
    /\ Leave(w)
    /\ UNCHANGED <<issued, clock, exhausted>>

\* The worker is cancelled while the commit is in flight, and the commit succeeds.
SaveUnacknowledged(w) ==
    /\ SaveReply(w)
    /\ inserted' = IF inserted = w THEN None ELSE inserted
    /\ pc' = [pc EXCEPT ![w] = "failing"]
    /\ UNCHANGED <<issued, clock, txNow, token, existing, exhausted>>

\* The worker drops its transaction and goes to fail_processing: complete_run
\* returned no row (RuntimeError), the graph raised, or a timeout cancelled it.
AbandonGeneration(w) ==
    /\ inserted' = IF inserted = w THEN None ELSE inserted
    /\ pc' = [pc EXCEPT ![w] = "failing"]
    /\ UNCHANGED <<run, reply, issued, clock, txNow, token, existing, exhausted>>

SaveRefused(w) ==
    /\ pc[w] = "complete"
    /\ ~OwnsRun(w)
    /\ AbandonGeneration(w)

Interrupt(w) ==
    /\ pc[w] \in Working
    /\ AbandonGeneration(w)

------------------------------------------------------------------------------
(* fail_processing, crashes and time.                                        *)

FailRun(w) ==
    /\ pc[w] = "failing"
    /\ OwnsRun(w)
    /\ run' = [run EXCEPT !.status = "failed", !.token = None, !.expires = 0]
    /\ Leave(w)
    /\ UNCHANGED <<reply, issued, clock, exhausted>>

\* fail_run returned no row: RuntimeError, nothing is changed.
FailRefused(w) ==
    /\ pc[w] = "failing"
    /\ ~OwnsRun(w)
    /\ Leave(w)
    /\ UNCHANGED <<run, reply, issued, clock, exhausted>>

\* The process dies, the worker is cancelled before it has a claim, or the cleanup
\* of a cancelled run does not finish in its five seconds; an open transaction is
\* rolled back.
Crash(w) ==
    /\ pc[w] # "idle"
    /\ Leave(w)
    /\ UNCHANGED <<run, reply, issued, clock, exhausted>>

Deadline(w) == txNow[w] + Budget

\* Time passes; a Punctual worker is interrupted before it runs past its deadline.
Tick ==
    /\ clock < MaxClock
    /\ \A w \in Punctual : pc[w] \in {"idle", "failing"} \/ clock < Deadline(w)
    /\ clock' = clock + 1
    /\ UNCHANGED <<run, reply, inserted, issued, pc, txNow, token, existing, exhausted>>

WorkerStep(w) ==
    \/ Begin(w) \/ ReturnCachedReply(w) \/ LoadHistory(w)
    \/ AcquireClaim(w) \/ MissClaim(w) \/ ObserveRun(w)
    \/ Generate(w) \/ LookupReply(w) \/ InsertReply(w) \/ InsertConflict(w)
    \/ SaveAcknowledged(w) \/ SaveUnacknowledged(w) \/ SaveRefused(w)
    \/ Interrupt(w) \/ FailRun(w) \/ FailRefused(w) \/ Crash(w)

Next == Tick \/ \E w \in Workers : WorkerStep(w)

Spec == Init /\ [][Next]_vars

------------------------------------------------------------------------------
(* Properties.                                                               *)

\* The message has a committed reply exactly when its run is completed, and the run
\* names that reply: save_reply is atomic across messages and assistant_runs, whoever
\* interrupts it and whichever stale worker is still writing.
ReplyIffCompleted ==
    /\ (run.status = "completed") <=> (reply # None)
    /\ run.reply = reply

\* A worker whose timeouts are kept still owns the run for as long as it calls the
\* model or saves: the lease always outlives the turn's deadline, so nobody reclaims
\* the run from it and no two such workers pay for the model at once.
PunctualWorkerOwnsRun ==
    \A w \in Punctual : pc[w] \in Working => OwnsRun(w)

\* Once a caller has been told ATTEMPTS_EXHAUSTED, no reply appears any more, except
\* from a worker that slept through its deadline.
ExhaustedIsFinal ==
    [][ exhausted /\ reply = None /\ reply' # None
          => \E w \in Workers \ Punctual : pc[w] = "complete" /\ reply' = token[w] ]_vars

\* The run row implements ReplyOnce: at most MaxAttempts model starts, one claim in
\* charge at a time, only that claim can answer, and the answer never changes.
Promise == INSTANCE ReplyOnce WITH
    Nobody <- None, started <- issued, inCharge <- run.token, answer <- reply

AnswersOnce == Promise!Spec
==============================================================================
