----------------------- MODULE AssistantRunLease_proofs -----------------------
(* Theorems about AssistantRunLease for any set of workers, any attempt limit *)
(* and any lease longer than the budget of a turn, with an unbounded clock    *)
(* (MaxClock is arbitrary).                                                   *)
EXTENDS AssistantRunLease, TLAPS

\* The check constraint state_shape of the table, for the columns the proofs need.
RunShape ==
    /\ (run.status = "processing") <=> (run.token # None)
    /\ run.status = "absent" => run.attempts = 0

\* Every granted token is charged to the row, and a worker that holds a claim has
\* a token no other worker has.
TokensIssued ==
    /\ issued = run.attempts
    /\ run.token # None => run.token <= issued
    /\ \A w \in Workers : token[w] # None => token[w] <= issued
    /\ \A w \in Workers : (token[w] # None) <=> (pc[w] \in Working \cup {"failing"})
    /\ \A v, w \in Workers : token[v] = token[w] /\ token[v] # None => v = w

\* What save_reply found stays found.
ExistingSeen == \A w \in Workers : existing[w] => reply # None

\* A punctual worker runs within its deadline, which its own lease outlives.
OnTime ==
    /\ \A w \in Workers : txNow[w] <= clock
    /\ \A w \in Punctual : pc[w] \in {"idle", "failing"} \/ clock <= Deadline(w)
    /\ \A w \in Punctual : pc[w] \in Working =>
            OwnsRun(w) /\ run.expires = txNow[w] + Lease

\* After ATTEMPTS_EXHAUSTED only the holder of a lapsed lease could still answer.
NothingLeft ==
    exhausted /\ reply = None =>
        /\ run.attempts >= MaxAttempts
        /\ \/ run.status = "failed"
           \/ run.status = "processing" /\ run.expires <= clock

Inv == /\ TypeOK
       /\ RunShape
       /\ ReplyIffCompleted
       /\ TokensIssued
       /\ ExistingSeen

TimedInv == OnTime /\ NothingLeft

Assumptions == /\ Punctual \subseteq Workers
               /\ MaxAttempts \in Nat \ {0}
               /\ Lease \in Nat \ {0} /\ Budget \in Nat /\ Budget < Lease
               /\ MaxClock \in Nat
               /\ None \notin Nat /\ None \notin Workers

\* The assumptions on the constants, under one name.
LEMMA Assumed == Assumptions
BY PunctualAssumption, AttemptsAssumption, LeaseAssumption, ClockAssumption,
   NoneAssumption DEF Assumptions

------------------------------------------------------------------------------
\* An unprocessed message satisfies the invariant.
LEMMA InvInit == Init => Inv
<1> SUFFICES ASSUME Init PROVE Inv
  OBVIOUS
<1> USE Assumed DEF Assumptions, Init
<1>1. TypeOK
  <2>1. run \in [status: Statuses, token: Tokens \cup {None}, expires: Nat,
                 attempts: 0 .. MaxAttempts, reply: Tokens \cup {None}]
    BY DEF Statuses
  <2>2. /\ inserted \in Workers \cup {None} /\ issued \in 0 .. MaxAttempts /\ clock \in Nat
        /\ pc \in [Workers -> PCs] /\ txNow \in [Workers -> Nat]
        /\ token \in [Workers -> Tokens \cup {None}] /\ existing \in [Workers -> BOOLEAN]
    BY DEF PCs, Tokens
  <2> QED
    BY <2>1, <2>2 DEF TypeOK
<1>2. RunShape /\ ReplyIffCompleted /\ ExistingSeen
  BY DEF RunShape, ReplyIffCompleted, ExistingSeen
<1>3. TokensIssued
  BY DEF TokensIssued, Working
<1> QED
  BY <1>1, <1>2, <1>3 DEF Inv

\* Every step of every worker keeps the invariant: no clock is involved.
LEMMA InvNext == Inv /\ [Next]_vars => Inv'
<1> SUFFICES ASSUME Inv, [Next]_vars PROVE Inv'
  OBVIOUS
<1> USE Assumed DEF Assumptions, Inv, TypeOK, RunShape, ReplyIffCompleted, TokensIssued,
        ExistingSeen, Statuses, PCs, Working, Tokens, Leave, OwnsRun, AbandonGeneration
<1>1. ASSUME NEW w \in Workers, Begin(w) PROVE Inv'
  BY <1>1 DEF Begin
<1>2. ASSUME NEW w \in Workers, ReturnCachedReply(w) PROVE Inv'
  BY <1>2 DEF ReturnCachedReply
<1>3. ASSUME NEW w \in Workers, LoadHistory(w) PROVE Inv'
  BY <1>3 DEF LoadHistory
<1>4. ASSUME NEW w \in Workers, AcquireClaim(w) PROVE Inv'
  BY <1>4 DEF AcquireClaim, Reclaimable, ClaimedRow
<1>5. ASSUME NEW w \in Workers, MissClaim(w) PROVE Inv'
  BY <1>5 DEF MissClaim
<1>6. ASSUME NEW w \in Workers, ObserveRun(w) PROVE Inv'
  BY <1>6 DEF ObserveRun, IsAttemptsExhausted
<1>7. ASSUME NEW w \in Workers, Generate(w) PROVE Inv'
  BY <1>7 DEF Generate
<1>8. ASSUME NEW w \in Workers, LookupReply(w) PROVE Inv'
  BY <1>8 DEF LookupReply
<1>9. ASSUME NEW w \in Workers, InsertReply(w) PROVE Inv'
  BY <1>9 DEF InsertReply
<1>10. ASSUME NEW w \in Workers, InsertConflict(w) PROVE Inv'
  BY <1>10 DEF InsertConflict
<1>11. ASSUME NEW w \in Workers, SaveAcknowledged(w) PROVE Inv'
  BY <1>11 DEF SaveAcknowledged, SaveReply
<1>12. ASSUME NEW w \in Workers, SaveUnacknowledged(w) PROVE Inv'
  BY <1>12 DEF SaveUnacknowledged, SaveReply
<1>13. ASSUME NEW w \in Workers, SaveRefused(w) PROVE Inv'
  BY <1>13 DEF SaveRefused
<1>14. ASSUME NEW w \in Workers, Interrupt(w) PROVE Inv'
  BY <1>14 DEF Interrupt
<1>15. ASSUME NEW w \in Workers, FailRun(w) PROVE Inv'
  <2>1. /\ run' = [run EXCEPT !.status = "failed", !.token = None, !.expires = 0]
        /\ run'.status = "failed" /\ run'.token = None /\ run'.reply = run.reply
        /\ run'.attempts = run.attempts
    BY <1>15 DEF FailRun
  <2>2. run' \in [status: Statuses, token: Tokens \cup {None}, expires: Nat,
                  attempts: 0 .. MaxAttempts, reply: Tokens \cup {None}]
    BY <2>1
  <2>3. TypeOK'
    BY <1>15, <2>2 DEF FailRun
  <2>4. RunShape' /\ ReplyIffCompleted' /\ TokensIssued' /\ ExistingSeen'
    BY <1>15, <2>1 DEF FailRun
  <2> QED
    BY <2>3, <2>4
<1>16. ASSUME NEW w \in Workers, FailRefused(w) PROVE Inv'
  BY <1>16 DEF FailRefused
<1>17. ASSUME NEW w \in Workers, Crash(w) PROVE Inv'
  BY <1>17 DEF Crash
<1>18. CASE Tick
  BY <1>18 DEF Tick
<1>19. CASE UNCHANGED vars
  BY <1>19 DEF vars
<1> QED
  BY <1>1, <1>2, <1>3, <1>4, <1>5, <1>6, <1>7, <1>8, <1>9, <1>10, <1>11, <1>12, <1>13,
     <1>14, <1>15, <1>16, <1>17, <1>18, <1>19 DEF Next, WorkerStep
------------------------------------------------------------------------------
\* An idle world is on time and nobody has been refused.
LEMMA TimedInit == Init => TimedInv
<1> SUFFICES ASSUME Init PROVE TimedInv
  OBVIOUS
<1> QED
  BY Assumed DEF Assumptions, Init, TimedInv, OnTime, NothingLeft, Working

\* Timeliness and exhaustion are kept too: a reclaim would need the lease of a punctual
\* worker to lapse before its deadline.
LEMMA TimedNext == Inv /\ TimedInv /\ [Next]_vars => TimedInv'
<1> SUFFICES ASSUME Inv, TimedInv, [Next]_vars PROVE TimedInv'
  OBVIOUS
<1> USE Assumed DEF Assumptions, Inv, TypeOK, RunShape, ReplyIffCompleted, TokensIssued,
        ExistingSeen, Statuses, PCs, Working, Tokens, Leave, OwnsRun, AbandonGeneration,
        TimedInv, OnTime, NothingLeft, Deadline
<1>1. ASSUME NEW w \in Workers, Begin(w) PROVE TimedInv'
  BY <1>1 DEF Begin
<1>2. ASSUME NEW w \in Workers, ReturnCachedReply(w) PROVE TimedInv'
  BY <1>2 DEF ReturnCachedReply
<1>3. ASSUME NEW w \in Workers, LoadHistory(w) PROVE TimedInv'
  BY <1>3 DEF LoadHistory
<1>4. ASSUME NEW w \in Workers, AcquireClaim(w) PROVE TimedInv'
  BY <1>4 DEF AcquireClaim, Reclaimable, ClaimedRow
<1>5. ASSUME NEW w \in Workers, MissClaim(w) PROVE TimedInv'
  BY <1>5 DEF MissClaim
<1>6. ASSUME NEW w \in Workers, ObserveRun(w) PROVE TimedInv'
  BY <1>6 DEF ObserveRun, IsAttemptsExhausted
<1>7. ASSUME NEW w \in Workers, Generate(w) PROVE TimedInv'
  BY <1>7 DEF Generate
<1>8. ASSUME NEW w \in Workers, LookupReply(w) PROVE TimedInv'
  BY <1>8 DEF LookupReply
<1>9. ASSUME NEW w \in Workers, InsertReply(w) PROVE TimedInv'
  BY <1>9 DEF InsertReply
<1>10. ASSUME NEW w \in Workers, InsertConflict(w) PROVE TimedInv'
  BY <1>10 DEF InsertConflict
<1>11. ASSUME NEW w \in Workers, SaveAcknowledged(w) PROVE TimedInv'
  BY <1>11 DEF SaveAcknowledged, SaveReply
<1>12. ASSUME NEW w \in Workers, SaveUnacknowledged(w) PROVE TimedInv'
  BY <1>12 DEF SaveUnacknowledged, SaveReply
<1>13. ASSUME NEW w \in Workers, SaveRefused(w) PROVE TimedInv'
  BY <1>13 DEF SaveRefused
<1>14. ASSUME NEW w \in Workers, Interrupt(w) PROVE TimedInv'
  BY <1>14 DEF Interrupt
<1>15. ASSUME NEW w \in Workers, FailRun(w) PROVE TimedInv'
  BY <1>15 DEF FailRun
<1>16. ASSUME NEW w \in Workers, FailRefused(w) PROVE TimedInv'
  BY <1>16 DEF FailRefused
<1>17. ASSUME NEW w \in Workers, Crash(w) PROVE TimedInv'
  BY <1>17 DEF Crash
<1>18. CASE Tick
  BY <1>18 DEF Tick
<1>19. CASE UNCHANGED vars
  BY <1>19 DEF vars
<1> QED
  BY <1>1, <1>2, <1>3, <1>4, <1>5, <1>6, <1>7, <1>8, <1>9, <1>10, <1>11, <1>12, <1>13,
     <1>14, <1>15, <1>16, <1>17, <1>18, <1>19 DEF Next, WorkerStep

------------------------------------------------------------------------------
\* Both invariants hold of every reachable state.
LEMMA Invariance == Spec => [](Inv /\ TimedInv)
<1>1. Init => Inv /\ TimedInv
  BY InvInit, TimedInit
<1>2. Inv /\ TimedInv /\ [Next]_vars => (Inv /\ TimedInv)'
  BY InvNext, TimedNext
<1> QED
  BY <1>1, <1>2, PTL DEF Spec

\* Every variable keeps its type: in particular no more than MaxAttempts claims are
\* ever granted, whatever the retries of the client.
THEOREM TypeCorrect == Spec => []TypeOK
<1>1. Inv => TypeOK
  BY DEF Inv
<1> QED
  BY <1>1, Invariance, PTL

\* save_reply is atomic: a committed reply and a completed run always go together.
THEOREM ReplyAtomic == Spec => []ReplyIffCompleted
<1>1. Inv => ReplyIffCompleted
  BY DEF Inv
<1> QED
  BY <1>1, Invariance, PTL

\* A worker that keeps its deadline is never dispossessed while it works.
THEOREM PunctualOwnership == Spec => []PunctualWorkerOwnsRun
<1>1. TimedInv => PunctualWorkerOwnsRun
  BY DEF TimedInv, OnTime, PunctualWorkerOwnsRun
<1> QED
  BY <1>1, Invariance, PTL

\* After ATTEMPTS_EXHAUSTED only a worker that slept through its deadline can answer.
THEOREM ExhaustionFinal == Spec => ExhaustedIsFinal
<1> DEFINE Late(w) == pc[w] = "complete" /\ reply' = token[w]
<1>1. ASSUME Inv, TimedInv, [Next]_vars, exhausted, reply = None, reply' # None
      PROVE  \E w \in Workers \ Punctual : Late(w)
  <2>1. PICK w \in Workers : SaveReply(w)
    BY <1>1 DEF Next, WorkerStep, vars, Begin, ReturnCachedReply, LoadHistory, AcquireClaim,
       MissClaim, ObserveRun, Generate, LookupReply, InsertReply, InsertConflict,
       SaveAcknowledged, SaveUnacknowledged, SaveRefused, Interrupt, AbandonGeneration,
       FailRun, FailRefused, Crash, Tick
  <2>2. ~existing[w] /\ reply' = token[w] /\ pc[w] = "complete"
    BY <1>1, <2>1 DEF SaveReply, Inv, ExistingSeen
  <2>3. run.status = "processing" /\ run.expires <= clock
    BY <1>1, <2>1 DEF SaveReply, OwnsRun, TimedInv, NothingLeft
  <2>4. w \notin Punctual
    <3> SUFFICES ASSUME w \in Punctual PROVE FALSE
      OBVIOUS
    <3>1. run.expires = txNow[w] + Lease /\ clock <= txNow[w] + Budget
      BY <1>1, <2>2 DEF TimedInv, OnTime, Working, Deadline
    <3> QED
      BY <1>1, <2>3, <3>1, Assumed DEF Assumptions, Inv, TypeOK
  <2> QED
    BY <2>2, <2>4
<1>2. Inv /\ TimedInv /\ [Next]_vars =>
        [ exhausted /\ reply = None /\ reply' # None
            => \E w \in Workers \ Punctual : pc[w] = "complete" /\ reply' = token[w] ]_vars
  BY <1>1
<1> QED
  BY <1>2, Invariance, PTL DEF Spec, ExhaustedIsFinal

------------------------------------------------------------------------------
(* The refinement.                                                           *)

\* A claim in the row is a start in charge.
LEMMA PromiseInit == Init => Promise!Init
BY DEF Init, Promise!Init

\* Each step of the workers is a start, an answer, a surrender or nothing to ReplyOnce.
LEMMA PromiseNext == Inv /\ [Next]_vars => [Promise!Next]_(Promise!vars)
<1> SUFFICES ASSUME Inv, [Next]_vars PROVE [Promise!Next]_(Promise!vars)
  OBVIOUS
<1> USE DEF Promise!vars
<1>1. ASSUME NEW w \in Workers, AcquireClaim(w) PROVE Promise!Start
  <2>1. run.attempts < MaxAttempts /\ reply = None
    BY <1>1, Assumed DEF AcquireClaim, Reclaimable, Inv, RunShape, ReplyIffCompleted,
       Assumptions, TypeOK
  <2>2. issued < MaxAttempts /\ issued' = issued + 1 /\ run'.token = issued'
    BY <1>1, <2>1 DEF AcquireClaim, ClaimedRow, Inv, TokensIssued
  <2> QED
    BY <1>1, <2>1, <2>2 DEF Promise!Start, AcquireClaim
<1>2. ASSUME NEW w \in Workers, SaveReply(w), UNCHANGED issued PROVE Promise!Answer
  <2>1. ~existing[w] /\ run.token # None /\ run.token = token[w]
    BY <1>2 DEF SaveReply, OwnsRun, Inv, ExistingSeen, ReplyIffCompleted, RunShape
  <2>2. run'.token = None
    BY <1>2 DEF SaveReply, Inv, TypeOK
  <2> QED
    BY <1>2, <2>1, <2>2 DEF Promise!Answer, SaveReply
<1>3. ASSUME NEW w \in Workers, FailRun(w) PROVE Promise!GiveUp
  <2>1. run.token # None /\ run'.token = None
    BY <1>3 DEF FailRun, OwnsRun, Inv, RunShape, TypeOK
  <2> QED
    BY <1>3, <2>1 DEF FailRun, Promise!GiveUp
<1>4. CASE UNCHANGED <<run, reply, issued>>
  BY <1>4
<1> QED
  BY <1>1, <1>2, <1>3, <1>4 DEF Next, WorkerStep, vars, Begin, ReturnCachedReply,
     LoadHistory, MissClaim, ObserveRun, Generate, LookupReply, InsertReply,
     InsertConflict, SaveAcknowledged, SaveUnacknowledged, SaveRefused, Interrupt,
     AbandonGeneration, FailRefused, Crash, Tick, Promise!Next

\* The run row keeps the promise of ReplyOnce: a bounded number of model starts, one
\* claim in charge at a time, one unchanging answer, given by the claim in charge.
THEOREM ImplementsReplyOnce == Spec => AnswersOnce
<1>1. Inv /\ TimedInv /\ [Next]_vars => [Promise!Next]_(Promise!vars)
  BY PromiseNext
<1> QED
  BY <1>1, PromiseInit, Invariance, PTL DEF Spec, AnswersOnce, Promise!Spec
===============================================================================
