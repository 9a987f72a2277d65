------------------------- MODULE GenerationAdmission -------------------------
(* GenerationAdmission.reserve: every API worker bounds, through two tables   *)
(* of the shared database, how many generations run at once (globally and per *)
(* user), that a message is generated by one request at a time, and how many  *)
(* generations a user starts per UTC day.  A request takes its deadline from  *)
(* the event loop, decides in one short transaction serialised by an advisory *)
(* lock, runs the generation as the body of the context manager, and deletes  *)
(* its lease afterwards if it can; otherwise the lease lapses.                *)
EXTENDS Naturals, FiniteSets

CONSTANTS
    Requests,      \* calls of reserve, over all API workers
    Punctual,      \* the requests whose event loop keeps its timeouts
    Messages, Users,
    Sender,        \* the user of each message
    GlobalLimit,   \* Settings.generation_global_concurrency
    UserLimit,     \* Settings.generation_user_concurrency
    DailyLimit,    \* Settings.generation_daily_request_limit
    LeaseTime,     \* lease_seconds = assistant_run_lease_seconds * 2
    BodyTime,      \* lease_seconds - 5, counted from before the transaction
    DayLength, Retention,   \* a UTC day; timedelta(days=7)
    MaxClock,      \* bound on the clock of a run of the checker
    None           \* the holder of a lease whose request is gone; no message

ASSUME RequestAssumption == Punctual \subseteq Requests /\ None \notin Requests \cup Messages
ASSUME SenderAssumption == Sender \in [Messages -> Users]
ASSUME LimitAssumption ==
    GlobalLimit \in Nat \ {0} /\ UserLimit \in Nat \ {0} /\ DailyLimit \in Nat \ {0}
ASSUME TimeAssumption ==
    /\ LeaseTime \in Nat /\ BodyTime \in Nat /\ BodyTime < LeaseTime
    /\ DayLength \in Nat \ {0} /\ Retention \in Nat /\ MaxClock \in Nat

VARIABLES
    leases,     \* app.generation_leases; a token is known to its request only
    usage,      \* app.generation_usage, 0 where there is no row
    admitted,   \* history: generations each user was admitted to, day by day
    clock,      \* database and event-loop time
    pc,         \* where each request is in reserve
    message,    \* the message it is for
    entered     \* its event-loop time when the deadline was computed

vars == <<leases, usage, admitted, clock, pc, message, entered>>

Day(t) == t \div DayLength
Days == 0 .. Day(MaxClock)
LeaseRows == [holder: Requests \cup {None}, message: Messages, expires: Nat]

TypeOK ==
    /\ leases \subseteq LeaseRows
    /\ usage \in [Users \X Days -> 0 .. DailyLimit]
    /\ admitted \in [Users \X Days -> Nat]
    /\ clock \in 0 .. MaxClock
    /\ pc \in [Requests -> {"idle", "reserve", "body", "cleanup"}]
    /\ message \in [Requests -> Messages \cup {None}]
    /\ entered \in [Requests -> Nat]

Init ==
    /\ leases = {}
    /\ usage = [ud \in Users \X Days |-> 0]
    /\ admitted = usage
    /\ clock = 0
    /\ pc = [r \in Requests |-> "idle"]
    /\ message = [r \in Requests |-> None]
    /\ entered = [r \in Requests |-> 0]

------------------------------------------------------------------------------
\* DELETE .. WHERE expires_at <= now leaves these rows for the rest of the transaction.
LiveLeases == {l \in leases : l.expires > clock}

OfUser(rows, u) == {l \in rows : Sender[l.message] = u}

AlreadyInProgress(m) == \E l \in LiveLeases : l.message = m

\* Variant: the capacity checks admit one generation too many.
Mutant_OneTooMany(u) ==
    \/ Cardinality(LiveLeases) > GlobalLimit
    \/ Cardinality(OfUser(LiveLeases, u)) > UserLimit

CapacityExceeded(u) ==
    \/ Cardinality(LiveLeases) >= GlobalLimit
    \/ Cardinality(OfUser(LiveLeases, u)) >= UserLimit

DailyLimitExceeded(u) == usage[<<u, Day(clock)>>] >= DailyLimit

\* Variant: pruning forgets the current day's row of a user with old rows.
Mutant_PrunesToday(u) ==
    [ud \in Users \X Days |->
        CASE ud[1] = u /\ ud[2] + Retention <= Day(clock) -> 0
          [] ud = <<u, Day(clock)>> -> usage[ud] + 1
          [] OTHER -> usage[ud]]

\* The usage table after the user's rows older than Retention days are pruned and
\* today's row is inserted or incremented.
Charged(u) ==
    [ud \in Users \X Days |->
        CASE ud = <<u, Day(clock)>> -> usage[ud] + 1
          [] ud[1] = u /\ ud[2] + Retention < Day(clock) -> 0
          [] OTHER -> usage[ud]]

\* The request is over; its lease, if any, is not its concern any more.
Leave(r) ==
    /\ pc' = [pc EXCEPT ![r] = "idle"]
    /\ message' = [message EXCEPT ![r] = None]
    /\ entered' = [entered EXCEPT ![r] = 0]

Enter(r) ==
    /\ pc[r] = "idle"
    /\ \E m \in Messages : message' = [message EXCEPT ![r] = m]
    /\ pc' = [pc EXCEPT ![r] = "reserve"]
    /\ entered' = [entered EXCEPT ![r] = clock]
    /\ UNCHANGED <<leases, usage, admitted, clock>>

\* GenerationAlreadyInProgressError or GenerationAdmissionError: the transaction rolls
\* back, the lapsed leases it deleted included.
Refuse(r) ==
    LET u == Sender[message[r]] IN
    /\ pc[r] = "reserve"
    /\ AlreadyInProgress(message[r]) \/ CapacityExceeded(u) \/ DailyLimitExceeded(u)
    /\ Leave(r)
    /\ UNCHANGED <<leases, usage, admitted, clock>>

Admit(r) ==
    LET u == Sender[message[r]] IN
    /\ pc[r] = "reserve"
    /\ ~AlreadyInProgress(message[r])
    /\ ~CapacityExceeded(u)
    /\ ~DailyLimitExceeded(u)
    /\ usage' = Charged(u)
    /\ leases' = LiveLeases \cup
         {[holder |-> r, message |-> message[r], expires |-> clock + LeaseTime]}
    /\ admitted' = [admitted EXCEPT ![<<u, Day(clock)>>] = @ + 1]
    /\ pc' = [pc EXCEPT ![r] = "body"]
    /\ UNCHANGED <<clock, message, entered>>

\* The generation returns, raises, or is cut off by timeout_at(deadline).
EndBody(r) ==
    /\ pc[r] = "body"
    /\ pc' = [pc EXCEPT ![r] = "cleanup"]
    /\ UNCHANGED <<leases, usage, admitted, clock, message, entered>>

\* Variant: the cleanup deletes the message's lease, not the one with its own token.
Mutant_ReleasesByMessage(r) ==
    /\ pc[r] = "cleanup"
    /\ leases' = {l \in leases : l.message # message[r]}
    /\ Leave(r)
    /\ UNCHANGED <<usage, admitted, clock>>

Release(r) ==
    /\ pc[r] = "cleanup"
    /\ leases' = {l \in leases : l.holder # r}
    /\ Leave(r)
    /\ UNCHANGED <<usage, admitted, clock>>

\* The delete fails or outlasts its five seconds (logged, then forgotten), or the
\* process dies anywhere in reserve: the lease, if there is one, stays until it lapses.
Vanish(r) ==
    /\ pc[r] # "idle"
    /\ leases' = {IF l.holder = r THEN [l EXCEPT !.holder = None] ELSE l : l \in leases}
    /\ Leave(r)
    /\ UNCHANGED <<usage, admitted, clock>>

\* Time passes; a Punctual request does not run its body past its deadline.
Tick ==
    /\ clock < MaxClock
    /\ \A r \in Punctual : pc[r] = "body" => clock < entered[r] + BodyTime
    /\ clock' = clock + 1
    /\ UNCHANGED <<leases, usage, admitted, pc, message, entered>>

Next ==
    \/ Tick
    \/ \E r \in Requests :
        Enter(r) \/ Refuse(r) \/ Admit(r) \/ EndBody(r) \/ Release(r) \/ Vanish(r)

Spec == Init /\ [][Next]_vars

------------------------------------------------------------------------------
(* Properties.                                                               *)

Running == {r \in Punctual : pc[r] = "body"}

\* A request that keeps its deadline holds an unlapsed lease of its own for as long as
\* its generation runs, whatever was deleted as expired in the meantime.
BodyHoldsLiveLease ==
    \A r \in Running : \E l \in LiveLeases : l.holder = r /\ l.message = message[r]

\* The generations that run at any moment respect both limits, over all API workers.
ConcurrencyBounded ==
    /\ Cardinality(Running) <= GlobalLimit
    /\ \A u \in Users : Cardinality({r \in Running : Sender[message[r]] = u}) <= UserLimit

\* No message is generated by two requests at once, a retry included.
OneBodyPerMessage ==
    \A r, s \in Running : message[r] = message[s] => r = s

\* No user is admitted more than DailyLimit times in a day, and the table still knows
\* every admission of the days it has to remember: nothing is refunded by a failure.
QuotaKept ==
    \A u \in Users, d \in Days :
        /\ admitted[<<u, d>>] <= DailyLimit
        /\ d + Retention >= Day(clock) => usage[<<u, d>>] = admitted[<<u, d>>]
==============================================================================
