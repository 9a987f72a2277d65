---------------------- MODULE GenerationAdmission_proofs ----------------------
(* Theorems about GenerationAdmission for any set of requests, messages and   *)
(* users, any limits, and any lease that is longer than the time of a body.   *)
EXTENDS GenerationAdmission, FunctionTheorems, FiniteSetTheorems, TLAPS

\* A request in reserve is there for a message, and has entered by now.
RequestShape ==
    \A r \in Requests : /\ pc[r] # "idle" => message[r] \in Messages
                        /\ entered[r] <= clock

\* What uq_generation_leases_user_message says of the rows.
OneLeasePerMessage == \A l, k \in leases : l.message = k.message => l = k

\* The lease of a body that is punctual outlives the body's deadline.
BodyLease ==
    \A r \in Punctual : pc[r] = "body" =>
        \E l \in leases : /\ l.holder = r /\ l.message = message[r]
                          /\ l.expires > clock /\ l.expires >= entered[r] + LeaseTime

\* The messages that the leases of a set are for.
MessagesOf(rows) == {l.message : l \in rows}

\* The limits, as bounds on the messages that are being generated: unlike the leases,
\* these do not change when a request forgets its lease.
LimitsKept ==
    /\ IsFiniteSet(leases)
    /\ Cardinality(MessagesOf(LiveLeases)) <= GlobalLimit
    /\ \A u \in Users : Cardinality(MessagesOf(OfUser(LiveLeases, u))) <= UserLimit

LeaseInv == TypeOK /\ RequestShape /\ OneLeasePerMessage /\ BodyLease
Inv == LeaseInv /\ LimitsKept

Assumptions == /\ Punctual \subseteq Requests /\ None \notin Requests \cup Messages
               /\ Sender \in [Messages -> Users]
               /\ GlobalLimit \in Nat \ {0} /\ UserLimit \in Nat \ {0}
               /\ DailyLimit \in Nat \ {0}
               /\ LeaseTime \in Nat /\ BodyTime \in Nat /\ BodyTime < LeaseTime
               /\ DayLength \in Nat \ {0} /\ Retention \in Nat /\ MaxClock \in Nat

\* The assumptions on the constants, under one name.
LEMMA Assumed == Assumptions
BY RequestAssumption, SenderAssumption, LimitAssumption, TimeAssumption DEF Assumptions

\* Days are numbered from 0 and never run backwards.
LEMMA DayMonotone ==
    ASSUME NEW s \in Nat, NEW t \in Nat, s <= t
    PROVE  Day(s) \in Nat /\ Day(t) \in Nat /\ Day(s) <= Day(t)
BY Assumed DEF Assumptions, Day

------------------------------------------------------------------------------
(* Types and leases.                                                         *)

\* Nobody has asked for anything yet.
LEMMA LeaseInit == Init => LeaseInv
<1> SUFFICES ASSUME Init PROVE LeaseInv
  OBVIOUS
<1> USE Assumed DEF Assumptions, Init
<1>1. usage \in [Users \X Days -> 0 .. DailyLimit] /\ usage \in [Users \X Days -> Nat]
  OBVIOUS
<1>2. TypeOK
  BY <1>1 DEF TypeOK
<1> QED
  BY <1>2 DEF LeaseInv, RequestShape, OneLeasePerMessage, BodyLease

\* A request that leaves has no message and no deadline.
LEMMA LeaveTypes ==
    ASSUME TypeOK, RequestShape, NEW r \in Requests, Leave(r), UNCHANGED clock
    PROVE  /\ pc' \in [Requests -> {"idle", "reserve", "body", "cleanup"}]
           /\ message' \in [Requests -> Messages \cup {None}]
           /\ entered' \in [Requests -> Nat]
           /\ RequestShape'
           /\ pc'[r] = "idle"
           /\ \A q \in Requests \ {r} :
                pc'[q] = pc[q] /\ message'[q] = message[q] /\ entered'[q] = entered[q]
BY DEF TypeOK, RequestShape, Leave

\* The day of the clock is one of Days.
LEMMA Today == TypeOK => Day(clock) \in Days
<1> SUFFICES ASSUME TypeOK PROVE Day(clock) \in Days
  OBVIOUS
<1>1. clock \in Nat /\ MaxClock \in Nat /\ clock <= MaxClock
  BY Assumed DEF TypeOK, Assumptions
<1> QED
  BY <1>1, DayMonotone DEF Days

\* Every step keeps types and leases as they should be.
LEMMA LeaseNext == LeaseInv /\ [Next]_vars => LeaseInv'
<1> SUFFICES ASSUME LeaseInv, [Next]_vars PROVE LeaseInv'
  OBVIOUS
<1> USE Assumed DEF Assumptions, LeaseInv
<1>1. CASE Tick
  <2>1. TypeOK'
    BY <1>1 DEF Tick, TypeOK
  <2>2. RequestShape' /\ OneLeasePerMessage'
    BY <1>1 DEF Tick, TypeOK, RequestShape, OneLeasePerMessage
  <2>3. BodyLease'
    <3> SUFFICES ASSUME NEW r \in Punctual, pc[r] = "body"
                 PROVE  \E l \in leases : /\ l.holder = r /\ l.message = message[r]
                                          /\ l.expires > clock + 1
                                          /\ l.expires >= entered[r] + LeaseTime
      BY <1>1 DEF Tick, BodyLease
    <3>1. PICK l \in leases : /\ l.holder = r /\ l.message = message[r]
                              /\ l.expires > clock /\ l.expires >= entered[r] + LeaseTime
      BY DEF BodyLease
    <3>2. clock < entered[r] + BodyTime
      BY <1>1 DEF Tick
    <3>3. l.expires \in Nat /\ entered[r] \in Nat /\ clock \in Nat
      BY DEF TypeOK, LeaseRows
    <3>4. l.expires > clock + 1
      BY <3>1, <3>2, <3>3
    <3> QED
      BY <3>1, <3>4
  <2> QED
    BY <2>1, <2>2, <2>3
<1>2. ASSUME NEW r \in Requests, Enter(r) PROVE LeaseInv'
  <2>1. TypeOK'
    BY <1>2 DEF Enter, TypeOK
  <2>2. RequestShape' /\ OneLeasePerMessage' /\ BodyLease'
    BY <1>2 DEF Enter, TypeOK, RequestShape, OneLeasePerMessage, BodyLease
  <2> QED
    BY <2>1, <2>2
<1>3. ASSUME NEW r \in Requests, Refuse(r) PROVE LeaseInv'
  <2>1. Leave(r) /\ UNCHANGED <<leases, usage, admitted, clock>>
    BY <1>3 DEF Refuse
  <2>2. TypeOK'
    BY <2>1, LeaveTypes DEF TypeOK
  <2> QED
    BY <2>1, <2>2, LeaveTypes DEF OneLeasePerMessage, BodyLease
<1>4. ASSUME NEW r \in Requests, Admit(r) PROVE LeaseInv'
  <2> DEFINE u == Sender[message[r]]
             row == [holder |-> r, message |-> message[r], expires |-> clock + LeaseTime]
  <2>1. message[r] \in Messages /\ u \in Users /\ clock \in Nat
    BY <1>4 DEF Admit, RequestShape, TypeOK
  <2>2. row \in LeaseRows /\ leases' = LiveLeases \cup {row} /\ LiveLeases \subseteq leases
    BY <1>4, <2>1 DEF Admit, LeaseRows, LiveLeases
  <2>3. /\ pc' = [pc EXCEPT ![r] = "body"] /\ UNCHANGED <<clock, message, entered>>
        /\ \A l \in LiveLeases : l.message # message[r]
    BY <1>4 DEF Admit, AlreadyInProgress
  <2>4. usage' \in [Users \X Days -> 0 .. DailyLimit]
    <3>1. ASSUME NEW ud \in Users \X Days
          PROVE  (CASE ud = <<u, Day(clock)>> -> usage[ud] + 1
                    [] ud[1] = u /\ ud[2] + Retention < Day(clock) -> 0
                    [] OTHER -> usage[ud]) \in 0 .. DailyLimit
      <4>1. usage[ud] \in 0 .. DailyLimit
        BY DEF TypeOK
      <4>2. CASE ud = <<u, Day(clock)>>
        <5>1. ~(usage[ud] >= DailyLimit)
          BY <1>4, <4>2 DEF Admit, DailyLimitExceeded
        <5> QED
          BY <4>1, <4>2, <5>1
      <4> QED
        BY <4>1, <4>2
    <3> QED
      BY <1>4, <3>1 DEF Admit, Charged
  <2>5. admitted' \in [Users \X Days -> Nat]
    <3>1. <<u, Day(clock)>> \in Users \X Days
      BY <2>1, Today
    <3>2. admitted' = [admitted EXCEPT ![<<u, Day(clock)>>] = admitted[<<u, Day(clock)>>] + 1]
      BY <1>4 DEF Admit
    <3> HIDE DEF u
    <3> QED
      BY <3>1, <3>2 DEF TypeOK
  <2>6. TypeOK'
    BY <2>2, <2>3, <2>4, <2>5 DEF TypeOK
  <2>7. RequestShape'
    BY <2>1, <2>3 DEF RequestShape, TypeOK
  <2>8. OneLeasePerMessage'
    BY <2>2, <2>3 DEF OneLeasePerMessage
  <2>9. BodyLease'
    <3> SUFFICES ASSUME NEW q \in Punctual, pc'[q] = "body"
                 PROVE  \E l \in leases' : /\ l.holder = q /\ l.message = message[q]
                                           /\ l.expires > clock
                                           /\ l.expires >= entered[q] + LeaseTime
      BY <2>3 DEF BodyLease
    <3>1. CASE q = r
      <4>1. entered[r] \in Nat /\ entered[r] <= clock
        BY DEF TypeOK, RequestShape
      <4>2. row.expires > clock /\ row.expires >= entered[q] + LeaseTime
        BY <2>1, <3>1, <4>1
      <4> QED
        BY <2>2, <3>1, <4>2
    <3>2. CASE q # r
      <4>1. pc[q] = "body"
        BY <2>3, <3>2 DEF TypeOK
      <4> QED
        BY <2>2, <4>1 DEF BodyLease, LiveLeases
    <3> QED
      BY <3>1, <3>2
  <2> QED
    BY <2>6, <2>7, <2>8, <2>9
<1>5. ASSUME NEW r \in Requests, EndBody(r) PROVE LeaseInv'
  <2>1. TypeOK'
    BY <1>5 DEF EndBody, TypeOK
  <2>2. RequestShape' /\ OneLeasePerMessage' /\ BodyLease'
    BY <1>5 DEF EndBody, TypeOK, RequestShape, OneLeasePerMessage, BodyLease
  <2> QED
    BY <2>1, <2>2
<1>6. ASSUME NEW r \in Requests, Release(r) PROVE LeaseInv'
  <2>1. /\ Leave(r) /\ UNCHANGED <<usage, admitted, clock>>
        /\ leases' = {l \in leases : l.holder # r}
    BY <1>6 DEF Release
  <2>2. TypeOK'
    BY <2>1, LeaveTypes DEF TypeOK
  <2> QED
    BY <2>1, <2>2, LeaveTypes DEF OneLeasePerMessage, BodyLease
<1>7. ASSUME NEW r \in Requests, Vanish(r) PROVE LeaseInv'
  <2>1. /\ Leave(r) /\ UNCHANGED <<usage, admitted, clock>>
        /\ leases' = {IF l.holder = r THEN [l EXCEPT !.holder = None] ELSE l : l \in leases}
    BY <1>7 DEF Vanish
  <2>2. ASSUME NEW l \in leases
        PROVE  LET k == IF l.holder = r THEN [l EXCEPT !.holder = None] ELSE l IN
               k \in LeaseRows /\ k.message = l.message /\ (l.holder # r => k = l)
    BY DEF TypeOK, LeaseRows
  <2>3. leases' \subseteq LeaseRows
    BY <2>1, <2>2
  <2>4. TypeOK'
    BY <2>1, <2>3, LeaveTypes DEF TypeOK
  <2>5. OneLeasePerMessage'
    <3> SUFFICES ASSUME NEW l \in leases', NEW k \in leases', l.message = k.message
                 PROVE  l = k
      BY DEF OneLeasePerMessage
    <3>1. PICK a \in leases : l = IF a.holder = r THEN [a EXCEPT !.holder = None] ELSE a
      BY <2>1
    <3>2. PICK b \in leases : k = IF b.holder = r THEN [b EXCEPT !.holder = None] ELSE b
      BY <2>1
    <3>3. a.message = b.message
      BY <2>2, <3>1, <3>2
    <3>4. a = b
      BY <3>3 DEF OneLeasePerMessage
    <3> QED
      BY <3>1, <3>2, <3>4
  <2>6. BodyLease'
    BY <2>1, <2>2, LeaveTypes DEF BodyLease
  <2> QED
    BY <2>1, <2>4, <2>5, <2>6, LeaveTypes
<1>8. CASE UNCHANGED vars
  <2>1. TypeOK'
    BY <1>8 DEF vars, TypeOK
  <2> QED
    BY <1>8, <2>1 DEF vars, RequestShape, OneLeasePerMessage, BodyLease
<1> QED
  BY <1>1, <1>2, <1>3, <1>4, <1>5, <1>6, <1>7, <1>8 DEF Next

------------------------------------------------------------------------------
(* Limits.                                                                   *)

\* There are no more messages than leases.
LEMMA MessagesCounted ==
    ASSUME NEW rows, IsFiniteSet(rows)
    PROVE  /\ IsFiniteSet(MessagesOf(rows))
           /\ Cardinality(MessagesOf(rows)) \in Nat
           /\ Cardinality(MessagesOf(rows)) <= Cardinality(rows)
<1> DEFINE f == [l \in rows |-> l.message]
<1>1. f \in Surjection(rows, MessagesOf(rows))
  BY DEF Surjection, MessagesOf
<1>2. IsFiniteSet(MessagesOf(rows)) /\ Cardinality(MessagesOf(rows)) <= Cardinality(rows)
  BY <1>1, FS_Surjection
<1> QED
  BY <1>2, FS_CardinalityType

\* Where leases go and time passes, the limits are kept.
LEMMA LimitsShrink ==
    ASSUME LeaseInv, LimitsKept, leases' \subseteq leases,
           clock' \in Nat, clock <= clock'
    PROVE  LimitsKept'
<1>1. LiveLeases' \subseteq LiveLeases /\ LiveLeases \subseteq leases
  BY DEF LiveLeases, LeaseInv, TypeOK, LeaseRows
<1>2. IsFiniteSet(leases') /\ IsFiniteSet(LiveLeases)
  BY <1>1, FS_Subset DEF LimitsKept
<1>3. ASSUME NEW rows \in SUBSET LiveLeases, NEW fewer \in SUBSET rows,
             NEW limit \in Nat, Cardinality(MessagesOf(rows)) <= limit
      PROVE  Cardinality(MessagesOf(fewer)) <= limit
  <2>1. IsFiniteSet(rows) /\ IsFiniteSet(fewer)
    BY <1>2, FS_Subset
  <2>2. IsFiniteSet(MessagesOf(rows)) /\ MessagesOf(fewer) \subseteq MessagesOf(rows)
    BY <2>1, MessagesCounted DEF MessagesOf
  <2>3. /\ Cardinality(MessagesOf(fewer)) <= Cardinality(MessagesOf(rows))
        /\ Cardinality(MessagesOf(fewer)) \in Nat /\ Cardinality(MessagesOf(rows)) \in Nat
    BY <2>1, <2>2, FS_Subset, MessagesCounted
  <2> QED
    BY <1>3, <2>3
<1>4. Cardinality(MessagesOf(LiveLeases')) <= GlobalLimit
  BY <1>1, <1>3, Assumed DEF LimitsKept, Assumptions
<1>5. ASSUME NEW u \in Users
      PROVE  Cardinality(MessagesOf(OfUser(LiveLeases', u))) <= UserLimit
  <2>1. OfUser(LiveLeases', u) \subseteq OfUser(LiveLeases, u)
        /\ OfUser(LiveLeases, u) \subseteq LiveLeases
    BY <1>1 DEF OfUser
  <2> QED
    BY <1>3, <2>1, Assumed DEF LimitsKept, Assumptions
<1> QED
  BY <1>2, <1>4, <1>5 DEF LimitsKept, LiveLeases

\* An admission adds one message where there was room for one.
LEMMA LimitsAdmit ==
    ASSUME LeaseInv, LimitsKept, NEW r \in Requests, Admit(r)
    PROVE  LimitsKept'
<1> USE Assumed DEF Assumptions
<1> DEFINE m == message[r]
           row == [holder |-> r, message |-> m, expires |-> clock + LeaseTime]
<1>1. m \in Messages /\ Sender[m] \in Users /\ clock \in Nat
  BY DEF Admit, LeaseInv, RequestShape, TypeOK
<1>2. leases' = LiveLeases \cup {row} /\ clock' = clock /\ row.expires > clock
      /\ row.message = m
  BY <1>1 DEF Admit
<1>3. LiveLeases' = LiveLeases \cup {row}
  BY <1>2 DEF LiveLeases
<1> HIDE DEF row, m
<1>4. IsFiniteSet(LiveLeases) /\ IsFiniteSet(leases')
  <2>1. IsFiniteSet(LiveLeases)
    BY FS_Subset DEF LiveLeases, LimitsKept
  <2> QED
    BY <1>2, <2>1, FS_AddElement
<1>5. ASSUME NEW rows \in SUBSET LiveLeases, NEW limit \in Nat,
             ~(Cardinality(rows) >= limit)
      PROVE  Cardinality(MessagesOf(rows \cup {row})) <= limit
  <2>1. MessagesOf(rows \cup {row}) = MessagesOf(rows) \cup {m}
    BY <1>2 DEF MessagesOf
  <2>2. IsFiniteSet(rows)
    BY <1>4, FS_Subset
  <2>3. /\ IsFiniteSet(MessagesOf(rows)) /\ Cardinality(MessagesOf(rows)) \in Nat
        /\ Cardinality(MessagesOf(rows)) <= Cardinality(rows)
        /\ Cardinality(rows) \in Nat
    BY <2>2, MessagesCounted, FS_CardinalityType
  <2>4. Cardinality(MessagesOf(rows) \cup {m}) <= Cardinality(MessagesOf(rows)) + 1
    <3>1. Cardinality(MessagesOf(rows) \cup {m}) =
            IF m \in MessagesOf(rows) THEN Cardinality(MessagesOf(rows))
                                      ELSE Cardinality(MessagesOf(rows)) + 1
      BY <2>3, FS_AddElement
    <3> QED
      BY <2>3, <3>1
  <2>5. Cardinality(MessagesOf(rows) \cup {m}) \in Nat
    BY <2>3, FS_AddElement, FS_CardinalityType
  <2> QED
    BY <1>5, <2>1, <2>3, <2>4, <2>5
<1>6. ~(Cardinality(LiveLeases) >= GlobalLimit)
      /\ ~(Cardinality(OfUser(LiveLeases, Sender[m])) >= UserLimit)
  BY DEF Admit, CapacityExceeded, m
<1>7. Cardinality(MessagesOf(LiveLeases')) <= GlobalLimit
  BY <1>3, <1>5, <1>6
<1>8. ASSUME NEW u \in Users
      PROVE  Cardinality(MessagesOf(OfUser(LiveLeases', u))) <= UserLimit
  <2>1. CASE u = Sender[m]
    <3>1. OfUser(LiveLeases', u) = OfUser(LiveLeases, u) \cup {row}
      BY <1>2, <1>3, <2>1 DEF OfUser
    <3>2. OfUser(LiveLeases, u) \in SUBSET LiveLeases
      BY DEF OfUser
    <3> QED
      BY <1>5, <1>6, <2>1, <3>1, <3>2
  <2>2. CASE u # Sender[m]
    <3>1. OfUser(LiveLeases', u) = OfUser(LiveLeases, u)
      BY <1>2, <1>3, <2>2 DEF OfUser
    <3> QED
      BY <3>1 DEF LimitsKept
  <2> QED
    BY <2>1, <2>2
<1> QED
  BY <1>4, <1>7, <1>8 DEF LimitsKept, LiveLeases

\* A lease that is forgotten by its request counts as it did before.
LEMMA LimitsVanish ==
    ASSUME LeaseInv, LimitsKept, NEW r \in Requests, Vanish(r)
    PROVE  LimitsKept'
<1> DEFINE Forget(l) == IF l.holder = r THEN [l EXCEPT !.holder = None] ELSE l
           f == [l \in leases |-> Forget(l)]
<1>1. leases' = {Forget(l) : l \in leases} /\ clock' = clock
  BY DEF Vanish
<1>2. \A l \in leases : Forget(l).message = l.message /\ Forget(l).expires = l.expires
  BY DEF LeaseInv, TypeOK, LeaseRows
<1> HIDE DEF Forget
<1>3. f \in Surjection(leases, leases')
  BY <1>1 DEF Surjection
<1>4. IsFiniteSet(leases')
  BY <1>3, FS_Surjection DEF LimitsKept
<1>5. LiveLeases' = {Forget(l) : l \in LiveLeases}
  BY <1>1, <1>2 DEF LiveLeases
<1>6. MessagesOf(LiveLeases') = MessagesOf(LiveLeases)
  BY <1>2, <1>5 DEF MessagesOf, LiveLeases
<1>7. ASSUME NEW u \in Users
      PROVE  MessagesOf(OfUser(LiveLeases', u)) = MessagesOf(OfUser(LiveLeases, u))
  BY <1>2, <1>5 DEF MessagesOf, OfUser, LiveLeases
<1> QED
  BY <1>4, <1>6, <1>7 DEF LimitsKept, LiveLeases

\* No leases, no limits to keep.
LEMMA InvInit == Init => Inv
<1> SUFFICES ASSUME Init PROVE Inv
  OBVIOUS
<1>1. leases = {} /\ LiveLeases = {} /\ MessagesOf(LiveLeases) = {}
      /\ \A u \in Users : MessagesOf(OfUser(LiveLeases, u)) = {}
  BY DEF Init, LiveLeases, OfUser, MessagesOf
<1>2. LimitsKept
  BY <1>1, FS_EmptySet, Assumed DEF LimitsKept, Assumptions
<1> QED
  BY <1>2, LeaseInit DEF Inv

\* Every step keeps the invariant.
LEMMA InvNext == Inv /\ [Next]_vars => Inv'
<1> SUFFICES ASSUME Inv, [Next]_vars PROVE Inv'
  OBVIOUS
<1>1. LeaseInv'
  BY LeaseNext DEF Inv
<1>2. ASSUME NEW r \in Requests, Admit(r) PROVE LimitsKept'
  BY <1>2, LimitsAdmit DEF Inv
<1>3. ASSUME NEW r \in Requests, Vanish(r) PROVE LimitsKept'
  BY <1>3, LimitsVanish DEF Inv
<1>4. ASSUME \/ Tick \/ UNCHANGED vars
             \/ \E r \in Requests : Enter(r) \/ Refuse(r) \/ EndBody(r) \/ Release(r)
      PROVE  LimitsKept'
  <2>1. clock \in Nat /\ clock' \in Nat /\ clock <= clock'
    BY <1>4, Assumed DEF Inv, LeaseInv, TypeOK, Assumptions, Tick, Enter, Refuse, EndBody,
                         Release, vars
  <2>2. leases' \subseteq leases
    BY <1>4 DEF Tick, Enter, Refuse, EndBody, Release, vars
  <2>3. LeaseInv /\ LimitsKept
    BY DEF Inv
  <2> QED
    BY <2>1, <2>2, <2>3, LimitsShrink
<1>5. LimitsKept'
  BY <1>2, <1>3, <1>4 DEF Next
<1> QED
  BY <1>1, <1>5 DEF Inv

\* The invariant holds of the whole specification.
LEMMA Invariance == Spec => []Inv
BY InvInit, InvNext, PTL DEF Spec

------------------------------------------------------------------------------
\* The tables, the quota's bound included, and the requests keep their types.
THEOREM TypeCorrect == Spec => []TypeOK
<1>1. Inv => TypeOK
  BY DEF Inv, LeaseInv
<1> QED
  BY <1>1, Invariance, PTL

\* A generation that keeps its deadline is covered by an unlapsed lease to its end.
THEOREM BodiesAreLeased == Spec => []BodyHoldsLiveLease
<1>1. Inv => BodyHoldsLiveLease
  BY DEF Inv, LeaseInv, BodyLease, BodyHoldsLiveLease, Running, LiveLeases
<1> QED
  BY <1>1, Invariance, PTL

\* Two such generations are never for the same message.
THEOREM OneBodyEach == Spec => []OneBodyPerMessage
<1>1. Inv => OneBodyPerMessage
  BY DEF Inv, LeaseInv, BodyLease, OneLeasePerMessage, OneBodyPerMessage, Running
<1> QED
  BY <1>1, Invariance, PTL

\* The limits hold for the generations that run, over all API workers.
THEOREM LimitsHold == Spec => []ConcurrencyBounded
<1>1. Inv => ConcurrencyBounded
  <2> SUFFICES ASSUME Inv PROVE ConcurrencyBounded
    OBVIOUS
  <2>1. IsFiniteSet(LiveLeases)
    BY FS_Subset DEF Inv, LimitsKept, LiveLeases
  <2>2. \A r \in Running : \E l \in LiveLeases : l.message = message[r]
    BY DEF Inv, LeaseInv, BodyLease, Running, LiveLeases
  <2>3. \A r, s \in Running : message[r] = message[s] => r = s
    BY DEF Inv, LeaseInv, BodyLease, OneLeasePerMessage, Running
  <2>4. ASSUME NEW some \in SUBSET Running, NEW rows \in SUBSET LiveLeases,
               \A r \in some : \E l \in rows : l.message = message[r],
               NEW limit \in Nat, Cardinality(MessagesOf(rows)) <= limit
        PROVE  Cardinality(some) <= limit
    <3> DEFINE f == [r \in some |-> message[r]]
    <3>1. IsFiniteSet(MessagesOf(rows)) /\ Cardinality(MessagesOf(rows)) \in Nat
      <4>1. IsFiniteSet(rows)
        BY <2>1, FS_Subset
      <4> QED
        BY <4>1, MessagesCounted
    <3>2. f \in Injection(some, MessagesOf(rows))
      <4>1. \A r \in some : message[r] \in MessagesOf(rows)
        BY <2>4 DEF MessagesOf
      <4>2. \A r, q \in some : f[r] = f[q] => r = q
        BY <2>3, <2>4
      <4>3. f \in [some -> MessagesOf(rows)]
        BY <4>1
      <4> QED
        BY <4>2, <4>3 DEF Injection, IsInjective
    <3>3. Cardinality(some) <= Cardinality(MessagesOf(rows)) /\ IsFiniteSet(some)
      BY <3>1, <3>2, FS_Injection
    <3>4. Cardinality(some) \in Nat
      BY <3>3, FS_CardinalityType
    <3> QED
      BY <2>4, <3>1, <3>3, <3>4
  <2>5. Cardinality(Running) <= GlobalLimit
    BY <2>2, <2>4, Assumed DEF Inv, LimitsKept, Assumptions
  <2>6. ASSUME NEW u \in Users
        PROVE  Cardinality({r \in Running : Sender[message[r]] = u}) <= UserLimit
    <3>1. \A r \in {q \in Running : Sender[message[q]] = u} :
            \E l \in OfUser(LiveLeases, u) : l.message = message[r]
      BY <2>2 DEF OfUser
    <3>2. OfUser(LiveLeases, u) \in SUBSET LiveLeases
      BY DEF OfUser
    <3> QED
      BY <2>4, <3>1, <3>2, Assumed DEF Inv, LimitsKept, Assumptions
  <2> QED
    BY <2>5, <2>6 DEF ConcurrencyBounded
<1> QED
  BY <1>1, Invariance, PTL

------------------------------------------------------------------------------
(* The quota.                                                                *)

\* What the table says of one day after an admission of u.
LEMMA ChargedDay ==
    ASSUME TypeOK, NEW u \in Users, NEW v \in Users, NEW d \in Days
    PROVE  /\ v = u /\ d = Day(clock) => Charged(u)[<<v, d>>] = usage[<<v, d>>] + 1
           /\ d + Retention >= Day(clock) /\ ~(v = u /\ d = Day(clock))
                => Charged(u)[<<v, d>>] = usage[<<v, d>>]
<1>1. <<v, d>> \in Users \X Days /\ d \in Nat /\ Day(clock) \in Nat /\ Retention \in Nat
  BY Today, Assumed DEF Days, Assumptions
<1>2. <<v, d>> = <<u, Day(clock)>> <=> v = u /\ d = Day(clock)
  OBVIOUS
<1>3. CASE v = u /\ d = Day(clock)
  BY <1>1, <1>3 DEF Charged
<1>4. CASE ~(v = u /\ d = Day(clock)) /\ d + Retention >= Day(clock)
  <2>1. ~(d + Retention < Day(clock))
    BY <1>1, <1>4
  <2> QED
    BY <1>1, <1>2, <1>4, <2>1 DEF Charged
<1> QED
  BY <1>3, <1>4

\* Only an admission counts, and pruning forgets no day that has to be remembered.
LEMMA QuotaNext == LeaseInv /\ QuotaKept /\ [Next]_vars => QuotaKept'
<1> SUFFICES ASSUME LeaseInv, QuotaKept, [Next]_vars PROVE QuotaKept'
  OBVIOUS
<1> USE Assumed DEF Assumptions
<1>1. clock \in Nat /\ Day(clock) \in Days /\ Days \subseteq Nat
  BY Today DEF LeaseInv, TypeOK, Days
<1>2. ASSUME NEW r \in Requests, Admit(r) PROVE QuotaKept'
  <2> DEFINE u == Sender[message[r]]
  <2>1. u \in Users
    BY <1>2 DEF Admit, LeaseInv, RequestShape
  <2>2. /\ usage' = Charged(u) /\ UNCHANGED clock
        /\ admitted' = [admitted EXCEPT ![<<u, Day(clock)>>] = admitted[<<u, Day(clock)>>] + 1]
        /\ ~(usage[<<u, Day(clock)>>] >= DailyLimit)
    BY <1>2 DEF Admit, DailyLimitExceeded
  <2> HIDE DEF u
  <2> SUFFICES ASSUME NEW v \in Users, NEW d \in Days
               PROVE  /\ admitted'[<<v, d>>] <= DailyLimit
                      /\ d + Retention >= Day(clock) => usage'[<<v, d>>] = admitted'[<<v, d>>]
    BY <2>2 DEF QuotaKept
  <2>3. admitted[<<v, d>>] <= DailyLimit /\ admitted[<<v, d>>] \in Nat /\ usage[<<v, d>>] \in Nat
        /\ (d + Retention >= Day(clock) => usage[<<v, d>>] = admitted[<<v, d>>])
    BY DEF QuotaKept, LeaseInv, TypeOK
  <2>4. CASE v = u /\ d = Day(clock)
    <3>1. d + Retention >= Day(clock)
      BY <1>1, <2>4
    <3>2. admitted'[<<v, d>>] = admitted[<<v, d>>] + 1
      BY <2>1, <2>2, <2>4, <1>1 DEF LeaseInv, TypeOK
    <3>3. usage'[<<v, d>>] = usage[<<v, d>>] + 1
      BY <2>1, <2>2, <2>4, ChargedDay DEF LeaseInv
    <3> QED
      BY <2>2, <2>3, <2>4, <3>1, <3>2, <3>3
  <2>5. CASE ~(v = u /\ d = Day(clock))
    <3>1. <<v, d>> # <<u, Day(clock)>>
      BY <2>5
    <3>2. admitted'[<<v, d>>] = admitted[<<v, d>>]
      BY <2>2, <3>1 DEF LeaseInv, TypeOK
    <3>3. d + Retention >= Day(clock) => usage'[<<v, d>>] = usage[<<v, d>>]
      BY <2>1, <2>2, <2>5, ChargedDay DEF LeaseInv
    <3> QED
      BY <2>3, <3>2, <3>3
  <2> QED
    BY <2>4, <2>5
<1>3. ASSUME UNCHANGED <<usage, admitted>>, clock' \in Nat, clock <= clock' PROVE QuotaKept'
  <2>1. Day(clock) <= Day(clock') /\ Day(clock') \in Nat /\ Day(clock) \in Nat
    BY <1>1, <1>3, DayMonotone
  <2>2. \A d \in Days : d + Retention >= Day(clock') => d + Retention >= Day(clock)
    BY <1>1, <2>1
  <2>3. Day(clock)' = Day(clock')
    BY DEF Day
  <2> QED
    BY <1>3, <2>2, <2>3 DEF QuotaKept
<1>4. ASSUME \/ Tick \/ UNCHANGED vars
             \/ \E r \in Requests : \/ Enter(r) \/ Refuse(r) \/ EndBody(r) \/ Release(r)
                                    \/ Vanish(r)
      PROVE  QuotaKept'
  <2>1. UNCHANGED <<usage, admitted>> /\ clock' \in Nat /\ clock <= clock'
    BY <1>1, <1>4 DEF Tick, Enter, Refuse, EndBody, Release, Vanish, vars
  <2> QED
    BY <1>3, <2>1
<1> QED
  BY <1>2, <1>4 DEF Next

\* No user is admitted more often than the daily limit allows, and the table remembers
\* every admission of the days it has to remember.
THEOREM QuotaHolds == Spec => []QuotaKept
<1>1. Init => QuotaKept
  <2> SUFFICES ASSUME Init, NEW u \in Users, NEW d \in Days
               PROVE  admitted[<<u, d>>] <= DailyLimit /\ usage[<<u, d>>] = admitted[<<u, d>>]
    BY DEF QuotaKept
  <2>1. admitted[<<u, d>>] = 0 /\ usage[<<u, d>>] = 0
    BY DEF Init
  <2> QED
    BY <2>1, Assumed DEF Assumptions
<1>2. Inv /\ QuotaKept /\ [Next]_vars => QuotaKept'
  BY QuotaNext DEF Inv
<1> QED
  BY <1>1, <1>2, Invariance, PTL DEF Spec
==============================================================================
