----------------------- MODULE ConversationTurns_proofs -----------------------
(* The safety of one conversation's turns, for any set of workers, of whom    *)
(* any may oversleep its timeouts, and any number of messages and mishaps.    *)
EXTENDS ConversationTurns, FiniteSetTheorems, TLAPS

\* A worker that is doing something does it for an accepted message, and only an accepted
\* message has a run.
WorkShape ==
    /\ \A w \in Workers : pc[w] # "idle" => turn[w] \in Accepted
    /\ \A m \in Turns : IF runs[m].status = "absent" THEN runs[m].attempts = 0 ELSE m \in Accepted
    /\ state.last \in {0} \cup Accepted
    /\ \A w \in Workers : snapshot[w].last \in {0} \cup Accepted

Typed == TypeOK /\ WorkShape

Assumptions ==
    /\ Sleepers \subseteq Workers
    /\ Gone \notin Workers /\ None \notin Workers /\ Gone # None
    /\ Last \in Nat /\ MaxAttempts \in Nat \ {0} /\ MaxMishaps \in Nat
    /\ Lease \in Nat /\ Wait \in Nat /\ Budget \in Nat /\ Wait < Lease /\ Budget < Lease

\* The assumptions on the constants, under one name.
LEMMA Assumed == Assumptions
BY SleeperAssumption, HolderAssumption, CountAssumption, TimeAssumption DEF Assumptions

------------------------------------------------------------------------------
(* Types.                                                                      *)

\* What the steps make of a message's row.
LEMMA RowTypes ==
  ASSUME NEW row \in MessageRows
  PROVE  /\ [row EXCEPT !.holds = Less(@)] \in MessageRows
         /\ [row EXCEPT !.holds = 0] \in MessageRows
         /\ [row EXCEPT !.replied = TRUE] \in MessageRows
         /\ [row EXCEPT !.holds = Less(@)].holds = Less(row.holds)
         /\ [row EXCEPT !.holds = Less(@)].replied = row.replied
         /\ [row EXCEPT !.holds = 0].holds = 0
         /\ [row EXCEPT !.holds = 0].replied = row.replied
         /\ [row EXCEPT !.replied = TRUE].holds = row.holds
<1>1. row.holds \in 0 .. Lease /\ Less(row.holds) \in 0 .. Lease /\ 0 \in 0 .. Lease
  BY Assumed DEF Assumptions, MessageRows, Less
<1> QED
  BY <1>1 DEF MessageRows

\* What the steps make of a run's row.
LEMMA RunTypes ==
  ASSUME NEW run \in RunRows, NEW w
  PROVE  /\ [run EXCEPT !.left = Less(@)] \in RunRows
         /\ [run EXCEPT !.holder = Disown(@, w)] \in RunRows
         /\ [run EXCEPT !.status = "completed", !.holder = None, !.left = 0] \in RunRows
         /\ [run EXCEPT !.status = "failed", !.holder = None, !.left = 0] \in RunRows
         /\ [run EXCEPT !.left = Less(@)].status = run.status
         /\ [run EXCEPT !.left = Less(@)].attempts = run.attempts
         /\ [run EXCEPT !.holder = Disown(@, w)].status = run.status
         /\ [run EXCEPT !.holder = Disown(@, w)].attempts = run.attempts
<1>1. Less(run.left) \in 0 .. Lease /\ 0 \in 0 .. Lease
  BY Assumed DEF Assumptions, RunRows, Less
<1>2. Disown(run.holder, w) \in Holders /\ None \in Holders
  BY DEF RunRows, Disown, Holders
<1> QED
  BY <1>1, <1>2 DEF RunRows

\* What persisting the requirements makes of a planning state, and what a claim does.
LEMMA StateTypes ==
  ASSUME NEW s \in States, NEW m \in Turns
  PROVE  /\ [s EXCEPT !.requirements = m] \in States /\ [s EXCEPT !.last = m] \in States
         /\ [s EXCEPT !.requirements = m].last = s.last
         /\ [s EXCEPT !.last = m].last = m
         /\ [s EXCEPT !.last = m].requirements = s.requirements
         /\ [s EXCEPT !.requirements = m].requirements = m
BY Assumed DEF Assumptions, States, Turns

\* Turn numbers are given in order and without a gap.
LEMMA AcceptedAre ==
  ASSUME TypeOK
  PROVE  \E n \in 0 .. Last : /\ Accepted = 1 .. n /\ Cardinality(Accepted) = n
                              /\ Accepted \subseteq Turns
                              /\ messages \in [1 .. n -> MessageRows]
<1>1. PICK n \in 0 .. Last : messages \in [1 .. n -> MessageRows]
  BY DEF TypeOK, InOrder
<1>2. Cardinality(1 .. n) = n
  BY <1>1, Assumed, FS_Interval DEF Assumptions
<1> QED
  BY <1>1, <1>2, Assumed DEF Accepted, Turns, Assumptions

\* A worker that leaves forgets what it was doing; the others go on.
LEMMA LeaveTypes ==
  ASSUME TypeOK, NEW w \in Workers, Leave(w)
  PROVE  /\ pc' \in [Workers -> PCs] /\ turn' \in [Workers -> 0 .. Last]
         /\ timer' \in [Workers -> 0 .. Lease] /\ snapshot' \in [Workers -> States]
         /\ pc'[w] = "idle" /\ snapshot'[w] = NoState
         /\ \A v \in Workers \ {w} : /\ pc'[v] = pc[v] /\ turn'[v] = turn[v]
                                     /\ timer'[v] = timer[v] /\ snapshot'[v] = snapshot[v]
<1> USE Assumed DEF Assumptions, TypeOK, Leave, Goto, PCs, InOrder
<1>1. pc' \in [Workers -> PCs] /\ turn' \in [Workers -> 0 .. Last] /\ timer' \in [Workers -> 0 .. Lease]
  OBVIOUS
<1>2. NoState \in States
  BY DEF NoState, States
<1>3. snapshot' \in [Workers -> States]
  BY <1>2
<1> QED
  BY <1>1, <1>3

\* A worker that leaves the body of its turn goes on to a handler.
LEMMA LeaveBodyTypes ==
  ASSUME TypeOK, NEW w \in Workers, NEW label \in {"failing", "releasing"}, LeaveBody(w, label)
  PROVE  /\ pc' \in [Workers -> PCs] /\ turn' = turn
         /\ timer' \in [Workers -> 0 .. Lease] /\ snapshot' \in [Workers -> States]
         /\ pc'[w] = label /\ snapshot'[w] = NoState
         /\ \A v \in Workers \ {w} : /\ pc'[v] = pc[v]
                                     /\ timer'[v] = timer[v] /\ snapshot'[v] = snapshot[v]
<1> USE Assumed DEF Assumptions, TypeOK, LeaveBody, Goto, PCs, InOrder
<1>1. pc' \in [Workers -> PCs] /\ turn' = turn /\ timer' \in [Workers -> 0 .. Lease]
  OBVIOUS
<1>2. NoState \in States
  BY DEF NoState, States
<1>3. snapshot' \in [Workers -> States]
  BY <1>2
<1> QED
  BY <1>1, <1>3

\* Nothing is accepted yet.
LEMMA TypedInit == Init => Typed
<1> SUFFICES ASSUME Init PROVE Typed
  OBVIOUS
<1> USE Assumed DEF Assumptions, Init
<1>1. InOrder /\ Accepted = {}
  <2>1. messages \in [1 .. 0 -> MessageRows] /\ DOMAIN messages = {}
    OBVIOUS
  <2>2. 0 \in 0 .. Last
    OBVIOUS
  <2> QED
    BY <2>1, <2>2 DEF Accepted, InOrder
<1>2. runs \in [Turns -> RunRows]
  BY DEF NoRun, RunRows, Holders
<1>3. lease \in LeaseRows
  BY DEF Free, Holders, LeaseRows
<1>4. state \in States /\ snapshot \in [Workers -> States]
  BY DEF NoState, States
<1>5. TypeOK
  <2>1. /\ pc \in [Workers -> PCs] /\ turn \in [Workers -> 0 .. Last]
        /\ timer \in [Workers -> 0 .. Lease] /\ told \in [Turns -> Events]
        /\ extracted \in [Turns -> Nat] /\ mishaps \in 0 .. MaxMishaps
    BY DEF PCs, Events
  <2> QED
    BY <1>1, <1>2, <1>3, <1>4, <2>1 DEF TypeOK
<1>6. WorkShape
  <2>1. \A w \in Workers : pc[w] = "idle"
    OBVIOUS
  <2>2. \A m \in Turns : runs[m].status = "absent" /\ runs[m].attempts = 0
    BY DEF NoRun
  <2>3. state.last = 0 /\ \A w \in Workers : snapshot[w].last = 0
    BY DEF NoState
  <2> QED
    BY <2>1, <2>2, <2>3 DEF WorkShape, Accepted
<1> QED
  BY <1>5, <1>6 DEF Typed

\* What an action touches has its type, if the rest stays.
LEMMA TypedNext == Typed /\ [Next]_vars => Typed'
<1> SUFFICES ASSUME Typed, [Next]_vars PROVE Typed'
  OBVIOUS
<1> USE Assumed DEF Assumptions, Typed
<1>0. /\ InOrder /\ runs \in [Turns -> RunRows] /\ lease \in LeaseRows
      /\ Accepted \subseteq Turns /\ Workers \subseteq Holders
  BY AcceptedAre DEF TypeOK, Holders, InOrder
<1>1. CASE Tick
  <2> USE <1>1 DEF Tick
  <2>1. InOrder'
    <3>1. PICK n \in 0 .. Last : messages \in [1 .. n -> MessageRows] /\ Accepted = 1 .. n
      BY AcceptedAre
    <3>2. \A m \in 1 .. n : [messages[m] EXCEPT !.holds = Less(@)] \in MessageRows
      BY <3>1, RowTypes
    <3>3. messages' \in [1 .. n -> MessageRows]
      BY <3>1, <3>2
    <3> QED
      BY <3>3 DEF InOrder
  <2>2. runs' \in [Turns -> RunRows]
    BY <1>0, RunTypes
  <2>3. lease' \in LeaseRows
    BY <1>0 DEF Less, LeaseRows
  <2>4. timer' \in [Workers -> 0 .. Lease]
    BY DEF TypeOK, Less, InOrder
  <2>5. TypeOK'
    BY <2>1, <2>2, <2>3, <2>4 DEF TypeOK, InOrder
  <2>6. /\ Accepted' = Accepted
        /\ \A m \in Turns : runs'[m].status = runs[m].status /\ runs'[m].attempts = runs[m].attempts
    <3>1. \A m \in Turns : runs'[m] = [runs[m] EXCEPT !.left = Less(runs[m].left)] /\ runs[m] \in RunRows
      BY <1>0
    <3> QED
      BY <3>1, RunTypes DEF Accepted
  <2>7. WorkShape'
    BY <2>6 DEF WorkShape, Accepted
  <2> QED
    BY <2>5, <2>7
<1>2. CASE Accept
  <2> USE <1>2 DEF Accept
  <2>1. PICK n \in 0 .. Last : /\ Accepted = 1 .. n /\ Cardinality(Accepted) = n
                               /\ messages \in [1 .. n -> MessageRows]
    BY AcceptedAre
  <2>2. n + 1 \in 0 .. Last /\ messages' \in [1 .. n + 1 -> MessageRows]
    BY <2>1 DEF MessageRows
  <2>3. InOrder' /\ Accepted \subseteq Accepted'
    <3>1. DOMAIN messages' = 1 .. n + 1 /\ 1 .. n \subseteq 1 .. n + 1
      BY <2>1
    <3> QED
      BY <2>1, <2>2, <3>1 DEF Accepted, InOrder
  <2>4. TypeOK'
    BY <2>3 DEF TypeOK, workers, InOrder
  <2>5. WorkShape'
    BY <2>3 DEF WorkShape, Accepted, workers
  <2> QED
    BY <2>4, <2>5
<1>3. ASSUME NEW m \in Accepted, DeliverCached(m)
      PROVE  Typed'
  BY <1>0, <1>3 DEF DeliverCached, Tell, TypeOK, WorkShape, Accepted, database, workers, InOrder, Events
<1>4. ASSUME NEW w \in Workers, NEW m \in Accepted, Deliver(w, m)
      PROVE  Typed'
  <2> USE <1>4 DEF Deliver
  <2>1. m \in Turns /\ m \in 0 .. Last
    BY <1>0 DEF Turns
  <2>2. pc' \in [Workers -> PCs] /\ turn' \in [Workers -> 0 .. Last]
        /\ turn'[w] = m /\ \A v \in Workers \ {w} : turn'[v] = turn[v] /\ pc'[v] = pc[v]
    BY <2>1 DEF TypeOK, Goto, PCs
  <2>3. timer' \in [Workers -> 0 .. Lease] /\ mishaps' \in 0 .. MaxMishaps
    BY DEF TypeOK, Timeout
  <2>4. TypeOK'
    BY <2>2, <2>3 DEF TypeOK, InOrder, database
  <2>5. WorkShape'
    BY <2>2 DEF WorkShape, Accepted, database
  <2> QED
    BY <2>4, <2>5
<1>5. ASSUME NEW w \in Workers, NEW m \in Accepted, RefuseAdmission(w, m)
      PROVE  Typed'
  <2> USE <1>5 DEF RefuseAdmission
  <2>1. m \in Turns /\ m \in 0 .. Last
    BY <1>0 DEF Turns
  <2>2. pc' \in [Workers -> PCs] /\ turn' \in [Workers -> 0 .. Last]
        /\ turn'[w] = m /\ \A v \in Workers \ {w} : turn'[v] = turn[v] /\ pc'[v] = pc[v]
    BY <2>1 DEF TypeOK, Goto, PCs
  <2>3. timer' \in [Workers -> 0 .. Lease] /\ mishaps' \in 0 .. MaxMishaps
    BY DEF TypeOK, Mishap
  <2>4. TypeOK'
    BY <2>2, <2>3 DEF TypeOK, InOrder, database
  <2>5. WorkShape'
    BY <2>2 DEF WorkShape, Accepted, database
  <2> QED
    BY <2>4, <2>5
<1>6. ASSUME NEW w \in Workers, DeferGeneration(w) \/ ClaimRun(w) \/ CommitReply(w)
      PROVE  Typed'
  <2>1. turn[w] \in Accepted
    BY <1>6 DEF DeferGeneration, ClaimRun, CommitReply, WorkShape, Accepted
  <2>2. InOrder' /\ Accepted' = Accepted
    <3>1. PICK n \in 0 .. Last : messages \in [1 .. n -> MessageRows] /\ Accepted = 1 .. n
      BY AcceptedAre
    <3>2. \/ messages' = [messages EXCEPT ![turn[w]] = [messages[turn[w]] EXCEPT !.holds = 0]]
          \/ messages' = [messages EXCEPT ![turn[w]] = [messages[turn[w]] EXCEPT !.replied = TRUE]]
      BY <1>6 DEF DeferGeneration, ClaimRun, CommitReply
    <3>3. messages[turn[w]] \in MessageRows
      BY <2>1, <3>1
    <3>4. messages' \in [1 .. n -> MessageRows] /\ DOMAIN messages' = DOMAIN messages
      BY <3>1, <3>2, <3>3, RowTypes
    <3> QED
      BY <3>4 DEF InOrder, Accepted
  <2>3. CASE DeferGeneration(w)
    <3>1. TypeOK'
      BY <2>2, <2>3, LeaveTypes DEF DeferGeneration, TypeOK, InOrder
    <3>2. WorkShape'
      BY <2>2, <2>3, LeaveTypes DEF DeferGeneration, WorkShape, NoState
    <3> QED
      BY <3>1, <3>2
  <2>4. CASE ClaimRun(w)
    <3>1. runs' \in [Turns -> RunRows] /\ \A m \in Turns \ {turn[w]} : runs'[m] = runs[m]
      <4>1. turn[w] \in Turns /\ runs[turn[w]] \in RunRows
        BY <1>0, <2>1
      <4>2. runs[turn[w]].attempts + 1 \in 0 .. MaxAttempts
        BY <2>4, <4>1 DEF ClaimRun, RunRows, Claimable, Lapsed, WorkShape
      <4>3. [status |-> "processing", holder |-> w, left |-> Lease,
             attempts |-> runs[turn[w]].attempts + 1] \in RunRows
        BY <1>0, <4>2 DEF RunRows
      <4> QED
        BY <1>0, <2>4, <4>1, <4>3 DEF ClaimRun
    <3>2. snapshot' \in [Workers -> States] /\ pc' \in [Workers -> PCs]
      BY <1>0, <2>1, <2>4 DEF ClaimRun, TypeOK, States, Goto, PCs, Body, Turns, InOrder
    <3>3. TypeOK'
      BY <2>2, <2>4, <3>1, <3>2 DEF ClaimRun, TypeOK, InOrder
    <3>4. WorkShape'
      BY <2>1, <2>2, <2>4, <3>1 DEF ClaimRun, WorkShape, Accepted, Goto, TypeOK, InOrder
    <3> QED
      BY <3>3, <3>4
  <2>5. CASE CommitReply(w)
    <3>1. runs' \in [Turns -> RunRows] /\ \A m \in Turns \ {turn[w]} : runs'[m] = runs[m]
      BY <1>0, <2>1, <2>5 DEF CommitReply, RunRows, Holders
    <3>2. lease' \in LeaseRows
      BY <2>5 DEF CommitReply, Free, Holders, LeaseRows
    <3>3. TypeOK'
      BY <2>2, <2>5, <3>1, <3>2, LeaveBodyTypes DEF CommitReply, TypeOK, InOrder
    <3>4. state'.last \in {0} \cup Accepted
      BY <2>5 DEF CommitReply, WorkShape
    <3>5. WorkShape'
      BY <2>1, <2>2, <2>5, <3>1, <3>4, LeaveBodyTypes DEF CommitReply, WorkShape, NoState
    <3> QED
      BY <3>3, <3>5
  <2> QED
    BY <1>6, <2>3, <2>4, <2>5
<1>7. ASSUME NEW w \in Workers, \/ WaitTimeout(w) \/ RefuseStale(w) \/ ReturnCached(w)
                                \/ MissClaim(w) \/ Release(w)
      PROVE  Typed'
  <2>1. /\ Leave(w) /\ UNCHANGED <<messages, runs, state, extracted, mishaps>>
        /\ lease' = lease \/ lease' = Free
        /\ turn[w] \in Turns
        /\ \/ UNCHANGED told
           \/ \E e \in {"completed", "stale_request", "attempts_exhausted"} : Tell(turn[w], e)
    BY <1>0, <1>7 DEF WaitTimeout, RefuseStale, ReturnCached, MissClaim, Release, ReleaseLease,
                      database, WorkShape
  <2>2. lease' \in LeaseRows
    BY <1>0, <2>1 DEF Free, Holders, LeaseRows
  <2>3. told' \in [Turns -> {"nothing", "completed", "stale_request", "attempts_exhausted"}]
    BY <2>1 DEF Tell, TypeOK, Events, InOrder
  <2>4. TypeOK'
    <3>1. InOrder' /\ told' \in [Turns -> Events]
      BY <1>0, <2>1, <2>3 DEF InOrder, Events
    <3>2. /\ pc' \in [Workers -> PCs] /\ turn' \in [Workers -> 0 .. Last]
          /\ timer' \in [Workers -> 0 .. Lease] /\ snapshot' \in [Workers -> States]
      BY <2>1, LeaveTypes
    <3> QED
      BY <2>1, <2>2, <3>1, <3>2 DEF TypeOK
  <2>5. WorkShape'
    BY <2>1, LeaveTypes DEF WorkShape, Accepted, NoState
  <2> QED
    BY <2>4, <2>5
<1>8. ASSUME NEW w \in Workers, AcquireTurn(w)
      PROVE  Typed'
  <2> USE <1>8 DEF AcquireTurn, Goto, Timeout
  <2>1. lease' \in LeaseRows
    BY <1>0 DEF LeaseRows
  <2>2. snapshot' \in [Workers -> States] /\ pc' \in [Workers -> PCs] /\ timer' \in [Workers -> 0 .. Lease]
    BY DEF TypeOK, PCs, Body, InOrder
  <2>3. TypeOK'
    BY <2>1, <2>2 DEF TypeOK, InOrder
  <2>4. WorkShape'
    BY DEF WorkShape, Accepted, TypeOK, InOrder
  <2> QED
    BY <2>3, <2>4
<1>9. ASSUME NEW w \in Workers, Anchor(w) \/ SaveRequirements(w)
      PROVE  Typed'
  <2>1. turn[w] \in Turns
    BY <1>0, <1>9 DEF Anchor, SaveRequirements, WorkShape, Accepted
  <2>2. snapshot' \in [Workers -> States] /\ snapshot'[w].last = snapshot[w].last
        /\ \A v \in Workers \ {w} : snapshot'[v] = snapshot[v]
    <3>1. snapshot[w] \in States /\ snapshot \in [Workers -> States]
      BY DEF TypeOK
    <3>2. \/ snapshot' = snapshot
          \/ snapshot' = [snapshot EXCEPT ![w] = [snapshot[w] EXCEPT !.requirements = turn[w]]]
      BY <1>9 DEF Anchor, SaveRequirements
    <3>3. CASE snapshot' = snapshot
      BY <3>1, <3>3
    <3>4. CASE snapshot' = [snapshot EXCEPT ![w] = [snapshot[w] EXCEPT !.requirements = turn[w]]]
      BY <2>1, <3>1, <3>4, StateTypes
    <3> QED
      BY <3>2, <3>3, <3>4
  <2>3. state' \in States /\ state'.last = snapshot[w].last
    BY <1>9, <2>2 DEF Anchor, SaveRequirements
  <2>4. pc' \in [Workers -> PCs] /\ (\A v \in Workers : pc'[v] # "idle" => pc[v] # "idle")
    BY <1>9 DEF Anchor, SaveRequirements, TypeOK, PCs, Body, Goto, InOrder
  <2>5. extracted' \in [Turns -> Nat]
    BY <1>9, <2>1 DEF Anchor, SaveRequirements, TypeOK, InOrder
  <2>6. TypeOK'
    BY <1>9, <2>2, <2>3, <2>4, <2>5 DEF Anchor, SaveRequirements, TypeOK, InOrder
  <2>7. WorkShape'
    BY <1>9, <2>2, <2>3, <2>4 DEF Anchor, SaveRequirements, WorkShape, Accepted
  <2> QED
    BY <2>6, <2>7
<1>10. ASSUME NEW w \in Workers, LosesOwnership(w) \/ AttemptFails(w)
       PROVE  Typed'
  <2>1. LeaveBody(w, "failing") /\ UNCHANGED <<database, told, extracted, mishaps>> /\ turn[w] \in Accepted
    BY <1>10 DEF LosesOwnership, AttemptFails, WorkShape, Accepted
  <2>2. TypeOK'
    BY <2>1, LeaveBodyTypes DEF TypeOK, database, InOrder
  <2>3. WorkShape'
    BY <2>1, LeaveBodyTypes DEF WorkShape, Accepted, database, NoState
  <2> QED
    BY <2>2, <2>3
<1>11. ASSUME NEW w \in Workers, FailRun(w) \/ FailNothing(w)
       PROVE  Typed'
  <2>1. turn[w] \in Accepted
    BY <1>11 DEF FailRun, FailNothing, WorkShape, Accepted
  <2>2. runs' \in [Turns -> RunRows] /\ \A m \in Turns \ {turn[w]} : runs'[m] = runs[m]
    BY <1>0, <1>11, <2>1 DEF FailRun, FailNothing, database, RunRows, Holders
  <2>3. pc' \in [Workers -> PCs] /\ (\A v \in Workers : pc'[v] # "idle" => pc[v] # "idle")
    BY <1>11 DEF FailRun, FailNothing, TypeOK, PCs, Goto, InOrder
  <2>4. TypeOK'
    BY <1>11, <2>2, <2>3 DEF FailRun, FailNothing, TypeOK, database, InOrder
  <2>5. runs'[turn[w]] = runs[turn[w]] \/ runs'[turn[w]].status = "failed"
    <3>1. CASE FailRun(w)
      BY <1>0, <2>1, <3>1 DEF FailRun, RunRows
    <3>2. CASE FailNothing(w)
      BY <3>2 DEF FailNothing, database
    <3> QED
      BY <1>11, <3>1, <3>2
  <2>6. WorkShape'
    BY <1>0, <1>11, <2>1, <2>2, <2>3, <2>5 DEF FailRun, FailNothing, WorkShape, Accepted, database
  <2> QED
    BY <2>4, <2>6
<1>12. ASSUME NEW w \in Workers, Vanish(w)
       PROVE  Typed'
  <2> USE <1>12 DEF Vanish
  <2>1. /\ runs' \in [Turns -> RunRows]
        /\ \A m \in Turns : runs'[m].status = runs[m].status /\ runs'[m].attempts = runs[m].attempts
    <3>1. \A m \in Turns : runs[m] \in RunRows /\ runs'[m] = [runs[m] EXCEPT !.holder = Disown(runs[m].holder, w)]
      BY <1>0 DEF Disown
    <3> QED
      BY <1>0, <3>1, RunTypes
  <2>2. lease' \in LeaseRows
    BY <1>0 DEF Disown, Holders, LeaseRows
  <2>3. mishaps' \in 0 .. MaxMishaps
    BY DEF Mishap, TypeOK, InOrder
  <2>4. TypeOK'
    BY <2>1, <2>2, <2>3, LeaveTypes DEF TypeOK, InOrder
  <2>5. WorkShape'
    BY <2>1, LeaveTypes DEF WorkShape, Accepted, NoState
  <2> QED
    BY <2>4, <2>5
<1>13. CASE UNCHANGED vars
  BY <1>13 DEF vars, database, workers, TypeOK, WorkShape, Accepted, InOrder
<1> QED
  BY <1>1, <1>2, <1>3, <1>4, <1>5, <1>6, <1>7, <1>8, <1>9, <1>10, <1>11, <1>12, <1>13
     DEF Next, Advance
\* Every variable keeps its type, a worker works for an accepted message, and no run is
\* made for a message before it is accepted.
THEOREM TypeCorrect == Spec => []TypeOK
<1>1. Typed => TypeOK
  BY DEF Typed
<1> QED
  BY <1>1, TypedInit, TypedNext, PTL DEF Spec

------------------------------------------------------------------------------
(* Who touches what.                                                           *)

WorkerStep(w) ==
    \/ \E m \in Accepted : Deliver(w, m) \/ RefuseAdmission(w, m)
    \/ Advance(w) \/ SaveRequirements(w) \/ AttemptFails(w) \/ Vanish(w)

\* The steps that end the worker's work on a message.
Leaves(w) ==
    DeferGeneration(w) \/ WaitTimeout(w) \/ RefuseStale(w) \/ ReturnCached(w) \/ MissClaim(w)
      \/ Release(w) \/ Vanish(w)

\* They forget what it was about.
LEMMA LeavesByLeave ==
  ASSUME NEW w, Leaves(w)
  PROVE  Leave(w)
BY DEF Leaves, DeferGeneration, WaitTimeout, RefuseStale, ReturnCached, MissClaim, Release, Vanish

\* The steps that fail, or commit the reply.
LeavesBody(w) == CommitReply(w) \/ LosesOwnership(w) \/ AttemptFails(w)

\* They go on to a handler.
LEMMA LeavesBodyByLeaveBody ==
  ASSUME NEW w, LeavesBody(w)
  PROVE  \E label \in {"failing", "releasing"} : LeaveBody(w, label)
BY DEF LeavesBody, CommitReply, LosesOwnership, AttemptFails

\* All the other steps of a worker.
WorksOn(w) ==
    \/ \E m \in Accepted : Deliver(w, m) \/ RefuseAdmission(w, m)
    \/ AcquireTurn(w) \/ ClaimRun(w) \/ Anchor(w) \/ SaveRequirements(w)
    \/ FailRun(w) \/ FailNothing(w)

\* There is no other.
LEMMA StepsAre ==
  ASSUME NEW w, WorkerStep(w)
  PROVE  Leaves(w) \/ LeavesBody(w) \/ WorksOn(w)
BY DEF WorkerStep, Advance, Leaves, LeavesBody, WorksOn

\* A worker's step leaves the other workers where they are.
LEMMA OthersStay ==
  ASSUME TypeOK, NEW w \in Workers, WorkerStep(w)
  PROVE  \A v \in Workers \ {w} : /\ pc'[v] = pc[v] /\ turn'[v] = turn[v]
                                  /\ timer'[v] = timer[v] /\ snapshot'[v] = snapshot[v]
<1>1. CASE Leaves(w)
  BY <1>1, LeavesByLeave, LeaveTypes
<1>2. CASE LeavesBody(w)
  BY <1>2, LeavesBodyByLeaveBody, LeaveBodyTypes
<1>3. CASE WorksOn(w)
  <2>1. /\ pc \in [Workers -> PCs] /\ turn \in [Workers -> 0 .. Last]
        /\ timer \in [Workers -> 0 .. Lease] /\ snapshot \in [Workers -> States]
    BY DEF TypeOK
  <2> QED
    BY <1>3, <2>1 DEF WorksOn, Deliver, RefuseAdmission, AcquireTurn, ClaimRun, Anchor,
                      SaveRequirements, FailRun, FailNothing, Goto, Timeout, database
<1> QED
  BY <1>1, <1>2, <1>3, StepsAre

\* A worker is in the body of its turn after it has acquired it, and until it leaves.
LEMMA BodySteps ==
  ASSUME TypeOK, NEW w \in Workers, WorkerStep(w), pc'[w] \in Body
  PROVE  AcquireTurn(w) \/ ClaimRun(w) \/ Anchor(w) \/ SaveRequirements(w)
<1> USE DEF Body
<1>1. ~Leaves(w)
  BY LeavesByLeave, LeaveTypes
<1>2. ~LeavesBody(w)
  BY LeavesBodyByLeaveBody, LeaveBodyTypes
<1>3. pc \in [Workers -> PCs]
  BY DEF TypeOK
<1> QED
  BY <1>1, <1>2, <1>3, StepsAre DEF WorksOn, Deliver, RefuseAdmission, FailRun, FailNothing, Goto

\* A lease changes hands by an acquisition, or is given up by its holder.
LEMMA LeaseSteps ==
  ASSUME TypeOK, NEW w \in Workers, WorkerStep(w), lease' # lease
  PROVE  AcquireTurn(w) \/ lease.holder = w
<1>1. lease \in LeaseRows
  BY DEF TypeOK
<1>2. CASE Leaves(w)
  <2>1. CASE Vanish(w)
    BY <1>1, <2>1 DEF Vanish, Disown, LeaseRows
  <2>2. CASE ~Vanish(w)
    BY <1>2, <2>2 DEF Leaves, DeferGeneration, WaitTimeout, RefuseStale, ReturnCached, MissClaim,
                      Release, ReleaseLease, database
  <2> QED
    BY <2>1, <2>2
<1>3. CASE LeavesBody(w)
  BY <1>3 DEF LeavesBody, CommitReply, LosesOwnership, AttemptFails, OwnsLease, database
<1>4. CASE WorksOn(w)
  BY <1>4 DEF WorksOn, Deliver, RefuseAdmission, ClaimRun, Anchor, SaveRequirements,
              FailRun, FailNothing, database
<1> QED
  BY <1>2, <1>3, <1>4, StepsAre

\* The planning state is written by the three statements that own the lease.
LEMMA StateSteps ==
  ASSUME NEW w \in Workers, WorkerStep(w), state' # state
  PROVE  Anchor(w) \/ SaveRequirements(w) \/ CommitReply(w)
BY StepsAre DEF Leaves, DeferGeneration, WaitTimeout, RefuseStale, ReturnCached, MissClaim, Release,
     Vanish, LeavesBody, LosesOwnership, AttemptFails, WorksOn, Deliver, RefuseAdmission,
     AcquireTurn, ClaimRun, FailRun, FailNothing, database

\* What is not a worker's step.
LEMMA NextSteps ==
  ASSUME [Next]_vars
  PROVE  \/ Tick \/ Accept \/ \E m \in Accepted : DeliverCached(m)
         \/ \E w \in Workers : WorkerStep(w)
         \/ UNCHANGED vars
BY DEF Next, WorkerStep
------------------------------------------------------------------------------
(* The lease: it outlasts the timeout of the worker that holds it.             *)

\* The worker inside turn() holds the lease, and for longer than its timeout.
LeaseInv == \A w \in Punctual : pc[w] \in Body => lease.holder = w /\ lease.left > timer[w]

\* No turn has been acquired yet.
LEMMA LeaseInit == Init => LeaseInv
BY DEF Init, LeaseInv, Punctual, Body

\* Both count down together; a lease is set above the timeout, and only its holder frees it.
LEMMA LeaseNext == Typed /\ LeaseInv /\ [Next]_vars => LeaseInv'
<1> SUFFICES ASSUME Typed, LeaseInv, [Next]_vars,
                    NEW v \in Workers, v \notin Sleepers, pc'[v] \in Body
             PROVE  lease'.holder = v /\ lease'.left > timer'[v]
  BY DEF LeaseInv, Punctual
<1>0. /\ TypeOK /\ pc \in [Workers -> PCs] /\ timer \in [Workers -> 0 .. Lease] /\ timer[v] \in Nat
      /\ lease \in LeaseRows /\ lease.left \in Nat /\ "idle" \notin Body
      /\ pc[v] \in Body => lease.holder = v /\ lease.left > timer[v]
  BY Assumed DEF Typed, TypeOK, Assumptions, LeaseRows, Body, LeaseInv, Punctual
<1>1. CASE Tick
  <2>1. /\ pc[v] \in Body /\ timer[v] > 0
        /\ lease'.holder = lease.holder /\ lease'.left = Less(lease.left) /\ timer'[v] = Less(timer[v])
    BY <1>0, <1>1 DEF Tick, Punctual, LeaseRows
  <2> QED
    BY <1>0, <2>1 DEF Less
<1>2. CASE Accept \/ (\E m \in Accepted : DeliverCached(m)) \/ UNCHANGED vars
  BY <1>0, <1>2 DEF Accept, DeliverCached, vars, database, workers
<1>3. ASSUME NEW w \in Workers, WorkerStep(w)
      PROVE  lease'.holder = v /\ lease'.left > timer'[v]
  <2>1. CASE w # v
    <3>1. pc[v] \in Body /\ timer'[v] = timer[v]
      BY <1>0, <1>3, <2>1, OthersStay
    <3>2. ~AcquireTurn(w)
      BY <1>0, <3>1, HolderAssumption DEF AcquireTurn
    <3>3. lease' = lease
      BY <1>0, <1>3, <2>1, <3>1, <3>2, LeaseSteps
    <3> QED
      BY <1>0, <3>1, <3>3
  <2>2. CASE w = v /\ AcquireTurn(v)
    BY <1>0, <2>2, Assumed DEF AcquireTurn, Timeout, Assumptions
  <2>3. CASE w = v /\ (ClaimRun(v) \/ Anchor(v) \/ SaveRequirements(v))
    BY <1>0, <2>3 DEF ClaimRun, Anchor, SaveRequirements, Body
  <2> QED
    BY <1>0, <1>3, <2>1, <2>2, <2>3, BodySteps
<1> QED
  BY <1>1, <1>2, <1>3, NextSteps

\* Whoever is inside turn() and keeps its timeouts holds the unlapsed lease, whatever the
\* workers that oversleep theirs do: its timeout ends before the lease, and a lease is
\* released by its token.
THEOREM GraphRunsDoNotOverlap == Spec => []TurnHoldsLease
<1>1. Typed /\ LeaseInv => TurnHoldsLease
  <2> SUFFICES ASSUME Typed, LeaseInv, NEW w \in Punctual, pc[w] \in Body
               PROVE  OwnsLease(w)
    BY DEF TurnHoldsLease
  <2>1. lease.holder = w /\ lease.left > timer[w] /\ lease.left \in Nat /\ timer[w] \in Nat
    BY Assumed DEF Assumptions, LeaseInv, Typed, TypeOK, LeaseRows, Punctual
  <2> QED
    BY <2>1 DEF OwnsLease
<1> QED
  BY <1>1, TypedInit, TypedNext, LeaseInit, LeaseNext, PTL DEF Spec

------------------------------------------------------------------------------
(* The planning state a worker works on, as long as it holds the lease.        *)

\* Acquired, the state is the committed one; claimed, it is ahead of it by the turn's
\* number only; anchored, it is the committed one again.
StateInv ==
    \A w \in Workers :
        pc[w] \in Body /\ lease.holder = w =>
            /\ pc[w] = "acquired" => snapshot[w] = state
            /\ pc[w] = "anchor" => /\ snapshot[w].last = turn[w]
                                   /\ state.last <= turn[w]
                                   /\ snapshot[w].requirements = state.requirements
            /\ pc[w] = "graph" => snapshot[w] = state /\ state.last = turn[w]

\* Nobody works on a state yet.
LEMMA StateInit == Init => StateInv
BY DEF Init, StateInv, Body

\* Only the holder writes the state, and what another worker does leaves its copy alone.
LEMMA StateNext == Typed /\ StateInv /\ [Next]_vars => StateInv'
<1> SUFFICES ASSUME Typed, StateInv, [Next]_vars,
                    NEW v \in Workers, pc'[v] \in Body, lease'.holder = v
             PROVE  /\ pc'[v] = "acquired" => snapshot'[v] = state'
                    /\ pc'[v] = "anchor" => /\ snapshot'[v].last = turn'[v]
                                            /\ state'.last <= turn'[v]
                                            /\ snapshot'[v].requirements = state'.requirements
                    /\ pc'[v] = "graph" => snapshot'[v] = state' /\ state'.last = turn'[v]
  BY DEF StateInv
<1>0. /\ TypeOK /\ pc \in [Workers -> PCs] /\ snapshot \in [Workers -> States]
      /\ lease \in LeaseRows /\ None \notin Workers /\ Gone \notin Workers
      /\ turn \in [Workers -> 0 .. Last] /\ state \in States
  BY HolderAssumption DEF Typed, TypeOK
<1>1. CASE Tick \/ Accept \/ (\E m \in Accepted : DeliverCached(m)) \/ UNCHANGED vars
  <2>1. lease'.holder = lease.holder /\ UNCHANGED <<state, pc, turn, snapshot>>
    BY <1>0, <1>1 DEF Tick, Accept, DeliverCached, vars, database, workers, LeaseRows
  <2> QED
    BY <2>1 DEF StateInv
<1>2. ASSUME NEW w \in Workers, WorkerStep(w), w # v
      PROVE  UNCHANGED state /\ lease.holder = v /\ pc'[v] = pc[v] /\ turn'[v] = turn[v]
             /\ snapshot'[v] = snapshot[v]
  <2>1. ~AcquireTurn(w)
    BY <1>2 DEF AcquireTurn
  <2>2. lease' = lease
    <3>1. CASE lease.holder = w /\ lease' # lease
      <4>1. lease'.holder \in {Gone, None}
        <5>1. CASE Vanish(w)
          BY <1>0, <3>1, <5>1 DEF Vanish, Disown, LeaseRows
        <5>2. CASE Leaves(w) /\ ~Vanish(w)
          BY <3>1, <5>2 DEF Leaves, DeferGeneration, WaitTimeout, RefuseStale, ReturnCached,
                            MissClaim, Release, ReleaseLease, Free, database
        <5>3. CASE LeavesBody(w)
          BY <3>1, <5>3 DEF LeavesBody, CommitReply, LosesOwnership, AttemptFails, Free, database
        <5>4. CASE WorksOn(w)
          BY <2>1, <3>1, <5>4 DEF WorksOn, Deliver, RefuseAdmission, ClaimRun, Anchor,
                                  SaveRequirements, FailRun, FailNothing, database
        <5> QED
          BY <1>2, <5>1, <5>2, <5>3, <5>4, StepsAre
      <4> QED
        BY <1>0, <4>1
    <3> QED
      BY <1>0, <1>2, <2>1, <3>1, LeaseSteps
  <2>3. state' = state
    BY <1>2, <2>2, StateSteps DEF Anchor, SaveRequirements, CommitReply, OwnsLease
  <2> QED
    BY <1>0, <1>2, <2>2, <2>3, OthersStay
<1>3. ASSUME WorkerStep(v)
      PROVE  /\ pc'[v] = "acquired" => snapshot'[v] = state'
             /\ pc'[v] = "anchor" => /\ snapshot'[v].last = turn'[v]
                                     /\ state'.last <= turn'[v]
                                     /\ snapshot'[v].requirements = state'.requirements
             /\ pc'[v] = "graph" => snapshot'[v] = state' /\ state'.last = turn'[v]
  <2>1. CASE AcquireTurn(v)
    BY <1>0, <2>1 DEF AcquireTurn, Goto
  <2>2. CASE ClaimRun(v)
    <3>1. /\ pc'[v] = "anchor" /\ turn' = turn /\ state' = state /\ turn[v] \in 0 .. Last
          /\ snapshot[v] = state /\ state.last \in 0 .. Last /\ ~(turn[v] < state.last)
      BY <1>0, <2>2 DEF ClaimRun, Goto, StateInv, Body, StaleTurn, States
    <3>2. snapshot'[v] = [snapshot[v] EXCEPT !.last = turn[v]]
      BY <1>0, <2>2 DEF ClaimRun
    <3>3. snapshot'[v].last = turn[v] /\ snapshot'[v].requirements = state.requirements
      BY <1>0, <3>1, <3>2 DEF States
    <3> QED
      BY <3>1, <3>3, Assumed DEF Assumptions
  <2>3. CASE Anchor(v)
    <3>1. /\ pc'[v] = "graph" /\ turn' = turn /\ state' = snapshot[v] /\ snapshot' = snapshot
          /\ snapshot[v].last = turn[v]
      BY <1>0, <2>3 DEF Anchor, Goto, StateInv, Body, OwnsLease
    <3> QED
      BY <3>1
  <2>4. CASE SaveRequirements(v)
    <3>1. /\ pc'[v] = "graph" /\ turn' = turn /\ snapshot[v] = state /\ state.last = turn[v]
          /\ state' = snapshot'[v] /\ snapshot'[v] = [snapshot[v] EXCEPT !.requirements = turn[v]]
      BY <1>0, <2>4 DEF SaveRequirements, StateInv, Body, OwnsLease
    <3>2. snapshot'[v].last = turn[v]
      BY <1>0, <3>1 DEF States
    <3> QED
      BY <3>1, <3>2
  <2> QED
    BY <1>0, <1>3, <2>1, <2>2, <2>3, <2>4, BodySteps
<1> QED
  BY <1>1, <1>2, <1>3, NextSteps DEF StateInv
\* What the three statements that own the lease make of the planning state.
LEMMA Writes ==
  ASSUME Typed, StateInv, NEW w \in Workers, Anchor(w) \/ SaveRequirements(w) \/ CommitReply(w)
  PROVE  /\ state'.last = turn[w] /\ turn[w] \in Turns
         /\ Anchor(w) => state.last <= turn[w] /\ state'.requirements = state.requirements
         /\ SaveRequirements(w) => /\ state.last = turn[w] /\ state.requirements # turn[w]
                                   /\ state'.requirements = turn[w]
         /\ CommitReply(w) => state' = state
<1>0. /\ pc \in [Workers -> PCs] /\ snapshot \in [Workers -> States] /\ turn[w] \in Turns
      /\ lease.holder = w /\ pc[w] \in Body
  BY AcceptedAre DEF Typed, TypeOK, WorkShape, Anchor, SaveRequirements, CommitReply, OwnsLease, Body
<1>1. ASSUME Anchor(w)
      PROVE  /\ state'.last = turn[w]
             /\ state.last <= turn[w] /\ state'.requirements = state.requirements
  BY <1>0, <1>1 DEF Anchor, StateInv
<1>2. ASSUME SaveRequirements(w)
      PROVE  /\ state'.last = turn[w] /\ state'.requirements = turn[w]
             /\ state.last = turn[w] /\ state.requirements # turn[w]
  <2>1. /\ snapshot[w] = state /\ state.last = turn[w] /\ state.requirements # turn[w]
        /\ state' = [snapshot[w] EXCEPT !.requirements = turn[w]] /\ snapshot[w] \in States
    BY <1>0, <1>2 DEF SaveRequirements, StateInv, IsRequirementsReplay
  <2> QED
    BY <1>0, <2>1, StateTypes
<1>3. ASSUME CommitReply(w)
      PROVE  state'.last = turn[w] /\ state' = state
  BY <1>0, <1>3 DEF CommitReply, StateInv
<1> QED
  BY <1>0, <1>1, <1>2, <1>3

\* A step other than these three leaves the planning state alone, and saves no reply.
LEMMA WritersOnly ==
  ASSUME Typed, [Next]_vars,
         ~ \E w \in Workers : Anchor(w) \/ SaveRequirements(w) \/ CommitReply(w)
  PROVE  /\ state' = state
         /\ \A m \in Accepted : messages'[m].replied => messages[m].replied
<1>0. PICK n \in 0 .. Last : /\ messages \in [1 .. n -> MessageRows]
                             /\ Accepted = 1 .. n /\ Cardinality(Accepted) = n
  BY AcceptedAre DEF Typed
<1>1. CASE Tick
  <2>1. \A m \in Accepted : /\ messages[m] \in MessageRows
                            /\ messages'[m] = [messages[m] EXCEPT !.holds = Less(messages[m].holds)]
    BY <1>0, <1>1 DEF Tick
  <2> QED
    BY <1>1, <2>1, RowTypes DEF Tick
<1>2. CASE Accept
  <2>1. \A m \in Accepted : messages'[m] = messages[m]
    BY <1>0, <1>2 DEF Accept
  <2> QED
    BY <1>2, <2>1 DEF Accept
<1>3. CASE (\E m \in Accepted : DeliverCached(m)) \/ UNCHANGED vars
  BY <1>3 DEF DeliverCached, vars, database
<1>4. ASSUME NEW w \in Workers, WorkerStep(w)
      PROVE  /\ state' = state
             /\ \A m \in Accepted : messages'[m].replied => messages[m].replied
  <2>1. state' = state
    BY <1>4, StateSteps
  <2>2. CASE DeferGeneration(w) \/ ClaimRun(w)
    <3>1. messages' = [messages EXCEPT ![turn[w]] = [messages[turn[w]] EXCEPT !.holds = 0]]
          /\ turn[w] \in Accepted
      BY <2>2 DEF DeferGeneration, ClaimRun, Typed, WorkShape
    <3>2. messages[turn[w]] \in MessageRows
      BY <1>0, <3>1
    <3>3. messages'[turn[w]].replied = messages[turn[w]].replied
      BY <1>0, <3>1, <3>2, RowTypes
    <3>4. \A m \in Accepted \ {turn[w]} : messages'[m] = messages[m]
      BY <1>0, <3>1
    <3> QED
      BY <2>1, <3>3, <3>4
  <2>3. CASE ~(DeferGeneration(w) \/ ClaimRun(w))
    <3>1. CASE Leaves(w)
      BY <2>1, <2>3, <3>1 DEF Leaves, WaitTimeout, RefuseStale, ReturnCached, MissClaim, Release,
                              Vanish, database
    <3>2. CASE LeavesBody(w)
      BY <2>1, <2>3, <3>2 DEF LeavesBody, LosesOwnership, AttemptFails, database
    <3>3. CASE WorksOn(w)
      BY <2>1, <2>3, <3>3 DEF WorksOn, Deliver, RefuseAdmission, AcquireTurn, FailRun,
                              FailNothing, database
    <3> QED
      BY <1>4, <3>1, <3>2, <3>3, StepsAre
  <2> QED
    BY <2>2, <2>3
<1> QED
  BY <1>1, <1>2, <1>3, <1>4, NextSteps

\* The planning state never goes back to an older turn, and a reply is committed only with
\* the state of its own turn, however long the worker that brings it was asleep.
THEOREM StateFollowsTurns == Spec => TurnsNeverGoBack
<1> DEFINE Step == /\ state'.last >= state.last
                   /\ \A m \in Accepted :
                        messages'[m].replied /\ ~messages[m].replied => state'.last = m
<1>1. Typed /\ StateInv /\ [Next]_vars => [Step]_vars
  <2> SUFFICES ASSUME Typed, StateInv, [Next]_vars PROVE Step
    OBVIOUS
  <2>0. state.last \in Nat
    BY Assumed DEF Assumptions, Typed, TypeOK, States
  <2>1. ASSUME NEW w \in Workers, Anchor(w) \/ SaveRequirements(w) \/ CommitReply(w)
        PROVE  Step
    <3>1. state'.last >= state.last
      BY <2>0, <2>1, Writes, Assumed DEF Assumptions, Turns
    <3>2. \A m \in Accepted \ {turn[w]} : messages'[m] = messages[m]
      BY <2>1 DEF Anchor, SaveRequirements, CommitReply, Accepted
    <3>3. state'.last = turn[w]
      BY <2>1, Writes
    <3> QED
      BY <3>1, <3>2, <3>3
  <2>2. CASE ~ \E w \in Workers : Anchor(w) \/ SaveRequirements(w) \/ CommitReply(w)
    BY <2>0, <2>2, WritersOnly
  <2> QED
    BY <2>1, <2>2
<1> QED
  BY <1>1, TypedInit, TypedNext, StateInit, StateNext, PTL DEF Spec, TurnsNeverGoBack
------------------------------------------------------------------------------
(* Requirements are committed once for each message.                           *)

\* After the commit, the committed state is that of a later turn, or says itself that the
\* requirements are there.
ExtractInv ==
    \A m \in Turns :
        extracted[m] # 0 =>
            /\ extracted[m] = 1
            /\ \/ state.last > m
               \/ state.last = m /\ state.requirements = m

\* Nothing is extracted yet.
LEMMA ExtractInit == Init => ExtractInv
BY DEF Init, ExtractInv

\* A turn extracts only what its state, the committed one, says is missing.
LEMMA ExtractNext == Typed /\ StateInv /\ ExtractInv /\ [Next]_vars => ExtractInv'
<1> SUFFICES ASSUME Typed, StateInv, ExtractInv, [Next]_vars, NEW m \in Turns, extracted'[m] # 0
             PROVE  /\ extracted'[m] = 1
                    /\ state'.last > m \/ (state'.last = m /\ state'.requirements = m)
  BY DEF ExtractInv
<1>0. /\ extracted \in [Turns -> Nat] /\ state.last \in Nat /\ Turns \subseteq Nat
      /\ extracted[m] # 0 => /\ extracted[m] = 1
                             /\ state.last > m \/ (state.last = m /\ state.requirements = m)
  <2>1. extracted \in [Turns -> Nat] /\ state \in States
    BY DEF Typed, TypeOK
  <2>2. state.last \in Nat /\ Turns \subseteq Nat
    BY <2>1, Assumed DEF Assumptions, States, Turns
  <2>3. extracted[m] # 0 => /\ extracted[m] = 1
                            /\ state.last > m \/ (state.last = m /\ state.requirements = m)
    BY DEF ExtractInv
  <2> QED
    BY <2>1, <2>2, <2>3
<1>1. ASSUME NEW w \in Workers, Anchor(w) \/ CommitReply(w)
      PROVE  /\ extracted'[m] = 1
             /\ state'.last > m \/ (state'.last = m /\ state'.requirements = m)
  <2>1. extracted' = extracted
    BY <1>1 DEF Anchor, CommitReply
  <2>2. \/ state'.last >= state.last /\ state'.requirements = state.requirements
        \/ state' = state
    BY <1>0, <1>1, Writes
  <2>3. state'.last \in Nat
    BY <1>0, <1>1, Writes
  <2> QED
    BY <1>0, <2>1, <2>2, <2>3
<1>2. ASSUME NEW w \in Workers, SaveRequirements(w)
      PROVE  /\ extracted'[m] = 1
             /\ state'.last > m \/ (state'.last = m /\ state'.requirements = m)
  <2>1. /\ turn[w] \in Turns /\ state.last = turn[w] /\ state.requirements # turn[w]
        /\ state'.last = turn[w] /\ state'.requirements = turn[w]
    BY <1>2, Writes
  <2>2. CASE m = turn[w]
    <3>1. extracted[m] = 0
      BY <1>0, <2>1, <2>2
    <3>2. extracted'[m] = extracted[m] + 1
      BY <1>0, <1>2, <2>1, <2>2 DEF SaveRequirements
    <3> QED
      BY <2>1, <2>2, <3>1, <3>2
  <2>3. CASE m # turn[w]
    <3>1. extracted'[m] = extracted[m]
      BY <1>0, <1>2, <2>3 DEF SaveRequirements
    <3>2. extracted'[m] = 1 /\ state.last > m
      BY <1>0, <2>1, <2>3, <3>1
    <3> QED
      BY <2>1, <3>2
  <2> QED
    BY <2>2, <2>3
<1>3. CASE ~ \E w \in Workers : Anchor(w) \/ SaveRequirements(w) \/ CommitReply(w)
  <2>1. extracted' = extracted
    BY <1>3 DEF Next, Advance, vars, Tick, Accept, DeliverCached, Deliver, RefuseAdmission,
                DeferGeneration, AcquireTurn, WaitTimeout, RefuseStale, ReturnCached, ClaimRun,
                MissClaim, LosesOwnership, FailRun, FailNothing, Release, AttemptFails, Vanish
  <2> QED
    BY <1>0, <1>3, <2>1, WritersOnly
<1> QED
  BY <1>1, <1>2, <1>3

\* The requirements of a message are extracted and committed once, for any number of
\* attempts, of workers that die in between and of sleepers that wake up late.
THEOREM RequirementsExtractedOnce == Spec => []ExtractedOnce
<1>1. Typed /\ ExtractInv => ExtractedOnce
  <2> SUFFICES ASSUME Typed, ExtractInv, NEW m \in Turns PROVE extracted[m] <= 1
    BY DEF ExtractedOnce
  <2> QED
    BY DEF ExtractInv, Typed, TypeOK
<1> QED
  BY <1>1, TypedInit, TypedNext, StateInit, StateNext, ExtractInit, ExtractNext, PTL DEF Spec

------------------------------------------------------------------------------
(* A message that still holds back later ones is not overtaken.                *)

\* Nobody has claimed the message, and nobody has answered it.
Untouched(m) == runs[m].status = "absent" /\ ~messages[m].replied

\* What holds back later messages is neither claimed nor answered, and nobody is past it.
PromptInv ==
    \A m \in Accepted :
        messages[m].holds > 0 =>
            /\ Untouched(m)
            /\ state.last <= m
            /\ \A w \in Workers : pc[w] \in Body => turn[w] <= m /\ snapshot[w].last <= m

\* No message is accepted yet.
LEMMA PromptInit == Init => PromptInv
BY DEF Init, PromptInv, Accepted

\* What still holds back later messages after a step did so before, and nobody claimed it.
LEMMA HoldsBefore ==
  ASSUME Typed, PromptInv, [Next]_vars, ~Accept,
         NEW m \in Accepted', messages'[m].holds > 0
  PROVE  m \in Accepted /\ messages[m].holds > 0 /\ Untouched(m)'
<1>0. PICK n \in 0 .. Last : /\ messages \in [1 .. n -> MessageRows]
                             /\ Accepted = 1 .. n /\ Accepted \subseteq Turns
  BY AcceptedAre DEF Typed
<1>1. runs \in [Turns -> RunRows] /\ \A k \in Accepted : messages[k].holds \in Nat
  BY <1>0, Assumed DEF Assumptions, Typed, TypeOK, MessageRows
<1>2. CASE Tick
  <2>1. m \in Accepted
    BY <1>2 DEF Tick, Accepted
  <2>2. messages'[m] = [messages[m] EXCEPT !.holds = Less(messages[m].holds)]
        /\ messages[m] \in MessageRows
    BY <1>0, <1>2, <2>1 DEF Tick
  <2>3. messages'[m].holds = Less(messages[m].holds) /\ messages'[m].replied = messages[m].replied
    BY <2>2, RowTypes
  <2>4. runs'[m] = [runs[m] EXCEPT !.left = Less(runs[m].left)] /\ runs[m] \in RunRows
    BY <1>0, <1>1, <1>2, <2>1 DEF Tick
  <2>5. runs'[m].status = runs[m].status
    BY <2>4 DEF RunRows
  <2>6. messages[m].holds > 0
    BY <1>1, <2>1, <2>3 DEF Less
  <2> QED
    BY <2>1, <2>3, <2>5, <2>6 DEF PromptInv, Untouched
<1>3. CASE (\E k \in Accepted : DeliverCached(k)) \/ UNCHANGED vars
  BY <1>3 DEF DeliverCached, vars, database, Accepted, PromptInv, Untouched
<1>4. ASSUME NEW w \in Workers, DeferGeneration(w) \/ ClaimRun(w) \/ CommitReply(w)
      PROVE  m \in Accepted /\ messages[m].holds > 0 /\ Untouched(m)'
  <2>1. m \in Accepted /\ turn[w] \in Accepted /\ messages[turn[w]] \in MessageRows
    BY <1>0, <1>4 DEF DeferGeneration, ClaimRun, CommitReply, Accepted, Typed, WorkShape
  <2>2. messages'[turn[w]].holds = messages[turn[w]].holds \/ messages'[turn[w]].holds = 0
    BY <1>0, <1>4, <2>1, RowTypes DEF DeferGeneration, ClaimRun, CommitReply
  <2>3. \A k \in Accepted \ {turn[w]} : messages'[k] = messages[k] /\ runs'[k] = runs[k]
    BY <1>0, <1>1, <1>4 DEF DeferGeneration, ClaimRun, CommitReply
  <2>4. messages[m].holds > 0
    BY <1>1, <2>1, <2>2, <2>3
  <2>5. Untouched(m)
    BY <2>1, <2>4 DEF PromptInv
  <2>6. CASE m = turn[w]
    <3>1. ~CommitReply(w)
      BY <2>5, <2>6 DEF Untouched, CommitReply, OwnsRun
    <3>2. messages'[turn[w]].holds = 0
      BY <1>0, <1>4, <2>1, <3>1, RowTypes DEF DeferGeneration, ClaimRun
    <3> QED
      BY <2>6, <3>2
  <2> QED
    BY <2>1, <2>3, <2>4, <2>5, <2>6 DEF Untouched
<1>5. ASSUME NEW w \in Workers, FailRun(w)
      PROVE  m \in Accepted /\ messages[m].holds > 0 /\ Untouched(m)'
  <2>1. m \in Accepted /\ messages[m].holds > 0 /\ messages' = messages /\ Untouched(m)
    BY <1>5 DEF FailRun, Accepted, PromptInv
  <2>2. m # turn[w]
    BY <1>5, <2>1 DEF FailRun, OwnsRun, Untouched
  <2>3. runs'[m] = runs[m]
    BY <1>0, <1>1, <1>5, <2>1, <2>2 DEF FailRun
  <2> QED
    BY <2>1, <2>3 DEF Untouched
<1>6. ASSUME NEW w \in Workers, Vanish(w)
      PROVE  m \in Accepted /\ messages[m].holds > 0 /\ Untouched(m)'
  <2>1. m \in Accepted /\ messages[m].holds > 0 /\ messages' = messages /\ Untouched(m)
    BY <1>6 DEF Vanish, Accepted, PromptInv
  <2>2. runs'[m] = [runs[m] EXCEPT !.holder = Disown(runs[m].holder, w)] /\ runs[m] \in RunRows
    BY <1>0, <1>1, <1>6, <2>1 DEF Vanish
  <2>3. runs'[m].status = runs[m].status
    BY <2>2 DEF RunRows
  <2> QED
    BY <2>1, <2>3 DEF Untouched
<1>7. ASSUME NEW w \in Workers, WorkerStep(w),
             ~(DeferGeneration(w) \/ ClaimRun(w) \/ CommitReply(w) \/ FailRun(w) \/ Vanish(w))
      PROVE  m \in Accepted /\ messages[m].holds > 0 /\ Untouched(m)'
  <2>1. messages' = messages /\ runs' = runs
    BY <1>7 DEF WorkerStep, Advance, Deliver, RefuseAdmission, AcquireTurn, WaitTimeout, RefuseStale,
                ReturnCached, MissClaim, Anchor, SaveRequirements, LosesOwnership, FailNothing,
                Release, AttemptFails, database
  <2> QED
    BY <2>1 DEF Accepted, PromptInv, Untouched
<1> QED
  BY <1>2, <1>3, <1>4, <1>5, <1>6, <1>7, NextSteps

\* A later message is not acquired while this one holds it back; a new one is last.
LEMMA PromptNext == Typed /\ StateInv /\ PromptInv /\ [Next]_vars => PromptInv'
<1> SUFFICES ASSUME Typed, StateInv, PromptInv, [Next]_vars,
                    NEW m \in Accepted', messages'[m].holds > 0
             PROVE  /\ Untouched(m)'
                    /\ state'.last <= m
                    /\ \A v \in Workers : pc'[v] \in Body => turn'[v] <= m /\ snapshot'[v].last <= m
  BY DEF PromptInv
<1>0. /\ TypeOK /\ pc \in [Workers -> PCs] /\ snapshot \in [Workers -> States] /\ state \in States
      /\ turn \in [Workers -> 0 .. Last] /\ Last \in Nat
      /\ state.last \in Nat /\ \A v \in Workers : turn[v] \in Nat /\ snapshot[v].last \in Nat
  BY Assumed DEF Assumptions, Typed, TypeOK, States
<1>1. PICK n \in 0 .. Last : /\ messages \in [1 .. n -> MessageRows] /\ Accepted = 1 .. n
                             /\ Cardinality(Accepted) = n /\ Accepted \subseteq Turns
  BY <1>0, AcceptedAre
<1>2. CASE Accept
  <2>1. /\ UNCHANGED <<runs, state, pc, turn, snapshot>> /\ n + 1 <= Last
        /\ messages' = [k \in 1 .. n + 1 |->
             IF k = n + 1 THEN [holds |-> Lease, replied |-> FALSE] ELSE messages[k]]
    BY <1>1, <1>2 DEF Accept, workers
  <2>2. CASE m = n + 1
    <3>1. Untouched(m)'
      BY <1>1, <2>1, <2>2 DEF Untouched, Typed, WorkShape, Turns
    <3>2. state.last <= n /\ \A v \in Workers : snapshot[v].last <= n
                             /\ (pc[v] \in Body => turn[v] <= n)
      BY <1>1 DEF Typed, WorkShape, Body
    <3> QED
      BY <1>0, <1>1, <2>1, <2>2, <3>1, <3>2
  <2>3. CASE m # n + 1
    <3>1. m \in Accepted /\ messages'[m] = messages[m]
      BY <1>1, <2>1, <2>3 DEF Accepted
    <3> QED
      BY <2>1, <3>1 DEF PromptInv, Untouched
  <2> QED
    BY <2>2, <2>3
<1>3. CASE ~Accept
  <2>1. m \in Accepted /\ messages[m].holds > 0 /\ Untouched(m)' /\ m \in Nat
    BY <1>1, <1>3, HoldsBefore
  <2>2. /\ state.last <= m /\ Untouched(m)
        /\ \A v \in Workers : pc[v] \in Body => turn[v] <= m /\ snapshot[v].last <= m
    BY <2>1 DEF PromptInv
  <2>3. CASE Tick \/ (\E k \in Accepted : DeliverCached(k)) \/ UNCHANGED vars
    <3>1. UNCHANGED <<state, pc, turn, snapshot>>
      BY <2>3 DEF Tick, DeliverCached, vars, database, workers
    <3> QED
      BY <2>1, <2>2, <3>1
  <2>4. ASSUME NEW w \in Workers, WorkerStep(w)
        PROVE  /\ state'.last <= m
               /\ \A v \in Workers : pc'[v] \in Body => turn'[v] <= m /\ snapshot'[v].last <= m
    <3>1. ASSUME pc'[w] \in Body
          PROVE  turn'[w] <= m /\ snapshot'[w].last <= m
      <4>1. CASE AcquireTurn(w)
        <5>1. turn[w] <= m
          BY <1>0, <2>1, <2>2, <4>1 DEF AcquireTurn, EarlierPending, Untouched
        <5> QED
          BY <1>0, <2>2, <4>1, <5>1 DEF AcquireTurn
      <4>2. CASE ClaimRun(w)
        <5>1. turn[w] <= m /\ snapshot[w] \in States /\ snapshot'[w] = [snapshot[w] EXCEPT !.last = turn[w]]
          BY <1>0, <2>2, <4>2 DEF ClaimRun, Body
        <5>2. snapshot'[w].last = turn[w]
          BY <5>1 DEF States
        <5> QED
          BY <4>2, <5>1, <5>2 DEF ClaimRun
      <4>3. CASE Anchor(w)
        BY <2>2, <4>3 DEF Anchor, Body
      <4>4. CASE SaveRequirements(w)
        <5>1. turn[w] <= m /\ snapshot'[w].last = turn[w]
          BY <2>2, <4>4, Writes DEF SaveRequirements, Body
        <5> QED
          BY <4>4, <5>1 DEF SaveRequirements
      <4> QED
        BY <1>0, <2>4, <3>1, <4>1, <4>2, <4>3, <4>4, BodySteps
    <3>2. \A v \in Workers \ {w} : pc'[v] \in Body => turn'[v] <= m /\ snapshot'[v].last <= m
      BY <1>0, <2>2, <2>4, OthersStay
    <3>3. state'.last <= m
      <4>1. CASE Anchor(w) \/ SaveRequirements(w) \/ CommitReply(w)
        <5>1. pc[w] \in Body /\ state'.last = turn[w]
          BY <4>1, Writes DEF Anchor, SaveRequirements, CommitReply, Body
        <5> QED
          BY <2>2, <5>1
      <4>2. CASE ~(Anchor(w) \/ SaveRequirements(w) \/ CommitReply(w))
        BY <2>2, <2>4, <4>2, StateSteps
      <4> QED
        BY <4>1, <4>2
    <3> QED
      BY <3>1, <3>2, <3>3
  <2> QED
    BY <1>3, <2>1, <2>3, <2>4, NextSteps
<1> QED
  BY <1>2, <1>3

\* A message that reaches its turn before it has been attempted, deferred or left alone
\* for the length of a lease is not answered STALE_REQUEST: no later message got past it.
THEOREM PromptTurnsAreCurrent == Spec => []PromptTurnNotStale
<1>1. Typed /\ PromptInv => PromptTurnNotStale
  <2> SUFFICES ASSUME Typed, PromptInv, NEW w \in Workers,
                      pc[w] = "acquired", messages[turn[w]].holds > 0
               PROVE  ~StaleTurn(w)
    BY DEF PromptTurnNotStale
  <2>1. turn[w] \in Accepted /\ pc[w] \in Body
    BY DEF Typed, WorkShape, Body
  <2>2. snapshot[w].last <= turn[w] /\ snapshot[w].last \in Nat /\ turn[w] \in Nat
    BY <2>1, Assumed DEF Assumptions, PromptInv, Typed, TypeOK, States
  <2> QED
    BY <2>2 DEF StaleTurn
<1> QED
  BY <1>1, TypedInit, TypedNext, StateInit, StateNext, PromptInit, PromptNext, PTL DEF Spec
------------------------------------------------------------------------------
(* What a conversation promises about each of its messages.                    *)

\* The promise of ReplyOnce, read in the rows of message m.  A start is named by the
\* attempt it is, so nobody is 0.
PromiseOf(m) == INSTANCE ReplyOnce WITH
    Nobody <- 0,
    started <- runs[m].attempts,
    inCharge <- IF runs[m].status = "processing" THEN runs[m].attempts ELSE 0,
    answer <- IF m \in Accepted /\ messages[m].replied THEN runs[m].attempts ELSE 0

Replied(m) == m \in Accepted /\ messages[m].replied

\* A run that exists has been attempted, and a message is replied to together with the
\* completion of its run.
AnswerInv ==
    \A m \in Turns : /\ runs[m].status # "absent" => runs[m].attempts # 0
                     /\ Replied(m) <=> runs[m].status = "completed"

\* No message and no run.
LEMMA AnswerInit == Init => AnswerInv
BY DEF Init, AnswerInv, Replied, Accepted, NoRun

\* The steps that touch neither the run of a message nor its reply.
QuietFor(m) ==
    /\ runs'[m].status = runs[m].status /\ runs'[m].attempts = runs[m].attempts
    /\ Replied(m)' = Replied(m)

\* All but the three that claim a run, complete it or fail it are quiet.
LEMMA LoudSteps ==
  ASSUME Typed, [Next]_vars, NEW m \in Turns, ~QuietFor(m)
  PROVE  \E w \in Workers : turn[w] = m /\ (ClaimRun(w) \/ CommitReply(w) \/ FailRun(w))
<1>0. /\ runs \in [Turns -> RunRows] /\ runs[m] \in RunRows /\ TypeOK
      /\ \A k \in Accepted : messages[k] \in MessageRows
  BY AcceptedAre DEF Typed, TypeOK
<1>1. CASE Tick
  <2>1. /\ runs'[m] = [runs[m] EXCEPT !.left = Less(@)] /\ Accepted' = Accepted
        /\ \A k \in Accepted : messages'[k] = [messages[k] EXCEPT !.holds = Less(@)]
    BY <1>0, <1>1 DEF Tick, Accepted
  <2> QED
    BY <1>0, <2>1, RunTypes, RowTypes DEF QuietFor, Replied
<1>2. CASE Accept
  <2>1. PICK n \in 0 .. Last : Accepted = 1 .. n /\ Cardinality(Accepted) = n
    BY <1>0, AcceptedAre
  <2>2. /\ Accepted' = 1 .. n + 1 /\ runs' = runs
        /\ messages'[n + 1].replied = FALSE /\ \A k \in 1 .. n : messages'[k] = messages[k]
    BY <1>2, <2>1 DEF Accept, Accepted
  <2>3. Replied(m)' = Replied(m)
    <3>1. m \in Nat /\ n \in Nat
      BY Assumed DEF Assumptions, Turns
    <3>2. CASE m \in 1 .. n
      BY <2>1, <2>2, <3>1, <3>2 DEF Replied
    <3>3. CASE m \notin 1 .. n
      BY <2>1, <2>2, <3>1, <3>3 DEF Replied
    <3> QED
      BY <3>2, <3>3
  <2> QED
    BY <2>2, <2>3 DEF QuietFor
<1>3. CASE (\E k \in Accepted : DeliverCached(k)) \/ UNCHANGED vars
  BY <1>3 DEF DeliverCached, vars, database, QuietFor, Replied, Accepted
<1>4. ASSUME NEW w \in Workers, WorkerStep(w)
      PROVE  turn[w] = m /\ (ClaimRun(w) \/ CommitReply(w) \/ FailRun(w))
  <2>1. ~UNCHANGED <<messages, runs>>
    BY DEF QuietFor, Replied, Accepted
  <2>2. ~DeferGeneration(w)
    <3> SUFFICES ASSUME DeferGeneration(w) PROVE QuietFor(m)
      OBVIOUS
    <3>1. runs' = runs /\ messages' = [messages EXCEPT ![turn[w]].holds = 0]
      BY DEF DeferGeneration
    <3>2. Accepted' = Accepted /\ \A k \in Accepted : messages'[k].replied = messages[k].replied
      BY <1>0, <3>1, RowTypes DEF Accepted
    <3> QED
      BY <3>1, <3>2 DEF QuietFor, Replied
  <2>3. ~Vanish(w)
    <3> SUFFICES ASSUME Vanish(w) PROVE QuietFor(m)
      OBVIOUS
    <3>1. messages' = messages /\ runs'[m] = [runs[m] EXCEPT !.holder = Disown(@, w)]
      BY DEF Vanish
    <3>2. runs'[m].status = runs[m].status /\ runs'[m].attempts = runs[m].attempts
      BY <1>0, <3>1 DEF RunRows
    <3>3. Replied(m)' = Replied(m)
      BY <3>1 DEF Replied, Accepted
    <3> QED
      BY <3>2, <3>3 DEF QuietFor
  <2>4. ClaimRun(w) \/ CommitReply(w) \/ FailRun(w)
    BY <1>4, <2>1, <2>2, <2>3, StepsAre
       DEF Leaves, WaitTimeout, RefuseStale, ReturnCached, MissClaim, Release, LeavesBody,
           LosesOwnership, AttemptFails, WorksOn, Deliver, RefuseAdmission, AcquireTurn, Anchor,
           SaveRequirements, FailNothing, database
  <2>5. turn[w] = m
    <3> SUFFICES ASSUME turn[w] # m PROVE QuietFor(m)
      OBVIOUS
    <3>1. turn[w] \in Accepted
      BY <1>4, <2>4 DEF Typed, WorkShape, ClaimRun, CommitReply, FailRun
    <3>2. runs'[m] = runs[m] /\ Accepted' = Accepted
      BY <1>0, <2>4 DEF ClaimRun, CommitReply, FailRun, Accepted
    <3>3. \A k \in Accepted \ {turn[w]} : messages'[k] = messages[k]
      BY <2>4 DEF ClaimRun, CommitReply, FailRun, Accepted
    <3> QED
      BY <3>2, <3>3 DEF QuietFor, Replied
  <2> QED
    BY <2>4, <2>5
<1> QED
  BY <1>1, <1>2, <1>3, <1>4, NextSteps

\* What the three do to the run and the reply of their message.
LEMMA LoudEffects ==
  ASSUME Typed, AnswerInv, NEW w \in Workers, NEW m \in Turns, turn[w] = m
  PROVE  /\ ClaimRun(w) =>
              /\ ~Replied(m) /\ ~Replied(m)' /\ runs[m].attempts < MaxAttempts
              /\ runs'[m].status = "processing" /\ runs'[m].attempts = runs[m].attempts + 1
         /\ CommitReply(w) =>
              /\ runs[m].status = "processing" /\ Replied(m)'
              /\ runs'[m].status = "completed" /\ runs'[m].attempts = runs[m].attempts
         /\ FailRun(w) =>
              /\ runs[m].status = "processing" /\ Replied(m)' = Replied(m)
              /\ runs'[m].status = "failed" /\ runs'[m].attempts = runs[m].attempts
<1>0. /\ runs \in [Turns -> RunRows] /\ runs[m] \in RunRows
      /\ \A k \in Accepted : messages[k] \in MessageRows
  BY AcceptedAre DEF Typed, TypeOK
<1>1. pc[w] # "idle" => m \in Accepted
  BY DEF Typed, WorkShape
<1>2. ASSUME ClaimRun(w)
      PROVE  /\ ~Replied(m) /\ ~Replied(m)' /\ runs[m].attempts < MaxAttempts
             /\ runs'[m].status = "processing" /\ runs'[m].attempts = runs[m].attempts + 1
  <2>1. /\ m \in Accepted /\ ~messages[m].replied /\ Claimable(runs[m])
        /\ messages' = [messages EXCEPT ![m].holds = 0]
        /\ runs'[m] = [status |-> "processing", holder |-> w, left |-> Lease,
                       attempts |-> runs[m].attempts + 1]
    BY <1>0, <1>1, <1>2 DEF ClaimRun
  <2>2. m \in Accepted' /\ messages'[m].replied = messages[m].replied
    BY <1>0, <2>1, RowTypes DEF Accepted
  <2>3. runs[m].attempts < MaxAttempts
    BY <2>1, Assumed DEF Claimable, Assumptions, Typed, WorkShape
  <2> QED
    BY <2>1, <2>2, <2>3 DEF Replied
<1>3. ASSUME CommitReply(w)
      PROVE  /\ runs[m].status = "processing" /\ Replied(m)'
             /\ runs'[m].status = "completed" /\ runs'[m].attempts = runs[m].attempts
  <2>1. /\ m \in Accepted /\ runs[m].status = "processing"
        /\ messages' = [messages EXCEPT ![m].replied = TRUE]
        /\ runs'[m] = [runs[m] EXCEPT !.status = "completed", !.holder = None, !.left = 0]
    BY <1>0, <1>1, <1>3 DEF CommitReply, OwnsRun
  <2>2. m \in Accepted' /\ messages'[m].replied
    BY <1>0, <2>1 DEF Accepted, MessageRows
  <2> QED
    BY <1>0, <2>1, <2>2 DEF Replied, RunRows
<1>4. ASSUME FailRun(w)
      PROVE  /\ runs[m].status = "processing" /\ Replied(m)' = Replied(m)
             /\ runs'[m].status = "failed" /\ runs'[m].attempts = runs[m].attempts
  <2>1. /\ runs[m].status = "processing" /\ messages' = messages
        /\ runs'[m] = [runs[m] EXCEPT !.status = "failed", !.holder = None, !.left = 0]
    BY <1>0, <1>4 DEF FailRun, OwnsRun
  <2> QED
    BY <1>0, <2>1 DEF Replied, Accepted, RunRows
<1> QED
  BY <1>2, <1>3, <1>4

\* A claim counts, and only an owner completes a run or fails it.
LEMMA AnswerNext == Typed /\ AnswerInv /\ [Next]_vars => AnswerInv'
<1> SUFFICES ASSUME Typed, AnswerInv, [Next]_vars, NEW m \in Turns
             PROVE  /\ runs'[m].status # "absent" => runs'[m].attempts # 0
                    /\ Replied(m)' <=> runs'[m].status = "completed"
  BY DEF AnswerInv
<1>0. /\ runs[m].attempts \in Nat
      /\ runs[m].status # "absent" => runs[m].attempts # 0
      /\ Replied(m) <=> runs[m].status = "completed"
  BY Assumed DEF Typed, TypeOK, RunRows, AnswerInv, Assumptions
<1>1. CASE QuietFor(m)
  BY <1>0, <1>1 DEF QuietFor
<1>2. CASE ~QuietFor(m)
  <2>1. PICK w \in Workers : turn[w] = m /\ (ClaimRun(w) \/ CommitReply(w) \/ FailRun(w))
    BY <1>2, LoudSteps
  <2> QED
    BY <1>0, <2>1, LoudEffects
<1> QED
  BY <1>1, <1>2

\* No start, nobody in charge, no answer.
LEMMA PromiseInit == ASSUME Init, NEW m \in Turns PROVE PromiseOf(m)!Init
BY DEF PromiseOf!Init, Init, NoRun, Accepted

\* A claim is a start, a committed reply an answer, a failed run a surrender, and nothing
\* else can be seen.
LEMMA PromiseNext ==
  ASSUME Typed, AnswerInv, [Next]_vars, NEW m \in Turns
  PROVE  [PromiseOf(m)!Next]_(PromiseOf(m)!vars)
<1>0. /\ runs[m].attempts \in Nat
      /\ runs[m].status # "absent" => runs[m].attempts # 0
      /\ Replied(m) <=> runs[m].status = "completed"
  BY Assumed DEF Typed, TypeOK, RunRows, AnswerInv, Assumptions
<1>1. CASE QuietFor(m)
  BY <1>1 DEF PromiseOf!vars, QuietFor, Replied
<1>2. CASE ~QuietFor(m)
  <2>1. PICK w \in Workers : turn[w] = m /\ (ClaimRun(w) \/ CommitReply(w) \/ FailRun(w))
    BY <1>2, LoudSteps
  <2>2. CASE ClaimRun(w)
    <3>1. PromiseOf(m)!Start
      BY <1>0, <2>1, <2>2, LoudEffects DEF PromiseOf!Start, Replied
    <3> QED
      BY <3>1 DEF PromiseOf!Next
  <2>3. CASE CommitReply(w)
    <3>1. PromiseOf(m)!Answer
      BY <1>0, <2>1, <2>3, LoudEffects DEF PromiseOf!Answer, Replied
    <3> QED
      BY <3>1 DEF PromiseOf!Next
  <2>4. CASE FailRun(w)
    <3>1. PromiseOf(m)!GiveUp
      BY <1>0, <2>1, <2>4, LoudEffects DEF PromiseOf!GiveUp, Replied
    <3> QED
      BY <3>1 DEF PromiseOf!Next
  <2> QED
    BY <2>1, <2>2, <2>3, <2>4
<1> QED
  BY <1>1, <1>2

\* For each message of a conversation the rows keep the promise of ReplyOnce: a bounded
\* number of graph runs, one attempt in charge at a time, one unchanging reply, given by the
\* attempt in charge.  Lapsed leases, sleepers, crashes and deliveries of one message to
\* several workers, between the turns of other messages, do not change that.
THEOREM MessagesImplementReplyOnce ==
  ASSUME NEW CONSTANT m \in Turns
  PROVE  Spec => PromiseOf(m)!Spec
<1>1. Init => Typed /\ AnswerInv /\ PromiseOf(m)!Init
  BY TypedInit, AnswerInit, PromiseInit
<1>2. Typed /\ AnswerInv /\ [Next]_vars => (Typed /\ AnswerInv)'
  BY TypedNext, AnswerNext
<1>3. Typed /\ AnswerInv /\ [Next]_vars => [PromiseOf(m)!Next]_(PromiseOf(m)!vars)
  BY PromiseNext
<1> QED
  BY <1>1, <1>2, <1>3, PTL DEF Spec, PromiseOf!Spec
===============================================================================
