------------------------- MODULE TravelSocket_proofs -------------------------
(* Theorems about TravelSocket for any number of requests and any bound on   *)
(* the pending ones.                                                         *)
EXTENDS TravelSocket, FiniteSetTheorems, TLAPS

\* Who holds send_lock is sending.
LockUsed ==
    /\ lock = Loop => loop \in Sending
    /\ \A r \in Requests : lock = r => task[r] = "send"

\* A cancelled monitor has not ended; before the registration and after the return there
\* is nothing.
NothingOutside ==
    /\ Monitor \in cancelled => monitor # "ended"
    /\ loop \in {"handshake", "done"} =>
          Running = {} /\ monitor = "ended" /\ lock = Nobody /\ ~registered

\* The request that the loop is handling has no task; a task's request was accepted.
CurrentShape ==
    /\ loop \in {"check", "persist", "accept"} => current \in Requests
    /\ loop \in {"check", "persist"} => stage[current] = "received"
    /\ loop = "accept" => stage[current] = "persisted"
    /\ loop = "reject" => current \in Requests /\ stage[current] = "rejected"
    /\ \A r \in Running : stage[r] = "accepted"

\* What arrives late goes no further than the check of the session.
LateShape ==
    \A r \in late : /\ ~valid
                    /\ stage[r] = "received"
                    /\ r = current => loop \notin {"persist", "accept"}

Inv == TypeOK /\ LockUsed /\ NothingOutside /\ CurrentShape /\ LateShape

Assumptions == /\ Loop # Monitor /\ Loop # Nobody /\ Monitor # Nobody
               /\ {Loop, Monitor, Nobody} \cap Nat = {}
               /\ Last \in Nat /\ MaxPending \in Nat \ {0}

\* The assumptions on the constants, under one name.
LEMMA Assumed == Assumptions
BY TaskAssumption, CountAssumption DEF Assumptions

\* The names of tasks and requests differ.
LEMMA Names ==
    Loop \notin Requests /\ Monitor \notin Requests /\ Nobody \notin Requests
BY Assumed DEF Assumptions, Requests

\* Nothing has happened yet.
LEMMA InvInit == Init => Inv
BY Assumed, Names
   DEF Assumptions, Init, Inv, TypeOK, LockUsed, NothingOutside, CurrentShape, LateShape,
       Running, Sending

\* Every step keeps the invariant.
LEMMA InvNext == Inv /\ [Next]_vars => Inv'
<1> SUFFICES ASSUME Inv, [Next]_vars PROVE Inv'
  OBVIOUS
<1> USE Assumed, Names
    DEF Assumptions, Inv, TypeOK, LockUsed, NothingOutside, CurrentShape, LateShape,
        Running, Sending, CanSend, outside, socket, requests, tasks
<1>1. CASE Register
  BY <1>1 DEF Register
<1>2. CASE HandshakeFails
  BY <1>2 DEF HandshakeFails
<1>3. CASE Disconnect
  BY <1>3 DEF Disconnect, Unwind, ReleaseLock
<1>4. CASE CheckRequest
  BY <1>4 DEF CheckRequest, Stage
<1>5. CASE RefuseSession
  BY <1>5 DEF RefuseSession, CancelOthers
<1>6. CASE LoopCloses
  BY <1>6 DEF LoopCloses, Unwind, ReleaseLock
<1>7. CASE Persist
  BY <1>7 DEF Persist, Stage
<1>8. CASE PersistRaises
  BY <1>8 DEF PersistRaises, Unwind, ReleaseLock
<1>9. CASE LoopLocks
  BY <1>9 DEF LoopLocks
<1>10. CASE LoopSendRaises
  BY <1>10 DEF LoopSendRaises, Unwind, ReleaseLock
<1>11. CASE LoopSent
  BY <1>11 DEF LoopSent, Stage
<1>12. CASE Return
  BY <1>12 DEF Return
<1>13. CASE Ping
  BY <1>13 DEF Ping
<1>14. CASE CloseUnusable
  BY <1>14 DEF CloseUnusable, Unwind, ReleaseLock
<1>15. CASE MonitorRefuses
  BY <1>15 DEF MonitorRefuses, CancelOthers
<1>16. CASE MonitorCloses
  BY <1>16 DEF MonitorCloses
<1>17. CASE MonitorDies
  BY <1>17 DEF MonitorDies
<1>18. CASE Invalidate
  <2>1. TypeOK'
    BY <1>18 DEF Invalidate
  <2>2. LockUsed'
    BY <1>18 DEF Invalidate
  <2>3. NothingOutside'
    BY <1>18 DEF Invalidate
  <2>4. CurrentShape'
    BY <1>18 DEF Invalidate
  <2>5. LateShape'
    BY <1>18 DEF Invalidate
  <2> QED
    BY <2>1, <2>2, <2>3, <2>4, <2>5
<1>19. CASE PeerLeaves
  <2>1. TypeOK'
    BY <1>19 DEF PeerLeaves
  <2>2. LockUsed'
    BY <1>19 DEF PeerLeaves
  <2>3. NothingOutside'
    BY <1>19 DEF PeerLeaves
  <2>4. CurrentShape'
    BY <1>19 DEF PeerLeaves
  <2>5. LateShape'
    BY <1>19 DEF PeerLeaves
  <2> QED
    BY <2>1, <2>2, <2>3, <2>4, <2>5
<1>20. CASE Evict
  <2>1. TypeOK'
    BY <1>20 DEF Evict
  <2>2. LockUsed'
    BY <1>20 DEF Evict
  <2>3. NothingOutside'
    BY <1>20 DEF Evict
  <2>4. CurrentShape'
    BY <1>20 DEF Evict
  <2>5. LateShape'
    BY <1>20 DEF Evict
  <2> QED
    BY <2>1, <2>2, <2>3, <2>4, <2>5
<1>21. ASSUME NEW r \in Requests, Receive(r) \/ TaskStep(r) \/ CancellationReplaced(r)
       PROVE  Inv'
  <2>1. CASE Receive(r)
    BY <2>1 DEF Receive, Stage
  <2>2. CASE CheckBeforeWork(r)
    BY <2>2 DEF CheckBeforeWork, At, Goto
  <2>3. CASE RefuseWork(r)
    BY <2>3 DEF RefuseWork, CancelOthers, At, Goto
  <2>4. CASE TaskCloses(r)
    BY <2>4 DEF TaskCloses, At, Goto
  <2>5. CASE Generated(r)
    BY <2>5 DEF Generated, At, Goto
  <2>6. CASE TaskLocks(r)
    BY <2>6 DEF TaskLocks, At, Goto
  <2>7. CASE TaskSent(r)
    BY <2>7 DEF TaskSent, At, Goto
  <2>8. CASE TaskSendRaises(r)
    BY <2>8 DEF TaskSendRaises, At, Goto, ReleaseLock
  <2>9. CASE TaskDies(r)
    BY <2>9 DEF TaskDies, Goto, ReleaseLock
  <2>10. CASE CancellationReplaced(r)
    BY <2>10 DEF CancellationReplaced, Goto
  <2> QED
    BY <1>21, <2>1, <2>2, <2>3, <2>4, <2>5, <2>6, <2>7, <2>8, <2>9, <2>10 DEF TaskStep
<1>22. CASE UNCHANGED vars
  BY <1>22 DEF vars
<1> QED
  BY <1>1, <1>2, <1>3, <1>4, <1>5, <1>6, <1>7, <1>8, <1>9, <1>10, <1>11, <1>12, <1>13, <1>14, <1>15, <1>16, <1>17, <1>18, <1>19, <1>20, <1>21, <1>22 DEF Next, LoopStep

\* The invariant holds in every reachable state.
LEMMA Invariance == Spec => []Inv
<1>1. Init => Inv
  BY InvInit
<1>2. Inv /\ [Next]_vars => Inv'
  BY InvNext
<1> QED
  BY <1>1, <1>2, PTL DEF Spec

------------------------------------------------------------------------------
\* Every variable keeps its type; a cancelled task has not ended, and who holds send_lock
\* is a task that is running.
THEOREM TypeCorrect == Spec => []TypeOK
<1>1. Inv => TypeOK
  BY DEF Inv
<1> QED
  BY <1>1, Invariance, PTL

\* When travel_socket has returned, nothing of its connection is left.
THEOREM EndpointLeavesNothing == Spec => []NothingOutlivesEndpoint
<1>1. Inv => NothingOutlivesEndpoint
  BY DEF Inv, TypeOK, NothingOutside, NothingOutlivesEndpoint
<1> QED
  BY <1>1, Invariance, PTL

\* A request that is received after the session has become invalid is never stored.
THEOREM LateRefused == Spec => []LateRequestsRefused
<1>1. Inv => LateRequestsRefused
  BY DEF Inv, LateShape, LateRequestsRefused
<1> QED
  BY <1>1, Invariance, PTL

------------------------------------------------------------------------------
\* Between the test of the capacity and the creation of the task no task can be added.
RoomKept == loop \in {"persist", "accept"} => Cardinality(Running) < MaxPending

Bounded == PendingBounded /\ RoomKept

\* A set of requests is finite.
LEMMA FiniteRequests == ASSUME NEW S, S \subseteq Requests PROVE IsFiniteSet(S)
<1>1. IsFiniteSet(1 .. Last)
  BY Assumed, FS_Interval DEF Assumptions
<1> QED
  BY <1>1, FS_Subset DEF Requests

\* If no task is added and the loop passes no test, the bound is kept.
LEMMA NoTaskAdded ==
    ASSUME Inv, Bounded, Running' \subseteq Running,
           loop' \in {"persist", "accept"} => loop \in {"persist", "accept"}
    PROVE  Bounded'
<1>1. IsFiniteSet(Running) /\ IsFiniteSet(Running')
  BY FiniteRequests DEF Running
<1>2. Cardinality(Running') <= Cardinality(Running)
  BY <1>1, FS_Subset
<1>3. Cardinality(Running) \in Nat /\ Cardinality(Running') \in Nat
  BY <1>1, FS_CardinalityType
<1> QED
  BY <1>2, <1>3, Assumed DEF Bounded, PendingBounded, RoomKept, Assumptions

\* Every step keeps the bound: the two that concern it are CheckRequest, which tests the
\* capacity, and LoopSent, which adds a task.
LEMMA BoundedNext == Inv /\ Bounded /\ [Next]_vars => Bounded'
<1> SUFFICES ASSUME Inv, Bounded, [Next]_vars PROVE Bounded'
  OBVIOUS
<1>1. CASE CheckRequest
  <2>1. Running' = Running
    BY <1>1 DEF CheckRequest, Running, tasks
  <2>2. IsFiniteSet(Running)
    BY FiniteRequests DEF Running
  <2>3. Cardinality(Running) \in Nat
    BY <2>2, FS_CardinalityType
  <2> QED
    BY <1>1, <2>1, <2>3, Assumed
       DEF CheckRequest, AtCapacity, Bounded, PendingBounded, RoomKept, Assumptions
<1>2. CASE LoopSent /\ loop = "accept"
  <2>1. /\ current \in Requests /\ loop' = "receive"
        /\ task' = [task EXCEPT ![current] = "check"]
    BY <1>2 DEF LoopSent, Inv, CurrentShape
  <2>2. Running' = Running \cup {current}
    BY <2>1 DEF Running, Inv, TypeOK
  <2>3. IsFiniteSet(Running)
    BY FiniteRequests DEF Running
  <2>4. Cardinality(Running) \in Nat
    BY <2>3, FS_CardinalityType
  <2>5. Cardinality(Running \cup {current}) =
            IF current \in Running THEN Cardinality(Running) ELSE Cardinality(Running) + 1
    BY <2>3, FS_AddElement, Zenon
  <2> QED
    BY <1>2, <2>1, <2>2, <2>4, <2>5, Assumed
       DEF Bounded, PendingBounded, RoomKept, Assumptions
<1>3. CASE ~CheckRequest /\ ~(LoopSent /\ loop = "accept")
  <2> USE <1>3, NoTaskAdded DEF Running, tasks
  <2>1. CASE LoopStep
    BY <2>1 DEF LoopStep, Register, HandshakeFails, Disconnect, RefuseSession, LoopCloses,
                Persist, PersistRaises, LoopLocks, LoopSendRaises, LoopSent, Return, Unwind
  <2>2. CASE Ping \/ CloseUnusable
    BY <2>2 DEF Ping, CloseUnusable, Unwind
  <2>3. CASE MonitorRefuses \/ MonitorCloses \/ MonitorDies
    BY <2>3 DEF MonitorRefuses, MonitorCloses, MonitorDies
  <2>4. ASSUME NEW r \in Requests, Receive(r) \/ TaskStep(r) \/ CancellationReplaced(r)
        PROVE  Bounded'
    BY <2>4 DEF Receive, TaskStep, CheckBeforeWork, RefuseWork, TaskCloses, Generated,
                TaskLocks, TaskSent, TaskSendRaises, TaskDies, CancellationReplaced,
                At, Goto, Inv, TypeOK
  <2>5. CASE Invalidate \/ PeerLeaves \/ Evict
    BY <2>5 DEF Invalidate, PeerLeaves, Evict
  <2>6. CASE UNCHANGED vars
    BY <2>6 DEF vars
  <2> QED
    BY <2>1, <2>2, <2>3, <2>4, <2>5, <2>6 DEF Next
<1> QED
  BY <1>1, <1>2, <1>3

\* A connection never has more than websocket_max_pending_requests tasks.
THEOREM PendingBound == Spec => []PendingBounded
<1>1. Init => Bounded
  <2> SUFFICES ASSUME Init PROVE Bounded
    OBVIOUS
  <2>1. Running = {}
    BY DEF Init, Running
  <2> QED
    BY <2>1, FS_EmptySet, Assumed
       DEF Init, Bounded, PendingBounded, RoomKept, Assumptions
<1>2. Inv /\ Bounded /\ [Next]_vars => Bounded'
  BY BoundedNext
<1>3. Bounded => PendingBounded
  BY DEF Bounded
<1> QED
  BY <1>1, <1>2, <1>3, Invariance, PTL DEF Spec
==============================================================================
