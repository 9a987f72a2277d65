----------------------------- MODULE TravelSocket -----------------------------
(* One travel WebSocket: the endpoint's receive loop, the task that monitors *)
(* its session, a response task for each accepted request, and the           *)
(* ConnectionManager, which may close the socket behind their backs.  All    *)
(* run on one event loop, so a step is what a task does between two awaits.  *)
(* A cancelled task runs no further than its current await, but its cleanup  *)
(* takes time and may replace the cancellation by another exception.         *)
EXTENDS Naturals, FiniteSets

CONSTANTS
    Last,          \* bound: travel.request events on this socket, 1 .. Last as they arrive
    MaxPending,    \* Settings.websocket_max_pending_requests
    Loop, Monitor, \* the tasks beside the response tasks
    Nobody         \* nobody holds send_lock; no request

ASSUME TaskAssumption ==
    /\ Loop # Monitor /\ Loop # Nobody /\ Monitor # Nobody
    /\ {Loop, Monitor, Nobody} \cap Nat = {}
ASSUME CountAssumption == Last \in Nat /\ MaxPending \in Nat \ {0}

VARIABLES
    valid,      \* whether the session and its access token would authenticate
    peer,       \* whether the client is connected
    closed,     \* whether the server has sent a close frame
    registered, \* whether the ConnectionManager knows the connection
    loop,       \* where the endpoint is
    current,    \* the request it is handling
    monitor,    \* where the monitor is
    task,       \* where each response task is
    cancelled,  \* tasks that have been cancelled and have not ended
    lock,       \* the holder of send_lock
    stage,      \* how far the loop has come with each request
    told,       \* requests answered by a final event
    late        \* history: requests received after the session had become invalid

outside == <<valid, peer, late>>
socket == <<closed, registered>>
requests == <<current, stage>>
tasks == <<task, told>>
vars == <<outside, socket, loop, requests, monitor, tasks, cancelled, lock>>

Requests == 1 .. Last
Running == {r \in Requests : task[r] \notin {"none", "ended"}}
Sending == {"greet", "pong", "reject", "accept"}

TypeOK ==
    /\ valid \in BOOLEAN /\ peer \in BOOLEAN /\ closed \in BOOLEAN
    /\ registered \in BOOLEAN
    /\ loop \in {"handshake", "receive", "check", "persist", "closing", "unwind", "done"}
                \cup Sending
    /\ current \in Requests \cup {Nobody}
    /\ monitor \in {"asleep", "closing", "ended"}
    /\ task \in [Requests -> {"none", "check", "generate", "send", "closing", "ended"}]
    /\ cancelled \subseteq Running \cup {Monitor}
    /\ lock \in Running \cup {Loop, Nobody}
    /\ stage \in [Requests -> {"unsent", "received", "rejected", "persisted", "accepted"}]
    /\ told \subseteq Requests /\ late \subseteq Requests

\* The handshake has authenticated the client.
Init ==
    /\ valid = TRUE /\ peer = TRUE /\ closed = FALSE
    /\ registered = FALSE
    /\ loop = "handshake"
    /\ current = Nobody
    /\ monitor = "ended"
    /\ task = [r \in Requests |-> "none"]
    /\ cancelled = {}
    /\ lock = Nobody
    /\ stage = [r \in Requests |-> "unsent"]
    /\ told = {} /\ late = {}

------------------------------------------------------------------------------
(* Steps that several tasks take.                                            *)

\* The first half of close_invalid_session: no response task but the caller goes on.
CancelOthers(p) == cancelled' = cancelled \cup (Running \ {p})

\* A send raises once a close frame was sent or the client is gone.
CanSend == peer /\ ~closed

ReleaseLock(p) == lock' = IF lock = p THEN Nobody ELSE lock

\* The finally clause cancels the monitor and every response task.
Unwind ==
    /\ loop' = "unwind"
    /\ cancelled' = cancelled \cup Running
                      \cup (IF monitor = "ended" THEN {} ELSE {Monitor})
    /\ ReleaseLock(Loop)
    /\ current' = Nobody

Stage(r, s) == stage' = [stage EXCEPT ![r] = s]

------------------------------------------------------------------------------
(* The endpoint.                                                             *)

\* accept and register; the monitor is created without another await.
Register ==
    /\ loop = "handshake"
    /\ peer
    /\ registered' = TRUE
    /\ monitor' = "asleep"
    /\ loop' = "greet"
    /\ UNCHANGED <<outside, closed, requests, tasks, cancelled, lock>>

HandshakeFails ==
    /\ loop = "handshake"
    /\ ~peer
    /\ loop' = "done"
    /\ closed' = TRUE
    /\ UNCHANGED <<outside, registered, requests, monitor, tasks, cancelled, lock>>

\* A client event that is a request, and one that is a ping.
Receive(r) ==
    /\ loop = "receive"
    /\ stage[r] = "unsent"
    /\ \A k \in Requests : k < r => stage[k] # "unsent"
    /\ Stage(r, "received")
    /\ current' = r
    /\ late' = IF valid THEN late ELSE late \cup {r}
    /\ loop' = "check"
    /\ UNCHANGED <<valid, peer, socket, monitor, tasks, cancelled, lock>>

Ping ==
    /\ loop = "receive"
    /\ CanSend
    /\ loop' = "pong"
    /\ UNCHANGED <<outside, socket, requests, monitor, tasks, cancelled, lock>>

\* websocket.disconnect.
Disconnect ==
    /\ loop = "receive"
    /\ ~CanSend
    /\ Unwind
    /\ UNCHANGED <<outside, socket, stage, monitor, tasks>>

\* Idle timeout, binary frame, oversized, malformed or invalid event: the loop closes the
\* socket without send_lock and returns.
CloseUnusable ==
    /\ loop = "receive"
    /\ closed' = TRUE
    /\ Unwind
    /\ UNCHANGED <<outside, registered, stage, monitor, tasks>>

AtCapacity == Cardinality(Running) >= MaxPending

\* Variant: only the response task checks the session.
Mutant_PersistsUnchecked ==
    /\ loop = "check"
    /\ IF AtCapacity
       THEN Stage(current, "rejected") /\ loop' = "reject"
       ELSE UNCHANGED stage /\ loop' = "persist"
    /\ UNCHANGED <<outside, socket, current, monitor, tasks, cancelled, lock>>

\* check_session finds the session valid.
CheckRequest ==
    /\ loop = "check"
    /\ valid
    /\ IF AtCapacity
       THEN Stage(current, "rejected") /\ loop' = "reject"
       ELSE UNCHANGED stage /\ loop' = "persist"
    /\ UNCHANGED <<outside, socket, current, monitor, tasks, cancelled, lock>>

\* It finds it invalid, or the database does not answer.
RefuseSession ==
    /\ loop = "check"
    /\ CancelOthers(Loop)
    /\ loop' = "closing"
    /\ UNCHANGED <<outside, socket, requests, monitor, tasks, lock>>

\* The second half of close_invalid_session, under send_lock; then the loop returns.
LoopCloses ==
    /\ loop = "closing"
    /\ lock = Nobody
    /\ closed' = TRUE
    /\ Unwind
    /\ UNCHANGED <<outside, registered, stage, monitor, tasks>>

\* accept_request stores the request or finds its repetition, refuses it, or raises.
Persist ==
    /\ loop = "persist"
    /\ \/ Stage(current, "persisted") /\ loop' = "accept"
       \/ Stage(current, "rejected") /\ loop' = "reject"
    /\ UNCHANGED <<outside, socket, current, monitor, tasks, cancelled, lock>>

PersistRaises ==
    /\ loop = "persist"
    /\ Unwind
    /\ UNCHANGED <<outside, socket, stage, monitor, tasks>>

\* send_event: the loop waits for send_lock, then for the write.
LoopLocks ==
    /\ loop \in Sending
    /\ lock = Nobody
    /\ CanSend
    /\ lock' = Loop
    /\ UNCHANGED <<outside, socket, loop, requests, monitor, tasks, cancelled>>

LoopSendRaises ==
    /\ loop \in Sending
    /\ lock \in {Nobody, Loop}
    /\ ~CanSend
    /\ Unwind
    /\ UNCHANGED <<outside, socket, stage, monitor, tasks>>

\* Once travel.request.accepted is sent the response task is created.
LoopSent ==
    /\ lock = Loop
    /\ lock' = Nobody
    /\ loop' = "receive"
    /\ IF loop = "accept"
       THEN Stage(current, "accepted") /\ task' = [task EXCEPT ![current] = "check"]
       ELSE UNCHANGED <<stage, task>>
    /\ current' = Nobody
    /\ UNCHANGED <<outside, socket, monitor, told, cancelled>>

\* Variant: the connection is unregistered without waiting for the response tasks.
Mutant_DoesNotGather ==
    /\ loop = "unwind"
    /\ monitor = "ended"
    /\ registered' = FALSE
    /\ closed' = TRUE
    /\ loop' = "done"
    /\ UNCHANGED <<outside, requests, monitor, tasks, cancelled, lock>>

\* gather has seen every task end; unregister; the server closes what is still open.
Return ==
    /\ loop = "unwind"
    /\ monitor = "ended" /\ Running = {}
    /\ registered' = FALSE
    /\ closed' = TRUE
    /\ loop' = "done"
    /\ UNCHANGED <<outside, requests, monitor, tasks, cancelled, lock>>

------------------------------------------------------------------------------
(* The monitor.  A check that passes sends it back to sleep.                 *)

MonitorRefuses ==
    /\ monitor = "asleep"
    /\ Monitor \notin cancelled
    /\ CancelOthers(Monitor)
    /\ monitor' = "closing"
    /\ UNCHANGED <<outside, socket, loop, requests, tasks, lock>>

\* Variant: the monitor stops the work and leaves the socket to the client.
Mutant_MonitorLeavesOpen ==
    /\ monitor = "closing"
    /\ Monitor \notin cancelled
    /\ lock = Nobody
    /\ monitor' = "ended"
    /\ UNCHANGED <<outside, socket, loop, requests, tasks, cancelled, lock>>

MonitorCloses ==
    /\ monitor = "closing"
    /\ Monitor \notin cancelled
    /\ lock = Nobody
    /\ closed' = TRUE
    /\ monitor' = "ended"
    /\ UNCHANGED <<outside, registered, loop, requests, tasks, cancelled, lock>>

MonitorDies ==
    /\ Monitor \in cancelled
    /\ monitor' = "ended"
    /\ cancelled' = cancelled \ {Monitor}
    /\ UNCHANGED <<outside, socket, loop, requests, tasks, lock>>

------------------------------------------------------------------------------
(* Response tasks.                                                           *)

At(r, label) == task[r] = label /\ r \notin cancelled

Goto(r, label) == task' = [task EXCEPT ![r] = label]

CheckBeforeWork(r) ==
    /\ At(r, "check")
    /\ valid
    /\ Goto(r, "generate")
    /\ UNCHANGED <<outside, socket, loop, requests, monitor, told, cancelled, lock>>

RefuseWork(r) ==
    /\ At(r, "check")
    /\ CancelOthers(r)
    /\ Goto(r, "closing")
    /\ UNCHANGED <<outside, socket, loop, requests, monitor, told, lock>>

TaskCloses(r) ==
    /\ At(r, "closing")
    /\ lock = Nobody
    /\ closed' = TRUE
    /\ Goto(r, "ended")
    /\ UNCHANGED <<outside, registered, loop, requests, monitor, told, cancelled, lock>>

\* Variant: a generation that raises is logged and not reported.
Mutant_LogsOnly(r) ==
    /\ At(r, "generate")
    /\ Goto(r, "send") \/ Goto(r, "ended")
    /\ UNCHANGED <<outside, socket, loop, requests, monitor, told, cancelled, lock>>

\* generate_reply returns or raises: completed, input_required, failed or processing.
Generated(r) ==
    /\ At(r, "generate")
    /\ Goto(r, "send")
    /\ UNCHANGED <<outside, socket, loop, requests, monitor, told, cancelled, lock>>

\* The cleanup of a cancelled generation raises: turn() releases its lease in a finally
\* clause that an error of the database can leave.
CancellationReplaced(r) ==
    /\ task[r] = "generate"
    /\ r \in cancelled
    /\ Goto(r, "send")
    /\ cancelled' = cancelled \ {r}
    /\ UNCHANGED <<outside, socket, loop, requests, monitor, told, lock>>

TaskLocks(r) ==
    /\ At(r, "send")
    /\ lock = Nobody
    /\ CanSend
    /\ lock' = r
    /\ UNCHANGED <<outside, socket, loop, requests, monitor, tasks, cancelled>>

TaskSent(r) ==
    /\ At(r, "send")
    /\ lock = r
    /\ lock' = Nobody
    /\ told' = told \cup {r}
    /\ Goto(r, "ended")
    /\ UNCHANGED <<outside, socket, loop, requests, monitor, cancelled>>

\* The failed delivery is logged.
TaskSendRaises(r) ==
    /\ At(r, "send")
    /\ lock \in {Nobody, r}
    /\ ~CanSend
    /\ ReleaseLock(r)
    /\ Goto(r, "ended")
    /\ UNCHANGED <<outside, socket, loop, requests, monitor, told, cancelled>>

TaskDies(r) ==
    /\ r \in cancelled
    /\ cancelled' = cancelled \ {r}
    /\ ReleaseLock(r)
    /\ Goto(r, "ended")
    /\ UNCHANGED <<outside, socket, loop, requests, monitor, told>>

------------------------------------------------------------------------------
(* The world outside, and the ConnectionManager.                             *)

\* Revoked or rotated, here or by another API worker, or the access token has expired.
Invalidate ==
    /\ valid
    /\ valid' = FALSE
    /\ UNCHANGED <<peer, late, socket, loop, requests, monitor, tasks, cancelled, lock>>

PeerLeaves ==
    /\ peer
    /\ peer' = FALSE
    /\ UNCHANGED <<valid, late, socket, loop, requests, monitor, tasks, cancelled, lock>>

\* close_session, close_user and close_all: the connection leaves the indexes, which nobody
\* reads until it is closed, without send_lock; or the close fails or is never reached.
Evict ==
    /\ registered
    /\ registered' = FALSE
    /\ closed' \in {closed, TRUE}
    /\ UNCHANGED <<outside, loop, requests, monitor, tasks, cancelled, lock>>

LoopStep ==
    \/ Register \/ HandshakeFails \/ Disconnect
    \/ CheckRequest \/ RefuseSession \/ LoopCloses \/ Persist \/ PersistRaises
    \/ LoopLocks \/ LoopSendRaises \/ LoopSent \/ Return

TaskStep(r) ==
    \/ CheckBeforeWork(r) \/ RefuseWork(r) \/ TaskCloses(r) \/ Generated(r)
    \/ TaskLocks(r) \/ TaskSent(r) \/ TaskSendRaises(r) \/ TaskDies(r)

Next ==
    \/ LoopStep \/ Ping \/ CloseUnusable
    \/ MonitorRefuses \/ MonitorCloses \/ MonitorDies
    \/ \E r \in Requests : Receive(r) \/ TaskStep(r) \/ CancellationReplaced(r)
    \/ Invalidate \/ PeerLeaves \/ Evict

\* Every task that can run runs, and the monitor checks a session that has become
\* invalid.  send_lock is first come, first served, so whoever waits for it gets it,
\* however many pings are answered meanwhile.
Fairness ==
    /\ WF_vars(LoopStep)
    /\ WF_vars(~valid /\ MonitorRefuses) /\ SF_vars(MonitorCloses) /\ WF_vars(MonitorDies)
    /\ \A r \in Requests : SF_vars(TaskStep(r))

Spec == Init /\ [][Next]_vars /\ Fairness

------------------------------------------------------------------------------
(* Properties.                                                               *)

\* When the endpoint has returned, no task of its connection is running, nobody holds
\* send_lock, and the manager does not know the connection, although it may have been
\* evicted, cancelled or closed from four sides in the meantime.
NothingOutlivesEndpoint ==
    loop = "done" =>
        /\ Running = {} /\ monitor = "ended" /\ cancelled = {}
        /\ lock = Nobody /\ ~registered

\* The capacity test is made before the request is stored and its task created, and the
\* bound holds all the same: only the loop adds tasks.
PendingBounded == Cardinality(Running) <= MaxPending

\* A request that arrives after the session has become invalid is never stored: neither a
\* pending close nor a full send_lock lets it pass.
LateRequestsRefused ==
    \A r \in late : stage[r] \notin {"persisted", "accepted"}

\* An invalid session ends its connection and all its work, even if it became invalid
\* before the connection was registered or while a task was being created.
InvalidSessionEnds == ~valid ~> loop = "done"

\* For each accepted request the server sends a final event, or the connection ends: no
\* task is cancelled on a connection that lives on.
AcceptedIsAnswered ==
    \A r \in Requests : stage[r] = "accepted" ~> r \in told \/ loop = "done"
==============================================================================
