-------------------------- MODULE ConversationIntake --------------------------
(* ConversationService: accept_request persists a user message exactly once  *)
(* per client_message_id, creating a conversation where none is named, and   *)
(* delete_conversation removes an idle conversation.  A request is a call of *)
(* accept_request in a session of its own; its transaction locks the row of  *)
(* the trip it names and then that of the conversation, draws the next       *)
(* turn_number, and enters the unique index of client_message_id, where it   *)
(* waits for an uncommitted entry of the same id.  A planning turn that      *)
(* anchors its conversation to a trip locks the two rows in the other order. *)
(* A client that gets no answer sends the request again.                     *)
EXTENDS Naturals, FiniteSets

CONSTANTS
    Requests,       \* requests of all clients
    Users, Ids, Texts,
    Trips, TripOwner,   \* the trips that requests may name, and whose they are
    Conversations,  \* identities of conversations, stored or yet to be created
    MaxLost,        \* bound on calls that fail or whose answer is lost
    MaxDeleted,     \* bound on conversations that are deleted
    Deletion,       \* the holder of a row lock that is a delete_conversation
    None

ASSUME NoneAssumption ==
    /\ None \notin Requests \cup Users \cup Ids \cup Conversations \cup Trips
    /\ Deletion \notin Requests \cup Trips \cup {None}
    /\ Requests \cap Trips = {}
ASSUME BoundAssumption == MaxLost \in Nat /\ MaxDeleted \in Nat
ASSUME TripAssumption == TripOwner \in [Trips -> Users]
ASSUME EarlierAssumption == Texts # {} /\ Trips # {} /\ Conversations # {}

VARIABLES
    conversations,  \* committed rows: owner, or None where there is no row
    messages,       \* committed user messages
    sequence,       \* the Identity of turn_number
    locks,          \* who holds the row lock of each conversation: a request, a deletion,
                    \* or a planning turn that anchors it, which stands under its trip
    leased,         \* conversations with an unlapsed planning lease
    deleted,        \* the conversations deleted, or locked to be deleted
    pc, payload,    \* where each request is, who sends it and what it asks
    work,           \* the conversation it has locked or created, its turn_number
    found,          \* the message it is to return
    answer,         \* what the client has been told; with "accepted", of the message found
    lost

stored == <<conversations, messages, sequence, leased, deleted>>
vars == <<stored, locks, pc, payload, work, found, answer, lost>>

\* What a request says, compared as a whole when it is repeated.
Contents == [text : Texts, trip : Trips \cup {None}]

Message == [id : Ids \cup {None}, content : Contents, conversation : Conversations, turn : Nat]
Payloads == [user : Users, id : Ids, content : Contents, conversation : Conversations \cup {None}]
Answers == {"accepted", "trip_not_found", "conversation_not_found", "client_message_conflict", "error"}

\* Between these a request has an open transaction with its locks.
Open == {"insert", "enter", "commit"}

TypeOK ==
    /\ conversations \in [Conversations -> Users \cup {None}]
    /\ messages \subseteq Message
    /\ sequence \in Nat
    /\ locks \in [Conversations -> Requests \cup Trips \cup {Deletion, None}]
    /\ leased \subseteq Conversations
    /\ deleted \subseteq Conversations
    /\ pc \in [Requests -> {"new", "lookup", "trip", "lock", "recheck", "duplicate", "reply",
                            "done"} \cup Open]
    /\ payload \in [Requests -> Payloads]
    /\ work \in [Requests -> [conversation : Conversations \cup {None}, turn : Nat]]
    /\ found \in [Requests -> Message \cup {None}]
    /\ answer \in [Requests -> Answers \cup {"none"}]
    /\ lost \in 0 .. MaxLost

\* The rows of an earlier request about a trip, whose id no other request has.
EarlierTrip == CHOOSE t \in Trips : TRUE
Owner == TripOwner[EarlierTrip]
Earlier ==
    [id |-> None, content |-> [text |-> CHOOSE x \in Texts : TRUE, trip |-> EarlierTrip],
     conversation |-> CHOOSE c \in Conversations : TRUE, turn |-> 0]

\* No definition tells ids, texts or requests apart: the first request may have any id and
\* text, and is the one about a trip.  It is the owner's: two of the other user meet nothing
\* but each other, as two of the owner may, and a trip that is not one's own is refused.
Canonical(p) ==
    LET first == CHOOSE r \in Requests : TRUE IN
    /\ p[first].id = (CHOOSE i \in Ids : TRUE)
    /\ p[first].content.text = (CHOOSE x \in Texts : TRUE)
    /\ p[first].user = Owner
    /\ \A r \in Requests : p[r].content.trip # None => p[first].content.trip # None

NoWork == [conversation |-> None, turn |-> 0]

Init ==
    /\ conversations = [c \in Conversations |-> IF c = Earlier.conversation THEN Owner ELSE None]
    /\ messages = {Earlier}
    /\ sequence = 1
    /\ locks = [c \in Conversations |-> None]
    /\ leased = {}
    /\ deleted = {}
    /\ pc = [r \in Requests |-> "new"]
    /\ payload \in {p \in [Requests -> [user : Users, id : Ids, content : Contents,
                                        conversation : {None}]] : Canonical(p)}
    /\ work = [r \in Requests |-> NoWork]
    /\ found = [r \in Requests |-> None]
    /\ answer = [r \in Requests |-> "none"]
    /\ lost = 0

Goto(r, label) == pc' = [pc EXCEPT ![r] = label]

Stored(c) == conversations[c] # None

\* Conversations that some transaction has created and not yet committed.
Uncommitted == {work[r].conversation : r \in {s \in Requests : pc[s] \in Open}}

\* The end of a transaction: its row lock is free.
Unlock(r) == locks' = [c \in Conversations |-> IF locks[c] = r THEN None ELSE locks[c]]

Tell(r, what) ==
    /\ answer' = [answer EXCEPT ![r] = what]
    /\ Goto(r, "done")

------------------------------------------------------------------------------
(* accept_request.                                                           *)

\* A client sends a request, for a new conversation or for any that exists.
Send(r) ==
    /\ pc[r] = "new"
    /\ \E c \in {None} \cup {c \in Conversations : Stored(c)} :
         payload' = [payload EXCEPT ![r].conversation = c]
    /\ Goto(r, "lookup")
    /\ UNCHANGED <<stored, locks, work, found, answer, lost>>

\* get_user_message_by_client_id, within the conversations of the user.
Existing(r) ==
    {m \in messages : m.id = payload[r].id /\ conversations[m.conversation] = payload[r].user}

LookupNothing(r) ==
    /\ pc[r] = "lookup"
    /\ Existing(r) = {}
    /\ Goto(r, IF payload[r].content.trip = None THEN "lock" ELSE "trip")
    /\ UNCHANGED <<stored, locks, payload, work, found, answer, lost>>

Find(r) ==
    /\ pc[r] \in {"lookup", "recheck"}
    /\ \E m \in Existing(r) : found' = [found EXCEPT ![r] = m]
    /\ Goto(r, "duplicate")
    /\ UNCHANGED <<stored, locks, payload, work, answer, lost>>

\* Variant: the stored content is not compared.
Mutant_IgnoresContent(r) ==
    payload[r].conversation \in {None, found[r].conversation}

\* The comparisons of _build_duplicate_result.
SameRequest(r) ==
    /\ found[r].content = payload[r].content
    /\ payload[r].conversation \in {None, found[r].conversation}

\* _build_duplicate_result: a mismatch, the stored message, or (the conversation was
\* deleted since the message was read) a RuntimeError.
AnswerDuplicate(r) ==
    /\ pc[r] = "duplicate"
    /\ Tell(r, IF ~SameRequest(r) THEN "client_message_conflict"
               ELSE IF Stored(found[r].conversation) THEN "accepted" ELSE "error")
    /\ UNCHANGED <<stored, locks, payload, work, found, lost>>

\* A request keeps the row of its trip, locked FOR UPDATE, until its transaction ends.
HoldsTrip(r, t) == pc[r] \in {"lock"} \cup Open /\ payload[r].content.trip = t

LockTrip(r) ==
    /\ pc[r] = "trip"
    /\ TripOwner[payload[r].content.trip] = payload[r].user
    /\ \A s \in Requests : ~HoldsTrip(s, payload[r].content.trip)
    /\ Goto(r, "lock")
    /\ UNCHANGED <<stored, locks, payload, work, found, answer, lost>>

TripNotFound(r) ==
    /\ pc[r] = "trip"
    /\ TripOwner[payload[r].content.trip] # payload[r].user
    /\ Tell(r, "trip_not_found")
    /\ UNCHANGED <<stored, locks, payload, work, found, lost>>

NewIdentities == {c \in Conversations \ (Uncommitted \cup deleted) : ~Stored(c)}

\* Without a conversation_id, a conversation is created and stays invisible until commit.
CreateConversation(r) ==
    /\ pc[r] = "lock"
    /\ payload[r].conversation = None
    /\ NewIdentities # {}
    /\ work' = [work EXCEPT ![r].conversation = CHOOSE c \in NewIdentities : TRUE]
    /\ Goto(r, "insert")
    /\ UNCHANGED <<stored, locks, payload, found, answer, lost>>

\* Variant: the conversation is read without FOR UPDATE.
Mutant_ReadsUnlocked(r) ==
    locks' = locks

TakeLock(r) ==
    /\ locks[payload[r].conversation] = None
    /\ locks' = [locks EXCEPT ![payload[r].conversation] = r]

LockConversation(r) ==
    /\ pc[r] = "lock"
    /\ payload[r].conversation # None
    /\ conversations[payload[r].conversation] = payload[r].user
    /\ TakeLock(r)
    /\ work' = [work EXCEPT ![r].conversation = payload[r].conversation]
    /\ Goto(r, "insert")
    /\ UNCHANGED <<stored, payload, found, answer, lost>>

ConversationNotFound(r) ==
    /\ pc[r] = "lock"
    /\ payload[r].conversation # None
    /\ conversations[payload[r].conversation] # payload[r].user
    /\ Tell(r, "conversation_not_found")
    /\ UNCHANGED <<stored, locks, payload, work, found, lost>>

\* create_user_message: the INSERT draws its turn_number, which no rollback returns.
InsertMessage(r) ==
    /\ pc[r] = "insert"
    /\ work' = [work EXCEPT ![r].turn = sequence]
    /\ sequence' = sequence + 1
    /\ Goto(r, "enter")
    /\ UNCHANGED <<conversations, messages, leased, deleted, locks, payload, found, answer, lost>>

\* An uncommitted entry of the same client_message_id makes the INSERT wait.
IndexFree(r) == \A s \in Requests : pc[s] = "commit" => payload[s].id # payload[r].id

EnterIndex(r) ==
    /\ pc[r] = "enter"
    /\ IndexFree(r)
    /\ \A m \in messages : m.id # payload[r].id
    /\ Goto(r, "commit")
    /\ UNCHANGED <<stored, locks, payload, work, found, answer, lost>>

\* Variant: a cancelled call leaves its transaction open.
Mutant_LeavesOpen(r) ==
    /\ work' = [work EXCEPT ![r] = NoWork]
    /\ UNCHANGED <<stored, locks>>

Rollback(r) ==
    /\ work' = [work EXCEPT ![r] = NoWork]
    /\ Unlock(r)
    /\ UNCHANGED stored

\* IntegrityError: rollback, and look again.
Conflict(r) ==
    /\ pc[r] = "enter"
    /\ IndexFree(r)
    /\ \E m \in messages : m.id = payload[r].id
    /\ Rollback(r)
    /\ Goto(r, "recheck")
    /\ UNCHANGED <<payload, found, answer, lost>>

\* The id is another user's, or its message was deleted in between: the error is raised.
RaiseConflict(r) ==
    /\ pc[r] = "recheck"
    /\ Existing(r) = {}
    /\ Tell(r, "error")
    /\ UNCHANGED <<stored, locks, payload, work, found, lost>>

NewMessage(r) ==
    [id |-> payload[r].id, content |-> payload[r].content,
     conversation |-> work[r].conversation, turn |-> work[r].turn]

Commit(r) ==
    /\ pc[r] = "commit"
    /\ messages' = messages \cup {NewMessage(r)}
    /\ conversations' = [conversations EXCEPT ![work[r].conversation] = payload[r].user]
    /\ found' = [found EXCEPT ![r] = NewMessage(r)]
    /\ Unlock(r)
    /\ Goto(r, "reply")
    /\ UNCHANGED <<sequence, leased, deleted, payload, work, answer, lost>>

Reply(r) ==
    /\ pc[r] = "reply"
    /\ Tell(r, "accepted")
    /\ UNCHANGED <<stored, locks, payload, work, found, lost>>

\* The process dies, or the answer does not arrive: the client sends the request again.
Lose(r) ==
    /\ pc[r] \notin {"new", "done"}
    /\ lost < MaxLost
    /\ lost' = lost + 1
    /\ Rollback(r)
    /\ found' = [found EXCEPT ![r] = None]
    /\ Goto(r, "lookup")
    /\ UNCHANGED <<payload, answer>>

------------------------------------------------------------------------------
(* Planning leases and deletion.                                             *)

\* PlanningRepository.acquire: an UPDATE, which waits for the row lock.
AcquireLease(c) ==
    /\ Stored(c)
    /\ locks[c] = None
    /\ c \notin leased
    /\ leased' = leased \cup {c}
    /\ UNCHANGED <<conversations, messages, sequence, deleted, locks, pc, payload, work, found,
                   answer, lost>>

\* The lease is released or lapses.
EndLease(c) ==
    /\ c \in leased
    /\ leased' = leased \ {c}
    /\ UNCHANGED <<conversations, messages, sequence, deleted, locks, pc, payload, work, found,
                   answer, lost>>

\* ensure_context_anchor: the turn of a message about a trip sets planning_trip_id, and the
\* UPDATE locks the conversation; its foreign key then waits for the trip (FOR KEY SHARE).
Anchor(c) ==
    /\ c \in leased
    /\ locks[c] = None
    /\ \E m \in messages :
         /\ m.conversation = c /\ m.content.trip # None
         /\ locks' = [locks EXCEPT ![c] = m.content.trip]
    /\ UNCHANGED <<stored, pc, payload, work, found, answer, lost>>

\* The row of the trip is free, and the anchor commits.
EndAnchor(c) ==
    /\ locks[c] \in Trips
    /\ \A r \in Requests : ~HoldsTrip(r, locks[c])
    /\ locks' = [locks EXCEPT ![c] = None]
    /\ UNCHANGED <<stored, pc, payload, work, found, answer, lost>>

\* A request waits for a conversation whose anchor waits for the trip that another, or it
\* itself, has locked.
WaitsFor(r, s) ==
    /\ pc[r] = "lock" /\ payload[r].conversation # None
    /\ conversations[payload[r].conversation] = payload[r].user
    /\ locks[payload[r].conversation] \in Trips
    /\ HoldsTrip(s, locks[payload[r].conversation])

\* A circle of waits.
Deadlocked(r) ==
    \E S \in SUBSET Requests :
        /\ r \in S
        /\ \A q \in S : (\E s \in S : WaitsFor(q, s)) /\ (\E s \in S : WaitsFor(s, q))

\* PostgreSQL ends a circle by aborting one transaction of it: that of a request, whose
\* error is raised after the rollback, or that of the anchor, whose turn fails.
AbortRequest(r) ==
    /\ Deadlocked(r)
    /\ Tell(r, "error")
    /\ UNCHANGED <<stored, locks, payload, work, found, lost>>

AbortAnchor(r) ==
    /\ Deadlocked(r)
    /\ locks' = [locks EXCEPT ![payload[r].conversation] = None]
    /\ UNCHANGED <<stored, pc, payload, work, found, answer, lost>>

\* Variant: the idle conversation is read without FOR UPDATE.
Mutant_ChecksUnlocked(c) ==
    /\ Stored(c) /\ locks[c] = None /\ c \notin leased
    /\ Cardinality(deleted) < MaxDeleted
    /\ c \notin deleted
    /\ deleted' = deleted \cup {c}
    /\ UNCHANGED <<conversations, messages, sequence, leased, locks, pc, payload, work, found,
                   answer, lost>>

\* delete_conversation locks the row and tests its lease; a busy one is refused.
LockForDeletion(c) ==
    /\ Stored(c) /\ locks[c] = None /\ c \notin leased
    /\ Cardinality(deleted) < MaxDeleted
    /\ locks' = [locks EXCEPT ![c] = Deletion]
    /\ deleted' = deleted \cup {c}
    /\ UNCHANGED <<conversations, messages, sequence, leased, pc, payload, work, found,
                   answer, lost>>

\* Its messages go with it (ON DELETE CASCADE).
DeleteConversation(c) ==
    /\ c \in deleted
    /\ Stored(c)
    /\ locks[c] \in {None, Deletion}
    /\ conversations' = [conversations EXCEPT ![c] = None]
    /\ messages' = {m \in messages : m.conversation # c}
    /\ locks' = [locks EXCEPT ![c] = None]
    /\ leased' = leased \ {c}
    /\ UNCHANGED <<sequence, deleted, pc, payload, work, found, answer, lost>>

\* The deletion or the anchor fails or is cancelled, and rolls back.
Abandon(c) ==
    /\ locks[c] \in {Deletion} \cup Trips
    /\ lost < MaxLost
    /\ lost' = lost + 1
    /\ locks' = [locks EXCEPT ![c] = None]
    /\ deleted' = deleted \ {c}
    /\ UNCHANGED <<conversations, messages, sequence, leased, pc, payload, work, found, answer>>

Handle(r) ==
    \/ LookupNothing(r) \/ Find(r) \/ AnswerDuplicate(r)
    \/ LockTrip(r) \/ TripNotFound(r)
    \/ CreateConversation(r) \/ LockConversation(r) \/ ConversationNotFound(r)
    \/ InsertMessage(r) \/ EnterIndex(r) \/ Conflict(r) \/ RaiseConflict(r)
    \/ Commit(r) \/ Reply(r)

Next ==
    \/ \E r \in Requests : Send(r) \/ Handle(r) \/ Lose(r) \/ AbortRequest(r) \/ AbortAnchor(r)
    \/ \E c \in Conversations :
         \/ AcquireLease(c) \/ EndLease(c) \/ Anchor(c) \/ EndAnchor(c)
         \/ LockForDeletion(c) \/ DeleteConversation(c) \/ Abandon(c)

\* A call that can go on goes on, and so does a deletion or an anchor that holds a lock.
\* Whoever waits for a row is given it in turn; a circle of waits is detected.
Spec ==
    /\ Init /\ [][Next]_vars
    /\ \A r \in Requests :
         /\ SF_vars(Handle(r))
         /\ WF_vars(AbortRequest(r) \/ AbortAnchor(r))
    /\ \A c \in Conversations : WF_vars(DeleteConversation(c) \/ EndAnchor(c))

------------------------------------------------------------------------------
(* Properties.                                                               *)

\* Whoever is told that a request is accepted, as the first or as a repetition, was told
\* of a message with its id, its content and its conversation.
AnswerMatchesRequest ==
    \A r \in Requests : answer[r] = "accepted" =>
        /\ found[r].id = payload[r].id /\ found[r].content = payload[r].content
        /\ payload[r].conversation \in {None, found[r].conversation}

\* A request that loses a race for its id leaves no empty conversation behind.
NoEmptyConversation ==
    \A c \in Conversations : Stored(c) => \E m \in messages : m.conversation = c

\* A request ends in an internal error only when its id is another user's, when a
\* conversation was deleted under it, or when it is about a trip and so is a message of its
\* conversation, which may be anchored to it at the time: repetitions that race are answered.
ErrorsExplained ==
    \A r \in Requests : answer[r] = "error" =>
        \/ deleted # {}
        \/ /\ payload[r].content.trip # None
           /\ \E m \in messages : m.conversation = payload[r].conversation /\ m.content.trip # None
        \/ \E m \in messages : m.id = payload[r].id /\ conversations[m.conversation] # payload[r].user

\* What is left of a race, and what the racers are told, is right.
AnswersAreTrue == AnswerMatchesRequest /\ NoEmptyConversation /\ ErrorsExplained

\* Within a conversation, messages become visible in the order of their turn numbers:
\* no turn appears below one that a worker may have acquired.
TurnsAppearInOrder ==
    [][ \A m \in messages' \ messages : \A k \in messages :
          k.conversation = m.conversation => k.turn < m.turn ]_vars

\* No conversation is deleted while a worker holds its planning lease.
BusyIsNotDeleted ==
    [][ \A c \in Conversations : Stored(c) /\ ~Stored(c)' => c \notin leased ]_vars

\* The requests that were sent are all answered, an error included: of the waits for a trip, for
\* a conversation and in the unique index, only those for a trip and for a conversation that
\* is being anchored form a circle, which the database ends; nothing else waits for ever.
EveryRequestAnswered ==
    (\E r \in Requests : pc[r] \notin {"new", "done"})
        ~> (\A r \in Requests : pc[r] \in {"new", "done"})
==============================================================================
