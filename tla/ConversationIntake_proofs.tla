----------------------- MODULE ConversationIntake_proofs -----------------------
(* What accept_request and delete_conversation promise, for any number of      *)
(* requests, users, ids and conversations, and any number of lost answers.     *)
(* The inductive invariant says who works on which conversation under which    *)
(* lock, what a deletion leaves behind, where turn numbers come from, and what *)
(* was found by a request that is about to answer.                             *)
EXTENDS ConversationIntake, TLAPS

\* The work of a request that is open: a conversation of its own that no one else sees, or
\* the one that was named, which is the user's and locked.
OpenShape ==
    \A r \in Requests : pc[r] \in Open =>
        /\ work[r].conversation \in Conversations
        /\ IF payload[r].conversation = None
           THEN ~Stored(work[r].conversation) /\ work[r].conversation \notin deleted
           ELSE /\ work[r].conversation = payload[r].conversation
                /\ locks[work[r].conversation] = r
                /\ conversations[work[r].conversation] = payload[r].user

\* No two open requests work on one conversation.
OpenApart ==
    \A r, s \in Requests : pc[r] \in Open /\ pc[s] \in Open /\ r # s =>
        work[r].conversation # work[s].conversation

\* A conversation is locked to be deleted and not leased, or it is gone for good.
DeletionShape ==
    /\ \A c \in deleted : IF Stored(c) THEN locks[c] = Deletion ELSE locks[c] = None
    /\ \A c \in Conversations : locks[c] = Deletion => c \in deleted /\ Stored(c) /\ c \notin leased

\* Only a conversation with a message about a trip is being anchored to one.
AnchorShape ==
    \A c \in Conversations : locks[c] \in Trips =>
        \E m \in messages : m.conversation = c /\ m.content.trip # None

\* Messages are in conversations that exist, and conversations have messages.
Populated ==
    /\ \A m \in messages : Stored(m.conversation)
    /\ NoEmptyConversation

\* Turn numbers come from the sequence; what is in a conversation precedes the message
\* that has drawn its number for it.
TurnShape ==
    /\ \A m \in messages : m.turn < sequence
    /\ \A r \in Requests : pc[r] \in {"enter", "commit"} =>
         /\ work[r].turn < sequence
         /\ \A m \in messages : m.conversation = work[r].conversation => m.turn < work[r].turn

\* Only who is done has an answer, and who is about to be told "accepted" has the message
\* that was asked for.
Told(r) ==
    /\ answer[r] # "none" => pc[r] = "done"
    /\ pc[r] = "reply" \/ answer[r] = "accepted" =>
         SameRequest(r) /\ found[r].id = payload[r].id
    /\ pc[r] = "duplicate" => found[r].id = payload[r].id

AnswerShape == \A r \in Requests : Told(r)

\* Where a deletion has taken place.
Gone == {c \in deleted : ~Stored(c)}

\* A message of another user has the id of the request.
Foreign(r) == \E m \in messages : m.id = payload[r].id /\ conversations[m.conversation] # payload[r].user

\* Some message of the conversation it names is about a trip, as the request is.
Anchored(r) ==
    /\ payload[r].content.trip # None
    /\ \E m \in messages : m.conversation = payload[r].conversation /\ m.content.trip # None

\* What can end in an error has met the message of another user, or an anchor.
Explained(r) ==
    /\ pc[r] = "duplicate" =>
         found[r].conversation \in Conversations /\ Stored(found[r].conversation)
    /\ pc[r] = "recheck" => \E m \in messages : m.id = payload[r].id
    /\ answer[r] = "error" => Foreign(r) \/ Anchored(r)

\* Where nothing was deleted, every error is explained so.
ErrorShape == Gone # {} \/ \A r \in Requests : Explained(r)

Inv ==
    /\ TypeOK /\ OpenShape /\ OpenApart /\ DeletionShape
    /\ AnchorShape /\ Populated /\ TurnShape /\ AnswerShape /\ ErrorShape
------------------------------------------------------------------------------
\* The assumptions on the constants, under one name.
Assumptions ==
    /\ None \notin Requests \cup Users \cup Ids \cup Conversations \cup Trips
    /\ Deletion \notin Requests \cup Trips \cup {None}
    /\ Requests \cap Trips = {}
    /\ MaxLost \in Nat
    /\ TripOwner \in [Trips -> Users]
    /\ Texts # {} /\ Trips # {} /\ Conversations # {}

LEMMA Assumed == Assumptions
BY NoneAssumption, BoundAssumption, TripAssumption, EarlierAssumption DEF Assumptions

\* The rows of the earlier request.
LEMMA EarlierRows ==
  /\ Owner \in Users /\ Earlier \in Message
  /\ Earlier.conversation \in Conversations /\ Earlier.turn = 0
BY Assumed DEF Assumptions, EarlierTrip, Owner, Earlier, Contents, Message

\* Requests begin in a state of the types, with every part of the invariant.
LEMMA Initially == Init => Inv
<1> SUFFICES ASSUME Init PROVE Inv
  OBVIOUS
<1> USE EarlierRows, Assumed DEF Init, Assumptions, Stored
<1>1. TypeOK
  BY DEF TypeOK, Payloads, NoWork
<1>2. OpenShape /\ OpenApart /\ DeletionShape
  BY DEF OpenShape, OpenApart, DeletionShape, Open
<1>3. AnchorShape
  BY DEF AnchorShape
<1>4. Populated /\ TurnShape
  BY DEF Populated, NoEmptyConversation, TurnShape
<1>5. AnswerShape /\ ErrorShape
  BY DEF AnswerShape, Told, ErrorShape, Explained
<1> QED
  BY <1>1, <1>2, <1>3, <1>4, <1>5 DEF Inv

\* A conversation is created with an identity that is free.
LEMMA NewIdentity ==
  ASSUME NewIdentities # {}
  PROVE  LET c == CHOOSE c \in NewIdentities : TRUE IN
         c \in Conversations \ (Uncommitted \cup deleted) /\ ~Stored(c)
BY DEF NewIdentities

\* The message of a request that is open.
LEMMA MessageTyped ==
  ASSUME TypeOK, NEW r \in Requests, work[r].conversation \in Conversations
  PROVE  /\ NewMessage(r) \in Message
         /\ NewMessage(r).id = payload[r].id /\ NewMessage(r).content = payload[r].content
         /\ NewMessage(r).conversation = work[r].conversation
         /\ NewMessage(r).turn = work[r].turn
<1>1. payload[r] \in Payloads /\ work[r] \in [conversation : Conversations \cup {None}, turn : Nat]
  BY DEF TypeOK
<1> QED
  BY <1>1 DEF NewMessage, Message, Payloads

\* The steps that anchor a conversation, and that end it.
Anchors ==
    \/ \E c \in Conversations : Anchor(c) \/ EndAnchor(c)
    \/ \E r \in Requests : AbortAnchor(r)

\* Types.
LEMMA TypesKept == ASSUME TypeOK, OpenShape, [Next]_vars PROVE TypeOK'
<1> USE Assumed DEF Assumptions, TypeOK, Open, Answers
<1>1. ASSUME NEW r \in Requests, Send(r) PROVE TypeOK'
  <2> PICK c \in {None} \cup {c \in Conversations : Stored(c)} :
         payload' = [payload EXCEPT ![r].conversation = c]
    BY <1>1 DEF Send
  <2>1. [payload[r] EXCEPT !.conversation = c] \in Payloads
    <3>1. payload[r] \in Payloads
      OBVIOUS
    <3> QED
      BY <3>1 DEF Payloads
  <2>2. payload' \in [Requests -> Payloads]
    BY <2>1
  <2> QED
    BY <1>1, <2>2 DEF Send, stored, Goto
<1>2. ASSUME NEW r \in Requests, LookupNothing(r) PROVE TypeOK'
  BY <1>2 DEF LookupNothing, stored, Goto
<1>3. ASSUME NEW r \in Requests, Find(r) PROVE TypeOK'
  BY <1>3 DEF Find, Existing, stored, Goto
<1>4. ASSUME NEW r \in Requests, AnswerDuplicate(r) PROVE TypeOK'
  BY <1>4 DEF AnswerDuplicate, Tell, stored, Goto
<1>5. ASSUME NEW r \in Requests, CreateConversation(r) PROVE TypeOK'
  <2> DEFINE d == CHOOSE c \in NewIdentities : TRUE
  <2>1. d \in Conversations
    BY <1>5, NewIdentity DEF CreateConversation
  <2>2. /\ work' = [work EXCEPT ![r].conversation = d]
        /\ pc' = [pc EXCEPT ![r] = "insert"]
        /\ UNCHANGED <<stored, locks, payload, found, answer, lost>>
    BY <1>5 DEF CreateConversation, Goto
  <2> HIDE DEF d
  <2> QED
    BY <2>1, <2>2 DEF stored
<1>6. ASSUME NEW r \in Requests, LockConversation(r) PROVE TypeOK'
  <2>1. payload[r].conversation \in Conversations
    BY <1>6 DEF LockConversation, Payloads
  <2> QED
    BY <1>6, <2>1 DEF LockConversation, TakeLock, stored, Goto
<1>7. ASSUME NEW r \in Requests, ConversationNotFound(r) PROVE TypeOK'
  BY <1>7 DEF ConversationNotFound, Tell, stored, Goto
<1>8. ASSUME NEW r \in Requests, InsertMessage(r) PROVE TypeOK'
  BY <1>8 DEF InsertMessage, Goto
<1>9. ASSUME NEW r \in Requests, EnterIndex(r) PROVE TypeOK'
  BY <1>9 DEF EnterIndex, stored, Goto
<1>10. ASSUME NEW r \in Requests, Conflict(r) PROVE TypeOK'
  BY <1>10 DEF Conflict, Rollback, Unlock, NoWork, stored, Goto
<1>11. ASSUME NEW r \in Requests, RaiseConflict(r) PROVE TypeOK'
  BY <1>11 DEF RaiseConflict, Tell, stored, Goto
<1>12. ASSUME NEW r \in Requests, Commit(r) PROVE TypeOK'
  <2>1. work[r].conversation \in Conversations
    BY <1>12 DEF Commit, OpenShape
  <2>2. payload[r].user \in Users
    BY DEF Payloads
  <2> QED
    BY <1>12, <2>1, <2>2, MessageTyped DEF Commit, Unlock, stored, Goto
<1>13. ASSUME NEW r \in Requests, Reply(r) PROVE TypeOK'
  BY <1>13 DEF Reply, Tell, stored, Goto
<1>14. ASSUME NEW r \in Requests, Lose(r) PROVE TypeOK'
  BY <1>14 DEF Lose, Rollback, Unlock, NoWork, stored, Goto
<1>15. ASSUME NEW c \in Conversations, AcquireLease(c) \/ EndLease(c) \/ LockForDeletion(c) PROVE TypeOK'
  BY <1>15 DEF AcquireLease, EndLease, LockForDeletion
<1>16. ASSUME NEW c \in Conversations, DeleteConversation(c) \/ Abandon(c) PROVE TypeOK'
  BY <1>16 DEF DeleteConversation, Abandon
<1>17. ASSUME NEW r \in Requests, LockTrip(r) \/ TripNotFound(r) \/ AbortRequest(r) PROVE TypeOK'
  BY <1>17 DEF LockTrip, TripNotFound, AbortRequest, Tell, stored, Goto
<1>18. CASE Anchors
  <2>1. \A m \in messages : m.content.trip \in Trips \cup {None}
    BY DEF Message, Contents
  <2> QED
    BY <1>18, <2>1 DEF Anchors, Anchor, EndAnchor, AbortAnchor, stored
<1>19. CASE UNCHANGED vars
  BY <1>19 DEF vars, stored
<1> QED
  BY <1>1, <1>2, <1>3, <1>4, <1>5, <1>6, <1>7, <1>8, <1>9, <1>10, <1>11, <1>12, <1>13, <1>14,
     <1>15, <1>16, <1>17, <1>18, <1>19 DEF Next, Handle, Anchors

------------------------------------------------------------------------------
(* Who works on which conversation.                                          *)

\* The steps that leave rows, locks, and what open requests ask and work on as they are.
Quiet(r) == Send(r) \/ LookupNothing(r) \/ Find(r) \/ AnswerDuplicate(r)
            \/ LockTrip(r) \/ TripNotFound(r) \/ AbortRequest(r)
            \/ ConversationNotFound(r) \/ EnterIndex(r) \/ RaiseConflict(r) \/ Reply(r)

\* What such a step does to a request that is open, and to the rest.
LEMMA QuietStep ==
  ASSUME TypeOK, NEW r \in Requests, Quiet(r)
  PROVE  /\ UNCHANGED <<conversations, messages, sequence, leased, deleted, locks, work>>
         /\ \A s \in Requests : pc'[s] \in Open =>
              pc[s] \in Open /\ payload'[s] = payload[s]
         /\ \A s \in Requests : s # r => pc'[s] = pc[s]
         /\ \A s \in Requests : pc'[s] \in {"enter", "commit"} \/ pc'[s] \in Open => pc[s] \in Open
<1> USE DEF TypeOK, Goto, Tell, stored, Open
<1>1. CASE Send(r)
  BY <1>1 DEF Send
<1>2. CASE LookupNothing(r)
  BY <1>2 DEF LookupNothing
<1>3. CASE Find(r)
  BY <1>3 DEF Find
<1>4. CASE AnswerDuplicate(r)
  BY <1>4 DEF AnswerDuplicate
<1>5. CASE ConversationNotFound(r)
  BY <1>5 DEF ConversationNotFound
<1>6. CASE EnterIndex(r)
  BY <1>6 DEF EnterIndex
<1>7. CASE RaiseConflict(r)
  BY <1>7 DEF RaiseConflict
<1>8. CASE Reply(r)
  BY <1>8 DEF Reply
<1>9. CASE LockTrip(r) \/ TripNotFound(r)
  BY <1>9 DEF LockTrip, TripNotFound
<1>10. CASE AbortRequest(r)
  BY <1>10 DEF AbortRequest
<1> QED
  BY <1>1, <1>2, <1>3, <1>4, <1>5, <1>6, <1>7, <1>8, <1>9, <1>10 DEF Quiet

\* Who is in a circle of waits holds a trip, and waits for a conversation that is anchored.
LEMMA Waiting ==
  ASSUME NEW r \in Requests, Deadlocked(r), TypeOK
  PROVE  /\ pc[r] = "lock" /\ payload[r].conversation # None
         /\ locks[payload[r].conversation] \in Trips
         /\ payload[r].content.trip # None
<1>1. PICK s \in Requests : WaitsFor(r, s)
  BY DEF Deadlocked
<1>2. PICK q \in Requests : WaitsFor(q, r)
  BY DEF Deadlocked
<1>3. locks[payload[q].conversation] = payload[r].content.trip
  BY <1>2 DEF WaitsFor, HoldsTrip
<1> QED
  BY <1>1, <1>2, <1>3, Assumed DEF WaitsFor, Assumptions

\* An anchor locks and frees a conversation that nobody else has locked, and one that it
\* locks exists and has a message about a trip.
LEMMA AnchorStep ==
  ASSUME Inv, Anchors
  PROVE  /\ UNCHANGED <<conversations, messages, sequence, leased, deleted>>
         /\ UNCHANGED <<pc, payload, work, found, answer>>
         /\ \E d \in Conversations :
              /\ \A c \in Conversations \ {d} : locks'[c] = locks[c]
              /\ locks[d] \in Trips \cup {None}
              /\ \/ locks'[d] = None
                 \/ /\ locks'[d] \in Trips /\ Stored(d)
                    /\ \E m \in messages : m.conversation = d /\ m.content.trip # None
<1>1. locks \in [Conversations -> Requests \cup Trips \cup {Deletion, None}]
  BY DEF Inv, TypeOK
<1>2. UNCHANGED <<stored, pc, payload, work, found, answer>>
  BY DEF Anchors, Anchor, EndAnchor, AbortAnchor
<1>3. ASSUME NEW c \in Conversations, Anchor(c)
      PROVE  /\ \A d \in Conversations \ {c} : locks'[d] = locks[d]
             /\ locks[c] = None /\ locks'[c] \in Trips /\ Stored(c)
             /\ \E m \in messages : m.conversation = c /\ m.content.trip # None
  <2>1. PICK m \in messages : m.conversation = c /\ m.content.trip # None /\ locks' = [locks EXCEPT ![c] = m.content.trip]
    BY <1>3 DEF Anchor
  <2>2. m.content.trip \in Trips
    BY <2>1 DEF Inv, TypeOK, Message, Contents
  <2> QED
    BY <1>1, <1>3, <2>1, <2>2 DEF Anchor, Inv, Populated
<1>4. ASSUME NEW c \in Conversations, EndAnchor(c)
      PROVE  /\ \A d \in Conversations \ {c} : locks'[d] = locks[d]
             /\ locks[c] \in Trips /\ locks'[c] = None
  BY <1>1, <1>4 DEF EndAnchor
<1>5. ASSUME NEW r \in Requests, AbortAnchor(r)
      PROVE  \E c \in Conversations :
                /\ \A d \in Conversations \ {c} : locks'[d] = locks[d]
                /\ locks[c] \in Trips /\ locks'[c] = None
  <2>1. payload[r].conversation # None /\ locks[payload[r].conversation] \in Trips
    BY <1>5, Waiting DEF AbortAnchor, Inv
  <2>2. payload[r].conversation \in Conversations
    BY <2>1 DEF Inv, TypeOK, Payloads
  <2> QED
    BY <1>1, <1>5, <2>1, <2>2 DEF AbortAnchor
<1> QED
  BY <1>2, <1>3, <1>4, <1>5 DEF Anchors, stored

\* A transaction that rolls back ends, and frees its locks only.
LEMMA RollbackStep ==
  ASSUME TypeOK, NEW r \in Requests, Conflict(r) \/ Lose(r)
  PROVE  /\ UNCHANGED <<conversations, messages, sequence, leased, deleted, payload, answer>>
         /\ pc'[r] \in {"recheck", "lookup"}
         /\ \A s \in Requests \ {r} : pc'[s] = pc[s] /\ work'[s] = work[s]
         /\ \A c \in Conversations : locks'[c] = IF locks[c] = r THEN None ELSE locks[c]
<1> USE DEF TypeOK, Goto, Rollback, Unlock, stored
<1>1. CASE Conflict(r)
  BY <1>1 DEF Conflict
<1>2. CASE Lose(r)
  BY <1>2 DEF Lose
<1> QED
  BY <1>1, <1>2

\* A transaction that commits ends with the rows of its message and conversation.
LEMMA CommitStep ==
  ASSUME Inv, NEW r \in Requests, Commit(r)
  PROVE  LET d == work[r].conversation IN
         /\ UNCHANGED <<sequence, leased, deleted, payload, work, answer>>
         /\ pc[r] = "commit" /\ d \in Conversations /\ pc'[r] = "reply" /\ payload[r].user \in Users
         /\ messages' = messages \cup {NewMessage(r)}
         /\ found'[r] = NewMessage(r)
         /\ \A s \in Requests \ {r} : pc'[s] = pc[s] /\ found'[s] = found[s]
         /\ \A c \in Conversations \ {d} : conversations'[c] = conversations[c]
         /\ conversations'[d] = payload[r].user
         /\ \A c \in Conversations : locks'[c] = IF locks[c] = r THEN None ELSE locks[c]
<1>1. payload[r].user \in Users
  BY DEF Inv, TypeOK, Payloads
<1>2. pc[r] = "commit" /\ work[r].conversation \in Conversations
  BY DEF Commit, Inv, OpenShape, Open
<1> QED
  BY <1>1, <1>2 DEF Commit, Inv, TypeOK, Goto, Unlock

\* The work of open requests stays theirs, and they stay apart.
LEMMA WorkKept == ASSUME Inv, [Next]_vars PROVE OpenShape' /\ OpenApart'
<1> USE Assumed DEF Assumptions, Inv, Open, Stored
<1>1. ASSUME NEW r \in Requests, Quiet(r) PROVE OpenShape' /\ OpenApart'
  <2>1. OpenShape'
    BY <1>1, QuietStep DEF OpenShape
  <2>2. OpenApart'
    BY <1>1, QuietStep DEF OpenApart
  <2> QED
    BY <2>1, <2>2
<1>2. ASSUME NEW r \in Requests, Conflict(r) \/ Lose(r) PROVE OpenShape' /\ OpenApart'
  <2>1. OpenShape'
    BY <1>2, RollbackStep DEF OpenShape
  <2>2. OpenApart'
    BY <1>2, RollbackStep DEF OpenApart
  <2> QED
    BY <2>1, <2>2
<1>3. ASSUME NEW r \in Requests, CreateConversation(r) PROVE OpenShape' /\ OpenApart'
  <2> DEFINE d == CHOOSE c \in NewIdentities : TRUE
  <2>1. /\ d \in Conversations \ (Uncommitted \cup deleted) /\ ~Stored(d)
        /\ work' = [work EXCEPT ![r].conversation = d]
        /\ pc' = [pc EXCEPT ![r] = "insert"] /\ payload[r].conversation = None
        /\ UNCHANGED <<conversations, deleted, locks, payload>>
    BY <1>3, NewIdentity DEF CreateConversation, Goto, stored
  <2> HIDE DEF d
  <2>2. work'[r].conversation = d
    BY <2>1 DEF TypeOK
  <2>3. \A s \in Requests \ {r} : pc'[s] = pc[s] /\ work'[s] = work[s]
    BY <2>1 DEF TypeOK
  <2>4. \A s \in Requests \ {r} : pc[s] \in Open => work[s].conversation # d
    BY <2>1 DEF Uncommitted
  <2>5. OpenShape'
    BY <2>1, <2>2, <2>3 DEF OpenShape
  <2>6. OpenApart'
    BY <2>2, <2>3, <2>4 DEF OpenApart
  <2> QED
    BY <2>5, <2>6
<1>4. ASSUME NEW r \in Requests, LockConversation(r) PROVE OpenShape' /\ OpenApart'
  <2> DEFINE d == payload[r].conversation
  <2>1. /\ d \in Conversations /\ conversations[d] = payload[r].user /\ payload[r].user # None
        /\ locks[d] = None /\ locks' = [locks EXCEPT ![d] = r]
        /\ work' = [work EXCEPT ![r].conversation = d]
        /\ pc' = [pc EXCEPT ![r] = "insert"] /\ d # None
        /\ UNCHANGED <<conversations, deleted, payload>>
    BY <1>4 DEF LockConversation, TakeLock, Goto, stored, TypeOK, Payloads
  <2>2. work'[r].conversation = d /\ locks'[d] = r
    BY <2>1 DEF TypeOK
  <2>3. \A s \in Requests \ {r} : pc'[s] = pc[s] /\ work'[s] = work[s]
    BY <2>1 DEF TypeOK
  <2>4. \A s \in Requests \ {r} : pc[s] \in Open => work[s].conversation # d
    BY <2>1 DEF OpenShape
  <2>5. \A c \in Conversations \ {d} : locks'[c] = locks[c]
    BY <2>1 DEF TypeOK
  <2>6. OpenShape'
    BY <2>1, <2>2, <2>3, <2>4, <2>5 DEF OpenShape
  <2>7. OpenApart'
    BY <2>2, <2>3, <2>4 DEF OpenApart
  <2> QED
    BY <2>6, <2>7
<1>5. ASSUME NEW r \in Requests, InsertMessage(r) PROVE OpenShape' /\ OpenApart'
  <2>1. \A s \in Requests : /\ pc'[s] \in Open <=> pc[s] \in Open
                            /\ work'[s].conversation = work[s].conversation
    BY <1>5 DEF InsertMessage, Goto, TypeOK
  <2> QED
    BY <1>5, <2>1 DEF InsertMessage, OpenShape, OpenApart
<1>6. ASSUME NEW r \in Requests, Commit(r) PROVE OpenShape' /\ OpenApart'
  <2> DEFINE d == work[r].conversation
  <2>1. \A s \in Requests \ {r} : pc[s] \in Open => work[s].conversation # d
    BY <1>6, CommitStep DEF OpenApart
  <2>2. OpenShape'
    <3> SUFFICES ASSUME NEW s \in Requests, pc'[s] \in Open
                 PROVE  /\ work'[s].conversation \in Conversations
                        /\ IF payload'[s].conversation = None
                           THEN conversations'[work'[s].conversation] = None /\ work'[s].conversation \notin deleted'
                           ELSE /\ work'[s].conversation = payload'[s].conversation
                                /\ locks'[work'[s].conversation] = s
                                /\ conversations'[work'[s].conversation] = payload'[s].user
      BY DEF OpenShape
    <3>1. s # r /\ pc[s] \in Open /\ work'[s] = work[s] /\ payload'[s] = payload[s]
      BY <1>6, CommitStep
    <3> QED
      BY <1>6, <2>1, <3>1, CommitStep DEF OpenShape
  <2>3. OpenApart'
    BY <1>6, CommitStep DEF OpenApart
  <2> QED
    BY <2>2, <2>3
<1>7. ASSUME NEW c \in Conversations, AcquireLease(c) \/ EndLease(c) PROVE OpenShape' /\ OpenApart'
  BY <1>7 DEF AcquireLease, EndLease, OpenShape, OpenApart
<1>8. ASSUME NEW c \in Conversations, LockForDeletion(c) PROVE OpenShape' /\ OpenApart'
  BY <1>8 DEF LockForDeletion, OpenShape, OpenApart, TypeOK
<1>9. ASSUME NEW c \in Conversations, DeleteConversation(c) PROVE OpenShape' /\ OpenApart'
  BY <1>9 DEF DeleteConversation, OpenShape, OpenApart, TypeOK
<1>10. ASSUME NEW c \in Conversations, Abandon(c) PROVE OpenShape' /\ OpenApart'
  BY <1>10 DEF Abandon, OpenShape, OpenApart, TypeOK
<1>11. CASE Anchors
  <2>1. OpenShape'
    BY <1>11, AnchorStep DEF OpenShape
  <2>2. OpenApart'
    BY <1>11, AnchorStep DEF OpenApart
  <2> QED
    BY <2>1, <2>2
<1>12. CASE UNCHANGED vars
  BY <1>12 DEF vars, stored, OpenShape, OpenApart
<1> QED
  BY <1>1, <1>2, <1>3, <1>4, <1>5, <1>6, <1>7, <1>8, <1>9, <1>10, <1>11, <1>12
  DEF Next, Handle, Quiet, Anchors

------------------------------------------------------------------------------
(* Deletions, and what is in a conversation.                                 *)

\* The conversation of a commit is no one else's: whoever holds its lock is the request,
\* and it has not been deleted.
LEMMA CommitOwns ==
  ASSUME Inv, NEW r \in Requests, Commit(r)
  PROVE  LET d == work[r].conversation IN
         /\ d \notin deleted
         /\ Stored(d) => locks[d] = r /\ conversations[d] = payload[r].user
<1> USE Assumed DEF Assumptions, Inv
<1>1. pc[r] \in Open
  BY DEF Commit, Open
<1>2. work[r].conversation \notin deleted
  BY <1>1 DEF OpenShape, DeletionShape
<1> QED
  BY <1>1, <1>2 DEF OpenShape

\* Only the holder of a deletion's lock, and only of a conversation no one has leased,
\* is about to delete.
LEMMA DeletionsKept == ASSUME Inv, [Next]_vars PROVE DeletionShape'
<1> USE Assumed DEF Assumptions, Inv, Stored
<1>1. ASSUME NEW r \in Requests, Quiet(r) PROVE DeletionShape'
  BY <1>1, QuietStep DEF DeletionShape
<1>2. ASSUME NEW r \in Requests, Conflict(r) \/ Lose(r) PROVE DeletionShape'
  BY <1>2, RollbackStep DEF DeletionShape, TypeOK
<1>3. ASSUME NEW r \in Requests, CreateConversation(r) PROVE DeletionShape'
  BY <1>3 DEF CreateConversation, DeletionShape, stored
<1>4. ASSUME NEW r \in Requests, LockConversation(r) PROVE DeletionShape'
  <2> DEFINE d == payload[r].conversation
  <2>1. /\ d \in Conversations /\ conversations[d] = payload[r].user /\ payload[r].user # None
        /\ locks[d] = None /\ locks' = [locks EXCEPT ![d] = r]
        /\ UNCHANGED <<conversations, deleted, leased>>
    BY <1>4 DEF LockConversation, TakeLock, stored, TypeOK, Payloads
  <2>2. d \notin deleted
    BY <2>1 DEF DeletionShape
  <2> QED
    BY <2>1, <2>2 DEF DeletionShape, TypeOK
<1>5. ASSUME NEW r \in Requests, InsertMessage(r) PROVE DeletionShape'
  BY <1>5 DEF InsertMessage, DeletionShape
<1>6. ASSUME NEW r \in Requests, Commit(r) PROVE DeletionShape'
  <2> DEFINE d == work[r].conversation
  <2>1. d \notin deleted /\ d \in Conversations
    BY <1>6, CommitStep, CommitOwns
  <2>2. UNCHANGED <<deleted, leased>>
    BY <1>6, CommitStep
  <2>3. \A c \in Conversations \ {d} : conversations'[c] = conversations[c]
    BY <1>6, CommitStep
  <2>4. \A c \in Conversations : locks'[c] = IF locks[c] = r THEN None ELSE locks[c]
    BY <1>6, CommitStep
  <2>5. deleted \subseteq Conversations
    BY DEF TypeOK
  <2> QED
    BY <2>1, <2>2, <2>3, <2>4, <2>5 DEF DeletionShape
<1>7. ASSUME NEW c \in Conversations, AcquireLease(c) PROVE DeletionShape'
  BY <1>7 DEF AcquireLease, DeletionShape
<1>8. ASSUME NEW c \in Conversations, EndLease(c) PROVE DeletionShape'
  BY <1>8 DEF EndLease, DeletionShape
<1>9. ASSUME NEW c \in Conversations, LockForDeletion(c) PROVE DeletionShape'
  BY <1>9 DEF LockForDeletion, DeletionShape, TypeOK
<1>10. ASSUME NEW c \in Conversations, DeleteConversation(c) PROVE DeletionShape'
  BY <1>10 DEF DeleteConversation, DeletionShape, TypeOK
<1>11. ASSUME NEW c \in Conversations, Abandon(c) PROVE DeletionShape'
  BY <1>11 DEF Abandon, DeletionShape, TypeOK
<1>12. CASE Anchors
  BY <1>12, AnchorStep DEF DeletionShape, TypeOK
<1>13. CASE UNCHANGED vars
  BY <1>13 DEF vars, stored, DeletionShape
<1> QED
  BY <1>1, <1>2, <1>3, <1>4, <1>5, <1>6, <1>7, <1>8, <1>9, <1>10, <1>11, <1>12, <1>13
  DEF Next, Handle, Quiet, Anchors

\* The steps that change neither the messages nor the conversations.
LEMMA RowsKept ==
  ASSUME Inv, [Next]_vars,
         \A r \in Requests : ~Commit(r), \A c \in Conversations : ~DeleteConversation(c)
  PROVE  /\ UNCHANGED <<conversations, messages>>
         /\ sequence' \in Nat /\ sequence <= sequence'
         /\ \A r \in Requests : pc'[r] \in {"enter", "commit"} =>
              \/ pc[r] \in {"enter", "commit"} /\ work'[r] = work[r]
              \/ /\ work'[r] = [work[r] EXCEPT !.turn = sequence]
                 /\ sequence < sequence'
<1> USE DEF Inv, TypeOK
<1>1. ASSUME NEW s \in Requests, Quiet(s), ~EnterIndex(s)
      PROVE  \A r \in Requests : pc'[r] \in {"enter", "commit"} => pc[r] \in {"enter", "commit"}
  BY <1>1 DEF Quiet, Send, LookupNothing, Find, AnswerDuplicate, ConversationNotFound,
              LockTrip, TripNotFound, AbortRequest, RaiseConflict, Reply, Tell, Goto
<1>2. ASSUME NEW s \in Requests, EnterIndex(s)
      PROVE  \A r \in Requests : pc'[r] \in {"enter", "commit"} => pc[r] \in {"enter", "commit"}
  BY <1>2 DEF EnterIndex, Goto
<1>3. CASE \E s \in Requests : Quiet(s)
  BY <1>1, <1>2, <1>3, QuietStep
<1>4. CASE \E s \in Requests : Conflict(s) \/ Lose(s)
  BY <1>4, RollbackStep
<1>5. CASE \E s \in Requests : CreateConversation(s) \/ LockConversation(s)
  BY <1>5 DEF CreateConversation, LockConversation, Goto, stored
<1>6. CASE \E s \in Requests : InsertMessage(s)
  BY <1>6 DEF InsertMessage, Goto
<1>7. CASE \E c \in Conversations : AcquireLease(c) \/ EndLease(c) \/ LockForDeletion(c) \/ Abandon(c)
  BY <1>7 DEF AcquireLease, EndLease, LockForDeletion, Abandon
<1>8. CASE Anchors
  BY <1>8, AnchorStep
<1>9. CASE UNCHANGED vars
  BY <1>9 DEF vars, stored
<1> QED
  BY <1>3, <1>4, <1>5, <1>6, <1>7, <1>8, <1>9 DEF Next, Handle, Quiet, Anchors

\* A deletion takes the conversation and its messages.
LEMMA DeleteStep ==
  ASSUME Inv, NEW c \in Conversations, DeleteConversation(c)
  PROVE  /\ UNCHANGED <<sequence, deleted, pc, payload, work, found, answer>>
         /\ c \in deleted /\ Stored(c) /\ c \notin leased
         /\ messages' = {m \in messages : m.conversation # c}
         /\ conversations'[c] = None
         /\ \A d \in Conversations \ {c} : conversations'[d] = conversations[d]
BY DEF DeleteConversation, DeletionShape, Inv, TypeOK

\* A conversation that is anchored keeps its messages, for its deletion waits.
LEMMA AnchorsKept == ASSUME Inv, [Next]_vars PROVE AnchorShape'
<1> USE Assumed DEF Assumptions, Inv, AnchorShape
<1>1. ASSUME NEW r \in Requests, Quiet(r) PROVE AnchorShape'
  BY <1>1, QuietStep
<1>2. ASSUME NEW r \in Requests, Conflict(r) \/ Lose(r) PROVE AnchorShape'
  BY <1>2, RollbackStep
<1>3. ASSUME NEW r \in Requests, CreateConversation(r) \/ InsertMessage(r) PROVE AnchorShape'
  BY <1>3 DEF CreateConversation, InsertMessage, stored
<1>4. ASSUME NEW r \in Requests, LockConversation(r) PROVE AnchorShape'
  BY <1>4 DEF LockConversation, TakeLock, stored, TypeOK
<1>5. ASSUME NEW r \in Requests, Commit(r) PROVE AnchorShape'
  BY <1>5, CommitStep
<1>6. ASSUME NEW c \in Conversations, DeleteConversation(c) PROVE AnchorShape'
  BY <1>6, DeleteStep DEF DeleteConversation, TypeOK
<1>7. ASSUME NEW c \in Conversations, AcquireLease(c) \/ EndLease(c) PROVE AnchorShape'
  BY <1>7 DEF AcquireLease, EndLease
<1>8. ASSUME NEW c \in Conversations, LockForDeletion(c) \/ Abandon(c) PROVE AnchorShape'
  BY <1>8 DEF LockForDeletion, Abandon, TypeOK
<1>9. CASE Anchors
  BY <1>9, AnchorStep
<1>10. CASE UNCHANGED vars
  BY <1>10 DEF vars, stored
<1> QED
  BY <1>1, <1>2, <1>3, <1>4, <1>5, <1>6, <1>7, <1>8, <1>9, <1>10
  DEF Next, Handle, Quiet, Anchors

\* No conversation is empty, and no message without its conversation.
LEMMA PopulatedKept == ASSUME Inv, [Next]_vars PROVE Populated'
<1> USE Assumed DEF Assumptions
<1>1. ASSUME NEW r \in Requests, Commit(r) PROVE Populated'
  <2> DEFINE d == work[r].conversation
  <2>1. /\ messages' = messages \cup {NewMessage(r)} /\ NewMessage(r).conversation = d
        /\ \A c \in Conversations \ {d} : conversations'[c] = conversations[c]
        /\ conversations'[d] = payload[r].user /\ payload[r].user # None
    BY <1>1, CommitStep, MessageTyped DEF Inv
  <2>2. \A m \in messages : m.conversation \in Conversations
    BY DEF Inv, TypeOK, Message
  <2> QED
    BY <2>1, <2>2 DEF Inv, Populated, NoEmptyConversation, Stored
<1>2. ASSUME NEW c \in Conversations, DeleteConversation(c) PROVE Populated'
  <2>1. \A m \in messages : m.conversation \in Conversations
    BY DEF Inv, TypeOK, Message
  <2> QED
    BY <1>2, <2>1, DeleteStep DEF Inv, Populated, NoEmptyConversation, Stored
<1>3. CASE UNCHANGED <<conversations, messages>>
  BY <1>3 DEF Inv, Populated, NoEmptyConversation, Stored
<1> QED
  BY <1>1, <1>2, <1>3, RowsKept

\* The numbers in a conversation stay below the one that has been drawn for it.
LEMMA TurnsKept == ASSUME Inv, [Next]_vars PROVE TurnShape'
<1> USE DEF Inv
<1>1. ASSUME NEW r \in Requests, Commit(r) PROVE TurnShape'
  <2> DEFINE d == work[r].conversation
  <2>1. /\ messages' = messages \cup {NewMessage(r)} /\ NewMessage(r).conversation = d
        /\ NewMessage(r).turn = work[r].turn
        /\ UNCHANGED <<sequence, work>> /\ pc[r] = "commit" /\ pc'[r] = "reply"
        /\ \A s \in Requests \ {r} : pc'[s] = pc[s]
    BY <1>1, CommitStep, MessageTyped
  <2>2. \A s \in Requests \ {r} : pc[s] \in Open => work[s].conversation # d
    BY <2>1 DEF OpenApart, Open
  <2> QED
    BY <2>1, <2>2 DEF TurnShape, Open
<1>2. ASSUME NEW c \in Conversations, DeleteConversation(c) PROVE TurnShape'
  BY <1>2, DeleteStep DEF TurnShape
<1>3. ASSUME \A r \in Requests : ~Commit(r), \A c \in Conversations : ~DeleteConversation(c) PROVE TurnShape'
  <2>1. /\ messages' = messages /\ sequence' \in Nat /\ sequence \in Nat /\ sequence <= sequence'
        /\ \A m \in messages : m.turn \in Nat
    BY <1>3, RowsKept DEF TypeOK, Message
  <2>2. \A r \in Requests : work[r] \in [conversation : Conversations \cup {None}, turn : Nat]
    BY DEF TypeOK
  <2>3. ASSUME NEW r \in Requests, pc'[r] \in {"enter", "commit"}
        PROVE  /\ work'[r].turn < sequence'
               /\ \A m \in messages : m.conversation = work'[r].conversation => m.turn < work'[r].turn
    <3>1. CASE pc[r] \in {"enter", "commit"} /\ work'[r] = work[r]
      BY <3>1, <2>1, <2>2 DEF TurnShape
    <3>2. CASE work'[r] = [work[r] EXCEPT !.turn = sequence] /\ sequence < sequence'
      <4>1. work'[r].turn = sequence
        BY <3>2, <2>2
      <4> QED
        BY <3>2, <4>1, <2>1 DEF TurnShape
    <3> QED
      BY <1>3, <2>3, <3>1, <3>2, RowsKept
  <2>4. \A m \in messages' : m.turn < sequence'
    BY <2>1 DEF TurnShape
  <2> QED
    BY <2>1, <2>3, <2>4 DEF TurnShape
<1> QED
  BY <1>1, <1>2, <1>3

------------------------------------------------------------------------------
(* What the clients are told.                                                *)

\* The steps of a request.
Acts(r) == Send(r) \/ Handle(r) \/ Lose(r) \/ AbortRequest(r)

\* A step of one request leaves the others where they are.
LEMMA OthersStay ==
  ASSUME Inv, NEW r \in Requests, Acts(r), NEW s \in Requests \ {r}
  PROVE  /\ pc'[s] = pc[s] /\ payload'[s] = payload[s]
         /\ found'[s] = found[s] /\ answer'[s] = answer[s]
<1> USE DEF Inv, TypeOK, Goto, Tell
<1>1. CASE Quiet(r)
  BY <1>1 DEF Quiet, Send, LookupNothing, Find, AnswerDuplicate, ConversationNotFound,
              LockTrip, TripNotFound, AbortRequest, EnterIndex, RaiseConflict, Reply
<1>2. CASE CreateConversation(r) \/ LockConversation(r) \/ InsertMessage(r)
  BY <1>2 DEF CreateConversation, LockConversation, InsertMessage
<1>3. CASE Conflict(r) \/ Commit(r) \/ Lose(r)
  BY <1>3 DEF Conflict, Commit, Lose
<1> QED
  BY <1>1, <1>2, <1>3 DEF Acts, Handle, Quiet

\* What the step of a request makes of what the request is told.
LEMMA ToldStep ==
  ASSUME Inv, NEW r \in Requests, Acts(r)
  PROVE  Told(r)'
<1> USE Assumed DEF Assumptions, Inv, TypeOK, Goto, Tell, Told, SameRequest, Open
<1>0. Told(r)
  BY DEF AnswerShape
<1>1. CASE Send(r)
  BY <1>0, <1>1 DEF Send
<1>2. CASE LookupNothing(r) \/ LockTrip(r) \/ EnterIndex(r) \/ CreateConversation(r) \/ LockConversation(r)
  BY <1>0, <1>2 DEF LookupNothing, LockTrip, EnterIndex, CreateConversation, LockConversation
<1>3. CASE Find(r)
  <2> PICK m \in Existing(r) : found' = [found EXCEPT ![r] = m]
    BY <1>3 DEF Find
  <2>1. found'[r] = m /\ m.id = payload[r].id
    BY DEF Existing
  <2> QED
    BY <1>0, <1>3, <2>1 DEF Find
<1>4. CASE AnswerDuplicate(r)
  BY <1>0, <1>4 DEF AnswerDuplicate
<1>5. CASE ConversationNotFound(r) \/ TripNotFound(r) \/ RaiseConflict(r)
  BY <1>0, <1>5 DEF ConversationNotFound, TripNotFound, RaiseConflict
<1>6. CASE InsertMessage(r)
  BY <1>0, <1>6 DEF InsertMessage
<1>7. CASE Conflict(r) \/ Lose(r)
  BY <1>0, <1>7 DEF Conflict, Lose
<1>8. CASE Commit(r)
  <2>1. payload[r].conversation \in {None, work[r].conversation}
    BY <1>8 DEF Commit, OpenShape
  <2>2. /\ found'[r] = NewMessage(r) /\ NewMessage(r).id = payload[r].id
        /\ NewMessage(r).content = payload[r].content
        /\ NewMessage(r).conversation = work[r].conversation
    BY <1>8, CommitStep, MessageTyped
  <2> QED
    BY <1>0, <1>8, <2>1, <2>2 DEF Commit
<1>9. CASE Reply(r)
  BY <1>0, <1>9 DEF Reply
<1>10. CASE AbortRequest(r)
  BY <1>0, <1>10, Waiting DEF AbortRequest
<1> QED
  BY <1>1, <1>2, <1>3, <1>4, <1>5, <1>6, <1>7, <1>8, <1>9, <1>10 DEF Acts, Handle

\* Only a request that is being answered gets its answer, and only what it was looked up or
\* committed for.
LEMMA AnswersKept == ASSUME Inv, [Next]_vars PROVE AnswerShape'
<1>1. ASSUME NEW r \in Requests, Acts(r) PROVE AnswerShape'
  <2>1. ASSUME NEW s \in Requests \ {r} PROVE Told(s)'
    BY <1>1, <2>1, OthersStay DEF Inv, AnswerShape, Told, SameRequest
  <2> QED
    BY <1>1, <2>1, ToldStep DEF AnswerShape
<1>2. CASE UNCHANGED <<pc, payload, found, answer>>
  BY <1>2 DEF Inv, AnswerShape, Told, SameRequest
<1>3. ASSUME NEW c \in Conversations,
             \/ AcquireLease(c) \/ EndLease(c)
             \/ LockForDeletion(c) \/ DeleteConversation(c) \/ Abandon(c)
      PROVE  UNCHANGED <<pc, payload, found, answer>>
  BY <1>3 DEF AcquireLease, EndLease, LockForDeletion, DeleteConversation, Abandon
<1>4. CASE Anchors
  BY <1>2, <1>4, AnchorStep
<1> QED
  BY <1>1, <1>2, <1>3, <1>4 DEF Next, Acts, Anchors, vars

\* A deletion that has taken place is final: its conversation stays deleted.
LEMMA GoneStays == ASSUME Inv, [Next]_vars, Gone # {} PROVE Gone' # {}
<1> USE Assumed DEF Assumptions, Inv, Gone, Stored
<1>1. PICK c \in deleted : conversations[c] = None /\ locks[c] = None /\ c \in Conversations
  BY DEF DeletionShape, TypeOK
<1>2. ASSUME NEW r \in Requests, Commit(r) PROVE c \in deleted' /\ conversations'[c] = None
  BY <1>1, <1>2, CommitStep, CommitOwns
<1>3. ASSUME NEW d \in Conversations, DeleteConversation(d) PROVE c \in deleted' /\ conversations'[c] = None
  BY <1>1, <1>3, DeleteStep
<1>4. ASSUME \A r \in Requests : ~Commit(r), \A d \in Conversations : ~DeleteConversation(d)
      PROVE  c \in deleted' /\ conversations'[c] = None
  <2>1. conversations' = conversations
    BY <1>4, RowsKept
  <2>2. c \in deleted'
    <3>1. ASSUME NEW r \in Requests, Acts(r) PROVE deleted' = deleted
      BY <3>1, QuietStep, RollbackStep, CommitStep
      DEF Acts, Handle, Quiet, CreateConversation, LockConversation, InsertMessage, stored
    <3>2. ASSUME NEW d \in Conversations,
                 AcquireLease(d) \/ EndLease(d) \/ LockForDeletion(d) \/ Abandon(d)
          PROVE  c \in deleted'
      BY <1>1, <3>2 DEF AcquireLease, EndLease, LockForDeletion, Abandon
    <3> QED
      BY <1>1, <1>4, <3>1, <3>2, AnchorStep DEF Next, Acts, Anchors, vars, stored
  <2> QED
    BY <1>1, <2>1, <2>2
<1> QED
  BY <1>2, <1>3, <1>4

\* A message and its owner stay, unless a deletion takes them.
LEMMA MessagesStay ==
  ASSUME Inv, [Next]_vars
  PROVE  \/ Gone' # {}
         \/ /\ messages \subseteq messages'
            /\ \A c \in Conversations : Stored(c) => conversations'[c] = conversations[c]
<1>1. ASSUME NEW r \in Requests, Commit(r)
      PROVE  /\ messages \subseteq messages'
             /\ \A c \in Conversations : Stored(c) => conversations'[c] = conversations[c]
  BY <1>1, CommitStep, CommitOwns
<1>2. ASSUME NEW c \in Conversations, DeleteConversation(c) PROVE Gone' # {}
  BY <1>2, DeleteStep DEF Gone, Stored
<1> QED
  BY <1>1, <1>2, RowsKept

\* What the step of a request makes of its error: where nothing has been deleted, the id
\* that it could not use is another user's.
LEMMA ExplainedStep ==
  ASSUME Inv, NEW r \in Requests, Acts(r), Gone = {}
  PROVE  /\ pc'[r] = "duplicate" => \E m \in messages : found'[r] = m
         /\ pc'[r] = "recheck" => \E m \in messages : m.id = payload'[r].id
         /\ answer'[r] = "error" => (Foreign(r) \/ Anchored(r)) /\ payload'[r] = payload[r]
<1> USE DEF Inv, TypeOK, Goto, Tell
<1>0. Told(r) /\ Explained(r)
  BY DEF AnswerShape, ErrorShape
<1>1. CASE Find(r)
  BY <1>0, <1>1 DEF Find, Existing, Told
<1>2. CASE AnswerDuplicate(r)
  BY <1>0, <1>2 DEF AnswerDuplicate, Explained, Told
<1>3. CASE Conflict(r)
  BY <1>0, <1>3 DEF Conflict, Told
<1>4. CASE RaiseConflict(r)
  BY <1>0, <1>4 DEF RaiseConflict, Existing, Explained, Foreign, Told
<1>5. CASE Send(r) \/ LookupNothing(r) \/ LockTrip(r) \/ CreateConversation(r) \/ LockConversation(r) \/ Lose(r)
  BY <1>0, <1>5 DEF Send, LookupNothing, LockTrip, CreateConversation, LockConversation, Lose, Told
<1>6. CASE TripNotFound(r) \/ ConversationNotFound(r) \/ InsertMessage(r) \/ EnterIndex(r) \/ Commit(r) \/ Reply(r)
  BY <1>0, <1>6 DEF TripNotFound, ConversationNotFound, InsertMessage, EnterIndex, Commit, Reply, Told
<1>7. CASE AbortRequest(r)
  <2>1. /\ payload[r].conversation # None /\ locks[payload[r].conversation] \in Trips
        /\ payload[r].content.trip # None
    BY <1>7, Waiting DEF AbortRequest
  <2>2. payload[r].conversation \in Conversations
    BY <2>1 DEF Payloads
  <2>3. Anchored(r)
    BY <2>1, <2>2 DEF AnchorShape, Anchored
  <2> QED
    BY <1>0, <1>7, <2>3, Waiting DEF AbortRequest, Told
<1> QED
  BY <1>1, <1>2, <1>3, <1>4, <1>5, <1>6, <1>7 DEF Acts, Handle

\* The error of a request is explained by a deletion or by the message of another user.
LEMMA ErrorsKept == ASSUME Inv, [Next]_vars PROVE ErrorShape'
<1> SUFFICES ASSUME Gone' = {}, NEW r \in Requests PROVE Explained(r)'
  BY DEF ErrorShape
<1>1. Gone = {} /\ Explained(r)
  BY GoneStays DEF Inv, ErrorShape
<1>2. /\ messages \subseteq messages'
      /\ \A c \in Conversations : Stored(c) => conversations'[c] = conversations[c]
  BY MessagesStay
<1>3. \A m \in messages : m.conversation \in Conversations /\ Stored(m.conversation)
  BY DEF Inv, TypeOK, Message, Populated
<1>4. \A m \in messages : conversations'[m.conversation] = conversations[m.conversation]
  BY <1>2, <1>3
<1>5. \A c \in Conversations : Stored(c) => Stored(c)'
  BY <1>2 DEF Stored
<1>6. payload'[r] = payload[r] => (Foreign(r) => Foreign(r)') /\ (Anchored(r) => Anchored(r)')
  BY <1>2, <1>4 DEF Foreign, Anchored
<1>7. CASE Acts(r)
  BY <1>1, <1>2, <1>3, <1>5, <1>6, <1>7, ExplainedStep DEF Explained
<1>8. CASE pc'[r] = pc[r] /\ payload'[r] = payload[r] /\ found'[r] = found[r] /\ answer'[r] = answer[r]
  BY <1>1, <1>2, <1>5, <1>6, <1>8 DEF Explained
<1>9. ASSUME NEW c \in Conversations,
             \/ AcquireLease(c) \/ EndLease(c)
             \/ LockForDeletion(c) \/ DeleteConversation(c) \/ Abandon(c)
      PROVE  UNCHANGED <<pc, payload, found, answer>>
  BY <1>9 DEF AcquireLease, EndLease, LockForDeletion, DeleteConversation, Abandon
<1> QED
  BY <1>7, <1>8, <1>9, OthersStay, AnchorStep DEF Next, Acts, Anchors, vars

------------------------------------------------------------------------------
(* The theorems.                                                             *)

LEMMA Inductive == Inv /\ [Next]_vars => Inv'
BY TypesKept, WorkKept, DeletionsKept, AnchorsKept, PopulatedKept, TurnsKept, AnswersKept, ErrorsKept DEF Inv

LEMMA Always == Spec => []Inv
BY Initially, Inductive, PTL DEF Spec

\* The rows and requests of intake keep their types.
THEOREM TypeCorrect == Spec => []TypeOK
<1>1. Inv => TypeOK
  BY DEF Inv
<1> QED
  BY <1>1, Always, PTL

\* However requests for one id race, repeat and get lost, "accepted" is said of the message
\* that was asked for, no empty conversation is left, and an error has one of three reasons.
THEOREM AnswersHold == Spec => []AnswersAreTrue
<1>1. Inv => AnswersAreTrue
  <2> SUFFICES ASSUME Inv PROVE AnswersAreTrue
    OBVIOUS
  <2>1. AnswerMatchesRequest
    BY DEF Inv, AnswerShape, Told, SameRequest, AnswerMatchesRequest
  <2>2. NoEmptyConversation
    BY DEF Inv, Populated
  <2>3. ErrorsExplained
    BY DEF Inv, ErrorShape, Explained, Gone, Foreign, Anchored, ErrorsExplained
  <2> QED
    BY <2>1, <2>2, <2>3 DEF AnswersAreTrue
<1> QED
  BY <1>1, Always, PTL

\* A message never appears in its conversation after one with a higher number.
THEOREM TurnsAppear == Spec => TurnsAppearInOrder
<1>1. Inv /\ [Next]_vars =>
        [ \A m \in messages' \ messages : \A k \in messages :
            k.conversation = m.conversation => k.turn < m.turn ]_vars
  <2> SUFFICES ASSUME Inv, [Next]_vars, NEW m \in messages' \ messages,
                      NEW k \in messages, k.conversation = m.conversation
               PROVE  k.turn < m.turn
    OBVIOUS
  <2>1. PICK r \in Requests : Commit(r)
    <3>1. ASSUME NEW c \in Conversations, DeleteConversation(c) PROVE messages' \subseteq messages
      BY <3>1, DeleteStep
    <3> QED
      BY <3>1, RowsKept
  <2>2. m = NewMessage(r) /\ pc[r] = "commit" /\ work[r].conversation \in Conversations
    BY <2>1, CommitStep
  <2>3. m.conversation = work[r].conversation /\ m.turn = work[r].turn
    BY <2>2, MessageTyped DEF Inv
  <2> QED
    BY <2>2, <2>3 DEF Inv, TurnShape
<1> QED
  BY <1>1, Always, PTL DEF Spec, TurnsAppearInOrder

\* Nobody's planning lease is lost with its conversation.
THEOREM BusyStays == Spec => BusyIsNotDeleted
<1>1. Inv /\ [Next]_vars =>
        [ \A c \in Conversations : Stored(c) /\ ~Stored(c)' => c \notin leased ]_vars
  <2> SUFFICES ASSUME Inv, [Next]_vars, NEW c \in Conversations, Stored(c), ~Stored(c)'
               PROVE  c \notin leased
    OBVIOUS
  <2>1. ASSUME NEW r \in Requests, Commit(r) PROVE FALSE
    BY <2>1, CommitStep, Assumed DEF Assumptions, Stored
  <2>2. ASSUME NEW d \in Conversations, DeleteConversation(d) PROVE d = c /\ d \notin leased
    BY <2>2, DeleteStep DEF Stored
  <2> QED
    BY <2>1, <2>2, RowsKept DEF Stored
<1> QED
  BY <1>1, Always, PTL DEF Spec, BusyIsNotDeleted
==============================================================================
