---------------------------- MODULE AuthSessions ----------------------------
(* The sessions of one user: AuthService and AuthSessionRepository over      *)
(* PostgreSQL at READ COMMITTED.  A SELECT ... FOR UPDATE chooses its rows   *)
(* on the snapshot with which it starts, then locks them one by one, waits   *)
(* where another transaction holds one, and tests its WHERE clause again on  *)
(* the row as it is then; a row that was committed meanwhile it never sees.  *)
(* A step is what a request does between waiting for one row and the next,   *)
(* so a transaction that needs one row only commits in the step that locks   *)
(* it.                                                                       *)
EXTENDS Naturals, FiniteSets

CONSTANTS
    Requests,     \* HTTP requests in progress at the same time
    MaxSessions,  \* bound: sessions ever created
    MaxTime,      \* bound: the clock
    RefreshTtl,   \* Settings.refresh_token_ttl_days
    None          \* SQL NULL; nobody

ASSUME BoundAssumption == MaxSessions \in Nat /\ MaxTime \in Nat /\ RefreshTtl \in Nat \ {0}

VARIABLES
    clock,    \* the time, for the application and the database
    enabled,  \* whether users.status is "active"
    row,      \* the committed auth_sessions, numbered in the order of their commits
    lock,     \* the request whose transaction has locked a row
    req       \* what each request is doing

vars == <<clock, enabled, row, lock, req>>

Ids == 1 .. MaxSessions
Time == 0 .. MaxTime
Known == {s \in Ids : row[s] # None}

\* replaced_by_session_id is set exactly when rotated_at is, and revoke_reason with
\* revoked_at.
Session == [family : Ids, created : Time, expires : 1 .. MaxTime + RefreshTtl,
            replacedBy : Ids \cup {None}, revoked : BOOLEAN]

ASSUME NoneAssumption == None \notin Requests /\ None \notin Nat /\ None \notin Session

\* What a request presents or addresses (token), the family a revocation is limited to,
\* the time it has taken, the sessions that existed when it began (seen), the rows its
\* SELECT has still to lock and those it will revoke.
Request == [at : {"idle", "login", "refresh", "logout", "logout_all", "locking"},
            token : Ids \cup {None}, family : Ids \cup {None}, now : Time,
            seen : SUBSET Ids, queue : SUBSET Ids, picked : SUBSET Ids]

Idle == [at |-> "idle", token |-> None, family |-> None, now |-> 0,
         seen |-> {}, queue |-> {}, picked |-> {}]

TypeOK ==
    /\ clock \in Time /\ enabled \in BOOLEAN
    /\ row \in [Ids -> Session \cup {None}]
    /\ lock \in [Ids -> Requests \cup {None}]
    /\ req \in [Requests -> Request]

Fresh(family, created, issued) ==
    [family |-> family, created |-> created, expires |-> issued + RefreshTtl,
     replacedBy |-> None, revoked |-> FALSE]

\* The user has registered on one device.
Init ==
    /\ clock = 0 /\ enabled = TRUE
    /\ row = [s \in Ids |-> IF s = 1 THEN Fresh(1, 0, 0) ELSE None]
    /\ lock = [s \in Ids |-> None]
    /\ req = [r \in Requests |-> Idle]

Current(s, time) == row[s].replacedBy = None /\ ~row[s].revoked /\ row[s].expires > time

\* Tokens of a committed session may be presented at any time: late, twice, or after a
\* response was lost.  The lifetime of an access token would only narrow this.
Authenticates(s) == s \in Known /\ Current(s, clock) /\ enabled

\* The number of the next session to be committed.
IsNext(n) == n \in Ids \ Known /\ 1 .. n - 1 \subseteq Known

\* Another request may create a session: those under way have their numbers.
Room == Cardinality(Known) + Cardinality({r \in Requests : req[r].at \in {"login", "refresh"}})
            < MaxSessions

Release(r) == [s \in Ids |-> IF lock[s] = r THEN None ELSE lock[s]]
Ends(r) == req' = [req EXCEPT ![r] = Idle] /\ lock' = Release(r)

------------------------------------------------------------------------------
(* login.  created_at is the time at which the transaction began, expires_at *)
(* is counted from the time after the password has been hashed.              *)

LoginBegins(r) ==
    /\ req[r].at = "idle"
    /\ enabled /\ Room
    /\ req' = [req EXCEPT ![r] = [Idle EXCEPT !.at = "login", !.now = clock]]
    /\ UNCHANGED <<clock, enabled, row, lock>>

LoginCommits(r) ==
    /\ req[r].at = "login"
    /\ \E n \in Ids, issued \in req[r].now .. clock :
          IsNext(n) /\ row' = [row EXCEPT ![n] = Fresh(n, req[r].now, issued)]
    /\ Ends(r)
    /\ UNCHANGED <<clock, enabled>>

------------------------------------------------------------------------------
(* refresh.                                                                  *)

\* It takes the time, then waits for the row of the token.
RefreshBegins(r, s) ==
    /\ req[r].at = "idle"
    /\ s \in Known
    /\ Authenticates(s) => Room
    /\ req' = [req EXCEPT ![r] = [Idle EXCEPT !.at = "refresh", !.token = s, !.now = clock]]
    /\ UNCHANGED <<clock, enabled, row, lock>>

\* get_by_refresh_token_hash(for_update=True) returns.
Locks(r, phase) == req[r].at = phase /\ lock[req[r].token] = None

\* Variant: the rotated token of a session is not recognised.
Mutant_RotatesAgain(r) ==
    LET s == req[r].token IN
    /\ Locks(r, "refresh")
    /\ ~row[s].revoked /\ row[s].expires > req[r].now
    /\ enabled
    /\ \E n \in Ids, created \in req[r].now .. clock :
          /\ IsNext(n)
          /\ row' = [row EXCEPT ![n] = Fresh(row[s].family, created, req[r].now),
                                ![s].replacedBy = n]
    /\ Ends(r)
    /\ UNCHANGED <<clock, enabled>>

\* Variant: a revoked token still rotates.
Mutant_RotatesRevoked(r) ==
    LET s == req[r].token IN
    /\ Locks(r, "refresh")
    /\ row[s].replacedBy = None /\ row[s].expires > req[r].now
    /\ enabled
    /\ \E n \in Ids, created \in req[r].now .. clock :
          /\ IsNext(n)
          /\ row' = [row EXCEPT ![n] = Fresh(row[s].family, created, req[r].now),
                                ![s].replacedBy = n]
    /\ Ends(r)
    /\ UNCHANGED <<clock, enabled>>

\* The replacement carries the time of the transaction, which began no earlier than the
\* time was taken.
Rotates(r) ==
    LET s == req[r].token IN
    /\ Locks(r, "refresh")
    /\ Current(s, req[r].now)
    /\ enabled
    /\ \E n \in Ids, created \in req[r].now .. clock :
          /\ IsNext(n)
          /\ row' = [row EXCEPT ![n] = Fresh(row[s].family, created, req[r].now),
                                ![s].replacedBy = n]
    /\ Ends(r)
    /\ UNCHANGED <<clock, enabled>>

\* The token was revoked or has expired.
RefusesRefresh(r) ==
    LET s == req[r].token IN
    /\ Locks(r, "refresh")
    /\ row[s].replacedBy = None
    /\ row[s].revoked \/ row[s].expires <= req[r].now
    /\ Ends(r)
    /\ UNCHANGED <<clock, enabled, row>>

\* The token was used before, or the account is not active: revoke_token_family starts,
\* with the row of the token locked.
RevokesFamily(r) ==
    LET s == req[r].token
        f == row[s].family IN
    /\ Locks(r, "refresh")
    /\ row[s].replacedBy # None \/ (Current(s, req[r].now) /\ ~enabled)
    /\ lock' = [lock EXCEPT ![s] = r]
    /\ req' = [req EXCEPT ![r] =
                  [Idle EXCEPT !.at = "locking", !.family = f, !.seen = Known,
                               !.queue = {t \in Known : row[t].family = f /\ ~row[t].revoked}]]
    /\ UNCHANGED <<clock, enabled, row>>

------------------------------------------------------------------------------
(* logout, of the current or a selected session, and logout_all.             *)

LogoutBegins(r, a, s) ==
    /\ req[r].at = "idle"
    /\ Authenticates(a)
    /\ s \in Known
    /\ req' = [req EXCEPT ![r] = [Idle EXCEPT !.at = "logout", !.token = s]]
    /\ UNCHANGED <<clock, enabled, row, lock>>

\* revoke leaves a session that is revoked as it is.
LogsOut(r) ==
    /\ Locks(r, "logout")
    /\ row' = [row EXCEPT ![req[r].token].revoked = TRUE]
    /\ Ends(r)
    /\ UNCHANGED <<clock, enabled>>

LogoutAllBegins(r, a) ==
    /\ req[r].at = "idle"
    /\ Authenticates(a)
    /\ req' = [req EXCEPT ![r] = [Idle EXCEPT !.at = "logout_all", !.now = clock,
                                              !.seen = Known]]
    /\ UNCHANGED <<clock, enabled, row, lock>>

\* revoke_all_by_user starts.
RevokesAll(r) ==
    /\ req[r].at = "logout_all"
    /\ req' = [req EXCEPT ![r].at = "locking",
                          ![r].queue = {t \in Known : Current(t, req[r].now)}]
    /\ UNCHANGED <<clock, enabled, row, lock>>

------------------------------------------------------------------------------
(* Both revocations.                                                         *)

\* The WHERE clause, tested on the row that has been locked.
Qualifies(r, t) ==
    IF req[r].family = None THEN Current(t, req[r].now) ELSE ~row[t].revoked

\* The rows of a family are locked in the order of created_at.
Wanted(r) ==
    IF req[r].family = None
    THEN req[r].queue
    ELSE {t \in req[r].queue : \A u \in req[r].queue : row[t].created <= row[u].created}

\* Variant: a row that another transaction holds is skipped.
Mutant_SkipsLocked(r, t) ==
    /\ req[r].at = "locking"
    /\ t \in Wanted(r)
    /\ lock' = IF lock[t] = None THEN [lock EXCEPT ![t] = r] ELSE lock
    /\ req' = [req EXCEPT ![r].queue = @ \ {t},
                          ![r].picked = IF lock[t] \in {None, r} THEN @ \cup {t} ELSE @]
    /\ UNCHANGED <<clock, enabled, row>>

LocksRow(r, t) ==
    /\ req[r].at = "locking"
    /\ t \in Wanted(r)
    /\ lock[t] \in {None, r}
    /\ lock' = [lock EXCEPT ![t] = r]
    /\ req' = [req EXCEPT ![r].queue = @ \ {t},
                          ![r].picked = IF Qualifies(r, t) THEN @ \cup {t} ELSE @]
    /\ UNCHANGED <<clock, enabled, row>>

\* The check constraint revoked_at >= created_at: a session can be younger than the time
\* logout_all has taken.  revoke_token_family takes the later of the two.
Storable(r) == req[r].family # None \/ \A t \in req[r].picked : row[t].created <= req[r].now

Revokes(r) ==
    /\ req[r].at = "locking" /\ req[r].queue = {}
    /\ Storable(r)
    /\ row' = [s \in Ids |-> IF s \in req[r].picked THEN [row[s] EXCEPT !.revoked = TRUE]
                                                    ELSE row[s]]
    /\ Ends(r)
    /\ UNCHANGED <<clock, enabled>>

\* Variant: a revocation that cannot be stored is not rolled back.
Mutant_KeepsTransaction(r) ==
    /\ req[r].at = "locking" /\ req[r].queue = {}
    /\ ~Storable(r)
    /\ req' = [req EXCEPT ![r] = Idle]
    /\ UNCHANGED <<clock, enabled, row, lock>>

RevocationFails(r) ==
    /\ req[r].at = "locking" /\ req[r].queue = {}
    /\ ~Storable(r)
    /\ Ends(r)
    /\ UNCHANGED <<clock, enabled, row>>

------------------------------------------------------------------------------
(* Failures and the world outside.                                           *)

\* An error of the database, or the cancellation of the request: rollback.
Fails(r) ==
    /\ req[r].at # "idle"
    /\ Ends(r)
    /\ UNCHANGED <<clock, enabled, row>>

\* A set of requests that wait for each other's rows: PostgreSQL ends one of them.
WaitsFor(r) == CASE req[r].at \in {"refresh", "logout"} -> {req[r].token}
                 [] req[r].at = "locking" -> Wanted(r)
                 [] OTHER -> {}

Deadlocked(r) ==
    \E C \in SUBSET Requests :
        /\ r \in C
        /\ \A q \in C : WaitsFor(q) # {} /\ \A t \in WaitsFor(q) : lock[t] \in C \ {q}

DeadlockVictim == \E r \in Requests : Deadlocked(r) /\ Fails(r)

Tick == clock < MaxTime /\ clock' = clock + 1 /\ UNCHANGED <<enabled, row, lock, req>>

Disable == enabled /\ enabled' = FALSE /\ UNCHANGED <<clock, row, lock, req>>

Step(r) ==
    \/ LoginCommits(r) \/ Rotates(r) \/ RefusesRefresh(r) \/ RevokesFamily(r)
    \/ LogsOut(r) \/ RevokesAll(r) \/ Revokes(r) \/ RevocationFails(r)
    \/ \E t \in Ids : LocksRow(r, t)

Next ==
    \/ \E r \in Requests :
          \/ LoginBegins(r) \/ Step(r) \/ Fails(r)
          \/ \E s \in Ids : RefreshBegins(r, s) \/ LogoutAllBegins(r, s)
          \/ \E a, s \in Ids : LogoutBegins(r, a, s)
    \/ Tick \/ Disable

\* A row goes to those who wait for it in turn, and PostgreSQL finds every deadlock.
Fairness ==
    /\ \A r \in Requests : SF_vars(Step(r))
    /\ WF_vars(DeadlockVictim)

Spec == Init /\ [][Next]_vars /\ Fairness

------------------------------------------------------------------------------
(* Properties.                                                               *)

\* A chain of rotations never forks: however many requests present the same token, and
\* whatever revocations they meet, a family has at most one session that can be used.
OneCurrentPerFamily ==
    \A s, t \in Known :
        row[s].family = row[t].family /\ Current(s, 0) /\ Current(t, 0) => s = t

\* What has been revoked stays so and gets no replacement any more, not even by a refresh
\* that had begun before.
RevokedForGood ==
    [][\A s \in Known : row[s].revoked =>
           row'[s].revoked /\ row'[s].replacedBy = row[s].replacedBy]_vars

\* A session that existed when a logout-all began, or when a reuse was detected, cannot be
\* used once the revocation has been committed, whoever held its row meanwhile.
RevocationCoversSeen ==
    [][\A r \in Requests : Revokes(r) =>
           \A s \in req[r].seen :
               req[r].family \in {None, row[s].family} => ~Current(s, clock)']_vars

\* No two rows are waited for forever: every request is answered, and its transaction ends.
RequestsEnd == \A r \in Requests : req[r].at # "idle" ~> req[r].at = "idle"

\* After logout-all every device has to authenticate again: no descendant of a session
\* that existed when it began can be used.
LogoutAllSignsOutDevices ==
    [][\A r \in Requests : Revokes(r) /\ req[r].family = None =>
           \A s \in Known : row[s].family \in req[r].seen => ~Current(s, clock)']_vars
==============================================================================
