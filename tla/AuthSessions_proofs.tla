------------------------- MODULE AuthSessions_proofs -------------------------
(* Theorems about AuthSessions for any number of requests and sessions.      *)
EXTENDS AuthSessions, TLAPS

\* A family is named after a session that exists, and has one session that has not been
\* replaced.
Families ==
    /\ \A s \in Known : row[s].family \in Known
    /\ \A s, t \in Known :
          row[s].family = row[t].family /\ row[s].replacedBy = None /\ row[t].replacedBy = None
              => s = t

\* Requests concern sessions that exist, at a time that has been.
Requested ==
    \A r \in Requests :
        /\ req[r].now <= clock
        /\ req[r].seen \subseteq Known
        /\ req[r].queue \subseteq Known /\ req[r].picked \subseteq Known
        /\ req[r].at \in {"refresh", "logout"} => req[r].token \in Known

\* What a revocation has seen it has still to lock, has locked, or need not revoke.
Covered ==
    \A r \in Requests : req[r].at = "locking" =>
        \A s \in req[r].seen :
            req[r].family \in {None, row[s].family} =>
                s \in req[r].queue \/ s \in req[r].picked \/ ~Current(s, clock)

Inv == TypeOK /\ Families /\ Requested /\ Covered

Assumptions == /\ None \notin Requests /\ None \notin Nat /\ None \notin Session
               /\ MaxSessions \in Nat /\ MaxTime \in Nat /\ RefreshTtl \in Nat \ {0}

\* The assumptions on the constants, under one name.
LEMMA Assumed == Assumptions
BY NoneAssumption, BoundAssumption DEF Assumptions

\* A session that has just been created.
LEMMA FreshType ==
    ASSUME NEW f \in Ids, NEW created \in Time, NEW issued \in Time
    PROVE  Fresh(f, created, issued) \in Session
BY Assumed DEF Fresh, Session, Time, Assumptions

\* An idle request.
LEMMA IdleType == Idle \in Request
BY Assumed DEF Idle, Request, Time, Assumptions

\* What a known row is, and what a row that is not known is.
LEMMA KnownRows ==
    ASSUME TypeOK
    PROVE  /\ \A s \in Known : s \in Ids /\ row[s] \in Session
           /\ \A s \in Ids : s \notin Known => row[s] = None
BY DEF TypeOK, Known

\* The user has one session, and no request is under way.
LEMMA InvInit == Init => Inv
<1> SUFFICES ASSUME Init PROVE Inv
  OBVIOUS
<1> USE Assumed DEF Assumptions
<1>1. /\ 0 \in Time
      /\ 1 \in Ids => Fresh(1, 0, 0) \in Session
  BY FreshType DEF Time
<1>2. TypeOK
  BY <1>1, IdleType DEF Init, TypeOK
<1>3. Known \subseteq {1}
  BY DEF Init, Known
<1>4. Families
  <2>1. \A s \in Known : s = 1 /\ row[s] = Fresh(1, 0, 0)
    BY <1>3 DEF Init, Known
  <2> QED
    BY <2>1 DEF Families, Fresh
<1>5. Requested /\ Covered
  BY DEF Init, Requested, Covered, Idle
<1> QED
  BY <1>2, <1>4, <1>5 DEF Inv

------------------------------------------------------------------------------
(* Types.                                                                    *)

\* Every step keeps the types.
LEMMA TypeNext == Inv /\ [Next]_vars => TypeOK'
<1> SUFFICES ASSUME Inv, [Next]_vars PROVE TypeOK'
  OBVIOUS
<1> USE Assumed, IdleType DEF Assumptions, Inv, TypeOK
<1>0. /\ 0 \in Time /\ clock \in Time /\ Known \subseteq Ids
      /\ Idle \in Request
      /\ \A r \in Requests : Release(r) \in [Ids -> Requests \cup {None}]
  BY DEF Time, Known, Release
<1>1. ASSUME NEW r \in Requests, LoginBegins(r) PROVE TypeOK'
  BY <1>0, <1>1 DEF LoginBegins, Idle, Request
<1>2. ASSUME NEW r \in Requests, LoginCommits(r) PROVE TypeOK'
  <2>1. PICK n \in Ids, issued \in req[r].now .. clock :
            row' = [row EXCEPT ![n] = Fresh(n, req[r].now, issued)]
    BY <1>2 DEF LoginCommits
  <2>2. req[r].now \in Time /\ issued \in Time
    BY DEF Request, Time
  <2>3. Fresh(n, req[r].now, issued) \in Session
    BY <2>2, FreshType
  <2> QED
    BY <1>0, <1>2, <2>1, <2>3 DEF LoginCommits, Ends
<1>3. ASSUME NEW r \in Requests, NEW s \in Ids, RefreshBegins(r, s) PROVE TypeOK'
  BY <1>0, <1>3 DEF RefreshBegins, Idle, Request
<1>4. ASSUME NEW r \in Requests, Rotates(r) PROVE TypeOK'
  <2> DEFINE s == req[r].token
  <2>1. PICK n \in Ids, created \in req[r].now .. clock :
            row' = [row EXCEPT ![n] = Fresh(row[s].family, created, req[r].now),
                               ![s].replacedBy = n]
    BY <1>4 DEF Rotates
  <2>2. req[r].now \in Time /\ created \in Time
    BY DEF Request, Time
  <2>3. s \in Known
    BY <1>4 DEF Rotates, Locks, Requested
  <2>4. s \in Ids /\ row[s] \in Session
    BY <2>3, KnownRows
  <2>5. Fresh(row[s].family, created, req[r].now) \in Session
    BY <2>2, <2>4, FreshType DEF Session
  <2>6. \A x \in Session : [x EXCEPT !.replacedBy = n] \in Session
    BY DEF Session
  <2>7. row' \in [Ids -> Session \cup {None}]
    BY <2>1, <2>4, <2>5, <2>6
  <2> QED
    BY <1>0, <1>4, <2>7 DEF Rotates, Ends
<1>5. ASSUME NEW r \in Requests, RefusesRefresh(r) \/ RevocationFails(r) \/ Fails(r)
      PROVE  TypeOK'
  BY <1>0, <1>5 DEF RefusesRefresh, RevocationFails, Fails, Ends
<1>6. ASSUME NEW r \in Requests, RevokesFamily(r) PROVE TypeOK'
  <2> DEFINE s == req[r].token
  <2>1. s \in Ids /\ row[s] \in Session
    BY <1>6, KnownRows DEF RevokesFamily, Locks, Requested
  <2>2. row[s].family \in Ids
    BY <2>1 DEF Session
  <2>3. {t \in Known : row[t].family = row[s].family /\ ~row[t].revoked} \in SUBSET Ids
    BY <1>0
  <2> QED
    BY <1>0, <1>6, <2>1, <2>2, <2>3 DEF RevokesFamily, Idle, Request
<1>7. ASSUME NEW r \in Requests, NEW a \in Ids, NEW s \in Ids, LogoutBegins(r, a, s)
      PROVE  TypeOK'
  BY <1>0, <1>7 DEF LogoutBegins, Idle, Request
<1>8. ASSUME NEW r \in Requests, LogsOut(r) PROVE TypeOK'
  <2>1. req[r].token \in Ids /\ row[req[r].token] \in Session
    BY <1>8, KnownRows DEF LogsOut, Locks, Requested
  <2>2. \A x \in Session : [x EXCEPT !.revoked = TRUE] \in Session
    BY DEF Session
  <2> QED
    BY <1>0, <1>8, <2>1, <2>2 DEF LogsOut, Ends
<1>9. ASSUME NEW r \in Requests, NEW a \in Ids, LogoutAllBegins(r, a) PROVE TypeOK'
  BY <1>0, <1>9 DEF LogoutAllBegins, Idle, Request
<1>10. ASSUME NEW r \in Requests, RevokesAll(r) PROVE TypeOK'
  BY <1>0, <1>10 DEF RevokesAll, Request
<1>11. ASSUME NEW r \in Requests, NEW t \in Ids, LocksRow(r, t) PROVE TypeOK'
  <2> DEFINE q == req[r].queue \ {t}
             p == IF Qualifies(r, t) THEN req[r].picked \cup {t} ELSE req[r].picked
  <2>1. req[r] \in Request /\ q \in SUBSET Ids /\ p \in SUBSET Ids
    BY DEF Request
  <2>2. req' = [req EXCEPT ![r] = [req[r] EXCEPT !.queue = q, !.picked = p]]
    BY <1>11 DEF LocksRow
  <2> HIDE DEF q, p
  <2>3. [req[r] EXCEPT !.queue = q, !.picked = p] \in Request
    BY <2>1 DEF Request
  <2>4. req' \in [Requests -> Request]
    BY <2>2, <2>3
  <2>5. lock' \in [Ids -> Requests \cup {None}]
    BY <1>11 DEF LocksRow
  <2>6. row' \in [Ids -> Session \cup {None}] /\ clock' \in Time /\ enabled' \in BOOLEAN
    BY <1>0, <1>11, Zenon DEF LocksRow
  <2> QED
    BY <2>4, <2>5, <2>6, Zenon
<1>12. ASSUME NEW r \in Requests, Revokes(r) PROVE TypeOK'
  <2>1. \A s \in req[r].picked : row[s] \in Session
    BY KnownRows DEF Requested
  <2>2. \A x \in Session : [x EXCEPT !.revoked = TRUE] \in Session
    BY DEF Session
  <2>3. row' \in [Ids -> Session \cup {None}]
    BY <1>12, <2>1, <2>2 DEF Revokes
  <2>4. /\ req' = [req EXCEPT ![r] = Idle] /\ lock' = Release(r)
        /\ UNCHANGED <<clock, enabled>>
    BY <1>12 DEF Revokes, Ends
  <2>5. lock' \in [Ids -> Requests \cup {None}] /\ req' \in [Requests -> Request]
    BY <1>0, <2>4
  <2>6. clock' \in Time /\ enabled' \in BOOLEAN
    BY <1>0, <2>4, Zenon
  <2> QED
    BY <2>3, <2>5, <2>6, Zenon
<1>13. CASE Tick
  BY <1>13 DEF Tick, Time
<1>15. CASE Disable
  BY <1>15, Zenon DEF Disable
<1>14. CASE UNCHANGED vars
  BY <1>14 DEF vars
<1> QED
  BY <1>1, <1>2, <1>3, <1>4, <1>5, <1>6, <1>7, <1>8, <1>9, <1>10, <1>11, <1>12, <1>13, <1>14,
     <1>15 DEF Next, Step

------------------------------------------------------------------------------
(* What happens to rows.                                                     *)

\* The step adds no row and replaces none.
SameShape ==
    /\ Known' = Known
    /\ \A s \in Known : /\ row'[s].family = row[s].family
                        /\ row'[s].expires = row[s].expires
                        /\ row'[s].replacedBy = row[s].replacedBy
                        /\ row[s].revoked => row'[s].revoked

\* The step adds session n, which replaces the session p of its family or begins one.
Adds(n, p) ==
    /\ n \in Ids \ Known /\ Known' = Known \cup {n}
    /\ row'[n].replacedBy = None
    /\ IF p = None THEN row'[n].family = n
       ELSE /\ p \in Known /\ row[p].replacedBy = None /\ ~row[p].revoked
            /\ row'[n].family = row[p].family
            /\ row'[p].replacedBy = n
    /\ \A s \in Known : /\ row'[s].family = row[s].family
                        /\ row'[s].expires = row[s].expires
                        /\ s # p => row'[s].replacedBy = row[s].replacedBy
                        /\ row[s].revoked => row'[s].revoked

\* login begins a family.
LEMMA LoginAdds ==
    ASSUME Inv, NEW r \in Requests, LoginCommits(r)
    PROVE  \E n \in Ids : Adds(n, None)
<1>1. PICK n \in Ids, issued \in req[r].now .. clock :
          IsNext(n) /\ row' = [row EXCEPT ![n] = Fresh(n, req[r].now, issued)]
  BY DEF LoginCommits
<1>2. n \in Ids \ Known
  BY <1>1 DEF IsNext
<1>3. req[r].now \in Time /\ issued \in Time
  BY Assumed DEF Inv, TypeOK, Request, Time, Assumptions
<1>4. Fresh(n, req[r].now, issued) \in Session
  BY <1>3, FreshType
<1>5. Known' = Known \cup {n}
  BY <1>1, <1>4, Assumed DEF Known, Inv, TypeOK, Assumptions
<1>6. \A s \in Known : row'[s] = row[s]
  BY <1>1, <1>2 DEF Inv, TypeOK, Known
<1>7. row'[n] = Fresh(n, req[r].now, issued)
  BY <1>1 DEF Inv, TypeOK
<1> QED
  BY <1>2, <1>5, <1>6, <1>7 DEF Adds, Fresh

\* refresh adds the replacement of a session that is neither replaced nor revoked.
LEMMA RotationAdds ==
    ASSUME Inv, NEW r \in Requests, Rotates(r)
    PROVE  \E n \in Ids : Adds(n, req[r].token)
<1> DEFINE p == req[r].token
<1>1. PICK n \in Ids, created \in req[r].now .. clock :
          IsNext(n) /\ row' = [row EXCEPT ![n] = Fresh(row[p].family, created, req[r].now),
                                          ![p].replacedBy = n]
  BY DEF Rotates
<1>2. n \in Ids \ Known
  BY <1>1 DEF IsNext
<1>3. req[r].now \in Time /\ created \in Time
  BY Assumed DEF Inv, TypeOK, Request, Time, Assumptions
<1>4. p \in Known /\ row[p].replacedBy = None /\ ~row[p].revoked
  BY DEF Rotates, Locks, Current, Inv, Requested
<1>5. p \in Ids /\ row[p] \in Session
  BY <1>4, KnownRows DEF Inv
<1>6. Fresh(row[p].family, created, req[r].now) \in Session
  BY <1>3, <1>5, FreshType DEF Session
<1>7. row'[p] = [row[p] EXCEPT !.replacedBy = n]
  BY <1>1, <1>2, <1>4, <1>5 DEF Inv, TypeOK
<1>8. row'[n] = Fresh(row[p].family, created, req[r].now)
  BY <1>1, <1>2, <1>4, <1>5 DEF Inv, TypeOK
<1>9. \A s \in Ids : s # n /\ s # p => row'[s] = row[s]
  BY <1>1 DEF Inv, TypeOK
<1>10. row'[p] \in Session
  BY <1>5, <1>7 DEF Session
<1>11. Known' = Known \cup {n}
  BY <1>4, <1>5, <1>6, <1>8, <1>9, <1>10, Assumed DEF Known, Assumptions
<1>12. p # None
  BY <1>5, Assumed DEF Ids, Assumptions
<1>13. /\ row'[p].replacedBy = n /\ row'[p].family = row[p].family
       /\ row'[p].expires = row[p].expires /\ row'[p].revoked = row[p].revoked
  BY <1>5, <1>7 DEF Session
<1>14. \A s \in Known : s # p => row'[s] = row[s]
  BY <1>2, <1>9 DEF Known
<1> QED
  BY <1>2, <1>4, <1>8, <1>11, <1>12, <1>13, <1>14 DEF Adds, Fresh

\* logout and the revocations keep the shape of the rows.
LEMMA RevocationKeepsShape ==
    ASSUME Inv, NEW r \in Requests, LogsOut(r) \/ Revokes(r)
    PROVE  SameShape
<1>1. CASE LogsOut(r)
  <2> DEFINE p == req[r].token
  <2>1. p \in Known /\ row' = [row EXCEPT ![p].revoked = TRUE]
    BY <1>1 DEF LogsOut, Locks, Inv, Requested
  <2>2. p \in Ids /\ row[p] \in Session
    BY <2>1, KnownRows DEF Inv
  <2>3. row'[p] = [row[p] EXCEPT !.revoked = TRUE]
    BY <2>1, <2>2 DEF Inv, TypeOK
  <2>4. row'[p] \in Session
    BY <2>2, <2>3 DEF Session
  <2>5. \A s \in Ids : s # p => row'[s] = row[s]
    BY <2>1 DEF Inv, TypeOK
  <2>6. Known' = Known
    BY <2>1, <2>2, <2>4, <2>5, Assumed DEF Known, Assumptions
  <2>7. /\ row'[p].family = row[p].family /\ row'[p].expires = row[p].expires
        /\ row'[p].replacedBy = row[p].replacedBy /\ row'[p].revoked
    BY <2>2, <2>3 DEF Session
  <2> QED
    BY <2>5, <2>6, <2>7 DEF SameShape, Known
<1>2. CASE Revokes(r)
  <2> DEFINE P == req[r].picked
  <2>1. P \subseteq Known
    BY DEF Inv, Requested
  <2>2. \A s \in Ids : row'[s] = IF s \in P THEN [row[s] EXCEPT !.revoked = TRUE] ELSE row[s]
    BY <1>2 DEF Revokes
  <2>3. \A s \in P : s \in Ids /\ row[s] \in Session
    BY <2>1, KnownRows DEF Inv
  <2>4. \A x \in Session : /\ [x EXCEPT !.revoked = TRUE] \in Session
                           /\ [x EXCEPT !.revoked = TRUE].family = x.family
                           /\ [x EXCEPT !.revoked = TRUE].expires = x.expires
                           /\ [x EXCEPT !.revoked = TRUE].replacedBy = x.replacedBy
                           /\ [x EXCEPT !.revoked = TRUE].revoked
    BY DEF Session
  <2>6. \A s \in P : row'[s] \in Session
    BY <2>2, <2>3, <2>4
  <2>7. \A s \in Ids : row'[s] # None <=> row[s] # None
    BY <2>2, <2>3, <2>6, Assumed DEF Assumptions
  <2>5. Known' = Known
    BY <2>7 DEF Known
  <2> QED
    BY <2>2, <2>3, <2>4, <2>5 DEF SameShape, Known
<1> QED
  BY <1>1, <1>2

\* Time does not go back.
LEMMA ClockGrows ==
    ASSUME Inv, [Next]_vars PROVE clock \in Nat /\ clock' \in Nat /\ clock <= clock'
<1>1. clock \in Nat
  BY Assumed DEF Inv, TypeOK, Time, Assumptions
<1>2. clock' = clock \/ clock' = clock + 1
  BY DEF Next, Step, vars, LoginBegins, LoginCommits, RefreshBegins, Rotates, RefusesRefresh,
         RevokesFamily, LogoutBegins, LogsOut, LogoutAllBegins, RevokesAll, LocksRow, Revokes,
         RevocationFails, Fails, Tick, Disable
<1> QED
  BY <1>1, <1>2

\* Every step has one of these forms.
LEMMA Shapes ==
    ASSUME Inv, [Next]_vars
    PROVE  SameShape \/ \E n \in Ids, p \in Known \cup {None} : Adds(n, p)
<1>1. ASSUME NEW r \in Requests, LoginCommits(r) PROVE \E n \in Ids : Adds(n, None)
  BY <1>1, LoginAdds
<1>2. ASSUME NEW r \in Requests, Rotates(r) PROVE \E n \in Ids, p \in Known : Adds(n, p)
  <2>1. req[r].token \in Known
    BY <1>2 DEF Rotates, Locks, Inv, Requested
  <2> QED
    BY <1>2, <2>1, RotationAdds
<1>3. ASSUME NEW r \in Requests, LogsOut(r) \/ Revokes(r) PROVE SameShape
  BY <1>3, RevocationKeepsShape
<1>4. CASE ~\E r \in Requests : LoginCommits(r) \/ Rotates(r) \/ LogsOut(r) \/ Revokes(r)
  <2>1. row' = row
    BY <1>4 DEF Next, Step, vars, LoginBegins, RefreshBegins, LogoutBegins, LogoutAllBegins,
                RefusesRefresh, RevokesFamily, RevokesAll, RevocationFails, LocksRow, Fails,
                Tick, Disable
  <2> QED
    BY <2>1 DEF SameShape, Known
<1> QED
  BY <1>1, <1>2, <1>3, <1>4

\* Sessions stay, and whatever made one unusable stays.
LEMMA Monotone ==
    ASSUME Inv, [Next]_vars
    PROVE  /\ Known \subseteq Known'
           /\ \A s \in Known :
                 /\ row'[s].family = row[s].family
                 /\ Current(s, clock)' => Current(s, clock)
                 /\ row[s].revoked => row'[s].revoked /\ row'[s].replacedBy = row[s].replacedBy
<1> USE KnownRows DEF Inv
<1>1. clock \in Nat /\ clock' \in Nat /\ clock <= clock'
  BY ClockGrows
<1>2. \A s \in Known : row[s].expires \in Nat
  BY Assumed DEF Session, Assumptions
<1>3. CASE SameShape
  BY <1>1, <1>2, <1>3 DEF SameShape, Current
<1>4. ASSUME NEW n \in Ids, NEW p \in Known \cup {None}, Adds(n, p)
      PROVE  /\ Known \subseteq Known'
             /\ \A s \in Known :
                   /\ row'[s].family = row[s].family
                   /\ Current(s, clock)' => Current(s, clock)
                   /\ row[s].revoked => row'[s].revoked /\ row'[s].replacedBy = row[s].replacedBy
  <2>1. n # None /\ None \notin Known
    BY Assumed DEF Ids, Known, Assumptions
  <2>3. \A s \in Known : row[s].revoked => s # p
    BY <1>4, <2>1 DEF Adds
  <2>4. row'[p].replacedBy = n \/ p = None
    BY <1>4 DEF Adds
  <2>5. \A s \in Known : row'[s].expires = row[s].expires /\ row'[s].family = row[s].family
                         /\ (row[s].revoked => row'[s].revoked)
                         /\ (s # p => row'[s].replacedBy = row[s].replacedBy)
    BY <1>4 DEF Adds
  <2>6. Known \subseteq Known'
    BY <1>4 DEF Adds
  <2>7. ASSUME NEW s \in Known, Current(s, clock)' PROVE Current(s, clock)
    BY <1>1, <1>2, <2>1, <2>4, <2>5, <2>7, Assumed DEF Current, Known, Ids, Assumptions
  <2> QED
    BY <2>3, <2>5, <2>6, <2>7
<1> QED
  BY <1>3, <1>4, Shapes

\* Every step keeps the families.
LEMMA FamiliesNext == ASSUME Inv, [Next]_vars PROVE Families'
<1>1. CASE SameShape
  BY <1>1 DEF SameShape, Inv, Families
<1>2. ASSUME NEW n \in Ids, NEW p \in Known \cup {None}, Adds(n, p) PROVE Families'
  <2>1. n # None /\ None \notin Known
    BY Assumed DEF Ids, Known, Assumptions
  <2> QED
    BY <1>2, <2>1 DEF Adds, Inv, Families
<1> QED
  BY <1>1, <1>2, Shapes

------------------------------------------------------------------------------
(* Requests.                                                                 *)

\* Every step keeps what is known of requests.
LEMMA RequestedNext == ASSUME Inv, [Next]_vars PROVE Requested'
<1>1. clock \in Nat /\ clock' \in Nat /\ clock <= clock' /\ 0 <= clock'
  BY ClockGrows
<1>2. Known \subseteq Known'
  BY Monotone
<1>3. req \in [Requests -> Request] /\ Requested
  BY DEF Inv, TypeOK
<1>4. \A r \in Requests : req[r].now \in Nat
  BY <1>3 DEF Request, Time
<1>5. CASE req' = req
  BY <1>1, <1>2, <1>3, <1>4, <1>5 DEF Requested
<1>6. ASSUME NEW r \in Requests, NEW q, req' = [req EXCEPT ![r] = q],
             q.now \in Nat, q.now <= clock,
             q.seen \subseteq Known, q.queue \subseteq Known, q.picked \subseteq Known,
             q.at \in {"refresh", "logout"} => q.token \in Known
      PROVE  Requested'
  <2>1. \A x \in Requests : req'[x] = IF x = r THEN q ELSE req[x]
    BY <1>3, <1>6
  <2> QED
    BY <1>1, <1>2, <1>3, <1>4, <1>6, <2>1 DEF Requested
<1>7. ASSUME NEW r \in Requests, Ends(r) PROVE Requested'
  <2> DEFINE q == Idle
  <2>1. req' = [req EXCEPT ![r] = q]
    BY <1>7 DEF Ends
  <2>2. /\ q.now = 0 /\ q.seen = {} /\ q.queue = {} /\ q.picked = {}
        /\ q.at = "idle"
    BY DEF Idle
  <2> HIDE DEF q
  <2>9. q.now \in Nat /\ q.now <= clock
    BY <1>1, <2>2
  <2> QED
    BY <1>6, <2>1, <2>2, <2>9
<1>8. ASSUME NEW r \in Requests, LoginBegins(r) PROVE Requested'
  <2> DEFINE q == [Idle EXCEPT !.at = "login", !.now = clock]
  <2>1. req' = [req EXCEPT ![r] = q]
    BY <1>8 DEF LoginBegins
  <2>2. /\ q.now = clock /\ q.seen = {} /\ q.queue = {} /\ q.picked = {}
        /\ q.at = "login"
    BY DEF Idle
  <2> HIDE DEF q
  <2>9. q.now \in Nat /\ q.now <= clock
    BY <1>1, <2>2
  <2> QED
    BY <1>6, <2>1, <2>2, <2>9
<1>9. ASSUME NEW r \in Requests, NEW s \in Ids, RefreshBegins(r, s) PROVE Requested'
  <2> DEFINE q == [Idle EXCEPT !.at = "refresh", !.token = s, !.now = clock]
  <2>1. req' = [req EXCEPT ![r] = q]
    BY <1>9 DEF RefreshBegins
  <2>2. /\ q.now = clock /\ q.seen = {} /\ q.queue = {} /\ q.picked = {}
        /\ q.token = s /\ s \in Known
    BY <1>9 DEF Idle, RefreshBegins
  <2> HIDE DEF q
  <2>9. q.now \in Nat /\ q.now <= clock
    BY <1>1, <2>2
  <2> QED
    BY <1>6, <2>1, <2>2, <2>9
<1>10. ASSUME NEW r \in Requests, NEW a \in Ids, NEW s \in Ids, LogoutBegins(r, a, s)
       PROVE  Requested'
  <2> DEFINE q == [Idle EXCEPT !.at = "logout", !.token = s]
  <2>1. req' = [req EXCEPT ![r] = q]
    BY <1>10 DEF LogoutBegins
  <2>2. /\ q.now = 0 /\ q.seen = {} /\ q.queue = {} /\ q.picked = {}
        /\ q.token = s /\ s \in Known
    BY <1>10 DEF Idle, LogoutBegins
  <2> HIDE DEF q
  <2>9. q.now \in Nat /\ q.now <= clock
    BY <1>1, <2>2
  <2> QED
    BY <1>6, <2>1, <2>2, <2>9
<1>11. ASSUME NEW r \in Requests, NEW a \in Ids, LogoutAllBegins(r, a) PROVE Requested'
  <2> DEFINE q == [Idle EXCEPT !.at = "logout_all", !.now = clock, !.seen = Known]
  <2>1. req' = [req EXCEPT ![r] = q]
    BY <1>11 DEF LogoutAllBegins
  <2>2. /\ q.now = clock /\ q.seen = Known /\ q.queue = {} /\ q.picked = {}
        /\ q.at = "logout_all"
    BY DEF Idle
  <2> HIDE DEF q
  <2>9. q.now \in Nat /\ q.now <= clock
    BY <1>1, <2>2
  <2> QED
    BY <1>6, <2>1, <2>2, <2>9
<1>12. ASSUME NEW r \in Requests, RevokesFamily(r) PROVE Requested'
  <2> DEFINE f == row[req[r].token].family
             Q == {t \in Known : row[t].family = f /\ ~row[t].revoked}
             q == [Idle EXCEPT !.at = "locking", !.family = f, !.seen = Known, !.queue = Q]
  <2>1. req' = [req EXCEPT ![r] = q]
    BY <1>12 DEF RevokesFamily
  <2>2. q.now = 0 /\ q.seen = Known /\ q.queue = Q /\ q.picked = {} /\ q.at = "locking"
    BY DEF Idle
  <2>3. Q \subseteq Known
    OBVIOUS
  <2> HIDE DEF q, Q
  <2>4. q.now \in Nat /\ q.now <= clock
    BY <1>1, <2>2
  <2> QED
    BY <1>6, <2>1, <2>2, <2>3, <2>4
<1>13. ASSUME NEW r \in Requests, RevokesAll(r) PROVE Requested'
  <2> DEFINE Q == {t \in Known : Current(t, req[r].now)}
             q == [req[r] EXCEPT !.at = "locking", !.queue = Q]
  <2>1. req' = [req EXCEPT ![r] = q]
    BY <1>3, <1>13 DEF RevokesAll
  <2>2. /\ q.now = req[r].now /\ q.seen = req[r].seen /\ q.queue = Q
        /\ q.picked = req[r].picked /\ q.at = "locking"
    BY <1>3 DEF Request
  <2>3. Q \subseteq Known
    OBVIOUS
  <2> HIDE DEF q, Q
  <2> QED
    BY <1>3, <1>4, <1>6, <2>1, <2>2, <2>3 DEF Requested
<1>14. ASSUME NEW r \in Requests, NEW t \in Ids, LocksRow(r, t) PROVE Requested'
  <2> DEFINE Q == req[r].queue \ {t}
             P == IF Qualifies(r, t) THEN req[r].picked \cup {t} ELSE req[r].picked
             q == [req[r] EXCEPT !.queue = Q, !.picked = P]
  <2>1. req' = [req EXCEPT ![r] = q]
    BY <1>3, <1>14 DEF LocksRow
  <2>2. /\ q.now = req[r].now /\ q.seen = req[r].seen /\ q.queue = Q
        /\ q.picked = P /\ q.at = "locking"
    BY <1>3, <1>14 DEF Request, LocksRow
  <2>3. t \in req[r].queue
    BY <1>14 DEF LocksRow, Wanted
  <2>4. Q \subseteq Known /\ P \subseteq Known
    BY <1>3, <2>3 DEF Requested
  <2> HIDE DEF q, Q, P
  <2> QED
    BY <1>3, <1>4, <1>6, <2>1, <2>2, <2>4 DEF Requested
<1> QED
  BY <1>5, <1>7, <1>8, <1>9, <1>10, <1>11, <1>12, <1>13, <1>14
     DEF Next, Step, vars, LoginCommits, Rotates, RefusesRefresh, LogsOut, Revokes,
         RevocationFails, Fails, Tick, Disable

\* What Covered says of one request.
CoveredBy(r) ==
    req[r].at = "locking" =>
        \A s \in req[r].seen :
            req[r].family \in {None, row[s].family} =>
                s \in req[r].queue \/ s \in req[r].picked \/ ~Current(s, clock)

\* Who is not current at a time is not current later.
LEMMA CurrentEnds ==
    ASSUME Inv, NEW s \in Known, NEW time \in Nat, time <= clock, ~Current(s, time)
    PROVE  ~Current(s, clock)
<1>1. row[s].expires \in Nat /\ clock \in Nat
  BY KnownRows, Assumed DEF Inv, TypeOK, Session, Time, Assumptions
<1> QED
  BY <1>1 DEF Current

\* Every step keeps what revocations cover.
LEMMA CoveredNext == ASSUME Inv, [Next]_vars PROVE Covered'
<1>1. req \in [Requests -> Request] /\ Requested /\ Covered
  BY DEF Inv, TypeOK
<1>2. ASSUME NEW r \in Requests, req'[r] = req[r] PROVE CoveredBy(r)'
  <2> SUFFICES ASSUME req'[r].at = "locking", NEW s \in req'[r].seen,
                      req'[r].family \in {None, row'[s].family}
               PROVE  s \in req'[r].queue \/ s \in req'[r].picked \/ ~Current(s, clock)'
    BY DEF CoveredBy
  <2>1. s \in Known
    BY <1>1, <1>2 DEF Requested
  <2>2. row'[s].family = row[s].family /\ (Current(s, clock)' => Current(s, clock))
    BY <2>1, Monotone
  <2> QED
    BY <1>1, <1>2, <2>2 DEF Covered
<1>3. ASSUME NEW r \in Requests, NEW q, req' = [req EXCEPT ![r] = q],
             CoveredBy(r)' \/ q.at # "locking"
      PROVE  Covered'
  <2>1. req'[r] = q /\ \A x \in Requests : x # r => req'[x] = req[x]
    BY <1>1, <1>3
  <2>2. CoveredBy(r)'
    BY <1>3, <2>1 DEF CoveredBy
  <2>3. \A x \in Requests : CoveredBy(x)'
    BY <1>2, <2>1, <2>2
  <2> QED
    BY <2>3 DEF Covered, CoveredBy
<1>4. CASE req' = req
  BY <1>2, <1>4 DEF Covered, CoveredBy
<1>5. ASSUME NEW r \in Requests, Ends(r) PROVE Covered'
  <2>1. Idle.at = "idle"
    BY DEF Idle
  <2> QED
    BY <1>3, <1>5, <2>1 DEF Ends
<1>6. ASSUME NEW r \in Requests, LoginBegins(r) PROVE Covered'
  <2>1. [Idle EXCEPT !.at = "login", !.now = clock].at # "locking"
    BY DEF Idle
  <2> QED
    BY <1>3, <1>6, <2>1 DEF LoginBegins
<1>10. ASSUME NEW r \in Requests, NEW s \in Ids, RefreshBegins(r, s) PROVE Covered'
  <2>1. [Idle EXCEPT !.at = "refresh", !.token = s, !.now = clock].at # "locking"
    BY DEF Idle
  <2> QED
    BY <1>3, <1>10, <2>1 DEF RefreshBegins
<1>11. ASSUME NEW r \in Requests, NEW a \in Ids, NEW s \in Ids, LogoutBegins(r, a, s)
       PROVE  Covered'
  <2>1. [Idle EXCEPT !.at = "logout", !.token = s].at # "locking"
    BY DEF Idle
  <2> QED
    BY <1>3, <1>11, <2>1 DEF LogoutBegins
<1>12. ASSUME NEW r \in Requests, NEW a \in Ids, LogoutAllBegins(r, a) PROVE Covered'
  <2>1. [Idle EXCEPT !.at = "logout_all", !.now = clock, !.seen = Known].at # "locking"
    BY DEF Idle
  <2> QED
    BY <1>3, <1>12, <2>1 DEF LogoutAllBegins
<1>7. ASSUME NEW r \in Requests, RevokesFamily(r) PROVE Covered'
  <2> DEFINE f == row[req[r].token].family
             Q == {t \in Known : row[t].family = f /\ ~row[t].revoked}
             q == [Idle EXCEPT !.at = "locking", !.family = f, !.seen = Known, !.queue = Q]
  <2>1. req' = [req EXCEPT ![r] = q] /\ row' = row /\ clock' = clock
    BY <1>7 DEF RevokesFamily
  <2>2. q.seen = Known /\ q.queue = Q /\ q.family = f
    BY DEF Idle
  <2>3. req'[r] = q
    BY <1>1, <2>1
  <2>4. f # None
    <3>1. req[r].token \in Known
      BY <1>1, <1>7 DEF RevokesFamily, Locks, Requested
    <3> QED
      BY <3>1, KnownRows, Assumed DEF Inv, Session, Ids, Assumptions
  <2>5. \A s \in Known : row[s].family = f => s \in Q \/ ~Current(s, clock)
    BY DEF Current
  <2> HIDE DEF q, Q, f
  <2>6. CoveredBy(r)'
    BY <2>1, <2>2, <2>3, <2>4, <2>5 DEF CoveredBy, Current
  <2> QED
    BY <1>3, <2>1, <2>6
<1>8. ASSUME NEW r \in Requests, RevokesAll(r) PROVE Covered'
  <2> DEFINE Q == {t \in Known : Current(t, req[r].now)}
             q == [req[r] EXCEPT !.at = "locking", !.queue = Q]
  <2>1. req' = [req EXCEPT ![r] = q] /\ row' = row /\ clock' = clock
    BY <1>1, <1>8 DEF RevokesAll
  <2>2. q.seen = req[r].seen /\ q.queue = Q
    BY <1>1 DEF Request
  <2>3. req'[r] = q
    BY <1>1, <2>1
  <2>4. req[r].now \in Nat /\ req[r].now <= clock /\ req[r].seen \subseteq Known
    BY <1>1 DEF Request, Time, Requested
  <2>5. \A s \in Known : s \in Q \/ ~Current(s, clock)
    BY <2>4, CurrentEnds
  <2> HIDE DEF q, Q
  <2>6. CoveredBy(r)'
    BY <2>1, <2>2, <2>3, <2>4, <2>5 DEF CoveredBy, Current
  <2> QED
    BY <1>3, <2>1, <2>6
<1>9. ASSUME NEW r \in Requests, NEW t \in Ids, LocksRow(r, t) PROVE Covered'
  <2> DEFINE Q == req[r].queue \ {t}
             P == IF Qualifies(r, t) THEN req[r].picked \cup {t} ELSE req[r].picked
             q == [req[r] EXCEPT !.queue = Q, !.picked = P]
  <2>1. req' = [req EXCEPT ![r] = q] /\ row' = row /\ clock' = clock
    BY <1>1, <1>9 DEF LocksRow
  <2>2. q.seen = req[r].seen /\ q.queue = Q /\ q.picked = P /\ q.family = req[r].family
    BY <1>1 DEF Request
  <2>3. req'[r] = q
    BY <1>1, <2>1
  <2>4. req[r].now \in Nat /\ req[r].now <= clock /\ t \in Known
    BY <1>1, <1>9 DEF Request, Time, Requested, LocksRow, Wanted
  <2>5. Qualifies(r, t) \/ ~Current(t, clock)
    BY <2>4, CurrentEnds DEF Qualifies, Current
  <2>6. \A s : s \in req[r].queue \/ s \in req[r].picked =>
                   s \in Q \/ s \in P \/ ~Current(s, clock)
    BY <2>5
  <2>7. \A s \in req[r].seen : req[r].family \in {None, row[s].family} =>
            s \in req[r].queue \/ s \in req[r].picked \/ ~Current(s, clock)
    BY <1>1, <1>9 DEF Covered, LocksRow
  <2> HIDE DEF q, Q, P
  <2>8. CoveredBy(r)'
    BY <2>1, <2>2, <2>3, <2>6, <2>7 DEF CoveredBy, Current
  <2> QED
    BY <1>3, <2>1, <2>8
<1> QED
  BY <1>4, <1>5, <1>6, <1>7, <1>8, <1>9, <1>10, <1>11, <1>12
     DEF Next, Step, vars, LoginCommits, Rotates, RefusesRefresh, LogsOut, Revokes,
         RevocationFails, Fails, Tick, Disable

\* The invariant holds in every reachable state.
LEMMA Invariance == Spec => []Inv
<1>1. Init => Inv
  BY InvInit
<1>2. Inv /\ [Next]_vars => Inv'
  BY TypeNext, FamiliesNext, RequestedNext, CoveredNext DEF Inv
<1> QED
  BY <1>1, <1>2, PTL DEF Spec

------------------------------------------------------------------------------
\* Every variable keeps its type.
THEOREM TypeCorrect == Spec => []TypeOK
<1>1. Inv => TypeOK
  BY DEF Inv
<1> QED
  BY <1>1, Invariance, PTL

\* A chain of rotations never forks: a family has at most one session that can be used.
THEOREM ChainsDoNotFork == Spec => []OneCurrentPerFamily
<1>1. Inv => OneCurrentPerFamily
  BY DEF Inv, Families, OneCurrentPerFamily, Current
<1> QED
  BY <1>1, Invariance, PTL

\* A revoked session stays revoked and is never replaced.
THEOREM RevocationIsFinal == Spec => RevokedForGood
<1>1. Inv /\ [Next]_vars =>
          [\A s \in Known : row[s].revoked =>
               row'[s].revoked /\ row'[s].replacedBy = row[s].replacedBy]_vars
  BY Monotone
<1> QED
  BY <1>1, Invariance, PTL DEF Spec, RevokedForGood

\* What had been committed when a revocation began cannot be used when it is committed.
THEOREM RevocationCovers == Spec => RevocationCoversSeen
<1>1. ASSUME Inv, [Next]_vars, NEW r \in Requests, Revokes(r), NEW s \in req[r].seen,
             req[r].family \in {None, row[s].family}
      PROVE  ~Current(s, clock)'
  <2>1. s \in Known /\ req[r].picked \subseteq Known
    BY <1>1 DEF Inv, Requested
  <2>2. s \in req[r].picked \/ ~Current(s, clock)
    BY <1>1 DEF Inv, Covered, Revokes
  <2>3. CASE s \in req[r].picked
    <3>1. s \in Ids /\ row[s] \in Session
      BY <1>1, <2>1, KnownRows DEF Inv
    <3>2. row'[s] = [row[s] EXCEPT !.revoked = TRUE]
      BY <1>1, <2>3, <3>1 DEF Revokes
    <3>3. row'[s].revoked
      BY <3>1, <3>2 DEF Session
    <3> QED
      BY <3>3 DEF Current
  <2>4. CASE ~Current(s, clock)
    BY <1>1, <2>1, <2>4, Monotone
  <2> QED
    BY <2>2, <2>3, <2>4
<1>2. Inv /\ [Next]_vars =>
          [\A r \in Requests : Revokes(r) =>
               \A s \in req[r].seen :
                   req[r].family \in {None, row[s].family} => ~Current(s, clock)']_vars
  BY <1>1
<1> QED
  BY <1>2, Invariance, PTL DEF Spec, RevocationCoversSeen
==============================================================================
