------------------------- MODULE AuthSessionsProofs -------------------------
(***************************************************************************)
(* The safety properties of AuthSessions, for every set of users, requests *)
(* and identifiers and every bound.                                        *)
(*                                                                         *)
(* No property is inductive by itself: each needs to know what the         *)
(* transaction of a request holds at each of its calls (WritesInOrder,     *)
(* Committed), whom a request serves (Admitted) and what Redis still       *)
(* remembers (SpentBlacklisted).  IInv is their conjunction; one lemma per *)
(* conjunct shows that every action keeps it.                              *)
(***************************************************************************)
EXTENDS AuthSessions, TLAPS

\* Calls of a request that is going to create a session.
Minting == {"load", "blacklist", "flush", "register"}

\* Who is served: a verified user and a fresh identifier for a new session, a
\* token where one is about to be revoked, a user where a logout goes on.
Admitted ==
  \A r \in Requests :
    /\ pc[r] \in {"blacklist", "load", "revoke", "deactivate"} => req[r].token \in Token
    /\ pc[r] \in Minting => /\ req[r].user \in Users
                           /\ req[r].id \in Ids
                           /\ accounts[req[r].user].phone_verified
    /\ pc[r] \in {"user", "sweep", "forget"} => req[r].user \in Users

\* What the transaction of a request holds, by the point the request is at.
InOrder(r) ==
  /\ pc[r] = "idle" => pend[r] = NoWrites
  /\ pc[r] \notin {"register", "commit", "raise", "reply"} =>
       pend[r].rows = {} /\ Matches({}, pend[r].audit)
  /\ pc[r] = "register" =>
       pend[r].rows = {<<req[r].user, req[r].id>>} /\ Matches({}, pend[r].audit)
  /\ pc[r] \in {"commit", "reply"} => Matches(pend[r].rows, pend[r].audit)
  /\ pc[r] \in {"user", "sweep", "revoke", "deactivate"} => pend[r].inactive = {}
  /\ \A s \in pend[r].rows : accounts[s[1]].phone_verified

WritesInOrder == \A r \in Requests : InOrder(r)

\* After its commit a request finds all it wrote in the database.
Committed ==
  \A r \in Requests : pc[r] = "reply" =>
    /\ pend[r].rows \subseteq sessions
    /\ pend[r].inactive \subseteq inactive
    /\ pend[r].audit \subseteq audit

\* How far a forced logout has come with the sessions it must deactivate.
LogoutProgress ==
  \A r \in Requests : \A s \in req[r].before :
    req[r].op = "logout" /\ req[r].all /\ s[1] = req[r].user =>
      /\ pc[r] \in {"user", "sweep", "forget", "commit", "raise", "reply"}
      /\ s \in sessions
      /\ pc[r] \in {"forget", "commit", "reply"} => s[2] \in inactive \cup pend[r].inactive

SpentBlacklisted == \A t \in spent : life[t] = "valid" => t \in blacklist

IInv ==
  /\ TypeOK /\ Admitted /\ WritesInOrder /\ Committed /\ LogoutProgress
  /\ DeliveredBacked /\ AuditMatchesSessions /\ SessionsOfVerifiedPhones
  /\ SpentBlacklisted

-----------------------------------------------------------------------------

\* An audit row of the enumerated actions keeps a transaction well typed.
LEMMA LogAuditTyped ==
  ASSUME TypeOK, NEW r \in Requests, NEW a \in AuditAction,
         NEW u \in Users \cup {None}, NEW i \in Ids \cup {None}, LogAudit(r, a, u, i)
  PROVE  pend' \in [Requests -> Writes]
<1>1. <<a, u, i>> \in AuditRow
  BY DEF AuditRow
<1>2. pend[r] \in Writes
  BY DEF TypeOK
<1>3. [pend[r] EXCEPT !.audit = @ \cup {<<a, u, i>>}] \in Writes
  BY <1>1, <1>2 DEF Writes
<1> QED
  BY <1>3 DEF LogAudit, TypeOK

\* A request begins with well-typed locals.
LEMMA BeginTyped ==
  ASSUME TypeOK, NEW r \in Requests, NEW locals \in Locals, NEW call \in Calls,
         Begin(r, locals, call)
  PROVE  req' \in [Requests -> Locals] /\ pc' \in [Requests -> Calls]
BY DEF TypeOK, Begin, Goto

\* A slot at rest is well typed.
LEMMA IdleTyped == Idle \in Locals /\ NoWrites \in Writes
BY DEF Idle, Locals, NoWrites, Writes

\* The locals of a login are well typed.
LEMMA LoginTyped == ASSUME NEW u \in Users \cup {None} PROVE Login(u) \in Locals
BY DEF Login, Idle, Locals

\* The locals of a refresh are well typed.
LEMMA RefreshTyped ==
  ASSUME NEW s \in Session, NEW t \in Token PROVE Refresh(s, t) \in Locals
<1>1. s[1] \in Users
  BY DEF Session
<1> QED
  BY <1>1 DEF Refresh, Idle, Locals

\* The locals of a logout are well typed.
LEMMA LogoutTyped ==
  ASSUME TypeOK, NEW s \in Session, NEW t \in Token \cup {None}, NEW all \in
    BOOLEAN
  PROVE Logout(s, t, all) \in Locals
<1>1. s[1] \in Users
  BY DEF Session
<1>2. sessions \in SUBSET Session
  BY DEF TypeOK
<1> QED
  BY <1>1, <1>2 DEF Logout, Idle, Locals

\* A request that does not move keeps its writes in order.
LEMMA InOrderKept ==
  ASSUME NEW q \in Requests, InOrder(q), pc'[q] = pc[q], req'[q] = req[q],
         pend'[q] = pend[q], UNCHANGED accounts
  PROVE  InOrder(q)'
BY DEF InOrder, Matches

-----------------------------------------------------------------------------
\* Every action keeps the types.
LEMMA TypeStep == IInv /\ [Next]_vars => TypeOK'
<1> SUFFICES ASSUME IInv, [Next]_vars PROVE TypeOK'
  OBVIOUS
<1> USE DEF IInv
<1>1. ASSUME NEW r \in Requests, LoginUnknownPhone(r) PROVE TypeOK'
  <2>1. Login(None) \in Locals
    BY LoginTyped
  <2>2. req' \in [Requests -> Locals] /\ pc' \in [Requests -> Calls]
    BY <1>1, <2>1, BeginTyped DEF LoginUnknownPhone, Calls
  <2>3. pend' \in [Requests -> Writes]
    BY <1>1, LogAuditTyped DEF LoginUnknownPhone, AuditAction
  <2> QED
    BY <1>1, <2>2, <2>3 DEF LoginUnknownPhone, TypeOK, database, redis, clients
<1>2. ASSUME NEW r \in Requests, NEW u \in Users, LoginRefused(r, u)
      PROVE TypeOK'
  <2>1. Login(u) \in Locals
    BY LoginTyped
  <2>2. req' \in [Requests -> Locals] /\ pc' \in [Requests -> Calls]
    BY <1>2, <2>1, BeginTyped DEF LoginRefused, Calls
  <2> QED
    BY <1>2, <2>2 DEF LoginRefused, TypeOK, database, redis, clients
<1>3. ASSUME NEW r \in Requests, NEW u \in Users, LoginWrongPassword(r, u)
      PROVE TypeOK'
  <2> DEFINE n == accounts[u].failed + 1
             actions == {"LOGIN_FAILED"} \cup
                        IF n >= PASSWORD_MAX_ATTEMPTS THEN {"ACCOUNT_LOCKED"} ELSE {}
             log == actions \X {u} \X {None}
             w == [pend[r] EXCEPT !.failed = {n}, !.audit = log]
  <2>1. n \in Nat
    BY DEF TypeOK, Account
  <2>2. log \subseteq AuditRow
    BY DEF AuditRow, AuditAction
  <2>3. w \in Writes
    <3>1. pend[r] \in Writes
      BY DEF TypeOK
    <3>2. {n} \in SUBSET Nat /\ log \in SUBSET AuditRow
      BY <2>1, <2>2
    <3> HIDE DEF n, log
    <3> QED
      BY <3>1, <3>2 DEF Writes
  <2>4. pend' = [pend EXCEPT ![r] = w]
    BY <1>3 DEF LoginWrongPassword
  <2>5. pend' \in [Requests -> Writes]
    <3> HIDE DEF w
    <3> QED
      BY <2>3, <2>4 DEF TypeOK
  <2>6. Login(u) \in Locals
    BY LoginTyped
  <2>7. req' \in [Requests -> Locals] /\ pc' \in [Requests -> Calls]
    BY <1>3, <2>6, BeginTyped DEF LoginWrongPassword, Calls
  <2> QED
    BY <1>3, <2>5, <2>7 DEF LoginWrongPassword, TypeOK, database, redis, clients
<1>4. ASSUME NEW r \in Requests, NEW u \in Users, LoginGranted(r, u)
      PROVE TypeOK'
  <2>1. PICK i \in Ids : Draw(i) /\ Begin(r, [Login(u) EXCEPT !.id = i], "flush")
    BY <1>4 DEF LoginGranted
  <2>2. [Login(u) EXCEPT !.id = i] \in Locals
    BY LoginTyped DEF Locals
  <2>3. req' \in [Requests -> Locals] /\ pc' \in [Requests -> Calls]
    BY <2>1, <2>2, BeginTyped DEF Calls
  <2> QED
    BY <1>4, <2>1, <2>3 DEF LoginGranted, Draw, TypeOK, database, redis, clients
<1>5. ASSUME NEW r \in Requests, NEW s \in held, NEW t \in {"access",
  "refresh"} \X {s[2]}, RefreshRefused(r, s, t)
      PROVE TypeOK'
  <2>1. s \in Session
    BY DEF TypeOK
  <2>2. t \in Token
    BY <2>1 DEF Session, Token
  <2>3. Refresh(s, t) \in Locals
    BY <2>1, <2>2, RefreshTyped
  <2>4. req' \in [Requests -> Locals] /\ pc' \in [Requests -> Calls]
    BY <1>5, <2>3, BeginTyped DEF RefreshRefused, Calls
  <2> QED
    BY <1>5, <2>4 DEF RefreshRefused, TypeOK, database, redis, clients
<1>6. ASSUME NEW r \in Requests, NEW s \in held, NEW t \in {"access",
  "refresh"} \X {s[2]}, RefreshAdmitted(r, s, t)
      PROVE TypeOK'
  <2>1. s \in Session
    BY DEF TypeOK
  <2>2. t \in Token
    BY <2>1 DEF Session, Token
  <2>3. PICK i \in Ids : Draw(i) /\ Begin(r, [Refresh(s, t) EXCEPT !.id = i], "load")
    BY <1>6 DEF RefreshAdmitted
  <2>4. [Refresh(s, t) EXCEPT !.id = i] \in Locals
    BY <2>1, <2>2, RefreshTyped DEF Locals
  <2>5. req' \in [Requests -> Locals] /\ pc' \in [Requests -> Calls]
    BY <2>3, <2>4, BeginTyped DEF Calls
  <2> QED
    BY <1>6, <2>3, <2>5 DEF RefreshAdmitted, Draw, TypeOK, database, redis,
      clients
<1>7. ASSUME NEW r \in Requests, NEW s \in held, LogoutUnauthorized(r, s)
      PROVE TypeOK'
  <2>1. Logout(s, None, FALSE) \in Locals
    BY LogoutTyped DEF TypeOK
  <2>2. req' \in [Requests -> Locals] /\ pc' \in [Requests -> Calls]
    BY <1>7, <2>1, BeginTyped DEF LogoutUnauthorized, Calls
  <2> QED
    BY <1>7, <2>2 DEF LogoutUnauthorized, TypeOK, database, redis, clients
<1>8. ASSUME NEW r \in Requests, NEW s \in held, NEW t \in HeldTokens \cup
  {None}, NEW all \in BOOLEAN, LogoutBegin(r, s, t, all)
      PROVE TypeOK'
  <2>1. Logout(s, t, all) \in Locals
    BY LogoutTyped DEF TypeOK, HeldTokens
  <2>2. req' \in [Requests -> Locals] /\ pc' \in [Requests -> Calls]
    BY <1>8, <2>1, BeginTyped DEF LogoutBegin, Calls
  <2> QED
    BY <1>8, <2>2 DEF LogoutBegin, TypeOK, database, redis, clients
<1>9. ASSUME NEW r \in Requests, RefreshLoad(r) PROVE TypeOK'
  BY <1>9 DEF RefreshLoad, Continue, Goto, TypeOK, Calls, database, redis,
    clients
<1>10. ASSUME NEW r \in Requests, RefreshBlacklist(r) PROVE TypeOK'
  <2>1. req[r].token \in Token /\ req[r].user \in Users
    BY <1>10 DEF RefreshBlacklist, Continue, Admitted, Minting
  <2>2. pend' \in [Requests -> Writes]
    BY <1>10, <2>1, LogAuditTyped DEF RefreshBlacklist, AuditAction
  <2> QED
    BY <1>10, <2>1, <2>2 DEF RefreshBlacklist, Continue, Goto, Blacklist,
      TypeOK,
      Calls, database, redis, clients
<1>11. ASSUME NEW r \in Requests, RefreshTooLate(r) PROVE TypeOK'
  BY <1>11 DEF RefreshTooLate, Continue, Goto, TypeOK, Calls, database, redis,
    clients
<1>12. ASSUME NEW r \in Requests, CreateSessionFlush(r) PROVE TypeOK'
  <2> DEFINE row == <<req[r].user, req[r].id>>
             w == [pend[r] EXCEPT !.rows = {row}, !.failed = {0}]
  <2>1. row \in Session
    BY <1>12 DEF CreateSessionFlush, Continue, Admitted, Minting, Session
  <2>2. w \in Writes
    <3>1. pend[r] \in Writes
      BY DEF TypeOK
    <3>2. {row} \in SUBSET Session /\ {0} \in SUBSET Nat
      BY <2>1
    <3> HIDE DEF row
    <3> QED
      BY <3>1, <3>2 DEF Writes
  <2>3. pend' = [pend EXCEPT ![r] = w]
    BY <1>12 DEF CreateSessionFlush
  <2>4. pend' \in [Requests -> Writes]
    <3> HIDE DEF w
    <3> QED
      BY <2>2, <2>3 DEF TypeOK
  <2> QED
    BY <1>12, <2>4 DEF CreateSessionFlush, Continue, Goto, TypeOK, Calls,
      database,
      redis, clients
<1>13. ASSUME NEW r \in Requests, CreateSessionRegister(r) PROVE TypeOK'
  <2>1. req[r].user \in Users /\ req[r].id \in Ids
    BY <1>13 DEF CreateSessionRegister, Continue, Admitted, Minting
  <2>2. pend' \in [Requests -> Writes]
    BY <1>13, <2>1, LogAuditTyped DEF CreateSessionRegister, AuditAction
  <2> QED
    BY <1>13, <2>1, <2>2 DEF CreateSessionRegister, Continue, Goto, TypeOK,
      Calls,
      database, redis, clients
<1>14. ASSUME NEW r \in Requests, LogoutSuspended(r) PROVE TypeOK'
  BY <1>14 DEF LogoutSuspended, Continue, Goto, TypeOK, Calls, database, redis,
    clients
<1>15. ASSUME NEW r \in Requests, LogoutUserLoaded(r) PROVE TypeOK'
  <2>1. req[r].user \in Users
    BY <1>15 DEF LogoutUserLoaded, Admitted
  <2>2. pend' \in [Requests -> Writes]
    <3>1. CASE UNCHANGED pend
      BY <3>1 DEF TypeOK
    <3>2. CASE LogoutAudited(r)
      BY <2>1, <3>2, LogAuditTyped DEF LogoutAudited, AuditAction
    <3> QED
      BY <1>15, <3>1, <3>2 DEF LogoutUserLoaded
  <2> QED
    BY <1>15, <2>2 DEF LogoutUserLoaded, Continue, Goto, TypeOK, Calls,
      database,
      redis, clients
<1>16. ASSUME NEW r \in Requests, LogoutSweep(r) PROVE TypeOK'
  <2> DEFINE ids == {i \in Ids \ inactive : <<req[r].user, i>> \in sessions}
             w == [pend[r] EXCEPT !.inactive = ids]
  <2>1. w \in Writes
    <3>1. pend[r] \in Writes
      BY DEF TypeOK
    <3> QED
      BY <3>1 DEF Writes
  <2>2. pend' = [pend EXCEPT ![r] = w]
    BY <1>16 DEF LogoutSweep
  <2>3. pend' \in [Requests -> Writes]
    <3> HIDE DEF w
    <3> QED
      BY <2>1, <2>2 DEF TypeOK
  <2> QED
    BY <1>16, <2>3 DEF LogoutSweep, Continue, Goto, TypeOK, Calls, database,
      redis,
      clients
<1>17. ASSUME NEW r \in Requests, LogoutForget(r) PROVE TypeOK'
  <2>1. req[r].user \in Users
    BY <1>17 DEF LogoutForget, Continue, Admitted
  <2>2. pend' \in [Requests -> Writes]
    BY <1>17, <2>1, LogAuditTyped DEF LogoutForget, LogoutAudited, AuditAction
  <2> QED
    BY <1>17, <2>2 DEF LogoutForget, Continue, Goto, TypeOK, Calls, database,
      redis,
      clients
<1>18. ASSUME NEW r \in Requests, LogoutRevoke(r) PROVE TypeOK'
  <2>1. req[r].token \in Token
    BY <1>18 DEF LogoutRevoke, Continue, Admitted
  <2> QED
    BY <1>18, <2>1 DEF LogoutRevoke, Continue, Goto, Blacklist, TypeOK, Calls,
      database,
      redis, clients
<1>19. ASSUME NEW r \in Requests, LogoutRevokeSwallowed(r) PROVE TypeOK'
  <2>1. req[r].user \in Users \cup {None}
    BY DEF TypeOK, Locals
  <2>2. pend' \in [Requests -> Writes]
    BY <1>19, <2>1, LogAuditTyped DEF LogoutRevokeSwallowed, LogoutAudited,
      AuditAction
  <2> QED
    BY <1>19, <2>2 DEF LogoutRevokeSwallowed, Continue, Goto, TypeOK, Calls,
      database,
      redis, clients
<1>20. ASSUME NEW r \in Requests, LogoutDeactivate(r) PROVE TypeOK'
  <2> DEFINE ids == {i \in Ids : /\ req[r].token = <<"refresh", i>>
                               /\ \E u \in Users : <<u, i>> \in sessions}
             row == <<"LOGOUT", req[r].user, None>>
             w == [pend[r] EXCEPT !.inactive = ids, !.audit = @ \cup {row}]
  <2>1. row \in AuditRow
    BY DEF TypeOK, Locals, AuditRow, AuditAction
  <2>2. w \in Writes
    <3>1. pend[r] \in Writes /\ ids \subseteq Ids
      BY DEF TypeOK
    <3> HIDE DEF row, ids
    <3> QED
      BY <2>1, <3>1 DEF Writes
  <2>3. pend' = [pend EXCEPT ![r] = w]
    BY <1>20 DEF LogoutDeactivate
  <2>4. pend' \in [Requests -> Writes]
    <3> HIDE DEF w
    <3> QED
      BY <2>2, <2>3 DEF TypeOK
  <2> QED
    BY <1>20, <2>4 DEF LogoutDeactivate, Continue, Goto, TypeOK, Calls,
      database,
      redis, clients
<1>21. ASSUME NEW r \in Requests, Commit(r) PROVE TypeOK'
  <2>1. pend[r] \in Writes
    BY DEF TypeOK
  <2>2. ASSUME NEW u \in Users PROVE accounts'[u] \in Account
    <3>1. CASE u = req[r].user /\ pend[r].failed # {}
      <4>1. PICK n \in pend[r].failed : n = CHOOSE k \in pend[r].failed : TRUE
        BY <3>1
      <4>2. n \in Nat /\ accounts[u] \in Account
        BY <2>1 DEF Writes, TypeOK
      <4>3. accounts'[u] = [accounts[u] EXCEPT !.failed = n]
        BY <1>21, <3>1, <4>1 DEF Commit
      <4> QED
        BY <4>2, <4>3 DEF Account
    <3>2. CASE ~(u = req[r].user /\ pend[r].failed # {})
      BY <1>21, <3>2 DEF Commit, TypeOK
    <3> QED
      BY <3>1, <3>2
  <2>3. accounts' \in [Users -> Account]
    <3>1. accounts' = [u \in Users |-> accounts'[u]]
      BY <1>21 DEF Commit
    <3> QED
      BY <2>2, <3>1
  <2> QED
    BY <1>21, <2>1, <2>3 DEF Commit, Continue, Goto, TypeOK, Writes, Calls,
      redis, clients
<1>22. ASSUME NEW r \in Requests, Rollback(r) PROVE TypeOK'
  <2>1. pend[r] \in Writes
    BY DEF TypeOK
  <2>2. req' \in [Requests -> Locals] /\ pend' \in [Requests -> Writes]
    BY <1>22, IdleTyped DEF Rollback, End, TypeOK
  <2> QED
    BY <1>22, <2>1, <2>2 DEF Rollback, End, Goto, TypeOK, Writes, Calls,
      database, redis, clients
<1>23. ASSUME NEW r \in Requests, Reply(r) PROVE TypeOK'
  <2>1. pend[r] \in Writes
    BY DEF TypeOK
  <2>2. req' \in [Requests -> Locals] /\ pend' \in [Requests -> Writes]
    BY <1>23, IdleTyped DEF Reply, End, TypeOK
  <2> QED
    BY <1>23, <2>1, <2>2 DEF Reply, End, Goto, TypeOK, Writes, Calls, database,
      redis, clients
<1>24. ASSUME NEW r \in Requests, CallFails(r) PROVE TypeOK'
  BY <1>24 DEF CallFails, Fails, Goto, TypeOK, Calls, database, clients
<1>25. ASSUME NEW r \in Requests, RevokeFails(r) PROVE TypeOK'
  <2>1. req[r].token \in Token /\ req[r].user \in Users \cup {None}
    BY <1>25 DEF RevokeFails, Continue, Admitted, TypeOK, Locals
  <2>2. pend' \in [Requests -> Writes]
    BY <1>25, <2>1, LogAuditTyped DEF RevokeFails, LogoutAudited, AuditAction
  <2>3. blacklist' \subseteq Token
    BY <1>25, <2>1 DEF RevokeFails, TypeOK
  <2>4. budget' \in [ages : Nat, faults : Nat]
    BY <1>25 DEF RevokeFails, Fails, TypeOK
  <2> QED
    BY <1>25, <2>2, <2>3, <2>4 DEF RevokeFails, Fails, Continue, Goto, TypeOK,
      Calls,
      database, clients
<1>26. ASSUME NEW r \in Requests, AnswerLost(r) PROVE TypeOK'
  <2>1. pend[r] \in Writes
    BY DEF TypeOK
  <2>2. req' \in [Requests -> Locals] /\ pend' \in [Requests -> Writes]
    BY <1>26, IdleTyped DEF AnswerLost, End, TypeOK
  <2> QED
    BY <1>26, <2>1, <2>2 DEF AnswerLost, Fails, End, Goto, TypeOK, Writes,
      Calls, database, clients
<1>27. ASSUME NEW t \in Token, Age(t) PROVE TypeOK'
  BY <1>27 DEF Age, TypeOK, database, redis, clients
<1>28. ASSUME NEW t \in Token, BlacklistLapses(t) PROVE TypeOK'
  BY <1>28 DEF BlacklistLapses, TypeOK, database, clients
<1>29. ASSUME NEW u \in Users, PhoneVerified(u) PROVE TypeOK'
  <2>1. [accounts[u] EXCEPT !.phone_verified = TRUE, !.status = "ACTIVE"] \in Account
    BY DEF TypeOK, Account, Statuses
  <2> QED
    BY <1>29, <2>1 DEF PhoneVerified, WriteStatus, TypeOK, redis, clients
<1>30. ASSUME NEW u \in Users, AdminSetStatus(u) PROVE TypeOK'
  <2>1. PICK s \in AdminStatuses : WriteStatus(u, [accounts[u] EXCEPT !.status = s])
    BY <1>30 DEF AdminSetStatus
  <2>2. [accounts[u] EXCEPT !.status = s] \in Account
    BY AdminAssumption DEF TypeOK, Account, Statuses
  <2> QED
    BY <2>1, <2>2 DEF WriteStatus, TypeOK, redis, clients
<1>31. CASE UNCHANGED vars
  BY <1>31 DEF vars, TypeOK
<1> QED
  BY <1>1, <1>2, <1>3, <1>4, <1>5, <1>6, <1>7, <1>8, <1>9, <1>10, <1>11,
       <1>12, <1>13, <1>14, <1>15, <1>16, <1>17, <1>18, <1>19, <1>20, <1>21,
       <1>22, <1>23, <1>24, <1>25, <1>26, <1>27, <1>28, <1>29, <1>30, <1>31
       DEF Next, LoginStep, RefreshStep, LogoutStep, Handle, Environment

\* A request is admitted with a verified user and a fresh identifier, and a
\* phone, once verified, stays so.
LEMMA AdmittedStep == IInv /\ [Next]_vars => Admitted'
<1> SUFFICES ASSUME IInv, [Next]_vars PROVE Admitted'
  OBVIOUS
<1> USE DEF IInv, TypeOK, Admitted, Minting, Locals, Account,
       Begin, Continue, Goto, End, Fails, WriteStatus, Login, Refresh, Logout,
       Draw, Idle, LogAudit, LogoutAudited, Blacklist, database, redis, clients
<1>1. ASSUME NEW r \in Requests, LoginUnknownPhone(r) PROVE Admitted'
  BY <1>1 DEF LoginUnknownPhone
<1>2. ASSUME NEW r \in Requests, NEW u \in Users, LoginRefused(r, u)
      PROVE Admitted'
  BY <1>2 DEF LoginRefused
<1>3. ASSUME NEW r \in Requests, NEW u \in Users, LoginWrongPassword(r, u)
      PROVE Admitted'
  BY <1>3 DEF LoginWrongPassword
<1>4. ASSUME NEW r \in Requests, NEW u \in Users, LoginGranted(r, u)
      PROVE Admitted'
  <2>1. PICK i \in Ids : Draw(i) /\ Begin(r, [Login(u) EXCEPT !.id = i], "flush")
    BY <1>4 DEF LoginGranted
  <2>2. req'[r].user = u /\ req'[r].id = i /\ pc'[r] = "flush"
    BY <2>1 DEF Begin, Goto, Login, Idle
  <2>3. accounts[u].phone_verified
    BY <1>4 DEF LoginGranted, LoginRefusedStatus
  <2>4. \A q \in Requests \ {r} : req'[q] = req[q] /\ pc'[q] = pc[q]
    BY <2>1 DEF Begin, Goto
  <2>5. UNCHANGED accounts
    BY <1>4 DEF LoginGranted, database
  <2> QED
    BY <2>2, <2>3, <2>4, <2>5
<1>5. ASSUME NEW r \in Requests, NEW s \in held, NEW t \in {"access",
  "refresh"} \X {s[2]}, RefreshRefused(r, s, t)
      PROVE Admitted'
  BY <1>5 DEF RefreshRefused
<1>6. ASSUME NEW r \in Requests, NEW s \in held, NEW t \in {"access",
  "refresh"} \X {s[2]}, RefreshAdmitted(r, s, t)
      PROVE Admitted'
  <2>1. PICK i \in Ids : Draw(i) /\ Begin(r, [Refresh(s, t) EXCEPT !.id = i], "load")
    BY <1>6 DEF RefreshAdmitted
  <2>2. /\ req'[r].user = s[1] /\ req'[r].id = i /\ req'[r].token = t
        /\ pc'[r] = "load"
    BY <2>1 DEF Begin, Goto, Refresh, Idle
  <2>3. t \in Token
    BY DEF Session, Token
  <2>4. s[1] \in Users /\ accounts[s[1]].phone_verified
    BY DEF Session, DeliveredBacked, SessionsOfVerifiedPhones
  <2>5. \A q \in Requests \ {r} : req'[q] = req[q] /\ pc'[q] = pc[q]
    BY <2>1 DEF Begin, Goto
  <2>6. UNCHANGED accounts
    BY <1>6 DEF RefreshAdmitted, database
  <2> QED
    BY <2>2, <2>3, <2>4, <2>5, <2>6
<1>7. ASSUME NEW r \in Requests, NEW s \in held, LogoutUnauthorized(r, s)
      PROVE Admitted'
  BY <1>7 DEF LogoutUnauthorized
<1>8. ASSUME NEW r \in Requests, NEW s \in held, NEW t \in HeldTokens \cup
  {None}, NEW all \in BOOLEAN, LogoutBegin(r, s, t, all)
      PROVE Admitted'
  <2>1. req'[r].user = s[1] /\ pc'[r] = "user"
    BY <1>8 DEF LogoutBegin, Begin, Goto, Logout, Idle
  <2>2. s[1] \in Users
    BY DEF Session
  <2>3. \A q \in Requests \ {r} : req'[q] = req[q] /\ pc'[q] = pc[q]
    BY <1>8 DEF LogoutBegin, Begin, Goto
  <2>4. UNCHANGED accounts
    BY <1>8 DEF LogoutBegin, database
  <2> QED
    BY <2>1, <2>2, <2>3, <2>4
<1>9. ASSUME NEW r \in Requests, RefreshLoad(r) PROVE Admitted'
  BY <1>9 DEF RefreshLoad
<1>10. ASSUME NEW r \in Requests, RefreshBlacklist(r) PROVE Admitted'
  BY <1>10 DEF RefreshBlacklist
<1>11. ASSUME NEW r \in Requests, RefreshTooLate(r) PROVE Admitted'
  BY <1>11 DEF RefreshTooLate
<1>12. ASSUME NEW r \in Requests, CreateSessionFlush(r) PROVE Admitted'
  BY <1>12 DEF CreateSessionFlush
<1>13. ASSUME NEW r \in Requests, CreateSessionRegister(r) PROVE Admitted'
  BY <1>13 DEF CreateSessionRegister
<1>14. ASSUME NEW r \in Requests, LogoutSuspended(r) PROVE Admitted'
  BY <1>14 DEF LogoutSuspended
<1>15. ASSUME NEW r \in Requests, LogoutUserLoaded(r) PROVE Admitted'
  BY <1>15 DEF LogoutUserLoaded
<1>16. ASSUME NEW r \in Requests, LogoutSweep(r) PROVE Admitted'
  BY <1>16 DEF LogoutSweep
<1>17. ASSUME NEW r \in Requests, LogoutForget(r) PROVE Admitted'
  BY <1>17 DEF LogoutForget
<1>18. ASSUME NEW r \in Requests, LogoutRevoke(r) PROVE Admitted'
  BY <1>18 DEF LogoutRevoke
<1>19. ASSUME NEW r \in Requests, LogoutRevokeSwallowed(r) PROVE Admitted'
  BY <1>19 DEF LogoutRevokeSwallowed
<1>20. ASSUME NEW r \in Requests, LogoutDeactivate(r) PROVE Admitted'
  BY <1>20 DEF LogoutDeactivate
<1>21. ASSUME NEW r \in Requests, Commit(r) PROVE Admitted'
  BY <1>21 DEF Commit
<1>22. ASSUME NEW r \in Requests, Rollback(r) PROVE Admitted'
  BY <1>22 DEF Rollback
<1>23. ASSUME NEW r \in Requests, Reply(r) PROVE Admitted'
  BY <1>23 DEF Reply
<1>24. ASSUME NEW r \in Requests, CallFails(r) PROVE Admitted'
  BY <1>24 DEF CallFails
<1>25. ASSUME NEW r \in Requests, RevokeFails(r) PROVE Admitted'
  BY <1>25 DEF RevokeFails
<1>26. ASSUME NEW r \in Requests, AnswerLost(r) PROVE Admitted'
  BY <1>26 DEF AnswerLost
<1>27. ASSUME NEW t \in Token, Age(t) PROVE Admitted'
  BY <1>27 DEF Age
<1>28. ASSUME NEW t \in Token, BlacklistLapses(t) PROVE Admitted'
  BY <1>28 DEF BlacklistLapses
<1>29. ASSUME NEW u \in Users, PhoneVerified(u) PROVE Admitted'
  BY <1>29 DEF PhoneVerified
<1>30. ASSUME NEW u \in Users, AdminSetStatus(u) PROVE Admitted'
  BY <1>30 DEF AdminSetStatus
<1>31. CASE UNCHANGED vars
  BY <1>31 DEF vars
<1> QED
  BY <1>1, <1>2, <1>3, <1>4, <1>5, <1>6, <1>7, <1>8, <1>9, <1>10, <1>11,
       <1>12, <1>13, <1>14, <1>15, <1>16, <1>17, <1>18, <1>19, <1>20, <1>21,
       <1>22, <1>23, <1>24, <1>25, <1>26, <1>27, <1>28, <1>29, <1>30, <1>31
       DEF Next, LoginStep, RefreshStep, LogoutStep, Handle, Environment

\* Every action leaves the transaction of its request as its next call expects it.
LEMMA WritesStep == IInv /\ [Next]_vars => WritesInOrder'
<1> SUFFICES ASSUME IInv, [Next]_vars PROVE WritesInOrder'
  OBVIOUS
<1> USE DEF IInv, TypeOK, Admitted, Minting, WritesInOrder, InOrder, Matches,
  Writes, NoWrites, Locals,
       Begin, Continue, Goto, End, Fails, WriteStatus, Login, Refresh, Logout,
       Draw, Idle, LogAudit, LogoutAudited, Blacklist, database, redis, clients
<1>1. ASSUME NEW r \in Requests, LoginUnknownPhone(r) PROVE WritesInOrder'
  BY <1>1 DEF LoginUnknownPhone
<1>2. ASSUME NEW r \in Requests, NEW u \in Users, LoginRefused(r, u)
      PROVE WritesInOrder'
  BY <1>2 DEF LoginRefused
<1>3. ASSUME NEW r \in Requests, NEW u \in Users, LoginWrongPassword(r, u)
      PROVE WritesInOrder'
  <2>1. pc'[r] = "raise" /\ pend'[r].rows = {}
    BY <1>3 DEF LoginWrongPassword, Begin, Goto
  <2>2. \A q \in Requests \ {r} :
          req'[q] = req[q] /\ pc'[q] = pc[q] /\ pend'[q] = pend[q]
    BY <1>3 DEF LoginWrongPassword, Begin, Goto
  <2>3. UNCHANGED accounts
    BY <1>3 DEF LoginWrongPassword, database
  <2>4. InOrder(r)'
    BY <2>1
  <2>5. \A q \in Requests \ {r} : InOrder(q)'
    BY <2>2, <2>3, InOrderKept
  <2> HIDE DEF InOrder
  <2> QED
    BY <2>4, <2>5
<1>4. ASSUME NEW r \in Requests, NEW u \in Users, LoginGranted(r, u)
      PROVE WritesInOrder'
  BY <1>4 DEF LoginGranted
<1>5. ASSUME NEW r \in Requests, NEW s \in held, NEW t \in {"access",
  "refresh"} \X {s[2]}, RefreshRefused(r, s, t)
      PROVE WritesInOrder'
  BY <1>5 DEF RefreshRefused
<1>6. ASSUME NEW r \in Requests, NEW s \in held, NEW t \in {"access",
  "refresh"} \X {s[2]}, RefreshAdmitted(r, s, t)
      PROVE WritesInOrder'
  BY <1>6 DEF RefreshAdmitted
<1>7. ASSUME NEW r \in Requests, NEW s \in held, LogoutUnauthorized(r, s)
      PROVE WritesInOrder'
  BY <1>7 DEF LogoutUnauthorized
<1>8. ASSUME NEW r \in Requests, NEW s \in held, NEW t \in HeldTokens \cup
  {None}, NEW all \in BOOLEAN, LogoutBegin(r, s, t, all)
      PROVE WritesInOrder'
  BY <1>8 DEF LogoutBegin
<1>9. ASSUME NEW r \in Requests, RefreshLoad(r) PROVE WritesInOrder'
  BY <1>9 DEF RefreshLoad
<1>10. ASSUME NEW r \in Requests, RefreshBlacklist(r) PROVE WritesInOrder'
  BY <1>10 DEF RefreshBlacklist
<1>11. ASSUME NEW r \in Requests, RefreshTooLate(r) PROVE WritesInOrder'
  BY <1>11 DEF RefreshTooLate
<1>12. ASSUME NEW r \in Requests, CreateSessionFlush(r) PROVE WritesInOrder'
  <2> DEFINE u == req[r].user
  <2>1. pc'[r] = "register" /\ UNCHANGED <<req, accounts>>
    BY <1>12 DEF CreateSessionFlush, Continue, Goto, database
  <2>2. pend'[r].rows = {<<u, req[r].id>>} /\ pend'[r].audit = pend[r].audit
    BY <1>12 DEF CreateSessionFlush
  <2>3. Matches({}, pend[r].audit)
    BY <1>12 DEF CreateSessionFlush, Continue
  <2>4. accounts[u].phone_verified
    BY <1>12 DEF CreateSessionFlush, Continue
  <2>5. \A q \in Requests \ {r} : pc'[q] = pc[q] /\ pend'[q] = pend[q]
    BY <1>12 DEF CreateSessionFlush, Continue, Goto
  <2>6. InOrder(r)'
    BY <2>1, <2>2, <2>3, <2>4
  <2>7. \A q \in Requests \ {r} : InOrder(q)'
    BY <2>1, <2>5, InOrderKept
  <2> HIDE DEF InOrder
  <2> QED
    BY <2>6, <2>7
<1>13. ASSUME NEW r \in Requests, CreateSessionRegister(r) PROVE WritesInOrder'
  BY <1>13 DEF CreateSessionRegister
<1>14. ASSUME NEW r \in Requests, LogoutSuspended(r) PROVE WritesInOrder'
  BY <1>14 DEF LogoutSuspended
<1>15. ASSUME NEW r \in Requests, LogoutUserLoaded(r) PROVE WritesInOrder'
  <2>1. pc[r] = "user" /\ UNCHANGED <<req, accounts>>
    BY <1>15 DEF LogoutUserLoaded, Continue, database
  <2>2. pc'[r] \in {"sweep", "revoke", "commit"}
    BY <1>15 DEF LogoutUserLoaded, Continue, Goto
  <2>3. pend'[r].rows = {} /\ pend'[r].inactive = {} /\ Matches({}, pend'[r].audit)
    <3>1. pend[r].rows = {} /\ pend[r].inactive = {} /\ Matches({}, pend[r].audit)
      BY <2>1
    <3>2. CASE UNCHANGED pend
      BY <3>1, <3>2
    <3>3. CASE LogoutAudited(r)
      BY <3>1, <3>3 DEF LogoutAudited, LogAudit
    <3> QED
      BY <1>15, <3>2, <3>3 DEF LogoutUserLoaded
  <2>4. \A q \in Requests \ {r} : pc'[q] = pc[q] /\ pend'[q] = pend[q]
    BY <1>15 DEF LogoutUserLoaded, Continue, Goto, LogoutAudited, LogAudit
  <2>5. InOrder(r)'
    BY <2>1, <2>2, <2>3
  <2>6. \A q \in Requests \ {r} : InOrder(q)'
    BY <2>1, <2>4, InOrderKept
  <2> HIDE DEF InOrder
  <2> QED
    BY <2>5, <2>6
<1>16. ASSUME NEW r \in Requests, LogoutSweep(r) PROVE WritesInOrder'
  BY <1>16 DEF LogoutSweep
<1>17. ASSUME NEW r \in Requests, LogoutForget(r) PROVE WritesInOrder'
  BY <1>17 DEF LogoutForget
<1>18. ASSUME NEW r \in Requests, LogoutRevoke(r) PROVE WritesInOrder'
  BY <1>18 DEF LogoutRevoke
<1>19. ASSUME NEW r \in Requests, LogoutRevokeSwallowed(r) PROVE WritesInOrder'
  BY <1>19 DEF LogoutRevokeSwallowed
<1>20. ASSUME NEW r \in Requests, LogoutDeactivate(r) PROVE WritesInOrder'
  <2>1. pc'[r] = "commit" /\ UNCHANGED <<req, accounts>>
    BY <1>20 DEF LogoutDeactivate, Continue, Goto, database
  <2>2. /\ pend'[r].rows = {}
        /\ pend'[r].audit = pend[r].audit \cup {<<"LOGOUT", req[r].user, None>>}
    BY <1>20 DEF LogoutDeactivate, Continue
  <2>3. Matches({}, pend'[r].audit)
    BY <1>20, <2>2 DEF LogoutDeactivate, Continue
  <2>4. \A q \in Requests \ {r} : pc'[q] = pc[q] /\ pend'[q] = pend[q]
    BY <1>20 DEF LogoutDeactivate, Continue, Goto
  <2>5. InOrder(r)'
    BY <2>1, <2>2, <2>3
  <2>6. \A q \in Requests \ {r} : InOrder(q)'
    BY <2>1, <2>4, InOrderKept
  <2> HIDE DEF InOrder
  <2> QED
    BY <2>5, <2>6
<1>21. ASSUME NEW r \in Requests, Commit(r) PROVE WritesInOrder'
  <2>1. UNCHANGED <<req, pend>> /\ pc[r] = "commit" /\ pc'[r] = "reply"
    BY <1>21 DEF Commit, Continue, Goto
  <2>2. \A q \in Requests \ {r} : pc'[q] = pc[q]
    BY <1>21 DEF Commit, Continue, Goto
  <2>3. \A u \in Users : accounts'[u].phone_verified = accounts[u].phone_verified
    BY <1>21 DEF Commit, Account
  <2>4. \A q \in Requests : \A s \in pend[q].rows : s[1] \in Users
    BY DEF Session
  <2>5. ASSUME NEW q \in Requests PROVE InOrder(q)'
    <3>1. \A s \in pend'[q].rows : accounts'[s[1]].phone_verified
      BY <2>1, <2>3, <2>4
    <3> HIDE DEF Matches
    <3> QED
      BY <2>1, <2>2, <3>1
  <2> HIDE DEF InOrder
  <2> QED
    BY <2>5
<1>22. ASSUME NEW r \in Requests, Rollback(r) PROVE WritesInOrder'
  BY <1>22 DEF Rollback
<1>23. ASSUME NEW r \in Requests, Reply(r) PROVE WritesInOrder'
  BY <1>23 DEF Reply
<1>24. ASSUME NEW r \in Requests, CallFails(r) PROVE WritesInOrder'
  BY <1>24 DEF CallFails
<1>25. ASSUME NEW r \in Requests, RevokeFails(r) PROVE WritesInOrder'
  BY <1>25 DEF RevokeFails
<1>26. ASSUME NEW r \in Requests, AnswerLost(r) PROVE WritesInOrder'
  BY <1>26 DEF AnswerLost
<1>27. ASSUME NEW t \in Token, Age(t) PROVE WritesInOrder'
  BY <1>27 DEF Age
<1>28. ASSUME NEW t \in Token, BlacklistLapses(t) PROVE WritesInOrder'
  BY <1>28 DEF BlacklistLapses
<1>29. ASSUME NEW u \in Users, PhoneVerified(u) PROVE WritesInOrder'
  BY <1>29 DEF PhoneVerified
<1>30. ASSUME NEW u \in Users, AdminSetStatus(u) PROVE WritesInOrder'
  BY <1>30 DEF AdminSetStatus
<1>31. CASE UNCHANGED vars
  BY <1>31 DEF vars
<1> QED
  BY <1>1, <1>2, <1>3, <1>4, <1>5, <1>6, <1>7, <1>8, <1>9, <1>10, <1>11,
       <1>12, <1>13, <1>14, <1>15, <1>16, <1>17, <1>18, <1>19, <1>20, <1>21,
       <1>22, <1>23, <1>24, <1>25, <1>26, <1>27, <1>28, <1>29, <1>30, <1>31
       DEF Next, LoginStep, RefreshStep, LogoutStep, Handle, Environment

\* A committed request finds its writes in the database, which only grows.
LEMMA CommittedStep == IInv /\ [Next]_vars => Committed'
<1> SUFFICES ASSUME IInv, [Next]_vars PROVE Committed'
  OBVIOUS
<1> USE DEF IInv, TypeOK, Committed, WritesInOrder, InOrder, Writes,
       Begin, Continue, Goto, End, Fails, WriteStatus, Login, Refresh, Logout,
       Draw, Idle, LogAudit, LogoutAudited, Blacklist, database, redis, clients
<1>1. ASSUME NEW r \in Requests, LoginUnknownPhone(r) PROVE Committed'
  BY <1>1 DEF LoginUnknownPhone
<1>2. ASSUME NEW r \in Requests, NEW u \in Users, LoginRefused(r, u)
      PROVE Committed'
  BY <1>2 DEF LoginRefused
<1>3. ASSUME NEW r \in Requests, NEW u \in Users, LoginWrongPassword(r, u)
      PROVE Committed'
  BY <1>3 DEF LoginWrongPassword
<1>4. ASSUME NEW r \in Requests, NEW u \in Users, LoginGranted(r, u)
      PROVE Committed'
  BY <1>4 DEF LoginGranted
<1>5. ASSUME NEW r \in Requests, NEW s \in held, NEW t \in {"access",
  "refresh"} \X {s[2]}, RefreshRefused(r, s, t)
      PROVE Committed'
  BY <1>5 DEF RefreshRefused
<1>6. ASSUME NEW r \in Requests, NEW s \in held, NEW t \in {"access",
  "refresh"} \X {s[2]}, RefreshAdmitted(r, s, t)
      PROVE Committed'
  BY <1>6 DEF RefreshAdmitted
<1>7. ASSUME NEW r \in Requests, NEW s \in held, LogoutUnauthorized(r, s)
      PROVE Committed'
  BY <1>7 DEF LogoutUnauthorized
<1>8. ASSUME NEW r \in Requests, NEW s \in held, NEW t \in HeldTokens \cup
  {None}, NEW all \in BOOLEAN, LogoutBegin(r, s, t, all)
      PROVE Committed'
  BY <1>8 DEF LogoutBegin
<1>9. ASSUME NEW r \in Requests, RefreshLoad(r) PROVE Committed'
  BY <1>9 DEF RefreshLoad
<1>10. ASSUME NEW r \in Requests, RefreshBlacklist(r) PROVE Committed'
  BY <1>10 DEF RefreshBlacklist
<1>11. ASSUME NEW r \in Requests, RefreshTooLate(r) PROVE Committed'
  BY <1>11 DEF RefreshTooLate
<1>12. ASSUME NEW r \in Requests, CreateSessionFlush(r) PROVE Committed'
  BY <1>12 DEF CreateSessionFlush
<1>13. ASSUME NEW r \in Requests, CreateSessionRegister(r) PROVE Committed'
  BY <1>13 DEF CreateSessionRegister
<1>14. ASSUME NEW r \in Requests, LogoutSuspended(r) PROVE Committed'
  BY <1>14 DEF LogoutSuspended
<1>15. ASSUME NEW r \in Requests, LogoutUserLoaded(r) PROVE Committed'
  BY <1>15 DEF LogoutUserLoaded
<1>16. ASSUME NEW r \in Requests, LogoutSweep(r) PROVE Committed'
  BY <1>16 DEF LogoutSweep
<1>17. ASSUME NEW r \in Requests, LogoutForget(r) PROVE Committed'
  BY <1>17 DEF LogoutForget
<1>18. ASSUME NEW r \in Requests, LogoutRevoke(r) PROVE Committed'
  BY <1>18 DEF LogoutRevoke
<1>19. ASSUME NEW r \in Requests, LogoutRevokeSwallowed(r) PROVE Committed'
  BY <1>19 DEF LogoutRevokeSwallowed
<1>20. ASSUME NEW r \in Requests, LogoutDeactivate(r) PROVE Committed'
  BY <1>20 DEF LogoutDeactivate
<1>21. ASSUME NEW r \in Requests, Commit(r) PROVE Committed'
  BY <1>21 DEF Commit
<1>22. ASSUME NEW r \in Requests, Rollback(r) PROVE Committed'
  BY <1>22 DEF Rollback
<1>23. ASSUME NEW r \in Requests, Reply(r) PROVE Committed'
  BY <1>23 DEF Reply
<1>24. ASSUME NEW r \in Requests, CallFails(r) PROVE Committed'
  BY <1>24 DEF CallFails
<1>25. ASSUME NEW r \in Requests, RevokeFails(r) PROVE Committed'
  BY <1>25 DEF RevokeFails
<1>26. ASSUME NEW r \in Requests, AnswerLost(r) PROVE Committed'
  BY <1>26 DEF AnswerLost
<1>27. ASSUME NEW t \in Token, Age(t) PROVE Committed'
  BY <1>27 DEF Age
<1>28. ASSUME NEW t \in Token, BlacklistLapses(t) PROVE Committed'
  BY <1>28 DEF BlacklistLapses
<1>29. ASSUME NEW u \in Users, PhoneVerified(u) PROVE Committed'
  BY <1>29 DEF PhoneVerified
<1>30. ASSUME NEW u \in Users, AdminSetStatus(u) PROVE Committed'
  BY <1>30 DEF AdminSetStatus
<1>31. CASE UNCHANGED vars
  BY <1>31 DEF vars
<1> QED
  BY <1>1, <1>2, <1>3, <1>4, <1>5, <1>6, <1>7, <1>8, <1>9, <1>10, <1>11,
       <1>12, <1>13, <1>14, <1>15, <1>16, <1>17, <1>18, <1>19, <1>20, <1>21,
       <1>22, <1>23, <1>24, <1>25, <1>26, <1>27, <1>28, <1>29, <1>30, <1>31
       DEF Next, LoginStep, RefreshStep, LogoutStep, Handle, Environment

\* A forced logout misses no session committed before it.
LEMMA LogoutProgressStep == IInv /\ [Next]_vars => LogoutProgress'
<1> SUFFICES ASSUME IInv, [Next]_vars PROVE LogoutProgress'
  OBVIOUS
<1> USE DEF IInv, TypeOK, LogoutProgress, WritesInOrder, InOrder, Writes,
  Locals,
       Begin, Continue, Goto, End, Fails, WriteStatus, Login, Refresh, Logout,
       Draw, Idle, LogAudit, LogoutAudited, Blacklist, database, redis, clients
<1>1. ASSUME NEW r \in Requests, LoginUnknownPhone(r) PROVE LogoutProgress'
  BY <1>1 DEF LoginUnknownPhone
<1>2. ASSUME NEW r \in Requests, NEW u \in Users, LoginRefused(r, u)
      PROVE LogoutProgress'
  BY <1>2 DEF LoginRefused
<1>3. ASSUME NEW r \in Requests, NEW u \in Users, LoginWrongPassword(r, u)
      PROVE LogoutProgress'
  BY <1>3 DEF LoginWrongPassword
<1>4. ASSUME NEW r \in Requests, NEW u \in Users, LoginGranted(r, u)
      PROVE LogoutProgress'
  BY <1>4 DEF LoginGranted
<1>5. ASSUME NEW r \in Requests, NEW s \in held, NEW t \in {"access",
  "refresh"} \X {s[2]}, RefreshRefused(r, s, t)
      PROVE LogoutProgress'
  BY <1>5 DEF RefreshRefused
<1>6. ASSUME NEW r \in Requests, NEW s \in held, NEW t \in {"access",
  "refresh"} \X {s[2]}, RefreshAdmitted(r, s, t)
      PROVE LogoutProgress'
  BY <1>6 DEF RefreshAdmitted
<1>7. ASSUME NEW r \in Requests, NEW s \in held, LogoutUnauthorized(r, s)
      PROVE LogoutProgress'
  BY <1>7 DEF LogoutUnauthorized
<1>8. ASSUME NEW r \in Requests, NEW s \in held, NEW t \in HeldTokens \cup
  {None}, NEW all \in BOOLEAN, LogoutBegin(r, s, t, all)
      PROVE LogoutProgress'
  BY <1>8 DEF LogoutBegin
<1>9. ASSUME NEW r \in Requests, RefreshLoad(r) PROVE LogoutProgress'
  BY <1>9 DEF RefreshLoad
<1>10. ASSUME NEW r \in Requests, RefreshBlacklist(r) PROVE LogoutProgress'
  BY <1>10 DEF RefreshBlacklist
<1>11. ASSUME NEW r \in Requests, RefreshTooLate(r) PROVE LogoutProgress'
  BY <1>11 DEF RefreshTooLate
<1>12. ASSUME NEW r \in Requests, CreateSessionFlush(r) PROVE LogoutProgress'
  BY <1>12 DEF CreateSessionFlush
<1>13. ASSUME NEW r \in Requests, CreateSessionRegister(r) PROVE LogoutProgress'
  BY <1>13 DEF CreateSessionRegister
<1>14. ASSUME NEW r \in Requests, LogoutSuspended(r) PROVE LogoutProgress'
  BY <1>14 DEF LogoutSuspended
<1>15. ASSUME NEW r \in Requests, LogoutUserLoaded(r) PROVE LogoutProgress'
  BY <1>15 DEF LogoutUserLoaded
<1>16. ASSUME NEW r \in Requests, LogoutSweep(r) PROVE LogoutProgress'
  <2> DEFINE ids == {i \in Ids \ inactive : <<req[r].user, i>> \in sessions}
  <2>1. /\ pc[r] = "sweep" /\ pc'[r] = "forget"
        /\ UNCHANGED <<req, sessions, inactive>>
    BY <1>16 DEF LogoutSweep, Continue, Goto, database
  <2>2. pend'[r].inactive = ids
    BY <1>16 DEF LogoutSweep
  <2>3. \A q \in Requests \ {r} : pc'[q] = pc[q] /\ pend'[q] = pend[q]
    BY <1>16 DEF LogoutSweep, Continue, Goto
  <2>4. ASSUME NEW s \in req[r].before, req[r].op = "logout", req[r].all,
               s[1] = req[r].user
        PROVE  s[2] \in inactive \cup ids
    <3>1. s \in Session /\ s \in sessions
      BY <2>4
    <3>2. s = <<req[r].user, s[2]>> /\ s[2] \in Ids
      BY <2>4, <3>1 DEF Session
    <3> QED
      BY <3>1, <3>2
  <2> HIDE DEF ids
  <2> QED
    BY <2>1, <2>2, <2>3, <2>4
<1>17. ASSUME NEW r \in Requests, LogoutForget(r) PROVE LogoutProgress'
  BY <1>17 DEF LogoutForget
<1>18. ASSUME NEW r \in Requests, LogoutRevoke(r) PROVE LogoutProgress'
  BY <1>18 DEF LogoutRevoke
<1>19. ASSUME NEW r \in Requests, LogoutRevokeSwallowed(r) PROVE LogoutProgress'
  BY <1>19 DEF LogoutRevokeSwallowed
<1>20. ASSUME NEW r \in Requests, LogoutDeactivate(r) PROVE LogoutProgress'
  BY <1>20 DEF LogoutDeactivate
<1>21. ASSUME NEW r \in Requests, Commit(r) PROVE LogoutProgress'
  BY <1>21 DEF Commit
<1>22. ASSUME NEW r \in Requests, Rollback(r) PROVE LogoutProgress'
  <2>1. req'[r] = Idle /\ UNCHANGED <<sessions, inactive>>
    BY <1>22 DEF Rollback, End, database
  <2>2. \A q \in Requests \ {r} :
          req'[q] = req[q] /\ pc'[q] = pc[q] /\ pend'[q] = pend[q]
    BY <1>22 DEF Rollback, End, Goto
  <2>3. req'[r].op = "none"
    BY <2>1 DEF Idle
  <2> QED
    BY <2>1, <2>2, <2>3
<1>23. ASSUME NEW r \in Requests, Reply(r) PROVE LogoutProgress'
  <2>1. req'[r] = Idle /\ UNCHANGED <<sessions, inactive>>
    BY <1>23 DEF Reply, End, database
  <2>2. \A q \in Requests \ {r} :
          req'[q] = req[q] /\ pc'[q] = pc[q] /\ pend'[q] = pend[q]
    BY <1>23 DEF Reply, End, Goto
  <2>3. req'[r].op = "none"
    BY <2>1 DEF Idle
  <2> QED
    BY <2>1, <2>2, <2>3
<1>24. ASSUME NEW r \in Requests, CallFails(r) PROVE LogoutProgress'
  BY <1>24 DEF CallFails
<1>25. ASSUME NEW r \in Requests, RevokeFails(r) PROVE LogoutProgress'
  BY <1>25 DEF RevokeFails
<1>26. ASSUME NEW r \in Requests, AnswerLost(r) PROVE LogoutProgress'
  <2>1. req'[r] = Idle /\ UNCHANGED <<sessions, inactive>>
    BY <1>26 DEF AnswerLost, Fails, End, database
  <2>2. \A q \in Requests \ {r} :
          req'[q] = req[q] /\ pc'[q] = pc[q] /\ pend'[q] = pend[q]
    BY <1>26 DEF AnswerLost, End, Goto
  <2>3. req'[r].op = "none"
    BY <2>1 DEF Idle
  <2> QED
    BY <2>1, <2>2, <2>3
<1>27. ASSUME NEW t \in Token, Age(t) PROVE LogoutProgress'
  BY <1>27 DEF Age
<1>28. ASSUME NEW t \in Token, BlacklistLapses(t) PROVE LogoutProgress'
  BY <1>28 DEF BlacklistLapses
<1>29. ASSUME NEW u \in Users, PhoneVerified(u) PROVE LogoutProgress'
  BY <1>29 DEF PhoneVerified
<1>30. ASSUME NEW u \in Users, AdminSetStatus(u) PROVE LogoutProgress'
  BY <1>30 DEF AdminSetStatus
<1>31. CASE UNCHANGED vars
  BY <1>31 DEF vars
<1> QED
  BY <1>1, <1>2, <1>3, <1>4, <1>5, <1>6, <1>7, <1>8, <1>9, <1>10, <1>11,
       <1>12, <1>13, <1>14, <1>15, <1>16, <1>17, <1>18, <1>19, <1>20, <1>21,
       <1>22, <1>23, <1>24, <1>25, <1>26, <1>27, <1>28, <1>29, <1>30, <1>31
       DEF Next, LoginStep, RefreshStep, LogoutStep, Handle, Environment

\* An answer delivers committed rows.
LEMMA DeliveredStep == IInv /\ [Next]_vars => DeliveredBacked'
<1> SUFFICES ASSUME IInv, [Next]_vars PROVE DeliveredBacked'
  OBVIOUS
<1> USE DEF IInv, TypeOK, DeliveredBacked, AuditMatchesSessions, Matches,
  Committed, Writes, WritesInOrder, InOrder, Session,
       Begin, Continue, Goto, End, Fails, WriteStatus, Login, Refresh, Logout,
       Draw, Idle, LogAudit, LogoutAudited, Blacklist, database, redis, clients
<1>1. ASSUME NEW r \in Requests, LoginUnknownPhone(r) PROVE DeliveredBacked'
  BY <1>1 DEF LoginUnknownPhone
<1>2. ASSUME NEW r \in Requests, NEW u \in Users, LoginRefused(r, u)
      PROVE DeliveredBacked'
  BY <1>2 DEF LoginRefused
<1>3. ASSUME NEW r \in Requests, NEW u \in Users, LoginWrongPassword(r, u)
      PROVE DeliveredBacked'
  BY <1>3 DEF LoginWrongPassword
<1>4. ASSUME NEW r \in Requests, NEW u \in Users, LoginGranted(r, u)
      PROVE DeliveredBacked'
  BY <1>4 DEF LoginGranted
<1>5. ASSUME NEW r \in Requests, NEW s \in held, NEW t \in {"access",
  "refresh"} \X {s[2]}, RefreshRefused(r, s, t)
      PROVE DeliveredBacked'
  BY <1>5 DEF RefreshRefused
<1>6. ASSUME NEW r \in Requests, NEW s \in held, NEW t \in {"access",
  "refresh"} \X {s[2]}, RefreshAdmitted(r, s, t)
      PROVE DeliveredBacked'
  BY <1>6 DEF RefreshAdmitted
<1>7. ASSUME NEW r \in Requests, NEW s \in held, LogoutUnauthorized(r, s)
      PROVE DeliveredBacked'
  BY <1>7 DEF LogoutUnauthorized
<1>8. ASSUME NEW r \in Requests, NEW s \in held, NEW t \in HeldTokens \cup
  {None}, NEW all \in BOOLEAN, LogoutBegin(r, s, t, all)
      PROVE DeliveredBacked'
  BY <1>8 DEF LogoutBegin
<1>9. ASSUME NEW r \in Requests, RefreshLoad(r) PROVE DeliveredBacked'
  BY <1>9 DEF RefreshLoad
<1>10. ASSUME NEW r \in Requests, RefreshBlacklist(r) PROVE DeliveredBacked'
  BY <1>10 DEF RefreshBlacklist
<1>11. ASSUME NEW r \in Requests, RefreshTooLate(r) PROVE DeliveredBacked'
  BY <1>11 DEF RefreshTooLate
<1>12. ASSUME NEW r \in Requests, CreateSessionFlush(r) PROVE DeliveredBacked'
  BY <1>12 DEF CreateSessionFlush
<1>13. ASSUME NEW r \in Requests, CreateSessionRegister(r)
       PROVE DeliveredBacked'
  BY <1>13 DEF CreateSessionRegister
<1>14. ASSUME NEW r \in Requests, LogoutSuspended(r) PROVE DeliveredBacked'
  BY <1>14 DEF LogoutSuspended
<1>15. ASSUME NEW r \in Requests, LogoutUserLoaded(r) PROVE DeliveredBacked'
  BY <1>15 DEF LogoutUserLoaded
<1>16. ASSUME NEW r \in Requests, LogoutSweep(r) PROVE DeliveredBacked'
  BY <1>16 DEF LogoutSweep
<1>17. ASSUME NEW r \in Requests, LogoutForget(r) PROVE DeliveredBacked'
  BY <1>17 DEF LogoutForget
<1>18. ASSUME NEW r \in Requests, LogoutRevoke(r) PROVE DeliveredBacked'
  BY <1>18 DEF LogoutRevoke
<1>19. ASSUME NEW r \in Requests, LogoutRevokeSwallowed(r)
       PROVE DeliveredBacked'
  BY <1>19 DEF LogoutRevokeSwallowed
<1>20. ASSUME NEW r \in Requests, LogoutDeactivate(r) PROVE DeliveredBacked'
  BY <1>20 DEF LogoutDeactivate
<1>21. ASSUME NEW r \in Requests, Commit(r) PROVE DeliveredBacked'
  BY <1>21 DEF Commit
<1>22. ASSUME NEW r \in Requests, Rollback(r) PROVE DeliveredBacked'
  BY <1>22 DEF Rollback
<1>23. ASSUME NEW r \in Requests, Reply(r) PROVE DeliveredBacked'
  <2>1. held' = held \cup pend[r].rows /\ UNCHANGED <<sessions, audit>>
    BY <1>23 DEF Reply, database
  <2>2. pend[r].rows \subseteq sessions
    BY <1>23 DEF Reply
  <2>3. \A s \in sessions : <<"LOGIN_SUCCESS", s[1], s[2]>> \in audit
    <3> SUFFICES ASSUME NEW s \in sessions PROVE <<"LOGIN_SUCCESS", s[1],
      s[2]>> \in audit
      OBVIOUS
    <3>1. s \in Session
      OBVIOUS
    <3>2. s = <<s[1], s[2]>> /\ s[1] \in Users /\ s[2] \in Ids
      BY <3>1 DEF Session
    <3> QED
      BY <3>2
  <2> QED
    BY <2>1, <2>2, <2>3
<1>24. ASSUME NEW r \in Requests, CallFails(r) PROVE DeliveredBacked'
  BY <1>24 DEF CallFails
<1>25. ASSUME NEW r \in Requests, RevokeFails(r) PROVE DeliveredBacked'
  BY <1>25 DEF RevokeFails
<1>26. ASSUME NEW r \in Requests, AnswerLost(r) PROVE DeliveredBacked'
  BY <1>26 DEF AnswerLost
<1>27. ASSUME NEW t \in Token, Age(t) PROVE DeliveredBacked'
  BY <1>27 DEF Age
<1>28. ASSUME NEW t \in Token, BlacklistLapses(t) PROVE DeliveredBacked'
  BY <1>28 DEF BlacklistLapses
<1>29. ASSUME NEW u \in Users, PhoneVerified(u) PROVE DeliveredBacked'
  BY <1>29 DEF PhoneVerified
<1>30. ASSUME NEW u \in Users, AdminSetStatus(u) PROVE DeliveredBacked'
  BY <1>30 DEF AdminSetStatus
<1>31. CASE UNCHANGED vars
  BY <1>31 DEF vars
<1> QED
  BY <1>1, <1>2, <1>3, <1>4, <1>5, <1>6, <1>7, <1>8, <1>9, <1>10, <1>11,
       <1>12, <1>13, <1>14, <1>15, <1>16, <1>17, <1>18, <1>19, <1>20, <1>21,
       <1>22, <1>23, <1>24, <1>25, <1>26, <1>27, <1>28, <1>29, <1>30, <1>31
       DEF Next, LoginStep, RefreshStep, LogoutStep, Handle, Environment

\* A commit adds matching sessions and audit rows.
LEMMA AuditStep == IInv /\ [Next]_vars => AuditMatchesSessions'
<1> SUFFICES ASSUME IInv, [Next]_vars PROVE AuditMatchesSessions'
  OBVIOUS
<1> USE DEF IInv, TypeOK, AuditMatchesSessions, Matches, WritesInOrder,
  InOrder, Writes,
       Begin, Continue, Goto, End, Fails, WriteStatus, Login, Refresh, Logout,
       Draw, Idle, LogAudit, LogoutAudited, Blacklist, database, redis, clients
<1>1. ASSUME NEW r \in Requests, LoginUnknownPhone(r)
      PROVE AuditMatchesSessions'
  BY <1>1 DEF LoginUnknownPhone
<1>2. ASSUME NEW r \in Requests, NEW u \in Users, LoginRefused(r, u)
      PROVE AuditMatchesSessions'
  BY <1>2 DEF LoginRefused
<1>3. ASSUME NEW r \in Requests, NEW u \in Users, LoginWrongPassword(r, u)
      PROVE AuditMatchesSessions'
  BY <1>3 DEF LoginWrongPassword
<1>4. ASSUME NEW r \in Requests, NEW u \in Users, LoginGranted(r, u)
      PROVE AuditMatchesSessions'
  BY <1>4 DEF LoginGranted
<1>5. ASSUME NEW r \in Requests, NEW s \in held, NEW t \in {"access",
  "refresh"} \X {s[2]}, RefreshRefused(r, s, t)
      PROVE AuditMatchesSessions'
  BY <1>5 DEF RefreshRefused
<1>6. ASSUME NEW r \in Requests, NEW s \in held, NEW t \in {"access",
  "refresh"} \X {s[2]}, RefreshAdmitted(r, s, t)
      PROVE AuditMatchesSessions'
  BY <1>6 DEF RefreshAdmitted
<1>7. ASSUME NEW r \in Requests, NEW s \in held, LogoutUnauthorized(r, s)
      PROVE AuditMatchesSessions'
  BY <1>7 DEF LogoutUnauthorized
<1>8. ASSUME NEW r \in Requests, NEW s \in held, NEW t \in HeldTokens \cup
  {None}, NEW all \in BOOLEAN, LogoutBegin(r, s, t, all)
      PROVE AuditMatchesSessions'
  BY <1>8 DEF LogoutBegin
<1>9. ASSUME NEW r \in Requests, RefreshLoad(r) PROVE AuditMatchesSessions'
  BY <1>9 DEF RefreshLoad
<1>10. ASSUME NEW r \in Requests, RefreshBlacklist(r)
       PROVE AuditMatchesSessions'
  BY <1>10 DEF RefreshBlacklist
<1>11. ASSUME NEW r \in Requests, RefreshTooLate(r) PROVE AuditMatchesSessions'
  BY <1>11 DEF RefreshTooLate
<1>12. ASSUME NEW r \in Requests, CreateSessionFlush(r)
       PROVE AuditMatchesSessions'
  BY <1>12 DEF CreateSessionFlush
<1>13. ASSUME NEW r \in Requests, CreateSessionRegister(r)
       PROVE AuditMatchesSessions'
  BY <1>13 DEF CreateSessionRegister
<1>14. ASSUME NEW r \in Requests, LogoutSuspended(r) PROVE AuditMatchesSessions'
  BY <1>14 DEF LogoutSuspended
<1>15. ASSUME NEW r \in Requests, LogoutUserLoaded(r)
       PROVE AuditMatchesSessions'
  BY <1>15 DEF LogoutUserLoaded
<1>16. ASSUME NEW r \in Requests, LogoutSweep(r) PROVE AuditMatchesSessions'
  BY <1>16 DEF LogoutSweep
<1>17. ASSUME NEW r \in Requests, LogoutForget(r) PROVE AuditMatchesSessions'
  BY <1>17 DEF LogoutForget
<1>18. ASSUME NEW r \in Requests, LogoutRevoke(r) PROVE AuditMatchesSessions'
  BY <1>18 DEF LogoutRevoke
<1>19. ASSUME NEW r \in Requests, LogoutRevokeSwallowed(r)
       PROVE AuditMatchesSessions'
  BY <1>19 DEF LogoutRevokeSwallowed
<1>20. ASSUME NEW r \in Requests, LogoutDeactivate(r)
       PROVE AuditMatchesSessions'
  BY <1>20 DEF LogoutDeactivate
<1>21. ASSUME NEW r \in Requests, Commit(r) PROVE AuditMatchesSessions'
  BY <1>21 DEF Commit
<1>22. ASSUME NEW r \in Requests, Rollback(r) PROVE AuditMatchesSessions'
  BY <1>22 DEF Rollback
<1>23. ASSUME NEW r \in Requests, Reply(r) PROVE AuditMatchesSessions'
  BY <1>23 DEF Reply
<1>24. ASSUME NEW r \in Requests, CallFails(r) PROVE AuditMatchesSessions'
  BY <1>24 DEF CallFails
<1>25. ASSUME NEW r \in Requests, RevokeFails(r) PROVE AuditMatchesSessions'
  BY <1>25 DEF RevokeFails
<1>26. ASSUME NEW r \in Requests, AnswerLost(r) PROVE AuditMatchesSessions'
  BY <1>26 DEF AnswerLost
<1>27. ASSUME NEW t \in Token, Age(t) PROVE AuditMatchesSessions'
  BY <1>27 DEF Age
<1>28. ASSUME NEW t \in Token, BlacklistLapses(t) PROVE AuditMatchesSessions'
  BY <1>28 DEF BlacklistLapses
<1>29. ASSUME NEW u \in Users, PhoneVerified(u) PROVE AuditMatchesSessions'
  BY <1>29 DEF PhoneVerified
<1>30. ASSUME NEW u \in Users, AdminSetStatus(u) PROVE AuditMatchesSessions'
  BY <1>30 DEF AdminSetStatus
<1>31. CASE UNCHANGED vars
  BY <1>31 DEF vars
<1> QED
  BY <1>1, <1>2, <1>3, <1>4, <1>5, <1>6, <1>7, <1>8, <1>9, <1>10, <1>11,
       <1>12, <1>13, <1>14, <1>15, <1>16, <1>17, <1>18, <1>19, <1>20, <1>21,
       <1>22, <1>23, <1>24, <1>25, <1>26, <1>27, <1>28, <1>29, <1>30, <1>31
       DEF Next, LoginStep, RefreshStep, LogoutStep, Handle, Environment

\* A commit adds sessions of verified users.
LEMMA VerifiedStep == IInv /\ [Next]_vars => SessionsOfVerifiedPhones'
<1> SUFFICES ASSUME IInv, [Next]_vars PROVE SessionsOfVerifiedPhones'
  OBVIOUS
<1> USE DEF IInv, TypeOK, SessionsOfVerifiedPhones, WritesInOrder, InOrder,
  Writes, Account, Session,
       Begin, Continue, Goto, End, Fails, WriteStatus, Login, Refresh, Logout,
       Draw, Idle, LogAudit, LogoutAudited, Blacklist, database, redis, clients
<1>1. ASSUME NEW r \in Requests, LoginUnknownPhone(r)
      PROVE SessionsOfVerifiedPhones'
  BY <1>1 DEF LoginUnknownPhone
<1>2. ASSUME NEW r \in Requests, NEW u \in Users, LoginRefused(r, u)
      PROVE SessionsOfVerifiedPhones'
  BY <1>2 DEF LoginRefused
<1>3. ASSUME NEW r \in Requests, NEW u \in Users, LoginWrongPassword(r, u)
      PROVE SessionsOfVerifiedPhones'
  BY <1>3 DEF LoginWrongPassword
<1>4. ASSUME NEW r \in Requests, NEW u \in Users, LoginGranted(r, u)
      PROVE SessionsOfVerifiedPhones'
  BY <1>4 DEF LoginGranted
<1>5. ASSUME NEW r \in Requests, NEW s \in held, NEW t \in {"access",
  "refresh"} \X {s[2]}, RefreshRefused(r, s, t)
      PROVE SessionsOfVerifiedPhones'
  BY <1>5 DEF RefreshRefused
<1>6. ASSUME NEW r \in Requests, NEW s \in held, NEW t \in {"access",
  "refresh"} \X {s[2]}, RefreshAdmitted(r, s, t)
      PROVE SessionsOfVerifiedPhones'
  BY <1>6 DEF RefreshAdmitted
<1>7. ASSUME NEW r \in Requests, NEW s \in held, LogoutUnauthorized(r, s)
      PROVE SessionsOfVerifiedPhones'
  BY <1>7 DEF LogoutUnauthorized
<1>8. ASSUME NEW r \in Requests, NEW s \in held, NEW t \in HeldTokens \cup
  {None}, NEW all \in BOOLEAN, LogoutBegin(r, s, t, all)
      PROVE SessionsOfVerifiedPhones'
  BY <1>8 DEF LogoutBegin
<1>9. ASSUME NEW r \in Requests, RefreshLoad(r) PROVE SessionsOfVerifiedPhones'
  BY <1>9 DEF RefreshLoad
<1>10. ASSUME NEW r \in Requests, RefreshBlacklist(r)
       PROVE SessionsOfVerifiedPhones'
  BY <1>10 DEF RefreshBlacklist
<1>11. ASSUME NEW r \in Requests, RefreshTooLate(r)
       PROVE SessionsOfVerifiedPhones'
  BY <1>11 DEF RefreshTooLate
<1>12. ASSUME NEW r \in Requests, CreateSessionFlush(r)
       PROVE SessionsOfVerifiedPhones'
  BY <1>12 DEF CreateSessionFlush
<1>13. ASSUME NEW r \in Requests, CreateSessionRegister(r)
       PROVE SessionsOfVerifiedPhones'
  BY <1>13 DEF CreateSessionRegister
<1>14. ASSUME NEW r \in Requests, LogoutSuspended(r)
       PROVE SessionsOfVerifiedPhones'
  BY <1>14 DEF LogoutSuspended
<1>15. ASSUME NEW r \in Requests, LogoutUserLoaded(r)
       PROVE SessionsOfVerifiedPhones'
  BY <1>15 DEF LogoutUserLoaded
<1>16. ASSUME NEW r \in Requests, LogoutSweep(r) PROVE SessionsOfVerifiedPhones'
  BY <1>16 DEF LogoutSweep
<1>17. ASSUME NEW r \in Requests, LogoutForget(r)
       PROVE SessionsOfVerifiedPhones'
  BY <1>17 DEF LogoutForget
<1>18. ASSUME NEW r \in Requests, LogoutRevoke(r)
       PROVE SessionsOfVerifiedPhones'
  BY <1>18 DEF LogoutRevoke
<1>19. ASSUME NEW r \in Requests, LogoutRevokeSwallowed(r)
       PROVE SessionsOfVerifiedPhones'
  BY <1>19 DEF LogoutRevokeSwallowed
<1>20. ASSUME NEW r \in Requests, LogoutDeactivate(r)
       PROVE SessionsOfVerifiedPhones'
  BY <1>20 DEF LogoutDeactivate
<1>21. ASSUME NEW r \in Requests, Commit(r) PROVE SessionsOfVerifiedPhones'
  BY <1>21 DEF Commit
<1>22. ASSUME NEW r \in Requests, Rollback(r) PROVE SessionsOfVerifiedPhones'
  BY <1>22 DEF Rollback
<1>23. ASSUME NEW r \in Requests, Reply(r) PROVE SessionsOfVerifiedPhones'
  BY <1>23 DEF Reply
<1>24. ASSUME NEW r \in Requests, CallFails(r) PROVE SessionsOfVerifiedPhones'
  BY <1>24 DEF CallFails
<1>25. ASSUME NEW r \in Requests, RevokeFails(r) PROVE SessionsOfVerifiedPhones'
  BY <1>25 DEF RevokeFails
<1>26. ASSUME NEW r \in Requests, AnswerLost(r) PROVE SessionsOfVerifiedPhones'
  BY <1>26 DEF AnswerLost
<1>27. ASSUME NEW t \in Token, Age(t) PROVE SessionsOfVerifiedPhones'
  BY <1>27 DEF Age
<1>28. ASSUME NEW t \in Token, BlacklistLapses(t)
       PROVE SessionsOfVerifiedPhones'
  BY <1>28 DEF BlacklistLapses
<1>29. ASSUME NEW u \in Users, PhoneVerified(u) PROVE SessionsOfVerifiedPhones'
  BY <1>29 DEF PhoneVerified
<1>30. ASSUME NEW u \in Users, AdminSetStatus(u) PROVE SessionsOfVerifiedPhones'
  BY <1>30 DEF AdminSetStatus
<1>31. CASE UNCHANGED vars
  BY <1>31 DEF vars
<1> QED
  BY <1>1, <1>2, <1>3, <1>4, <1>5, <1>6, <1>7, <1>8, <1>9, <1>10, <1>11,
       <1>12, <1>13, <1>14, <1>15, <1>16, <1>17, <1>18, <1>19, <1>20, <1>21,
       <1>22, <1>23, <1>24, <1>25, <1>26, <1>27, <1>28, <1>29, <1>30, <1>31
       DEF Next, LoginStep, RefreshStep, LogoutStep, Handle, Environment

\* A spent token stays blacklisted while it is valid.
LEMMA SpentStep == IInv /\ [Next]_vars => SpentBlacklisted'
<1> SUFFICES ASSUME IInv, [Next]_vars PROVE SpentBlacklisted'
  OBVIOUS
<1> USE DEF IInv, TypeOK, SpentBlacklisted,
       Begin, Continue, Goto, End, Fails, WriteStatus, Login, Refresh, Logout,
       Draw, Idle, LogAudit, LogoutAudited, Blacklist, database, redis, clients
<1>1. ASSUME NEW r \in Requests, LoginUnknownPhone(r) PROVE SpentBlacklisted'
  BY <1>1 DEF LoginUnknownPhone
<1>2. ASSUME NEW r \in Requests, NEW u \in Users, LoginRefused(r, u)
      PROVE SpentBlacklisted'
  BY <1>2 DEF LoginRefused
<1>3. ASSUME NEW r \in Requests, NEW u \in Users, LoginWrongPassword(r, u)
      PROVE SpentBlacklisted'
  BY <1>3 DEF LoginWrongPassword
<1>4. ASSUME NEW r \in Requests, NEW u \in Users, LoginGranted(r, u)
      PROVE SpentBlacklisted'
  BY <1>4 DEF LoginGranted
<1>5. ASSUME NEW r \in Requests, NEW s \in held, NEW t \in {"access",
  "refresh"} \X {s[2]}, RefreshRefused(r, s, t)
      PROVE SpentBlacklisted'
  BY <1>5 DEF RefreshRefused
<1>6. ASSUME NEW r \in Requests, NEW s \in held, NEW t \in {"access",
  "refresh"} \X {s[2]}, RefreshAdmitted(r, s, t)
      PROVE SpentBlacklisted'
  BY <1>6 DEF RefreshAdmitted
<1>7. ASSUME NEW r \in Requests, NEW s \in held, LogoutUnauthorized(r, s)
      PROVE SpentBlacklisted'
  BY <1>7 DEF LogoutUnauthorized
<1>8. ASSUME NEW r \in Requests, NEW s \in held, NEW t \in HeldTokens \cup
  {None}, NEW all \in BOOLEAN, LogoutBegin(r, s, t, all)
      PROVE SpentBlacklisted'
  BY <1>8 DEF LogoutBegin
<1>9. ASSUME NEW r \in Requests, RefreshLoad(r) PROVE SpentBlacklisted'
  BY <1>9 DEF RefreshLoad
<1>10. ASSUME NEW r \in Requests, RefreshBlacklist(r) PROVE SpentBlacklisted'
  BY <1>10 DEF RefreshBlacklist
<1>11. ASSUME NEW r \in Requests, RefreshTooLate(r) PROVE SpentBlacklisted'
  BY <1>11 DEF RefreshTooLate
<1>12. ASSUME NEW r \in Requests, CreateSessionFlush(r) PROVE SpentBlacklisted'
  BY <1>12 DEF CreateSessionFlush
<1>13. ASSUME NEW r \in Requests, CreateSessionRegister(r)
       PROVE SpentBlacklisted'
  BY <1>13 DEF CreateSessionRegister
<1>14. ASSUME NEW r \in Requests, LogoutSuspended(r) PROVE SpentBlacklisted'
  BY <1>14 DEF LogoutSuspended
<1>15. ASSUME NEW r \in Requests, LogoutUserLoaded(r) PROVE SpentBlacklisted'
  BY <1>15 DEF LogoutUserLoaded
<1>16. ASSUME NEW r \in Requests, LogoutSweep(r) PROVE SpentBlacklisted'
  BY <1>16 DEF LogoutSweep
<1>17. ASSUME NEW r \in Requests, LogoutForget(r) PROVE SpentBlacklisted'
  BY <1>17 DEF LogoutForget
<1>18. ASSUME NEW r \in Requests, LogoutRevoke(r) PROVE SpentBlacklisted'
  BY <1>18 DEF LogoutRevoke
<1>19. ASSUME NEW r \in Requests, LogoutRevokeSwallowed(r)
       PROVE SpentBlacklisted'
  BY <1>19 DEF LogoutRevokeSwallowed
<1>20. ASSUME NEW r \in Requests, LogoutDeactivate(r) PROVE SpentBlacklisted'
  BY <1>20 DEF LogoutDeactivate
<1>21. ASSUME NEW r \in Requests, Commit(r) PROVE SpentBlacklisted'
  BY <1>21 DEF Commit
<1>22. ASSUME NEW r \in Requests, Rollback(r) PROVE SpentBlacklisted'
  BY <1>22 DEF Rollback
<1>23. ASSUME NEW r \in Requests, Reply(r) PROVE SpentBlacklisted'
  BY <1>23 DEF Reply
<1>24. ASSUME NEW r \in Requests, CallFails(r) PROVE SpentBlacklisted'
  BY <1>24 DEF CallFails
<1>25. ASSUME NEW r \in Requests, RevokeFails(r) PROVE SpentBlacklisted'
  BY <1>25 DEF RevokeFails
<1>26. ASSUME NEW r \in Requests, AnswerLost(r) PROVE SpentBlacklisted'
  BY <1>26 DEF AnswerLost
<1>27. ASSUME NEW t \in Token, Age(t) PROVE SpentBlacklisted'
  BY <1>27 DEF Age
<1>28. ASSUME NEW t \in Token, BlacklistLapses(t) PROVE SpentBlacklisted'
  BY <1>28 DEF BlacklistLapses
<1>29. ASSUME NEW u \in Users, PhoneVerified(u) PROVE SpentBlacklisted'
  BY <1>29 DEF PhoneVerified
<1>30. ASSUME NEW u \in Users, AdminSetStatus(u) PROVE SpentBlacklisted'
  BY <1>30 DEF AdminSetStatus
<1>31. CASE UNCHANGED vars
  BY <1>31 DEF vars
<1> QED
  BY <1>1, <1>2, <1>3, <1>4, <1>5, <1>6, <1>7, <1>8, <1>9, <1>10, <1>11,
       <1>12, <1>13, <1>14, <1>15, <1>16, <1>17, <1>18, <1>19, <1>20, <1>21,
       <1>22, <1>23, <1>24, <1>25, <1>26, <1>27, <1>28, <1>29, <1>30, <1>31
       DEF Next, LoginStep, RefreshStep, LogoutStep, Handle, Environment

-----------------------------------------------------------------------------
\* The initial states satisfy the invariant.
LEMMA InitIInv == Init => IInv
<1> SUFFICES ASSUME Init PROVE IInv
  OBVIOUS
<1>1. TypeOK
  <2>1. accounts \in [Users -> Account]
    <3> DEFINE new == [status |-> "PENDING_VERIFICATION",
                       phone_verified |-> FALSE, failed |-> 0]
               ready == [status |-> "ACTIVE", phone_verified |-> TRUE, failed |-> 0]
    <3>1. new \in Account /\ ready \in Account
      BY DEF Account, Statuses
    <3>2. accounts \in [Users -> {new, ready}]
      BY DEF Init
    <3> HIDE DEF new, ready
    <3> QED
      BY <3>1, <3>2
  <2>2. budget \in [ages : Nat, faults : Nat]
    BY BoundsAssumption DEF Init
  <2> QED
    BY <2>1, <2>2, IdleTyped DEF Init, TypeOK, Calls
<1>2. Admitted /\ LogoutProgress /\ Committed
  BY DEF Init, Admitted, Minting, LogoutProgress, Committed, Idle
<1>3. WritesInOrder
  BY DEF Init, WritesInOrder, InOrder, Matches, NoWrites
<1>4. DeliveredBacked /\ AuditMatchesSessions /\ SessionsOfVerifiedPhones /\ SpentBlacklisted
  BY DEF Init, DeliveredBacked, AuditMatchesSessions, Matches,
    SessionsOfVerifiedPhones, SpentBlacklisted
<1> QED
  BY <1>1, <1>2, <1>3, <1>4 DEF IInv

\* IInv holds in every reachable state of the specification.
THEOREM Invariance == Spec => []IInv
<1>1. IInv /\ [Next]_vars => IInv'
  BY TypeStep, AdmittedStep, WritesStep, CommittedStep, LogoutProgressStep,
    DeliveredStep, AuditStep, VerifiedStep, SpentStep DEF IInv
<1> QED
  BY <1>1, InitIInv, PTL DEF Spec

\* Every variable keeps its type: no row, audit row or registry entry with a
\* missing user or identifier is ever written.
THEOREM TypeCorrect == Spec => []TypeOK
<1>1. IInv => TypeOK
  BY DEF IInv
<1> QED
  BY <1>1, Invariance, PTL

\* A token pair a client has received belongs to a committed session and a
\* committed audit row, whatever fails: get_db commits before the answer leaves.
THEOREM DeliveredBackedAlways == Spec => []DeliveredBacked
<1>1. IInv => DeliveredBacked
  BY DEF IInv
<1> QED
  BY <1>1, Invariance, PTL

\* Sessions and LOGIN_SUCCESS rows are committed together or not at all.
THEOREM AuditMatchesSessionsAlways == Spec => []AuditMatchesSessions
<1>1. IInv => AuditMatchesSessions
  BY DEF IInv
<1> QED
  BY <1>1, Invariance, PTL

\* No session is committed for a user whose phone was never verified.
THEOREM SessionsOfVerifiedPhonesAlways == Spec => []SessionsOfVerifiedPhones
<1>1. IInv => SessionsOfVerifiedPhones
  BY DEF IInv
<1> QED
  BY <1>1, Invariance, PTL

\* An answered logout from all devices has deactivated every session that was
\* committed when the request began.
THEOREM ForcedLogoutCompleteAlways == Spec => []ForcedLogoutComplete
<1>1. IInv => ForcedLogoutComplete
  BY DEF IInv, LogoutProgress, Committed, ForcedLogoutComplete
<1> QED
  BY <1>1, Invariance, PTL

\* Logins and refreshes of one user queue for the users row; its holder, which has
\* Redis calls and a commit before it, never waits for a row itself.
THEOREM HolderRunsAlways == Spec => []HolderRuns
<1>1. IInv => HolderRuns
  <2> SUFFICES ASSUME IInv, NEW r \in Requests, Waits(r)
               PROVE  \E o \in Requests : HoldsRow(o, req[r].user) /\ ~Waits(o)
    BY DEF HolderRuns
  <2>1. PICK o \in Requests : HoldsRow(o, req[r].user)
    BY DEF Waits
  <2>2. pc[o] \in {"register", "commit", "raise"}
    BY <2>1 DEF HoldsRow, IInv, WritesInOrder, InOrder, TypeOK, Calls
  <2> QED
    BY <2>1, <2>2 DEF Waits
<1> QED
  BY <1>1, Invariance, PTL

-----------------------------------------------------------------------------
NotAdmitted ==
  \A r \in Requests :
    pc[r] = "idle" /\ pc'[r] = "load" =>
      ~(req'[r].token \in spent /\ life[req'[r].token] = "valid")

\* Of all actions only RefreshAdmitted begins a refresh, and it reads the blacklist.
LEMMA SpentStepAction == IInv /\ [Next]_vars => NotAdmitted
<1> SUFFICES ASSUME IInv, [Next]_vars PROVE NotAdmitted
  OBVIOUS
<1>1. ASSUME NEW r \in Requests, LoginUnknownPhone(r) PROVE NotAdmitted
  BY <1>1 DEF LoginUnknownPhone, Begin, Goto, IInv, TypeOK, NotAdmitted
<1>2. ASSUME NEW r \in Requests, NEW u \in Users, LoginRefused(r, u)
      PROVE NotAdmitted
  BY <1>2 DEF LoginRefused, Begin, Goto, IInv, TypeOK, NotAdmitted
<1>3. ASSUME NEW r \in Requests, NEW u \in Users, LoginWrongPassword(r, u)
      PROVE NotAdmitted
  BY <1>3 DEF LoginWrongPassword, Begin, Goto, IInv, TypeOK, NotAdmitted
<1>4. ASSUME NEW r \in Requests, NEW u \in Users, LoginGranted(r, u)
      PROVE NotAdmitted
  BY <1>4 DEF LoginGranted, Begin, Goto, IInv, TypeOK, NotAdmitted
<1>5. ASSUME NEW r \in Requests, NEW s \in held, NEW t \in {"access",
  "refresh"} \X {s[2]}, RefreshRefused(r, s, t)
      PROVE NotAdmitted
  BY <1>5 DEF RefreshRefused, Begin, Goto, IInv, TypeOK, NotAdmitted
<1>6. ASSUME NEW r \in Requests, NEW s \in held, NEW t \in {"access",
  "refresh"} \X {s[2]}, RefreshAdmitted(r, s, t)
      PROVE NotAdmitted
  <2>1. req'[r] = [Refresh(s, t) EXCEPT !.id = req'[r].id] /\ t \notin blacklist
    BY <1>6 DEF RefreshAdmitted, Begin, IInv, TypeOK
  <2>2. req'[r].token = t
    BY <2>1 DEF Refresh, Idle
  <2>3. \A q \in Requests \ {r} : pc'[q] = pc[q]
    BY <1>6 DEF RefreshAdmitted, Begin, Goto, IInv, TypeOK
  <2>4. t \in spent => life[t] # "valid"
    BY <2>1 DEF IInv, SpentBlacklisted
  <2>5. UNCHANGED life
    BY <1>6 DEF RefreshAdmitted
  <2> QED
    BY <2>2, <2>3, <2>4, <2>5 DEF NotAdmitted
<1>7. ASSUME NEW r \in Requests, NEW s \in held, LogoutUnauthorized(r, s)
      PROVE NotAdmitted
  BY <1>7 DEF LogoutUnauthorized, Begin, Goto, IInv, TypeOK, NotAdmitted
<1>8. ASSUME NEW r \in Requests, NEW s \in held, NEW t \in HeldTokens \cup
  {None}, NEW all \in BOOLEAN, LogoutBegin(r, s, t, all)
      PROVE NotAdmitted
  BY <1>8 DEF LogoutBegin, Begin, Goto, IInv, TypeOK, NotAdmitted
<1>9. ASSUME NEW r \in Requests, RefreshLoad(r) PROVE NotAdmitted
  BY <1>9 DEF RefreshLoad, Continue, Goto, IInv, TypeOK, NotAdmitted
<1>10. ASSUME NEW r \in Requests, RefreshBlacklist(r) PROVE NotAdmitted
  BY <1>10 DEF RefreshBlacklist, Continue, Goto, IInv, TypeOK, NotAdmitted
<1>11. ASSUME NEW r \in Requests, RefreshTooLate(r) PROVE NotAdmitted
  BY <1>11 DEF RefreshTooLate, Continue, Goto, IInv, TypeOK, NotAdmitted
<1>12. ASSUME NEW r \in Requests, CreateSessionFlush(r) PROVE NotAdmitted
  BY <1>12 DEF CreateSessionFlush, Continue, Goto, IInv, TypeOK, NotAdmitted
<1>13. ASSUME NEW r \in Requests, CreateSessionRegister(r) PROVE NotAdmitted
  BY <1>13 DEF CreateSessionRegister, Continue, Goto, IInv, TypeOK, NotAdmitted
<1>14. ASSUME NEW r \in Requests, LogoutSuspended(r) PROVE NotAdmitted
  BY <1>14 DEF LogoutSuspended, Continue, Goto, IInv, TypeOK, NotAdmitted
<1>15. ASSUME NEW r \in Requests, LogoutUserLoaded(r) PROVE NotAdmitted
  BY <1>15 DEF LogoutUserLoaded, Continue, Goto, IInv, TypeOK, NotAdmitted
<1>16. ASSUME NEW r \in Requests, LogoutSweep(r) PROVE NotAdmitted
  BY <1>16 DEF LogoutSweep, Continue, Goto, IInv, TypeOK, NotAdmitted
<1>17. ASSUME NEW r \in Requests, LogoutForget(r) PROVE NotAdmitted
  BY <1>17 DEF LogoutForget, Continue, Goto, IInv, TypeOK, NotAdmitted
<1>18. ASSUME NEW r \in Requests, LogoutRevoke(r) PROVE NotAdmitted
  BY <1>18 DEF LogoutRevoke, Continue, Goto, IInv, TypeOK, NotAdmitted
<1>19. ASSUME NEW r \in Requests, LogoutRevokeSwallowed(r) PROVE NotAdmitted
  BY <1>19 DEF LogoutRevokeSwallowed, Continue, Goto, IInv, TypeOK, NotAdmitted
<1>20. ASSUME NEW r \in Requests, LogoutDeactivate(r) PROVE NotAdmitted
  BY <1>20 DEF LogoutDeactivate, Continue, Goto, IInv, TypeOK, NotAdmitted
<1>21. ASSUME NEW r \in Requests, Commit(r) PROVE NotAdmitted
  BY <1>21 DEF Commit, Continue, Goto, IInv, TypeOK, NotAdmitted
<1>22. ASSUME NEW r \in Requests, Rollback(r) PROVE NotAdmitted
  BY <1>22 DEF Rollback, End, Goto, IInv, TypeOK, NotAdmitted
<1>23. ASSUME NEW r \in Requests, Reply(r) PROVE NotAdmitted
  BY <1>23 DEF Reply, End, Goto, IInv, TypeOK, NotAdmitted
<1>24. ASSUME NEW r \in Requests, CallFails(r) PROVE NotAdmitted
  BY <1>24 DEF CallFails, Fails, Goto, IInv, TypeOK, NotAdmitted
<1>25. ASSUME NEW r \in Requests, RevokeFails(r) PROVE NotAdmitted
  BY <1>25 DEF RevokeFails, Fails, Continue, Goto, IInv, TypeOK, NotAdmitted
<1>26. ASSUME NEW r \in Requests, AnswerLost(r) PROVE NotAdmitted
  BY <1>26 DEF AnswerLost, Fails, End, Goto, IInv, TypeOK, NotAdmitted
<1>27. ASSUME NEW t \in Token, Age(t) PROVE NotAdmitted
  BY <1>27 DEF Age, IInv, TypeOK, NotAdmitted
<1>28. ASSUME NEW t \in Token, BlacklistLapses(t) PROVE NotAdmitted
  BY <1>28 DEF BlacklistLapses, IInv, TypeOK, NotAdmitted
<1>29. ASSUME NEW u \in Users, PhoneVerified(u) PROVE NotAdmitted
  BY <1>29 DEF PhoneVerified, WriteStatus, IInv, TypeOK, NotAdmitted
<1>30. ASSUME NEW u \in Users, AdminSetStatus(u) PROVE NotAdmitted
  BY <1>30 DEF AdminSetStatus, WriteStatus, IInv, TypeOK, NotAdmitted
<1>31. CASE UNCHANGED vars
  BY <1>31 DEF vars, NotAdmitted
<1> QED
  BY <1>1, <1>2, <1>3, <1>4, <1>5, <1>6, <1>7, <1>8, <1>9, <1>10, <1>11,
       <1>12, <1>13, <1>14, <1>15, <1>16, <1>17, <1>18, <1>19, <1>20, <1>21,
       <1>22, <1>23, <1>24, <1>25, <1>26, <1>27, <1>28, <1>29, <1>30, <1>31
       DEF Next, LoginStep, RefreshStep, LogoutStep, Handle, Environment

\* A spent refresh token admits no later request while it is valid.
THEOREM SpentTokenNotAdmittedAlways == Spec => SpentTokenNotAdmitted
<1>1. IInv /\ [Next]_vars => [NotAdmitted]_vars
  BY SpentStepAction
<1>2. [][NotAdmitted]_vars => SpentTokenNotAdmitted
  BY PTL DEF SpentTokenNotAdmitted, NotAdmitted
<1> QED
  BY <1>1, <1>2, Invariance, PTL DEF Spec
=============================================================================
