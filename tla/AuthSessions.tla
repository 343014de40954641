---------------------------- MODULE AuthSessions ----------------------------
(***************************************************************************)
(* Sessions of the authentication service: login, refresh and logout as    *)
(* AuthService (app/services/auth_service.py) performs them for requests   *)
(* that run concurrently in the worker processes, over one PostgreSQL      *)
(* database and one Redis.                                                 *)
(*                                                                         *)
(* One action is what a request does between two awaits on the database or *)
(* Redis; the pc of a request names the call it makes next.  What a        *)
(* request has written in its transaction is in pend until get_db commits  *)
(* or rolls back; what it has written in Redis is there at once and stays. *)
(*                                                                         *)
(* A login mints an access and a refresh token: they share the identifier  *)
(* of the session, and <<"refresh", i>> stands for the JWT, its jti and    *)
(* its SHA-256 hash.  Users of this module have no MFA method, so that     *)
(* mfa_configs is empty and login never branches to an MFA challenge.      *)
(***************************************************************************)
EXTENDS Naturals, FiniteSets

CONSTANTS
  Users,                 \* registered users, one phone each
  Requests,              \* slots of concurrent requests
  Ids,                   \* identifiers of sessions; bounds the logins and refreshes
  None,                  \* no user, no identifier, no token
  PASSWORD_MAX_ATTEMPTS, \* wrong passwords after which an account is locked
  AdminStatuses,         \* statuses an external administrator sets ({}: no such actor)
  MaxWrong,              \* bound: wrong passwords tried per user
  MaxAges,               \* bound: steps of token ageing
  MaxFaults              \* bound: failures of the database, Redis or the connection

ASSUME NoneAssumption == None \notin Users \cup Ids
ASSUME AttemptsAssumption == PASSWORD_MAX_ATTEMPTS \in Nat \ {0}
ASSUME BoundsAssumption == MaxAges \in Nat /\ MaxFaults \in Nat
ASSUME AdminAssumption ==
  AdminStatuses \subseteq {"ACTIVE", "SUSPENDED", "DEACTIVATED"}

VARIABLES
  accounts,   \* users rows, committed
  sessions,   \* user_sessions rows, committed: <<user, id>>
  inactive,   \* ids of the user_sessions rows whose is_active is FALSE
  audit,      \* audit_logs rows, committed: <<action, user, id>>
  blacklist,  \* Redis auth:blacklist:{jti}: tokens
  registry,   \* Redis auth:user_sessions:{user}: ids
  pc,         \* the call a request makes next
  req,        \* its arguments and locals
  pend,       \* its uncommitted writes
  life,       \* how far a token is from the end of its acceptance
  used,       \* identifiers drawn so far
  held,       \* history: token pairs clients have received
  spent,      \* history: tokens whose blacklisting was acknowledged
  wrong,      \* history: wrong passwords answered since the last login
  budget      \* what is left of MaxAges and MaxFaults

database == <<accounts, sessions, inactive, audit>>
redis    == <<blacklist, registry>>
clients  == <<held, wrong>>
vars     == <<accounts, sessions, inactive, audit, blacklist, registry,
              pc, req, pend, life, used, held, spent, wrong, budget>>

Statuses == {"PENDING_VERIFICATION", "ACTIVE", "SUSPENDED", "DEACTIVATED"}

\* LOCKED and locked_until are written together with failed_login_attempts and
\* read through is_locked only: they are the counter having reached its maximum.
Account == [status : Statuses, phone_verified : BOOLEAN, failed : Nat]

Session == Users \X Ids
Token == {"access", "refresh"} \X Ids

AuditAction == {"LOGIN_SUCCESS", "LOGIN_FAILED", "ACCOUNT_LOCKED",
                "TOKEN_REFRESHED", "LOGOUT"}
AuditRow == AuditAction \X (Users \cup {None}) \X (Ids \cup {None})

Calls == {"idle", "load", "blacklist", "flush", "register", "user", "sweep",
          "forget", "revoke", "deactivate", "commit", "raise", "reply"}

\* user, token: whom the request is for, the refresh token it presents;
\* id: the session it creates; all: all_devices; eager: whether mfa_configs
\* came with the user row; before: (history) rows committed when it began.
Locals == [op : {"none", "login", "refresh", "logout"},
           user : Users \cup {None}, token : Token \cup {None},
           id : Ids \cup {None}, all : BOOLEAN, eager : BOOLEAN,
           before : SUBSET Session]

\* failed: empty, or the value the transaction writes in failed_login_attempts.
Writes == [rows : SUBSET Session, inactive : SUBSET Ids,
           audit : SUBSET AuditRow, failed : SUBSET Nat]

Idle == [op |-> "none", user |-> None, token |-> None, id |-> None,
         all |-> FALSE, eager |-> FALSE, before |-> {}]
NoWrites == [rows |-> {}, inactive |-> {}, audit |-> {}, failed |-> {}]

TypeOK ==
  /\ accounts \in [Users -> Account]
  /\ sessions \subseteq Session
  /\ inactive \subseteq Ids
  /\ audit \subseteq AuditRow
  /\ blacklist \subseteq Token
  /\ registry \in [Users -> SUBSET Ids]
  /\ pc \in [Requests -> Calls]
  /\ req \in [Requests -> Locals]
  /\ pend \in [Requests -> Writes]
  /\ life \in [Token -> {"valid", "closing", "expired"}]
  /\ used \subseteq Ids
  /\ held \subseteq Session
  /\ spent \subseteq Token
  /\ wrong \in [Users -> Nat]
  /\ budget \in [ages : Nat, faults : Nat]

Init ==
  /\ accounts \in [Users -> {[status |-> "PENDING_VERIFICATION",
                              phone_verified |-> FALSE, failed |-> 0],
                             [status |-> "ACTIVE",
                              phone_verified |-> TRUE, failed |-> 0]}]
  /\ sessions = {} /\ inactive = {} /\ audit = {}
  /\ blacklist = {} /\ registry = [u \in Users |-> {}]
  /\ pc = [r \in Requests |-> "idle"]
  /\ req = [r \in Requests |-> Idle]
  /\ pend = [r \in Requests |-> NoWrites]
  /\ life = [t \in Token |-> "valid"]
  /\ used = {} /\ held = {} /\ spent = {}
  /\ wrong = [u \in Users |-> 0]
  /\ budget = [ages |-> MaxAges, faults |-> MaxFaults]

-----------------------------------------------------------------------------
\* Request bookkeeping.

Goto(r, call) == pc' = [pc EXCEPT ![r] = call]

Begin(r, locals, call) ==
  /\ pc[r] = "idle"
  /\ req' = [req EXCEPT ![r] = locals]
  /\ Goto(r, call)

Continue(r, at, call) ==
  /\ pc[r] = at
  /\ Goto(r, call)
  /\ UNCHANGED req

LogAudit(r, action, u, i) ==
  pend' = [pend EXCEPT ![r].audit = @ \cup {<<action, u, i>>}]

\* secrets.token_urlsafe and uuid4 never repeat.  The identifiers of a session
\* are drawn when its request is admitted; nobody reads them before the flush.
Draw(i) == i \notin used /\ used' = used \cup {i}

HeldTokens == {t \in Token : \E s \in held : s[2] = t[2]}

\* decode_token: the signature is good, and jose still accepts exp.
Decodes(t) == life[t] # "expired"

IsLocked(u) == accounts[u].failed >= PASSWORD_MAX_ATTEMPTS

-----------------------------------------------------------------------------
\* POST /login.  SELECT and every test after it run without another await.

Login(u) == [Idle EXCEPT !.op = "login", !.user = u, !.eager = TRUE]

\* Mutant of LoginRefusedStatus: login forgets the test of phone_verified.
LoginRefusedStatusNoPhone(u) == accounts[u].status \in {"SUSPENDED", "DEACTIVATED"}

LoginRefusedStatus(u) ==
  \/ accounts[u].status \in {"SUSPENDED", "DEACTIVATED"}
  \/ ~accounts[u].phone_verified

LoginUnknownPhone(r) ==
  /\ Begin(r, Login(None), "raise")
  /\ LogAudit(r, "LOGIN_FAILED", None, None)
  /\ UNCHANGED <<database, redis, life, used, clients, spent, budget>>

LoginRefused(r, u) ==
  /\ IsLocked(u) \/ LoginRefusedStatus(u)
  /\ Begin(r, Login(u), "raise")
  /\ UNCHANGED <<database, redis, pend, life, used, clients, spent, budget>>

\* _handle_failed_login changes the loaded object; login then raises.
LoginWrongPassword(r, u) ==
  /\ ~IsLocked(u)
  /\ wrong[u] < MaxWrong
  /\ Begin(r, Login(u), "raise")
  /\ LET n == accounts[u].failed + 1
         actions == {"LOGIN_FAILED"} \cup
                    IF n >= PASSWORD_MAX_ATTEMPTS THEN {"ACCOUNT_LOCKED"} ELSE {}
     IN pend' = [pend EXCEPT ![r].failed = {n},
                             ![r].audit = actions \X {u} \X {None}]
  /\ UNCHANGED <<database, redis, life, used, clients, spent, budget>>

LoginGranted(r, u) ==
  /\ ~IsLocked(u) /\ ~LoginRefusedStatus(u)
  /\ \E i \in Ids :
       /\ Draw(i)
       /\ Begin(r, [Login(u) EXCEPT !.id = i], "flush")
  /\ UNCHANGED <<database, redis, pend, life, clients, spent, budget>>

-----------------------------------------------------------------------------
\* POST /refresh: decode, test the type, ask Redis; then load the user.

Refresh(s, t) ==
  [Idle EXCEPT !.op = "refresh", !.user = s[1], !.token = t]

RefreshRefused(r, s, t) ==
  /\ \/ ~Decodes(t)
     \/ t[1] # "refresh"
     \/ t \in blacklist
  /\ Begin(r, Refresh(s, t), "raise")
  /\ UNCHANGED <<database, redis, pend, life, used, clients, spent, budget>>

RefreshAdmitted(r, s, t) ==
  /\ Decodes(t)
  /\ t[1] = "refresh"
  /\ t \notin blacklist
  /\ \E i \in Ids :
       /\ Draw(i)
       /\ Begin(r, [Refresh(s, t) EXCEPT !.id = i], "load")
  /\ UNCHANGED <<database, redis, pend, life, clients, spent, budget>>

\* The user row exists and nothing ever writes its is_active flag; the query
\* has no selectinload, so eager stays FALSE.
RefreshLoad(r) ==
  /\ Continue(r, "load", "blacklist")
  /\ UNCHANGED <<database, redis, pend, life, used, clients, spent, budget>>

Blacklist(t) == blacklist' = blacklist \cup {t}

\* Mutant of RefreshBlacklist: the jti of the new refresh token is blacklisted.
RefreshBlacklistNew(r) ==
  /\ Continue(r, "blacklist", "flush")
  /\ Blacklist(<<"refresh", req[r].id>>)
  /\ spent' = spent \cup {req[r].token}
  /\ LogAudit(r, "TOKEN_REFRESHED", req[r].user, None)
  /\ UNCHANGED <<database, registry, life, used, clients, budget>>

RefreshBlacklist(r) ==
  /\ Continue(r, "blacklist", "flush")
  /\ Blacklist(req[r].token)
  /\ spent' = spent \cup {req[r].token}
  /\ LogAudit(r, "TOKEN_REFRESHED", req[r].user, None)
  /\ UNCHANGED <<database, registry, life, used, clients, budget>>

\* In the last second int(exp - now) is 0, and SETEX refuses a TTL of 0.
RefreshTooLate(r) ==
  /\ Continue(r, "blacklist", "raise")
  /\ life[req[r].token] # "valid"
  /\ UNCHANGED <<database, redis, pend, life, used, clients, spent, budget>>

-----------------------------------------------------------------------------
\* _create_session, at the end of a login or a refresh.

\* Mutant of HoldsRow: the user row is locked FOR SHARE when it is loaded.
HoldsRowShared(r, u) ==
  /\ req[r].user = u
  /\ pc[r] \in {"flush", "register", "commit", "raise"}

\* A flushed UPDATE of the users row holds its lock until the transaction ends.
HoldsRow(r, u) ==
  /\ req[r].user = u
  /\ pend[r].rows # {}
  /\ pc[r] # "reply"

Waits(r) == pc[r] = "flush" /\ \E q \in Requests \ {r} : HoldsRow(q, req[r].user)

\* Mutant of CreateSessionFlush: commit instead of flush.
CreateSessionCommitted(r) ==
  LET u == req[r].user IN
  /\ Continue(r, "flush", "register")
  /\ ~Waits(r)
  /\ sessions' = sessions \cup {<<u, req[r].id>>}
  /\ pend' = [pend EXCEPT ![r].rows = {<<u, req[r].id>>}, ![r].failed = {0}]
  /\ UNCHANGED <<accounts, inactive, audit, redis, life, used, clients, spent, budget>>

\* Mutant of CreateSessionFlush: the user row is locked FOR SHARE when it is
\* loaded, so that two logins wait for each other.
CreateSessionAfterShare(r) ==
  LET u == req[r].user IN
  /\ Continue(r, "flush", "register")
  /\ \A q \in Requests \ {r} : req[q].user # u
  /\ pend' = [pend EXCEPT ![r].rows = {<<u, req[r].id>>}, ![r].failed = {0}]
  /\ UNCHANGED <<database, redis, life, used, clients, spent, budget>>

CreateSessionFlush(r) ==
  LET u == req[r].user IN
  /\ Continue(r, "flush", "register")
  /\ ~Waits(r)
  /\ pend' = [pend EXCEPT ![r].rows = {<<u, req[r].id>>}, ![r].failed = {0}]
  /\ UNCHANGED <<database, redis, life, used, clients, spent, budget>>

\* Mutant of CreateSessionRegister: SADD of the user's id instead of the session's.
CreateSessionRegisterUser(r) ==
  LET u == req[r].user IN
  /\ Continue(r, "register", IF req[r].eager THEN "commit" ELSE "raise")
  /\ registry' = [registry EXCEPT ![u] = @ \cup {u}]
  /\ LogAudit(r, "LOGIN_SUCCESS", u, req[r].id)
  /\ UNCHANGED <<database, blacklist, life, used, clients, spent, budget>>

\* DEL of the attempts key (nothing ever sets it), SADD, EXPIRE; the audit row;
\* then UserPublicProfile reads user.mfa_configs, which raises under asyncio
\* (MissingGreenlet) unless the collection came with the row.
CreateSessionRegister(r) ==
  LET u == req[r].user
      i == req[r].id
  IN
  /\ Continue(r, "register", IF req[r].eager THEN "commit" ELSE "raise")
  /\ registry' = [registry EXCEPT ![u] = @ \cup {i}]
  /\ LogAudit(r, "LOGIN_SUCCESS", u, i)
  /\ UNCHANGED <<database, blacklist, life, used, clients, spent, budget>>

-----------------------------------------------------------------------------
\* POST /logout: get_current_user on the access token of session s, then
\* logout with the refresh_token field of the body (None: no such field).

Logout(s, t, all) ==
  [Idle EXCEPT !.op = "logout", !.user = s[1], !.token = t, !.all = all,
               !.before = sessions]

LogoutUnauthorized(r, s) ==
  LET t == <<"access", s[2]>> IN
  /\ ~Decodes(t) \/ t \in blacklist
  /\ Begin(r, Logout(s, None, FALSE), "raise")
  /\ UNCHANGED <<database, redis, pend, life, used, clients, spent, budget>>

LogoutBegin(r, s, t, all) ==
  LET a == <<"access", s[2]>> IN
  /\ Decodes(a) /\ a \notin blacklist
  /\ Begin(r, Logout(s, t, all), "user")
  /\ UNCHANGED <<database, redis, pend, life, used, clients, spent, budget>>

\* A suspended user is refused; a deactivated one is not.
LogoutSuspended(r) ==
  /\ Continue(r, "user", "raise")
  /\ accounts[req[r].user].status = "SUSPENDED"
  /\ UNCHANGED <<database, redis, pend, life, used, clients, spent, budget>>

\* The audit row of a logout is added after its last call, before the commit.
LogoutAudited(r) == LogAudit(r, "LOGOUT", req[r].user, None)

LogoutUserLoaded(r) ==
  /\ pc[r] = "user"
  /\ accounts[req[r].user].status # "SUSPENDED"
  /\ \/ /\ req[r].all
        /\ Continue(r, "user", "sweep")
        /\ UNCHANGED pend
     \/ /\ ~req[r].all /\ req[r].token # None
        /\ Continue(r, "user", "revoke")
        /\ UNCHANGED pend
     \/ /\ ~req[r].all /\ req[r].token = None
        /\ Continue(r, "user", "commit")
        /\ LogoutAudited(r)
  /\ UNCHANGED <<database, redis, life, used, clients, spent, budget>>

\* Mutant of LogoutSweep: only the sessions the registry lists.
LogoutSweepRegistered(r) ==
  /\ Continue(r, "sweep", "forget")
  /\ pend' = [pend EXCEPT ![r].inactive = registry[req[r].user]]
  /\ UNCHANGED <<database, redis, life, used, clients, spent, budget>>

\* Mutant of LogoutSweep: the UPDATE runs in autocommit mode.
LogoutSweepAutocommit(r) ==
  /\ Continue(r, "sweep", "forget")
  /\ inactive' = inactive \cup {i \in Ids : <<req[r].user, i>> \in sessions}
  /\ UNCHANGED <<accounts, sessions, audit, pend, redis, life, used, clients,
                 spent, budget>>

\* UPDATE user_sessions: every committed, active row of the user.
LogoutSweep(r) ==
  LET u == req[r].user IN
  /\ Continue(r, "sweep", "forget")
  /\ pend' = [pend EXCEPT ![r].inactive =
                 {i \in Ids \ inactive : <<u, i>> \in sessions}]
  /\ UNCHANGED <<database, redis, life, used, clients, spent, budget>>

LogoutForget(r) ==
  /\ Continue(r, "forget", "commit")
  /\ registry' = [registry EXCEPT ![req[r].user] = {}]
  /\ LogoutAudited(r)
  /\ UNCHANGED <<database, blacklist, life, used, clients, spent, budget>>

LogoutRevoke(r) ==
  /\ Continue(r, "revoke", "deactivate")
  /\ Decodes(req[r].token)
  /\ Blacklist(req[r].token)
  /\ spent' = spent \cup {req[r].token}
  /\ UNCHANGED <<database, registry, pend, life, used, clients, budget>>

\* The JWTError of an expired token and the error of a SETEX with TTL 0 are
\* swallowed: the request goes on as if it had revoked the token.
LogoutRevokeSwallowed(r) ==
  /\ Continue(r, "revoke", "commit")
  /\ life[req[r].token] # "valid"
  /\ LogoutAudited(r)
  /\ UNCHANGED <<database, redis, life, used, clients, spent, budget>>

\* UPDATE user_sessions WHERE refresh_token_hash: an access token has no row.
LogoutDeactivate(r) ==
  LET t == req[r].token IN
  /\ Continue(r, "deactivate", "commit")
  /\ pend' = [pend EXCEPT
       ![r].inactive = {i \in Ids : /\ t = <<"refresh", i>>
                                    /\ \E u \in Users : <<u, i>> \in sessions},
       ![r].audit = @ \cup {<<"LOGOUT", req[r].user, None>>}]
  /\ UNCHANGED <<database, redis, life, used, clients, spent, budget>>

-----------------------------------------------------------------------------
\* get_db around every request: commit when the handler returns, before the
\* answer is sent; rollback when it raises.  Redis is never rolled back.

Commit(r) ==
  LET w == pend[r] IN
  /\ Continue(r, "commit", "reply")
  /\ sessions' = sessions \cup w.rows
  /\ inactive' = inactive \cup w.inactive
  /\ audit' = audit \cup w.audit
  /\ accounts' = [u \in Users |->
       IF u = req[r].user /\ w.failed # {}
       THEN [accounts[u] EXCEPT !.failed = CHOOSE n \in w.failed : TRUE]
       ELSE accounts[u]]
  /\ UNCHANGED <<redis, pend, life, used, clients, spent, budget>>

End(r) ==
  /\ Goto(r, "idle")
  /\ req' = [req EXCEPT ![r] = Idle]
  /\ pend' = [pend EXCEPT ![r] = NoWrites]

FailedLogin(r, u) == <<"LOGIN_FAILED", u, None>> \in pend[r].audit

Rollback(r) ==
  /\ pc[r] = "raise"
  /\ End(r)
  /\ wrong' = [u \in Users |-> IF FailedLogin(r, u) THEN wrong[u] + 1 ELSE wrong[u]]
  /\ UNCHANGED <<database, redis, life, used, held, spent, budget>>

\* The answer arrives; TokenResponse carries the pair of the new session.
Reply(r) ==
  /\ pc[r] = "reply"
  /\ End(r)
  /\ held' = held \cup pend[r].rows
  /\ wrong' = [u \in Users |-> IF \E i \in Ids : <<u, i>> \in pend[r].rows
                                THEN 0 ELSE wrong[u]]
  /\ UNCHANGED <<database, redis, life, used, spent, budget>>

-----------------------------------------------------------------------------
\* What fails: the database, Redis, the worker process or the connection.

Fails(r) ==
  /\ budget.faults > 0
  /\ budget' = [budget EXCEPT !.faults = @ - 1]
  /\ UNCHANGED <<database, registry, life, used, clients, spent>>

\* Mutant of CallFails: get_db does not raise again after the rollback.
CallFailsSilently(r) ==
  /\ Fails(r)
  /\ pc[r] \notin {"idle", "raise", "reply", "revoke"}
  /\ Goto(r, IF pc[r] = "commit" THEN "reply" ELSE "raise")
  /\ UNCHANGED <<req, pend, blacklist>>

\* A call fails, after or before its effect: the handler raises.
CallFails(r) ==
  /\ Fails(r)
  /\ pc[r] \notin {"idle", "raise", "reply", "revoke"}
  /\ Goto(r, "raise")
  /\ UNCHANGED <<req, pend, blacklist>>

\* "Best-effort logout": the SETEX may have reached Redis or not.
RevokeFails(r) ==
  /\ Fails(r)
  /\ Continue(r, "revoke", "commit")
  /\ LogoutAudited(r)
  /\ blacklist' \in {blacklist, blacklist \cup {req[r].token}}

\* The answer is lost after the commit.
AnswerLost(r) ==
  /\ Fails(r)
  /\ pc[r] = "reply"
  /\ End(r)
  /\ UNCHANGED blacklist

-----------------------------------------------------------------------------
\* Time.  A token is closing for the last two seconds it is accepted: jose
\* compares whole seconds and the TTL of a blacklist entry is rounded down, so
\* that the entry may lapse while the token is still accepted.

Age(t) ==
  /\ t \in HeldTokens
  /\ life[t] # "expired"
  /\ budget.ages > 0
  /\ budget' = [budget EXCEPT !.ages = @ - 1]
  /\ life' = [life EXCEPT ![t] = IF @ = "valid" THEN "closing" ELSE "expired"]
  /\ UNCHANGED <<database, redis, pc, req, pend, used, clients, spent>>

\* Mutant of BlacklistLapses: an entry lives as long as an access token does.
BlacklistLapsesEarly(t) ==
  /\ t \in blacklist
  /\ t[1] = "refresh" \/ life[t] # "valid"
  /\ blacklist' = blacklist \ {t}
  /\ UNCHANGED <<database, registry, pc, req, pend, life, used, clients, spent, budget>>

BlacklistLapses(t) ==
  /\ t \in blacklist
  /\ life[t] # "valid"
  /\ blacklist' = blacklist \ {t}
  /\ UNCHANGED <<database, registry, pc, req, pend, life, used, clients, spent, budget>>

-----------------------------------------------------------------------------
\* Other writers of a users row; both wait for its lock.

WriteStatus(u, account) ==
  /\ \A r \in Requests : ~HoldsRow(r, u)
  /\ accounts' = [accounts EXCEPT ![u] = account]
  /\ UNCHANGED <<sessions, inactive, audit, redis, pc, req, pend, life, used,
                 clients, spent, budget>>

\* A committed verify_otp of purpose phone_verify, whatever the status was.
PhoneVerified(u) ==
  WriteStatus(u, [accounts[u] EXCEPT !.phone_verified = TRUE, !.status = "ACTIVE"])

\* External: an administrator (AdminUpdateUserRequest has no endpoint here).
AdminSetStatus(u) ==
  \E s \in AdminStatuses : WriteStatus(u, [accounts[u] EXCEPT !.status = s])

-----------------------------------------------------------------------------
LoginStep(r) ==
  \/ LoginUnknownPhone(r)
  \/ \E u \in Users :
       LoginRefused(r, u) \/ LoginWrongPassword(r, u) \/ LoginGranted(r, u)

\* A client presents tokens it has received.
RefreshStep(r) ==
  \E s \in held : \E t \in {"access", "refresh"} \X {s[2]} :
    RefreshRefused(r, s, t) \/ RefreshAdmitted(r, s, t)

LogoutStep(r) ==
  \E s \in held :
    \/ LogoutUnauthorized(r, s)
    \/ LogoutBegin(r, s, None, TRUE)   \* with all_devices the token is not read
    \/ \E t \in HeldTokens \cup {None} : LogoutBegin(r, s, t, FALSE)

\* The steps a request takes once it has begun, but for the one that may wait.
Handle(r) ==
  \/ RefreshLoad(r) \/ RefreshBlacklist(r) \/ RefreshTooLate(r)
  \/ CreateSessionRegister(r)
  \/ LogoutSuspended(r) \/ LogoutUserLoaded(r) \/ LogoutSweep(r) \/ LogoutForget(r)
  \/ LogoutRevoke(r) \/ LogoutRevokeSwallowed(r) \/ LogoutDeactivate(r)
  \/ Commit(r) \/ Rollback(r) \/ Reply(r)

Environment ==
  \/ \E t \in Token : Age(t) \/ BlacklistLapses(t)
  \/ \E u \in Users : PhoneVerified(u) \/ AdminSetStatus(u)

Next ==
  \/ \E r \in Requests :
       \/ LoginStep(r) \/ RefreshStep(r) \/ LogoutStep(r)
       \/ Handle(r) \/ CreateSessionFlush(r)
       \/ CallFails(r) \/ RevokeFails(r) \/ AnswerLost(r)
  \/ Environment

Spec == Init /\ [][Next]_vars

\* The event loop resumes every coroutine whose await has returned; PostgreSQL
\* queues the waiters of a row lock.  Nothing makes clients, time or faults act.
Fairness == \A r \in Requests :
  WF_vars(Handle(r)) /\ SF_vars(CreateSessionFlush(r))

FairSpec == Spec /\ Fairness

-----------------------------------------------------------------------------
(* Safety *)

\* get_db commits before FastAPI sends the answer, so a token pair a client
\* has received belongs to a committed session row and a committed audit row.
DeliveredBacked ==
  \A s \in held : s \in sessions /\ <<"LOGIN_SUCCESS", s[1], s[2]>> \in audit

\* The success rows in a set of audit rows are those of a set of sessions.
Matches(rows, log) ==
  \A u \in Users, i \in Ids : <<u, i>> \in rows <=> <<"LOGIN_SUCCESS", u, i>> \in log

\* The session row and its LOGIN_SUCCESS audit row are written by two flushes
\* with Redis calls between them, yet they are committed together or not at all.
AuditMatchesSessions == Matches(sessions, audit)

\* No session is ever created for a user whose phone was not verified: login
\* tests the flag, and refresh, which does not, starts from a login's token.
SessionsOfVerifiedPhones ==
  \A s \in sessions : accounts[s[1]].phone_verified

\* A request that has flushed a session keeps the users row over its Redis calls
\* and its commit or rollback, and needs no other row: whoever waits for the row,
\* its holder can go on.
HolderRuns ==
  \A r \in Requests : Waits(r) =>
    \E o \in Requests : HoldsRow(o, req[r].user) /\ ~Waits(o)

\* When "Logged out from all devices" is answered, every session that was
\* committed when the request began is inactive, whatever ran beside it.
ForcedLogoutComplete ==
  \A r \in Requests :
    pc[r] = "reply" /\ req[r].op = "logout" /\ req[r].all =>
      \A s \in req[r].before : s[1] = req[r].user => s[2] \in inactive

\* Once Redis has acknowledged the blacklisting of a refresh token, by a refresh
\* or by a logout, no later request is admitted with it, until the last two
\* seconds of its life; a rollback of the request that spent it changes nothing.
SpentTokenNotAdmitted ==
  [][\A r \in Requests :
       pc[r] = "idle" /\ pc'[r] = "load" =>
         ~(req'[r].token \in spent /\ life[req'[r].token] = "valid")]_vars

(* Refinement of RequestUnit *)

Facts == ({"session"} \X Session) \cup ({"inactive"} \X Ids) \cup ({"audit"} \X AuditRow)

FactsOf(rows, ids, log) ==
  ({"session"} \X rows) \cup ({"inactive"} \X ids) \cup ({"audit"} \X log)

PhaseOf(call) == CASE call = "idle"  -> "closed"
                   [] call = "reply" -> "committed"
                   [] OTHER          -> "open"

phaseBar   == [r \in Requests |-> PhaseOf(pc[r])]
pendingBar == [r \in Requests |->
                 FactsOf(pend[r].rows, pend[r].inactive, pend[r].audit)]
storeBar   == FactsOf(sessions, inactive, audit)
toldBar    == FactsOf(held, {}, {})

Unit == INSTANCE RequestUnit WITH
  phase <- phaseBar, pending <- pendingBar, store <- storeBar, told <- toldBar

\* Login, refresh and logout keep the promise of RequestUnit: a transaction
\* reaches the database whole, at its commit, and clients are told after it.
UnitOfWork == Unit!Spec

(* Refinement of Revocation *)

\* The refresh token a request was admitted with, until it is blacklisted or the
\* request has failed.
admittedBar ==
  [r \in Requests |-> IF pc[r] \in {"load", "blacklist"} THEN req[r].token ELSE None]

Contract == INSTANCE Revocation WITH
  Tokens <- Token, listed <- blacklist, revoked <- spent, admitted <- admittedBar

\* Refreshes that overlap, that fail after the blacklisting and whose writes are
\* rolled back keep the promise of Revocation.
RevocationKept == Contract!Spec

(* Liveness *)

\* Every request that begins is answered or dropped, although the flush of a
\* session may wait for the users row another request holds over Redis calls.
EveryRequestAnswered ==
  \A r \in Requests : (pc[r] # "idle") ~> (pc[r] = "idle")

(* Expectations of the documentation, which the code does not meet *)

Quiet == \A r \in Requests : pc[r] = "idle"

\* "Increment failed attempts and lock account if threshold exceeded."
LockoutTakesEffect ==
  \A u \in Users : Quiet /\ wrong[u] >= PASSWORD_MAX_ATTEMPTS => IsLocked(u)

\* "Enables multi-device session management and forced logout."
ForcedLogoutRefused ==
  [][\A r \in Requests :
       pc[r] = "idle" /\ pc'[r] = "load" => req'[r].token[2] \notin inactive]_vars

\* "Exchange a valid refresh token for new access + refresh tokens (rotation)."
RefreshExchanges ==
  \A r \in Requests : (pc[r] = "blacklist") ~> (pc[r] = "reply")
=============================================================================
