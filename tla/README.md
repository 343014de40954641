# Verification of the QonnaGPT authentication backend

TLA+ specifications of the authentication service in this repository, the TLC
runs that model-check them and the proofs TLAPS checks. `PROJECT.json` lists
the components, the runs, the mutants, the source lines of every definition,
the findings, the hazards and the theorems.

A module `M` is parsed with `tlasany M.tla`, an instance is checked with
`tlc -config X.cfg MCModule.tla`, a proof with `tlapm M.tla`.

## 1. The system

A FastAPI application runs in four worker processes (`app/core/config.py`
`WORKERS`), each with one event loop. All share one PostgreSQL database
(SQLAlchemy async sessions, isolation READ COMMITTED) and one Redis. The files
import each other as `app.db.session`, `app.utils.redis_client` and
`app.utils.notification`; in the tree they lie at `app/core/session.py`,
`app/integrations/redis_client.py` and `app/integrations/notification.py`. The
paths below are those of the tree.

### Inventory

| Component | State | Operations | Correct when |
|---|---|---|---|
| Request unit, `core/session.py` `get_db` | one transaction per request | open, commit after the handler, rollback when it raises | a transaction reaches the database whole or not at all, and the client is told afterwards |
| Sessions, `services/auth_service.py`, `endpoints/auth.py` | `users`, `user_sessions`, `audit_logs`; Redis blacklist and session registry | `login`, `refresh_tokens`, `logout`, `_create_session`, `_handle_failed_login` | tokens are backed by rows, spent tokens stay spent, a forced logout reaches every session, failures are counted |
| Bearer check, `core/dependencies.py` | none | `get_current_user`, role, phone and region checks | revoked tokens and users who may not act are refused |
| One-time codes, `integrations/redis_client.py` | one Redis key per purpose and phone | `send_otp`, `verify_otp`, `confirm_password_reset` | a code is used once, guesses are bounded, the last code sent is the valid one |
| Multi-factor, `services/auth_service.py` | `mfa_configs`; Redis challenges | `setup_totp`, `confirm_totp_setup`, `_create_mfa_challenge`, `complete_mfa_login` | once enrolled the factor is required, a challenge gives one session, only confirmed secrets are active |
| Registration and passwords | `users`, `audit_logs`; the connection pool | `register`, `change_password`, the UPDATEs of `verify_otp` and `confirm_password_reset` | one user per phone, a weak password is never stored, answers are true, no SMS for a registration that failed |
| Tokens and hashing, `core/security.py` | none | JWT, TOTP, backup codes, password policy | a token is accepted for its lifetime and no longer |
| Data model, schemas | none of their own | validation, normalisation of phone numbers | one spelling per phone |
| Notification | none | SMS in a background task | a failure never reaches the request |
| Application, configuration | settings; rate counters and JWT key per process | start, stop, health, rate limiter, exception handlers | workers agree on keys |
| Migrations, tests, packaging | - | - | not part of the running system |

### How the parts interact

An endpoint gets one `AsyncSession` from `get_db` and one `RedisService`. The
handler reads rows, calls Redis, flushes writes and returns or raises; `get_db`
then commits or rolls back. Background tasks (the SMS) run after the answer.
Nothing ties Redis to the transaction: what a handler wrote there is visible at
once and survives a rollback. Two requests meet in the database (committed
rows, row locks, unique indexes) and in Redis (single commands, each atomic).

### What is hard

- **Interleaving.** Any `await` lets another request of the same worker run, and
  other workers run all the time. Redis values are read in one command and
  written back in another (attempt counter, blacklist, challenges, registry).
- **Two stores.** The handler writes Redis in the middle of a transaction whose
  end is unknown. Each such write is either too early (registry) or an effect a
  rollback leaves behind (spent token, deleted code, deleted challenge).
- **Raising as an answer.** A refusal raises, so that the writes that record it
  (failed logins, locks, audit rows) are rolled back with it.
- **Stale reads.** Status, phone flag, MFA rows and tokens are tested once and
  used several calls later.
- **Clocks.** Token lifetimes, blacklist TTLs and the TTL of codes are rounded to
  whole seconds, each in its own direction.
- **Waiting.** A flush holds the row lock of the user over Redis calls, an INSERT
  waits for the outcome of another INSERT of the same phone, and each request
  keeps a connection of a bounded pool from its first statement to its end.

`PROJECT.json` has each hazard at its line and the properties that cover it.

## 2. Modules

| Module | What it is |
|---|---|
| `RequestUnit` | abstract: what one request promises about the database; the promise `ToldStored`, proved |
| `Revocation` | abstract: what the blacklist promises about a revoked token; the promises, proved |
| `AuthSessions` | login, refresh, logout, bearer check; refines `RequestUnit` and `Revocation` |
| `MCAuthSessions` | instances of `AuthSessions` |
| `AuthSessionsProofs` | its safety properties, proved |
| `AuthSessionsImplements` | the proofs that it implements `RequestUnit` and `Revocation` |
| `Otp`, `MCOtp`, `OtpProofs` | the code of one phone and purpose; an instance; proofs |
| `Mfa`, `MCMfa`, `MfaProofs` | the second factor of one user; instances; proofs |
| `Accounts`, `MCAccounts`, `AccountsProofs` | registration, verification, password change and reset over the pool; an instance; proofs, among them that it implements `RequestUnit` |
| `Tokens`, `MCTokens`, `TokensProofs` | JWTs across workers and through time; an instance; proofs, among them that it implements `Revocation` |

The two abstract modules meet in `AuthSessions`, which has neither tables with
columns nor a clock: `RequestUnit` says what its commits mean, and `Revocation`
what its blacklist and its three stages of a token's life stand for. `Accounts`
keeps the first promise over real rows and a pool, `Tokens` the second over ticks,
TTLs and worker processes.

All modules take one action per stretch of code between two awaits. `pc[r]` is
the call a request makes next, `req[r]` its locals. Every step of the code that
writes nothing but locals before the next await is merged into the action that
precedes it. The handler's error paths are actions or disjuncts of their own.

### AuthSessions

| State | Code |
|---|---|
| `accounts` | `users`: `status`, `phone_verified`, `failed_login_attempts` |
| `sessions`, `inactive` | `user_sessions` rows; those with `is_active` FALSE |
| `audit` | `audit_logs`: action, user, session |
| `blacklist`, `registry` | Redis `auth:blacklist:{jti}`, `auth:user_sessions:{user}` |
| `pend` | what the request has flushed or added and not committed |
| `life` | `valid`; `closing` (the last two seconds); `expired` |
| `held`, `spent`, `wrong` | history: token pairs clients received, acknowledged blacklistings, wrong passwords answered |

`Login*` is `login` up to its first call, `Refresh*` is `refresh_tokens`,
`Logout*` is `get_current_user` followed by `logout`, `CreateSession*` is
`_create_session`. `Commit`, `Rollback` and `Reply` are `get_db` and the answer.
`CallFails` is a call that raises before its effect (a failure after the effect
is the same state as a failure of the next call, and after a commit it is
`AnswerLost`). `RevokeFails` is the call whose failure the code swallows. The
`except` of `logout` covers the UPDATE after it as well, but PostgreSQL aborts the
transaction of a statement that fails, so that the commit fails and the request with
it: that is `CallFails`.

Abstractions, each an over-approximation or a fact of the code:

- LOCKED and `locked_until` are written only with the counter and read only
  through `is_locked`, so an account is locked when the counter has reached its
  maximum. The end of a lock after 30 minutes is left out; no lock is ever
  committed (run `lockout`).
- Access and refresh token of a login share the identifier of the session;
  `<<"refresh", i>>` is the JWT, its `jti` and its hash.
- `eager` says whether `mfa_configs` came with the user row. Reading it
  otherwise raises `MissingGreenlet` under asyncio, which is how every refresh
  ends (run `refresh_exchange`).
- `HoldsRow` is the lock of the flushed `users` row, and `Waits` says who waits
  for it; locks of `user_sessions` rows are left out, which only adds
  interleavings.
- All workers share one JWT key (`Tokens` has the keys); the rate limiter never
  refuses.
- `AdminSetStatus` is external: `AdminUpdateUserRequest` exists, no endpoint
  uses it, so the administrator is part of the environment. `PhoneVerified` is a committed `verify_otp`, detailed in `Otp` and
  `Accounts`.

### Otp

`key` is the Redis value: code, attempts, and whether it is in the last half
second, where `TTL` answers 0. A verification is `GetOtp` (first GET), `Count`
(second GET), `AskTtl`, `StoreCount` (SETEX), then `Judge` decides: too many
attempts, wrong code, or accepted; `Discard` and `Consume` are the deletions and
`Apply`, `Commit` the transaction. `Retry` is the Redis client, which sends a command
again when its answer is late: a SETEX or DEL that Redis has executed is executed a
second time, after whatever other requests have done in between. `AfterAccepted` says what follows an accepted
code for each purpose, with the refusal of a weak password. Attempts beyond the
maximum saturate, since nothing tells them apart. `tried` counts the guesses
that were compared with a code seen before its last half second.

What overlapping verifications can break is recorded, so that the properties say
exactly how far the code goes: `shared` holds the codes that two verifications in
flight had both read, and from then on `tried` and `uses` do not count them;
`raced` holds the codes that were sent while a count was waiting to be written
back, `crossed` those that were sent while a verification was at any of its calls to
Redis: these alone can meet another code in one verification, and be deleted by
it. Two requests with one shared code are both accepted, and each lost
increment of a shared code is a free guess. Everything else (sends, failures,
late and repeated writes, verifications of another code) leaves the properties alone.
`SendOtp` is one step: a SETEX of `send_otp` that is repeated before its answer would
restore a code that was guessed at in the meantime, with its attempts at 0, and is not
modelled. In the other modules a repeated command changes nothing the properties see:
a GET, EXISTS or SADD, the DEL of a challenge (which never comes back), the SETEX of a
blacklist entry (which only lasts longer), the SETEX and DEL of a code in `Accounts`
(`SendOtp` and `CodeEnds` may come at any time); the DEL of the session registry may
take entries with it that were added in between, and nothing reads them.

### Mfa

`config` is the user's TOTP row, `challenges` the keys in Redis, `told` the
secrets and challenges the user has received: only those can be presented.
`SetupWrite` and `ConfirmWrite` write the columns the ORM has changed and leave
the others as they are at the commit; `SetupConflict` is the unique index. The
creation of the session is one call here and detailed in `AuthSessions`. TOTP is
the only method that can be enrolled, so the branch for SMS is never taken;
backup codes are generated and never accepted. A code is of a secret or wrong:
the time window is left out, and with it the replay of a code. `shared` holds the
challenges that two requests in flight had both read; only these can give more
than one session. Once one of them is committed, `ReplayRefused` makes no exception:
no request that presents the challenge afterwards is admitted, and each of those that
had read it before deletes it again and never writes it. The secret of a setup whose
answer is lost stays in the row, and the user has never seen it; nothing in the
repository says otherwise, so no property is about it.

### Accounts

| State | Code |
|---|---|
| `pool` | `pool_size` + `max_overflow` of the engine, drawn once |
| `users`, `audit` | tables `users` (phone, password, `phone_verified`) and `audit_logs`, committed |
| `codes` | the Redis keys of codes that are there; how one is guessed is in `Otp` |
| `pc`, `req` | the next call, and the arguments, the user loaded or created and the rows written |
| `passwords`, `told`, `texted` | history: passwords a row has held, what answers said, SMS sent |

`Register*` is `register` of the service and of the endpoint (SELECT, INSERT,
SETEX, then commit, answer and SMS); `Change*` is `get_current_user`,
`require_verified_phone` and `change_password`; `Verify` and `Reset` are
`verify_otp` and `confirm_password_reset` from a code that was right; `Consume` is the
DEL, after which a weak password is refused; `UpdateBegin` takes the connection and
`Update` is the UPDATE by phone number. `Commit` and `Rollback` are `get_db`,
`Rollback` also the death of the process and the end of the wait for a connection.

A request takes a connection at its first statement (`ConnectionFree`) and has it
until its transaction ends (`HasConnection`). `RowsFree` is the row lock of a
flushed UPDATE, `InsertPending` the wait of an INSERT for an uncommitted
duplicate: the INSERT is not refused before the other transaction has ended.
`Waits` collects the three: every statement that may wait is guarded by it. That they
never close a circle is part of `EveryRequestAnswered`, whose mutant
`RegisterStoreNested` asks for a second connection and closes one.
Normalisation is what it does: every spelling of a line becomes the
international one, and everything else compares spellings. Status, counters and
`locked_until` are in `AuthSessions`, email, name and role are not modelled (a
duplicate email is a failing call). A weak password at registration is refused
before any call and leaves no trace, so `Register` has none. After the commit an
answer or an SMS that gets lost changes nothing in the database, so `Reply` and
`RegisterSms` count each as given: more is claimed of the others then.

### Tokens

| State | Code |
|---|---|
| `now` | the clock of the server, `Second` ticks to a second |
| `configured`, `secret`, `drawn` | whether `JWT_SECRET_KEY` is set; the key of each worker; keys drawn |
| `tokens` | JWTs by `jti`: `exp` and the key of the signature |
| `blacklist` | Redis `auth:blacklist:{jti}`: the tick after which it is gone |
| `pc`, `req` | the call of a request, its worker, token and TTL |
| `revoked`, `loggedOut` | history: acknowledged SETEX, answered logouts |

`Present` and `Check` are `get_current_user` and the head of `refresh_tokens`;
`Select`, `Logout` work the TTL out; `Revoke` is SETEX, which counts the TTL from
its own execution; `RevokeFails` is its failure, by Redis or by a TTL of 0, which
`refresh_tokens` raises and `logout` swallows. `Serve` ends what a bearer was
admitted for. `Restart` is the death of a worker
with its requests; without a configured key it comes back with another one. What
`AuthSessions` calls `closing` is `LastSeconds` here, and why two seconds are
enough is theorem `RevokedListedAlways`. `Stage`, `listedBar` and `admittedBar` map a
clock, entries with a TTL and requests at their calls to `Revocation`.

## 3. Runs

| Run | Instance | Shows |
|---|---|---|
| `sessions_faults` | 1 user, 2 requests, 2 sessions, 1 fault, suspensions | `TypeOK`, `DeliveredBacked`, `AuditMatchesSessions`, `SessionsOfVerifiedPhones`, `HolderRuns` through every failure point |
| `sessions_ageing` | 1 user, 1 request at a time, 3 sessions, 2 ageing steps, 1 wrong password | `SpentTokenNotAdmitted`: to the end of a token's life or one step into two of them, and after the rollback every refresh ends in; the refinement `RevocationKept` |
| `sessions_race` | 1 user, 2 requests, 3 sessions | `ForcedLogoutComplete`, `SpentTokenNotAdmitted`, and the refinement `UnitOfWork` |
| `sessions_liveness` | 1 user, 2 requests, fair | `EveryRequestAnswered` |
| `otp` | 2 verifications, 2 codes, 2 faults or repeated commands | `TypeOK`, `AcceptedOnce`, `GuessesBounded`, `LatestStands`, `DeletesOwn` |
| `mfa_enrolment` | 3 requests, 2 secrets, 1 challenge, 1 fault | `TypeOK`, `SecondFactorRequired`, `ChallengeSpentOnce`, `ReplayRefused` |
| `accounts` | 2 requests, 1 line in 2 spellings, 2 users, 2 passwords, 1 or 2 connections, fair | `TypeOK`, `OneUserPerLine`, `VerifiedTold`, `TextedRegistered`, the refinement `UnitOfWork`, `EveryRequestAnswered` |
| `tokens` | 2 workers, 2 requests, 1 login, 2 ticks a second, lifetimes 1 s and 3 s, 9 ticks (0 to 8), 3 keys, 1 fault | `TypeOK`, `RevokedListed`, `WorkersAgree`, `LogoutEffective`, `RevokedNotAdmitted`, the refinement `RevocationKept` |

Two requests are enough for the session properties because each relates one
request to one other (a login to a forced logout, a refresh to the request that
spent its token, a flush to the holder of the lock); the theorems cover any
number. Two identifiers let a session exist before a race about a second one
begins; three, where a spent token is presented again: one for its login, one
for the refresh that spends it and one for the refresh that tries again.
Requests of different users meet only when one presents the refresh token of the
other in a logout; the runs have one user, the theorems any number of them.
One request at a time is enough where tokens age: a spent token stays spent or
lapses whatever runs beside it. `PASSWORD_MAX_ATTEMPTS` is 2, so that one wrong
password does not lock and two would. One fault reaches every failure point of every
flow; `otp` has two, so that a command may also be executed, repeated and fail. Three
requests in `mfa_enrolment` let two setups race while a third confirms or logs in, and
a third present a challenge that two have completed.

In `accounts` failures are not bounded, since a rollback returns to a state
without the request; successes are, because each registration, change and reset
chooses a password of its own (two) and each registration a user (two). Which
spare user or password a request takes makes no difference, so `AnyOf` takes
one. One line is enough: requests of different lines meet only in the pool. Both
registrations of one line, a change beside a reset, and a registration beside a
verification all fit. A pool of one connection makes every request wait for
every other; with two the waits for rows and for the INSERT appear.

In `tokens` nine ticks outlast both lifetimes, a login may happen at either tick of
a second, and the two requests let a TTL be worked out before another request's
SETEX and written after it. Three keys are the two of the start and one restart.

Model values are only compared for equality, which makes the symmetry sets sound; the
runs with liveness use none.

No run needs `CHECK_DEADLOCK FALSE`: requests that are refused at once are steps.

### Where the code and its documentation disagree

Each violation run checks one sentence of the repository against the code:

| Run | Sentence | What happens |
|---|---|---|
| `lockout` | "lock account if threshold exceeded" | the counter is rolled back with the refusal |
| `refresh_exchange` | "Exchange a valid refresh token for new ... tokens" | the token is spent, then the lazy load raises |
| `forced_logout` | "forced logout" | the refresh token of a deactivated session is admitted |
| `mfa_setup` | "not yet active - needs verification" | a second setup replaces an active secret; so does one that commits between the SELECT and the commit of a confirmation |

The steps behind further disagreements are in the models without a run of their
own: the audit row of a failed login is rolled back like the counter;
`get_current_user` refuses SUSPENDED and lets DEACTIVATED pass; a logout between
SADD and commit leaves an active session the registry does not list; two
overlapping requests with one code are both accepted, their attempts may be
counted as one, and the SETEX of the counter may bring back a code that was used
or superseded; two overlapping requests complete one MFA challenge twice. The
histories `shared`, `raced` and `crossed` of `Otp` and `shared` of `Mfa` mark where
these begin.

`refresh_exchange` is a temporal counterexample under `FairSpec`: nothing fails
and every request is scheduled, yet no reply follows.

### Fairness

`FairSpec` asks for weak fairness of `Handle(r)`: the event loop resumes a
coroutine whose await has returned, and PostgreSQL and Redis answer (a call that
does not is `CallFails`). It asks for strong fairness of `CreateSessionFlush(r)`,
the one step that may wait: PostgreSQL queues the waiters of a row lock, so a
request is not passed over for ever by others that take and release it. In
`Accounts` strong fairness is of `Handle(r)` as a whole, since most of its calls
may wait: for a connection (SQLAlchemy's pool hands them to waiters in the order
of arrival), for a row lock or for an uncommitted duplicate (PostgreSQL queues
both). Clients, time, failures and administrators have no fairness.

## 4. Proofs

Proved for every value of the constants, from the assumptions the modules name
(`None` is no other value, the bounds are natural numbers, a positive
`PASSWORD_MAX_ATTEMPTS`).

- **`AuthSessionsProofs`.** `IInv` is inductive. The properties are not, by
  themselves: that a commit keeps `AuditMatchesSessions` needs to know what the
  transaction holds when it commits. `InOrder` says it for each call (nothing
  before the flush, the row and no audit row at `register`, both at `commit`),
  `Committed` that an answer follows its commit, `Admitted` whom a request
  serves, `LogoutProgress` which sessions a forced logout has still to
  deactivate, `SpentBlacklisted` that Redis keeps a spent token until its last
  two seconds. One lemma per conjunct, one step per action. From `IInv` follow
  `TypeOK`, `DeliveredBacked`, `AuditMatchesSessions`,
  `SessionsOfVerifiedPhones`, `ForcedLogoutComplete` and the action property
  `SpentTokenNotAdmitted`.
  `HolderRuns` needs `WritesInOrder`: only a request past its flush holds the row,
  and none of its later calls waits for one.
- **`AuthSessionsImplements`.** Every step of `AuthSessions` is a step of
  `RequestUnit` or a stutter under the mapping of `AuthSessions`: `phaseBar`
  from `pc`, `pendingBar` from `pend`, `storeBar` from the three tables,
  `toldBar` from the tokens clients hold. The commit step needs `IInv`: what is
  told must be what was pending. The second half is `Revocation`, with the
  variables of `AuthSessions` under their own names: every step is one of
  `Pass`, `Admit`, `Leave`, `Revoke` or a stutter, and a request serves one token
  from its admission to the SETEX that spends it.
- **`RequestUnit`.** What was told is stored.
- **`Revocation`.** A revoked token is listed while it is valid, hence no request
  is admitted with it. The second follows from the first step by step and is an
  action property. Both refinements inherit them.
- **`OtpProofs`.** For any number of verifications. `Exclusive`: of a code that is
  not shared at most one verification holds a copy. `UsedAndGone`: once it was
  used, no copy of it is left in Redis or in a request, so no late SETEX can bring
  it back; between the deletion and the commit the key holds no copy
  (`Accepted`). These give `AcceptedOnce`. `Latest` ties the key to the last code
  unless a count was pending when it was sent, which gives `LatestStands`.
  `Guesses` bounds the comparisons made by the attempts recorded in the key or in
  the one hand that holds the code, which gives `GuessesBounded`: an attempt is
  only lost to a hand that shares the code, or once, when the key has expired.
  `OneCode`: of the codes that were not sent beside a verification, at most one is
  in use (in the key, or in a request that is still to count, judge or delete it),
  which gives `DeletesOwn`: the unconditional DEL deletes the code it was meant for.
  A repeated command (`Retry`) writes only what its request still has in hand, so each
  of the four invariants has one more case and no exception for it.
- **`MfaProofs`.** For any number of requests. `SecondFactorRequired`: a committed
  confirmation implies an active row (`RowActive`), since no write takes
  `is_active` back and no row is deleted. `ChallengeSpentOnce`: a challenge that is
  not shared is completed by one request (`Exclusive`), one that gave a session is
  out of Redis (`SpentGone`), and one that is being stored or completed has given
  none (`StillUnused`, with `Fresh` for the ones just drawn). `ReplayRefused`
  follows from the part of `SpentGone` that holds of every challenge: no request
  creates its session before it has deleted the challenge (`StillUnused`), and only a
  login that has drawn it stores it.
- **`AccountsProofs`.** `ShapeOf`, `WritingOf` and `KnownOf` say what a request
  holds at each call; `Drawn` that an identifier belongs to one registration;
  `Reserved` that a flushed registration excludes rows and other flushes of its
  phone, which is where the unique index and the wait of the INSERT come in;
  `Spelled` that stored phones have one spelling. Rows are only added and keep
  their phone (`Grows`), and an UPDATE reaches every user who was there when the
  request began (`KnownOf`), which gives `VerifiedTold`.
  For `RequestUnit`, each step is a step of it or a stutter; `StoreGrows` is the
  heart: a commit adds what was pending and nothing else, which needs that UPDATEs
  touch existing rows only.
- **`TokensProofs`.** For any resolution of the clock and any lifetimes.
  `TtlReaches`: now plus the TTL is later than `exp` - 1, although both are
  rounded down; `Reaches` keeps that while time passes between the computation
  and SETEX, `Entries` once it is written, also over an older entry. With
  `RevokedKept` this is `RevokedListed`. `OneKey` is the key of the environment.
  `Implements` is the refinement of `Revocation`: a tick is `Pass`, since a stage
  only moves forward (`Older`) and an entry lapses after its token has left
  `valid` (`Passes`); EXISTS is `Admit`; the end of a request, or of a worker with
  all of its requests, is `Leave`.

Only model-checked: the two liveness properties `EveryRequestAnswered` (fairness and
`ENABLED` are beyond the prover). `HolderRuns` of `AuthSessions`, which is proved for
any number of requests, is the part of that module's one that needs no fairness: there
is always a request that does not wait for another one. Every other property of the passing runs is
proved as well; the violations are TLC's.

## 5. Not modelled, and the plan

Not modelled: the SMS providers, logging, health check, CORS, OpenAPI, hashing and
signing themselves (libraries), the rate limiter (per process, in memory; it only
removes behaviours), the table `otp_codes`, the Redis helpers, the dependencies
(`require_roles`, `require_same_region_or_admin`, `get_optional_user`) and the
email token that nothing calls, the validators of request bodies other than the
phone number, migrations, tests and packaging.

What could still be added, in this order:

1. The composition of `AuthSessions` with `Mfa` (the login of an enrolled user in
   full) and with `Accounts` (the status and the lock that a reset or a
   verification writes, seen by a login that has read the row before).
2. A third promise, of what may be used once: a code and a challenge are read,
   compared and deleted in separate commands, and `Otp` and `Mfa` could implement one
   abstract module as `Tokens` and `AuthSessions` implement `Revocation`.
3. The session registry: what it lists when logins fail or race with a logout
   from all devices. Nothing in the repository reads it yet.
4. The role and region dependencies and the password policy as operators checked
   against reference definitions, once endpoints use them.
