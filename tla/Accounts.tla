------------------------------ MODULE Accounts ------------------------------
(***************************************************************************)
(* The users table under registration, phone verification, password change *)
(* and password reset (AuthService and endpoints/auth.py), for requests    *)
(* that run concurrently, over the connection pool of core/session.py.     *)
(*                                                                         *)
(* One action is one SQL statement or Redis command, with what the handler *)
(* does up to its next await.  A request takes a connection at its first   *)
(* SQL statement and keeps it to the end of its transaction; a row that was*)
(* flushed makes others wait.  The attempts and the deletion of a code are *)
(* detailed in Otp, logins in AuthSessions: here a key holds a code or not.*)
(*                                                                         *)
(* Each password is chosen by one request, which bounds the successes.     *)
(***************************************************************************)
EXTENDS Naturals, FiniteSets

CONSTANTS
  Requests,  \* slots of concurrent requests
  Ids,       \* identifiers of users (uuid4): bounds the registrations
  Lines,     \* telephone lines
  Passwords, \* passwords that pass the policy: bounds the successes
  None,      \* no user, no password
  PoolSizes  \* connections of the pool, overflow included: one per deployment

ASSUME PoolAssumption == PoolSizes \subseteq Nat \ {0}

VARIABLES
  pool,      \* the size of the pool, chosen when the engine is created
  users,     \* table users: one row per identifier, or None
  audit,     \* table audit_logs: REGISTER and PASSWORD_CHANGED rows
  codes,     \* Redis auth:otp:{purpose}:{phone}: the keys that hold a code
  pc,        \* the call a request makes next
  req,       \* its arguments, locals and uncommitted writes
  passwords, \* history: passwords a committed row has held
  told,      \* history: what answers have said
  texted     \* history: users whose registration code was sent by SMS

vars == <<pool, users, audit, codes, pc, req, passwords, told, texted>>

\* "+251912345678"; the others, "0912345678" and "912345678", are one form here.
Forms == {"international", "local"}

Phones == [form : Forms, line : Lines]

\* Mutant of Normalized: the number is checked and returned as it was typed.
NormalizedAsTyped(phone) == phone

Normalized(phone) == [phone EXCEPT !.form = "international"]

\* login_otp has no handler of its own: it is verified like a password_reset
\* code at /otp/verify, with no further effect.
Purposes == {"phone_verify", "password_reset"}

Users == [phone : Phones, password : Passwords, verified : BOOLEAN]

AuditRows == [action : {"register"}, of : Ids]
             \cup [action : {"password_changed"}, of : Passwords]

Operations == {"register", "change", "verify", "reset"}

Calls == {"idle", "lookup", "insert", "store", "load", "flush",
          "consume", "update", "write", "commit", "reply", "sms"}

\* user: the row created or loaded; rows: the rows its UPDATE has matched;
\* new: the password to store, None if it is weak; known: history, the users of
\* the telephone line when the request began.
Locals == [op : Operations, phone : Phones, purpose : Purposes, user : Ids \cup {None},
           new : Passwords \cup {None}, rows : SUBSET Ids, known : SUBSET Ids]

ASSUME NoneAssumption == None \notin Ids \cup Passwords \cup Users \cup Locals

\* What an answer says: a user, a verified phone or a password is in the database.
Facts == [kind : {"user", "verified"}, of : Ids] \cup [kind : {"password"}, of : Passwords]

TypeOK ==
  /\ pool \in PoolSizes
  /\ users \in [Ids -> Users \cup {None}]
  /\ audit \subseteq AuditRows
  /\ codes \subseteq Purposes \X Phones
  /\ pc \in [Requests -> Calls]
  /\ req \in [Requests -> Locals \cup {None}]
  /\ passwords \subseteq Passwords
  /\ told \subseteq Facts
  /\ texted \subseteq Ids

Init ==
  /\ pool \in PoolSizes
  /\ users = [i \in Ids |-> None]
  /\ audit = {} /\ codes = {}
  /\ pc = [r \in Requests |-> "idle"]
  /\ req = [r \in Requests |-> None]
  /\ passwords = {} /\ told = {} /\ texted = {}

-----------------------------------------------------------------------------
\* The database.

Registered(phone) == {i \in Ids : users[i] # None /\ users[i].phone = phone}

HasConnection(r) == pc[r] \in {"insert", "store", "flush", "write", "commit"}

\* SQLAlchemy hands out a connection at the first statement of a session.
ConnectionFree == Cardinality({r \in Requests : HasConnection(r)}) < pool

\* The rows r has flushed and not committed: others wait to write them.
Flushed(r) == IF pc[r] = "commit" THEN req[r].rows ELSE {}

RowsFree(r, rows) == \A o \in Requests \ {r} : Flushed(o) \cap rows = {}

\* Another request has inserted the phone and not committed: INSERT waits for it.
InsertPending(r, phone) ==
  \E o \in Requests \ {r} :
    /\ pc[o] \in {"store", "commit"}
    /\ req[o].op = "register"
    /\ req[o].phone = phone

\* The calls that do not answer yet.
Waits(r) ==
  \/ pc[r] \in {"lookup", "load", "update"} /\ ~ConnectionFree
  \/ pc[r] = "insert" /\ InsertPending(r, req[r].phone)
  \/ pc[r] = "flush" /\ ~RowsFree(r, {req[r].user})
  \/ pc[r] = "write" /\ ~RowsFree(r, Registered(req[r].phone))

Database == <<pool, users, audit, passwords>>

-----------------------------------------------------------------------------
\* Requests.

Goto(r, call) == pc' = [pc EXCEPT ![r] = call] /\ UNCHANGED req

\* The request ends: its transaction is closed, the connection returned.
Close(r) ==
  /\ pc' = [pc EXCEPT ![r] = "idle"]
  /\ req' = [req EXCEPT ![r] = None]

Refuse(r) == Close(r) /\ UNCHANGED <<Database, codes, told, texted>>

Begin(r, call, op, phone, purpose, i, new) ==
  /\ pc[r] = "idle"
  /\ pc' = [pc EXCEPT ![r] = call]
  /\ req' = [req EXCEPT ![r] =
       [op |-> op, phone |-> phone, purpose |-> purpose, user |-> i, new |-> new,
        rows |-> {},
        known |-> {j \in Ids : users[j] # None /\ users[j].phone.line = phone.line}]]
  /\ UNCHANGED <<Database, codes, told, texted>>

InFlight == {r \in Requests : req[r] # None}

\* Identifiers and passwords not used yet.  Which of them a request takes makes
\* no difference.
SpareIds == {i \in Ids : users[i] = None} \ {req[r].user : r \in InFlight}

SparePasswords == Passwords \ (passwords \cup {req[r].new : r \in InFlight})

AnyOf(spare) == CHOOSE x \in spare : TRUE

(* register *)

\* A weak password is refused before any call and leaves no trace.
Register(r, typed) ==
  /\ SpareIds # {} /\ SparePasswords # {}
  /\ Begin(r, "lookup", "register", Normalized(typed), "phone_verify",
           AnyOf(SpareIds), AnyOf(SparePasswords))

RegisterLookup(r) ==
  /\ pc[r] = "lookup" /\ ~Waits(r)
  /\ IF Registered(req[r].phone) # {}
     THEN Refuse(r)
     ELSE Goto(r, "insert") /\ UNCHANGED <<Database, codes, told, texted>>

\* Mutant of UniquePhone: the users table has no unique index on the phone.
UniquePhoneDropped(r) == TRUE

\* uq_users_phone: no committed row has the phone.
UniquePhone(r) == Registered(req[r].phone) = {}

\* The flush: an IntegrityError ends the request.
RegisterInsert(r) ==
  /\ pc[r] = "insert" /\ ~Waits(r)
  /\ IF UniquePhone(r)
     THEN /\ pc' = [pc EXCEPT ![r] = "store"]
          /\ req' = [req EXCEPT ![r].rows = {req[r].user}]
          /\ UNCHANGED <<Database, codes, told, texted>>
     ELSE Refuse(r)

\* Mutant of RegisterStore: the SMS is awaited in the handler.
RegisterStoreTexting(r) ==
  /\ pc[r] = "store"
  /\ codes' = codes \cup {<<"phone_verify", req[r].phone>>}
  /\ texted' = texted \cup {req[r].user}
  /\ Goto(r, "commit")
  /\ UNCHANGED <<Database, told>>

\* Mutant of RegisterStore: the code is stored under a second connection.
RegisterStoreNested(r) ==
  /\ pc[r] = "store"
  /\ ConnectionFree
  /\ codes' = codes \cup {<<"phone_verify", req[r].phone>>}
  /\ Goto(r, "commit")
  /\ UNCHANGED <<Database, told, texted>>

\* send_otp of the endpoint: the code is in Redis before the row is committed.
RegisterStore(r) ==
  /\ pc[r] = "store"
  /\ codes' = codes \cup {<<"phone_verify", req[r].phone>>}
  /\ Goto(r, "commit")
  /\ UNCHANGED <<Database, told, texted>>

\* The background task, after the answer.  dispatch_otp_sms swallows failures.
RegisterSms(r) ==
  /\ pc[r] = "sms"
  /\ Close(r)
  /\ texted' = texted \cup {req[r].user}
  /\ UNCHANGED <<Database, codes, told>>

(* Codes: /otp/send and /password/reset/request *)

SendOtp(purpose, typed) ==
  /\ codes' = codes \cup {<<purpose, Normalized(typed)>>}
  /\ UNCHANGED <<Database, pc, req, told, texted>>

\* 300 seconds pass, or the attempts are used up.
CodeEnds(key) ==
  /\ key \in codes
  /\ codes' = codes \ {key}
  /\ UNCHANGED <<Database, pc, req, told, texted>>

(* change_password *)

\* The caller shows a token of the user i, who has to be loaded.
Change(r, i) ==
  /\ users[i] # None
  /\ SparePasswords # {}
  /\ Begin(r, "load", "change", users[i].phone, "password_reset", i, AnyOf(SparePasswords))

\* get_current_user loads the row; refused: the phone is not verified, the
\* current password that was given is not the one of the row, or the new one is
\* weak.
ChangeLoad(r, accepted) ==
  /\ pc[r] = "load" /\ ~Waits(r)
  /\ IF users[req[r].user].verified /\ accepted
     THEN Goto(r, "flush") /\ UNCHANGED <<Database, codes, told, texted>>
     ELSE Refuse(r)

\* The ORM writes the changed columns at the commit of get_db.
ChangeFlush(r) ==
  /\ pc[r] = "flush" /\ ~Waits(r)
  /\ pc' = [pc EXCEPT ![r] = "commit"]
  /\ req' = [req EXCEPT ![r].rows = {req[r].user}]
  /\ UNCHANGED <<Database, codes, told, texted>>

(* verify_otp and confirm_password_reset *)

\* GET finds a code and the one given is right; otherwise refused at once.
Verify(r, typed, purpose) ==
  /\ <<purpose, Normalized(typed)>> \in codes
  /\ Begin(r, "consume", "verify", Normalized(typed), purpose, None, None)

Reset(r, typed, strong) ==
  /\ <<"password_reset", Normalized(typed)>> \in codes
  /\ strong => SparePasswords # {}
  /\ Begin(r, "consume", "reset", Normalized(typed), "password_reset", None,
           IF strong THEN AnyOf(SparePasswords) ELSE None)

\* Mutant of Consume: the strength of the new password is not checked.
ConsumeUnchecked(r) ==
  /\ pc[r] = "consume"
  /\ codes' = codes \ {<<req[r].purpose, req[r].phone>>}
  /\ Goto(r, IF req[r].op = "verify" /\ req[r].purpose = "password_reset" THEN "reply" ELSE "update")
  /\ UNCHANGED <<Database, told, texted>>

\* DEL.  A weak password is refused now that the code is gone.
Consume(r) ==
  /\ pc[r] = "consume"
  /\ codes' = codes \ {<<req[r].purpose, req[r].phone>>}
  /\ CASE req[r].op = "reset" /\ req[r].new = None                     -> Close(r)
       [] req[r].op = "verify" /\ req[r].purpose = "password_reset"    -> Goto(r, "reply")
       [] OTHER                                                        -> Goto(r, "update")
  /\ UNCHANGED <<Database, told, texted>>

\* The UPDATE is the first statement: the request holds a connection while it
\* waits for the row.
UpdateBegin(r) ==
  /\ pc[r] = "update" /\ ~Waits(r)
  /\ Goto(r, "write")
  /\ UNCHANGED <<Database, codes, told, texted>>

\* UPDATE ... WHERE phone_number: it may match no row, and is not told.
Update(r) ==
  /\ pc[r] = "write" /\ ~Waits(r)
  /\ pc' = [pc EXCEPT ![r] = "commit"]
  /\ req' = [req EXCEPT ![r].rows = Registered(req[r].phone)]
  /\ UNCHANGED <<Database, codes, told, texted>>

(* get_db and the answer *)

\* The row i as the transaction of r leaves it.
Written(r, i) ==
  CASE req[r].op = "register" ->
         [phone |-> req[r].phone, password |-> req[r].new, verified |-> FALSE]
    [] req[r].op = "verify" -> [users[i] EXCEPT !.verified = TRUE]
    [] OTHER -> [users[i] EXCEPT !.password = req[r].new]

AuditOf(r) ==
  CASE req[r].op = "register" -> {[action |-> "register", of |-> req[r].user]}
    [] req[r].op = "change" -> {[action |-> "password_changed", of |-> req[r].new]}
    [] OTHER -> {}

PasswordsOf(r) == IF req[r].rows = {} THEN {} ELSE {req[r].new} \ {None}

\* Mutant of Commit: the audit row is added to a session of its own.
CommitUnaudited(r) ==
  /\ pc[r] = "commit"
  /\ users' = [i \in Ids |-> IF i \in req[r].rows THEN Written(r, i) ELSE users[i]]
  /\ UNCHANGED audit
  /\ passwords' = passwords \cup PasswordsOf(r)
  /\ Goto(r, "reply")
  /\ UNCHANGED <<pool, codes, told, texted>>

Commit(r) ==
  /\ pc[r] = "commit"
  /\ users' = [i \in Ids |-> IF i \in req[r].rows THEN Written(r, i) ELSE users[i]]
  /\ audit' = audit \cup AuditOf(r)
  /\ passwords' = passwords \cup PasswordsOf(r)
  /\ Goto(r, "reply")
  /\ UNCHANGED <<pool, codes, told, texted>>

\* What the answer says of users who were registered when the request began.
Says(r) ==
  CASE req[r].known = {} \/ req[r].op = "register" -> {}
    [] req[r].op = "verify" ->
         [kind : {"verified"}, of : IF req[r].purpose = "phone_verify" THEN req[r].known ELSE {}]
    [] OTHER -> [kind : {"password"}, of : {req[r].new}]

\* An answer counts as given and an SMS as sent although either may get lost:
\* that changes nothing here, and more is claimed of those that arrive.
Reply(r) ==
  /\ pc[r] = "reply"
  /\ IF req[r].op = "register" THEN Goto(r, "sms") ELSE Close(r)
  /\ told' = told \cup Says(r)
  /\ UNCHANGED <<Database, codes, texted>>

\* A call raises (the wait for a connection after DB_POOL_TIMEOUT seconds among
\* them) or the process dies before the commit: what was written is rolled back,
\* what was done to Redis stays.
Rollback(r) ==
  /\ pc[r] \notin {"idle", "reply", "sms"}
  /\ Refuse(r)

Handle(r) ==
  \/ RegisterLookup(r) \/ RegisterInsert(r) \/ RegisterStore(r) \/ RegisterSms(r)
  \/ \E accepted \in BOOLEAN : ChangeLoad(r, accepted)
  \/ ChangeFlush(r) \/ Consume(r) \/ UpdateBegin(r) \/ Update(r)
  \/ Commit(r) \/ Reply(r)

Client(r) ==
  \/ \E phone \in Phones :
       \/ Register(r, phone)
       \/ \E purpose \in Purposes : Verify(r, phone, purpose)
       \/ \E strong \in BOOLEAN : Reset(r, phone, strong)
  \/ \E i \in Ids : Change(r, i)

Next ==
  \/ \E r \in Requests : Client(r) \/ Handle(r) \/ Rollback(r)
  \/ \E purpose \in Purposes, phone \in Phones : SendOtp(purpose, phone)
  \/ \E key \in codes : CodeEnds(key)

Spec == Init /\ [][Next]_vars

\* The event loop resumes a request whose call has answered.  Strong fairness is
\* for the calls that wait, for a connection, a row or a uniqueness conflict:
\* the pool and PostgreSQL serve them in the order of arrival.
FairSpec == Spec /\ \A r \in Requests : SF_vars(Handle(r))

-----------------------------------------------------------------------------
(* Safety *)

\* A telephone line belongs to one user, however the number is typed and
\* however registrations overlap.
OneUserPerLine ==
  \A i, j \in Ids :
    users[i] # None /\ users[j] # None /\ users[i].phone.line = users[j].phone.line => i = j

\* "OTP verified successfully" is true of every user who was registered when the
\* verification began, and stays true through later changes and resets.
VerifiedTold ==
  \A i \in Ids : [kind |-> "verified", of |-> i] \in told => users[i] # None /\ users[i].verified

\* The code of a registration is sent by SMS to committed users only, although
\* it is stored in Redis before the commit.
TextedRegistered == \A i \in texted : users[i] # None

-----------------------------------------------------------------------------
(* Refinement of RequestUnit *)

FactsOf(rows, logs, secrets) ==
  [kind : {"user"}, of : {i \in Ids : rows[i] # None}]
  \cup [kind : {"verified"}, of : {i \in Ids : rows[i] # None /\ rows[i].verified}]
  \cup [kind : {"password"}, of : secrets]
  \cup logs

PhaseOf(call) ==
  CASE call \in {"idle", "sms"} -> "closed"
    [] call = "reply" -> "committed"
    [] OTHER -> "open"

\* The facts of the rows that r has written and not answered for.
Pending(r) ==
  LET rows == req[r].rows
      written == CASE req[r].op = "register" -> [kind : {"user"}, of : rows]
                   [] req[r].op = "verify" -> [kind : {"verified"}, of : rows]
                   [] OTHER -> {}
  IN IF PhaseOf(pc[r]) = "closed" \/ req[r].rows = {} THEN {}
     ELSE written \cup [kind : {"password"}, of : PasswordsOf(r)] \cup AuditOf(r)

phaseBar   == [r \in Requests |-> PhaseOf(pc[r])]
pendingBar == [r \in Requests |-> Pending(r)]
storeBar   == FactsOf(users, audit, passwords)

Unit == INSTANCE RequestUnit WITH
  Facts <- Facts \cup AuditRows,
  phase <- phaseBar, pending <- pendingBar, store <- storeBar

\* Registration, verification, change and reset keep the promise of
\* RequestUnit: their writes reach the database whole, at the commit, and what
\* answers say was written before.
UnitOfWork == Unit!Spec

(* Liveness *)

\* Every request that begins ends, although it may wait for a connection while
\* others hold all of them, for a row another one has flushed, or for the
\* outcome of another registration of its phone.
EveryRequestAnswered ==
  \A r \in Requests : pc[r] # "idle" ~> pc[r] = "idle"
=============================================================================
