-------------------------------- MODULE Mfa --------------------------------
(***************************************************************************)
(* The second factor of one user: enrolment of an authenticator app        *)
(* (setup_totp, confirm_totp_setup) and login through an MFA challenge     *)
(* (login, complete_mfa_login), for requests that run concurrently.        *)
(*                                                                         *)
(* TOTP is the only method the code can enrol.  A secret stands for the    *)
(* codes computed from it: a code given is one of a secret the user was    *)
(* told, or None for any other.  The password, the status of the account   *)
(* and the bearer token have passed already, and "session" stands for the  *)
(* calls of _create_session; module AuthSessions has both in detail.       *)
(***************************************************************************)
EXTENDS Naturals

CONSTANTS
  Requests,    \* slots of concurrent requests
  Secrets,     \* TOTP secrets that can be drawn; bounds the setups
  Challenges,  \* challenge tokens that can be drawn; bounds the logins
  None,        \* no row, no secret, no challenge, a wrong code
  MaxFaults    \* bound: failures of the database, Redis or the connection

Config == [secret : Secrets, active : BOOLEAN]

ASSUME NoneAssumption == None \notin Secrets \cup Challenges \cup Config
ASSUME KindsAssumption == Secrets \cap Challenges = {}
ASSUME BoundsAssumption == MaxFaults \in Nat

VARIABLES
  config,      \* the user's TOTP row of mfa_configs, committed, or None
  challenges,  \* Redis auth:mfa_challenge:{token}
  pc,          \* the call a request makes next
  req,         \* its arguments and locals
  drawn,       \* secrets and challenge tokens drawn so far
  told,        \* secrets and challenge tokens the user has received
  confirmed,   \* history: secrets a confirmation was committed for
  uses,        \* history: sessions committed for a challenge
  shared,      \* history: challenges two requests in flight had both read
  faults       \* what is left of MaxFaults

history == <<confirmed, uses, shared>>
vars == <<config, challenges, pc, req, drawn, told, confirmed, uses, shared, faults>>

Calls == {"idle", "store", "load", "consume", "session", "commit", "reply"}

\* row: the row as the request's SELECT found it; secret: the one it has drawn,
\* or whose code it presents; enrolled: (history) a confirmation was committed
\* before its SELECT.
Locals == [op : {"none", "setup", "confirm", "login", "complete"},
           row : Config \cup {None}, secret : Secrets \cup {None},
           challenge : Challenges \cup {None}, enrolled : BOOLEAN]

Idle == [op |-> "none", row |-> None, secret |-> None, challenge |-> None,
         enrolled |-> FALSE]

TypeOK ==
  /\ config \in Config \cup {None}
  /\ challenges \subseteq Challenges
  /\ pc \in [Requests -> Calls]
  /\ req \in [Requests -> Locals]
  /\ drawn \subseteq Secrets \cup Challenges
  /\ told \subseteq drawn
  /\ confirmed \subseteq Secrets
  /\ uses \in [Challenges -> Nat]
  /\ shared \subseteq Challenges
  /\ faults \in 0 .. MaxFaults

Init ==
  /\ config = None
  /\ challenges = {}
  /\ pc = [r \in Requests |-> "idle"]
  /\ req = [r \in Requests |-> Idle]
  /\ drawn = {} /\ told = {} /\ confirmed = {} /\ shared = {}
  /\ uses = [c \in Challenges |-> 0]
  /\ faults = MaxFaults

-----------------------------------------------------------------------------
Begin(r, locals, call) ==
  /\ pc[r] = "idle"
  /\ req' = [req EXCEPT ![r] = locals]
  /\ pc' = [pc EXCEPT ![r] = call]

Continue(r, at, call) ==
  /\ pc[r] = at
  /\ pc' = [pc EXCEPT ![r] = call]
  /\ UNCHANGED req

End(r) ==
  /\ pc' = [pc EXCEPT ![r] = "idle"]
  /\ req' = [req EXCEPT ![r] = Idle]

Draw(x) == x \notin drawn /\ drawn' = drawn \cup {x}

Enrolled == confirmed # {}

\* What the SELECT of a request finds.
Load(op) == [Idle EXCEPT !.op = op, !.row = config, !.enrolled = Enrolled]

-----------------------------------------------------------------------------
\* Enrolment.

\* setup_totp: a new secret for the row found, or for a new one.
Setup(r) ==
  \E s \in Secrets :
    /\ Draw(s)
    /\ Begin(r, [Load("setup") EXCEPT !.secret = s], "commit")
    /\ UNCHANGED <<config, challenges, told, history, faults>>

\* confirm_totp_setup without a row, or with a code of another secret.
ConfirmRefused(r) ==
  /\ pc[r] = "idle"
  /\ config # None => \E s \in told \cup {None} : s # config.secret
  /\ UNCHANGED vars

Confirm(r) ==
  /\ config # None
  /\ config.secret \in told
  /\ Begin(r, [Load("confirm") EXCEPT !.secret = config.secret], "commit")
  /\ UNCHANGED <<config, challenges, drawn, told, history, faults>>

\* Mutant of SetupWrite: the row becomes pending again, as the comment has it.
SetupWritePending(r) ==
  /\ req[r].op = "setup"
  /\ req[r].row = None => config = None
  /\ config' = [secret |-> req[r].secret, active |-> FALSE]
  /\ UNCHANGED history

\* UPDATE of totp_secret in the row found, is_active untouched; an INSERT needs
\* that no other request has inserted the row (uq_mfa_user_method).
SetupWrite(r) ==
  /\ req[r].op = "setup"
  /\ req[r].row = None => config = None
  /\ config' = IF config = None THEN [secret |-> req[r].secret, active |-> FALSE]
               ELSE [config EXCEPT !.secret = req[r].secret]
  /\ UNCHANGED history

\* UPDATE of is_active in the row found, whatever secret it has by now.
ConfirmWrite(r) ==
  /\ req[r].op = "confirm"
  /\ config' = [config EXCEPT !.active = TRUE]
  /\ confirmed' = confirmed \cup {req[r].secret}
  /\ UNCHANGED <<uses, shared>>

-----------------------------------------------------------------------------
\* Login.

Active(row) == row # None /\ row.active

\* login: [m for m in user.mfa_configs if m.is_active].
LoginChallenge(r) ==
  /\ Active(config)
  /\ \E c \in Challenges :
       /\ Draw(c)
       /\ Begin(r, [Load("login") EXCEPT !.challenge = c], "store")
  /\ UNCHANGED <<config, challenges, told, history, faults>>

LoginDirect(r) ==
  /\ ~Active(config)
  /\ Begin(r, Load("login"), "session")
  /\ UNCHANGED <<config, challenges, drawn, told, history, faults>>

StoreChallenge(r) ==
  /\ Continue(r, "store", "commit")
  /\ challenges' = challenges \cup {req[r].challenge}
  /\ UNCHANGED <<config, drawn, told, history, faults>>

\* r is in flight and has read the challenge c.
Completes(r, c) == req[r].op = "complete" /\ req[r].challenge = c

\* complete_mfa_login finds no challenge: it was completed or has lapsed.
ChallengeMissing(r) ==
  /\ pc[r] = "idle"
  /\ \E c \in told \cap Challenges : c \notin challenges
  /\ UNCHANGED vars

GetChallenge(r) ==
  /\ \E c \in told \cap challenges, s \in (told \cap Secrets) \cup {None} :
       /\ Begin(r, [Idle EXCEPT !.op = "complete", !.challenge = c, !.secret = s], "load")
       /\ shared' = IF \E q \in Requests : Completes(q, c) THEN shared \cup {c} ELSE shared
  /\ UNCHANGED <<config, challenges, drawn, told, confirmed, uses, faults>>

\* verify_totp with the secret of the active row.
FactorAccepted(r) == Active(config) /\ req[r].secret = config.secret

\* Mutant of LoadFactor: a wrong code is counted in the value of the challenge,
\* which is written back.
LoadFactorCounted(r) ==
  /\ pc[r] = "load"
  /\ IF FactorAccepted(r)
     THEN Continue(r, "load", "consume") /\ UNCHANGED challenges
     ELSE End(r) /\ challenges' = challenges \cup {req[r].challenge}
  /\ UNCHANGED <<config, drawn, told, history, faults>>

\* A wrong code is refused: its MFA_FAILED row is rolled back, the challenge
\* stays.  Neither a lock nor the status of the account is looked at again.
LoadFactor(r) ==
  /\ pc[r] = "load"
  /\ IF FactorAccepted(r) THEN Continue(r, "load", "consume") ELSE End(r)
  /\ UNCHANGED <<config, challenges, drawn, told, history, faults>>

\* Mutant of CompleteChallenge: the key is kept ("mark as completed").
CompleteChallengeKept(r) ==
  /\ Continue(r, "consume", "session")
  /\ UNCHANGED <<config, challenges, drawn, told, history, faults>>

CompleteChallenge(r) ==
  /\ Continue(r, "consume", "session")
  /\ challenges' = challenges \ {req[r].challenge}
  /\ UNCHANGED <<config, drawn, told, history, faults>>

CreateSession(r) ==
  /\ Continue(r, "session", "commit")
  /\ UNCHANGED <<config, challenges, drawn, told, history, faults>>

SessionWrite(r) ==
  \/ /\ req[r].op = "complete"
     /\ uses' = [uses EXCEPT ![req[r].challenge] = @ + 1]
     /\ UNCHANGED <<config, confirmed, shared>>
  \/ /\ req[r].op = "login"
     /\ UNCHANGED <<config, history>>

-----------------------------------------------------------------------------
\* get_db commits, then the answer is sent.

Commit(r) ==
  /\ Continue(r, "commit", "reply")
  /\ SetupWrite(r) \/ ConfirmWrite(r) \/ SessionWrite(r)
  /\ UNCHANGED <<challenges, drawn, told, faults>>

\* IntegrityError: the row another setup has inserted since the SELECT.
SetupConflict(r) ==
  /\ pc[r] = "commit"
  /\ req[r].op = "setup" /\ req[r].row = None /\ config # None
  /\ End(r)
  /\ UNCHANGED <<config, challenges, drawn, told, history, faults>>

\* Mutant of Answered: a login without a challenge answers with an empty token.
AnsweredEmpty(r) ==
  CASE req[r].op = "setup" -> {req[r].secret}
    [] req[r].op = "login" -> {req[r].challenge}
    [] OTHER -> {}

\* The secret of a setup, the challenge of a login.
Answered(r) ==
  CASE req[r].op = "setup" -> {req[r].secret}
    [] req[r].op = "login" -> {req[r].challenge} \ {None}
    [] OTHER -> {}

Reply(r) ==
  /\ pc[r] = "reply"
  /\ told' = told \cup Answered(r)
  /\ End(r)
  /\ UNCHANGED <<config, challenges, drawn, history, faults>>

\* A call fails before its effect, or the answer is lost.
Fail(r) ==
  /\ pc[r] # "idle"
  /\ faults > 0
  /\ faults' = faults - 1
  /\ End(r)
  /\ UNCHANGED <<config, challenges, drawn, told, history>>

Lapse(c) ==
  /\ c \in challenges
  /\ challenges' = challenges \ {c}
  /\ UNCHANGED <<config, pc, req, drawn, told, history, faults>>

-----------------------------------------------------------------------------
Enrol(r) == Setup(r) \/ ConfirmRefused(r) \/ Confirm(r)

LogIn(r) ==
  \/ LoginChallenge(r) \/ LoginDirect(r) \/ StoreChallenge(r)
  \/ ChallengeMissing(r) \/ GetChallenge(r) \/ LoadFactor(r)
  \/ CompleteChallenge(r) \/ CreateSession(r)

Next ==
  \/ \E r \in Requests :
       \/ Enrol(r) \/ LogIn(r)
       \/ Commit(r) \/ SetupConflict(r) \/ Reply(r) \/ Fail(r)
  \/ \E c \in Challenges : Lapse(c)

Spec == Init /\ [][Next]_vars

-----------------------------------------------------------------------------
(* Safety *)

\* Once a confirmation was committed, no login that reads the user afterwards
\* gets a session without a challenge, whatever concurrent setups and
\* confirmations overwrite in the row.
SecondFactorRequired ==
  \A r \in Requests :
    req[r].enrolled /\ req[r].op = "login" => pc[r] # "session"

\* complete_mfa_login deletes the challenge before it commits: a challenge is
\* good for one session at most, whatever calls fail in between.  Only two
\* requests that overlap after both have read it can both complete it.
ChallengeSpentOnce == \A c \in Challenges \ shared : uses[c] <= 1

\* A challenge that gave a session is never accepted again: whichever overlapping
\* requests complete it, refuse a code for it or fail, no request that presents it
\* after the commit gets past complete_mfa_login's check for the key.
ReplayRefused ==
  [][\A r \in Requests :
       pc[r] = "idle" /\ pc'[r] = "load" => uses[req'[r].challenge] = 0]_vars

(* Expectations of the documentation, which the code does not meet *)

\* "Store pending TOTP config (not yet active - needs verification)"
ActiveSecretConfirmed == Active(config) => config.secret \in confirmed
=============================================================================
