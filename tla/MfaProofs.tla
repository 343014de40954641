----------------------------- MODULE MfaProofs -----------------------------
(***************************************************************************)
(* Proofs about Mfa, for any number of requests, secrets and challenges.   *)
(***************************************************************************)
EXTENDS Mfa, TLAPS

\* The row is active once a confirmation was committed, and it is there for
\* every confirmation that is under way: no request ever deletes it.
RowActive ==
  /\ confirmed # {} => Active(config)
  /\ \A r \in Requests : req[r].op = "confirm" => config # None

\* Only the completion of a challenge reads one, only a login stores one.
Completing ==
  \A r \in Requests :
    /\ pc[r] \in {"load", "consume"} => req[r].op = "complete"
    /\ pc[r] = "store" => req[r].op = "login"

\* What a request has drawn or presents, by the time it writes or answers it.
Carries ==
  \A r \in Requests :
    /\ req[r].op \in {"setup", "confirm"} => req[r].secret # None
    /\ req[r].op = "setup" => req[r].secret \in drawn
    /\ req[r].op = "complete" \/ pc[r] = "store" => req[r].challenge # None
    /\ req[r].challenge # None => req[r].challenge \in drawn

IInv == TypeOK /\ Carries /\ RowActive /\ Completing /\ SecondFactorRequired

-----------------------------------------------------------------------------
\* A row with one field overwritten is a row.
LEMMA ConfigUpdate ==
  ASSUME config \in Config, NEW s \in Secrets
  PROVE  /\ [config EXCEPT !.secret = s] \in Config
         /\ [config EXCEPT !.active = TRUE] \in Config
         /\ [config EXCEPT !.secret = s].active = config.active
         /\ [config EXCEPT !.active = TRUE].active = TRUE
  BY DEF Config

\* Idle is a value of the locals.
LEMMA IdleType == Idle \in Locals
  BY DEF Idle, Locals

\* The initial state satisfies the invariant.
LEMMA InitIInv == Init => IInv
<1> SUFFICES ASSUME Init PROVE IInv
  OBVIOUS
<1>1. TypeOK
  BY IdleType, BoundsAssumption DEF Init, TypeOK, Calls
<1>2. Carries /\ RowActive /\ Completing /\ SecondFactorRequired
  BY DEF Init, Carries, RowActive, Completing, SecondFactorRequired, Idle
<1> QED BY <1>1, <1>2 DEF IInv

\* A commit writes the row, the histories, or nothing.
LEMMA CommitStep ==
  ASSUME IInv, NEW r \in Requests, Commit(r)
  PROVE  IInv'
<1> USE DEF IInv
<1>1. /\ pc' = [pc EXCEPT ![r] = "reply"] /\ req' = req
      /\ challenges' = challenges /\ drawn' = drawn /\ told' = told /\ faults' = faults
      /\ shared' = shared
  BY DEF Commit, Continue, SetupWrite, ConfirmWrite, SessionWrite, history
<1>2. Completing' /\ SecondFactorRequired' /\ Carries'
  BY <1>1 DEF Completing, SecondFactorRequired, Carries, TypeOK
<1>3. req[r] \in Locals
  BY DEF TypeOK
<1>4. pc' \in [Requests -> Calls]
  BY <1>1 DEF TypeOK, Calls
<1>5. CASE SetupWrite(r)
  <2>1. confirmed' = confirmed /\ uses' = uses /\ req[r].secret \in Secrets
    BY <1>3, <1>5 DEF SetupWrite, history, Carries, Locals
  <2>2. CASE config = None
    <3>1. config' = [secret |-> req[r].secret, active |-> FALSE] /\ confirmed = {}
      BY <1>5, <2>2 DEF SetupWrite, RowActive, Active
    <3>2. config' \in Config
      BY <2>1, <3>1 DEF Config
    <3>3. config' # None
      BY <3>2, NoneAssumption
    <3> QED BY <1>1, <1>2, <1>4, <2>1, <3>1, <3>2, <3>3 DEF TypeOK, RowActive
  <2>3. CASE config # None
    <3>1. config \in Config
      BY <2>3 DEF TypeOK
    <3>2. config' = [config EXCEPT !.secret = req[r].secret]
      BY <1>5, <2>3 DEF SetupWrite
    <3>3. config' \in Config /\ config' # None /\ config'.active = config.active
      BY <2>1, <3>1, <3>2, ConfigUpdate, NoneAssumption
    <3> QED BY <1>1, <1>2, <1>4, <2>1, <2>3, <3>3 DEF TypeOK, RowActive, Active
  <2> QED BY <2>2, <2>3
<1>6. CASE ConfirmWrite(r)
  <2>1. /\ config' = [config EXCEPT !.active = TRUE] /\ uses' = uses
        /\ confirmed' = confirmed \cup {req[r].secret}
        /\ req[r].secret \in Secrets /\ config \in Config
    BY <1>3, <1>6 DEF ConfirmWrite, Carries, Locals, RowActive, TypeOK
  <2>2. config' \in Config /\ config' # None /\ config'.active = TRUE
    BY <2>1, ConfigUpdate, NoneAssumption
  <2> QED BY <1>1, <1>2, <1>4, <2>1, <2>2 DEF TypeOK, RowActive, Active
<1>7. CASE SessionWrite(r)
  <2>1. /\ config' = config /\ confirmed' = confirmed
        /\ uses' \in [Challenges -> Nat]
    BY <1>7 DEF SessionWrite, history, TypeOK
  <2> QED BY <1>1, <1>2, <1>4, <2>1 DEF TypeOK, RowActive, Active
<1> QED BY <1>5, <1>6, <1>7 DEF Commit

\* A request that ends leaves nothing behind that the invariant speaks of.
LEMMA EndStep ==
  ASSUME IInv, NEW r \in Requests, End(r),
         config' = config, challenges' \in SUBSET Challenges, drawn' = drawn,
         told' \subseteq drawn, confirmed' = confirmed, uses' = uses, shared' = shared,
         faults' \in 0 .. MaxFaults
  PROVE  IInv'
<1>1. /\ pc' = [pc EXCEPT ![r] = "idle"] /\ req' = [req EXCEPT ![r] = Idle]
      /\ TypeOK
  BY DEF End, IInv
<1>2. \A q \in Requests : \/ pc'[q] = pc[q] /\ req'[q] = req[q]
                          \/ pc'[q] = "idle" /\ req'[q] = Idle
  BY <1>1 DEF TypeOK
<1>3. TypeOK'
  BY <1>1, IdleType DEF TypeOK, Calls
<1>4. Carries' /\ RowActive' /\ Completing' /\ SecondFactorRequired'
  BY <1>2 DEF IInv, Carries, RowActive, Active, Completing, SecondFactorRequired, Idle
<1> QED BY <1>3, <1>4 DEF IInv

\* A request that begins, or goes on to its next call, keeps the invariant if
\* its call and its locals agree with it.
LEMMA RequestStep ==
  ASSUME IInv, NEW r \in Requests, NEW call \in Calls, NEW locals \in Locals,
         pc' = [pc EXCEPT ![r] = call], req' = [req EXCEPT ![r] = locals],
         config' = config, challenges' \in SUBSET Challenges,
         drawn \subseteq drawn', drawn' \subseteq Secrets \cup Challenges,
         told' = told, confirmed' = confirmed, uses' = uses, faults' = faults,
         shared' \in SUBSET Challenges,
         locals.op \in {"setup", "confirm"} => locals.secret # None,
         locals.op = "setup" => locals.secret \in drawn',
         locals.op = "complete" \/ call = "store" => locals.challenge # None,
         locals.challenge # None => locals.challenge \in drawn',
         locals.op = "confirm" => config # None,
         call \in {"load", "consume"} => locals.op = "complete",
         call = "store" => locals.op = "login",
         locals.enrolled /\ locals.op = "login" => call # "session"
  PROVE  IInv'
<1>1. TypeOK /\ Carries /\ RowActive /\ Completing /\ SecondFactorRequired
  BY DEF IInv
<1>2. /\ \A q \in Requests \ {r} : pc'[q] = pc[q] /\ req'[q] = req[q]
      /\ pc'[r] = call /\ req'[r] = locals
  BY <1>1 DEF TypeOK
<1>3. TypeOK'
  BY <1>1 DEF TypeOK
<1>4. Carries'
  BY <1>1, <1>2 DEF Carries
<1>5. RowActive' /\ Completing' /\ SecondFactorRequired'
  BY <1>1, <1>2 DEF RowActive, Active, Completing, SecondFactorRequired
<1> QED BY <1>3, <1>4, <1>5 DEF IInv

-----------------------------------------------------------------------------
\* Every step keeps the invariant.
LEMMA NextStep ==
  ASSUME IInv, [Next]_vars
  PROVE  IInv'
<1>1. TypeOK /\ Carries /\ RowActive /\ Completing /\ SecondFactorRequired
  BY DEF IInv
<1>2. \A op \in {"setup", "confirm", "login"} :
         /\ Load(op) \in Locals
         /\ Load(op).op = op /\ Load(op).challenge = None
         /\ Load(op).enrolled = (confirmed # {})
  BY <1>1 DEF Load, Idle, Locals, Enrolled, TypeOK
<1>3. Calls = {"idle", "store", "load", "consume", "session", "commit", "reply"}
  BY DEF Calls
<1>4. ASSUME NEW r \in Requests, Setup(r) PROVE IInv'
  <2>1. PICK s \in Secrets : /\ Draw(s)
                             /\ Begin(r, [Load("setup") EXCEPT !.secret = s], "commit")
    BY <1>4 DEF Setup
  <2> DEFINE locals == [Load("setup") EXCEPT !.secret = s]
  <2>2. locals \in Locals /\ locals.op = "setup" /\ locals.secret = s /\ locals.challenge = None
    BY <1>2 DEF Locals
  <2>3. s # None /\ s \in drawn' /\ drawn \subseteq drawn' /\ drawn' \subseteq Secrets \cup Challenges
    BY <1>1, <2>1, NoneAssumption DEF Draw, TypeOK
  <2>4. pc' = [pc EXCEPT ![r] = "commit"] /\ req' = [req EXCEPT ![r] = locals]
    BY <2>1 DEF Begin
  <2>5. UNCHANGED <<config, challenges, told, confirmed, uses, shared, faults>>
    BY <1>4 DEF Setup, history
  <2> HIDE DEF locals
  <2> QED BY <1>1, <1>3, <2>2, <2>3, <2>4, <2>5, RequestStep DEF TypeOK
<1>5. ASSUME NEW r \in Requests, Confirm(r) PROVE IInv'
  <2> DEFINE locals == [Load("confirm") EXCEPT !.secret = config.secret]
  <2>1. config \in Config /\ config # None /\ config.secret \in Secrets
    BY <1>1, <1>5 DEF Confirm, TypeOK, Config
  <2>2. locals \in Locals /\ locals.op = "confirm" /\ locals.challenge = None
        /\ locals.secret = config.secret
    BY <1>2, <2>1 DEF Locals
  <2>3. pc' = [pc EXCEPT ![r] = "commit"] /\ req' = [req EXCEPT ![r] = locals]
    BY <1>5 DEF Confirm, Begin
  <2>4. UNCHANGED <<config, challenges, drawn, told, confirmed, uses, shared, faults>>
    BY <1>5 DEF Confirm, history
  <2>5. locals.secret # None
    BY <2>1, <2>2, NoneAssumption
  <2> HIDE DEF locals
  <2> QED BY <1>1, <1>3, <2>1, <2>2, <2>3, <2>4, <2>5, RequestStep DEF TypeOK
<1>6. ASSUME NEW r \in Requests, LoginChallenge(r) PROVE IInv'
  <2>1. PICK c \in Challenges : /\ Draw(c)
                                /\ Begin(r, [Load("login") EXCEPT !.challenge = c], "store")
    BY <1>6 DEF LoginChallenge
  <2> DEFINE locals == [Load("login") EXCEPT !.challenge = c]
  <2>2. locals \in Locals /\ locals.op = "login" /\ locals.challenge = c
    BY <1>2 DEF Locals
  <2>3. c # None /\ c \in drawn' /\ drawn \subseteq drawn' /\ drawn' \subseteq Secrets \cup Challenges
    BY <1>1, <2>1, NoneAssumption DEF Draw, TypeOK
  <2>4. pc' = [pc EXCEPT ![r] = "store"] /\ req' = [req EXCEPT ![r] = locals]
    BY <2>1 DEF Begin
  <2>5. UNCHANGED <<config, challenges, told, confirmed, uses, shared, faults>>
    BY <1>6 DEF LoginChallenge, history
  <2> HIDE DEF locals
  <2> QED BY <1>1, <1>3, <2>2, <2>3, <2>4, <2>5, RequestStep DEF TypeOK
<1>7. ASSUME NEW r \in Requests, LoginDirect(r) PROVE IInv'
  <2>1. Load("login").enrolled = FALSE
    BY <1>1, <1>2, <1>7 DEF LoginDirect, RowActive
  <2>2. pc' = [pc EXCEPT ![r] = "session"] /\ req' = [req EXCEPT ![r] = Load("login")]
    BY <1>7 DEF LoginDirect, Begin
  <2>3. UNCHANGED <<config, challenges, drawn, told, confirmed, uses, shared, faults>>
    BY <1>7 DEF LoginDirect, history
  <2> QED BY <1>1, <1>2, <1>3, <2>1, <2>2, <2>3, RequestStep DEF TypeOK
<1>8. ASSUME NEW r \in Requests, GetChallenge(r) PROVE IInv'
  <2>1. PICK c \in told \cap challenges, s \in (told \cap Secrets) \cup {None} :
          Begin(r, [Idle EXCEPT !.op = "complete", !.challenge = c, !.secret = s], "load")
    BY <1>8 DEF GetChallenge
  <2> DEFINE locals == [Idle EXCEPT !.op = "complete", !.challenge = c, !.secret = s]
  <2>2. c \in Challenges /\ c # None /\ c \in drawn
    BY <1>1, NoneAssumption DEF TypeOK
  <2>3. locals \in Locals /\ locals.op = "complete" /\ locals.challenge = c
    BY <2>2 DEF Locals, Idle
  <2>4. pc' = [pc EXCEPT ![r] = "load"] /\ req' = [req EXCEPT ![r] = locals]
    BY <2>1 DEF Begin
  <2>5. UNCHANGED <<config, challenges, drawn, told, confirmed, uses, faults>>
    BY <1>8 DEF GetChallenge, history
  <2>6. shared' \in SUBSET Challenges
    BY <1>1, <1>8 DEF GetChallenge, TypeOK
  <2> HIDE DEF locals
  <2> QED BY <1>1, <1>3, <2>2, <2>3, <2>4, <2>5, <2>6, RequestStep DEF TypeOK
<1>9. ASSUME NEW r \in Requests,
             \/ StoreChallenge(r) \/ CompleteChallenge(r) \/ CreateSession(r)
             \/ LoadFactor(r) /\ FactorAccepted(r)
      PROVE  IInv'
  <2>1. \E at, call \in Calls :
          /\ pc[r] = at /\ pc' = [pc EXCEPT ![r] = call] /\ req' = req
          /\ call \in {"consume", "session"} => at \in {"load", "consume"}
          /\ call \notin {"store", "load"}
    BY <1>3, <1>9 DEF StoreChallenge, CompleteChallenge, CreateSession, LoadFactor, Continue
  <2>2. PICK call \in Calls :
          /\ pc' = [pc EXCEPT ![r] = call] /\ req' = req
          /\ call \in {"consume", "session"} => req[r].op = "complete"
          /\ call \notin {"store", "load"}
    BY <1>1, <2>1 DEF Completing
  <2>3. challenges' \in SUBSET Challenges
    BY <1>1, <1>9 DEF StoreChallenge, CompleteChallenge, CreateSession, LoadFactor,
                      Continue, TypeOK, Carries, Locals
  <2>4. UNCHANGED <<config, drawn, told, confirmed, uses, shared, faults>>
    BY <1>9 DEF StoreChallenge, CompleteChallenge, CreateSession, LoadFactor, history
  <2>5. req' = [req EXCEPT ![r] = req[r]] /\ req[r] \in Locals
    BY <1>1, <2>2 DEF TypeOK
  <2> QED BY <1>1, <2>2, <2>3, <2>4, <2>5, RequestStep DEF TypeOK, Carries, RowActive
<1>10. ASSUME NEW r \in Requests, LoadFactor(r), ~FactorAccepted(r) PROVE IInv'
  BY <1>1, <1>10, EndStep DEF LoadFactor, TypeOK, history
<1>11. ASSUME NEW r \in Requests, SetupConflict(r) PROVE IInv'
  BY <1>1, <1>11, EndStep DEF SetupConflict, TypeOK, history
<1>12. ASSUME NEW r \in Requests, Reply(r) PROVE IInv'
  <2>1. Answered(r) \subseteq drawn
    BY <1>1 DEF Answered, Carries
  <2> QED BY <1>1, <1>12, <2>1, EndStep DEF Reply, TypeOK, history
<1>13. ASSUME NEW r \in Requests, Fail(r) PROVE IInv'
  <2>1. faults' \in 0 .. MaxFaults
    BY <1>1, <1>13, BoundsAssumption DEF Fail, TypeOK
  <2> QED BY <1>1, <1>13, <2>1, EndStep DEF Fail, TypeOK, history
<1>14. ASSUME NEW c \in Challenges, Lapse(c) PROVE IInv'
  BY <1>1, <1>14 DEF Lapse, IInv, TypeOK, Carries, RowActive, Active, Completing,
                     SecondFactorRequired, history
<1>15. ASSUME UNCHANGED vars PROVE IInv'
  BY <1>1, <1>15 DEF vars, IInv, TypeOK, Carries, RowActive, Active, Completing,
                     SecondFactorRequired
<1>16. ASSUME NEW r \in Requests, ConfirmRefused(r) \/ ChallengeMissing(r) PROVE IInv'
  BY <1>15, <1>16 DEF ConfirmRefused, ChallengeMissing
<1> QED
  BY <1>4, <1>5, <1>6, <1>7, <1>8, <1>9, <1>10, <1>11, <1>12, <1>13, <1>14, <1>15,
     <1>16, CommitStep DEF Next, Enrol, LogIn

\* However setups, confirmations and logins interleave, a login that reads the
\* user after a committed confirmation asks for the second factor: no request
\* takes is_active back, because setup_totp leaves it alone.
THEOREM SecondFactorRequiredAlways == Spec => []SecondFactorRequired
<1>1. IInv => SecondFactorRequired
  BY DEF IInv
<1> QED BY <1>1, InitIInv, NextStep, PTL DEF Spec

-----------------------------------------------------------------------------
(* Challenges *)

\* A challenge that is not shared is being completed by one request at most.
Exclusive ==
  \A c \in Challenges \ shared : \A q, r \in Requests :
    Completes(q, c) /\ Completes(r, c) => q = r

\* A challenge that is being stored belongs to one login, and nobody knows it.
Fresh ==
  \A r \in Requests :
    /\ req[r].op = "login" /\ req[r].challenge # None =>
         \A q \in Requests : req[q].op = "login" /\ req[q].challenge = req[r].challenge => q = r
    /\ pc[r] = "store" => req[r].challenge \notin told
    /\ req[r].op = "complete" => req[r].challenge \in told

\* A challenge that gave a session is known and gone from Redis.
SpentGone ==
  \A c \in Challenges : uses[c] > 0 =>
    /\ c \in told /\ c \notin challenges
    /\ c \notin shared => uses[c] = 1

\* A challenge is out of Redis before its session is created, and if only one
\* request completes it, it has given none yet.
StillUnused ==
  \A r \in Requests : \A c \in Challenges : Completes(r, c) =>
    /\ pc[r] \in {"session", "commit"} => c \notin challenges
    /\ c \notin shared /\ pc[r] # "reply" => uses[c] = 0

Spending == Exclusive /\ Fresh /\ SpentGone /\ StillUnused

\* A request begins.
LEMMA SpendingBegun ==
  ASSUME IInv, Spending, NEW r \in Requests,
         \A q \in Requests \ {r} : pc'[q] = pc[q] /\ req'[q] = req[q],
         UNCHANGED <<challenges, told, uses>>,
         \/ /\ req'[r].op \notin {"complete"} /\ shared' = shared
            /\ req'[r].op = "login" /\ req'[r].challenge # None => req'[r].challenge \notin drawn
            /\ pc'[r] = "store" => req'[r].challenge \notin drawn
         \/ \E c \in told \cap challenges :
              /\ req'[r].op = "complete" /\ req'[r].challenge = c /\ pc'[r] = "load"
              /\ shared' = IF \E q \in Requests : Completes(q, c) THEN shared \cup {c} ELSE shared
  PROVE  Spending'
<1>1. TypeOK /\ Carries /\ Exclusive /\ Fresh /\ SpentGone /\ StillUnused
  BY DEF IInv, Spending
<1>2. \A q \in Requests : req[q].challenge # None => req[q].challenge \in drawn
  BY <1>1 DEF Carries
<1>3. shared \subseteq shared'
  OBVIOUS
<1>4. \A q \in Requests \ {r} : \A c : Completes(q, c)' <=> Completes(q, c)
  BY DEF Completes
<1>5. \A c \in Challenges : Completes(r, c)' =>
        /\ c \in challenges /\ pc'[r] = "load"
        /\ c \notin shared' => c \notin shared /\ \A q \in Requests : ~Completes(q, c)
  BY DEF Completes
<1>6. Exclusive'
  BY <1>1, <1>3, <1>4, <1>5 DEF Exclusive
<1>7. Fresh'
  <2>1. told' = told /\ told \subseteq drawn
    BY <1>1 DEF TypeOK
  <2> QED BY <1>1, <1>2, <2>1 DEF Fresh
<1>8. SpentGone'
  BY <1>1, <1>3 DEF SpentGone
<1>9. StillUnused'
  <2>1. ASSUME NEW c \in Challenges, Completes(r, c)'
        PROVE  pc'[r] = "load" /\ uses'[c] = 0
    BY <1>1, <1>5, <2>1 DEF SpentGone, TypeOK
  <2> QED BY <1>1, <1>3, <1>4, <2>1 DEF StillUnused
<1> QED BY <1>6, <1>7, <1>8, <1>9 DEF Spending

\* A request goes on, or ends, without a commit.
LEMMA SpendingKept ==
  ASSUME IInv, Spending, NEW r \in Requests,
         \A q \in Requests \ {r} : pc'[q] = pc[q] /\ req'[q] = req[q],
         UNCHANGED <<uses, shared>>, told \subseteq told',
         req'[r] = req[r] \/ (req'[r] = Idle /\ pc'[r] = "idle"),
         pc'[r] # "store",
         \A c \in challenges' : c \in challenges \/ (pc[r] = "store" /\ c = req[r].challenge),
         \A c \in (told' \ told) \cap Challenges :
           req[r].op = "login" /\ req[r].challenge = c /\ pc[r] # "store",
         pc[r] = "store" => req[r].op = "login",
         req'[r].op = "complete" => pc[r] # "reply",
         req'[r].op = "complete" /\ pc'[r] \in {"session", "commit"} =>
           req[r].challenge \notin challenges'
  PROVE  Spending'
<1>1. /\ TypeOK /\ Carries /\ Completing
      /\ Exclusive /\ Fresh /\ SpentGone /\ StillUnused
  BY DEF IInv, Spending
<1>2. Idle.op = "none"
  BY DEF Idle
<1>3. \A q \in Requests, c \in Challenges : Completes(q, c)' => Completes(q, c) /\ req'[q] = req[q]
  BY <1>2 DEF Completes
<1>4. Exclusive'
  BY <1>1, <1>3 DEF Exclusive
<1>5. Fresh'
  <2>1. \A q \in Requests :
          /\ req'[q].op \in {"login", "complete"} => req'[q] = req[q]
          /\ pc'[q] = "store" => pc[q] = "store" /\ req'[q] = req[q] /\ q # r
    BY <1>2
  <2>2. ASSUME NEW q \in Requests, pc'[q] = "store" PROVE req'[q].challenge \notin told'
    <3>1. /\ pc[q] = "store" /\ req'[q] = req[q] /\ q # r
          /\ req[q].op = "login" /\ req[q].challenge # None
      BY <1>1, <2>1, <2>2 DEF Completing, Carries
    <3>2. req[q].challenge \notin told /\ req[q].challenge \in Challenges
      BY <1>1, <3>1 DEF Fresh, TypeOK, Locals
    <3>3. req[r].op = "login" => req[r].challenge # req[q].challenge
      BY <1>1, <3>1 DEF Fresh
    <3> QED BY <3>1, <3>2, <3>3
  <2>3. ASSUME NEW q \in Requests, req'[q].op = "login", req'[q].challenge # None,
               NEW o \in Requests, req'[o].op = "login", req'[o].challenge = req'[q].challenge
        PROVE  o = q
    <3>1. req'[q] = req[q] /\ req'[o] = req[o]
      BY <2>1, <2>3
    <3> QED BY <1>1, <2>3, <3>1 DEF Fresh
  <2>4. ASSUME NEW q \in Requests, req'[q].op = "complete" PROVE req'[q].challenge \in told'
    BY <1>1, <2>1, <2>4 DEF Fresh
  <2> QED BY <2>2, <2>3, <2>4 DEF Fresh
<1>6. SpentGone'
  <2> SUFFICES ASSUME NEW c \in Challenges, uses[c] > 0
               PROVE  /\ c \in told' /\ c \notin challenges'
                      /\ c \notin shared => uses[c] = 1
    BY DEF SpentGone
  <2>1. c \in told /\ c \notin challenges /\ (c \notin shared => uses[c] = 1)
    BY <1>1 DEF SpentGone
  <2>2. pc[r] = "store" => c # req[r].challenge
    BY <1>1, <2>1 DEF Fresh
  <2> QED BY <2>1, <2>2
<1>7. StillUnused'
  <2> SUFFICES ASSUME NEW q \in Requests, NEW c \in Challenges, Completes(q, c)'
               PROVE  /\ pc'[q] \in {"session", "commit"} => c \notin challenges'
                      /\ c \notin shared' /\ pc'[q] # "reply" => uses'[c] = 0
    BY DEF StillUnused
  <2>1. Completes(q, c) /\ req'[q] = req[q] /\ req[q].op = "complete" /\ req[q].challenge = c
    BY <1>3 DEF Completes
  <2>2. /\ pc[q] \in {"session", "commit"} => c \notin challenges
        /\ c \notin shared /\ pc[q] # "reply" => uses[c] = 0
    BY <1>1, <2>1 DEF StillUnused
  <2>3. CASE q = r
    <3>1. pc[r] # "reply"
      BY <2>1, <2>3
    <3>2. req[r].challenge = c
      BY <2>1, <2>3
    <3> QED BY <2>1, <2>2, <2>3, <3>1, <3>2
  <2>4. CASE q # r
    <3>1. c \in told
      BY <1>1, <2>1 DEF Fresh
    <3>2. pc[r] = "store" => c # req[r].challenge
      BY <1>1, <3>1 DEF Fresh
    <3> QED BY <2>2, <2>4, <3>2
  <2> QED BY <2>3, <2>4
<1> QED BY <1>4, <1>5, <1>6, <1>7 DEF Spending

\* A commit spends the challenge it has completed.
LEMMA SpendingCommitted ==
  ASSUME IInv, Spending, NEW r \in Requests, Commit(r)
  PROVE  Spending'
<1>1. /\ TypeOK /\ Carries
      /\ Exclusive /\ Fresh /\ SpentGone /\ StillUnused
  BY DEF IInv, Spending
<1>2. /\ pc[r] = "commit" /\ pc'[r] = "reply" /\ req' = req
      /\ \A q \in Requests \ {r} : pc'[q] = pc[q]
      /\ UNCHANGED <<challenges, drawn, told, shared>>
  BY <1>1 DEF Commit, Continue, TypeOK, SetupWrite, ConfirmWrite, SessionWrite, history
<1>3. \A q \in Requests, c \in Challenges : Completes(q, c)' <=> Completes(q, c)
  BY <1>2 DEF Completes
<1>4. Exclusive' /\ Fresh'
  BY <1>1, <1>2, <1>3 DEF Exclusive, Fresh
<1>5. CASE uses' = uses
  BY <1>1, <1>2, <1>3, <1>4, <1>5 DEF SpentGone, StillUnused, Spending
<1>6. CASE uses' # uses
  <2>1. req[r].op = "complete" /\ uses' = [uses EXCEPT ![req[r].challenge] = @ + 1]
    BY <1>6 DEF Commit, SetupWrite, ConfirmWrite, SessionWrite, history
  <2>2. PICK c \in Challenges : c = req[r].challenge
    BY <1>1, <2>1 DEF Carries, TypeOK, Locals
  <2>3. Completes(r, c) /\ c \in told
    BY <1>1, <2>1, <2>2 DEF Completes, Fresh
  <2>4. c \notin challenges /\ (c \notin shared => uses[c] = 0)
    BY <1>1, <1>2, <2>3 DEF StillUnused
  <2>5. /\ \A d \in Challenges \ {c} : uses'[d] = uses[d]
        /\ uses'[c] = uses[c] + 1
    BY <1>1, <2>1, <2>2 DEF TypeOK
  <2>6. SpentGone'
    BY <1>1, <1>2, <2>3, <2>4, <2>5 DEF SpentGone
  <2>7. StillUnused'
    BY <1>1, <1>2, <1>3, <2>3, <2>5 DEF StillUnused, Exclusive
  <2> QED BY <1>4, <2>6, <2>7 DEF Spending
<1> QED BY <1>5, <1>6

\* Every step keeps a spent challenge spent.
LEMMA SpendingStep ==
  ASSUME IInv, Spending, [Next]_vars
  PROVE  Spending'
<1>1. TypeOK /\ Carries /\ RowActive /\ Completing
  BY DEF IInv
<1>2. ASSUME NEW r \in Requests, Setup(r) \/ Confirm(r) \/ LoginDirect(r) PROVE Spending'
  <2>1. /\ req'[r].op # "complete" /\ pc'[r] # "store"
        /\ req'[r].challenge = None
        /\ UNCHANGED <<challenges, told, uses, shared>>
        /\ \A q \in Requests \ {r} : pc'[q] = pc[q] /\ req'[q] = req[q]
    BY <1>1, <1>2 DEF Setup, Confirm, LoginDirect, Begin, Load, Idle, TypeOK, history
  <2> QED BY <2>1, SpendingBegun
<1>3. ASSUME NEW r \in Requests, LoginChallenge(r) PROVE Spending'
  <2>1. PICK c \in Challenges : /\ Draw(c)
                                /\ Begin(r, [Load("login") EXCEPT !.challenge = c], "store")
    BY <1>3 DEF LoginChallenge
  <2>2. /\ req'[r].op = "login" /\ req'[r].challenge = c /\ c \notin drawn
        /\ \A q \in Requests \ {r} : pc'[q] = pc[q] /\ req'[q] = req[q]
    BY <1>1, <2>1 DEF Begin, Load, Idle, TypeOK, Draw
  <2>3. UNCHANGED <<challenges, told, uses, shared>>
    BY <1>3 DEF LoginChallenge, history
  <2> QED BY <2>2, <2>3, SpendingBegun
<1>4. ASSUME NEW r \in Requests, GetChallenge(r) PROVE Spending'
  <2>1. PICK c \in told \cap challenges, s \in (told \cap Secrets) \cup {None} :
          /\ Begin(r, [Idle EXCEPT !.op = "complete", !.challenge = c, !.secret = s], "load")
          /\ shared' = IF \E q \in Requests : Completes(q, c) THEN shared \cup {c} ELSE shared
    BY <1>4 DEF GetChallenge
  <2>2. /\ req'[r].op = "complete" /\ req'[r].challenge = c /\ pc'[r] = "load"
        /\ \A q \in Requests \ {r} : pc'[q] = pc[q] /\ req'[q] = req[q]
    BY <1>1, <2>1 DEF Begin, Idle, TypeOK
  <2>3. UNCHANGED <<challenges, told, uses>>
    BY <1>4 DEF GetChallenge
  <2> QED BY <2>1, <2>2, <2>3, SpendingBegun
<1>5. ASSUME NEW r \in Requests,
             \/ StoreChallenge(r) \/ CompleteChallenge(r) \/ CreateSession(r)
             \/ LoadFactor(r) /\ FactorAccepted(r)
      PROVE  Spending'
  <2>1. /\ req' = req /\ UNCHANGED <<told, uses, shared>>
        /\ \A q \in Requests \ {r} : pc'[q] = pc[q]
        /\ pc'[r] \notin {"store", "idle"} /\ pc[r] # "reply"
        /\ \/ pc[r] = "store" /\ challenges' = challenges \cup {req[r].challenge}
           \/ pc[r] = "load" /\ pc'[r] = "consume" /\ challenges' = challenges
           \/ pc[r] = "consume" /\ challenges' = challenges \ {req[r].challenge}
           \/ pc[r] = "session" /\ challenges' = challenges
    BY <1>1, <1>5 DEF StoreChallenge, CompleteChallenge, CreateSession, LoadFactor, Continue,
                      TypeOK, history
  <2>2. pc[r] = "store" => req[r].op = "login"
    BY <1>1 DEF Completing
  <2>3. req[r].op = "complete" /\ pc[r] = "session" => req[r].challenge \notin challenges
    BY <1>1 DEF Spending, StillUnused, Completes, Carries, TypeOK, Locals
  <2> QED BY <2>1, <2>2, <2>3, SpendingKept
<1>6. ASSUME NEW r \in Requests,
             \/ LoadFactor(r) /\ ~FactorAccepted(r)
             \/ SetupConflict(r) \/ Reply(r) \/ Fail(r)
      PROVE  Spending'
  <2>1. /\ req'[r] = Idle /\ pc'[r] = "idle"
        /\ UNCHANGED <<uses, shared, challenges>>
        /\ \A q \in Requests \ {r} : pc'[q] = pc[q] /\ req'[q] = req[q]
    BY <1>1, <1>6 DEF LoadFactor, SetupConflict, Reply, Fail, End, TypeOK, history
  <2>2. \/ told' = told
        \/ pc[r] = "reply" /\ told' = told \cup Answered(r)
    BY <1>6 DEF LoadFactor, SetupConflict, Reply, Fail
  <2>3. \A c \in Answered(r) \cap Challenges : req[r].op = "login" /\ req[r].challenge = c
    BY <1>1, KindsAssumption DEF Answered, TypeOK, Locals, Carries
  <2>4. pc[r] = "store" => req[r].op = "login"
    BY <1>1 DEF Completing
  <2>5. req'[r].op # "complete"
    BY <2>1 DEF Idle
  <2> QED BY <2>1, <2>2, <2>3, <2>4, <2>5, SpendingKept
<1>7. ASSUME NEW c \in Challenges, Lapse(c) PROVE Spending'
  BY <1>7 DEF Lapse, history, Spending, Exclusive, Fresh, SpentGone, StillUnused, Completes
<1>8. ASSUME UNCHANGED vars PROVE Spending'
  BY <1>8 DEF vars, Spending, Exclusive, Fresh, SpentGone, StillUnused, Completes
<1>9. ASSUME NEW r \in Requests, ConfirmRefused(r) \/ ChallengeMissing(r) PROVE Spending'
  BY <1>8, <1>9 DEF ConfirmRefused, ChallengeMissing
<1> QED
  BY <1>2, <1>3, <1>4, <1>5, <1>6, <1>7, <1>8, <1>9, SpendingCommitted DEF Next, Enrol, LogIn

\* Nothing is spent in the initial state.
LEMMA InitSpending == Init => Spending
  BY DEF Init, Spending, Exclusive, Fresh, SpentGone, StillUnused, Completes, Idle

\* However many requests run and whatever fails, a challenge gives one committed
\* session at most while no two of them that overlap have read it:
\* complete_mfa_login deletes it before the commit.
THEOREM ChallengeSpentOnceAlways == Spec => []ChallengeSpentOnce
<1>1. Init => IInv /\ Spending
  BY InitIInv, InitSpending
<1>2. IInv /\ Spending /\ [Next]_vars => IInv' /\ Spending'
  BY NextStep, SpendingStep
<1>3. IInv /\ Spending => ChallengeSpentOnce
  BY DEF IInv, Spending, SpentGone, ChallengeSpentOnce, TypeOK
<1> QED BY <1>1, <1>2, <1>3, PTL DEF Spec

\* However many requests complete a challenge at a time and whatever fails, none
\* that presents it after it gave a session is let past the check for its key:
\* each of them deletes it before its commit, and no call ever writes it back.
THEOREM ReplayRefusedAlways == Spec => ReplayRefused
<1>1. Init => IInv /\ Spending
  BY InitIInv, InitSpending
<1>2. IInv /\ Spending /\ [Next]_vars => IInv' /\ Spending'
  BY NextStep, SpendingStep
<1>3. ASSUME IInv, Spending, [Next]_vars, NEW r \in Requests, pc[r] = "idle", pc'[r] = "load"
      PROVE  uses[req'[r].challenge] = 0
  <2>1. TypeOK /\ SpentGone
    BY <1>3 DEF IInv, Spending
  <2>2. \A q \in Requests : \A call : pc' = [pc EXCEPT ![q] = call] => call = "load"
    BY <1>3, <2>1 DEF TypeOK
  <2>3. ASSUME NEW q \in Requests, Setup(q) \/ Confirm(q) \/ LoginChallenge(q) \/ LoginDirect(q)
        PROVE  FALSE
    BY <2>2, <2>3 DEF Setup, Confirm, LoginChallenge, LoginDirect, Begin
  <2>4. ASSUME NEW q \in Requests,
               \/ StoreChallenge(q) \/ LoadFactor(q) \/ CompleteChallenge(q)
               \/ CreateSession(q) \/ Commit(q)
        PROVE  FALSE
    BY <2>2, <2>4 DEF StoreChallenge, LoadFactor, CompleteChallenge, CreateSession, Commit,
                      Continue, End
  <2>5. ASSUME NEW q \in Requests, SetupConflict(q) \/ Reply(q) \/ Fail(q)
        PROVE  FALSE
    BY <2>2, <2>5 DEF SetupConflict, Reply, Fail, End
  <2>6. pc' # pc
    BY <1>3
  <2>7. ASSUME NEW q \in Requests, ConfirmRefused(q) \/ ChallengeMissing(q)
        PROVE  FALSE
    BY <2>6, <2>7 DEF ConfirmRefused, ChallengeMissing, vars
  <2>8. ASSUME NEW c \in Challenges, Lapse(c) PROVE FALSE
    BY <2>6, <2>8 DEF Lapse
  <2>9. PICK q \in Requests : GetChallenge(q)
    BY <1>3, <2>3, <2>4, <2>5, <2>6, <2>7, <2>8 DEF Next, Enrol, LogIn, vars
  <2>10. PICK c \in told \cap challenges, s \in (told \cap Secrets) \cup {None} :
           Begin(q, [Idle EXCEPT !.op = "complete", !.challenge = c, !.secret = s], "load")
    BY <2>9 DEF GetChallenge
  <2>11. q = r
    BY <1>3, <2>1, <2>10 DEF Begin, TypeOK
  <2>12. req'[r].challenge = c /\ c \in Challenges
    BY <2>1, <2>10, <2>11 DEF Begin, TypeOK, Idle
  <2>13. c \in challenges /\ uses[c] \in Nat
    BY <2>1, <2>10, <2>12 DEF TypeOK
  <2> QED BY <2>1, <2>12, <2>13 DEF SpentGone
<1>4. IInv /\ Spending /\ [Next]_vars =>
        [\A r \in Requests :
           pc[r] = "idle" /\ pc'[r] = "load" => uses[req'[r].challenge] = 0]_vars
  BY <1>3
<1> QED BY <1>1, <1>2, <1>4, PTL DEF Spec, ReplayRefused

-----------------------------------------------------------------------------
\* The types of Mfa, for any number of requests, secrets and challenges.
THEOREM TypeCorrect == Spec => []TypeOK
<1>1. IInv => TypeOK
  BY DEF IInv
<1> QED BY <1>1, InitIInv, NextStep, PTL DEF Spec
=============================================================================
