------------------------------- MODULE Tokens -------------------------------
(***************************************************************************)
(* JWTs across worker processes and through time: app/core/security.py     *)
(* mints and decodes them with the key of the process, exp is in whole     *)
(* seconds, and Redis keeps a revoked token in the blacklist for a TTL in  *)
(* whole seconds.  refresh_tokens, logout and get_current_user decode a    *)
(* token, ask the blacklist and write it in separate steps, while the clock*)
(* goes on and workers restart.                                            *)
(*                                                                         *)
(* Time is counted in ticks, several to the second.  All workers read one  *)
(* clock (they are processes of one server); Redis counts a TTL from the   *)
(* moment SETEX is executed.                                               *)
(***************************************************************************)
EXTENDS Integers, FiniteSets

CONSTANTS
  Workers,   \* processes of the server
  Requests,  \* slots of concurrent requests
  Logins,    \* logins; each mints a token of each kind
  None,      \* no token, no entry, no local
  Second,    \* ticks in a second
  Life,      \* Life[kind]: seconds a token lives, ACCESS_ and REFRESH_TOKEN_EXPIRE_*
  MaxNow,    \* bound: the last tick
  MaxKeys,   \* bound: keys drawn at process starts
  MaxFaults  \* bound: failures of Redis

Kinds == {"access", "refresh"}

ASSUME SecondAssumption == Second \in Nat \ {0}
ASSUME LifeAssumption == Life \in [Kinds -> Nat]
ASSUME WorkersAssumption == IsFiniteSet(Workers) /\ Cardinality(Workers) <= MaxKeys
ASSUME BoundsAssumption == MaxNow \in Nat /\ MaxKeys \in Nat /\ MaxFaults \in Nat

VARIABLES
  now,        \* the clock
  configured, \* whether JWT_SECRET_KEY is set in the environment
  secret,     \* settings.JWT_SECRET_KEY of each worker; 0 is the configured one
  drawn,      \* keys drawn so far
  tokens,     \* the tokens minted, or None
  blacklist,  \* Redis auth:blacklist:{jti}: the tick after which it is gone, or None
  pc,         \* the call a request makes next
  req,        \* its arguments and locals
  revoked,    \* history: tokens whose SETEX Redis has acknowledged
  loggedOut,  \* history: tokens whose logout was answered
  faults      \* what is left of MaxFaults

processes == <<configured, secret, drawn>>
history == <<revoked, loggedOut>>
vars == <<now, processes, tokens, blacklist, pc, req, history, faults>>

Jtis == Kinds \X Logins

\* exp: claim, in seconds.  key: the key of the signature.
Tokens == [exp : Nat, key : Nat]

Calls == {"idle", "check", "serve", "select", "revoke"}

Locals == [op : {"bearer", "refresh", "logout"}, worker : Workers, jti : Jtis, ttl : Nat]

ASSUME NoneAssumption == None \notin Nat \cup Tokens \cup Locals

TypeOK ==
  /\ now \in 0 .. MaxNow
  /\ configured \in BOOLEAN
  /\ secret \in [Workers -> 0 .. MaxKeys]
  /\ drawn \in 0 .. MaxKeys
  /\ tokens \in [Jtis -> Tokens \cup {None}]
  /\ blacklist \in [Jtis -> Nat \cup {None}]
  /\ pc \in [Requests -> Calls]
  /\ req \in [Requests -> Locals \cup {None}]
  /\ revoked \subseteq Jtis /\ loggedOut \subseteq Jtis
  /\ faults \in 0 .. MaxFaults

Init ==
  /\ now = 0
  /\ configured \in BOOLEAN
  /\ drawn = IF configured THEN 0 ELSE Cardinality(Workers)
  /\ secret \in {key \in [Workers -> 0 .. drawn] :
       IF configured THEN key = [w \in Workers |-> 0]
       ELSE \A v, w \in Workers : key[v] # 0 /\ (key[v] = key[w] => v = w)}
  /\ tokens = [t \in Jtis |-> None]
  /\ blacklist = [t \in Jtis |-> None]
  /\ pc = [r \in Requests |-> "idle"]
  /\ req = [r \in Requests |-> None]
  /\ revoked = {} /\ loggedOut = {}
  /\ faults = MaxFaults

-----------------------------------------------------------------------------
\* The arithmetic.

\* Whole seconds of a tick: utctimetuple drops the fraction.
SecondsOf(tick) == tick \div Second

Expiry(kind) == SecondsOf(now + Life[kind] * Second)

\* Mutant of RemainingTtl: a second is taken off, to be on the safe side.
RemainingTtlShort(exp) ==
  IF (exp - 1) * Second < now THEN 0 ELSE (exp * Second - now) \div Second - 1

\* Mutant of RemainingTtl: no max(0, ...).
RemainingTtlUnbounded(exp) ==
  IF exp * Second < now THEN -((now - exp * Second) \div Second)
  ELSE (exp * Second - now) \div Second

\* max(0, int(exp - now)): the fraction of a second is dropped.
RemainingTtl(exp) ==
  IF exp * Second < now THEN 0 ELSE (exp * Second - now) \div Second

\* jwt.decode in worker w: the signature, and exp against the whole second.
Decodes(w, t) ==
  /\ tokens[t] # None
  /\ tokens[t].key = secret[w]
  /\ SecondsOf(now) <= tokens[t].exp

Listed(t) == blacklist[t] # None /\ now <= blacklist[t]

-----------------------------------------------------------------------------
\* Time and processes.

Tick ==
  /\ now < MaxNow
  /\ now' = now + 1
  /\ UNCHANGED <<processes, tokens, blacklist, pc, req, history, faults>>

Reset(r) ==
  /\ pc' = [pc EXCEPT ![r] = "idle"]
  /\ req' = [req EXCEPT ![r] = None]

\* Mutant of Draws: the environment is not read, every process draws its key.
DrawsAlways(w) ==
  /\ drawn < MaxKeys
  /\ drawn' = drawn + 1
  /\ secret' = [secret EXCEPT ![w] = drawn + 1]

\* The settings of a process that starts.
Draws(w) ==
  IF configured
  THEN secret' = [secret EXCEPT ![w] = 0] /\ UNCHANGED drawn
  ELSE /\ drawn < MaxKeys
       /\ drawn' = drawn + 1
       /\ secret' = [secret EXCEPT ![w] = drawn + 1]

\* A worker dies with its requests and starts again.
Restart(w) ==
  LET dying == {r \in Requests : req[r] # None /\ req[r].worker = w}
  IN /\ Draws(w)
     /\ pc' = [r \in Requests |-> IF r \in dying THEN "idle" ELSE pc[r]]
     /\ req' = [r \in Requests |-> IF r \in dying THEN None ELSE req[r]]
     /\ UNCHANGED <<now, configured, tokens, blacklist, history, faults>>

-----------------------------------------------------------------------------
\* Requests.

\* The end of a login: one token of each kind.
Login(w, n) ==
  /\ \A kind \in Kinds : tokens[<<kind, n>>] = None
  /\ tokens' = [t \in Jtis |->
       IF t[2] = n THEN [exp |-> Expiry(t[1]), key |-> secret[w]] ELSE tokens[t]]
  /\ UNCHANGED <<now, processes, blacklist, pc, req, history, faults>>

Begin(r, call, op, w, t, ttl) ==
  /\ pc[r] = "idle"
  /\ pc' = [pc EXCEPT ![r] = call]
  /\ req' = [req EXCEPT ![r] = [op |-> op, worker |-> w, jti |-> t, ttl |-> ttl]]

Goto(r, call) ==
  IF call = "idle" THEN Reset(r)
  ELSE pc' = [pc EXCEPT ![r] = call] /\ UNCHANGED req

\* get_current_user and refresh_tokens: the token is decoded and has the type.
\* One that is not is refused at once.
Present(r, w, t) ==
  /\ Decodes(w, t)
  /\ Begin(r, "check", IF t[1] = "access" THEN "bearer" ELSE "refresh", w, t, 0)
  /\ UNCHANGED <<now, processes, tokens, blacklist, history, faults>>

\* Mutant of Check: the blacklist is not asked.
CheckSkipped(r) ==
  /\ pc[r] = "check"
  /\ Goto(r, IF req[r].op = "bearer" THEN "serve" ELSE "select")
  /\ UNCHANGED <<now, processes, tokens, blacklist, history, faults>>

\* EXISTS.  A listed token is refused.
Check(r) ==
  /\ pc[r] = "check"
  /\ Goto(r, IF Listed(req[r].jti) THEN "idle"
             ELSE IF req[r].op = "bearer" THEN "serve" ELSE "select")
  /\ UNCHANGED <<now, processes, tokens, blacklist, history, faults>>

\* What get_current_user was asked for is done, or refused for other reasons.
Serve(r) ==
  /\ pc[r] = "serve"
  /\ Reset(r)
  /\ UNCHANGED <<now, processes, tokens, blacklist, history, faults>>

\* refresh_tokens has loaded the user and works out the TTL of the old token.
Select(r) ==
  /\ pc[r] = "select"
  /\ pc' = [pc EXCEPT ![r] = "revoke"]
  /\ req' = [req EXCEPT ![r].ttl = RemainingTtl(tokens[req[r].jti].exp)]
  /\ UNCHANGED <<now, processes, tokens, blacklist, history, faults>>

\* logout decodes the token it is given, of either type; the caller was admitted
\* with another one.
Logout(r, w, t) ==
  /\ Decodes(w, t)
  /\ Begin(r, "revoke", "logout", w, t, RemainingTtl(tokens[t].exp))
  /\ UNCHANGED <<now, processes, tokens, blacklist, history, faults>>

\* A token it cannot decode is passed over, and the logout is answered.
LogoutUndecoded(r, w, t) ==
  /\ pc[r] = "idle"
  /\ tokens[t] # None
  /\ ~Decodes(w, t)
  /\ loggedOut' = loggedOut \cup {t}
  /\ UNCHANGED <<now, processes, tokens, blacklist, pc, req, revoked, faults>>

\* What follows SETEX, acknowledged or not: a logout is answered in any case.
Ends(r) ==
  /\ Reset(r)
  /\ loggedOut' = IF req[r].op = "logout" THEN loggedOut \cup {req[r].jti} ELSE loggedOut
  /\ UNCHANGED <<now, processes, tokens>>

Revoke(r) ==
  /\ pc[r] = "revoke"
  /\ req[r].ttl > 0
  /\ blacklist' = [blacklist EXCEPT ![req[r].jti] = now + req[r].ttl * Second]
  /\ revoked' = revoked \cup {req[r].jti}
  /\ Ends(r)
  /\ UNCHANGED faults

\* Mutant of RevokeFails: the SETEX of a logout is not awaited.
RevokeFailsUnawaited(r) ==
  /\ pc[r] = "revoke"
  /\ \/ req[r].op = "logout" /\ UNCHANGED faults
     \/ faults > 0 /\ faults' = faults - 1
  /\ Ends(r)
  /\ UNCHANGED <<blacklist, revoked>>

\* SETEX with a TTL of 0 is an error, and so is a Redis that does not answer:
\* refresh_tokens raises, logout swallows it.
RevokeFails(r) ==
  /\ pc[r] = "revoke"
  /\ \/ req[r].ttl = 0 /\ UNCHANGED faults
     \/ faults > 0 /\ faults' = faults - 1
  /\ Ends(r)
  /\ UNCHANGED <<blacklist, revoked>>

Next ==
  \/ Tick
  \/ \E w \in Workers :
       \/ Restart(w)
       \/ \E n \in Logins : Login(w, n)
       \/ \E r \in Requests, t \in Jtis :
            Present(r, w, t) \/ Logout(r, w, t) \/ LogoutUndecoded(r, w, t)
  \/ \E r \in Requests : Check(r) \/ Serve(r) \/ Select(r) \/ Revoke(r) \/ RevokeFails(r)

Spec == Init /\ [][Next]_vars

-----------------------------------------------------------------------------
\* exp - 1, as a tick: from here on the token has less than two seconds left, of
\* which the second of exp itself is one that jwt.decode grants.
LastSeconds(t) == now > (tokens[t].exp - 1) * Second

\* A revoked token stays in the blacklist until its last two seconds, although
\* its TTL is rounded down, worked out before SETEX is executed, and may be
\* written twice by requests that overlap.
RevokedListed == \A t \in revoked : Listed(t) \/ LastSeconds(t)

\* No request is admitted with a revoked token, as a bearer or to refresh, except
\* in those two seconds: whatever worker it runs in and however long it was
\* between its calls.
RevokedNotAdmitted ==
  [][\A r \in Requests :
       pc[r] = "check" /\ req[r].jti \in revoked /\ ~LastSeconds(req[r].jti)
         => pc'[r] \notin {"serve", "select"}]_vars

\* With a key in the environment, a token is good in every worker and after any
\* restart, until its exp.
WorkersAgree ==
  configured =>
    \A t \in Jtis, w \in Workers :
      tokens[t] # None /\ SecondsOf(now) <= tokens[t].exp => Decodes(w, t)

\* With that key and while Redis answers, a logout that was answered has revoked
\* the token, or the token is in its last two seconds.
LogoutEffective ==
  configured /\ faults = MaxFaults =>
    \A t \in loggedOut : t \in revoked \/ LastSeconds(t)

(* Refinement of Revocation *)

Stage(t) ==
  IF tokens[t] = None \/ ~LastSeconds(t) THEN "valid"
  ELSE IF SecondsOf(now) <= tokens[t].exp THEN "closing" ELSE "expired"

\* A bearer acts on its admission while it is served, a refresh until it has
\* spent the token.
Admission(r) ==
  IF pc[r] \in {"serve", "select"} \/ (pc[r] = "revoke" /\ req[r].op = "refresh")
  THEN req[r].jti ELSE None

lifeBar     == [t \in Jtis |-> Stage(t)]
listedBar   == {t \in Jtis : Listed(t)}
admittedBar == [r \in Requests |-> Admission(r)]

Contract == INSTANCE Revocation WITH
  Tokens <- Jtis, life <- lifeBar, listed <- listedBar, admitted <- admittedBar

\* A clock, TTLs in whole seconds and EXISTS keep the promise of Revocation:
\* entries lapse after their tokens have stopped being valid, and who is
\* admitted has asked.
RevocationKept == Contract!Spec
=============================================================================
