---------------------------- MODULE TokensProofs ----------------------------
(***************************************************************************)
(* The safety properties of Tokens, for any number of workers, requests and*)
(* logins, any resolution of the clock and any lifetimes.                  *)
(***************************************************************************)
EXTENDS Tokens, FiniteSetTheorems, TLAPS

USE SecondAssumption, LifeAssumption, BoundsAssumption

\* A request in flight has a token that was minted.
Tracked ==
  \A r \in Requests :
    /\ pc[r] = "idle" <=> req[r] = None
    /\ req[r] # None => tokens[req[r].jti] # None

\* An entry, written now or any time later, lasts until exp - 1.
Reaches ==
  \A r \in Requests :
    pc[r] = "revoke" => now + req[r].ttl * Second > (tokens[req[r].jti].exp - 1) * Second

Entries ==
  \A t \in Jtis :
    blacklist[t] # None =>
      tokens[t] # None /\ blacklist[t] > (tokens[t].exp - 1) * Second

RevokedKept == \A t \in revoked : blacklist[t] # None

OneKey ==
  configured =>
    /\ \A w \in Workers : secret[w] = 0
    /\ \A t \in Jtis : tokens[t] # None => tokens[t].key = 0

LoggedOutMinted == \A t \in loggedOut : tokens[t] # None

IInv ==
  /\ TypeOK
  /\ Tracked
  /\ Reaches
  /\ Entries
  /\ RevokedKept
  /\ OneKey
  /\ LoggedOutMinted
  /\ LogoutEffective

-----------------------------------------------------------------------------
(* Arithmetic *)

LEMMA Division ==
  ASSUME NEW n \in Nat
  PROVE  /\ SecondsOf(n) \in Nat
         /\ Second * SecondsOf(n) <= n
         /\ n < Second * SecondsOf(n) + Second
  BY SMT DEF SecondsOf

\* Rounding down costs less than a second, and max(0, ...) applies only after exp.
LEMMA TtlReaches ==
  ASSUME now \in Nat, NEW exp \in Nat
  PROVE  /\ RemainingTtl(exp) \in Nat
         /\ now + RemainingTtl(exp) * Second > (exp - 1) * Second
<1>1. CASE exp * Second < now
  BY <1>1, SMT DEF RemainingTtl
<1>2. CASE ~(exp * Second < now)
  <2> DEFINE left == exp * Second - now
  <2>1. left \in Nat
    BY <1>2, SMT
  <2>2. RemainingTtl(exp) = left \div Second
    BY <1>2 DEF RemainingTtl
  <2>3. /\ left \div Second \in Nat
        /\ left < Second * (left \div Second) + Second
    BY <2>1, SMT
  <2> HIDE DEF left
  <2>4. now + (left \div Second) * Second > now + left - Second
    BY <2>1, <2>3, SMT
  <2>5. now + left - Second = (exp - 1) * Second
    BY SMT DEF left
  <2> QED
    BY <2>2, <2>3, <2>4, <2>5
<1> QED
  BY <1>1, <1>2

\* A token that is expired for jwt.decode is in its last seconds.
LEMMA ExpiredLate ==
  ASSUME now \in Nat, NEW exp \in Nat, ~(SecondsOf(now) <= exp)
  PROVE  now > (exp - 1) * Second
<1>1. SecondsOf(now) \in Nat /\ Second * SecondsOf(now) <= now
  BY Division
<1>2. SecondsOf(now) >= exp + 1
  BY <1>1
<1>3. Second * SecondsOf(now) >= Second * (exp + 1)
  BY <1>1, <1>2, SMT
<1> QED
  BY <1>1, <1>3, SMT

-----------------------------------------------------------------------------
(* Types *)

LEMMA InitTypes == Init => TypeOK
<1> SUFFICES ASSUME Init
             PROVE  TypeOK
  OBVIOUS
<1>1. Cardinality(Workers) \in Nat
  BY WorkersAssumption, FS_CardinalityType
<1>2. drawn \in 0 .. MaxKeys
  BY <1>1, WorkersAssumption DEF Init
<1>3. secret \in [Workers -> 0 .. drawn]
  BY DEF Init
<1>4. secret \in [Workers -> 0 .. MaxKeys]
  BY <1>2, <1>3
<1> QED
  BY <1>2, <1>4 DEF Init, TypeOK, Calls

LEMMA BeginTypes ==
  ASSUME TypeOK, NEW r \in Requests, NEW call \in Calls,
         NEW op \in {"bearer", "refresh", "logout"}, NEW w \in Workers, NEW t \in Jtis,
         NEW ttl \in Nat, Begin(r, call, op, w, t, ttl)
  PROVE  pc' \in [Requests -> Calls] /\ req' \in [Requests -> Locals \cup {None}]
<1>1. [op |-> op, worker |-> w, jti |-> t, ttl |-> ttl] \in Locals
  BY DEF Locals
<1> QED
  BY <1>1 DEF Begin, TypeOK

LEMMA GotoTypes ==
  ASSUME TypeOK, NEW r \in Requests, NEW call \in Calls, Goto(r, call)
  PROVE  pc' \in [Requests -> Calls] /\ req' \in [Requests -> Locals \cup {None}]
  BY DEF Goto, Reset, TypeOK, Calls

LEMMA StepTypes ==
  ASSUME IInv, Next
  PROVE  TypeOK'
<1> USE DEF IInv
<1>0. now \in Nat
  BY DEF TypeOK
<1>1. CASE Tick
  BY <1>1 DEF Tick, TypeOK, processes, history
<1>2. ASSUME NEW w \in Workers, Restart(w)
      PROVE  TypeOK'
  <2>1. secret' \in [Workers -> 0 .. MaxKeys] /\ drawn' \in 0 .. MaxKeys
    BY <1>2 DEF Restart, Draws, TypeOK
  <2>2. pc' \in [Requests -> Calls] /\ req' \in [Requests -> Locals \cup {None}]
    BY <1>2 DEF Restart, TypeOK, Calls
  <2> QED
    BY <1>2, <2>1, <2>2 DEF Restart, TypeOK, history
<1>3. ASSUME NEW w \in Workers, NEW n \in Logins, Login(w, n)
      PROVE  TypeOK'
  <2>1. ASSUME NEW t \in Jtis
        PROVE  [exp |-> Expiry(t[1]), key |-> secret[w]] \in Tokens
    <3>1. t[1] \in Kinds /\ Life[t[1]] \in Nat
      BY DEF Jtis
    <3>2. now + Life[t[1]] * Second \in Nat
      BY <1>0, <3>1, SMT
    <3>3. Expiry(t[1]) \in Nat
      BY <3>2, Division DEF Expiry
    <3> QED
      BY <3>3 DEF Tokens, TypeOK
  <2>2. tokens' \in [Jtis -> Tokens \cup {None}]
    BY <1>3, <2>1 DEF Login, TypeOK
  <2> QED
    BY <1>3, <2>2 DEF Login, TypeOK, processes, history
<1>4. ASSUME NEW r \in Requests, NEW w \in Workers, NEW t \in Jtis, Present(r, w, t)
      PROVE  TypeOK'
  BY <1>4, BeginTypes DEF Present, TypeOK, processes, history, Calls
<1>5. ASSUME NEW r \in Requests, NEW w \in Workers, NEW t \in Jtis, Logout(r, w, t)
      PROVE  TypeOK'
  <2>1. tokens[t].exp \in Nat
    BY <1>5 DEF Logout, Decodes, TypeOK, Tokens
  <2>2. RemainingTtl(tokens[t].exp) \in Nat
    BY <1>0, <2>1, TtlReaches
  <2> QED
    BY <1>5, <2>2, BeginTypes DEF Logout, TypeOK, processes, history, Calls
<1>6. ASSUME NEW r \in Requests, NEW w \in Workers, NEW t \in Jtis, LogoutUndecoded(r, w, t)
      PROVE  TypeOK'
  BY <1>6 DEF LogoutUndecoded, TypeOK, processes
<1>7. ASSUME NEW r \in Requests, Check(r)
      PROVE  TypeOK'
  BY <1>7, GotoTypes DEF Check, TypeOK, processes, history, Calls
<1>11. ASSUME NEW r \in Requests, Serve(r)
       PROVE  TypeOK'
  BY <1>11 DEF Serve, Reset, TypeOK, processes, history, Calls
<1>8. ASSUME NEW r \in Requests, Select(r)
      PROVE  TypeOK'
  <2>1. req[r] \in Locals /\ tokens[req[r].jti].exp \in Nat
    BY <1>8 DEF Select, Tracked, TypeOK, Tokens, Locals
  <2>2. RemainingTtl(tokens[req[r].jti].exp) \in Nat
    BY <1>0, <2>1, TtlReaches
  <2>3. req' \in [Requests -> Locals \cup {None}]
    BY <1>8, <2>1, <2>2 DEF Select, TypeOK, Locals
  <2> QED
    BY <1>8, <2>3 DEF Select, TypeOK, processes, history, Calls
<1>9. ASSUME NEW r \in Requests, Revoke(r)
      PROVE  TypeOK'
  <2>1. req[r] \in Locals
    BY <1>9 DEF Revoke, Tracked, TypeOK
  <2>2. req[r].jti \in Jtis /\ now + req[r].ttl * Second \in Nat
    BY <1>0, <2>1, SMT DEF Locals
  <2> QED
    BY <1>9, <2>2 DEF Revoke, Ends, Reset, TypeOK, processes, Calls
<1>10. ASSUME NEW r \in Requests, RevokeFails(r)
       PROVE  TypeOK'
  <2>1. req[r].jti \in Jtis
    BY <1>10 DEF RevokeFails, Tracked, TypeOK, Locals
  <2>2. faults' \in 0 .. MaxFaults
    BY <1>10 DEF RevokeFails, TypeOK
  <2> QED
    BY <1>10, <2>1, <2>2 DEF RevokeFails, Ends, Reset, TypeOK, processes, Calls
<1> QED
  BY <1>1, <1>2, <1>3, <1>4, <1>5, <1>6, <1>7, <1>8, <1>9, <1>10, <1>11 DEF Next

-----------------------------------------------------------------------------
(* The parts of the invariant *)

LEMMA InitParts == Init => IInv
<1> SUFFICES ASSUME Init
             PROVE  IInv
  OBVIOUS
<1>1. Tracked /\ Reaches /\ Entries
  BY DEF Init, Tracked, Reaches, Entries
<1>2. RevokedKept /\ LoggedOutMinted /\ LogoutEffective
  BY DEF Init, RevokedKept, LoggedOutMinted, LogoutEffective
<1>3. OneKey
  BY DEF Init, OneKey
<1> QED
  BY <1>1, <1>2, <1>3, InitTypes DEF IInv

\* A minted token is not minted again.
LEMMA MintedStays ==
  ASSUME IInv, Next, NEW t \in Jtis, tokens[t] # None
  PROVE  tokens'[t] = tokens[t]
<1>1. ASSUME NEW w \in Workers, NEW n \in Logins, Login(w, n)
      PROVE  tokens'[t] = tokens[t]
  <2>1. t[1] \in Kinds /\ t = <<t[1], t[2]>>
    BY DEF Jtis
  <2>2. t[2] # n
    BY <1>1, <2>1 DEF Login
  <2> QED
    BY <1>1, <2>2 DEF Login
<1>2. ASSUME NEW r \in Requests, Check(r) \/ Serve(r) \/ Select(r) \/ Revoke(r) \/ RevokeFails(r)
      PROVE  tokens' = tokens
  BY <1>2 DEF Check, Serve, Select, Revoke, RevokeFails, Ends
<1>3. ASSUME NEW r \in Requests, NEW w \in Workers, NEW u \in Jtis,
             Present(r, w, u) \/ Logout(r, w, u) \/ LogoutUndecoded(r, w, u)
      PROVE  tokens' = tokens
  BY <1>3 DEF Present, Logout, LogoutUndecoded
<1>4. ASSUME NEW w \in Workers, Restart(w)
      PROVE  tokens' = tokens
  BY <1>4 DEF Restart
<1>5. Tick => tokens' = tokens
  BY DEF Tick
<1> QED
  BY <1>1, <1>2, <1>3, <1>4, <1>5 DEF Next

\* The clock does not go back, and the token of a request stays its own.
LEMMA StepTracked ==
  ASSUME IInv, Next
  PROVE  Tracked'
<1> SUFFICES ASSUME NEW r \in Requests
             PROVE  /\ pc'[r] = "idle" <=> req'[r] = None
                    /\ req'[r] # None => tokens'[req'[r].jti] # None
  BY DEF Tracked
<1> USE DEF IInv
<1>0. /\ pc[r] = "idle" <=> req[r] = None
      /\ req[r] # None => req[r] \in Locals /\ req[r].jti \in Jtis /\ tokens[req[r].jti] # None
  BY DEF Tracked, TypeOK, Locals
<1>1. req[r] # None => tokens'[req[r].jti] # None
  BY <1>0, MintedStays
<1>2. CASE UNCHANGED <<pc, req>>
  BY <1>0, <1>1, <1>2
<1>3. ASSUME NEW w \in Workers, Restart(w)
      PROVE  \/ pc'[r] = pc[r] /\ req'[r] = req[r]
             \/ pc'[r] = "idle" /\ req'[r] = None
  BY <1>3 DEF Restart
<1>4. ASSUME NEW q \in Requests, NEW call \in Calls \ {"idle"},
             NEW op \in {"bearer", "refresh", "logout"}, NEW w \in Workers, NEW t \in Jtis,
             NEW ttl \in Nat, Begin(q, call, op, w, t, ttl), tokens[t] # None
      PROVE  /\ pc'[r] = "idle" <=> req'[r] = None
             /\ req'[r] # None => tokens'[req'[r].jti] # None
  <2>1. [op |-> op, worker |-> w, jti |-> t, ttl |-> ttl] # None
    BY NoneAssumption DEF Locals
  <2>2. tokens'[t] # None
    BY <1>4, MintedStays
  <2> QED
    BY <1>0, <1>1, <1>4, <2>1, <2>2 DEF Begin, TypeOK
<1>5. ASSUME NEW q \in Requests, Check(q) \/ Serve(q) \/ Select(q) \/ Revoke(q) \/ RevokeFails(q)
      PROVE  \/ pc'[r] = pc[r] /\ req'[r] = req[r]
             \/ pc'[r] = "idle" /\ req'[r] = None
             \/ pc'[r] # "idle" /\ pc[r] # "idle" /\ req'[r] # None /\ req'[r].jti = req[r].jti
  <2>1. CASE Check(q)
    BY <1>0, <2>1 DEF Check, Goto, Reset, TypeOK
  <2>2. CASE Select(q)
    <3>1. CASE q # r
      BY <2>2, <3>1 DEF Select, TypeOK
    <3>2. CASE q = r
      <4>1. req[r] \in Locals /\ tokens[req[r].jti] \in Tokens
        BY <1>0, <2>2, <3>2 DEF Select, TypeOK
      <4>2. RemainingTtl(tokens[req[r].jti].exp) \in Nat
        BY <4>1, TtlReaches DEF TypeOK, Tokens
      <4>3. /\ req'[r] = [req[r] EXCEPT !.ttl = RemainingTtl(tokens[req[r].jti].exp)]
            /\ pc'[r] = "revoke" /\ pc[r] = "select"
        BY <2>2, <3>2 DEF Select, TypeOK
      <4>4. req'[r] \in Locals /\ req'[r].jti = req[r].jti
        BY <4>1, <4>2, <4>3 DEF Locals
      <4> QED
        BY <4>3, <4>4, NoneAssumption
    <3> QED
      BY <3>1, <3>2
  <2>3. CASE Serve(q) \/ Revoke(q) \/ RevokeFails(q)
    BY <1>0, <2>3 DEF Serve, Revoke, RevokeFails, Ends, Reset, TypeOK
  <2> QED
    BY <1>5, <2>1, <2>2, <2>3
<1> DEFINE Kept == /\ pc'[r] = "idle" <=> req'[r] = None
                   /\ req'[r] # None => tokens'[req'[r].jti] # None
<1>6. ASSUME NEW q \in Requests, NEW w \in Workers, NEW t \in Jtis,
             Present(q, w, t) \/ Logout(q, w, t)
      PROVE  Kept
  <2>1. tokens[t] # None /\ tokens[t].exp \in Nat
    BY <1>6 DEF Present, Logout, Decodes, TypeOK, Tokens
  <2>2. RemainingTtl(tokens[t].exp) \in Nat
    BY <2>1, TtlReaches DEF TypeOK
  <2> QED
    BY <1>4, <1>6, <2>1, <2>2 DEF Present, Logout, Calls
<1>7. ASSUME NEW w \in Workers,
             Tick \/ (\E n \in Logins : Login(w, n))
               \/ \E q \in Requests, t \in Jtis : LogoutUndecoded(q, w, t)
      PROVE  Kept
  BY <1>2, <1>7 DEF Tick, Login, LogoutUndecoded
<1>8. ASSUME NEW w \in Workers, Restart(w)
      PROVE  Kept
  BY <1>0, <1>1, <1>3, <1>8
<1>9. ASSUME NEW q \in Requests, Check(q) \/ Serve(q) \/ Select(q) \/ Revoke(q) \/ RevokeFails(q)
      PROVE  Kept
  BY <1>0, <1>1, <1>5, <1>9
<1>10. CASE Tick
  BY <1>2, <1>10 DEF Tick
<1> QED
  BY <1>6, <1>7, <1>8, <1>9, <1>10 DEF Next

\* A step that is not the beginning of a logout or the end of a SELECT leaves
\* what requests wait to write.
LEMMA StepReaches ==
  ASSUME IInv, Next
  PROVE  Reaches'
<1> SUFFICES ASSUME NEW r \in Requests, pc'[r] = "revoke"
             PROVE  now' + req'[r].ttl * Second > (tokens'[req'[r].jti].exp - 1) * Second
  BY DEF Reaches
<1> USE DEF IInv
<1>0. /\ now \in Nat
      /\ req[r] # None => /\ req[r] \in Locals /\ req[r].jti \in Jtis /\ req[r].ttl \in Nat
                          /\ tokens'[req[r].jti] = tokens[req[r].jti]
                          /\ tokens[req[r].jti].exp \in Nat
  BY MintedStays DEF Tracked, TypeOK, Locals, Tokens
<1> DEFINE Reaching == now' + req'[r].ttl * Second > (tokens'[req'[r].jti].exp - 1) * Second
<1>1. ASSUME pc[r] = "revoke", req'[r] = req[r], now' \in Nat, now' >= now
      PROVE  Reaching
  <2>1. now + req[r].ttl * Second > (tokens[req[r].jti].exp - 1) * Second
    BY <1>1 DEF Reaches
  <2>2. req[r] # None
    BY <1>1 DEF Tracked
  <2>3. req[r].ttl * Second \in Int /\ (tokens[req[r].jti].exp - 1) * Second \in Int
    BY <1>0, <2>2, SMT
  <2> QED
    BY <1>0, <1>1, <2>1, <2>2, <2>3
<1>2. CASE Tick
  BY <1>0, <1>1, <1>2 DEF Tick
<1>3. CASE now' = now /\ pc'[r] = pc[r] /\ req'[r] = req[r]
  BY <1>0, <1>1, <1>3
<1>4. ASSUME NEW w \in Workers, Restart(w)
      PROVE  Reaching
  BY <1>3, <1>4 DEF Restart
<1>5. ASSUME NEW w \in Workers, NEW n \in Logins, Login(w, n)
      PROVE  Reaching
  BY <1>3, <1>5 DEF Login
<1>6. ASSUME NEW q \in Requests, NEW w \in Workers, NEW t \in Jtis, Present(q, w, t)
      PROVE  Reaching
  BY <1>3, <1>6 DEF Present, Begin, TypeOK
<1>7. ASSUME NEW q \in Requests, NEW w \in Workers, NEW t \in Jtis, Logout(q, w, t)
      PROVE  Reaching
  <2>1. CASE q # r
    BY <1>3, <1>7, <2>1 DEF Logout, Begin, TypeOK
  <2>2. CASE q = r
    <3>1. tokens[t] # None /\ tokens[t].exp \in Nat
      BY <1>7 DEF Logout, Decodes, TypeOK, Tokens
    <3>2. now + RemainingTtl(tokens[t].exp) * Second > (tokens[t].exp - 1) * Second
      BY <1>0, <3>1, TtlReaches
    <3>3. /\ req'[r].jti = t /\ req'[r].ttl = RemainingTtl(tokens[t].exp)
          /\ now' = now /\ tokens' = tokens
      BY <1>7, <2>2 DEF Logout, Begin, TypeOK
    <3> QED
      BY <3>2, <3>3
  <2> QED
    BY <2>1, <2>2
<1>8. ASSUME NEW q \in Requests, NEW w \in Workers, NEW t \in Jtis, LogoutUndecoded(q, w, t)
      PROVE  Reaching
  BY <1>3, <1>8 DEF LogoutUndecoded
<1>9. ASSUME NEW q \in Requests, Check(q) \/ Serve(q)
      PROVE  Reaching
  BY <1>3, <1>9 DEF Check, Serve, Goto, Reset, TypeOK
<1>10. ASSUME NEW q \in Requests, Select(q)
       PROVE  Reaching
  <2>1. CASE q # r
    BY <1>3, <1>10, <2>1 DEF Select, TypeOK
  <2>2. CASE q = r
    <3>1. req[r] # None
      BY <1>10, <2>2 DEF Select, Tracked
    <3> DEFINE t == req[r].jti
    <3>2. tokens[t].exp \in Nat
      BY <1>0, <3>1
    <3>3. now + RemainingTtl(tokens[t].exp) * Second > (tokens[t].exp - 1) * Second
      BY <1>0, <3>2, TtlReaches
    <3>4. /\ req'[r].jti = t /\ req'[r].ttl = RemainingTtl(tokens[t].exp)
          /\ now' = now /\ tokens' = tokens
      BY <1>0, <1>10, <2>2, <3>1 DEF Select, TypeOK, Locals
    <3> QED
      BY <3>3, <3>4
  <2> QED
    BY <2>1, <2>2
<1>11. ASSUME NEW q \in Requests, Revoke(q) \/ RevokeFails(q)
       PROVE  Reaching
  BY <1>3, <1>11 DEF Revoke, RevokeFails, Ends, Reset, TypeOK
<1> QED
  BY <1>2, <1>4, <1>5, <1>6, <1>7, <1>8, <1>9, <1>10, <1>11 DEF Next

\* Only SETEX writes the blacklist, and it writes what Reaches says.
LEMMA StepEntries ==
  ASSUME IInv, Next
  PROVE  Entries' /\ RevokedKept'
<1> USE DEF IInv
<1>1. ASSUME NEW q \in Requests, Revoke(q)
      PROVE  Entries' /\ RevokedKept'
  <2>1. /\ req[q] # None /\ req[q] \in Locals /\ req[q].jti \in Jtis
        /\ tokens[req[q].jti] # None
    BY <1>1 DEF Revoke, Tracked, TypeOK, Locals
  <2> DEFINE end == now + req[q].ttl * Second
  <2>2. end > (tokens[req[q].jti].exp - 1) * Second
    BY <1>1 DEF Revoke, Reaches
  <2>3. end \in Nat
    BY <2>1, SMT DEF TypeOK, Locals
  <2>4. end # None
    BY <2>3, NoneAssumption
  <2>5. blacklist' = [blacklist EXCEPT ![req[q].jti] = end]
    BY <1>1 DEF Revoke
  <2> HIDE DEF end
  <2>6. tokens' = tokens /\ revoked' = revoked \cup {req[q].jti}
    BY <1>1 DEF Revoke, Ends
  <2> QED
    BY <2>1, <2>2, <2>4, <2>5, <2>6 DEF Entries, RevokedKept, TypeOK
<1>2. CASE UNCHANGED <<blacklist, revoked>>
  BY <1>2, MintedStays DEF Entries, RevokedKept
<1> QED
  BY <1>1, <1>2 DEF Next, Tick, Restart, Login, Present, Logout, LogoutUndecoded,
       Check, Serve, Select, RevokeFails, history

\* All workers sign with the configured key.
LEMMA StepOneKey ==
  ASSUME IInv, Next
  PROVE  OneKey'
<1> USE DEF IInv
<1>1. ASSUME NEW w \in Workers, Restart(w)
      PROVE  OneKey'
  BY <1>1 DEF Restart, Draws, OneKey, TypeOK
<1>2. ASSUME NEW w \in Workers, NEW n \in Logins, Login(w, n)
      PROVE  OneKey'
  BY <1>2 DEF Login, OneKey, TypeOK, processes
<1>3. CASE UNCHANGED <<processes, tokens>>
  BY <1>3 DEF OneKey, processes
<1> QED
  BY <1>1, <1>2, <1>3 DEF Next, Tick, Present, Logout, LogoutUndecoded, Check, Serve, Select,
       Revoke, RevokeFails, Ends, Reset, history

\* A token that a logout passes over is expired, since all keys are one; a token
\* whose TTL is 0 is in its last seconds.
LEMMA StepLogout ==
  ASSUME IInv, Next
  PROVE  LoggedOutMinted' /\ LogoutEffective'
<1> USE DEF IInv
<1> DEFINE Done(t) == t \in revoked \/ LastSeconds(t)
<1>0. /\ now \in Nat /\ now' \in Nat /\ now' >= now
      /\ revoked \subseteq revoked'
      /\ faults' = MaxFaults => faults = MaxFaults
      /\ configured' = configured
  <2>1. now \in Nat /\ faults \in 0 .. MaxFaults
    BY DEF TypeOK
  <2> QED
    BY <2>1 DEF Next, Tick, Restart, Login, Present, Logout, LogoutUndecoded, Check, Serve, Select,
         Revoke, RevokeFails, Ends, history, processes
<1>1. ASSUME NEW t \in Jtis, tokens[t] # None, Done(t)
      PROVE  Done(t)'
  <2>1. tokens'[t] = tokens[t] /\ tokens[t].exp \in Nat
    BY <1>1, MintedStays DEF TypeOK, Tokens
  <2>2. (tokens[t].exp - 1) * Second \in Int
    BY <2>1, SMT
  <2> QED
    BY <1>0, <1>1, <2>1, <2>2 DEF LastSeconds
<1>2. ASSUME NEW t \in loggedOut'
      PROVE  /\ tokens[t] # None /\ t \in Jtis
             /\ \/ t \in loggedOut
                \/ configured' /\ faults' = MaxFaults => Done(t) \/ t \in revoked'
  <2>1. CASE t \in loggedOut
    BY <2>1 DEF LoggedOutMinted, TypeOK
  <2>2. ASSUME NEW q \in Requests, NEW w \in Workers, LogoutUndecoded(q, w, t), t \in Jtis
        PROVE  tokens[t] # None /\ (configured => Done(t))
    <3>1. tokens[t] # None /\ tokens[t].exp \in Nat /\ ~Decodes(w, t)
      BY <2>2 DEF LogoutUndecoded, TypeOK, Tokens
    <3>2. ASSUME configured
          PROVE  ~(SecondsOf(now) <= tokens[t].exp)
      <4>1. tokens[t].key = 0 /\ secret[w] = 0
        BY <2>2, <3>1, <3>2 DEF OneKey
      <4> QED
        BY <3>1, <4>1 DEF Decodes
    <3> QED
      BY <1>0, <3>1, <3>2, ExpiredLate DEF LastSeconds
  <2>3. ASSUME NEW q \in Requests, Revoke(q) \/ RevokeFails(q), t = req[q].jti
        PROVE  /\ tokens[t] # None /\ t \in Jtis
               /\ faults' = MaxFaults => Done(t) \/ t \in revoked'
    <3>1. /\ req[q] # None /\ req[q] \in Locals /\ t \in Jtis /\ tokens[t] # None
          /\ pc[q] = "revoke"
      BY <2>3 DEF Revoke, RevokeFails, Tracked, TypeOK, Locals
    <3>2. CASE Revoke(q)
      BY <2>3, <3>1, <3>2 DEF Revoke
    <3>3. CASE RevokeFails(q) /\ req[q].ttl = 0
      <4>1. now + req[q].ttl * Second > (tokens[t].exp - 1) * Second
        BY <2>3, <3>1 DEF Reaches
      <4>2. now + req[q].ttl * Second = now
        BY <1>0, <3>3, SMT
      <4> QED
        BY <3>1, <4>1, <4>2 DEF LastSeconds
    <3>4. CASE RevokeFails(q) /\ req[q].ttl # 0
      BY <3>1, <3>4 DEF RevokeFails, TypeOK
    <3> QED
      BY <2>3, <3>2, <3>3, <3>4
  <2>4. \/ t \in loggedOut
        \/ \E q \in Requests, w \in Workers : t \in Jtis /\ LogoutUndecoded(q, w, t)
        \/ \E q \in Requests : (Revoke(q) \/ RevokeFails(q)) /\ t = req[q].jti
    BY <1>2 DEF Next, Tick, Restart, Login, Present, Logout, LogoutUndecoded, Check, Serve, Select,
         Revoke, RevokeFails, Ends, history
  <2> QED
    BY <1>0, <2>1, <2>2, <2>3, <2>4
<1>3. LoggedOutMinted'
  BY <1>2, MintedStays DEF LoggedOutMinted
<1>4. ASSUME configured', faults' = MaxFaults, NEW t \in loggedOut'
      PROVE  Done(t)'
  BY <1>0, <1>1, <1>2, <1>4 DEF LogoutEffective
<1> QED
  BY <1>3, <1>4 DEF LogoutEffective

-----------------------------------------------------------------------------
(* The theorems *)

LEMMA Stutter ==
  ASSUME IInv, UNCHANGED vars
  PROVE  IInv'
<1> USE DEF IInv, vars, processes, history
<1>1. TypeOK' /\ Tracked'
  BY DEF TypeOK, Tracked
<1>2. Reaches' /\ Entries'
  BY DEF Reaches, Entries
<1>3. RevokedKept' /\ OneKey' /\ LoggedOutMinted' /\ LogoutEffective'
  BY DEF RevokedKept, OneKey, LoggedOutMinted, LogoutEffective, LastSeconds
<1> QED
  BY <1>1, <1>2, <1>3

\* IInv, the types and what entries and pending writes reach, is inductive.
THEOREM Invariance == Spec => []IInv
<1>1. Init => IInv
  BY InitParts
<1>2. IInv /\ [Next]_vars => IInv'
  <2>1. ASSUME IInv, Next
        PROVE  IInv'
    BY <2>1, StepTypes, StepTracked, StepReaches, StepEntries, StepOneKey, StepLogout DEF IInv
  <2> QED
    BY <2>1, Stutter
<1> QED
  BY <1>1, <1>2, PTL DEF Spec

\* The types of Tokens.
THEOREM TypeCorrect == Spec => []TypeOK
<1>1. IInv => TypeOK
  BY DEF IInv
<1> QED
  BY <1>1, Invariance, PTL

LEMMA EntryLasts == IInv => RevokedListed
<1> SUFFICES ASSUME IInv, NEW t \in revoked
             PROVE  Listed(t) \/ LastSeconds(t)
  BY DEF RevokedListed
<1>1. /\ t \in Jtis /\ now \in Nat /\ tokens[t] # None
      /\ blacklist[t] # None /\ blacklist[t] > (tokens[t].exp - 1) * Second
  BY DEF IInv, RevokedKept, Entries, TypeOK
<1>2. blacklist[t] \in Nat /\ tokens[t].exp \in Nat
  BY <1>1 DEF IInv, TypeOK, Tokens
<1>3. (tokens[t].exp - 1) * Second \in Int
  BY <1>2, SMT
<1> QED
  BY <1>1, <1>2, <1>3 DEF Listed, LastSeconds

\* blacklist_token with a TTL in whole seconds covers a token until less than two
\* seconds are left of it, in any clock and for any lifetime.
THEOREM RevokedListedAlways == Spec => []RevokedListed
  BY Invariance, EntryLasts, PTL

\* The key of the environment makes the workers one server.
THEOREM WorkersAgreeAlways == Spec => []WorkersAgree
<1>1. IInv => WorkersAgree
  BY DEF IInv, OneKey, WorkersAgree, Decodes
<1> QED
  BY <1>1, Invariance, PTL

\* A logout that was answered has taken effect, but for the last seconds.
THEOREM LogoutEffectiveAlways == Spec => []LogoutEffective
<1>1. IInv => LogoutEffective
  BY DEF IInv
<1> QED
  BY <1>1, Invariance, PTL

\* Of any number of overlapping requests, none is admitted with a token that
\* Redis has acknowledged as revoked, but for the last seconds.
THEOREM RevokedNotAdmittedAlways == Spec => RevokedNotAdmitted
<1>1. ASSUME IInv, Next, NEW r \in Requests,
             pc[r] = "check", req[r].jti \in revoked, ~LastSeconds(req[r].jti)
      PROVE  pc'[r] \notin {"serve", "select"}
  <2>1. Listed(req[r].jti)
    BY <1>1, EntryLasts DEF RevokedListed
  <2>2. pc \in [Requests -> Calls]
    BY <1>1 DEF IInv, TypeOK
  <2>3. ASSUME NEW q \in Requests, Check(q)
        PROVE  pc'[r] \notin {"serve", "select"}
    BY <1>1, <2>1, <2>2, <2>3 DEF Check, Goto, Reset
  <2>4. ASSUME NEW q \in Requests, Serve(q) \/ Select(q) \/ Revoke(q) \/ RevokeFails(q)
        PROVE  pc'[r] \notin {"serve", "select"}
    BY <1>1, <2>2, <2>4 DEF Serve, Select, Revoke, RevokeFails, Ends, Reset
  <2>5. ASSUME NEW q \in Requests, NEW w \in Workers, NEW t \in Jtis,
               Present(q, w, t) \/ Logout(q, w, t) \/ LogoutUndecoded(q, w, t)
        PROVE  pc'[r] \notin {"serve", "select"}
    BY <1>1, <2>2, <2>5 DEF Present, Logout, LogoutUndecoded, Begin
  <2>6. ASSUME NEW w \in Workers, Restart(w)
        PROVE  pc'[r] \notin {"serve", "select"}
    BY <1>1, <2>2, <2>6 DEF Restart
  <2>7. CASE Tick \/ \E w \in Workers, n \in Logins : Login(w, n)
    BY <1>1, <2>2, <2>7 DEF Tick, Login
  <2> QED
    BY <1>1, <2>3, <2>4, <2>5, <2>6, <2>7 DEF Next
<1> DEFINE Admits ==
      \A r \in Requests :
        pc[r] = "check" /\ req[r].jti \in revoked /\ ~LastSeconds(req[r].jti)
          => pc'[r] \notin {"serve", "select"}
<1>2. IInv /\ [Next]_vars => [Admits]_vars
  BY <1>1
<1> QED
  BY <1>2, Invariance, PTL DEF Spec, RevokedNotAdmitted

-----------------------------------------------------------------------------
(* Tokens implements Revocation *)

LEMMA SecondsGrow ==
  ASSUME NEW m \in Nat, NEW n \in Nat, m <= n
  PROVE  SecondsOf(m) <= SecondsOf(n)
<1> DEFINE a == SecondsOf(m)
           b == SecondsOf(n)
<1>1. /\ a \in Nat /\ Second * a <= m
      /\ b \in Nat /\ n < Second * b + Second
  BY Division
<1> HIDE DEF a, b
<1>2. SUFFICES ASSUME a > b
               PROVE  FALSE
  BY <1>1 DEF a, b
<1>3. Second * a >= Second * (b + 1)
  BY <1>1, <1>2, SMT
<1> QED
  BY <1>1, <1>3, SMT

\* Tokens grow older only: the clock does not go back and exp is not changed.
LEMMA Older ==
  ASSUME IInv, Next, now' \in Nat, now <= now', NEW t \in Jtis
  PROVE  Stage(t) \in {"valid", Stage(t)'} \/ Stage(t)' = "expired"
<1>1. SUFFICES ASSUME tokens[t] # None, LastSeconds(t)
               PROVE  Stage(t) = Stage(t)' \/ Stage(t)' = "expired"
  BY DEF Stage
<1>2. now \in Nat /\ tokens'[t] = tokens[t] /\ tokens[t].exp \in Nat
  BY <1>1, MintedStays DEF IInv, TypeOK, Tokens
<1>3. (tokens[t].exp - 1) * Second \in Int
  BY <1>2, SMT
<1>4. LastSeconds(t)'
  BY <1>1, <1>2, <1>3 DEF LastSeconds
<1>5. /\ SecondsOf(now) \in Nat /\ SecondsOf(now') \in Nat
      /\ SecondsOf(now) <= SecondsOf(now')
  BY <1>2, SecondsGrow, Division
<1>6. SecondsOf(now') <= tokens[t].exp => SecondsOf(now) <= tokens[t].exp
  BY <1>2, <1>5
<1> QED
  BY <1>1, <1>2, <1>4, <1>6 DEF Stage

\* The clock ticks, or a login mints: entries that lapse are of tokens in their
\* last seconds.
LEMMA Passes ==
  ASSUME IInv, Next, now' \in Nat, now <= now',
         UNCHANGED <<blacklist, pc, req, revoked>>
  PROVE  Contract!Pass
<1>1. \A t \in Jtis : lifeBar[t] \in {"valid", lifeBar'[t]} \/ lifeBar'[t] = "expired"
  BY Older DEF lifeBar
<1>2. listedBar' \subseteq listedBar
  BY DEF listedBar, Listed, IInv, TypeOK
<1>3. ASSUME NEW t \in listedBar \ listedBar'
      PROVE  lifeBar'[t] # "valid"
  <2>1. t \in Jtis /\ blacklist[t] \in Nat /\ tokens[t] # None
    BY <1>3 DEF listedBar, Listed, IInv, TypeOK, Entries
  <2>2. tokens'[t] = tokens[t] /\ tokens[t].exp \in Nat
    BY <2>1, MintedStays DEF IInv, TypeOK, Tokens
  <2>3. blacklist[t] < now' /\ blacklist[t] > (tokens[t].exp - 1) * Second
    BY <1>3, <2>1 DEF listedBar, Listed, IInv, Entries
  <2>4. (tokens[t].exp - 1) * Second \in Int
    BY <2>2, SMT
  <2>5. LastSeconds(t)'
    BY <2>1, <2>2, <2>3, <2>4 DEF LastSeconds
  <2> QED
    BY <2>1, <2>2, <2>5 DEF lifeBar, Stage
<1>4. lifeBar' \in [Jtis -> Contract!Stages]
  BY DEF lifeBar, Stage, Contract!Stages
<1>5. UNCHANGED <<revoked, admittedBar>>
  BY DEF admittedBar, Admission
<1> QED
  BY <1>1, <1>2, <1>3, <1>4, <1>5 DEF Contract!Pass

\* Requests come to their end, as far as admissions are concerned.
LEMMA Leaves ==
  ASSUME UNCHANGED <<now, tokens, blacklist, revoked>>, NEW some \in SUBSET Requests,
         \A r \in Requests : Admission(r)' = IF r \in some THEN None ELSE Admission(r)
  PROVE  Contract!Leave(some)
<1>1. UNCHANGED <<lifeBar, listedBar>>
  BY DEF lifeBar, Stage, LastSeconds, listedBar, Listed
<1> QED
  BY <1>1 DEF Contract!Leave, admittedBar

\* A listed token is turned away; the others admit the request.
LEMMA Asks ==
  ASSUME IInv, NEW r \in Requests, Check(r)
  PROVE  \/ Contract!Admit(r, req[r].jti) /\ req[r].jti \in Jtis
         \/ Contract!Leave({})
<1>0. /\ pc \in [Requests -> Calls] /\ req \in [Requests -> Locals \cup {None}]
      /\ pc[r] = "check" /\ req[r].jti \in Jtis
      /\ UNCHANGED <<now, tokens, blacklist, revoked>>
  BY DEF IInv, TypeOK, Tracked, Check, Locals, history
<1>1. \A q \in Requests \ {r} : Admission(q)' = Admission(q)
  BY <1>0 DEF Check, Goto, Reset, Admission
<1>2. Admission(r) = None
  BY <1>0 DEF Admission
<1>3. CASE Listed(req[r].jti)
  <2>1. Admission(r)' = None
    BY <1>0, <1>3 DEF Check, Goto, Reset, Admission
  <2> QED
    BY <1>0, <1>1, <1>2, <2>1, Leaves
<1>4. CASE ~Listed(req[r].jti)
  <2>1. Admission(r)' = req[r].jti
    BY <1>0, <1>4 DEF Check, Goto, Admission
  <2>2. admittedBar' = [admittedBar EXCEPT ![r] = req[r].jti]
    BY <1>1, <2>1 DEF admittedBar
  <2>3. UNCHANGED <<lifeBar, listedBar>>
    BY <1>0 DEF lifeBar, Stage, LastSeconds, listedBar, Listed
  <2> QED
    BY <1>0, <1>2, <1>4, <2>2, <2>3 DEF Contract!Admit, admittedBar, listedBar
<1> QED
  BY <1>3, <1>4

\* SETEX lists the token at once, whatever TTL it has.
LEMMA Revokes ==
  ASSUME IInv, NEW r \in Requests, Revoke(r)
  PROVE  Contract!Revoke(r, req[r].jti) /\ req[r].jti \in Jtis
<1>0. /\ pc \in [Requests -> Calls] /\ now \in Nat
      /\ req[r] \in Locals /\ req[r].jti \in Jtis
      /\ UNCHANGED <<now, tokens>>
  BY DEF IInv, TypeOK, Tracked, Revoke, Ends, Locals
<1> DEFINE end == now + req[r].ttl * Second
<1>1. end \in Nat /\ now <= end
  BY <1>0, SMT DEF Locals
<1>2. blacklist' = [blacklist EXCEPT ![req[r].jti] = end]
  BY DEF Revoke
<1> HIDE DEF end
<1>3. listedBar' = listedBar \cup {req[r].jti}
  BY <1>0, <1>1, <1>2, NoneAssumption DEF listedBar, Listed, IInv, TypeOK
<1>4. admittedBar' = [admittedBar EXCEPT ![r] = None]
  BY <1>0 DEF Revoke, Ends, Reset, admittedBar, Admission, IInv, TypeOK
<1>5. UNCHANGED lifeBar
  BY <1>0 DEF lifeBar, Stage, LastSeconds
<1> QED
  BY <1>0, <1>3, <1>4, <1>5 DEF Contract!Revoke, Revoke

LEMMA StepImplements == IInv /\ [Next]_vars => [Contract!Next]_(Contract!vars)
<1> SUFFICES ASSUME IInv, [Next]_vars
             PROVE  [Contract!Next]_(Contract!vars)
  OBVIOUS
<1>0. pc \in [Requests -> Calls] /\ req \in [Requests -> Locals \cup {None}] /\ now \in Nat
  BY DEF IInv, TypeOK
<1>1. ASSUME Next, Tick \/ \E w \in Workers, n \in Logins : Login(w, n)
      PROVE  Contract!Next
  BY <1>0, <1>1, Passes DEF Tick, Login, history, Contract!Next
<1>2. ASSUME UNCHANGED <<now, tokens, blacklist, revoked>>, NEW r \in Requests,
             \A q \in Requests \ {r} : Admission(q)' = Admission(q),
             Admission(r)' \in {Admission(r), None}
      PROVE  Contract!Next
  <2>1. CASE Admission(r)' = Admission(r)
    <3>1. Contract!Leave({})
      BY <1>2, <2>1, Leaves
    <3> QED
      BY <3>1 DEF Contract!Next
  <2>2. CASE Admission(r)' = None
    <3>1. Contract!Leave({r})
      BY <1>2, <2>2, Leaves
    <3> QED
      BY <3>1 DEF Contract!Next
  <2> QED
    BY <1>2, <2>1, <2>2
<1>3. ASSUME NEW w \in Workers, Restart(w)
      PROVE  Contract!Next
  <2> DEFINE dying == {r \in Requests : req[r] # None /\ req[r].worker = w}
  <2>1. \A r \in Requests : Admission(r)' = IF r \in dying THEN None ELSE Admission(r)
    BY <1>3 DEF Restart, Admission
  <2>2. UNCHANGED <<now, tokens, blacklist, revoked>>
    BY <1>3 DEF Restart, history
  <2>3. dying \in SUBSET Requests
    OBVIOUS
  <2> HIDE DEF dying
  <2>4. Contract!Leave(dying)
    BY <2>1, <2>2, <2>3, Leaves
  <2> QED
    BY <2>3, <2>4 DEF Contract!Next
<1>4. ASSUME NEW r \in Requests, NEW w \in Workers, NEW t \in Jtis,
             Present(r, w, t) \/ Logout(r, w, t) \/ LogoutUndecoded(r, w, t)
      PROVE  Contract!Next
  <2>1. \A q \in Requests \ {r} : Admission(q)' = Admission(q)
    BY <1>0, <1>4 DEF Present, Logout, LogoutUndecoded, Begin, Admission
  <2>2. Admission(r)' = None \/ Admission(r)' = Admission(r)
    BY <1>0, <1>4 DEF Present, Logout, LogoutUndecoded, Begin, Admission
  <2> QED
    BY <1>2, <1>4, <2>1, <2>2 DEF Present, Logout, LogoutUndecoded, history
<1>5. ASSUME NEW r \in Requests, Check(r)
      PROVE  Contract!Next
  BY <1>5, Asks DEF Contract!Next
<1>6. ASSUME NEW r \in Requests, Serve(r) \/ Select(r) \/ RevokeFails(r)
      PROVE  Contract!Next
  <2>1. \A q \in Requests \ {r} : Admission(q)' = Admission(q)
    BY <1>0, <1>6 DEF Serve, Select, RevokeFails, Ends, Reset, Admission
  <2>2. Admission(r)' \in {Admission(r), None}
    <3>1. CASE Select(r)
      <4>1. req[r] \in Locals /\ pc[r] = "select" /\ pc'[r] = "revoke"
        BY <1>0, <3>1 DEF Select, IInv, Tracked
      <4>2. req'[r].jti = req[r].jti
        BY <1>0, <3>1, <4>1 DEF Select, Locals
      <4> QED
        BY <4>1, <4>2 DEF Admission
    <3>2. CASE Serve(r) \/ RevokeFails(r)
      BY <1>0, <3>2 DEF Serve, RevokeFails, Ends, Reset, Admission
    <3> QED
      BY <1>6, <3>1, <3>2
  <2> QED
    BY <1>2, <1>6, <2>1, <2>2 DEF Serve, Select, RevokeFails, Ends, history
<1>7. ASSUME NEW r \in Requests, Revoke(r)
      PROVE  Contract!Next
  BY <1>7, Revokes DEF Contract!Next
<1>8. CASE UNCHANGED vars
  BY <1>8 DEF vars, history, Contract!vars, lifeBar, Stage, LastSeconds, listedBar, Listed,
       admittedBar, Admission
<1> QED
  BY <1>1, <1>3, <1>4, <1>5, <1>6, <1>7, <1>8 DEF Next

\* The clock, the rounding of exp and of TTLs, restarts and late SETEX calls are
\* an implementation of Revocation: what AuthSessions takes for granted of time
\* and of its blacklist is what tokens do.
THEOREM Implements == Spec => RevocationKept
<1>1. Init => Contract!Init
  BY DEF Init, Contract!Init, lifeBar, Stage, listedBar, Listed, admittedBar, Admission
<1> QED
  BY <1>1, StepImplements, Invariance, PTL DEF Spec, RevocationKept, Contract!Spec
=============================================================================
