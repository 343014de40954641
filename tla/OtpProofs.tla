----------------------------- MODULE OtpProofs -----------------------------
(***************************************************************************)
(* Proofs about Otp, for any number of concurrent verifications, sends and *)
(* failures.                                                               *)
(***************************************************************************)
EXTENDS Otp, TLAPS

\* A request that has begun carries what it read, and every code in Redis or in
\* a request has been sent.
Traced ==
  /\ key # None => key.code \in sent
  /\ \A v \in Verifiers :
       /\ pc[v] = "idle" => req[v] = Idle
       /\ pc[v] # "idle" => req[v].seen # None /\ req[v].seen.code \in sent
       /\ req[v].counted # None => req[v].counted.code \in sent
       /\ pc[v] \in {"ttl", "store"} => req[v].counted # None

\* A code that is not shared is in the hands of one verification at most.
Exclusive ==
  \A c \in Codes \ shared : \A v, w \in Verifiers :
    Touches(v, c) /\ Touches(w, c) => v = w

\* No copy of the code is left that a verification could accept or write back.
Gone(c) ==
  /\ key # None => key.code # c
  /\ \A v \in Verifiers : ~Touches(v, c)

UsedAndGone ==
  \A c \in Codes :
    /\ uses[c] <= 1
    /\ c \notin shared /\ uses[c] > 0 => c \in sent /\ Gone(c)

\* Between the deletion of an accepted code and the commit.
Accepted ==
  \A v \in Verifiers : pc[v] \in {"apply", "commit"} /\ req[v].seen.code \notin shared =>
    /\ uses[req[v].seen.code] = 0
    /\ key # None => key.code # req[v].seen.code

IInv == TypeOK /\ Traced /\ Exclusive /\ UsedAndGone /\ Accepted

-----------------------------------------------------------------------------
(* Types *)

\* Idle is a value of the locals.
LEMMA IdleType == Idle \in Locals
  BY DEF Idle, Locals

\* The initial state is typed.
LEMMA InitType == Init => TypeOK
  BY NoneAssumption, BoundsAssumption, IdleType DEF Init, TypeOK, Calls

\* A request either keeps its locals and goes on, or is idle again.
GoesOn(v) == \E call \in Calls : Goto(v, call)

\* What going on does to the requests.
LEMMA GoesOnEffect ==
  ASSUME TypeOK, NEW v \in Verifiers, GoesOn(v)
  PROVE  /\ pc' \in [Verifiers -> Calls] /\ req' \in [Verifiers -> Locals]
         /\ \A w \in Verifiers \ {v} : pc'[w] = pc[w] /\ req'[w] = req[w]
         /\ \/ pc'[v] = "idle" /\ req'[v] = Idle
            \/ pc'[v] # "idle" /\ req'[v] = req[v]
<1>1. PICK call \in Calls : Goto(v, call)
  BY DEF GoesOn
<1> QED BY <1>1, IdleType DEF Goto, TypeOK

\* Judge ends the request or goes on to a deletion, and counts the guess.
LEMMA JudgeEffect ==
  ASSUME TypeOK, NEW v \in Verifiers, NEW n, Judge(v, n), req[v].seen # None
  PROVE  /\ GoesOn(v) /\ pc'[v] \in {"discard", "consume", "idle"}
         /\ tried' \in [Codes -> Nat]
         /\ req[v].seen.code \in Codes
<1>1. req[v].seen \in SeenOtp /\ req[v].seen.code \in Codes
  BY DEF TypeOK, Locals, SeenOtp
<1>2. PICK call \in {"discard", "consume", "idle"} : Goto(v, call)
  BY DEF Judge
<1>3. GoesOn(v) /\ pc'[v] \in {"discard", "consume", "idle"}
  BY <1>2 DEF GoesOn, Goto, Calls, TypeOK
<1>4. tried' \in [Codes -> Nat]
  BY <1>1 DEF TypeOK, Judge
<1> QED BY <1>1, <1>3, <1>4

\* The two GETs of a verification.
Reads(v) == (\E right \in BOOLEAN : GetOtp(v, right)) \/ (Count(v) /\ key # None)

\* A GET adds at most the code of the key to what its request has read, and
\* notes the code as shared when another request has read it.
LEMMA ReadEffect ==
  ASSUME TypeOK, Traced, NEW v \in Verifiers, Reads(v)
  PROVE  /\ key \in Otp /\ key.code \in Codes
         /\ pc' = [pc EXCEPT ![v] = pc'[v]] /\ pc'[v] \in {"count", "ttl"}
         /\ pc[v] \in {"idle", "count"}
         /\ req' = [req EXCEPT ![v] = req'[v]] /\ req'[v] \in Locals
         /\ req'[v].seen # None
         /\ req'[v].seen = req[v].seen \/ req'[v].seen = [code |-> key.code, life |-> key.life]
         /\ req'[v].counted # None => req'[v].counted.code = key.code
         /\ pc'[v] = "ttl" => req'[v].counted # None
         /\ pc'[v] = "count" => req'[v].counted = None
         /\ shared' = IF \E w \in Verifiers \ {v} : Touches(w, key.code)
                      THEN shared \cup {key.code} ELSE shared
         /\ UNCHANGED <<key, sent, latest, raced, crossed, tried, uses, faults>>
<1>1. key \in Otp /\ key.code \in Codes /\ key.life \in Lives /\ key.attempts \in Attempts
  BY DEF Reads, GetOtp, TypeOK, Otp
<1>2. CASE \E right \in BOOLEAN : GetOtp(v, right)
  <2>1. PICK right \in BOOLEAN : GetOtp(v, right)
    BY <1>2
  <2> DEFINE locals == [seen |-> [code |-> key.code, life |-> key.life],
                        right |-> right, counted |-> None]
  <2>2. locals \in Locals /\ locals.seen # None
    BY <1>1, NoneAssumption DEF Locals, SeenOtp
  <2>3. pc' = [pc EXCEPT ![v] = "count"] /\ req' = [req EXCEPT ![v] = locals] /\ pc[v] = "idle"
    BY <2>1 DEF GetOtp
  <2>4. pc'[v] = "count" /\ req'[v] = locals
    BY <2>3 DEF TypeOK
  <2>5. NoteRead(v) /\ UNCHANGED <<key, sent, tried, uses, faults>>
    BY <2>1 DEF GetOtp
  <2>6. locals.seen = [code |-> key.code, life |-> key.life] /\ locals.counted = None
    OBVIOUS
  <2> HIDE DEF locals
  <2> QED BY <1>1, <2>2, <2>3, <2>4, <2>5, <2>6 DEF NoteRead
<1>3. CASE Count(v) /\ key # None
  <2> DEFINE counted == [key EXCEPT !.attempts = Increment(@), !.life = "live"]
             locals == [req[v] EXCEPT !.counted = counted]
  <2>1. counted \in Otp /\ counted.code = key.code
    <3>1. Increment(key.attempts) \in Attempts /\ "live" \in Lives
      BY <1>1 DEF Increment, Attempts, MaxAttempts, Lives
    <3> QED BY <1>1, <3>1 DEF Otp
  <2>2. counted # None
    BY <2>1, NoneAssumption
  <2>3. locals \in Locals /\ locals.counted = counted /\ locals.seen = req[v].seen
    BY <2>1 DEF Locals, TypeOK
  <2>4. pc' = [pc EXCEPT ![v] = "ttl"] /\ req' = [req EXCEPT ![v] = locals] /\ pc[v] = "count"
    BY <1>3 DEF Count
  <2>5. pc'[v] = "ttl" /\ req'[v] = locals /\ req[v].seen # None
    BY <2>4 DEF TypeOK, Traced
  <2>6. NoteRead(v) /\ UNCHANGED <<key, sent, tried, uses, faults>>
    BY <1>3 DEF Count
  <2> HIDE DEF locals, counted
  <2> QED BY <1>1, <2>1, <2>2, <2>3, <2>4, <2>5, <2>6 DEF NoteRead
<1> QED BY <1>2, <1>3 DEF Reads

\* The other steps of a verification: it reads nothing.
Handles(v) ==
  \/ Count(v) /\ key = None
  \/ AskTtl(v) \/ StoreCount(v) \/ Discard(v) \/ Consume(v) \/ Apply(v) \/ Commit(v)
  \/ Fail(v) \/ Retry(v)

\* What a step that reads nothing does to the requests and the key.
LEMMA HandleEffect ==
  ASSUME TypeOK, Traced, NEW v \in Verifiers, Handles(v)
  PROVE  /\ GoesOn(v) /\ pc[v] # "idle"
         /\ req[v].seen \in SeenOtp /\ req[v].seen.code \in Codes
         /\ pc'[v] = "store" => pc[v] \in {"ttl", "store"}
         /\ pc'[v] # "ttl" /\ pc'[v] # "count"
         /\ \/ key' \in {None, key}
            \/ pc[v] = "store" /\ key' = req[v].counted
         /\ tried' \in [Codes -> Nat] /\ uses' \in [Codes -> Nat]
         /\ faults' \in 0 .. MaxFaults
         /\ UNCHANGED <<sent, overlaps>>
<1>1. pc[v] # "idle"
  BY DEF Handles, Count, AskTtl, StoreCount, Discard, Consume, Apply, Commit, Fail, Retry
<1>2. req[v].seen \in SeenOtp /\ req[v].seen.code \in Codes /\ req[v].seen # None
  BY <1>1 DEF Traced, TypeOK, Locals, SeenOtp
<1>3. CASE Count(v) /\ key = None
  BY <1>1, <1>2, <1>3, JudgeEffect DEF Count, TypeOK
<1>4. CASE AskTtl(v)
  <2>1. CASE Goto(v, "store") /\ UNCHANGED tried
    BY <1>1, <1>2, <1>4, <2>1 DEF AskTtl, GoesOn, Goto, Calls, TypeOK
  <2>2. CASE Judge(v, req[v].counted.attempts)
    BY <1>1, <1>2, <1>4, <2>2, JudgeEffect DEF AskTtl, TypeOK
  <2> QED BY <1>4, <2>1, <2>2 DEF AskTtl
<1>5. CASE StoreCount(v)
  BY <1>1, <1>2, <1>5, JudgeEffect DEF StoreCount, TypeOK
<1>6. CASE Discard(v)
  BY <1>1, <1>2, <1>6 DEF Discard, GoesOn, Goto, Calls, TypeOK
<1>7. CASE Consume(v)
  <2>1. PICK call \in {"commit", "apply", "idle"} : Goto(v, call)
    BY <1>7, PurposeAssumption DEF Consume, AfterAccepted
  <2> QED BY <1>1, <1>2, <1>7, <2>1 DEF Consume, GoesOn, Goto, Calls, TypeOK
<1>8. CASE Apply(v)
  BY <1>1, <1>2, <1>8 DEF Apply, GoesOn, Goto, Calls, TypeOK
<1>9. CASE Commit(v)
  BY <1>1, <1>2, <1>9 DEF Commit, GoesOn, Goto, Calls, TypeOK
<1>10. CASE Fail(v)
  BY <1>1, <1>2, <1>10, BoundsAssumption DEF Fail, GoesOn, Goto, Calls, TypeOK
<1>11. CASE Retry(v)
  <2>1. pc' = pc /\ req' = req /\ pc[v] \in {"store", "discard", "consume"}
    BY <1>11 DEF Retry
  <2>2. GoesOn(v)
    BY <1>1, <2>1 DEF GoesOn, Goto, TypeOK
  <2>3. faults' \in 0 .. MaxFaults
    BY <1>11, BoundsAssumption DEF Retry, TypeOK
  <2> QED BY <1>1, <1>2, <1>11, <2>1, <2>2, <2>3 DEF Retry, TypeOK
<1> QED BY <1>3, <1>4, <1>5, <1>6, <1>7, <1>8, <1>9, <1>10, <1>11 DEF Handles

\* The steps of the system, by what they do to the requests.
LEMMA Steps ==
  ASSUME [Next]_vars
  PROVE  \/ \E c \in Codes : SendOtp(c)
         \/ \E v \in Verifiers : Reads(v) \/ Handles(v)
         \/ Fade \/ Expire
         \/ UNCHANGED vars
  BY DEF Next, Verify, Reads, Handles, VerifyMissing, Count

\* Every step keeps the types and the track of where codes come from.
LEMMA TypeStep ==
  ASSUME TypeOK, Traced, [Next]_vars
  PROVE  TypeOK' /\ Traced'
<1>1. ASSUME NEW c \in Codes, SendOtp(c) PROVE TypeOK' /\ Traced'
  <2>1. key' \in Otp /\ key'.code = c
    BY <1>1 DEF SendOtp, NewOtp, Otp, Attempts, MaxAttempts, Lives
  <2> QED BY <1>1, <2>1 DEF SendOtp, TypeOK, Traced
<1>2. ASSUME NEW v \in Verifiers, Reads(v) PROVE TypeOK' /\ Traced'
  <2>1. TypeOK'
    BY <1>2, ReadEffect DEF TypeOK, Calls
  <2>2. Traced'
    <3>1. req'[v].seen.code \in {key.code, req[v].seen.code}
      BY <1>2, ReadEffect
    <3>2. pc[v] = "count" => req[v].seen.code \in sent
      BY DEF Traced
    <3>3. pc[v] = "idle" => req'[v].seen.code = key.code
      <4>1. pc[v] = "idle" => req[v].seen = None
        BY DEF Traced, Idle
      <4> QED BY <1>2, <4>1, ReadEffect
    <3>4. key.code \in sent
      BY <1>2 DEF Reads, GetOtp, Traced
    <3>5. req'[v].seen.code \in sent /\ pc'[v] # "idle"
      BY <1>2, <3>1, <3>2, <3>3, <3>4, ReadEffect
    <3>6. req'[v].counted # None => req'[v].counted.code \in sent
      BY <1>2, <3>4, ReadEffect
    <3>7. \A w \in Verifiers \ {v} : pc'[w] = pc[w] /\ req'[w] = req[w]
      <4>1. pc' = [pc EXCEPT ![v] = pc'[v]] /\ req' = [req EXCEPT ![v] = req'[v]]
        BY <1>2, ReadEffect
      <4> QED BY <4>1 DEF TypeOK
    <3>8. key' = key /\ sent' = sent
      BY <1>2, ReadEffect
    <3>9. req'[v].seen # None /\ (pc'[v] = "ttl" => req'[v].counted # None) /\ pc'[v] # "store"
      BY <1>2, ReadEffect
    <3> QED BY <3>5, <3>6, <3>7, <3>8, <3>9 DEF Traced
  <2> QED BY <2>1, <2>2
<1>3. ASSUME NEW v \in Verifiers, Handles(v) PROVE TypeOK' /\ Traced'
  <2>1. pc[v] = "store" => req[v].counted \in Otp /\ req[v].counted.code \in sent
    BY DEF Traced, TypeOK, Locals
  <2>2. UNCHANGED <<sent, latest, raced, crossed, shared>>
    BY <1>3, HandleEffect DEF overlaps
  <2>3. TypeOK'
    BY <1>3, <2>1, <2>2, HandleEffect, GoesOnEffect DEF TypeOK
  <2>4. Traced'
    <3>1. /\ \A w \in Verifiers \ {v} : pc'[w] = pc[w] /\ req'[w] = req[w]
          /\ \/ pc'[v] = "idle" /\ req'[v] = Idle
             \/ pc'[v] # "idle" /\ req'[v] = req[v]
      BY <1>3, HandleEffect, GoesOnEffect
    <3>2. pc[v] # "idle" /\ (pc'[v] \in {"ttl", "store"} => pc[v] \in {"ttl", "store"})
      BY <1>3, HandleEffect
    <3>3. key' # None => key'.code \in sent
      BY <1>3, <2>1, HandleEffect DEF Traced
    <3>4. Idle.counted = None
      BY DEF Idle
    <3>5. /\ pc'[v] = "idle" => req'[v] = Idle
          /\ pc'[v] # "idle" => req'[v].seen # None /\ req'[v].seen.code \in sent
          /\ req'[v].counted # None => req'[v].counted.code \in sent
          /\ pc'[v] \in {"ttl", "store"} => req'[v].counted # None
      BY <3>1, <3>2, <3>4 DEF Traced
    <3> QED BY <2>2, <3>1, <3>3, <3>5 DEF Traced
  <2> QED BY <2>3, <2>4
<1>4. ASSUME Fade \/ Expire PROVE TypeOK' /\ Traced'
  BY <1>4 DEF Fade, Expire, TypeOK, Traced, Otp, Lives, overlaps
<1>5. ASSUME UNCHANGED vars PROVE TypeOK' /\ Traced'
  BY <1>5 DEF vars, overlaps, TypeOK, Traced
<1> QED BY <1>1, <1>2, <1>3, <1>4, <1>5, Steps
-----------------------------------------------------------------------------
(* Shared codes *)

\* The key holds the code c.
Holds(c) == key # None /\ key.code = c

\* While a code is not shared, a request gets hold of it only from the key, and
\* only when no other request has it.
LEMMA TouchesStep ==
  ASSUME TypeOK, Traced, [Next]_vars
  PROVE  /\ shared \subseteq shared'
         /\ \A c \in Codes \ shared', w \in Verifiers : Touches(w, c)' =>
              \/ Touches(w, c)
              \/ /\ Holds(c) /\ key' = key /\ uses' = uses
                 /\ \A u \in Verifiers \ {w} : ~Touches(u, c) /\ req'[u] = req[u]
<1>1. ASSUME NEW v \in Verifiers, Reads(v)
      PROVE  /\ shared \subseteq shared'
             /\ \A c \in Codes \ shared', w \in Verifiers : Touches(w, c)' =>
                  \/ Touches(w, c)
                  \/ /\ Holds(c) /\ key' = key /\ uses' = uses
                     /\ \A u \in Verifiers \ {w} : ~Touches(u, c) /\ req'[u] = req[u]
  <2>1. /\ \A u \in Verifiers \ {v} : req'[u] = req[u]
        /\ key # None /\ key' = key /\ uses' = uses
        /\ shared' = IF \E w \in Verifiers \ {v} : Touches(w, key.code)
                     THEN shared \cup {key.code} ELSE shared
        /\ req'[v].seen = req[v].seen \/ req'[v].seen.code = key.code
        /\ req'[v].counted # None => req'[v].counted.code = key.code
    <3>1. req' = [req EXCEPT ![v] = req'[v]]
      BY <1>1, ReadEffect
    <3>2. \A u \in Verifiers \ {v} : req'[u] = req[u]
      BY <3>1 DEF TypeOK
    <3> QED BY <1>1, <3>2, ReadEffect, NoneAssumption
  <2>2. ASSUME NEW c \in Codes \ shared', NEW w \in Verifiers, Touches(w, c)', ~Touches(w, c)
        PROVE  /\ Holds(c)
               /\ \A u \in Verifiers \ {w} : ~Touches(u, c) /\ req'[u] = req[u]
    <3>1. w = v
      BY <2>1, <2>2 DEF Touches
    <3>2. c = key.code
      BY <2>1, <2>2, <3>1 DEF Touches
    <3> QED BY <2>1, <2>2, <3>1, <3>2 DEF Holds
  <2> QED BY <2>1, <2>2
<1>2. ASSUME NEW v \in Verifiers, Handles(v)
      PROVE  /\ shared' = shared
             /\ \A c \in Codes, w \in Verifiers : Touches(w, c)' => Touches(w, c)
  <2>1. /\ \A w \in Verifiers \ {v} : req'[w] = req[w]
        /\ req'[v] \in {Idle, req[v]}
        /\ shared' = shared
    BY <1>2, HandleEffect, GoesOnEffect DEF overlaps
  <2>2. Idle.seen = None /\ Idle.counted = None
    BY DEF Idle
  <2> QED BY <2>1, <2>2 DEF Touches
<1>3. ASSUME (\E c \in Codes : SendOtp(c)) \/ Fade \/ Expire \/ UNCHANGED vars
      PROVE  shared' = shared /\ req' = req
  BY <1>3 DEF SendOtp, Fade, Expire, vars, overlaps
<1>4. CASE (\E c \in Codes : SendOtp(c)) \/ Fade \/ Expire \/ UNCHANGED vars
  BY <1>3, <1>4 DEF Touches
<1> QED BY <1>1, <1>2, <1>4, Steps

\* A code that is not shared stays in the hands of one request.
LEMMA ExclusiveStep ==
  ASSUME TypeOK, Traced, Exclusive, [Next]_vars
  PROVE  Exclusive'
<1> SUFFICES ASSUME NEW c \in Codes \ shared', NEW v \in Verifiers, NEW w \in Verifiers,
                    Touches(v, c)', Touches(w, c)'
             PROVE  v = w
  BY DEF Exclusive
<1>1. c \in Codes \ shared
  BY TouchesStep
<1>2. CASE Touches(v, c) /\ Touches(w, c)
  BY <1>1, <1>2 DEF Exclusive
<1>3. CASE ~Touches(v, c)
  BY <1>3, TouchesStep DEF Touches
<1>4. CASE ~Touches(w, c)
  BY <1>4, TouchesStep DEF Touches
<1> QED BY <1>2, <1>3, <1>4

-----------------------------------------------------------------------------
(* A code is accepted once *)

\* How a step may change the key: a code comes into it by a send, or from a
\* request that wrote back what it had counted.
LEMMA KeyStep ==
  ASSUME TypeOK, Traced, [Next]_vars, NEW c \in Codes, Holds(c)'
  PROVE  \/ Holds(c)
         \/ c \notin sent /\ SendOtp(c)
         \/ \E v \in Verifiers : pc[v] = "store" /\ Touches(v, c)
<1>1. ASSUME NEW d \in Codes, SendOtp(d) PROVE c \notin sent /\ SendOtp(c)
  BY <1>1 DEF SendOtp, NewOtp, Holds
<1>2. ASSUME NEW v \in Verifiers, Reads(v) PROVE Holds(c)
  BY <1>2, ReadEffect DEF Holds
<1>3. ASSUME NEW v \in Verifiers, Handles(v)
      PROVE  Holds(c) \/ (pc[v] = "store" /\ Touches(v, c))
  BY <1>3, HandleEffect DEF Holds, Touches
<1>4. ASSUME Fade \/ Expire \/ UNCHANGED vars PROVE Holds(c)
  BY <1>4 DEF Fade, Expire, vars, Holds, TypeOK, Otp
<1> QED BY <1>1, <1>2, <1>3, <1>4, Steps

\* A code that is gone stays gone, once it has been sent.
LEMMA GoneStep ==
  ASSUME TypeOK, Traced, [Next]_vars, NEW c \in Codes \ shared', c \in sent, Gone(c)
  PROVE  Gone(c)'
<1>1. \A v \in Verifiers : ~Touches(v, c)'
  BY TouchesStep DEF Gone, Holds
<1>2. ~Holds(c)'
  BY KeyStep DEF Gone, Holds
<1> QED BY <1>1, <1>2 DEF Gone, Holds

\* Which steps commit, and which go on after a deletion.
LEMMA CommitStep ==
  ASSUME TypeOK, Traced, [Next]_vars
  PROVE  /\ sent \subseteq sent'
         /\ uses' = uses \/ \E v \in Verifiers : Commit(v)
         /\ \A v \in Verifiers : pc'[v] \in {"apply", "commit"} =>
              /\ req'[v] = req[v]
              /\ pc[v] \in {"apply", "commit"} \/ (pc[v] = "consume" /\ key' = None /\ uses' = uses)
<1>1. ASSUME NEW c \in Codes, SendOtp(c)
      PROVE  sent \subseteq sent' /\ uses' = uses /\ pc' = pc /\ req' = req
  BY <1>1 DEF SendOtp
<1>2. ASSUME NEW v \in Verifiers, Reads(v)
      PROVE  /\ sent' = sent /\ uses' = uses /\ pc'[v] \in {"count", "ttl"}
             /\ \A w \in Verifiers \ {v} : pc'[w] = pc[w] /\ req'[w] = req[w]
  <2>1. pc' = [pc EXCEPT ![v] = pc'[v]] /\ req' = [req EXCEPT ![v] = req'[v]]
    BY <1>2, ReadEffect
  <2>2. \A w \in Verifiers \ {v} : pc'[w] = pc[w] /\ req'[w] = req[w]
    BY <2>1 DEF TypeOK
  <2> QED BY <1>2, <2>2, ReadEffect
<1>3. ASSUME NEW v \in Verifiers, Handles(v)
      PROVE  /\ sent' = sent
             /\ uses' = uses \/ Commit(v)
             /\ pc'[v] \in {"apply", "commit"} =>
                  /\ req'[v] = req[v]
                  /\ \/ pc[v] \in {"apply", "commit"}
                     \/ pc[v] = "consume" /\ key' = None /\ uses' = uses
             /\ \A w \in Verifiers \ {v} : pc'[w] = pc[w] /\ req'[w] = req[w]
  <2>1. uses' = uses \/ Commit(v)
    BY <1>3 DEF Handles, Count, AskTtl, StoreCount, Discard, Consume, Apply, Fail, Retry
  <2>2. ASSUME pc'[v] \in {"apply", "commit"} PROVE Consume(v) \/ Apply(v)
    <3>1. ASSUME NEW n, Judge(v, n) PROVE FALSE
      BY <2>2, <3>1 DEF Judge, Goto, TypeOK
    <3> QED BY <1>3, <2>2, <3>1
            DEF Handles, Count, AskTtl, StoreCount, Discard, Commit, Fail, Retry, Goto, TypeOK
  <2>3. Consume(v) => pc[v] = "consume" /\ key' = None /\ uses' = uses
    BY DEF Consume
  <2>4. Apply(v) => pc[v] = "apply"
    BY DEF Apply
  <2>5. sent' = sent
    BY <1>3, HandleEffect
  <2> QED BY <1>3, <2>1, <2>2, <2>3, <2>4, <2>5, HandleEffect, GoesOnEffect
<1>4. ASSUME Fade \/ Expire \/ UNCHANGED vars
      PROVE  sent' = sent /\ uses' = uses /\ pc' = pc /\ req' = req
  BY <1>4 DEF Fade, Expire, vars
<1> QED BY <1>1, <1>2, <1>3, <1>4, Steps

\* Between the deletion and the commit the code stays unused and out of the key.
LEMMA AcceptedStep ==
  ASSUME IInv, [Next]_vars
  PROVE  Accepted'
<1> USE DEF IInv
<1> SUFFICES ASSUME NEW v \in Verifiers, pc'[v] \in {"apply", "commit"},
                    req'[v].seen.code \notin shared'
             PROVE  /\ uses'[req'[v].seen.code] = 0
                    /\ key' # None => key'.code # req'[v].seen.code
  BY DEF Accepted
<1>0. pc[v] # "idle" => req[v].seen.code \in Codes /\ req[v].seen # None
  BY DEF Traced, TypeOK, Locals, SeenOtp
<1>1. /\ req'[v] = req[v]
      /\ pc[v] \in {"apply", "commit"} \/ (pc[v] = "consume" /\ key' = None /\ uses' = uses)
  BY CommitStep
<1>c. PICK c \in Codes : c = req[v].seen.code
  BY <1>0, <1>1
<1>2. c \notin shared /\ c \in sent /\ Touches(v, c)
  BY <1>0, <1>c, <1>1, TouchesStep DEF Traced, Touches
<1>3. uses[c] = 0
  BY <1>2 DEF UsedAndGone, Gone, TypeOK
<1>4. \A w \in Verifiers : Touches(w, c) => w = v
  BY <1>2 DEF Exclusive
<1>5. uses'[c] = 0
  <2>1. CASE uses' = uses
    BY <1>3, <2>1
  <2>2. ASSUME NEW w \in Verifiers, Commit(w) PROVE uses'[c] = 0
    <3>1. pc[w] = "commit" /\ pc'[w] = "idle"
      BY <2>2 DEF Commit, Goto, TypeOK
    <3>2. w # v
      BY <3>1
    <3>3. req[w].seen.code # c
      BY <1>4, <3>1, <3>2 DEF Touches, Traced
    <3> QED BY <1>2, <1>3, <2>2, <3>3 DEF Commit, TypeOK
  <2> QED BY <2>1, <2>2, CommitStep
<1>6. ~Holds(c)'
  <2>1. CASE key' = None
    BY <2>1 DEF Holds
  <2>2. CASE pc[v] \in {"apply", "commit"}
    <3>1. ~Holds(c)
      BY <1>c, <1>2, <2>2 DEF Accepted, Holds
    <3>2. \A w \in Verifiers : pc[w] = "store" => ~Touches(w, c)
      BY <1>4, <2>2
    <3> QED BY <1>2, <3>1, <3>2, KeyStep
  <2> QED BY <1>1, <2>1, <2>2
<1> QED BY <1>c, <1>1, <1>5, <1>6 DEF Holds

\* A code that was used stays used once and gone.
LEMMA UsedStep ==
  ASSUME IInv, [Next]_vars
  PROVE  UsedAndGone'
<1> USE DEF IInv
<1> SUFFICES ASSUME NEW c \in Codes
             PROVE  /\ uses'[c] <= 1
                    /\ c \notin shared' /\ uses'[c] > 0 => c \in sent' /\ Gone(c)'
  BY DEF UsedAndGone
<1>1. CASE uses'[c] = uses[c]
  BY <1>1, GoneStep, TouchesStep, CommitStep DEF UsedAndGone
<1>2. CASE uses'[c] # uses[c]
  <2>1. PICK v \in Verifiers : Commit(v)
    BY <1>2, CommitStep
  <2>2. c = req[v].seen.code /\ c \notin shared /\ uses'[c] = uses[c] + 1
    BY <1>2, <2>1 DEF Commit, TypeOK
  <2>3. pc[v] = "commit" /\ pc'[v] = "idle" /\ req'[v] = Idle /\ key' = key
    BY <2>1 DEF Commit, Goto, TypeOK
  <2>4. uses[c] = 0 /\ ~Holds(c) /\ c \in sent /\ Touches(v, c)
    BY <2>2, <2>3 DEF Accepted, Holds, Traced, Touches
  <2>5. \A w \in Verifiers : Touches(w, c) => w = v
    BY <2>2, <2>4 DEF Exclusive
  <2>6. \A w \in Verifiers \ {v} : req'[w] = req[w]
    BY <2>1 DEF Commit, Goto, TypeOK
  <2>7. \A w \in Verifiers : ~Touches(w, c)'
    BY <2>3, <2>5, <2>6 DEF Touches, Idle
  <2>8. Gone(c)' /\ sent' = sent
    BY <2>1, <2>3, <2>4, <2>7 DEF Gone, Holds, Commit
  <2> QED BY <2>2, <2>4, <2>8
<1> QED BY <1>1, <1>2

-----------------------------------------------------------------------------
(* The last code stands *)

\* The key and every count to be written back are of the last code, unless that
\* code was sent while another count was to be written back.
Latest ==
  latest \notin raced =>
    /\ key # None => key.code = latest
    /\ \A v \in Verifiers : pc[v] \in {"ttl", "store"} => req[v].counted.code = latest

\* Every step keeps the last code standing.
LEMMA LatestStep ==
  ASSUME TypeOK, Traced, Latest, [Next]_vars
  PROVE  Latest'
<1>1. ASSUME NEW c \in Codes, SendOtp(c) PROVE Latest'
  BY <1>1 DEF SendOtp, NewOtp, Latest
<1>2. ASSUME NEW v \in Verifiers, Reads(v) PROVE Latest'
  <2>1. pc' = [pc EXCEPT ![v] = pc'[v]] /\ req' = [req EXCEPT ![v] = req'[v]]
    BY <1>2, ReadEffect
  <2>2. \A w \in Verifiers \ {v} : pc'[w] = pc[w] /\ req'[w] = req[w]
    BY <2>1 DEF TypeOK
  <2>3. /\ key # None /\ key' = key /\ latest' = latest /\ raced' = raced
        /\ pc'[v] \in {"ttl", "store"} => req'[v].counted.code = key.code
    BY <1>2, ReadEffect, NoneAssumption
  <2> QED BY <2>2, <2>3 DEF Latest
<1>3. ASSUME NEW v \in Verifiers, Handles(v) PROVE Latest'
  <2>1. /\ \A w \in Verifiers \ {v} : pc'[w] = pc[w] /\ req'[w] = req[w]
        /\ pc'[v] \in {"ttl", "store"} => pc[v] \in {"ttl", "store"} /\ req'[v] = req[v]
        /\ latest' = latest /\ raced' = raced
    BY <1>3, HandleEffect, GoesOnEffect DEF overlaps
  <2>2. key' \in {None, key} \/ (pc[v] = "store" /\ key' = req[v].counted)
    BY <1>3, HandleEffect
  <2> QED BY <2>1, <2>2 DEF Latest
<1>4. ASSUME Fade \/ Expire \/ UNCHANGED vars PROVE Latest'
  <2>1. /\ key' # None => key # None /\ key'.code = key.code
        /\ UNCHANGED <<pc, req, latest, raced>>
    BY <1>4 DEF Fade, Expire, vars, overlaps, TypeOK, Otp
  <2> QED BY <2>1 DEF Latest
<1> QED BY <1>1, <1>2, <1>3, <1>4, Steps

-----------------------------------------------------------------------------
(* Guesses *)

\* The guess of v is compared with c, unless there were too many.
Pending(v, c) ==
  pc[v] \in {"count", "ttl", "store"} /\ req[v].seen.code = c /\ req[v].seen.life = "live"

\* v has counted on c.
Counts(v, c) == pc[v] \in {"ttl", "store"} /\ req[v].counted.code = c

\* How many guesses of c there were, against what v knows of it: a guess that is
\* still to be compared is counted already, unless the key has gone.
InHand(v, c) ==
  /\ Pending(v, c) => tried[c] <= MaxAttempts
  /\ Pending(v, c) /\ pc[v] = "count" /\ Holds(c) => tried[c] <= key.attempts
  /\ Pending(v, c) /\ pc[v] # "count" /\ ~Counts(v, c) => ~Holds(c)
  /\ Counts(v, c) =>
       /\ tried[c] <= MaxAttempts
       /\ tried[c] <= req[v].counted.attempts
       /\ Pending(v, c) => tried[c] < req[v].counted.attempts
       /\ pc[v] = "ttl" /\ Holds(c) => req[v].counted.attempts = Increment(key.attempts)

\* In its last half second a key may miss the count of one guess.
InKey(c) ==
  Holds(c) => /\ tried[c] <= MaxAttempts
              /\ key.life = "live" => tried[c] <= key.attempts
              /\ tried[c] <= key.attempts + 1

Guesses ==
  \A c \in Codes :
    /\ tried[c] <= MaxAttempts + 1
    /\ c \notin sent => tried[c] = 0
    /\ c \notin shared => InKey(c) /\ \A v \in Verifiers : InHand(v, c)

\* A request that has not read c has nothing in hand.
LEMMA NothingInHand ==
  ASSUME Traced, NEW v \in Verifiers, NEW c \in Codes, ~Touches(v, c)
  PROVE  ~Pending(v, c) /\ ~Counts(v, c) /\ InHand(v, c)
<1>1. pc[v] \in {"count", "ttl", "store"} => req[v].seen # None
  BY DEF Traced
<1>2. ~Pending(v, c) /\ ~Counts(v, c)
  BY <1>1 DEF Pending, Counts, Touches, Traced
<1> QED BY <1>2 DEF InHand

\* What a step of one request has to establish: the bound for each code, and for
\* the codes that are not shared what the key and that request know of them.
LEMMA GuessesKept ==
  ASSUME TypeOK, Traced, TypeOK', Traced', Exclusive', Guesses,
         NEW v \in Verifiers,
         \A w \in Verifiers \ {v} : pc'[w] = pc[w] /\ req'[w] = req[w],
         shared \subseteq shared', sent' = sent,
         \A c \in Codes : tried'[c] <= MaxAttempts + 1 /\ (c \notin sent => tried'[c] = 0),
         \A c \in Codes \ shared' : InKey(c)' /\ InHand(v, c)',
         \A c \in Codes \ shared', w \in Verifiers \ {v} : Touches(w, c) =>
           tried'[c] = tried[c] /\ (Holds(c)' => Holds(c) /\ key'.attempts = key.attempts)
  PROVE  Guesses'
<1>1. ASSUME NEW c \in Codes \ shared', NEW w \in Verifiers \ {v} PROVE InHand(w, c)'
  <2>1. CASE Touches(w, c)
    <3>1. InHand(w, c) /\ tried'[c] = tried[c]
      BY <1>1, <2>1 DEF Guesses
    <3>2. Holds(c)' => Holds(c) /\ key'.attempts = key.attempts
      BY <1>1, <2>1
    <3>3. Pending(w, c)' <=> Pending(w, c)
      BY DEF Pending
    <3>4. Counts(w, c)' <=> Counts(w, c)
      BY DEF Counts
    <3> QED BY <3>1, <3>2, <3>3, <3>4 DEF InHand
  <2>2. CASE ~Touches(w, c)
    <3>1. ~Touches(w, c)'
      BY <2>2 DEF Touches
    <3>2. ~Pending(w, c)' /\ ~Counts(w, c)'
      BY <3>1 DEF Traced, Pending, Counts, Touches
    <3> QED BY <3>2 DEF InHand
  <2> QED BY <2>1, <2>2
<1> QED BY <1>1 DEF Guesses

\* A GET keeps the bounds.
LEMMA GuessesRead ==
  ASSUME TypeOK, Traced, TypeOK', Traced', Exclusive', Guesses, [Next]_vars,
         NEW v \in Verifiers, Reads(v)
  PROVE  Guesses'
<1>1. /\ key \in Otp /\ key # None /\ UNCHANGED <<key, sent, tried>>
      /\ key.attempts \in Attempts
  BY ReadEffect, NoneAssumption DEF Otp
<1>2. \A w \in Verifiers \ {v} : pc'[w] = pc[w] /\ req'[w] = req[w]
  <2>1. pc' = [pc EXCEPT ![v] = pc'[v]] /\ req' = [req EXCEPT ![v] = req'[v]]
    BY ReadEffect
  <2> QED BY <2>1 DEF TypeOK
<1>3. shared \subseteq shared'
  BY TouchesStep
<1>4. ASSUME NEW c \in Codes \ shared' PROVE InKey(c)' /\ InHand(v, c)'
  <2>1. /\ InKey(c) /\ InHand(v, c) /\ tried[c] \in Nat
        /\ tried'[c] = tried[c] /\ (Holds(c)' <=> Holds(c)) /\ key' = key
    BY <1>1, <1>3, <1>4 DEF Guesses, Holds, TypeOK
  <2>2. InKey(c)'
    BY <2>1 DEF InKey
  <2>3. CASE \E right \in BOOLEAN : GetOtp(v, right)
    <3>1. /\ pc'[v] = "count"
          /\ req'[v].seen = [code |-> key.code, life |-> key.life]
      BY <2>3 DEF GetOtp, TypeOK
    <3>2. Pending(v, c)' => Holds(c) /\ key.life = "live"
      BY <1>1, <3>1 DEF Pending, Holds
    <3>3. ~Counts(v, c)'
      BY <3>1 DEF Counts
    <3> QED BY <2>1, <2>2, <3>1, <3>2, <3>3 DEF InHand, InKey
  <2>4. CASE Count(v) /\ key # None
    <3>1. /\ pc[v] = "count" /\ pc'[v] = "ttl"
          /\ req'[v] = [req[v] EXCEPT !.counted =
                          [key EXCEPT !.attempts = Increment(@), !.life = "live"]]
      BY <2>4 DEF Count, TypeOK
    <3>2. /\ req'[v].seen = req[v].seen
          /\ req'[v].counted.code = key.code
          /\ req'[v].counted.attempts = Increment(key.attempts)
      <4> DEFINE counted == [key EXCEPT !.attempts = Increment(@), !.life = "live"]
      <4>1. counted.code = key.code /\ counted.attempts = Increment(key.attempts)
        BY <1>1 DEF Otp
      <4>2. req[v] \in Locals /\ req'[v] = [req[v] EXCEPT !.counted = counted]
        BY <3>1 DEF TypeOK
      <4> HIDE DEF counted
      <4>3. req'[v].seen = req[v].seen /\ req'[v].counted = counted
        BY <4>2 DEF Locals
      <4> QED BY <4>1, <4>3
    <3>3. Pending(v, c)' <=> Pending(v, c)
      BY <3>1, <3>2 DEF Pending
    <3>4. Counts(v, c)' <=> Holds(c)
      BY <1>1, <3>1, <3>2 DEF Counts, Holds
    <3>5. /\ key.attempts + 1 <= MaxAttempts => Increment(key.attempts) = key.attempts + 1
          /\ key.attempts = MaxAttempts => Increment(key.attempts) = MaxAttempts + 1
          /\ key.attempts > MaxAttempts => Increment(key.attempts) = MaxAttempts + 1
          /\ key.attempts \in Nat
      BY <1>1 DEF Increment, Attempts, MaxAttempts
    <3>6. ASSUME Holds(c) PROVE /\ tried[c] <= MaxAttempts
                                /\ tried[c] <= Increment(key.attempts)
                                /\ Pending(v, c) => tried[c] < Increment(key.attempts)
      <4>1. /\ tried[c] <= MaxAttempts /\ tried[c] <= key.attempts + 1
            /\ Pending(v, c) => tried[c] <= key.attempts
        BY <2>1, <3>1, <3>6 DEF InKey, InHand
      <4> QED BY <2>1, <3>5, <4>1 DEF MaxAttempts
    <3> QED BY <2>1, <2>2, <3>1, <3>2, <3>3, <3>4, <3>6 DEF InHand
  <2> QED BY <2>2, <2>3, <2>4 DEF Reads
<1>5. \A c \in Codes \ shared', w \in Verifiers \ {v} : Touches(w, c) =>
        tried'[c] = tried[c] /\ (Holds(c)' => Holds(c) /\ key'.attempts = key.attempts)
  BY <1>1 DEF Holds
<1>6. \A c \in Codes : tried'[c] <= MaxAttempts + 1 /\ (c \notin sent => tried'[c] = 0)
  BY <1>1 DEF Guesses
<1> QED BY <1>1, <1>2, <1>3, <1>4, <1>5, <1>6, GuessesKept

\* A judgement keeps the bounds, if a key that it leaves behind has the count of
\* the guess, or is about to expire and has all but that one.
LEMMA GuessesJudged ==
  ASSUME TypeOK, Traced, TypeOK', Traced', Exclusive, Exclusive', Guesses, [Next]_vars,
         NEW v \in Verifiers, Handles(v), NEW n \in Nat, Judge(v, n),
         pc[v] \in {"count", "ttl", "store"},
         \A c \in Codes \ shared : Touches(v, c) /\ Holds(c)' =>
           /\ key'.attempts \in Nat
           /\ \/ pc[v] = "store" /\ Counts(v, c) /\ n = req[v].counted.attempts
                 /\ key'.attempts = n
              \/ /\ Holds(c) /\ key' = key /\ key.life # "live"
                 /\ ~TooMany(n) /\ Pending(v, c) => tried[c] < n /\ n = key.attempts + 1,
         \A c \in Codes \ shared : ~Touches(v, c) /\ Holds(c)' => Holds(c) /\ key' = key
  PROVE  Guesses'
<1> DEFINE c0 == req[v].seen.code
<1>1. /\ \A w \in Verifiers \ {v} : pc'[w] = pc[w] /\ req'[w] = req[w]
      /\ sent' = sent /\ shared' = shared
  BY HandleEffect, GoesOnEffect DEF overlaps
<1>2. c0 \in Codes /\ Touches(v, c0) /\ pc'[v] \in {"discard", "consume", "idle"}
  BY HandleEffect, JudgeEffect, NoneAssumption DEF Touches
<1>3. \A c \in Codes : tried[c] \in Nat
  BY DEF TypeOK
<1>4. \A c \in Codes : \/ tried'[c] = tried[c]
                        \/ /\ c = c0 /\ c \notin shared /\ Pending(v, c) /\ ~TooMany(n)
                           /\ tried'[c] = tried[c] + 1
  BY <1>2 DEF Judge, Pending, TypeOK
<1>5. \A c \in Codes : tried'[c] <= MaxAttempts + 1 /\ (c \notin sent => tried'[c] = 0)
  <2> SUFFICES ASSUME NEW c \in Codes
               PROVE  tried'[c] <= MaxAttempts + 1 /\ (c \notin sent => tried'[c] = 0)
    OBVIOUS
  <2>1. CASE tried'[c] = tried[c]
    BY <2>1 DEF Guesses
  <2>2. CASE /\ c = c0 /\ c \notin shared /\ Pending(v, c) /\ tried'[c] = tried[c] + 1
    <3>1. tried[c] <= MaxAttempts
      BY <2>2 DEF Guesses, InHand
    <3>2. c \in sent
      BY <2>2 DEF Traced
    <3> QED BY <1>3, <2>2, <3>1, <3>2 DEF MaxAttempts
  <2> QED BY <1>4, <2>1, <2>2
<1>6. ASSUME NEW c \in Codes \ shared' PROVE InKey(c)' /\ InHand(v, c)'
  <2>1. InHand(v, c)'
    BY <1>2 DEF InHand, Pending, Counts
  <2>2. InKey(c) /\ InHand(v, c) /\ c \notin shared /\ tried[c] \in Nat
    BY <1>1, <1>3, <1>6 DEF Guesses
  <2>3. CASE ~Touches(v, c)
    <3>1. tried'[c] = tried[c]
      BY <1>2, <1>4, <2>3
    <3> QED BY <2>1, <2>2, <2>3, <3>1 DEF InKey
  <2>4. CASE Touches(v, c) /\ Holds(c)'
    <3>1. CASE pc[v] = "store" /\ Counts(v, c) /\ n = req[v].counted.attempts /\ key'.attempts = n
      <4>1. /\ tried[c] <= n /\ tried[c] <= MaxAttempts
            /\ Pending(v, c) => tried[c] < n
        BY <2>2, <3>1 DEF InHand
      <4>2. tried'[c] <= n /\ tried'[c] <= MaxAttempts
        BY <1>4, <2>2, <4>1 DEF TooMany, MaxAttempts
      <4> QED BY <1>6, <2>1, <2>2, <3>1, <4>2, <1>4 DEF InKey
    <3>2. CASE /\ Holds(c) /\ key' = key /\ key.life # "live" /\ key'.attempts \in Nat
               /\ ~TooMany(n) /\ Pending(v, c) => tried[c] < n /\ n = key.attempts + 1
      <4>1. tried[c] <= MaxAttempts /\ tried[c] <= key.attempts + 1
        BY <2>2, <3>2 DEF InKey
      <4>2. tried'[c] <= MaxAttempts /\ tried'[c] <= key.attempts + 1
        BY <1>4, <2>2, <3>2, <4>1 DEF TooMany, MaxAttempts
      <4> QED BY <2>1, <3>2, <4>2 DEF InKey
    <3> QED BY <1>6, <2>2, <2>4, <3>1, <3>2
  <2>5. CASE ~Holds(c)'
    BY <2>1, <2>5 DEF InKey
  <2> QED BY <2>3, <2>4, <2>5
<1>7. ASSUME NEW c \in Codes \ shared', NEW w \in Verifiers \ {v}, Touches(w, c)
      PROVE  tried'[c] = tried[c] /\ (Holds(c)' => Holds(c) /\ key'.attempts = key.attempts)
  <2>1. ~Touches(v, c)
    BY <1>1, <1>7 DEF Exclusive
  <2> QED BY <1>1, <1>2, <1>4, <1>7, <2>1
<1> QED BY <1>1, <1>5, <1>6, <1>7, GuessesKept

\* A step that reads nothing keeps the bounds.
LEMMA GuessesHandled ==
  ASSUME TypeOK, Traced, TypeOK', Traced', Exclusive, Exclusive', Guesses, [Next]_vars,
         NEW v \in Verifiers, Handles(v)
  PROVE  Guesses'
<1> USE DEF MaxAttempts
<1>1. /\ \A w \in Verifiers \ {v} : pc'[w] = pc[w] /\ req'[w] = req[w]
      /\ sent' = sent /\ shared' = shared
      /\ req[v].seen # None
  BY HandleEffect, GoesOnEffect, NoneAssumption DEF overlaps
<1>2. pc[v] \in {"ttl", "store"} =>
        /\ req[v].counted \in Otp /\ req[v].counted # None /\ req[v].counted.attempts \in Nat
  BY DEF Traced, TypeOK, Locals, Otp, Attempts
<1>3. key # None => key.attempts \in Attempts /\ key.attempts \in Nat
  BY DEF TypeOK, Otp, Attempts
<1>4. CASE Count(v) /\ key = None
  <2>1. Judge(v, 0) /\ pc[v] = "count" /\ key' = None
    BY <1>4 DEF Count
  <2>2. \A c \in Codes : ~Holds(c)'
    BY <2>1 DEF Holds
  <2> QED BY <2>1, <2>2, GuessesJudged
<1>5. CASE AskTtl(v) /\ ~(key # None /\ key.life = "live")
  <2> DEFINE n == req[v].counted.attempts
  <2>1. Judge(v, n) /\ pc[v] = "ttl" /\ key' = key /\ n \in Nat
    BY <1>2, <1>5 DEF AskTtl
  <2>2. ASSUME NEW c \in Codes \ shared, Holds(c), ~TooMany(n), Pending(v, c)
        PROVE  tried[c] < n /\ n = key.attempts + 1
    <3>1. InHand(v, c)
      BY <2>2 DEF Guesses
    <3>2. Counts(v, c)
      BY <2>1, <2>2, <3>1 DEF InHand
    <3>3. tried[c] < n /\ n = Increment(key.attempts)
      BY <2>1, <2>2, <3>1, <3>2 DEF InHand
    <3> QED BY <1>3, <2>2, <3>3 DEF Increment, TooMany, Holds
  <2>3. \A c \in Codes : Holds(c)' <=> Holds(c)
    BY <2>1 DEF Holds
  <2>4. \A c \in Codes : Holds(c) => key.life # "live" /\ key.attempts \in Nat
    BY <1>3, <1>5 DEF Holds
  <2> HIDE DEF n
  <2> QED BY <2>1, <2>2, <2>3, <2>4, GuessesJudged
<1>6. CASE StoreCount(v)
  <2> DEFINE n == req[v].counted.attempts
  <2>1. Judge(v, n) /\ pc[v] = "store" /\ key' = req[v].counted /\ n \in Nat /\ key' # None
    BY <1>2, <1>6 DEF StoreCount
  <2>2. \A c \in Codes : Holds(c)' <=> Counts(v, c)
    BY <2>1 DEF Holds, Counts
  <2>3. \A c \in Codes : Counts(v, c) => Touches(v, c)
    BY <1>2 DEF Counts, Touches
  <2> QED BY <2>1, <2>2, <2>3, GuessesJudged
<1>7. CASE AskTtl(v) /\ key # None /\ key.life = "live"
  <2>1. /\ pc[v] = "ttl" /\ pc'[v] = "store" /\ req'[v] = req[v]
        /\ key' = key /\ tried' = tried
    BY <1>7 DEF AskTtl, Goto, TypeOK
  <2>2. \A c \in Codes : Pending(v, c)' <=> Pending(v, c)
    BY <2>1 DEF Pending
  <2>3. \A c \in Codes : Counts(v, c)' <=> Counts(v, c)
    BY <2>1 DEF Counts
  <2>4. \A c \in Codes : Holds(c)' <=> Holds(c)
    BY <2>1 DEF Holds
  <2>5. ASSUME NEW c \in Codes \ shared' PROVE InKey(c)' /\ InHand(v, c)'
    <3>1. InKey(c) /\ InHand(v, c)
      BY <1>1, <2>5 DEF Guesses
    <3>2. InKey(c)'
      BY <2>1, <2>4, <3>1 DEF InKey
    <3>3. InHand(v, c)'
      BY <2>1, <2>2, <2>3, <2>4, <3>1 DEF InHand
    <3> QED BY <3>2, <3>3
  <2>6. \A c \in Codes : tried'[c] <= MaxAttempts + 1 /\ (c \notin sent => tried'[c] = 0)
    BY <2>1 DEF Guesses
  <2>7. \A c \in Codes : tried'[c] = tried[c] /\ (Holds(c)' => Holds(c) /\ key'.attempts = key.attempts)
    BY <2>1, <2>4
  <2>8. shared \subseteq shared'
    BY <1>1
  <2> QED BY <1>1, <2>5, <2>6, <2>7, <2>8, GuessesKept
<1>8. CASE Discard(v) \/ Consume(v) \/ Apply(v) \/ Commit(v) \/ Fail(v)
  <2>1. pc[v] \notin {"idle", "count", "ttl", "store"} \/ pc'[v] = "idle"
    BY <1>8 DEF Discard, Consume, Apply, Commit, Fail, Goto, TypeOK
  <2>2. tried' = tried /\ key' \in {None, key}
    BY <1>8 DEF Discard, Consume, Apply, Commit, Fail
  <2>3. pc'[v] \notin {"count", "ttl", "store"}
    BY <2>1, HandleEffect
  <2>4. \A c \in Codes \ shared' : InKey(c)' /\ InHand(v, c)'
    BY <1>1, <2>2, <2>3 DEF Guesses, InKey, InHand, Pending, Counts, Holds
  <2>5. \A c \in Codes : tried'[c] <= MaxAttempts + 1 /\ (c \notin sent => tried'[c] = 0)
    BY <2>2 DEF Guesses
  <2> QED BY <1>1, <2>2, <2>4, <2>5, GuessesKept DEF Holds
<1>9. CASE Retry(v) /\ pc[v] = "store"
  <2>1. UNCHANGED <<pc, req, tried>> /\ key' = req[v].counted /\ key' # None
    BY <1>2, <1>9 DEF Retry
  <2>2. \A c \in Codes : /\ Pending(v, c)' <=> Pending(v, c)
                         /\ Counts(v, c)' <=> Counts(v, c)
                         /\ Holds(c)' <=> Counts(v, c)
    BY <1>9, <2>1 DEF Pending, Counts, Holds
  <2>3. ASSUME NEW c \in Codes \ shared' PROVE InKey(c)' /\ InHand(v, c)'
    <3>1. InHand(v, c) /\ tried[c] \in Nat
      BY <1>1, <2>3 DEF Guesses, TypeOK
    <3>2. InHand(v, c)'
      BY <1>9, <2>1, <2>2, <3>1 DEF InHand
    <3>3. InKey(c)'
      BY <1>2, <1>9, <2>1, <2>2, <3>1 DEF InHand, InKey
    <3> QED BY <3>2, <3>3
  <2>4. \A c \in Codes : tried'[c] <= MaxAttempts + 1 /\ (c \notin sent => tried'[c] = 0)
    BY <2>1 DEF Guesses
  <2>5. ASSUME NEW c \in Codes \ shared', NEW w \in Verifiers \ {v}, Touches(w, c)
        PROVE  tried'[c] = tried[c] /\ ~Holds(c)'
    <3>1. ~Touches(v, c)
      BY <1>1, <2>5 DEF Exclusive
    <3> QED BY <1>2, <2>1, <2>2, <3>1 DEF Counts, Touches
  <2>6. shared \subseteq shared'
    BY <1>1
  <2> QED BY <1>1, <2>3, <2>4, <2>5, <2>6, GuessesKept
<1>10. CASE Retry(v) /\ pc[v] # "store"
  <2>1. UNCHANGED <<pc, req, tried>> /\ key' = None /\ pc[v] \in {"discard", "consume"}
    BY <1>10 DEF Retry
  <2>2. \A c \in Codes \ shared' : InKey(c)' /\ InHand(v, c)'
    BY <2>1 DEF InKey, InHand, Pending, Counts, Holds
  <2>3. \A c \in Codes : tried'[c] <= MaxAttempts + 1 /\ (c \notin sent => tried'[c] = 0)
    BY <2>1 DEF Guesses
  <2>4. shared \subseteq shared'
    BY <1>1
  <2> QED BY <1>1, <2>1, <2>2, <2>3, <2>4, GuessesKept DEF Holds
<1> QED BY <1>4, <1>5, <1>6, <1>7, <1>8, <1>9, <1>10 DEF Handles

\* Every step keeps the bounds.
LEMMA GuessesStep ==
  ASSUME TypeOK, Traced, TypeOK', Traced', Exclusive, Exclusive', Guesses, [Next]_vars
  PROVE  Guesses'
<1>1. ASSUME NEW c \in Codes, SendOtp(c) PROVE Guesses'
  <2>1. /\ pc' = pc /\ req' = req /\ tried' = tried /\ shared' = shared
        /\ sent' = sent \cup {c} /\ c \notin sent /\ tried[c] = 0
        /\ key'.code = c /\ key'.attempts = 0
    BY <1>1 DEF SendOtp, NewOtp, Guesses
  <2>2. \A v \in Verifiers : ~Touches(v, c)
    BY <2>1 DEF Traced, Touches, Idle
  <2>3. \A v \in Verifiers : ~Pending(v, c) /\ ~Counts(v, c)
    BY <2>2, NothingInHand
  <2>4. ASSUME NEW d \in Codes \ shared' PROVE InKey(d)' /\ \A v \in Verifiers : InHand(v, d)'
    <3>1. \A v \in Verifiers : /\ Pending(v, d)' <=> Pending(v, d)
                              /\ Counts(v, d)' <=> Counts(v, d)
      BY <2>1 DEF Pending, Counts
    <3>2. CASE d = c
      <4>1. \A v \in Verifiers : ~Pending(v, d)' /\ ~Counts(v, d)'
        BY <2>1, <2>3, <3>2 DEF Pending, Counts
      <4>2. tried'[d] = 0 /\ key'.attempts = 0
        BY <2>1, <3>2
      <4>3. InKey(d)'
        BY <4>2 DEF InKey, MaxAttempts
      <4> QED BY <4>1, <4>3 DEF InHand
    <3>3. CASE d # c
      <4>1. ~Holds(d)'
        BY <2>1, <3>3 DEF Holds
      <4>2. \A v \in Verifiers : InHand(v, d)
        BY <2>1, <2>4 DEF Guesses
      <4>3. \A v \in Verifiers : InHand(v, d)'
        BY <2>1, <4>1, <4>2 DEF InHand, Pending, Counts
      <4> QED BY <4>1, <4>3 DEF InKey
    <3> QED BY <3>2, <3>3
  <2> QED BY <2>1, <2>4 DEF Guesses
<1>2. ASSUME NEW v \in Verifiers, Reads(v) PROVE Guesses'
  BY <1>2, GuessesRead
<1>3. ASSUME NEW v \in Verifiers, Handles(v) PROVE Guesses'
  BY <1>3, GuessesHandled
<1>4. ASSUME Fade \/ Expire \/ UNCHANGED vars PROVE Guesses'
  <2>1. /\ UNCHANGED <<pc, req, tried, shared, sent>>
        /\ key' # None => /\ key # None /\ key'.code = key.code
                          /\ key'.attempts = key.attempts
                          /\ key'.life = "live" => key.life = "live"
    BY <1>4 DEF Fade, Expire, vars, overlaps, TypeOK, Otp
  <2>2. \A c \in Codes : Holds(c)' => Holds(c)
    BY <2>1 DEF Holds
  <2>3. \A c \in Codes : InKey(c) => InKey(c)'
    BY <2>1, <2>2 DEF InKey, Holds
  <2>4. \A c \in Codes, v \in Verifiers : InHand(v, c) => InHand(v, c)'
    BY <2>1, <2>2 DEF InHand, Pending, Counts, Holds
  <2> QED BY <2>1, <2>3, <2>4 DEF Guesses
<1> QED BY <1>1, <1>2, <1>3, <1>4, Steps

-----------------------------------------------------------------------------
(* The codes in use at one time *)

\* The codes of the key and of the verifications at their calls to Redis.
InUse(c) == Holds(c) \/ \E v \in Verifiers : pc[v] \in Verifying /\ Touches(v, c)

\* They are one code, but for those that were sent while one was under way.
OneCode == \A c, d \in Codes \ crossed : InUse(c) /\ InUse(d) => c = d

\* A step that brings no code into use keeps them one.
LEMMA OneCodeKept ==
  ASSUME OneCode, crossed' = crossed, \A c \in Codes : InUse(c)' => InUse(c)
  PROVE  OneCode'
BY DEF OneCode

LEMMA OneCodeStep ==
  ASSUME TypeOK, Traced, OneCode, [Next]_vars
  PROVE  OneCode'
<1>1. ASSUME NEW s \in Codes, SendOtp(s)
      PROVE  OneCode'
  <2>1. key'.code = s /\ UNCHANGED <<pc, req>>
    BY <1>1 DEF SendOtp, NewOtp
  <2>2. \A c \in Codes \ {s} : InUse(c)' => InUse(c)
    BY <2>1 DEF InUse, Holds, Touches
  <2>3. CASE \E v \in Verifiers : pc[v] \in Verifying
    <3>1. crossed' = crossed \cup {s}
      BY <1>1, <2>3 DEF SendOtp
    <3> QED BY <2>2, <3>1 DEF OneCode
  <2>4. CASE ~\E v \in Verifiers : pc[v] \in Verifying
    <3>1. \A c \in Codes : InUse(c)' => c = s
      BY <2>1, <2>4 DEF InUse, Holds
    <3> QED BY <3>1 DEF OneCode
  <2> QED BY <2>3, <2>4
<1>2. ASSUME NEW v \in Verifiers, Reads(v)
      PROVE  OneCode'
  <2>1. /\ key # None /\ key' = key /\ crossed' = crossed
        /\ req'[v].seen = req[v].seen \/ req'[v].seen.code = key.code
        /\ req'[v].counted # None => req'[v].counted.code = key.code
        /\ pc[v] = "idle" \/ pc[v] \in Verifying
    BY <1>2, ReadEffect, NoneAssumption DEF Verifying
  <2>2. \A w \in Verifiers \ {v} : pc'[w] = pc[w] /\ req'[w] = req[w]
    <3>1. pc' = [pc EXCEPT ![v] = pc'[v]] /\ req' = [req EXCEPT ![v] = req'[v]]
      BY <1>2, ReadEffect
    <3> QED BY <3>1 DEF TypeOK
  <2>3. \A c \in Codes : Touches(v, c)' => Holds(c) \/ (pc[v] \in Verifying /\ Touches(v, c))
    BY <2>1 DEF Touches, Holds, Traced, Idle
  <2>4. \A c \in Codes : InUse(c)' => InUse(c)
    BY <2>1, <2>2, <2>3 DEF InUse, Touches, Holds
  <2> QED BY <2>1, <2>4, OneCodeKept
<1>3. ASSUME NEW v \in Verifiers, Handles(v)
      PROVE  OneCode'
  <2>1. /\ crossed' = crossed
        /\ \A w \in Verifiers \ {v} : pc'[w] = pc[w] /\ req'[w] = req[w]
        /\ pc'[v] = "idle" \/ req'[v] = req[v]
        /\ key' \in {None, key} \/ (pc[v] = "store" /\ key' = req[v].counted)
    BY <1>3, HandleEffect, GoesOnEffect DEF overlaps
  <2>2. pc'[v] \in Verifying => pc[v] \in Verifying
    BY <1>3 DEF Handles, Count, Judge, AskTtl, StoreCount, Discard, Consume, AfterAccepted, Apply,
                Commit, Fail, Retry, Goto, TypeOK, Verifying
  <2>3. pc[v] = "store" => pc[v] \in Verifying /\ req[v].counted # None
    BY DEF Verifying, Traced
  <2>4. \A c \in Codes : Holds(c)' => InUse(c)
    BY <2>1, <2>3 DEF InUse, Holds, Touches
  <2>5. \A c \in Codes, w \in Verifiers :
          pc'[w] \in Verifying /\ Touches(w, c)' => pc[w] \in Verifying /\ Touches(w, c)
    BY <2>1, <2>2 DEF Touches, Verifying
  <2>6. \A c \in Codes : InUse(c)' => InUse(c)
    BY <2>4, <2>5 DEF InUse
  <2> QED BY <2>1, <2>6, OneCodeKept
<1>4. ASSUME Fade \/ Expire \/ UNCHANGED vars
      PROVE  OneCode'
  <2>1. /\ UNCHANGED <<pc, req, crossed>>
        /\ key' # None => key # None /\ key'.code = key.code
    BY <1>4 DEF Fade, Expire, vars, overlaps, TypeOK, Otp
  <2>2. \A c \in Codes : InUse(c)' => InUse(c)
    BY <2>1 DEF InUse, Holds, Touches
  <2> QED BY <2>1, <2>2, OneCodeKept
<1> QED BY <1>1, <1>2, <1>3, <1>4, Steps

\* A verification that is about to delete the key has it in use, and its own code.
LEMMA DeletesInUse == TypeOK /\ Traced /\ OneCode => DeletesOwn
<1> SUFFICES ASSUME TypeOK, Traced, OneCode, NEW v \in Verifiers,
                    pc[v] \in {"discard", "consume"}, key # None,
                    {key.code, req[v].seen.code} \cap crossed = {}
             PROVE  key.code = req[v].seen.code
  BY DEF DeletesOwn
<1>1. req[v].seen # None /\ req[v].seen.code \in Codes /\ key.code \in Codes
  BY DEF Traced, TypeOK, Otp, Locals, SeenOtp
<1>2. InUse(key.code) /\ InUse(req[v].seen.code)
  BY <1>1 DEF InUse, Holds, Touches, Verifying
<1> QED BY <1>1, <1>2 DEF OneCode

-----------------------------------------------------------------------------
(* Theorems *)

\* The initial state satisfies every invariant.
LEMMA InitIInv == Init => IInv /\ Latest /\ Guesses /\ OneCode
<1> SUFFICES ASSUME Init PROVE IInv /\ Latest /\ Guesses /\ OneCode
  OBVIOUS
<1>1. \A v \in Verifiers, c \in Codes : ~Touches(v, c) /\ pc[v] = "idle"
  BY DEF Init, Touches, Idle
<1>2. Traced /\ Exclusive
  BY <1>1 DEF Init, Traced, Exclusive, Idle
<1>3. UsedAndGone /\ Accepted /\ Latest
  BY <1>1 DEF Init, UsedAndGone, Accepted, Latest
<1>4. Guesses
  BY <1>1 DEF Init, Guesses, InKey, InHand, Pending, Counts, Holds, MaxAttempts
<1>5. OneCode
  BY <1>1 DEF Init, OneCode, InUse, Holds
<1> QED BY <1>2, <1>3, <1>4, <1>5, InitType DEF IInv

\* IInv is kept by every step.
LEMMA IInvStep ==
  ASSUME IInv, [Next]_vars
  PROVE  IInv'
  BY TypeStep, ExclusiveStep, AcceptedStep, UsedStep DEF IInv

\* The key, the requests and the histories keep their types, whatever the number
\* of concurrent verifications.
THEOREM TypeCorrect == Spec => []TypeOK
<1>1. Init => TypeOK /\ Traced
  BY InitIInv DEF IInv
<1>2. TypeOK /\ Traced /\ [Next]_vars => TypeOK' /\ Traced'
  BY TypeStep
<1> QED BY <1>1, <1>2, PTL DEF Spec

\* However many verifications run, beside sends of new codes and whatever fails:
\* a code serves one committed request at most while no two of them that overlap
\* have read it, because verify_otp deletes the key before it commits.
THEOREM AcceptedOnceAlways == Spec => []AcceptedOnce
<1>1. Init => IInv
  BY InitIInv
<1>2. IInv /\ [Next]_vars => IInv'
  BY IInvStep
<1>3. IInv => AcceptedOnce
  BY DEF IInv, UsedAndGone, AcceptedOnce
<1> QED BY <1>1, <1>2, <1>3, PTL DEF Spec

\* An older code takes the place of the last one only if its count was being
\* written back when the last one was sent.
THEOREM LatestStandsAlways == Spec => []LatestStands
<1>1. Init => TypeOK /\ Traced /\ Latest
  BY InitIInv DEF IInv
<1>2. TypeOK /\ Traced /\ Latest /\ [Next]_vars => TypeOK' /\ Traced' /\ Latest'
  BY TypeStep, LatestStep
<1>3. Latest => LatestStands
  BY DEF Latest, LatestStands
<1> QED BY <1>1, <1>2, <1>3, PTL DEF Spec

\* At most four guesses are compared with a code before two verifications that
\* overlap have read it: the three that are counted and one whose count is lost
\* when the key expires under it.
THEOREM GuessesBoundedAlways == Spec => []GuessesBounded
<1>1. Init => IInv /\ Guesses
  BY InitIInv
<1>2. IInv /\ Guesses /\ [Next]_vars => IInv' /\ Guesses'
  BY IInvStep, GuessesStep DEF IInv
<1>3. Guesses => GuessesBounded
  BY DEF Guesses, GuessesBounded
<1> QED BY <1>1, <1>2, <1>3, PTL DEF Spec

\* The DEL of an accepted or exhausted code takes no other code with it, unless
\* one was sent while a verification was under way.
THEOREM DeletesOwnAlways == Spec => []DeletesOwn
<1>1. Init => TypeOK /\ Traced /\ OneCode
  BY InitIInv DEF IInv
<1>2. TypeOK /\ Traced /\ OneCode /\ [Next]_vars => TypeOK' /\ Traced' /\ OneCode'
  BY TypeStep, OneCodeStep
<1> QED BY <1>1, <1>2, DeletesInUse, PTL DEF Spec
=============================================================================
