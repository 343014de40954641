-------------------------------- MODULE Otp --------------------------------
(***************************************************************************)
(* The one-time code of one phone number and one purpose, as RedisService  *)
(* (app/integrations/redis_client.py) keeps it in one Redis key and as     *)
(* AuthService.verify_otp judges it, for requests that run concurrently.   *)
(*                                                                         *)
(* One action is one Redis command, with what the handler does up to its   *)
(* next await.  A verification reads the key twice: verify_otp compares    *)
(* the code with the first GET, increment_otp_attempts counts on the       *)
(* second one and writes it back with SETEX.                               *)
(*                                                                         *)
(* Codes are model values, drawn afresh by generate_otp; a guess is right  *)
(* or wrong for the code seen.  A code is shared once two verifications in *)
(* flight have both read it: from then on the histories do not count it.   *)
(***************************************************************************)
EXTENDS Naturals, FiniteSets

CONSTANTS
  Verifiers, \* slots of concurrent verifications
  Codes,     \* codes that can be drawn; bounds the sends
  None,      \* no key, no code
  Purpose,   \* the purpose of the key
  MaxFaults  \* bound: failures and repeated calls

ASSUME PurposeAssumption == Purpose \in {"phone_verify", "password_reset", "login_otp"}
ASSUME BoundsAssumption == MaxFaults \in Nat

VARIABLES
  key,     \* Redis auth:otp:{purpose}:{phone}, or None
  pc,      \* the call a verification makes next
  req,     \* its arguments and locals
  sent,    \* codes send_otp has stored
  latest,  \* history: the code sent last
  raced,   \* history: codes sent while a verification had a count to write back
  crossed, \* history: codes sent while a verification was at its calls to Redis
  shared,  \* history: codes that two verifications in flight had both read
  tried,   \* history: guesses compared with the code while it was not shared
  uses,    \* history: commits that accepted the code while it was not shared
  faults   \* what is left of MaxFaults

overlaps == <<latest, raced, crossed, shared>>
vars == <<key, pc, req, sent, overlaps, tried, uses, faults>>

\* Attempts beyond the maximum are told apart by nothing: they saturate.
MaxAttempts == 3
Attempts == 0 .. MaxAttempts + 1

\* fading: the last half second, in which TTL answers 0.
Lives == {"live", "fading"}

Otp == [code : Codes, attempts : Attempts, life : Lives]

\* What verify_otp keeps of its first GET.
SeenOtp == [code : Codes, life : Lives]

ASSUME NoneAssumption == None \notin Codes \cup Otp \cup SeenOtp

Calls == {"idle", "count", "ttl", "store", "discard", "consume", "apply", "commit"}

\* Between the first GET of a verification and its last command.
Verifying == {"count", "ttl", "store", "discard", "consume"}

\* right: the code given is the one seen; counted: the second GET, incremented,
\* as it will be written back.
Locals == [seen : SeenOtp \cup {None}, right : BOOLEAN, counted : Otp \cup {None}]

Idle == [seen |-> None, right |-> FALSE, counted |-> None]

TypeOK ==
  /\ key \in Otp \cup {None}
  /\ pc \in [Verifiers -> Calls]
  /\ req \in [Verifiers -> Locals]
  /\ sent \subseteq Codes
  /\ latest \in Codes \cup {None}
  /\ raced \subseteq Codes /\ crossed \subseteq Codes /\ shared \subseteq Codes
  /\ tried \in [Codes -> Nat]
  /\ uses \in [Codes -> Nat]
  /\ faults \in 0 .. MaxFaults

Init ==
  /\ key = None
  /\ pc = [v \in Verifiers |-> "idle"]
  /\ req = [v \in Verifiers |-> Idle]
  /\ sent = {} /\ latest = None /\ raced = {} /\ crossed = {} /\ shared = {}
  /\ tried = [c \in Codes |-> 0]
  /\ uses = [c \in Codes |-> 0]
  /\ faults = MaxFaults

-----------------------------------------------------------------------------
\* Sending: one SETEX, which replaces what the key held.

NewOtp(c) == [code |-> c, attempts |-> 0, life |-> "live"]

SendOtp(c) ==
  /\ c \notin sent
  /\ key' = NewOtp(c)
  /\ sent' = sent \cup {c}
  /\ latest' = c
  /\ raced' = IF \E v \in Verifiers : pc[v] \in {"ttl", "store"}
              THEN raced \cup {c} ELSE raced
  /\ crossed' = IF \E v \in Verifiers : pc[v] \in Verifying
                THEN crossed \cup {c} ELSE crossed
  /\ UNCHANGED <<pc, req, shared, tried, uses, faults>>

-----------------------------------------------------------------------------
\* Verifying.

Goto(v, call) ==
  /\ pc' = [pc EXCEPT ![v] = call]
  /\ req' = IF call = "idle" THEN [req EXCEPT ![v] = Idle] ELSE req

\* v is in flight and has read the code c.
Touches(v, c) ==
  \/ req[v].seen # None /\ req[v].seen.code = c
  \/ req[v].counted # None /\ req[v].counted.code = c

\* History: v reads the key, which another verification may have read.
NoteRead(v) ==
  /\ shared' = IF \E w \in Verifiers \ {v} : Touches(w, key.code)
               THEN shared \cup {key.code} ELSE shared
  /\ UNCHANGED <<latest, raced, crossed>>

\* get_otp finds no key: the request is refused at once.
VerifyMissing(v) ==
  /\ pc[v] = "idle"
  /\ key = None
  /\ UNCHANGED vars

\* Mutant of GetOtp: the GET goes to a replica of Redis, which lags.
GetOtpReplica(v, right) ==
  /\ pc[v] = "idle"
  /\ \E c \in sent :
       /\ pc' = [pc EXCEPT ![v] = "count"]
       /\ req' = [req EXCEPT ![v] = [seen |-> [code |-> c, life |-> "live"],
                                    right |-> right, counted |-> None]]
  /\ UNCHANGED <<key, sent, overlaps, tried, uses, faults>>

GetOtp(v, right) ==
  /\ pc[v] = "idle"
  /\ key # None
  /\ pc' = [pc EXCEPT ![v] = "count"]
  /\ req' = [req EXCEPT ![v] = [seen |-> [code |-> key.code, life |-> key.life],
                               right |-> right, counted |-> None]]
  /\ NoteRead(v)
  /\ UNCHANGED <<key, sent, tried, uses, faults>>

\* Mutant of TooMany: one attempt more.
TooManyOffByOne(n) == n > MaxAttempts + 1

TooMany(n) == n > MaxAttempts

\* What verify_otp does with the attempt count n it was given.  History: the
\* guess was compared with the code, which had more than half a second to live.
Judge(v, n) ==
  LET c == req[v].seen.code
      compared == ~TooMany(n) /\ req[v].seen.life = "live"
  IN
  /\ Goto(v, IF TooMany(n) THEN "discard"
             ELSE IF req[v].right THEN "consume" ELSE "idle")
  /\ tried' = IF compared /\ c \notin shared THEN [tried EXCEPT ![c] = @ + 1] ELSE tried

Increment(n) == IF n > MaxAttempts THEN n ELSE n + 1

\* increment_otp_attempts: the second GET; a key that is gone counts as 0.
Count(v) ==
  /\ pc[v] = "count"
  /\ \/ /\ key = None
        /\ Judge(v, 0)
        /\ UNCHANGED overlaps
     \/ /\ key # None
        /\ pc' = [pc EXCEPT ![v] = "ttl"]
        /\ req' = [req EXCEPT ![v].counted = [key EXCEPT !.attempts = Increment(@), !.life = "live"]]
        /\ NoteRead(v)
        /\ UNCHANGED tried
  /\ UNCHANGED <<key, sent, uses, faults>>

\* Nothing is written back when TTL answers 0, or -2 for a key that is gone.
AskTtl(v) ==
  /\ pc[v] = "ttl"
  /\ IF key # None /\ key.life = "live"
     THEN Goto(v, "store") /\ UNCHANGED tried
     ELSE Judge(v, req[v].counted.attempts)
  /\ UNCHANGED <<key, sent, overlaps, uses, faults>>

\* Mutant of StoreCount: the code of the first GET is written back.
StoreCountSeen(v) ==
  /\ pc[v] = "store"
  /\ key' = [req[v].counted EXCEPT !.code = req[v].seen.code]
  /\ Judge(v, req[v].counted.attempts)
  /\ UNCHANGED <<sent, overlaps, uses, faults>>

\* SETEX with the value read before, whatever the key holds by now.
StoreCount(v) ==
  /\ pc[v] = "store"
  /\ key' = req[v].counted
  /\ Judge(v, req[v].counted.attempts)
  /\ UNCHANGED <<sent, overlaps, uses, faults>>

\* delete_otp, then "Too many OTP attempts".
Discard(v) ==
  /\ pc[v] = "discard"
  /\ key' = None
  /\ Goto(v, "idle")
  /\ UNCHANGED <<sent, overlaps, tried, uses, faults>>

\* What follows an accepted code: an UPDATE of the users row, nothing but the
\* commit, or (confirm_password_reset) the refusal of a weak new password.
\* /otp/verify takes every purpose, /password/reset/confirm only one.
AfterAccepted ==
  CASE Purpose = "phone_verify" -> {"apply"}
    [] Purpose = "password_reset" -> {"commit", "apply", "idle"}
    [] Purpose = "login_otp" -> {"commit"}

\* Mutant of Consume: an emptied entry instead of a deletion.
ConsumeEmptied(v) ==
  /\ pc[v] = "consume"
  /\ key' = [code |-> None, attempts |-> 0, life |-> "live"]
  /\ \E call \in AfterAccepted : Goto(v, call)
  /\ UNCHANGED <<sent, overlaps, tried, uses, faults>>

\* Mutant of Consume: the deletion is forgotten.
ConsumeKept(v) ==
  /\ pc[v] = "consume"
  /\ \E call \in AfterAccepted : Goto(v, call)
  /\ UNCHANGED <<key, sent, overlaps, tried, uses, faults>>

\* delete_otp after a match: the key goes, whatever code it holds by now.
Consume(v) ==
  /\ pc[v] = "consume"
  /\ key' = None
  /\ \E call \in AfterAccepted : Goto(v, call)
  /\ UNCHANGED <<sent, overlaps, tried, uses, faults>>

Apply(v) ==
  /\ pc[v] = "apply"
  /\ Goto(v, "commit")
  /\ UNCHANGED <<key, sent, overlaps, tried, uses, faults>>

Commit(v) ==
  /\ pc[v] = "commit"
  /\ Goto(v, "idle")
  /\ LET c == req[v].seen.code IN
       uses' = IF c \notin shared THEN [uses EXCEPT ![c] = @ + 1] ELSE uses
  /\ UNCHANGED <<key, sent, overlaps, tried, faults>>

\* A call fails, before its effect, or after it: that is before the next call,
\* or Retry first.  get_db rolls the transaction back, Redis keeps what
\* it was told.
Fail(v) ==
  /\ pc[v] # "idle"
  /\ faults > 0
  /\ faults' = faults - 1
  /\ Goto(v, "idle")
  /\ UNCHANGED <<key, sent, overlaps, tried, uses>>

\* The answer of a SETEX or DEL that Redis has executed does not come in time:
\* the client sends the command again (create_redis_pool).
Retry(v) ==
  /\ faults > 0
  /\ faults' = faults - 1
  /\ \/ pc[v] = "store" /\ key' = req[v].counted
     \/ pc[v] \in {"discard", "consume"} /\ key' = None
  /\ UNCHANGED <<pc, req, sent, overlaps, tried, uses>>

-----------------------------------------------------------------------------
\* Time.

Fade ==
  /\ key # None /\ key.life = "live"
  /\ key' = [key EXCEPT !.life = "fading"]
  /\ UNCHANGED <<pc, req, sent, overlaps, tried, uses, faults>>

Expire ==
  /\ key # None /\ key.life = "fading"
  /\ key' = None
  /\ UNCHANGED <<pc, req, sent, overlaps, tried, uses, faults>>

-----------------------------------------------------------------------------
Verify(v) ==
  \/ \E right \in BOOLEAN : GetOtp(v, right)
  \/ VerifyMissing(v)
  \/ Count(v) \/ AskTtl(v) \/ StoreCount(v)
  \/ Discard(v) \/ Consume(v) \/ Apply(v) \/ Commit(v)
  \/ Fail(v) \/ Retry(v)

Next ==
  \/ \E c \in Codes : SendOtp(c)
  \/ \E v \in Verifiers : Verify(v)
  \/ Fade \/ Expire

Spec == Init /\ [][Next]_vars

-----------------------------------------------------------------------------
(* Safety *)

\* verify_otp deletes the key before the transaction commits, so that a code
\* serves one committed request at most, whatever calls fail in between, how
\* late a count is written back and whatever verifications of other codes do.
\* Only two requests that have read the same code and overlap can both use it.
AcceptedOnce == \A c \in Codes : uses[c] <= 1

\* Three guesses of a code are compared with it while it has half a second or
\* more to live, and one that counts on a key which has expired since its first
\* GET, although the increment is a GET, a TTL and a SETEX that sends and
\* verifications of other codes separate.
GuessesBounded == \A c \in Codes : tried[c] <= MaxAttempts + 1

\* The code sent last is the one that stands: an older code comes back only if a
\* verification had read it for counting when the new one was stored, whatever
\* other verifications have seen, consumed or left behind.
LatestStands == key # None /\ latest \notin raced => key.code = latest

\* delete_otp takes whatever the key holds: when it is called, by an accepted
\* code or after too many attempts, that is the code the verification has read,
\* however many others delete, count and write back.  Only a code that was sent
\* while a verification was under way can be deleted in place of another.
DeletesOwn ==
  \A v \in Verifiers : pc[v] \in {"discard", "consume"} /\ key # None =>
    key.code = req[v].seen.code \/ {key.code, req[v].seen.code} \cap crossed # {}
=============================================================================
