----------------------------- MODULE Revocation -----------------------------
(***************************************************************************)
(* What the blacklist in Redis promises, whoever keeps it: a token that was*)
(* revoked is refused for as long as it is valid.  A token is valid, then  *)
(* closing (the last two seconds it is accepted, in which whole seconds are*)
(* rounded), then expired; an entry may lapse once its token is closing,   *)
(* not before.  A request is admitted with a token that is not listed, and *)
(* keeps it for as long as it acts on the admission.                       *)
(*                                                                         *)
(* Tokens keeps the promise with a clock and TTLs.  AuthSessions takes its *)
(* time and its blacklist from here and keeps the promise for requests that*)
(* commit, roll back and fail in between.                                  *)
(***************************************************************************)
EXTENDS TLAPS

CONSTANTS
  Requests,  \* the slots of concurrent requests
  Tokens,    \* the tokens, by jti
  None       \* no token

VARIABLES
  life,      \* life[t]: how far t is from the end of its acceptance
  listed,    \* the tokens in the blacklist
  revoked,   \* the tokens whose revocation was acknowledged
  admitted   \* admitted[r]: the token r was admitted with, or None

vars == <<life, listed, revoked, admitted>>

Stages == {"valid", "closing", "expired"}

TypeOK ==
  /\ life \in [Tokens -> Stages]
  /\ listed \subseteq Tokens
  /\ revoked \subseteq Tokens
  /\ admitted \in [Requests -> Tokens \cup {None}]

Init ==
  /\ life = [t \in Tokens |-> "valid"]
  /\ listed = {} /\ revoked = {}
  /\ admitted = [r \in Requests |-> None]

\* Tokens grow older, and entries lapse whose tokens are no longer valid.
Pass ==
  /\ life' \in [Tokens -> Stages]
  /\ \A t \in Tokens : life[t] \in {"valid", life'[t]} \/ life'[t] = "expired"
  /\ listed' \subseteq listed
  /\ \A t \in listed \ listed' : life'[t] # "valid"
  /\ UNCHANGED <<revoked, admitted>>

Admit(r, t) ==
  /\ admitted[r] = None
  /\ t \notin listed
  /\ admitted' = [admitted EXCEPT ![r] = t]
  /\ UNCHANGED <<life, listed, revoked>>

\* Requests end, one or all those of a process that dies.
Leave(some) ==
  /\ admitted' = [r \in Requests |-> IF r \in some THEN None ELSE admitted[r]]
  /\ UNCHANGED <<life, listed, revoked>>

\* The entry is written; whether the writer learns it is another matter.
Revoke(r, t) ==
  /\ listed' = listed \cup {t}
  /\ revoked' \in {revoked, revoked \cup {t}}
  /\ admitted' = [admitted EXCEPT ![r] = None]
  /\ UNCHANGED life

Next ==
  \/ Pass
  \/ \E r \in Requests, t \in Tokens : Admit(r, t) \/ Revoke(r, t)
  \/ \E some \in SUBSET Requests : Leave(some)

Spec == Init /\ [][Next]_vars

\* A revoked token is in the blacklist while it is valid.
RevokedListed == \A t \in revoked : life[t] = "valid" => t \in listed

\* No request is admitted with a revoked token that is valid.
RevokedRefused ==
  [][\A r \in Requests :
       admitted[r] = None /\ admitted'[r] # None
         => ~(admitted'[r] \in revoked /\ life[admitted'[r]] = "valid")]_vars

-----------------------------------------------------------------------------
IInv == TypeOK /\ RevokedListed

LEMMA Step == IInv /\ [Next]_vars => IInv'
<1> SUFFICES ASSUME IInv, [Next]_vars
             PROVE  IInv'
  OBVIOUS
<1> USE DEF IInv, TypeOK, RevokedListed
<1>1. CASE Pass
  BY <1>1 DEF Pass
<1>2. ASSUME NEW r \in Requests, NEW t \in Tokens, Admit(r, t)
      PROVE  IInv'
  BY <1>2 DEF Admit
<1>3. ASSUME NEW r \in Requests, NEW t \in Tokens, Revoke(r, t)
      PROVE  IInv'
  BY <1>3 DEF Revoke
<1>4. ASSUME NEW some \in SUBSET Requests, Leave(some)
      PROVE  IInv'
  BY <1>4 DEF Leave
<1>5. CASE UNCHANGED vars
  BY <1>5 DEF vars
<1> QED
  BY <1>1, <1>2, <1>3, <1>4, <1>5 DEF Next

LEMMA Invariance == Spec => []IInv
<1>1. Init => IInv
  BY DEF Init, IInv, TypeOK, RevokedListed, Stages
<1> QED
  BY <1>1, Step, PTL DEF Spec

\* Entries lapse after their tokens have stopped being valid, so that every
\* revocation that was acknowledged stands.
THEOREM RevokedListedAlways == Spec => []RevokedListed
<1>1. IInv => RevokedListed
  BY DEF IInv
<1> QED
  BY <1>1, Invariance, PTL

\* Asking the blacklist before admitting is enough to refuse what was revoked.
THEOREM RevokedRefusedAlways == Spec => RevokedRefused
<1> DEFINE Refused ==
      \A r \in Requests :
        admitted[r] = None /\ admitted'[r] # None
          => ~(admitted'[r] \in revoked /\ life[admitted'[r]] = "valid")
<1>1. IInv /\ [Next]_vars => [Refused]_vars
  <2> SUFFICES ASSUME IInv, Next, NEW r \in Requests, admitted[r] = None, admitted'[r] # None
               PROVE  ~(admitted'[r] \in revoked /\ life[admitted'[r]] = "valid")
    OBVIOUS
  <2> USE DEF IInv, TypeOK
  <2>1. ASSUME NEW q \in Requests, NEW t \in Tokens, Admit(q, t)
        PROVE  admitted'[r] \notin listed
    BY <2>1 DEF Admit
  <2>2. ASSUME NEW q \in Requests, NEW t \in Tokens, Revoke(q, t)
        PROVE  FALSE
    BY <2>2 DEF Revoke
  <2>3. ASSUME NEW some \in SUBSET Requests, Leave(some)
        PROVE  FALSE
    BY <2>3 DEF Leave
  <2>4. ~Pass
    BY DEF Pass
  <2> QED
    BY <2>1, <2>2, <2>3, <2>4 DEF Next, RevokedListed
<1> QED
  BY <1>1, Invariance, PTL DEF Spec, RevokedRefused
=============================================================================
