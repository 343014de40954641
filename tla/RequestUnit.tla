---------------------------- MODULE RequestUnit ----------------------------
(***************************************************************************)
(* What one HTTP request promises about the database, whatever the endpoint*)
(* does: get_db (app/core/session.py) opens one transaction per request,   *)
(* the handler adds work to it, the transaction is committed whole before  *)
(* the answer leaves or rolled back whole when the handler raises, and a   *)
(* client is told nothing that is not committed.                           *)
(*                                                                         *)
(* A fact is anything a transaction can add: a session row, a mark that a  *)
(* session is no longer active, an audit row.  Facts are never removed, so *)
(* the store grows only.                                                   *)
(***************************************************************************)
EXTENDS TLAPS

CONSTANTS
  Requests,   \* the slots of concurrent requests
  Facts       \* everything a transaction may write

VARIABLES
  phase,      \* phase[r]: is r's transaction closed, open or committed
  pending,    \* pending[r]: what r's transaction has written
  store,      \* what is committed
  told        \* what clients have been told

vars == <<phase, pending, store, told>>

Phases == {"closed", "open", "committed"}

TypeOK ==
  /\ phase \in [Requests -> Phases]
  /\ pending \in [Requests -> SUBSET Facts]
  /\ store \subseteq Facts
  /\ told \subseteq Facts

Init ==
  /\ phase = [r \in Requests |-> "closed"]
  /\ pending = [r \in Requests |-> {}]
  /\ store = {}
  /\ told = {}

\* The handler writes some more facts in the transaction of r.
Adds(r) ==
  /\ pending[r] \subseteq pending'[r]
  /\ pending'[r] \subseteq Facts
  /\ pending' = [pending EXCEPT ![r] = pending'[r]]
  /\ UNCHANGED <<store, told>>

Open(r) ==
  /\ phase[r] = "closed"
  /\ phase' = [phase EXCEPT ![r] = "open"]
  /\ Adds(r)

Work(r) ==
  /\ phase[r] = "open"
  /\ UNCHANGED phase
  /\ Adds(r)

Commit(r) ==
  /\ phase[r] = "open"
  /\ phase' = [phase EXCEPT ![r] = "committed"]
  /\ store' = store \cup pending[r]
  /\ UNCHANGED <<pending, told>>

Close(r) ==
  /\ phase' = [phase EXCEPT ![r] = "closed"]
  /\ pending' = [pending EXCEPT ![r] = {}]
  /\ UNCHANGED store

Rollback(r) == phase[r] = "open" /\ Close(r) /\ UNCHANGED told

\* The answer may tell nothing new, and may be lost on its way.
Reply(r) ==
  /\ phase[r] = "committed"
  /\ Close(r)
  /\ told \subseteq told'
  /\ told' \subseteq told \cup pending[r]

Next ==
  \E r \in Requests :
    Open(r) \/ Work(r) \/ Commit(r) \/ Rollback(r) \/ Reply(r)

Spec == Init /\ [][Next]_vars

(***************************************************************************)
(* Clients are told committed facts only.                                  *)
(***************************************************************************)
ToldStored == told \subseteq store

-----------------------------------------------------------------------------
\* What a request has committed is in the store until it replies.
CommittedStored ==
  \A r \in Requests : phase[r] = "committed" => pending[r] \subseteq store

Inv == TypeOK /\ CommittedStored /\ ToldStored

\* Every transition keeps the three parts of Inv: the store grows only, and
\* what is told comes from the pending facts of a committed request.
LEMMA InvStep == Inv /\ [Next]_vars => Inv'
<1> SUFFICES ASSUME Inv, [Next]_vars PROVE Inv'
  OBVIOUS
<1> USE DEF Inv, TypeOK, CommittedStored, ToldStored, Phases
<1>1. ASSUME NEW r \in Requests, Open(r) PROVE Inv'
  BY <1>1 DEF Open, Adds
<1>2. ASSUME NEW r \in Requests, Work(r) PROVE Inv'
  BY <1>2 DEF Work, Adds
<1>3. ASSUME NEW r \in Requests, Commit(r) PROVE Inv'
  BY <1>3 DEF Commit
<1>4. ASSUME NEW r \in Requests, Rollback(r) PROVE Inv'
  BY <1>4 DEF Rollback, Close
<1>5. ASSUME NEW r \in Requests, Reply(r) PROVE Inv'
  BY <1>5 DEF Reply, Close
<1>6. CASE UNCHANGED vars
  BY <1>6 DEF vars
<1> QED
  BY <1>1, <1>2, <1>3, <1>4, <1>5, <1>6 DEF Next

\* Clients are told committed facts only, in every behaviour of the
\* specification: the promise get_db makes by committing before the answer.
THEOREM ToldStoredAlways == Spec => []ToldStored
<1>1. Init => Inv
  BY DEF Init, Inv, TypeOK, CommittedStored, ToldStored, Phases
<1>2. Inv => ToldStored
  BY DEF Inv
<1> QED
  BY <1>1, <1>2, InvStep, PTL DEF Spec
=============================================================================
