------------------------------- MODULE MCMfa -------------------------------
(***************************************************************************)
(* Instances of Mfa for TLC.                                               *)
(***************************************************************************)
EXTENDS Mfa, TLC

\* Requests, secrets and challenge tokens are only compared with one another.
Symmetry == Permutations(Requests) \cup Permutations(Secrets) \cup Permutations(Challenges)
=============================================================================
