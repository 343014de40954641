------------------------------ MODULE MCTokens ------------------------------
(***************************************************************************)
(* An instance of Tokens for TLC.                                          *)
(***************************************************************************)
EXTENDS Tokens, TLC

\* An access token lives one second, a refresh token three.
Seconds == [kind \in Kinds |-> IF kind = "access" THEN 1 ELSE 3]

Symmetry == Permutations(Workers) \cup Permutations(Requests)
=============================================================================
