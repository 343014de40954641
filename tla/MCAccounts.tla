----------------------------- MODULE MCAccounts -----------------------------
(***************************************************************************)
(* An instance of Accounts for TLC.  No symmetry: liveness is checked.     *)
(***************************************************************************)
EXTENDS Accounts
=============================================================================
