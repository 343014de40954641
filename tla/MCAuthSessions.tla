--------------------------- MODULE MCAuthSessions ---------------------------
(***************************************************************************)
(* Instances of AuthSessions for TLC.                                      *)
(***************************************************************************)
EXTENDS AuthSessions, TLC

\* Requests, users and identifiers are interchangeable: nothing compares or
\* orders them, and None is not one of them.
Symmetry == Permutations(Requests) \cup Permutations(Users) \cup Permutations(Ids)

NoAdmin == {}
Admin == {"SUSPENDED"}
=============================================================================
