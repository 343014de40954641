------------------------------- MODULE MCOtp -------------------------------
(***************************************************************************)
(* Instances of Otp for TLC.                                               *)
(***************************************************************************)
EXTENDS Otp, TLC

\* Verifications and codes are interchangeable: they are only compared.
Symmetry == Permutations(Verifiers) \cup Permutations(Codes)
=============================================================================
