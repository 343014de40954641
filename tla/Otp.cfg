\* Two verifications race beside two sends; two calls fail or are repeated.
SPECIFICATION Spec
CONSTANTS
  Verifiers = {v1, v2}
  Codes = {c1, c2}
  None = None
  Purpose = "password_reset"
  MaxFaults = 2
SYMMETRY Symmetry
INVARIANTS
  TypeOK
  AcceptedOnce
  GuessesBounded
  LatestStands
  
