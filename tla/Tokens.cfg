\* Two workers, two requests, one login; two ticks to the second.
SPECIFICATION Spec
CONSTANTS
  Workers = {w1, w2}
  Requests = {r1, r2}
  Logins = {l1}
  None = None
  Second = 2
  Life <- Seconds
  MaxNow = 8
  MaxKeys = 3
  MaxFaults = 1
SYMMETRY Symmetry
INVARIANTS
  TypeOK
  RevokedListed
  WorkersAgree
  LogoutEffective
PROPERTIES
  RevokedNotAdmitted
  RevocationKept
