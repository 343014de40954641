\* Two wrong passwords, one after the other.
SPECIFICATION Spec
CONSTANTS
  Users = {alice}
  Requests = {r1}
  Ids = {i1}
  None = None
  PASSWORD_MAX_ATTEMPTS = 2
  AdminStatuses <- NoAdmin
  MaxWrong = 2
  MaxAges = 0
  MaxFaults = 0
SYMMETRY Symmetry
INVARIANTS
  LockoutTakesEffect
