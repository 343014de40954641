\* Two requests of one user race over three sessions; nothing fails or ages.
SPECIFICATION Spec
CONSTANTS
  Users = {alice}
  Requests = {r1, r2}
  Ids = {i1, i2, i3}
  None = None
  PASSWORD_MAX_ATTEMPTS = 2
  AdminStatuses <- NoAdmin
  MaxWrong = 0
  MaxAges = 0
  MaxFaults = 0
SYMMETRY Symmetry
INVARIANTS
  ForcedLogoutComplete
PROPERTIES
  UnitOfWork
  SpentTokenNotAdmitted
