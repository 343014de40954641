\* Two requests of one user race while the status changes; one call fails or one answer is lost.
SPECIFICATION Spec
CONSTANTS
  Users = {alice}
  Requests = {r1, r2}
  Ids = {i1, i2}
  None = None
  PASSWORD_MAX_ATTEMPTS = 2
  AdminStatuses <- Admin
  MaxWrong = 0
  MaxAges = 0
  MaxFaults = 1
SYMMETRY Symmetry
INVARIANTS
  TypeOK
  DeliveredBacked
  AuditMatchesSessions
  SessionsOfVerifiedPhones
  HolderRuns
