\* A refresh after a logout from all devices.
SPECIFICATION Spec
CONSTANTS
  Users = {alice}
  Requests = {r1}
  Ids = {i1, i2}
  None = None
  PASSWORD_MAX_ATTEMPTS = 2
  AdminStatuses <- NoAdmin
  MaxWrong = 0
  MaxAges = 0
  MaxFaults = 0
SYMMETRY Symmetry
PROPERTIES
  ForcedLogoutRefused
