\* Tokens age between and during requests, one of which may be a login with a wrong password.
SPECIFICATION Spec
CONSTANTS
  Users = {alice}
  Requests = {r1}
  Ids = {i1, i2, i3}
  None = None
  PASSWORD_MAX_ATTEMPTS = 2
  AdminStatuses <- NoAdmin
  MaxWrong = 1
  MaxAges = 2
  MaxFaults = 0
SYMMETRY Symmetry
PROPERTIES
  SpentTokenNotAdmitted
  RevocationKept
