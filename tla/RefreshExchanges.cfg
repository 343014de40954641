\* One client refreshes and nothing fails; fairness is assumed.
SPECIFICATION FairSpec
CONSTANTS
  Users = {alice}
  Requests = {r1}
  Ids = {i1, i2}
  None = None
  PASSWORD_MAX_ATTEMPTS = 2
  AdminStatuses <- NoAdmin
  MaxWrong = 0
  MaxAges = 0
  MaxFaults = 0
PROPERTIES
  RefreshExchanges
