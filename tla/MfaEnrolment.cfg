\* Three requests race: setups, confirmations and logins; one call fails.
SPECIFICATION Spec
CONSTANTS
  Requests = {r1, r2, r3}
  Secrets = {s1, s2}
  Challenges = {c1}
  None = None
  MaxFaults = 1
SYMMETRY Symmetry
INVARIANTS
  TypeOK
  SecondFactorRequired
  ChallengeSpentOnce
PROPERTIES
  ReplayRefused
