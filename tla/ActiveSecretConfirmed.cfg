\* A setup after the enrolment.
SPECIFICATION Spec
CONSTANTS
  Requests = {r1}
  Secrets = {s1, s2}
  Challenges = {c1}
  None = None
  MaxFaults = 0
SYMMETRY Symmetry
INVARIANTS
  ActiveSecretConfirmed
