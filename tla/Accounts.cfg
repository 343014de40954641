\* Two requests, one telephone line, two passwords, a pool of one
\* connection or of two.  No symmetry: liveness is checked.
SPECIFICATION FairSpec
CONSTANTS
  Requests = {r1, r2}
  Ids = {u1, u2}
  Lines = {line}
  Passwords = {p1, p2}
  None = None
  PoolSizes = {1, 2}
INVARIANTS
  TypeOK
  OneUserPerLine
  VerifiedTold
  TextedRegistered
PROPERTIES
  UnitOfWork
  EveryRequestAnswered
