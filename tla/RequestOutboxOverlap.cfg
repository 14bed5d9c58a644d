SPECIFICATION Spec
CONSTANTS
  Rows = {r1}
  Workers = {p1, p2, p3}
  MaxAttempts = 3
  Lease = 1
  PassLimit = 1
  MaxPass = 2
  MaxAborts = 1
  Ambiguous = TRUE
INVARIANTS OneCallPerAttempt
PROPERTIES OwnerWrites
