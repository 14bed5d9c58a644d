SPECIFICATION Spec
CONSTANTS
  Rows = {r1}
  Workers = {p1, p2}
  MaxAttempts = 2
  Lease = 1
  PassLimit = 2
  MaxPass = 2
  MaxAborts = 0
  Ambiguous = FALSE
INVARIANTS SendsOnce
