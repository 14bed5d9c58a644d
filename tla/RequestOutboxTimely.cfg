SPECIFICATION FairSpec
CONSTANTS
  Rows = {r1, r2}
  Workers = {p1, p2}
  MaxAttempts = 2
  Lease = 1
  PassLimit = 2
  MaxPass = 1
  MaxAborts = 1
  Ambiguous = FALSE
INVARIANTS SendsOnce
PROPERTIES EveryRowSettles
