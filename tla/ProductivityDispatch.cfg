SPECIFICATION Spec
CONSTANTS
  Reports = {r1, r2}
  Workers = {p1, p2}
  MaxAttempts = 3
  NoReport = NoReport
INVARIANTS
  TypeOK
  SentOnce
  RecordTrue
  SentIsRecorded
