\* One submission that any failure may hit, two seeded corpora and one
\* run of check_artifacts.
CONSTANTS
  Request = {r1}
  User = {u1}
  Admin = {}
  NoUser = NoUser
  NoRequest = NoRequest
  Version = {v1}
  Defect = {"metadata"}
  Faults = {"crash", "upload", "database", "commit_ack", "cleanup"}
  WorkerEnabled = FALSE
  Corpus = {c1, c2}
  Sample = c1
  MaxChecks = 1
SYMMETRY Interchangeable
SPECIFICATION AllSpec
INVARIANTS CheckTellsTruth LaterCopyRestoresWhole DrillProvesBackup
CHECK_DEADLOCK FALSE
