\* Three racing submissions while every part of the environment may fail.
CONSTANTS
  Request = {r1, r2, r3}
  User = {u1, u2}
  Admin = {u2}
  NoUser = NoUser
  NoRequest = NoRequest
  Version = {v1, v2}
  Defect = {"date", "metadata"}
  Faults = {"crash", "upload", "database", "commit_ack", "cleanup", "broker"}
  WorkerEnabled = TRUE
SYMMETRY Interchangeable
SPECIFICATION Spec
INVARIANTS TypeOK CounterExact OneRowPerVersion ClaimNeedsVersion VerdictIsTrue JobsHaveRows RowsHaveArtifacts StorageMatchesDb
PROPERTY ImplementsRegistry
CHECK_DEADLOCK FALSE
