\* Two users submit different versions of an unclaimed benchmark.
CONSTANTS
  Request = {r1, r2}
  User = {u1, u2}
  Admin = {}
  NoUser = NoUser
  NoRequest = NoRequest
  Version = {v1, v2}
  Defect = {}
  Faults = {}
  WorkerEnabled = TRUE
SPECIFICATION Spec
INVARIANTS OnlyOwnerSubmits
CHECK_DEADLOCK FALSE
