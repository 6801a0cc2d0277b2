\* Overlapping attempts while Redis, the handler and the process fail, read
\* through a cache whose entries are fresh for one tick.
CONSTANTS
  Attempt = {a1, a2, a3}
  NoResponse = NoResponse
  Faults = {"redis", "handler", "crash", "expire"}
  MaxAge = 1
SYMMETRY Interchangeable
SPECIFICATION AllSpec
INVARIANTS ReplayIsTrue AcknowledgedWriteIsOnce ReplaysAgree SharedIsRecent
CHECK_DEADLOCK FALSE
