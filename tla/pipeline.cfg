\* Two submissions and one worker, fewer failures of a run than it has retries.
CONSTANTS
  Job = {r1, r2}
  User = {u1}
  Admin = {}
  NoUser = NoUser
  NoRequest = NoRequest
  Version = {v1}
  Defect = {}
  SubmitFaults = {"crash", "database", "commit_ack", "broker"}
  Worker = {w1}
  Corpus = {c1}
  NoJob = NoJob
  MaxRetries = 3
  Faults = {"transient", "permanent", "soft", "lost"}
  MaxFaults = 1
SPECIFICATION FairPipelineSpec
PROPERTIES EveryHandlerEnds AcknowledgedIsChecked
CHECK_DEADLOCK FALSE
