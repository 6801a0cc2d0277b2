\* One job, two workers, every kind of failure, four of them in a behaviour:
\* one more than the job has retries.
CONSTANTS
  Job = {j1}
  Worker = {w1, w2}
  Corpus = {c1, c2}
  NoJob = NoJob
  MaxRetries = 3
  Faults = {"transient", "permanent", "soft", "late_soft", "hard", "mark", "lost", "duplicate", "broker"}
  MaxFaults = 4
SPECIFICATION FairSpec
INVARIANTS OneReportPerCorpus VerdictHasReports ResultMatchesColumn
PROPERTIES EveryJobConcludes ReportsLikeTaskResult
CHECK_DEADLOCK FALSE
