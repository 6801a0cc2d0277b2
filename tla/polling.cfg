\* One check of the command line and two of the page, with two polls at once.
CONSTANTS
  Job = {j0, j1, j2}
  CliJob = j0
  NoJob = NoJob
  Poll = {p1, p2}
  Cli = cli
  MaxAttempts = 2
  MaxOutages = 1
SPECIFICATION FairSpec
INVARIANTS CliTellsTruth PageShowsItsJob
PROPERTY CliEnds
CHECK_DEADLOCK FALSE
