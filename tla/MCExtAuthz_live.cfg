CONSTANTS
  h = h
  Requests = {r1, r2}
  Values = {h}
  Decisions <- TwoDecisions
  MaxCommits = 1
  Preparable = {0, 1}
  Faults <- SomeFaults
  DryRun = TRUE
  LoggerConfigured = TRUE
  EnablePerformanceMetrics = FALSE
SPECIFICATION FairSpec
INVARIANTS AnswersAreLogged
PROPERTIES EveryCheckReturns CommitCompletes
CHECK_DEADLOCK FALSE
