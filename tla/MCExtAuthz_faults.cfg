CONSTANTS
  h = h
  Requests = {r1, r2}
  Values = {h}
  Decisions <- MCDecisions
  MaxCommits = 2
  Preparable = {0, 2}
  Faults <- AllFaults
  DryRun = FALSE
  LoggerConfigured = TRUE
  EnablePerformanceMetrics = TRUE
SYMMETRY Symmetry
SPECIFICATION Spec
INVARIANTS TypeOK Coherent OneSnapshot NoDataRace FailClosed AnswersAreLogged CountersAreExact
PROPERTIES WritersExcludeReaders ImplementsService
