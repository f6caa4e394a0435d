CONSTANTS
  h = h
  Requests = {r1, r2}
  Values = {h}
  Decisions <- OneDecision
  MaxCommits = 1
  Preparable = {0}
  Faults <- NoFaults
  DryRun = FALSE
  LoggerConfigured = TRUE
  EnablePerformanceMetrics = TRUE
SYMMETRY Symmetry
SPECIFICATION Spec
INVARIANTS EvalFailureIsReturned
