CONSTANTS
  a1 = a1
  a2 = a2
  b = b
  u = u
  w = w
  NotString = NotString
  Values = {h}
  Keys = {a1, a2, b}
  Strings = {u, w}
  Canonical <- MCCanonical
  Documents <- MCDocuments
SPECIFICATION MCSpec
INVARIANTS
  VerdictMatchesBody UnusedKeysIgnored VersionsAgree DryRunIsTheOnlyOverride
  ErrorIsDeterministic HeadersArePreserved OrderIsKept
\* The program ends with the answer.
CHECK_DEADLOCK FALSE
