\* One call of every method.  Four messages are one more than the two windows
\* and the handler hold, so that everyone can be waiting for the client.
SPECIFICATION Spec
CONSTANTS
  a = a
  b = b
  c = c
  Empty = Empty
  Nil = Nil
  Messages <- MCMessages
  Unset <- MCUnset
  Needed <- MCNeeded
  Keys <- MCKeys
  MaxSend = 4
  Window = 1
INVARIANTS
  RepliesAreExact
  OKMeansAllRead
PROPERTY
  CallEnds
\* A call ends: nothing more happens after its outcome.
CHECK_DEADLOCK FALSE
