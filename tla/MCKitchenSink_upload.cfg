\* One call of every method.  UploadMany refuses streams that did carry messages.
SPECIFICATION Spec
CONSTANTS
  a = a
  b = b
  c = c
  Empty = Empty
  Nil = Nil
  Messages <- MCMessages
  Unset <- MCUnset
  Needed <- MCNeeded
  Keys <- MCKeys
  MaxSend = 4
  Window = 1
INVARIANT
  RefusedOnlyWhenEmpty
\* A call ends: nothing more happens after its outcome.
CHECK_DEADLOCK FALSE
