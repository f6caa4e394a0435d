CONSTANTS
  ByteBase = 2
  IntLimit = 16
  MaxFrame = 8
  MaxBody = 2
  Services <- MCServices
  Requests <- MCRequests
  ValidUTF8 <- MCValidUTF8
  UnmarshalJSON <- MCUnmarshalJSON
  ParseQuery <- MCParseQuery
  MultipartReader <- MCMultipartReader
  UnmarshalProto <- MCUnmarshalProto
SPECIFICATION Spec
INVARIANTS FramesWithinBounds TruncationIsExact FirstMessageOnly ParsedAlike
CHECK_DEADLOCK FALSE
