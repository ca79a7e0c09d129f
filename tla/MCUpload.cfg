CONSTANTS
  Clients = {c1, c2}
  Chunks <- OneByte
  Digests <- TwoBytes
  PartSize = 2
  Limit = 2
  MaxUploads = 1
  MultiPart = FALSE
  None = None
SPECIFICATION Spec
INVARIANT NothingElseLands
CHECK_DEADLOCK FALSE
