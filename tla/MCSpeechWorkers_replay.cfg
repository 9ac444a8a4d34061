SPECIFICATION Spec
CONSTANTS
  NJobs = 1
  Pieces <- OnePiece
  Kinds <- OneStream
  BufferLimit = 1
  MaxFaults = 0
  MaxRestarts = 1
INVARIANT ClosedKeepsUnheard
\* The last start of the service may end.
CHECK_DEADLOCK FALSE
