SPECIFICATION FairSpec
CONSTANTS
  NJobs = 2
  Pieces <- MCPieces
  Kinds <- MCKinds
  BufferLimit = 1
  MaxFaults = 1
  MaxRestarts = 1
INVARIANTS
  TypeOK
  RecordIsTrue
  CloseKeepsTasks
PROPERTIES
  HeardInOrder
  EndIsFinal
  ComesToRest
\* The last start of the service may end.
CHECK_DEADLOCK FALSE
