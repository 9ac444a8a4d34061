SPECIFICATION FairSpec
CONSTANTS
  Options <- CommandLines
  FrameChunks = 2
  FadeChunks = 2
  MaxChunks = 2
  MaxSent = 2
  MaxRequests = 2
INVARIANTS
  TypeOK
  ExitOnRecord
PROPERTIES
  RoutesChangeCleanly
  CommandsTakeEffect
CHECK_DEADLOCK FALSE
