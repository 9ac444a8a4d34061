SPECIFICATION FairSpec
CONSTANTS
  Clients = {c1, c2}
  NoClient = NoClient
  RingCapacity = 2
  MaxFrames = 4
  MaxSessions = 2
  MaxRoutes = 2
INVARIANTS
  TypeOK
  OwnVoiceOnly
  MutedIsSilent
  NothingRuns
PROPERTY NobodySleepsForever
\* Nobody has to start another session.
CHECK_DEADLOCK FALSE
