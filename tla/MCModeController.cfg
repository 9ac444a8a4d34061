SPECIFICATION FairSpec
CONSTANTS
  Jobs = {j1, j2}
  NoJob = NoJob
  Models = {m1, m2}
  NoModel = NoModel
  Parameters = {p1}
  Routings = {r1}
  MaxQueueDepth = 2
INVARIANTS
  TypeOK
  ModeIsHonest
  ConversionIsOwn
PROPERTIES
  JobsKeepTheirFiles
  RequestsResolve
  LeaseSpec
\* After the destructor nothing happens any more.
CHECK_DEADLOCK FALSE
