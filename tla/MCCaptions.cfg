SPECIFICATION FairSpec
CONSTANTS
  MaxFinals = 2
  MaxLives = 2
  Restarts = {TRUE}
  QueueLimit = 1
  RefineLimit = 1
  MaxNews = 2
INVARIANTS
  TypeOK
  OwnWords
  NothingForgotten
PROPERTIES
  UpdatesInOrder
  ComesToAnEnd
\* A bridge that has ended may stay so.
CHECK_DEADLOCK FALSE
