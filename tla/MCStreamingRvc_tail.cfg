SPECIFICATION Spec
CONSTANTS
  Hop = 2
  Window = 3
  Lookahead = 1
  RingCapacity = 7
  OutCapacity = 5
  Reserve = 2
  Delay = 1
  Profiles = {"sliding", "upstream", "full"}
  MaxStreams = 2
  MaxFrames = 15
INVARIANT FreshTail
\* The input may end.
CHECK_DEADLOCK FALSE
