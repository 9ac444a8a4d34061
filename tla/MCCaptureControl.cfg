SPECIFICATION Spec
CONSTANTS
  Calls = {c1, c2}
  Hands = {}
  Stops = {s1}
  Pids = {1, 2}
  MaxStarts = 3
SYMMETRY Alike
INVARIANTS
  TypeOK
  NeverKillsAnother
  OrderAtRest
\* Every script is run once.
CHECK_DEADLOCK FALSE
