SPECIFICATION Spec
CONSTANTS
  j1 = j1
  j2 = j2
  c1 = c1
  c2 = c2
  c3 = c3
  none = none
  Job = {j1, j2}
  Conn = {c1, c2, c3}
  NoConn = none
  MaxBreaks = 2
CONSTRAINT Followed
PROPERTY ServiceSpec
CHECK_DEADLOCK FALSE
PROPERTY EveryAskEnds
