SPECIFICATION Spec
CONSTANTS
  c1 = c1
  c2 = c2
  b1 = b1
  b2 = b2
  none = none
  Thread = {"console"}
  Conn = {c1, c2}
  Block = {b1, b2}
  NoConn = none
  NoBlock = none
  MaxMoves = 2
  MaxWire = 1
CONSTRAINT Followed
INVARIANT FreedAreForgotten
INVARIANT BlocksKeepTheirData
INVARIANT AnswersAreAwaited
PROPERTY EveryExchangeEnds
PROPERTY BrokenIsNoticed
