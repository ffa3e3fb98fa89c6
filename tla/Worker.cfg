SPECIFICATION Spec
CONSTANTS
  n1 = n1
  n2 = n2
  m1 = m1
  m2 = m2
  m3 = m3
  p1 = p1
  p2 = p2
  p3 = p3
  f = f
  Node = {n1, n2}
  Order = {m1, m2, m3, p1, p2, p3, f}
  At <- JobAt
  Inputs <- JobInputs
  After <- JobAfter
  Sizes = {"page"}
  MaxDeaths = 1
  MaxRefusals = 2
  NoOrder = NoOrder
  NoNode = NoNode
  Garbage = Garbage
INVARIANT PacketsAreWhole
INVARIANT OkJoinsEveryPart
 
PROPERTY EveryOrderAnswered
