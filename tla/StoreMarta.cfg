SPECIFICATION Spec
CONSTANTS
  n1 = n1
  n2 = n2
  n3 = n3
  f1 = f1
  f2 = f2
  Thread = {"console", "marta"}
  Node = {n1, n2}
  Known = {n1, n2}
  BlocksCount = 2
  File = {f1}
  Blocks <- OneBlock
  Copies = 1
  MaxFaults = 0
  MaxMoves = 1
  NewNodes = {n1, n2}
INVARIANT CopiesInDifferentNodes
SYMMETRY TwoAlike
