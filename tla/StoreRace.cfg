SPECIFICATION Spec
CONSTANTS
  n1 = n1
  n2 = n2
  n3 = n3
  f1 = f1
  f2 = f2
  Thread = {"console", "marta"}
  Node = {n1, n2, n3}
  Known = {n1, n2, n3}
  BlocksCount = 2
  File = {f1, f2}
  Blocks <- OneEach
  Copies = 2
  MaxFaults = 0
  MaxMoves = 0
  NewNodes = {}
INVARIANT StoredFilesAreIntact
SYMMETRY AllAlike
