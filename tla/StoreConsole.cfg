SPECIFICATION Spec
CONSTANTS
  n1 = n1
  n2 = n2
  n3 = n3
  f1 = f1
  f2 = f2
  Thread = {"console"}
  Node = {n1, n2, n3}
  Known = {n1, n2}
  BlocksCount = 2
  File = {f1}
  Blocks <- TwoBlocks
  Copies = 2
  MaxFaults = 1
  MaxMoves = 1
  NewNodes = {}
INVARIANT TypeOK
INVARIANT NoSharedPlace
INVARIANT UsedAreReferenced
INVARIANT DeathsSpoilOneCopy
INVARIANT OnlyDeathsSpoil
SYMMETRY TwoAlike
