SPECIFICATION Spec
CONSTANTS
  j1 = j1
  j2 = j2
  n1 = n1
  n2 = n2
  n3 = n3
  b1 = b1
  b2 = b2
  b3 = b3
  m1 = m1
  m2 = m2
  m3 = m3
  f1 = f1
  f2 = f2
  Job = {j1}
  Combiner = {}
  Node = {n1, n2, n3}
  Block = {b1, b2, b3}
  Map = {m1, m2, m3}
  File = {f1, f2}
  JobOf <- SoloJobOf
  FileOf <- SoloFileOf
  BlockOf <- SoloBlockOf
  Holders <- SoloHolders
  MaxFaults = 2
  NoMap = NoMap
  NoNode = NoNode
INVARIANT TypeOK
INVARIANT OkCoversFiles
PROPERTY EveryJobEnds
