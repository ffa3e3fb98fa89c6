SPECIFICATION Spec
CONSTANTS
  Jobs = {j1, j2}
  Others = {o}
  Silents = {s}
  Temps = {t}
  Width = 2
  NoClient = NoClient
  MaxNames = 1
  MaxTime = 1
  MaxLost = 1
  j1 = j1
  j2 = j2
  o = o
  s = s
  t = t
INVARIANT NamesTellApart
 
PROPERTY EveryJobIsTaken
