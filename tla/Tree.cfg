SPECIFICATION Spec
CONSTANTS
  Name <- Names
  NameLength <- Lengths
  Path <- Paths
  ResultPath <- Results1
  MaxPrompt = 7
  MaxDirs = 2
  MaxFiles = 1
INVARIANT TypeOK
INVARIANT PromptTellsWhere
INVARIANT CrashesNeedMoves
PROPERTY RemovalIsExact
PROPERTY NothingGetsLost
PROPERTY EveryRemovalEnds
