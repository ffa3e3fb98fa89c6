SPECIFICATION Spec
CONSTANTS
  Char <- Letters
  Newline = "nl"
  BlockSize = 4
  Base = 3
  Places = 3
  MaxLength = 6
INVARIANT CutIsExact
INVARIANT TextComesBack
INVARIANT OthersAreKept
PROPERTY CuttingEnds
CHECK_DEADLOCK FALSE
