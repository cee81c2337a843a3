SPECIFICATION ScreenSpec
CONSTANTS
  MaxCols = 2
  Heights = {2}
  Chunks <- OneLetter
  LinkTargets = {}
  MaxCandidates = 1
  MaxReads = 3
  MaxScrolls = 0
PROPERTY PaintsTheContent
CHECK_DEADLOCK FALSE
