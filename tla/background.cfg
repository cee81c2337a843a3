SPECIFICATION Spec
CONSTANTS
  Workspaces = {w1, w2}
  Sessions = {s1, s2}
  Nothing = Nothing
  MaxHistory = 2
  MaxAsked = 4
  MaxFile = 5
  MaxSend = 3
  Scan = 2
  MaxChunk = 2
  MaxOutput = 9
  MaxWritten = 5
  MaxRead = 3
  MaxInput = 1
  Window = 2
  MaxErrors = 2
  MaxTime = 5
  MaxTyped = 1
  PlainModes = {"25"}
  OnByDefault = {"25"}
  MouseEvents = {"1000", "1002"}
  MouseFormats = {"1006"}
  Emitted <- EmittedModes
  Reads <- ModeReads
  MaxSeqLen = 12
  MaxStack = 2
  MaxReads = 8
  Paths <- AwkwardPaths
  Quoted <- QuotedPaths
  Order <- AwkwardOrder
  Versions = {1, 2}
  Messages <- OneMessage
  MaxChanges = 3
  MaxReadings = 2
CHECK_DEADLOCK FALSE
INVARIANT LosesOnlyMarkerPrefix
INVARIANT RehydrationRestores
INVARIANT ReplayIsTheTail
INVARIANT FileIsBounded
PROPERTY EndsOnlyInABurst
PROPERTY RegisteredIsPolled
PROPERTY ListsTheLiving
PROPERTY PanelCatchesUp
 
