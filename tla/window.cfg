SPECIFICATION Spec
CONSTANTS
  Sessions = {s1, s2}
  MaxGiven = 4
  Tabs = {t1, t2}
  Workspaces = {w1, w2}
  Saved <- OneSavedTab
  MaxSession = 2
  MaxEpoch = 2
  MaxAttaches = 2
  None = None
  Sizes = {1, 2, 3}
  MaxMoves = 3
  MaxLosses = 1
  Pause = 2
  Fade = 3
  MaxNow = 5
  MaxHandles = 3
  MaxChunks = 3
  MaxBatch = 2
  PaneWorkspaces = {w1, w2}
  MaxPanes = 5
  MaxTabs = 2
  NoPane = NoPane
  Projects = {p1}
  Names = {n1}
  Nothing = Nothing
  Absent = Absent
  Torn = Torn
  User = user
  ProjectPaths = {p1}
  Values = {1}
  MaxTime = 3
  NoEdit = NoEdit
  Files <- OneLetterLines
  EditorLetters = {3}
  MaxBuffer = 2
  Calls = {c1, c2}
  Capacity = 1
  ClientCapacity = 1
  StallLimit = 1
  MaxOutput = 4
  MaxExits = 1
  Letters = {4}
  MaxText = 2
  MaxCols = 3
  Heights = {1, 2}
  Chunks <- Printouts
  LinkTargets = {"u1", "u2"}
  MaxCandidates = 3
  MaxReads = 3
  MaxScrolls = 2
SYMMETRY CallsAreAlike
CHECK_DEADLOCK FALSE
INVARIANT OnlyDroppedIsMissing
INVARIANT GapsAreShort
INVARIANT CopiesWhatWasPrinted
INVARIANT SlicesBetweenCharacters
INVARIANT SizesAgreeWhenQuiet
INVARIANT NoStuckButton
INVARIANT ShowsOneAttachInOrder
INVARIANT NoLeftoverAttach
INVARIANT SavedIsKept
INVARIANT SelectionIsInTheText
INVARIANT InEffect
PROPERTY KeepsOrder
PROPERTY TimersDoNotPileUp
PROPERTY PanesWithTabsStay
PROPERTY OpensItsTarget
