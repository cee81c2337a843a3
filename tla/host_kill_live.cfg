SPECIFICATION FairSpec
CONSTANTS
  Conn = {c1}
  Session = {s1}
  MaxInc = 2
  EventCap = 2
  MaxKill = 1
  MaxRestart = 0
  MaxWeek = 0
INVARIANT KilledLeavesNoScrollback
PROPERTY KillEndsSession
