SPECIFICATION Spec
CONSTANTS
  Conn = {c1}
  Session = {s1}
  MaxInc = 2
  EventCap = 1
  MaxKill = 1
  MaxRestart = 1
  MaxWeek = 1
INVARIANT MetaMirrorsHost
INVARIANT ShownIsOnDisk
PROPERTY AliveStaysMapped
