SPECIFICATION Spec
CONSTANTS
  Conn = {c1, c2}
  Session = {s1}
  MaxInc = 2
  EventCap = 1
  MaxKill = 1
  MaxRestart = 0
  MaxWeek = 0
SYMMETRY ConnSymmetry
INVARIANT HostInv
INVARIANT TypesWhereItReads
