SPECIFICATION Spec
CONSTANTS
  App = {a1, a2}
  Daemon = {d1, d2, d3}
  MaxCrash = 0
  MaxShutdown = 1
  MaxSlow = 0
CHECK_DEADLOCK FALSE
INVARIANT ServingIsReachable
