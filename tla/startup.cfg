SPECIFICATION StartupSpec
CONSTANTS
  App = {a1, a2}
  Daemon = {d1, d2, d3}
  MaxCrash = 2
  MaxShutdown = 2
  MaxSlow = 1
CHECK_DEADLOCK FALSE
INVARIANT ServingIsReachable
INVARIANT StartsAlone
PROPERTY LostIsFoundAgain
