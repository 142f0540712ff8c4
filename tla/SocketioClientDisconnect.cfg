SPECIFICATION Spec
CONSTANTS
  ServerIntervals = {25, Missing}
  ServerTimeouts = {5, 25, Missing}
  Missing = Missing
  Rtt = 2
INVARIANT NoSelfDeadlock
CHECK_DEADLOCK FALSE
