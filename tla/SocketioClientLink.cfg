SPECIFICATION FairSpec
CONSTANTS
  ServerIntervals = {25, Missing}
  ServerTimeouts = {5, 25, Missing}
  Missing = Missing
  Rtt = 2
INVARIANT SendsAreSafe
INVARIANT RetryArmed
INVARIANT LiveLinkKept
 
PROPERTY DeadLinkDetected
CHECK_DEADLOCK FALSE
