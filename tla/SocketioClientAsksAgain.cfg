SPECIFICATION FairSpec
CONSTANTS
  ServerIntervals = {25, Missing}
  ServerTimeouts = {5, 25, Missing}
  Missing = Missing
  Rtt = 2
PROPERTY AsksAgain
CHECK_DEADLOCK FALSE
