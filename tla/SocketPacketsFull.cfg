SPECIFICATION FairSpec
CONSTANTS
  Loop = Loop
  signaling = signaling
  rest = rest
  Others = {signaling, rest}
  Emits <- MCEmits
  NoPacket = NoPacket
INVARIANTS
  SentOnce
  
  OvertakenInHand
  StrandedOnlyLate
  DanglingOnlyIfStale

  
CHECK_DEADLOCK FALSE
