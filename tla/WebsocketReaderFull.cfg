SPECIFICATION FairSpec
CONSTANTS
  Streams <- MCStreams
INVARIANTS
  NotHeldBack
  DroppedBehindPing
  
  TerminatedByCut
PROPERTIES
  ImplementsChannel
  
  AllArrive
CHECK_DEADLOCK FALSE
