SPECIFICATION FairSpec
CONSTANTS
  Encoders = {e1, e2}
  MaxPictures = 3
  e1 = e1
  e2 = e2
INVARIANTS
  TypeOK
  
PROPERTIES
  NeverBackward
  QuietForEver
  CaptureEnds
  PictureArrives
CHECK_DEADLOCK FALSE
