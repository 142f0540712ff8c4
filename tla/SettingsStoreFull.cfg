SPECIFICATION FairSpec
CONSTANTS
  Cameras = {c1}
  Threads = {t1, t2}
  NotAnObject = NotAnObject
  Nobody = Nobody
INVARIANTS
  FileIsCurrent
  
  UnclosedIsReported
PROPERTIES
  RestartKeeps
  
  Answered
