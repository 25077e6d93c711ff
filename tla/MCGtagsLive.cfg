CONSTANTS
  Paths = {a, b}
  MaxFid = 3
  MaxEdits = 2
  MaxTime = 2
  MaxCrashes = 0
  MaxReconf = 0
  Concurrent = TRUE
  SingleUpdates = FALSE
  NoRec = NoRec
  NoFile = NoFile
  NoPath = NoPath
SPECIFICATION FairSpec
PROPERTY CatchesUp
