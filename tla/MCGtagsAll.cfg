CONSTANTS
  Paths = {a, b}
  MaxFid = 3
  MaxEdits = 3
  MaxTime = 2
  MaxCrashes = 1
  MaxReconf = 2
  Concurrent = TRUE
  SingleUpdates = TRUE
  NoRec = NoRec
  NoFile = NoFile
  NoPath = NoPath
SPECIFICATION AllSpec
SYMMETRY Symmetry
INVARIANTS StalenessSeen OneVersion NoForeignTags TagsOwnedUndisturbed
