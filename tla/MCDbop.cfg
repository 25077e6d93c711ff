SPECIFICATION Spec
CONSTANTS
  Full = 16
  Overhead = 3
  OvflSize = 5
  DatLen <- MCDatLen
  Keys <- MCKeys
  Fids = {1, 2}
  Tags <- MCTags
  MetaKey <- MCMetaKey
  MetaDat = 0
  Heads <- MCHeads
  Kinds = {TRUE, FALSE}
  Sorts = {TRUE, FALSE}
  MaxWrites = 5
  MaxSessions = 2
  Strays = FALSE
INVARIANTS TypeOK ReadsRight InOrder PagesAccounted
PROPERTY IsTagFile
CHECK_DEADLOCK FALSE
