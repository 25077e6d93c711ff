SPECIFICATION Spec
CONSTANTS
  Full = 16
  Overhead = 1
  OvflSize = 5
  DatLen <- SharedDatLen
  Keys <- SharedKeys
  Fids = {1, 2}
  Tags <- SharedTags
  MetaKey <- MCMetaKey
  MetaDat = 0
  Heads = {}
  Kinds = {FALSE}
  Sorts = {TRUE}
  MaxWrites = 7
  MaxSessions = 2
  Strays = TRUE
INVARIANTS ReadsRight
CHECK_DEADLOCK FALSE
