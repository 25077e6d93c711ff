SPECIFICATION Spec
CONSTANTS
  R = R
  D = D
  E = E
  U = U
  a = a
  b = b
  c = c
  File = File
  Nothing = Nothing
  NoPath = NoPath
  Dirs <- MCDirs
  Root = R
  Above <- MCAbove
  Names <- MCNames
  Trees <- MCTrees
  SkipFiles = {c}
  SkipDirs = {c}
  SkipPaths <- MCSkipPaths
  SkipTrees <- MCSkipTrees
  Suffixed = {a}
  Lists <- MCLists
  Edited <- MCEdited
  MaxEdits = 2
CHECK_DEADLOCK FALSE
INVARIANTS FoundAll QuietExact DiesOnlyOfEdits NestingBound
PROPERTIES FilesOnce Terminates
