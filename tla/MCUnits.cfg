SPECIFICATION UnitsSpec
CONSTANTS
  Paths = {a, b}
  MaxFid = 4
  MaxOpen = 2
  NoRec = NoRec
  NoFile = NoFile
  LONG_BIT = 3
  MaxSize = 8
  END_OF_ID = 15
  Vals = {v1, v2}
  Hole = Hole
  MaxCache = 1
  MaxPages = 3
  MaxBufs = 3
  MaxHeld = 2
  MAXPIFSTACK = 3
  MaxDepth = 3
  MaxConds = 1
  Yaccs = {TRUE, FALSE}
  Items <- MCItems
  Statements <- MCStatements
  Lines <- MCLines
  Heads <- MCHeads
  Blocks <- MCBlocks
  Rules <- MCRules
  MAXCLASSSTACK = 3
  CppItems <- MCCppItems
  MemberItems <- MCMembers
  CppHeads <- MCCppHeads
  MemberHeads <- MCMemberHeads
  CppDepth = 3
  JavaItems <- MCJavaItems
  JavaStatements <- MCJavaStatements
  JavaHeads <- MCJavaHeads
  TagNames <- MCTagNames
  Segments <- MCSegments
  Requests <- MCRequests
  MaxReads = 2
  Patterns <- MCPatterns
  Texts <- MCTexts
  Options <- MCOptions
  allowed_nest_level = 3
  Folded <- MCFolded
  ConfFields <- MCConfFields
  ConfFiles <- MCConfFiles
  GivenConfs <- MCGivenConfs
  DEFAULTLANGMAP <- MCDefaultMap
  DEFAULTSKIP = "skipped"
  Worlds <- MCWorlds
  Queries <- MCQueries
  LowerCase <- MCLowerCase
  UpperCase <- MCUpperCase
INVARIANTS QueueMatches NoInternalError LevelIsDepth DefinitionsFound ClassesRight AnswerRight LiteralsFound SettingsRight SourcesHaveParsers QueryRight
PROPERTIES IsFileTable IsPageStore IsIdCursor
CHECK_DEADLOCK FALSE
