SPECIFICATION ReadersSpec
CONSTANTS
  NFiles = 2
  NTags = 2
  MaxLine = 7
  MaxPuts = 4
  MaxToks = 2
  Lengths <- WholeOrCut
  Databases <- MCDatabases
  Letter <- MCLetter
  GPATHs <- MCGPATHs
  Includes <- MCIncludes
  IncludeNames = {"a.h"}
  TagSet <- MCTagSet
  Abbreviations <- MCAbbreviations
  MaxLines = 2
  Projects <- MCProjects
  Dbs = {"GTAGS", "GRTAGS"}
  LastLine = 3
  Limit = 9
  Answers <- MCAnswers
  Screens = {2, 3}
  Texts <- MCTexts3
  Interested = {"{", "}", "=", ";"}
  Reserved <- MCReserved
  MAXTOKEN = 4
  Places <- MCPlaces
  Spellings <- MCSpellings
INVARIANTS Decides PrintedOnce ImagesRight IndexRight TagsKept PagesRight PageRight TokensRight NamesRight
PROPERTIES NoneSkipped PeekRight
CHECK_DEADLOCK FALSE
