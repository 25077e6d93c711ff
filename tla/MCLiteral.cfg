SPECIFICATION LiteralSpec
CONSTANTS
  Patterns <- MCPatterns
  Texts <- MCTexts
  Options = {{}}
  Folded <- MCFolded
INVARIANT AllFound
CHECK_DEADLOCK FALSE
