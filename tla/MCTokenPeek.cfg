SPECIFICATION TokenSpec
CONSTANTS
  Texts <- MCTexts
  Interested = {"{", "}", "=", ";"}
  Reserved <- MCReserved
  MAXTOKEN = 4
INVARIANT TokensAfterPeek
CHECK_DEADLOCK FALSE
