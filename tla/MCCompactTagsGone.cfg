SPECIFICATION Spec
CONSTANTS
  NFiles = 2
  NTags = 2
  MaxLine = 7
  MaxPuts = 2
  MaxToks = 2
  Lengths <- WholeOrGone
CHECK_DEADLOCK FALSE
INVARIANT ImagesRight
