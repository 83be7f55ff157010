SPECIFICATION BuildSpec
CONSTANTS
  MaxTermLen = 2
  MaxDigitRun = 1
  Wide <- NoLetters
  Digits <- NoLetters
  Block = 128
  MaxExceptions = 12
  PositionGroup = 128
  FieldCount = 2
  FieldGap = 3
  Records <- AllAlike
  MaxRecords = 128
  DocsPerSegment = 128
  MergeLimit = 3
  MaxMerges = 0
CHECK_DEADLOCK FALSE
INVARIANT ListsReadBack
