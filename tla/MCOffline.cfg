SPECIFICATION OfflineSpec
CONSTANTS
  Capacity = 8
  BlockTarget = 2
  RecordSizes = {1, 2}
  BodySizes = {1, 9}
  MaxDocs = 4
  MaxCrawls = 2
  Dirs = {d1, d2, d3, d4}
  NoDir = none
  MaxSegments = 2
  MaxBuilds = 4
  LastCrawl = 2
  MaxTermLen = 2
  MaxDigitRun = 1
  Wide <- NoLetters
  Digits <- NoLetters
  Block = 2
  MaxExceptions = 1
  PositionGroup = 2
  FieldCount = 2
  FieldGap = 3
  Records <- Pages
  MaxRecords = 4
  DocsPerSegment = 2
  MergeLimit = 3
  MaxMerges = 2
SYMMETRY Alike
CHECK_DEADLOCK FALSE

INVARIANTS
  NeverMisread
  SummaryVouches
  WalkAgrees
  FinishedIsWhole
  HalfBuiltIsRefused
  PairMatches
  ListsReadBack
  IndexIsTheCrawls
  MergesAreFaithful
