SPECIFICATION Spec
CONSTANTS
  MaxBytes = 3
  Parseable <- TextTypes
  NoType = ""
  Malformed <- Nowhere
  MaxGrade = 3
  RelevantAt = 2
  Discount <- Discounts
  ScoredFields <- BodyAndTitle
  Unit = 1000
  K1 = 1200
  B <- Bs
  FieldWeight <- Weighing
  Average <- Averages
  Documents = 3
  ProximityWeight = 600
  AuthorityWeight = 300
  QualityWeight = 400
  Log <- Logarithm
  MaxTermLen = 2
  MaxDigitRun = 2
  Wide <- WideLetters
  Digits <- NoNames
  SiteWord <- TheWordSite
  MinLength = 2
  Preferred = 8
  Token <- Us
  MaxDelay = 5
  Droppable <- Sessions
  Skipped <- NoNames
  OneLetter <- OneLetterNames
  BadYears <- NoNames
  MaxUrlLen = 2
  MaxPathSegments = 3
  MaxQueryParams = 2
  MaxSegmentRepeats = 1
  Less <- PairLess
  Spelling <- Spellings
  MinWords = 2
  TagCost = 1
  Parts <- AllParts
  MaxParts <- Sizes
CHECK_DEADLOCK FALSE

INVARIANTS
  RobotsAreHonoured
  PagesHaveOneKey
  PagesReadAsWritten
  QueriesReadAsTyped
  SnippetsAreTrue
  ScoresAreSound
  MeasuresAreFair
