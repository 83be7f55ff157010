SPECIFICATION CorpusSpec
CONSTANTS
  Blocks = 3
  BlockBits = 2
  Threshold = 2
  Shingle = 2
  HashOf <- Hashes
  Labels <- HostLabels
  Ordinary <- OrdinaryRules
  Wildcard <- WildcardRules
  Exception <- ExceptionRules
  Addresses <- NoHosts
  Tidy <- Tidying
  Chars <- Lengths
  PhraseBytes <- ByteLengths
  MaxPhrases = 2
  MaxPhraseChars = 5
  MaxTotalChars = 5
  Degrees = 6
  Rounds = 3
  Pages <- Web
  MaxPages = 4
  Seeds <- SeedLists
CHECK_DEADLOCK FALSE

INVARIANTS
  DuplicatesAreFound
  StoredAsPermitted
  VotesAreFair
  NamesAreOthers
  AuthorityIsEarned
