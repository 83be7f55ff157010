SPECIFICATION OnlineSpec
CONSTANTS
  h1 = h1
  h2 = h2
  a = a
  b = b
  b2 = b2
  e = e
  c = c
  d = d
  t1 = t1
  t2 = t2
  None = None
  Urls <- MCUrls
  Hosts <- MCHosts
  HostOf <- MCHostOf
  KeyOf <- MCKeyOf
  Refused = {}
  MaxDepth = 2
  MaxPagesPerHost = 3
  DefaultDelay = 2
  CrawlDelays = {0, 3}
  Tasks <- MCTasks
  Seeds = {a, c}
  MaxPages = 3
  RobotsOf <- WideRobots
  Web <- WideWeb
  Brittle = {h1}
  Horizon = 3
  Clients = {c1, c2, c3}
  NoClient = NoClient
  MaxConcurrentSearches = 2
  s1 = s1
  s2 = s2
  x = x
  y = y
  NoValue = NoValue
  HostNames = {s1, s2}
  Terms <- MCTerms
  Indexes <- MCIndexes
  Queries <- MCQueries
  Limits = {1, 2}
  Depths = {NoValue, 1}
  Bonus <- MCBonus

INVARIANTS
  RobotsObeyed
  BlockedIsSilent
  Unrepeated
  NothingLost
  QueuedIsExact
  SettleInv
  EndIsJustified
  PermitsExact
  WalkIsExact
  AllMatchesCount
  PageIsExact

PROPERTIES
  Polite
  CrawlDelaySettles
  ImplementsPoliteCrawl
  CrawlEnds
  ShedOnlyWhenFull
  Drains
  WalkEnds
