CONSTANTS
  h1 = h1
  h2 = h2
  a = a
  b = b
  b2 = b2
  e = e
  c = c
  d = d
  t1 = t1
  t2 = t2
  None = None
  Urls <- MCUrls
  Hosts <- MCHosts
  HostOf <- MCHostOf
  KeyOf <- MCKeyOf
  Refused = {}
  MaxDepth = 2
  MaxPagesPerHost = 3
  DefaultDelay = 2
  CrawlDelays = {0, 3}
  Tasks <- MCTasks
  Seeds = {b}
  MaxPages = 3
  RobotsOf <- PlainRobots
  Web <- MovedWeb
  Brittle = {}
  Horizon = 3

SPECIFICATION Spec

PROPERTIES
  RedirectsRequeued
