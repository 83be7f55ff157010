CONSTANTS
  Clients = {c1, c2, c3}
  NoClient = NoClient
  MaxConcurrentSearches = 2

SPECIFICATION ServerSpec

PROPERTIES
  OnePanicOneRequest
