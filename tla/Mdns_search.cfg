SPECIFICATION SearchSpec
CONSTANTS
  Clients = {"c1", "c2"}
  Searches = {"s1", "s2"}
  Types = {"PTR", "TXT"}
  Records = {"PTR", "TXT"}
  Clean = TRUE
  Patient = TRUE
  Requested = {1}
  Byte = 4
  Responders = {"h1"}
  Interfaces = {"sta"}
  W = 16
  Start = 0
  Timeout = 1
  Horizon = 4
  QueueLen = 2
  MaxReceived = 2
INVARIANTS
  SearchesEndOnce
  OneKeepsResults
PROPERTIES
  QueriesReturnInTime
CHECK_DEADLOCK FALSE
