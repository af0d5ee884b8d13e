SPECIFICATION OneOfThem
CONSTANTS
  Services = {"v"}
  Hosts = {"h"}
  Searches = {"s"}
  Packets = {"p", "q"}
  Received = {"r"}
  QueueLen = 4
  Reserve = 2
  Prompt = TRUE
  Calm = TRUE
  Settled = TRUE
  StartFails = FALSE
INVARIANTS
  DestroyedIsUnused
  EachIsFreedOnce
  OnlyNamedTwice
PROPERTIES
  StoppingEnds
CHECK_DEADLOCK FALSE
