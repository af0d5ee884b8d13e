SPECIFICATION HostsFairSpec
CONSTANTS
  HostClients = {"c1", "c2"}
  Setters = {"c1", "c2"}
  Names = {"n", "m"}
  Separate = TRUE
  Disputed = FALSE
  Settled = TRUE
  Addresses = {1, 2}
  HostQueueLen = 4
  MaxHosted = 2
  MaxHostCalls = 4
PROPERTIES
  SettersReturn
CHECK_DEADLOCK FALSE
