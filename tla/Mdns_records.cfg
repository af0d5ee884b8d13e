SPECIFICATION RecordsSpec
CONSTANTS
  Clients = {"c1", "c2"}
  Adders = {"c1"}
  Careful = TRUE
  Prompt = TRUE
  Ops = {"PORT_SET", "TXT_REPLACE", "TXT_SET", "SUBTYPE_ADD", "DEL", "CLEAR"}
  Items = {"i1", "i2", "i3"}
  Types = {"http"}
  Instances = {"a", "b", "c"}
  Default = "a"
  Values = {"v1"}
  Keys = {"k"}
  Subtypes = {"print"}
  MaxServices = 2
  QueueLen = 2
  MaxCalls = 5
  HostClients = {"c1", "c2"}
  Setters = {"c1"}
  Names = {"n", "m"}
  Separate = TRUE
  Disputed = FALSE
  Settled = TRUE
  Addresses = {1, 2}
  HostQueueLen = 3
  MaxHosted = 2
  MaxHostCalls = 4
INVARIANTS
  ItemsAreOwned
  ListIsAsCalled
  ServicesHaveHosts
PROPERTIES
  CallsReturn
CHECK_DEADLOCK FALSE
