SPECIFICATION FairSpec
CONSTANTS
  EXAMPLE_ESP_MAXIMUM_RETRY = 5
INVARIANTS
  AttemptsAreBounded
  IdleMeansGaveUp
PROPERTIES
  NoAttemptIsRefused
  GivesUpAfterAllRetries
  IniciarWifiReturns
CHECK_DEADLOCK FALSE
