SPECIFICATION OneOfThem
CONSTANTS
  Packets = {"p1", "p2", "p3"}
  Senders = {"sta", "ap"}
  Delays = {0, 1, 2}
  W = 16
  Start = 0
  Horizon = 4
  QueueLen = 2
  MaxReceived = 4
  Services = {"http", "mqtt"}
  WithInstance = {"http", "mqtt"}
  Pcbs = {"v4"}
  Duplicates = FALSE
  MaxCalls = 7
  MaxAnswers = 2
INVARIANTS
  PacketsAreHandled
  NamesAreProbed
  RemovedIsNotMentioned
PROPERTIES
  PacketsGoOutOnTime
  PcbsSettle
CHECK_DEADLOCK FALSE
