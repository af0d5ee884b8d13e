SPECIFICATION Spec
CONSTANTS
  DhtReadings <- TwoReadings
  AdcRaw <- AroundThreshold
INVARIANTS
  TypeOK
  QuietReplyIsExact
  OneReadingPerReport
  AlarmAgreesWithSoil
PROPERTIES
  RefinesGreenhouse
