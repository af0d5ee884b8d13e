SPECIFICATION Spec
CONSTANTS
  DhtReadings <- OneReading
  AdcRaw <- DryAndWet
INVARIANTS
  ReplyIsWholeJson
