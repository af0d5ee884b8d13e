SPECIFICATION FairSpec
CONSTANTS
  DhtReadings <- OneReading
  AdcRaw <- DryAndWet
PROPERTIES
  ValveIsReported
