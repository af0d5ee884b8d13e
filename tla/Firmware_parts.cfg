SPECIFICATION Spec
CONSTANTS
  Second = 4
  Minute = 5
  Hour = 3
  TimestampLengths = {1, 7, 11}
  MsgIdLengths = {1, 11}
  Pages = {"index.html", "redconfig.html", "style.css", "app.js", "config2.json"}
  MaxReports = 4
INVARIANTS
  SeenOncePerHour
  NothingIsCut
  ReplyFits
  NothingLeaks
  StartIsSound
PROPERTIES
  PagesAreAnswered
  StartsSettle
  RefinesLossyChannel
  LastingConnectionWorks
  PageSettles
CHECK_DEADLOCK FALSE
