SPECIFICATION FairSpec
CONSTANTS
  NUM_OF_CACHED_SEGMENTS = 2
  BufferSize = 2
  SegmentSizes = {0, 2}
  MaxSegments = 3
  MaxSeeks = 1
  ConnectionFails = TRUE
  SeekResults = {TRUE, FALSE}
INVARIANTS InOrder WriteIndexValid EosIsLast TaskRuns
PROPERTIES ControlReturns PlaysToTheEnd
CHECK_DEADLOCK FALSE
