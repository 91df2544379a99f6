SPECIFICATION FairSpec
CONSTANTS
  NUM_OF_CACHED_SEGMENTS = 2
  BufferSize = 2
  SegmentSizes = {1}
  MaxSegments = 3
  MaxSeeks = 1
  ConnectionFails = FALSE
  SeekResults = {TRUE}
PROPERTY SeekReturns
CHECK_DEADLOCK FALSE
