SPECIFICATION Spec

CONSTANTS
  r = r
  b = b
  p = p
  q = q
  NULL = NULL
  Result = Result
  Runner = r
  Threads <- TwoThreads
  Channels = {"value"}
  Updaters <- BackgroundUpdates
  FxUpdates = {}
  CancelFrom = {"handler"}
  Payloads = {p}
  MaxPosts = 0

PROPERTIES
  ConclusionIsFinal

CHECK_DEADLOCK FALSE
