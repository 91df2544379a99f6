SPECIFICATION Spec

CONSTANTS
  r = r
  b = b
  p = p
  q = q
  NULL = NULL
  Result = Result
  Runner = r
  Threads <- TwoThreads
  Channels = {"progress", "message", "value"}
  Updaters <- BackgroundUpdates
  FxUpdates = {"message"}
  CancelFrom = {"handler", "listener"}
  Payloads = {p, q}
  MaxPosts = 3

INVARIANTS
  LifecycleOrder
  OutcomesAgree
  OneRunnablePerChannel
  NoLostUpdate
  SucceededHasResult
PROPERTIES
  UpdateIsSeen
  ImplementsTaskLife

CHECK_DEADLOCK FALSE
