CONSTANTS
  l1 = l1
  l2 = l2
  l3 = l3
  t1 = t1
  Loops <- ThreeLoops
  Clients <- OneClient
  Dispatcher = Dispatcher
  NoLoop = NoLoop
  Platforms = {"gtk", "win"}
  MaxCalls = 1
  MaxEnters = 3
SPECIFICATION FairSpec
INVARIANTS
  LeaveIsKept
  AssertsHold
  DeferralEnds
  NoLostNotification
  DispatcherNotBlocked
PROPERTIES
  RunsInOrder
  LeftLoopsReturn
CHECK_DEADLOCK FALSE
