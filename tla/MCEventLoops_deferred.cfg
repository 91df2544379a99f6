CONSTANTS
  l1 = l1
  l2 = l2
  l3 = l3
  t1 = t1
  Loops <- TwoLoops
  Clients <- OneClient
  Dispatcher = Dispatcher
  NoLoop = NoLoop
  Platforms = {"win", "mac"}
  MaxCalls = 1
  MaxEnters = 2
SPECIFICATION FairSpec
PROPERTY RunnablesRun
CHECK_DEADLOCK FALSE
