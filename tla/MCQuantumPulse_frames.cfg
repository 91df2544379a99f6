CONSTANTS
  s1 = s1
  s2 = s2
  Scenes <- MCScenes
  Presenting <- MCPresenting
  VsyncHint = TRUE
  MaxCalls = 1
  MaxFailures = 1
SPECIFICATION FairSpec
INVARIANT TypeOK
INVARIANT LatchCovered
INVARIANT OnePulse
PROPERTY ChangeIsShown
CHECK_DEADLOCK FALSE
