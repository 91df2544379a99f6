CONSTANTS
  s1 = s1
  s2 = s2
  Scenes <- MCScenes
  Presenting <- MCPresenting
  VsyncHint = TRUE
  MaxCalls = 2
  MaxFailures = 0
SPECIFICATION Spec
INVARIANT ExitAfterLastFrame
CHECK_DEADLOCK FALSE
