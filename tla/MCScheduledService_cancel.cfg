SPECIFICATION Spec

CONSTANTS
  MaxTasks = 3
  Delay = 1
  Period = 2
  MaxCumulative = 3
  RestartOnFailure = TRUE
  MaxFailures = 2
  CancelIn = {}

PROPERTY
  CancelStops
