SPECIFICATION Spec

CONSTANTS
  MaxTasks = 2
  Delay = 1
  Period = 2
  MaxCumulative = 3
  RestartOnFailure = TRUE
  MaxFailures = 2
  CancelIn = {"READY", "SCHEDULED", "SUCCEEDED", "FAILED"}

INVARIANTS
  OneAtATime
  FailureLimit
PROPERTIES
  PeriodRespected
  StaysStopped
  ScheduledMovesOn
