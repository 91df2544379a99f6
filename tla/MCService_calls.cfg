SPECIFICATION Spec

CONSTANTS
  MaxTasks = 2
  MaxDepth = 6
  FxCalls = {"start", "reset", "restart", "cancel"}
  HandlerCalls = {"cancel"}
  OffFxStart = TRUE
  WhileStarting = {"start", "reset", "restart", "cancel"}

INVARIANTS
  BindingsAgree
  NoOrphan
  RestartResets
  RunningWhileActive
PROPERTIES
  TasksObeyLife
  ServiceLifecycle
  ScheduledMovesOn
  OutcomeIsShown

CHECK_DEADLOCK FALSE
