-------------------------- MODULE ScheduledService --------------------------
(***************************************************************************)
(* javafx.concurrent.ScheduledService: a Service that starts itself again  *)
(* after each success, and after a failure if it is told to, keeping a     *)
(* minimum period between two runs.                                        *)
(*                                                                         *)
(* The calls of the FX thread are atomic here (module Service looks inside *)
(* them) except that an event handler may call cancel() on the way.  They  *)
(* race three others: the executor's threads, the delay timer's thread,    *)
(* and the runnables these two have queued.  Time is discrete; since only  *)
(* differences matter, what is kept is the time since the last run and the *)
(* time left on each timer.                                                *)
(***************************************************************************)
EXTENDS Naturals, FiniteSets, FiniteSetsExt

CONSTANTS
  MaxTasks,          \* bound: tasks alive at a time
  Delay,             \* the delay property, in ticks
  Period,            \* the period property
  MaxCumulative,     \* the maximumCumulativePeriod property
  RestartOnFailure,  \* the restartOnFailure property
  MaxFailures,       \* the maximumFailureCount property
  CancelIn           \* events whose handler may call cancel()

Tasks == 1..MaxTasks
None  == 0

\* Longer than any delay: where the model stops counting ticks.
LongAgo == MaxCumulative + Delay + 1

ASSUME ScheduledAssumption ==
  /\ {MaxTasks, Delay, Period, MaxCumulative, MaxFailures} \subseteq Nat
  /\ RestartOnFailure \in BOOLEAN
  /\ CancelIn \subseteq {"READY", "SCHEDULED", "SUCCEEDED", "FAILED"}

VARIABLE svc  \* a record:
  \* state, task      of the Service
  \* stop, freshStart, delayTask, cumulative, failures  the fields of the same
  \*                  or a similar name; delayTask is named by its task
  \* age              clock() - lastRunTime, at most LongAgo
  \* future, body     for each task, its FutureTask and its computation
  \* timer, left      for each task, its delay timer and the ticks left
  \* iterating        history: was the current task started by an iteration?
  \* since            history: ticks since the service last ran
  \* revived          history: did failed() start the current task after a cancel()?

Active == {"SCHEDULED", "RUNNING"}

Init ==
  svc = [state |-> "READY", task |-> None,
         stop |-> FALSE, freshStart |-> TRUE, delayTask |-> None,
         cumulative |-> 0, failures |-> 0, age |-> LongAgo,
         future |-> [k \in Tasks |-> "NEW"], body |-> [k \in Tasks |-> "over"],
         timer |-> [k \in Tasks |-> "none"], left |-> [k \in Tasks |-> 0],
         iterating |-> FALSE, since |-> LongAgo,
         revived |-> FALSE]
-----------------------------------------------------------------------------
(***************************************************************************)
(* What the methods make of the state x.                                   *)
(***************************************************************************)
\* setCumulativePeriod
Capped(d) == Min({d, MaxCumulative})

\* LINEAR_BACKOFF_STRATEGY
Backoff(n) == IF Period = 0 THEN n ELSE Period + Period * n

\* Task.cancel on the FX thread; the service shows its current task's state.
CancelTask(x) ==
  IF x.task # None /\ x.future[x.task] = "NEW"
  THEN [x EXCEPT !.future[x.task] = "CANCELLED", !.state = "CANCELLED"]
  ELSE x

\* Service.cancel
SuperCancel(x) ==
  IF x.task # None THEN CancelTask(x)
  ELSE IF x.state = "SUCCEEDED" THEN x ELSE [x EXCEPT !.state = "CANCELLED"]

\* TimerTask.cancel: too late once the timer has fired.
CancelTimer(x) ==
  IF x.delayTask # None /\ x.timer[x.delayTask] = "waiting"
  THEN [x EXCEPT !.timer[x.delayTask] = "none", !.left[x.delayTask] = 0]
  ELSE x

Cancel(x) == [CancelTimer(SuperCancel(x)) EXCEPT !.stop = TRUE, !.delayTask = None,
                                             !.revived = FALSE]

\* An event handler runs; it may cancel.
Handled(x, event) == {x} \cup (IF event \in CancelIn THEN {Cancel(x)} ELSE {})

\* Variant: lastRunTime is not recorded.
ExecuteTaskNowUnstamped(x, k) ==
  [x EXCEPT !.freshStart = FALSE, !.body[k] = "handed",
            !.since = IF k = x.task /\ x.future[k] = "NEW" THEN 0 ELSE @]

\* Only the current task's run counts as a run of the service.
ExecuteTaskNow(x, k) ==
  [x EXCEPT !.age = 0, !.freshStart = FALSE, !.body[k] = "handed",
            !.since = IF k = x.task /\ x.future[k] = "NEW" THEN 0 ELSE @]

Schedule(x, k, d) ==
  [x EXCEPT !.timer[k] = "waiting", !.left[k] = d, !.delayTask = k]

ExecuteFresh(x, k) ==
  LET y == [x EXCEPT !.cumulative = Capped(Period)]
  IN  IF Delay = 0 THEN ExecuteTaskNow(y, k) ELSE Schedule(y, k, Delay)

ExecuteAgain(x, k) ==
  IF x.age < x.cumulative
  THEN Schedule(x, k, x.cumulative - x.age)
  ELSE ExecuteTaskNow(x, k)

ExecuteTask(x, k) == IF x.freshStart THEN ExecuteFresh(x, k) ELSE ExecuteAgain(x, k)

\* Tasks that nothing refers to any more; a new task takes one's place.
Unused(x) ==
  { k \in Tasks : k # x.task /\ x.timer[k] = "none" /\ x.body[k] \notin {"handed", "call"} }

CreateTask(x, k) ==
  [x EXCEPT !.task = k, !.state = "SCHEDULED", !.future[k] = "NEW", !.body[k] = "new"]

\* Service.start, in READY; in any other state it throws.
Start(x) ==
  IF x.state = "READY"
  THEN UNION { { ExecuteTask(y, k) : y \in Handled(CreateTask(x, k), "SCHEDULED") }
               : k \in Unused(x) }
  ELSE {x}

\* Service.reset, in a state where it does not throw.
SuperReset(x) ==
  LET y == [x EXCEPT !.task = None, !.state = "READY"]
  IN  IF x.state = "READY" THEN {y} ELSE Handled(y, "READY")

Reset(x) ==
  { [y EXCEPT !.stop = FALSE, !.cumulative = Capped(Period), !.failures = 0,
              !.age = LongAgo, !.freshStart = TRUE, !.iterating = FALSE,
              !.revived = FALSE]
    : y \in SuperReset(x) }

\* Variant: restart() abandons the current task without cancelling it.
RestartNoCancel(x) ==
  UNION { Start(z) : z \in Reset([x EXCEPT !.task = None, !.state = "CANCELLED"]) }

\* Service.restart; it cancels the task, not the delay.
Restart(x) ==
  LET y == IF x.task # None
           THEN [CancelTask(x) EXCEPT !.task = None, !.state = "CANCELLED"]
           ELSE x
  IN  UNION { Start(z) : z \in Reset(y) }

\* The next iteration.
Iterate(x) ==
  UNION { Start([y EXCEPT !.iterating = TRUE]) : y \in SuperReset(x) }

\* Variant: stop is not consulted.
SucceededIgnoresStop(x) == Iterate([x EXCEPT !.cumulative = Capped(Period)])

\* succeeded(): a service that was stopped goes through READY and SCHEDULED
\* to CANCELLED.
Succeeded(x) ==
  LET y == [x EXCEPT !.cumulative = Capped(Period)]
  IN  IF x.stop
      THEN { [z EXCEPT !.state = "CANCELLED"] : z \in SuperReset(y) }
      ELSE Iterate(y)

\* Variant: one failure too many.
FailedOnceMore(x) ==
  LET y == [x EXCEPT !.failures = @ + 1, !.revived = x.stop]
  IN  IF RestartOnFailure /\ MaxFailures >= y.failures
      THEN Iterate([y EXCEPT !.cumulative = Capped(Backoff(y.failures))])
      ELSE {y}

Failed(x) ==
  LET y == [x EXCEPT !.failures = @ + 1, !.revived = x.stop]
  IN  IF RestartOnFailure /\ MaxFailures > y.failures
      THEN Iterate([y EXCEPT !.cumulative = Capped(Backoff(y.failures))])
      ELSE {y}
-----------------------------------------------------------------------------
(***************************************************************************)
(* The application, on the FX thread.                                      *)
(***************************************************************************)
FxStart == svc.state = "READY" /\ svc' \in Start([svc EXCEPT !.iterating = FALSE])

FxReset == svc.state \notin Active /\ svc' \in Reset(svc)

FxRestart == svc' \in Restart(svc)

FxCancel == svc' = Cancel(svc)

(***************************************************************************)
(* A task: the executor's thread, and its runnables on the FX thread.  An  *)
(* abandoned task is no longer shown.                                      *)
(***************************************************************************)
Begin(k) ==
  /\ svc.body[k] = "handed"
  /\ svc' = [svc EXCEPT !.body[k] = IF svc.future[k] = "NEW" THEN "call" ELSE "over"]

CallEnds(k) ==
  /\ svc.body[k] = "call"
  /\ \E outcome \in {"set", "setException"} : svc' = [svc EXCEPT !.body[k] = outcome]

Settle(k) ==
  /\ svc.body[k] \in {"set", "setException"}
  /\ svc.future[k] = "NEW"
  /\ svc' = [svc EXCEPT !.future[k] = "SETTLED"]

ShowRunning ==
  /\ svc.state = "SCHEDULED"
  /\ svc.task # None
  /\ svc.body[svc.task] \in {"call", "set", "setException"}
  /\ svc' = [svc EXCEPT !.state = "RUNNING"]

ShowSucceeded ==
  /\ svc.state = "RUNNING"
  /\ svc.body[svc.task] = "set"
  /\ \E x \in Handled([svc EXCEPT !.state = "SUCCEEDED"], "SUCCEEDED") :
       svc' \in Succeeded(x)

ShowFailed ==
  /\ svc.state = "RUNNING"
  /\ svc.body[svc.task] = "setException"
  /\ \E x \in Handled([svc EXCEPT !.state = "FAILED"], "FAILED") : svc' \in Failed(x)

(***************************************************************************)
(* The delay timer's thread, which only queues the runnable of the timer   *)
(* task, and that runnable on the FX thread.                               *)
(***************************************************************************)
TimerFires(k) ==
  /\ svc.timer[k] = "waiting"
  /\ svc.left[k] = 0
  /\ svc' = [svc EXCEPT !.timer[k] = "queued"]

\* Variant: a runnable that finds no delayTask takes itself for cancelled.
TimerRunsIfPending(k) ==
  /\ svc.timer[k] = "queued"
  /\ svc' = IF svc.delayTask = None
            THEN [svc EXCEPT !.timer[k] = "none"]
            ELSE [ExecuteTaskNow(svc, k) EXCEPT !.timer[k] = "none", !.delayTask = None]

TimerRuns(k) ==
  /\ svc.timer[k] = "queued"
  /\ svc' = [ExecuteTaskNow(svc, k) EXCEPT !.timer[k] = "none", !.delayTask = None]

Tick ==
  /\ svc' = [svc EXCEPT !.age = Min({@ + 1, LongAgo}),
                        !.since = Min({@ + 1, LongAgo}),
                        !.left = [k \in Tasks |-> IF @[k] = 0 THEN 0 ELSE @[k] - 1]]
  /\ svc' # svc
-----------------------------------------------------------------------------
Next ==
  \/ FxStart \/ FxReset \/ FxRestart \/ FxCancel
  \/ \E k \in Tasks : Begin(k) \/ CallEnds(k) \/ Settle(k)
  \/ ShowRunning \/ ShowSucceeded \/ ShowFailed
  \/ \E k \in Tasks : TimerFires(k) \/ TimerRuns(k)
  \/ Tick

\* Time passes, timers fire, the executor and the FX thread's queue make
\* progress.  call() need not return.
Fairness ==
  /\ WF_svc(Tick)
  /\ SF_svc(ShowRunning) /\ SF_svc(ShowSucceeded) /\ SF_svc(ShowFailed)
  /\ \A k \in Tasks : /\ WF_svc(Begin(k)) /\ WF_svc(Settle(k))
                      /\ WF_svc(TimerFires(k)) /\ WF_svc(TimerRuns(k))

Spec == Init /\ [][Next]_svc /\ Fairness
-----------------------------------------------------------------------------
(***************************************************************************)
(* Type invariant.                                                         *)
(***************************************************************************)
TypeOK ==
  /\ svc.state \in {"READY", "SCHEDULED", "RUNNING", "SUCCEEDED", "FAILED", "CANCELLED"}
  /\ {svc.task, svc.delayTask} \subseteq Tasks \cup {None}
  /\ {svc.stop, svc.freshStart, svc.iterating, svc.revived} \subseteq BOOLEAN
  /\ svc.cumulative \in 0..MaxCumulative
  /\ svc.failures \in Nat
  /\ {svc.age, svc.since} \subseteq 0..LongAgo
  /\ svc.future \in [Tasks -> {"NEW", "SETTLED", "CANCELLED"}]
  /\ svc.body \in [Tasks -> {"new", "handed", "call", "set", "setException", "over"}]
  /\ svc.timer \in [Tasks -> {"none", "waiting", "queued"}]
  /\ svc.left \in [Tasks -> 0..LongAgo]

\* A step that gives the executor a task which it will really run.
Runs ==
  \E k \in Tasks :
    /\ svc'.task = k /\ svc'.body[k] = "handed" /\ svc'.future[k] = "NEW"
    /\ svc.task # k \/ svc.body[k] # "handed"

(***************************************************************************)
(* PeriodRespected: between the start of a run and the start of the run    *)
(* that the service itself makes next at least the cumulative period       *)
(* passes, whatever timers of abandoned tasks are still about.             *)
(***************************************************************************)
PeriodRespected ==
  [][Runs /\ svc'.iterating => svc.since >= svc'.cumulative]_svc

(***************************************************************************)
(* OneAtATime: no timer is left that could still run a task other than the *)
(* current one, nor does the executor hold such a task uncancelled.        *)
(***************************************************************************)
OneAtATime ==
  \A k \in Tasks \ {svc.task} :
    svc.timer[k] # "none" \/ svc.body[k] \in {"handed", "call"} => svc.future[k] # "NEW"

(***************************************************************************)
(* StaysStopped: once cancel() has been called the service does not run    *)
(* again until a manual start: a success that was already on its way does  *)
(* not start an iteration, nor does a timer that had already fired run its *)
(* task.  The one way around it is a failure (see CancelStops).            *)
(***************************************************************************)
StaysStopped == [][svc.stop /\ svc'.stop /\ Runs => svc'.revived]_svc

(***************************************************************************)
(* FailureLimit: the service ends in FAILED only when it may not restart   *)
(* itself, and it does end when maximumFailureCount is reached.            *)
(***************************************************************************)
FailureLimit ==
  /\ svc.state = "FAILED" => ~RestartOnFailure \/ svc.failures >= MaxFailures
  /\ svc.failures > 0 /\ svc.failures >= MaxFailures => svc.state \notin Active

(***************************************************************************)
(* ScheduledMovesOn: a task that waits for its delay or its period in      *)
(* SCHEDULED does not wait for ever.                                       *)
(***************************************************************************)
ScheduledMovesOn ==
  \A k \in Tasks : svc.task = k /\ svc.state = "SCHEDULED"
                     ~> svc.task # k \/ svc.state # "SCHEDULED"
-----------------------------------------------------------------------------
(***************************************************************************)
(* What the documentation says and the code does not do.                   *)
(*                                                                         *)
(* CancelStops: "In any case, the ScheduledService will stop iterating"    *)
(* (cancel()).  failed() does not look at stop.                            *)
(***************************************************************************)
CancelStops == [][svc.stop /\ svc'.stop => ~Runs]_svc
=============================================================================
