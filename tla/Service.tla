------------------------------ MODULE Service -------------------------------
(***************************************************************************)
(* javafx.concurrent.Service: a reusable worker that creates one Task per  *)
(* start and shows that task's properties as its own by binding to them.   *)
(*                                                                         *)
(* Everything but the first start() happens on the FX thread, so what is   *)
(* hard here is not only threads but re-entrance: each change of the state *)
(* property runs the application's event handler in the middle of start(), *)
(* reset(), restart() or Task.setState(), and the handler may call the     *)
(* Service again.  The FX thread is therefore a stack of frames; a frame   *)
(* <<op, k>> is what remains to be done of a call, k a task where one is   *)
(* meant.  Tasks are as TaskLife describes them, with their runnables.     *)
(***************************************************************************)
EXTENDS Naturals, Sequences, FiniteSets, FiniteSetsExt

CONSTANTS
  MaxTasks,      \* bound: tasks created in a behaviour
  MaxDepth,      \* bound: frames on the FX thread's stack
  FxCalls,       \* operations the application calls on the FX thread
  HandlerCalls,  \* operations its event handlers call
  OffFxStart,    \* may the service be first started on a background thread?
  WhileStarting  \* which of FxCalls are made before such a start() has been
                 \* completed on the FX thread

Operations == {"start", "reset", "restart", "cancel"}

ASSUME ServiceAssumption ==
  /\ MaxTasks \in Nat
  /\ MaxDepth \in Nat
  /\ FxCalls \subseteq Operations
  /\ HandlerCalls \subseteq Operations
  /\ OffFxStart \in BOOLEAN
  /\ WhileStarting \subseteq FxCalls

Tasks == 1..MaxTasks
None  == 0

VARIABLES
  own,          \* the state property's own value, which counts when unbound
  bound,        \* the task that the state property is bound to, or None
  others,       \* the task that value, exception, running, ... are bound to
  task,         \* the field task
  startedOnce,  \* the field startedOnce
  lambda,       \* is the runnable of an off-thread start() queued?
  stack,        \* the FX thread's frames, innermost first; empty when idle
  thrown,       \* history: frames that ended in an unexpected exception
  created,      \* number of tasks createTask() has returned
  handed,       \* tasks given to the executor
  tstate,       \* for each task, its state property
  running,      \* for each task, its running property
  future,       \* for each task, its FutureTask
  body,         \* for each task, its computation
  posted        \* for each task, its runnables waiting for the FX thread

svcVars  == <<own, bound, others, task, startedOnce, created>>
taskVars == <<tstate, running, future, body, posted>>
vars     == <<own, bound, others, task, startedOnce, lambda, stack, thrown,
              created, handed, tstate, running, future, body, posted>>

States   == {"READY", "SCHEDULED", "RUNNING", "SUCCEEDED", "FAILED", "CANCELLED"}
Active   == {"SCHEDULED", "RUNNING"}
Terminal == {"SUCCEEDED", "FAILED", "CANCELLED"}

ServiceState == IF bound = None THEN own ELSE tstate[bound]

Init ==
  /\ own = "READY"
  /\ bound = None
  /\ others = None
  /\ task = None
  /\ startedOnce = FALSE
  /\ lambda = FALSE
  /\ stack = << >>
  /\ thrown = {}
  /\ created = 0
  /\ handed = {}
  /\ tstate = [k \in Tasks |-> "READY"]
  /\ running = [k \in Tasks |-> FALSE]
  /\ future = [k \in Tasks |-> "NEW"]
  /\ body = [k \in Tasks |-> "ready"]
  /\ posted = [k \in Tasks |-> << >>]
-----------------------------------------------------------------------------
(***************************************************************************)
(* Frames.                                                                 *)
(***************************************************************************)
Frame(op) == <<op, None>>
At(op)    == stack # << >> /\ Head(stack)[1] = op
Rest      == Tail(stack)
Quiet     == stack = << >>

\* The state property is about to change from old to new: its listener runs
\* the application's handler before anything else goes on.
Notify(old, new) == IF old = new THEN << >> ELSE <<Frame("handler")>>

\* An exception leaves every frame of the current call; one thrown inside a
\* handler is caught by the property that called the handler.
Unwind ==
  LET returns == { i \in DOMAIN stack : stack[i][1] = "return" }
  IN  IF returns = {} THEN << >> ELSE SubSeq(stack, Min(returns) + 1, Len(stack))

\* start() or reset() called by the application in a state that forbids it.
Misuse == {Frame("reset"), Frame("start")}

Throw ==
  /\ stack' = Unwind
  /\ thrown' = IF Head(stack) \in Misuse THEN thrown ELSE thrown \cup {Head(stack)}
  /\ UNCHANGED <<svcVars, lambda, handed, taskVars>>

\* The application calls an operation, outside or inside a handler.
FxCall(op) ==
  /\ Quiet
  /\ lambda => op \in WhileStarting
  /\ op \in {"start", "restart"} => created < MaxTasks
  /\ stack' = <<Frame(op)>>
  /\ UNCHANGED <<svcVars, lambda, thrown, handed, taskVars>>

HandlerCall(op) ==
  /\ At("handler")
  /\ op \in {"start", "restart"} => created < MaxTasks
  /\ Len(stack) < MaxDepth
  /\ stack' = <<Frame(op), Frame("return")>> \o Rest
  /\ UNCHANGED <<svcVars, lambda, thrown, handed, taskVars>>

HandlerReturn ==
  /\ At("handler") \/ At("return")
  /\ stack' = Rest
  /\ UNCHANGED <<svcVars, lambda, thrown, handed, taskVars>>
-----------------------------------------------------------------------------
(***************************************************************************)
(* Task.setState and Task.cancel on the FX thread, as Service uses them:   *)
(* the state is stored, the service bound to it notifies its handler, and  *)
(* only then is running stored.                                            *)
(***************************************************************************)
StoreState(k, s, cont) ==
  /\ tstate' = [tstate EXCEPT ![k] = s]
  /\ stack' = (IF bound = k THEN Notify(tstate[k], s) ELSE << >>)
              \o << <<IF s \in Active THEN "active" ELSE "inactive", k>> >> \o cont

\* Variant: setState without the CANCELLED test.
SetStateAlways(k, s) ==
  /\ At(s)
  /\ Head(stack)[2] = k
  /\ StoreState(k, s, Rest)
  /\ UNCHANGED <<svcVars, lambda, thrown, handed, running, future, body, posted>>

SetState(k, s) ==
  /\ At(s)
  /\ Head(stack)[2] = k
  /\ IF tstate[k] = "CANCELLED"
     THEN stack' = Rest /\ UNCHANGED tstate
     ELSE StoreState(k, s, Rest)
  /\ UNCHANGED <<svcVars, lambda, thrown, handed, running, future, body, posted>>

\* Variant: running is never stored FALSE.
SetRunningNeverFalse ==
  /\ At("active") \/ At("inactive")
  /\ running' = [running EXCEPT ![Head(stack)[2]] = @ \/ At("active")]
  /\ stack' = Rest
  /\ UNCHANGED <<svcVars, lambda, thrown, handed, tstate, future, body, posted>>

SetRunning ==
  /\ At("active") \/ At("inactive")
  /\ running' = [running EXCEPT ![Head(stack)[2]] = At("active")]
  /\ stack' = Rest
  /\ UNCHANGED <<svcVars, lambda, thrown, handed, tstate, future, body, posted>>

CancelTask(k, cont) ==
  /\ IF future[k] = "NEW"
     THEN /\ future' = [future EXCEPT ![k] = "CANCELLED"]
          /\ StoreState(k, "CANCELLED", cont)
     ELSE stack' = cont /\ UNCHANGED <<future, tstate>>
  /\ UNCHANGED <<running, body, posted>>
-----------------------------------------------------------------------------
(***************************************************************************)
(* The operations of Service, cut where a handler may run.                 *)
(***************************************************************************)
Cancel ==
  /\ At("cancel")
  /\ IF task # None
     THEN CancelTask(task, Rest) /\ UNCHANGED own
     ELSE /\ IF ServiceState \in {"CANCELLED", "SUCCEEDED"}
             THEN stack' = Rest /\ UNCHANGED own
             ELSE stack' = Notify(own, "CANCELLED") \o Rest /\ own' = "CANCELLED"
          /\ UNCHANGED taskVars
  /\ UNCHANGED <<bound, others, task, startedOnce, created, lambda, thrown, handed>>

\* The second component of a reset or start frame tells who called it.
ByRestart == << <<"reset", 1>>, <<"start", 1>> >>

\* Variant: restart() abandons the current task without cancelling it.
RestartNoCancel ==
  /\ At("restart")
  /\ stack' = IF task # None THEN <<Frame("detach")>> \o Rest ELSE ByRestart \o Rest
  /\ UNCHANGED <<svcVars, lambda, thrown, handed, taskVars>>

Restart ==
  /\ At("restart")
  /\ IF task # None
     THEN CancelTask(task, <<Frame("detach")>> \o Rest)
     ELSE stack' = ByRestart \o Rest /\ UNCHANGED taskVars
  /\ UNCHANGED <<svcVars, lambda, thrown, handed>>

\* Variant: restart() without the correction for RT-20880.
DetachKeepsState ==
  /\ At("detach")
  /\ task' = None
  /\ stack' = ByRestart \o Rest
  /\ UNCHANGED <<own, bound, others, startedOnce, created, lambda, thrown, handed,
                 taskVars>>

\* restart(), after the current task was cancelled.
Detach ==
  /\ At("detach")
  /\ task' = None
  /\ bound' = None
  /\ own' = "CANCELLED"
  /\ stack' = Notify(ServiceState, "CANCELLED") \o ByRestart \o Rest
  /\ UNCHANGED <<others, startedOnce, created, lambda, thrown, handed, taskVars>>

\* Variant: reset() in any state.
ResetAnyState ==
  /\ At("reset")
  /\ task' = None
  /\ bound' = None
  /\ own' = "READY"
  /\ stack' = Notify(ServiceState, "READY") \o <<Frame("unbind")>> \o Rest
  /\ UNCHANGED <<others, startedOnce, created, lambda, thrown, handed, taskVars>>

Reset ==
  /\ At("reset")
  /\ ServiceState \notin Active
  /\ task' = None
  /\ bound' = None
  /\ own' = "READY"
  /\ stack' = Notify(ServiceState, "READY") \o <<Frame("unbind")>> \o Rest
  /\ UNCHANGED <<others, startedOnce, created, lambda, thrown, handed, taskVars>>

\* Variant: reset() unbinds the state only.
UnbindNothing ==
  /\ At("unbind")
  /\ stack' = Rest
  /\ UNCHANGED <<svcVars, lambda, thrown, handed, taskVars>>

\* reset(), after the state was set: every other property is unbound.
Unbind ==
  /\ At("unbind")
  /\ others' = None
  /\ stack' = Rest
  /\ UNCHANGED <<own, bound, task, startedOnce, created, lambda, thrown, handed,
                 taskVars>>

ResetThrows == At("reset") /\ ServiceState \in Active /\ Throw

\* start() up to the point where the new task's state is set: create it and
\* bind every property to it.
CreateTask ==
  /\ created < MaxTasks
  /\ created' = created + 1
  /\ task' = created + 1
  /\ bound' = created + 1
  /\ others' = created + 1
  /\ startedOnce' = TRUE
  /\ UNCHANGED own

Start ==
  /\ At("start")
  /\ ServiceState = "READY"
  /\ CreateTask
  /\ stack' = <<Frame("schedule"), Frame("execute")>> \o Rest
  /\ UNCHANGED <<lambda, thrown, handed, taskVars>>

StartThrows == At("start") /\ ServiceState # "READY" /\ Throw

\* The first start() may be made off the FX thread; the rest of it is queued.
StartOffFx ==
  /\ OffFxStart
  /\ Quiet
  /\ ~startedOnce
  /\ ServiceState = "READY"
  /\ CreateTask
  /\ lambda' = TRUE
  /\ UNCHANGED <<stack, thrown, handed, taskVars>>

RunLambda ==
  /\ Quiet
  /\ lambda
  /\ lambda' = FALSE
  /\ stack' = <<Frame("schedule"), Frame("execute")>>
  /\ UNCHANGED <<svcVars, thrown, handed, taskVars>>

\* task.setState(SCHEDULED), of what the field task holds now.
Schedule ==
  /\ At("schedule")
  /\ task # None
  /\ stack' = << <<"SCHEDULED", task>> >> \o Rest
  /\ UNCHANGED <<svcVars, lambda, thrown, handed, taskVars>>

ScheduleThrows == At("schedule") /\ task = None /\ Throw

\* Variant: start() does not execute the task.
ExecuteForgotten ==
  /\ At("execute")
  /\ stack' = Rest
  /\ UNCHANGED <<svcVars, lambda, thrown, handed, taskVars>>

\* executeTask(task): a null task fails on the executor's thread.
Execute ==
  /\ At("execute")
  /\ handed' = IF task = None THEN handed ELSE handed \cup {task}
  /\ thrown' = IF task = None THEN thrown \cup {Head(stack)} ELSE thrown
  /\ stack' = Rest
  /\ UNCHANGED <<svcVars, lambda, taskVars>>
-----------------------------------------------------------------------------
(***************************************************************************)
(* The tasks: the executor's threads, and their runnables on the FX thread.*)
(***************************************************************************)
Post(k, r) == posted' = [posted EXCEPT ![k] = Append(@, r)]

Begin(k) ==
  /\ k \in handed
  /\ body[k] = "ready"
  /\ \/ /\ future[k] = "NEW"
        /\ body' = [body EXCEPT ![k] = "call"]
        /\ Post(k, "RUNNING")
     \/ /\ future[k] # "NEW"
        /\ body' = [body EXCEPT ![k] = "skipped"]
        /\ UNCHANGED posted
  /\ UNCHANGED <<svcVars, lambda, stack, thrown, handed, tstate, running, future>>

\* Variant: a failure is not published.
CallEndsSilently(k) ==
  /\ body[k] = "call"
  /\ \/ /\ body' = [body EXCEPT ![k] = "set"]
        /\ IF future[k] = "CANCELLED" THEN UNCHANGED posted ELSE Post(k, "SUCCEEDED")
     \/ /\ body' = [body EXCEPT ![k] = "setException"]
        /\ UNCHANGED posted
  /\ UNCHANGED <<svcVars, lambda, stack, thrown, handed, tstate, running, future>>

CallEnds(k) ==
  /\ body[k] = "call"
  /\ \/ /\ body' = [body EXCEPT ![k] = "set"]
        /\ IF future[k] = "CANCELLED" THEN UNCHANGED posted ELSE Post(k, "SUCCEEDED")
     \/ /\ body' = [body EXCEPT ![k] = "setException"]
        /\ Post(k, "FAILED")
  /\ UNCHANGED <<svcVars, lambda, stack, thrown, handed, tstate, running, future>>

Settle(k) ==
  /\ future[k] = "NEW"
  /\ \/ body[k] = "set" /\ future' = [future EXCEPT ![k] = "NORMAL"]
     \/ body[k] = "setException" /\ future' = [future EXCEPT ![k] = "EXCEPTIONAL"]
  /\ UNCHANGED <<svcVars, lambda, stack, thrown, handed, tstate, running, body, posted>>

\* call() cancels its own task.
CancelOffFx(k) ==
  /\ body[k] = "call"
  /\ future[k] = "NEW"
  /\ future' = [future EXCEPT ![k] = "CANCELLED"]
  /\ Post(k, "CANCELLED")
  /\ UNCHANGED <<svcVars, lambda, stack, thrown, handed, tstate, running, body>>

\* The FX thread runs a task's next runnable; RUNNING is preceded by SCHEDULED.
\* The lambda of an off-thread start() is older than any of them, and the FX
\* queue is first come, first served.
RunPosted(k) ==
  /\ Quiet
  /\ ~ lambda
  /\ posted[k] # << >>
  /\ posted' = [posted EXCEPT ![k] = Tail(@)]
  /\ stack' = IF Head(posted[k]) = "RUNNING"
              THEN << <<"SCHEDULED", k>>, <<"RUNNING", k>> >>
              ELSE << <<Head(posted[k]), k>> >>
  /\ UNCHANGED <<svcVars, lambda, thrown, handed, tstate, running, future, body>>
-----------------------------------------------------------------------------
\* What the FX thread does inside a call without the application's help.
FxStep ==
  \/ HandlerReturn
  \/ \E k \in Tasks, s \in States : SetState(k, s)
  \/ SetRunning
  \/ Cancel
  \/ Restart \/ Detach
  \/ Reset \/ Unbind \/ ResetThrows
  \/ Start \/ StartThrows
  \/ Schedule \/ ScheduleThrows \/ Execute

Next ==
  \/ FxStep
  \/ \E op \in FxCalls : FxCall(op)
  \/ \E op \in HandlerCalls : HandlerCall(op)
  \/ StartOffFx
  \/ RunLambda
  \/ \E k \in Tasks : Begin(k) \/ CallEnds(k) \/ Settle(k) \/ CancelOffFx(k)
  \/ \E k \in Tasks : RunPosted(k)

(***************************************************************************)
(* The FX thread finishes what it has begun and drains its queue, the      *)
(* executor runs what it is given.  The queue is first come, first served, *)
(* so calls the application keeps making cannot starve a runnable: hence   *)
(* strong fairness.  The application need not call anything and call()     *)
(* need not return.                                                        *)
(***************************************************************************)
Fairness ==
  /\ WF_vars(FxStep)
  /\ SF_vars(RunLambda)
  /\ \A k \in Tasks : WF_vars(Begin(k)) /\ WF_vars(Settle(k)) /\ SF_vars(RunPosted(k))

Spec == Init /\ [][Next]_vars /\ Fairness
-----------------------------------------------------------------------------
(***************************************************************************)
(* Type invariant.                                                         *)
(***************************************************************************)
Labels == Operations \cup States \cup
          {"handler", "return", "active", "inactive", "detach", "unbind",
           "schedule", "execute"}

TypeOK ==
  /\ own \in States
  /\ {bound, others, task, created} \subseteq 0..MaxTasks
  /\ startedOnce \in BOOLEAN
  /\ lambda \in BOOLEAN
  /\ stack \in Seq(Labels \X (0..MaxTasks \cup {1}))
  /\ thrown \subseteq Labels \X (0..MaxTasks \cup {1})
  /\ handed \subseteq Tasks
  /\ tstate \in [Tasks -> States]
  /\ running \in [Tasks -> BOOLEAN]
  /\ future \in [Tasks -> {"NEW", "NORMAL", "EXCEPTIONAL", "CANCELLED"}]
  /\ body \in [Tasks -> {"ready", "skipped", "call", "set", "setException"}]
  /\ posted \in [Tasks -> Seq(States)]

(***************************************************************************)
(* ServiceLifecycle: the state that the Service shows moves only along the *)
(* life cycle of a reusable worker, from the first start() on, whichever   *)
(* task it is bound to: CANCELLED comes from READY, SCHEDULED or RUNNING.  *)
(* SUCCEEDED or FAILED becomes CANCELLED in two places of the code only:   *)
(* restart() passes through it on the way to READY, and a cancel() takes   *)
(* the shown task's FutureTask before FutureTask.run has settled it.       *)
(***************************************************************************)
ServiceFollows ==
  { <<"READY", "SCHEDULED">>, <<"SCHEDULED", "RUNNING">>,
    <<"RUNNING", "SUCCEEDED">>, <<"RUNNING", "FAILED">> }
  \cup { <<s, "READY">> : s \in Terminal }
  \cup { <<s, "CANCELLED">> : s \in States \ Terminal }

Overtaken == bound # None /\ future[bound] = "CANCELLED"

ServiceLifecycle ==
  [][ServiceState' # ServiceState
       => \/ <<ServiceState, ServiceState'>> \in ServiceFollows
          \/ ServiceState' = "CANCELLED" /\ (At("detach") \/ Overtaken')]_vars

(***************************************************************************)
(* TasksObeyLife: the Service uses each of its tasks as TaskLife allows:   *)
(* it is announced once, before it runs, and never touched once it is      *)
(* CANCELLED.                                                              *)
(***************************************************************************)
Life(k) == INSTANCE TaskLife WITH state <- tstate[k], future <- future[k], body <- body[k]

TasksObeyLife ==
  [][\A k \in Tasks : Life(k)!Next \/ UNCHANGED <<tstate[k], future[k], body[k]>>]_vars

(***************************************************************************)
(* BindingsAgree: between calls all properties of the Service show the     *)
(* same task, the one in the field task, or none does: state and value     *)
(* never come from different runs.                                         *)
(***************************************************************************)
BindingsAgree == Quiet => task = bound /\ bound = others

(***************************************************************************)
(* NoOrphan: a task which the executor may still run or is running, and    *)
(* which was not cancelled, is the Service's current task.                 *)
(***************************************************************************)
NoOrphan ==
  Quiet => \A k \in handed : body[k] \in {"ready", "call"} /\ future[k] = "NEW" => k = task

(***************************************************************************)
(* RestartResets: whatever handlers do in the middle of it, restart()      *)
(* succeeds in resetting the Service in any state, even if the old task    *)
(* could not be cancelled (the comment on RT-20880 in restart()).          *)
(***************************************************************************)
RestartResets == <<"reset", 1>> \notin thrown

(***************************************************************************)
(* RunningWhileActive: between calls, unless it is CANCELLED, the Service  *)
(* says running exactly in SCHEDULED and RUNNING.                          *)
(***************************************************************************)
Running == others # None /\ running[others]

RunningWhileActive ==
  Quiet /\ ServiceState # "CANCELLED" => (Running <=> ServiceState \in Active)

(***************************************************************************)
(* ScheduledMovesOn: a SCHEDULED Service does not stay so for ever.        *)
(***************************************************************************)
ScheduledMovesOn == ServiceState = "SCHEDULED" ~> ServiceState # "SCHEDULED"

(***************************************************************************)
(* OutcomeIsShown: once the current task's call() has ended, the Service   *)
(* reaches a terminal state or is reset or restarted.                      *)
(***************************************************************************)
OutcomeIsShown ==
  \A k \in Tasks : bound = k /\ body[k] \in {"set", "setException"}
                     ~> bound # k \/ ServiceState \in Terminal
=============================================================================
