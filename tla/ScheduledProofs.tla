-------------------------- MODULE ScheduledProofs --------------------------
(***************************************************************************)
(* ScheduledService for any number of tasks and any delay, period, limits  *)
(* and handlers.  Its operators take the service's record to another one,  *)
(* so the invariant is a predicate on records, and each operator has one   *)
(* lemma that says what it keeps.                                          *)
(***************************************************************************)
EXTENDS ScheduledService, TLAPS

States  == {"READY", "SCHEDULED", "RUNNING", "SUCCEEDED", "FAILED", "CANCELLED"}
Futures == {"NEW", "SETTLED", "CANCELLED"}
Bodies  == {"new", "handed", "call", "set", "setException", "over"}
Timers  == {"none", "waiting", "queued"}

Services ==
  [state : States, task : Tasks \cup {None},
   stop : BOOLEAN, freshStart : BOOLEAN, delayTask : Tasks \cup {None},
   cumulative : 0..MaxCumulative, failures : Nat, age : 0..LongAgo,
   future : [Tasks -> Futures], body : [Tasks -> Bodies],
   timer : [Tasks -> Timers], left : [Tasks -> 0..LongAgo],
   iterating : BOOLEAN, since : 0..LongAgo, revived : BOOLEAN]

\* The state and the current task: a cancelled service has a cancelled task
\* or none, and a state that a task's runnable has shown has that task.
StateInv(x) ==
  /\ x.state = "READY" => x.task = None
  /\ x.state \in {"SCHEDULED", "RUNNING", "SUCCEEDED", "FAILED"} => x.task \in Tasks
  /\ x.state = "CANCELLED" /\ x.task \in Tasks => x.future[x.task] = "CANCELLED"
  /\ x.state = "RUNNING" => x.body[x.task] \in {"call", "set", "setException"}
  /\ x.state = "SUCCEEDED" => x.body[x.task] = "set"
  /\ x.state = "FAILED" => x.body[x.task] = "setException"

\* Only a task that was not handed over has a timer.
TimerInv(x) ==
  \A k \in Tasks : /\ x.timer[k] # "none" => x.body[k] = "new"
                   /\ x.timer[k] = "queued" => x.left[k] = 0

\* OneAtATime.
AloneInv(x) ==
  \A k \in Tasks \ {x.task} :
    x.timer[k] # "none" \/ x.body[k] \in {"handed", "call"} => x.future[k] # "NEW"

\* The current task waits for a timer that will really run it.
Waits(x) == x.task \in Tasks /\ x.timer[x.task] # "none" /\ x.future[x.task] = "NEW"

\* The service has run since it was last reset.
Ran(x) == x.iterating \/ (x.task \in Tasks /\ x.body[x.task] # "new")

PaceInv(x) ==
  /\ Ran(x) => x.age <= x.since /\ ~ x.freshStart
  /\ x.iterating /\ Waits(x) => x.cumulative <= x.since + x.left[x.task]

StopInv(x) == x.stop /\ Waits(x) => x.revived

Base(x) ==
  x \in Services /\ StateInv(x) /\ TimerInv(x) /\ AloneInv(x) /\ PaceInv(x) /\ StopInv(x)

\* What holds between two steps, but not while one is under way.
AtLimit(x) == x.failures > 0 /\ x.failures >= MaxFailures

RestInv(x) ==
  /\ x.state = "READY" => ~ x.stop
  /\ AtLimit(x) => x.state \in {"FAILED", "CANCELLED"}
  /\ x.state = "FAILED" => ~ RestartOnFailure \/ x.failures >= MaxFailures

SInv == Base(svc) /\ RestInv(svc)
-----------------------------------------------------------------------------
(***************************************************************************)
(* The operators on numbers.                                               *)
(***************************************************************************)
LEMMA MinOfTwo ==
  ASSUME NEW a \in Int, NEW b \in Int
  PROVE  Min({a, b}) = IF a <= b THEN a ELSE b
<1>1. \E m \in {a, b} : \A n \in {a, b} : m <= n
  OBVIOUS
<1>2. Min({a, b}) \in {a, b} /\ \A n \in {a, b} : Min({a, b}) <= n
  BY <1>1 DEF Min
<1> QED
  BY <1>2

LEMMA Numbers ==
  /\ MaxTasks \in Nat /\ Delay \in Nat /\ Period \in Nat /\ MaxCumulative \in Nat
  /\ MaxFailures \in Nat /\ LongAgo \in Nat
  /\ LongAgo > MaxCumulative /\ LongAgo > Delay
  /\ None \notin Tasks
BY ScheduledAssumption DEF LongAgo, Tasks, None

LEMMA CappedRange == \A d \in Nat : Capped(d) \in 0..MaxCumulative
BY MinOfTwo, Numbers DEF Capped

LEMMA BackoffRange == \A n \in Nat : Backoff(n) \in Nat
<1> SUFFICES ASSUME NEW n \in Nat PROVE Backoff(n) \in Nat
  OBVIOUS
<1>1. Period * n \in Nat
  BY Numbers
<1> QED
  BY <1>1, Numbers DEF Backoff
-----------------------------------------------------------------------------
(***************************************************************************)
(* cancel().                                                               *)
(***************************************************************************)
\* What cancel() leaves alone.
SameClock(y, x) ==
  /\ y.freshStart = x.freshStart /\ y.cumulative = x.cumulative /\ y.failures = x.failures
  /\ y.age = x.age /\ y.since = x.since /\ y.iterating = x.iterating

SameTimers(y, x) == y.delayTask = x.delayTask /\ y.timer = x.timer /\ y.left = x.left

LEMMA CancelTaskEffect ==
  ASSUME NEW x \in Services, NEW y, y = CancelTask(x)
  PROVE  /\ y \in Services
         /\ y.task = x.task /\ y.body = x.body /\ SameClock(y, x) /\ SameTimers(y, x)
         /\ y.stop = x.stop /\ y.revived = x.revived
         /\ \/ (x.task = None \/ x.future[x.task] # "NEW") /\ y.state = x.state /\ y.future = x.future
            \/ /\ x.task \in Tasks /\ x.future[x.task] = "NEW" /\ y.state = "CANCELLED"
               /\ y.future = [x.future EXCEPT ![x.task] = "CANCELLED"]
<1>1. CASE x.task # None /\ x.future[x.task] = "NEW"
  <2>1. PICK k \in Tasks, s \in States, c \in Futures : k = x.task /\ s = "CANCELLED" /\ c = s
    BY <1>1 DEF Services, States, Futures
  <2>2. y = [x EXCEPT !.future[k] = c, !.state = s]
    BY <1>1, <2>1 DEF CancelTask
  <2>3. [x EXCEPT !.future[k] = c, !.state = s] \in Services
    BY Zenon DEF Services
  <2>4. SameClock(y, x) /\ SameTimers(y, x) /\ y.stop = x.stop /\ y.revived = x.revived
    BY <2>2, Zenon DEF Services, SameClock, SameTimers
  <2>5. y.task = x.task /\ y.body = x.body /\ y.state = s /\ y.future = [x.future EXCEPT ![k] = c]
    BY <2>2, SMT DEF Services
  <2> QED
    BY <1>1, <2>1, <2>2, <2>3, <2>4, <2>5
<1>2. CASE ~ (x.task # None /\ x.future[x.task] = "NEW")
  BY <1>2 DEF CancelTask, Services, SameClock, SameTimers
<1> QED
  BY <1>1, <1>2

\* Service.cancel: afterwards the current task, if any, will not run.
LEMMA SuperCancelEffect ==
  ASSUME NEW x \in Services, NEW y, y = SuperCancel(x)
  PROVE  /\ y \in Services
         /\ y.task = x.task /\ y.body = x.body /\ SameClock(y, x) /\ SameTimers(y, x)
         /\ y.stop = x.stop /\ y.revived = x.revived
         /\ \/ x.task = None /\ x.state = "SUCCEEDED" /\ y.state = x.state /\ y.future = x.future
            \/ x.task = None /\ y.state = "CANCELLED" /\ y.future = x.future
            \/ x.task \in Tasks /\ x.future[x.task] # "NEW" /\ y.state = x.state /\ y.future = x.future
            \/ /\ x.task \in Tasks /\ x.future[x.task] = "NEW" /\ y.state = "CANCELLED"
               /\ y.future = [x.future EXCEPT ![x.task] = "CANCELLED"]
<1>1. CASE x.task # None
  <2>1. y = CancelTask(x) /\ x.task \in Tasks
    BY <1>1 DEF SuperCancel, Services
  <2> QED
    BY <1>1, <2>1, CancelTaskEffect
<1>2. CASE x.task = None /\ x.state = "SUCCEEDED"
  BY <1>2 DEF SuperCancel, SameClock, SameTimers
<1>3. CASE x.task = None /\ x.state # "SUCCEEDED"
  <2>1. PICK c \in States : c = "CANCELLED"
    BY DEF States
  <2>2. y = [x EXCEPT !.state = c]
    BY <1>3, <2>1 DEF SuperCancel
  <2>3. y \in Services /\ SameClock(y, x) /\ SameTimers(y, x) /\ y.stop = x.stop /\ y.revived = x.revived
    BY <2>2, Zenon DEF Services, SameClock, SameTimers
  <2>4. y.task = x.task /\ y.body = x.body /\ y.state = c /\ y.future = x.future
    BY <2>2, SMT DEF Services
  <2> QED
    BY <1>3, <2>1, <2>3, <2>4
<1> QED
  BY <1>1, <1>2, <1>3

LEMMA CancelTimerEffect ==
  ASSUME NEW x \in Services, NEW y, y = CancelTimer(x)
  PROVE  /\ y \in Services /\ SameClock(y, x)
         /\ y.state = x.state /\ y.task = x.task /\ y.future = x.future /\ y.body = x.body
         /\ \A k \in Tasks : \/ y.timer[k] = x.timer[k] /\ y.left[k] = x.left[k]
                             \/ y.timer[k] = "none"
<1>1. CASE x.delayTask # None /\ x.timer[x.delayTask] = "waiting"
  <2>1. PICK d \in Tasks, c \in Timers, z \in 0..LongAgo : d = x.delayTask /\ c = "none" /\ z = 0
    BY <1>1, Numbers DEF Services, Timers
  <2>2. y = [x EXCEPT !.timer[d] = c, !.left[d] = z]
    BY <1>1, <2>1 DEF CancelTimer
  <2>a. [x EXCEPT !.timer[d] = c, !.left[d] = z] \in Services
    BY Zenon DEF Services
  <2>3. y \in Services
    BY <2>2, <2>a
  <2>6. SameClock(y, x)
    BY <2>2, Zenon DEF Services, SameClock
  <2>4. /\ y.state = x.state /\ y.task = x.task /\ y.future = x.future /\ y.body = x.body
        /\ y.timer = [x.timer EXCEPT ![d] = c] /\ y.left = [x.left EXCEPT ![d] = z]
    BY <2>2, SMT DEF Services
  <2>5. x.timer \in [Tasks -> Timers] /\ x.left \in [Tasks -> 0..LongAgo]
    BY DEF Services
  <2> QED
    BY <2>1, <2>3, <2>4, <2>5, <2>6
<1>2. CASE ~ (x.delayTask # None /\ x.timer[x.delayTask] = "waiting")
  BY <1>2 DEF CancelTimer, SameClock
<1> QED
  BY <1>1, <1>2

\* No new timer, and those that stay wait as long as they did.
FewerTimers(y, x) ==
  \A k \in Tasks : \/ y.timer[k] = x.timer[k] /\ y.left[k] = x.left[k]
                   \/ y.timer[k] = "none"

LEMMA CancelEffect ==
  ASSUME NEW x \in Services, NEW y, y = Cancel(x)
  PROVE  /\ y \in Services /\ SameClock(y, x)
         /\ y.task = x.task /\ y.body = x.body /\ FewerTimers(y, x)
         /\ y.stop = TRUE /\ y.revived = FALSE
         /\ \/ x.task = None /\ x.state = "SUCCEEDED" /\ y.state = x.state /\ y.future = x.future
            \/ x.task = None /\ y.state = "CANCELLED" /\ y.future = x.future
            \/ x.task \in Tasks /\ x.future[x.task] # "NEW" /\ y.state = x.state /\ y.future = x.future
            \/ /\ x.task \in Tasks /\ x.future[x.task] = "NEW" /\ y.state = "CANCELLED"
               /\ y.future = [x.future EXCEPT ![x.task] = "CANCELLED"]
<1> DEFINE u == SuperCancel(x)
           v == CancelTimer(u)
<1>1. u \in Services
  BY SuperCancelEffect
<1>2. v \in Services
  BY <1>1, CancelTimerEffect
<1>3. y = [v EXCEPT !.stop = TRUE, !.delayTask = None, !.revived = FALSE]
  BY DEF Cancel
<1> HIDE DEF v
<1>4. [v EXCEPT !.stop = TRUE, !.delayTask = None, !.revived = FALSE] \in Services
  BY <1>2, Zenon DEF Services
<1>5. SameClock(y, v) /\ y.stop = TRUE /\ y.revived = FALSE
  BY <1>2, <1>3, Zenon DEF Services, SameClock
<1>6. /\ y.state = v.state /\ y.task = v.task /\ y.future = v.future /\ y.body = v.body
      /\ y.timer = v.timer /\ y.left = v.left
  BY <1>2, <1>3, SMT DEF Services
<1> USE DEF v
<1>7. /\ SameClock(v, u) /\ v.state = u.state /\ v.task = u.task /\ v.future = u.future
      /\ v.body = u.body /\ FewerTimers(v, u)
  BY <1>1, CancelTimerEffect DEF FewerTimers
<1> HIDE DEF v
<1>8. /\ u.task = x.task /\ u.body = x.body /\ SameClock(u, x) /\ SameTimers(u, x)
      /\ \/ x.task = None /\ x.state = "SUCCEEDED" /\ u.state = x.state /\ u.future = x.future
         \/ x.task = None /\ u.state = "CANCELLED" /\ u.future = x.future
         \/ x.task \in Tasks /\ x.future[x.task] # "NEW" /\ u.state = x.state /\ u.future = x.future
         \/ /\ x.task \in Tasks /\ x.future[x.task] = "NEW" /\ u.state = "CANCELLED"
            /\ u.future = [x.future EXCEPT ![x.task] = "CANCELLED"]
  BY SuperCancelEffect
<1> HIDE DEF u
<1>9. SameClock(y, x)
  BY <1>5, <1>7, <1>8, Zenon DEF SameClock
<1>10. FewerTimers(y, x)
  BY <1>6, <1>7, <1>8 DEF FewerTimers, SameTimers
<1> QED
  BY <1>3, <1>4, <1>5, <1>6, <1>7, <1>8, <1>9, <1>10

LEMMA CancelKeeps ==
  ASSUME NEW x, Base(x), NEW y, y = Cancel(x)
  PROVE  Base(y)
<1>1. /\ y \in Services /\ SameClock(y, x)
      /\ y.task = x.task /\ y.body = x.body /\ FewerTimers(y, x)
      /\ y.stop = TRUE /\ y.revived = FALSE
  BY CancelEffect DEF Base
<1>2. \/ x.task = None /\ x.state = "SUCCEEDED" /\ y.state = x.state /\ y.future = x.future
      \/ x.task = None /\ y.state = "CANCELLED" /\ y.future = x.future
      \/ x.task \in Tasks /\ x.future[x.task] # "NEW" /\ y.state = x.state /\ y.future = x.future
      \/ /\ x.task \in Tasks /\ x.future[x.task] = "NEW" /\ y.state = "CANCELLED"
         /\ y.future = [x.future EXCEPT ![x.task] = "CANCELLED"]
  BY CancelEffect DEF Base
<1>3. x \in Services /\ x.future \in [Tasks -> Futures]
  BY DEF Base, Services
<1>4. \A k \in Tasks : x.future[k] # "NEW" => y.future[k] # "NEW"
  BY <1>2, <1>3
<1>5. y.task \in Tasks => y.future[y.task] # "NEW"
  BY <1>1, <1>2, <1>3, Numbers
<1>6. StateInv(y)
  BY <1>1, <1>2, <1>3, Numbers DEF Base, StateInv
<1>7. TimerInv(y)
  BY <1>1 DEF Base, TimerInv, FewerTimers
<1>8. AloneInv(y)
  BY <1>1, <1>4 DEF Base, AloneInv, FewerTimers
<1>9. PaceInv(y)
  BY <1>1, <1>5 DEF Base, PaceInv, Ran, Waits, SameClock
<1>10. StopInv(y)
  BY <1>1, <1>5 DEF Base, StopInv, Waits
<1> QED
  BY <1>1, <1>6, <1>7, <1>8, <1>9, <1>10 DEF Base
-----------------------------------------------------------------------------
(***************************************************************************)
(* reset().                                                                *)
(***************************************************************************)
LEMMA SuperResetKeeps ==
  ASSUME NEW x, Base(x), x.state \notin Active, NEW z \in SuperReset(x)
  PROVE  /\ Base(z) /\ z.task = None /\ SameClock(z, x)
         /\ \/ z.state = "READY" /\ z.stop = x.stop /\ z.revived = x.revived
            \/ z.state = "CANCELLED" /\ z.stop = TRUE
<1>0. x \in Services
  BY DEF Base
<1> DEFINE y == [x EXCEPT !.task = None, !.state = "READY"]
<1>1. PICK n \in Tasks \cup {None}, s \in States : n = None /\ s = "READY"
  BY DEF States
<1>2. y = [x EXCEPT !.task = n, !.state = s]
  BY <1>1
<1>3. [x EXCEPT !.task = n, !.state = s] \in Services
  BY <1>0, Zenon DEF Services
<1>4. y \in Services
  BY <1>2, <1>3
<1>5. SameClock(y, x) /\ y.stop = x.stop /\ y.revived = x.revived
  BY <1>0, Zenon DEF Services, SameClock
<1>6. /\ y.task = None /\ y.state = "READY" /\ y.future = x.future /\ y.body = x.body
      /\ y.timer = x.timer /\ y.left = x.left
  BY <1>0, SMT DEF Services
<1>7. z = y \/ z = Cancel(y)
  BY DEF SuperReset, Handled
<1> HIDE DEF y
<1>8. Base(y)
  <2>1. ASSUME x.task \in Tasks,
               x.timer[x.task] # "none" \/ x.body[x.task] \in {"handed", "call"}
        PROVE  x.future[x.task] # "NEW"
    <3>1. x.state \in {"CANCELLED", "SUCCEEDED", "FAILED"}
      BY <1>0, <2>1, Numbers DEF Base, StateInv, Services, States, Active
    <3> QED
      BY <2>1, <3>1 DEF Base, StateInv, TimerInv
  <2>2. AloneInv(y)
    BY <1>6, <2>1 DEF Base, AloneInv
  <2>3. StateInv(y) /\ TimerInv(y)
    BY <1>6 DEF Base, StateInv, TimerInv
  <2>4. PaceInv(y)
    BY <1>5, <1>6, Numbers DEF Base, PaceInv, Ran, Waits, SameClock
  <2>5. StopInv(y)
    BY <1>6, Numbers DEF StopInv, Waits
  <2> QED
    BY <1>4, <2>2, <2>3, <2>4, <2>5 DEF Base
<1>9. CASE z = y
  BY <1>5, <1>6, <1>8, <1>9
<1>10. CASE z = Cancel(y)
  <2>1. Base(z)
    BY <1>8, <1>10, CancelKeeps
  <2>2. SameClock(z, y) /\ z.task = None /\ z.state = "CANCELLED" /\ z.stop = TRUE
    BY <1>4, <1>6, <1>10, CancelEffect, Numbers
  <2>3. SameClock(z, x)
    BY <1>5, <2>2, Zenon DEF SameClock
  <2> QED
    BY <2>1, <2>2, <2>3
<1> QED
  BY <1>7, <1>9, <1>10

LEMMA ResetKeeps ==
  ASSUME NEW x, Base(x), x.state \notin Active, NEW z \in Reset(x)
  PROVE  /\ Base(z) /\ z.stop = FALSE /\ z.failures = 0 /\ z.iterating = FALSE
         /\ z.task = None /\ z.state \in {"READY", "CANCELLED"}
<1>1. PICK y \in SuperReset(x) :
        z = [y EXCEPT !.stop = FALSE, !.cumulative = Capped(Period), !.failures = 0,
                      !.age = LongAgo, !.freshStart = TRUE, !.iterating = FALSE,
                      !.revived = FALSE]
  BY DEF Reset
<1>2. Base(y) /\ y.task = None /\ y.state \in {"READY", "CANCELLED"} /\ y \in Services
  BY SuperResetKeeps DEF Base
<1>3. PICK c \in 0..MaxCumulative, n \in Nat, a \in 0..LongAgo :
        c = Capped(Period) /\ n = 0 /\ a = LongAgo
  BY CappedRange, Numbers
<1>4. z = [y EXCEPT !.stop = FALSE, !.cumulative = c, !.failures = n, !.age = a,
                    !.freshStart = TRUE, !.iterating = FALSE, !.revived = FALSE]
  BY <1>1, <1>3
<1>5. [y EXCEPT !.stop = FALSE, !.cumulative = c, !.failures = n, !.age = a,
                !.freshStart = TRUE, !.iterating = FALSE, !.revived = FALSE] \in Services
  BY <1>2, Zenon DEF Services
<1>6. z.stop = FALSE /\ z.iterating = FALSE
  BY <1>2, <1>4, Zenon DEF Services
<1>7. /\ z.state = y.state /\ z.task = y.task /\ z.failures = n /\ z.future = y.future
      /\ z.body = y.body /\ z.timer = y.timer /\ z.left = y.left
  BY <1>2, <1>4, SMT DEF Services
<1>8. StateInv(z) /\ TimerInv(z) /\ AloneInv(z)
  BY <1>2, <1>7 DEF Base, StateInv, TimerInv, AloneInv
<1>9. PaceInv(z) /\ StopInv(z)
  BY <1>2, <1>6, <1>7, Numbers DEF PaceInv, StopInv, Ran, Waits
<1> QED
  BY <1>2, <1>3, <1>4, <1>5, <1>6, <1>7, <1>8, <1>9 DEF Base
-----------------------------------------------------------------------------
(***************************************************************************)
(* start(): a task is handed to the executor at once, or given a timer.    *)
(***************************************************************************)
\* The executor has been given the current task and will run it.
Hands(x) == x.task \in Tasks /\ x.body[x.task] = "handed" /\ x.future[x.task] = "NEW"

\* What executeTaskNow does to everything but the timers.
Handed(y, x, k) ==
  /\ y.age = 0 /\ y.freshStart = FALSE
  /\ y.since = x.since \/ k = x.task
  /\ y.state = x.state /\ y.task = x.task /\ y.future = x.future
  /\ y.body = [x.body EXCEPT ![k] = "handed"]
  /\ y.cumulative = x.cumulative /\ y.failures = x.failures /\ y.iterating = x.iterating
  /\ y.stop = x.stop /\ y.revived = x.revived

\* Whether or not it is the timer's runnable that calls it.
LEMMA HandedKeeps ==
  ASSUME NEW x, Base(x), NEW k \in Tasks, x.body[k] = "new",
         k = x.task \/ x.future[k] # "NEW",
         NEW y \in Services, Handed(y, x, k), y.timer[k] = "none",
         \A j \in Tasks \ {k} : y.timer[j] = x.timer[j] /\ y.left[j] = x.left[j]
  PROVE  Base(y)
<1>1. x.body \in [Tasks -> Bodies] /\ y.since \in Nat
  BY Numbers DEF Base, Services
<1>2. \A j \in Tasks : y.body[j] = IF j = k THEN "handed" ELSE x.body[j]
  BY <1>1 DEF Handed
<1>a. y.state = x.state /\ y.task = x.task /\ y.future = x.future
  BY DEF Handed
<1>3. StateInv(y)
  BY <1>2, <1>a DEF Base, StateInv
<1>4. TimerInv(y)
  BY <1>2 DEF Base, TimerInv
<1>5. AloneInv(y)
  BY <1>2, <1>a DEF Base, AloneInv
<1>6. Waits(y) => Waits(x) /\ k # x.task /\ y.left[y.task] = x.left[x.task]
  BY <1>a DEF Waits
<1>7. PaceInv(y)
  BY <1>1, <1>6 DEF Base, PaceInv, Handed
<1>8. StopInv(y)
  BY <1>6 DEF Base, StopInv, Handed
<1> QED
  BY <1>3, <1>4, <1>5, <1>7, <1>8 DEF Base

LEMMA ExecuteTaskNowEffect ==
  ASSUME NEW x \in Services, NEW k \in Tasks, NEW y, y = ExecuteTaskNow(x, k)
  PROVE  y \in Services /\ Handed(y, x, k) /\ SameTimers(y, x)
<1>1. PICK a \in 0..LongAgo, b \in Bodies : a = 0 /\ b = "handed"
  BY Numbers DEF Bodies
<1>2. PICK s \in 0..LongAgo : s = IF k = x.task /\ x.future[k] = "NEW" THEN 0 ELSE x.since
  BY Numbers DEF Services
<1>3. y = [x EXCEPT !.age = a, !.freshStart = FALSE, !.body[k] = b, !.since = s]
  BY <1>1, <1>2 DEF ExecuteTaskNow
<1>4. [x EXCEPT !.age = a, !.freshStart = FALSE, !.body[k] = b, !.since = s] \in Services
  BY Zenon DEF Services
<1>5. /\ y.freshStart = FALSE /\ y.iterating = x.iterating /\ y.stop = x.stop
      /\ y.revived = x.revived /\ SameTimers(y, x)
  BY <1>3, Zenon DEF Services, SameTimers
<1>6. /\ y.age = a /\ y.since = s /\ y.state = x.state /\ y.task = x.task /\ y.future = x.future
      /\ y.body = [x.body EXCEPT ![k] = b]
      /\ y.cumulative = x.cumulative /\ y.failures = x.failures
  BY <1>3, SMT DEF Services
<1> QED
  BY <1>1, <1>2, <1>3, <1>4, <1>5, <1>6 DEF Handed

LEMMA ExecuteTaskNowKeeps ==
  ASSUME NEW y, Base(y), y.task \in Tasks, y.body[y.task] = "new", y.timer[y.task] = "none",
         y.stop /\ y.future[y.task] = "NEW" => y.revived,
         NEW z, z = ExecuteTaskNow(y, y.task)
  PROVE  /\ Base(z) /\ z.state = y.state /\ z.failures = y.failures
         /\ z.iterating = y.iterating /\ z.cumulative = y.cumulative
         /\ Hands(z) => (z.stop => z.revived)
<1>1. y \in Services
  BY DEF Base
<1>2. PICK k \in Tasks : k = y.task
  OBVIOUS
<1>3. z \in Services /\ Handed(z, y, k) /\ SameTimers(z, y)
  BY <1>1, <1>2, ExecuteTaskNowEffect
<1>4. /\ y.body[k] = "new" /\ z.timer[k] = "none"
      /\ \A j \in Tasks \ {k} : z.timer[j] = y.timer[j] /\ z.left[j] = y.left[j]
  BY <1>2, <1>3 DEF SameTimers
<1>5. Base(z)
  BY <1>2, <1>3, <1>4, HandedKeeps
<1>6. Hands(z) => y.future[y.task] = "NEW"
  BY <1>3 DEF Hands, Handed
<1>7. Hands(z) => (z.stop => z.revived)
  BY <1>3, <1>6 DEF Handed
<1> QED
  BY <1>3, <1>5, <1>7 DEF Handed

\* schedule: the current task gets a timer that is long enough.
LEMMA ScheduleKeeps ==
  ASSUME NEW x, Base(x), x.task \in Tasks, x.body[x.task] = "new",
         x.stop /\ x.future[x.task] = "NEW" => x.revived,
         NEW d \in 0..LongAgo, x.iterating => x.cumulative <= x.since + d,
         NEW y, y = Schedule(x, x.task, d)
  PROVE  /\ Base(y) /\ y.state = x.state /\ y.failures = x.failures
         /\ y.iterating = x.iterating /\ ~ Hands(y)
<1>0. x \in Services
  BY DEF Base
<1>1. PICK k \in Tasks, w \in Timers : k = x.task /\ w = "waiting"
  BY DEF Timers
<1>2. y = [x EXCEPT !.timer[k] = w, !.left[k] = d, !.delayTask = k]
  BY <1>1 DEF Schedule
<1>3. [x EXCEPT !.timer[k] = w, !.left[k] = d, !.delayTask = k] \in Services
  BY <1>0, Zenon DEF Services
<1>4. /\ y.freshStart = x.freshStart /\ y.iterating = x.iterating /\ y.stop = x.stop
      /\ y.revived = x.revived
  BY <1>0, <1>2, Zenon DEF Services
<1>5. /\ y.age = x.age /\ y.since = x.since /\ y.state = x.state /\ y.task = x.task
      /\ y.future = x.future /\ y.body = x.body /\ y.timer = [x.timer EXCEPT ![k] = w]
      /\ y.left = [x.left EXCEPT ![k] = d] /\ y.cumulative = x.cumulative
      /\ y.failures = x.failures
  BY <1>0, <1>2, SMT DEF Services
<1>6. x.timer \in [Tasks -> Timers] /\ x.left \in [Tasks -> 0..LongAgo]
  BY <1>0 DEF Services
<1>7. \A j \in Tasks : /\ y.timer[j] = IF j = k THEN w ELSE x.timer[j]
                       /\ y.left[j] = IF j = k THEN d ELSE x.left[j]
  BY <1>5, <1>6
<1>8. StateInv(y) /\ TimerInv(y) /\ AloneInv(y)
  BY <1>1, <1>5, <1>7 DEF Base, StateInv, TimerInv, AloneInv
<1>9. PaceInv(y)
  BY <1>1, <1>4, <1>5, <1>7 DEF Base, PaceInv, Ran
<1>10. StopInv(y)
  BY <1>1, <1>4, <1>5 DEF StopInv, Waits
<1> QED
  BY <1>2, <1>3, <1>4, <1>5, <1>8, <1>9, <1>10 DEF Base, Hands

\* executeTask, for a task that was just made current.
LEMMA ExecuteTaskKeeps ==
  ASSUME NEW x, Base(x), x.task \in Tasks, x.body[x.task] = "new", x.timer[x.task] = "none",
         x.stop /\ x.future[x.task] = "NEW" => x.revived,
         NEW z, z = ExecuteTask(x, x.task)
  PROVE  /\ Base(z) /\ z.state = x.state /\ z.failures = x.failures
         /\ z.iterating = x.iterating
         /\ Hands(z) => /\ x.iterating => z.cumulative <= x.since
                        /\ z.stop => z.revived
<1>0. x \in Services
  BY DEF Base
<1>1. ASSUME NEW y, Base(y), y.task = x.task, y.body = x.body, y.timer = x.timer,
             y.future = x.future, y.stop = x.stop, y.revived = x.revived, y.state = x.state,
             y.failures = x.failures, y.iterating = x.iterating, z = ExecuteTaskNow(y, x.task)
      PROVE  /\ Base(z) /\ z.state = x.state /\ z.failures = x.failures
             /\ z.iterating = x.iterating /\ z.cumulative = y.cumulative
             /\ Hands(z) => (z.stop => z.revived)
  <2>1. /\ y.task \in Tasks /\ y.body[y.task] = "new" /\ y.timer[y.task] = "none"
        /\ z = ExecuteTaskNow(y, y.task)
    BY <1>1
  <2>2. y.stop /\ y.future[y.task] = "NEW" => y.revived
    BY <1>1
  <2> QED
    BY <1>1, <2>1, <2>2, ExecuteTaskNowKeeps
<1>2. CASE x.freshStart
  <2>a. ~ x.iterating
    BY <1>2 DEF Base, PaceInv, Ran
  <2> DEFINE y == [x EXCEPT !.cumulative = Capped(Period)]
  <2>1. PICK c \in 0..MaxCumulative : c = Capped(Period)
    BY CappedRange, Numbers
  <2>2. y = [x EXCEPT !.cumulative = c]
    BY <2>1
  <2>3. [x EXCEPT !.cumulative = c] \in Services
    BY <1>0, Zenon DEF Services
  <2>4. /\ y.freshStart = x.freshStart /\ y.iterating = x.iterating /\ y.stop = x.stop
        /\ y.revived = x.revived
    BY <1>0, Zenon DEF Services
  <2>5. /\ y.age = x.age /\ y.since = x.since /\ y.state = x.state /\ y.task = x.task
        /\ y.future = x.future /\ y.body = x.body /\ y.timer = x.timer /\ y.left = x.left
        /\ y.failures = x.failures
    BY <1>0, SMT DEF Services
  <2>6. z = IF Delay = 0 THEN ExecuteTaskNow(y, x.task) ELSE Schedule(y, x.task, Delay)
    BY <1>2 DEF ExecuteTask, ExecuteFresh
  <2>7. y \in Services
    BY <2>2, <2>3
  <2> HIDE DEF y
  <2>8. Base(y)
    <3>1. StateInv(y) /\ TimerInv(y) /\ AloneInv(y)
      BY <2>5 DEF Base, StateInv, TimerInv, AloneInv
    <3>2. PaceInv(y) /\ StopInv(y)
      BY <2>a, <2>4, <2>5 DEF Base, PaceInv, StopInv, Ran, Waits
    <3> QED
      BY <2>7, <3>1, <3>2 DEF Base
  <2>9. CASE Delay = 0
    <3>1. z = ExecuteTaskNow(y, x.task)
      BY <2>6, <2>9
    <3> QED
      BY <1>1, <2>a, <2>4, <2>5, <2>8, <3>1
  <2>10. CASE Delay # 0
    <3>1. z = Schedule(y, y.task, Delay) /\ Delay \in 0..LongAgo
      BY <2>5, <2>6, <2>10, Numbers
    <3> QED
      BY <2>a, <2>4, <2>5, <2>8, <3>1, ScheduleKeeps
  <2> QED
    BY <2>9, <2>10
<1>3. CASE ~ x.freshStart /\ x.age < x.cumulative
  <2>1. /\ x.age \in Nat /\ x.cumulative \in Nat /\ x.since \in Nat
        /\ x.cumulative <= MaxCumulative
    BY <1>0, Numbers DEF Services
  <2>2. z = Schedule(x, x.task, x.cumulative - x.age)
    BY <1>3 DEF ExecuteTask, ExecuteAgain
  <2>3. x.cumulative - x.age \in 0..LongAgo
    BY <1>3, <2>1, Numbers
  <2>4. x.iterating => x.cumulative <= x.since + (x.cumulative - x.age)
    <3>1. x.iterating => x.age <= x.since
      BY DEF Base, PaceInv, Ran
    <3> QED
      BY <2>1, <3>1
  <2> QED
    BY <2>2, <2>3, <2>4, ScheduleKeeps
<1>4. CASE ~ x.freshStart /\ ~ (x.age < x.cumulative)
  <2>1. z = ExecuteTaskNow(x, x.task)
    BY <1>4 DEF ExecuteTask, ExecuteAgain
  <2>2. x.age \in Nat /\ x.cumulative \in Nat /\ x.since \in Nat
    BY <1>0, Numbers DEF Services
  <2>3. x.iterating => x.age <= x.since
    BY DEF Base, PaceInv, Ran
  <2>4. x.iterating => x.cumulative <= x.since
    BY <1>4, <2>2, <2>3
  <2> QED
    BY <1>1, <2>1, <2>4
<1> QED
  BY <1>2, <1>3, <1>4

LEMMA StartKeeps ==
  ASSUME NEW x, Base(x), x.state = "READY", x.stop => x.revived, NEW z \in Start(x)
  PROVE  /\ Base(z) /\ z.state \in {"SCHEDULED", "CANCELLED"} /\ z.failures = x.failures
         /\ z.iterating = x.iterating
         /\ Hands(z) => /\ x.iterating => z.cumulative <= x.since
                        /\ z.stop => z.revived
<1>0. x \in Services
  BY DEF Base
<1>1. PICK k \in Unused(x) : \E w \in Handled(CreateTask(x, k), "SCHEDULED") : z = ExecuteTask(w, k)
  BY DEF Start
<1>2. k \in Tasks /\ x.timer[k] = "none" /\ x.task = None
  BY <1>1 DEF Unused, Base, StateInv
<1> DEFINE y == CreateTask(x, k)
<1>3. PICK s \in States, f \in Futures, b \in Bodies, n \in Tasks \cup {None} :
        s = "SCHEDULED" /\ f = "NEW" /\ b = "new" /\ n = k
  BY <1>2 DEF States, Futures, Bodies
<1>4. y = [x EXCEPT !.task = n, !.state = s, !.future[k] = f, !.body[k] = b]
  BY <1>3 DEF CreateTask
<1> HIDE DEF y
<1>5. [x EXCEPT !.task = n, !.state = s, !.future[k] = f, !.body[k] = b] \in Services
  BY <1>0, <1>2, Zenon DEF Services
<1>6. SameClock(y, x) /\ y.stop = x.stop /\ y.revived = x.revived
  BY <1>0, <1>4, Zenon DEF Services, SameClock
<1>7. /\ y.state = s /\ y.task = n /\ y.timer = x.timer /\ y.left = x.left
      /\ y.future = [x.future EXCEPT ![k] = f] /\ y.body = [x.body EXCEPT ![k] = b]
  BY <1>0, <1>4, SMT DEF Services
<1>8. x.future \in [Tasks -> Futures] /\ x.body \in [Tasks -> Bodies]
  BY <1>0 DEF Services
<1>9. \A j \in Tasks : /\ y.future[j] = IF j = k THEN "NEW" ELSE x.future[j]
                       /\ y.body[j] = IF j = k THEN "new" ELSE x.body[j]
  BY <1>3, <1>7, <1>8
<1>10. Base(y)
  <2>1. StateInv(y) /\ TimerInv(y) /\ AloneInv(y)
    BY <1>2, <1>3, <1>7, <1>9, Numbers DEF Base, StateInv, TimerInv, AloneInv
  <2>2. ~ Waits(y)
    BY <1>2, <1>3, <1>7 DEF Waits
  <2>3. PaceInv(y) /\ StopInv(y)
    BY <1>2, <1>3, <1>6, <1>7, <1>9, <2>2 DEF Base, PaceInv, StopInv, Ran, SameClock
  <2> QED
    BY <1>4, <1>5, <2>1, <2>3 DEF Base
<1>11. PICK w : /\ w = y \/ w = Cancel(y)
                /\ z = ExecuteTask(w, k)
  BY <1>1 DEF Handled, y
<1>12. /\ Base(w) /\ w.task = k /\ w.body[k] = "new" /\ w.timer[k] = "none"
       /\ w.state \in {"SCHEDULED", "CANCELLED"} /\ SameClock(w, x)
       /\ w.stop /\ w.future[k] = "NEW" => w.revived
  <2>1. y \in Services
    BY <1>10 DEF Base
  <2>2. CASE w = y
    BY <1>2, <1>3, <1>6, <1>7, <1>9, <1>10, <2>2
  <2>3. CASE w = Cancel(y)
    <3>1. Base(w)
      BY <1>10, <2>3, CancelKeeps
    <3>a. SameClock(w, y) /\ w.task = y.task /\ w.body = y.body /\ FewerTimers(w, y)
      BY <2>1, <2>3, CancelEffect
    <3>b. w.state = "CANCELLED" /\ w.future = [y.future EXCEPT ![y.task] = "CANCELLED"]
      <4>1. y.task \in Tasks /\ y.task # None /\ y.future[y.task] = "NEW"
        BY <1>2, <1>3, <1>7, <1>9, Numbers
      <4> QED
        BY <2>1, <2>3, <4>1, CancelEffect
    <3>c. y.future \in [Tasks -> Futures]
      BY <2>1 DEF Services
    <3>2. /\ SameClock(w, y) /\ w.task = k /\ w.body[k] = "new" /\ w.state = "CANCELLED"
          /\ w.timer[k] = "none" /\ w.future[k] # "NEW"
      BY <1>2, <1>3, <1>7, <1>9, <3>a, <3>b, <3>c DEF FewerTimers
    <3>3. SameClock(w, x)
      BY <1>6, <3>2, Zenon DEF SameClock
    <3> QED
      BY <3>1, <3>2, <3>3
  <2> QED
    BY <1>11, <2>2, <2>3
<1>13. w.failures = x.failures /\ w.iterating = x.iterating /\ w.since = x.since
  BY <1>12 DEF SameClock
<1> QED
  BY <1>2, <1>11, <1>12, <1>13, ExecuteTaskKeeps
-----------------------------------------------------------------------------
(***************************************************************************)
(* restart(), succeeded() and failed().                                    *)
(***************************************************************************)
SameTask(y, x) ==
  /\ y.state = x.state /\ y.task = x.task /\ y.future = x.future /\ y.body = x.body
  /\ y.timer = x.timer /\ y.left = x.left /\ y.age = x.age /\ y.since = x.since

\* While no task waits, the period, the failures and the flags may change.
LEMMA TouchKeeps ==
  ASSUME NEW x, Base(x), ~ Waits(x), NEW y \in Services, SameTask(y, x),
         y.iterating => Ran(x), y.freshStart = x.freshStart
  PROVE  Base(y)
<1>1. StateInv(y) /\ TimerInv(y) /\ AloneInv(y)
  BY DEF SameTask, Base, StateInv, TimerInv, AloneInv
<1>2. ~ Waits(y)
  BY DEF SameTask, Waits
<1>3. Ran(y) => Ran(x)
  BY DEF SameTask, Ran
<1>4. PaceInv(y) /\ StopInv(y)
  BY <1>2, <1>3 DEF SameTask, Base, PaceInv, StopInv
<1> QED
  BY <1>1, <1>4 DEF Base

\* A service started by the application or by itself.
Started(z, x) ==
  /\ Base(z) /\ z.state \in {"SCHEDULED", "CANCELLED"} /\ z.failures = x.failures
  /\ z.iterating = x.iterating
  /\ Hands(z) => /\ x.iterating => z.cumulative <= x.since
                 /\ z.stop => z.revived

\* The same, when an earlier handler may have cancelled.
LEMMA StartAfterReset ==
  ASSUME NEW x, Base(x), x.task = None, x.state \in {"READY", "CANCELLED"},
         x.state = "READY" => (x.stop => x.revived), NEW z \in Start(x)
  PROVE  Started(z, x)
<1>1. CASE x.state = "READY"
  BY <1>1, StartKeeps DEF Started
<1>2. CASE x.state = "CANCELLED"
  <2>1. z = x
    BY <1>2 DEF Start
  <2>2. ~ Hands(z)
    BY <2>1, Numbers DEF Hands
  <2> QED
    BY <1>2, <2>1, <2>2 DEF Started
<1> QED
  BY <1>1, <1>2

LEMMA RestartKeeps ==
  ASSUME NEW x, Base(x), NEW z \in Restart(x)
  PROVE  /\ Base(z) /\ z.state \in {"SCHEDULED", "CANCELLED"} /\ z.failures = 0
         /\ z.iterating = FALSE
         /\ Hands(z) => (z.stop => z.revived)
<1>0. x \in Services
  BY DEF Base
<1> DEFINE y == IF x.task # None
                THEN [CancelTask(x) EXCEPT !.task = None, !.state = "CANCELLED"]
                ELSE x
<1>1. Base(y) /\ y.state \notin Active
  <2>1. CASE x.task = None
    <3>1. x.state \notin Active
      BY <2>1, Numbers DEF Base, StateInv, Active
    <3> QED
      BY <2>1, <3>1
  <2>2. CASE x.task # None
    <3> DEFINE c == CancelTask(x)
    <3>1. /\ c \in Services
          /\ c.task = x.task /\ c.body = x.body /\ SameClock(c, x) /\ SameTimers(c, x)
          /\ x.task \in Tasks /\ x.future \in [Tasks -> Futures]
      BY <1>0, <2>2, CancelTaskEffect DEF Services
    <3>2. \/ x.future[x.task] # "NEW" /\ c.future = x.future
          \/ c.future = [x.future EXCEPT ![x.task] = "CANCELLED"]
      BY <1>0, <2>2, CancelTaskEffect
    <3> HIDE DEF c
    <3>3. PICK n \in Tasks \cup {None}, s \in States : n = None /\ s = "CANCELLED"
      BY DEF States
    <3>4. y = [c EXCEPT !.task = n, !.state = s]
      BY <2>2, <3>3 DEF c
    <3>5. [c EXCEPT !.task = n, !.state = s] \in Services
      BY <3>1, Zenon DEF Services
    <3> HIDE DEF y
    <3>6. SameClock(y, c) /\ SameTimers(y, c)
      BY <3>1, <3>4, Zenon DEF Services, SameClock, SameTimers
    <3>7. y.task = None /\ y.state = "CANCELLED" /\ y.future = c.future /\ y.body = c.body
      BY <3>1, <3>3, <3>4, SMT DEF Services
    <3>8. AloneInv(y)
      <4>1. \A k \in Tasks : \/ y.future[k] = x.future[k] /\ k # x.task
                             \/ y.future[k] # "NEW"
        BY <3>1, <3>2, <3>7
      <4>2. y.timer = x.timer /\ y.body = x.body
        BY <3>1, <3>6, <3>7 DEF SameTimers
      <4> QED
        BY <4>1, <4>2 DEF Base, AloneInv
    <3>9. StateInv(y)
      BY <3>7, Numbers DEF StateInv
    <3>10. TimerInv(y)
      BY <3>1, <3>6, <3>7 DEF Base, TimerInv, SameTimers
    <3>11. SameClock(y, x)
      BY <3>1, <3>6, Zenon DEF SameClock
    <3>12. PaceInv(y) /\ StopInv(y)
      BY <3>7, <3>11, Numbers DEF Base, PaceInv, StopInv, Ran, Waits, SameClock
    <3> QED
      BY <3>4, <3>5, <3>7, <3>8, <3>9, <3>10, <3>12 DEF Base, Active
  <2> QED
    BY <2>1, <2>2
<1>2. PICK r \in Reset(y) : z \in Start(r)
  BY DEF Restart
<1> HIDE DEF y
<1>3. /\ Base(r) /\ r.stop = FALSE /\ r.failures = 0 /\ r.iterating = FALSE
      /\ r.task = None /\ r.state \in {"READY", "CANCELLED"}
  BY <1>1, <1>2, ResetKeeps
<1>4. Started(z, r)
  BY <1>2, <1>3, StartAfterReset
<1> QED
  BY <1>3, <1>4 DEF Started

LEMMA IterateKeeps ==
  ASSUME NEW x, Base(x), x.state \notin Active, Ran(x), x.stop => x.revived, NEW z \in Iterate(x)
  PROVE  /\ Base(z) /\ z.state \in {"SCHEDULED", "CANCELLED"} /\ z.failures = x.failures
         /\ z.iterating = TRUE
         /\ Hands(z) => z.cumulative <= x.since /\ (z.stop => z.revived)
<1>1. PICK y \in SuperReset(x) : z \in Start([y EXCEPT !.iterating = TRUE])
  BY DEF Iterate
<1>2. /\ Base(y) /\ y.task = None /\ SameClock(y, x)
      /\ \/ y.state = "READY" /\ y.stop = x.stop /\ y.revived = x.revived
         \/ y.state = "CANCELLED" /\ y.stop = TRUE
  BY SuperResetKeeps
<1>3. y \in Services /\ y.state \in {"READY", "CANCELLED"}
  BY <1>2 DEF Base
<1> DEFINE w == [y EXCEPT !.iterating = TRUE]
<1>4. w \in Services /\ w.iterating = TRUE
  BY <1>3, Zenon DEF Services
<1>5. w.stop = y.stop /\ w.revived = y.revived /\ w.freshStart = y.freshStart
  BY <1>3, Zenon DEF Services
<1>6. SameTask(w, y) /\ w.failures = y.failures
  BY <1>3, SMT DEF Services, SameTask
<1> HIDE DEF w
<1>7. Base(w)
  <2>1. x.age <= x.since /\ ~ x.freshStart
    BY DEF Base, PaceInv
  <2>2. StateInv(w) /\ TimerInv(w) /\ AloneInv(w)
    BY <1>2, <1>6 DEF SameTask, Base, StateInv, TimerInv, AloneInv
  <2>3. ~ Waits(w)
    BY <1>2, <1>6, Numbers DEF SameTask, Waits
  <2>4. w.age <= w.since /\ ~ w.freshStart
    BY <1>2, <1>5, <1>6, <2>1 DEF SameTask, SameClock
  <2>5. PaceInv(w) /\ StopInv(w)
    BY <2>3, <2>4 DEF PaceInv, StopInv
  <2> QED
    BY <1>4, <2>2, <2>5 DEF Base
<1>8. w.task = None /\ w.state = y.state /\ w.since = x.since /\ w.failures = x.failures
  BY <1>2, <1>6 DEF SameTask, SameClock
<1>9. w.state = "READY" => (w.stop => w.revived)
  BY <1>2, <1>5, <1>8, Zenon
<1>10. Started(z, w)
  BY <1>1, <1>3, <1>7, <1>8, <1>9, StartAfterReset DEF w
<1> QED
  BY <1>4, <1>8, <1>10 DEF Started

\* A task that has ended does not wait for a timer.
LEMMA EndedTask ==
  ASSUME NEW x, Base(x), x.task \in Tasks, x.body[x.task] \in {"set", "setException"}
  PROVE  ~ Waits(x) /\ Ran(x)
BY DEF Base, TimerInv, Waits, Ran

LEMMA SucceededKeeps ==
  ASSUME NEW x, Base(x), x.task \in Tasks, x.body[x.task] = "set",
         x.state \in {"SUCCEEDED", "CANCELLED"}, NEW z \in Succeeded(x)
  PROVE  /\ Base(z) /\ z.state \in {"SCHEDULED", "CANCELLED"} /\ z.failures = x.failures
         /\ Hands(z) => ~ x.stop /\ z.cumulative <= x.since
<1>0. x \in Services /\ ~ Waits(x) /\ Ran(x)
  BY EndedTask DEF Base
<1> DEFINE y == [x EXCEPT !.cumulative = Capped(Period)]
<1>1. PICK c \in 0..MaxCumulative : c = Capped(Period)
  BY CappedRange, Numbers
<1>2. y = [x EXCEPT !.cumulative = c]
  BY <1>1
<1>3. [x EXCEPT !.cumulative = c] \in Services
  BY <1>0, Zenon DEF Services
<1>4. y.stop = x.stop /\ y.iterating = x.iterating /\ y.freshStart = x.freshStart
  BY <1>0, Zenon DEF Services
<1>5. SameTask(y, x) /\ y.failures = x.failures
  BY <1>0, SMT DEF Services, SameTask
<1>6. IF x.stop THEN \E w \in SuperReset(y) : z = [w EXCEPT !.state = "CANCELLED"]
                ELSE z \in Iterate(y)
  BY DEF Succeeded
<1>7. y \in Services
  BY <1>2, <1>3
<1> HIDE DEF y
<1>8. Base(y) /\ y.state \notin Active /\ y.since = x.since /\ Ran(y)
  <2>1. Base(y)
    BY <1>0, <1>4, <1>5, <1>7, TouchKeeps
  <2>2. y.state \notin Active /\ y.since = x.since
    BY <1>5 DEF SameTask, Active
  <2>3. Ran(y)
    BY <1>5, <2>1, EndedTask DEF SameTask
  <2> QED
    BY <2>1, <2>2, <2>3
<1>9. CASE ~ x.stop
  <2>1. z \in Iterate(y) /\ ~ y.stop
    BY <1>4, <1>6, <1>9
  <2> QED
    BY <1>5, <1>8, <1>9, <2>1, IterateKeeps
<1>10. CASE x.stop
  <2>1. PICK w \in SuperReset(y) : z = [w EXCEPT !.state = "CANCELLED"]
    BY <1>6, <1>10
  <2>2. Base(w) /\ w.task = None /\ w.failures = x.failures
    BY <1>5, <1>8, SuperResetKeeps DEF SameClock
  <2>3. w \in Services
    BY <2>2 DEF Base
  <2>4. PICK s \in States : s = "CANCELLED"
    BY DEF States
  <2>5. z = [w EXCEPT !.state = s]
    BY <2>1, <2>4
  <2>6. z \in Services /\ SameClock(z, w) /\ z.stop = w.stop /\ z.revived = w.revived
    BY <2>3, <2>5, Zenon DEF Services, SameClock
  <2>7. /\ z.state = s /\ z.task = None /\ z.future = w.future /\ z.body = w.body
        /\ z.timer = w.timer /\ z.left = w.left
    BY <2>2, <2>3, <2>5, SMT DEF Services
  <2>8. StateInv(z) /\ TimerInv(z) /\ AloneInv(z)
    BY <2>2, <2>4, <2>7, Numbers DEF Base, StateInv, TimerInv, AloneInv
  <2>9. PaceInv(z) /\ StopInv(z)
    BY <2>2, <2>6, <2>7, Numbers DEF Base, PaceInv, StopInv, Ran, Waits, SameClock
  <2>10. z.failures = x.failures /\ ~ Hands(z)
    BY <2>2, <2>6, <2>7, Numbers DEF SameClock, Hands
  <2> QED
    BY <2>4, <2>6, <2>7, <2>8, <2>9, <2>10 DEF Base
<1> QED
  BY <1>9, <1>10

LEMMA FailedKeeps ==
  ASSUME NEW x, Base(x), x.task \in Tasks, x.body[x.task] = "setException",
         x.state \in {"FAILED", "CANCELLED"}, NEW z \in Failed(x)
  PROVE  /\ Base(z) /\ RestInv(z)
         /\ Hands(z) => z.cumulative <= x.since /\ (z.stop => z.revived)
<1>0. x \in Services /\ x.failures \in Nat /\ ~ Waits(x) /\ Ran(x)
  BY EndedTask DEF Base, Services
<1> DEFINE n == x.failures + 1
           y == [x EXCEPT !.failures = n, !.revived = x.stop]
           c == Capped(Backoff(n))
           u == [y EXCEPT !.cumulative = c]
<1>1. n \in Nat /\ c \in 0..MaxCumulative /\ x.stop \in BOOLEAN
  BY <1>0, BackoffRange, CappedRange DEF Services
<1>a. y.failures = n
  BY <1>0 DEF Services
<1>2. IF RestartOnFailure /\ MaxFailures > n THEN z \in Iterate(u) ELSE z = y
  <2>1. y = [x EXCEPT !.failures = @ + 1, !.revived = x.stop]
    BY <1>0
  <2> QED
    BY <1>a, <2>1 DEF Failed
<1> HIDE DEF n, c
<1>3. y \in Services
  BY <1>0, <1>1, Zenon DEF Services
<1>4. /\ y.stop = x.stop /\ y.iterating = x.iterating /\ y.freshStart = x.freshStart
      /\ y.revived = x.stop
  BY <1>0, Zenon DEF Services
<1>5. SameTask(y, x)
  BY <1>0, SMT DEF Services, SameTask
<1> HIDE DEF y
<1>6. Base(y)
  BY <1>0, <1>3, <1>4, <1>5, TouchKeeps
<1>7. CASE RestartOnFailure /\ MaxFailures > n
  <2>1. u \in Services
    BY <1>1, <1>3, Zenon DEF Services
  <2>2. /\ u.stop = y.stop /\ u.iterating = y.iterating /\ u.freshStart = y.freshStart
        /\ u.revived = y.revived
    BY <1>3, Zenon DEF Services
  <2>3. SameTask(u, y) /\ u.failures = y.failures
    BY <1>3, SMT DEF Services, SameTask
  <2>4. z \in Iterate(u)
    BY <1>2, <1>7
  <2> HIDE DEF u
  <2>5. ~ Waits(y) /\ Ran(y)
    BY <1>5, <1>6, EndedTask DEF SameTask
  <2>6. Base(u)
    BY <1>6, <2>1, <2>2, <2>3, <2>5, TouchKeeps
  <2>7. Ran(u)
    BY <1>5, <2>3, <2>6, EndedTask DEF SameTask
  <2>8. u.state \notin Active /\ u.since = x.since /\ u.failures = n
    BY <1>a, <1>5, <2>3 DEF SameTask, Active
  <2>9. u.stop => u.revived
    BY <1>4, <2>2, Zenon
  <2>10. /\ Base(z) /\ z.state \in {"SCHEDULED", "CANCELLED"} /\ z.failures = n
         /\ Hands(z) => z.cumulative <= x.since /\ (z.stop => z.revived)
    BY <2>4, <2>6, <2>7, <2>8, <2>9, IterateKeeps
  <2>11. ~ AtLimit(z)
    BY <1>1, <1>7, <2>10, Numbers DEF AtLimit
  <2> QED
    BY <2>10, <2>11 DEF RestInv
<1>8. CASE ~ (RestartOnFailure /\ MaxFailures > n)
  <2>1. z = y
    BY <1>2, <1>8
  <2>2. z.state \in {"FAILED", "CANCELLED"} /\ z.failures = n /\ ~ Hands(z)
    BY <1>a, <1>5, <2>1 DEF SameTask, Hands
  <2>3. RestInv(z)
    BY <1>1, <1>8, <2>2, Numbers DEF RestInv
  <2> QED
    BY <1>6, <2>1, <2>2, <2>3
<1> QED
  BY <1>7, <1>8
-----------------------------------------------------------------------------
(***************************************************************************)
(* The steps.                                                              *)
(***************************************************************************)
\* What the two action properties ask of a step that runs a task.
RunsWell ==
  Runs => /\ svc'.iterating => svc'.cumulative <= svc.since
          /\ svc.stop /\ svc'.stop => svc'.revived

LEMMA RunsHands ==
  ASSUME Hands(svc') => /\ svc'.iterating => svc'.cumulative <= svc.since
                        /\ svc.stop /\ svc'.stop => svc'.revived
  PROVE  RunsWell
BY DEF RunsWell, Runs, Hands

LEMMA RunsNothing ==
  ASSUME svc'.task = svc.task \/ svc'.task = None,
         \A k \in Tasks : svc'.body[k] = "handed" => svc.body[k] = "handed"
  PROVE  RunsWell
BY Numbers DEF RunsWell, Runs

LEMMA FxStartStep == ASSUME SInv, FxStart PROVE SInv' /\ RunsWell
<1>0. Base(svc) /\ svc \in Services /\ svc.state = "READY" /\ ~ svc.stop /\ ~ AtLimit(svc)
  BY DEF SInv, Base, RestInv, FxStart
<1> DEFINE x == [svc EXCEPT !.iterating = FALSE]
<1>1. x \in Services /\ x.iterating = FALSE /\ x.stop = svc.stop /\ x.freshStart = svc.freshStart
  BY <1>0, Zenon DEF Services
<1>2. SameTask(x, svc) /\ x.failures = svc.failures
  BY <1>0, SMT DEF Services, SameTask
<1>3. svc' \in Start(x)
  BY DEF FxStart
<1> HIDE DEF x
<1>4. ~ Waits(svc)
  BY <1>0, Numbers DEF Base, StateInv, Waits
<1>5. Base(x) /\ x.state = "READY" /\ ~ x.stop
  BY <1>0, <1>1, <1>2, <1>4, TouchKeeps DEF SameTask
<1>6. /\ Base(svc') /\ svc'.state \in {"SCHEDULED", "CANCELLED"} /\ svc'.failures = svc.failures
      /\ svc'.iterating = FALSE /\ (Hands(svc') => (svc'.stop => svc'.revived))
  BY <1>1, <1>2, <1>3, <1>5, StartKeeps
<1>7. RestInv(svc')
  BY <1>0, <1>6 DEF RestInv, AtLimit
<1> QED
  BY <1>6, <1>7, RunsHands DEF SInv

LEMMA FxResetStep == ASSUME SInv, FxReset PROVE SInv' /\ RunsWell
<1>1. /\ Base(svc') /\ svc'.stop = FALSE /\ svc'.failures = 0 /\ svc'.iterating = FALSE
      /\ svc'.task = None /\ svc'.state \in {"READY", "CANCELLED"}
  BY ResetKeeps DEF SInv, FxReset
<1>2. RestInv(svc')
  BY <1>1 DEF RestInv, AtLimit
<1>3. ~ Hands(svc')
  BY <1>1, Numbers DEF Hands
<1> QED
  BY <1>1, <1>2, <1>3, RunsHands DEF SInv

LEMMA FxRestartStep == ASSUME SInv, FxRestart PROVE SInv' /\ RunsWell
<1>1. /\ Base(svc') /\ svc'.state \in {"SCHEDULED", "CANCELLED"} /\ svc'.failures = 0
      /\ svc'.iterating = FALSE /\ (Hands(svc') => (svc'.stop => svc'.revived))
  BY RestartKeeps DEF SInv, FxRestart
<1>2. RestInv(svc')
  BY <1>1 DEF RestInv, AtLimit
<1> QED
  BY <1>1, <1>2, RunsHands DEF SInv

LEMMA FxCancelStep == ASSUME SInv, FxCancel PROVE SInv' /\ RunsWell
<1>1. Base(svc) /\ svc \in Services /\ svc' = Cancel(svc)
  BY DEF SInv, Base, FxCancel
<1>2. Base(svc')
  BY <1>1, CancelKeeps
<1>3. /\ SameClock(svc', svc) /\ svc'.task = svc.task /\ svc'.body = svc.body
      /\ svc'.state = svc.state \/ svc'.state = "CANCELLED"
  BY <1>1, CancelEffect
<1>4. svc.state = "READY" => svc'.state = "CANCELLED"
  <2>1. svc.state = "READY" => svc.task = None
    BY <1>1 DEF Base, StateInv
  <2> QED
    BY <1>1, <2>1, CancelEffect, Numbers
<1>5. RestInv(svc')
  BY <1>3, <1>4 DEF SInv, RestInv, AtLimit, SameClock
<1> QED
  BY <1>2, <1>3, <1>5, RunsNothing DEF SInv

\* What cancel() leaves of the task and its state.
LEMMA CancelLeaves ==
  ASSUME NEW x \in Services, NEW y, y = Cancel(x)
  PROVE  /\ SameClock(y, x) /\ y.task = x.task /\ y.body = x.body /\ y.stop = TRUE
         /\ y.state = x.state \/ y.state = "CANCELLED"
BY CancelEffect

\* The runnable of a task's outcome: the state is shown, a handler may cancel.
LEMMA ShowKeeps ==
  ASSUME NEW x, Base(x), x.state = "RUNNING", NEW s \in States,
         \/ s = "SUCCEEDED" /\ x.body[x.task] = "set"
         \/ s = "FAILED" /\ x.body[x.task] = "setException",
         NEW w \in Handled([x EXCEPT !.state = s], s)
  PROVE  /\ Base(w) /\ w.task \in Tasks /\ w.body[w.task] = x.body[x.task]
         /\ w.state \in {s, "CANCELLED"} /\ w.failures = x.failures /\ w.since = x.since
         /\ x.stop => w.stop
<1>0. x \in Services /\ x.task \in Tasks
  BY DEF Base, StateInv
<1> DEFINE y == [x EXCEPT !.state = s]
<1>1. y \in Services /\ SameClock(y, x) /\ y.stop = x.stop /\ y.revived = x.revived
  BY <1>0, Zenon DEF Services, SameClock
<1>2. /\ y.state = s /\ y.task = x.task /\ y.future = x.future /\ y.body = x.body
      /\ y.timer = x.timer /\ y.left = x.left
  BY <1>0, SMT DEF Services
<1>3. w = y \/ w = Cancel(y)
  BY DEF Handled
<1> HIDE DEF y
<1>4. Base(y)
  <2>1. StateInv(y) /\ TimerInv(y) /\ AloneInv(y)
    BY <1>0, <1>2 DEF Base, StateInv, TimerInv, AloneInv
  <2>2. PaceInv(y) /\ StopInv(y)
    BY <1>1, <1>2 DEF Base, PaceInv, StopInv, Ran, Waits, SameClock
  <2> QED
    BY <1>1, <2>1, <2>2 DEF Base
<1>5. CASE w = y
  BY <1>0, <1>1, <1>2, <1>4, <1>5 DEF SameClock
<1>6. CASE w = Cancel(y)
  <2>1. Base(w)
    BY <1>4, <1>6, CancelKeeps
  <2>2. /\ SameClock(w, y) /\ w.task = y.task /\ w.body = y.body /\ w.stop = TRUE
        /\ w.state = y.state \/ w.state = "CANCELLED"
    <3>1. y \in Services
      BY <1>1
    <3> QED
      BY <1>6, <3>1, CancelLeaves
  <2>3. w.failures = x.failures /\ w.since = x.since
    BY <1>1, <2>2 DEF SameClock
  <2>4. w.task = x.task /\ w.body = x.body /\ w.state \in {s, "CANCELLED"}
    BY <1>2, <2>2
  <2> QED
    BY <1>0, <2>1, <2>2, <2>3, <2>4
<1> QED
  BY <1>3, <1>5, <1>6

LEMMA ShowSucceededStep == ASSUME SInv, ShowSucceeded PROVE SInv' /\ RunsWell
<1>1. PICK x \in Handled([svc EXCEPT !.state = "SUCCEEDED"], "SUCCEEDED") : svc' \in Succeeded(x)
  BY DEF ShowSucceeded
<1>2. /\ Base(svc) /\ svc.state = "RUNNING" /\ svc.body[svc.task] = "set"
      /\ "SUCCEEDED" \in States /\ ~ AtLimit(svc)
  BY DEF ShowSucceeded, SInv, RestInv, States
<1>3. /\ Base(x) /\ x.task \in Tasks /\ x.body[x.task] = "set"
      /\ x.state \in {"SUCCEEDED", "CANCELLED"} /\ x.failures = svc.failures
      /\ x.since = svc.since /\ (svc.stop => x.stop)
  BY <1>1, <1>2, ShowKeeps
<1>4. /\ Base(svc') /\ svc'.state \in {"SCHEDULED", "CANCELLED"} /\ svc'.failures = x.failures
      /\ Hands(svc') => ~ x.stop /\ svc'.cumulative <= x.since
  BY <1>1, <1>3, SucceededKeeps
<1>5. RestInv(svc')
  BY <1>2, <1>3, <1>4 DEF RestInv, AtLimit
<1> QED
  BY <1>3, <1>4, <1>5, RunsHands DEF SInv

LEMMA ShowFailedStep == ASSUME SInv, ShowFailed PROVE SInv' /\ RunsWell
<1>1. PICK x \in Handled([svc EXCEPT !.state = "FAILED"], "FAILED") : svc' \in Failed(x)
  BY DEF ShowFailed
<1>2. /\ Base(svc) /\ svc.state = "RUNNING" /\ svc.body[svc.task] = "setException"
      /\ "FAILED" \in States
  BY DEF ShowFailed, SInv, States
<1>3. /\ Base(x) /\ x.task \in Tasks /\ x.body[x.task] = "setException"
      /\ x.state \in {"FAILED", "CANCELLED"} /\ x.since = svc.since
  BY <1>1, <1>2, ShowKeeps
<1>4. /\ Base(svc') /\ RestInv(svc')
      /\ Hands(svc') => svc'.cumulative <= x.since /\ (svc'.stop => svc'.revived)
  BY <1>1, <1>3, FailedKeeps
<1> QED
  BY <1>3, <1>4, RunsHands DEF SInv

\* Everything that a task's own threads leave alone.
SameService(y, x) ==
  /\ y.task = x.task /\ y.stop = x.stop /\ y.revived = x.revived /\ SameClock(y, x)

\* The executor's thread moves a task on.
LEMMA BodyKeeps ==
  ASSUME SInv, NEW k \in Tasks, NEW b \in Bodies,
         \/ svc.body[k] = "handed" /\ b = "over"
         \/ svc.body[k] = "handed" /\ b = "call" /\ svc.future[k] = "NEW"
         \/ svc.body[k] = "call" /\ b \in {"set", "setException"},
         svc' = [svc EXCEPT !.body[k] = b]
  PROVE  SInv' /\ RunsWell
<1>0. svc \in Services /\ Base(svc)
  BY DEF SInv, Base
<1>1. svc' \in Services /\ SameService(svc', svc)
  BY <1>0, Zenon DEF Services, SameService, SameClock
<1>2. /\ svc'.state = svc.state /\ svc'.future = svc.future /\ svc'.timer = svc.timer
      /\ svc'.left = svc.left /\ svc'.body = [svc.body EXCEPT ![k] = b]
      /\ svc'.task = svc.task /\ svc'.failures = svc.failures
  BY <1>0, SMT DEF Services
<1>3. \A j \in Tasks : svc'.body[j] = IF j = k THEN b ELSE svc.body[j]
  BY <1>0, <1>2 DEF Services
<1>4. StateInv(svc') /\ TimerInv(svc') /\ AloneInv(svc')
  <2>1. svc.task = k => svc.state \notin {"SUCCEEDED", "FAILED"}
    BY DEF SInv, Base, StateInv
  <2>2. svc.state = "RUNNING" /\ svc.task = k => b \in {"call", "set", "setException"}
    BY DEF SInv, Base, StateInv, Bodies
  <2> QED
    BY <1>0, <1>2, <1>3, <2>1, <2>2 DEF Base, StateInv, TimerInv, AloneInv
<1>5. PaceInv(svc') /\ StopInv(svc')
  <2>1. Ran(svc') => Ran(svc)
    BY <1>1, <1>2, <1>3 DEF Ran, SameService, SameClock
  <2>2. Waits(svc') <=> Waits(svc)
    BY <1>2 DEF Waits
  <2> QED
    BY <1>0, <1>1, <1>2, <2>1, <2>2 DEF Base, PaceInv, StopInv, SameService, SameClock
<1>6. RestInv(svc')
  BY <1>1, <1>2 DEF SInv, RestInv, AtLimit, SameService
<1>7. RunsWell
  BY <1>2, <1>3, RunsNothing
<1> QED
  BY <1>1, <1>4, <1>5, <1>6, <1>7 DEF SInv, Base

LEMMA BeginStep == ASSUME SInv, NEW k \in Tasks, Begin(k) PROVE SInv' /\ RunsWell
<1>1. PICK b \in Bodies : b = IF svc.future[k] = "NEW" THEN "call" ELSE "over"
  BY DEF Bodies
<1>2. svc.body[k] = "handed" /\ svc' = [svc EXCEPT !.body[k] = b]
  BY <1>1 DEF Begin
<1> QED
  BY <1>1, <1>2, BodyKeeps

LEMMA CallEndsStep == ASSUME SInv, NEW k \in Tasks, CallEnds(k) PROVE SInv' /\ RunsWell
<1>1. PICK b \in {"set", "setException"} : svc' = [svc EXCEPT !.body[k] = b]
  BY DEF CallEnds
<1>2. svc.body[k] = "call" /\ b \in Bodies
  BY DEF CallEnds, Bodies
<1> QED
  BY <1>1, <1>2, BodyKeeps

LEMMA SettleStep == ASSUME SInv, NEW k \in Tasks, Settle(k) PROVE SInv' /\ RunsWell
<1>0. svc \in Services /\ Base(svc)
  BY DEF SInv, Base
<1>a. PICK f \in Futures : f = "SETTLED"
  BY DEF Futures
<1>b. svc' = [svc EXCEPT !.future[k] = f] /\ svc.future[k] = "NEW" /\ svc.body[k] # "new"
  BY <1>a DEF Settle
<1>1. svc' \in Services /\ SameService(svc', svc)
  BY <1>0, <1>b, Zenon DEF Services, SameService, SameClock
<1>2. /\ svc'.state = svc.state /\ svc'.body = svc.body /\ svc'.timer = svc.timer
      /\ svc'.left = svc.left /\ svc'.future = [svc.future EXCEPT ![k] = f]
      /\ svc'.task = svc.task /\ svc'.failures = svc.failures
  BY <1>0, <1>b, SMT DEF Services
<1>3. \A j \in Tasks : svc'.future[j] = IF j = k THEN "SETTLED" ELSE svc.future[j]
  BY <1>0, <1>a, <1>2 DEF Services
<1>4. StateInv(svc') /\ TimerInv(svc') /\ AloneInv(svc')
  BY <1>0, <1>b, <1>2, <1>3 DEF Base, StateInv, TimerInv, AloneInv
<1>5. Waits(svc') => Waits(svc)
  BY <1>2, <1>3 DEF Waits
<1>6. PaceInv(svc') /\ StopInv(svc')
  <2>1. Ran(svc') => Ran(svc)
    BY <1>1, <1>2 DEF Ran, SameService, SameClock
  <2> QED
    BY <1>0, <1>1, <1>2, <1>5, <2>1 DEF Base, PaceInv, StopInv, SameService, SameClock
<1>7. RestInv(svc')
  BY <1>1, <1>2 DEF SInv, RestInv, AtLimit, SameService
<1>8. RunsWell
  BY <1>2, RunsNothing
<1> QED
  BY <1>1, <1>4, <1>6, <1>7, <1>8 DEF SInv, Base

LEMMA ShowRunningStep == ASSUME SInv, ShowRunning PROVE SInv' /\ RunsWell
<1>0. /\ svc \in Services /\ Base(svc) /\ svc.state = "SCHEDULED"
      /\ svc.body[svc.task] \in {"call", "set", "setException"}
  BY DEF SInv, Base, ShowRunning
<1>a. PICK s \in States : s = "RUNNING"
  BY DEF States
<1>b. svc' = [svc EXCEPT !.state = s]
  BY <1>a DEF ShowRunning
<1>1. svc' \in Services /\ SameService(svc', svc)
  BY <1>0, <1>b, Zenon DEF Services, SameService, SameClock
<1>2. /\ svc'.state = s /\ svc'.body = svc.body /\ svc'.timer = svc.timer
      /\ svc'.left = svc.left /\ svc'.future = svc.future
      /\ svc'.task = svc.task /\ svc'.failures = svc.failures
  BY <1>0, <1>b, SMT DEF Services
<1>4. StateInv(svc') /\ TimerInv(svc') /\ AloneInv(svc')
  BY <1>0, <1>a, <1>2 DEF Base, StateInv, TimerInv, AloneInv
<1>5. PaceInv(svc') /\ StopInv(svc')
  BY <1>0, <1>1, <1>2 DEF Base, PaceInv, StopInv, Ran, Waits, SameService, SameClock
<1>6. RestInv(svc')
  BY <1>0, <1>a, <1>1, <1>2 DEF SInv, RestInv, AtLimit, SameService
<1>7. RunsWell
  BY <1>2, RunsNothing
<1> QED
  BY <1>1, <1>4, <1>5, <1>6, <1>7 DEF SInv, Base

LEMMA TimerFiresStep == ASSUME SInv, NEW k \in Tasks, TimerFires(k) PROVE SInv' /\ RunsWell
<1>0. svc \in Services /\ Base(svc) /\ svc.timer[k] = "waiting" /\ svc.left[k] = 0
  BY DEF SInv, Base, TimerFires
<1>a. PICK q \in Timers : q = "queued"
  BY DEF Timers
<1>b. svc' = [svc EXCEPT !.timer[k] = q]
  BY <1>a DEF TimerFires
<1>1. svc' \in Services /\ SameService(svc', svc)
  BY <1>0, <1>b, Zenon DEF Services, SameService, SameClock
<1>2. /\ svc'.state = svc.state /\ svc'.body = svc.body /\ svc'.left = svc.left
      /\ svc'.timer = [svc.timer EXCEPT ![k] = q] /\ svc'.future = svc.future
      /\ svc'.task = svc.task /\ svc'.failures = svc.failures
  BY <1>0, <1>b, SMT DEF Services
<1>3. \A j \in Tasks : svc'.timer[j] = IF j = k THEN "queued" ELSE svc.timer[j]
  BY <1>0, <1>a, <1>2 DEF Services
<1>4. StateInv(svc') /\ TimerInv(svc') /\ AloneInv(svc')
  BY <1>0, <1>2, <1>3 DEF Base, StateInv, TimerInv, AloneInv
<1>5. Waits(svc') <=> Waits(svc)
  BY <1>0, <1>2, <1>3 DEF Waits
<1>6. PaceInv(svc') /\ StopInv(svc')
  BY <1>0, <1>1, <1>2, <1>5 DEF Base, PaceInv, StopInv, Ran, SameService, SameClock
<1>7. RestInv(svc')
  BY <1>1, <1>2 DEF SInv, RestInv, AtLimit, SameService
<1>8. RunsWell
  BY <1>2, RunsNothing
<1> QED
  BY <1>1, <1>4, <1>6, <1>7, <1>8 DEF SInv, Base

\* The timer's runnable: the current task's timer has run its time.
LEMMA TimerRunsStep == ASSUME SInv, NEW k \in Tasks, TimerRuns(k) PROVE SInv' /\ RunsWell
<1>0. svc \in Services /\ Base(svc) /\ svc.timer[k] = "queued"
  BY DEF SInv, Base, TimerRuns
<1>1. svc.body[k] = "new" /\ svc.left[k] = 0 /\ (k = svc.task \/ svc.future[k] # "NEW")
  BY <1>0 DEF Base, TimerInv, AloneInv
<1> DEFINE y == ExecuteTaskNow(svc, k)
<1>2. y \in Services /\ Handed(y, svc, k) /\ SameTimers(y, svc)
  BY <1>0, ExecuteTaskNowEffect
<1>3. PICK o \in Timers, n \in Tasks \cup {None} : o = "none" /\ n = None
  BY DEF Timers
<1>4. svc' = [y EXCEPT !.timer[k] = o, !.delayTask = n]
  BY <1>3 DEF TimerRuns
<1> HIDE DEF y
<1>5. [y EXCEPT !.timer[k] = o, !.delayTask = n] \in Services
  BY <1>2, Zenon DEF Services
<1>6. /\ svc'.freshStart = y.freshStart /\ svc'.iterating = y.iterating /\ svc'.stop = y.stop
      /\ svc'.revived = y.revived
  BY <1>2, <1>4, Zenon DEF Services
<1>7. /\ svc'.age = y.age /\ svc'.since = y.since /\ svc'.state = y.state /\ svc'.task = y.task
      /\ svc'.future = y.future /\ svc'.body = y.body /\ svc'.cumulative = y.cumulative
      /\ svc'.failures = y.failures /\ svc'.left = y.left
      /\ svc'.timer = [y.timer EXCEPT ![k] = o]
  BY <1>2, <1>4, SMT DEF Services
<1>8. Handed(svc', svc, k)
  BY <1>2, <1>6, <1>7, Zenon DEF Handed
<1>9. y.timer \in [Tasks -> Timers]
  BY <1>2 DEF Services
<1>10. /\ svc'.timer[k] = "none"
       /\ \A j \in Tasks \ {k} : svc'.timer[j] = svc.timer[j] /\ svc'.left[j] = svc.left[j]
  BY <1>2, <1>3, <1>7, <1>9 DEF SameTimers
<1>a. svc' \in Services
  BY <1>4, <1>5
<1>11. Base(svc')
  BY <1>a, <1>0, <1>1, <1>8, <1>10, HandedKeeps
<1>12. RestInv(svc')
  BY <1>8 DEF SInv, RestInv, AtLimit, Handed
<1>13. RunsWell
  <2> SUFFICES ASSUME Runs
               PROVE  /\ svc'.iterating => svc'.cumulative <= svc.since
                      /\ svc.stop /\ svc'.stop => svc'.revived
    BY DEF RunsWell
  <2>1. PICK j \in Tasks : /\ svc'.task = j /\ svc'.body[j] = "handed" /\ svc'.future[j] = "NEW"
                           /\ svc.task # j \/ svc.body[j] # "handed"
    BY DEF Runs
  <2>2. svc.task = j /\ svc.future[j] = "NEW" /\ j = k
    BY <1>0, <1>8, <2>1 DEF Handed, Services
  <2>3. Waits(svc)
    BY <1>0, <2>2 DEF Waits
  <2>4. svc.stop => svc.revived
    BY <1>0, <2>3 DEF Base, StopInv
  <2>5. svc.iterating => svc.cumulative <= svc.since + 0
    BY <1>0, <1>1, <2>2, <2>3 DEF Base, PaceInv
  <2>6. svc.since \in Nat
    BY <1>0, Numbers DEF Services
  <2>7. svc'.iterating => svc'.cumulative <= svc.since
    BY <1>8, <2>5, <2>6 DEF Handed
  <2>8. svc.stop /\ svc'.stop => svc'.revived
    BY <1>8, <2>4 DEF Handed
  <2> QED
    BY <2>7, <2>8
<1> QED
  BY <1>11, <1>12, <1>13 DEF SInv

\* The clock: since grows as the timers run down, and never falls behind age.
LEMMA TickStep == ASSUME SInv, Tick PROVE SInv' /\ RunsWell
<1>0. svc \in Services /\ Base(svc)
  BY DEF SInv, Base
<1>1. /\ svc.age \in 0..LongAgo /\ svc.since \in 0..LongAgo /\ svc.left \in [Tasks -> 0..LongAgo]
      /\ svc.cumulative \in 0..MaxCumulative
  BY <1>0 DEF Services
<1> DEFINE a == Min({svc.age + 1, LongAgo})
           s == Min({svc.since + 1, LongAgo})
           l == [k \in Tasks |-> IF svc.left[k] = 0 THEN 0 ELSE svc.left[k] - 1]
<1>2. /\ a = IF svc.age < LongAgo THEN svc.age + 1 ELSE LongAgo
      /\ s = IF svc.since < LongAgo THEN svc.since + 1 ELSE LongAgo
  BY <1>1, Numbers, MinOfTwo
<1>3. a \in 0..LongAgo /\ s \in 0..LongAgo /\ l \in [Tasks -> 0..LongAgo]
  <2>1. a \in 0..LongAgo /\ s \in 0..LongAgo
    BY <1>1, <1>2, Numbers
  <2>2. l \in [Tasks -> 0..LongAgo]
    BY <1>1, Numbers
  <2> QED
    BY <2>1, <2>2
<1>4. svc' = [svc EXCEPT !.age = a, !.since = s, !.left = l]
  BY <1>0 DEF Tick
<1>5. \A k \in Tasks : l[k] = IF svc.left[k] = 0 THEN 0 ELSE svc.left[k] - 1
  OBVIOUS
<1> HIDE DEF a, s, l
<1>6. [svc EXCEPT !.age = a, !.since = s, !.left = l] \in Services
  BY <1>0, <1>3, Zenon DEF Services
<1>7. /\ svc'.freshStart = svc.freshStart /\ svc'.iterating = svc.iterating
      /\ svc'.stop = svc.stop /\ svc'.revived = svc.revived
  BY <1>0, <1>4, Zenon DEF Services
<1>8. /\ svc'.age = a /\ svc'.since = s /\ svc'.state = svc.state /\ svc'.task = svc.task
      /\ svc'.future = svc.future /\ svc'.body = svc.body /\ svc'.cumulative = svc.cumulative
      /\ svc'.failures = svc.failures /\ svc'.left = l /\ svc'.timer = svc.timer
  BY <1>0, <1>4, SMT DEF Services
<1>9. StateInv(svc') /\ TimerInv(svc') /\ AloneInv(svc')
  BY <1>0, <1>5, <1>8 DEF Base, StateInv, TimerInv, AloneInv
<1>10. Waits(svc') <=> Waits(svc)
  BY <1>8 DEF Waits
<1>11. Ran(svc') <=> Ran(svc)
  BY <1>7, <1>8 DEF Ran
<1>12. svc.age <= svc.since => a <= s
  BY <1>1, <1>2, Numbers
<1>13. ASSUME NEW k \in Tasks, svc.cumulative <= svc.since + svc.left[k]
       PROVE  svc.cumulative <= s + l[k]
  <2>1. svc.left[k] \in Nat /\ svc.since \in Nat /\ svc.cumulative \in Nat
        /\ svc.since <= LongAgo /\ svc.cumulative < LongAgo
    BY <1>1, Numbers
  <2>2. l[k] \in Nat /\ l[k] >= svc.left[k] - 1
    BY <1>5, <2>1
  <2>3. CASE svc.since < LongAgo
    <3>1. s = svc.since + 1
      BY <1>2, <2>3
    <3> QED
      BY <1>13, <2>1, <2>2, <3>1
  <2>4. CASE svc.since = LongAgo
    <3>1. s = LongAgo
      BY <1>2, <2>1, <2>4, Numbers
    <3> QED
      BY <2>1, <2>2, <3>1, Numbers
  <2> QED
    BY <2>1, <2>3, <2>4, Numbers
<1>14. PaceInv(svc')
  <2>1. Ran(svc') => svc'.age <= svc'.since /\ ~ svc'.freshStart
    BY <1>0, <1>7, <1>8, <1>11, <1>12 DEF Base, PaceInv
  <2>2. svc'.iterating /\ Waits(svc') => svc'.cumulative <= svc'.since + svc'.left[svc'.task]
    BY <1>0, <1>7, <1>8, <1>10, <1>13 DEF Base, PaceInv, Waits
  <2> QED
    BY <2>1, <2>2 DEF PaceInv
<1>15. StopInv(svc')
  BY <1>0, <1>7, <1>10 DEF Base, StopInv
<1>16. RestInv(svc')
  BY <1>7, <1>8 DEF SInv, RestInv, AtLimit
<1>17. RunsWell
  BY <1>8, RunsNothing
<1> QED
  BY <1>4, <1>6, <1>9, <1>14, <1>15, <1>16, <1>17 DEF SInv, Base
-----------------------------------------------------------------------------
LEMMA ScheduledInit == Init => SInv
<1> SUFFICES ASSUME Init PROVE SInv
  OBVIOUS
<1>1. /\ svc.state = "READY" /\ svc.task = None /\ svc.failures = 0
      /\ svc.timer = [k \in Tasks |-> "none"] /\ svc.body = [k \in Tasks |-> "over"]
  BY DEF Init
<1>2. svc.iterating = FALSE /\ svc.stop = FALSE
  BY DEF Init
<1>3. svc \in Services
  <2>1. /\ "READY" \in States /\ None \in Tasks \cup {None} /\ 0 \in 0..MaxCumulative
        /\ 0 \in Nat /\ LongAgo \in 0..LongAgo
        /\ [k \in Tasks |-> "NEW"] \in [Tasks -> Futures]
        /\ [k \in Tasks |-> "over"] \in [Tasks -> Bodies]
        /\ [k \in Tasks |-> "none"] \in [Tasks -> Timers]
        /\ [k \in Tasks |-> 0] \in [Tasks -> 0..LongAgo]
    BY Numbers DEF States, Futures, Bodies, Timers
  <2> QED
    BY <2>1, Zenon DEF Init, Services
<1>4. StateInv(svc) /\ TimerInv(svc) /\ AloneInv(svc)
  BY <1>1 DEF StateInv, TimerInv, AloneInv
<1>5. PaceInv(svc) /\ StopInv(svc)
  BY <1>1, <1>2, Numbers DEF PaceInv, StopInv, Ran, Waits
<1>6. RestInv(svc)
  BY <1>1, <1>2 DEF RestInv, AtLimit
<1> QED
  BY <1>3, <1>4, <1>5, <1>6 DEF SInv, Base

LEMMA ScheduledStep == SInv /\ Next => SInv' /\ RunsWell
<1> SUFFICES ASSUME SInv, Next PROVE SInv' /\ RunsWell
  OBVIOUS
<1> QED
  BY FxStartStep, FxResetStep, FxRestartStep, FxCancelStep, BeginStep, CallEndsStep, SettleStep,
     ShowRunningStep, ShowSucceededStep, ShowFailedStep, TimerFiresStep, TimerRunsStep, TickStep
     DEF Next

LEMMA ScheduledInvariance == Spec => []SInv
<1>1. SInv /\ UNCHANGED svc => SInv'
  BY DEF SInv
<1>2. SInv /\ [Next]_svc => SInv'
  BY <1>1, ScheduledStep
<1> QED
  BY <1>2, ScheduledInit, PTL DEF Spec

(***************************************************************************)
(* The fields of a ScheduledService keep their types: no delay is negative *)
(* or longer than the cumulative period allows, for every delay, period    *)
(* and maximumCumulativePeriod.                                            *)
(***************************************************************************)
THEOREM ScheduledTypes == Spec => []TypeOK
<1>1. SInv => TypeOK
  <2> SUFFICES ASSUME svc \in Services PROVE TypeOK
    BY DEF SInv, Base
  <2>1. /\ svc.stop \in BOOLEAN /\ svc.freshStart \in BOOLEAN /\ svc.iterating \in BOOLEAN
        /\ svc.revived \in BOOLEAN
    BY Zenon DEF Services
  <2>2. {svc.stop, svc.freshStart, svc.iterating, svc.revived} \subseteq BOOLEAN
    BY <2>1, Zenon
  <2> QED
    BY <2>2 DEF TypeOK, Services, States, Futures, Bodies, Timers
<1> QED
  BY <1>1, ScheduledInvariance, PTL

(***************************************************************************)
(* However restart(), cancel(), the executor, the delay timers and the     *)
(* queued runnables interleave, no timer of an abandoned task and no       *)
(* abandoned task at the executor can still run its computation.           *)
(***************************************************************************)
THEOREM ScheduledOneAtATime == Spec => []OneAtATime
<1>1. SInv => OneAtATime
  BY DEF SInv, Base, AloneInv, OneAtATime
<1> QED
  BY <1>1, ScheduledInvariance, PTL

(***************************************************************************)
(* A service rests in FAILED only when failed() may not restart it, and at *)
(* maximumFailureCount failures it is never active, whatever resets,       *)
(* cancellations and successes came between the failures.                  *)
(***************************************************************************)
THEOREM ScheduledFailureLimit == Spec => []FailureLimit
<1>1. SInv => FailureLimit
  BY DEF SInv, RestInv, AtLimit, FailureLimit, Active
<1> QED
  BY <1>1, ScheduledInvariance, PTL

(***************************************************************************)
(* Two runs that the service makes itself are at least the cumulative      *)
(* period apart, for every delay, period and cap, although abandoned       *)
(* timers stamp lastRunTime too.                                           *)
(***************************************************************************)
THEOREM ScheduledPeriodRespected == Spec => PeriodRespected
<1>1. SInv /\ [Next]_svc => [Runs /\ svc'.iterating => svc.since >= svc'.cumulative]_svc
  <2> SUFFICES ASSUME SInv, Next, Runs, svc'.iterating
               PROVE  svc.since >= svc'.cumulative
    OBVIOUS
  <2>1. SInv' /\ svc'.cumulative <= svc.since
    BY ScheduledStep DEF RunsWell
  <2>2. svc.since \in Nat /\ svc'.cumulative \in Nat
    BY <2>1, Numbers DEF SInv, Base, Services
  <2> QED
    BY <2>1, <2>2
<1> QED
  BY <1>1, ScheduledInvariance, PTL DEF Spec, PeriodRespected

(***************************************************************************)
(* After cancel() no iteration starts and no timer that had already fired  *)
(* runs its task, except through failed(), which does not look at stop.    *)
(***************************************************************************)
THEOREM ScheduledStaysStopped == Spec => StaysStopped
<1>1. SInv /\ [Next]_svc => [svc.stop /\ svc'.stop /\ Runs => svc'.revived]_svc
  BY ScheduledStep DEF RunsWell
<1> QED
  BY <1>1, ScheduledInvariance, PTL DEF Spec, StaysStopped
=============================================================================
