# JavaFX: a verification of its concurrency core

This directory specifies the parts of JavaFX where several threads meet, in
TLA+, checks them with TLC and proves the most important facts with TLAPS:

* `javafx.concurrent`, through which every application moves work off the FX
  application thread and gets results back: `Task`, `Service`, `ScheduledService`;
* the event thread below it: nested event loops and the dispatcher that brings
  `runLater` runnables to them;
* the pulse, through which every change of a scene reaches the screen: the FX
  thread, the pulse timer and the renderer;
* the native side of media playback: the state machine of the player and the
  ring buffer of HTTP live streaming.

## 1. Inventory

JavaFX is one Java program with native parts. Paths below are under
`src/modules/`; `graphics` stands for `javafx.graphics/src/main/java`.

| Component | State | Operations | Meets others through | Hard behaviour |
|---|---|---|---|---|
| **Task** (`graphics/javafx/concurrent/Task.java`) | state, running, exception, value/message/title/progress properties, four AtomicReference slots, the FutureTask | run, cancel, updateX, setState | `runLater` to the FX thread; state listeners and event handlers call back | the FutureTask is settled on any thread, the properties follow later; coalesced updates; re-entrance |
| **Service** (`Service.java`) | own state property or a binding to the task's, nine bindings, field `task`, `startedOnce` | start, reset, restart, cancel, executeTask | creates and binds Tasks; executor threads; handlers run inside its methods | half-finished calls seen by handlers; runnables of abandoned tasks; first start off the FX thread |
| **ScheduledService** (`ScheduledService.java`) | stop, freshStart, delayTask, cumulativePeriod, currentFailureCount, lastRunTime, lastValue | overrides of cancel, reset, executeTask, succeeded, failed | a Timer thread that queues runnables | stale timers, cancel racing an outcome, back-off and failure limits |
| **Platform life cycle** (`graphics/com/sun/javafx/application/PlatformImpl.java`) | initialized, startup latch, pendingRunnables, lastIdle flags, finish listeners, tkExit | startup, runLater, runAndWait, exit, checkIdle | toolkit, windows, every caller of `Platform.runLater` | exit racing runLater and runAndWait, idle detection |
| **Nested event loops, invokeLater dispatcher** (`graphics/com/sun/glass/ui/{EventLoop,InvokeLaterDispatcher,Application}.java`) | loop stack, deque, nestedEventLoopEntered, leavingNestedEventLoop | enter, leave, invokeLater, invokeAndWait | native event queue | LIFO order of loops, one runnable in flight at a time, missed wake-ups |
| **Pulse and rendering hand-over** (`graphics/com/sun/javafx/tk/quantum/`) | animationRunning, nextPulseRequested, pulseRunning, dirty scenes, latch of render jobs | requestNextPulse, pulse, addDirtyScene, renderAll, done | FX thread, render thread, timer | requests during a pulse, waiting for the renderer, a latch replaced under it, windows closed on the way |
| **HLS progress buffer** (`javafx.media/src/main/native/gstreamer/plugins/progressbuffer/hlsprogressbuffer.c`) | a ring of cached segments with read and write index, flow result, flags, two condition variables | chain, SEGMENT, EOS and FLUSH events, the reader task, activation | upstream streaming thread, own task, thread of a seek or shutdown | flushes between two critical sections of a handler, lost signals, tasks paused and restarted |
| **Java source element** (`.../plugins/javasource/javasource.c`) | pending event, flow result, position | the push loop, seek, shutdown | the Java connection holder; pushes into the progress buffer | the seek that must stop a blocked push |
| **Native media player** (`javafx.media/src/main/native/jfxmedia/platform/gstreamer/GstAudioPlaybackPipeline.cpp`) | player state and pending state, stall and seek flags, rate, buffer flags, the callback's content | Play, Pause, Stop, Finish, Seek, SetRate, Dispose, BusCallback | the application thread and the main loop; asynchronous GStreamer | late messages, decisions made under a lock and carried out after it, disposal under a running callback |
| **Animation timers** (`graphics/com/sun/scenario/animation/`) | receiver arrays with a copy-on-iterate flag | add/removePulseReceiver, timePulse | pulse | changes during iteration |
| **Binding listeners** (`javafx.base/.../binding/ExpressionHelper.java`, `BidirectionalBinding.java`) | listener arrays, locked flag | add, remove, fire | everything that has a property | changes during notification, exceptions in listeners |
| **Observable collections** (`javafx.base/.../ListChangeBuilder.java`) | list of pending changes | nextAdd, nextRemove, nextPermutation, commit | list listeners | merging of changes (a pure algorithm) |
| Scene graph, CSS, layout, events, controls, FXML | the scene graph | many | the pulse | single-threaded, data heavy |
| Prism, native Glass, the rest of media, web, Swing/SWT/JMX adapters, packager | device and library state | many | operating system, vendored GStreamer and WebKit | outside the reach of a small model |
| `apps/`, `tests/`, `buildSrc/` | | | | not part of the runtime |

What makes the components correct, in short:

* Task: states come in life-cycle order and end in agreement with the
  FutureTask; an outcome and a cancellation are always shown; the last update is
  never lost, and no update overwrites the result.
* Service: all properties show one and the same task; an abandoned task is
  cancelled and can no longer be seen; no call finds the service half way; every
  scheduled task moves on.
* ScheduledService: one task at a time, at least the cumulative period between
  runs, no iteration after cancel, no more failures than allowed.
* Platform: a runnable that was accepted runs or is known to be dropped; exit
  happens once, and only when idle if it is implicit.
* Event loops: loops end in LIFO order, each with the value given to its leave;
  no runnable is stuck.
* Pulses: one at a time, a request is never lost, every change is painted; the
  FX thread never waits for a frame that nobody renders.
* HLS: blocks come out in order and complete, the end of stream last; no write
  without a slot; a seek, a shutdown and playback come to their end.
* Player: the announced state does not drift from the pipeline's, a stalled
  player resumes, shared memory is freed exactly once.

The main hazards behind these, each at its source line, are listed under
`hazards` in `PROJECT.json`; section 3 has what the properties leave out.

## 2. Modules

| Module | Models |
|---|---|
| `Task` | `Task.java`: setState, cancel, updateX, `TaskCallable.call`, runLater |
| `TaskLife` | the contract of a task without queues: what a user of tasks may rely on |
| `Service` | `Service.java`, over tasks that obey `TaskLife` |
| `ScheduledService` | `ScheduledService.java` on top of atomic Service calls |
| `EventLoops` | `EventLoop`, `InvokeLaterDispatcher`, the nested loops of Application and of Glass on gtk, win and mac |
| `QuantumPulse` | pulses and frames: `QuantumToolkit`, `PaintCollector`, `GlassScene`/`ViewScene`, the painters, `RenderJob`, the pulse listener of `Scene` |
| `HLSProgressBuffer` | `hlsprogressbuffer.c`: the actions of its three threads |
| `HLSStream` | `javasource.c` in HLS mode, composed with `HLSProgressBuffer` into a whole system |
| `PlaybackPipeline` | `GstAudioPlaybackPipeline.cpp` over an abstract GStreamer pipeline |
| `MCTask`, `MCService`, `MCScheduledService`, `MCEventLoops`, `MCQuantumPulse`, `MCHLSStream`, `MCPlaybackPipeline` | instances for TLC |
| `TaskProofs` | Task: types, life cycle, outcomes, the refinement of `TaskLife`, coalesced updates and the result |
| `ServiceProofs` | every safety and action property of Service |
| `ScheduledProofs` | every safety property of ScheduledService |
| `EventLoopProofs` | every safety and action property of EventLoops |
| `PulseProofs` | QuantumPulse: one pulse at a time, the renderer's latch, types |
| `HLSProofs` | types, the write index and the task of the HLS buffer |
| `HLSOrderProofs` | the content of the ring: the order of the stream and its end |
| `PlayerProofs` | every property of PlaybackPipeline |

`Task` is shown to implement `TaskLife` (property `ImplementsTaskLife`, theorem
`TaskImplementsLife`); `Service` then keeps, for each of its tasks, only the
three variables of `TaskLife` and the runnables on their way, and
`TasksObeyLife` checks that it uses them as the contract allows.
`ScheduledService` in turn uses the calls of `Service` as atomic steps.

### Task

* `state`, `running`, `exception`, `shown` are the JavaFX properties. They change
  only on the FX thread: in `FxRun`, which runs the head of `queue`, and in
  `FxSchedule`, `FxCancel`, `FxUpdate`, which are calls made on that thread.
* `future` is the state of the `java.util.concurrent.FutureTask` that Task
  extends (external): the first of cancel, set and setException wins.
* `body` is how far the executing thread is in `FutureTask.run`; the window
  between `"set"` and `Finish` is where the outcome has been posted but the
  future can still be cancelled.
* `inHand[t]` is the runnable a background thread has decided to post but not
  yet posted; what it read before (`isCancelled()`, the slot) may be stale by the
  time `RunLater(t)` queues it.
* `slot` are the AtomicReferences of the coalesced updates.
* `SetState(path)` stands for one or two nested calls of `setState`, with the
  callbacks that may call `cancel()` on the way: an event handler (after running
  is stored) or a listener of the state property (before).
* `trail` and `latest` are history variables.

Data left out: messages, titles, progress numbers (a payload is a model value)
and the dispatching of events to handlers.

### Service

The FX thread is a stack of frames, because every change of the state property
runs an application handler in the middle of a Service method, and the handler
may call the Service again. `start`, `reset`, `restart` and `cancel` are cut at
exactly those places: `Restart`/`Detach`/`Reset`/`Unbind`/`Start`/`Schedule`/`Execute`.
An exception (`Throw`) unwinds to the handler that called, where
`ExpressionHelper` catches it. `bound` is the task the state property is bound
to, `others` the one the remaining properties are bound to, so a half-finished
`reset()` is visible. `StartOffFx` and `RunLambda` are the two halves of a first
start made off the FX thread; the second reads the field `task` when it runs.

### ScheduledService

One record of fields. FX-thread calls are atomic, except that the handlers of
the events in `CancelIn` may cancel on the way. Time is discrete and relative:
`age` is `clock() - lastRunTime`, `left[k]` what remains on a timer. A timer
that has fired and queued its runnable can no longer be cancelled, which is how
stale timers arise. Tasks are slots: a task that nothing refers to any more
gives its slot to the next one, so behaviours are not bounded in length. The
back-off is the linear strategy; `lastValue`, a copy of the value, is left out.

### EventLoops

The event thread is two sequences. `stack` are the loops that have been entered,
`frames` the handlers under way: each but perhaps the last is blocked in the
`enter()` of the loop at the same place. So the event thread is in a handler when
`frames` is longer, in a native loop when both are equally long, and `left` is the
moment between the return of the native loop and the finally block of `enter()`,
when the dispatcher has already been released.

The dispatcher's place is `pc`: `takeFirst` with the unlocked read of
`leavingNestedEventLoop` is one step (`Take` or `Defer`; nobody else takes from the
front), `Submit` another, so the read may be stale. LOCK is a monitor: a thread
that finds its condition false goes into `asleep` and stays there until some
`notifyAll()`, whatever happens to the condition. Runnables of `invokeLater` are
numbered; the lambda that `enter()` posts is one of them and runs in one step
(`RunLambda`). A call of `invokeAndWait` goes to the native queue directly; its
order among the runnables there is left open.

The native loops differ in two points (`platform`, chosen at the start among
`Platforms`). On win and mac one flag ends the innermost loop, and entering or
returning from any loop resets it; on gtk each `gtk_main` has its own (`SharedFlag`;
`quit` are the loops told to end). And `Terminate`, the end of
`Application.terminate()`, ends them in different ways: win destroys the toolkit
window, so that every native loop ends without having been left (`ended`);
`gtk_main_quit` ends the innermost one; `stop:` of mac the outermost, so that the
inner ones go on. After it `invokeLater`, `enter()` and the lambda of `enter()` fail on
the application that is gone, and gtk and win refuse every call (`CheckEventThread`).
A native loop may go on with handlers after it was told to end, as the class comment
of the dispatcher says. `reentered` is history: a loop was entered while another one
was being left.

### QuantumPulse

`fx`, `rt` and `timer` say where the FX thread, the renderer and the pulse timer
are. A critical section of `renderLock` on the FX thread is one step, taken while
the renderer does not hold the lock (`RtHolds`); the wait on the latch and the
lock that follows it are merged, since the latch only falls while the FX thread
waits. The test in `postPulse` and the posting are two steps, so the test may be
stale. `done()` reads the latch and counts it down in separate steps too
(`Done`, `DoneHint`, `DoneCount`), which is what the run `render_exit` is about.
`jobs` is the queue of the renderer's executor; its head is the job under way.

Of a scene's content the model keeps whether it differs from the render graph
(`unsynced`) and whether the render graph differs from the screen (`unshown`).
`posted` counts pulses in the event queue, `requests` the repaint runnables of
painters. `live` is the scene of a live resize, whose pulse does not collect.
`lost` is a history variable: frames that the code gives up (see below).

Rendering fails in four ways. A painter without device or texture returns
(`PaintFails`), one that throws inside its `try` gives the frame up (`PaintDrops`), one
that throws in its `finally` keeps `renderLock` (`PainterThrows`, `lockKept`), and a job
that throws elsewhere, or whose `done()` does, just ends (`JobThrows`). The last two
are the branch of `RenderJob.run` that calls no listener: the latch is never counted
down. `dropped` holds these jobs.

### HLSProgressBuffer and HLSStream

Three threads: `src` runs `java_source_loop` and from there the functions of the
buffer's sink pad, `loop` is the task that drains the ring, `ctl` performs a seek
or the shutdown. Every critical section of `element->lock` is a step, and what
happens between an unlock and the next lock is a step of its own; a condition
variable's signal wakes only a thread that already waits. A block of the stream
is its number since the last seek; a cache is the sequence of its blocks with a
read position. `raced`, `short`, `loadFailed` and `seekFailed` are history: a signal
was lost, a connection ended before the announced size, a segment could not be
loaded, `SEEK_DATA` was refused.

`HLSConnectionHolder.loadNextSegment` answers -1 at the end of the playlist, when the
connection cannot be opened and when the length is unknown, and `java_source_loop`
takes each of them for the end of the stream (`LastSegment`, `LoadFails`, both by
`NoSegment`). A segment of length 0 is announced, refused by the buffer with an error
message (whose effect on the player is that of "error" in `PlaybackPipeline`), and
takes no slot.

`is_eos` and `srcresult` are also written without the lock (lines 470 to 473);
those writes are steps between the critical sections.

### PlaybackPipeline

Two threads, the application's and the main loop that delivers bus messages.
A section under `m_StateLock` is one step, and so are the tests that precede any
change; a decision and the call it leads to are two. Of GStreamer (`gstelement.c`,
`gstbin.c`) the model has the pipeline as a whole: `gst` is a record with current,
next, pending and target state, `bus` the messages on their way. The messages of the
buffers and queues may come in any order and in any state of the pipeline, which
over-approximates what they send; the end of the stream comes while the pipeline
plays and no change is pending, as `bin_do_eos` has it. Conditions on the amount of
data are choices: whether a BUFFERING message reports enough to resume, whether
`m_BufferPosition` is still 0 at an underrun. Two conditions are taken to hold: a
BUFFERING message names a stop above 0 (line 1979; `progressbuffer.c` refuses a
segment without a length), and the sinks have reported when the pipeline's own
first PAUSED message is handled (lines 1343, 1344). Disposal, which may come before
the player is ready, is modelled down to the flags of the callback's content, which
is shared with a callback that may still be running. `asked` is the last request of the application; after a change
from rate 0 it is forgotten. `misread` is history: a start of the pipeline was taken
for the end of a stop.

## 3. Runs

| Run | Result | Shows |
|---|---|---|
| `task_life` | pass | `LifecycleOrder`, `OutcomesAgree`, `ImplementsTaskLife`, `OneRunnablePerChannel`, `NoLostUpdate`, `SucceededHasResult`, `UpdateIsSeen` |
| `task_conclusion` | violated | `ConclusionIsFinal`: SUCCEEDED is shown before `FutureTask.run` has settled the future; a cancel in between makes it CANCELLED |
| `service_calls` | pass | `BindingsAgree`, `NoOrphan`, `RestartResets`, `RunningWhileActive`, `TasksObeyLife`, `ServiceLifecycle`, `ScheduledMovesOn`, `OutcomeIsShown` |
| `scheduled_iterate` | pass | `OneAtATime`, `FailureLimit`, `PeriodRespected`, `StaysStopped`, `ScheduledMovesOn` |
| `scheduled_cancel` | violated | `CancelStops`: cancel while a failure is settled but not shown; the service iterates on |
| `hls_play` | pass | `InOrder`, `WriteIndexValid`, `EosIsLast`, `TaskRuns`, `ControlReturns`, `PlaysToTheEnd` |
| `hls_seek` | violated | `SeekReturns`: the signal of a flush is lost on the upstream thread, and the seek waits for ever |
| `player_status` | pass | `StandsStill`, `NoMissedResume`, `FreedOnce` |
| `loops_nested` | pass | `RunsInOrder`, `LeaveIsKept`, `AssertsHold`, `DeferralEnds`, `NoLostNotification`, `DispatcherNotBlocked`, `LeftLoopsReturn` |
| `loops_deferred` | violated | `RunnablesRun`: leave a loop and enter another in one handler; no runnable runs as long as the new loop does |
| `render_frames` | pass | `LatchCovered`, `OnePulse`, `ChangeIsShown`, `TypeOK` |
| `render_exit` | violated | `ExitAfterLastFrame`: the vsync hint starts a pulse before `done()` counts down, the latch is replaced, and `exit()` does not wait for the last frame |

The violated runs are disagreements between the code and a sentence of its
documentation, comments or tests; `findings` in `PROJECT.json` quotes both.

Every module has a type invariant `TypeOK`, which is a theorem. The runs leave it to
the proofs, except in rendering, where it bounds the latch. That a cancellation and an
outcome are always shown has no property of its own in Task: the fairness of
`TaskLife`, which `ImplementsTaskLife` includes, says so.

**Bounds.** Task: two background threads (the executing one and another) give
every race there is between two callers of cancel or update, and the FX thread
is a third; three updates, enough for two that are coalesced and one on the other
side of a flush. Both threads update the progress, `call()` the value and the FX thread
the message (`Updaters`, `FxUpdates`), so that each property is updated from one side. A
task runs only once, so the rest of its behaviour is finite. Service: two tasks (an abandoned and a current one), `MaxDepth` 6, which
lets a handler interrupt a call made by a handler. `MaxTasks` bounds how often
start or restart is called. In `service_calls` handlers call cancel (start and
reset from a handler break several properties at once, see below); while an off-thread
start is pending the FX thread may call anything (`WhileStarting`). The queued half of
that start comes before every runnable of the tasks (`RunPosted` waits for it), since
both go through the one queue of `runLater`. ScheduledService: two
task slots, delay 1, period 2 and a cap of 3 ticks, so that the back-off after
the first failure (4) hits the cap; two failures, so that the limit is reached.
With three slots the search was stopped after 750,000 distinct states; no error
was found in that part.

HLS: a ring of two slots and three segments, so that the ring is full and wraps;
segments of two blocks with a buffer of two, so that a slot is read in one go, in
two, and short, and of none; one seek, accepted or refused, or shutdown at any moment,
failing loads, reads and pushes. Player: any four calls against any two messages of the buffers, which
is enough for a decision, a call that overtakes it and a message that arrives
late; `misread` needs four calls (play, pause, stop, play). Event loops: three loops,
entered three times in all, so that two of them may be left before the innermost one,
or one entered again after it was left; one runnable besides the lambdas, which go the
same way, one client, any number of events and a `terminate()` at any moment. The run
has gtk and win; mac, which differs from win after `terminate()` only, is in
`loops_deferred` and in the proofs, and passes `loops_nested` too. Rendering: two scenes, one with each kind of painter, any number of changes
of nodes (they are not bounded, and neither are pulses), one further event
(window event, snapshot, close, animation, exit) and one failure at any moment;
`render_exit` needs an event to make the frame and the exit itself.

**Deadlock.** A task and a service whose bound on tasks is used up really stop,
so those runs do not check for deadlock. A ScheduledService can always be called
again, so that nothing stops in its runs; that it does not hang is
`ScheduledMovesOn`. An application that has been terminated stops. A stream that has been shut down, a disposed player and a
toolkit that has exited stop as well, and so does a player whose bounds are used
up; that seeks, playback and frames do not hang is `ControlReturns`,
`PlaysToTheEnd` and `ChangeIsShown`.

**Fairness.** Task: the FX thread keeps draining its queue (`FxRun`), a thread
inside the library finishes its hand-over (`RunLater`) and `FutureTask.run`
settles (`Finish`). Nothing is assumed of the application: `run` need not be
called, `call` need not return. Service: the FX thread finishes the call it is
in (`FxStep`), the executor runs what it is given (`Begin`, `Settle`); queued
runnables get strong fairness, because the event queue is first come, first
served and further calls of the application cannot overtake them for ever.
ScheduledService: the same, and time passes (`Tick`) and due timers fire.
HLS: the streaming thread, the buffer's task and the control thread each take the
step they are at when it stays enabled (GStreamer's task pool). Rendering: the FX
thread, the timer and the renderer likewise; repaint runnables in the event queue
get strong fairness, because pulses in the same queue cannot overtake them for
ever. Event loops: the dispatcher takes its steps; a handler that
is not blocked in a loop ends; runnables in the native queue and the end of a loop
get strong fairness, because the queue is first come, first served and a loop looks
at its flag again and again between handlers. That loops are left is not assumed.
Nothing is assumed of the callers of `invokeAndWait`, the application or the windowing
system.

**What the passing properties leave out.** Some defects of the code are recorded
in history variables, and the liveness properties hold of everything else.

* `raced` (HLS): the SEGMENT handler drops the lock to post FULL and then waits on
  `del_cond` without looking again, so a signal in between is lost; in playback
  too, not only in a seek. `ControlReturns` and `PlaysToTheEnd` leave it out.
* `short` (HLS): a segment that ends before its announced size is never complete,
  and the reader stalls on it. `PlaysToTheEnd` and `EosIsLast` leave it out.
* `loadFailed` (HLS): a segment that cannot be loaded ends the stream in the middle of
  the playlist. `EosIsLast` and `PlaysToTheEnd` say that nothing else does. (A segment
  after a discontinuity whose length is unknown is announced with length 1; that is
  not modelled.)
* `seekFailed` (HLS): after a refused `SEEK_DATA` the ring is empty, no SEGMENT event
  follows and the next block is written to `cache[-1]`; and a push that fails late may
  replace the FLUSHING of a flush by ERROR, with the same effect. `WriteIndexValid` says
  that these are the only two ways; `InOrder` is about streams without the first. What
  a write to `cache[-1]` does to the element is not modelled.
* A seek to the very end of the playlist leaves the task paused with nothing to
  deliver; `TaskRuns` and `PlaysToTheEnd` leave it out.
* `misread` (player): `UpdatePlayerState`, in Paused with a stop pending, takes any
  state message for the stop's own. If the message is that of a later start (play,
  pause, stop, play in quick succession) the player is Stopped over a pipeline
  that plays. The exception was found in the proof of `StandsStill`: three calls
  do not reach it.
* A rate of zero that never resumes (line 784), a pending state left over from a
  call in Ready and a player revived after an error have no property; neither has
  `Finish()`, or a stall, that races a seek (line 501): the pipeline's message is
  ignored and the player stays Playing.
* `lost` (rendering): `repaint()` leaves out a scene whose painter has painted but
  not yet cleared `painting`; a listener that throws ends the pulse for all scenes
  while their dirty lists stay non-empty, so no new pulse is asked for; an
  `UploadingPainter` without device gives the frame up.
* `dropped` (rendering): a render job that fails is gone without counting the latch
  down, and the FX thread waits for ever in its next `renderAll`. `LatchCovered` says
  that nothing but such a job leaves the latch uncounted; `ChangeIsShown` holds as long
  as there is none.
* In `Service`, `cancel` from a handler leaves `running` TRUE, and a start from the
  READY handler runs a task whose value is not shown; in `Task`, a null payload is
  taken for an empty slot, and an update on the FX thread can be overwritten by an
  older one still queued (line 1137). The runs keep away from these (see Bounds).
* A task shown as SUCCEEDED or FAILED can still become CANCELLED, before `FutureTask.run`
  has settled the future (`task_conclusion`), and a Service that shows it with it,
  against `Service.java`, lines 696 to 699. `LifecycleOrder` and `ServiceLifecycle` name
  this as the only exception (`Overtaken`); in `ServiceLifecycle` there is also the
  CANCELLED through which `restart()` passes.
* The first half of an off-thread `start()` is one step: a `restart()` on the FX thread
  between the assignment of `task` (line 673) and `runLater` (line 676) would queue the
  second half behind the new task's runnables. After a `reset()` the second half finds
  the field null and throws (`ScheduleThrows`); no property is about it.
* In the event loops, a handler that leaves its loop and enters another one keeps the
  dispatcher from running anything meanwhile (`loops_deferred`). The assertions of
  `enter()` (`assert ret == this`, line 108) fail in two cases, which `AssertsHold` names:
  in a loop ended by `terminate()`, which returns null, and on gtk, where the value to
  return is one field for all levels that entering does not clear, when a handler has
  left its loop and entered another (`reentered`). After `terminate()` loops may hang on
  gtk and mac (`LeftLoopsReturn`), and runnables not yet run are dropped. And
  `nestedEventLoopEntered`, set by an event while a submitted runnable waits in the native
  queue, lets the dispatcher submit a second one: the order is kept, but a runnable
  that leaves a loop need not be the last one executed in it, as the class comment of
  `InvokeLaterDispatcher` has it.

Each property of a passing run has a mutant in `PROJECT.json`: the operator
marked "Variant" in front of the definition it replaces, a plausible bug which
TLC catches with that property.

## 4. Proofs

### Task

For arbitrary sets of threads, channels and payloads, from `TaskAssumption`
alone (the executing thread is one of the threads, the value channel is
observed, the parameters have their types).

* `TaskTypes` : `Spec => []TypeOK`.
* `TaskLifecycle` : `Spec => []LifecycleOrder`.
* `TaskOutcomes` : `Spec => []OutcomesAgree`.
* `TaskImplementsLife` : `Spec => Life!Init /\ [][Life!Next]_(Life!lifeVars)`, the
  safety half of `ImplementsTaskLife`.

Neither `LifecycleOrder` nor `OutcomesAgree` is inductive: that SUCCEEDED comes
after RUNNING depends on the order of runnables in the queue, and on what the
executing thread holds in its hand. `IInv` adds this:

* `HandInv`: only the executing thread ever holds `running`, `succeeded` or
  `failed`; while it holds `running` none of them is queued, while it holds an
  outcome no outcome is queued.
* `QueueInv`: at most one `running` and one outcome are queued, the outcome
  behind `running` unless RUNNING has been shown; an outcome matches how the
  body ended.
* `StateInv`: once `call` is under way and `running` handed over, RUNNING has been
  shown, is queued, or never will be because the task is CANCELLED.
* `FutureInv`: what the FutureTask holds has been shown or is pending, and
  conversely.
* `TrailInv`: the trail is in order and ends in the state shown.

TLC confirmed `IInv` on two small instances before the proof.
The proof has one lemma per kind of step. `FxEffect` sums up what running the
head of the queue can do to the state; it serves the invariant and the
refinement alike.

The coalesced updates, if null is not a payload (the slots use it as the mark of
being empty):

* `TaskOneRunnable` : `Spec => []OneRunnablePerChannel`. `ChannelInv` is the same place
  by place: no two runnables of a channel are queued or held, and there is one
  exactly when the slot is filled.
* `TaskSucceededHasResult`, `TaskNoLostUpdate` : `Spec => []SucceededHasResult` and
  `Spec => []NoLostUpdate`, if moreover only `call()` updates the value (`OwnValue`):
  the runnable that stores the result writes it past the slot. `ValueInv` says that
  updates of the value are queued in front of that runnable. The second also assumes
  that no channel is updated both on the FX thread, which does not look at the slot, and
  off it (`OneSide`); `FxSlots` says that the slots of the FX thread's channels stay empty.

### Service

For any number of tasks and any depth of nested calls, from `ServiceAssumption` and
`Cautious`: handlers call nothing but `cancel()`, and while the queued half of an
off-thread `start()` is pending the FX thread calls nothing but `cancel()` and
`reset()`. Without the first part several properties fail (section 3). The second is a
limit of the proof: the run `service_calls` allows every call there.

* `ServiceTypes`, `ServiceBindings`, `ServiceNoOrphan`, `ServiceRestart`,
  `ServiceRunning` : `Spec => []TypeOK`, `[]BindingsAgree`, `[]NoOrphan`,
  `[]RestartResets` and `[]RunningWhileActive`.
* `ServiceTasksObeyLife`, `ServiceFollowsLifecycle` : `Spec => TasksObeyLife` and
  `Spec => ServiceLifecycle`.

What the properties say of the quiet Service depends on calls that are half way, so
`ServiceInv` speaks of the frames on the FX thread's stack. It counts them from the
bottom: a frame keeps its height while handlers come and go above it.

* `FrameInv`: which frame can lie under which. `start`, `restart`, `execute`, `detach`
  and the runnables lie at the bottom, what they call directly above, and only
  handlers, their calls of `cancel()` and the end of a `cancel()` at any height.
  Hence no exception ever passes a handler: it empties the stack.
* `FieldInv`: `task` is what the state is bound to, and the other bindings follow
  unless a `reset()` is between `unbind` and its end.
* `StartInv`: the task that is being started has not been handed over, and nobody but a
  cancellation has touched it. This is where `WhileStarting` is needed.
* `StateInv`: the state of a task, its computation and its future fit together;
  tasks that have not been created are as new. `AloneInv`: an abandoned task is cancelled.
* `PostInv`, `DueInv`: the runnables of a task are RUNNING, if it is still to come, and
  then at most one outcome, the one its computation had; so is the one being executed.
* `RunningInv`: `running` agrees with the state, or a frame is left that will store it,
  and none is left that would store the other value.

TLC confirmed `ServiceInv` for two tasks and nine frames (70,228 states) before the
proof. The proof has a lemma for every action. What a step does to the stack is
summed up first: `Keeps` and `Replaced` say which frames stay, `SameFrames` that
those of a class do, and the `Keep...` lemmas which classes each part of the invariant
depends on.

### HLS

For every ring size, segment length, number of segments and number of seeks, from
`HLSAssumption` and `StreamAssumption`.

* `HLSTypes` : `Spec => []TypeOK`; no index leaves the ring.
* `HLSTaskRuns` : `Spec => []TaskRuns`.
* `HLSWriteIndex` : `Spec => []WriteIndexValid`, refused seeks, failed loads and late
  errors included.
* `HLSInOrder`, `HLSEosIsLast` : `Spec => []InOrder` and `Spec => []EosIsLast`, if
  `0 \notin SegmentSizes`: the ring's invariant counts on slots that hold something. The
  run has segments of length 0 too.

None of them but the first is inductive. `IndexInv` says that while the write index
is -1 the next block will be preceded by a SEGMENT event, a seek has been refused, or
a flush is under way; `TaskInv` says, for each
phase of a flush (`Reset`, `Halted`, `Joined`), what the ring, the flags and the
two tasks look like, so that the task that a flush has paused is started again.

`OrderInv`, the invariant behind the order of the stream as long as no seek has been
refused (`seekFailed \/ OrderInv`), has one part per reason why a block could come at
the wrong time:

* `RingInv`: while the element is running there is a number c such that exactly the
  c slots from the read index on are claimed and not read (`Shape`; the slot that
  the next segment claims is the one after them); the blocks in the first follow
  the last one taken, and each further slot follows on from a complete
  predecessor (`Order`); the last block in the ring is the last one written, and
  the segment being written has room for the rest of it (`Growth`); with no race
  and no short read every segment but that one is complete (`Whole`).
* `SlotInv`: `cache_write_ready` is the same as having read the whole segment,
  which is why the test in the SEGMENT handler finds the free slot in front.
* `FlightInv`: what the reader task has taken from the ring and not yet pushed.
* `SourceInv`: which event or block the upstream thread is about to send, and how
  much it has left; `FlagInv`: the flags of a flush and of an end of stream.
* `ResetInv`: a flushed ring is empty, except that an upstream thread that raced
  with the flush may have claimed slot 0. That slot stays empty, and the reader
  waits on it: the stream stalls (`raced`), but its order is kept.
* `EosInv`: after an end of stream nothing is left and nothing is added.

TLC confirmed `OrderInv` for rings of one, two and three slots first. The proof has
a lemma for each of the five steps that change the ring (`ClaimRing`, `WriteRing`,
`ReadRing`, `ReadEndRing`, `ResumeRing`); `RunningStep` shows that all others keep it.

### Event loops

For any number of loops, clients, calls and entered loops, from `LoopAssumption` (the
dispatcher is no client, null no loop, the parameters have their types).

* `TypesHold`, `LeaveAlwaysKept`, `DeferralAlwaysEnds`, `NoNotificationLost`,
  `DispatcherNeverBlocked` : `Spec => []TypeOK`, `[]LeaveIsKept`, `[]DeferralEnds`,
  `[]NoLostNotification`, `[]DispatcherNotBlocked`; `AlwaysInOrder` : `Spec => RunsInOrder`.
* `AssertsAlwaysHold` : `Spec => []AssertsHold`, with the two exceptions that the
  property names (section 3) and no other hypothesis.

`LoopInv` is the conjunction of these with what they need:

* `OrderInv`: the native queue, the dispatcher's hand and the deque hold, in this
  order, exactly the numbers after the last runnable started.
* `StackInv`: no loop is on the stack twice, the loops in use are those on the stack;
  until `terminate()` only loops that have been left are told to end, and the shared
  flag is always meant for the innermost one.
* `WaitInv`: handlers run only runnables that have been started. So the one just
  submitted is in no handler, and one that enters a loop later sets the flag which
  releases the dispatcher.

`LeaveIsKept` needs `OrderInv`: a lambda in flight is passed over by no runnable. For
`AssertsAlwaysHold`, `OneQuit` says that at most the innermost loop is told to end, and
the value waiting to be passed is its own; `QuitInv` says so of every state outside the
two exceptions (`Excepted`), which no step leaves once they have come. TLC confirmed
all of these for two loops, three entries and two runnables on the three platforms.

### ScheduledService

For any number of task slots, any delay, period, cap and limits and any handlers
that cancel, from `ScheduledAssumption`: `ScheduledTypes`, `ScheduledOneAtATime`,
`ScheduledFailureLimit` (`Spec => []...`) and the two action properties
`ScheduledPeriodRespected` (`Spec => PeriodRespected`) and `ScheduledStaysStopped`
(`Spec => StaysStopped`).

The operators of the module take the service's record to another one, so the
invariant is a predicate on records, and each operator (`CancelTask`, `Reset`,
`Start` and so on) has one lemma that says what it keeps. `Base` holds in the middle
of a step too: the state and the current task fit together (`StateInv`), only a
task not yet handed over has a timer (`TimerInv`), abandoned tasks are cancelled
(`AloneInv`), the cumulative period is covered by the time that has passed and what
is left on the timer (`PaceInv`), a stopped service waits for a timer only if a
failure has revived it (`StopInv`). `RestInv` holds between steps only.

### Player

For any number of calls and messages, from `PipelineAssumption`: `PlayerTypes`,
`PlayerStandsStill`, `PlayerNoMissedResume`, `PlayerFreedOnce`.

* `BusInv` relates three places that may disagree for a while: the pipeline, the
  messages on the bus, and the player. A pipeline that plays has its start as the
  last state message on the bus, or else the player has seen it.
* `ThreadInv` and `ResumeInv` say who may still pause the pipeline and who is about
  to start it: a stalled player with enough data has a thread on its way to start
  it, or a pipeline that is starting already.
* `ContentInv` lists the six values that the flags of the callback's content can
  take together, and where the two threads are in each.

### Rendering

For every finite set of scenes, either kind of painter and any number of calls
and failures, from `PulseAssumption`.

* `PulseOnePulse` : `Spec => []OnePulse`. `PulseInv` adds that a live repaint is
  under way only inside its pulse, so that the pulse just taken from the queue is
  the one `pulseRunning` stands for.
* `PulseLatchCovered` : `Spec => []LatchCovered`. `LatchInv` adds `PaintInv` (a scene
  marked as being painted has a job that has yet to clear the mark, and hence to
  count down) and `StageInv` (only scenes in a window are dirty or visited, so
  `repaint()` never meets a disposed one). Both are what makes it safe that
  `repaint()` leaves a scene out that the latch counts. A failed job leaves `jobs` and
  enters `dropped` in the same step, so its count stays accounted for. `RenderAll` compares two
  cardinalities, `DoneCount` removes one element from the covered set.
* `PulseTypes` : `Spec => []TypeOK`. That the latch never counts more than there are
  scenes is part of it, and follows from `LatchCovered`.

### Only model-checked

Every liveness property (`UpdateIsSeen`, the fairness half of `ImplementsTaskLife`,
`ScheduledMovesOn`, `OutcomeIsShown`, `ControlReturns`, `PlaysToTheEnd`,
`ChangeIsShown`, `LeftLoopsReturn`) is beyond the prover. Every other invariant and
action property of a passing run is a theorem.

## 5. Not modelled

In `javafx.concurrent`: property accessors, event registration, the thread check
(`checkThread`), the sizing of the default thread pool (its queue and workers are
`java.util.concurrent`'s), `lastValue`, the exponential and logarithmic back-off
formulas.

In rendering: embedded scenes (`EmbeddedScene`), minimized windows and the branch
of a platform without a window manager, a live resize in the middle of a pulse,
deferred snapshots, the modes `singleThreaded` and `noRenderJobs`, and everything
inside layout, CSS and Prism. The renderer goes on with queued jobs after
`shutdown()`, as a `ThreadPoolExecutor` does.

In event loops: the toolkit's map from keys to loops, the file choosers of win (which
only set `nestedEventLoopEntered`), the interruption of the dispatcher at exit,
spurious wake-ups (the waits are in loops that test again), platforms without a
dispatcher, the closing of windows by `terminate()`, and native loops outside Glass, such as those of drag and drop.

In media: live playlists (`SEEK_DATA` before the stream lock), the byte-range mode
of the Java source, pull mode and queries, spurious wake-ups, file I/O; volume,
balance, equalizer, spectrum, tracks, markers, codec checks, the clock, and calls
that GStreamer refuses.

The other components are listed in section 1 and, with reasons, in
`PROJECT.json`. Most of the repository by size is vendored (WebKit, GStreamer,
GLib), native drawing code or widgets, which have no small state machine.

## 6. Plan

Done, in this order: Task with TaskLife, Service, ScheduledService; Task's types,
life cycle, outcomes and refinement proved; the HLS buffer with its source; the
player; pulses and frames; proofs of the safety properties of HLS, rendering,
Task's updates, ScheduledService, the player and Service; the event loops, modelled
and proved. Next:

1. `Platform`: startup, runLater, runAndWait, idle detection and tkExit, several
   callers. Properties: an accepted runnable runs unless the toolkit exited;
   runAndWait never hangs; listeners are told once; the pending count returns to
   zero.
2. The HTTP progress buffer (`progressbuffer.c`), the sibling of the HLS buffer.
3. `Listeners` and `ListChange`: ExpressionHelper under changes during
   notification; merging of list changes against a reference definition.
