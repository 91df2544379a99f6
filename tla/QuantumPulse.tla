------------------------------- MODULE QuantumPulse -------------------------------
(* Pulses and the hand-over of frames to the renderer: QuantumToolkit,            *)
(* PaintCollector, GlassScene/ViewScene, the painters, the pulse listener of      *)
(* Scene.  Four kinds of threads:                                                 *)
(*   fx      the FX thread: events, pulses, calls of the application              *)
(*   rt      the QuantumRenderer, a single thread with a queue of render jobs     *)
(*   timer   the pulse timer                                                      *)
(*   others  which call Platform.requestNextPulse                                 *)
(* fx, rt and timer say where each of them is.  A critical section of renderLock  *)
(* on the FX thread is one step, taken while the renderer does not hold the lock. *)
(* Of a scene's content the model keeps whether it differs from the render graph  *)
(* (unsynced) and whether the render graph differs from the screen (unshown).     *)
EXTENDS Integers, Sequences, FiniteSets

CONSTANTS
  Scenes,
  Presenting,     \* the scenes with a PresentingPainter (isSynchronous)
  VsyncHint,      \* isVsyncEnabled() /\ ~hasNativeSystemVsync()
  MaxCalls,       \* bound: events of the window system, and calls that do not
                  \* change a node
  MaxFailures     \* bound: painters, pulse listeners and render jobs that fail

ASSUME PulseAssumption ==
  /\ IsFiniteSet(Scenes)
  /\ Presenting \subseteq Scenes
  /\ VsyncHint \in BOOLEAN
  /\ MaxCalls \in Nat /\ MaxFailures \in Nat

VARIABLES
  fx, cur, todo,            \* FX thread: place, scene at hand (or {}), scenes to visit
  live,                     \* {}, or the scene of a live repaint (then pulse(false))
  timer, timerOn,
  pulseRunning, nextPulseRequested, animationRunning,
  animation,                \* animationRunnable is set
  posted,                   \* pulseRunnables in the event queue
  requests,                 \* repaint requests of painters in the event queue
  dirtyScenes, hasDirty, needsHint,
  latch,                    \* count of allWorkCompletedLatch
  peer,                     \* of each scene: none, stage, off (no stage), disposed
  painting,
  jobs, rt,                 \* jobs of the renderer, the first one under way; its place
  unsynced, unshown,
  dropped,                  \* history: jobs that failed, so that their listener never
                            \* heard of them
  lockKept,                 \* a painter that failed has left renderLock locked
  calls, failures,
  lost                      \* history: frames given up by a painter or a pulse, or left
                            \* out by repaint() for a painter that was about to end

fxVars    == <<fx, cur, todo, live>>
pulseVars == <<pulseRunning, nextPulseRequested, animationRunning, animation, posted>>
dirtyVars == <<dirtyScenes, hasDirty>>
failVars  == <<dropped, lockKept>>
histVars  == <<calls, failures, lost>>
vars == <<fxVars, timer, timerOn, pulseVars, requests, dirtyVars, needsHint, latch,
          peer, painting, jobs, rt, unsynced, unshown, failVars, histVars>>

Kinds == {"paint", "live", "image", "dispose"}
Job(kind, s) == [kind |-> kind, scene |-> s]

Init ==
  /\ fx = "idle" /\ cur = {} /\ todo = {} /\ live = {}
  /\ timer = "idle" /\ timerOn = TRUE
  /\ pulseRunning = FALSE /\ nextPulseRequested = FALSE
  /\ animationRunning = FALSE /\ animation = FALSE
  /\ posted = 0 /\ requests = [s \in Scenes |-> 0]
  /\ dirtyScenes = {} /\ hasDirty = FALSE /\ needsHint = FALSE /\ latch = 0
  /\ peer = [s \in Scenes |-> "none"] /\ painting = [s \in Scenes |-> FALSE]
  /\ jobs = <<>> /\ rt = "idle"
  /\ unsynced = Scenes /\ unshown = {}
  /\ dropped = {} /\ lockKept = FALSE
  /\ calls = 0 /\ failures = 0 /\ lost = {}

(* The job of the renderer, when it is not idle.                                  *)
Current == Head(jobs)

(* The renderer holds renderLock.                                                 *)
RtHolds == rt \in {"paint", "end"} \/ lockKept

----------------------------------------------------------------------------------
(* postPulse: the test, and then setPulseRunning with invokeLater.                *)
PulseWanted ==
  fx # "exited" /\ (animationRunning \/ nextPulseRequested \/ hasDirty)

\* Variant: pulseRunning is read and not set.
PostPulseOften ==
  /\ posted' = IF pulseRunning THEN posted ELSE posted + 1
  /\ UNCHANGED pulseRunning

PostPulse ==
  /\ posted' = IF pulseRunning THEN posted ELSE posted + 1
  /\ pulseRunning' = TRUE

TimerFire ==
  /\ timer = "idle" /\ timerOn
  /\ PulseWanted
  /\ timer' = "post"
  /\ UNCHANGED <<fxVars, timerOn, pulseVars, requests, dirtyVars, needsHint, latch,
                 peer, painting, jobs, rt, unsynced, unshown, histVars, failVars>>

TimerPost ==
  /\ timer = "post"
  /\ PostPulse
  /\ timer' = "idle"
  /\ UNCHANGED <<fxVars, timerOn, nextPulseRequested, animationRunning, animation,
                 requests, dirtyVars, needsHint, latch, peer, painting, jobs, rt,
                 unsynced, unshown, histVars, failVars>>

(* requestNextPulse on any thread.                                                *)
RequestNextPulse ==
  /\ calls < MaxCalls
  /\ calls' = calls + 1
  /\ nextPulseRequested' = TRUE
  /\ UNCHANGED <<fxVars, timer, timerOn, pulseRunning, animationRunning, animation,
                 posted, requests, dirtyVars, needsHint, latch, peer, painting, jobs, rt,
                 unsynced, unshown, failures, lost, failVars>>

----------------------------------------------------------------------------------
(* addDirtyScene and removeDirtyScene of PaintCollector, sceneChanged of          *)
(* GlassScene.                                                                    *)
AddDirty(s) ==
  /\ dirtyScenes' = dirtyScenes \cup {s}
  /\ hasDirty' = (hasDirty \/ s \notin dirtyScenes)

RemoveDirty(s) ==
  /\ dirtyScenes' = dirtyScenes \ {s}
  /\ hasDirty' = (dirtyScenes \ {s} # {})

\* Variant: the scene stays in the list when it has lost its stage.
SceneChangedKeep(s, onStage) == AddDirty(s)

SceneChanged(s, onStage) == IF onStage THEN AddDirty(s) ELSE RemoveDirty(s)

(* Application code on the FX thread changes a node: addToDirtyList asks for a    *)
(* pulse if the list was empty.  In a pulse, animations, layout and listeners do. *)
Change(s) ==
  /\ fx \in {"idle", "fire"}
  /\ peer[s] = "stage"
  /\ unsynced' = unsynced \cup {s}
  /\ nextPulseRequested' = (nextPulseRequested \/ s \notin unsynced)
  /\ UNCHANGED <<fxVars, timer, timerOn, pulseRunning, animationRunning, animation,
                 posted, requests, dirtyVars, needsHint, latch, peer, painting, jobs, rt,
                 unshown, histVars, failVars>>

SetAnimationRunnable(set) ==
  /\ fx \in {"idle", "fire"}
  /\ calls < MaxCalls
  /\ calls' = calls + 1
  /\ animation' = set
  /\ animationRunning' = (animationRunning \/ set)
  /\ UNCHANGED <<fxVars, timer, timerOn, pulseRunning, nextPulseRequested, posted,
                 requests, dirtyVars, needsHint, latch, peer, painting, jobs, rt,
                 unsynced, unshown, failures, lost, failVars>>

(* ViewEvent.REPAINT: the screen has lost the content of the window.              *)
Expose(s) ==
  /\ fx = "idle"
  /\ calls < MaxCalls
  /\ calls' = calls + 1
  /\ peer[s] = "stage"
  /\ unshown' = unshown \cup {s}
  /\ SceneChanged(s, TRUE)
  /\ UNCHANGED <<fxVars, timer, timerOn, pulseVars, requests, needsHint, latch, peer,
                 painting, jobs, rt, unsynced, failures, lost, failVars>>

(* A window is shown: initPeer, setScene, setVisible, requestNextPulse.           *)
Show(s) ==
  /\ fx = "idle" /\ ~RtHolds
  /\ peer[s] = "none"
  /\ peer' = [peer EXCEPT ![s] = "stage"]
  /\ SceneChanged(s, TRUE)
  /\ unshown' = unshown \cup {s}
  /\ nextPulseRequested' = TRUE
  /\ UNCHANGED <<fxVars, timer, timerOn, pulseRunning, animationRunning, animation,
                 posted, requests, needsHint, latch, painting, jobs, rt, unsynced,
                 histVars, failVars>>

(* A window is hidden: setScene(null) and the disposal of the presentable, then   *)
(* disposePeer.                                                                   *)
Close(s) ==
  /\ fx = "idle" /\ ~RtHolds
  /\ calls < MaxCalls
  /\ peer[s] = "stage"
  /\ peer' = [peer EXCEPT ![s] = "off"]
  /\ SceneChanged(s, FALSE)
  /\ jobs' = Append(jobs, Job("dispose", s))
  /\ fx' = "close" /\ cur' = {s}
  /\ calls' = calls + 1
  /\ UNCHANGED <<todo, live, timer, timerOn, pulseVars, requests, needsHint, latch,
                 painting, rt, unsynced, unshown, failures, lost, failVars>>

Dispose(s) ==
  /\ fx = "close" /\ s \in cur /\ ~RtHolds
  /\ peer' = [peer EXCEPT ![s] = "disposed"]
  /\ fx' = "idle" /\ cur' = {}
  /\ UNCHANGED <<todo, live, timer, timerOn, pulseVars, requests, dirtyVars,
                 needsHint, latch, painting, jobs, rt, unsynced, unshown, histVars, failVars>>

(* The runnable that a painter has posted (entireSceneNeedsRepaint).              *)
RunRequest(s) ==
  /\ fx = "idle"
  /\ requests[s] > 0
  /\ requests' = [requests EXCEPT ![s] = @ - 1]
  /\ SceneChanged(s, peer[s] = "stage")
  /\ UNCHANGED <<fxVars, timer, timerOn, pulseVars, needsHint, latch, peer, painting,
                 jobs, rt, unsynced, unshown, histVars, failVars>>

----------------------------------------------------------------------------------
(* The first half of pulse(): the flags, and the listeners that firePulse copies. *)
BeginPulse ==
  /\ nextPulseRequested' = FALSE
  /\ animationRunning' = animation
  /\ todo' = {s \in Scenes : peer[s] = "stage"}
  /\ fx' = "fire"

(* pulseFromQueue.                                                                *)
RunPulse ==
  /\ fx = "idle"
  /\ posted > 0
  /\ posted' = posted - 1
  /\ BeginPulse
  /\ UNCHANGED <<cur, live, timer, timerOn, pulseRunning, animation, requests, dirtyVars,
                 needsHint, latch, peer, painting, jobs, rt, unsynced, unshown, histVars, failVars>>

\* Variant: the requests that came during the pulse are cleared.
EndPulseClears ==
  /\ fx' = "idle"
  /\ pulseRunning' = FALSE
  /\ nextPulseRequested' = FALSE

(* The pulse returns or throws: endPulseRunning.                                  *)
EndPulse ==
  /\ fx' = "idle"
  /\ pulseRunning' = FALSE
  /\ UNCHANGED nextPulseRequested

(* firePulse: the pulse listeners of the scenes, in no particular order.          *)
FireScene(s) ==
  /\ fx = "fire" /\ s \in todo
  /\ todo' = todo \ {s}
  /\ IF s \in unsynced THEN fx' = "await" /\ cur' = {s} ELSE UNCHANGED <<fx, cur>>
  /\ UNCHANGED <<live, timer, timerOn, pulseVars, requests, dirtyVars, needsHint,
                 latch, peer, painting, jobs, rt, unsynced, unshown, histVars, failVars>>

(* waitForRenderingToComplete and renderLock, then the render graph is brought up *)
(* to date.                                                                       *)
SyncScene(s) ==
  /\ fx = "await" /\ s \in cur
  /\ latch = 0 /\ ~RtHolds
  /\ unsynced' = unsynced \ {s}
  /\ unshown' = unshown \cup {s}
  /\ SceneChanged(s, TRUE)
  /\ fx' = "fire" /\ cur' = {}
  /\ UNCHANGED <<todo, live, timer, timerOn, pulseVars, requests, needsHint, latch, peer,
                 painting, jobs, rt, histVars, failVars>>

(* A listener throws: the pulse is over, for the other scenes too, and a live     *)
(* repaint with it.                                                               *)
ListenerThrows ==
  /\ fx = "fire"
  /\ failures < MaxFailures
  /\ failures' = failures + 1
  /\ lost' = lost \cup {s \in unsynced : peer[s] = "stage"}
  /\ IF live = {} THEN EndPulse ELSE fx' = "idle" /\ UNCHANGED <<pulseRunning, nextPulseRequested>>
  /\ live' = {} /\ todo' = {}
  /\ UNCHANGED <<cur, timer, timerOn, animationRunning, animation, posted, requests, dirtyVars,
                 needsHint, latch, peer, painting, jobs, rt, unsynced, unshown, calls, failVars>>

(* renderAll: a new latch, then repaint() of every dirty scene, those with an     *)
(* UploadingPainter first.                                                        *)
RenderAll ==
  /\ fx = "fire" /\ todo = {} /\ live = {}
  /\ IF hasDirty
     THEN /\ hasDirty' = FALSE /\ needsHint' = FALSE
          /\ latch' = Cardinality(dirtyScenes)
          /\ todo' = dirtyScenes
          /\ fx' = "loop"
          /\ UNCHANGED <<pulseRunning, nextPulseRequested>>
     ELSE EndPulse /\ UNCHANGED <<hasDirty, needsHint, latch, todo>>
  /\ UNCHANGED <<cur, live, timer, timerOn, animationRunning, animation, posted, requests,
                 dirtyScenes, peer, painting, jobs, rt, unsynced, unshown, histVars, failVars>>

(* A job for the scene whose done() has yet to count, and one that has yet to     *)
(* paint it.                                                                      *)
Outstanding(s) == \E i \in 1 .. Len(jobs) : jobs[i] = Job("paint", s)

WillPaint(s) ==
  \E i \in 1 .. Len(jobs) :
    jobs[i] = Job("paint", s) /\ (i > 1 \/ rt \in {"idle", "paint"})

Repaint(s) ==
  /\ fx = "loop" /\ s \in todo
  /\ s \in Presenting => todo \subseteq Presenting
  /\ todo' = todo \ {s}
  /\ needsHint' = (needsHint \/ s \in Presenting)
  /\ IF peer[s] # "disposed" /\ ~painting[s]
     THEN /\ painting' = [painting EXCEPT ![s] = TRUE]
          /\ jobs' = Append(jobs, Job("paint", s))
     ELSE UNCHANGED <<painting, jobs>>
  /\ lost' = IF painting[s] /\ s \in unshown /\ ~WillPaint(s) THEN lost \cup {s} ELSE lost
  /\ UNCHANGED <<fx, cur, live, timer, timerOn, pulseVars, requests, dirtyVars,
                 latch, peer, rt, unsynced, unshown, calls, failures, failVars>>

RenderEnd ==
  /\ fx = "loop" /\ todo = {}
  /\ dirtyScenes' = {}
  /\ EndPulse
  /\ UNCHANGED <<cur, todo, live, timer, timerOn, animationRunning, animation, posted, requests,
                 hasDirty, needsHint, latch, peer, painting, jobs, rt, unsynced, unshown,
                 histVars, failVars>>

----------------------------------------------------------------------------------
(* ViewEvent.RESIZE with live resize: a pulse that does not collect, then a job   *)
(* for the painter of this scene, which the FX thread waits for.                  *)
Resize(s) ==
  /\ fx = "idle" /\ ~RtHolds
  /\ calls < MaxCalls
  /\ peer[s] = "stage"
  /\ calls' = calls + 1
  /\ unshown' = unshown \cup {s}
  /\ SceneChanged(s, TRUE)
  /\ live' = {s}
  /\ BeginPulse
  /\ UNCHANGED <<cur, timer, timerOn, pulseRunning, animation, posted, requests, needsHint,
                 latch, peer, painting, jobs, rt, unsynced, failures, lost, failVars>>

LiveJob(s) ==
  /\ fx = "fire" /\ todo = {} /\ s \in live
  /\ jobs' = Append(jobs, Job("live", s))
  /\ fx' = "job_wait" /\ cur' = live
  /\ UNCHANGED <<todo, live, timer, timerOn, pulseVars, requests, dirtyVars, needsHint, latch,
                 peer, painting, rt, unsynced, unshown, histVars, failVars>>

(* Scene.snapshot: the nodes are synchronized, an image is rendered and the       *)
(* scene is marked dirty.                                                         *)
Snapshot(s) ==
  /\ fx = "idle"
  /\ calls < MaxCalls
  /\ peer[s] = "stage"
  /\ calls' = calls + 1
  /\ fx' = "snap_await" /\ cur' = {s}
  /\ UNCHANGED <<todo, live, timer, timerOn, pulseVars, requests, dirtyVars, needsHint,
                 latch, peer, painting, jobs, rt, unsynced, unshown, failures, lost, failVars>>

SnapshotSync(s) ==
  /\ fx = "snap_await" /\ s \in cur /\ ~RtHolds
  /\ latch = 0
  /\ unsynced' = unsynced \ {s}
  /\ unshown' = IF s \in unsynced THEN unshown \cup {s} ELSE unshown
  /\ jobs' = Append(jobs, Job("image", s))
  /\ fx' = "job_wait"
  /\ UNCHANGED <<cur, todo, live, timer, timerOn, pulseVars, requests, dirtyVars,
                 needsHint, latch, peer, painting, rt, histVars, failVars>>

JobDone(s) ==
  /\ fx = "job_wait" /\ s \in cur
  /\ dropped \cap {Job("live", s), Job("image", s)} = {}
  /\ \A i \in 1 .. Len(jobs) : jobs[i].kind \notin {"live", "image"}
  /\ fx' = "idle" /\ cur' = {} /\ live' = {}
  /\ IF live = {} THEN SceneChanged(s, TRUE) ELSE UNCHANGED dirtyVars
  /\ UNCHANGED <<todo, timer, timerOn, pulseVars, requests, needsHint, latch, peer, painting,
                 jobs, rt, unsynced, unshown, histVars, failVars>>

----------------------------------------------------------------------------------
(* QuantumToolkit.exit: no more pulses, wait for the last frame, terminate.       *)
Exit ==
  /\ fx = "idle"
  /\ calls < MaxCalls
  /\ calls' = calls + 1
  /\ timerOn' = FALSE
  /\ fx' = "exit_wait"
  /\ UNCHANGED <<cur, todo, live, timer, pulseVars, requests, dirtyVars, needsHint,
                 latch, peer, painting, jobs, rt, unsynced, unshown, failures, lost, failVars>>

Terminate ==
  /\ fx = "exit_wait"
  /\ latch = 0 /\ ~RtHolds
  /\ fx' = "exited"
  /\ UNCHANGED <<cur, todo, live, timer, timerOn, pulseVars, requests, dirtyVars, needsHint,
                 latch, peer, painting, jobs, rt, unsynced, unshown, histVars, failVars>>

----------------------------------------------------------------------------------
(* The renderer takes a job; a painter starts with renderLock.lock().             *)
TakeJob ==
  /\ rt = "idle" /\ jobs # <<>>
  /\ rt' = IF Current.kind \in {"paint", "live"} THEN "paint" ELSE "done"
  /\ UNCHANGED <<fxVars, timer, timerOn, pulseVars, requests, dirtyVars, needsHint, latch, peer,
                 painting, jobs, unsynced, unshown, histVars, failVars>>

(* validateStageGraphics, and the painting of the render graph as it is.          *)
Paint ==
  /\ rt = "paint"
  /\ IF peer[Current.scene] = "stage"
     THEN /\ unshown' = unshown \ {Current.scene}
          /\ lost' = lost \ ({Current.scene} \ unsynced)
     ELSE UNCHANGED <<unshown, lost>>
  /\ rt' = "end"
  /\ UNCHANGED <<fxVars, timer, timerOn, pulseVars, requests, dirtyVars, needsHint,
                 latch, peer, painting, jobs, unsynced, calls, failures, failVars>>

(* The surface is lost, the device is not ready or present() fails: the painter   *)
(* asks for another frame ...                                                     *)
PaintFails ==
  /\ rt = "paint"
  /\ peer[Current.scene] = "stage"
  /\ failures < MaxFailures
  /\ failures' = failures + 1
  /\ unshown' = unshown \cup {Current.scene}
  /\ requests' = [requests EXCEPT ![Current.scene] = @ + 1]
  /\ rt' = "end"
  /\ UNCHANGED <<fxVars, timer, timerOn, pulseVars, dirtyVars, needsHint, latch, peer,
                 painting, jobs, unsynced, calls, lost, failVars>>

(* ... except after a Throwable, or in an UploadingPainter without device.        *)
PaintDrops ==
  /\ rt = "paint"
  /\ peer[Current.scene] = "stage"
  /\ failures < MaxFailures
  /\ failures' = failures + 1
  /\ unshown' = unshown \cup {Current.scene}
  /\ lost' = lost \cup {Current.scene}
  /\ rt' = "end"
  /\ UNCHANGED <<fxVars, timer, timerOn, pulseVars, requests, dirtyVars, needsHint,
                 latch, peer, painting, jobs, unsynced, calls, failVars>>

(* setPainting(false), renderLock.unlock().                                       *)
PaintEnd ==
  /\ rt = "end"
  /\ painting' = [painting EXCEPT ![Current.scene] = FALSE]
  /\ rt' = "done"
  /\ UNCHANGED <<fxVars, timer, timerOn, pulseVars, requests, dirtyVars, needsHint,
                 latch, peer, jobs, unsynced, unshown, histVars, failVars>>

(* Disposer.cleanUp or the texture pool throws in the painter's finally block, in *)
(* front of setPainting(false) or behind it, and before renderLock.unlock():      *)
(* runAndReset() answers false, and the completion listener is not called.        *)
PainterThrows ==
  /\ rt = "end"
  /\ failures < MaxFailures
  /\ failures' = failures + 1
  /\ painting' \in {painting, [painting EXCEPT ![Current.scene] = FALSE]}
  /\ lockKept' = TRUE
  /\ dropped' = dropped \cup {Current}
  /\ rt' = "idle" /\ jobs' = Tail(jobs)
  /\ UNCHANGED <<fxVars, timer, timerOn, pulseVars, requests, dirtyVars, needsHint,
                 latch, peer, unsynced, unshown, calls, lost>>

(* The same for a job that is no painter; or the listener of a frame throws       *)
(* before it has counted down (frameRendered, notifyRenderingFinished).           *)
JobThrows ==
  /\ rt = "done" /\ Current.kind \in {"paint", "image"}
  /\ failures < MaxFailures
  /\ failures' = failures + 1
  /\ dropped' = dropped \cup {Current}
  /\ rt' = "idle" /\ jobs' = Tail(jobs)
  /\ UNCHANGED <<fxVars, timer, timerOn, pulseVars, requests, dirtyVars, needsHint,
                 latch, peer, painting, unsynced, unshown, lockKept, calls, lost>>

(* The job's completion listener: for a frame PaintCollector.done, which reads    *)
(* the count and perhaps posts a pulse before it counts down.                     *)
Done ==
  /\ rt = "done"
  /\ IF Current.kind = "paint"
     THEN /\ rt' = IF latch = 1 /\ needsHint /\ VsyncHint /\ PulseWanted THEN "hint" ELSE "count"
          /\ UNCHANGED jobs
     ELSE /\ rt' = "idle"
          /\ jobs' = Tail(jobs)
  /\ UNCHANGED <<fxVars, timer, timerOn, pulseVars, requests, dirtyVars, needsHint, latch, peer,
                 painting, unsynced, unshown, histVars, failVars>>

DoneHint ==
  /\ rt = "hint"
  /\ PostPulse
  /\ rt' = "count"
  /\ UNCHANGED <<fxVars, timer, timerOn, nextPulseRequested, animationRunning,
                 animation, requests, dirtyVars, needsHint, latch, peer, painting, jobs,
                 unsynced, unshown, histVars, failVars>>

\* Variant: a plain counter instead of a CountDownLatch.
DoneCountPlain ==
  /\ rt = "count"
  /\ latch' = latch - 1
  /\ rt' = "idle" /\ jobs' = Tail(jobs)
  /\ UNCHANGED <<fxVars, timer, timerOn, pulseVars, requests, dirtyVars, needsHint,
                 peer, painting, unsynced, unshown, histVars, failVars>>

DoneCount ==
  /\ rt = "count"
  /\ latch' = IF latch > 0 THEN latch - 1 ELSE 0
  /\ rt' = "idle" /\ jobs' = Tail(jobs)
  /\ UNCHANGED <<fxVars, timer, timerOn, pulseVars, requests, dirtyVars, needsHint,
                 peer, painting, unsynced, unshown, histVars, failVars>>

----------------------------------------------------------------------------------
(* What the FX thread does by itself, and what the application and the windowing  *)
(* system make it do.                                                             *)
FxStep ==
  \/ RunPulse \/ RenderAll \/ RenderEnd \/ Terminate
  \/ \E s \in Scenes : \/ RunRequest(s) \/ FireScene(s) \/ SyncScene(s) \/ Repaint(s)
                      \/ LiveJob(s) \/ SnapshotSync(s) \/ JobDone(s) \/ Dispose(s)

Application ==
  \/ \E s \in Scenes : Change(s) \/ Expose(s) \/ Show(s) \/ Close(s) \/ Resize(s) \/ Snapshot(s)
  \/ \E set \in BOOLEAN : SetAnimationRunnable(set)
  \/ ListenerThrows \/ Exit \/ RequestNextPulse

TimerStep == TimerFire \/ TimerPost

PaintStep == Paint \/ PaintFails \/ PaintDrops

RenderStep ==
  \/ TakeJob \/ PaintStep \/ PaintEnd \/ Done \/ DoneHint \/ DoneCount
  \/ PainterThrows \/ JobThrows

Next == FxStep \/ Application \/ TimerStep \/ RenderStep

Spec == Init /\ [][Next]_vars

(* The three threads run, the timer fires again and again until it is stopped,    *)
(* and the event queue is a queue: no runnable waits behind pulses for ever.      *)
(* Nothing need happen that the application does.                                 *)
Fairness ==
  /\ WF_vars(FxStep) /\ WF_vars(TimerStep) /\ WF_vars(RenderStep)
  /\ SF_vars(\E s \in Scenes : RunRequest(s))

FairSpec == Spec /\ Fairness

----------------------------------------------------------------------------------
(* Where the FX thread can be: in a pulse, waiting or busy otherwise, on the way  *)
(* out.                                                                           *)
PulsePlaces == {"fire", "await", "loop"}
ExitPlaces  == {"exit_wait", "exited"}
FxPlaces    == PulsePlaces \cup ExitPlaces
                 \cup {"idle", "close", "job_wait", "snap_await"}

(* The latch is never negative or larger than the number of scenes, requests and  *)
(* queue hold what the code puts there.                                           *)
TypeOK ==
  /\ fx \in FxPlaces /\ cur \subseteq Scenes /\ todo \subseteq Scenes /\ live \subseteq Scenes
  /\ timer \in {"idle", "post"} /\ timerOn \in BOOLEAN
  /\ pulseRunning \in BOOLEAN /\ nextPulseRequested \in BOOLEAN
  /\ animationRunning \in BOOLEAN /\ animation \in BOOLEAN
  /\ posted \in Nat /\ requests \in [Scenes -> Nat]
  /\ dirtyScenes \subseteq Scenes /\ hasDirty \in BOOLEAN /\ needsHint \in BOOLEAN
  /\ latch \in 0 .. Cardinality(Scenes)
  /\ peer \in [Scenes -> {"none", "stage", "off", "disposed"}]
  /\ painting \in [Scenes -> BOOLEAN]
  /\ jobs \in Seq([kind : Kinds, scene : Scenes])
  /\ rt \in {"idle", "paint", "end", "done", "hint", "count"}
  /\ unsynced \subseteq Scenes /\ unshown \subseteq Scenes
  /\ dropped \subseteq [kind : Kinds, scene : Scenes] /\ lockKept \in BOOLEAN
  /\ calls \in 0 .. MaxCalls /\ failures \in 0 .. MaxFailures
  /\ lost \subseteq Scenes

(* What allWorkCompletedLatch still waits for is on its way: each count has a     *)
(* scene of its own whose job has yet to count it down, or that renderAll has     *)
(* still to visit.  Otherwise the FX thread would wait for ever in the next       *)
(* pulse, in a snapshot or in exit().  repaint() leaves out a scene that is being *)
(* painted although the latch counts it: the job under way has to pay for it.     *)
(* RenderJob.run breaks this in one way only: for a job that fails it never calls *)
(* done(), and that scene's count stays for good.                                 *)
Unpaid(s) == Outstanding(s) \/ Job("paint", s) \in dropped

LatchCovered ==
  latch <= Cardinality({s \in Scenes : Unpaid(s) \/ (fx = "loop" /\ s \in todo)})

(* pulseRunning stands for exactly one pulse, in the event queue or under way:    *)
(* the timer and the vsync hint never queue a second one, and when the flag is    *)
(* set a pulse is there that will clear it.  A flag left set would end all        *)
(* rendering.                                                                     *)
OnePulse ==
  posted + (IF fx \in PulsePlaces /\ live = {} THEN 1 ELSE 0) = (IF pulseRunning THEN 1 ELSE 0)

(* exit() waits on the latch "for the last frame to finish so that the renderer   *)
(* is not running while we are shutting down glass" (QuantumToolkit.exit).        *)
ExitAfterLastFrame ==
  fx = "exited" => \A s \in Scenes : ~Outstanding(s)

(* The toolkit has stopped: it exits, or a failed job has left the FX thread to   *)
(* wait for its listener or for renderLock.                                       *)
Stopped == fx \in ExitPlaces \/ dropped # {}

(* The scene needs no frame any more, or one was given up (hazards of their own). *)
Gone(s) == peer[s] # "stage" \/ Stopped \/ s \in lost

(* Every change of a scene in a window is synchronized and painted, and every     *)
(* requested pulse runs, whatever the timer, the vsync hint, other pulses, live   *)
(* resizes, snapshots, closing windows and painters that retry do in between: no  *)
(* change stays unsynchronized or unpainted, and no request pending, for ever,    *)
(* as long as no render job fails (see Stopped).                                  *)
ChangeIsShown ==
  /\ \A s \in Scenes : []<>(s \notin unsynced \/ Gone(s)) /\ []<>(s \notin unshown \/ Gone(s))
  /\ []<>(~nextPulseRequested \/ Stopped)

===================================================================================
