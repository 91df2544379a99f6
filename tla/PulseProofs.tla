------------------------------- MODULE PulseProofs -------------------------------
(* OnePulse of QuantumPulse for any number of scenes.  It is not inductive: that  *)
(* the pulse just taken from the queue is the one pulseRunning stands for depends *)
(* on live, which must be empty whenever the FX thread is back in its event loop. *)
EXTENDS QuantumPulse, FiniteSetTheorems, SequenceTheorems, TLAPS

(* A live repaint is under way only inside its pulse or waiting for its job.      *)
LiveInv == live # {} => fx \in {"fire", "await", "job_wait"}

(* A pulse that does not collect never reaches renderAll.                         *)
LoopInv == fx = "loop" => live = {}

PulseInv ==
  /\ posted \in Nat
  /\ pulseRunning \in BOOLEAN
  /\ LiveInv
  /\ LoopInv
  /\ OnePulse

LEMMA PulseInit == Init => PulseInv
<1> SUFFICES ASSUME Init PROVE PulseInv
  OBVIOUS
<1>1. ~pulseRunning /\ pulseRunning \in BOOLEAN
  BY DEF Init
<1>2. fx = "idle" /\ live = {} /\ posted = 0
  BY DEF Init
<1> QED BY <1>1, <1>2 DEF PulseInv, LiveInv, LoopInv, OnePulse, PulsePlaces

(* The steps that post a pulse.                                                   *)
LEMMA PostKeeps ==
  ASSUME PulseInv, PostPulse, UNCHANGED fxVars
  PROVE  PulseInv'
  BY DEF PulseInv, PostPulse, fxVars, LiveInv, LoopInv, OnePulse, PulsePlaces

(* The steps that leave the pulse, its flag and the FX thread's place alone.      *)
LEMMA QuietKeeps ==
  ASSUME PulseInv, UNCHANGED <<fx, live, posted, pulseRunning>>
  PROVE  PulseInv'
  BY DEF PulseInv, LiveInv, LoopInv, OnePulse, PulsePlaces

(* The steps of the FX thread between its event loop and places outside a pulse.  *)
LEMMA OutsideKeeps ==
  ASSUME PulseInv, UNCHANGED <<posted, pulseRunning>>, fx \notin PulsePlaces,
         fx' \notin PulsePlaces, live' = {}
  PROVE  PulseInv'
  BY DEF PulseInv, LiveInv, LoopInv, OnePulse, PulsePlaces

(* The end of a pulse that collects.                                              *)
LEMMA EndKeeps ==
  ASSUME PulseInv, fx \in PulsePlaces, live = {}, live' = {}, EndPulse, posted' = posted
  PROVE  PulseInv'
<1>1. posted \in Nat /\ posted + 1 = (IF pulseRunning THEN 1 ELSE 0)
  BY DEF PulseInv, OnePulse
<1>2. posted = 0
  BY <1>1
<1>3. fx' = "idle" /\ ~pulseRunning' /\ pulseRunning' \in BOOLEAN
  BY DEF EndPulse
<1> QED BY <1>2, <1>3 DEF PulseInv, LiveInv, LoopInv, OnePulse, PulsePlaces

(* The steps inside a pulse, and from its end to the job of a live repaint.       *)
LEMMA InsideKeeps ==
  ASSUME PulseInv, UNCHANGED <<live, posted, pulseRunning>>, fx \in {"fire", "await"},
         fx' \in {"fire", "await"} \/ (live = {} /\ fx' = "loop") \/ (live # {} /\ fx' = "job_wait")
  PROVE  PulseInv'
  BY DEF PulseInv, LiveInv, LoopInv, OnePulse, PulsePlaces

LEMMA RenderKeeps == ASSUME PulseInv, RenderStep PROVE PulseInv'
<1>1. CASE DoneHint
  BY <1>1, PostKeeps DEF DoneHint
<1>2. CASE \/ TakeJob \/ Paint \/ PaintFails \/ PaintDrops \/ PaintEnd \/ Done \/ DoneCount
          \/ PainterThrows \/ JobThrows
  BY <1>2, QuietKeeps DEF TakeJob, Paint, PaintFails, PaintDrops, PaintEnd, Done, DoneCount,
                          PainterThrows, JobThrows, fxVars, pulseVars
<1> QED BY <1>1, <1>2 DEF RenderStep, PaintStep

LEMMA TimerKeeps == ASSUME PulseInv, TimerStep PROVE PulseInv'
  BY PostKeeps, QuietKeeps DEF TimerStep, TimerFire, TimerPost, fxVars, pulseVars

LEMMA ApplicationKeeps == ASSUME PulseInv, Application PROVE PulseInv'
<1>1. ASSUME NEW s \in Scenes, Change(s) \/ Expose(s) \/ Show(s)  PROVE PulseInv'
  BY <1>1, QuietKeeps DEF Change, Expose, Show, fxVars, pulseVars
<1>2. ASSUME NEW s \in Scenes, Close(s) \/ Snapshot(s)  PROVE PulseInv'
  <2>1. live = {} /\ live' = live /\ fx \notin PulsePlaces /\ fx' \notin PulsePlaces
    BY <1>2 DEF Close, Snapshot, PulseInv, LiveInv, PulsePlaces
  <2> QED BY <1>2, <2>1, OutsideKeeps DEF Close, Snapshot, pulseVars
<1>3. ASSUME NEW s \in Scenes, Resize(s)  PROVE PulseInv'
  <2>1. fx = "idle" /\ fx' = "fire" /\ live' = {s} /\ UNCHANGED <<posted, pulseRunning>>
    BY <1>3 DEF Resize, BeginPulse
  <2>2. live' # {}
    BY <2>1
  <2> QED BY <2>1, <2>2 DEF PulseInv, LiveInv, LoopInv, OnePulse, PulsePlaces
<1>4. ASSUME NEW set \in BOOLEAN, SetAnimationRunnable(set)  PROVE PulseInv'
  BY <1>4, QuietKeeps DEF SetAnimationRunnable, fxVars
<1>5. CASE RequestNextPulse
  BY <1>5, QuietKeeps DEF RequestNextPulse, fxVars
<1>6. CASE Exit
  <2>1. live = {} /\ live' = live /\ fx \notin PulsePlaces /\ fx' \notin PulsePlaces
    BY <1>6 DEF Exit, PulseInv, LiveInv, PulsePlaces
  <2> QED BY <1>6, <2>1, OutsideKeeps DEF Exit, pulseVars
<1>7. CASE ListenerThrows
  <2>1. fx \in PulsePlaces /\ live' = {} /\ posted' = posted
    BY <1>7 DEF ListenerThrows, PulsePlaces
  <2>2. CASE live = {}
    BY <1>7, <2>1, <2>2, EndKeeps DEF ListenerThrows
  <2>3. CASE live # {}
    <3>1. fx' = "idle" /\ pulseRunning' = pulseRunning
      BY <1>7, <2>3 DEF ListenerThrows
    <3> QED BY <2>1, <2>3, <3>1 DEF PulseInv, LiveInv, LoopInv, OnePulse, PulsePlaces
  <2> QED BY <2>2, <2>3
<1> QED BY <1>1, <1>2, <1>3, <1>4, <1>5, <1>6, <1>7 DEF Application

LEMMA FxKeeps == ASSUME PulseInv, FxStep PROVE PulseInv'
<1>1. CASE RunPulse
  <2>1. /\ fx = "idle" /\ fx' = "fire" /\ live' = live
        /\ posted > 0 /\ posted' = posted - 1 /\ pulseRunning' = pulseRunning
    BY <1>1 DEF RunPulse, BeginPulse
  <2> QED BY <2>1 DEF PulseInv, LiveInv, LoopInv, OnePulse, PulsePlaces
<1>2. CASE RenderAll
  <2>1. fx = "fire" /\ fx \in PulsePlaces /\ live = {} /\ live' = {} /\ posted' = posted
    BY <1>2 DEF RenderAll, PulsePlaces
  <2>2. CASE hasDirty
    BY <1>2, <2>1, <2>2, InsideKeeps DEF RenderAll
  <2>3. CASE ~hasDirty
    BY <1>2, <2>1, <2>3, EndKeeps DEF RenderAll
  <2> QED BY <2>2, <2>3
<1>3. CASE RenderEnd
  <2>1. fx \in PulsePlaces /\ live = {} /\ live' = {} /\ posted' = posted /\ EndPulse
    BY <1>3 DEF RenderEnd, PulsePlaces, PulseInv, LoopInv
  <2> QED BY <2>1, EndKeeps
<1>4. CASE Terminate
  <2>1. live = {} /\ live' = live /\ fx \notin PulsePlaces /\ fx' \notin PulsePlaces
    BY <1>4 DEF Terminate, PulseInv, LiveInv, PulsePlaces
  <2> QED BY <1>4, <2>1, OutsideKeeps DEF Terminate, pulseVars
<1>5. ASSUME NEW s \in Scenes, RunRequest(s) \/ Repaint(s)  PROVE PulseInv'
  BY <1>5, QuietKeeps DEF RunRequest, Repaint, fxVars, pulseVars
<1>6. ASSUME NEW s \in Scenes, FireScene(s) \/ SyncScene(s)  PROVE PulseInv'
  <2>1. fx \in {"fire", "await"} /\ fx' \in {"fire", "await"}
    BY <1>6 DEF FireScene, SyncScene
  <2> QED BY <1>6, <2>1, InsideKeeps DEF FireScene, SyncScene, pulseVars
<1>7. ASSUME NEW s \in Scenes, LiveJob(s)  PROVE PulseInv'
  <2>1. fx = "fire" /\ live # {} /\ fx' = "job_wait"
    BY <1>7 DEF LiveJob
  <2> QED BY <1>7, <2>1, InsideKeeps DEF LiveJob, pulseVars
<1>8. ASSUME NEW s \in Scenes, SnapshotSync(s) \/ JobDone(s) \/ Dispose(s)  PROVE PulseInv'
  <2>1. fx \notin PulsePlaces /\ fx' \notin PulsePlaces /\ live' = {}
    BY <1>8 DEF SnapshotSync, JobDone, Dispose, PulseInv, LiveInv, PulsePlaces
  <2> QED BY <1>8, <2>1, OutsideKeeps DEF SnapshotSync, JobDone, Dispose, pulseVars
<1> QED BY <1>1, <1>2, <1>3, <1>4, <1>5, <1>6, <1>7, <1>8 DEF FxStep

(* However the timer, the renderer's vsync hint and the FX thread interleave, and *)
(* whatever listeners throw, pulseRunning stands for exactly one pulse, queued or *)
(* under way: setPulseRunning never lets a second one through and every pulse     *)
(* ends in endPulseRunning.                                                       *)
THEOREM PulseOnePulse == Spec => []OnePulse
<1>1. PulseInv /\ [Next]_vars => PulseInv'
  <2>1. CASE UNCHANGED vars
    BY <2>1, QuietKeeps DEF vars, fxVars, pulseVars
  <2> QED BY <2>1, FxKeeps, ApplicationKeeps, TimerKeeps, RenderKeeps DEF Next
<1>2. PulseInv => OnePulse
  BY DEF PulseInv
<1> QED BY <1>1, <1>2, PulseInit, PTL DEF Spec

----------------------------------------------------------------------------------
(* LatchCovered: the FX thread never waits for a frame that nobody is going to     *)
(* render.  That alone is not inductive: a scene that renderAll visits may leave    *)
(* its list without a new job, so one must know why repaint() left it out.          *)
Jobs == [kind : Kinds, scene : Scenes]

(* The part of the type invariant that the argument uses.                         *)
QueueTypes ==
  /\ jobs \in Seq(Jobs)
  /\ rt # "idle" => jobs # <<>>
  /\ latch \in Nat
  /\ painting \in [Scenes -> BOOLEAN]
  /\ peer \in [Scenes -> {"none", "stage", "off", "disposed"}]
  /\ dropped \subseteq Jobs

Staged == {s \in Scenes : peer[s] = "stage"}

(* Only scenes in a window are dirty or visited by a pulse, and closing a window  *)
(* begins with taking its scene off the list.  repaint() therefore never meets a  *)
(* disposed scene.                                                                *)
StageInv ==
  /\ dirtyScenes \subseteq Staged
  /\ fx = "loop" => todo \subseteq dirtyScenes
  /\ fx \in {"fire", "await"} => todo \subseteq Staged /\ live \subseteq Staged
  /\ fx \in {"fire", "await", "snap_await", "job_wait"} => cur \subseteq Staged
  /\ fx = "close" => cur \cap Staged = {}
  /\ fx \in {"idle", "fire", "loop"} => cur = {}

(* A scene marked as being painted has a job that has yet to clear the mark: if   *)
(* repaint() leaves the scene out, that job will count for it, unless it failed.  *)
Pending(s) ==
  \E i \in 1 .. Len(jobs) :
    jobs[i] = Job("paint", s) /\ (i > 1 \/ rt \in {"idle", "paint", "end"})

Marked(s) == Pending(s) \/ Job("paint", s) \in dropped

PaintInv == \A s \in Scenes : painting[s] => Marked(s)

LatchInv == QueueTypes /\ StageInv /\ PaintInv /\ LatchCovered

----------------------------------------------------------------------------------
(* The scenes that the latch may count.                                           *)
Covered == {s \in Scenes : Unpaid(s) \/ (fx = "loop" /\ s \in todo)}

LEMMA CoveredFinite == IsFiniteSet(Covered) /\ Cardinality(Covered) \in Nat
<1>1. Covered \subseteq Scenes
  BY DEF Covered
<1> QED BY <1>1, PulseAssumption, FS_Subset, FS_CardinalityType DEF PulseAssumption

LEMMA CoveredFinitePrime == IsFiniteSet(Covered') /\ Cardinality(Covered') \in Nat
<1>1. Covered' \subseteq Scenes
  BY DEF Covered
<1> QED BY <1>1, PulseAssumption, FS_Subset, FS_CardinalityType DEF PulseAssumption

(* A step that uncovers no scene and does not raise the latch.                    *)
LEMMA CoverGrows ==
  ASSUME LatchCovered, latch \in Nat, latch' = latch, Covered \subseteq Covered'
  PROVE  LatchCovered'
<1>1. Cardinality(Covered) <= Cardinality(Covered')
  BY CoveredFinitePrime, FS_Subset
<1>2. latch <= Cardinality(Covered)
  BY DEF LatchCovered, Covered
<1>3. latch' <= Cardinality(Covered')
  BY <1>1, <1>2, CoveredFinite, CoveredFinitePrime
<1> QED BY <1>3 DEF LatchCovered, Covered

(* Appending a job, and removing the first one.                                   *)
LEMMA AppendKeeps ==
  ASSUME NEW j \in Jobs, QueueTypes, jobs' = Append(jobs, j)
  PROVE  /\ jobs' \in Seq(Jobs) /\ jobs' # <<>>
         /\ \A s : Outstanding(s) => Outstanding(s)'
         /\ rt' = rt => \A s : Pending(s) => Pending(s)'
         /\ \A s : j = Job("paint", s) => Outstanding(s)'
<1>1. /\ jobs \in Seq(Jobs) /\ Len(jobs) \in Nat /\ Len(jobs') = Len(jobs) + 1
      /\ jobs' \in Seq(Jobs)
      /\ \A i \in 1 .. Len(jobs) : jobs'[i] = jobs[i]
      /\ jobs'[Len(jobs) + 1] = j
  BY DEF QueueTypes
<1>2. jobs' # <<>>
  BY <1>1
<1>3. \A s : Outstanding(s) => Outstanding(s)'
  BY <1>1 DEF Outstanding, Job
<1>4. rt' = rt => \A s : Pending(s) => Pending(s)'
  BY <1>1 DEF Pending, Job
<1>5. \A s : j = Job("paint", s) => Outstanding(s)'
  BY <1>1 DEF Outstanding, Job
<1> QED BY <1>1, <1>2, <1>3, <1>4, <1>5

LEMMA TailKeeps ==
  ASSUME QueueTypes, jobs # <<>>, jobs' = Tail(jobs)
  PROVE  /\ jobs' \in Seq(Jobs)
         /\ \A s : Outstanding(s) => Outstanding(s)' \/ Current = Job("paint", s)
         /\ rt' = "idle" /\ rt \notin {"idle", "paint", "end"} =>
              \A s : Pending(s) => Pending(s)'
<1>1. /\ jobs \in Seq(Jobs) /\ Len(jobs) \in Nat /\ Len(jobs) > 0 /\ Len(jobs') = Len(jobs) - 1
      /\ jobs' \in Seq(Jobs)
      /\ \A i \in 1 .. Len(jobs') : jobs'[i] = jobs[i + 1]
      /\ Current = jobs[1]
  BY DEF QueueTypes, Current
<1>2. ASSUME NEW s, Outstanding(s), Current # Job("paint", s)  PROVE Outstanding(s)'
  <2>1. PICK i \in 1 .. Len(jobs) : jobs[i] = Job("paint", s)
    BY <1>2 DEF Outstanding
  <2>2. i - 1 \in 1 .. Len(jobs') /\ jobs'[i - 1] = Job("paint", s)
    BY <1>1, <1>2, <2>1
  <2> QED BY <2>2 DEF Outstanding, Job
<1>3. ASSUME NEW s, Pending(s), rt' = "idle", rt \notin {"idle", "paint", "end"}
      PROVE  Pending(s)'
  <2>1. PICK i \in 1 .. Len(jobs) : jobs[i] = Job("paint", s) /\ i > 1
    BY <1>3 DEF Pending
  <2>2. i - 1 \in 1 .. Len(jobs') /\ jobs'[i - 1] = Job("paint", s)
    BY <1>1, <2>1
  <2> QED BY <1>3, <2>2 DEF Pending, Job
<1> QED BY <1>1, <1>2, <1>3

LEMMA PendingOutstanding == ASSUME NEW s, Pending(s) PROVE Outstanding(s)
  BY DEF Pending, Outstanding

----------------------------------------------------------------------------------
LEMMA LatchInit == Init => LatchInv
<1> SUFFICES ASSUME Init PROVE LatchInv
  OBVIOUS
<1>1. QueueTypes /\ StageInv
  BY DEF Init, QueueTypes, StageInv, Staged
<1>2. PaintInv
  BY DEF Init, PaintInv
<1>3. latch <= Cardinality(Covered)
  BY CoveredFinite DEF Init
<1> QED BY <1>1, <1>2, <1>3 DEF LatchInv, LatchCovered, Covered

(* The steps that leave the queue and the latch alone ...                         *)
LEMMA QueueQuiet ==
  ASSUME LatchInv, UNCHANGED <<latch, painting, jobs, rt, dropped>>,
         fx # "loop" \/ UNCHANGED <<fx, todo>> \/ todo = {},
         peer' \in [Scenes -> {"none", "stage", "off", "disposed"}], StageInv'
  PROVE  LatchInv'
<1>1. QueueTypes'
  BY DEF LatchInv, QueueTypes
<1>2. PaintInv'
  BY DEF LatchInv, PaintInv, Marked, Pending
<1>3. Covered \subseteq Covered'
  BY DEF Covered, Unpaid, Outstanding
<1>4. LatchCovered'
  BY <1>3, CoverGrows DEF LatchInv, QueueTypes
<1> QED BY <1>1, <1>2, <1>4 DEF LatchInv

(* ... and those that only add a job.                                             *)
LEMMA QueueGrows ==
  ASSUME LatchInv, NEW j \in Jobs, jobs' = Append(jobs, j), UNCHANGED <<latch, painting, rt, dropped>>,
         fx # "loop",
         peer' \in [Scenes -> {"none", "stage", "off", "disposed"}], StageInv'
  PROVE  LatchInv'
<1>1. QueueTypes
  BY DEF LatchInv
<1>2. QueueTypes'
  BY <1>1, AppendKeeps DEF QueueTypes
<1>3. PaintInv'
  BY <1>1, AppendKeeps DEF LatchInv, PaintInv, Marked
<1>4. Covered \subseteq Covered'
  BY <1>1, AppendKeeps DEF Covered, Unpaid
<1>5. LatchCovered'
  BY <1>4, CoverGrows DEF LatchInv, QueueTypes
<1> QED BY <1>2, <1>3, <1>5 DEF LatchInv

LEMMA StageQuiet ==
  ASSUME StageInv, UNCHANGED <<fx, cur, todo, live, dirtyScenes, peer>>
  PROVE  StageInv'
  BY DEF StageInv, Staged

----------------------------------------------------------------------------------
LEMMA LatchRender == ASSUME LatchInv, RenderStep PROVE LatchInv'
<1>1. UNCHANGED <<fx, cur, todo, live, dirtyScenes, peer>>
  BY DEF RenderStep, TakeJob, PaintStep, Paint, PaintFails, PaintDrops, PaintEnd, Done, DoneHint,
         DoneCount, PainterThrows, JobThrows, fxVars, dirtyVars
<1>2. StageInv' /\ QueueTypes
  BY <1>1, StageQuiet DEF LatchInv
<1>3. ASSUME UNCHANGED <<jobs, latch, dropped>>, jobs # <<>>, painting' \in [Scenes -> BOOLEAN], PaintInv'
      PROVE  LatchInv'
  <2>1. QueueTypes'
    BY <1>1, <1>2, <1>3 DEF QueueTypes
  <2>2. Covered \subseteq Covered'
    BY <1>1, <1>3 DEF Covered, Unpaid, Outstanding
  <2>3. LatchCovered'
    BY <1>3, <2>2, CoverGrows DEF LatchInv, QueueTypes
  <2> QED BY <1>2, <1>3, <2>1, <2>3 DEF LatchInv
<1>4. CASE TakeJob
  <2>1. UNCHANGED <<jobs, latch, painting, dropped>> /\ jobs # <<>> /\ rt = "idle"
    BY <1>4 DEF TakeJob, failVars
  <2>2. ASSUME NEW s \in Scenes, painting'[s], Job("paint", s) \notin dropped  PROVE Pending(s)'
    <3>1. PICK i \in 1 .. Len(jobs) : jobs[i] = Job("paint", s)
      BY <2>1, <2>2 DEF LatchInv, PaintInv, Marked, Pending
    <3>2. CASE i > 1
      BY <2>1, <3>1, <3>2 DEF Pending, Job
    <3>3. CASE i = 1
      <4>1. Current = Job("paint", s)
        BY <1>2, <2>1, <3>1, <3>3 DEF Current, QueueTypes
      <4>2. rt' = "paint"
        BY <1>4, <4>1 DEF TakeJob, Job
      <4> QED BY <2>1, <3>1, <4>2 DEF Pending, Job
    <3> QED BY <1>2, <3>1, <3>2, <3>3 DEF QueueTypes
  <2>3. PaintInv'
    BY <2>1, <2>2 DEF PaintInv, Marked, Job
  <2> QED BY <1>2, <1>3, <2>1, <2>3 DEF QueueTypes
<1>5. CASE PaintStep
  <2>1. /\ UNCHANGED <<jobs, latch, painting, dropped>> /\ rt = "paint" /\ rt' = "end"
        /\ jobs # <<>>
    BY <1>2, <1>5 DEF PaintStep, Paint, PaintFails, PaintDrops, QueueTypes, failVars
  <2>2. PaintInv'
    BY <2>1 DEF LatchInv, PaintInv, Marked, Pending, Job
  <2> QED BY <1>2, <1>3, <2>1, <2>2 DEF QueueTypes
<1>6. CASE PaintEnd
  <2>1. /\ UNCHANGED <<jobs, latch, dropped>> /\ rt = "end" /\ rt' = "done" /\ jobs # <<>>
        /\ painting' = [painting EXCEPT ![Current.scene] = FALSE]
    BY <1>2, <1>6 DEF PaintEnd, QueueTypes, failVars
  <2>2. painting' \in [Scenes -> BOOLEAN]
    BY <1>2, <2>1, Zenon DEF QueueTypes
  <2>3. ASSUME NEW s \in Scenes, painting'[s], Job("paint", s) \notin dropped  PROVE Pending(s)'
    <3>1. s # Current.scene /\ painting[s]
      BY <1>2, <2>1, <2>3 DEF QueueTypes
    <3>2. PICK i \in 1 .. Len(jobs) : jobs[i] = Job("paint", s)
      BY <2>3, <3>1 DEF LatchInv, PaintInv, Marked, Pending
    <3>3. Current = jobs[1] /\ Len(jobs) \in Nat
      BY <1>2, <2>1 DEF Current, QueueTypes
    <3>4. i > 1
      BY <3>1, <3>2, <3>3 DEF Job
    <3> QED BY <2>1, <3>2, <3>4 DEF Pending, Job
  <2>4. PaintInv'
    BY <1>2, <2>1, <2>3 DEF PaintInv, Marked, Job, LatchInv, QueueTypes
  <2> QED BY <1>3, <2>1, <2>2, <2>4
<1>7. ASSUME UNCHANGED <<jobs, latch, painting, dropped>>, rt \in {"done", "hint"}, rt' \in {"hint", "count"}
      PROVE  LatchInv'
  <2>1. PaintInv'
    BY <1>7 DEF LatchInv, PaintInv, Marked, Pending, Job
  <2> QED BY <1>2, <1>3, <1>7, <2>1 DEF QueueTypes
<1>8. ASSUME rt \in {"done", "count"}, rt' = "idle", jobs' = Tail(jobs),
             UNCHANGED <<painting, dropped>>
      PROVE  (latch' \in Nat => QueueTypes') /\ PaintInv'
  <2>1. jobs # <<>>
    BY <1>2, <1>8 DEF QueueTypes
  <2>2. jobs' \in Seq(Jobs) /\ \A s : Pending(s) => Pending(s)'
    BY <1>2, <1>8, <2>1, TailKeeps
  <2>3. PaintInv'
    BY <1>8, <2>2 DEF LatchInv, PaintInv, Marked, Job
  <2> QED BY <1>1, <1>2, <1>8, <2>2, <2>3 DEF QueueTypes
<1>9. CASE Done /\ Current.kind = "paint"
  BY <1>7, <1>9 DEF Done, failVars
<1>10. CASE Done /\ Current.kind # "paint"
  <2>1. /\ rt = "done" /\ rt' = "idle" /\ jobs' = Tail(jobs) /\ UNCHANGED <<painting, latch, dropped>>
        /\ jobs # <<>>
    BY <1>2, <1>10 DEF Done, QueueTypes, failVars
  <2>2. Covered \subseteq Covered'
    BY <1>1, <1>2, <1>10, <2>1, TailKeeps DEF Covered, Unpaid, Job
  <2>3. LatchCovered'
    BY <1>2, <2>1, <2>2, CoverGrows DEF LatchInv, QueueTypes
  <2> QED BY <1>2, <1>8, <2>1, <2>3 DEF LatchInv, QueueTypes
<1>11. CASE DoneHint
  BY <1>7, <1>11 DEF DoneHint, failVars
<1>12. CASE DoneCount
  <2>1. /\ rt = "count" /\ rt' = "idle" /\ jobs' = Tail(jobs) /\ UNCHANGED <<painting, dropped>>
        /\ latch' = IF latch > 0 THEN latch - 1 ELSE 0
        /\ jobs # <<>> /\ latch \in Nat
    BY <1>2, <1>12 DEF DoneCount, QueueTypes, failVars
  <2> DEFINE Rest == Covered \ {Current.scene}
  <2>2. Rest \subseteq Covered'
    BY <1>1, <1>2, <2>1, TailKeeps DEF Covered, Unpaid, Job
  <2>3. IsFiniteSet(Rest) /\ Cardinality(Rest) <= Cardinality(Covered')
    BY <2>2, CoveredFinitePrime, FS_Subset
  <2>4. Cardinality(Rest) >= Cardinality(Covered) - 1 /\ Cardinality(Rest) \in Nat
    <3>1. IsFiniteSet(Covered) /\ Cardinality(Covered) \in Nat
      BY CoveredFinite
    <3>2. Cardinality(Rest) \in Nat
      BY <2>3, FS_CardinalityType, Zenon
    <3>3. Cardinality(Rest) = IF Current.scene \in Covered THEN Cardinality(Covered) - 1
                                                          ELSE Cardinality(Covered)
      BY <3>1, FS_RemoveElement, Zenon
    <3> HIDE DEF Rest
    <3> QED BY <3>1, <3>2, <3>3
  <2>5. latch <= Cardinality(Covered)
    BY DEF LatchInv, LatchCovered, Covered
  <2> HIDE DEF Rest
  <2>6. latch' <= Cardinality(Covered') /\ latch' \in Nat
    BY <2>1, <2>3, <2>4, <2>5, CoveredFinite, CoveredFinitePrime
  <2>7. LatchCovered'
    BY <2>6 DEF LatchCovered, Covered
  <2> QED BY <1>2, <1>8, <2>1, <2>6, <2>7 DEF LatchInv
<1>13. CASE PainterThrows \/ JobThrows
  <2>1. /\ jobs # <<>> /\ jobs' = Tail(jobs) /\ latch' = latch /\ rt' = "idle"
        /\ dropped' = dropped \cup {Current}
    BY <1>2, <1>13 DEF PainterThrows, JobThrows, QueueTypes
  <2>2. Current \in Jobs
    BY <1>2, <2>1 DEF QueueTypes, Current
  <2>3. /\ painting' \in [Scenes -> BOOLEAN]
        /\ \A s \in Scenes : painting'[s] => painting[s]
    <3>1. painting' = painting \/ painting' = [painting EXCEPT ![Current.scene] = FALSE]
      BY <1>13, Zenon DEF PainterThrows, JobThrows
    <3> QED BY <1>2, <3>1, Zenon DEF QueueTypes
  <2>4. jobs' \in Seq(Jobs) /\ \A s : Outstanding(s) => Outstanding(s)' \/ Current = Job("paint", s)
    BY <1>2, <2>1, TailKeeps
  <2>5. QueueTypes'
    BY <1>1, <1>2, <2>1, <2>2, <2>3, <2>4 DEF QueueTypes
  <2>6. ASSUME NEW s \in Scenes, painting'[s]  PROVE Marked(s)'
    <3>1. Outstanding(s) \/ Job("paint", s) \in dropped
      BY <2>3, <2>6, PendingOutstanding DEF LatchInv, PaintInv, Marked
    <3>2. Outstanding(s)' \/ Job("paint", s) \in dropped'
      BY <2>1, <2>4, <3>1
    <3>3. Outstanding(s)' => Pending(s)'
      BY <2>1 DEF Outstanding, Pending, Job
    <3> QED BY <3>2, <3>3 DEF Marked, Job
  <2>7. PaintInv'
    BY <2>6 DEF PaintInv
  <2>8. Covered \subseteq Covered'
    BY <1>1, <2>1, <2>4 DEF Covered, Unpaid, Job
  <2>9. LatchCovered'
    BY <1>2, <2>1, <2>8, CoverGrows DEF LatchInv, QueueTypes
  <2> QED BY <1>2, <2>5, <2>7, <2>9 DEF LatchInv
<1> QED BY <1>4, <1>5, <1>6, <1>9, <1>10, <1>11, <1>12, <1>13 DEF RenderStep

----------------------------------------------------------------------------------
LEMMA LatchTimer == ASSUME LatchInv, TimerStep PROVE LatchInv'
<1>1. UNCHANGED <<fx, cur, todo, live, dirtyScenes, peer, latch, painting, jobs, rt, dropped>>
  BY DEF TimerStep, TimerFire, TimerPost, fxVars, dirtyVars, failVars
<1>2. StageInv'
  BY <1>1, StageQuiet DEF LatchInv
<1> QED BY <1>1, <1>2, QueueQuiet DEF LatchInv, QueueTypes

LEMMA LatchApplication == ASSUME LatchInv, Application PROVE LatchInv'
<1> USE DEF LatchInv
<1>1. peer \in [Scenes -> {"none", "stage", "off", "disposed"}]
  BY DEF QueueTypes
<1>2. ASSUME NEW s \in Scenes, Change(s)  PROVE LatchInv'
  <2>1. UNCHANGED <<fx, cur, todo, live, dirtyScenes, peer, latch, painting, jobs, rt, dropped>>
    BY <1>2 DEF Change, fxVars, dirtyVars, failVars
  <2> QED BY <1>1, <2>1, StageQuiet, QueueQuiet
<1>3. ASSUME NEW s \in Scenes, Expose(s)  PROVE LatchInv'
  <2>1. /\ UNCHANGED <<fx, cur, todo, live, peer, latch, painting, jobs, rt, dropped>>
        /\ fx = "idle" /\ s \in Staged /\ dirtyScenes' = dirtyScenes \cup {s}
    BY <1>3 DEF Expose, fxVars, SceneChanged, AddDirty, Staged, failVars
  <2>2. StageInv'
    BY <2>1 DEF StageInv, Staged
  <2> QED BY <1>1, <2>1, <2>2, QueueQuiet
<1>4. ASSUME NEW s \in Scenes, Show(s)  PROVE LatchInv'
  <2>1. /\ UNCHANGED <<fx, cur, todo, live, latch, painting, jobs, rt, dropped>>
        /\ fx = "idle" /\ peer' = [peer EXCEPT ![s] = "stage"]
        /\ dirtyScenes' = dirtyScenes \cup {s}
    BY <1>4 DEF Show, fxVars, SceneChanged, AddDirty, failVars
  <2>2. StageInv'
    BY <1>1, <2>1 DEF StageInv, Staged
  <2> QED BY <1>1, <2>1, <2>2, QueueQuiet
<1>5. ASSUME NEW s \in Scenes, Close(s)  PROVE LatchInv'
  <2>1. /\ UNCHANGED <<todo, live, latch, painting, rt, dropped>>
        /\ fx = "idle" /\ peer' = [peer EXCEPT ![s] = "off"]
        /\ dirtyScenes' = dirtyScenes \ {s}
        /\ fx' = "close" /\ cur' = {s}
        /\ jobs' = Append(jobs, Job("dispose", s))
    BY <1>5 DEF Close, SceneChanged, RemoveDirty, failVars
  <2>2. StageInv'
    BY <1>1, <2>1 DEF StageInv, Staged
  <2>3. Job("dispose", s) \in Jobs
    BY DEF Job, Jobs, Kinds
  <2> QED BY <1>1, <2>1, <2>2, <2>3, QueueGrows
<1>6. ASSUME NEW s \in Scenes, Resize(s)  PROVE LatchInv'
  <2>1. /\ UNCHANGED <<cur, peer, latch, painting, jobs, rt, dropped>>
        /\ fx = "idle" /\ fx' = "fire" /\ s \in Staged /\ live' = {s}
        /\ todo' = Staged /\ dirtyScenes' = dirtyScenes \cup {s}
    BY <1>6 DEF Resize, BeginPulse, SceneChanged, AddDirty, Staged, failVars
  <2>2. StageInv'
    BY <2>1 DEF StageInv, Staged
  <2> QED BY <1>1, <2>1, <2>2, QueueQuiet
<1>7. ASSUME NEW s \in Scenes, Snapshot(s)  PROVE LatchInv'
  <2>1. /\ UNCHANGED <<todo, live, dirtyScenes, peer, latch, painting, jobs, rt, dropped>>
        /\ fx = "idle" /\ fx' = "snap_await" /\ s \in Staged /\ cur' = {s}
    BY <1>7 DEF Snapshot, dirtyVars, failVars, Staged
  <2>2. StageInv'
    BY <2>1 DEF StageInv, Staged
  <2> QED BY <1>1, <2>1, <2>2, QueueQuiet
<1>8. ASSUME NEW set \in BOOLEAN, SetAnimationRunnable(set)  PROVE LatchInv'
  <2>1. UNCHANGED <<fx, cur, todo, live, dirtyScenes, peer, latch, painting, jobs, rt, dropped>>
    BY <1>8 DEF SetAnimationRunnable, fxVars, dirtyVars, failVars
  <2> QED BY <1>1, <2>1, StageQuiet, QueueQuiet
<1>9. CASE RequestNextPulse
  <2>1. UNCHANGED <<fx, cur, todo, live, dirtyScenes, peer, latch, painting, jobs, rt, dropped>>
    BY <1>9 DEF RequestNextPulse, fxVars, dirtyVars, failVars
  <2> QED BY <1>1, <2>1, StageQuiet, QueueQuiet
<1>10. CASE Exit
  <2>1. /\ UNCHANGED <<cur, todo, live, dirtyScenes, peer, latch, painting, jobs, rt, dropped>>
        /\ fx = "idle" /\ fx' = "exit_wait"
    BY <1>10 DEF Exit, dirtyVars, failVars
  <2>2. StageInv'
    BY <2>1 DEF StageInv, Staged
  <2> QED BY <1>1, <2>1, <2>2, QueueQuiet
<1>11. CASE ListenerThrows
  <2>1. /\ UNCHANGED <<cur, dirtyScenes, peer, latch, painting, jobs, rt, dropped>>
        /\ fx = "fire" /\ fx' = "idle"
    BY <1>11 DEF ListenerThrows, EndPulse, dirtyVars, failVars
  <2>2. StageInv'
    BY <2>1 DEF StageInv, Staged
  <2> QED BY <1>1, <2>1, <2>2, QueueQuiet
<1> QED BY <1>2, <1>3, <1>4, <1>5, <1>6, <1>7, <1>8, <1>9, <1>10, <1>11 DEF Application

LEMMA LatchFx == ASSUME LatchInv, PulseInv, FxStep PROVE LatchInv'
<1> USE DEF LatchInv
<1>1. /\ peer \in [Scenes -> {"none", "stage", "off", "disposed"}]
      /\ QueueTypes
  BY DEF QueueTypes
<1>2. CASE RunPulse
  <2>1. /\ UNCHANGED <<cur, live, dirtyScenes, peer, latch, painting, jobs, rt, dropped>>
        /\ fx = "idle" /\ fx' = "fire" /\ todo' = Staged
    BY <1>2 DEF RunPulse, BeginPulse, dirtyVars, failVars, Staged
  <2>2. live = {}
    BY <2>1 DEF PulseInv, LiveInv
  <2>3. StageInv'
    BY <2>1, <2>2 DEF StageInv, Staged
  <2> QED BY <1>1, <2>1, <2>3, QueueQuiet
<1>3. CASE RenderAll /\ hasDirty
  <2>1. /\ UNCHANGED <<cur, live, dirtyScenes, peer, painting, jobs, rt, dropped>>
        /\ fx = "fire" /\ fx' = "loop" /\ todo' = dirtyScenes
        /\ latch' = Cardinality(dirtyScenes)
    BY <1>3 DEF RenderAll, failVars
  <2>2. StageInv'
    BY <2>1 DEF StageInv, Staged
  <2>3. PaintInv'
    BY <2>1 DEF PaintInv, Marked, Pending
  <2>4. dirtyScenes \subseteq Covered'
    BY <2>1 DEF Covered, StageInv, Staged
  <2>5. IsFiniteSet(dirtyScenes) /\ Cardinality(dirtyScenes) <= Cardinality(Covered')
    BY <2>4, CoveredFinitePrime, FS_Subset
  <2>6. Cardinality(dirtyScenes) \in Nat
    BY <2>5, FS_CardinalityType, Zenon
  <2>7. LatchCovered'
    <3>1. latch' <= Cardinality(Covered')
      BY <2>1, <2>5
    <3> QED BY <3>1 DEF LatchCovered, Covered
  <2>8. QueueTypes'
    BY <1>1, <2>1, <2>6 DEF QueueTypes
  <2> QED BY <2>2, <2>3, <2>7, <2>8
<1>4. CASE RenderAll /\ ~hasDirty
  <2>1. /\ UNCHANGED <<cur, todo, live, dirtyScenes, peer, latch, painting, jobs, rt, dropped>>
        /\ fx = "fire" /\ fx' = "idle"
    BY <1>4 DEF RenderAll, EndPulse, failVars
  <2>2. StageInv'
    BY <2>1 DEF StageInv, Staged
  <2> QED BY <1>1, <2>1, <2>2, QueueQuiet
<1>5. CASE RenderEnd
  <2>1. /\ UNCHANGED <<cur, todo, live, peer, latch, painting, jobs, rt, dropped>>
        /\ fx = "loop" /\ fx' = "idle" /\ todo = {} /\ dirtyScenes' = {}
    BY <1>5 DEF RenderEnd, EndPulse, failVars
  <2>2. StageInv'
    BY <2>1 DEF StageInv, Staged
  <2> QED BY <1>1, <2>1, <2>2, QueueQuiet
<1>6. CASE Terminate
  <2>1. /\ UNCHANGED <<cur, todo, live, dirtyScenes, peer, latch, painting, jobs, rt, dropped>>
        /\ fx = "exit_wait" /\ fx' = "exited"
    BY <1>6 DEF Terminate, dirtyVars, failVars
  <2>2. StageInv'
    BY <2>1 DEF StageInv, Staged
  <2> QED BY <1>1, <2>1, <2>2, QueueQuiet
<1>7. ASSUME NEW s \in Scenes, RunRequest(s)  PROVE LatchInv'
  <2>1. /\ UNCHANGED <<fx, cur, todo, live, peer, latch, painting, jobs, rt, dropped>> /\ fx = "idle"
        /\ dirtyScenes' = IF s \in Staged THEN dirtyScenes \cup {s} ELSE dirtyScenes \ {s}
    BY <1>7 DEF RunRequest, fxVars, SceneChanged, AddDirty, RemoveDirty, Staged, failVars
  <2>2. StageInv'
    BY <2>1 DEF StageInv, Staged
  <2> QED BY <1>1, <2>1, <2>2, QueueQuiet
<1>8. ASSUME NEW s \in Scenes, FireScene(s)  PROVE LatchInv'
  <2>1. /\ UNCHANGED <<live, dirtyScenes, peer, latch, painting, jobs, rt, dropped>>
        /\ fx = "fire" /\ s \in todo /\ todo' = todo \ {s}
        /\ (fx' = "await" /\ cur' = {s}) \/ UNCHANGED <<fx, cur>>
    BY <1>8 DEF FireScene, dirtyVars, failVars
  <2>2. StageInv'
    BY <2>1 DEF StageInv, Staged
  <2> QED BY <1>1, <2>1, <2>2, QueueQuiet
<1>9. ASSUME NEW s \in Scenes, SyncScene(s)  PROVE LatchInv'
  <2>1. /\ UNCHANGED <<todo, live, peer, latch, painting, jobs, rt, dropped>>
        /\ fx = "await" /\ s \in cur /\ fx' = "fire" /\ cur' = {}
        /\ dirtyScenes' = dirtyScenes \cup {s}
    BY <1>9 DEF SyncScene, SceneChanged, AddDirty, failVars
  <2>2. StageInv'
    BY <2>1 DEF StageInv, Staged
  <2> QED BY <1>1, <2>1, <2>2, QueueQuiet
<1>10. ASSUME NEW s \in Scenes, Repaint(s)  PROVE LatchInv'
  <2>1. /\ UNCHANGED <<fx, cur, live, dirtyScenes, peer, latch, rt, dropped>>
        /\ fx = "loop" /\ s \in todo /\ todo' = todo \ {s}
    BY <1>10 DEF Repaint, dirtyVars, failVars
  <2>2. StageInv'
    BY <2>1 DEF StageInv, Staged
  <2>3. peer[s] = "stage"
    BY <2>1 DEF StageInv, Staged
  <2>4. CASE painting[s]
    <3>1. UNCHANGED <<painting, jobs>>
      BY <1>10, <2>4 DEF Repaint
    <3>2. Unpaid(s)
      BY <2>4, PendingOutstanding DEF PaintInv, Marked, Unpaid
    <3>3. Covered \subseteq Covered'
      BY <2>1, <3>1, <3>2 DEF Covered, Unpaid, Outstanding
    <3>4. LatchCovered' /\ QueueTypes'
      BY <1>1, <2>1, <3>1, <3>3, CoverGrows DEF QueueTypes
    <3>5. PaintInv'
      BY <2>1, <3>1 DEF PaintInv, Marked, Pending
    <3> QED BY <2>2, <3>4, <3>5
  <2>5. CASE ~painting[s]
    <3>1. /\ painting' = [painting EXCEPT ![s] = TRUE]
          /\ jobs' = Append(jobs, Job("paint", s))
      BY <1>10, <2>3, <2>5 DEF Repaint
    <3>2. Job("paint", s) \in Jobs
      BY DEF Job, Jobs, Kinds
    <3>3. /\ jobs' \in Seq(Jobs) /\ jobs' # <<>>
          /\ \A t : Outstanding(t) => Outstanding(t)'
          /\ \A t : Pending(t) => Pending(t)'
          /\ Outstanding(s)'
      BY <1>1, <2>1, <3>1, <3>2, AppendKeeps
    <3>4. Covered \subseteq Covered'
      BY <2>1, <3>3 DEF Covered, Unpaid, Job
    <3>5. painting' \in [Scenes -> BOOLEAN]
      BY <1>1, <3>1, Zenon DEF QueueTypes
    <3>6. LatchCovered' /\ QueueTypes'
      BY <1>1, <2>1, <3>3, <3>4, <3>5, CoverGrows DEF QueueTypes
    <3>7. Pending(s)'
      <4>1. /\ Len(jobs) \in Nat /\ Len(jobs') = Len(jobs) + 1
            /\ jobs'[Len(jobs) + 1] = Job("paint", s)
        BY <1>1, <3>1, <3>2 DEF QueueTypes
      <4>2. Len(jobs) = 0 => rt = "idle"
        BY <1>1 DEF QueueTypes
      <4> QED BY <2>1, <4>1, <4>2 DEF Pending, Job
    <3>8. PaintInv'
      <4> SUFFICES ASSUME NEW t \in Scenes, painting'[t] PROVE Marked(t)'
        BY DEF PaintInv
      <4>1. CASE t = s
        BY <3>7, <4>1 DEF Marked
      <4>2. CASE t # s
        BY <1>1, <2>1, <3>1, <3>3, <4>2 DEF QueueTypes, PaintInv, Marked, Job
      <4> QED BY <4>1, <4>2
    <3> QED BY <2>2, <3>6, <3>8
  <2> QED BY <2>4, <2>5
<1>11. ASSUME NEW s \in Scenes, LiveJob(s)  PROVE LatchInv'
  <2>1. /\ UNCHANGED <<todo, live, dirtyScenes, peer, latch, painting, rt, dropped>>
        /\ fx = "fire" /\ fx' = "job_wait" /\ cur' = live
        /\ jobs' = Append(jobs, Job("live", s))
    BY <1>11 DEF LiveJob, dirtyVars, failVars
  <2>2. StageInv'
    BY <2>1 DEF StageInv, Staged
  <2>3. Job("live", s) \in Jobs
    BY DEF Job, Jobs, Kinds
  <2> QED BY <1>1, <2>1, <2>2, <2>3, QueueGrows
<1>12. ASSUME NEW s \in Scenes, SnapshotSync(s)  PROVE LatchInv'
  <2>1. /\ UNCHANGED <<cur, todo, live, dirtyScenes, peer, latch, painting, rt, dropped>>
        /\ fx = "snap_await" /\ fx' = "job_wait"
        /\ jobs' = Append(jobs, Job("image", s))
    BY <1>12 DEF SnapshotSync, dirtyVars, failVars
  <2>2. StageInv'
    BY <2>1 DEF StageInv, Staged
  <2>3. Job("image", s) \in Jobs
    BY DEF Job, Jobs, Kinds
  <2> QED BY <1>1, <2>1, <2>2, <2>3, QueueGrows
<1>13. ASSUME NEW s \in Scenes, JobDone(s)  PROVE LatchInv'
  <2>1. /\ UNCHANGED <<todo, peer, latch, painting, jobs, rt, dropped>>
        /\ fx = "job_wait" /\ s \in cur /\ fx' = "idle" /\ cur' = {}
        /\ dirtyScenes' = dirtyScenes \cup {s} \/ dirtyScenes' = dirtyScenes
    BY <1>13 DEF JobDone, SceneChanged, AddDirty, dirtyVars, failVars
  <2>2. StageInv'
    BY <2>1 DEF StageInv, Staged
  <2> QED BY <1>1, <2>1, <2>2, QueueQuiet
<1>14. ASSUME NEW s \in Scenes, Dispose(s)  PROVE LatchInv'
  <2>1. /\ UNCHANGED <<todo, live, dirtyScenes, latch, painting, jobs, rt, dropped>>
        /\ fx = "close" /\ s \in cur /\ fx' = "idle" /\ cur' = {}
        /\ peer' = [peer EXCEPT ![s] = "disposed"]
    BY <1>14 DEF Dispose, dirtyVars, failVars
  <2>2. s \notin Staged
    BY <2>1 DEF StageInv
  <2>3. Staged' = Staged
    BY <1>1, <2>1, <2>2 DEF Staged
  <2>4. StageInv'
    BY <2>1, <2>3 DEF StageInv
  <2> QED BY <1>1, <2>1, <2>4, QueueQuiet
<1> QED BY <1>2, <1>3, <1>4, <1>5, <1>6, <1>7, <1>8, <1>9, <1>10, <1>11, <1>12, <1>13, <1>14
        DEF FxStep

(* PulseInv and LatchInv together are inductive.                                  *)
LEMMA PulseLatchStep ==
  ASSUME PulseInv, LatchInv, [Next]_vars
  PROVE  PulseInv' /\ LatchInv'
<1>1. CASE UNCHANGED vars
  <2>1. /\ UNCHANGED <<fx, live, posted, pulseRunning>>
        /\ UNCHANGED <<fx, cur, todo, live, dirtyScenes, peer, latch, painting, jobs, rt, dropped>>
    BY <1>1 DEF vars, fxVars, pulseVars, dirtyVars, failVars
  <2> QED BY <2>1, QuietKeeps, StageQuiet, QueueQuiet DEF LatchInv, QueueTypes
<1> QED BY <1>1, FxKeeps, ApplicationKeeps, TimerKeeps, RenderKeeps,
           LatchFx, LatchApplication, LatchTimer, LatchRender DEF Next

(* For any number of scenes, each count that allWorkCompletedLatch waits for has  *)
(* a scene of its own whose job will count it down, or failed so that done() was  *)
(* never called, or that renderAll has still to visit.  repaint() may leave out   *)
(* a scene that is being painted because the mark is cleared before the job       *)
(* counts down, and never meets a disposed scene because setScene(null) takes it  *)
(* off the list first.                                                            *)
THEOREM PulseLatchCovered == Spec => []LatchCovered
<1> DEFINE Inv == PulseInv /\ LatchInv
<1>1. Init => Inv
  BY PulseInit, LatchInit
<1>2. Inv /\ [Next]_vars => Inv'
  BY PulseLatchStep
<1>3. Inv => LatchCovered
  BY DEF LatchInv
<1> QED BY <1>1, <1>2, <1>3, PTL DEF Spec

----------------------------------------------------------------------------------
(* The other parts of the type invariant: where the threads are, the scenes they  *)
(* deal with, the counters and the flags.                                         *)
PlaceTypes ==
  /\ fx \in FxPlaces /\ timer \in {"idle", "post"}
  /\ rt \in {"idle", "paint", "end", "done", "hint", "count"}

SceneTypes ==
  /\ cur \subseteq Scenes /\ todo \subseteq Scenes /\ live \subseteq Scenes
  /\ dirtyScenes \subseteq Scenes
  /\ unsynced \subseteq Scenes /\ unshown \subseteq Scenes /\ lost \subseteq Scenes

CountTypes ==
  /\ requests \in [Scenes -> Nat]
  /\ calls \in 0 .. MaxCalls /\ failures \in 0 .. MaxFailures

FlagTypes ==
  /\ timerOn \in BOOLEAN /\ nextPulseRequested \in BOOLEAN
  /\ animationRunning \in BOOLEAN /\ animation \in BOOLEAN
  /\ hasDirty \in BOOLEAN /\ needsHint \in BOOLEAN /\ lockKept \in BOOLEAN

RestTypes == PlaceTypes /\ SceneTypes /\ CountTypes /\ FlagTypes

(* The latch counts scenes, so that there are at most as many counts as scenes.   *)
LEMMA LatchBounded ==
  ASSUME QueueTypes, LatchCovered
  PROVE  latch \in 0 .. Cardinality(Scenes)
<1>1. Covered \subseteq Scenes
  BY DEF Covered
<1>2. IsFiniteSet(Scenes)
  BY PulseAssumption DEF PulseAssumption
<1>3. Cardinality(Covered) <= Cardinality(Scenes)
  BY <1>1, <1>2, FS_Subset
<1>4. Cardinality(Scenes) \in Nat
  BY <1>2, FS_CardinalityType
<1>5. latch <= Cardinality(Covered) /\ latch \in Nat
  BY DEF LatchCovered, Covered, QueueTypes
<1> QED BY <1>3, <1>4, <1>5, CoveredFinite

(* The scene of the job that the renderer has taken.                              *)
LEMMA CurrentScene ==
  ASSUME QueueTypes, rt # "idle"
  PROVE  Current.scene \in Scenes
<1>1. jobs \in Seq(Jobs) /\ Len(jobs) > 0 /\ Current = jobs[1]
  BY DEF QueueTypes, Current
<1>2. Current \in Jobs
  BY <1>1
<1> QED BY <1>2 DEF Jobs

LEMMA PlaceStep == ASSUME PlaceTypes, Next PROVE PlaceTypes'
<1> USE DEF PlaceTypes, FxPlaces, PulsePlaces, ExitPlaces, fxVars
<1>1. CASE FxStep
  <2>1. CASE RunPulse \/ RenderAll \/ RenderEnd \/ Terminate
    BY <2>1 DEF RunPulse, BeginPulse, RenderAll, RenderEnd, EndPulse, Terminate
  <2>2. ASSUME NEW s \in Scenes, RunRequest(s) \/ FireScene(s) \/ SyncScene(s) \/ Repaint(s)
        PROVE  PlaceTypes'
    BY <2>2 DEF RunRequest, FireScene, SyncScene, Repaint
  <2>3. ASSUME NEW s \in Scenes, LiveJob(s) \/ SnapshotSync(s) \/ JobDone(s) \/ Dispose(s)
        PROVE  PlaceTypes'
    BY <2>3 DEF LiveJob, SnapshotSync, JobDone, Dispose
  <2> QED
    BY <1>1, <2>1, <2>2, <2>3 DEF FxStep
<1>2. CASE Application
  <2>1. ASSUME NEW s \in Scenes, Change(s) \/ Expose(s) \/ Show(s)
        PROVE  PlaceTypes'
    BY <2>1 DEF Change, Expose, Show
  <2>2. ASSUME NEW s \in Scenes, Close(s) \/ Resize(s) \/ Snapshot(s)
        PROVE  PlaceTypes'
    BY <2>2 DEF Close, Resize, BeginPulse, Snapshot
  <2>3. ASSUME NEW set \in BOOLEAN, SetAnimationRunnable(set)
        PROVE  PlaceTypes'
    BY <2>3 DEF SetAnimationRunnable
  <2>4. CASE ListenerThrows \/ Exit \/ RequestNextPulse
    BY <2>4 DEF ListenerThrows, EndPulse, Exit, RequestNextPulse
  <2> QED
    BY <1>2, <2>1, <2>2, <2>3, <2>4 DEF Application
<1>3. CASE TimerStep
  BY <1>3 DEF TimerStep, PlaceTypes, TimerFire, TimerPost, fxVars
<1>4. CASE RenderStep
  BY <1>4 DEF RenderStep, PaintStep, PlaceTypes, TakeJob, Paint, PaintFails, PaintDrops, PaintEnd,
     Done, DoneHint, DoneCount, PainterThrows, JobThrows, fxVars
<1> QED BY <1>1, <1>2, <1>3, <1>4 DEF Next

LEMMA SceneStep == ASSUME QueueTypes, SceneTypes, Next PROVE SceneTypes'
<1>1. CASE FxStep
  <2>1. CASE RunPulse \/ RenderAll \/ RenderEnd \/ Terminate
    BY <2>1 DEF SceneTypes, RunPulse, BeginPulse, RenderAll, RenderEnd, Terminate, fxVars, dirtyVars,
       histVars
  <2>2. ASSUME NEW s \in Scenes,
               RunRequest(s) \/ FireScene(s) \/ SyncScene(s) \/ Repaint(s)
        PROVE  SceneTypes'
    BY <2>2 DEF SceneTypes, RunRequest, FireScene, SyncScene, Repaint, SceneChanged, AddDirty,
       RemoveDirty, fxVars, dirtyVars, histVars
  <2>3. ASSUME NEW s \in Scenes,
               LiveJob(s) \/ SnapshotSync(s) \/ JobDone(s) \/ Dispose(s)
        PROVE  SceneTypes'
    BY <2>3 DEF SceneTypes, LiveJob, SnapshotSync, JobDone, Dispose, SceneChanged, AddDirty,
       RemoveDirty, fxVars, dirtyVars, histVars
  <2> QED BY <1>1, <2>1, <2>2, <2>3 DEF FxStep
<1>2. CASE Application
  <2>1. ASSUME NEW s \in Scenes,
               Change(s) \/ Expose(s) \/ Show(s) \/ Close(s) \/ Resize(s) \/ Snapshot(s)
        PROVE  SceneTypes'
    BY <2>1 DEF SceneTypes, Change, Expose, Show, Close, Resize, BeginPulse, Snapshot, SceneChanged,
       AddDirty, RemoveDirty, fxVars, dirtyVars, histVars
  <2>2. CASE ListenerThrows \/ Exit \/ RequestNextPulse \/ \E set \in BOOLEAN : SetAnimationRunnable(set)
    BY <2>2 DEF SceneTypes, ListenerThrows, Exit, RequestNextPulse, SetAnimationRunnable, fxVars,
       dirtyVars, histVars
  <2> QED BY <1>2, <2>1, <2>2 DEF Application
<1>3. CASE TimerStep
  BY <1>3 DEF TimerStep, TimerFire, TimerPost, SceneTypes, fxVars, dirtyVars, histVars
<1>4. CASE RenderStep
  <2>1. CASE PaintStep
    <3>1. Current.scene \in Scenes
      BY <2>1, CurrentScene DEF PaintStep, Paint, PaintFails, PaintDrops
    <3>2. UNCHANGED <<cur, todo, live, dirtyScenes, unsynced>>
      BY <2>1 DEF PaintStep, Paint, PaintFails, PaintDrops, fxVars, dirtyVars
    <3>3. unshown' \subseteq unshown \cup {Current.scene} /\ lost' \subseteq lost \cup {Current.scene}
      BY <2>1 DEF PaintStep, Paint, PaintFails, PaintDrops
    <3> QED BY <3>1, <3>2, <3>3 DEF SceneTypes
  <2>2. CASE TakeJob \/ PaintEnd \/ Done \/ DoneHint \/ DoneCount \/ PainterThrows \/ JobThrows
    BY <2>2 DEF SceneTypes, TakeJob, PaintEnd, Done, DoneHint, DoneCount, PainterThrows, JobThrows,
       fxVars, dirtyVars, histVars
  <2> QED BY <1>4, <2>1, <2>2 DEF RenderStep
<1> QED BY <1>1, <1>2, <1>3, <1>4 DEF Next

LEMMA CountStep == ASSUME QueueTypes, CountTypes, Next PROVE CountTypes'
<1> USE PulseAssumption DEF PulseAssumption
<1>1. CASE FxStep
  <2>1. ASSUME NEW s \in Scenes, RunRequest(s)  PROVE CountTypes'
    <3>1. requests' = [requests EXCEPT ![s] = @ - 1] /\ requests[s] > 0 /\ UNCHANGED <<calls, failures>>
      BY <2>1 DEF RunRequest, histVars
    <3> QED BY <3>1 DEF CountTypes
  <2>2. CASE \A s \in Scenes : ~RunRequest(s)
    <3>1. UNCHANGED <<requests, calls, failures>>
      BY <1>1, <2>2 DEF FxStep, RunPulse, RenderAll, RenderEnd, Terminate, FireScene, SyncScene,
         Repaint, LiveJob, SnapshotSync, JobDone, Dispose, histVars
    <3> QED BY <3>1 DEF CountTypes
  <2> QED BY <2>1, <2>2
<1>2. CASE Application
  <2>1. /\ requests' = requests
        /\ calls' = calls \/ (calls < MaxCalls /\ calls' = calls + 1)
        /\ failures' = failures \/ (failures < MaxFailures /\ failures' = failures + 1)
    BY <1>2 DEF Application, Change, Expose, Show, Close, Resize, Snapshot, SetAnimationRunnable,
       ListenerThrows, Exit, RequestNextPulse, histVars
  <2> QED BY <2>1 DEF CountTypes
<1>3. CASE TimerStep
  BY <1>3 DEF TimerStep, TimerFire, TimerPost, CountTypes, histVars
<1>4. CASE RenderStep
  <2>1. CASE PaintFails
    <3>1. Current.scene \in Scenes
      BY <2>1, CurrentScene DEF PaintFails
    <3>2. /\ requests' = [requests EXCEPT ![Current.scene] = @ + 1] /\ calls' = calls
          /\ failures < MaxFailures /\ failures' = failures + 1
      BY <2>1 DEF PaintFails
    <3> QED BY <3>1, <3>2 DEF CountTypes
  <2>2. CASE \/ TakeJob \/ Paint \/ PaintDrops \/ PaintEnd \/ Done \/ DoneHint \/ DoneCount
            \/ PainterThrows \/ JobThrows
    <3>1. /\ UNCHANGED <<requests, calls>>
          /\ failures' = failures \/ (failures < MaxFailures /\ failures' = failures + 1)
      BY <2>2 DEF TakeJob, Paint, PaintDrops, PaintEnd, Done, DoneHint, DoneCount, PainterThrows,
         JobThrows, histVars
    <3> QED BY <3>1 DEF CountTypes
  <2> QED BY <1>4, <2>1, <2>2 DEF RenderStep, PaintStep
<1> QED BY <1>1, <1>2, <1>3, <1>4 DEF Next

(* The steps that change the list of dirty scenes keep its flag a Boolean.        *)
LEMMA DirtyFlag ==
  ASSUME NEW s, NEW onStage, SceneChanged(s, onStage)
  PROVE  hasDirty' \in BOOLEAN
  BY Zenon DEF SceneChanged, AddDirty, RemoveDirty

LEMMA FlagStep == ASSUME FlagTypes, Next PROVE FlagTypes'
<1>1. CASE FxStep
  <2>1. CASE RunPulse
    BY <2>1, Zenon DEF FlagTypes, failVars, RunPulse, BeginPulse, dirtyVars
  <2>2. CASE RenderAll
    BY <2>2, Zenon DEF FlagTypes, failVars, RenderAll, EndPulse
  <2>3. CASE RenderEnd \/ Terminate
    BY <2>3, Zenon DEF FlagTypes, failVars, RenderEnd, EndPulse, Terminate, pulseVars, dirtyVars
  <2>4. ASSUME NEW s \in Scenes, RunRequest(s) \/ SyncScene(s)  PROVE FlagTypes'
    <3>1. hasDirty' \in BOOLEAN
      BY <2>4, DirtyFlag, Zenon DEF RunRequest, SyncScene
    <3> QED BY <2>4, <3>1, Zenon DEF FlagTypes, failVars, RunRequest, SyncScene, pulseVars
  <2>5. ASSUME NEW s \in Scenes, FireScene(s) \/ LiveJob(s) \/ SnapshotSync(s) \/ Dispose(s)
        PROVE  FlagTypes'
    BY <2>5, Zenon DEF FlagTypes, failVars, FireScene, LiveJob, SnapshotSync, Dispose, pulseVars, dirtyVars
  <2>6. ASSUME NEW s \in Scenes, Repaint(s)  PROVE FlagTypes'
    BY <2>6, Zenon DEF FlagTypes, failVars, Repaint, pulseVars, dirtyVars
  <2>7. ASSUME NEW s \in Scenes, JobDone(s)  PROVE FlagTypes'
    <3>1. hasDirty' \in BOOLEAN
      BY <2>7, DirtyFlag, Zenon DEF JobDone, FlagTypes, dirtyVars
    <3> QED BY <2>7, <3>1, Zenon DEF FlagTypes, failVars, JobDone, pulseVars
  <2> QED BY <1>1, <2>1, <2>2, <2>3, <2>4, <2>5, <2>6, <2>7 DEF FxStep
<1>2. CASE Application
  <2>1. ASSUME NEW s \in Scenes, Change(s) \/ Snapshot(s)  PROVE FlagTypes'
    BY <2>1, Zenon DEF FlagTypes, failVars, Change, Snapshot, pulseVars, dirtyVars
  <2>2. ASSUME NEW s \in Scenes, Expose(s) \/ Show(s) \/ Close(s) \/ Resize(s)  PROVE FlagTypes'
    <3>1. hasDirty' \in BOOLEAN
      BY <2>2, DirtyFlag, Zenon DEF Expose, Show, Close, Resize
    <3> QED BY <2>2, <3>1, Zenon DEF FlagTypes, failVars, Expose, Show, Close, Resize, BeginPulse, pulseVars
  <2>3. ASSUME NEW set \in BOOLEAN, SetAnimationRunnable(set)  PROVE FlagTypes'
    BY <2>3, Zenon DEF FlagTypes, failVars, SetAnimationRunnable, dirtyVars
  <2>4. CASE ListenerThrows
    BY <2>4, Zenon DEF FlagTypes, failVars, ListenerThrows, EndPulse, dirtyVars
  <2>5. CASE Exit \/ RequestNextPulse
    BY <2>5, Zenon DEF FlagTypes, failVars, Exit, RequestNextPulse, pulseVars, dirtyVars
  <2> QED BY <1>2, <2>1, <2>2, <2>3, <2>4, <2>5 DEF Application
<1>3. CASE TimerStep
  BY <1>3, Zenon DEF TimerStep, TimerFire, TimerPost, FlagTypes, failVars, pulseVars, dirtyVars
<1>4. CASE RenderStep
  <2>1. UNCHANGED <<timerOn, nextPulseRequested, animationRunning, animation, hasDirty, needsHint>>
    BY <1>4 DEF RenderStep, PaintStep, TakeJob, Paint, PaintFails, PaintDrops, PaintEnd, Done, DoneHint,
       DoneCount, PainterThrows, JobThrows, pulseVars, dirtyVars
  <2>2. lockKept' = lockKept \/ lockKept' = TRUE
    BY <1>4, Zenon DEF RenderStep, PaintStep, TakeJob, Paint, PaintFails, PaintDrops, PaintEnd, Done,
       DoneHint, DoneCount, PainterThrows, JobThrows, failVars
  <2> QED BY <2>1, <2>2, Zenon DEF FlagTypes
<1> QED BY <1>1, <1>2, <1>3, <1>4 DEF Next

(* The types hold for any number of scenes, above all these: the latch never      *)
(* counts more than the scenes there are, nor below zero, and the renderer never  *)
(* looks for the scene of a job it does not have.                                 *)
THEOREM PulseTypes == Spec => []TypeOK
<1> DEFINE Inv == PulseInv /\ LatchInv /\ RestTypes
<1>1. Init => Inv
  <2> SUFFICES ASSUME Init PROVE Inv
    OBVIOUS
  <2>1. PlaceTypes /\ SceneTypes
    BY DEF Init, PlaceTypes, SceneTypes, FxPlaces
  <2>2. CountTypes
    BY PulseAssumption DEF Init, CountTypes, PulseAssumption
  <2>3. FlagTypes
    BY Zenon DEF Init, FlagTypes
  <2> QED BY <2>1, <2>2, <2>3, PulseInit, LatchInit DEF RestTypes
<1>2. Inv /\ [Next]_vars => Inv'
  <2> SUFFICES ASSUME Inv, [Next]_vars PROVE Inv'
    OBVIOUS
  <2>1. PulseInv' /\ LatchInv'
    BY PulseLatchStep
  <2>2. CASE Next
    BY <2>1, <2>2, PlaceStep, SceneStep, CountStep, FlagStep DEF RestTypes, LatchInv
  <2>3. CASE UNCHANGED vars
    <3>1. PlaceTypes' /\ SceneTypes' /\ CountTypes'
      BY <2>3 DEF vars, fxVars, dirtyVars, histVars, RestTypes, PlaceTypes, SceneTypes, CountTypes
    <3>2. FlagTypes'
      BY <2>3, Zenon DEF vars, pulseVars, dirtyVars, failVars, RestTypes, FlagTypes
    <3> QED BY <2>1, <3>1, <3>2 DEF RestTypes
  <2> QED BY <2>2, <2>3
<1>3. Inv => TypeOK
  <2> SUFFICES ASSUME Inv PROVE TypeOK
    OBVIOUS
  <2>1. latch \in 0 .. Cardinality(Scenes)
    BY LatchBounded DEF LatchInv
  <2> QED BY <2>1, Zenon DEF TypeOK, RestTypes, PlaceTypes, SceneTypes, CountTypes, FlagTypes,
             PulseInv, LatchInv, QueueTypes, Jobs
<1> QED BY <1>1, <1>2, <1>3, PTL DEF Spec
===================================================================================
