-------------------------------- MODULE Task --------------------------------
(***************************************************************************)
(* javafx.concurrent.Task: a FutureTask whose life cycle and properties    *)
(* are published on the JavaFX application (FX) thread.                    *)
(*                                                                         *)
(* Three kinds of threads share it: the thread that executes run() (the    *)
(* Runner), other background threads that call cancel() and update*(), and *)
(* the FX thread.  The properties (state, value, exception, message, ...)  *)
(* are confined to the FX thread; a background thread hands its changes    *)
(* over with runLater.  The FutureTask state and the four AtomicReference  *)
(* slots are the only memory the threads really share.                     *)
(***************************************************************************)
EXTENDS Naturals, Sequences

CONSTANTS
  Threads,      \* background threads
  Runner,       \* the background thread that executes run()
  Channels,     \* which of progress, message, title, value are observed
  Updaters,     \* for each channel, the background threads that update it
  FxUpdates,    \* the channels that code on the FX thread updates
  CancelFrom,   \* the callbacks that may cancel(): "handler" (of a
                \* WorkerStateEvent), "listener" (of the state property)
  Payloads,     \* what update*() is called with; may hold NULL
  Result,       \* what call() returns
  NULL,         \* Java's null
  MaxPosts      \* bound: calls of update*() in a behaviour

ASSUME TaskAssumption ==
  /\ Runner \in Threads
  /\ Channels \subseteq {"progress", "message", "title", "value"}
  /\ "value" \in Channels
  /\ Updaters \in [Channels -> SUBSET Threads]
  /\ FxUpdates \subseteq Channels
  /\ CancelFrom \subseteq {"handler", "listener"}
  /\ MaxPosts \in Nat

VARIABLES
  state,      \* the state property
  running,    \* the running property
  trail,      \* history: every value setState() has stored, in order
  exception,  \* has the exception property been set?
  shown,      \* the properties written by update*()
  slot,       \* progressUpdate, messageUpdate, titleUpdate, valueUpdate
  queue,      \* runnables handed to runLater, in the order they will run
  future,     \* the FutureTask's own state
  body,       \* how far Runner is in run()
  inHand,     \* the runnable each background thread is about to hand over
  latest,     \* history: the payload of the last update*() call
  posts       \* number of update*() calls so far

fxVars == <<state, running, trail, exception, shown>>
vars   == <<state, running, trail, exception, shown, slot, queue, future, body,
            inHand, latest, posts>>

States    == {"READY", "SCHEDULED", "RUNNING", "SUCCEEDED", "FAILED", "CANCELLED"}
Terminal  == {"SUCCEEDED", "FAILED", "CANCELLED"}

\* A runnable is named for what it does; an update is named for its channel.
Runnables == {"running", "succeeded", "failed", "cancelled"} \cup Channels
Nothing   == "nothing"

\* updateProgress always posts a ProgressUpdate object, never null.
PayloadsOf(c) == IF c = "progress" THEN Payloads \ {NULL} ELSE Payloads

Init ==
  /\ state = "READY"
  /\ running = FALSE
  /\ trail = << >>
  /\ exception = FALSE
  /\ shown = [c \in Channels |-> NULL]
  /\ slot = [c \in Channels |-> NULL]
  /\ queue = << >>
  /\ future = "NEW"
  /\ body = "ready"
  /\ inHand = [t \in Threads |-> Nothing]
  /\ latest = [c \in Channels |-> NULL]
  /\ posts = 0
-----------------------------------------------------------------------------
(***************************************************************************)
(* The FutureTask, as Task uses it: the first of cancel, set and           *)
(* setException to move it out of NEW wins, the others do nothing.         *)
(***************************************************************************)
IsCancelled == future = "CANCELLED"
-----------------------------------------------------------------------------
(***************************************************************************)
(* setState, on the FX thread: nothing once the state is CANCELLED, else   *)
(* each value of path is stored, the running property follows and the      *)
(* event is fired.  A callback on the way may call cancel(); if the        *)
(* FutureTask can still be cancelled the state is CANCELLED from then on   *)
(* and the rest of path is ignored.  But a cancel() made by a listener of  *)
(* the state property returns into a setState that has not stored running  *)
(* yet.                                                                    *)
(***************************************************************************)
IsActive(s) == s \in {"SCHEDULED", "RUNNING"}

RunningAfterCancel(from, s) == from = "listener" /\ IsActive(s)

\* Variant: setState without the CANCELLED test.
SetStateAlways(path) ==
  /\ trail' = trail \o path
  /\ state' = path[Len(path)]
  /\ running' = IsActive(path[Len(path)])
  /\ UNCHANGED future

SetState(path) ==
  \/ /\ state = "CANCELLED"
     /\ UNCHANGED <<state, running, trail, future>>
  \/ /\ state # "CANCELLED"
     /\ trail' = trail \o path
     /\ state' = path[Len(path)]
     /\ running' = IsActive(path[Len(path)])
     /\ UNCHANGED future
  \/ /\ state # "CANCELLED"
     /\ future = "NEW"
     /\ \E i \in 1..Len(path), from \in CancelFrom :
          /\ trail' = trail \o SubSeq(path, 1, i) \o <<"CANCELLED">>
          /\ running' = RunningAfterCancel(from, path[i])
     /\ state' = "CANCELLED"
     /\ future' = "CANCELLED"

\* A Service moves its new task to SCHEDULED before it hands it to Runner.
FxSchedule ==
  /\ body = "ready"
  /\ state = "READY"
  /\ SetState(<<"SCHEDULED">>)
  /\ UNCHANGED <<exception, shown, slot, queue, body, inHand, latest, posts>>

\* Variant: the state follows even if super.cancel() returned false.
FxCancelAlways ==
  /\ state # "CANCELLED"
  /\ future' = IF future = "NEW" THEN "CANCELLED" ELSE future
  /\ state' = "CANCELLED"
  /\ running' = FALSE
  /\ trail' = Append(trail, "CANCELLED")
  /\ UNCHANGED <<exception, shown, slot, queue, body, inHand, latest, posts>>

\* cancel() on the FX thread: the state follows at once.
FxCancel ==
  /\ future = "NEW"
  /\ future' = "CANCELLED"
  /\ state' = "CANCELLED"
  /\ running' = FALSE
  /\ trail' = Append(trail, "CANCELLED")
  /\ UNCHANGED <<exception, shown, slot, queue, body, inHand, latest, posts>>

\* update*() on the FX thread writes the property directly.
FxUpdate(c, v) ==
  /\ c \in FxUpdates
  /\ posts < MaxPosts
  /\ shown' = [shown EXCEPT ![c] = v]
  /\ latest' = [latest EXCEPT ![c] = v]
  /\ posts' = posts + 1
  /\ UNCHANGED <<state, running, trail, exception, slot, queue, future, body, inHand>>

\* The runnables TaskCallable.call and cancel() queue, run by the FX thread.
RunRunning ==
  /\ Head(queue) = "running"
  /\ SetState(<<"SCHEDULED", "RUNNING">>)
  /\ UNCHANGED <<exception, shown, slot, latest>>

\* Variant: SUCCEEDED is set without updateValue(result).
RunSucceededNoValue ==
  /\ Head(queue) = "succeeded"
  /\ SetState(<<"SUCCEEDED">>)
  /\ UNCHANGED <<exception, shown, slot, latest>>

RunSucceeded ==
  /\ Head(queue) = "succeeded"
  /\ shown' = [shown EXCEPT !["value"] = Result]
  /\ latest' = [latest EXCEPT !["value"] = Result]
  /\ SetState(<<"SUCCEEDED">>)
  /\ UNCHANGED <<exception, slot>>

RunFailed ==
  /\ Head(queue) = "failed"
  /\ exception' = TRUE
  /\ SetState(<<"FAILED">>)
  /\ UNCHANGED <<shown, slot, latest>>

\* Variant: a task that is not running is not moved to CANCELLED.
RunCancelledIfActive ==
  /\ Head(queue) = "cancelled"
  /\ IF IsActive(state) THEN SetState(<<"CANCELLED">>)
                        ELSE UNCHANGED <<state, running, trail, future>>
  /\ UNCHANGED <<exception, shown, slot, latest>>

RunCancelled ==
  /\ Head(queue) = "cancelled"
  /\ SetState(<<"CANCELLED">>)
  /\ UNCHANGED <<exception, shown, slot, latest>>

\* Variant: get() instead of getAndSet(null).
RunUpdateKeepsSlot(c) ==
  /\ Head(queue) = c
  /\ shown' = [shown EXCEPT ![c] = slot[c]]
  /\ UNCHANGED <<state, running, trail, exception, slot, future, latest>>

\* The runnable of update*(): getAndSet(null), then write the property.
RunUpdate(c) ==
  /\ Head(queue) = c
  /\ shown' = [shown EXCEPT ![c] = slot[c]]
  /\ slot' = [slot EXCEPT ![c] = NULL]
  /\ UNCHANGED <<state, running, trail, exception, future, latest>>

FxRun ==
  /\ queue # << >>
  /\ queue' = Tail(queue)
  /\ \/ RunRunning
     \/ RunSucceeded
     \/ RunFailed
     \/ RunCancelled
     \/ \E c \in Channels : RunUpdate(c)
  /\ UNCHANGED <<body, inHand, posts>>
-----------------------------------------------------------------------------
(***************************************************************************)
(* Background threads.  runLater is a step of its own: what a thread read  *)
(* or swapped before it may be stale by the time the runnable is queued.   *)
(***************************************************************************)
RunLater(t) ==
  /\ inHand[t] # Nothing
  /\ queue' = Append(queue, inHand[t])
  /\ inHand' = [inHand EXCEPT ![t] = Nothing]
  /\ UNCHANGED <<fxVars, slot, future, body, latest, posts>>

\* A thread may call into the task when it has nothing left to hand over;
\* Runner does so only from inside call().
MayCall(t) == inHand[t] = Nothing /\ (t = Runner => body = "call")

\* cancel() off the FX thread, up to its runLater.
Cancel(t) ==
  /\ MayCall(t)
  /\ future = "NEW"
  /\ future' = "CANCELLED"
  /\ inHand' = [inHand EXCEPT ![t] = "cancelled"]
  /\ UNCHANGED <<fxVars, slot, queue, body, latest, posts>>

\* Variant: compareAndSet(null, v) instead of getAndSet(v).
UpdateFirstWins(t, c, v) ==
  /\ t \in Updaters[c]
  /\ MayCall(t)
  /\ posts < MaxPosts
  /\ slot' = IF slot[c] = NULL THEN [slot EXCEPT ![c] = v] ELSE slot
  /\ latest' = [latest EXCEPT ![c] = v]
  /\ inHand' = IF slot[c] = NULL THEN [inHand EXCEPT ![t] = c] ELSE inHand
  /\ posts' = posts + 1
  /\ UNCHANGED <<fxVars, queue, future, body>>

\* Variant: every call queues a runnable.
UpdateAlwaysQueues(t, c, v) ==
  /\ t \in Updaters[c]
  /\ MayCall(t)
  /\ posts < MaxPosts
  /\ slot' = [slot EXCEPT ![c] = v]
  /\ latest' = [latest EXCEPT ![c] = v]
  /\ inHand' = [inHand EXCEPT ![t] = c]
  /\ posts' = posts + 1
  /\ UNCHANGED <<fxVars, queue, future, body>>

\* updateProgress, updateMessage, updateTitle, updateValue off the FX thread:
\* the payload goes into the slot, and only who found the slot empty queues
\* the runnable that will read it.
Update(t, c, v) ==
  /\ t \in Updaters[c]
  /\ MayCall(t)
  /\ posts < MaxPosts
  /\ slot' = [slot EXCEPT ![c] = v]
  /\ latest' = [latest EXCEPT ![c] = v]
  /\ inHand' = IF slot[c] = NULL THEN [inHand EXCEPT ![t] = c] ELSE inHand
  /\ posts' = posts + 1
  /\ UNCHANGED <<fxVars, queue, future, body>>

\* FutureTask.run: a task that is already cancelled is not called at all.
Run ==
  /\ body = "ready"
  /\ \/ /\ future = "NEW"
        /\ body' = "call"
        /\ inHand' = [inHand EXCEPT ![Runner] = "running"]
     \/ /\ future # "NEW"
        /\ body' = "skipped"
        /\ UNCHANGED inHand
  /\ UNCHANGED <<fxVars, slot, queue, future, latest, posts>>

\* call() returns: the result is published unless isCancelled().
CallReturns ==
  /\ body = "call"
  /\ inHand[Runner] = Nothing
  /\ body' = "set"
  /\ inHand' = IF IsCancelled THEN inHand ELSE [inHand EXCEPT ![Runner] = "succeeded"]
  /\ UNCHANGED <<fxVars, slot, queue, future, latest, posts>>

\* call() throws: there is no isCancelled() test on this path.
CallThrows ==
  /\ body = "call"
  /\ inHand[Runner] = Nothing
  /\ body' = "setException"
  /\ inHand' = [inHand EXCEPT ![Runner] = "failed"]
  /\ UNCHANGED <<fxVars, slot, queue, future, latest, posts>>

\* Back in FutureTask.run, which settles the future unless it was cancelled.
Finish ==
  /\ inHand[Runner] = Nothing
  /\ future = "NEW"
  /\ \/ body = "set" /\ future' = "NORMAL"
     \/ body = "setException" /\ future' = "EXCEPTIONAL"
  /\ UNCHANGED <<fxVars, slot, queue, body, inHand, latest, posts>>
-----------------------------------------------------------------------------
Next ==
  \/ FxRun
  \/ FxSchedule
  \/ FxCancel
  \/ \E c \in Channels : \E v \in PayloadsOf(c) : FxUpdate(c, v)
  \/ \E t \in Threads : RunLater(t)
  \/ \E t \in Threads : Cancel(t)
  \/ \E t \in Threads, c \in Channels : \E v \in PayloadsOf(c) : Update(t, c, v)
  \/ Run
  \/ CallReturns
  \/ CallThrows
  \/ Finish

(***************************************************************************)
(* The FX thread keeps running its queue, a background thread inside the   *)
(* library keeps going.  Nothing is assumed of the application: run() need *)
(* not be called, call() need not return, nobody need cancel or update.    *)
(***************************************************************************)
Fairness ==
  /\ WF_vars(FxRun)
  /\ \A t \in Threads : WF_vars(RunLater(t))
  /\ WF_vars(Finish)

Spec == Init /\ [][Next]_vars /\ Fairness
-----------------------------------------------------------------------------
(***************************************************************************)
(* Type invariant.                                                         *)
(***************************************************************************)
TypeOK ==
  /\ state \in States
  /\ running \in BOOLEAN
  /\ trail \in Seq(States)
  /\ exception \in BOOLEAN
  /\ shown \in [Channels -> Payloads \cup {Result, NULL}]
  /\ slot \in [Channels -> Payloads \cup {NULL}]
  /\ queue \in Seq(Runnables)
  /\ future \in {"NEW", "NORMAL", "EXCEPTIONAL", "CANCELLED"}
  /\ body \in {"ready", "skipped", "call", "set", "setException"}
  /\ inHand \in [Threads -> Runnables \cup {Nothing}]
  /\ latest \in [Channels -> Payloads \cup {Result, NULL}]
  /\ posts \in Nat

(***************************************************************************)
(* LifecycleOrder: whatever the threads do, the values setState() stores   *)
(* follow READY, SCHEDULED, RUNNING, then SUCCEEDED or FAILED; CANCELLED   *)
(* cuts in before the conclusion only and nothing ever follows it.  A      *)
(* Service-run task stores SCHEDULED twice.  The one exception is a        *)
(* cancel() that beats FutureTask.run: SUCCEEDED or FAILED is set by a     *)
(* runnable that can run before the future is settled, and only a future   *)
(* that cancel() took in between lets CANCELLED follow.                    *)
(***************************************************************************)
Follows == { <<"READY", "SCHEDULED">>, <<"SCHEDULED", "SCHEDULED">>,
             <<"SCHEDULED", "RUNNING">>, <<"RUNNING", "SUCCEEDED">>,
             <<"RUNNING", "FAILED">> }
           \cup { <<s, "CANCELLED">> : s \in States \ Terminal }

Overtaken == { <<s, "CANCELLED">> : s \in {"SUCCEEDED", "FAILED"} }

LifecycleOrder ==
  \A i \in 1..Len(trail) :
    LET move == <<IF i = 1 THEN "READY" ELSE trail[i - 1], trail[i]>>
    IN  move \in Follows \/ (move \in Overtaken /\ IsCancelled)

(***************************************************************************)
(* ConclusionIsFinal: a task that shows SUCCEEDED or FAILED keeps it: it   *)
(* may be cancelled "prior to the conclusion of the Worker" only           *)
(* (Worker.java, TaskCancelTest).                                          *)
(***************************************************************************)
Concluded == state \in {"SUCCEEDED", "FAILED"}

ConclusionIsFinal == [][Concluded => state' = state]_vars

(***************************************************************************)
(* OutcomesAgree: when no runnable is queued or about to be queued and the *)
(* FutureTask is settled or not started, the state property and the        *)
(* FutureTask agree on how the task ended, although one is written by      *)
(* compare-and-set on any thread and the other by queued runnables on the  *)
(* FX thread.                                                              *)
(***************************************************************************)
Idle == queue = << >> /\ \A t \in Threads : inHand[t] = Nothing

OutcomesAgree ==
  Idle /\ (body \in {"ready", "skipped"} \/ future # "NEW") =>
    /\ state = "CANCELLED" <=> future = "CANCELLED"
    /\ state = "SUCCEEDED" <=> future = "NORMAL"
    /\ state = "FAILED"    <=> future = "EXCEPTIONAL"

(***************************************************************************)
(* ImplementsTaskLife: hidden behind the queue and the hand-overs, every   *)
(* behaviour of the task is one that TaskLife allows, fairness included.   *)
(***************************************************************************)
Life == INSTANCE TaskLife

ImplementsTaskLife == Life!Spec

(***************************************************************************)
(* OneRunnablePerChannel: when update*() is never given null, a filled     *)
(* slot has exactly one runnable on its way to empty it, and an empty slot *)
(* none: the event queue is not flooded, no update is stranded and the     *)
(* progress runnable never dereferences a null ProgressUpdate.             *)
(***************************************************************************)
Queued(r) == { i \in DOMAIN queue : queue[i] = r }
Held(r)   == { t \in Threads : inHand[t] = r }

OneRunnablePerChannel ==
  \A c \in Channels :
    IF slot[c] = NULL
    THEN Queued(c) = {} /\ Held(c) = {}
    ELSE \/ Held(c) = {}   /\ \E i \in DOMAIN queue : Queued(c) = {i}
         \/ Queued(c) = {} /\ \E t \in Threads : Held(c) = {t}

(***************************************************************************)
(* NoLostUpdate: coalescing drops intermediate values only.  The payload   *)
(* of the last update*() call (or, after it, the result) is in the slot,   *)
(* still to be shown, or is what the property shows.                       *)
(***************************************************************************)
NoLostUpdate ==
  \A c \in Channels : latest[c] = IF slot[c] = NULL THEN shown[c] ELSE slot[c]

(***************************************************************************)
(* SucceededHasResult: in SUCCEEDED the value is the result of call(), and *)
(* no earlier updateValue() made by call() can overwrite it any more.      *)
(***************************************************************************)
SucceededHasResult ==
  state = "SUCCEEDED" => shown["value"] = Result /\ slot["value"] = NULL

(***************************************************************************)
(* UpdateIsSeen: a payload left in a slot is eventually taken out of it by *)
(* the FX thread.                                                          *)
(***************************************************************************)
UpdateIsSeen == \A c \in Channels : slot[c] # NULL ~> slot[c] = NULL
=============================================================================
