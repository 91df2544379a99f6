--------------------------- MODULE PlaybackPipeline ---------------------------
(* The native media player, CGstAudioPlaybackPipeline: the state it announces  *)
(* to the MediaPlayer, kept by the calls of the application (thread "app") and  *)
(* by the messages of the pipeline's bus (thread "bus", BusCallback).  Both     *)
(* drive the GStreamer pipeline, which changes state in its own time and        *)
(* reports it on the bus.  A section under m_StateLock is one step, and so are   *)
(* the tests of a function before it changes anything; a decision and the call   *)
(* it leads to are two.                                                          *)
EXTENDS Integers, Sequences

CONSTANTS
  Calls,          \* calls the application makes
  Notes,          \* messages the buffers post, the end of stream, a fatal error
  MaxCalls,       \* bound: number of calls
  MaxNotes        \* bound: number of messages of the buffers, ends and errors

ASSUME PipelineAssumption ==
  /\ Calls \subseteq {"play", "pause", "stop", "finish", "seek", "zero", "rate", "dispose"}
  /\ Notes \subseteq {"stall", "resume", "hls_eos", "full", "not_full",
                    "underrun", "progress", "buf_eos", "eos", "error"}
  /\ MaxCalls \in Nat
  /\ MaxNotes \in Nat

VARIABLES
  hls,            \* GetHLSModeEnabled: which of the two buffers is used
  m_PlayerState, m_PlayerPendingState, m_StallOnPause, m_bSeekInvoked,
  zeroRate, m_bResumePlayOnNonzeroRate,       \* m_fRate is 0
  m_bLastProgressValueEOS, m_bHLSPBFull,
  gst,            \* the pipeline (GStreamer)
  bus,            \* messages on its bus (GStreamer)
  pc, call,       \* where the threads are; Stop() or SetRate(0) while it is inside Pause
  resume,         \* local variable of SetRate
  content,        \* sBusCallbackContent: flags and how often it has been freed
  status, asked, calls, notes,  \* announced status; last request; counters
  misread         \* history: a start of the pipeline was taken for the end of a stop

playerVars == <<m_PlayerState, m_PlayerPendingState, m_StallOnPause, m_bSeekInvoked>>
rateVars == <<zeroRate, m_bResumePlayOnNonzeroRate, resume>>
fillVars == <<m_bLastProgressValueEOS, m_bHLSPBFull>>
gstVars == <<gst, bus>>
vars == <<hls, playerVars, rateVars, fillVars, gstVars, pc, call, content, status, asked, calls, notes,
          misread>>

HLSNotes == {"stall", "resume", "hls_eos", "full", "not_full"}
BufferNotes == {"underrun", "progress", "buf_eos"}

----------------------------------------------------------------------------
(* GStreamer.  cur, next, pend and target are GST_STATE, _NEXT, _PENDING and   *)
(* _TARGET of the pipeline; async: its sinks wait for data (preroll); cont: the *)
(* thread that takes it on to PLAYING is on its way.                            *)
(* A state message that is not the last of a change has a pending state and is  *)
(* ignored by the player; the model does not post it.                           *)
Changed(old, new) == <<[type |-> "state", old |-> old, new |-> new]>>
Note(type) == [type |-> type, old |-> "VOID", new |-> "VOID"]

Settled(g, s) == [g EXCEPT !.cur = s, !.next = "VOID", !.pend = "VOID", !.target = s, !.cont = FALSE]

(* gst_element_set_state; b: what is on the bus.  A pipeline that is asked to   *)
(* pause may have to wait for data first.                                       *)
SetState(s, b) ==
  LET stands == gst.cur # "NULL" /\ gst.pend = "VOID"
      starting == gst.pend = "PLAYING" /\ gst.next = "PLAYING" /\ s = "PAUSED"
      retarget == [gst EXCEPT !.target = s, !.cont = @ /\ gst.target = s]
      settle == gst' = Settled(gst, s) /\ bus' = b \o Changed(gst.cur, s)
  IN \/ /\ gst.cur = "NULL"
        /\ gst' = [gst EXCEPT !.cur = "READY", !.next = "PAUSED", !.pend = s, !.target = s, !.async = TRUE]
        /\ bus' = b
     \/ stands /\ gst.cur = s /\ gst' = retarget /\ bus' = b
     \/ stands /\ gst.cur # s /\ settle
     \/ /\ stands /\ gst.cur # s /\ s = "PAUSED"
        /\ gst' = [retarget EXCEPT !.next = s, !.pend = s, !.async = TRUE] /\ bus' = b
     \/ starting /\ gst.async /\ gst' = [retarget EXCEPT !.next = s, !.pend = s] /\ bus' = b
     \/ starting /\ ~gst.async /\ settle
     \/ gst.pend # "VOID" /\ ~starting /\ gst' = [retarget EXCEPT !.pend = s] /\ bus' = b

(* A flushing seek: the pipeline loses its state until there are new data.     *)
LoseState ==
  /\ gst' = IF gst.cur = "NULL" THEN gst
            ELSE IF gst.pend # "VOID" THEN [gst EXCEPT !.async = TRUE]
            ELSE [gst EXCEPT !.cur = "PAUSED", !.next = "PAUSED", !.pend = "PAUSED",
                             !.async = TRUE]
  /\ UNCHANGED bus

(* bin_handle_async_done: the sinks have their data.                           *)
AsyncDone ==
  /\ gst.async
  /\ LET commits == gst.next # "PLAYING"
         final == gst.target = "PAUSED"
         g == [gst EXCEPT !.async = FALSE, !.cur = IF commits THEN "PAUSED" ELSE @]
     IN /\ gst' = IF final /\ commits THEN Settled(g, "PAUSED")
                  ELSE [g EXCEPT !.pend = gst.target, !.next = "PLAYING", !.cont = TRUE]
        /\ bus' = IF final /\ commits THEN bus \o Changed(gst.cur, "PAUSED") ELSE bus
  /\ UNCHANGED <<hls, playerVars, rateVars, fillVars, pc, call, content, status, asked, calls, notes, misread>>

(* gst_bin_continue_func.                                                      *)
Continue ==
  /\ gst.cont
  /\ gst' = IF gst.async THEN [gst EXCEPT !.cont = FALSE] ELSE Settled(gst, "PLAYING")
  /\ bus' = IF gst.async THEN bus ELSE bus \o Changed(gst.cur, "PLAYING")
  /\ UNCHANGED <<hls, playerVars, rateVars, fillVars, pc, call, content, status, asked, calls, notes, misread>>

(* Messages of the buffers, the end of the stream, a fatal error.  The buffers *)
(* and the queue before the sink post in any state of the pipeline; the bin     *)
(* reports the end of the stream once it plays and no change is pending.        *)
Post(type) ==
  /\ notes < MaxNotes
  /\ gst.cur # "NULL"
  /\ type \in Notes \ (IF hls THEN BufferNotes ELSE HLSNotes)
  /\ type = "eos" => gst.cur = "PLAYING" /\ gst.pend = "VOID"
  /\ notes' = notes + 1
  /\ bus' = Append(bus, Note(type))
  /\ UNCHANGED <<hls, playerVars, rateVars, fillVars, gst, pc, call, content, status, asked, calls, misread>>

----------------------------------------------------------------------------
(* SetPlayerState.  FINISHED does not change the status of the MediaPlayer.    *)
Announce(s) == status' = IF s = "Finished" THEN status ELSE s

(* Play(), the test under the lock.                                            *)
PlayReady ==
  \/ m_PlayerState \notin {"Finished", "Error", "Playing"}
  \/ m_PlayerState = "Playing" /\ "PAUSED" \in {gst.cur, gst.pend}

Goto(t, place) == pc' = [pc EXCEPT ![t] = place]

(* Play(), the rest.                                                           *)
PlaySet(t) ==
  /\ pc[t] = "play_set"
  /\ IF zeroRate
     THEN m_bResumePlayOnNonzeroRate' = TRUE /\ UNCHANGED gstVars
     ELSE SetState("PLAYING", bus) /\ UNCHANGED m_bResumePlayOnNonzeroRate
  /\ Goto(t, "idle")
  /\ UNCHANGED <<hls, playerVars, zeroRate, resume, fillVars, call, content, status, asked, calls, notes, misread>>

(* InternalPause(), the test under the lock, and the rest.                     *)
PauseReady ==
  /\ m_PlayerState # "Error"
  /\ m_PlayerState # "Finished" \/ m_bSeekInvoked \/ m_PlayerPendingState = "Stopped"

AfterInternalPause(t) ==
  IF t = "bus" THEN "idle" ELSE CASE call = "stop" -> "seek" [] call = "zero" -> "zero" [] OTHER -> "idle"

InternalPause(t) ==
  /\ pc[t] = "pause"
  /\ m_bSeekInvoked' = FALSE
  /\ m_StallOnPause' = (m_StallOnPause \/ t = "bus")
  /\ Goto(t, IF PauseReady THEN "pause_set" ELSE AfterInternalPause(t))
  /\ UNCHANGED <<hls, m_PlayerState, m_PlayerPendingState, rateVars, fillVars, gstVars, call, content,
                 status, asked, calls, notes, misread>>

PauseSet(t) ==
  /\ pc[t] = "pause_set"
  /\ IF zeroRate
     THEN m_bResumePlayOnNonzeroRate' = FALSE /\ UNCHANGED gstVars
     ELSE SetState("PAUSED", bus) /\ UNCHANGED m_bResumePlayOnNonzeroRate
  /\ Goto(t, AfterInternalPause(t))
  /\ UNCHANGED <<hls, playerVars, zeroRate, resume, fillVars, call, content, status, asked, calls, notes, misread>>

----------------------------------------------------------------------------
(* The calls of the application: dispose() at any time, the others once the    *)
(* player is ready (MediaPlayer keeps them until then).                         *)
Call(c) ==
  /\ pc["app"] = "idle"
  /\ c \in Calls
  /\ m_PlayerState = "Unknown" => c = "dispose"
  /\ calls < MaxCalls
  /\ calls' = calls + 1
  /\ call' = IF c \in {"stop", "zero"} THEN c ELSE "none"

Play ==
  /\ Call("play")
  /\ asked' = "play"
  /\ Goto("app", IF PlayReady THEN "play_set" ELSE "idle")
  /\ UNCHANGED <<hls, playerVars, rateVars, fillVars, gstVars, content, status, notes, misread>>

(* NativeMediaPlayer.stop() goes on to a seek to the start time.               *)
Stop ==
  /\ Call("stop")
  /\ asked' = "stop"
  /\ LET nothing == m_PlayerState \in {"Stopped", "Error"}
     IN /\ m_bResumePlayOnNonzeroRate' = (m_bResumePlayOnNonzeroRate /\ (nothing \/ ~zeroRate))
        /\ Goto("app", IF nothing \/ zeroRate THEN "seek" ELSE "stop_set")
  /\ UNCHANGED <<hls, playerVars, zeroRate, resume, fillVars, gstVars, content, status, notes, misread>>

StopSet ==
  /\ pc["app"] = "stop_set"
  /\ m_PlayerPendingState' = "Stopped"
  /\ Goto("app", "pause")
  /\ UNCHANGED <<hls, m_PlayerState, m_StallOnPause, m_bSeekInvoked, rateVars, fillVars, gstVars, call,
                 content, status, asked, calls, notes, misread>>

(* Pause(), the first test, and the rest: at once where the pipeline is paused *)
(* already.  SetRate(0) calls it too.                                           *)
AfterPause == IF call = "zero" THEN "zero" ELSE "idle"

PauseTest(done) == Goto("app", IF m_PlayerState \in {"Paused", "Error"} THEN done ELSE "pause_first")

Pause ==
  /\ Call("pause")
  /\ asked' = "pause"
  /\ PauseTest("idle")
  /\ UNCHANGED <<hls, playerVars, rateVars, fillVars, gstVars, content, status, notes, misread>>

PauseEarly == m_PlayerState \in {"Stopped", "Stalled", "Playing"}

PausedAlready == m_PlayerState \in {"Stopped", "Stalled"}

PauseFirst ==
  /\ pc["app"] = "pause_first"
  /\ IF PausedAlready
     THEN /\ m_PlayerState' = "Paused" /\ Announce("Paused")
          /\ Goto("app", AfterPause)
          /\ UNCHANGED m_PlayerPendingState
     ELSE /\ m_PlayerPendingState' = "Paused"
          /\ Goto("app", "pause")
          /\ UNCHANGED <<m_PlayerState, status>>
  /\ UNCHANGED <<hls, m_StallOnPause, m_bSeekInvoked, rateVars, fillVars, gstVars, call, content, asked,
                 calls, notes, misread>>

Finish ==
  /\ Call("finish")
  /\ asked' = IF m_PlayerState = "Playing" THEN "finish" ELSE asked
  /\ Goto("app", IF m_PlayerState = "Playing" THEN "pause" ELSE "idle")
  /\ UNCHANGED <<hls, playerVars, rateVars, fillVars, gstVars, content, status, notes, misread>>

(* SetRate(0): a pause that remembers whether the player was playing.          *)
RateZero ==
  /\ Call("zero")
  /\ ~zeroRate /\ m_PlayerState # "Error"
  /\ asked' = "pause"
  /\ resume' = (gst.cur = "PLAYING" \/ m_PlayerState = "Stalled")
  /\ PauseTest("zero")
  /\ UNCHANGED <<hls, playerVars, zeroRate, m_bResumePlayOnNonzeroRate, fillVars, gstVars, content, status,
                 notes, misread>>

RateZeroEnd ==
  /\ pc["app"] = "zero"
  /\ zeroRate' = TRUE
  /\ m_bResumePlayOnNonzeroRate' = resume
  /\ resume' = FALSE /\ call' = "none"
  /\ Goto("app", "idle")
  /\ UNCHANGED <<hls, playerVars, fillVars, gstVars, content, status, asked, calls, notes, misread>>

(* SetRate(fRate): m_fRate is set before it is compared with 0, so the         *)
(* playback is not taken up again and a play() made at rate 0 is forgotten.     *)
RateSet ==
  /\ Call("rate")
  /\ m_PlayerState # "Error"
  /\ zeroRate' = FALSE
  /\ asked' = IF zeroRate THEN "none" ELSE asked
  /\ LoseState
  /\ UNCHANGED <<hls, playerVars, m_bResumePlayOnNonzeroRate, resume, fillVars, pc, content, status,
                 notes, misread>>

SeekTest ==
  /\ m_bSeekInvoked' = (m_bSeekInvoked \/ m_PlayerState = "Finished")
  /\ Goto("app", IF m_PlayerState \in {"Unknown", "Error"} THEN "idle" ELSE "seek_do")
  /\ UNCHANGED <<hls, m_PlayerState, m_PlayerPendingState, m_StallOnPause, rateVars, fillVars, gstVars,
                 content, status, asked, notes, misread>>

Seek == Call("seek") /\ SeekTest

SeekStop == pc["app"] = "seek" /\ SeekTest /\ call' = "none" /\ UNCHANGED calls

SeekPipeline ==
  /\ pc["app"] = "seek_do"
  /\ LoseState
  /\ Goto("app", "seek_end")
  /\ UNCHANGED <<hls, playerVars, rateVars, fillVars, call, content, status, asked, calls, notes, misread>>

(* A finished player is started again.                                         *)
SeekEnd ==
  /\ pc["app"] = "seek_end"
  /\ Goto("app", IF m_PlayerState = "Finished" /\ m_PlayerPendingState # "Stopped"
                 THEN "seek_set" ELSE "idle")
  /\ UNCHANGED <<hls, playerVars, rateVars, fillVars, gstVars, call, content, status, asked, calls, notes, misread>>

SeekSet ==
  /\ pc["app"] = "seek_set"
  /\ SetState("PLAYING", bus)
  /\ Goto("app", "idle")
  /\ UNCHANGED <<hls, playerVars, rateVars, fillVars, call, content, status, asked, calls, notes, misread>>

AppStep == PlaySet("app") \/ InternalPause("app") \/ PauseSet("app") \/ RateZeroEnd
           \/ StopSet \/ PauseFirst \/ SeekStop \/ SeekPipeline \/ SeekEnd \/ SeekSet

----------------------------------------------------------------------------
(* BusCallback: one message, under m_DisposeLock.                              *)
Receive(type) ==
  /\ pc["bus"] = "idle"
  /\ ~content.inProgress
  /\ bus # <<>> /\ Head(bus).type = type

(* UpdatePlayerState: the state that follows upon a change of the pipeline.    *)
PausedState(otherwise) ==
  CASE m_PlayerPendingState = "Stopped" -> "Stopped"
    [] m_PlayerPendingState = "Paused" -> "Paused"
    [] OTHER -> otherwise

NextState(old, new) ==
  CASE m_PlayerState = "Unknown" /\ new = "PAUSED" -> "Ready"
    [] m_PlayerState = "Ready" /\ old = "PAUSED" /\ new = "PLAYING" -> "Playing"
    [] m_PlayerState = "Playing" /\ new = "PAUSED" ->
         PausedState(IF m_StallOnPause THEN "Stalled" ELSE IF old = "PLAYING" THEN "Finished" ELSE "Playing")
    [] m_PlayerState = "Paused" /\ old = "PAUSED" ->
         IF m_PlayerPendingState = "Stopped" THEN "Stopped"
         ELSE IF new = "PLAYING" THEN "Playing" ELSE "Paused"
    [] m_PlayerState = "Stopped" /\ old = "PAUSED" ->
         IF new = "PLAYING" THEN "Playing"
         ELSE IF m_PlayerPendingState = "Paused" THEN "Paused" ELSE "Stopped"
    [] m_PlayerState = "Stalled" /\ old = "PAUSED" ->
         IF new = "PLAYING" THEN "Playing" ELSE PausedState("Stalled")
    [] m_PlayerState = "Finished" /\ new = "PAUSED" ->
         IF m_PlayerPendingState = "Stopped" THEN "Stopped"
         ELSE IF old = "PAUSED" THEN "Paused" ELSE "Finished"
    [] m_PlayerState = "Finished" /\ old = "PAUSED" /\ new = "PLAYING" -> "Playing"
    [] OTHER -> m_PlayerState

(* What the tests before UpdatePlayerState let through.  The first message is  *)
(* that of READY to PAUSED, when the sinks have reported (m_bDynamicElementsReady) *)
(* or the pipeline is a static one.                                             *)
Relevant(old, new) ==
  \/ new # old
  \/ new = "PAUSED" /\ (m_PlayerPendingState \in {"Stopped", "Paused"} \/ m_StallOnPause
                         \/ m_PlayerState = "Unknown")

MayResume == m_PlayerPendingState \notin {"Paused", "Stopped"}

(* SetPlayerState and UpdateBufferPosition call Play().                        *)
AsksPlayUnlessFull(old, new, next) ==
  /\ m_PlayerState # next /\ next = "Stalled" /\ m_bLastProgressValueEOS

AsksPlay(old, new, next) ==
  \/ m_PlayerState # next /\ next = "Stalled" /\ (m_bLastProgressValueEOS \/ m_bHLSPBFull)
  \/ /\ Relevant(old, new) /\ new = "PAUSED" /\ m_PlayerState = "Stalled"
     /\ ~hls /\ m_bLastProgressValueEOS /\ MayResume

(* GST_MESSAGE_STATE_CHANGED of the pipeline.  A player that stalls while no   *)
(* more data will come, or the ring is full, plays on at once.                  *)
StateChanged ==
  /\ Receive("state")
  /\ LET old == Head(bus).old
         new == Head(bus).new
         next == IF Relevant(old, new) THEN NextState(old, new) ELSE m_PlayerState
         moves == next # m_PlayerState
         asksPlay == AsksPlay(old, new, next)
     IN /\ m_PlayerState' = next
        /\ m_PlayerPendingState' =
             IF moves /\ (next = "Stopped" \/ (next = "Paused" /\ m_PlayerState # "Finished"))
             THEN "Unknown" ELSE m_PlayerPendingState
        /\ m_StallOnPause' =
             (m_StallOnPause /\ ~(moves /\ m_PlayerState = "Playing" /\ next \in {"Stopped", "Paused", "Stalled"}))
        /\ m_bSeekInvoked' = (m_bSeekInvoked /\ ~(moves /\ m_PlayerState = "Finished"))
        /\ IF moves /\ ~(m_PlayerState = "Finished" /\ next = "Playing")
           THEN Announce(next) ELSE UNCHANGED status
        /\ m_bResumePlayOnNonzeroRate' = (m_bResumePlayOnNonzeroRate \/ (asksPlay /\ zeroRate))
        /\ IF asksPlay /\ ~zeroRate
           THEN SetState("PLAYING", Tail(bus))
           ELSE gst' = gst /\ bus' = Tail(bus)
        /\ misread' = IF moves THEN next = "Stopped" /\ new = "PLAYING" ELSE misread
  /\ UNCHANGED <<hls, zeroRate, resume, fillVars, pc, call, content, asked, calls, notes>>

(* GST_MESSAGE_EOS.                                                            *)
EndOfStream ==
  /\ Receive("eos")
  /\ m_PlayerState' = "Finished"
  /\ m_bLastProgressValueEOS' = (m_bLastProgressValueEOS /\ ~(hls /\ m_PlayerState # "Finished"))
  /\ bus' = Tail(bus)
  /\ UNCHANGED <<hls, m_PlayerPendingState, m_StallOnPause, m_bSeekInvoked, rateVars, m_bHLSPBFull, gst,
                 pc, call, content, status, asked, calls, notes, misread>>

(* GST_MESSAGE_ERROR, a fatal one: the pipeline is torn down, which drops what *)
(* is on the bus.  The application hears of it by a halt event.                 *)
FatalError ==
  /\ Receive("error")
  /\ m_PlayerState' = "Error"
  /\ status' = "Error"
  /\ IF m_PlayerState = "Error"
     THEN bus' = Tail(bus) /\ UNCHANGED gst
     ELSE bus' = <<>> /\ gst' = [Settled(gst, "NULL") EXCEPT !.async = FALSE]
  /\ UNCHANGED <<hls, m_PlayerPendingState, m_StallOnPause, m_bSeekInvoked, rateVars, fillVars, pc,
                 call, content, asked, calls, notes, misread>>

(* HLSBufferStall, BufferUnderrun: the tests; InternalPause follows.           *)
Suspends ==
  /\ gst.cur = "PLAYING" /\ ~m_bLastProgressValueEOS
  /\ IF hls THEN m_PlayerState = "Playing" /\ gst.pend = "VOID" /\ ~m_bHLSPBFull
            ELSE /\ m_PlayerState \notin {"Stalled", "Ready", "Error", "Finished"}
                 /\ gst.pend # "PAUSED"

BufferEmpty ==
  /\ Receive("stall") \/ Receive("underrun")
  /\ \/ Suspends /\ Goto("bus", "pause")
     \/ (Suspends => ~hls) /\ Goto("bus", "idle")    \* m_BufferPosition may be 0
  /\ bus' = Tail(bus)
  /\ UNCHANGED <<hls, playerVars, rateVars, fillVars, gst, call, content, status, asked, calls, notes, misread>>

(* HLSBufferResume on RESUME, HLS_EOS and FULL, UpdateBufferPosition on        *)
(* BUFFERING: the flags and the tests; Play follows.  The message BUFFERING     *)
(* ("progress", with eos "buf_eos") names the stop of a segment, which is not 0  *)
(* (progressbuffer.c refuses a segment without a length), and, unless it is the  *)
(* last, may or may not report data for m_dResumeDeltaTime.                      *)
Resumable ==
  /\ MayResume
  /\ \/ m_PlayerState = "Stalled"
     \/ hls /\ m_bLastProgressValueEOS' /\ m_PlayerState = "Playing"

BufferFilled ==
  /\ \E type \in {"resume", "hls_eos", "full", "progress", "buf_eos"} :
       /\ Receive(type)
       /\ m_bLastProgressValueEOS' = IF hls THEN m_bLastProgressValueEOS \/ type = "hls_eos"
                                            ELSE type = "buf_eos"
       /\ m_bHLSPBFull' = (m_bHLSPBFull \/ type = "full")
       /\ \/ Resumable /\ Goto("bus", "play")
          \/ (Resumable => ~hls /\ type = "progress") /\ Goto("bus", "idle")
  /\ bus' = Tail(bus)
  /\ UNCHANGED <<hls, playerVars, rateVars, gst, call, content, status, asked, calls, notes, misread>>

BufferResume ==
  /\ pc["bus"] = "play"
  /\ Goto("bus", IF PlayReady THEN "play_set" ELSE "idle")
  /\ UNCHANGED <<hls, playerVars, rateVars, fillVars, gstVars, call, content, status, asked, calls, notes, misread>>

NotFull ==
  /\ Receive("not_full")
  /\ m_bHLSPBFull' = FALSE
  /\ bus' = Tail(bus)
  /\ UNCHANGED <<hls, playerVars, rateVars, m_bLastProgressValueEOS, gst, pc, call, content, status,
                 asked, calls, notes, misread>>

BusStep == StateChanged \/ EndOfStream \/ FatalError \/ BufferEmpty \/ BufferFilled
           \/ BufferResume \/ NotFull \/ PlaySet("bus") \/ InternalPause("bus") \/ PauseSet("bus")

----------------------------------------------------------------------------
(* Dispose, and BusCallbackDestroyNotify, which the bus's source calls when it *)
(* is destroyed and no callback runs.  Who comes last frees the content.        *)
Dispose ==
  /\ Call("dispose")
  /\ pc["bus"] = "idle"
  /\ content' = [content EXCEPT !.inProgress = TRUE]
  /\ Goto("app", "dispose_null")
  /\ UNCHANGED <<hls, playerVars, rateVars, fillVars, gstVars, status, asked, notes, misread>>

DisposeNull ==
  /\ pc["app"] = "dispose_null"
  /\ gst' = [Settled(gst, "NULL") EXCEPT !.async = FALSE]
  /\ bus' = <<>>
  /\ Goto("app", "dispose_lock")
  /\ UNCHANGED <<hls, playerVars, rateVars, fillVars, call, content, status, asked, calls, notes, misread>>

Notify(c) == IF c.disposed THEN [c EXCEPT !.freed = @ + 1] ELSE [c EXCEPT !.freeMe = TRUE]

(* The rest under the lock: destroying the source notifies at once when no     *)
(* callback is under way.                                                       *)
DisposeLockFrees ==
  /\ pc["app"] = "dispose_lock"
  /\ content' = [content EXCEPT !.disposed = TRUE, !.destroyed = TRUE]
  /\ Goto("app", "dispose_free")
  /\ UNCHANGED <<hls, playerVars, rateVars, fillVars, gstVars, call, status, asked, calls, notes, misread>>

DisposeLock ==
  /\ pc["app"] = "dispose_lock"
  /\ LET c == IF pc["bus"] = "idle" THEN Notify(content) ELSE content
     IN /\ content' = [c EXCEPT !.disposed = TRUE, !.destroyed = TRUE]
        /\ Goto("app", IF c.freeMe THEN "dispose_free" ELSE "disposed")
  /\ UNCHANGED <<hls, playerVars, rateVars, fillVars, gstVars, call, status, asked, calls, notes, misread>>

DisposeFree ==
  /\ pc["app"] = "dispose_free"
  /\ content' = [content EXCEPT !.freed = @ + 1]
  /\ Goto("app", "disposed")
  /\ UNCHANGED <<hls, playerVars, rateVars, fillVars, gstVars, call, status, asked, calls, notes, misread>>

(* A callback that comes while the player is being disposed of: it has a       *)
(* message and waits for the lock, then ignores the message and returns.        *)
LateCallback ==
  /\ pc["bus"] = "idle" /\ content.inProgress /\ ~content.destroyed
  /\ bus # <<>>
  /\ bus' = Tail(bus)
  /\ Goto("bus", "late")
  /\ UNCHANGED <<hls, playerVars, rateVars, fillVars, gst, call, content, status, asked, calls, notes, misread>>

LateReturn ==
  /\ pc["bus"] = "late"
  /\ Goto("bus", IF content.destroyed THEN "notify" ELSE "idle")
  /\ UNCHANGED <<hls, playerVars, rateVars, fillVars, gstVars, call, content, status, asked, calls, notes, misread>>

DestroyNotify ==
  /\ pc["bus"] = "notify"
  /\ content' = Notify(content)
  /\ Goto("bus", "idle")
  /\ UNCHANGED <<hls, playerVars, rateVars, fillVars, gstVars, call, status, asked, calls, notes, misread>>

DisposeStep == DisposeNull \/ DisposeLock \/ DisposeFree \/ LateCallback \/ LateReturn \/ DestroyNotify

----------------------------------------------------------------------------
(* The pipeline has been built and set to PAUSED.                              *)
Init ==
  /\ hls \in BOOLEAN
  /\ m_PlayerState = "Unknown" /\ m_PlayerPendingState = "Unknown"
  /\ m_StallOnPause = FALSE /\ m_bSeekInvoked = FALSE
  /\ zeroRate = FALSE /\ m_bResumePlayOnNonzeroRate = FALSE /\ resume = FALSE
  /\ m_bLastProgressValueEOS = FALSE /\ m_bHLSPBFull = FALSE
  /\ gst = [cur |-> "READY", next |-> "PAUSED", pend |-> "PAUSED", target |-> "PAUSED",
            async |-> TRUE, cont |-> FALSE]
  /\ bus = <<>>
  /\ pc = [t \in {"app", "bus"} |-> "idle"] /\ call = "none"
  /\ content = [inProgress |-> FALSE, disposed |-> FALSE, destroyed |-> FALSE, freeMe |-> FALSE,
                freed |-> 0]
  /\ status = "Unknown" /\ asked = "none" /\ calls = 0 /\ notes = 0
  /\ misread = FALSE

Requests == Play \/ Stop \/ Pause \/ Finish \/ RateZero \/ RateSet \/ Seek \/ Dispose

Progress == AsyncDone \/ Continue \/ AppStep \/ BusStep \/ DisposeStep

Next == Requests \/ Progress \/ \E type \in Notes : Post(type)

Spec == Init /\ [][Next]_vars

----------------------------------------------------------------------------
PlayerStates == {"Unknown", "Ready", "Playing", "Paused", "Stopped", "Stalled", "Finished", "Error"}
GstStates == {"VOID", "NULL", "READY", "PAUSED", "PLAYING"}

(* Types: the player is in one of its states, the MediaPlayer is never told    *)
(* "Finished" as a status, and only a pause or a stop is ever pending.          *)
TypeOK ==
  /\ m_PlayerState \in PlayerStates
  /\ m_PlayerPendingState \in {"Unknown", "Paused", "Stopped"}
  /\ status \in PlayerStates \ {"Finished"}
  /\ \A f \in {"cur", "next", "pend", "target"} : gst[f] \in GstStates

(* Nothing is under way: no call, no message, no change of the pipeline.       *)
AtRest ==
  /\ pc["app"] = "idle" /\ pc["bus"] = "idle" /\ bus = <<>>
  /\ gst.pend = "VOID" /\ ~gst.async

(* Once calls, messages and state changes have settled, a player that says it  *)
(* is Ready, Paused, Stopped or Stalled really has a pipeline that stands       *)
(* still: the state that UpdatePlayerState and Pause() derive from messages and *)
(* pending flags does not drift from GStreamer's.  The one exception the code   *)
(* leaves open is UpdatePlayerState in Paused with a stop pending: it takes the  *)
(* message of a play() or a resumption that came after the stop for the stop's   *)
(* own, and the player is Stopped over a playing pipeline.                       *)
StandsStill ==
  AtRest /\ ~misread /\ m_PlayerState \in {"Ready", "Paused", "Stopped", "Stalled"} => gst.cur = "PAUSED"

(* A player last asked to play, at a rate other than 0, is not left Stalled    *)
(* once the buffer has said that it is full or that no more data will come: no  *)
(* later message would wake it (SetPlayerState's Play() on Stalled,             *)
(* HLSBufferResume, UpdateBufferPosition), whatever the order in which the      *)
(* messages of the buffer and of the pipeline and the calls arrive.             *)
NoMissedResume ==
  AtRest /\ m_PlayerState = "Stalled" /\ asked = "play" /\ ~zeroRate
    => ~m_bLastProgressValueEOS /\ ~m_bHLSPBFull

(* Dispose() and the destroy notification of the bus agree on who frees the    *)
(* callback's content: it is freed once, not while a callback still uses it,    *)
(* and it is not forgotten.                                                     *)
FreedOnce ==
  /\ content.freed <= 1
  /\ pc["bus"] \in {"late", "notify"} => content.freed = 0
  /\ pc["app"] = "disposed" /\ pc["bus"] = "idle" => content.freed = 1
============================================================================
