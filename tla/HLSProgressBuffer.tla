---------------------------- MODULE HLSProgressBuffer ----------------------------
(* The HLS progress buffer of the media pipeline, hlsprogressbuffer.c: a ring  *)
(* of NUM_OF_CACHED_SEGMENTS file caches, filled by the streaming thread of the *)
(* element upstream and drained by a task of its own.  Three threads run its    *)
(* functions:                                                                   *)
(*   src   the upstream streaming thread: chain, SEGMENT and EOS events         *)
(*   loop  the task of the source pad: hls_progress_buffer_loop                 *)
(*   ctl   the thread of a seek or of a shutdown: FLUSH events, deactivation    *)
(* The variables src, loop and ctl say where each of them is.  A critical       *)
(* section of element->lock is one step; what happens between an unlock and the *)
(* next lock is a step of its own.                                              *)
EXTENDS Integers, Sequences

CONSTANTS
  NUM_OF_CACHED_SEGMENTS,
  BufferSize          \* DEFAULT_BUFFER_SIZE, in blocks of the model

ASSUME HLSAssumption ==
  /\ NUM_OF_CACHED_SEGMENTS \in Nat \ {0}
  /\ BufferSize \in Nat \ {0}

VARIABLES
  slot,               \* cache[i], cache_size[i], cache_write_ready[i]
  cache_write_index, cache_read_index,
  send_new_segment, is_flushing, is_eos,
  srcresult,          \* "OK", "FLUSHING" or "ERROR" (any other flow return)
  loop, loopTask,     \* the loop function; its task: started, paused, stopped
  loopResult,         \* its local variable result
  inFlight,           \* the blocks of the buffer it is pushing
  src, segStop,       \* the upstream thread; segment.stop of its SEGMENT event
  ctl,
  sinkFlushing, sinkEos,  \* flags of the sink pad (GStreamer)
  down                    \* what the elements downstream have seen (GStreamer)

ringVars == <<slot, cache_write_index, cache_read_index>>
loopVars == <<loop, loopTask, loopResult, inFlight>>
padVars  == <<sinkFlushing, sinkEos>>

Slots == 0 .. NUM_OF_CACHED_SEGMENTS - 1

EmptySlot == [size |-> 0, ready |-> TRUE, rd |-> 0, data |-> <<>>]

(* hls_progress_buffer_init, and the activation of the source pad.             *)
BufferInit ==
  /\ slot = [i \in Slots |-> EmptySlot]
  /\ cache_write_index = -1
  /\ cache_read_index = 0
  /\ send_new_segment = TRUE
  /\ is_flushing = FALSE
  /\ is_eos = FALSE
  /\ srcresult = "OK"
  /\ loop = "idle" /\ loopTask = "started"
  /\ loopResult = "OK" /\ inFlight = <<>>
  /\ src = "idle" /\ segStop = 0
  /\ ctl = "idle"
  /\ sinkFlushing = FALSE /\ sinkEos = FALSE
  /\ down = [flushing |-> FALSE, segment |-> FALSE, eos |-> FALSE]

(* g_cond_signal: wakes the one thread that waits, and nobody who does not wait *)
(* yet.  Only the loop waits on add_cond, only the upstream thread on del_cond. *)
SignalAdd == loop' = IF loop = "wait" THEN "woken" ELSE loop
SignalDel == src' = IF src = "wait" THEN "woken" ELSE src

----------------------------------------------------------------------------
(* hls_progress_buffer_loop: one call per iteration of the task.               *)

(* The start of a call, or the return from g_cond_wait.                        *)
LoopEnter == (loop = "idle" /\ loopTask = "started") \/ loop = "woken"

(* cache_has_enough_data of the slot that is being read.                       *)
HasData == slot[cache_read_index].rd < Len(slot[cache_read_index].data)

LoopWait ==
  /\ LoopEnter
  /\ srcresult = "OK" /\ ~HasData /\ ~is_eos
  /\ loop' = "wait"
  /\ UNCHANGED <<ringVars, send_new_segment, is_flushing, is_eos, srcresult,
                 loopTask, loopResult, inFlight, src, segStop, ctl, padVars, down>>

(* All data are read and none will come: EOS goes downstream, the loop ends.   *)
\* Variant: the data left in the ring are not looked at.
LoopEosEarly ==
  /\ LoopEnter
  /\ srcresult = "OK" /\ is_eos
  /\ down' = [down EXCEPT !.eos = @ \/ ~down.flushing]
  /\ srcresult' = "FLUSHING"
  /\ loopResult' = "FLUSHING"
  /\ loop' = "last"
  /\ UNCHANGED <<ringVars, send_new_segment, is_flushing, is_eos, loopTask,
                 inFlight, src, segStop, ctl, padVars>>

LoopEos ==
  /\ LoopEnter
  /\ srcresult = "OK" /\ ~HasData /\ is_eos
  /\ down' = [down EXCEPT !.eos = @ \/ ~down.flushing]
  /\ srcresult' = "FLUSHING"
  /\ loopResult' = "FLUSHING"
  /\ loop' = "last"
  /\ UNCHANGED <<ringVars, send_new_segment, is_flushing, is_eos, loopTask,
                 inFlight, src, segStop, ctl, padVars>>

LoopStop ==
  /\ LoopEnter
  /\ srcresult # "OK"
  /\ loopResult' = srcresult
  /\ loop' = "last"
  /\ UNCHANGED <<ringVars, send_new_segment, is_flushing, is_eos, srcresult,
                 loopTask, inFlight, src, segStop, ctl, padVars, down>>

(* cache_read_buffer: at most BufferSize of what lies before the write         *)
(* position.  When that was the rest of the segment the slot is free again and  *)
(* the reader goes on with the next one.                                        *)
ReadSize(s) == IF Len(s.data) - s.rd < BufferSize THEN Len(s.data) - s.rd ELSE BufferSize

LoopRead ==
  LET i == cache_read_index
      s == slot[i]
      rd == s.rd + ReadSize(s)
      done == rd = s.size
  IN /\ LoopEnter
     /\ srcresult = "OK" /\ HasData
     /\ inFlight' = SubSeq(s.data, s.rd + 1, rd)
     /\ slot' = [slot EXCEPT ![i] = [s EXCEPT !.rd = rd, !.ready = @ \/ done]]
     /\ cache_read_index' = IF done THEN (i + 1) % NUM_OF_CACHED_SEGMENTS ELSE i
     /\ IF done THEN SignalDel ELSE src' = src
     /\ loop' = "push"
     /\ UNCHANGED <<cache_write_index, send_new_segment, is_flushing, is_eos, srcresult,
                    loopTask, loopResult, segStop, ctl, padVars, down>>

(* gst_pad_push returns: refused while downstream is flushing, else accepted   *)
(* or answered with an error.                                                   *)
LoopPush ==
  /\ loop = "push"
  /\ loopResult' \in IF down.flushing THEN {"FLUSHING"} ELSE {"OK", "ERROR"}
  /\ loop' = "pushed"
  /\ inFlight' = <<>>
  /\ UNCHANGED <<ringVars, send_new_segment, is_flushing, is_eos, srcresult,
                 loopTask, src, segStop, ctl, padVars, down>>

(* The result of the push goes into srcresult, unless a flush is under way.    *)
LoopResult ==
  /\ loop = "pushed"
  /\ LET takes == srcresult = "OK" \/ loopResult # "OK"
         result == IF takes THEN loopResult ELSE srcresult
     IN /\ srcresult' = result
        /\ loopResult' = result
        /\ loop' = IF result = "OK" THEN "idle" ELSE "last"
  /\ UNCHANGED <<ringVars, send_new_segment, is_flushing, is_eos, loopTask,
                 inFlight, src, segStop, ctl, padVars, down>>

LoopLast ==
  /\ loop = "last"
  /\ loopTask' = IF ~is_flushing /\ loopTask = "started" THEN "paused" ELSE loopTask
  /\ loop' = "idle"
  /\ UNCHANGED <<ringVars, send_new_segment, is_flushing, is_eos, srcresult,
                 loopResult, inFlight, src, segStop, ctl, padVars, down>>

LoopStep == LoopWait \/ LoopEos \/ LoopStop \/ LoopRead \/ LoopPush \/ LoopResult \/ LoopLast

----------------------------------------------------------------------------
(* hls_progress_buffer_sink_event and hls_progress_buffer_chain, called by the *)
(* upstream thread.  src = "end" is the return to the caller.                   *)

(* SEGMENT, first critical section: dropped unless the element is running.     *)
SegmentCheck ==
  /\ src = "seg_check"
  /\ src' = IF srcresult = "OK" THEN "seg_open" ELSE "end"
  /\ UNCHANGED <<ringVars, send_new_segment, is_flushing, is_eos, srcresult, loopVars,
                 segStop, ctl, padVars, down>>

(* SEGMENT, without the lock: leave the end of stream, announce the segment     *)
(* downstream.  An empty segment is reported as an error and claims no slot.     *)
SegmentOpen ==
  /\ src = "seg_open"
  /\ is_eos' = FALSE
  /\ srcresult' = IF is_eos THEN "OK" ELSE srcresult
  /\ loopTask' = IF is_eos /\ loopTask # "stopped" THEN "started" ELSE loopTask
  /\ IF segStop = 0
     THEN src' = "end" /\ UNCHANGED <<send_new_segment, down>>
     ELSE /\ send_new_segment' = FALSE
          /\ down' = [down EXCEPT !.segment = @ \/ (send_new_segment /\ ~down.flushing)]
          /\ src' = "seg_slot"
  /\ UNCHANGED <<ringVars, is_flushing, loop, loopResult, inFlight, segStop, ctl, padVars>>

Claim(i) == slot' = [slot EXCEPT ![i] = [size |-> segStop, ready |-> FALSE, rd |-> 0, data |-> <<>>]]

(* SEGMENT, second critical section: claim the next slot or, while it has not  *)
(* been read, go and tell the player that the ring is full.                     *)
\* Variant: the slot is claimed whether or not it has been read.
SegmentSlotAlways ==
  LET i == (cache_write_index + 1) % NUM_OF_CACHED_SEGMENTS
  IN /\ src = "seg_slot"
     /\ cache_write_index' = i
     /\ Claim(i) /\ src' = "end"
     /\ UNCHANGED <<cache_read_index, send_new_segment, is_flushing, is_eos, srcresult,
                    loopVars, segStop, ctl, padVars, down>>

SegmentSlot ==
  LET i == (cache_write_index + 1) % NUM_OF_CACHED_SEGMENTS
  IN /\ src = "seg_slot"
     /\ cache_write_index' = i
     /\ IF srcresult = "OK" /\ ~slot[i].ready
        THEN src' = "full" /\ UNCHANGED slot
        ELSE Claim(i) /\ src' = "end"
     /\ UNCHANGED <<cache_read_index, send_new_segment, is_flushing, is_eos, srcresult,
                    loopVars, segStop, ctl, padVars, down>>

(* The FULL message is posted without the lock; then g_cond_wait on del_cond.  *)
SegmentFull ==
  /\ src = "full"
  /\ src' = "wait"
  /\ UNCHANGED <<ringVars, send_new_segment, is_flushing, is_eos, srcresult, loopVars,
                 segStop, ctl, padVars, down>>

SegmentWoken ==
  /\ src = "woken"
  /\ IF srcresult = "OK" /\ ~slot[cache_write_index].ready
     THEN src' = "full" /\ UNCHANGED slot
     ELSE /\ src' = "end"
          /\ IF srcresult = "OK" THEN Claim(cache_write_index) ELSE UNCHANGED slot
  /\ UNCHANGED <<cache_write_index, cache_read_index, send_new_segment, is_flushing,
                 is_eos, srcresult, loopVars, segStop, ctl, padVars, down>>

SegmentStep == SegmentCheck \/ SegmentOpen \/ SegmentSlot \/ SegmentFull \/ SegmentWoken

(* EOS; the pad refuses everything that comes after it until it is flushed.    *)
EosEvent ==
  /\ src = "eos"
  /\ IF sinkFlushing \/ sinkEos
     THEN UNCHANGED <<is_eos, sinkEos, loop>>
     ELSE is_eos' = TRUE /\ sinkEos' = TRUE /\ SignalAdd
  /\ src' = "end"
  /\ UNCHANGED <<ringVars, send_new_segment, is_flushing, srcresult, loopTask, loopResult,
                 inFlight, segStop, ctl, sinkFlushing, down>>

(* hls_progress_buffer_chain, after its first test: the block goes into the    *)
(* slot being written.  cache[-1] is no slot; of the outcomes of that write the  *)
(* model has the one that leaves the ring alone.                                  *)
Written(block) ==
  [i \in Slots |-> IF i = cache_write_index THEN [slot[i] EXCEPT !.data = Append(@, block)]
                                            ELSE slot[i]]

\* Variant: the loop is not told that there are new data.
ChainMute(block) ==
  /\ src = "chain"
  /\ slot' = IF srcresult # "FLUSHING" THEN Written(block) ELSE slot
  /\ src' = "end"
  /\ UNCHANGED <<cache_write_index, cache_read_index, send_new_segment, is_flushing,
                 is_eos, srcresult, loopVars, segStop, ctl, padVars, down>>

Chain(block) ==
  /\ src = "chain"
  /\ IF srcresult # "FLUSHING"
     THEN slot' = Written(block) /\ SignalAdd
     ELSE UNCHANGED <<slot, loop>>
  /\ src' = "end"
  /\ UNCHANGED <<cache_write_index, cache_read_index, send_new_segment, is_flushing,
                 is_eos, srcresult, loopTask, loopResult, inFlight, segStop, ctl, padVars,
                 down>>

----------------------------------------------------------------------------
(* FLUSH_START on the thread of a seek.                                        *)
FlushStart ==
  /\ ctl = "start"
  /\ sinkFlushing' = TRUE
  /\ is_flushing' = TRUE
  /\ ctl' = "flush_down"
  /\ UNCHANGED <<ringVars, send_new_segment, is_eos, srcresult, loopVars, src, segStop,
                 sinkEos, down>>

FlushDown ==
  /\ ctl = "flush_down"
  /\ down' = [down EXCEPT !.flushing = TRUE]
  /\ ctl' = "flush_data"
  /\ UNCHANGED <<ringVars, send_new_segment, is_flushing, is_eos, srcresult, loopVars,
                 src, segStop, padVars>>

(* hls_progress_buffer_flush_data: everything is dropped and both waiting      *)
(* threads are woken.                                                           *)
\* Variant: the element goes on as if it was not flushed.
FlushDataOpen ==
  /\ UNCHANGED srcresult
  /\ SignalAdd
  /\ SignalDel
  /\ cache_write_index' = -1
  /\ cache_read_index' = 0
  /\ slot' = [i \in Slots |-> EmptySlot]

\* Variant: only the loop is woken.
FlushDataHalf ==
  /\ srcresult' = "FLUSHING"
  /\ SignalAdd
  /\ UNCHANGED src
  /\ cache_write_index' = -1
  /\ cache_read_index' = 0
  /\ slot' = [i \in Slots |-> EmptySlot]

FlushData ==
  /\ srcresult' = "FLUSHING"
  /\ SignalAdd
  /\ SignalDel
  /\ cache_write_index' = -1
  /\ cache_read_index' = 0
  /\ slot' = [i \in Slots |-> EmptySlot]

FlushReset ==
  /\ ctl = "flush_data"
  /\ FlushData
  /\ ctl' = "flush_pause"
  /\ UNCHANGED <<send_new_segment, is_flushing, is_eos, loopTask, loopResult, inFlight,
                 segStop, padVars, down>>

(* gst_pad_pause_task: no further iteration, then wait for the present one.    *)
FlushPause ==
  /\ ctl = "flush_pause"
  /\ loopTask' = "paused"
  /\ ctl' = "flush_join"
  /\ UNCHANGED <<ringVars, send_new_segment, is_flushing, is_eos, srcresult, loop,
                 loopResult, inFlight, src, segStop, padVars, down>>

FlushJoin ==
  /\ ctl = "flush_join"
  /\ loop = "idle"
  /\ ctl' = "flushed"
  /\ UNCHANGED <<ringVars, send_new_segment, is_flushing, is_eos, srcresult, loopVars,
                 src, segStop, padVars, down>>

(* FLUSH_STOP: downstream first, then the element runs again.  After an end of *)
(* stream the task is left to the next SEGMENT event.                           *)
\* Variant: the task is left as it is.
FlushStopPaused ==
  /\ down' = [flushing |-> FALSE, segment |-> FALSE, eos |-> FALSE]
  /\ sinkFlushing' = FALSE /\ sinkEos' = FALSE
  /\ send_new_segment' = TRUE
  /\ is_flushing' = FALSE
  /\ srcresult' = "OK"
  /\ UNCHANGED loopTask

FlushStop ==
  /\ down' = [flushing |-> FALSE, segment |-> FALSE, eos |-> FALSE]
  /\ sinkFlushing' = FALSE /\ sinkEos' = FALSE
  /\ send_new_segment' = TRUE
  /\ is_flushing' = FALSE
  /\ srcresult' = "OK"
  /\ loopTask' = IF is_eos THEN loopTask ELSE "started"

----------------------------------------------------------------------------
(* PAUSED to READY, which the player only does on its way to NULL: elements    *)
(* downstream are stopped first; then flush_data, then the pads.                *)
StopReset ==
  /\ ctl = "stop_data"
  /\ FlushData
  /\ ctl' = "stop_src"
  /\ UNCHANGED <<send_new_segment, is_flushing, is_eos, loopTask, loopResult, inFlight,
                 segStop, padVars, down>>

(* hls_progress_buffer_activatepush_src(FALSE), which ends in                  *)
(* gst_pad_stop_task.                                                           *)
StopSrcPad ==
  /\ ctl = "stop_src"
  /\ srcresult' = "FLUSHING"
  /\ SignalAdd
  /\ SignalDel
  /\ loopTask' = "stopped"
  /\ ctl' = "stop_join"
  /\ UNCHANGED <<ringVars, send_new_segment, is_flushing, is_eos, loopResult, inFlight,
                 segStop, padVars, down>>

(* The loop has ended; the sink pad is deactivated, which makes it flushing    *)
(* and waits until nobody is in its functions.                                  *)
StopSinkPad ==
  /\ ctl = "stop_join"
  /\ loop = "idle"
  /\ sinkFlushing' = TRUE
  /\ ctl' = "stop_sink"
  /\ UNCHANGED <<ringVars, send_new_segment, is_flushing, is_eos, srcresult, loopVars,
                 src, segStop, sinkEos, down>>

CtlStep == FlushStart \/ FlushDown \/ FlushReset \/ FlushPause \/ FlushJoin
           \/ StopReset \/ StopSrcPad \/ StopSinkPad

----------------------------------------------------------------------------
SrcPlaces == {"idle", "stream", "size", "segment", "seg_check", "seg_open", "seg_slot",
              "full", "wait", "woken", "read", "push", "chain", "eos", "end"}
InSinkPad == {"seg_check", "seg_open", "seg_slot", "full", "wait", "woken", "chain"}
CtlPlaces == {"idle", "start", "flush_down", "flush_data", "flush_pause", "flush_join",
              "flushed", "lock", "resume", "stop_data", "stop_src", "stop_join",
              "stop_sink", "stop_task", "null"}
Flows == {"OK", "FLUSHING", "ERROR"}
==============================================================================
