-------------------------------- MODULE HLSStream --------------------------------
(* HTTP live streaming: the Java source element (javasource.c, in HLS mode)     *)
(* feeding the HLS progress buffer.  The thread src runs java_source_loop and,  *)
(* from there, the functions of the buffer's sink pad; ctl runs                 *)
(* java_source_perform_seek or the shutdown of the pipeline.                    *)
(*                                                                              *)
(* A block of the stream is its number since the last seek.  The Java side      *)
(* (HLSConnectionHolder) is a playlist with so many segments left, each with a  *)
(* size and so many blocks left to read.                                        *)
EXTENDS HLSProgressBuffer

CONSTANTS
  SegmentSizes,   \* sizes of segments, in blocks
  MaxSegments,    \* bound: segments from a seek to the end of the playlist
  MaxSeeks,       \* bound: number of seeks
  ConnectionFails,\* whether a segment may fail to open or end before its size
  SeekResults     \* what SEEK_DATA may answer: TRUE for new_position >= 0

ASSUME StreamAssumption ==
  /\ SegmentSizes \subseteq Nat
  /\ MaxSegments \in Nat
  /\ MaxSeeks \in Nat
  /\ ConnectionFails \in BOOLEAN
  /\ SeekResults \subseteq BOOLEAN

VARIABLES
  pending_event,  \* "STREAM_START", "SEGMENT", "EOS" or "UNKNOWN" (push blocks)
  java_result,    \* srcresult of the Java source
  result,         \* local variable of java_source_loop
  srcTask,        \* task of the source pad: started, paused, stopped
  playlist, left, \* segments left in the playlist, blocks left in the segment
  produced,       \* number of blocks read since the last seek
  accepted,       \* number of blocks accepted downstream since the last flush
  seeks,
  raced,          \* a signal was lost on the upstream thread
  short,          \* a segment has ended early
  loadFailed,     \* a segment could not be loaded
  seekFailed      \* SEEK_DATA has failed

javaVars == <<pending_event, java_result, result, srcTask, playlist, left, produced>>
histVars == <<accepted, seeks, raced, short, loadFailed, seekFailed>>
bufVars == <<ringVars, send_new_segment, is_flushing, is_eos, srcresult, loopVars,
             src, segStop, ctl, padVars, down>>
vars == <<bufVars, javaVars, histVars>>

Init ==
  /\ BufferInit
  /\ pending_event = "STREAM_START"
  /\ java_result = "OK" /\ result = "OK" /\ srcTask = "started"
  /\ playlist = MaxSegments /\ left = 0 /\ produced = 0
  /\ accepted = 0 /\ seeks = 0 /\ raced = FALSE /\ short = FALSE
  /\ loadFailed = FALSE /\ seekFailed = FALSE

----------------------------------------------------------------------------
(* java_source_loop.                                                           *)

(* The task starts a call unless the seek holds the lock of the pad's stream.  *)
LoopCall ==
  /\ src = "idle"
  /\ srcTask = "started" /\ ctl # "resume"
  /\ result' = java_result
  /\ src' = IF java_result # "OK" THEN "end"
            ELSE CASE pending_event = "STREAM_START" -> "stream"
                   [] pending_event = "SEGMENT" -> "size"
                   [] pending_event = "EOS" -> "eos"
                   [] OTHER -> "read"
  /\ UNCHANGED <<ringVars, send_new_segment, is_flushing, is_eos, srcresult, loopVars,
                 segStop, ctl, padVars, down, pending_event, java_result, srcTask,
                 playlist, left, produced, histVars>>

(* STREAM_START passes through the buffer.                                     *)
PushStreamStart ==
  /\ src = "stream"
  /\ result' = IF sinkFlushing \/ down.flushing THEN "FLUSHING" ELSE "OK"
  /\ pending_event' = "SEGMENT"
  /\ src' = "end"
  /\ UNCHANGED <<ringVars, send_new_segment, is_flushing, is_eos, srcresult, loopVars,
                 segStop, ctl, padVars, down, java_result, srcTask, playlist, left,
                 produced, histVars>>

(* SIGNAL_GET_STREAM_SIZE loads the next segment.  It answers -1 if there is    *)
(* none, but also if the segment cannot be opened or has no Content-Length; the  *)
(* source takes any -1 for the end of stream.  The answer is used only if no      *)
(* seek has come in the meantime.                                                 *)
NextSegment ==
  /\ src = "size"
  /\ playlist > 0
  /\ playlist' = playlist - 1
  /\ \E size \in SegmentSizes : segStop' = size /\ left' = size
  /\ src' = IF java_result = "FLUSHING" THEN "end" ELSE "segment"
  /\ UNCHANGED <<ringVars, send_new_segment, is_flushing, is_eos, srcresult, loopVars,
                 ctl, padVars, down, pending_event, java_result, result, srcTask,
                 produced, histVars>>

NoSegment ==
  IF java_result = "FLUSHING"
  THEN src' = "end" /\ UNCHANGED pending_event
  ELSE src' = "eos" /\ pending_event' = "EOS"

LastSegment ==
  /\ src = "size"
  /\ playlist = 0
  /\ NoSegment
  /\ UNCHANGED <<ringVars, send_new_segment, is_flushing, is_eos, srcresult, loopVars,
                 segStop, ctl, padVars, down, java_result, result, srcTask, playlist,
                 left, produced, histVars>>

LoadFails ==
  /\ src = "size"
  /\ playlist > 0 /\ ConnectionFails
  /\ playlist' = playlist - 1
  /\ left' = 0
  /\ loadFailed' = TRUE
  /\ NoSegment
  /\ UNCHANGED <<ringVars, send_new_segment, is_flushing, is_eos, srcresult, loopVars,
                 segStop, ctl, padVars, down, java_result, result, srcTask, produced,
                 accepted, seeks, raced, short, seekFailed>>

(* gst_pad_push_event of the SEGMENT: the pad refuses it or calls the buffer.  *)
PushSegment ==
  /\ src = "segment"
  /\ IF sinkFlushing \/ sinkEos
     THEN src' = "end" /\ result' = "FLUSHING" /\ pending_event' = "UNKNOWN"
     ELSE src' = "seg_check" /\ UNCHANGED <<result, pending_event>>
  /\ UNCHANGED <<ringVars, send_new_segment, is_flushing, is_eos, srcresult, loopVars,
                 segStop, ctl, padVars, down, java_result, srcTask, playlist, left,
                 produced, histVars>>

(* The buffer's handler.  It returns FALSE if the announcement downstream was  *)
(* refused, except where it returns early.                                      *)
HandleSegment ==
  /\ SegmentStep
  /\ result' = CASE src' = "seg_slot" /\ send_new_segment /\ down.flushing -> "FLUSHING"
                 [] src = "woken" /\ srcresult # "OK" -> "OK"
                 [] OTHER -> result
  /\ pending_event' = IF src' = "end" THEN "UNKNOWN" ELSE pending_event
  /\ UNCHANGED <<java_result, srcTask, playlist, left, produced, histVars>>

PushEos ==
  /\ EosEvent
  /\ result' = "EOS"
  /\ UNCHANGED <<pending_event, java_result, srcTask, playlist, left, produced, histVars>>

(* SIGNAL_READ_NEXT_BLOCK: a block, the end of the segment, or an error.       *)
ReadBlock ==
  /\ src = "read"
  /\ left > 0
  /\ left' = left - 1
  /\ produced' = produced + 1
  /\ src' = "push"
  /\ UNCHANGED <<ringVars, send_new_segment, is_flushing, is_eos, srcresult, loopVars,
                 segStop, ctl, padVars, down, pending_event, java_result, result, srcTask,
                 playlist, histVars>>

ReadEnd ==
  /\ src = "read"
  /\ left = 0 \/ ConnectionFails
  /\ short' = (short \/ left > 0)
  /\ left' = 0
  /\ pending_event' = "SEGMENT"
  /\ src' = "size"
  /\ UNCHANGED <<ringVars, send_new_segment, is_flushing, is_eos, srcresult, loopVars,
                 segStop, ctl, padVars, down, java_result, result, srcTask, playlist,
                 produced, accepted, seeks, raced, loadFailed, seekFailed>>

ReadError ==
  /\ src = "read"
  /\ ConnectionFails
  /\ short' = TRUE
  /\ result' = "FLUSHING"
  /\ src' = "end"
  /\ UNCHANGED <<ringVars, send_new_segment, is_flushing, is_eos, srcresult, loopVars,
                 segStop, ctl, padVars, down, pending_event, java_result, srcTask,
                 playlist, left, produced, accepted, seeks, raced, loadFailed, seekFailed>>

(* gst_pad_push: refused by the pad or by the first test of chain, which is    *)
(* made without the lock.  After GST_FLOW_EOS the source goes on to EOS.        *)
PushBlock ==
  /\ src = "push"
  /\ IF sinkEos /\ ~sinkFlushing
     THEN src' = "eos" /\ pending_event' = "EOS" /\ UNCHANGED result
     ELSE /\ UNCHANGED pending_event
          /\ IF sinkFlushing \/ is_flushing \/ is_eos
             THEN src' = "end" /\ result' = "FLUSHING"
             ELSE src' = "chain" /\ UNCHANGED result
  /\ UNCHANGED <<ringVars, send_new_segment, is_flushing, is_eos, srcresult, loopVars,
                 segStop, ctl, padVars, down, java_result, srcTask, playlist, left,
                 produced, histVars>>

HandleBlock ==
  /\ Chain(produced)
  /\ UNCHANGED <<javaVars, histVars>>

(* The end of the call: the result goes into srcresult unless a seek is under  *)
(* way; anything but OK pauses the task.                                        *)
LoopReturn ==
  /\ src = "end"
  /\ LET takes == java_result = "OK" \/ result # "OK"
         r == IF takes THEN result ELSE java_result
     IN /\ java_result' = r
        /\ srcTask' = IF r # "OK" /\ srcTask = "started" THEN "paused" ELSE srcTask
  /\ result' = "OK"
  /\ src' = "idle"
  /\ UNCHANGED <<ringVars, send_new_segment, is_flushing, is_eos, srcresult, loopVars,
                 segStop, ctl, padVars, down, pending_event, playlist, left, produced,
                 histVars>>

SrcStep == LoopCall \/ PushStreamStart \/ NextSegment \/ LastSegment \/ LoadFails
           \/ PushSegment \/ HandleSegment \/ PushEos \/ ReadBlock \/ ReadEnd \/ ReadError
           \/ PushBlock \/ HandleBlock \/ LoopReturn

----------------------------------------------------------------------------
(* The buffer's own task; raced records that the last slot was handed back, with *)
(* the last signal, while the upstream thread was on its way to wait for one.     *)
BufferStep ==
  /\ LoopStep
  /\ accepted' = IF loop = "push" /\ loopResult' = "OK" THEN accepted + Len(inFlight) ELSE accepted
  /\ raced' = (raced \/ (src = "full" /\ \A i \in Slots : slot'[i].ready))
  /\ UNCHANGED <<javaVars, seeks, short, loadFailed, seekFailed>>

----------------------------------------------------------------------------
(* java_source_perform_seek with GST_SEEK_FLAG_FLUSH.                          *)
SeekBegin ==
  /\ ctl = "idle"
  /\ seeks < MaxSeeks
  /\ seeks' = seeks + 1
  /\ ctl' = "start"
  /\ UNCHANGED <<ringVars, send_new_segment, is_flushing, is_eos, srcresult, loopVars,
                 src, segStop, padVars, down, javaVars, accepted, raced, short,
                 loadFailed, seekFailed>>

(* Where the upstream thread is in the SEGMENT handler without holding its     *)
(* lock, past the test of srcresult.                                            *)
Unlocked == src \in {"seg_open", "seg_slot", "full"}

(* The steps of the buffer's handlers; raced records that the last signal for  *)
(* the upstream thread was sent while it was on its way to wait.                *)
FlushStep ==
  /\ CtlStep
  /\ raced' = (raced \/ (Unlocked /\ ctl \in {"flush_data", "stop_src"}))
  /\ UNCHANGED <<javaVars, accepted, seeks, short, loadFailed, seekFailed>>

SeekFlushing ==
  /\ ctl = "flushed"
  /\ java_result' = "FLUSHING"
  /\ ctl' = "lock"
  /\ UNCHANGED <<ringVars, send_new_segment, is_flushing, is_eos, srcresult, loopVars,
                 src, segStop, padVars, down, pending_event, result, srcTask, playlist,
                 left, produced, histVars>>

(* GST_PAD_STREAM_LOCK waits for java_source_loop to return; SIGNAL_SEEK_DATA  *)
(* goes to another segment, or stays where it is for a seek to the duration.    *)
SeekData ==
  /\ ctl = "lock"
  /\ src = "idle"
  /\ \E ok \in SeekResults :
       /\ seekFailed' = (seekFailed \/ ~ok)
       /\ IF ok
          THEN /\ pending_event' = "SEGMENT"
               /\ playlist' \in (1 .. MaxSegments) \cup {playlist}
               /\ left' = 0 /\ produced' = 0
          ELSE UNCHANGED <<pending_event, playlist, left, produced>>
  /\ java_result' = "OK"
  /\ ctl' = "resume"
  /\ UNCHANGED <<ringVars, send_new_segment, is_flushing, is_eos, srcresult, loopVars,
                 src, segStop, padVars, down, result, srcTask, accepted, seeks, raced, short,
                 loadFailed>>

(* FLUSH_STOP and the start of the task.                                       *)
SeekResume ==
  /\ ctl = "resume"
  /\ FlushStop
  /\ srcTask' = "started"
  /\ ctl' = "idle"
  /\ accepted' = 0
  /\ short' = FALSE /\ loadFailed' = FALSE
  /\ UNCHANGED <<ringVars, is_eos, loop, loopResult, inFlight, src, segStop,
                 pending_event, java_result, result, playlist, left, produced, seeks,
                 raced, seekFailed>>

----------------------------------------------------------------------------
(* Shutdown: elements from the sinks upwards.                                  *)
StopBegin ==
  /\ ctl = "idle"
  /\ down' = [down EXCEPT !.flushing = TRUE]
  /\ ctl' = "stop_data"
  /\ UNCHANGED <<ringVars, send_new_segment, is_flushing, is_eos, srcresult, loopVars,
                 src, segStop, padVars, javaVars, histVars>>

(* java_source_activatemode(FALSE), once the sink pad of the buffer is free.   *)
StopSource ==
  /\ ctl = "stop_sink"
  /\ src \notin InSinkPad
  /\ java_result' = "FLUSHING"
  /\ srcTask' = "stopped"
  /\ ctl' = "stop_task"
  /\ UNCHANGED <<ringVars, send_new_segment, is_flushing, is_eos, srcresult, loopVars,
                 src, segStop, padVars, down, pending_event, result, playlist, left,
                 produced, histVars>>

StopEnd ==
  /\ ctl = "stop_task"
  /\ src = "idle"
  /\ ctl' = "null"
  /\ UNCHANGED <<ringVars, send_new_segment, is_flushing, is_eos, srcresult, loopVars,
                 src, segStop, padVars, down, javaVars, histVars>>

ControlStep == FlushStep \/ SeekFlushing \/ SeekData \/ SeekResume \/ StopSource \/ StopEnd

Next == SrcStep \/ BufferStep \/ ControlStep \/ SeekBegin \/ StopBegin

Spec == Init /\ [][Next]_vars

(* The threads run; the connection delivers; downstream takes what it is given *)
(* or is flushed.  Seeks and the shutdown need not happen.                      *)
Fairness == WF_vars(SrcStep) /\ WF_vars(BufferStep) /\ WF_vars(ControlStep)

FairSpec == Spec /\ Fairness

----------------------------------------------------------------------------
(* Types of the variables.                                                     *)
Slot == [size : Nat, ready : BOOLEAN, rd : Nat, data : Seq(Nat)]

TypeOK ==
  /\ slot \in [Slots -> Slot]
  /\ cache_write_index \in Slots \cup {-1}
  /\ cache_read_index \in Slots
  /\ send_new_segment \in BOOLEAN /\ is_flushing \in BOOLEAN /\ is_eos \in BOOLEAN
  /\ srcresult \in Flows /\ loopResult \in Flows
  /\ loop \in {"idle", "wait", "woken", "push", "pushed", "last"}
  /\ loopTask \in {"started", "paused", "stopped"}
  /\ inFlight \in Seq(Nat)
  /\ src \in SrcPlaces /\ segStop \in Nat
  /\ ctl \in CtlPlaces
  /\ sinkFlushing \in BOOLEAN /\ sinkEos \in BOOLEAN
  /\ down \in [flushing : BOOLEAN, segment : BOOLEAN, eos : BOOLEAN]
  /\ pending_event \in {"STREAM_START", "SEGMENT", "EOS", "UNKNOWN"}
  /\ java_result \in Flows \cup {"EOS"} /\ result \in Flows \cup {"EOS"}
  /\ srcTask \in {"started", "paused", "stopped"}
  /\ playlist \in Nat /\ left \in Nat /\ produced \in Nat /\ accepted \in Nat
  /\ seeks \in Nat /\ raced \in BOOLEAN /\ short \in BOOLEAN
  /\ loadFailed \in BOOLEAN /\ seekFailed \in BOOLEAN

(* The stream is delivered in order: a buffer on its way downstream, unless it *)
(* is going to be refused, starts with the block after the last accepted one    *)
(* and has no gap; a segment was announced before it and no end of stream was.  *)
(* Blocks of before a seek never come after it, unless SEEK_DATA fails: then     *)
(* the Java side goes on where it was, with an empty ring.                        *)
InOrder ==
  loop = "push" /\ ~down.flushing /\ ~seekFailed =>
    /\ \A k \in 1 .. Len(inFlight) : inFlight[k] = accepted + k
    /\ down.segment
    /\ ~down.eos

(* The upstream thread writes to cache[-1], in chain or back from waiting for a  *)
(* free slot, in two cases only: SEEK_DATA has failed, so that blocks follow a     *)
(* flush without a SEGMENT event, or the error of a push has replaced the FLUSHING  *)
(* of the flush or shutdown that is under way.                                       *)
Emptied == ctl \notin {"idle", "start", "flush_down", "flush_data", "stop_data"}

WriteIndexValid ==
  cache_write_index = -1 =>
    /\ src = "chain" /\ srcresult # "FLUSHING" => seekFailed \/ (srcresult = "ERROR" /\ Emptied)
    /\ src = "woken" => srcresult # "OK"

(* The end of stream comes last: when it has been pushed, every block that was *)
(* read has been accepted, and the playlist was at its end or a segment of it   *)
(* could not be loaded.                                                          *)
Disturbed == raced \/ short \/ seekFailed \/ srcresult = "ERROR" \/ ctl # "idle"

AtEnd == playlist = 0 \/ loadFailed

EosIsLast ==
  down.eos /\ ~Disturbed => accepted = produced /\ AtEnd /\ left = 0

(* While the element is running and no seek or shutdown is under way, its task *)
(* has not been left paused: whoever pauses it also leaves the OK state, or     *)
(* starts it again (FLUSH_STOP, or the SEGMENT that ends an end of stream).     *)
TaskRuns ==
  ctl = "idle" /\ srcresult = "OK" /\ ~is_eos => loopTask = "started"

(* A seek and a shutdown come to their end: every thread they wait for leaves  *)
(* the function it is in, even if it waits for data or for a free slot.         *)
ControlReturns == (ctl # "idle") ~> (ctl \in {"idle", "null"} \/ raced)

(* The same without the exception: what a caller of seek and dispose expects.  *)
SeekReturns == (ctl # "idle") ~> (ctl \in {"idle", "null"})

(* Whatever is in the playlist is delivered, up to a segment that cannot be       *)
(* loaded, and then the end of stream, unless a seek or a shutdown comes first,    *)
(* the connection breaks in a segment, downstream fails or a seek at the end of    *)
(* stream has left nothing to deliver.                                              *)
PlaysToTheEnd ==
  (ctl = "idle") ~> \/ down.eos /\ accepted = produced /\ AtEnd
                    \/ Disturbed
                    \/ produced = 0 /\ AtEnd
==============================================================================
