-------------------------------- MODULE HLSProofs --------------------------------
(* Proofs about HLSStream, for every number of slots and every playlist: its     *)
(* types, in which two cases the write index is not valid when it is used         *)
(* (WriteIndexValid), and that the reader task is not left paused (TaskRuns).      *)
(* Neither of the two is inductive; the two invariants below say where the          *)
(* threads may be when the ring has just been reset, or the task has just been      *)
(* stopped.                                                                       *)
EXTENDS HLSStream, SequenceTheorems, TLAPS

(* From flush_data on, until FLUSH_STOP.                                         *)
Reset == {"flush_pause", "flush_join", "flushed", "lock", "resume"}
(* The part of it in which the reader task is paused.                            *)
Halted == {"flush_join", "flushed", "lock", "resume"}
(* The part of it after its last iteration has ended.                            *)
Joined == {"flushed", "lock", "resume"}
Stopping == {"stop_join", "stop_sink", "stop_task", "null"}

(* Index -1: the ring is empty, so that no push can fail but one that began before *)
(* the ring was reset, and nobody waits for a slot.  Unless SEEK_DATA has failed   *)
(* nobody writes either, and the next block is preceded by a SEGMENT event.         *)
IndexInv ==
  /\ cache_write_index = -1 =>
       /\ \A i \in Slots : slot[i].data = <<>>
       /\ ~Emptied => loop \notin {"push", "pushed"} /\ srcresult # "ERROR"
       /\ srcresult = "OK" => src \notin {"full", "wait", "woken"}
  /\ cache_write_index = -1 /\ srcresult = "OK" /\ ~seekFailed =>
       /\ src \notin {"push", "chain"} /\ (src = "read" => left = 0)
       /\ pending_event = "UNKNOWN" => \/ left = 0
                                       \/ src = "end" /\ result = "FLUSHING"
                                       \/ src = "idle" /\ srcTask # "started"
  /\ ctl = "resume" => src = "idle" /\ (pending_event = "SEGMENT" \/ seekFailed)
  /\ src \in {"size", "segment", "seg_check", "seg_open", "seg_slot", "full", "wait", "woken"}
       => pending_event = "SEGMENT"
  /\ src \in {"segment", "seg_check", "seg_open"} => left = segStop

(* Who is where while the task is paused by a flush.                             *)
TaskInv ==
  /\ TaskRuns
  /\ ctl \notin Stopping => loopTask # "stopped"
  /\ ctl = "idle" /\ loop = "last" => srcresult # "OK"
  /\ src \in InSinkPad => ~sinkEos
  /\ is_eos /\ ~sinkEos => loop = "idle" /\ loopTask # "started"
  /\ ctl \in {"flush_down", "flush_data"} \cup Reset => sinkFlushing
  /\ ctl \in Reset => \A i \in Slots : slot[i].data = <<>>
  /\ ctl \in Reset /\ src = "chain" => cache_write_index = -1
  /\ ctl \in Halted /\ loopTask = "started"
       => srcresult = "OK" /\ ~is_eos /\ loop \in {"idle", "wait"} /\ src # "chain"
  /\ ctl \in Joined /\ loopTask # "started" => loop = "idle"

----------------------------------------------------------------------------------
USE HLSAssumption, StreamAssumption
USE DEF ringVars, loopVars, padVars, javaVars, histVars

(* What the actions store in the ring and in down is of their types.             *)
LEMMA NextSlot == \A k \in Slots \cup {-1} : (k + 1) % NUM_OF_CACHED_SEGMENTS \in Slots
BY DEF Slots

LEMMA SlotValues ==
  /\ EmptySlot \in Slot
  /\ \A n \in Nat : [size |-> n, ready |-> FALSE, rd |-> 0, data |-> <<>>] \in Slot
  /\ \A s \in Slot, block \in Nat : [s EXCEPT !.data = Append(@, block)] \in Slot
<1>1. EmptySlot \in Slot
  BY DEF Slot, EmptySlot
<1>2. ASSUME NEW n \in Nat
      PROVE  [size |-> n, ready |-> FALSE, rd |-> 0, data |-> <<>>] \in Slot
  BY DEF Slot
<1>3. ASSUME NEW s \in Slot, NEW block \in Nat
      PROVE  [s EXCEPT !.data = Append(@, block)] \in Slot
  <2>1. Append(s.data, block) \in Seq(Nat)
    BY <1>3 DEF Slot
  <2>. QED
    BY <1>3, <2>1, Zenon DEF Slot
<1>. QED
  BY <1>1, <1>2, <1>3

LEMMA SlotRead ==
  ASSUME NEW s \in Slot, NEW r \in Nat, NEW b \in BOOLEAN
  PROVE  [s EXCEPT !.rd = r, !.ready = b] \in Slot
BY Zenon DEF Slot

Down == [flushing : BOOLEAN, segment : BOOLEAN, eos : BOOLEAN]

LEMMA DownValues ==
  ASSUME NEW d \in Down, NEW b \in BOOLEAN
  PROVE  /\ [d EXCEPT !.flushing = b] \in Down
         /\ [d EXCEPT !.segment = b] \in Down
         /\ [d EXCEPT !.eos = b] \in Down
         /\ [flushing |-> FALSE, segment |-> FALSE, eos |-> FALSE] \in Down
BY Zenon DEF Down

LEMMA DownBits ==
  ASSUME NEW d \in Down, NEW b \in BOOLEAN
  PROVE  /\ (d.eos \/ ~d.flushing) \in BOOLEAN
         /\ (d.segment \/ (b /\ ~d.flushing)) \in BOOLEAN
BY DEF Down

LEMMA TypesStep == TypeOK /\ [Next]_vars => TypeOK'
<1>. SUFFICES ASSUME TypeOK, [Next]_vars PROVE TypeOK'
  OBVIOUS
<1>1. Next \/ UNCHANGED vars
  OBVIOUS
<1>. QED
  <2>1. CASE LoopCall
    BY <2>1 DEF TypeOK, SrcPlaces, CtlPlaces, Flows, LoopCall
  <2>2. CASE PushStreamStart
    BY <2>2 DEF TypeOK, SrcPlaces, CtlPlaces, Flows, PushStreamStart
  <2>3. CASE NextSegment
    BY <2>3 DEF TypeOK, SrcPlaces, CtlPlaces, Flows, NextSegment
  <2>4. CASE LastSegment
    BY <2>4 DEF TypeOK, SrcPlaces, CtlPlaces, Flows, LastSegment, NoSegment
  <2>5. CASE PushSegment
    BY <2>5 DEF TypeOK, SrcPlaces, CtlPlaces, Flows, PushSegment
  <2>6. CASE PushEos
    <3>1. loop' \in {"idle", "wait", "woken", "push", "pushed", "last"}
      BY <2>6 DEF TypeOK, PushEos, EosEvent, SignalAdd
    <3>2. is_eos' \in BOOLEAN /\ sinkEos' \in BOOLEAN
      BY <2>6 DEF TypeOK, PushEos, EosEvent
    <3>. QED
      BY <3>1, <3>2, <2>6 DEF TypeOK, SrcPlaces, Flows, PushEos, EosEvent
  <2>7. CASE ReadBlock
    BY <2>7 DEF TypeOK, SrcPlaces, CtlPlaces, Flows, ReadBlock
  <2>8. CASE ReadEnd
    BY <2>8 DEF TypeOK, SrcPlaces, CtlPlaces, Flows, ReadEnd
  <2>9. CASE ReadError
    BY <2>9 DEF TypeOK, SrcPlaces, CtlPlaces, Flows, ReadError
  <2>10. CASE PushBlock
    BY <2>10 DEF TypeOK, SrcPlaces, CtlPlaces, Flows, PushBlock
  <2>11. CASE HandleBlock
    <3>1. slot' \in [Slots -> Slot]
      <4>1. slot \in [Slots -> Slot] /\ produced \in Nat
        BY DEF TypeOK
      <4>2. Written(produced) \in [Slots -> Slot]
        BY <4>1, SlotValues DEF Written
      <4>3. slot' = Written(produced) \/ slot' = slot
        BY <2>11 DEF HandleBlock, Chain
      <4>. QED
        BY <4>1, <4>2, <4>3
    <3>2. loop' \in {"idle", "wait", "woken", "push", "pushed", "last"}
      BY <2>11 DEF TypeOK, HandleBlock, Chain, SignalAdd
    <3>3. src' \in SrcPlaces
      BY <2>11 DEF SrcPlaces, HandleBlock, Chain
    <3>4. UNCHANGED <<cache_write_index, cache_read_index, send_new_segment, is_flushing, is_eos,
                      srcresult, loopTask, loopResult, inFlight, segStop, ctl, padVars, down,
                      javaVars, histVars>>
      BY <2>11 DEF HandleBlock, Chain
    <3>. QED
      BY <3>1, <3>2, <3>3, <3>4 DEF TypeOK, padVars, javaVars, histVars
  <2>12. CASE LoopReturn
    BY <2>12 DEF TypeOK, SrcPlaces, CtlPlaces, Flows, LoopReturn
  <2>13. CASE HandleSegment /\ SegmentCheck
    BY <2>13 DEF TypeOK, SrcPlaces, CtlPlaces, Flows, SegmentCheck, HandleSegment
  <2>14. CASE HandleSegment /\ SegmentOpen
    <3>1. loopTask' \in {"started", "paused", "stopped"}
      BY <2>14 DEF TypeOK, SegmentOpen
    <3>2. srcresult' \in Flows
      BY <2>14 DEF TypeOK, Flows, SegmentOpen
    <3>3. send_new_segment' \in BOOLEAN /\ is_eos' \in BOOLEAN
      BY <2>14, Zenon DEF TypeOK, SegmentOpen
    <3>4. result' \in Flows \cup {"EOS"}
      BY <2>14 DEF TypeOK, Flows, HandleSegment
    <3>5. pending_event' \in {"STREAM_START", "SEGMENT", "EOS", "UNKNOWN"}
      BY <2>14 DEF TypeOK, HandleSegment
    <3>6. down' \in Down
      <4>1. CASE segStop = 0
        BY <2>14, <4>1 DEF TypeOK, Down, SegmentOpen
      <4>2. CASE segStop # 0
        BY DownValues, DownBits, <2>14, <4>2 DEF TypeOK, Down, SegmentOpen
      <4>. QED
        BY <4>1, <4>2
    <3>. QED
      BY <3>1, <3>2, <3>3, <3>4, <3>5, <3>6, <2>14 DEF TypeOK, SrcPlaces, CtlPlaces,
         Flows, Down, HandleSegment, SegmentOpen
  <2>15. CASE HandleSegment /\ SegmentSlot
    <3>1. cache_write_index' \in Slots
      BY NextSlot, <2>15 DEF TypeOK, SegmentSlot
    <3>2. slot' \in [Slots -> Slot]
      BY NextSlot, SlotValues, <2>15 DEF TypeOK, SegmentSlot, Claim
    <3>. QED
      BY <3>1, <3>2, <2>15 DEF TypeOK, SrcPlaces, CtlPlaces, Flows, Down, HandleSegment,
         SegmentSlot
  <2>16. CASE HandleSegment /\ SegmentFull
    BY <2>16 DEF TypeOK, SrcPlaces, CtlPlaces, Flows, SegmentFull, HandleSegment
  <2>17. CASE HandleSegment /\ SegmentWoken
    <3>1. slot' \in [Slots -> Slot]
      BY SlotValues, <2>17 DEF TypeOK, SegmentWoken, Claim
    <3>. QED
      BY <3>1, <2>17 DEF TypeOK, SrcPlaces, CtlPlaces, Flows, Down, HandleSegment,
         SegmentWoken
  <2>18. CASE BufferStep /\ LoopWait
    BY <2>18 DEF TypeOK, SrcPlaces, CtlPlaces, Flows, LoopWait, LoopEnter, BufferStep
  <2>19. CASE BufferStep /\ LoopEos
    <3>1. down' \in Down
      BY DownValues, DownBits, <2>19 DEF TypeOK, Down, LoopEos
    <3>. QED
      BY <3>1, <2>19 DEF TypeOK, SrcPlaces, CtlPlaces, Flows, Down, BufferStep, LoopEos,
         LoopEnter
  <2>20. CASE BufferStep /\ LoopStop
    BY <2>20 DEF TypeOK, SrcPlaces, CtlPlaces, Flows, LoopStop, LoopEnter, BufferStep
  <2>21. CASE BufferStep /\ LoopRead
    <3>. DEFINE s == slot[cache_read_index]
                n == Len(s.data)
                r == s.rd + ReadSize(s)
    <3>1. s \in Slot
      BY DEF TypeOK
    <3>2. n \in Nat /\ s.rd \in Nat /\ s.rd < n /\ s.size \in Nat
      BY <3>1, <2>21 DEF Slot, LoopRead, HasData
    <3>3. r \in Nat /\ s.rd < r /\ r <= n
      BY <3>2 DEF ReadSize
    <3>4. \A i \in s.rd + 1 .. r : s.data[i] \in Nat
      BY <3>1, <3>2, <3>3 DEF Slot
    <3>5. SubSeq(s.data, s.rd + 1, r) \in Seq(Nat)
      BY <3>2, <3>3, <3>4, SubSeqProperties
    <3>6. (s.ready \/ r = s.size) \in BOOLEAN
      BY <3>1 DEF Slot
    <3>7. [s EXCEPT !.rd = r, !.ready = @ \/ r = s.size] \in Slot
      BY <3>1, <3>3, <3>6, SlotRead
    <3>8. slot' \in [Slots -> Slot]
      <4>1. slot' = [slot EXCEPT ![cache_read_index] =
                       [s EXCEPT !.rd = r, !.ready = @ \/ r = s.size]]
        BY <2>21 DEF LoopRead
      <4>2. slot \in [Slots -> Slot]
        BY DEF TypeOK
      <4>. HIDE DEF s, r
      <4>. QED
        BY <3>7, <4>1, <4>2
    <3>9. cache_read_index' \in Slots
      BY NextSlot, <2>21 DEF TypeOK, LoopRead
    <3>10. inFlight' \in Seq(Nat)
      BY <3>5, <2>21 DEF LoopRead
    <3>11. raced' \in BOOLEAN
      BY <2>21 DEF BufferStep
    <3>12. src' \in SrcPlaces
      BY <2>21 DEF TypeOK, SrcPlaces, LoopRead, SignalDel
    <3>13. /\ loop' = "push" /\ accepted' = accepted
           /\ UNCHANGED <<cache_write_index, send_new_segment, is_flushing, is_eos, srcresult,
                          loopTask, loopResult, segStop, ctl, padVars, down, javaVars, seeks,
                          short, loadFailed, seekFailed>>
      BY <2>21 DEF BufferStep, LoopRead, LoopEnter
    <3>. HIDE DEF s, n, r
    <3>. QED
      BY <3>8, <3>9, <3>10, <3>11, <3>12, <3>13 DEF TypeOK, padVars, javaVars
  <2>22. CASE BufferStep /\ LoopPush
    BY <2>22 DEF TypeOK, SrcPlaces, CtlPlaces, Flows, LoopPush, BufferStep
  <2>23. CASE BufferStep /\ LoopResult
    BY <2>23 DEF TypeOK, SrcPlaces, CtlPlaces, Flows, LoopResult, BufferStep
  <2>24. CASE BufferStep /\ LoopLast
    BY <2>24 DEF TypeOK, SrcPlaces, CtlPlaces, Flows, LoopLast, BufferStep
  <2>25. CASE FlushStep /\ FlushStart
    BY <2>25 DEF TypeOK, SrcPlaces, CtlPlaces, Flows, FlushStart, FlushStep
  <2>26. CASE FlushStep /\ FlushDown
    <3>1. down' \in Down
      BY DownValues, <2>26 DEF TypeOK, Down, FlushDown
    <3>. QED
      BY <3>1, <2>26 DEF TypeOK, SrcPlaces, CtlPlaces, Flows, Down, FlushStep, FlushDown
  <2>27. CASE FlushStep /\ FlushReset
    <3>1. slot' \in [Slots -> Slot]
      BY SlotValues, <2>27 DEF TypeOK, FlushReset, FlushData
    <3>. QED
      BY <3>1, <2>27 DEF TypeOK, SrcPlaces, CtlPlaces, Flows, Down, FlushStep,
         FlushReset, FlushData, SignalAdd, SignalDel, Slots
  <2>28. CASE FlushStep /\ FlushPause
    BY <2>28 DEF TypeOK, SrcPlaces, CtlPlaces, Flows, FlushPause, FlushStep
  <2>29. CASE FlushStep /\ FlushJoin
    BY <2>29 DEF TypeOK, SrcPlaces, CtlPlaces, Flows, FlushJoin, FlushStep
  <2>30. CASE FlushStep /\ StopReset
    <3>1. slot' \in [Slots -> Slot]
      BY SlotValues, <2>30 DEF TypeOK, StopReset, FlushData
    <3>2. src' \in SrcPlaces /\ loop' \in {"idle", "wait", "woken", "push", "pushed", "last"}
      BY <2>30 DEF TypeOK, SrcPlaces, StopReset, FlushData, SignalAdd, SignalDel
    <3>3. ctl' \in CtlPlaces /\ srcresult' \in Flows
      BY <2>30 DEF CtlPlaces, Flows, StopReset, FlushData
    <3>4. cache_write_index' \in Slots \cup {-1} /\ cache_read_index' \in Slots
      BY <2>30 DEF StopReset, FlushData, Slots
    <3>5. raced' \in BOOLEAN
      BY <2>30, Zenon DEF TypeOK, FlushStep
    <3>. QED
      BY <3>1, <3>2, <3>3, <3>4, <3>5, <2>30 DEF TypeOK, FlushStep, StopReset
  <2>31. CASE FlushStep /\ StopSrcPad
    BY <2>31 DEF TypeOK, SrcPlaces, CtlPlaces, Flows, StopSrcPad, SignalAdd, SignalDel,
       FlushStep
  <2>32. CASE FlushStep /\ StopSinkPad
    BY <2>32 DEF TypeOK, SrcPlaces, CtlPlaces, Flows, StopSinkPad, FlushStep
  <2>33. CASE SeekFlushing
    BY <2>33 DEF TypeOK, SrcPlaces, CtlPlaces, Flows, SeekFlushing
  <2>34. CASE SeekData
    BY <2>34 DEF TypeOK, SrcPlaces, CtlPlaces, Flows, SeekData
  <2>35. CASE SeekResume
    <3>1. send_new_segment' \in BOOLEAN /\ is_flushing' \in BOOLEAN
      BY <2>35 DEF SeekResume, FlushStop
    <3>2. sinkFlushing' \in BOOLEAN /\ sinkEos' \in BOOLEAN
      BY <2>35 DEF SeekResume, FlushStop
    <3>3. loopTask' \in {"started", "paused", "stopped"}
      BY <2>35 DEF TypeOK, SeekResume, FlushStop
    <3>4. short' \in BOOLEAN /\ loadFailed' \in BOOLEAN
      BY <2>35 DEF SeekResume, FlushStop
    <3>5. down' \in Down
      BY DownValues, <2>35 DEF TypeOK, Down, SeekResume, FlushStop
    <3>. QED
      BY <3>1, <3>2, <3>3, <3>4, <3>5, <2>35 DEF TypeOK, SrcPlaces, CtlPlaces, Flows,
         Down, SeekResume, FlushStop
  <2>36. CASE StopSource
    BY <2>36 DEF TypeOK, SrcPlaces, CtlPlaces, Flows, StopSource
  <2>37. CASE StopEnd
    BY <2>37 DEF TypeOK, SrcPlaces, CtlPlaces, Flows, StopEnd
  <2>38. CASE SeekBegin
    BY <2>38 DEF TypeOK, SrcPlaces, CtlPlaces, Flows, SeekBegin
  <2>39. CASE StopBegin
    <3>1. down' \in Down
      BY DownValues, <2>39 DEF TypeOK, Down, StopBegin
    <3>. QED
      BY <3>1, <2>39 DEF TypeOK, SrcPlaces, CtlPlaces, Flows, Down, StopBegin
  <2>40. CASE UNCHANGED vars
    BY <2>40 DEF TypeOK, SrcPlaces, CtlPlaces, Flows, vars, bufVars
  <2>41. CASE LoadFails
    BY <2>41 DEF TypeOK, SrcPlaces, CtlPlaces, Flows, LoadFails, NoSegment
  <2>42. QED
    BY <1>1, <2>1, <2>2, <2>3, <2>4, <2>5, <2>6, <2>7, <2>8, <2>9, <2>10, <2>11,
       <2>12, <2>13, <2>14, <2>15, <2>16, <2>17, <2>18, <2>19, <2>20, <2>21, <2>22,
       <2>23, <2>24, <2>25, <2>26, <2>27, <2>28, <2>29, <2>30, <2>31, <2>32, <2>33,
       <2>34, <2>35, <2>36, <2>37, <2>38, <2>39, <2>40, <2>41 DEF Next, SrcStep,
       HandleSegment, SegmentStep, BufferStep, LoopStep, ControlStep, FlushStep,
       CtlStep

(* The steps keep IndexInv.                                                       *)
LEMMA IndexStep ==
  TypeOK /\ TaskInv /\ IndexInv /\ [Next]_vars => IndexInv'
<1>. SUFFICES ASSUME TypeOK, TaskInv, IndexInv, [Next]_vars PROVE IndexInv'
  OBVIOUS
<1>1. Next \/ UNCHANGED vars
  OBVIOUS
<1>2. -1 \notin Slots
  BY DEF Slots
<1>. QED
  <2>1. CASE LoopCall
    BY <2>1 DEF TypeOK, IndexInv, Emptied, LoopCall
  <2>2. CASE PushStreamStart
    BY <2>2 DEF TypeOK, IndexInv, Emptied, PushStreamStart
  <2>3. CASE NextSegment
    BY <2>3 DEF TypeOK, IndexInv, Emptied, NextSegment
  <2>4. CASE LastSegment
    BY <2>4 DEF TypeOK, IndexInv, Emptied, LastSegment, NoSegment
  <2>5. CASE PushSegment
    BY <2>5 DEF TypeOK, IndexInv, Emptied, PushSegment
  <2>6. CASE PushEos
    BY <2>6 DEF TypeOK, IndexInv, Emptied, PushEos, EosEvent, SignalAdd
  <2>7. CASE ReadBlock
    BY <2>7 DEF TypeOK, IndexInv, Emptied, ReadBlock
  <2>8. CASE ReadEnd
    BY <2>8 DEF TypeOK, IndexInv, Emptied, ReadEnd
  <2>9. CASE ReadError
    BY <2>9 DEF TypeOK, IndexInv, Emptied, ReadError
  <2>10. CASE PushBlock
    BY <2>10 DEF TypeOK, IndexInv, Emptied, PushBlock
  <2>11. CASE HandleBlock
    <3>1. cache_write_index = -1 => \A i \in Slots : slot'[i] = slot[i]
      BY <1>2, <2>11 DEF HandleBlock, Chain, Written
    <3>2. /\ loop' \in {loop, "woken"} /\ src = "chain" /\ src' = "end"
          /\ UNCHANGED <<cache_write_index, srcresult, ctl, segStop, javaVars, histVars>>
      BY <2>11 DEF HandleBlock, Chain, SignalAdd
    <3>. QED
      BY <3>1, <3>2 DEF TypeOK, IndexInv, Emptied
  <2>12. CASE LoopReturn
    BY <2>12 DEF TypeOK, IndexInv, Emptied, LoopReturn
  <2>13. CASE HandleSegment /\ SegmentCheck
    BY <2>13 DEF TypeOK, IndexInv, Emptied, SegmentCheck, HandleSegment
  <2>14. CASE HandleSegment /\ SegmentOpen
    BY <2>14 DEF TypeOK, IndexInv, Emptied, SegmentOpen, HandleSegment
  <2>15. CASE HandleSegment /\ SegmentSlot
    <3>1. cache_write_index' \in Slots
      BY NextSlot, <2>15 DEF TypeOK, SegmentSlot
    <3>. QED
      BY <1>2, <3>1, <2>15 DEF TypeOK, IndexInv, Emptied, HandleSegment, SegmentSlot
  <2>16. CASE HandleSegment /\ SegmentFull
    BY <2>16 DEF TypeOK, IndexInv, Emptied, SegmentFull, HandleSegment
  <2>17. CASE HandleSegment /\ SegmentWoken
    BY <2>17 DEF TypeOK, IndexInv, Emptied, SegmentWoken, Claim, HandleSegment
  <2>18. CASE BufferStep /\ LoopWait
    BY <2>18 DEF TypeOK, IndexInv, Emptied, LoopWait, LoopEnter, BufferStep
  <2>19. CASE BufferStep /\ LoopEos
    BY <2>19 DEF TypeOK, IndexInv, Emptied, LoopEos, LoopEnter, HasData, BufferStep
  <2>20. CASE BufferStep /\ LoopStop
    BY <2>20 DEF TypeOK, IndexInv, Emptied, LoopStop, LoopEnter, BufferStep
  <2>21. CASE BufferStep /\ LoopRead
    <3>1. cache_read_index \in Slots /\ slot[cache_read_index].rd \in Nat
      BY DEF TypeOK, Slot
    <3>2. slot[cache_read_index].data # <<>>
      BY <3>1, <2>21 DEF LoopRead, HasData
    <3>3. cache_write_index # -1
      BY <3>1, <3>2 DEF IndexInv
    <3>4. /\ src' \in {src, "woken"} /\ (src' # src => src = "wait")
          /\ UNCHANGED <<cache_write_index, ctl, segStop, javaVars, seekFailed>>
      BY <2>21 DEF LoopRead, SignalDel, BufferStep
    <3>. QED
      BY <3>3, <3>4 DEF TypeOK, IndexInv
  <2>22. CASE BufferStep /\ LoopPush
    BY <2>22 DEF TypeOK, IndexInv, Emptied, LoopPush, BufferStep
  <2>23. CASE BufferStep /\ LoopResult
    BY <2>23 DEF TypeOK, IndexInv, Emptied, LoopResult, BufferStep
  <2>24. CASE BufferStep /\ LoopLast
    BY <2>24 DEF TypeOK, IndexInv, Emptied, LoopLast, BufferStep
  <2>25. CASE FlushStep /\ FlushStart
    BY <2>25 DEF TypeOK, IndexInv, Emptied, FlushStart, FlushStep
  <2>26. CASE FlushStep /\ FlushDown
    BY <2>26 DEF TypeOK, IndexInv, Emptied, FlushDown, FlushStep
  <2>27. CASE FlushStep /\ FlushReset
    BY <2>27 DEF TypeOK, IndexInv, Emptied, FlushReset, FlushData, SignalAdd, SignalDel,
       EmptySlot, FlushStep
  <2>28. CASE FlushStep /\ FlushPause
    BY <2>28 DEF TypeOK, IndexInv, Emptied, FlushPause, FlushStep
  <2>29. CASE FlushStep /\ FlushJoin
    BY <2>29 DEF TypeOK, IndexInv, Emptied, FlushJoin, FlushStep
  <2>30. CASE FlushStep /\ StopReset
    BY <2>30 DEF TypeOK, IndexInv, Emptied, StopReset, FlushData, SignalAdd, SignalDel,
       EmptySlot, FlushStep
  <2>31. CASE FlushStep /\ StopSrcPad
    BY <2>31 DEF TypeOK, IndexInv, Emptied, StopSrcPad, SignalAdd, SignalDel, FlushStep
  <2>32. CASE FlushStep /\ StopSinkPad
    BY <2>32 DEF TypeOK, IndexInv, Emptied, StopSinkPad, FlushStep
  <2>33. CASE SeekFlushing
    BY <2>33 DEF TypeOK, IndexInv, Emptied, SeekFlushing
  <2>34. CASE SeekData
    BY <2>34 DEF TypeOK, IndexInv, Emptied, SeekData
  <2>35. CASE SeekResume
    <3>1. loop \in {"idle", "wait"}
      BY <2>35 DEF SeekResume, TaskInv, Halted, Joined
    <3>. QED
      BY <2>35, <3>1 DEF TypeOK, IndexInv, Emptied, SeekResume, FlushStop
  <2>36. CASE StopSource
    BY <2>36 DEF TypeOK, IndexInv, Emptied, StopSource
  <2>37. CASE StopEnd
    BY <2>37 DEF TypeOK, IndexInv, Emptied, StopEnd
  <2>38. CASE SeekBegin
    BY <2>38 DEF TypeOK, IndexInv, Emptied, SeekBegin
  <2>39. CASE StopBegin
    BY <2>39 DEF TypeOK, IndexInv, Emptied, StopBegin
  <2>40. CASE UNCHANGED vars
    BY <2>40 DEF TypeOK, IndexInv, Emptied, vars, bufVars
  <2>41. CASE LoadFails
    BY <2>41 DEF TypeOK, IndexInv, Emptied, LoadFails, NoSegment
  <2>42. QED
    BY <1>1, <2>1, <2>2, <2>3, <2>4, <2>5, <2>6, <2>7, <2>8, <2>9, <2>10, <2>11,
       <2>12, <2>13, <2>14, <2>15, <2>16, <2>17, <2>18, <2>19, <2>20, <2>21, <2>22,
       <2>23, <2>24, <2>25, <2>26, <2>27, <2>28, <2>29, <2>30, <2>31, <2>32, <2>33,
       <2>34, <2>35, <2>36, <2>37, <2>38, <2>39, <2>40, <2>41 DEF Next, SrcStep,
       HandleSegment, SegmentStep, BufferStep, LoopStep, ControlStep, FlushStep,
       CtlStep

(* The steps keep TaskInv.                                                        *)
LEMMA TaskStep == TypeOK /\ TaskInv /\ [Next]_vars => TaskInv'
<1>. SUFFICES ASSUME TypeOK, TaskInv, [Next]_vars PROVE TaskInv'
  OBVIOUS
<1>1. Next \/ UNCHANGED vars
  OBVIOUS
<1>2. -1 \notin Slots
  BY DEF Slots
<1>. QED
  <2>1. CASE LoopCall
    BY <2>1 DEF TypeOK, TaskInv, TaskRuns, Reset, Halted, Joined, Stopping, InSinkPad,
       LoopCall
  <2>2. CASE PushStreamStart
    BY <2>2 DEF TypeOK, TaskInv, TaskRuns, Reset, Halted, Joined, Stopping, InSinkPad,
       PushStreamStart
  <2>3. CASE NextSegment
    BY <2>3 DEF TypeOK, TaskInv, TaskRuns, Reset, Halted, Joined, Stopping, InSinkPad,
       NextSegment
  <2>4. CASE LastSegment
    BY <2>4 DEF TypeOK, TaskInv, TaskRuns, Reset, Halted, Joined, Stopping, InSinkPad,
       LastSegment, NoSegment
  <2>5. CASE PushSegment
    BY <2>5 DEF TypeOK, TaskInv, TaskRuns, Reset, Halted, Joined, Stopping, InSinkPad,
       PushSegment
  <2>6. CASE PushEos
    BY <2>6 DEF TypeOK, TaskInv, TaskRuns, Reset, Halted, Joined, Stopping, InSinkPad,
       PushEos, EosEvent, SignalAdd
  <2>7. CASE ReadBlock
    BY <2>7 DEF TypeOK, TaskInv, TaskRuns, Reset, Halted, Joined, Stopping, InSinkPad,
       ReadBlock
  <2>8. CASE ReadEnd
    BY <2>8 DEF TypeOK, TaskInv, TaskRuns, Reset, Halted, Joined, Stopping, InSinkPad,
       ReadEnd
  <2>9. CASE ReadError
    BY <2>9 DEF TypeOK, TaskInv, TaskRuns, Reset, Halted, Joined, Stopping, InSinkPad,
       ReadError
  <2>10. CASE PushBlock
    BY <2>10 DEF TypeOK, TaskInv, TaskRuns, Reset, Halted, Joined, Stopping, InSinkPad,
       PushBlock
  <2>11. CASE HandleBlock
    BY <1>2, <2>11 DEF TypeOK, TaskInv, TaskRuns, Reset, Halted, Joined, Stopping,
       InSinkPad, HandleBlock, Chain, SignalAdd, Written
  <2>12. CASE LoopReturn
    BY <2>12 DEF TypeOK, TaskInv, TaskRuns, Reset, Halted, Joined, Stopping, InSinkPad,
       LoopReturn
  <2>13. CASE HandleSegment /\ SegmentCheck
    BY <2>13 DEF TypeOK, TaskInv, TaskRuns, Reset, Halted, Joined, Stopping, InSinkPad,
       SegmentCheck, HandleSegment
  <2>14. CASE HandleSegment /\ SegmentOpen
    BY <2>14 DEF TypeOK, TaskInv, TaskRuns, Reset, Halted, Joined, Stopping, InSinkPad,
       SegmentOpen, HandleSegment
  <2>15. CASE HandleSegment /\ SegmentSlot
    <3>1. src = "seg_slot" /\ src' \in {"full", "end"}
      BY <2>15 DEF SegmentSlot
    <3>2. \A i \in Slots : slot[i].data = <<>> => slot'[i].data = <<>>
      BY <2>15 DEF TypeOK, SegmentSlot, Claim
    <3>3. UNCHANGED <<ctl, loop, loopTask, srcresult, is_eos, sinkEos, sinkFlushing>>
      BY <2>15 DEF SegmentSlot
    <3>. QED
      BY <3>1, <3>2, <3>3 DEF TaskInv, TaskRuns, InSinkPad
  <2>16. CASE HandleSegment /\ SegmentFull
    BY <2>16 DEF TypeOK, TaskInv, TaskRuns, Reset, Halted, Joined, Stopping, InSinkPad,
       SegmentFull, HandleSegment
  <2>17. CASE HandleSegment /\ SegmentWoken
    BY <2>17 DEF TypeOK, TaskInv, TaskRuns, Reset, Halted, Joined, Stopping, InSinkPad,
       SegmentWoken, Claim
  <2>18. CASE BufferStep /\ LoopWait
    BY <2>18 DEF TypeOK, TaskInv, TaskRuns, Reset, Halted, Joined, Stopping, InSinkPad,
       LoopWait, LoopEnter, BufferStep
  <2>19. CASE BufferStep /\ LoopEos
    BY <2>19 DEF TypeOK, TaskInv, TaskRuns, Reset, Halted, Joined, Stopping, InSinkPad,
       LoopEos, LoopEnter, HasData, BufferStep
  <2>20. CASE BufferStep /\ LoopStop
    BY <2>20 DEF TypeOK, TaskInv, TaskRuns, Reset, Halted, Joined, Stopping, InSinkPad,
       LoopStop, LoopEnter, BufferStep
  <2>21. CASE BufferStep /\ LoopRead
    <3>1. ctl \notin Reset
      <4>1. cache_read_index \in Slots /\ slot[cache_read_index].rd \in Nat
        BY DEF TypeOK, Slot
      <4>2. slot[cache_read_index].data # <<>>
        BY <4>1, <2>21 DEF LoopRead, HasData
      <4>. QED
        BY <4>1, <4>2 DEF TaskInv
    <3>2. ctl' = ctl /\ loop' = "push" /\ src' \in {src, "woken"} /\ (src' # src => src = "wait")
      BY <2>21 DEF LoopRead, SignalDel
    <3>3. UNCHANGED <<loopTask, is_eos, srcresult, sinkEos, sinkFlushing>>
      BY <2>21 DEF LoopRead
    <3>4. ~(is_eos /\ ~sinkEos)
      BY <2>21 DEF LoopRead, LoopEnter, TaskInv
    <3>. QED
      BY <3>1, <3>2, <3>3, <3>4 DEF TypeOK, TaskInv, TaskRuns, Reset, Halted, Joined,
         Stopping, InSinkPad
  <2>22. CASE BufferStep /\ LoopPush
    BY <2>22 DEF TypeOK, TaskInv, TaskRuns, Reset, Halted, Joined, Stopping, InSinkPad,
       LoopPush, BufferStep
  <2>23. CASE BufferStep /\ LoopResult
    BY <2>23 DEF TypeOK, TaskInv, TaskRuns, Reset, Halted, Joined, Stopping, InSinkPad,
       LoopResult, BufferStep
  <2>24. CASE BufferStep /\ LoopLast
    BY <2>24 DEF TypeOK, TaskInv, TaskRuns, Reset, Halted, Joined, Stopping, InSinkPad,
       LoopLast, BufferStep
  <2>25. CASE FlushStep /\ FlushStart
    BY <2>25 DEF TypeOK, TaskInv, TaskRuns, Reset, Halted, Joined, Stopping, InSinkPad,
       FlushStart, FlushStep
  <2>26. CASE FlushStep /\ FlushDown
    BY <2>26 DEF TypeOK, TaskInv, TaskRuns, Reset, Halted, Joined, Stopping, InSinkPad,
       FlushDown, FlushStep
  <2>27. CASE FlushStep /\ FlushReset
    BY <2>27 DEF TypeOK, TaskInv, TaskRuns, Reset, Halted, Joined, Stopping, InSinkPad,
       FlushReset, FlushData, SignalAdd, SignalDel, EmptySlot, FlushStep
  <2>28. CASE FlushStep /\ FlushPause
    BY <2>28 DEF TypeOK, TaskInv, TaskRuns, Reset, Halted, Joined, Stopping, InSinkPad,
       FlushPause, FlushStep
  <2>29. CASE FlushStep /\ FlushJoin
    BY <2>29 DEF TypeOK, TaskInv, TaskRuns, Reset, Halted, Joined, Stopping, InSinkPad,
       FlushJoin, FlushStep
  <2>30. CASE FlushStep /\ StopReset
    BY <2>30 DEF TypeOK, TaskInv, TaskRuns, Reset, Halted, Joined, Stopping, InSinkPad,
       StopReset, FlushData, SignalAdd, SignalDel, EmptySlot, FlushStep
  <2>31. CASE FlushStep /\ StopSrcPad
    BY <2>31 DEF TypeOK, TaskInv, TaskRuns, Reset, Halted, Joined, Stopping, InSinkPad,
       StopSrcPad, SignalAdd, SignalDel, FlushStep
  <2>32. CASE FlushStep /\ StopSinkPad
    BY <2>32 DEF TypeOK, TaskInv, TaskRuns, Reset, Halted, Joined, Stopping, InSinkPad,
       StopSinkPad, FlushStep
  <2>33. CASE SeekFlushing
    BY <2>33 DEF TypeOK, TaskInv, TaskRuns, Reset, Halted, Joined, Stopping, InSinkPad,
       SeekFlushing
  <2>34. CASE SeekData
    BY <2>34 DEF TypeOK, TaskInv, TaskRuns, Reset, Halted, Joined, Stopping, InSinkPad,
       SeekData
  <2>35. CASE SeekResume
    BY <2>35 DEF TypeOK, TaskInv, TaskRuns, Reset, Halted, Joined, Stopping, InSinkPad,
       SeekResume, FlushStop
  <2>36. CASE StopSource
    BY <2>36 DEF TypeOK, TaskInv, TaskRuns, Reset, Halted, Joined, Stopping, InSinkPad,
       StopSource
  <2>37. CASE StopEnd
    BY <2>37 DEF TypeOK, TaskInv, TaskRuns, Reset, Halted, Joined, Stopping, InSinkPad,
       StopEnd
  <2>38. CASE SeekBegin
    BY <2>38 DEF TypeOK, TaskInv, TaskRuns, Reset, Halted, Joined, Stopping, InSinkPad,
       SeekBegin
  <2>39. CASE StopBegin
    BY <2>39 DEF TypeOK, TaskInv, TaskRuns, Reset, Halted, Joined, Stopping, InSinkPad,
       StopBegin
  <2>40. CASE UNCHANGED vars
    BY <2>40 DEF TypeOK, TaskInv, TaskRuns, Reset, Halted, Joined, Stopping, InSinkPad,
       vars, bufVars
  <2>41. CASE LoadFails
    BY <2>41 DEF TypeOK, TaskInv, TaskRuns, Reset, Halted, Joined, Stopping, InSinkPad,
       LoadFails, NoSegment
  <2>42. QED
    BY <1>1, <2>1, <2>2, <2>3, <2>4, <2>5, <2>6, <2>7, <2>8, <2>9, <2>10, <2>11,
       <2>12, <2>13, <2>14, <2>15, <2>16, <2>17, <2>18, <2>19, <2>20, <2>21, <2>22,
       <2>23, <2>24, <2>25, <2>26, <2>27, <2>28, <2>29, <2>30, <2>31, <2>32, <2>33,
       <2>34, <2>35, <2>36, <2>37, <2>38, <2>39, <2>40, <2>41 DEF Next, SrcStep,
       HandleSegment, SegmentStep, BufferStep, LoopStep, ControlStep, FlushStep,
       CtlStep

----------------------------------------------------------------------------------
LEMMA HLSInit == Init => TypeOK /\ IndexInv /\ TaskInv
<1>. SUFFICES ASSUME Init PROVE TypeOK /\ IndexInv /\ TaskInv
  OBVIOUS
<1>1. slot \in [Slots -> Slot] /\ down \in Down
  BY SlotValues DEF Init, BufferInit, Down
<1>2. cache_read_index \in Slots
  BY DEF Init, BufferInit, Slots
<1>3. TypeOK
  <2>1. /\ send_new_segment \in BOOLEAN /\ is_flushing \in BOOLEAN /\ is_eos \in BOOLEAN
        /\ sinkFlushing \in BOOLEAN /\ sinkEos \in BOOLEAN
        /\ raced \in BOOLEAN /\ short \in BOOLEAN
        /\ loadFailed \in BOOLEAN /\ seekFailed \in BOOLEAN
    BY DEF Init, BufferInit
  <2>2. /\ srcresult \in Flows /\ loopResult \in Flows
        /\ java_result \in Flows \cup {"EOS"} /\ result \in Flows \cup {"EOS"}
        /\ src \in SrcPlaces /\ ctl \in CtlPlaces
        /\ inFlight \in Seq(Nat)
    BY DEF Init, BufferInit, Flows, SrcPlaces, CtlPlaces
  <2>3. /\ loop = "idle" /\ loopTask = "started" /\ cache_write_index = -1
        /\ segStop = 0 /\ left = 0 /\ produced = 0 /\ accepted = 0 /\ seeks = 0
        /\ playlist = MaxSegments /\ pending_event = "STREAM_START" /\ srcTask = "started"
    BY DEF Init, BufferInit
  <2>. QED
    BY <1>1, <1>2, <2>1, <2>2, <2>3 DEF TypeOK, Down
<1>4. IndexInv
  BY DEF Init, BufferInit, IndexInv, EmptySlot
<1>5. TaskInv
  BY DEF Init, BufferInit, TaskInv, TaskRuns, Reset, Halted, Joined, Stopping, InSinkPad
<1>. QED
  BY <1>3, <1>4, <1>5

(* The variables of the stream and of the buffer keep their types: the indices    *)
(* of the ring stay within it (-1 for a ring that has just been reset), whatever   *)
(* the number of slots, the playlist and the seeks.                                *)
THEOREM HLSTypes == Spec => []TypeOK
<1>1. Init => TypeOK
  BY HLSInit
<1>2. TypeOK /\ [Next]_vars => TypeOK'
  BY TypesStep
<1>. QED
  BY <1>1, <1>2, PTL DEF Spec

(* However flushes, seeks, failing loads, empty segments and the shutdown           *)
(* interleave with the SEGMENT handler, a write of the upstream thread goes to       *)
(* cache[-1] in two cases only: after a SEEK_DATA that failed, or when the error of   *)
(* a push that was under way replaces the FLUSHING that the flush has set.             *)
THEOREM HLSWriteIndex == Spec => []WriteIndexValid
<1>1. Init => TypeOK /\ TaskInv /\ IndexInv
  BY HLSInit
<1>2. TypeOK /\ TaskInv /\ IndexInv /\ [Next]_vars => (TypeOK /\ TaskInv /\ IndexInv)'
  BY TypesStep, TaskStep, IndexStep
<1>3. TypeOK /\ IndexInv => WriteIndexValid
  BY DEF TypeOK, Flows, IndexInv, WriteIndexValid
<1>. QED
  BY <1>1, <1>2, <1>3, PTL DEF Spec

(* Whenever the element is running and nothing is under way, its reader task is    *)
(* started: of all the places that pause it (a flush, an end of stream, a failed    *)
(* push) none can be overtaken so that the task stays paused.                       *)
THEOREM HLSTaskRuns == Spec => []TaskRuns
<1>1. Init => TypeOK /\ TaskInv
  BY HLSInit
<1>2. TypeOK /\ TaskInv /\ [Next]_vars => (TypeOK /\ TaskInv)'
  BY TypesStep, TaskStep
<1>3. TaskInv => TaskRuns
  BY DEF TaskInv
<1>. QED
  BY <1>1, <1>2, <1>3, PTL DEF Spec
==================================================================================
