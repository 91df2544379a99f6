------------------------------ MODULE HLSOrderProofs ------------------------------
(* InOrder and EosIsLast of HLSStream, for every number of slots, every playlist  *)
(* without empty segments and every number of seeks.  Neither is inductive:        *)
(* what the reader task takes next depends on every block in the ring, and that    *)
(* on where the upstream thread is, on the flags that a flush and an end of        *)
(* stream leave behind, and on how a flush may race with the claim of a slot.      *)
(* OrderInv has a part for each of these; at its centre is RingInv, which says     *)
(* which slots hold which blocks.                                                  *)
EXTENDS HLSProofs

(* Data go downstream while it is not flushed, and are written while the sink pad *)
(* is not.                                                                        *)
Open == ctl \in {"idle", "start", "flush_down"}
Calm == ctl \in {"idle", "start"}
Running == Open /\ srcresult = "OK" /\ ~(loop = "pushed" /\ loopResult # "OK")
(* The upstream thread may still add to the ring.                                 *)
Filling == Calm \/ (ctl = "flush_down" /\ src = "chain")

(* From the announcement of a segment to the claim of a slot for it.              *)
Claiming == {"segment", "seg_check", "seg_open", "seg_slot", "full", "wait", "woken"}

(* The flags that a flush, a segment and an end of stream leave behind.           *)
FlagInv ==
  /\ Open <=> ~down.flushing
  /\ Calm => ~sinkFlushing /\ ~is_flushing
  /\ sinkEos => (src = "end" /\ result = "EOS") \/ (src = "idle" /\ srcTask # "started")
  /\ Open => send_new_segment \/ down.segment
  /\ Running => ~down.eos
  /\ Open /\ is_eos /\ ~sinkEos => Running /\ src \notin {"seg_slot", "full", "wait", "woken"}
  /\ Calm /\ is_eos /\ ~sinkEos => pending_event # "UNKNOWN"
  /\ Filling /\ Running /\ (pending_event = "UNKNOWN" \/ src \in {"seg_slot", "full", "wait", "woken"})
       => down.segment

(* What the upstream thread is about to do, and what it has left to do.           *)
SourceInv ==
  /\ src = "stream" => pending_event = "STREAM_START"
  /\ src \in {"read", "push", "chain"} => pending_event = "UNKNOWN"
  /\ src \in {"size"} \cup Claiming => pending_event = "SEGMENT"
  /\ src = "eos" => pending_event = "EOS"
  /\ src \in Claiming => left = segStop /\ left > 0
  /\ Calm /\ src \notin {"idle", "end"} => java_result = "OK"
  /\ Calm /\ src \notin Claiming /\ pending_event # "UNKNOWN" => left = 0
  /\ Calm /\ pending_event = "EOS" => AtEnd
  /\ Calm /\ sinkEos => pending_event = "EOS"
  /\ ctl = "resume" => src = "idle" /\ pending_event = "SEGMENT" /\ left = 0 /\ produced = 0

(* The buffer that the reader task is pushing.                                    *)
FlightInv ==
  /\ loop # "push" => inFlight = <<>>
  /\ Open /\ loop = "push" => srcresult = "OK" /\ down.segment
  /\ Open => \A k \in 1 .. Len(inFlight) : inFlight[k] = accepted + k

(* A slot is free when all of its segment has been read.                          *)
SlotInv ==
  Running \/ ctl \in Reset => \A i \in Slots : slot[i].ready <=> slot[i].rd = slot[i].size

(* A ring that has been flushed is empty, except that an upstream thread that     *)
(* raced with the flush may have claimed slot 0.                                  *)
ResetInv ==
  /\ ctl \in Reset =>
       /\ cache_read_index = 0 /\ cache_write_index \in {-1, 0}
       /\ \A i \in Slots : slot[i].rd = 0 /\ slot[i].data = <<>>
       /\ \A i \in Slots : slot[i].size > 0 <=> i = cache_write_index
       /\ cache_write_index = 0 => raced
       /\ src \in Claiming \ {"segment"} => cache_write_index = -1
       /\ src \in {"seg_check", "full", "wait", "woken"} => srcresult # "OK"
       /\ src \in {"seg_open", "seg_slot"} => raced

(* The slot n places after the one being read (n no larger than the ring), and    *)
(* how far after it slot i comes.                                                 *)
Ahead(n) == IF cache_read_index + n < NUM_OF_CACHED_SEGMENTS
            THEN cache_read_index + n
            ELSE cache_read_index + n - NUM_OF_CACHED_SEGMENTS
Distance(i) == IF i >= cache_read_index
               THEN i - cache_read_index
               ELSE i - cache_read_index + NUM_OF_CACHED_SEGMENTS

(* The slot after slot i, and the slot that the next segment will claim.          *)
After(i) == IF i = NUM_OF_CACHED_SEGMENTS - 1 THEN 0 ELSE i + 1
Front == IF src \in {"full", "wait", "woken"} THEN cache_write_index ELSE After(cache_write_index)

(* The number of the last block written, and of the last one read from the ring;  *)
(* how many blocks of the segment are still to be written.                        *)
Last == IF src \in {"push", "chain"} THEN produced - 1 ELSE produced
Taken == accepted + Len(inFlight)
Rest == IF src \in {"push", "chain"} THEN left + 1 ELSE left

Complete(i) == Len(slot[i].data) = slot[i].size

(* The c slots from the one being read on are claimed and not read, the others    *)
(* are free.                                                                      *)
Shape(c) ==
  /\ Front = Ahead(c)
  /\ \A i \in Slots : /\ slot[i].rd < slot[i].size <=> Distance(i) < c
                      /\ slot[i].rd <= Len(slot[i].data) /\ Len(slot[i].data) <= slot[i].size
                      /\ 0 < Distance(i) /\ Distance(i) < c => slot[i].rd = 0
                      /\ slot[i].data # <<>> => down.segment

(* The blocks in the slot being read follow the last one taken, and those in a    *)
(* slot follow the last one of the slot before it, if that segment is complete.   *)
Order(c) ==
  /\ c > 0 => LET s == slot[cache_read_index]
              IN \A k \in s.rd + 1 .. Len(s.data) : s.data[k] = Taken + k - s.rd
  /\ \A i \in Slots : Distance(i) + 1 < c /\ Complete(i) =>
       \A k \in 1 .. Len(slot[After(i)].data) :
         slot[After(i)].data[k] = slot[i].data[slot[i].size] + k

(* While the ring is being filled, its last block is the last one written, and    *)
(* there is room for the rest of the segment.                                     *)
Growth(c) ==
  /\ c = 0 => Last = Taken
  /\ c = 1 => Last = Taken + Len(slot[cache_read_index].data) - slot[cache_read_index].rd
  /\ \A i \in Slots :
       /\ Distance(i) + 2 = c /\ Complete(i)
            => Last = slot[i].data[slot[i].size] + Len(slot[After(i)].data)
       /\ Distance(i) + 1 = c /\ slot[i].data # <<>> => slot[i].data[Len(slot[i].data)] = Last
  /\ pending_event = "UNKNOWN" =>
       /\ cache_write_index \in Slots
       /\ Len(slot[cache_write_index].data) + Rest <= slot[cache_write_index].size

(* Without a race and without a short read, every segment in the ring is complete *)
(* but the one being written.                                                     *)
Whole(c) ==
  /\ \A i \in Slots : Distance(i) + 1 < c => Complete(i)
  /\ IF pending_event = "UNKNOWN"
     THEN Len(slot[cache_write_index].data) + Rest = slot[cache_write_index].size
     ELSE \A i \in Slots : Distance(i) + 1 = c => Complete(i)

Ring(c) ==
  /\ Shape(c) /\ Order(c)
  /\ Filling => Growth(c)
  /\ Calm /\ ~raced /\ ~short => Whole(c)

RingInv == Running => \E c \in 0 .. NUM_OF_CACHED_SEGMENTS : Ring(c)

EosInv ==
  Calm /\ down.eos =>
    sinkEos /\ (~raced /\ ~short => accepted = produced /\ AtEnd /\ left = 0)

OrderInv == FlagInv /\ SourceInv /\ FlightInv /\ SlotInv /\ ResetInv /\ RingInv /\ EosInv

----------------------------------------------------------------------------------
USE HLSAssumption, StreamAssumption
USE DEF ringVars, loopVars, padVars, javaVars, histVars

(* The fields of a slot.                                                          *)
LEMMA SlotTypes ==
  ASSUME TypeOK, NEW i \in Slots
  PROVE  /\ slot[i].size \in Nat /\ slot[i].rd \in Nat
         /\ slot[i].data \in Seq(Nat) /\ Len(slot[i].data) \in Nat
<1>1. slot[i] \in Slot
  BY DEF TypeOK
<1> QED BY <1>1 DEF Slot

(* What the writes to the ring do to the fields of its slots.                     *)
LEMMA ClaimFields ==
  ASSUME TypeOK, NEW i \in Slots, Claim(i)
  PROVE  /\ ~slot'[i].ready
         /\ slot'[i].size = segStop /\ slot'[i].rd = 0 /\ slot'[i].data = <<>>
         /\ \A j \in Slots : j # i => slot'[j] = slot[j]
  BY DEF TypeOK, Claim

LEMMA WrittenFields ==
  ASSUME TypeOK, NEW block \in Nat, slot' = Written(block)
  PROVE  /\ \A i \in Slots : /\ slot'[i].ready <=> slot[i].ready
                             /\ slot'[i].size = slot[i].size /\ slot'[i].rd = slot[i].rd
                             /\ i # cache_write_index => slot'[i].data = slot[i].data
         /\ cache_write_index \in Slots =>
              slot'[cache_write_index].data = Append(slot[cache_write_index].data, block)
<1>1. ASSUME NEW i \in Slots
      PROVE  /\ slot'[i].ready <=> slot[i].ready
             /\ slot'[i].size = slot[i].size /\ slot'[i].rd = slot[i].rd
             /\ i # cache_write_index => slot'[i].data = slot[i].data
             /\ i = cache_write_index => slot'[i].data = Append(slot[i].data, block)
  <2>1. slot[i] \in Slot
    BY DEF TypeOK
  <2>2. slot'[i] = IF i = cache_write_index THEN [slot[i] EXCEPT !.data = Append(@, block)] ELSE slot[i]
    BY DEF Written
  <2> QED BY <2>1, <2>2 DEF Slot
<1> QED BY <1>1

LEMMA ReadFields ==
  ASSUME TypeOK, LoopRead
  PROVE  LET i == cache_read_index
             s == slot[i]
             rd == s.rd + ReadSize(s)
         IN /\ s.rd \in Nat /\ s.size \in Nat /\ s.data \in Seq(Nat) /\ Len(s.data) \in Nat
            /\ s.rd < Len(s.data)
            /\ rd \in Nat /\ s.rd < rd /\ rd <= Len(s.data)
            /\ slot'[i].rd = rd /\ slot'[i].size = s.size /\ slot'[i].data = s.data
            /\ slot'[i].ready <=> (s.ready \/ rd = s.size)
            /\ \A j \in Slots : j # i => slot'[j] = slot[j]
            /\ inFlight' = SubSeq(s.data, s.rd + 1, rd)
            /\ cache_read_index' = IF rd = s.size THEN (i + 1) % NUM_OF_CACHED_SEGMENTS ELSE i
<1> DEFINE i == cache_read_index
           s == slot[i]
           n == Len(s.data)
           rd == s.rd + ReadSize(s)
<1>1. i \in Slots /\ s \in Slot /\ slot \in [Slots -> Slot]
  BY DEF TypeOK
<1>2. s.rd \in Nat /\ s.size \in Nat /\ s.data \in Seq(Nat) /\ n \in Nat /\ s.rd < n
  BY <1>1 DEF Slot, LoopRead, HasData
<1>3. rd \in Nat /\ s.rd < rd /\ rd <= n
  BY <1>2 DEF ReadSize
<1>4. slot' = [slot EXCEPT ![i] = [s EXCEPT !.rd = rd, !.ready = @ \/ rd = s.size]]
  BY DEF LoopRead
<1>5. /\ inFlight' = SubSeq(s.data, s.rd + 1, rd)
      /\ cache_read_index' = IF rd = s.size THEN (i + 1) % NUM_OF_CACHED_SEGMENTS ELSE i
  BY DEF LoopRead
<1> HIDE DEF i, n, rd
<1>6. /\ slot'[i] = [s EXCEPT !.rd = rd, !.ready = @ \/ rd = s.size]
      /\ \A j \in Slots : j # i => slot'[j] = slot[j]
  BY <1>1, <1>4
<1>7. slot'[i].rd = rd /\ slot'[i].size = s.size /\ slot'[i].data = s.data
  BY <1>1, <1>6 DEF Slot
<1>8. slot'[i].ready <=> (s.ready \/ rd = s.size)
  BY <1>1, <1>6, Zenon DEF Slot
<1> QED BY <1>2, <1>3, <1>5, <1>6, <1>7, <1>8 DEF i, n, rd

LEMMA ResetFields ==
  ASSUME FlushData
  PROVE  \A i \in Slots : /\ slot'[i].ready
                          /\ slot'[i].size = 0 /\ slot'[i].rd = 0 /\ slot'[i].data = <<>>
  BY DEF FlushData, EmptySlot

(* The ring as the code computes it.                                              *)
LEMMA AfterMod == \A k \in Slots \cup {-1} : (k + 1) % NUM_OF_CACHED_SEGMENTS = After(k)
<1> SUFFICES ASSUME NEW k \in Slots \cup {-1}
             PROVE  (k + 1) % NUM_OF_CACHED_SEGMENTS = After(k)
  OBVIOUS
<1>1. NUM_OF_CACHED_SEGMENTS \in Nat /\ NUM_OF_CACHED_SEGMENTS > 0 /\ k \in Int
  BY DEF Slots
<1>2. CASE k = NUM_OF_CACHED_SEGMENTS - 1
  <2>1. k + 1 = NUM_OF_CACHED_SEGMENTS
    BY <1>1, <1>2
  <2>2. NUM_OF_CACHED_SEGMENTS % NUM_OF_CACHED_SEGMENTS = 0
    BY <1>1
  <2> QED BY <1>2, <2>1, <2>2 DEF After
<1>3. CASE k # NUM_OF_CACHED_SEGMENTS - 1
  <2>1. k + 1 \in 0 .. NUM_OF_CACHED_SEGMENTS - 1
    BY <1>1, <1>3 DEF Slots
  <2>2. (k + 1) % NUM_OF_CACHED_SEGMENTS = k + 1
    BY <1>1, <2>1
  <2> QED BY <1>3, <2>2 DEF After
<1> QED BY <1>2, <1>3

(* Distances in the ring.                                                         *)
LEMMA Distances ==
  ASSUME cache_read_index \in Slots
  PROVE  /\ \A i \in Slots : Distance(i) \in Slots /\ After(i) \in Slots
         /\ \A i, j \in Slots : Distance(i) = Distance(j) => i = j
         /\ \A i \in Slots : Distance(i) = 0 <=> i = cache_read_index
         /\ \A i \in Slots : Distance(i) + 1 < NUM_OF_CACHED_SEGMENTS
                               => Distance(After(i)) = Distance(i) + 1
         /\ \A i, j \in Slots : Distance(j) = Distance(i) + 1 => j = After(i)
  BY DEF Distance, After, Slots

LEMMA AheadDistance ==
  ASSUME cache_read_index \in Slots, NEW c \in 0 .. NUM_OF_CACHED_SEGMENTS
  PROVE  /\ Ahead(c) \in Slots
         /\ Distance(Ahead(c)) = IF c = NUM_OF_CACHED_SEGMENTS THEN 0 ELSE c
         /\ c < NUM_OF_CACHED_SEGMENTS => After(Ahead(c)) = Ahead(c + 1)
         /\ c > 0 => \A i \in Slots : After(i) = Ahead(c) <=> Distance(i) + 1 = c
  BY DEF Distance, Ahead, After, Slots

(* The reader moves on: every other slot comes one place nearer.                  *)
LEMMA MoveOn ==
  ASSUME cache_read_index \in Slots, cache_read_index' = After(cache_read_index)
  PROVE  /\ \A c \in 1 .. NUM_OF_CACHED_SEGMENTS : (Ahead(c - 1))' = Ahead(c)
         /\ \A i \in Slots : Distance(i)' =
              IF i = cache_read_index THEN NUM_OF_CACHED_SEGMENTS - 1 ELSE Distance(i) - 1
  BY DEF Distance, Ahead, After, Slots

----------------------------------------------------------------------------------
(* The steps that leave the ring alone.                                           *)
RingKept ==
  /\ UNCHANGED <<slot, cache_read_index>>
  /\ pending_event' = "UNKNOWN" => cache_write_index' = cache_write_index
  /\ Running
  /\ Front' = Front /\ Taken' = Taken
  /\ down.segment => down'.segment
  /\ Filling' =>
       /\ Filling /\ Last' = Last
       /\ pending_event' = "UNKNOWN" =>
            pending_event = "UNKNOWN" /\ Rest' = Rest
  /\ Calm' /\ ~raced' /\ ~short' =>
       /\ Calm /\ ~raced /\ ~short
       /\ pending_event' = "UNKNOWN" <=> pending_event = "UNKNOWN"

LEMMA KeptRing == ASSUME RingInv, RingKept PROVE RingInv'
<1>1. PICK c \in 0 .. NUM_OF_CACHED_SEGMENTS : Ring(c)
  BY DEF RingInv, RingKept
<1>2. Shape(c)'
  BY <1>1 DEF Ring, RingKept, Shape, Ahead, Distance
<1>3. Order(c)'
  BY <1>1 DEF Ring, RingKept, Order, Distance, After, Complete
<1>4. ASSUME Filling' PROVE Growth(c)'
  <2>1. /\ Growth(c) /\ UNCHANGED <<slot, cache_read_index>>
        /\ pending_event' = "UNKNOWN" => cache_write_index' = cache_write_index
        /\ Last' = Last /\ Taken' = Taken
        /\ pending_event' = "UNKNOWN" => pending_event = "UNKNOWN" /\ Rest' = Rest
    BY <1>1, <1>4 DEF Ring, RingKept
  <2> QED BY <2>1 DEF Growth, Distance, After, Complete
<1>5. ASSUME Calm', ~raced', ~short' PROVE Whole(c)'
  <2>1. /\ Whole(c) /\ UNCHANGED <<slot, cache_read_index>>
        /\ pending_event' = "UNKNOWN" => cache_write_index' = cache_write_index
        /\ pending_event' = "UNKNOWN" <=> pending_event = "UNKNOWN"
    BY <1>1, <1>5 DEF Ring, RingKept
  <2>2. pending_event = "UNKNOWN" => Rest' = Rest
    BY <1>5, <2>1 DEF RingKept, Filling
  <2> QED BY <2>1, <2>2 DEF Whole, Distance, Complete
<1> QED BY <1>1, <1>2, <1>3, <1>4, <1>5 DEF RingInv, Ring

(* A segment claims the slot in front, which is free: the ring is one slot longer. *)
LEMMA ClaimRing ==
  ASSUME TypeOK, TypeOK', SlotInv, RingInv, Running,
         NEW j \in Slots, j = Front, slot[j].ready, Claim(j),
         cache_write_index' = j, src' = "end", src \notin {"push", "chain"},
         UNCHANGED <<cache_read_index, left, produced, accepted, inFlight, down, ctl, raced, short>>,
         pending_event # "UNKNOWN", pending_event' = "UNKNOWN", left = segStop, left > 0
  PROVE  RingInv'
<1> DEFINE N == NUM_OF_CACHED_SEGMENTS
<1>1. PICK c \in 0 .. N : Ring(c)
  BY DEF RingInv
<1>2. /\ cache_read_index \in Slots /\ N \in Nat /\ N > 0 /\ c \in Nat
      /\ Last' = Last /\ Taken' = Taken /\ Rest' = segStop
      /\ (Filling' => Filling) /\ (Calm' <=> Calm)
  BY DEF TypeOK, Last, Taken, Rest, Filling, Calm
<1>3. /\ slot'[j].size = segStop /\ slot'[j].rd = 0 /\ slot'[j].data = <<>>
      /\ \A i \in Slots : i # j => slot'[i] = slot[i]
  BY ClaimFields
<1>4. c < N /\ Distance(j) = c
  <2>1. slot[j].rd = slot[j].size
    BY DEF SlotInv
  <2>2. ~(Distance(j) < c)
    BY <1>1, <2>1, SlotTypes DEF Ring, Shape
  <2>3. j = Ahead(c)
    BY <1>1 DEF Ring, Shape
  <2> QED BY <1>2, <2>2, <2>3, AheadDistance
<1>5. \A i \in Slots : Distance(i)' = Distance(i) /\ Distance(i) \in Nat
  BY <1>2, Distances DEF Distance, Slots
<1>6. \A i \in Slots : Distance(i) = c <=> i = j
  BY <1>2, <1>4, Distances
<1>7. c + 1 \in 0 .. N /\ c + 1 > 0
  BY <1>2, <1>4
<1> HIDE DEF N
<1>8. Shape(c + 1)'
  <2>1. Front' = (Ahead(c + 1))'
    <3>1. Front' = After(j)
      BY DEF Front, After
    <3>2. j = Ahead(c)
      BY <1>1 DEF Ring, Shape
    <3>3. After(j) = Ahead(c + 1)
      BY <1>2, <1>4, <3>2, AheadDistance DEF N
    <3> QED BY <3>1, <3>3 DEF Ahead
  <2>2. ASSUME NEW i \in Slots
        PROVE  /\ slot'[i].rd < slot'[i].size <=> Distance(i) < c + 1
               /\ slot'[i].rd <= Len(slot'[i].data) /\ Len(slot'[i].data) <= slot'[i].size
               /\ 0 < Distance(i) /\ Distance(i) < c + 1 => slot'[i].rd = 0
               /\ slot'[i].data # <<>> => down'.segment
    <3>1. CASE i = j
      BY <1>2, <1>3, <1>4, <3>1 DEF TypeOK
    <3>2. CASE i # j
      <4>1. Distance(i) # c /\ Distance(i) \in Nat /\ slot'[i] = slot[i]
        BY <1>3, <1>5, <1>6, <3>2
      <4>2. /\ slot[i].rd < slot[i].size <=> Distance(i) < c
            /\ slot[i].rd <= Len(slot[i].data) /\ Len(slot[i].data) <= slot[i].size
            /\ 0 < Distance(i) /\ Distance(i) < c => slot[i].rd = 0
            /\ slot[i].data # <<>> => down.segment
        BY <1>1 DEF Ring, Shape
      <4>3. Distance(i) < c + 1 <=> Distance(i) < c
        BY <1>2, <4>1
      <4> QED BY <4>1, <4>2, <4>3
    <3> QED BY <3>1, <3>2
  <2> QED BY <1>5, <2>1, <2>2 DEF Shape
<1>9. Order(c + 1)'
  <2>1. Order(c)
    BY <1>1 DEF Ring
  <2>2. \A k \in slot'[cache_read_index].rd + 1 .. Len(slot'[cache_read_index].data) :
          slot'[cache_read_index].data[k] = Taken + k - slot'[cache_read_index].rd
    <3>1. CASE cache_read_index = j
      BY <1>3, <3>1
    <3>2. CASE cache_read_index # j
      <4>1. Distance(cache_read_index) = 0 /\ c # 0
        BY <1>2, <1>4, <3>2, Distances
      <4> QED BY <1>2, <1>3, <2>1, <3>2, <4>1 DEF Order
    <3> QED BY <3>1, <3>2
  <2>3. ASSUME NEW i \in Slots, Distance(i) + 1 < c + 1, Len(slot'[i].data) = slot'[i].size,
               NEW k \in 1 .. Len(slot'[After(i)].data)
        PROVE  slot'[After(i)].data[k] = slot'[i].data[slot'[i].size] + k
    <3>1. i # j /\ slot'[i] = slot[i]
      BY <1>2, <1>3, <1>4, <2>3
    <3>2. After(i) \in Slots
      BY <1>2, Distances
    <3>3. After(i) # j
      BY <1>3, <2>3
    <3>4. Distance(i) + 1 < c
      <4>1. Distance(i) \in Nat /\ Distance(i) + 1 <= c /\ c < N
        BY <1>2, <1>4, <1>5, <2>3
      <4>2. Distance(After(i)) = Distance(i) + 1
        BY <1>2, <4>1, Distances DEF N
      <4>3. Distance(After(i)) # c
        BY <1>6, <3>2, <3>3
      <4> QED BY <1>2, <4>1, <4>2, <4>3
    <3>5. slot'[After(i)] = slot[After(i)]
      BY <1>3, <3>2, <3>3
    <3> QED BY <2>1, <2>3, <3>1, <3>4, <3>5 DEF Order, Complete
  <2> QED BY <1>2, <1>5, <2>2, <2>3 DEF Order, Complete, After
<1>10. ASSUME Filling' PROVE Growth(c + 1)'
  <2>1. Growth(c)
    BY <1>1, <1>2, <1>10 DEF Ring
  <2>2. c + 1 = 1 => Last = Taken + Len(slot'[cache_read_index].data) - slot'[cache_read_index].rd
    <3> SUFFICES ASSUME c = 0
                 PROVE  Last = Taken + Len(slot'[cache_read_index].data) - slot'[cache_read_index].rd
      BY <1>2
    <3>1. cache_read_index = j
      BY <1>2, <1>6, Distances
    <3>2. Last = Taken /\ Taken \in Int
      BY <2>1 DEF Growth, Taken, TypeOK
    <3> QED BY <1>3, <3>1, <3>2
  <2>3. ASSUME NEW i \in Slots, Distance(i) + 2 = c + 1, Len(slot'[i].data) = slot'[i].size
        PROVE  Last = slot'[i].data[slot'[i].size] + Len(slot'[After(i)].data)
    <3>1. Distance(i) + 1 = c /\ i # j /\ slot'[i] = slot[i]
      BY <1>2, <1>3, <1>5, <1>4, <2>3
    <3>2. slot[i].rd < slot[i].size
      BY <1>1, <1>2, <1>5, <3>1 DEF Ring, Shape
    <3>3. Len(slot[i].data) = slot[i].size /\ slot[i].data # <<>>
      BY <2>3, <3>1, <3>2, SlotTypes
    <3>4. slot[i].data[slot[i].size] = Last
      BY <2>1, <3>1, <3>3 DEF Growth
    <3>5. After(i) = j
      BY <1>2, <1>4, <3>1, Distances
    <3>6. Last \in Int
      BY DEF Last, TypeOK
    <3> QED BY <1>3, <3>1, <3>4, <3>5, <3>6
  <2>4. ASSUME NEW i \in Slots, Distance(i) + 1 = c + 1 PROVE slot'[i].data = <<>>
    BY <1>2, <1>3, <1>5, <1>6, <2>4
  <2>5. Len(slot'[j].data) + segStop <= slot'[j].size
    BY <1>3 DEF TypeOK
  <2>6. c + 1 # 0
    BY <1>2
  <2> QED BY <1>2, <1>5, <2>2, <2>3, <2>4, <2>5, <2>6 DEF Growth, Complete, After
<1>11. ASSUME Calm', ~raced', ~short' PROVE Whole(c + 1)'
  <2>1. Whole(c)
    BY <1>1, <1>2, <1>11 DEF Ring
  <2>2. ASSUME NEW i \in Slots, Distance(i) + 1 < c + 1 PROVE Len(slot'[i].data) = slot'[i].size
    <3>1. i # j /\ slot'[i] = slot[i]
      BY <1>2, <1>3, <1>4, <2>2
    <3>2. Distance(i) + 1 < c \/ Distance(i) + 1 = c
      BY <1>2, <1>5, <2>2
    <3> QED BY <2>1, <3>1, <3>2 DEF Whole, Complete
  <2>3. Len(slot'[j].data) + segStop = slot'[j].size
    BY <1>3 DEF TypeOK
  <2> QED BY <1>2, <1>5, <2>2, <2>3 DEF Whole, Complete
<1>12. Ring(c + 1)'
  BY <1>8, <1>9, <1>10, <1>11 DEF Ring
<1> QED BY <1>7, <1>12 DEF RingInv, N

(* A block goes into the last slot of the ring.                                   *)
LEMMA WriteRing ==
  ASSUME TypeOK, SourceInv, RingInv, FlagInv, Running, HandleBlock
  PROVE  RingInv'
<1> DEFINE N == NUM_OF_CACHED_SEGMENTS
<1>1. PICK c \in 0 .. N : Ring(c)
  BY DEF RingInv
<1>2. /\ src = "chain" /\ src' = "end" /\ pending_event = "UNKNOWN" /\ slot' = Written(produced)
      /\ UNCHANGED <<cache_read_index, cache_write_index, left, produced, accepted, inFlight, down,
                     ctl, raced, short, pending_event>>
      /\ Filling
  BY DEF HandleBlock, Chain, SourceInv, Running, Open, Filling, Calm
<1>3. PICK w \in Slots : w = cache_write_index
  BY <1>1, <1>2 DEF Ring, Growth
<1>4. PICK n \in Nat, z \in Nat, q \in Nat, p \in Nat, l \in Nat, t \in Int :
        /\ n = Len(slot[w].data) /\ z = slot[w].size /\ q = slot[w].rd
        /\ p = produced /\ l = left /\ t = Taken
  <2>1. produced \in Nat /\ left \in Nat /\ Taken \in Int
    BY DEF TypeOK, Taken
  <2> QED BY <2>1, SlotTypes
<1>5. Growth(c) /\ n + (l + 1) <= z
  BY <1>3, <1>1, <1>2, <1>4 DEF Ring, Growth, Rest
<1>6. cache_read_index \in Slots /\ N \in Nat /\ N > 0 /\ c \in Nat
  BY DEF TypeOK
<1>7. slot[w].data \in Seq(Nat)
  BY SlotTypes
<1>8. /\ \A i \in Slots : /\ slot'[i].size = slot[i].size /\ slot'[i].rd = slot[i].rd
                          /\ i # w => slot'[i].data = slot[i].data
      /\ slot'[w].data = Append(slot[w].data, p)
  BY <1>3, <1>2, <1>4, WrittenFields
<1>9. /\ Len(slot'[w].data) = n + 1 /\ slot'[w].data[n + 1] = p
      /\ \A k \in 1 .. n : slot'[w].data[k] = slot[w].data[k]
      /\ slot'[w].data # <<>>
      /\ slot'[w].rd = q /\ slot'[w].size = z
  <2>1. /\ Len(slot'[w].data) = n + 1 /\ slot'[w].data[n + 1] = p
        /\ \A k \in 1 .. n : slot'[w].data[k] = slot[w].data[k]
    BY <1>7, <1>8, <1>4
  <2> QED BY <1>8, <1>4, <2>1
<1>10. /\ Last' = p /\ Last = p - 1 /\ Taken' = t /\ Rest' = l
      /\ down.segment
      /\ Front' = Front /\ Front = After(w)
  BY <1>3, <1>2, <1>4 DEF Last, Taken, Rest, Front, FlagInv, After
<1>11. Distance(w) + 1 = c
  <2>1. q <= n
    BY <1>1, <1>4 DEF Ring, Shape
  <2>2. q < z
    BY <1>5, <2>1
  <2>3. Distance(w) < c
    BY <1>1, <1>4, <2>2 DEF Ring, Shape
  <2>4. Distance(w) \in Nat
    BY <1>6, Distances DEF Slots
  <2>5. After(w) = Ahead(c) /\ c > 0
    BY <1>1, <1>6, <1>10, <2>3, <2>4 DEF Ring, Shape
  <2> QED BY <1>6, <2>5, AheadDistance
<1>12. \A i \in Slots : Distance(i)' = Distance(i) /\ Distance(i) \in Nat /\ After(i) \in Slots
  BY <1>2, <1>6, Distances DEF Distance, Slots
<1>13. \A i \in Slots : Distance(i) + 1 = c <=> i = w
  <2> SUFFICES ASSUME NEW i \in Slots, Distance(i) + 1 = c PROVE i = w
    BY <1>11
  <2>1. Distance(i) = Distance(w)
    BY <1>11, <1>12
  <2> QED BY <1>6, <2>1, Distances
<1>14. \A i \in Slots : Distance(i) + 2 = c => After(i) = w
  <2> SUFFICES ASSUME NEW i \in Slots, Distance(i) + 2 = c PROVE After(i) = w
    OBVIOUS
  <2>1. Distance(w) = Distance(i) + 1
    BY <1>11, <1>12
  <2> QED BY <1>6, <2>1, Distances
<1>15. \A i \in Slots : Distance(i) + 1 < c /\ After(i) = w => Distance(i) + 2 = c
  <2> SUFFICES ASSUME NEW i \in Slots, Distance(i) + 1 < c, After(i) = w PROVE Distance(i) + 2 = c
    OBVIOUS
  <2>1. Distance(i) \in Nat
    BY <1>12
  <2>2. Distance(After(i)) = Distance(i) + 1
    BY <1>6, <2>1, Distances
  <2> QED BY <1>11, <2>1, <2>2
(* The last block of a complete segment, which is not the one being written.      *)
<1>16. ASSUME NEW i \in Slots, Distance(i) + 1 < c, Complete(i)
       PROVE  /\ i # w /\ slot[i].data[slot[i].size] \in Int
              /\ slot'[i].data = slot[i].data /\ slot'[i].size = slot[i].size
  <2>1. slot[i].data \in Seq(Nat) /\ slot[i].size \in Nat /\ slot[i].rd \in Nat
    BY SlotTypes
  <2>2. slot[i].rd < slot[i].size
    BY <1>1, <1>6, <1>12, <1>16 DEF Ring, Shape
  <2>3. i # w
    BY <1>6, <1>11, <1>12, <1>16
  <2> QED BY <1>8, <1>16, <2>1, <2>2, <2>3 DEF Complete
<1>17. \A i \in Slots : Distance(i) + 1 <= c => (Complete(i)' => Complete(i) \/ i = w)
  BY <1>8 DEF Complete
<1> HIDE DEF N
<1>18. Shape(c)'
  <2>1. Front' = Ahead(c)'
    BY <1>1, <1>2, <1>10 DEF Ring, Shape, Ahead
  <2>2. ASSUME NEW i \in Slots
        PROVE  /\ slot'[i].rd < slot'[i].size <=> Distance(i) < c
               /\ slot'[i].rd <= Len(slot'[i].data) /\ Len(slot'[i].data) <= slot'[i].size
               /\ 0 < Distance(i) /\ Distance(i) < c => slot'[i].rd = 0
               /\ slot'[i].data # <<>> => down'.segment
    <3>1. /\ slot[i].rd < slot[i].size <=> Distance(i) < c
          /\ slot[i].rd <= Len(slot[i].data) /\ Len(slot[i].data) <= slot[i].size
          /\ 0 < Distance(i) /\ Distance(i) < c => slot[i].rd = 0
          /\ down'.segment
      BY <1>1, <1>2, <1>10 DEF Ring, Shape
    <3>2. CASE i = w
      <4>1. q <= n
        BY <1>4, <3>1, <3>2
      <4>2. q <= n + 1 /\ n + 1 <= z
        BY <1>5, <4>1
      <4> QED BY <1>8, <1>9, <3>1, <3>2, <4>2
    <3>3. CASE i # w
      BY <1>8, <3>1, <3>3
    <3> QED BY <3>2, <3>3
  <2> QED BY <1>12, <2>1, <2>2 DEF Shape
<1>19. Order(c)'
  <2>1. Order(c)
    BY <1>1 DEF Ring
  <2>2. ASSUME NEW k \in slot'[cache_read_index].rd + 1 .. Len(slot'[cache_read_index].data)
        PROVE  slot'[cache_read_index].data[k] = t + k - slot'[cache_read_index].rd
    <3>1. slot'[cache_read_index].rd = slot[cache_read_index].rd /\ slot[cache_read_index].rd \in Nat
      BY <1>6, <1>8, SlotTypes
    <3>2. c > 0
      BY <1>11, <1>12
    <3>3. CASE cache_read_index # w
      BY <1>6, <1>8, <1>4, <2>1, <2>2, <3>1, <3>2, <3>3 DEF Order
    <3>4. CASE cache_read_index = w
      <4>1. c = 1
        BY <1>6, <1>11, <3>4, Distances
      <4>2. p - 1 = t + n - q
        BY <1>5, <1>10, <1>4, <3>4, <4>1 DEF Growth
      <4>3. k \in q + 1 .. n + 1
        BY <1>9, <2>2, <3>4
      <4>4. CASE k = n + 1
        <5>1. slot'[w].data[k] = p /\ p = t + k - q
          BY <1>9, <4>2, <4>4
        <5> QED BY <1>9, <3>4, <5>1
      <4>5. CASE k # n + 1
        <5>1. k \in q + 1 .. n /\ k \in 1 .. n
          BY <4>3, <4>5
        <5>2. slot[w].data[k] = t + k - q
          BY <1>4, <2>1, <3>2, <3>4, <5>1 DEF Order
        <5> QED BY <1>9, <3>4, <5>1, <5>2
      <4> QED BY <4>4, <4>5
    <3> QED BY <3>3, <3>4
  <2>3. ASSUME NEW i \in Slots, Distance(i) + 1 < c, Complete(i)',
               NEW k \in 1 .. Len(slot'[After(i)].data)
        PROVE  slot'[After(i)].data[k] = slot'[i].data[slot'[i].size] + k
    <3>1. i # w
      BY <1>6, <1>11, <1>12, <2>3
    <3>2. Complete(i)
      BY <1>8, <2>3, <3>1 DEF Complete
    <3>3. PICK b \in Int : b = slot[i].data[slot[i].size] /\ b = slot'[i].data[slot'[i].size]
      BY <1>16, <2>3, <3>2
    <3>4. CASE After(i) # w
      <4>1. slot'[After(i)].data = slot[After(i)].data
        BY <1>8, <1>12, <3>4
      <4>2. slot[After(i)].data[k] = b + k
        BY <2>1, <2>3, <3>2, <3>3, <4>1 DEF Order
      <4> QED BY <3>3, <4>1, <4>2
    <3>5. CASE After(i) = w
      <4>1. p - 1 = b + n
        BY <1>5, <1>10, <1>15, <1>4, <2>3, <3>2, <3>3, <3>5 DEF Growth
      <4>2. k \in 1 .. n + 1
        BY <1>9, <2>3, <3>5
      <4>3. CASE k = n + 1
        <5>1. slot'[w].data[k] = p /\ p = b + k
          BY <1>9, <4>1, <4>3
        <5> QED BY <3>3, <3>5, <5>1
      <4>4. CASE k # n + 1
        <5>1. k \in 1 .. n
          BY <4>2, <4>4
        <5>2. slot[w].data[k] = b + k
          <6>1. k \in 1 .. Len(slot[After(i)].data)
            BY <1>4, <3>5, <5>1
          <6>2. slot[After(i)].data[k] = slot[i].data[slot[i].size] + k
            BY <2>1, <2>3, <3>2, <6>1 DEF Order
          <6> QED BY <3>3, <3>5, <6>2
        <5> QED BY <1>9, <3>3, <3>5, <5>1, <5>2
      <4> QED BY <4>3, <4>4
    <3> QED BY <3>4, <3>5
  <2> QED BY <1>2, <1>10, <1>12, <2>2, <2>3 DEF Order, Complete, After
<1>20. Growth(c)'
  <2>1. c # 0
    BY <1>11, <1>12
  <2>2. c = 1 => p = t + Len(slot'[cache_read_index].data) - slot'[cache_read_index].rd
    <3> SUFFICES ASSUME c = 1
                 PROVE  p = t + Len(slot'[cache_read_index].data) - slot'[cache_read_index].rd
      OBVIOUS
    <3>1. cache_read_index = w
      BY <1>6, <1>11, <1>12, Distances
    <3>2. p - 1 = t + n - q
      BY <1>5, <1>10, <1>4, <3>1 DEF Growth
    <3>3. p = t + (n + 1) - q
      BY <3>2
    <3> QED BY <1>9, <3>1, <3>3
  <2>3. ASSUME NEW i \in Slots, Distance(i) + 2 = c, Complete(i)'
        PROVE  p = slot'[i].data[slot'[i].size] + Len(slot'[After(i)].data)
    <3>1. After(i) = w /\ Distance(i) + 1 < c /\ i # w
      BY <1>6, <1>11, <1>12, <1>14, <2>3
    <3>2. Complete(i)
      BY <1>8, <2>3, <3>1 DEF Complete
    <3>3. PICK b \in Int : b = slot[i].data[slot[i].size] /\ b = slot'[i].data[slot'[i].size]
      BY <1>16, <3>1, <3>2
    <3>4. p - 1 = b + n
      BY <1>5, <1>10, <1>4, <2>3, <3>1, <3>2, <3>3 DEF Growth
    <3>5. p = b + (n + 1)
      BY <3>4
    <3> QED BY <1>9, <3>1, <3>3, <3>5
  <2>4. ASSUME NEW i \in Slots, Distance(i) + 1 = c PROVE slot'[i].data[Len(slot'[i].data)] = p
    BY <1>9, <1>13, <2>4
  <2>5. Len(slot'[w].data) + l <= slot'[w].size
    <3>1. n + 1 + l <= z
      BY <1>5
    <3> QED BY <1>9, <3>1
  <2> QED BY <1>3, <1>2, <1>10, <1>12, <2>1, <2>2, <2>3, <2>4, <2>5 DEF Growth, Complete, After
<1>21. ASSUME Calm', ~raced', ~short' PROVE Whole(c)'
  <2>1. Whole(c)
    BY <1>1, <1>2, <1>21 DEF Ring, Calm
  <2>2. ASSUME NEW i \in Slots, Distance(i) + 1 < c PROVE Complete(i)'
    BY <1>16, <2>1, <2>2 DEF Whole, Complete
  <2>3. n + (l + 1) = z
    BY <1>3, <1>2, <1>4, <2>1 DEF Whole, Rest
  <2>4. n + 1 + l = z
    BY <2>3
  <2>5. Len(slot'[w].data) + l = slot'[w].size
    BY <1>9, <2>4
  <2> QED BY <1>3, <1>2, <1>10, <1>12, <2>2, <2>5 DEF Whole, Complete
<1>22. Ring(c)'
  BY <1>18, <1>19, <1>20, <1>21 DEF Ring
<1> QED BY <1>22 DEF RingInv, N

LEMMA Shift ==
  \A q, m \in Nat : /\ m - (q + 1) + 1 = m - q
                    /\ \A k \in 1 .. m - q : (q + 1) + k - 1 = q + k
  OBVIOUS

(* The reader takes blocks from its slot, and goes on to the next slot when this  *)
(* was the rest of the segment.                                                   *)
LEMMA ReadRing ==
  ASSUME TypeOK, SourceInv, FlightInv, RingInv, Running, BufferStep, LoopRead
  PROVE  /\ RingInv'
         /\ down.segment
         /\ \A k \in 1 .. Len(inFlight') : inFlight'[k] = accepted + k
<1> DEFINE N == NUM_OF_CACHED_SEGMENTS
<1>1. PICK c \in 0 .. N : Ring(c)
  BY DEF RingInv
<1>2. PICK r \in Slots : r = cache_read_index
  BY DEF TypeOK
<1>3. PICK q \in Nat, n \in Nat, z \in Nat, a \in Nat, m \in Nat :
        /\ q = slot[r].rd /\ n = Len(slot[r].data) /\ z = slot[r].size /\ a = accepted
        /\ m = slot[r].rd + ReadSize(slot[r])
  <2>1. accepted \in Nat
    BY DEF TypeOK
  <2> QED BY <1>2, <2>1, ReadFields
<1>4. /\ q < n /\ q < m /\ m <= n
      /\ slot'[r].rd = m /\ slot'[r].size = z /\ slot'[r].data = slot[r].data
      /\ \A i \in Slots : i # r => slot'[i] = slot[i]
      /\ inFlight' = SubSeq(slot[r].data, q + 1, m)
      /\ cache_read_index' = IF m = z THEN (r + 1) % N ELSE r
      /\ slot[r].data \in Seq(Nat)
  BY <1>2, <1>3, ReadFields
<1>5. q < m /\ m <= n
  BY <1>4
<1>6. /\ UNCHANGED <<cache_write_index, down, ctl, produced, left, short, accepted, pending_event>>
      /\ loop \in {"idle", "woken"} /\ (~raced' => ~raced)
      /\ src \in {"push", "chain"} <=> src' \in {"push", "chain"}
      /\ src \in {"full", "wait", "woken"} <=> src' \in {"full", "wait", "woken"}
      /\ src = "chain" <=> src' = "chain"
  BY DEF LoopRead, LoopEnter, SignalDel, BufferStep
<1>7. c \in Nat /\ N \in Nat /\ N > 0 /\ c <= N
  OBVIOUS
<1>8. n <= z /\ down.segment /\ 0 < c
  <2>1. /\ n <= z /\ (slot[r].data # <<>> => down.segment)
        /\ q < z <=> Distance(r) < c
    BY <1>1, <1>3 DEF Ring, Shape
  <2>2. slot[r].data # <<>> /\ q < z
    <3>1. q < n /\ n > 0
      BY <1>5
    <3>2. q < z
      BY <2>1, <3>1
    <3>3. Len(slot[r].data) > 0
      BY <1>3, <3>1
    <3>4. slot[r].data # <<>>
      BY <3>3
    <3> QED BY <3>2, <3>4
  <2>3. Distance(r) = 0
    BY <1>2, Distances
  <2> QED BY <2>1, <2>2, <2>3
<1>9. /\ Taken = a /\ Taken' = a + (m - q) /\ Last' = Last /\ Rest' = Rest /\ Front' = Front
      /\ Len(inFlight') = m - q /\ \A k \in 1 .. m - q : inFlight'[k] = slot[r].data[q + k]
  <2>1. inFlight = <<>>
    BY <1>6 DEF FlightInv
  <2>2. Len(inFlight') = m - q /\ \A k \in 1 .. m - q : inFlight'[k] = slot[r].data[q + k]
    <3>1. /\ Len(inFlight') = m - (q + 1) + 1
          /\ \A k \in 1 .. m - (q + 1) + 1 : inFlight'[k] = slot[r].data[(q + 1) + k - 1]
      <4>1. q + 1 \in Int /\ m \in Int /\ q + 1 <= m
        BY <1>5
      <4>2. \A k \in q + 1 .. m : slot[r].data[k] \in Nat
        <5>1. \A k \in 1 .. n : slot[r].data[k] \in Nat
          <6>1. slot[r].data \in Seq(Nat) /\ n = Len(slot[r].data)
            BY <1>3, <1>4
          <6> QED BY <6>1
        <5>2. \A k \in q + 1 .. m : k \in 1 .. n
          BY <1>5
        <5> QED BY <5>1, <5>2
      <4> QED BY <1>4, <4>1, <4>2, SubSeqProperties
    <3>2. m - (q + 1) + 1 = m - q /\ \A k \in 1 .. m - q : (q + 1) + k - 1 = q + k
      BY Shift
    <3> QED BY <3>1, <3>2
  <2> QED BY <1>3, <1>6, <2>1, <2>2 DEF Taken, Last, Rest, Front, After
<1>10. \A k \in q + 1 .. n : slot[r].data[k] = a + k - q
  BY <1>1, <1>2, <1>3, <1>8, <1>9 DEF Ring, Order
<1>11. \A k \in 1 .. Len(inFlight') : inFlight'[k] = a + k
  <2> SUFFICES ASSUME NEW k \in 1 .. m - q PROVE inFlight'[k] = a + k
    BY <1>9
  <2>1. q + k \in q + 1 .. n /\ a + (q + k) - q = a + k
    BY <1>5
  <2> QED BY <1>9, <1>10, <2>1
<1>12. /\ Filling' => Filling /\ Growth(c)
       /\ Calm' /\ ~raced' /\ ~short' => Whole(c)
  BY <1>1, <1>6 DEF Ring, Filling, Calm
<1>13. \A i \in Slots : /\ slot'[i].size = slot[i].size /\ slot'[i].data = slot[i].data
                        /\ i # r => slot'[i].rd = slot[i].rd
                        /\ Complete(i)' <=> Complete(i)
  BY <1>3, <1>4 DEF Complete
<1>14. \A i \in Slots : Distance(i) \in Nat /\ Distance(i) < N /\ After(i) \in Slots
  BY <1>2, Distances DEF Slots
<1> HIDE DEF N
<1>15. CASE m # z
  <2>1. m < z /\ cache_read_index' = r
    <3>1. m < z
      BY <1>5, <1>8, <1>15
    <3>2. cache_read_index' = r
      BY <1>4, <1>15
    <3> QED BY <3>1, <3>2
  <2>2. \A i \in Slots : Distance(i)' = Distance(i)
    BY <1>2, <2>1 DEF Distance
  <2>3. Shape(c)'
    <3>1. Front' = Ahead(c)'
      BY <1>1, <1>2, <1>9, <2>1 DEF Ring, Shape, Ahead
    <3>2. ASSUME NEW i \in Slots
          PROVE  /\ slot'[i].rd < slot'[i].size <=> Distance(i) < c
                 /\ slot'[i].rd <= Len(slot'[i].data) /\ Len(slot'[i].data) <= slot'[i].size
                 /\ 0 < Distance(i) /\ Distance(i) < c => slot'[i].rd = 0
                 /\ slot'[i].data # <<>> => down'.segment
      <4>1. CASE i = r
        <5>1. Distance(r) = 0
          BY <1>2, Distances
        <5> QED BY <1>3, <1>4, <1>6, <1>7, <1>8, <2>1, <4>1, <5>1
      <4>2. CASE i # r
        BY <1>1, <1>4, <1>6, <4>2 DEF Ring, Shape
      <4> QED BY <4>1, <4>2
    <3> QED BY <2>2, <3>1, <3>2 DEF Shape
  <2>4. Order(c)'
    <3>1. ASSUME NEW k \in m + 1 .. n PROVE slot[r].data[k] = a + (m - q) + k - m
      <4>1. k \in q + 1 .. n /\ a + k - q = a + (m - q) + k - m
        BY <1>4, <3>1
      <4> QED BY <1>10, <4>1
    <3>2. ASSUME NEW i \in Slots, Distance(i) + 1 < c, Complete(i),
                 NEW k \in 1 .. Len(slot'[After(i)].data)
          PROVE  slot'[After(i)].data[k] = slot'[i].data[slot'[i].size] + k
      <4>1. /\ After(i) \in Slots /\ slot'[After(i)].data = slot[After(i)].data
            /\ slot'[i].data = slot[i].data /\ slot'[i].size = slot[i].size
        BY <1>13, <1>14, <3>2
      <4>2. Order(c)
        BY <1>1 DEF Ring
      <4>3. slot[After(i)].data[k] = slot[i].data[slot[i].size] + k
        BY <3>2, <4>1, <4>2 DEF Order
      <4> QED BY <4>1, <4>3
    <3>3. \A k \in slot'[r].rd + 1 .. Len(slot'[r].data) : slot'[r].data[k] = Taken' + k - slot'[r].rd
      BY <1>3, <1>4, <1>9, <3>1
    <3> QED BY <1>13, <2>1, <2>2, <3>2, <3>3 DEF Order, After
  <2>5. ASSUME Filling' PROVE Growth(c)'
    <3>1. Growth(c)
      BY <1>12, <2>5
    <3>2. c # 0
      BY <1>7, <1>8
    <3>3. c = 1 => Last = a + (m - q) + n - m
      <4>1. c = 1 => Last = a + n - q
        BY <1>2, <1>3, <1>9, <3>1 DEF Growth
      <4>2. a + n - q = a + (m - q) + n - m
        OBVIOUS
      <4> QED BY <4>1, <4>2
    <3>4. ASSUME NEW i \in Slots, Distance(i) + 2 = c, Complete(i)
          PROVE  Last = slot'[i].data[slot'[i].size] + Len(slot'[After(i)].data)
      BY <1>13, <1>14, <3>1, <3>4 DEF Growth
    <3>5. ASSUME NEW i \in Slots, Distance(i) + 1 = c, slot'[i].data # <<>>
          PROVE  slot'[i].data[Len(slot'[i].data)] = Last
      BY <1>13, <3>1, <3>5 DEF Growth
    <3>6. pending_event = "UNKNOWN" =>
            /\ cache_write_index \in Slots
            /\ Len(slot'[cache_write_index].data) + Rest <= slot'[cache_write_index].size
      BY <1>13, <3>1 DEF Growth
    <3> QED BY <1>3, <1>4, <1>6, <1>9, <1>13, <2>1, <2>2, <3>2, <3>3, <3>4, <3>5, <3>6
            DEF Growth, After
  <2>6. ASSUME Calm', ~raced', ~short' PROVE Whole(c)'
    <3>1. Whole(c) /\ (pending_event = "UNKNOWN" => cache_write_index \in Slots)
      BY <1>6, <1>12, <2>6 DEF Growth, Filling, Calm
    <3> QED BY <1>6, <1>9, <1>13, <2>2, <3>1 DEF Whole
  <2> QED BY <1>6, <1>8, <1>11, <2>3, <2>4, <2>5, <2>6, <1>3 DEF RingInv, Ring, N
<1>16. CASE m = z
  <2>1. n = z /\ Complete(r) /\ cache_read_index' = After(r)
    BY <1>3, <1>4, <1>8, <1>16, AfterMod DEF Complete, N
  <2>2. /\ \A i \in Slots : Distance(i)' = IF i = r THEN N - 1 ELSE Distance(i) - 1
        /\ (Ahead(c - 1))' = Ahead(c) /\ Distance(r) = 0
        /\ c - 1 \in 0 .. N
    BY <1>2, <1>7, <1>8, <2>1, MoveOn, Distances DEF N
  <2>3. \A i \in Slots : i # r => Distance(i) # 0
    BY <1>2, Distances
  <2>4. \A i \in Slots : /\ Distance(i)' + 1 < c - 1 => i # r /\ Distance(i) + 1 < c
                         /\ Distance(i)' + 2 = c - 1 => i # r /\ Distance(i) + 2 = c
                         /\ Distance(i)' + 1 = c - 1 => i # r /\ Distance(i) + 1 = c
    BY <1>7, <1>14, <2>2
  <2>5. slot[r].data[z] = a + (m - q)
    <3>1. z \in q + 1 .. n /\ a + z - q = a + (m - q)
      BY <1>4, <1>16, <2>1
    <3> QED BY <1>10, <3>1
  <2>6. Shape(c - 1)'
    <3>1. Front' = (Ahead(c - 1))'
      BY <1>1, <1>9, <2>2 DEF Ring, Shape
    <3>2. ASSUME NEW i \in Slots
          PROVE  /\ slot'[i].rd < slot'[i].size <=> Distance(i)' < c - 1
                 /\ slot'[i].rd <= Len(slot'[i].data) /\ Len(slot'[i].data) <= slot'[i].size
                 /\ 0 < Distance(i)' /\ Distance(i)' < c - 1 => slot'[i].rd = 0
                 /\ slot'[i].data # <<>> => down'.segment
      <4>1. CASE i = r
        <5>1. ~(N - 1 < c - 1) /\ ~(m < z)
          BY <1>7, <1>16
        <5> QED BY <1>3, <1>4, <1>6, <1>8, <2>1, <2>2, <4>1, <5>1
      <4>2. CASE i # r
        <5>1. Distance(i)' = Distance(i) - 1 /\ Distance(i) \in Nat /\ slot'[i] = slot[i]
          BY <1>4, <1>14, <2>2, <4>2
        <5>2. /\ Distance(i)' < c - 1 <=> Distance(i) < c
              /\ 0 < Distance(i)' => 0 < Distance(i)
          BY <1>7, <5>1
        <5> QED BY <1>1, <1>6, <5>1, <5>2 DEF Ring, Shape
      <4> QED BY <4>1, <4>2
    <3> QED BY <3>1, <3>2 DEF Shape
  <2>7. ASSUME c > 1
        PROVE  /\ After(r) # r /\ Distance(After(r)) = 1 /\ slot'[After(r)].rd = 0
               /\ Distance(r) + 1 < c
    <3>1. Distance(r) + 1 < N /\ Distance(r) + 1 < c
      BY <1>7, <2>2, <2>7
    <3>2. Distance(After(r)) = 1
      BY <1>2, <2>2, <3>1, Distances DEF N
    <3>3. slot[After(r)].rd = 0 /\ After(r) # r
      BY <1>1, <1>14, <2>2, <2>7, <3>2 DEF Ring, Shape
    <3> QED BY <1>13, <1>14, <3>1, <3>2, <3>3
  <2>8. Order(c - 1)'
    <3>1. ASSUME c - 1 > 0, NEW k \in slot'[After(r)].rd + 1 .. Len(slot'[After(r)].data)
          PROVE  slot'[After(r)].data[k] = a + (m - q) + k - slot'[After(r)].rd
      <4>1. slot'[After(r)].rd = 0 /\ Distance(r) + 1 < c
        BY <1>7, <2>7, <3>1
      <4>2. k \in 1 .. Len(slot[After(r)].data)
        BY <1>13, <1>14, <3>1, <4>1
      <4>3. slot[After(r)].data[k] = slot[r].data[z] + k
        BY <1>1, <1>3, <2>1, <4>1, <4>2 DEF Ring, Order
      <4>4. slot[After(r)].data[k] = a + (m - q) + k
        BY <2>5, <4>3
      <4>5. k \in Int /\ a + (m - q) + k = a + (m - q) + k - 0
        BY <3>1, <4>1
      <4> QED BY <1>13, <1>14, <4>1, <4>4, <4>5
    <3>2. ASSUME NEW i \in Slots, Distance(i)' + 1 < c - 1, Complete(i),
                 NEW k \in 1 .. Len(slot'[After(i)].data)
          PROVE  slot'[After(i)].data[k] = slot'[i].data[slot'[i].size] + k
      <4>1. Distance(i) + 1 < c /\ k \in 1 .. Len(slot[After(i)].data)
        BY <1>13, <1>14, <2>4, <3>2
      <4>2. slot[After(i)].data[k] = slot[i].data[slot[i].size] + k
        BY <1>1, <3>2, <4>1 DEF Ring, Order
      <4> QED BY <1>13, <1>14, <4>2
    <3> QED BY <1>9, <1>13, <2>1, <3>1, <3>2 DEF Order, After
  <2>9. ASSUME Filling' PROVE Growth(c - 1)'
    <3>1. Growth(c)
      BY <1>12, <2>9
    <3>2. c - 1 = 0 => Last = a + (m - q)
      <4>1. c = 1 => Last = a + n - q
        BY <1>2, <1>3, <1>9, <3>1 DEF Growth
      <4>2. a + n - q = a + (m - q)
        BY <1>16, <2>1
      <4> QED BY <1>7, <4>1, <4>2
    <3>3. c - 1 = 1 => Last = a + (m - q) + Len(slot'[After(r)].data) - slot'[After(r)].rd
      <4> SUFFICES ASSUME c = 2
                   PROVE  Last = a + (m - q) + Len(slot'[After(r)].data) - slot'[After(r)].rd
        BY <1>7
      <4>1. Last = slot[r].data[z] + Len(slot[After(r)].data)
        BY <1>3, <2>1, <2>2, <3>1 DEF Growth
      <4>2. PICK h \in Nat : h = Len(slot[After(r)].data)
        BY <1>14, SlotTypes
      <4>3. Last = a + (m - q) + h /\ a + (m - q) + h = a + (m - q) + h - 0
        BY <2>5, <4>1, <4>2
      <4>4. slot'[After(r)].rd = 0
        BY <1>13, <1>14, <2>7
      <4>5. Len(slot'[After(r)].data) = h
        BY <1>13, <1>14, <4>2
      <4> QED BY <4>3, <4>4, <4>5
    <3>4. ASSUME NEW i \in Slots, Distance(i)' + 2 = c - 1, Complete(i)
          PROVE  Last = slot'[i].data[slot'[i].size] + Len(slot'[After(i)].data)
      BY <1>13, <1>14, <2>4, <3>1, <3>4 DEF Growth
    <3>5. ASSUME NEW i \in Slots, Distance(i)' + 1 = c - 1, slot'[i].data # <<>>
          PROVE  slot'[i].data[Len(slot'[i].data)] = Last
      BY <1>13, <2>4, <3>1, <3>5 DEF Growth
    <3>6. pending_event = "UNKNOWN" =>
            /\ cache_write_index \in Slots
            /\ Len(slot'[cache_write_index].data) + Rest <= slot'[cache_write_index].size
      BY <1>13, <3>1 DEF Growth
    <3> QED BY <1>6, <1>9, <1>13, <2>1, <3>2, <3>3, <3>4, <3>5, <3>6 DEF Growth, After
  <2>10. ASSUME Calm', ~raced', ~short' PROVE Whole(c - 1)'
    <3>1. Whole(c) /\ (pending_event = "UNKNOWN" => cache_write_index \in Slots)
      BY <1>6, <1>12, <2>10 DEF Growth, Filling, Calm
    <3> QED BY <1>6, <1>9, <1>13, <2>4, <3>1 DEF Whole
  <2>11. Ring(c - 1)'
    BY <2>6, <2>8, <2>9, <2>10 DEF Ring
  <2> QED BY <1>3, <1>8, <1>11, <2>2, <2>11 DEF RingInv, N
<1> QED BY <1>15, <1>16

(* The end of a segment: the slot being written is complete, unless the read was  *)
(* short.                                                                         *)
LEMMA ReadEndRing ==
  ASSUME TypeOK, SourceInv, RingInv, Running, ReadEnd
  PROVE  RingInv'
<1>1. PICK c \in 0 .. NUM_OF_CACHED_SEGMENTS : Ring(c)
  BY DEF RingInv
<1>2. /\ UNCHANGED <<slot, cache_read_index, cache_write_index, ctl, down, raced>>
      /\ src = "read" /\ pending_event = "UNKNOWN" /\ pending_event' = "SEGMENT"
      /\ Front' = Front /\ Taken' = Taken /\ Last' = Last /\ Rest = left
      /\ ~short' => ~short /\ left = 0
      /\ (Filling' => Filling) /\ (Calm' <=> Calm)
  BY DEF ReadEnd, SourceInv, Front, Taken, Last, Rest, Filling, Calm, TypeOK
<1>3. Shape(c)' /\ Order(c)'
  BY <1>1, <1>2 DEF Ring, Shape, Order, Ahead, Distance, After, Complete
<1>4. ASSUME Filling' PROVE Growth(c)'
  BY <1>1, <1>2, <1>4 DEF Ring, Growth, Distance, After, Complete
<1>5. ASSUME Calm', ~raced', ~short' PROVE Whole(c)'
  <2>1. Whole(c) /\ Growth(c)
    BY <1>1, <1>2, <1>5 DEF Ring, Filling
  <2>2. PICK w \in Slots : w = cache_write_index
    BY <1>2, <2>1 DEF Growth
  <2>3. Complete(w)
    <3>1. Len(slot[w].data) + 0 = slot[w].size
      BY <1>2, <1>5, <2>1, <2>2 DEF Whole
    <3> QED BY <3>1, SlotTypes DEF Complete
  <2>4. ASSUME NEW i \in Slots, Distance(i) + 1 = c PROVE i = w
    <3>1. After(w) = Ahead(c)
      BY <1>1, <1>2, <2>2 DEF Ring, Shape, Front
    <3>2. cache_read_index \in Slots
      BY DEF TypeOK
    <3>3. Distance(i) \in Nat /\ Distance(w) \in Nat
      BY <3>2, Distances DEF Slots
    <3>4. c > 0
      BY <2>4, <3>3
    <3>5. Distance(w) + 1 = c
      BY <3>1, <3>2, <3>4, AheadDistance
    <3>6. Distance(i) = Distance(w)
      BY <2>4, <3>3, <3>5
    <3> QED BY <3>2, <3>6, Distances
  <2> QED BY <1>2, <2>1, <2>3, <2>4 DEF Whole, Distance, Complete
<1> QED BY <1>1, <1>3, <1>4, <1>5 DEF RingInv, Ring

(* FLUSH_STOP: the ring is empty, or an upstream thread that raced with the flush  *)
(* has claimed slot 0 for a segment that nobody will write.                        *)
LEMMA ResumeRing ==
  ASSUME TypeOK, TaskInv, SourceInv, FlightInv, ResetInv, SeekResume
  PROVE  RingInv'
<1> DEFINE N == NUM_OF_CACHED_SEGMENTS
<1>1. /\ ctl = "resume" /\ ctl \in Reset /\ ctl \in Halted /\ ctl \in Joined
      /\ UNCHANGED <<slot, cache_read_index, cache_write_index, src, inFlight, pending_event,
                     left, produced, raced>>
      /\ accepted' = 0
  BY DEF SeekResume, Reset, Halted, Joined
<1>2. src = "idle" /\ pending_event = "SEGMENT" /\ left = 0 /\ produced = 0
  BY <1>1 DEF SourceInv
<1>3. inFlight = <<>>
  BY <1>1 DEF TaskInv, FlightInv
<1>4. /\ cache_read_index = 0 /\ cache_write_index \in {-1, 0}
      /\ \A i \in Slots : slot[i].rd = 0 /\ slot[i].data = <<>>
      /\ \A i \in Slots : slot[i].size > 0 <=> i = cache_write_index
      /\ cache_write_index = 0 => raced
  BY <1>1 DEF ResetInv
<1>5. Last' = 0 /\ Taken' = 0 /\ Front' = After(cache_write_index)
  BY <1>1, <1>2, <1>3 DEF Last, Taken, Front, After
<1>6. N \in Nat /\ N > 0
  OBVIOUS
<1>7. \A i \in Slots : Distance(i)' = i /\ Distance(i) = i /\ slot[i].size \in Nat
  BY <1>1, <1>4, SlotTypes DEF Distance, Slots
<1> HIDE DEF N
<1>8. CASE cache_write_index = -1
  <2>1. Shape(0)'
    <3>1. Front' = (Ahead(0))'
      BY <1>1, <1>4, <1>5, <1>6, <1>8 DEF Ahead, After, N
    <3>2. ASSUME NEW i \in Slots
          PROVE  slot'[i].rd = 0 /\ slot'[i].size = 0 /\ slot'[i].data = <<>> /\ ~(Distance(i)' < 0)
      BY <1>1, <1>4, <1>7, <1>8, <3>2 DEF Slots
    <3> QED BY <3>1, <3>2 DEF Shape
  <2>2. Order(0)'
    BY <1>7 DEF Order, Slots
  <2>3. Growth(0)'
    BY <1>1, <1>2, <1>5, <1>7 DEF Growth, Slots
  <2>4. Whole(0)'
    BY <1>1, <1>2, <1>7 DEF Whole, Slots
  <2> QED BY <1>6, <2>1, <2>2, <2>3, <2>4 DEF RingInv, Ring, N
<1>9. CASE cache_write_index = 0
  <2>1. Shape(1)'
    <3>1. Front' = (Ahead(1))'
      BY <1>1, <1>4, <1>5, <1>6, <1>9 DEF Ahead, After, N
    <3>2. ASSUME NEW i \in Slots
          PROVE  /\ slot'[i].rd = 0 /\ slot'[i].data = <<>>
                 /\ slot'[i].rd < slot'[i].size <=> Distance(i)' < 1
                 /\ 0 <= slot'[i].size
      BY <1>1, <1>4, <1>7, <1>9, <3>2 DEF Slots
    <3> QED BY <3>1, <3>2 DEF Shape
  <2>2. Order(1)'
    <3>1. ASSUME NEW i \in Slots PROVE ~(Distance(i)' + 1 < 1)
      BY <1>7 DEF Slots
    <3>2. 0 \in Slots /\ slot'[cache_read_index'].data = <<>> /\ slot'[cache_read_index'].rd = 0
      BY <1>1, <1>4, <1>6 DEF Slots, N
    <3> QED BY <3>1, <3>2 DEF Order
  <2>3. Growth(1)'
    <3>1. ASSUME NEW i \in Slots PROVE Distance(i)' + 2 # 1 /\ slot'[i].data = <<>>
      BY <1>1, <1>4, <1>7 DEF Slots
    <3>2. 0 \in Slots /\ slot'[cache_read_index'].data = <<>> /\ slot'[cache_read_index'].rd = 0
      BY <1>1, <1>4, <1>6 DEF Slots, N
    <3> QED BY <1>1, <1>2, <1>5, <3>1, <3>2 DEF Growth
  <2>4. raced'
    BY <1>1, <1>4, <1>9
  <2> QED BY <1>6, <2>1, <2>2, <2>3, <2>4 DEF RingInv, Ring, N
<1> QED BY <1>4, <1>8, <1>9

(* The end of stream: the ring has been read to the end, and every block that was *)
(* read from the playlist has gone through it.                                     *)
LEMMA EosRing ==
  ASSUME TypeOK, TaskInv, FlagInv, SourceInv, FlightInv, RingInv, Calm, ~raced, ~short, LoopEos,
         ~(loop = "pushed" /\ loopResult # "OK")
  PROVE  sinkEos /\ accepted = produced /\ AtEnd /\ left = 0
<1>1. /\ srcresult = "OK" /\ ~HasData /\ is_eos
      /\ loop # "push" /\ (loop = "idle" => loopTask = "started")
  BY DEF LoopEos, LoopEnter
<1>2. sinkEos
  BY <1>1 DEF TaskInv
<1>3. src \in {"end", "idle"} /\ pending_event = "EOS"
  BY <1>2 DEF FlagInv, SourceInv
<1>4. AtEnd /\ left = 0
  BY <1>3 DEF SourceInv, Claiming
<1>5. PICK c \in 0 .. NUM_OF_CACHED_SEGMENTS : Ring(c)
  BY <1>1 DEF RingInv, Running, Open, Calm
<1>6. /\ Whole(c) /\ Growth(c) /\ Shape(c)
      /\ \A i \in Slots : Distance(i) + 1 <= c => Complete(i)
  <2>1. Whole(c) /\ Growth(c) /\ Shape(c)
    BY <1>5 DEF Ring, Filling
  <2>2. ASSUME NEW i \in Slots, Distance(i) + 1 <= c PROVE Complete(i)
    <3>1. cache_read_index \in Slots
      BY DEF TypeOK
    <3>2. Distance(i) \in Nat
      BY <3>1, Distances DEF Slots
    <3>3. Distance(i) + 1 < c \/ Distance(i) + 1 = c
      BY <2>2, <3>2
    <3> QED BY <1>3, <2>1, <3>3 DEF Whole
  <2> QED BY <2>1, <2>2
<1>7. c = 0
  <2> SUFFICES ASSUME c # 0 PROVE FALSE
    OBVIOUS
  <2>1. PICK r \in Slots : r = cache_read_index
    BY DEF TypeOK
  <2>2. Distance(r) = 0 /\ c > 0
    BY <2>1, Distances
  <2>3. Complete(r) /\ slot[r].rd < slot[r].size
    BY <1>6, <2>2 DEF Shape
  <2> QED BY <1>1, <2>1, <2>3, SlotTypes DEF HasData, Complete
<1>8. inFlight = <<>>
  BY <1>1 DEF FlightInv
<1>9. Last = Taken
  BY <1>6, <1>7 DEF Growth
<1>10. accepted = produced
  BY <1>3, <1>8, <1>9 DEF Last, Taken, TypeOK
<1> QED BY <1>2, <1>4, <1>10

----------------------------------------------------------------------------------
(* Apart from a read of the reader task, a claim, a write and the end of a        *)
(* segment, no step of a running element touches the ring; an element starts to   *)
(* run only at FLUSH_STOP.                                                        *)
LEMMA RunningStep ==
  ASSUME TypeOK, TaskInv, FlagInv, SourceInv, FlightInv, [Next]_vars, Running'
  PROVE  \/ RingKept
         \/ Running /\ (ReadEnd \/ HandleBlock \/ (BufferStep /\ LoopRead))
         \/ Running /\ HandleSegment /\ (SegmentSlot \/ SegmentWoken) /\ src' # "full"
         \/ SeekResume
<1>1. Next \/ UNCHANGED vars
  OBVIOUS
<1>2. CASE LoopCall
  BY <1>2 DEF TypeOK, TaskInv, FlagInv, SourceInv, FlightInv, RingKept, Open, Calm, Running,
     Filling, Claiming, InSinkPad, Front, Taken, Last, Rest, LoopCall
<1>3. CASE PushStreamStart
  BY <1>3 DEF TypeOK, TaskInv, FlagInv, SourceInv, FlightInv, RingKept, Open, Calm, Running,
     Filling, Claiming, InSinkPad, Front, Taken, Last, Rest, PushStreamStart
<1>4. CASE NextSegment
  BY <1>4 DEF TypeOK, TaskInv, FlagInv, SourceInv, FlightInv, RingKept, Open, Calm, Running,
     Filling, Claiming, InSinkPad, Front, Taken, Last, Rest, NextSegment
<1>5. CASE LastSegment
  BY <1>5 DEF TypeOK, TaskInv, FlagInv, SourceInv, FlightInv, RingKept, Open, Calm, Running,
     Filling, Claiming, InSinkPad, Front, Taken, Last, Rest, LastSegment, NoSegment
<1>6. CASE PushSegment
  BY <1>6 DEF TypeOK, TaskInv, FlagInv, SourceInv, FlightInv, RingKept, Open, Calm, Running,
     Filling, Claiming, InSinkPad, Front, Taken, Last, Rest, PushSegment
<1>7. CASE PushEos
  BY <1>7 DEF TypeOK, TaskInv, FlagInv, SourceInv, FlightInv, RingKept, Open, Calm, Running,
     Filling, Claiming, InSinkPad, Front, Taken, Last, Rest, PushEos, EosEvent, SignalAdd
<1>8. CASE ReadBlock
  BY <1>8 DEF TypeOK, TaskInv, FlagInv, SourceInv, FlightInv, RingKept, Open, Calm, Running,
     Filling, Claiming, InSinkPad, Front, Taken, Last, Rest, ReadBlock
<1>9. CASE ReadEnd
  BY <1>9 DEF Running, Open, ReadEnd
<1>10. CASE ReadError
  BY <1>10 DEF TypeOK, TaskInv, FlagInv, SourceInv, FlightInv, RingKept, Open, Calm, Running,
     Filling, Claiming, InSinkPad, Front, Taken, Last, Rest, ReadError
<1>11. CASE PushBlock
  BY <1>11 DEF TypeOK, TaskInv, FlagInv, SourceInv, FlightInv, RingKept, Open, Calm, Running,
     Filling, Claiming, InSinkPad, Front, Taken, Last, Rest, PushBlock
<1>12. CASE HandleBlock
  BY <1>12 DEF Running, Open, HandleBlock, Chain, SignalAdd
<1>13. CASE LoopReturn
  BY <1>13 DEF TypeOK, TaskInv, FlagInv, SourceInv, FlightInv, RingKept, Open, Calm, Running,
     Filling, Claiming, InSinkPad, Front, Taken, Last, Rest, LoopReturn
<1>14. CASE HandleSegment /\ SegmentCheck
  BY <1>14 DEF TypeOK, TaskInv, FlagInv, SourceInv, FlightInv, RingKept, Open, Calm, Running,
     Filling, Claiming, InSinkPad, Front, Taken, Last, Rest, HandleSegment, SegmentCheck
<1>15. CASE HandleSegment /\ SegmentOpen
  BY <1>15 DEF TypeOK, TaskInv, FlagInv, SourceInv, FlightInv, RingKept, Open, Calm, Running,
     Filling, Claiming, InSinkPad, Front, Taken, Last, Rest, HandleSegment, SegmentOpen
<1>16. CASE HandleSegment /\ SegmentSlot
  <2>1. Running
    BY <1>16 DEF HandleSegment, SegmentSlot, Running, Open
  <2>2. CASE src' = "full"
    <3>1. cache_write_index' = After(cache_write_index)
      BY <1>16, AfterMod DEF SegmentSlot, TypeOK
    <3>2. RingKept
      BY <1>16, <2>1, <2>2, <3>1
      DEF TypeOK, SourceInv, HandleSegment, SegmentSlot, Claiming, RingKept, Open, Calm,
          Running, Filling, Front, Taken, Last, Rest
    <3> QED BY <3>2
  <2> QED BY <1>16, <2>1, <2>2
<1>17. CASE HandleSegment /\ SegmentFull
  BY <1>17 DEF TypeOK, TaskInv, FlagInv, SourceInv, FlightInv, RingKept, Open, Calm, Running,
     Filling, Claiming, InSinkPad, Front, Taken, Last, Rest, HandleSegment, SegmentFull
<1>18. CASE HandleSegment /\ SegmentWoken
  <2>1. Running
    BY <1>18 DEF HandleSegment, SegmentWoken, Running, Open
  <2>2. CASE src' = "full"
    BY <1>18, <2>1, <2>2
    DEF TypeOK, SourceInv, HandleSegment, SegmentWoken, Claiming, RingKept, Open, Calm,
        Running, Filling, Front, Taken, Last, Rest
  <2> QED BY <1>18, <2>1, <2>2
<1>19. CASE BufferStep /\ LoopWait
  BY <1>19 DEF TypeOK, TaskInv, FlagInv, SourceInv, FlightInv, RingKept, Open, Calm, Running,
     Filling, Claiming, InSinkPad, Front, Taken, Last, Rest, BufferStep, LoopWait, LoopEnter
<1>20. CASE BufferStep /\ LoopEos
  BY <1>20 DEF TypeOK, TaskInv, FlagInv, SourceInv, FlightInv, RingKept, Open, Calm, Running,
     Filling, Claiming, InSinkPad, Front, Taken, Last, Rest, BufferStep, LoopEos, LoopEnter
<1>21. CASE BufferStep /\ LoopStop
  BY <1>21 DEF TypeOK, TaskInv, FlagInv, SourceInv, FlightInv, RingKept, Open, Calm, Running,
     Filling, Claiming, InSinkPad, Front, Taken, Last, Rest, BufferStep, LoopStop, LoopEnter
<1>22. CASE BufferStep /\ LoopRead
  BY <1>22 DEF Running, Open, BufferStep, LoopRead, LoopEnter, SignalDel
<1>23. CASE BufferStep /\ LoopPush
  BY <1>23 DEF TypeOK, TaskInv, FlagInv, SourceInv, FlightInv, RingKept, Open, Calm, Running,
     Filling, Claiming, InSinkPad, Front, Taken, Last, Rest, BufferStep, LoopPush
<1>24. CASE BufferStep /\ LoopResult
  BY <1>24 DEF TypeOK, TaskInv, FlagInv, SourceInv, FlightInv, RingKept, Open, Calm, Running,
     Filling, Claiming, InSinkPad, Front, Taken, Last, Rest, BufferStep, LoopResult
<1>25. CASE BufferStep /\ LoopLast
  BY <1>25 DEF TypeOK, TaskInv, FlagInv, SourceInv, FlightInv, RingKept, Open, Calm, Running,
     Filling, Claiming, InSinkPad, Front, Taken, Last, Rest, BufferStep, LoopLast
<1>26. CASE FlushStep /\ FlushStart
  BY <1>26 DEF TypeOK, TaskInv, FlagInv, SourceInv, FlightInv, RingKept, Open, Calm, Running,
     Filling, Claiming, InSinkPad, Front, Taken, Last, Rest, FlushStep, FlushStart
<1>27. CASE FlushStep /\ FlushDown
  BY <1>27 DEF TypeOK, TaskInv, FlagInv, SourceInv, FlightInv, RingKept, Open, Calm, Running,
     Filling, Claiming, InSinkPad, Front, Taken, Last, Rest, FlushStep, FlushDown
<1>28. CASE FlushStep /\ FlushReset
  BY <1>28 DEF TypeOK, TaskInv, FlagInv, SourceInv, FlightInv, RingKept, Open, Calm, Running,
     Filling, Claiming, InSinkPad, Front, Taken, Last, Rest, FlushStep, FlushReset, FlushData,
     SignalAdd, SignalDel
<1>29. CASE FlushStep /\ FlushPause
  BY <1>29 DEF TypeOK, TaskInv, FlagInv, SourceInv, FlightInv, RingKept, Open, Calm, Running,
     Filling, Claiming, InSinkPad, Front, Taken, Last, Rest, FlushStep, FlushPause
<1>30. CASE FlushStep /\ FlushJoin
  BY <1>30 DEF TypeOK, TaskInv, FlagInv, SourceInv, FlightInv, RingKept, Open, Calm, Running,
     Filling, Claiming, InSinkPad, Front, Taken, Last, Rest, FlushStep, FlushJoin
<1>31. CASE FlushStep /\ StopReset
  BY <1>31 DEF TypeOK, TaskInv, FlagInv, SourceInv, FlightInv, RingKept, Open, Calm, Running,
     Filling, Claiming, InSinkPad, Front, Taken, Last, Rest, FlushStep, StopReset, FlushData,
     SignalAdd, SignalDel
<1>32. CASE FlushStep /\ StopSrcPad
  BY <1>32 DEF TypeOK, TaskInv, FlagInv, SourceInv, FlightInv, RingKept, Open, Calm, Running,
     Filling, Claiming, InSinkPad, Front, Taken, Last, Rest, FlushStep, StopSrcPad, SignalAdd,
     SignalDel
<1>33. CASE FlushStep /\ StopSinkPad
  BY <1>33 DEF TypeOK, TaskInv, FlagInv, SourceInv, FlightInv, RingKept, Open, Calm, Running,
     Filling, Claiming, InSinkPad, Front, Taken, Last, Rest, FlushStep, StopSinkPad
<1>34. CASE SeekFlushing
  BY <1>34 DEF TypeOK, TaskInv, FlagInv, SourceInv, FlightInv, RingKept, Open, Calm, Running,
     Filling, Claiming, InSinkPad, Front, Taken, Last, Rest, SeekFlushing
<1>35. CASE SeekData
  BY <1>35 DEF TypeOK, TaskInv, FlagInv, SourceInv, FlightInv, RingKept, Open, Calm, Running,
     Filling, Claiming, InSinkPad, Front, Taken, Last, Rest, SeekData
<1>36. CASE StopSource
  BY <1>36 DEF TypeOK, TaskInv, FlagInv, SourceInv, FlightInv, RingKept, Open, Calm, Running,
     Filling, Claiming, InSinkPad, Front, Taken, Last, Rest, StopSource
<1>37. CASE StopEnd
  BY <1>37 DEF TypeOK, TaskInv, FlagInv, SourceInv, FlightInv, RingKept, Open, Calm, Running,
     Filling, Claiming, InSinkPad, Front, Taken, Last, Rest, StopEnd
<1>38. CASE SeekBegin
  BY <1>38 DEF TypeOK, TaskInv, FlagInv, SourceInv, FlightInv, RingKept, Open, Calm, Running,
     Filling, Claiming, InSinkPad, Front, Taken, Last, Rest, SeekBegin
<1>39. CASE StopBegin
  BY <1>39 DEF TypeOK, TaskInv, FlagInv, SourceInv, FlightInv, RingKept, Open, Calm, Running,
     Filling, Claiming, InSinkPad, Front, Taken, Last, Rest, StopBegin
<1>40. CASE UNCHANGED vars
  BY <1>40 DEF TypeOK, TaskInv, FlagInv, SourceInv, FlightInv, RingKept, Open, Calm, Running,
     Filling, Claiming, InSinkPad, Front, Taken, Last, Rest, vars, bufVars
<1>41. CASE LoadFails
  BY <1>41 DEF TypeOK, TaskInv, FlagInv, SourceInv, FlightInv, RingKept, Open, Calm, Running,
     Filling, Claiming, InSinkPad, Front, Taken, Last, Rest, LoadFails, NoSegment
<1> QED
  BY <1>1, <1>2, <1>3, <1>4, <1>5, <1>6, <1>7, <1>8, <1>9, <1>10, <1>11, <1>12, <1>13, <1>14,
     <1>15, <1>16, <1>17, <1>18, <1>19, <1>20, <1>21, <1>22, <1>23, <1>24, <1>25, <1>26, <1>27,
     <1>28, <1>29, <1>30, <1>31, <1>32, <1>33, <1>34, <1>35, <1>36, <1>37, <1>38, <1>39, <1>40, <1>41
  DEF Next, SrcStep, HandleSegment, SegmentStep, BufferStep, LoopStep, ControlStep, FlushStep, CtlStep

(* The steps keep the five invariants about the flags, the upstream thread, the    *)
(* reader, the slots and a flushed ring.                                          *)
LEMMA FlagStep ==
  ASSUME TypeOK, TaskInv, FlagInv, SourceInv, [Next]_vars, ~seekFailed'
  PROVE  FlagInv'
<1>1. Next \/ UNCHANGED vars
  OBVIOUS
<1>2. CASE LoopCall
  BY <1>2 DEF TypeOK, TaskInv, FlagInv, SourceInv, Open, Calm, Running, Filling, Claiming,
     Reset, InSinkPad, LoopCall
<1>3. CASE PushStreamStart
  BY <1>3 DEF TypeOK, TaskInv, FlagInv, SourceInv, Open, Calm, Running, Filling, Claiming,
     Reset, InSinkPad, PushStreamStart
<1>4. CASE NextSegment
  BY <1>4 DEF TypeOK, TaskInv, FlagInv, SourceInv, Open, Calm, Running, Filling, Claiming,
     Reset, InSinkPad, NextSegment
<1>5. CASE LastSegment
  BY <1>5 DEF TypeOK, TaskInv, FlagInv, SourceInv, Open, Calm, Running, Filling, Claiming,
     Reset, InSinkPad, LastSegment, NoSegment
<1>6. CASE PushSegment
  BY <1>6 DEF TypeOK, TaskInv, FlagInv, SourceInv, Open, Calm, Running, Filling, Claiming,
     Reset, InSinkPad, PushSegment
<1>7. CASE PushEos
  BY <1>7 DEF TypeOK, TaskInv, FlagInv, SourceInv, Open, Calm, Running, Filling, Claiming,
     Reset, InSinkPad, PushEos, EosEvent, SignalAdd
<1>8. CASE ReadBlock
  BY <1>8 DEF TypeOK, TaskInv, FlagInv, SourceInv, Open, Calm, Running, Filling, Claiming,
     Reset, InSinkPad, ReadBlock
<1>9. CASE ReadEnd
  BY <1>9 DEF TypeOK, TaskInv, FlagInv, SourceInv, Open, Calm, Running, Filling, Claiming,
     Reset, InSinkPad, ReadEnd
<1>10. CASE ReadError
  BY <1>10 DEF TypeOK, TaskInv, FlagInv, SourceInv, Open, Calm, Running, Filling, Claiming,
     Reset, InSinkPad, ReadError
<1>11. CASE PushBlock
  BY <1>11 DEF TypeOK, TaskInv, FlagInv, SourceInv, Open, Calm, Running, Filling, Claiming,
     Reset, InSinkPad, PushBlock
<1>12. CASE HandleBlock
  BY <1>12 DEF TypeOK, TaskInv, FlagInv, SourceInv, Open, Calm, Running, Filling, Claiming,
     Reset, InSinkPad, HandleBlock, Chain, SignalAdd
<1>13. CASE LoopReturn
  BY <1>13 DEF TypeOK, TaskInv, FlagInv, SourceInv, Open, Calm, Running, Filling, Claiming,
     Reset, InSinkPad, LoopReturn
<1>14. CASE HandleSegment /\ SegmentCheck
  BY <1>14 DEF TypeOK, TaskInv, FlagInv, SourceInv, Open, Calm, Running, Filling, Claiming,
     Reset, InSinkPad, HandleSegment, SegmentCheck
<1>15. CASE HandleSegment /\ SegmentOpen
  BY <1>15 DEF TypeOK, TaskInv, FlagInv, SourceInv, Open, Calm, Running, Filling, Claiming,
     Reset, InSinkPad, HandleSegment, SegmentOpen
<1>16. CASE HandleSegment /\ SegmentSlot
  BY <1>16 DEF TypeOK, TaskInv, FlagInv, SourceInv, Open, Calm, Running, Filling, Claiming,
     Reset, InSinkPad, HandleSegment, SegmentSlot, Claim
<1>17. CASE HandleSegment /\ SegmentFull
  BY <1>17 DEF TypeOK, TaskInv, FlagInv, SourceInv, Open, Calm, Running, Filling, Claiming,
     Reset, InSinkPad, HandleSegment, SegmentFull
<1>18. CASE HandleSegment /\ SegmentWoken
  BY <1>18 DEF TypeOK, TaskInv, FlagInv, SourceInv, Open, Calm, Running, Filling, Claiming,
     Reset, InSinkPad, HandleSegment, SegmentWoken, Claim
<1>19. CASE BufferStep /\ LoopWait
  BY <1>19 DEF TypeOK, TaskInv, FlagInv, SourceInv, Open, Calm, Running, Filling, Claiming,
     Reset, InSinkPad, BufferStep, LoopWait, LoopEnter
<1>20. CASE BufferStep /\ LoopEos
  BY <1>20 DEF TypeOK, TaskInv, FlagInv, SourceInv, Open, Calm, Running, Filling, Claiming,
     Reset, InSinkPad, BufferStep, LoopEos, LoopEnter
<1>21. CASE BufferStep /\ LoopStop
  BY <1>21 DEF TypeOK, TaskInv, FlagInv, SourceInv, Open, Calm, Running, Filling, Claiming,
     Reset, InSinkPad, BufferStep, LoopStop, LoopEnter
<1>22. CASE BufferStep /\ LoopRead
  BY <1>22 DEF TypeOK, TaskInv, FlagInv, SourceInv, Open, Calm, Running, Filling, Claiming,
     Reset, InSinkPad, BufferStep, LoopRead, LoopEnter, SignalDel
<1>23. CASE BufferStep /\ LoopPush
  BY <1>23 DEF TypeOK, TaskInv, FlagInv, SourceInv, Open, Calm, Running, Filling, Claiming,
     Reset, InSinkPad, BufferStep, LoopPush
<1>24. CASE BufferStep /\ LoopResult
  BY <1>24 DEF TypeOK, TaskInv, FlagInv, SourceInv, Open, Calm, Running, Filling, Claiming,
     Reset, InSinkPad, BufferStep, LoopResult
<1>25. CASE BufferStep /\ LoopLast
  BY <1>25 DEF TypeOK, TaskInv, FlagInv, SourceInv, Open, Calm, Running, Filling, Claiming,
     Reset, InSinkPad, BufferStep, LoopLast
<1>26. CASE FlushStep /\ FlushStart
  BY <1>26 DEF TypeOK, TaskInv, FlagInv, SourceInv, Open, Calm, Running, Filling, Claiming,
     Reset, InSinkPad, FlushStep, FlushStart
<1>27. CASE FlushStep /\ FlushDown
  BY <1>27 DEF TypeOK, TaskInv, FlagInv, SourceInv, Open, Calm, Running, Filling, Claiming,
     Reset, InSinkPad, FlushStep, FlushDown
<1>28. CASE FlushStep /\ FlushReset
  BY <1>28 DEF TypeOK, TaskInv, FlagInv, SourceInv, Open, Calm, Running, Filling, Claiming,
     Reset, InSinkPad, FlushStep, FlushReset, FlushData, SignalAdd, SignalDel
<1>29. CASE FlushStep /\ FlushPause
  BY <1>29 DEF TypeOK, TaskInv, FlagInv, SourceInv, Open, Calm, Running, Filling, Claiming,
     Reset, InSinkPad, FlushStep, FlushPause
<1>30. CASE FlushStep /\ FlushJoin
  BY <1>30 DEF TypeOK, TaskInv, FlagInv, SourceInv, Open, Calm, Running, Filling, Claiming,
     Reset, InSinkPad, FlushStep, FlushJoin
<1>31. CASE FlushStep /\ StopReset
  BY <1>31 DEF TypeOK, TaskInv, FlagInv, SourceInv, Open, Calm, Running, Filling, Claiming,
     Reset, InSinkPad, FlushStep, StopReset, FlushData, SignalAdd, SignalDel
<1>32. CASE FlushStep /\ StopSrcPad
  BY <1>32 DEF TypeOK, TaskInv, FlagInv, SourceInv, Open, Calm, Running, Filling, Claiming,
     Reset, InSinkPad, FlushStep, StopSrcPad, SignalAdd, SignalDel
<1>33. CASE FlushStep /\ StopSinkPad
  BY <1>33 DEF TypeOK, TaskInv, FlagInv, SourceInv, Open, Calm, Running, Filling, Claiming,
     Reset, InSinkPad, FlushStep, StopSinkPad
<1>34. CASE SeekFlushing
  BY <1>34 DEF TypeOK, TaskInv, FlagInv, SourceInv, Open, Calm, Running, Filling, Claiming,
     Reset, InSinkPad, SeekFlushing
<1>35. CASE SeekData
  BY <1>35 DEF TypeOK, TaskInv, FlagInv, SourceInv, Open, Calm, Running, Filling, Claiming,
     Reset, InSinkPad, SeekData
<1>36. CASE SeekResume
  <2>1. src' = "idle" /\ pending_event' = "SEGMENT" /\ ctl' = "idle"
    BY <1>36 DEF SeekResume, SourceInv
  <2>2. loop' # "pushed" /\ srcresult' = "OK"
    BY <1>36 DEF SeekResume, FlushStop, TaskInv, Halted, Joined
  <2>3. /\ ~down'.flushing /\ ~down'.segment /\ ~down'.eos
        /\ ~sinkFlushing' /\ ~is_flushing' /\ ~sinkEos' /\ send_new_segment'
    BY <1>36 DEF SeekResume, FlushStop
  <2> QED BY <2>1, <2>2, <2>3 DEF FlagInv, Open, Calm, Running, Filling
<1>37. CASE StopSource
  BY <1>37 DEF TypeOK, TaskInv, FlagInv, SourceInv, Open, Calm, Running, Filling, Claiming,
     Reset, InSinkPad, StopSource
<1>38. CASE StopEnd
  BY <1>38 DEF TypeOK, TaskInv, FlagInv, SourceInv, Open, Calm, Running, Filling, Claiming,
     Reset, InSinkPad, StopEnd
<1>39. CASE SeekBegin
  BY <1>39 DEF TypeOK, TaskInv, FlagInv, SourceInv, Open, Calm, Running, Filling, Claiming,
     Reset, InSinkPad, SeekBegin
<1>40. CASE StopBegin
  BY <1>40 DEF TypeOK, TaskInv, FlagInv, SourceInv, Open, Calm, Running, Filling, Claiming,
     Reset, InSinkPad, StopBegin
<1>41. CASE UNCHANGED vars
  BY <1>41 DEF TypeOK, TaskInv, FlagInv, SourceInv, Open, Calm, Running, Filling, Claiming,
     Reset, InSinkPad, vars, bufVars
<1>42. CASE LoadFails
  BY <1>42 DEF TypeOK, TaskInv, FlagInv, SourceInv, Open, Calm, Running, Filling, Claiming,
     Reset, InSinkPad, LoadFails, NoSegment
<1> QED
  BY <1>1, <1>2, <1>3, <1>4, <1>5, <1>6, <1>7, <1>8, <1>9, <1>10, <1>11, <1>12, <1>13, <1>14,
     <1>15, <1>16, <1>17, <1>18, <1>19, <1>20, <1>21, <1>22, <1>23, <1>24, <1>25, <1>26, <1>27, <1>28,
     <1>29, <1>30, <1>31, <1>32, <1>33, <1>34, <1>35, <1>36, <1>37, <1>38, <1>39, <1>40, <1>41,
     <1>42
  DEF Next, SrcStep, HandleSegment, SegmentStep, BufferStep, LoopStep, ControlStep, FlushStep, CtlStep

LEMMA SourceStep ==
  ASSUME 0 \notin SegmentSizes, TypeOK, FlagInv, SourceInv, [Next]_vars, ~seekFailed'
  PROVE  SourceInv'
<1>1. Next \/ UNCHANGED vars
  OBVIOUS
<1>2. CASE LoopCall
  BY <1>2 DEF TypeOK, FlagInv, SourceInv, AtEnd, Open, Calm, Claiming, LoopCall
<1>3. CASE PushStreamStart
  BY <1>3 DEF TypeOK, FlagInv, SourceInv, AtEnd, Open, Calm, Claiming, PushStreamStart
<1>4. CASE NextSegment
  BY <1>4 DEF TypeOK, FlagInv, SourceInv, AtEnd, Open, Calm, Claiming, NextSegment
<1>5. CASE LastSegment
  BY <1>5 DEF TypeOK, FlagInv, SourceInv, AtEnd, Open, Calm, Claiming, LastSegment, NoSegment
<1>6. CASE PushSegment
  BY <1>6 DEF TypeOK, FlagInv, SourceInv, AtEnd, Open, Calm, Claiming, PushSegment
<1>7. CASE PushEos
  BY <1>7 DEF TypeOK, FlagInv, SourceInv, AtEnd, Open, Calm, Claiming, PushEos, EosEvent, SignalAdd
<1>8. CASE ReadBlock
  BY <1>8 DEF TypeOK, FlagInv, SourceInv, AtEnd, Open, Calm, Claiming, ReadBlock
<1>9. CASE ReadEnd
  BY <1>9 DEF TypeOK, FlagInv, SourceInv, AtEnd, Open, Calm, Claiming, ReadEnd
<1>10. CASE ReadError
  BY <1>10 DEF TypeOK, FlagInv, SourceInv, AtEnd, Open, Calm, Claiming, ReadError
<1>11. CASE PushBlock
  BY <1>11 DEF TypeOK, FlagInv, SourceInv, AtEnd, Open, Calm, Claiming, PushBlock
<1>12. CASE HandleBlock
  BY <1>12 DEF TypeOK, FlagInv, SourceInv, AtEnd, Open, Calm, Claiming, HandleBlock, Chain, SignalAdd
<1>13. CASE LoopReturn
  BY <1>13 DEF TypeOK, FlagInv, SourceInv, AtEnd, Open, Calm, Claiming, LoopReturn
<1>14. CASE HandleSegment /\ SegmentCheck
  BY <1>14 DEF TypeOK, FlagInv, SourceInv, AtEnd, Open, Calm, Claiming, HandleSegment, SegmentCheck
<1>15. CASE HandleSegment /\ SegmentOpen
  BY <1>15 DEF TypeOK, FlagInv, SourceInv, AtEnd, Open, Calm, Claiming, HandleSegment, SegmentOpen
<1>16. CASE HandleSegment /\ SegmentSlot
  BY <1>16 DEF TypeOK, FlagInv, SourceInv, AtEnd, Open, Calm, Claiming, HandleSegment, SegmentSlot,
     Claim
<1>17. CASE HandleSegment /\ SegmentFull
  BY <1>17 DEF TypeOK, FlagInv, SourceInv, AtEnd, Open, Calm, Claiming, HandleSegment, SegmentFull
<1>18. CASE HandleSegment /\ SegmentWoken
  BY <1>18 DEF TypeOK, FlagInv, SourceInv, AtEnd, Open, Calm, Claiming, HandleSegment, SegmentWoken,
     Claim
<1>19. CASE BufferStep /\ LoopWait
  BY <1>19 DEF TypeOK, FlagInv, SourceInv, AtEnd, Open, Calm, Claiming, BufferStep, LoopWait, LoopEnter
<1>20. CASE BufferStep /\ LoopEos
  BY <1>20 DEF TypeOK, FlagInv, SourceInv, AtEnd, Open, Calm, Claiming, BufferStep, LoopEos, LoopEnter
<1>21. CASE BufferStep /\ LoopStop
  BY <1>21 DEF TypeOK, FlagInv, SourceInv, AtEnd, Open, Calm, Claiming, BufferStep, LoopStop, LoopEnter
<1>22. CASE BufferStep /\ LoopRead
  BY <1>22 DEF TypeOK, FlagInv, SourceInv, AtEnd, Open, Calm, Claiming, BufferStep, LoopRead,
     LoopEnter, SignalDel
<1>23. CASE BufferStep /\ LoopPush
  BY <1>23 DEF TypeOK, FlagInv, SourceInv, AtEnd, Open, Calm, Claiming, BufferStep, LoopPush
<1>24. CASE BufferStep /\ LoopResult
  BY <1>24 DEF TypeOK, FlagInv, SourceInv, AtEnd, Open, Calm, Claiming, BufferStep, LoopResult
<1>25. CASE BufferStep /\ LoopLast
  BY <1>25 DEF TypeOK, FlagInv, SourceInv, AtEnd, Open, Calm, Claiming, BufferStep, LoopLast
<1>26. CASE FlushStep /\ FlushStart
  BY <1>26 DEF TypeOK, FlagInv, SourceInv, AtEnd, Open, Calm, Claiming, FlushStep, FlushStart
<1>27. CASE FlushStep /\ FlushDown
  BY <1>27 DEF TypeOK, FlagInv, SourceInv, AtEnd, Open, Calm, Claiming, FlushStep, FlushDown
<1>28. CASE FlushStep /\ FlushReset
  BY <1>28 DEF TypeOK, FlagInv, SourceInv, AtEnd, Open, Calm, Claiming, FlushStep, FlushReset,
     FlushData, SignalAdd, SignalDel
<1>29. CASE FlushStep /\ FlushPause
  BY <1>29 DEF TypeOK, FlagInv, SourceInv, AtEnd, Open, Calm, Claiming, FlushStep, FlushPause
<1>30. CASE FlushStep /\ FlushJoin
  BY <1>30 DEF TypeOK, FlagInv, SourceInv, AtEnd, Open, Calm, Claiming, FlushStep, FlushJoin
<1>31. CASE FlushStep /\ StopReset
  BY <1>31 DEF TypeOK, FlagInv, SourceInv, AtEnd, Open, Calm, Claiming, FlushStep, StopReset,
     FlushData, SignalAdd, SignalDel
<1>32. CASE FlushStep /\ StopSrcPad
  BY <1>32 DEF TypeOK, FlagInv, SourceInv, AtEnd, Open, Calm, Claiming, FlushStep, StopSrcPad,
     SignalAdd, SignalDel
<1>33. CASE FlushStep /\ StopSinkPad
  BY <1>33 DEF TypeOK, FlagInv, SourceInv, AtEnd, Open, Calm, Claiming, FlushStep, StopSinkPad
<1>34. CASE SeekFlushing
  BY <1>34 DEF TypeOK, FlagInv, SourceInv, AtEnd, Open, Calm, Claiming, SeekFlushing
<1>35. CASE SeekData
  BY <1>35 DEF TypeOK, FlagInv, SourceInv, AtEnd, Open, Calm, Claiming, SeekData
<1>36. CASE SeekResume
  BY <1>36 DEF TypeOK, FlagInv, SourceInv, AtEnd, Open, Calm, Claiming, SeekResume, FlushStop
<1>37. CASE StopSource
  BY <1>37 DEF TypeOK, FlagInv, SourceInv, AtEnd, Open, Calm, Claiming, StopSource
<1>38. CASE StopEnd
  BY <1>38 DEF TypeOK, FlagInv, SourceInv, AtEnd, Open, Calm, Claiming, StopEnd
<1>39. CASE SeekBegin
  BY <1>39 DEF TypeOK, FlagInv, SourceInv, AtEnd, Open, Calm, Claiming, SeekBegin
<1>40. CASE StopBegin
  BY <1>40 DEF TypeOK, FlagInv, SourceInv, AtEnd, Open, Calm, Claiming, StopBegin
<1>41. CASE UNCHANGED vars
  BY <1>41 DEF TypeOK, FlagInv, SourceInv, AtEnd, Open, Calm, Claiming, vars, bufVars
<1>42. CASE LoadFails
  BY <1>42 DEF TypeOK, FlagInv, SourceInv, AtEnd, Open, Calm, Claiming, LoadFails, NoSegment
<1> QED
  BY <1>1, <1>2, <1>3, <1>4, <1>5, <1>6, <1>7, <1>8, <1>9, <1>10, <1>11, <1>12, <1>13, <1>14,
     <1>15, <1>16, <1>17, <1>18, <1>19, <1>20, <1>21, <1>22, <1>23, <1>24, <1>25, <1>26, <1>27, <1>28,
     <1>29, <1>30, <1>31, <1>32, <1>33, <1>34, <1>35, <1>36, <1>37, <1>38, <1>39, <1>40, <1>41,
     <1>42
  DEF Next, SrcStep, HandleSegment, SegmentStep, BufferStep, LoopStep, ControlStep, FlushStep, CtlStep

LEMMA FlightStep ==
  ASSUME TypeOK, TaskInv, FlagInv, SourceInv, FlightInv, RingInv, [Next]_vars
  PROVE  FlightInv'
<1>1. Next \/ UNCHANGED vars
  OBVIOUS
<1>2. CASE LoopCall
  BY <1>2 DEF TypeOK, TaskInv, FlagInv, FlightInv, Open, Joined, Halted, LoopCall
<1>3. CASE PushStreamStart
  BY <1>3 DEF TypeOK, TaskInv, FlagInv, FlightInv, Open, Joined, Halted, PushStreamStart
<1>4. CASE NextSegment
  BY <1>4 DEF TypeOK, TaskInv, FlagInv, FlightInv, Open, Joined, Halted, NextSegment
<1>5. CASE LastSegment
  BY <1>5 DEF TypeOK, TaskInv, FlagInv, FlightInv, Open, Joined, Halted, LastSegment, NoSegment
<1>6. CASE PushSegment
  BY <1>6 DEF TypeOK, TaskInv, FlagInv, FlightInv, Open, Joined, Halted, PushSegment
<1>7. CASE PushEos
  BY <1>7 DEF TypeOK, TaskInv, FlagInv, FlightInv, Open, Joined, Halted, PushEos, EosEvent,
     SignalAdd
<1>8. CASE ReadBlock
  BY <1>8 DEF TypeOK, TaskInv, FlagInv, FlightInv, Open, Joined, Halted, ReadBlock
<1>9. CASE ReadEnd
  BY <1>9 DEF TypeOK, TaskInv, FlagInv, FlightInv, Open, Joined, Halted, ReadEnd
<1>10. CASE ReadError
  BY <1>10 DEF TypeOK, TaskInv, FlagInv, FlightInv, Open, Joined, Halted, ReadError
<1>11. CASE PushBlock
  BY <1>11 DEF TypeOK, TaskInv, FlagInv, FlightInv, Open, Joined, Halted, PushBlock
<1>12. CASE HandleBlock
  BY <1>12 DEF TypeOK, TaskInv, FlagInv, FlightInv, Open, Joined, Halted, HandleBlock, Chain,
     SignalAdd
<1>13. CASE LoopReturn
  BY <1>13 DEF TypeOK, TaskInv, FlagInv, FlightInv, Open, Joined, Halted, LoopReturn
<1>14. CASE HandleSegment /\ SegmentCheck
  BY <1>14 DEF TypeOK, TaskInv, FlagInv, FlightInv, Open, Joined, Halted, HandleSegment,
     SegmentCheck
<1>15. CASE HandleSegment /\ SegmentOpen
  BY <1>15 DEF TypeOK, TaskInv, FlagInv, FlightInv, Open, Joined, Halted, HandleSegment,
     SegmentOpen
<1>16. CASE HandleSegment /\ SegmentSlot
  BY <1>16 DEF TypeOK, TaskInv, FlagInv, FlightInv, Open, Joined, Halted, HandleSegment,
     SegmentSlot, Claim
<1>17. CASE HandleSegment /\ SegmentFull
  BY <1>17 DEF TypeOK, TaskInv, FlagInv, FlightInv, Open, Joined, Halted, HandleSegment,
     SegmentFull
<1>18. CASE HandleSegment /\ SegmentWoken
  BY <1>18 DEF TypeOK, TaskInv, FlagInv, FlightInv, Open, Joined, Halted, HandleSegment,
     SegmentWoken, Claim
<1>19. CASE BufferStep /\ LoopWait
  BY <1>19 DEF TypeOK, TaskInv, FlagInv, FlightInv, Open, Joined, Halted, BufferStep, LoopWait,
     LoopEnter
<1>20. CASE BufferStep /\ LoopEos
  BY <1>20 DEF TypeOK, TaskInv, FlagInv, FlightInv, Open, Joined, Halted, BufferStep, LoopEos,
     LoopEnter
<1>21. CASE BufferStep /\ LoopStop
  BY <1>21 DEF TypeOK, TaskInv, FlagInv, FlightInv, Open, Joined, Halted, BufferStep, LoopStop,
     LoopEnter
<1>22. CASE BufferStep /\ LoopRead
  <2>1. loop' = "push" /\ ctl' = ctl /\ accepted' = accepted /\ down' = down /\ srcresult' = srcresult
    BY <1>22 DEF BufferStep, LoopRead, LoopEnter
  <2>2. CASE Open
    <3>1. Running
      BY <1>22, <2>2 DEF Running, LoopRead, LoopEnter
    <3> QED BY <1>22, <2>1, <3>1, ReadRing DEF FlightInv, Running
  <2>3. CASE ~Open
    BY <2>1, <2>3 DEF FlightInv, Open
  <2> QED BY <2>2, <2>3
<1>23. CASE BufferStep /\ LoopPush
  BY <1>23 DEF TypeOK, TaskInv, FlagInv, FlightInv, Open, Joined, Halted, BufferStep, LoopPush
<1>24. CASE BufferStep /\ LoopResult
  BY <1>24 DEF TypeOK, TaskInv, FlagInv, FlightInv, Open, Joined, Halted, BufferStep, LoopResult
<1>25. CASE BufferStep /\ LoopLast
  BY <1>25 DEF TypeOK, TaskInv, FlagInv, FlightInv, Open, Joined, Halted, BufferStep, LoopLast
<1>26. CASE FlushStep /\ FlushStart
  BY <1>26 DEF TypeOK, TaskInv, FlagInv, FlightInv, Open, Joined, Halted, FlushStep, FlushStart
<1>27. CASE FlushStep /\ FlushDown
  BY <1>27 DEF TypeOK, TaskInv, FlagInv, FlightInv, Open, Joined, Halted, FlushStep, FlushDown
<1>28. CASE FlushStep /\ FlushReset
  BY <1>28 DEF TypeOK, TaskInv, FlagInv, FlightInv, Open, Joined, Halted, FlushStep, FlushReset,
     FlushData, SignalAdd, SignalDel
<1>29. CASE FlushStep /\ FlushPause
  BY <1>29 DEF TypeOK, TaskInv, FlagInv, FlightInv, Open, Joined, Halted, FlushStep, FlushPause
<1>30. CASE FlushStep /\ FlushJoin
  BY <1>30 DEF TypeOK, TaskInv, FlagInv, FlightInv, Open, Joined, Halted, FlushStep, FlushJoin
<1>31. CASE FlushStep /\ StopReset
  BY <1>31 DEF TypeOK, TaskInv, FlagInv, FlightInv, Open, Joined, Halted, FlushStep, StopReset,
     FlushData, SignalAdd, SignalDel
<1>32. CASE FlushStep /\ StopSrcPad
  BY <1>32 DEF TypeOK, TaskInv, FlagInv, FlightInv, Open, Joined, Halted, FlushStep, StopSrcPad,
     SignalAdd, SignalDel
<1>33. CASE FlushStep /\ StopSinkPad
  BY <1>33 DEF TypeOK, TaskInv, FlagInv, FlightInv, Open, Joined, Halted, FlushStep, StopSinkPad
<1>34. CASE SeekFlushing
  BY <1>34 DEF TypeOK, TaskInv, FlagInv, FlightInv, Open, Joined, Halted, SeekFlushing
<1>35. CASE SeekData
  BY <1>35 DEF TypeOK, TaskInv, FlagInv, FlightInv, Open, Joined, Halted, SeekData
<1>36. CASE SeekResume
  BY <1>36 DEF TypeOK, TaskInv, FlagInv, FlightInv, Open, Joined, Halted, SeekResume, FlushStop
<1>37. CASE StopSource
  BY <1>37 DEF TypeOK, TaskInv, FlagInv, FlightInv, Open, Joined, Halted, StopSource
<1>38. CASE StopEnd
  BY <1>38 DEF TypeOK, TaskInv, FlagInv, FlightInv, Open, Joined, Halted, StopEnd
<1>39. CASE SeekBegin
  BY <1>39 DEF TypeOK, TaskInv, FlagInv, FlightInv, Open, Joined, Halted, SeekBegin
<1>40. CASE StopBegin
  BY <1>40 DEF TypeOK, TaskInv, FlagInv, FlightInv, Open, Joined, Halted, StopBegin
<1>41. CASE UNCHANGED vars
  BY <1>41 DEF TypeOK, TaskInv, FlagInv, FlightInv, Open, Joined, Halted, vars, bufVars
<1>42. CASE LoadFails
  BY <1>42 DEF TypeOK, TaskInv, FlagInv, FlightInv, Open, Joined, Halted, LoadFails, NoSegment
<1> QED
  BY <1>1, <1>2, <1>3, <1>4, <1>5, <1>6, <1>7, <1>8, <1>9, <1>10, <1>11, <1>12, <1>13, <1>14,
     <1>15, <1>16, <1>17, <1>18, <1>19, <1>20, <1>21, <1>22, <1>23, <1>24, <1>25, <1>26, <1>27, <1>28,
     <1>29, <1>30, <1>31, <1>32, <1>33, <1>34, <1>35, <1>36, <1>37, <1>38, <1>39, <1>40, <1>41,
     <1>42
  DEF Next, SrcStep, HandleSegment, SegmentStep, BufferStep, LoopStep, ControlStep, FlushStep, CtlStep

(* The steps that write to the ring.                                              *)
LEMMA SlotChanges ==
  ASSUME [Next]_vars
  PROVE  \/ UNCHANGED slot
         \/ HandleBlock \/ (HandleSegment /\ (SegmentSlot \/ SegmentWoken))
         \/ (BufferStep /\ LoopRead) \/ (FlushStep /\ (FlushReset \/ StopReset))
<1>1. CASE SrcStep
  BY <1>1 DEF SrcStep, LoopCall, PushStreamStart, NextSegment, LastSegment, LoadFails, NoSegment, PushSegment, HandleSegment,
     SegmentStep, SegmentCheck, SegmentOpen, SegmentFull, PushEos, EosEvent, ReadBlock, ReadEnd,
     ReadError, PushBlock, LoopReturn
<1>2. CASE BufferStep
  BY <1>2 DEF BufferStep, LoopStep, LoopWait, LoopEos, LoopStop, LoopPush, LoopResult, LoopLast
<1>3. CASE ControlStep
  BY <1>3 DEF ControlStep, FlushStep, CtlStep, FlushStart, FlushDown, FlushPause, FlushJoin, StopSrcPad,
     StopSinkPad, SeekFlushing, SeekData, SeekResume, StopSource, StopEnd
<1>4. CASE SeekBegin \/ StopBegin \/ UNCHANGED vars
  BY <1>4 DEF SeekBegin, StopBegin, vars, bufVars
<1> QED BY <1>1, <1>2, <1>3, <1>4 DEF Next

(* A slot is claimed at the write index or after it.                              *)
LEMMA ClaimStep ==
  ASSUME TypeOK, SourceInv, HandleSegment, SegmentSlot \/ SegmentWoken, ~UNCHANGED slot
  PROVE  /\ cache_write_index' \in Slots /\ Claim(cache_write_index') /\ segStop > 0 /\ segStop \in Nat
         /\ src' = "end" /\ cache_read_index' = cache_read_index /\ ctl' = ctl /\ raced' = raced
         /\ src = "woken" => srcresult = "OK"
<1>1. segStop > 0 /\ segStop \in Nat
  BY DEF SourceInv, SegmentSlot, SegmentWoken, Claiming, TypeOK
<1>2. CASE SegmentSlot
  BY <1>1, <1>2, NextSlot DEF HandleSegment, SegmentSlot, TypeOK
<1>3. CASE SegmentWoken
  <2>1. cache_write_index' = cache_write_index /\ Claim(cache_write_index) /\ srcresult = "OK"
    BY <1>3 DEF SegmentWoken
  <2>2. cache_write_index \in Slots
    BY <2>1 DEF Claim, TypeOK
  <2> QED BY <1>1, <1>3, <2>1, <2>2 DEF HandleSegment, SegmentWoken
<1> QED BY <1>2, <1>3

(* A ring is flushed by flush_data.                                               *)
LEMMA ResetEnter ==
  ASSUME [Next]_vars, ctl' \in Reset
  PROVE  ctl \in Reset \/ (FlushStep /\ FlushReset)
<1>1. CASE SrcStep
  BY <1>1 DEF SrcStep, LoopCall, PushStreamStart, NextSegment, LastSegment, LoadFails, NoSegment, PushSegment,
     HandleSegment, SegmentStep, SegmentCheck, SegmentOpen, SegmentSlot, SegmentFull,
     SegmentWoken, PushEos, EosEvent, ReadBlock, ReadEnd, ReadError, PushBlock, HandleBlock,
     Chain, LoopReturn
<1>2. CASE BufferStep
  BY <1>2 DEF BufferStep, LoopStep, LoopWait, LoopEos, LoopStop, LoopRead, LoopPush,
     LoopResult, LoopLast
<1>3. CASE ControlStep
  BY <1>3 DEF ControlStep, FlushStep, CtlStep, FlushStart, FlushDown, FlushPause, FlushJoin,
     StopReset, StopSrcPad, StopSinkPad, SeekFlushing, SeekData, SeekResume, StopSource,
     StopEnd, Reset
<1>4. CASE SeekBegin \/ StopBegin \/ UNCHANGED vars
  BY <1>4 DEF SeekBegin, StopBegin, vars, bufVars, Reset
<1> QED BY <1>1, <1>2, <1>3, <1>4 DEF Next

LEMMA SlotStep ==
  ASSUME TypeOK, TaskInv, FlagInv, SourceInv, FlightInv, SlotInv, RingInv, [Next]_vars
  PROVE  SlotInv'
<1> SUFFICES ASSUME Running' \/ ctl' \in Reset
             PROVE  \A i \in Slots : slot'[i].ready <=> slot'[i].rd = slot'[i].size
  BY DEF SlotInv
<1>1. CASE FlushStep /\ (FlushReset \/ StopReset)
  BY <1>1, ResetFields DEF FlushReset, StopReset
<1>2. ASSUME ~(FlushStep /\ FlushReset)
      PROVE  /\ Running \/ ctl \in Reset
             /\ \A i \in Slots : slot[i].ready <=> slot[i].rd = slot[i].size
  <2>1. CASE Running'
    BY <2>1, RunningStep DEF SlotInv, RingKept, SeekResume, Reset
  <2>2. CASE ctl' \in Reset
    BY <1>2, <2>2, ResetEnter DEF SlotInv
  <2> QED BY <2>1, <2>2
<1>3. ASSUME ~(FlushStep /\ FlushReset), UNCHANGED slot
      PROVE  \A i \in Slots : slot'[i].ready <=> slot'[i].rd = slot'[i].size
  BY <1>2, <1>3
<1>4. ASSUME ~(FlushStep /\ FlushReset), HandleBlock
      PROVE  \A i \in Slots : slot'[i].ready <=> slot'[i].rd = slot'[i].size
  <2>1. produced \in Nat /\ (slot' = Written(produced) \/ slot' = slot)
    BY <1>4 DEF HandleBlock, Chain, TypeOK
  <2> QED BY <1>2, <1>4, <2>1, WrittenFields
<1>5. ASSUME ~(FlushStep /\ FlushReset), HandleSegment, SegmentSlot \/ SegmentWoken, ~UNCHANGED slot
      PROVE  \A i \in Slots : slot'[i].ready <=> slot'[i].rd = slot'[i].size
  <2>1. PICK j \in Slots : Claim(j) /\ segStop > 0 /\ segStop \in Nat
    BY <1>5, ClaimStep
  <2> QED BY <1>2, <1>5, <2>1, ClaimFields
<1>6. ASSUME ~(FlushStep /\ FlushReset), BufferStep, LoopRead
      PROVE  \A i \in Slots : slot'[i].ready <=> slot'[i].rd = slot'[i].size
  <2>1. PICK r \in Slots : r = cache_read_index
    BY DEF TypeOK
  <2>2. PICK q \in Nat, n \in Nat, z \in Nat, m \in Nat :
          /\ q = slot[r].rd /\ n = Len(slot[r].data) /\ z = slot[r].size
          /\ m = slot'[r].rd /\ z = slot'[r].size
          /\ q < n /\ m <= n
    BY <1>6, <2>1, ReadFields
  <2>3. /\ slot'[r].ready <=> (slot[r].ready \/ m = z)
        /\ \A j \in Slots : j # r => slot'[j] = slot[j]
    BY <1>6, <2>1, <2>2, ReadFields
  <2>4. Running
    <3>1. ctl \notin Reset
      BY <2>1, <2>2 DEF TaskInv
    <3> QED BY <1>2, <1>6, <3>1
  <2>5. n <= z
    BY <2>2, <2>4 DEF RingInv, Ring, Shape
  <2>6. ~slot[r].ready
    <3>1. slot[r].rd # slot[r].size
      BY <2>2, <2>5
    <3> QED BY <1>2, <1>6, <3>1
  <2> QED BY <1>2, <1>6, <2>2, <2>3, <2>6
<1> QED BY <1>1, <1>3, <1>4, <1>5, <1>6, SlotChanges

LEMMA ResetStep ==
  ASSUME TypeOK, TaskInv, SourceInv, SlotInv, ResetInv, [Next]_vars
  PROVE  ResetInv'
<1>1. CASE FlushStep /\ FlushReset
  <2>1. /\ cache_read_index' = 0 /\ cache_write_index' = -1 /\ srcresult' = "FLUSHING"
        /\ raced' = (raced \/ Unlocked) /\ (src' = src \/ src' = "woken")
    BY <1>1 DEF FlushStep, FlushReset, FlushData, SignalDel
  <2>2. \A i \in Slots : slot'[i].size = 0 /\ slot'[i].rd = 0 /\ slot'[i].data = <<>>
    BY <1>1, ResetFields DEF FlushReset
  <2>3. src' \in {"seg_open", "seg_slot"} => raced'
    BY <2>1 DEF Unlocked
  <2>4. \A i \in Slots : i # cache_write_index'
    BY <2>1 DEF Slots
  <2> QED BY <2>1, <2>2, <2>3, <2>4 DEF ResetInv
<1>2. ASSUME ctl \in Reset, ctl' \in Reset  PROVE ResetInv'
  <2>1. /\ cache_read_index = 0 /\ cache_write_index \in {-1, 0}
        /\ \A i \in Slots : slot[i].rd = 0 /\ slot[i].data = <<>>
        /\ \A i \in Slots : slot[i].size > 0 <=> i = cache_write_index
        /\ cache_write_index = 0 => raced
        /\ src \in Claiming \ {"segment"} => cache_write_index = -1
        /\ src \in {"seg_check", "full", "wait", "woken"} => srcresult # "OK"
        /\ src \in {"seg_open", "seg_slot"} => raced
        /\ sinkFlushing
    BY <1>2 DEF ResetInv, TaskInv
  <2>2. CASE HandleBlock
    <3>1. cache_write_index = -1 /\ src' = "end" /\ UNCHANGED <<cache_write_index, cache_read_index, raced>>
      BY <1>2, <2>2 DEF TaskInv, HandleBlock, Chain
    <3>2. produced \in Nat /\ (slot' = Written(produced) \/ slot' = slot)
      BY <2>2 DEF HandleBlock, Chain, TypeOK
    <3>3. \A i \in Slots : slot'[i].rd = slot[i].rd /\ slot'[i].size = slot[i].size /\ slot'[i].data = slot[i].data
      <4>1. \A i \in Slots : i # cache_write_index
        BY <3>1 DEF Slots
      <4> QED BY <3>2, <4>1, WrittenFields
    <3> QED BY <2>1, <3>1, <3>3 DEF ResetInv, Claiming
  <2>3. CASE HandleSegment /\ (SegmentSlot \/ SegmentWoken)
    <3>1. UNCHANGED <<cache_read_index, raced, srcresult>>
      BY <2>3 DEF HandleSegment, SegmentSlot, SegmentWoken
    <3>2. CASE SegmentWoken
      <4>1. UNCHANGED <<slot, cache_write_index>> /\ src' = "end"
        BY <2>1, <3>2 DEF SegmentWoken
      <4> QED BY <2>1, <3>1, <4>1 DEF ResetInv, Claiming
    <3>3. CASE SegmentSlot
      <4>1. src = "seg_slot" /\ cache_write_index = -1
        BY <2>1, <3>3 DEF SegmentSlot, Claiming
      <4>2. cache_write_index' = 0 /\ 0 \in Slots
        BY <3>3, <4>1, AfterMod DEF SegmentSlot, After, Slots
      <4>3. slot[0].ready
        <5>1. slot[0].size = 0 /\ slot[0].rd = 0
          BY <2>1, <4>1, <4>2, SlotTypes
        <5> QED BY <1>2, <4>2, <5>1 DEF SlotInv
      <4>4. Claim(0) /\ src' = "end"
        BY <3>3, <4>2, <4>3 DEF SegmentSlot
      <4>5. segStop \in Nat /\ segStop > 0
        BY <4>1 DEF TypeOK, SourceInv, Claiming
      <4>6. /\ slot'[0].size = segStop /\ slot'[0].rd = 0 /\ slot'[0].data = <<>>
            /\ \A j \in Slots : j # 0 => slot'[j] = slot[j]
        BY <4>2, <4>4, ClaimFields
      <4>7. raced'
        BY <2>1, <3>1, <4>1
      <4>8. \A i \in Slots : slot'[i].size > 0 <=> i = cache_write_index'
        BY <2>1, <4>1, <4>2, <4>5, <4>6 DEF Slots
      <4> QED BY <2>1, <3>1, <4>2, <4>4, <4>6, <4>7, <4>8 DEF ResetInv, Claiming
    <3> QED BY <2>3, <3>2, <3>3
  <2>4. CASE BufferStep /\ LoopRead
    <3>1. Len(slot[cache_read_index].data) = 0 /\ slot[cache_read_index].rd = 0
      BY <2>1 DEF TypeOK
    <3> QED BY <2>4, <3>1 DEF LoopRead, HasData
  <2>5. ASSUME UNCHANGED <<ringVars, srcresult>>, raced => raced',
               \/ src' = src \/ src' \notin Claiming \/ src' = "segment"
               \/ (src = "wait" /\ src' = "woken") \/ (src = "full" /\ src' = "wait")
        PROVE  ResetInv'
    BY <2>1, <2>5 DEF ResetInv, Claiming
  <2>6. CASE HandleSegment /\ (SegmentCheck \/ SegmentOpen \/ SegmentFull)
    BY <2>1, <2>6 DEF HandleSegment, SegmentCheck, SegmentOpen, SegmentFull, ResetInv, Claiming
  <2>7. CASE SrcStep /\ ~HandleBlock /\ ~HandleSegment
    <3>1. UNCHANGED <<ringVars, srcresult, raced>>
      BY <2>7 DEF SrcStep, LoopCall, PushStreamStart, NextSegment, LastSegment, LoadFails, NoSegment, PushSegment,
         PushEos, EosEvent, ReadBlock, ReadEnd, ReadError, PushBlock, LoopReturn
    <3>2. CASE LoopCall
      <4>1. src' \in {"end", "stream", "size", "eos", "read"}
        BY <3>2 DEF LoopCall
      <4> QED BY <2>5, <3>1, <4>1 DEF Claiming
    <3>3. CASE ~LoopCall
      <4>1. src' \notin Claiming \/ src' = "segment"
        BY <2>1, <2>7, <3>3 DEF SrcStep, PushStreamStart, NextSegment, LastSegment, LoadFails, NoSegment, PushSegment,
           PushEos, EosEvent, ReadBlock, ReadEnd, ReadError, PushBlock, LoopReturn, Claiming
      <4> QED BY <2>5, <3>1, <4>1
    <3> QED BY <3>2, <3>3
  <2>8. CASE BufferStep /\ ~LoopRead
    BY <2>1, <2>8
    DEF BufferStep, LoopStep, LoopWait, LoopEos, LoopStop, LoopPush, LoopResult, LoopLast,
        ResetInv
  <2>9. CASE ControlStep
    BY <1>2, <2>5, <2>9
    DEF ControlStep, FlushStep, CtlStep, FlushStart, FlushDown, FlushReset, FlushPause,
        FlushJoin, StopReset, StopSrcPad, StopSinkPad, SeekFlushing, SeekData, SeekResume,
        StopSource, StopEnd, Reset
  <2>10. CASE SeekBegin \/ StopBegin \/ UNCHANGED vars
    BY <1>2, <2>5, <2>10 DEF SeekBegin, StopBegin, vars, bufVars, Reset
  <2> QED BY <2>2, <2>3, <2>4, <2>6, <2>7, <2>8, <2>9, <2>10
          DEF Next, SrcStep, HandleSegment, SegmentStep
<1> QED BY <1>1, <1>2, ResetEnter DEF ResetInv

LEMMA RingStep ==
  ASSUME TypeOK, TypeOK', TaskInv, FlagInv, SourceInv, FlightInv, SlotInv, ResetInv, RingInv,
         [Next]_vars
  PROVE  RingInv'
<1> SUFFICES ASSUME Running' PROVE RingInv'
  BY DEF RingInv
<1>1. CASE RingKept
  BY <1>1, KeptRing
<1>2. CASE Running /\ ReadEnd
  BY <1>2, ReadEndRing
<1>3. CASE Running /\ HandleBlock
  BY <1>3, WriteRing
<1>4. CASE Running /\ BufferStep /\ LoopRead
  BY <1>4, ReadRing
<1>5. CASE SeekResume
  BY <1>5, ResumeRing
<1>6. CASE Running /\ HandleSegment /\ (SegmentSlot \/ SegmentWoken) /\ src' # "full"
  <2>1. /\ UNCHANGED <<cache_read_index, left, produced, accepted, inFlight, down, ctl, raced, short>>
        /\ src \in {"seg_slot", "woken"} /\ src' = "end"
        /\ pending_event' = "UNKNOWN" /\ srcresult = "OK"
    BY <1>6 DEF HandleSegment, SegmentSlot, SegmentWoken, Running
  <2>2. pending_event = "SEGMENT" /\ left = segStop /\ left > 0
    BY <2>1 DEF SourceInv, Claiming
  <2>3. cache_write_index' = Front
    <3>1. CASE SegmentSlot
      BY <3>1, AfterMod DEF SegmentSlot, Front, TypeOK
    <3>2. CASE SegmentWoken
      BY <3>2 DEF SegmentWoken, Front
    <3> QED BY <1>6, <3>1, <3>2
  <2>4. Front \in Slots
    <3>1. PICK c \in 0 .. NUM_OF_CACHED_SEGMENTS : Ring(c)
      BY <1>6 DEF RingInv
    <3> QED BY <3>1, AheadDistance DEF Ring, Shape, TypeOK
  <2>5. slot[Front].ready /\ Claim(Front)
    <3>1. CASE SegmentSlot
      BY <1>6, <2>1, <2>3, <3>1 DEF SegmentSlot
    <3>2. CASE SegmentWoken
      BY <1>6, <2>1, <2>3, <3>2 DEF SegmentWoken
    <3> QED BY <1>6, <3>1, <3>2
  <2>6. PICK j \in Slots : j = Front
    BY <2>4
  <2> QED BY <1>6, <2>1, <2>2, <2>3, <2>5, <2>6, ClaimRing
<1> QED BY <1>1, <1>2, <1>3, <1>4, <1>5, <1>6, RunningStep

(* The end of stream is sent when the ring is empty, and nothing is done after it. *)
LEMMA EosStep ==
  ASSUME TypeOK, TaskInv, FlagInv, SourceInv, FlightInv, RingInv, EosInv, [Next]_vars
  PROVE  EosInv'
<1>1. Next \/ UNCHANGED vars
  OBVIOUS
<1>2. CASE LoopCall
  BY <1>2 DEF TypeOK, FlagInv, FlightInv, EosInv, AtEnd, Open, Calm, Running, LoopCall
<1>3. CASE PushStreamStart
  BY <1>3 DEF TypeOK, FlagInv, FlightInv, EosInv, AtEnd, Open, Calm, Running, PushStreamStart
<1>4. CASE NextSegment
  BY <1>4 DEF TypeOK, FlagInv, FlightInv, EosInv, AtEnd, Open, Calm, Running, NextSegment
<1>5. CASE LastSegment
  BY <1>5 DEF TypeOK, FlagInv, FlightInv, EosInv, AtEnd, Open, Calm, Running, LastSegment, NoSegment
<1>6. CASE PushSegment
  BY <1>6 DEF TypeOK, FlagInv, FlightInv, EosInv, AtEnd, Open, Calm, Running, PushSegment
<1>7. CASE PushEos
  BY <1>7 DEF TypeOK, FlagInv, FlightInv, EosInv, AtEnd, Open, Calm, Running, PushEos, EosEvent,
     SignalAdd
<1>8. CASE ReadBlock
  BY <1>8 DEF TypeOK, FlagInv, FlightInv, EosInv, AtEnd, Open, Calm, Running, ReadBlock
<1>9. CASE ReadEnd
  BY <1>9 DEF TypeOK, FlagInv, FlightInv, EosInv, AtEnd, Open, Calm, Running, ReadEnd
<1>10. CASE ReadError
  BY <1>10 DEF TypeOK, FlagInv, FlightInv, EosInv, AtEnd, Open, Calm, Running, ReadError
<1>11. CASE PushBlock
  BY <1>11 DEF TypeOK, FlagInv, FlightInv, EosInv, AtEnd, Open, Calm, Running, PushBlock
<1>12. CASE HandleBlock
  BY <1>12 DEF TypeOK, FlagInv, FlightInv, EosInv, AtEnd, Open, Calm, Running, HandleBlock, Chain,
     SignalAdd
<1>13. CASE LoopReturn
  BY <1>13 DEF TypeOK, FlagInv, FlightInv, EosInv, AtEnd, Open, Calm, Running, LoopReturn
<1>14. CASE HandleSegment /\ SegmentCheck
  BY <1>14 DEF TypeOK, FlagInv, FlightInv, EosInv, AtEnd, Open, Calm, Running, HandleSegment,
     SegmentCheck
<1>15. CASE HandleSegment /\ SegmentOpen
  BY <1>15 DEF TypeOK, FlagInv, FlightInv, EosInv, AtEnd, Open, Calm, Running, HandleSegment,
     SegmentOpen
<1>16. CASE HandleSegment /\ SegmentSlot
  BY <1>16 DEF TypeOK, FlagInv, FlightInv, EosInv, AtEnd, Open, Calm, Running, HandleSegment,
     SegmentSlot, Claim
<1>17. CASE HandleSegment /\ SegmentFull
  BY <1>17 DEF TypeOK, FlagInv, FlightInv, EosInv, AtEnd, Open, Calm, Running, HandleSegment,
     SegmentFull
<1>18. CASE HandleSegment /\ SegmentWoken
  BY <1>18 DEF TypeOK, FlagInv, FlightInv, EosInv, AtEnd, Open, Calm, Running, HandleSegment,
     SegmentWoken, Claim
<1>19. CASE BufferStep /\ LoopWait
  BY <1>19 DEF TypeOK, FlagInv, FlightInv, EosInv, AtEnd, Open, Calm, Running, BufferStep, LoopWait,
     LoopEnter
<1>20. CASE BufferStep /\ LoopEos
  <2>1. /\ UNCHANGED <<ctl, sinkEos, accepted, produced, playlist, left, short, loadFailed>> /\ (~raced' => ~raced)
        /\ LoopEnter /\ is_eos
    BY <1>20 DEF BufferStep, LoopEos, LoopEnter
  <2>2. sinkEos
    BY <2>1 DEF TaskInv, LoopEnter
  <2>3. ASSUME Calm, ~raced, ~short PROVE accepted = produced /\ AtEnd /\ left = 0
    <3>1. ~(loop = "pushed" /\ loopResult # "OK")
      BY <2>1 DEF LoopEnter
    <3> QED BY <1>20, <2>3, <3>1, EosRing
  <2> QED BY <2>1, <2>2, <2>3 DEF EosInv, Calm, AtEnd
<1>21. CASE BufferStep /\ LoopStop
  BY <1>21 DEF TypeOK, FlagInv, FlightInv, EosInv, AtEnd, Open, Calm, Running, BufferStep, LoopStop,
     LoopEnter
<1>22. CASE BufferStep /\ LoopRead
  BY <1>22 DEF TypeOK, FlagInv, FlightInv, EosInv, AtEnd, Open, Calm, Running, BufferStep, LoopRead,
     LoopEnter, SignalDel
<1>23. CASE BufferStep /\ LoopPush
  BY <1>23 DEF TypeOK, FlagInv, FlightInv, EosInv, AtEnd, Open, Calm, Running, BufferStep, LoopPush
<1>24. CASE BufferStep /\ LoopResult
  BY <1>24 DEF TypeOK, FlagInv, FlightInv, EosInv, AtEnd, Open, Calm, Running, BufferStep, LoopResult
<1>25. CASE BufferStep /\ LoopLast
  BY <1>25 DEF TypeOK, FlagInv, FlightInv, EosInv, AtEnd, Open, Calm, Running, BufferStep, LoopLast
<1>26. CASE FlushStep /\ FlushStart
  BY <1>26 DEF TypeOK, FlagInv, FlightInv, EosInv, AtEnd, Open, Calm, Running, FlushStep, FlushStart
<1>27. CASE FlushStep /\ FlushDown
  BY <1>27 DEF TypeOK, FlagInv, FlightInv, EosInv, AtEnd, Open, Calm, Running, FlushStep, FlushDown
<1>28. CASE FlushStep /\ FlushReset
  BY <1>28 DEF TypeOK, FlagInv, FlightInv, EosInv, AtEnd, Open, Calm, Running, FlushStep, FlushReset,
     FlushData, SignalAdd, SignalDel
<1>29. CASE FlushStep /\ FlushPause
  BY <1>29 DEF TypeOK, FlagInv, FlightInv, EosInv, AtEnd, Open, Calm, Running, FlushStep, FlushPause
<1>30. CASE FlushStep /\ FlushJoin
  BY <1>30 DEF TypeOK, FlagInv, FlightInv, EosInv, AtEnd, Open, Calm, Running, FlushStep, FlushJoin
<1>31. CASE FlushStep /\ StopReset
  BY <1>31 DEF TypeOK, FlagInv, FlightInv, EosInv, AtEnd, Open, Calm, Running, FlushStep, StopReset,
     FlushData, SignalAdd, SignalDel
<1>32. CASE FlushStep /\ StopSrcPad
  BY <1>32 DEF TypeOK, FlagInv, FlightInv, EosInv, AtEnd, Open, Calm, Running, FlushStep, StopSrcPad,
     SignalAdd, SignalDel
<1>33. CASE FlushStep /\ StopSinkPad
  BY <1>33 DEF TypeOK, FlagInv, FlightInv, EosInv, AtEnd, Open, Calm, Running, FlushStep, StopSinkPad
<1>34. CASE SeekFlushing
  BY <1>34 DEF TypeOK, FlagInv, FlightInv, EosInv, AtEnd, Open, Calm, Running, SeekFlushing
<1>35. CASE SeekData
  BY <1>35 DEF TypeOK, FlagInv, FlightInv, EosInv, AtEnd, Open, Calm, Running, SeekData
<1>36. CASE SeekResume
  BY <1>36 DEF TypeOK, FlagInv, FlightInv, EosInv, AtEnd, Open, Calm, Running, SeekResume, FlushStop
<1>37. CASE StopSource
  BY <1>37 DEF TypeOK, FlagInv, FlightInv, EosInv, AtEnd, Open, Calm, Running, StopSource
<1>38. CASE StopEnd
  BY <1>38 DEF TypeOK, FlagInv, FlightInv, EosInv, AtEnd, Open, Calm, Running, StopEnd
<1>39. CASE SeekBegin
  BY <1>39 DEF TypeOK, FlagInv, FlightInv, EosInv, AtEnd, Open, Calm, Running, SeekBegin
<1>40. CASE StopBegin
  BY <1>40 DEF TypeOK, FlagInv, FlightInv, EosInv, AtEnd, Open, Calm, Running, StopBegin
<1>41. CASE UNCHANGED vars
  BY <1>41 DEF TypeOK, FlagInv, FlightInv, EosInv, AtEnd, Open, Calm, Running, vars, bufVars
<1>42. CASE LoadFails
  BY <1>42 DEF TypeOK, FlagInv, FlightInv, EosInv, AtEnd, Open, Calm, Running, LoadFails, NoSegment
<1> QED
  BY <1>1, <1>2, <1>3, <1>4, <1>5, <1>6, <1>7, <1>8, <1>9, <1>10, <1>11, <1>12, <1>13, <1>14,
     <1>15, <1>16, <1>17, <1>18, <1>19, <1>20, <1>21, <1>22, <1>23, <1>24, <1>25, <1>26, <1>27, <1>28,
     <1>29, <1>30, <1>31, <1>32, <1>33, <1>34, <1>35, <1>36, <1>37, <1>38, <1>39, <1>40, <1>41,
     <1>42
  DEF Next, SrcStep, HandleSegment, SegmentStep, BufferStep, LoopStep, ControlStep, FlushStep, CtlStep

(* Once a SEEK_DATA has failed, seekFailed stays.                                 *)
LEMMA SeekFailedStays == ASSUME [Next]_vars, seekFailed PROVE seekFailed'
<1>1. CASE SrcStep
  BY <1>1 DEF SrcStep, LoopCall, PushStreamStart, NextSegment, LastSegment, LoadFails, PushSegment,
     HandleSegment, PushEos, ReadBlock, ReadEnd, ReadError, PushBlock, HandleBlock, LoopReturn
<1>2. CASE BufferStep \/ SeekBegin \/ StopBegin \/ UNCHANGED vars
  BY <1>2 DEF BufferStep, SeekBegin, StopBegin, vars
<1>3. CASE ControlStep
  BY <1>3 DEF ControlStep, FlushStep, SeekFlushing, SeekData, SeekResume, StopSource, StopEnd
<1> QED BY <1>1, <1>2, <1>3 DEF Next

----------------------------------------------------------------------------------
(* The initial states.                                                            *)
LEMMA OrderInit == Init => OrderInv
<1> SUFFICES ASSUME Init PROVE OrderInv
  OBVIOUS
<1>1. FlagInv /\ SourceInv /\ FlightInv /\ EosInv
  BY DEF Init, BufferInit, FlagInv, SourceInv, FlightInv, EosInv, Open, Calm, Running, Filling, Claiming
<1>2. /\ \A i \in Slots : slot[i].ready /\ slot[i].size = 0 /\ slot[i].rd = 0 /\ slot[i].data = <<>>
      /\ cache_read_index = 0 /\ cache_write_index = -1 /\ 0 \in Slots
      /\ src = "idle" /\ ctl = "idle" /\ pending_event # "UNKNOWN"
      /\ produced = 0 /\ accepted = 0 /\ inFlight = <<>>
  BY DEF Init, BufferInit, EmptySlot, Slots
<1>3. SlotInv /\ ResetInv
  BY <1>2 DEF SlotInv, ResetInv, Reset
<1>4. RingInv
  <2>1. Front = 0 /\ Ahead(0) = 0 /\ Last = 0 /\ Taken = 0
    BY <1>2 DEF Front, Ahead, After, Last, Taken, Slots
  <2>2. \A i \in Slots : Distance(i) \in Nat
    BY <1>2, Distances DEF Slots
  <2>3. Shape(0)
    BY <1>2, <2>1, <2>2 DEF Shape
  <2>4. Order(0) /\ Growth(0) /\ Whole(0)
    BY <1>2, <2>1, <2>2 DEF Order, Growth, Whole
  <2> QED BY <2>3, <2>4 DEF RingInv, Ring
<1> QED BY <1>1, <1>3, <1>4 DEF OrderInv

(* OrderInv holds in every state until a SEEK_DATA fails.                         *)
LEMMA OrderAlways ==
  ASSUME 0 \notin SegmentSizes
  PROVE  Spec => [](TypeOK /\ TaskInv /\ (seekFailed \/ OrderInv))
<1> DEFINE Inv == TypeOK /\ TaskInv /\ (seekFailed \/ OrderInv)
<1>1. Init => Inv
  BY HLSInit, OrderInit
<1>2. Inv /\ [Next]_vars => Inv'
  <2> SUFFICES ASSUME Inv, [Next]_vars PROVE Inv'
    OBVIOUS
  <2>1. TypeOK' /\ TaskInv'
    BY TypesStep, TaskStep
  <2>2. seekFailed => seekFailed'
    BY SeekFailedStays
  <2>3. ASSUME OrderInv, ~seekFailed' PROVE OrderInv'
    BY <2>1, <2>3, FlagStep, SourceStep, FlightStep, SlotStep, ResetStep, RingStep, EosStep
       DEF OrderInv
  <2> QED BY <2>1, <2>2, <2>3
<1> QED BY <1>1, <1>2, PTL DEF Spec

(* The stream is delivered in order, without a gap, between the announcement of   *)
(* its segment and its end: what the reader task is pushing, when downstream is   *)
(* going to look at it, are the blocks after the last accepted one                 *)
(* (hls_progress_buffer_loop, _chain and _sink_event), for any number of slots,    *)
(* any playlist without empty segments, any number of seeks, however loads and     *)
(* reads fail, as long as no SEEK_DATA fails.                                       *)
THEOREM HLSInOrder == ASSUME 0 \notin SegmentSizes PROVE Spec => []InOrder
<1>1. TypeOK /\ (seekFailed \/ OrderInv) => InOrder
  <2> SUFFICES ASSUME OrderInv, TypeOK, loop = "push", ~down.flushing
               PROVE  /\ \A k \in 1 .. Len(inFlight) : inFlight[k] = accepted + k
                      /\ down.segment /\ ~down.eos
    BY DEF InOrder
  <2>1. Open /\ srcresult = "OK"
    BY DEF OrderInv, FlagInv, FlightInv
  <2> QED BY <2>1 DEF OrderInv, FlagInv, FlightInv, Running
<1> QED BY <1>1, OrderAlways, PTL

(* The end of stream comes last: once it is pushed (hls_progress_buffer_loop) all *)
(* that was read has been accepted, and the playlist is at its end or a segment    *)
(* of it could not be loaded (loadNextSegment answers -1 for both).                 *)
THEOREM HLSEosIsLast == ASSUME 0 \notin SegmentSizes PROVE Spec => []EosIsLast
<1>1. seekFailed \/ OrderInv => EosIsLast
  BY DEF OrderInv, EosInv, EosIsLast, Disturbed, Calm
<1> QED BY <1>1, OrderAlways, PTL
==================================================================================
