----------------------------- MODULE PlayerProofs -----------------------------
(* PlaybackPipeline proved for any number of calls and messages: types,        *)
(* StandsStill, NoMissedResume, FreedOnce.  The inductive invariant PlayerInv   *)
(* says what a pipeline keeps true of itself (Pipeline), what the messages still *)
(* on the bus and the player's state together know of it (BusTells,             *)
(* PlayerKnows), who may still pause and who is about to resume it (AskedPause,  *)
(* Suspended, FilledResumes, PendingResumes), and how far a dispose() has come   *)
(* (ContentInv).                                                                 *)
EXTENDS PlaybackPipeline, TLAPS

----------------------------------------------------------------------------
(* Types.                                                                      *)
Places == {"idle", "play", "play_set", "pause", "pause_set", "pause_first", "stop_set", "zero", "seek", "seek_do",
           "seek_end", "seek_set", "dispose_null", "dispose_lock", "dispose_free", "disposed", "late", "notify"}

AllNotes == HLSNotes \cup BufferNotes \cup {"eos", "error"}

Msg == [type : AllNotes \cup {"state"}, old : GstStates, new : GstStates]

Gst == [cur : GstStates, next : GstStates, pend : GstStates, target : GstStates,
        async : BOOLEAN, cont : BOOLEAN]

TypeInv ==
  /\ m_PlayerState \in PlayerStates
  /\ m_PlayerPendingState \in {"Unknown", "Paused", "Stopped"}
  /\ status \in PlayerStates \ {"Finished"}
  /\ hls \in BOOLEAN /\ zeroRate \in BOOLEAN /\ misread \in BOOLEAN
  /\ m_bLastProgressValueEOS \in BOOLEAN /\ m_bHLSPBFull \in BOOLEAN
  /\ pc \in [{"app", "bus"} -> Places]

(* What GStreamer keeps true of a pipeline.                                    *)
Pipeline(g) ==
  /\ g \in Gst
  /\ g.cur # "VOID" /\ g.target \notin {"VOID", "READY"}
  /\ g.pend = "VOID" => g.target = g.cur
  /\ g.target = "NULL" => g.cur = "NULL"
  /\ g.cur = "READY" => g.async
  /\ g.next = "PLAYING" => g.cur = "PAUSED" /\ g.pend = "PLAYING" /\ g.target = "PLAYING"
  /\ g.cont => g.next = "PLAYING"
  /\ g.cur = "NULL" => g.pend = "VOID" /\ g.next = "VOID" /\ ~g.async

Disposing == {"dispose_null", "dispose_lock", "dispose_free", "disposed"}

Dead == m_PlayerState = "Error" \/ pc["app"] \in Disposing

TornDown == gst.cur = "NULL" => bus = <<>> /\ Dead

(* What the bus says of the pipeline.                                          *)
Start(m) == m.type = "state" /\ m.old = "PAUSED" /\ m.new = "PLAYING"

NoState(b) == \A i \in 1..Len(b) : b[i].type # "state"

LastStarts(b) ==
  \E i \in 1..Len(b) : Start(b[i]) /\ \A j \in 1..Len(b) : j > i => b[j].type # "state"

BusTells == gst.cur = "PLAYING" => NoState(bus) \/ LastStarts(bus)

Knows == m_PlayerState \in {"Unknown", "Playing", "Finished", "Error"} \/ misread
         \/ pc["app"] \in Disposing

PlayerKnows == gst.cur = "PLAYING" /\ NoState(bus) => Knows

NoFull(b) == \A i \in 1..Len(b) : b[i].type # "full"

NoRing == ~hls => ~m_bHLSPBFull /\ NoFull(bus)

BusInv ==
  /\ bus \in Seq(Msg) /\ Pipeline(gst)
  /\ TornDown /\ BusTells /\ PlayerKnows /\ NoRing

Misreads == misread => m_PlayerState \in {"Stopped", "Paused", "Finished", "Error"}

(* Who pauses, who resumes.                                                    *)
AskedPause ==
  pc["app"] \in {"stop_set", "pause", "pause_set", "pause_first", "zero"} => asked # "play"

Filled == m_bLastProgressValueEOS \/ m_bHLSPBFull

Suspended == pc["bus"] \in {"pause", "pause_set"} => ~Filled /\ m_PlayerState # "Stalled"

ThreadInv == Misreads /\ AskedPause /\ Suspended

Wanted == m_PlayerState = "Stalled" /\ asked = "play" /\ ~zeroRate

AppResumes == gst.target = "PLAYING" \/ pc["app"] \in {"play_set"} \cup Disposing

Resumes == AppResumes \/ pc["bus"] \in {"play", "play_set"}

FilledResumes == Wanted /\ Filled => Resumes

PendingResumes == Wanted /\ m_PlayerPendingState # "Unknown" => AppResumes

ResumeInv == FilledResumes /\ PendingResumes

----------------------------------------------------------------------------
(* The content of the callback.                                                *)
Contents == [inProgress : BOOLEAN, disposed : BOOLEAN, destroyed : BOOLEAN, freeMe : BOOLEAN, freed : Nat]

Content(p, d, x, f, n) ==
  /\ content \in Contents
  /\ content.inProgress = p /\ content.disposed = d /\ content.destroyed = x
  /\ content.freeMe = f /\ content.freed = n

Content0 == Content(FALSE, FALSE, FALSE, FALSE, 0)
Content1 == Content(TRUE, FALSE, FALSE, FALSE, 0)
Content2 == Content(TRUE, TRUE, TRUE, TRUE, 0)
Content3 == Content(TRUE, TRUE, TRUE, TRUE, 1)
Content4 == Content(TRUE, TRUE, TRUE, FALSE, 0)
Content5 == Content(TRUE, TRUE, TRUE, FALSE, 1)

ContentInv ==
  \/ Content0 /\ pc["app"] \notin Disposing /\ pc["bus"] \notin {"late", "notify"}
  \/ Content1 /\ pc["app"] \in {"dispose_null", "dispose_lock"} /\ pc["bus"] \in {"idle", "late"}
  \/ Content2 /\ pc["app"] = "dispose_free" /\ pc["bus"] = "idle"
  \/ Content3 /\ pc["app"] = "disposed" /\ pc["bus"] = "idle"
  \/ Content4 /\ pc["app"] = "disposed" /\ pc["bus"] \in {"late", "notify"}
  \/ Content5 /\ pc["app"] = "disposed" /\ pc["bus"] = "idle"

PlayerInv ==
  /\ TypeInv /\ BusInv /\ ThreadInv /\ ResumeInv /\ ContentInv

----------------------------------------------------------------------------
(* GStreamer's steps keep the pipeline in order.                               *)
LEMMA SettledGst ==
  ASSUME NEW g \in Gst, NEW s \in {"NULL", "PAUSED", "PLAYING"}
  PROVE  /\ Settled(g, s) \in Gst
         /\ Settled(g, s).cur = s /\ Settled(g, s).next = "VOID" /\ Settled(g, s).pend = "VOID"
         /\ Settled(g, s).target = s
         /\ Settled(g, s).cont = FALSE /\ Settled(g, s).async = g.async
<1>1. PICK v \in GstStates : v = "VOID"
  BY DEF GstStates
<1>2. s \in GstStates
  BY DEF GstStates
<1>3. [g EXCEPT !.cur = s, !.next = v, !.pend = v, !.target = s, !.cont = FALSE] \in Gst
  BY <1>2, Zenon DEF Gst
<1>4. Settled(g, s) = [g EXCEPT !.cur = s, !.next = v, !.pend = v, !.target = s, !.cont = FALSE]
  BY <1>1 DEF Settled
<1>5. Settled(g, s).cur = s /\ Settled(g, s).next = "VOID" /\ Settled(g, s).pend = "VOID"
      /\ Settled(g, s).target = s
  BY DEF Settled, Gst
<1>6. Settled(g, s).cont = FALSE /\ Settled(g, s).async = g.async
  BY Zenon DEF Settled, Gst
<1> QED
  BY <1>3, <1>4, <1>5, <1>6

(* A change of the fields that the steps of a pending change touch.            *)
Altered(g, c, n, p, t, a, k) ==
  [g EXCEPT !.cur = c, !.next = n, !.pend = p, !.target = t, !.async = a, !.cont = k]

(* What a step of the pipeline may do: it ends in order, posts at most one     *)
(* message, and does not come to play unnoticed.  p: what it posts.             *)
Posted(p) == p = <<>> \/ \E old, new \in GstStates : p = Changed(old, new)

Drives(g, h, p) ==
  /\ Pipeline(h) /\ Posted(p)
  /\ h.cur = "PLAYING" => (p = <<>> /\ g.cur = "PLAYING") \/ p = Changed("PAUSED", "PLAYING")
  /\ h.cur = "NULL" => g.cur = "NULL" /\ p = <<>>

Drove(b) == \E p : Drives(gst, gst', p) /\ bus' = b \o p

LEMMA SettledDrives ==
  ASSUME NEW g \in Gst, Pipeline(g), NEW s \in {"PAUSED", "PLAYING"}, s = "PLAYING" => g.cur = "PAUSED",
         g.cur # "READY" \/ ~g.async
  PROVE  Drives(g, Settled(g, s), Changed(g.cur, s)) /\ Settled(g, s).target = s
<1> DEFINE h == Settled(g, s)
<1>0. s \in {"NULL", "PAUSED", "PLAYING"}
  OBVIOUS
<1>1. h \in Gst /\ h.cur = s /\ h.next = "VOID" /\ h.pend = "VOID" /\ h.target = s /\ h.cont = FALSE
  BY <1>0, SettledGst, Zenon
<1>2. g.cur \in GstStates /\ s \in GstStates
  BY DEF Gst, GstStates
<1> HIDE DEF h
<1>3. Pipeline(h)
  BY <1>1 DEF Pipeline
<1>5. Posted(Changed(g.cur, s))
  BY <1>2, Zenon DEF Posted
<1>6. h.cur = "PLAYING" => Changed(g.cur, s) = Changed("PAUSED", "PLAYING")
  BY <1>1
<1>7. h.cur # "NULL"
  BY <1>1
<1> QED
  BY <1>1, <1>3, <1>5, <1>6, <1>7, Zenon DEF Drives, h

InStep(g, c, n, p, t, a, k) ==
  /\ c \in GstStates \ {"VOID", "NULL"} /\ n \in GstStates /\ p \in GstStates
  /\ t \in GstStates \ {"VOID", "NULL", "READY"}
  /\ a \in BOOLEAN /\ k \in BOOLEAN
  /\ p = "VOID" => t = c
  /\ c = "READY" => a
  /\ n = "PLAYING" => c = "PAUSED" /\ p = "PLAYING" /\ t = "PLAYING"
  /\ k => n = "PLAYING"
  /\ c = "PLAYING" => g.cur = "PLAYING"

LEMMA AlteredDrives ==
  ASSUME NEW g \in Gst, NEW h, NEW c, NEW n, NEW p, NEW t, NEW a, NEW k,
         h = Altered(g, c, n, p, t, a, k), InStep(g, c, n, p, t, a, k)
  PROVE  Drives(g, h, <<>>) /\ h.target = t
<1>0. c \in GstStates /\ n \in GstStates /\ p \in GstStates /\ t \in GstStates /\ a \in BOOLEAN /\ k \in BOOLEAN
  BY Zenon DEF InStep
<1>1. h \in Gst
  BY <1>0, Zenon DEF Altered, Gst
<1>2. h.cur = c /\ h.next = n /\ h.pend = p /\ h.target = t
  BY <1>0, Zenon DEF Altered, Gst
<1>3. h.async = a /\ h.cont = k
  BY <1>0, Zenon DEF Altered, Gst
<1>4. Pipeline(h)
  BY <1>1, <1>2, <1>3 DEF Pipeline, InStep
<1>5. Posted(<<>>)
  BY DEF Posted
<1> QED
  BY <1>2, <1>4, <1>5 DEF Drives, InStep

LEMMA AppendNothing ==
  ASSUME NEW b \in Seq(Msg)
  PROVE  b = b \o <<>>
OBVIOUS

LEMMA SetStateDrives ==
  ASSUME Pipeline(gst), NEW s \in {"PAUSED", "PLAYING"}, NEW b \in Seq(Msg), SetState(s, b)
  PROVE  gst'.target = s /\ Drove(b)
<1> USE DEF Drove
<1> DEFINE g == gst
           retarget == [g EXCEPT !.target = s, !.cont = @ /\ g.target = s]
           stands == g.cur # "NULL" /\ g.pend = "VOID"
           starting == g.pend = "PLAYING" /\ g.next = "PLAYING" /\ s = "PAUSED"
<1>0. g \in Gst /\ s \in GstStates /\ "READY" \in GstStates /\ "PAUSED" \in GstStates /\ g.async \in BOOLEAN
      /\ g.cur \in GstStates /\ g.next \in GstStates /\ g.pend \in GstStates /\ g.cont \in BOOLEAN
  BY DEF Pipeline, GstStates, Gst
<1>k. PICK k \in BOOLEAN : k = (g.cont /\ g.target = s)
  OBVIOUS
<1>b. b = b \o <<>>
  BY AppendNothing
<1>1. CASE /\ g.cur = "NULL" /\ bus' = b
           /\ gst' = [g EXCEPT !.cur = "READY", !.next = "PAUSED", !.pend = s, !.target = s, !.async = TRUE]
  <2>1. gst' = Altered(g, "READY", "PAUSED", s, s, TRUE, g.cont)
    BY <1>0, <1>1, Zenon DEF Altered, Gst
  <2>2. ~g.cont
    BY <1>1 DEF Pipeline
  <2>5. InStep(g, "READY", "PAUSED", s, s, TRUE, g.cont)
    BY <1>0, <1>1, <2>2 DEF InStep, Pipeline, GstStates
  <2>0. g \in Gst
    BY <1>0
  <2>3. Drives(g, gst', <<>>) /\ gst'.target = s
    BY <2>0, <2>1, <2>5, AlteredDrives
  <2> QED
    BY <2>3, <1>1, <1>b
<1>2. CASE stands /\ g.cur = s /\ gst' = retarget /\ bus' = b
  <2>1. gst' = Altered(g, g.cur, g.next, g.pend, s, g.async, k)
    BY <1>0, <1>k, <1>2, Zenon DEF Altered, Gst
  <2>5. InStep(g, g.cur, g.next, g.pend, s, g.async, k)
    BY <1>0, <1>k, <1>2 DEF InStep, Pipeline, GstStates
  <2>0. g \in Gst
    BY <1>0
  <2>3. Drives(g, gst', <<>>) /\ gst'.target = s
    BY <2>0, <2>1, <2>5, AlteredDrives
  <2> QED
    BY <2>3, <1>2, <1>b
<1>3. CASE stands /\ g.cur # s /\ gst' = Settled(g, s) /\ bus' = b \o Changed(g.cur, s)
  <2>1. g.cur # "READY" /\ (s = "PLAYING" => g.cur = "PAUSED")
    BY <1>0, <1>3 DEF Pipeline, GstStates
  <2>2. Drives(g, gst', Changed(g.cur, s)) /\ gst'.target = s
    BY <1>0, <1>3, <2>1, SettledDrives, Zenon
  <2> QED
    BY <2>2, <1>3, Zenon
<1>4. CASE /\ stands /\ g.cur # s /\ s = "PAUSED"
           /\ gst' = [retarget EXCEPT !.next = s, !.pend = s, !.async = TRUE] /\ bus' = b
  <2>1. gst' = Altered(g, g.cur, s, s, s, TRUE, k)
    BY <1>0, <1>k, <1>4, Zenon DEF Altered, Gst
  <2>2. ~g.cont
    BY <1>4 DEF Pipeline
  <2>5. InStep(g, g.cur, s, s, s, TRUE, k)
    BY <1>0, <1>k, <1>4, <2>2 DEF InStep, Pipeline, GstStates
  <2>0. g \in Gst
    BY <1>0
  <2>3. Drives(g, gst', <<>>) /\ gst'.target = s
    <3>1. PICK c : c = g.cur
      OBVIOUS
    <3>2. gst' = Altered(g, c, s, s, s, TRUE, k) /\ InStep(g, c, s, s, s, TRUE, k)
      BY <2>1, <2>5, <3>1
    <3> QED
      BY <2>0, <3>2, AlteredDrives
  <2> QED
    BY <2>3, <1>4, <1>b
<1>5. CASE starting /\ g.async /\ gst' = [retarget EXCEPT !.next = s, !.pend = s] /\ bus' = b
  <2>1. gst' = Altered(g, g.cur, s, s, s, g.async, k)
    BY <1>0, <1>k, <1>5, Zenon DEF Altered, Gst
  <2>2. ~k
    BY <1>k, <1>5 DEF Pipeline
  <2>5. InStep(g, g.cur, s, s, s, g.async, k)
    BY <1>0, <1>k, <1>5, <2>2 DEF InStep, Pipeline, GstStates
  <2>0. g \in Gst
    BY <1>0
  <2>3. Drives(g, gst', <<>>) /\ gst'.target = s
    BY <2>0, <2>1, <2>5, AlteredDrives
  <2> QED
    BY <2>3, <1>5, <1>b
<1>6. CASE starting /\ ~g.async /\ gst' = Settled(g, s) /\ bus' = b \o Changed(g.cur, s)
  <2>1. g.cur # "READY" /\ (s = "PLAYING" => g.cur = "PAUSED")
    BY <1>0, <1>6 DEF Pipeline, GstStates
  <2>2. Drives(g, gst', Changed(g.cur, s)) /\ gst'.target = s
    BY <1>0, <1>6, <2>1, SettledDrives, Zenon
  <2> QED
    BY <2>2, <1>6, Zenon
<1>7. CASE g.pend # "VOID" /\ ~starting /\ gst' = [retarget EXCEPT !.pend = s] /\ bus' = b
  <2>1. gst' = Altered(g, g.cur, g.next, s, s, g.async, k)
    BY <1>0, <1>k, <1>7, Zenon DEF Altered, Gst
  <2>2. /\ g.cur # "VOID" /\ g.cur # "NULL" /\ (g.cur = "READY" => g.async)
        /\ g.next = "PLAYING" => g.cur = "PAUSED" /\ s = "PLAYING"
        /\ k => g.next = "PLAYING"
    BY <1>0, <1>k, <1>7 DEF Pipeline
  <2>5. InStep(g, g.cur, g.next, s, s, g.async, k)
    BY <1>0, <1>k, <1>7, <2>2 DEF InStep, Pipeline, GstStates
  <2>0. g \in Gst
    BY <1>0
  <2>3. Drives(g, gst', <<>>) /\ gst'.target = s
    BY <2>0, <2>1, <2>5, AlteredDrives
  <2> QED
    BY <2>3, <1>7, <1>b
<1> QED
  BY <1>1, <1>2, <1>3, <1>4, <1>5, <1>6, <1>7, Zenon DEF SetState

LEMMA StayDrives ==
  ASSUME Pipeline(gst), bus \in Seq(Msg), gst' = gst, NEW b \in Seq(Msg), bus' = b
  PROVE  Drove(b)
<1>1. Drives(gst, gst', <<>>)
  BY DEF Drives, Posted
<1> QED
  BY <1>1, AppendNothing DEF Drove

LEMMA LoseStateDrives ==
  ASSUME Pipeline(gst), bus \in Seq(Msg), LoseState
  PROVE  gst'.target = gst.target /\ Drove(bus)
<1> DEFINE g == gst
<1>0. g \in Gst /\ "PAUSED" \in GstStates /\ g.async \in BOOLEAN /\ g.target \in GstStates
      /\ g.cur \in GstStates /\ g.next \in GstStates /\ g.pend \in GstStates /\ g.cont \in BOOLEAN
  BY DEF Pipeline, GstStates, Gst
<1>b. bus' = bus \o <<>>
  BY AppendNothing DEF LoseState
<1>1. CASE g.cur = "NULL"
  BY <1>1, StayDrives DEF LoseState
<1>2. CASE g.cur # "NULL" /\ g.pend # "VOID"
  <2>1. gst' = [g EXCEPT !.async = TRUE]
    BY <1>2 DEF LoseState
  <2>k. PICK k \in BOOLEAN, a \in BOOLEAN : k = g.cont /\ a = TRUE
    BY <1>0
  <2>2. gst' = Altered(g, g.cur, g.next, g.pend, g.target, a, k)
    BY <1>0, <2>1, <2>k, Zenon DEF Altered, Gst
  <2>3. InStep(g, g.cur, g.next, g.pend, g.target, a, k)
    BY <1>0, <1>2, <2>k DEF InStep, Pipeline, GstStates
  <2>4. g \in Gst
    BY <1>0
  <2>5. Drives(g, gst', <<>>) /\ gst'.target = g.target
    BY <2>2, <2>3, <2>4, AlteredDrives
  <2> QED
    BY <2>5, <1>b DEF Drove
<1>3. CASE g.cur # "NULL" /\ g.pend = "VOID"
  <2>1. gst' = [g EXCEPT !.cur = "PAUSED", !.next = "PAUSED", !.pend = "PAUSED", !.async = TRUE]
    BY <1>3 DEF LoseState
  <2>2. gst' = Altered(g, "PAUSED", "PAUSED", "PAUSED", g.target, TRUE, g.cont)
    BY <1>0, <2>1, Zenon DEF Altered, Gst
  <2>3. InStep(g, "PAUSED", "PAUSED", "PAUSED", g.target, TRUE, g.cont)
    BY <1>0, <1>3 DEF InStep, Pipeline, GstStates
  <2>4. g \in Gst
    BY <1>0
  <2>5. Drives(g, gst', <<>>) /\ gst'.target = g.target
    BY <2>2, <2>3, <2>4, AlteredDrives
  <2> QED
    BY <2>5, <1>b DEF Drove
<1> QED
  BY <1>1, <1>2, <1>3

LEMMA AsyncDoneDrives ==
  ASSUME Pipeline(gst), bus \in Seq(Msg), AsyncDone
  PROVE  gst'.target = gst.target /\ Drove(bus)
<1> DEFINE g == gst
           h == [g EXCEPT !.async = FALSE, !.cur = IF g.next # "PLAYING" THEN "PAUSED" ELSE @]
<1>0. g \in Gst /\ "PAUSED" \in GstStates /\ "PLAYING" \in GstStates /\ g.async \in BOOLEAN /\ g.target \in GstStates
      /\ g.cur \in GstStates /\ g.next \in GstStates /\ g.pend \in GstStates /\ g.cont \in BOOLEAN
  BY DEF Pipeline, GstStates, Gst
<1>g. g \in Gst /\ g.cur # "NULL" /\ g.async
  BY <1>0 DEF Pipeline, AsyncDone
<1>1. CASE g.target = "PAUSED" /\ g.next # "PLAYING"
  <2>1. gst' = Settled(h, "PAUSED") /\ bus' = bus \o Changed(g.cur, "PAUSED")
    BY <1>1 DEF AsyncDone
  <2>2. gst' = Altered(g, "PAUSED", "VOID", "VOID", "PAUSED", FALSE, FALSE)
    BY <1>0, <2>1, Zenon DEF Altered, Gst, Settled
  <2>3. InStep(g, "PAUSED", "VOID", "VOID", "PAUSED", FALSE, FALSE)
    BY <1>0 DEF InStep, GstStates
  <2>4. Drives(g, gst', <<>>) /\ gst'.target = "PAUSED"
    BY <2>2, <2>3, <1>g, AlteredDrives
  <2>5. gst'.cur = "PAUSED"
    BY <1>0, <2>2, Zenon DEF Altered, Gst
  <2>6. Posted(Changed(g.cur, "PAUSED"))
    BY <1>0, Zenon DEF Posted
  <2>7. Drives(g, gst', Changed(g.cur, "PAUSED"))
    BY <2>4, <2>5, <2>6 DEF Drives
  <2> QED
    BY <2>1, <2>4, <2>7, <1>1 DEF Drove
<1>2. CASE ~(g.target = "PAUSED" /\ g.next # "PLAYING")
  <2>1. gst' = [h EXCEPT !.pend = g.target, !.next = "PLAYING", !.cont = TRUE] /\ bus' = bus
    BY <1>2 DEF AsyncDone
  <2>2. g.target = "PLAYING"
    BY <1>0, <1>2, <1>g DEF Pipeline, GstStates
  <2>3. (IF g.next # "PLAYING" THEN "PAUSED" ELSE g.cur) = "PAUSED"
    BY DEF Pipeline
  <2>4. h = [g EXCEPT !.async = FALSE, !.cur = "PAUSED"]
    BY <1>0, <2>3
  <2>5. gst' = Altered(g, "PAUSED", "PLAYING", g.target, g.target, FALSE, TRUE)
    BY <1>0, <2>1, <2>4, Zenon DEF Altered, Gst
  <2>6. InStep(g, "PAUSED", "PLAYING", g.target, g.target, FALSE, TRUE)
    BY <1>0, <2>2 DEF InStep, GstStates
  <2>7. Drives(g, gst', <<>>) /\ gst'.target = g.target
    BY <2>5, <2>6, <1>g, AlteredDrives
  <2> QED
    BY <2>1, <2>7, AppendNothing DEF Drove
<1> QED
  BY <1>1, <1>2

LEMMA ContinueDrives ==
  ASSUME Pipeline(gst), bus \in Seq(Msg), Continue
  PROVE  gst'.target = gst.target /\ Drove(bus)
<1> DEFINE g == gst
<1>0. g \in Gst /\ g.async \in BOOLEAN /\ g.target \in GstStates
      /\ g.cur \in GstStates /\ g.next \in GstStates /\ g.pend \in GstStates /\ g.cont \in BOOLEAN
  BY DEF Pipeline, GstStates, Gst
<1>1. g.cur = "PAUSED" /\ g.target = "PLAYING" /\ g.next = "PLAYING" /\ g.pend = "PLAYING"
  BY DEF Pipeline, Continue
<1>2. CASE g.async
  <2>1. gst' = [g EXCEPT !.cont = FALSE] /\ bus' = bus
    BY <1>2 DEF Continue
  <2>k. PICK a \in BOOLEAN, k \in BOOLEAN : a = g.async /\ k = FALSE
    BY <1>0
  <2>2. gst' = Altered(g, g.cur, g.next, g.pend, g.target, a, k)
    BY <1>0, <2>1, <2>k, Zenon DEF Altered, Gst
  <2>3. InStep(g, g.cur, g.next, g.pend, g.target, a, k)
    BY <1>0, <1>1, <2>k DEF InStep, GstStates
  <2>4. g \in Gst
    BY <1>0
  <2>5. Drives(g, gst', <<>>) /\ gst'.target = g.target
    BY <2>2, <2>3, <2>4, AlteredDrives
  <2> QED
    BY <2>1, <2>5, AppendNothing DEF Drove
<1>3. CASE ~g.async
  <2>1. gst' = Settled(g, "PLAYING") /\ bus' = bus \o Changed(g.cur, "PLAYING")
    BY <1>3 DEF Continue
  <2>2. Drives(g, gst', Changed(g.cur, "PLAYING")) /\ gst'.target = "PLAYING"
    BY <1>0, <1>1, <2>1, SettledDrives
  <2> QED
    BY <1>1, <2>1, <2>2 DEF Drove
<1> QED
  BY <1>2, <1>3

LEMMA TearDown ==
  ASSUME Pipeline(gst), gst' = [Settled(gst, "NULL") EXCEPT !.async = FALSE]
  PROVE  Pipeline(gst') /\ gst'.cur = "NULL" /\ gst'.target = "NULL"
<1> DEFINE g == gst
<1>0. g \in Gst
  BY DEF Pipeline
<1>1. PICK n \in GstStates : n = "NULL"
  BY DEF GstStates
<1>2. PICK v \in GstStates : v = "VOID"
  BY DEF GstStates
<1>3. gst' = Altered(g, n, v, v, n, FALSE, FALSE)
  BY <1>0, <1>1, <1>2, Zenon DEF Altered, Gst, Settled
<1>4. gst' \in Gst /\ gst'.cur = n /\ gst'.next = v /\ gst'.pend = v /\ gst'.target = n
  BY <1>0, <1>3, Zenon DEF Altered, Gst
<1>5. gst'.async = FALSE /\ gst'.cont = FALSE
  BY <1>0, <1>3, Zenon DEF Altered, Gst
<1> QED
  BY <1>1, <1>2, <1>4, <1>5 DEF Pipeline

----------------------------------------------------------------------------
(* The bus grows at its end and is read at its head.                           *)
LEMMA BusAppend ==
  ASSUME NEW b \in Seq(Msg), NEW m \in Msg
  PROVE  /\ b \o <<m>> \in Seq(Msg)
         /\ NoState(b \o <<m>>) => NoState(b) /\ m.type # "state"
         /\ m.type # "state" /\ NoState(b) => NoState(b \o <<m>>)
         /\ m.type # "state" /\ LastStarts(b) => LastStarts(b \o <<m>>)
         /\ Start(m) => LastStarts(b \o <<m>>)
         /\ NoFull(b) /\ m.type # "full" => NoFull(b \o <<m>>)
<1> DEFINE c == b \o <<m>>
<1>1. c \in Seq(Msg) /\ Len(c) = Len(b) + 1 /\ Len(b) \in Nat
  OBVIOUS
<1>2. \A i \in 1..Len(b) : c[i] = b[i]
  OBVIOUS
<1>3. c[Len(b) + 1] = m
  OBVIOUS
<1> HIDE DEF c
<1>4. NoState(c) => NoState(b) /\ m.type # "state"
  BY <1>1, <1>2, <1>3 DEF NoState
<1>5. ASSUME m.type # "state", NoState(b) PROVE NoState(c)
  BY <1>1, <1>2, <1>3, <1>5 DEF NoState
<1>6. ASSUME m.type # "state", LastStarts(b) PROVE LastStarts(c)
  <2>1. PICK i \in 1..Len(b) : Start(b[i]) /\ \A j \in 1..Len(b) : j > i => b[j].type # "state"
    BY <1>6 DEF LastStarts
  <2>2. i \in 1..Len(c) /\ Start(c[i])
    BY <1>1, <1>2, <2>1
  <2>3. \A j \in 1..Len(c) : j > i => c[j].type # "state"
    BY <1>1, <1>2, <1>3, <1>6, <2>1
  <2> QED
    BY <2>2, <2>3 DEF LastStarts
<1>7. ASSUME Start(m) PROVE LastStarts(c)
  <2>1. Len(b) + 1 \in 1..Len(c) /\ Start(c[Len(b) + 1])
    BY <1>1, <1>3, <1>7
  <2>2. \A j \in 1..Len(c) : j > Len(b) + 1 => c[j].type # "state"
    BY <1>1
  <2> QED
    BY <2>1, <2>2 DEF LastStarts
<1>8. ASSUME NoFull(b), m.type # "full" PROVE NoFull(c)
  BY <1>1, <1>2, <1>3, <1>8 DEF NoFull
<1> QED
  BY <1>1, <1>4, <1>5, <1>6, <1>7, <1>8 DEF c

LEMMA BusTail ==
  ASSUME NEW b \in Seq(Msg), b # <<>>
  PROVE  /\ Tail(b) \in Seq(Msg) /\ Head(b) \in Msg
         /\ NoState(b) => NoState(Tail(b)) /\ Head(b).type # "state"
         /\ LastStarts(b) => LastStarts(Tail(b)) \/ (Start(Head(b)) /\ NoState(Tail(b)))
         /\ Head(b).type # "state" /\ NoState(Tail(b)) => NoState(b)
         /\ NoFull(b) => NoFull(Tail(b)) /\ Head(b).type # "full"
<1> DEFINE c == Tail(b)
<1>1. c \in Seq(Msg) /\ Len(c) = Len(b) - 1 /\ Len(b) \in Nat /\ Len(b) > 0
  OBVIOUS
<1>2. \A i \in 1..Len(c) : c[i] = b[i + 1]
  OBVIOUS
<1>3. Head(b) = b[1] /\ b[1] \in Msg
  OBVIOUS
<1>h. PICK h \in Msg : h = Head(b) /\ h = b[1]
  BY <1>3
<1> HIDE DEF c
<1>4. ASSUME NoState(b) PROVE NoState(c) /\ h.type # "state"
  BY <1>1, <1>2, <1>h, <1>4 DEF NoState
<1>5. ASSUME LastStarts(b) PROVE LastStarts(c) \/ (Start(h) /\ NoState(c))
  <2>1. PICK i \in 1..Len(b) : Start(b[i]) /\ \A j \in 1..Len(b) : j > i => b[j].type # "state"
    BY <1>5 DEF LastStarts
  <2>2. CASE i = 1
    <3>1. NoState(c)
      BY <1>1, <1>2, <2>1, <2>2 DEF NoState
    <3> QED
      BY <3>1, <2>1, <2>2, <1>h
  <2>3. CASE i # 1
    <3>1. i - 1 \in 1..Len(c) /\ c[i - 1] = b[i]
      BY <1>1, <1>2, <2>3
    <3>2. \A j \in 1..Len(c) : j > i - 1 => c[j].type # "state"
      BY <1>1, <1>2, <2>1
    <3> QED
      BY <3>1, <3>2, <2>1 DEF LastStarts
  <2> QED
    BY <2>2, <2>3
<1>6. ASSUME h.type # "state", NoState(c) PROVE NoState(b)
  <2>1. SUFFICES ASSUME NEW i \in 1..Len(b) PROVE b[i].type # "state"
    BY DEF NoState
  <2>2. CASE i = 1
    BY <2>2, <1>h, <1>6
  <2>3. CASE i # 1
    <3>1. i - 1 \in 1..Len(c) /\ c[i - 1] = b[i]
      BY <1>1, <1>2, <2>3
    <3> QED
      BY <3>1, <1>6 DEF NoState
  <2> QED
    BY <2>2, <2>3
<1>7. ASSUME NoFull(b) PROVE NoFull(c) /\ h.type # "full"
  BY <1>1, <1>2, <1>h, <1>7 DEF NoFull
<1> QED
  BY <1>1, <1>h, <1>4, <1>5, <1>6, <1>7 DEF c

(* A step of the pipeline cannot start it without the bus telling so.          *)
LEMMA DroveBus ==
  ASSUME Pipeline(gst), NEW b \in Seq(Msg), Drove(b)
  PROVE  /\ Pipeline(gst') /\ bus' \in Seq(Msg)
         /\ gst'.cur = "PLAYING" => (gst.cur = "PLAYING" /\ bus' = b) \/ (LastStarts(bus') /\ ~NoState(bus'))
         /\ gst'.cur = "NULL" => gst.cur = "NULL" /\ bus' = b
         /\ NoFull(b) => NoFull(bus')
<1>1. PICK p : Drives(gst, gst', p) /\ bus' = b \o p
  BY DEF Drove
<1>2. Pipeline(gst')
  BY <1>1 DEF Drives
<1>3. CASE p = <<>>
  <2>1. bus' = b
    BY <1>1, <1>3
  <2>2. <<>> # Changed("PAUSED", "PLAYING")
    BY DEF Changed
  <2> QED
    BY <1>1, <1>2, <1>3, <2>1, <2>2 DEF Drives
<1>4. CASE p # <<>>
  <2>1. PICK old \in GstStates, new \in GstStates : p = Changed(old, new)
    BY <1>1, <1>4 DEF Drives, Posted
  <2>2. PICK m \in Msg : m = [type |-> "state", old |-> old, new |-> new]
    BY DEF Msg
  <2>3. p = <<m>> /\ m.type = "state"
    BY <2>1, <2>2 DEF Changed
  <2>4. gst'.cur = "PLAYING" => p = Changed("PAUSED", "PLAYING")
    BY <1>1, <1>4 DEF Drives
  <2>5. p = Changed("PAUSED", "PLAYING") => Start(m)
    BY <2>3 DEF Changed, Start
  <2>6. gst'.cur # "NULL"
    BY <1>1, <1>4 DEF Drives
  <2>7. bus' = b \o <<m>>
    BY <1>1, <2>3
  <2>8. bus' \in Seq(Msg) /\ ~NoState(bus') /\ (Start(m) => LastStarts(bus')) /\ (NoFull(b) => NoFull(bus'))
    BY <2>3, <2>7, BusAppend
  <2> QED
    BY <1>2, <2>4, <2>5, <2>6, <2>8
<1> QED
  BY <1>3, <1>4

----------------------------------------------------------------------------
(* What the bus knows, kept by the three things that happen to it: the         *)
(* pipeline posts, the player reads a message other than a state change, and    *)
(* the pipeline is torn down.                                                   *)
SameRing == hls' = hls /\ (~hls => ~m_bHLSPBFull')

LEMMA KeptByPipeline ==
  ASSUME BusInv, Drove(bus), SameRing, Knows => Knows', Dead => Dead'
  PROVE  BusInv'
<1>1. /\ Pipeline(gst') /\ bus' \in Seq(Msg)
      /\ gst'.cur = "PLAYING" => (gst.cur = "PLAYING" /\ bus' = bus) \/ (LastStarts(bus') /\ ~NoState(bus'))
      /\ gst'.cur = "NULL" => gst.cur = "NULL" /\ bus' = bus
      /\ NoFull(bus) => NoFull(bus')
  BY DroveBus DEF BusInv
<1>2. TornDown'
  BY <1>1 DEF BusInv, TornDown
<1>3. BusTells' /\ PlayerKnows'
  BY <1>1 DEF BusInv, BusTells, PlayerKnows
<1>4. NoRing'
  BY <1>1 DEF BusInv, NoRing, SameRing
<1> QED
  BY <1>1, <1>2, <1>3, <1>4 DEF BusInv

LEMMA KeptByRead ==
  ASSUME BusInv, bus # <<>>, gst' = gst, bus' = Tail(bus), SameRing,
         Knows' \/ (Head(bus).type # "state" /\ (Knows => Knows'))
  PROVE  BusInv'
<1>1. /\ Tail(bus) \in Seq(Msg)
      /\ NoState(bus) => NoState(Tail(bus))
      /\ LastStarts(bus) => LastStarts(Tail(bus)) \/ NoState(Tail(bus))
      /\ Head(bus).type # "state" /\ NoState(Tail(bus)) => NoState(bus)
      /\ NoFull(bus) => NoFull(Tail(bus))
  BY BusTail DEF BusInv
<1>2. TornDown'
  BY DEF BusInv, TornDown
<1>3. BusTells' /\ PlayerKnows'
  BY <1>1 DEF BusInv, BusTells, PlayerKnows
<1>4. NoRing'
  BY <1>1 DEF BusInv, NoRing, SameRing
<1> QED
  BY <1>1, <1>2, <1>3, <1>4 DEF BusInv

LEMMA KeptByTearDown ==
  ASSUME BusInv, gst' = [Settled(gst, "NULL") EXCEPT !.async = FALSE], bus' = <<>>, SameRing, Dead'
  PROVE  BusInv'
<1>1. Pipeline(gst') /\ gst'.cur = "NULL"
  BY TearDown DEF BusInv
<1>2. bus' \in Seq(Msg) /\ NoFull(bus')
  BY DEF NoFull
<1> QED
  BY <1>1, <1>2 DEF BusInv, TornDown, BusTells, PlayerKnows, NoRing, SameRing

(* Steps that do not touch the bus, the ring, or the state of the player.      *)
LEMMA KeptByStay ==
  ASSUME BusInv, UNCHANGED gstVars, SameRing, Knows => Knows', Dead => Dead'
  PROVE  BusInv'
<1>1. Drove(bus)
  BY StayDrives DEF BusInv, gstVars
<1> QED
  BY <1>1, KeptByPipeline

----------------------------------------------------------------------------
(* The callback's content outside Dispose().                                   *)
LEMMA ContentSame ==
  ASSUME content' = content
  PROVE  /\ Content0' = Content0 /\ Content1' = Content1 /\ Content2' = Content2
         /\ Content3' = Content3 /\ Content4' = Content4 /\ Content5' = Content5
BY DEF Content, Content0, Content1, Content2, Content3, Content4, Content5

LEMMA ContentKept ==
  ASSUME ContentInv, content' = content,
         \/ pc' = pc
         \/ pc["app"] \notin Disposing /\ pc'["app"] \notin Disposing /\ pc'["bus"] \notin {"late", "notify"}
  PROVE  ContentInv'
BY ContentSame DEF ContentInv, Disposing

LEMMA BusBusy ==
  ASSUME ContentInv, pc["bus"] \notin {"idle", "late", "notify"}
  PROVE  pc["app"] \notin Disposing
BY DEF ContentInv

LEMMA ContentFlags ==
  /\ Content0 => content.inProgress = FALSE
  /\ Content1 => content.inProgress = TRUE /\ content.disposed = FALSE /\ content.destroyed = FALSE
  /\ Content2 \/ Content3 \/ Content4 \/ Content5 =>
       content.inProgress = TRUE /\ content.disposed = TRUE /\ content.destroyed = TRUE
BY Zenon DEF Content, Content0, Content1, Content2, Content3, Content4, Content5

LEMMA Receiving ==
  ASSUME ContentInv, NEW type, Receive(type)
  PROVE  /\ pc["app"] \notin Disposing /\ pc["bus"] = "idle"
         /\ bus # <<>> /\ Head(bus).type = type
BY ContentFlags DEF ContentInv, Receive

----------------------------------------------------------------------------
(* The steps of the pipeline and of the buffers.                               *)
Untouched ==
  UNCHANGED <<hls, playerVars, rateVars, fillVars, pc, call, content, status, asked, misread>>

LEMMA PipelineStep ==
  ASSUME PlayerInv, Untouched, Drove(bus), gst'.target = gst.target
  PROVE  PlayerInv'
<1> USE DEF Untouched, playerVars, rateVars, fillVars
<1>1. TypeInv'
  BY DEF PlayerInv, TypeInv
<1>2. BusInv'
  BY KeptByPipeline DEF PlayerInv, BusInv, NoRing, SameRing, Knows, Dead
<1>3. ThreadInv'
  BY DEF PlayerInv, ThreadInv, Misreads, AskedPause, Suspended, Filled
<1>4. ResumeInv'
  BY DEF PlayerInv, ResumeInv, FilledResumes, PendingResumes, Wanted, Filled, Resumes, AppResumes
<1>5. ContentInv'
  BY ContentKept DEF PlayerInv
<1> QED
  BY <1>1, <1>2, <1>3, <1>4, <1>5 DEF PlayerInv

LEMMA AsyncDoneStep == ASSUME PlayerInv, AsyncDone PROVE PlayerInv'
<1>1. gst'.target = gst.target /\ Drove(bus)
  BY AsyncDoneDrives DEF PlayerInv, BusInv
<1>2. Untouched
  BY DEF AsyncDone, Untouched
<1> QED
  BY <1>1, <1>2, PipelineStep

LEMMA ContinueStep == ASSUME PlayerInv, Continue PROVE PlayerInv'
<1>1. gst'.target = gst.target /\ Drove(bus)
  BY ContinueDrives DEF PlayerInv, BusInv
<1>2. Untouched
  BY DEF Continue, Untouched
<1> QED
  BY <1>1, <1>2, PipelineStep

LEMMA PostStep == ASSUME PlayerInv, NEW type \in Notes, Post(type) PROVE PlayerInv'
<1> USE DEF playerVars, rateVars, fillVars
<1>1. TypeInv'
  BY DEF PlayerInv, TypeInv, Post
<1>2. BusInv'
  <2>1. type \in AllNotes /\ type # "state"
    BY PipelineAssumption DEF AllNotes, HLSNotes, BufferNotes
  <2>2. PICK m \in Msg : m = Note(type)
    BY <2>1 DEF Note, Msg, GstStates
  <2>3. m.type = type
    BY <2>2 DEF Note
  <2>4. bus' = bus \o <<m>> /\ gst' = gst /\ gst.cur # "NULL"
    BY <2>2 DEF Post, PlayerInv, BusInv
  <2>5. ~hls => type # "full"
    BY DEF Post, HLSNotes
  <2>6. /\ bus' \in Seq(Msg)
        /\ NoState(bus') => NoState(bus)
        /\ NoState(bus) => NoState(bus')
        /\ LastStarts(bus) => LastStarts(bus')
        /\ NoFull(bus) /\ type # "full" => NoFull(bus')
    BY <2>1, <2>3, <2>4, BusAppend DEF PlayerInv, BusInv
  <2>7. Knows' = Knows
    BY DEF Post, Knows
  <2> QED
    BY <2>4, <2>5, <2>6, <2>7
    DEF PlayerInv, BusInv, TornDown, BusTells, PlayerKnows, NoRing, Post
<1>3. ThreadInv'
  BY DEF PlayerInv, ThreadInv, Misreads, AskedPause, Suspended, Filled, Post
<1>4. ResumeInv'
  BY DEF PlayerInv, ResumeInv, FilledResumes, PendingResumes, Wanted, Filled, Resumes, AppResumes, Post
<1>5. ContentInv'
  BY ContentKept DEF PlayerInv, Post
<1> QED
  BY <1>1, <1>2, <1>3, <1>4, <1>5 DEF PlayerInv

----------------------------------------------------------------------------
(* Play() and InternalPause(), called by either thread.                        *)
LEMMA PlaySetStep == ASSUME PlayerInv, NEW t \in {"app", "bus"}, PlaySet(t) PROVE PlayerInv'
<1> USE DEF playerVars, rateVars, fillVars, Goto, PlaySet
<1>0. pc["app"] \notin Disposing
  BY BusBusy DEF PlayerInv, Disposing
<1>a. pc' = [pc EXCEPT ![t] = "idle"] /\ pc[t] = "play_set" /\ pc' \in [{"app", "bus"} -> Places]
  BY DEF PlayerInv, TypeInv, Places
<1>b. (t = "app" => pc'["app"] = "idle" /\ pc'["bus"] = pc["bus"])
      /\ (t = "bus" => pc'["bus"] = "idle" /\ pc'["app"] = pc["app"])
  BY <1>a DEF PlayerInv, TypeInv
<1>1. TypeInv'
  BY <1>a DEF PlayerInv, TypeInv
<1>2. BusInv' /\ (zeroRate \/ gst'.target = "PLAYING")
  <2>1. CASE zeroRate
    BY <1>0, <2>1, KeptByStay DEF PlayerInv, BusInv, NoRing, SameRing, Knows, Dead
  <2>2. CASE ~zeroRate
    <3>1. gst'.target = "PLAYING" /\ Drove(bus)
      BY <2>2, SetStateDrives DEF PlayerInv, BusInv
    <3> QED
      BY <1>0, <3>1, KeptByPipeline DEF PlayerInv, BusInv, NoRing, SameRing, Knows, Dead
  <2> QED
    BY <2>1, <2>2
<1>3. ThreadInv'
  BY <1>b DEF PlayerInv, ThreadInv, Misreads, AskedPause, Suspended, Filled
<1>4. ResumeInv'
  BY <1>2 DEF PlayerInv, ResumeInv, FilledResumes, PendingResumes, Wanted, Resumes, AppResumes
<1>5. ContentInv'
  BY <1>0, <1>a, <1>b, ContentKept DEF PlayerInv, ContentInv, Disposing
<1> QED
  BY <1>1, <1>2, <1>3, <1>4, <1>5 DEF PlayerInv

LEMMA InternalPauseStep == ASSUME PlayerInv, NEW t \in {"app", "bus"}, InternalPause(t) PROVE PlayerInv'
<1> USE DEF playerVars, rateVars, fillVars, Goto, InternalPause
<1>0. pc["app"] \notin Disposing
  BY BusBusy DEF PlayerInv, Disposing
<1>g. PICK place \in {"pause_set", "idle", "seek", "zero"} : pc' = [pc EXCEPT ![t] = place]
                                                         /\ (t = "bus" => place \in {"idle", "pause_set"})
  BY DEF AfterInternalPause
<1>a. pc[t] = "pause" /\ pc' \in [{"app", "bus"} -> Places]
  BY <1>g DEF PlayerInv, TypeInv, Places
<1>b. (t = "app" => pc'["app"] = place /\ pc'["bus"] = pc["bus"])
      /\ (t = "bus" => pc'["bus"] = place /\ pc'["app"] = pc["app"])
  BY <1>g, <1>a DEF PlayerInv, TypeInv
<1>1. TypeInv'
  BY <1>a DEF PlayerInv, TypeInv
<1>2. BusInv'
  BY <1>0, KeptByStay DEF PlayerInv, BusInv, NoRing, SameRing, Knows, Dead
<1>3. ThreadInv'
  BY <1>a, <1>b DEF PlayerInv, ThreadInv, Misreads, AskedPause, Suspended, Filled
<1>4. ResumeInv'
  BY <1>a, <1>b, <1>0 DEF PlayerInv, ResumeInv, FilledResumes, PendingResumes, Wanted, Resumes, AppResumes, gstVars, Filled
<1>5. ContentInv'
  BY <1>0, <1>a, <1>b, ContentKept DEF PlayerInv, ContentInv, Disposing
<1> QED
  BY <1>1, <1>2, <1>3, <1>4, <1>5 DEF PlayerInv

LEMMA PauseSetStep == ASSUME PlayerInv, NEW t \in {"app", "bus"}, PauseSet(t) PROVE PlayerInv'
<1> USE DEF playerVars, rateVars, fillVars, Goto, PauseSet
<1>0. pc["app"] \notin Disposing
  BY BusBusy DEF PlayerInv, Disposing
<1>g. PICK place \in {"idle", "seek", "zero"} : pc' = [pc EXCEPT ![t] = place] /\ (t = "bus" => place = "idle")
  BY DEF AfterInternalPause
<1>a. pc[t] = "pause_set" /\ pc' \in [{"app", "bus"} -> Places]
  BY <1>g DEF PlayerInv, TypeInv, Places
<1>b. (t = "app" => pc'["app"] = place /\ pc'["bus"] = pc["bus"])
      /\ (t = "bus" => pc'["bus"] = place /\ pc'["app"] = pc["app"])
  BY <1>g, <1>a DEF PlayerInv, TypeInv
<1>1. TypeInv'
  BY <1>a DEF PlayerInv, TypeInv
<1>2. BusInv'
  <2>1. CASE zeroRate
    BY <1>0, <2>1, KeptByStay DEF PlayerInv, BusInv, NoRing, SameRing, Knows, Dead
  <2>2. CASE ~zeroRate
    <3>1. Drove(bus)
      BY <2>2, SetStateDrives DEF PlayerInv, BusInv
    <3> QED
      BY <1>0, <3>1, KeptByPipeline DEF PlayerInv, BusInv, NoRing, SameRing, Knows, Dead
  <2> QED
    BY <2>1, <2>2
<1>3. ThreadInv'
  BY <1>a, <1>b DEF PlayerInv, ThreadInv, Misreads, AskedPause, Suspended, Filled
<1>4. ResumeInv'
  <2>1. ~Wanted'
    BY <1>a DEF PlayerInv, ThreadInv, AskedPause, Suspended, Wanted
  <2> QED
    BY <2>1 DEF ResumeInv, FilledResumes, PendingResumes
<1>5. ContentInv'
  BY <1>0, <1>a, <1>b, ContentKept DEF PlayerInv, ContentInv, Disposing
<1> QED
  BY <1>1, <1>2, <1>3, <1>4, <1>5 DEF PlayerInv

----------------------------------------------------------------------------
(* The application's calls, made while it is idle, and their further steps.  A  *)
(* step that takes only the application further, and leaves the state of the    *)
(* player and the pipeline alone:                                               *)
AppMoves(from, to) ==
  /\ pc["app"] = from /\ pc' = [pc EXCEPT !["app"] = to]
  /\ from \notin Disposing /\ to \in Places \ Disposing
  /\ UNCHANGED <<hls, m_PlayerState, fillVars, gstVars, content, status, misread>>

LEMMA AppPlace ==
  ASSUME PlayerInv, NEW from, NEW to, AppMoves(from, to)
  PROVE  /\ pc' \in [{"app", "bus"} -> Places]
         /\ pc'["app"] = to /\ pc'["bus"] = pc["bus"]
         /\ pc["app"] \notin Disposing /\ pc'["app"] \notin Disposing
BY DEF PlayerInv, TypeInv, AppMoves

LEMMA AppStepKeeps ==
  ASSUME PlayerInv, NEW from, NEW to, AppMoves(from, to),
         m_PlayerPendingState' \in {"Unknown", "Paused", "Stopped"}, zeroRate' \in BOOLEAN,
         to \in {"stop_set", "pause", "pause_set", "pause_first", "zero"} => asked' # "play"
  PROVE  TypeInv' /\ BusInv' /\ ThreadInv' /\ ContentInv'
<1> USE DEF fillVars
<1>0. /\ pc' \in [{"app", "bus"} -> Places]
      /\ pc'["app"] = to /\ pc'["bus"] = pc["bus"]
      /\ pc["app"] \notin Disposing /\ pc'["app"] \notin Disposing
  BY AppPlace
<1>1. TypeInv'
  BY <1>0 DEF PlayerInv, TypeInv, AppMoves
<1>2. BusInv'
  BY <1>0, KeptByStay DEF PlayerInv, BusInv, NoRing, SameRing, Knows, Dead, AppMoves
<1>3. ThreadInv'
  BY <1>0 DEF PlayerInv, ThreadInv, Misreads, AskedPause, Suspended, Filled, AppMoves
<1>4. ContentInv'
  BY <1>0, ContentKept DEF PlayerInv, ContentInv, AppMoves, Disposing
<1> QED
  BY <1>1, <1>2, <1>3, <1>4

(* If nothing is asked, nothing new is pending and the application does not    *)
(* give up a resumption, those who resume stay the same.                        *)
LEMMA ResumeKept ==
  ASSUME PlayerInv, NEW from, NEW to, AppMoves(from, to),
         \/ asked' # "play"
         \/ to = "play_set"
         \/ asked' = asked /\ zeroRate' = zeroRate /\ m_PlayerPendingState' = m_PlayerPendingState /\ from # "play_set"
         \/ m_PlayerState # "Stalled"
  PROVE  ResumeInv'
<1>0. pc'["app"] = to /\ pc'["bus"] = pc["bus"]
  BY AppPlace
<1> QED
  BY <1>0 DEF PlayerInv, ResumeInv, FilledResumes, PendingResumes, Wanted, Filled, Resumes, AppResumes, AppMoves,
              gstVars, fillVars

LEMMA PlayStep == ASSUME PlayerInv, Play PROVE PlayerInv'
<1> DEFINE to == IF PlayReady THEN "play_set" ELSE "idle"
<1> USE DEF playerVars, rateVars, fillVars, Goto, Call
<1>1. AppMoves("idle", to)
  BY DEF Play, AppMoves, Disposing, Places
<1>2. m_PlayerState = "Stalled" => to = "play_set"
  BY DEF PlayReady
<1>3. /\ m_PlayerPendingState' \in {"Unknown", "Paused", "Stopped"} /\ zeroRate' \in BOOLEAN
      /\ to \notin {"stop_set", "pause", "pause_set", "pause_first", "zero"}
  BY DEF PlayerInv, TypeInv, Play
<1> HIDE DEF to
<1>4. ResumeInv'
  BY <1>1, <1>2, ResumeKept
<1> QED
  BY <1>1, <1>3, <1>4, AppStepKeeps DEF PlayerInv

LEMMA StopStep == ASSUME PlayerInv, Stop PROVE PlayerInv'
<1> USE DEF playerVars, rateVars, fillVars, Goto, Call
<1>1. PICK to \in {"seek", "stop_set"} : AppMoves("idle", to)
  BY DEF Stop, AppMoves, Disposing, Places
<1>2. m_PlayerPendingState' \in {"Unknown", "Paused", "Stopped"} /\ zeroRate' \in BOOLEAN /\ asked' # "play"
  BY DEF PlayerInv, TypeInv, Stop
<1>3. ResumeInv'
  BY <1>1, <1>2, ResumeKept
<1> QED
  BY <1>1, <1>2, <1>3, AppStepKeeps DEF PlayerInv

LEMMA StopSetStep == ASSUME PlayerInv, StopSet PROVE PlayerInv'
<1> USE DEF playerVars, rateVars, fillVars, Goto
<1>1. AppMoves("stop_set", "pause")
  BY DEF StopSet, AppMoves, Disposing, Places
<1>2. m_PlayerPendingState' \in {"Unknown", "Paused", "Stopped"} /\ zeroRate' \in BOOLEAN /\ asked' # "play"
  BY DEF PlayerInv, TypeInv, StopSet, ThreadInv, AskedPause
<1>3. ResumeInv'
  BY <1>1, <1>2, ResumeKept
<1> QED
  BY <1>1, <1>2, <1>3, AppStepKeeps DEF PlayerInv

LEMMA PauseStep == ASSUME PlayerInv, Pause PROVE PlayerInv'
<1> USE DEF playerVars, rateVars, fillVars, Goto, Call
<1>1. PICK to \in {"idle", "pause_first"} : AppMoves("idle", to)
  BY DEF Pause, PauseTest, AppMoves, Disposing, Places
<1>2. m_PlayerPendingState' \in {"Unknown", "Paused", "Stopped"} /\ zeroRate' \in BOOLEAN /\ asked' # "play"
  BY DEF PlayerInv, TypeInv, Pause
<1>3. ResumeInv'
  BY <1>1, <1>2, ResumeKept
<1> QED
  BY <1>1, <1>2, <1>3, AppStepKeeps DEF PlayerInv

(* Pause() in Stopped or Stalled: the player is Paused at once.                *)
LEMMA PauseFirstStep == ASSUME PlayerInv, PauseFirst PROVE PlayerInv'
<1> USE DEF playerVars, rateVars, fillVars, Goto
<1>0. asked' # "play" /\ asked' = asked /\ pc["app"] = "pause_first"
  BY DEF PlayerInv, ThreadInv, AskedPause, PauseFirst
<1>1. CASE ~PausedAlready
  <2>1. AppMoves("pause_first", "pause")
    BY <1>1 DEF PauseFirst, AppMoves, Disposing, Places
  <2>2. m_PlayerPendingState' \in {"Unknown", "Paused", "Stopped"} /\ zeroRate' \in BOOLEAN
    BY <1>1 DEF PlayerInv, TypeInv, PauseFirst
  <2>3. ResumeInv'
    BY <1>0, <2>1, ResumeKept
  <2> QED
    BY <1>0, <2>1, <2>2, <2>3, AppStepKeeps DEF PlayerInv
<1>2. CASE PausedAlready
  <2>1. PICK to \in {"idle", "zero"} : pc' = [pc EXCEPT !["app"] = to]
    BY <1>2 DEF PauseFirst, AfterPause
  <2>2. /\ pc' \in [{"app", "bus"} -> Places]
        /\ pc'["app"] = to /\ pc'["bus"] = pc["bus"] /\ pc["app"] \notin Disposing /\ to \notin Disposing
    BY <1>0, <2>1 DEF PlayerInv, TypeInv, Places, Disposing
  <2>3. m_PlayerState \in {"Stopped", "Stalled"} /\ m_PlayerState' = "Paused" /\ status' = "Paused"
    BY <1>2 DEF PausedAlready, PauseFirst, Announce
  <2>4. TypeInv'
    BY <1>2, <2>2, <2>3 DEF PlayerInv, TypeInv, PauseFirst, PlayerStates
  <2>5. BusInv'
    <3>1. Knows => Knows'
      BY <2>2, <2>3 DEF Knows, PauseFirst
    <3>2. ~Dead
      BY <2>2, <2>3 DEF Dead
    <3> QED
      BY <3>1, <3>2, KeptByStay DEF PlayerInv, BusInv, NoRing, SameRing, PauseFirst
  <2>6. ThreadInv'
    BY <1>0, <2>2, <2>3 DEF PlayerInv, ThreadInv, Misreads, AskedPause, Suspended, Filled, PauseFirst
  <2>7. ResumeInv'
    BY <1>0 DEF ResumeInv, FilledResumes, PendingResumes, Wanted
  <2>8. ContentInv'
    BY <2>2, ContentKept DEF PlayerInv, ContentInv, Disposing, PauseFirst
  <2> QED
    BY <2>4, <2>5, <2>6, <2>7, <2>8 DEF PlayerInv
<1> QED
  BY <1>1, <1>2

LEMMA FinishStep == ASSUME PlayerInv, Finish PROVE PlayerInv'
<1> USE DEF playerVars, rateVars, fillVars, Goto, Call
<1>1. PICK to \in {"idle", "pause"} : AppMoves("idle", to) /\ (to = "pause" <=> m_PlayerState = "Playing")
  BY DEF Finish, AppMoves, Disposing, Places
<1>2. /\ m_PlayerPendingState' \in {"Unknown", "Paused", "Stopped"} /\ zeroRate' \in BOOLEAN
      /\ (to = "pause" => asked' # "play") /\ (to = "idle" => asked' = asked)
      /\ zeroRate' = zeroRate /\ m_PlayerPendingState' = m_PlayerPendingState
  BY <1>1 DEF PlayerInv, TypeInv, Finish
<1>3. ResumeInv'
  BY <1>1, <1>2, ResumeKept
<1> QED
  BY <1>1, <1>2, <1>3, AppStepKeeps DEF PlayerInv

LEMMA RateZeroStep == ASSUME PlayerInv, RateZero PROVE PlayerInv'
<1> USE DEF playerVars, rateVars, fillVars, Goto, Call
<1>1. PICK to \in {"zero", "pause_first"} : AppMoves("idle", to)
  BY DEF RateZero, PauseTest, AppMoves, Disposing, Places
<1>2. m_PlayerPendingState' \in {"Unknown", "Paused", "Stopped"} /\ zeroRate' \in BOOLEAN /\ asked' # "play"
  BY DEF PlayerInv, TypeInv, RateZero
<1>3. ResumeInv'
  BY <1>1, <1>2, ResumeKept
<1> QED
  BY <1>1, <1>2, <1>3, AppStepKeeps DEF PlayerInv

LEMMA RateZeroEndStep == ASSUME PlayerInv, RateZeroEnd PROVE PlayerInv'
<1> USE DEF playerVars, rateVars, fillVars, Goto
<1>1. AppMoves("zero", "idle")
  BY DEF RateZeroEnd, AppMoves, Disposing, Places
<1>2. m_PlayerPendingState' \in {"Unknown", "Paused", "Stopped"} /\ zeroRate' \in BOOLEAN /\ asked' # "play"
  BY DEF PlayerInv, TypeInv, RateZeroEnd, ThreadInv, AskedPause
<1>3. ResumeInv'
  BY <1>1, <1>2, ResumeKept
<1> QED
  BY <1>1, <1>2, <1>3, AppStepKeeps DEF PlayerInv

LEMMA RateSetStep == ASSUME PlayerInv, RateSet PROVE PlayerInv'
<1> USE DEF playerVars, rateVars, fillVars, Call, RateSet
<1>0. gst'.target = gst.target /\ Drove(bus) /\ pc["app"] = "idle" /\ pc' = pc
  BY LoseStateDrives DEF PlayerInv, BusInv
<1>1. TypeInv'
  BY DEF PlayerInv, TypeInv
<1>2. BusInv'
  BY <1>0, KeptByPipeline DEF PlayerInv, BusInv, NoRing, SameRing, Knows, Dead
<1>3. ThreadInv'
  BY <1>0 DEF PlayerInv, ThreadInv, Misreads, AskedPause, Suspended, Filled
<1>4. ResumeInv'
  BY <1>0 DEF PlayerInv, ResumeInv, FilledResumes, PendingResumes, Wanted, Filled, Resumes, AppResumes
<1>5. ContentInv'
  BY ContentKept DEF PlayerInv
<1> QED
  BY <1>1, <1>2, <1>3, <1>4, <1>5 DEF PlayerInv

LEMMA SeekTestStep ==
  ASSUME PlayerInv, NEW from \in {"idle", "seek"}, pc["app"] = from, SeekTest
  PROVE  PlayerInv'
<1> USE DEF playerVars, rateVars, fillVars, Goto, SeekTest
<1>1. PICK to \in {"idle", "seek_do"} : AppMoves(from, to)
  BY DEF AppMoves, Disposing, Places
<1>2. /\ m_PlayerPendingState' \in {"Unknown", "Paused", "Stopped"} /\ zeroRate' \in BOOLEAN
      /\ asked' = asked /\ zeroRate' = zeroRate /\ m_PlayerPendingState' = m_PlayerPendingState
  BY DEF PlayerInv, TypeInv
<1>3. ResumeInv'
  BY <1>1, <1>2, ResumeKept
<1> QED
  BY <1>1, <1>2, <1>3, AppStepKeeps DEF PlayerInv

LEMMA SeekEndStep == ASSUME PlayerInv, SeekEnd PROVE PlayerInv'
<1> USE DEF playerVars, rateVars, fillVars, Goto
<1>1. PICK to \in {"idle", "seek_set"} : AppMoves("seek_end", to)
  BY DEF SeekEnd, AppMoves, Disposing, Places
<1>2. /\ m_PlayerPendingState' \in {"Unknown", "Paused", "Stopped"} /\ zeroRate' \in BOOLEAN
      /\ asked' = asked /\ zeroRate' = zeroRate /\ m_PlayerPendingState' = m_PlayerPendingState
  BY DEF PlayerInv, TypeInv, SeekEnd
<1>3. ResumeInv'
  BY <1>1, <1>2, ResumeKept
<1> QED
  BY <1>1, <1>2, <1>3, AppStepKeeps DEF PlayerInv

(* SeekPipeline and SeekSet: the application goes on and drives the pipeline.  *)
LEMMA SeekDrives ==
  ASSUME PlayerInv, NEW from \in {"seek_do", "seek_set"}, NEW to \in {"seek_end", "idle"},
         pc["app"] = from, pc' = [pc EXCEPT !["app"] = to], Drove(bus),
         gst'.target \in {gst.target, "PLAYING"},
         UNCHANGED <<hls, playerVars, rateVars, fillVars, call, content, status, asked, misread>>
  PROVE  PlayerInv'
<1> USE DEF playerVars, rateVars, fillVars
<1>0. /\ pc' \in [{"app", "bus"} -> Places]
      /\ pc'["app"] = to /\ pc'["bus"] = pc["bus"] /\ pc["app"] \notin Disposing /\ to \notin Disposing
  BY DEF PlayerInv, TypeInv, Places, Disposing
<1>1. TypeInv'
  BY <1>0 DEF PlayerInv, TypeInv
<1>2. BusInv'
  BY <1>0, KeptByPipeline DEF PlayerInv, BusInv, NoRing, SameRing, Knows, Dead
<1>3. ThreadInv'
  BY <1>0 DEF PlayerInv, ThreadInv, Misreads, AskedPause, Suspended, Filled
<1>4. ResumeInv'
  BY <1>0 DEF PlayerInv, ResumeInv, FilledResumes, PendingResumes, Wanted, Filled, Resumes, AppResumes
<1>5. ContentInv'
  BY <1>0, ContentKept DEF PlayerInv, ContentInv, Disposing
<1> QED
  BY <1>1, <1>2, <1>3, <1>4, <1>5 DEF PlayerInv

LEMMA SeekPipelineStep == ASSUME PlayerInv, SeekPipeline PROVE PlayerInv'
<1>1. gst'.target = gst.target /\ Drove(bus)
  BY LoseStateDrives DEF PlayerInv, BusInv, SeekPipeline
<1> QED
  BY <1>1, SeekDrives DEF SeekPipeline, Goto

LEMMA SeekSetStep == ASSUME PlayerInv, SeekSet PROVE PlayerInv'
<1>1. gst'.target = "PLAYING" /\ Drove(bus)
  BY SetStateDrives DEF PlayerInv, BusInv, SeekSet
<1> QED
  BY <1>1, SeekDrives DEF SeekSet, Goto

----------------------------------------------------------------------------
(* The bus.  A message other than a state change: it is taken off, and the     *)
(* callback may go on to pause or to resume.                                    *)
BusMoves(place) ==
  /\ pc' = [pc EXCEPT !["bus"] = place]
  /\ UNCHANGED <<hls, zeroRate, content, asked, misread>>

LEMMA BusPlace ==
  ASSUME PlayerInv, NEW place \in {"idle", "play", "play_set", "pause"}, BusMoves(place),
         pc["app"] \notin Disposing
  PROVE  /\ pc' \in [{"app", "bus"} -> Places]
         /\ pc'["bus"] = place /\ pc'["app"] = pc["app"]
         /\ ContentInv'
<1>1. /\ pc' \in [{"app", "bus"} -> Places]
      /\ pc'["bus"] = place /\ pc'["app"] = pc["app"]
  BY DEF PlayerInv, TypeInv, BusMoves, Places
<1>2. ContentInv'
  BY <1>1, ContentKept DEF PlayerInv, BusMoves, ContentInv, Disposing
<1> QED
  BY <1>1, <1>2

LEMMA EndOfStreamStep == ASSUME PlayerInv, EndOfStream PROVE PlayerInv'
<1> USE DEF rateVars, EndOfStream
<1>0. pc["app"] \notin Disposing /\ pc["bus"] = "idle" /\ bus # <<>> /\ Head(bus).type = "eos"
  BY Receiving DEF PlayerInv
<1>1. TypeInv'
  BY DEF PlayerInv, TypeInv, PlayerStates
<1>2. BusInv'
  <2>1. Knows'
    BY DEF Knows
  <2> QED
    BY <1>0, <2>1, KeptByRead DEF PlayerInv, BusInv, NoRing, SameRing
<1>3. ThreadInv'
  BY <1>0 DEF PlayerInv, ThreadInv, Misreads, AskedPause, Suspended
<1>4. ResumeInv'
  BY DEF ResumeInv, FilledResumes, PendingResumes, Wanted
<1>5. ContentInv'
  BY ContentKept DEF PlayerInv
<1> QED
  BY <1>1, <1>2, <1>3, <1>4, <1>5 DEF PlayerInv

LEMMA FatalErrorStep == ASSUME PlayerInv, FatalError PROVE PlayerInv'
<1> USE DEF rateVars, fillVars, FatalError
<1>0. pc["app"] \notin Disposing /\ pc["bus"] = "idle" /\ bus # <<>> /\ Head(bus).type = "error"
  BY Receiving DEF PlayerInv
<1>1. TypeInv'
  BY DEF PlayerInv, TypeInv, PlayerStates
<1>2. BusInv'
  <2>1. Knows' /\ Dead'
    BY DEF Knows, Dead
  <2>2. CASE m_PlayerState = "Error"
    BY <1>0, <2>1, <2>2, KeptByRead DEF PlayerInv, BusInv, NoRing, SameRing
  <2>3. CASE m_PlayerState # "Error"
    BY <2>1, <2>3, KeptByTearDown DEF PlayerInv, BusInv, NoRing, SameRing
  <2> QED
    BY <2>2, <2>3
<1>3. ThreadInv'
  BY <1>0 DEF PlayerInv, ThreadInv, Misreads, AskedPause, Suspended
<1>4. ResumeInv'
  BY DEF ResumeInv, FilledResumes, PendingResumes, Wanted
<1>5. ContentInv'
  BY ContentKept DEF PlayerInv
<1> QED
  BY <1>1, <1>2, <1>3, <1>4, <1>5 DEF PlayerInv

LEMMA BufferEmptyStep == ASSUME PlayerInv, BufferEmpty PROVE PlayerInv'
<1> USE DEF playerVars, rateVars, fillVars, Goto, BufferEmpty
<1>0. /\ pc["app"] \notin Disposing /\ pc["bus"] = "idle"
      /\ bus # <<>> /\ Head(bus).type # "state"
  <2>1. CASE Receive("stall")
    BY <2>1, Receiving DEF PlayerInv
  <2>2. CASE Receive("underrun")
    BY <2>2, Receiving DEF PlayerInv
  <2> QED
    BY <2>1, <2>2
<1>a. PICK place \in {"idle", "pause"} : BusMoves(place) /\ (place = "pause" => Suspends)
  BY DEF BusMoves
<1>b. pc' \in [{"app", "bus"} -> Places] /\ pc'["bus"] = place /\ pc'["app"] = pc["app"] /\ ContentInv'
  BY <1>0, <1>a, BusPlace
<1>1. TypeInv'
  BY <1>b DEF PlayerInv, TypeInv
<1>2. BusInv'
  <2>1. Knows => Knows'
    BY <1>b DEF Knows
  <2> QED
    BY <1>0, <2>1, KeptByRead DEF PlayerInv, BusInv, NoRing, SameRing
<1>3. ThreadInv'
  <2>1. Suspended'
    BY <1>a, <1>b DEF PlayerInv, Suspended, Filled, Suspends, BusInv, NoRing
  <2> QED
    BY <1>b, <2>1 DEF PlayerInv, ThreadInv, Misreads, AskedPause
<1>4. ResumeInv'
  BY <1>0, <1>b DEF PlayerInv, ResumeInv, FilledResumes, PendingResumes, Wanted, Filled, Resumes, AppResumes
<1> QED
  BY <1>1, <1>2, <1>3, <1>4, <1>b DEF PlayerInv

LEMMA BufferFilledStep == ASSUME PlayerInv, BufferFilled PROVE PlayerInv'
<1> USE DEF playerVars, rateVars, Goto, BufferFilled
<1>t. PICK type \in {"resume", "hls_eos", "full", "progress", "buf_eos"} :
        /\ Receive(type)
        /\ m_bLastProgressValueEOS' = IF hls THEN m_bLastProgressValueEOS \/ type = "hls_eos"
                                             ELSE type = "buf_eos"
        /\ m_bHLSPBFull' = (m_bHLSPBFull \/ type = "full")
        /\ \/ Resumable /\ Goto("bus", "play")
           \/ (Resumable => ~hls /\ type = "progress") /\ Goto("bus", "idle")
  OBVIOUS
<1>0. /\ pc["app"] \notin Disposing /\ pc["bus"] = "idle"
      /\ bus # <<>> /\ Head(bus).type = type
  BY <1>t, Receiving DEF PlayerInv
<1>a. PICK place \in {"idle", "play"} :
        /\ BusMoves(place)
        /\ m_PlayerState = "Stalled" /\ MayResume => place = "play" \/ (~hls /\ type = "progress")
  BY <1>t DEF BusMoves, Resumable
<1>r. ~hls /\ type = "progress" => ~Filled'
  BY <1>t DEF PlayerInv, BusInv, NoRing, Filled
<1>b. pc' \in [{"app", "bus"} -> Places] /\ pc'["bus"] = place /\ pc'["app"] = pc["app"] /\ ContentInv'
  BY <1>0, <1>a, BusPlace
<1>1. TypeInv'
  BY <1>b, <1>t DEF PlayerInv, TypeInv
<1>2. BusInv'
  <2>1. Knows => Knows'
    BY <1>b DEF Knows
  <2>2. SameRing
    <3>1. ~hls => type # "full"
      BY <1>0, BusTail DEF PlayerInv, BusInv, NoRing
    <3> QED
      BY <3>1, <1>t DEF PlayerInv, BusInv, NoRing, SameRing
  <2> QED
    BY <1>0, <2>1, <2>2, KeptByRead DEF PlayerInv
<1>3. ThreadInv'
  BY <1>b DEF PlayerInv, ThreadInv, Misreads, AskedPause, Suspended
<1>4. ResumeInv'
  <2>1. PendingResumes'
    BY <1>b DEF PlayerInv, ResumeInv, PendingResumes, Wanted, AppResumes
  <2>2. Wanted' => Wanted /\ m_PlayerState = "Stalled"
    BY DEF Wanted
  <2>3. ~MayResume => m_PlayerPendingState # "Unknown"
    BY DEF MayResume
  <2>4. FilledResumes'
    BY <1>a, <1>b, <1>r, <2>2, <2>3 DEF PlayerInv, ResumeInv, FilledResumes, PendingResumes, Resumes, AppResumes
  <2> QED
    BY <2>1, <2>4 DEF ResumeInv
<1> QED
  BY <1>1, <1>2, <1>3, <1>4, <1>b DEF PlayerInv

LEMMA BufferResumeStep == ASSUME PlayerInv, BufferResume PROVE PlayerInv'
<1> USE DEF playerVars, rateVars, fillVars, Goto, BufferResume
<1>0. pc["app"] \notin Disposing
  BY BusBusy DEF PlayerInv
<1>a. PICK place \in {"idle", "play_set"} :
        BusMoves(place) /\ (m_PlayerState = "Stalled" => place = "play_set")
  BY DEF BusMoves, PlayReady
<1>b. pc' \in [{"app", "bus"} -> Places] /\ pc'["bus"] = place /\ pc'["app"] = pc["app"] /\ ContentInv'
  BY <1>0, <1>a, BusPlace
<1>1. TypeInv'
  BY <1>b DEF PlayerInv, TypeInv
<1>2. BusInv'
  BY <1>0, <1>b, KeptByStay DEF PlayerInv, BusInv, NoRing, SameRing, Knows, Dead
<1>3. ThreadInv'
  BY <1>b DEF PlayerInv, ThreadInv, Misreads, AskedPause, Suspended
<1>4. ResumeInv'
  BY <1>a, <1>b DEF PlayerInv, ResumeInv, FilledResumes, PendingResumes, Wanted, Filled, Resumes, AppResumes, gstVars
<1> QED
  BY <1>1, <1>2, <1>3, <1>4, <1>b DEF PlayerInv

LEMMA NotFullStep == ASSUME PlayerInv, NotFull PROVE PlayerInv'
<1> USE DEF playerVars, rateVars, NotFull
<1>0. pc["app"] \notin Disposing /\ pc["bus"] = "idle" /\ bus # <<>> /\ Head(bus).type = "not_full"
  BY Receiving DEF PlayerInv
<1>1. TypeInv'
  BY DEF PlayerInv, TypeInv
<1>2. BusInv'
  <2>1. Knows => Knows'
    BY DEF Knows
  <2> QED
    BY <1>0, <2>1, KeptByRead DEF PlayerInv, BusInv, NoRing, SameRing
<1>3. ThreadInv'
  BY <1>0 DEF PlayerInv, ThreadInv, Misreads, AskedPause, Suspended
<1>4. ResumeInv'
  BY DEF PlayerInv, ResumeInv, FilledResumes, PendingResumes, Wanted, Filled, Resumes, AppResumes
<1>5. ContentInv'
  BY ContentKept DEF PlayerInv
<1> QED
  BY <1>1, <1>2, <1>3, <1>4, <1>5 DEF PlayerInv

----------------------------------------------------------------------------
(* A change of the pipeline's state: what UpdatePlayerState makes of it.       *)
After(old, new) == IF Relevant(old, new) THEN NextState(old, new) ELSE m_PlayerState

LEMMA AfterStates ==
  ASSUME TypeInv, NEW old \in GstStates, NEW new \in GstStates
  PROVE  /\ After(old, new) \in PlayerStates
         /\ m_PlayerState = "Error" => After(old, new) = "Error"
         /\ old = "PAUSED" /\ new = "PLAYING" =>
              \/ After(old, new) \in {"Unknown", "Playing", "Error"}
              \/ After(old, new) = "Stopped" /\ After(old, new) # m_PlayerState
         /\ After(old, new) = "Stalled" /\ m_PlayerState # "Stalled" => m_PlayerPendingState = "Unknown"
<1>1. NextState(old, new) \in PlayerStates
  BY DEF TypeInv, NextState, PausedState, PlayerStates
<1>2. m_PlayerState = "Error" => NextState(old, new) = "Error"
  BY DEF NextState
<1>3. old = "PAUSED" /\ new = "PLAYING" =>
        \/ NextState(old, new) \in {"Unknown", "Playing", "Error"}
        \/ NextState(old, new) = "Stopped" /\ m_PlayerState = "Paused"
  BY DEF TypeInv, NextState, PausedState, PlayerStates
<1>4. NextState(old, new) = "Stalled" /\ m_PlayerState # "Stalled" => m_PlayerPendingState = "Unknown"
  BY DEF TypeInv, NextState, PausedState
<1>5. old = "PAUSED" /\ new = "PLAYING" => Relevant(old, new)
  BY DEF Relevant
<1> QED
  BY <1>1, <1>2, <1>3, <1>4, <1>5 DEF After, TypeInv

LEMMA LastIsState ==
  ASSUME NEW b \in Seq(Msg), LastStarts(b)
  PROVE  ~NoState(b)
BY DEF LastStarts, NoState, Start

LEMMA StateChangedStep == ASSUME PlayerInv, StateChanged PROVE PlayerInv'
<1>0. /\ pc["app"] \notin Disposing /\ pc["bus"] = "idle"
      /\ bus # <<>> /\ Head(bus).type = "state" /\ pc' = pc
  BY Receiving DEF PlayerInv, StateChanged
<1>m. PICK m \in Msg : m = Head(bus)
  BY <1>0, BusTail DEF PlayerInv, BusInv
<1>n. PICK old \in GstStates, new \in GstStates, next \in PlayerStates :
        /\ old = m.old /\ new = m.new /\ next = After(old, new)
        /\ m_PlayerState = "Error" => next = "Error"
        /\ old = "PAUSED" /\ new = "PLAYING" =>
             next \in {"Unknown", "Playing", "Error"} \/ (next = "Stopped" /\ next # m_PlayerState)
        /\ next = "Stalled" /\ m_PlayerState # "Stalled" => m_PlayerPendingState = "Unknown"
  <2>1. m.old \in GstStates /\ m.new \in GstStates
    BY DEF Msg
  <2> QED
    BY <2>1, AfterStates DEF PlayerInv
<1>c. /\ m_PlayerState' = next
      /\ m_PlayerPendingState' \in {"Unknown", m_PlayerPendingState}
      /\ misread' = IF next # m_PlayerState THEN next = "Stopped" /\ new = "PLAYING" ELSE misread
      /\ UNCHANGED <<hls, zeroRate, fillVars, content, asked>>
      /\ status' \in {status} \cup (PlayerStates \ {"Finished"})
  BY <1>m, <1>n DEF StateChanged, After, Announce, PlayerInv, TypeInv
<1>g. /\ Drove(Tail(bus))
      /\ gst'.target \in {gst.target, "PLAYING"}
      /\ next # m_PlayerState /\ next = "Stalled" /\ Filled /\ ~zeroRate => gst'.target = "PLAYING"
  <2>1. Tail(bus) \in Seq(Msg)
    BY <1>0, BusTail DEF PlayerInv, BusInv
  <2>2. CASE AsksPlay(old, new, next) /\ ~zeroRate
    <3>1. SetState("PLAYING", Tail(bus))
      BY <2>2, <1>m, <1>n DEF StateChanged, After
    <3>2. gst'.target = "PLAYING" /\ Drove(Tail(bus))
      BY <2>1, <3>1, SetStateDrives DEF PlayerInv, BusInv
    <3> QED
      BY <3>2
  <2>3. CASE ~(AsksPlay(old, new, next) /\ ~zeroRate)
    <3>1. gst' = gst /\ bus' = Tail(bus)
      BY <2>3, <1>m, <1>n DEF StateChanged, After
    <3>2. Drove(Tail(bus))
      BY <2>1, <3>1, StayDrives DEF PlayerInv, BusInv
    <3>3. ~(next # m_PlayerState /\ next = "Stalled" /\ Filled /\ ~zeroRate)
      BY <2>3 DEF AsksPlay, Filled
    <3> QED
      BY <3>1, <3>2, <3>3
  <2> QED
    BY <2>2, <2>3
<1>1. TypeInv'
  BY <1>0, <1>c DEF PlayerInv, TypeInv, fillVars
<1>2. BusInv'
  <2>1. /\ Tail(bus) \in Seq(Msg)
        /\ ~NoState(bus)
        /\ LastStarts(bus) => LastStarts(Tail(bus)) \/ (Start(m) /\ NoState(Tail(bus)))
        /\ NoFull(bus) => NoFull(Tail(bus))
    BY <1>0, <1>m, BusTail DEF PlayerInv, BusInv
  <2>2. LastStarts(Tail(bus)) => ~NoState(Tail(bus))
    BY <2>1, LastIsState
  <2>3. /\ Pipeline(gst') /\ bus' \in Seq(Msg)
        /\ gst'.cur = "PLAYING" => (gst.cur = "PLAYING" /\ bus' = Tail(bus)) \/ (LastStarts(bus') /\ ~NoState(bus'))
        /\ gst'.cur = "NULL" => gst.cur = "NULL"
        /\ NoFull(Tail(bus)) => NoFull(bus')
    BY <1>g, <2>1, DroveBus DEF PlayerInv, BusInv
  <2>4. gst.cur # "NULL"
    BY <1>0 DEF PlayerInv, BusInv, TornDown
  <2>5. gst.cur = "PLAYING" => LastStarts(Tail(bus)) \/ (Start(m) /\ NoState(Tail(bus)))
    BY <2>1 DEF PlayerInv, BusInv, BusTells
  <2>6. Start(m) => Knows'
    BY <1>n, <1>c DEF Start, Knows
  <2>7. TornDown' /\ BusTells' /\ PlayerKnows'
    BY <2>2, <2>3, <2>4, <2>5, <2>6 DEF TornDown, BusTells, PlayerKnows
  <2>8. NoRing'
    BY <1>c, <2>1, <2>3 DEF PlayerInv, BusInv, NoRing, fillVars
  <2> QED
    BY <2>3, <2>7, <2>8 DEF BusInv
<1>3. ThreadInv'
  <2>1. Misreads'
    BY <1>c DEF PlayerInv, ThreadInv, Misreads
  <2>2. AskedPause' /\ Suspended'
    BY <1>0, <1>c DEF PlayerInv, ThreadInv, AskedPause, Suspended
  <2> QED
    BY <2>1, <2>2 DEF ThreadInv
<1>4. ResumeInv'
  <2>1. AppResumes => AppResumes'
    BY <1>0, <1>g DEF AppResumes
  <2>2. CASE next = m_PlayerState
    <3>1. Wanted' = Wanted /\ Filled' = Filled
      BY <1>c, <2>2 DEF Wanted, Filled, fillVars
    <3>2. FilledResumes'
      BY <1>0, <2>1, <3>1 DEF PlayerInv, ResumeInv, FilledResumes, Resumes
    <3>3. PendingResumes'
      BY <1>c, <2>1, <3>1 DEF PlayerInv, ResumeInv, PendingResumes
    <3> QED
      BY <3>2, <3>3 DEF ResumeInv
  <2>3. CASE next # m_PlayerState
    <3>1. Wanted' => next = "Stalled" /\ ~zeroRate
      BY <1>c DEF Wanted
    <3>2. FilledResumes'
      BY <1>c, <1>g, <2>3, <3>1 DEF FilledResumes, Resumes, AppResumes, Filled, fillVars
    <3>3. PendingResumes'
      BY <1>c, <1>n, <2>3, <3>1 DEF PendingResumes
    <3> QED
      BY <3>2, <3>3 DEF ResumeInv
  <2> QED
    BY <2>2, <2>3
<1>5. ContentInv'
  BY <1>0, <1>c, ContentKept DEF PlayerInv
<1> QED
  BY <1>1, <1>2, <1>3, <1>4, <1>5 DEF PlayerInv

----------------------------------------------------------------------------
(* Dispose() and the callbacks that come too late.  They leave the player      *)
(* alone.                                                                       *)
Disposes ==
  /\ pc' \in [{"app", "bus"} -> Places]
  /\ pc'["app"] \in Disposing /\ pc'["bus"] \in {"idle", "late", "notify"}
  /\ UNCHANGED <<hls, playerVars, rateVars, fillVars, status, asked, misread>>

LEMMA DisposeKeeps ==
  ASSUME PlayerInv, Disposes
  PROVE  TypeInv' /\ ThreadInv' /\ ResumeInv' /\ SameRing /\ Knows' /\ Dead'
<1> USE DEF playerVars, rateVars, fillVars, Disposes
<1>1. TypeInv'
  BY DEF PlayerInv, TypeInv
<1>2. ThreadInv'
  BY DEF PlayerInv, ThreadInv, Misreads, AskedPause, Suspended, Disposing
<1>3. ResumeInv'
  BY DEF ResumeInv, FilledResumes, PendingResumes, Resumes, AppResumes
<1>4. SameRing /\ Knows' /\ Dead'
  BY DEF PlayerInv, BusInv, NoRing, SameRing, Knows, Dead
<1> QED
  BY <1>1, <1>2, <1>3, <1>4

LEMMA DisposeBegins == ASSUME PlayerInv, Dispose PROVE PlayerInv'
<1> USE DEF Dispose, Call, Goto
<1>0. Content0 /\ pc["bus"] = "idle"
  BY DEF PlayerInv, ContentInv, Disposing
<1>1. Content1'
  BY <1>0, Zenon DEF Content, Content0, Content1, Contents
<1>2. pc'["app"] = "dispose_null" /\ pc'["bus"] = "idle" /\ Disposes
  BY <1>0 DEF PlayerInv, TypeInv, Disposes, Disposing, Places
<1>3. BusInv'
  BY <1>2, DisposeKeeps, KeptByStay DEF PlayerInv
<1>4. ContentInv'
  BY <1>1, <1>2 DEF ContentInv
<1> QED
  BY <1>2, <1>3, <1>4, DisposeKeeps DEF PlayerInv

LEMMA DisposeNullStep == ASSUME PlayerInv, DisposeNull PROVE PlayerInv'
<1> USE DEF DisposeNull, Goto
<1>0. Content1 /\ pc["bus"] \in {"idle", "late"}
  BY DEF PlayerInv, ContentInv, Disposing
<1>2. pc'["app"] = "dispose_lock" /\ pc'["bus"] = pc["bus"] /\ Disposes
  BY <1>0 DEF PlayerInv, TypeInv, Disposes, Disposing, Places
<1>3. BusInv'
  BY <1>2, DisposeKeeps, KeptByTearDown DEF PlayerInv
<1>4. ContentInv'
  BY <1>0, <1>2, ContentSame DEF ContentInv
<1> QED
  BY <1>2, <1>3, <1>4, DisposeKeeps DEF PlayerInv

LEMMA DisposeLockStep == ASSUME PlayerInv, DisposeLock PROVE PlayerInv'
<1> USE DEF Goto
<1>0. Content1 /\ pc["bus"] \in {"idle", "late"} /\ pc["app"] = "dispose_lock"
  BY DEF PlayerInv, ContentInv, Disposing, DisposeLock
<1>1. CASE pc["bus"] = "idle"
  <2>1. Notify(content) = [content EXCEPT !.freeMe = TRUE] /\ Notify(content).freeMe
    BY <1>0, Zenon DEF Notify, Content, Content1, Contents
  <2>2. content' = [[content EXCEPT !.freeMe = TRUE] EXCEPT !.disposed = TRUE, !.destroyed = TRUE]
    BY <1>1, <2>1 DEF DisposeLock
  <2>a. Content2'
    BY <1>0, <2>2, Zenon DEF Content, Content1, Content2, Contents
  <2>3. pc' = [pc EXCEPT !["app"] = "dispose_free"]
    BY <1>1, <2>1 DEF DisposeLock
  <2>4. pc'["app"] = "dispose_free" /\ pc'["bus"] = "idle" /\ Disposes
    BY <1>1, <2>3 DEF PlayerInv, TypeInv, Disposes, Disposing, Places, DisposeLock
  <2>5. BusInv'
    BY <2>4, DisposeKeeps, KeptByStay DEF PlayerInv, DisposeLock
  <2>6. ContentInv'
    BY <2>a, <2>4 DEF ContentInv
  <2> QED
    BY <2>4, <2>5, <2>6, DisposeKeeps DEF PlayerInv
<1>2. CASE pc["bus"] = "late"
  <2>1. content.freeMe = FALSE /\ content' = [content EXCEPT !.disposed = TRUE, !.destroyed = TRUE]
    BY <1>0, <1>2 DEF DisposeLock, Content1, Content
  <2>2. Content4'
    BY <1>0, <2>1, Zenon DEF Content, Content1, Content4, Contents
  <2>3. pc' = [pc EXCEPT !["app"] = "disposed"]
    BY <1>2, <2>1 DEF DisposeLock
  <2>4. pc'["app"] = "disposed" /\ pc'["bus"] = "late" /\ Disposes
    BY <1>2, <2>3 DEF PlayerInv, TypeInv, Disposes, Disposing, Places, DisposeLock
  <2>5. BusInv'
    BY <2>4, DisposeKeeps, KeptByStay DEF PlayerInv, DisposeLock
  <2>6. ContentInv'
    BY <2>2, <2>4 DEF ContentInv
  <2> QED
    BY <2>4, <2>5, <2>6, DisposeKeeps DEF PlayerInv
<1> QED
  BY <1>0, <1>1, <1>2

LEMMA DisposeFreeStep == ASSUME PlayerInv, DisposeFree PROVE PlayerInv'
<1> USE DEF DisposeFree, Goto
<1>0. Content2 /\ pc["bus"] = "idle"
  BY DEF PlayerInv, ContentInv, Disposing
<1>a. content.freed + 1 = 1
  BY <1>0 DEF Content, Content2
<1>1. Content3'
  BY <1>0, <1>a, 1 \in Nat, Zenon DEF Content, Content2, Content3, Contents
<1>2. pc'["app"] = "disposed" /\ pc'["bus"] = "idle" /\ Disposes
  BY <1>0 DEF PlayerInv, TypeInv, Disposes, Disposing, Places
<1>3. BusInv'
  BY <1>2, DisposeKeeps, KeptByStay DEF PlayerInv
<1>4. ContentInv'
  BY <1>1, <1>2 DEF ContentInv
<1> QED
  BY <1>2, <1>3, <1>4, DisposeKeeps DEF PlayerInv

LEMMA LateCallbackStep == ASSUME PlayerInv, LateCallback PROVE PlayerInv'
<1> USE DEF LateCallback, Goto
<1>0. Content1 /\ pc["app"] \in {"dispose_null", "dispose_lock"}
  BY ContentFlags DEF PlayerInv, ContentInv
<1>2. pc'["app"] = pc["app"] /\ pc'["bus"] = "late" /\ Disposes
  BY <1>0 DEF PlayerInv, TypeInv, Disposes, Disposing, Places
<1>3. BusInv'
  BY <1>2, DisposeKeeps, KeptByRead DEF PlayerInv
<1>4. ContentInv'
  BY <1>0, <1>2, ContentSame DEF ContentInv
<1> QED
  BY <1>2, <1>3, <1>4, DisposeKeeps DEF PlayerInv

LEMMA LateReturnStep == ASSUME PlayerInv, LateReturn PROVE PlayerInv'
<1> USE DEF LateReturn, Goto
<1>0. \/ Content1 /\ pc["app"] \in {"dispose_null", "dispose_lock"}
      \/ Content4 /\ pc["app"] = "disposed"
  BY DEF PlayerInv, ContentInv
<1>1. PICK place \in {"idle", "notify"} :
        pc' = [pc EXCEPT !["bus"] = place] /\ (place = "notify" <=> Content4)
  BY <1>0, ContentFlags
<1>2. pc'["app"] = pc["app"] /\ pc'["bus"] = place /\ Disposes
  BY <1>0, <1>1 DEF PlayerInv, TypeInv, Disposes, Disposing, Places
<1>3. BusInv'
  BY <1>2, DisposeKeeps, KeptByStay DEF PlayerInv
<1>4. ContentInv'
  <2>1. ~(Content1 /\ Content4)
    BY ContentFlags
  <2> QED
    BY <1>0, <1>1, <1>2, <2>1, ContentSame DEF ContentInv
<1> QED
  BY <1>2, <1>3, <1>4, DisposeKeeps DEF PlayerInv

LEMMA DestroyNotifyStep == ASSUME PlayerInv, DestroyNotify PROVE PlayerInv'
<1> USE DEF DestroyNotify, Goto
<1>0. Content4 /\ pc["app"] = "disposed"
  BY DEF PlayerInv, ContentInv
<1>a. content.freed + 1 = 1
  BY <1>0 DEF Content, Content4
<1>b. content' = [content EXCEPT !.freed = @ + 1]
  BY <1>0, ContentFlags DEF Notify
<1>1. Content5'
  BY <1>0, <1>a, <1>b, 1 \in Nat, Zenon DEF Content, Content4, Content5, Contents
<1>2. pc'["app"] = "disposed" /\ pc'["bus"] = "idle" /\ Disposes
  BY <1>0 DEF PlayerInv, TypeInv, Disposes, Disposing, Places
<1>3. BusInv'
  BY <1>2, DisposeKeeps, KeptByStay DEF PlayerInv
<1>4. ContentInv'
  BY <1>1, <1>2 DEF ContentInv
<1> QED
  BY <1>2, <1>3, <1>4, DisposeKeeps DEF PlayerInv

----------------------------------------------------------------------------
(* Every step keeps the invariant.                                             *)
LEMMA PlayerInit == Init => PlayerInv
<1> SUFFICES ASSUME Init PROVE PlayerInv
  OBVIOUS
<1> USE DEF Init
<1>0. pc["app"] = "idle" /\ pc["bus"] = "idle" /\ pc \in [{"app", "bus"} -> Places]
  BY DEF Places
<1>1. TypeInv
  BY <1>0 DEF TypeInv, PlayerStates
<1>2. BusInv
  <2>1. gst \in Gst
    BY Zenon DEF Gst, GstStates
  <2>2. gst.cur = "READY" /\ gst.next = "PAUSED" /\ gst.pend = "PAUSED" /\ gst.target = "PAUSED"
    OBVIOUS
  <2>3. gst.async = TRUE /\ gst.cont = FALSE
    BY Zenon
  <2>4. Pipeline(gst)
    BY <2>1, <2>2, <2>3 DEF Pipeline
  <2>5. NoFull(bus) /\ bus \in Seq(Msg)
    BY DEF NoFull
  <2> QED
    BY <2>2, <2>4, <2>5 DEF BusInv, TornDown, BusTells, PlayerKnows, NoRing
<1>3. ThreadInv
  BY <1>0 DEF ThreadInv, Misreads, AskedPause, Suspended
<1>4. ResumeInv
  BY DEF ResumeInv, FilledResumes, PendingResumes, Wanted
<1>5. ContentInv
  <2>1. Content0
    BY 0 \in Nat, Zenon DEF Content, Content0, Contents
  <2> QED
    BY <1>0, <2>1 DEF ContentInv, Disposing
<1> QED
  BY <1>1, <1>2, <1>3, <1>4, <1>5 DEF PlayerInv

LEMMA PlayerStutter == PlayerInv /\ UNCHANGED vars => PlayerInv'
<1> SUFFICES ASSUME PlayerInv, UNCHANGED vars PROVE PlayerInv'
  OBVIOUS
<1>1. Drove(bus) /\ gst'.target = gst.target
  BY StayDrives DEF PlayerInv, BusInv, vars, gstVars
<1>2. Untouched
  BY DEF vars, Untouched
<1> QED
  BY <1>1, <1>2, PipelineStep

LEMMA PlayerStep == PlayerInv /\ [Next]_vars => PlayerInv'
<1> SUFFICES ASSUME PlayerInv, [Next]_vars PROVE PlayerInv'
  OBVIOUS
<1>1. CASE Requests
  <2>1. CASE Seek
    BY <2>1, SeekTestStep DEF Seek, Call
  <2> QED
    BY <1>1, <2>1, PlayStep, StopStep, PauseStep, FinishStep, RateZeroStep, RateSetStep, DisposeBegins DEF Requests
<1>2. CASE AppStep
  <2>1. CASE SeekStop
    BY <2>1, SeekTestStep DEF SeekStop
  <2>2. CASE PlaySet("app") \/ InternalPause("app") \/ PauseSet("app")
    BY <2>2, PlaySetStep, InternalPauseStep, PauseSetStep
  <2> QED
    BY <1>2, <2>1, <2>2, RateZeroEndStep, StopSetStep, PauseFirstStep, SeekPipelineStep, SeekEndStep, SeekSetStep
    DEF AppStep
<1>3. CASE BusStep
  <2>1. CASE PlaySet("bus") \/ InternalPause("bus") \/ PauseSet("bus")
    BY <2>1, PlaySetStep, InternalPauseStep, PauseSetStep
  <2> QED
    BY <1>3, <2>1, StateChangedStep, EndOfStreamStep, FatalErrorStep, BufferEmptyStep, BufferFilledStep,
       BufferResumeStep, NotFullStep
    DEF BusStep
<1>4. CASE DisposeStep
  BY <1>4, DisposeNullStep, DisposeLockStep, DisposeFreeStep, LateCallbackStep, LateReturnStep, DestroyNotifyStep
  DEF DisposeStep
<1>5. CASE \E type \in Notes : Post(type)
  BY <1>5, PostStep
<1>6. CASE AsyncDone \/ Continue
  BY <1>6, AsyncDoneStep, ContinueStep
<1>7. CASE UNCHANGED vars
  BY <1>7, PlayerStutter
<1> QED
  BY <1>1, <1>2, <1>3, <1>4, <1>5, <1>6, <1>7 DEF Next, Progress

LEMMA PlayerInvariant == Spec => []PlayerInv
<1> QED
  BY PlayerInit, PlayerStep, PTL DEF Spec

----------------------------------------------------------------------------
(* Types, whatever the calls, the messages and their number.                   *)
THEOREM PlayerTypes == Spec => []TypeOK
<1>1. PlayerInv => TypeOK
  <2> SUFFICES ASSUME PlayerInv PROVE TypeOK
    OBVIOUS
  <2>1. gst \in Gst
    BY DEF PlayerInv, BusInv, Pipeline
  <2>2. \A f \in {"cur", "next", "pend", "target"} : gst[f] \in GstStates
    BY <2>1 DEF Gst
  <2> QED
    BY <2>2 DEF PlayerInv, TypeInv, TypeOK
<1> QED
  BY <1>1, PlayerInvariant, PTL

(* StandsStill, for any sequence of calls and any messages: a player at rest   *)
(* that says it stands still does, unless UpdatePlayerState took a start for    *)
(* the end of a stop.                                                           *)
THEOREM PlayerStandsStill == Spec => []StandsStill
<1>1. PlayerInv => StandsStill
  <2> SUFFICES ASSUME PlayerInv, AtRest, ~misread, m_PlayerState \in {"Ready", "Paused", "Stopped", "Stalled"}
               PROVE  gst.cur = "PAUSED"
    BY DEF StandsStill
  <2>1. NoState(bus)
    BY DEF AtRest, NoState
  <2>2. pc["app"] \notin Disposing
    BY DEF AtRest, Disposing
  <2>3. gst.cur # "PLAYING"
    BY <2>1, <2>2 DEF PlayerInv, BusInv, PlayerKnows, Knows
  <2>4. gst.cur # "NULL"
    BY <2>2 DEF PlayerInv, BusInv, TornDown, Dead
  <2>5. gst.cur # "READY" /\ gst.cur # "VOID" /\ gst.cur \in GstStates
    BY DEF PlayerInv, BusInv, Pipeline, Gst, AtRest
  <2> QED
    BY <2>3, <2>4, <2>5 DEF GstStates
<1> QED
  BY <1>1, PlayerInvariant, PTL

(* NoMissedResume, for any sequence of calls and any messages of the buffers.  *)
THEOREM PlayerNoMissedResume == Spec => []NoMissedResume
<1>1. PlayerInv => NoMissedResume
  <2> SUFFICES ASSUME PlayerInv, AtRest, m_PlayerState = "Stalled", asked = "play", ~zeroRate, Filled
               PROVE  FALSE
    BY DEF NoMissedResume, Filled
  <2>1. NoState(bus)
    BY DEF AtRest, NoState
  <2>2. pc["app"] \notin {"play_set"} \cup Disposing /\ pc["bus"] \notin {"play", "play_set"}
    BY DEF AtRest, Disposing
  <2>3. gst.target = "PLAYING"
    BY <2>2 DEF PlayerInv, ResumeInv, FilledResumes, Wanted, Resumes, AppResumes
  <2>4. gst.cur = "PLAYING"
    BY <2>3 DEF PlayerInv, BusInv, Pipeline, AtRest
  <2>5. misread
    BY <2>1, <2>2, <2>4 DEF PlayerInv, BusInv, PlayerKnows, Knows
  <2> QED
    BY <2>5 DEF PlayerInv, ThreadInv, Misreads
<1> QED
  BY <1>1, PlayerInvariant, PTL

(* FreedOnce: however a callback races Dispose(), the content it uses is freed *)
(* once and not too early.                                                      *)
THEOREM PlayerFreedOnce == Spec => []FreedOnce
<1>1. PlayerInv => FreedOnce
  <2> SUFFICES ASSUME PlayerInv PROVE FreedOnce
    OBVIOUS
  <2>1. /\ Content0 \/ Content1 \/ Content2 \/ Content4 => content.freed = 0
        /\ Content3 \/ Content5 => content.freed = 1
    BY Zenon DEF Content, Content0, Content1, Content2, Content3, Content4, Content5
  <2> QED
    BY <2>1 DEF PlayerInv, ContentInv, FreedOnce, Disposing
<1> QED
  BY <1>1, PlayerInvariant, PTL
====
