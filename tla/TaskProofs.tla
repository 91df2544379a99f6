----------------------------- MODULE TaskProofs -----------------------------
(***************************************************************************)
(* Proofs about Task, for every set of threads, payloads and channels: its *)
(* types, then, from one inductive invariant, the order in which a task    *)
(* shows its states, its agreement with the FutureTask, and that Task      *)
(* implements the safety part of TaskLife.  Last come the coalesced        *)
(* updates, provided that no payload is null, which the slots use as their *)
(* mark of being empty.                                                    *)
(***************************************************************************)
EXTENDS Task, SequenceTheorems, TLAPS

USE TaskAssumption

(***************************************************************************)
(* The paths that setState() is called with, and what SetState makes of    *)
(* one: its last value, or CANCELLED.                                      *)
(***************************************************************************)
Paths == { <<"SCHEDULED">>, <<"SCHEDULED", "RUNNING">>, <<"SUCCEEDED">>,
           <<"FAILED">>, <<"CANCELLED">> }

LEMMA PathTypes ==
  ASSUME NEW path \in Paths
  PROVE  /\ path \in Seq(States)
         /\ Len(path) \in 1..2
         /\ path[Len(path)] \in States
         /\ \A i \in 1..Len(path) : SubSeq(path, 1, i) \in Seq(States)
<1>1. CASE path = <<"SCHEDULED", "RUNNING">>
  <2>1. path \in Seq(States) /\ Len(path) = 2 /\ path[2] \in States
    BY <1>1 DEF States
  <2>2. \A i \in 1..Len(path) : SubSeq(path, 1, i) \in Seq(States)
    BY <2>1, SubSeqProperties
  <2> QED
    BY <2>1, <2>2
<1>2. CASE path # <<"SCHEDULED", "RUNNING">>
  <2>1. PICK s \in States : path = <<s>>
    BY <1>2 DEF Paths, States
  <2>2. path \in Seq(States) /\ Len(path) = 1 /\ path[1] \in States
    BY <2>1
  <2>3. \A i \in 1..Len(path) : SubSeq(path, 1, i) \in Seq(States)
    BY <2>2, SubSeqProperties
  <2> QED
    BY <2>2, <2>3
<1> QED
  BY <1>1, <1>2

(***************************************************************************)
(* setState() keeps the state, running and the trail well typed and        *)
(* touches the future only to cancel it.                                   *)
(***************************************************************************)
LEMMA SetStateTypes ==
  ASSUME TypeOK, NEW path \in Paths, SetState(path)
  PROVE  /\ state' \in States
         /\ running' \in BOOLEAN
         /\ trail' \in Seq(States)
         /\ future' \in {"NEW", "NORMAL", "EXCEPTIONAL", "CANCELLED"}
<1>1. CASE UNCHANGED <<state, running, trail, future>>
  BY <1>1 DEF TypeOK
<1>2. CASE /\ trail' = trail \o path
           /\ state' = path[Len(path)]
           /\ running' = IsActive(path[Len(path)])
           /\ UNCHANGED future
  BY <1>2, PathTypes DEF TypeOK, IsActive
<1>3. ASSUME NEW i \in 1..Len(path), NEW from \in CancelFrom,
             trail' = trail \o SubSeq(path, 1, i) \o <<"CANCELLED">>,
             running' = RunningAfterCancel(from, path[i]),
             state' = "CANCELLED", future' = "CANCELLED"
      PROVE  /\ state' \in States
             /\ running' \in BOOLEAN
             /\ trail' \in Seq(States)
             /\ future' \in {"NEW", "NORMAL", "EXCEPTIONAL", "CANCELLED"}
  <2>1. trail \in Seq(States) /\ SubSeq(path, 1, i) \in Seq(States)
    BY <1>3, PathTypes DEF TypeOK
  <2>2. <<"CANCELLED">> \in Seq(States) /\ "CANCELLED" \in States
    BY DEF States
  <2>3. trail \o SubSeq(path, 1, i) \o <<"CANCELLED">> \in Seq(States)
    BY <2>1, <2>2
  <2> QED
    BY <1>3, <2>2, <2>3 DEF RunningAfterCancel
<1> QED
  BY <1>1, <1>2, <1>3 DEF SetState

(***************************************************************************)
(* Every step keeps the variables well typed.                              *)
(***************************************************************************)
LEMMA TypeStep == TypeOK /\ [Next]_vars => TypeOK'
<1> SUFFICES ASSUME TypeOK, [Next]_vars PROVE TypeOK'
  OBVIOUS
<1>q. ASSUME queue # << >>
      PROVE  Head(queue) \in Runnables /\ Tail(queue) \in Seq(Runnables)
  BY <1>q DEF TypeOK
<1>1. ASSUME FxRun PROVE TypeOK'
  <2>1. /\ queue # << >> /\ queue' = Tail(queue)
        /\ UNCHANGED <<body, inHand, posts>>
    BY <1>1 DEF FxRun
  <2>2. queue' \in Seq(Runnables)
    BY <2>1, <1>q
  <2>3. CASE RunRunning
    BY <2>1, <2>2, <2>3, SetStateTypes DEF RunRunning, Paths, TypeOK
  <2>4. CASE RunSucceeded
    BY <2>1, <2>2, <2>4, SetStateTypes DEF RunSucceeded, Paths, TypeOK
  <2>5. CASE RunFailed
    BY <2>1, <2>2, <2>5, SetStateTypes DEF RunFailed, Paths, TypeOK
  <2>6. CASE RunCancelled
    BY <2>1, <2>2, <2>6, SetStateTypes DEF RunCancelled, Paths, TypeOK
  <2>7. ASSUME NEW c \in Channels, RunUpdate(c) PROVE TypeOK'
    BY <2>1, <2>2, <2>7 DEF RunUpdate, TypeOK
  <2> QED
    BY <1>1, <2>3, <2>4, <2>5, <2>6, <2>7 DEF FxRun
<1>2. ASSUME FxSchedule PROVE TypeOK'
  BY <1>2, SetStateTypes DEF FxSchedule, Paths, TypeOK
<1>3. ASSUME FxCancel PROVE TypeOK'
  <2>1. "CANCELLED" \in States
    BY DEF States
  <2>2. Append(trail, "CANCELLED") \in Seq(States)
    BY <2>1 DEF TypeOK
  <2> QED
    BY <1>3, <2>1, <2>2 DEF FxCancel, TypeOK
<1>4. ASSUME NEW c \in Channels, NEW v \in PayloadsOf(c), FxUpdate(c, v)
      PROVE  TypeOK'
  BY <1>4 DEF FxUpdate, PayloadsOf, TypeOK
<1>5. ASSUME NEW t \in Threads, RunLater(t) PROVE TypeOK'
  <2>1. inHand[t] \in Runnables
    BY <1>5 DEF RunLater, TypeOK
  <2> QED
    BY <1>5, <2>1 DEF RunLater, fxVars, TypeOK
<1>6. ASSUME NEW t \in Threads, Cancel(t) PROVE TypeOK'
  BY <1>6 DEF Cancel, fxVars, TypeOK, Runnables
<1>7. ASSUME NEW t \in Threads, NEW c \in Channels, NEW v \in PayloadsOf(c),
             Update(t, c, v)
      PROVE  TypeOK'
  BY <1>7 DEF Update, fxVars, PayloadsOf, TypeOK, Runnables
<1>8. ASSUME Run PROVE TypeOK'
  BY <1>8 DEF Run, fxVars, TypeOK, Runnables
<1>9. ASSUME CallReturns PROVE TypeOK'
  BY <1>9 DEF CallReturns, fxVars, TypeOK, Runnables
<1>10. ASSUME CallThrows PROVE TypeOK'
  BY <1>10 DEF CallThrows, fxVars, TypeOK, Runnables
<1>11. ASSUME Finish PROVE TypeOK'
  BY <1>11 DEF Finish, fxVars, TypeOK
<1>12. CASE UNCHANGED vars
  BY <1>12 DEF vars, TypeOK
<1> QED
  BY <1>1, <1>2, <1>3, <1>4, <1>5, <1>6, <1>7, <1>8, <1>9, <1>10, <1>11, <1>12
  DEF Next

(***************************************************************************)
(* The initial state is well typed.                                        *)
(***************************************************************************)
LEMMA InitTypes == Init => TypeOK
<1>1. "READY" \in States /\ << >> \in Seq(States) /\ << >> \in Seq(Runnables)
  BY DEF States
<1> SUFFICES ASSUME Init PROVE TypeOK
  OBVIOUS
<1>2. /\ shown \in [Channels -> Payloads \cup {Result, NULL}]
      /\ slot \in [Channels -> Payloads \cup {NULL}]
      /\ latest \in [Channels -> Payloads \cup {Result, NULL}]
  BY DEF Init
<1>3. inHand \in [Threads -> Runnables \cup {Nothing}]
  BY DEF Init
<1> QED
  BY <1>1, <1>2, <1>3 DEF Init, TypeOK

(***************************************************************************)
(* Task's variables always have the types that TypeOK gives them.          *)
(***************************************************************************)
THEOREM TaskTypes == Spec => []TypeOK
BY InitTypes, TypeStep, PTL DEF Spec

-----------------------------------------------------------------------------
(***************************************************************************)
(* The inductive invariant behind LifecycleOrder and OutcomesAgree.        *)
(*                                                                         *)
(* Own are the runnables that only Runner hands over; Early are the states *)
(* before RUNNING has been shown, CANCELLED among them.                    *)
(***************************************************************************)
Outcome == {"succeeded", "failed"}
Own     == {"running"} \cup Outcome
Early   == {"READY", "SCHEDULED", "CANCELLED"}
Begun   == {"call", "set", "setException"}

InQueue(a) == \E i \in 1..Len(queue) : queue[i] = a
Pending(a) == InQueue(a) \/ \E t \in Threads : inHand[t] = a

\* RUNNING has been shown, or is sure to be shown before anything that
\* Runner hands over from now on.
RunningAhead == state \in {"RUNNING", "CANCELLED"} \/ InQueue("running")

\* What a background thread is about to hand over.
HandInv ==
  /\ \A t \in Threads : inHand[t] \in Own => t = Runner
  /\ inHand[Runner] = "running" =>
       body = "call" /\ state \in Early /\ \A i \in 1..Len(queue) : queue[i] \notin Own
  /\ inHand[Runner] = "succeeded" => body = "set"
  /\ inHand[Runner] = "failed" => body = "setException"
  /\ inHand[Runner] \in Outcome => \A i \in 1..Len(queue) : queue[i] \notin Outcome

\* What is queued, and in which order.
QueueInv ==
  /\ \A i \in 1..Len(queue) :
       /\ queue[i] = "running" => body \in Begun /\ state \in Early
       /\ queue[i] = "succeeded" => body = "set"
       /\ queue[i] = "failed" => body = "setException"
       /\ queue[i] \in Outcome =>
            state \in {"RUNNING", "CANCELLED"} \/ \E j \in 1..(i - 1) : queue[j] = "running"
  /\ \A i, j \in 1..Len(queue) :
       \/ queue[i] = "running" /\ queue[j] = "running"
       \/ queue[i] \in Outcome /\ queue[j] \in Outcome
       => i = j

\* What the FX thread shows, against how far the computation is.
StateInv ==
  /\ body \in {"ready", "skipped"} => state \in Early
  /\ body = "call" /\ inHand[Runner] # "running" => RunningAhead
  /\ inHand[Runner] \in Outcome => RunningAhead
  /\ state = "SUCCEEDED" => body = "set"
  /\ state = "FAILED" => body = "setException"

\* What the FutureTask holds, against what is shown or will be.
FutureInv ==
  /\ state = "CANCELLED" => future = "CANCELLED"
  /\ Pending("cancelled") => future = "CANCELLED"
  /\ future = "CANCELLED" => state = "CANCELLED" \/ Pending("cancelled")
  /\ body = "skipped" => future = "CANCELLED"
  /\ future = "NORMAL" => body = "set"
  /\ future = "EXCEPTIONAL" => body = "setException"
  /\ body = "set" => future = "CANCELLED" \/ state = "SUCCEEDED" \/ Pending("succeeded")
  /\ body = "setException" => future = "CANCELLED" \/ state = "FAILED" \/ Pending("failed")

\* The trail ends in the state that is shown.  CANCELLED is last in it, so
\* that FutureInv tells which CANCELLED overtook an outcome.
Chain      == Follows \cup Overtaken
Latest(s)  == IF s = << >> THEN "READY" ELSE s[Len(s)]
Ordered(s) ==
  \A i \in 1..Len(s) : <<IF i = 1 THEN "READY" ELSE s[i - 1], s[i]>> \in Chain

TrailInv == Ordered(trail) /\ state = Latest(trail)

IInv == TypeOK /\ HandInv /\ QueueInv /\ StateInv /\ FutureInv /\ TrailInv
-----------------------------------------------------------------------------
(***************************************************************************)
(* Facts about sequences.                                                  *)
(***************************************************************************)
\* Running the head of the queue moves every other runnable one place up.
LEMMA TailIndex ==
  ASSUME TypeOK, queue # << >>, queue' = Tail(queue)
  PROVE  /\ Len(queue) \in Nat \ {0}
         /\ Len(queue') = Len(queue) - 1
         /\ \A i \in 1..Len(queue') : queue'[i] = queue[i + 1]
         /\ queue[1] = Head(queue)
BY DEF TypeOK

LEMMA TailInQueue ==
  ASSUME TypeOK, queue # << >>, queue' = Tail(queue)
  PROVE  \A a \in Runnables : /\ InQueue(a)' => InQueue(a)
                              /\ a # Head(queue) /\ InQueue(a) => InQueue(a)'
<1> SUFFICES ASSUME NEW a \in Runnables
             PROVE  /\ InQueue(a)' => InQueue(a)
                    /\ a # Head(queue) /\ InQueue(a) => InQueue(a)'
  OBVIOUS
<1>1. ASSUME InQueue(a)' PROVE InQueue(a)
  <2>1. PICK i \in 1..Len(queue') : queue'[i] = a
    BY <1>1 DEF InQueue
  <2>2. i + 1 \in 1..Len(queue) /\ queue[i + 1] = a
    BY <2>1, TailIndex
  <2> QED
    BY <2>2 DEF InQueue
<1>2. ASSUME a # Head(queue), InQueue(a) PROVE InQueue(a)'
  <2>1. PICK i \in 1..Len(queue) : queue[i] = a
    BY <1>2 DEF InQueue
  <2>2. i # 1
    BY <1>2, <2>1, TailIndex
  <2>3. i - 1 \in 1..Len(queue') /\ queue'[i - 1] = a
    BY <2>1, <2>2, TailIndex
  <2> QED
    BY <2>3 DEF InQueue
<1> QED
  BY <1>1, <1>2

\* A runnable that is handed over comes after all the others.
LEMMA AppendIndex ==
  ASSUME TypeOK, NEW a \in Runnables, queue' = Append(queue, a)
  PROVE  /\ Len(queue) \in Nat
         /\ Len(queue') = Len(queue) + 1
         /\ \A i \in 1..Len(queue) : queue'[i] = queue[i]
         /\ queue'[Len(queue) + 1] = a
BY DEF TypeOK

LEMMA AppendInQueue ==
  ASSUME TypeOK, NEW a \in Runnables, queue' = Append(queue, a)
  PROVE  \A b \in Runnables : InQueue(b)' <=> InQueue(b) \/ b = a
<1> SUFFICES ASSUME NEW b \in Runnables
             PROVE  InQueue(b)' <=> InQueue(b) \/ b = a
  OBVIOUS
<1>1. ASSUME InQueue(b)' PROVE InQueue(b) \/ b = a
  BY <1>1, AppendIndex DEF InQueue
<1>2. ASSUME InQueue(b) PROVE InQueue(b)'
  BY <1>2, AppendIndex DEF InQueue
<1>3. ASSUME b = a PROVE InQueue(b)'
  <2>1. Len(queue) + 1 \in 1..Len(queue') /\ queue'[Len(queue) + 1] = b
    BY <1>3, AppendIndex
  <2> QED
    BY <2>1 DEF InQueue
<1> QED
  BY <1>1, <1>2, <1>3

\* A trail stays in order when it grows by a state that may come next.
LEMMA OrderedAppend ==
  ASSUME NEW s \in Seq(States), Ordered(s),
         NEW v \in States, <<Latest(s), v>> \in Chain
  PROVE  /\ Append(s, v) \in Seq(States)
         /\ Ordered(Append(s, v))
         /\ Latest(Append(s, v)) = v
<1> DEFINE u == Append(s, v)
<1>1. /\ u \in Seq(States)
      /\ Len(s) \in Nat
      /\ Len(u) = Len(s) + 1
      /\ \A i \in 1..Len(s) : u[i] = s[i]
      /\ u[Len(s) + 1] = v
  OBVIOUS
<1>2. Latest(u) = v
  <2>1. Len(u) # 0
    BY <1>1
  <2>2. u # << >>
    BY <1>1, <2>1, EmptySeq
  <2> QED
    BY <1>1, <2>2 DEF Latest
<1>3. ASSUME NEW i \in 1..Len(u)
      PROVE  <<IF i = 1 THEN "READY" ELSE u[i - 1], u[i]>> \in Chain
  <2>1. CASE i = Len(s) + 1
    <3>1. (IF i = 1 THEN "READY" ELSE u[i - 1]) = Latest(s)
      BY <1>1, <2>1 DEF Latest
    <3> QED
      BY <1>1, <2>1, <3>1
  <2>2. CASE i # Len(s) + 1
    <3>1. i \in 1..Len(s)
      BY <1>1, <2>2
    <3>2. (IF i = 1 THEN "READY" ELSE u[i - 1]) = (IF i = 1 THEN "READY" ELSE s[i - 1])
      BY <1>1, <3>1
    <3> QED
      BY <1>1, <3>1, <3>2 DEF Ordered
  <2> QED
    BY <2>1, <2>2
<1> QED
  BY <1>1, <1>2, <1>3 DEF Ordered

LEMMA ConcatIsAppend ==
  ASSUME NEW s \in Seq(States), NEW v \in States, NEW w \in States
  PROVE  /\ s \o <<v>> = Append(s, v)
         /\ s \o <<v, w>> = Append(Append(s, v), w)
OBVIOUS
-----------------------------------------------------------------------------
(***************************************************************************)
(* setState().                                                             *)
(***************************************************************************)
\* Either the task is CANCELLED already and nothing changes, or the last
\* state of the path is shown, or a callback cancels on the way.
LEMMA SetStateEffect ==
  ASSUME NEW path \in Paths, SetState(path)
  PROVE  \/ state = "CANCELLED" /\ UNCHANGED <<state, future>>
         \/ state # "CANCELLED" /\ state' = path[Len(path)] /\ UNCHANGED future
         \/ state # "CANCELLED" /\ future = "NEW" /\ state' = "CANCELLED" /\ future' = "CANCELLED"
BY DEF SetState

\* A prefix of a path: its first state alone, or SCHEDULED and RUNNING.
LEMMA PathPrefix ==
  ASSUME NEW path \in Paths, NEW i \in 1..Len(path)
  PROVE  \/ SubSeq(path, 1, i) = <<path[1]>>
         \/ path = <<"SCHEDULED", "RUNNING">> /\ SubSeq(path, 1, i) = path
<1>1. path \in Seq(States) /\ Len(path) \in 1..2 /\ path[1] \in States
  BY PathTypes
<1>2. CASE i = Len(path)
  <2>1. SubSeq(path, 1, i) = path
    BY <1>1, <1>2, SubSeqFull
  <2>2. CASE path # <<"SCHEDULED", "RUNNING">>
    <3>1. PICK v \in States : path = <<v>>
      BY <2>2 DEF Paths, States
    <3> QED
      BY <2>1, <3>1
  <2> QED
    BY <2>1, <2>2
<1>3. CASE i # Len(path)
  <2>1. i = 1
    <3> DEFINE n == Len(path)
    <3>1. n \in 1..2 /\ i \in 1..n /\ i # n
      BY <1>1, <1>3
    <3> HIDE DEF n
    <3> QED
      BY <3>1
  <2>2. \A j \in 1..1 : path[j] \in States
    BY <1>1
  <2>3. /\ SubSeq(path, 1, 1) \in Seq(States)
        /\ Len(SubSeq(path, 1, 1)) = 1
        /\ SubSeq(path, 1, 1)[1] = path[1]
    BY <2>2, SubSeqProperties
  <2>4. <<path[1]>> \in Seq(States) /\ Len(<<path[1]>>) = 1 /\ <<path[1]>>[1] = path[1]
    BY <1>1
  <2>5. \A j \in 1..Len(SubSeq(path, 1, 1)) : SubSeq(path, 1, 1)[j] = <<path[1]>>[j]
    BY <2>3, <2>4
  <2>6. SubSeq(path, 1, 1) = <<path[1]>>
    BY <2>3, <2>4, <2>5, SeqEqual
  <2> QED
    BY <2>1, <2>6
<1> QED
  BY <1>2, <1>3

\* The trail stays in order if the first state of the path may come next.
LEMMA SetStateTrail ==
  ASSUME TypeOK, TrailInv, NEW path \in Paths, SetState(path),
         state # "CANCELLED" => <<state, path[1]>> \in Chain,
         path = <<"CANCELLED">> => future # "NEW"
  PROVE  TrailInv'
<1>1. CASE UNCHANGED <<state, running, trail, future>>
  BY <1>1 DEF TrailInv
<1>2. CASE state # "CANCELLED" /\ trail' = trail \o path /\ state' = path[Len(path)]
  <2>1. CASE path = <<"SCHEDULED", "RUNNING">>
    <3>1. path[1] = "SCHEDULED" /\ path[Len(path)] = "RUNNING"
      BY <2>1
    <3>2. /\ trail \in Seq(States) /\ "SCHEDULED" \in States /\ "RUNNING" \in States
          /\ <<"SCHEDULED", "RUNNING">> \in Chain
      BY DEF TypeOK, States, Chain, Follows, Overtaken, Terminal
    <3>3. LET u == Append(trail, "SCHEDULED")
          IN  u \in Seq(States) /\ Ordered(u) /\ Latest(u) = "SCHEDULED"
      BY <1>2, <3>1, <3>2, OrderedAppend DEF TrailInv
    <3>4. LET u == Append(Append(trail, "SCHEDULED"), "RUNNING")
          IN  Ordered(u) /\ Latest(u) = "RUNNING"
      BY <3>2, <3>3, OrderedAppend
    <3>5. trail' = Append(Append(trail, "SCHEDULED"), "RUNNING")
      BY <1>2, <2>1, <3>2, ConcatIsAppend
    <3> QED
      BY <1>2, <3>1, <3>4, <3>5 DEF TrailInv
  <2>2. CASE path # <<"SCHEDULED", "RUNNING">>
    <3>1. PICK v \in States : path = <<v>>
      BY <2>2 DEF Paths, States
    <3>2. path[1] = v /\ Len(path) = 1 /\ trail \in Seq(States)
      BY <3>1 DEF TypeOK
    <3>3. trail' = Append(trail, v)
      BY <1>2, <3>1, <3>2, ConcatIsAppend
    <3>4. Ordered(Append(trail, v)) /\ Latest(Append(trail, v)) = v
      BY <1>2, <3>2, OrderedAppend DEF TrailInv
    <3> QED
      BY <1>2, <3>2, <3>3, <3>4 DEF TrailInv
  <2> QED
    BY <2>1, <2>2
<1>3. ASSUME state # "CANCELLED", future = "NEW", state' = "CANCELLED",
             NEW i \in 1..Len(path),
             trail' = trail \o SubSeq(path, 1, i) \o <<"CANCELLED">>
      PROVE  TrailInv'
  <2>1. trail \in Seq(States) /\ "CANCELLED" \in States
    BY DEF TypeOK, States
  <2>2. CASE SubSeq(path, 1, i) = <<path[1]>>
    <3>a. path # <<"CANCELLED">>
      BY <1>3
    <3>1. path[1] \in States \ {"CANCELLED"}
      BY <3>a DEF Paths, States
    <3>2. LET u == Append(trail, path[1])
          IN  u \in Seq(States) /\ Ordered(u) /\ Latest(u) = path[1]
      BY <1>3, <2>1, <3>1, OrderedAppend DEF TrailInv
    <3>3. <<path[1], "CANCELLED">> \in Chain
      BY <3>1 DEF Chain, Follows, Overtaken, Terminal
    <3>4. LET u == Append(Append(trail, path[1]), "CANCELLED")
          IN  Ordered(u) /\ Latest(u) = "CANCELLED"
      BY <2>1, <3>2, <3>3, OrderedAppend
    <3>5. trail \o <<path[1]>> = Append(trail, path[1])
      BY <2>1, <3>1, ConcatIsAppend
    <3>6. Append(trail, path[1]) \o <<"CANCELLED">> = Append(Append(trail, path[1]), "CANCELLED")
      BY <2>1, <3>2, ConcatIsAppend
    <3> QED
      BY <1>3, <2>2, <3>1, <3>4, <3>5, <3>6 DEF TrailInv
  <2>3. CASE path = <<"SCHEDULED", "RUNNING">> /\ SubSeq(path, 1, i) = path
    <3>2. SubSeq(path, 1, i) = <<"SCHEDULED", "RUNNING">> /\ path[1] = "SCHEDULED"
      BY <2>3
    <3>3. /\ "SCHEDULED" \in States /\ "RUNNING" \in States
          /\ <<"SCHEDULED", "RUNNING">> \in Chain /\ <<"RUNNING", "CANCELLED">> \in Chain
      BY DEF States, Chain, Follows, Overtaken, Terminal
    <3>4. LET u == Append(trail, "SCHEDULED")
          IN  u \in Seq(States) /\ Ordered(u) /\ Latest(u) = "SCHEDULED"
      BY <1>3, <2>1, <3>2, <3>3, OrderedAppend DEF TrailInv
    <3>5. LET u == Append(Append(trail, "SCHEDULED"), "RUNNING")
          IN  u \in Seq(States) /\ Ordered(u) /\ Latest(u) = "RUNNING"
      BY <3>3, <3>4, OrderedAppend
    <3>6. LET u == Append(Append(Append(trail, "SCHEDULED"), "RUNNING"), "CANCELLED")
          IN  Ordered(u) /\ Latest(u) = "CANCELLED"
      BY <2>1, <3>3, <3>5, OrderedAppend
    <3>7. trail \o <<"SCHEDULED", "RUNNING">> = Append(Append(trail, "SCHEDULED"), "RUNNING")
      BY <2>1, <3>3, ConcatIsAppend
    <3>8. Append(Append(trail, "SCHEDULED"), "RUNNING") \o <<"CANCELLED">>
            = Append(Append(Append(trail, "SCHEDULED"), "RUNNING"), "CANCELLED")
      BY <2>1, <3>5, ConcatIsAppend
    <3> QED
      BY <1>3, <3>2, <3>6, <3>7, <3>8 DEF TrailInv
  <2> QED
    BY <1>3, <2>2, <2>3, PathPrefix
<1> QED
  BY <1>1, <1>2, <1>3 DEF SetState
-----------------------------------------------------------------------------
(***************************************************************************)
(* The FX thread runs the runnable at the head of its queue.               *)
(***************************************************************************)
\* What that does to the state and the future: nothing, if it is an update
\* or the task is CANCELLED; CANCELLED; or the runnable's own state.
FxEffect(a) ==
  \/ UNCHANGED <<state, future>> /\ (a \in Channels \/ state = "CANCELLED")
  \/ /\ state # "CANCELLED" /\ state' = "CANCELLED" /\ future' = "CANCELLED"
     /\ \/ future = "NEW"
        \/ a = "cancelled" /\ future = "CANCELLED"
  \/ /\ a = "running" /\ state \in {"READY", "SCHEDULED"} /\ body \in Begun
     /\ state' = "RUNNING" /\ UNCHANGED future
  \/ /\ a = "succeeded" /\ state = "RUNNING" /\ body = "set"
     /\ state' = "SUCCEEDED" /\ UNCHANGED future
  \/ /\ a = "failed" /\ state = "RUNNING" /\ body = "setException"
     /\ state' = "FAILED" /\ UNCHANGED future

\* The head of the queue, as the invariant knows it.
LEMMA HeadFacts ==
  ASSUME IInv, queue # << >>
  PROVE  /\ Head(queue) = "running" => body \in Begun /\ state \in Early
         /\ Head(queue) = "succeeded" => body = "set"
         /\ Head(queue) = "failed" => body = "setException"
         /\ Head(queue) \in Outcome => state \in {"RUNNING", "CANCELLED"}
         /\ Head(queue) = "cancelled" => future = "CANCELLED"
<1>1. Len(queue) \in Nat /\ 1 \in 1..Len(queue) /\ queue[1] = Head(queue)
  BY DEF IInv, TypeOK
<1>2. ~ \E j \in 1..(1 - 1) : queue[j] = "running"
  OBVIOUS
<1>3. Head(queue) = "cancelled" => future = "CANCELLED"
  BY <1>1 DEF IInv, FutureInv, Pending, InQueue
<1> QED
  BY <1>1, <1>2, <1>3 DEF IInv, QueueInv

LEMMA FxRunEffect ==
  ASSUME IInv, FxRun
  PROVE  /\ queue # << >> /\ queue' = Tail(queue) /\ UNCHANGED <<body, inHand>>
         /\ Head(queue) \in Runnables
         /\ FxEffect(Head(queue))
         /\ TrailInv'
<1>1. /\ queue # << >> /\ queue' = Tail(queue) /\ UNCHANGED <<body, inHand>>
      /\ Head(queue) \in Runnables
  BY DEF FxRun, IInv, TypeOK
<1> DEFINE a == Head(queue)
<1>0. TypeOK /\ TrailInv
  BY DEF IInv
<1>2. CASE RunRunning
  <2>1. a = "running" /\ SetState(<<"SCHEDULED", "RUNNING">>)
    BY <1>2 DEF RunRunning
  <2>2. <<"SCHEDULED", "RUNNING">> \in Paths
    BY DEF Paths
  <2>3. state # "CANCELLED" => state \in {"READY", "SCHEDULED"}
    BY <1>1, <2>1, HeadFacts DEF Early
  <2>4. state # "CANCELLED" => <<state, "SCHEDULED">> \in Chain
    BY <2>3 DEF Chain, Follows, Overtaken, Terminal
  <2>5. TrailInv'
    BY <1>0, <2>1, <2>2, <2>4, SetStateTrail
  <2>6. \/ state = "CANCELLED" /\ UNCHANGED <<state, future>>
        \/ state # "CANCELLED" /\ state' = "RUNNING" /\ UNCHANGED future
        \/ /\ state # "CANCELLED" /\ future = "NEW"
           /\ state' = "CANCELLED" /\ future' = "CANCELLED"
    BY <2>1, <2>2, SetStateEffect
  <2>7. body \in Begun
    BY <1>1, <2>1, HeadFacts
  <2>8. FxEffect("running")
    BY <2>3, <2>6, <2>7 DEF FxEffect
  <2> QED
    BY <1>1, <2>1, <2>5, <2>8
<1>3. CASE RunSucceeded
  <2>1. a = "succeeded" /\ SetState(<<"SUCCEEDED">>)
    BY <1>3 DEF RunSucceeded
  <2>2. <<"SUCCEEDED">> \in Paths
    BY DEF Paths
  <2>3. body = "set" /\ (state # "CANCELLED" => state = "RUNNING")
    BY <1>1, <2>1, HeadFacts DEF Outcome
  <2>4. state # "CANCELLED" => <<state, "SUCCEEDED">> \in Chain
    BY <2>3 DEF Chain, Follows, Overtaken, Terminal
  <2>5. TrailInv'
    BY <1>0, <2>1, <2>2, <2>4, SetStateTrail
  <2>6. \/ state = "CANCELLED" /\ UNCHANGED <<state, future>>
        \/ state # "CANCELLED" /\ state' = "SUCCEEDED" /\ UNCHANGED future
        \/ /\ state # "CANCELLED" /\ future = "NEW"
           /\ state' = "CANCELLED" /\ future' = "CANCELLED"
    BY <2>1, <2>2, SetStateEffect
  <2>7. FxEffect("succeeded")
    BY <2>3, <2>6 DEF FxEffect
  <2> QED
    BY <1>1, <2>1, <2>5, <2>7
<1>4. CASE RunFailed
  <2>1. a = "failed" /\ SetState(<<"FAILED">>)
    BY <1>4 DEF RunFailed
  <2>2. <<"FAILED">> \in Paths
    BY DEF Paths
  <2>3. body = "setException" /\ (state # "CANCELLED" => state = "RUNNING")
    BY <1>1, <2>1, HeadFacts DEF Outcome
  <2>4. state # "CANCELLED" => <<state, "FAILED">> \in Chain
    BY <2>3 DEF Chain, Follows, Overtaken, Terminal
  <2>5. TrailInv'
    BY <1>0, <2>1, <2>2, <2>4, SetStateTrail
  <2>6. \/ state = "CANCELLED" /\ UNCHANGED <<state, future>>
        \/ state # "CANCELLED" /\ state' = "FAILED" /\ UNCHANGED future
        \/ /\ state # "CANCELLED" /\ future = "NEW"
           /\ state' = "CANCELLED" /\ future' = "CANCELLED"
    BY <2>1, <2>2, SetStateEffect
  <2>7. FxEffect("failed")
    BY <2>3, <2>6 DEF FxEffect
  <2> QED
    BY <1>1, <2>1, <2>5, <2>7
<1>5. CASE RunCancelled
  <2>1. a = "cancelled" /\ SetState(<<"CANCELLED">>)
    BY <1>5 DEF RunCancelled
  <2>2. <<"CANCELLED">> \in Paths
    BY DEF Paths
  <2>3. future = "CANCELLED"
    BY <1>1, <2>1, HeadFacts
  <2>4. state # "CANCELLED" => <<state, "CANCELLED">> \in Chain
    BY <1>0 DEF Chain, Follows, Overtaken, Terminal, TypeOK
  <2>5. TrailInv'
    BY <1>0, <2>1, <2>2, <2>3, <2>4, SetStateTrail
  <2>6. \/ state = "CANCELLED" /\ UNCHANGED <<state, future>>
        \/ state # "CANCELLED" /\ state' = "CANCELLED" /\ UNCHANGED future
    BY <2>1, <2>2, <2>3, SetStateEffect
  <2>7. FxEffect("cancelled")
    BY <2>3, <2>6 DEF FxEffect
  <2> QED
    BY <1>1, <2>1, <2>5, <2>7
<1>6. ASSUME NEW c \in Channels, RunUpdate(c)
      PROVE  FxEffect(a) /\ TrailInv'
  BY <1>0, <1>6 DEF RunUpdate, FxEffect, TrailInv
<1> QED
  BY <1>1, <1>2, <1>3, <1>4, <1>5, <1>6 DEF FxRun

LEMMA FxRunKeepsHand == ASSUME IInv, FxRun PROVE HandInv'
<1>1. /\ queue # << >> /\ queue' = Tail(queue) /\ UNCHANGED <<body, inHand>>
      /\ FxEffect(Head(queue))
  BY FxRunEffect
<1>2. TypeOK /\ HandInv
  BY DEF IInv
<1>3. /\ Len(queue) \in Nat \ {0}
      /\ Len(queue') = Len(queue) - 1
      /\ \A i \in 1..Len(queue') : queue'[i] = queue[i + 1]
      /\ queue[1] = Head(queue)
  BY <1>1, <1>2, TailIndex
<1>4. ASSUME inHand[Runner] = "running" PROVE state' \in Early
  <2>1. state \in Early /\ queue[1] \notin Own
    BY <1>2, <1>3, <1>4 DEF HandInv
  <2> QED
    BY <1>1, <1>3, <2>1 DEF FxEffect, Own, Outcome, Early
<1> QED
  BY <1>1, <1>2, <1>3, <1>4 DEF HandInv

LEMMA FxRunKeepsQueue == ASSUME IInv, FxRun PROVE QueueInv'
<1>1. /\ queue # << >> /\ queue' = Tail(queue) /\ UNCHANGED <<body, inHand>>
      /\ FxEffect(Head(queue))
  BY FxRunEffect
<1>2. TypeOK /\ QueueInv
  BY DEF IInv
<1>3. /\ Len(queue) \in Nat \ {0}
      /\ Len(queue') = Len(queue) - 1
      /\ \A i \in 1..Len(queue') : queue'[i] = queue[i + 1]
      /\ queue[1] = Head(queue)
  BY <1>1, <1>2, TailIndex
<1>4. ASSUME NEW i \in 1..Len(queue')
      PROVE  /\ queue'[i] = "running" => body' \in Begun /\ state' \in Early
             /\ queue'[i] = "succeeded" => body' = "set"
             /\ queue'[i] = "failed" => body' = "setException"
             /\ queue'[i] \in Outcome =>
                  \/ state' \in {"RUNNING", "CANCELLED"}
                  \/ \E j \in 1..(i - 1) : queue'[j] = "running"
  <2>1. i + 1 \in 1..Len(queue) /\ 1 \in 1..Len(queue) /\ i + 1 # 1 /\ queue'[i] = queue[i + 1]
    BY <1>3
  <2>2. /\ queue'[i] = "succeeded" => body' = "set"
        /\ queue'[i] = "failed" => body' = "setException"
    BY <1>1, <1>2, <2>1 DEF QueueInv
  <2>3. ASSUME queue'[i] = "running" PROVE body' \in Begun /\ state' \in Early
    <3>1. body \in Begun /\ state \in Early /\ queue[1] # "running"
      BY <1>2, <2>1, <2>3 DEF QueueInv
    <3> QED
      BY <1>1, <1>3, <3>1 DEF FxEffect, Early
  <2>4. ASSUME queue'[i] \in Outcome, state' \notin {"RUNNING", "CANCELLED"}
        PROVE  \E j \in 1..(i - 1) : queue'[j] = "running"
    <3>1. queue[1] \notin Outcome
      BY <1>2, <2>1, <2>4 DEF QueueInv
    <3>2. state \notin {"RUNNING", "CANCELLED"} /\ queue[1] # "running"
      BY <1>1, <1>3, <2>4, <3>1 DEF FxEffect, Outcome
    <3>3. PICK j \in 1..i : queue[j] = "running"
      BY <1>2, <2>1, <2>4, <3>2 DEF QueueInv
    <3>4. j # 1
      BY <3>2, <3>3
    <3>5. j - 1 \in 1..(i - 1) /\ j - 1 \in 1..Len(queue')
      BY <3>3, <3>4, <1>3
    <3>6. queue'[j - 1] = queue[j]
      BY <3>5, <1>3
    <3> QED
      BY <3>3, <3>5, <3>6
  <2> QED
    BY <2>2, <2>3, <2>4
<1>5. ASSUME NEW i \in 1..Len(queue'), NEW j \in 1..Len(queue'),
             \/ queue'[i] = "running" /\ queue'[j] = "running"
             \/ queue'[i] \in Outcome /\ queue'[j] \in Outcome
      PROVE  i = j
  <2>1. /\ i + 1 \in 1..Len(queue) /\ queue'[i] = queue[i + 1]
        /\ j + 1 \in 1..Len(queue) /\ queue'[j] = queue[j + 1]
    BY <1>3
  <2>2. i + 1 = j + 1
    BY <1>2, <1>5, <2>1 DEF QueueInv
  <2> QED
    BY <2>2
<1> QED
  BY <1>4, <1>5 DEF QueueInv

LEMMA FxRunKeepsState == ASSUME IInv, FxRun PROVE StateInv'
<1>1. /\ queue # << >> /\ queue' = Tail(queue) /\ UNCHANGED <<body, inHand>>
      /\ Head(queue) \in Runnables
      /\ FxEffect(Head(queue))
  BY FxRunEffect
<1>2. TypeOK /\ StateInv /\ HandInv /\ QueueInv
  BY DEF IInv
<1>3. ASSUME RunningAhead, state' \in {"RUNNING", "CANCELLED"} \/ state' = state
      PROVE  RunningAhead'
  <2>1. CASE InQueue("running") /\ Head(queue) # "running"
    <3>1. "running" \in Runnables
      BY DEF Runnables
    <3> QED
      BY <1>1, <1>2, <2>1, <3>1, TailInQueue DEF RunningAhead
  <2>2. CASE Head(queue) = "running"
    BY <1>1, <2>2 DEF FxEffect, RunningAhead
  <2>3. CASE state \in {"RUNNING", "CANCELLED"}
    BY <1>3, <2>3 DEF RunningAhead
  <2> QED
    BY <1>3, <2>1, <2>2, <2>3 DEF RunningAhead
<1>4. body \in {"ready", "skipped"} => state' \in Early
  BY <1>1, <1>2 DEF FxEffect, StateInv, Begun, Early
<1>5. ASSUME body = "call", inHand[Runner] # "running" PROVE RunningAhead'
  <2>1. state' \in {"RUNNING", "CANCELLED"} \/ state' = state
    BY <1>1, <1>5 DEF FxEffect
  <2> QED
    BY <1>2, <1>3, <1>5, <2>1 DEF StateInv
<1>6. ASSUME inHand[Runner] \in Outcome PROVE RunningAhead'
  <2>1. 1 \in 1..Len(queue) /\ queue[1] = Head(queue)
    BY <1>1, <1>2, TailIndex
  <2>2. Head(queue) \notin Outcome
    BY <1>2, <1>6, <2>1 DEF HandInv
  <2>3. state' \in {"RUNNING", "CANCELLED"} \/ state' = state
    BY <1>1, <2>2 DEF FxEffect, Outcome
  <2> QED
    BY <1>2, <1>3, <1>6, <2>3 DEF StateInv
<1>7. /\ state' = "SUCCEEDED" => body = "set"
      /\ state' = "FAILED" => body = "setException"
  BY <1>1, <1>2 DEF FxEffect, StateInv
<1> QED
  BY <1>1, <1>4, <1>5, <1>6, <1>7 DEF StateInv

LEMMA FxRunKeepsFuture == ASSUME IInv, FxRun PROVE FutureInv'
<1>1. /\ queue # << >> /\ queue' = Tail(queue) /\ UNCHANGED <<body, inHand>>
      /\ Head(queue) \in Runnables
      /\ FxEffect(Head(queue))
  BY FxRunEffect
<1>2. TypeOK /\ FutureInv
  BY DEF IInv
<1>3. \A a \in Runnables : /\ Pending(a)' => Pending(a)
                           /\ a # Head(queue) /\ Pending(a) => Pending(a)'
  BY <1>1, <1>2, TailInQueue DEF Pending
<1>4. {"cancelled", "succeeded", "failed"} \subseteq Runnables
  BY DEF Runnables
<1>5. /\ state' = "CANCELLED" => future' = "CANCELLED"
      /\ Pending("cancelled")' => future' = "CANCELLED"
      /\ body = "skipped" => future' = "CANCELLED"
      /\ future' = "NORMAL" => body = "set"
      /\ future' = "EXCEPTIONAL" => body = "setException"
  BY <1>1, <1>2, <1>3, <1>4 DEF FxEffect, FutureInv
<1>6. future' = "CANCELLED" => state' = "CANCELLED" \/ Pending("cancelled")'
  BY <1>1, <1>2, <1>3, <1>4 DEF FxEffect, FutureInv
<1>7. body = "set" => future' = "CANCELLED" \/ state' = "SUCCEEDED" \/ Pending("succeeded")'
  BY <1>1, <1>2, <1>3, <1>4 DEF FxEffect, FutureInv
<1>8. body = "setException" => future' = "CANCELLED" \/ state' = "FAILED" \/ Pending("failed")'
  BY <1>1, <1>2, <1>3, <1>4 DEF FxEffect, FutureInv
<1> QED
  BY <1>1, <1>5, <1>6, <1>7, <1>8 DEF FutureInv
-----------------------------------------------------------------------------
(***************************************************************************)
(* A background thread hands over what it holds.                           *)
(***************************************************************************)
LEMMA RunLaterKeepsInv ==
  ASSUME IInv, NEW t \in Threads, RunLater(t)
  PROVE  HandInv' /\ QueueInv' /\ StateInv' /\ FutureInv' /\ TrailInv'
<1> DEFINE a == inHand[t]
<1>1. TypeOK /\ HandInv /\ QueueInv /\ StateInv /\ FutureInv /\ TrailInv
  BY DEF IInv
<1>2. /\ a \in Runnables /\ queue' = Append(queue, a)
      /\ inHand' = [inHand EXCEPT ![t] = Nothing]
      /\ UNCHANGED <<state, trail, future, body>>
  BY <1>1 DEF RunLater, TypeOK, fxVars
<1>3. /\ Len(queue) \in Nat
      /\ Len(queue') = Len(queue) + 1
      /\ \A i \in 1..Len(queue) : queue'[i] = queue[i]
      /\ queue'[Len(queue) + 1] = a
  BY <1>1, <1>2, AppendIndex
<1>4. \A i \in 1..Len(queue') : i \in 1..Len(queue) \/ i = Len(queue) + 1
  BY <1>3
<1>5. inHand \in [Threads -> Runnables \cup {Nothing}] /\ Nothing \notin Own \cup {"cancelled"}
  BY <1>1 DEF TypeOK, Nothing, Own, Outcome
<1>6. a \in Own => t = Runner
  BY <1>1 DEF HandInv
<1>7. HandInv'
  <2>1. \A s \in Threads : inHand'[s] \in Own => s = Runner /\ inHand[s] = inHand'[s] /\ s # t
    BY <1>1, <1>2, <1>5 DEF HandInv
  <2>2. ASSUME inHand'[Runner] \in Own PROVE a \notin Own
    BY <1>6, <2>1, <2>2
  <2>3. inHand'[Runner] \in Own => inHand'[Runner] = inHand[Runner]
    BY <2>1
  <2>4. ASSUME inHand'[Runner] = "running"
        PROVE  body' = "call" /\ state' \in Early /\ \A i \in 1..Len(queue') : queue'[i] \notin Own
    <3>1. "running" \in Own
      BY DEF Own
    <3> QED
      BY <1>1, <1>2, <1>3, <1>4, <2>2, <2>3, <2>4, <3>1 DEF HandInv
  <2>5. ASSUME inHand'[Runner] \in Outcome
        PROVE  /\ inHand'[Runner] = "succeeded" => body' = "set"
               /\ inHand'[Runner] = "failed" => body' = "setException"
               /\ \A i \in 1..Len(queue') : queue'[i] \notin Outcome
    <3>1. Outcome \subseteq Own
      BY DEF Own
    <3> QED
      BY <1>1, <1>2, <1>3, <1>4, <2>2, <2>3, <2>5, <3>1 DEF HandInv
  <2>6. Runner \in Threads /\ "succeeded" \in Outcome /\ "failed" \in Outcome
    BY DEF Outcome
  <2> QED
    BY <2>1, <2>4, <2>5, <2>6 DEF HandInv
<1>8. QueueInv'
  <2>1. \A i \in 1..Len(queue) :
          /\ queue[i] = "running" => a # "running"
          /\ queue[i] \in Outcome => a \notin Own
    BY <1>1, <1>6 DEF HandInv, Own, Outcome
  <2>2. ASSUME a \in Outcome, state \notin {"RUNNING", "CANCELLED"}
        PROVE  \E j \in 1..Len(queue) : queue[j] = "running"
    BY <1>1, <1>6, <2>2 DEF StateInv, RunningAhead, InQueue, Own
  <2>3. /\ a = "running" => body \in Begun /\ state \in Early
        /\ a = "succeeded" => body = "set"
        /\ a = "failed" => body = "setException"
    BY <1>1, <1>6 DEF HandInv, Own, Outcome, Begun
  <2>4. ASSUME NEW i \in 1..Len(queue')
        PROVE  /\ queue'[i] = "running" => body' \in Begun /\ state' \in Early
               /\ queue'[i] = "succeeded" => body' = "set"
               /\ queue'[i] = "failed" => body' = "setException"
               /\ queue'[i] \in Outcome =>
                    \/ state' \in {"RUNNING", "CANCELLED"}
                    \/ \E j \in 1..(i - 1) : queue'[j] = "running"
    <3>1. CASE i \in 1..Len(queue)
      <4>1. queue'[i] = queue[i] /\ \A j \in 1..(i - 1) : queue'[j] = queue[j]
        BY <1>3, <3>1
      <4> QED
        BY <1>1, <1>2, <3>1, <4>1 DEF QueueInv
    <3>2. CASE i = Len(queue) + 1
      <4>1. i - 1 = Len(queue) /\ queue'[i] = a /\ \A j \in 1..(i - 1) : queue'[j] = queue[j]
        BY <1>3, <3>2
      <4> QED
        BY <1>2, <2>2, <2>3, <4>1
    <3> QED
      BY <1>4, <3>1, <3>2
  <2>5. ASSUME NEW i \in 1..Len(queue'), NEW j \in 1..Len(queue'),
               \/ queue'[i] = "running" /\ queue'[j] = "running"
               \/ queue'[i] \in Outcome /\ queue'[j] \in Outcome
        PROVE  i = j
    <3>1. Outcome \subseteq Own
      BY DEF Own
    <3>2. CASE i \in 1..Len(queue) /\ j \in 1..Len(queue)
      BY <1>1, <1>3, <2>5, <3>2 DEF QueueInv
    <3>3. CASE i = Len(queue) + 1 \/ j = Len(queue) + 1
      BY <1>3, <1>4, <2>1, <2>5, <3>1, <3>3
    <3> QED
      BY <1>4, <3>2, <3>3
  <2> QED
    BY <2>4, <2>5 DEF QueueInv
<1>9. \A b \in Runnables : InQueue(b)' <=> InQueue(b) \/ b = a
  BY <1>1, <1>2, AppendInQueue
<1>10. StateInv'
  <2>1. RunningAhead => RunningAhead'
    <3>1. "running" \in Runnables
      BY DEF Runnables
    <3> QED
      BY <1>2, <1>9, <3>1 DEF RunningAhead
  <2>2. a = "running" => RunningAhead'
    BY <1>2, <1>9 DEF RunningAhead
  <2>3. inHand'[Runner] = inHand[Runner] \/ inHand'[Runner] = Nothing
    BY <1>2, <1>5
  <2>4. ASSUME body = "call", inHand'[Runner] # "running" PROVE RunningAhead'
    BY <1>1, <1>2, <1>5, <2>1, <2>2, <2>4 DEF StateInv
  <2>5. ASSUME inHand'[Runner] \in Outcome PROVE RunningAhead'
    BY <1>1, <1>5, <2>1, <2>3, <2>5 DEF StateInv, Own
  <2> QED
    BY <1>1, <1>2, <2>4, <2>5 DEF StateInv
<1>11. FutureInv'
  <2>1. \A b \in Runnables : Pending(b)' <=> Pending(b)
    <3> SUFFICES ASSUME NEW b \in Runnables PROVE Pending(b)' <=> Pending(b)
      OBVIOUS
    <3>1. b # Nothing
      BY DEF Runnables, Nothing
    <3>2. (\E s \in Threads : inHand'[s] = b) => \E s \in Threads : inHand[s] = b
      BY <1>2, <1>5, <3>1
    <3>3. (\E s \in Threads : inHand[s] = b) => b = a \/ \E s \in Threads : inHand'[s] = b
      BY <1>2, <1>5
    <3> QED
      BY <1>9, <3>2, <3>3 DEF Pending
  <2>2. {"cancelled", "succeeded", "failed"} \subseteq Runnables
    BY DEF Runnables
  <2> QED
    BY <1>1, <1>2, <2>1, <2>2 DEF FutureInv
<1>12. TrailInv'
  BY <1>1, <1>2 DEF TrailInv
<1> QED
  BY <1>7, <1>8, <1>10, <1>11, <1>12
-----------------------------------------------------------------------------
(***************************************************************************)
(* The steps that leave the queue alone.                                   *)
(***************************************************************************)
\* The FX thread's own calls of setState: schedule and cancel.
LEMMA FxCallKeepsInv ==
  ASSUME IInv, FxSchedule \/ FxCancel
  PROVE  HandInv' /\ QueueInv' /\ StateInv' /\ FutureInv' /\ TrailInv'
<1>1. TypeOK /\ HandInv /\ QueueInv /\ StateInv /\ FutureInv /\ TrailInv
  BY DEF IInv
<1>2. /\ UNCHANGED <<queue, body, inHand>>
      /\ \/ /\ body = "ready" /\ state = "READY"
            /\ state' = "SCHEDULED" /\ UNCHANGED future
         \/ future = "NEW" /\ state' = "CANCELLED" /\ future' = "CANCELLED"
      /\ TrailInv'
  <2>1. CASE FxSchedule
    <3>1. <<"SCHEDULED">> \in Paths /\ <<"READY", "SCHEDULED">> \in Chain
      BY DEF Paths, Chain, Follows, Overtaken, Terminal
    <3>2. state = "READY" /\ body = "ready" /\ SetState(<<"SCHEDULED">>)
      BY <2>1 DEF FxSchedule
    <3>3. TrailInv'
      BY <1>1, <3>1, <3>2, SetStateTrail
    <3>4. \/ state' = "SCHEDULED" /\ UNCHANGED future
          \/ future = "NEW" /\ state' = "CANCELLED" /\ future' = "CANCELLED"
      BY <3>1, <3>2, SetStateEffect
    <3> QED
      BY <2>1, <3>2, <3>3, <3>4 DEF FxSchedule
  <2>2. CASE FxCancel
    <3>1. state \in States \ {"CANCELLED"}
      BY <1>1, <2>2 DEF FxCancel, FutureInv, TypeOK
    <3>2. <<state, "CANCELLED">> \in Chain /\ "CANCELLED" \in States
      BY <3>1 DEF Chain, Follows, Overtaken, Terminal, States
    <3>3. Ordered(Append(trail, "CANCELLED")) /\ Latest(Append(trail, "CANCELLED")) = "CANCELLED"
      BY <1>1, <3>2, OrderedAppend DEF TrailInv, TypeOK
    <3> QED
      BY <2>2, <3>3 DEF FxCancel, TrailInv
  <2> QED
    BY <2>1, <2>2
<1>3. \A a : InQueue(a)' <=> InQueue(a)
  BY <1>2 DEF InQueue
<1>4. \A a : Pending(a)' <=> Pending(a)
  BY <1>2, <1>3 DEF Pending
<1>5. HandInv'
  BY <1>1, <1>2 DEF HandInv, Early
<1>6. QueueInv'
  BY <1>1, <1>2 DEF QueueInv, Early, Outcome, Begun
<1>7. StateInv'
  BY <1>1, <1>2, <1>3 DEF StateInv, HandInv, RunningAhead, Early, Outcome
<1>8. FutureInv'
  BY <1>1, <1>2, <1>4 DEF FutureInv
<1> QED
  BY <1>2, <1>5, <1>6, <1>7, <1>8

\* Updates, on any thread, concern none of the life cycle's variables; an
\* updating thread at most takes a channel's runnable in hand.
LEMMA UpdateKeepsInv ==
  ASSUME IInv,
         UNCHANGED <<state, trail, queue, future, body>>,
         \/ UNCHANGED inHand
         \/ \E t \in Threads, c \in Channels :
              inHand[t] = Nothing /\ inHand' = [inHand EXCEPT ![t] = c]
  PROVE  HandInv' /\ QueueInv' /\ StateInv' /\ FutureInv' /\ TrailInv'
<1>1. TypeOK /\ HandInv /\ QueueInv /\ StateInv /\ FutureInv /\ TrailInv
  BY DEF IInv
<1>2. /\ \A a \in Own \cup {"cancelled"} : \A s \in Threads : inHand'[s] = a <=> inHand[s] = a
      /\ Runner \in Threads
  BY <1>1 DEF TypeOK, Own, Outcome, Nothing
<1>3. \A a : InQueue(a)' <=> InQueue(a)
  BY DEF InQueue
<1>4. \A a \in Own \cup {"cancelled"} : Pending(a)' <=> Pending(a)
  BY <1>2, <1>3 DEF Pending
<1>5. HandInv'
  BY <1>1, <1>2 DEF HandInv, Own, Outcome
<1>6. QueueInv'
  BY <1>1 DEF QueueInv
<1>7. StateInv'
  BY <1>1, <1>2, <1>3 DEF StateInv, RunningAhead, Own, Outcome
<1>8. FutureInv'
  BY <1>1, <1>4 DEF FutureInv, Own, Outcome
<1>9. TrailInv'
  BY <1>1 DEF TrailInv
<1> QED
  BY <1>5, <1>6, <1>7, <1>8, <1>9

\* cancel() off the FX thread.
LEMMA CancelKeepsInv ==
  ASSUME IInv, NEW t \in Threads, Cancel(t)
  PROVE  HandInv' /\ QueueInv' /\ StateInv' /\ FutureInv' /\ TrailInv'
<1>1. TypeOK /\ HandInv /\ QueueInv /\ StateInv /\ FutureInv /\ TrailInv
  BY DEF IInv
<1>2. /\ inHand[t] = Nothing /\ inHand' = [inHand EXCEPT ![t] = "cancelled"]
      /\ future' = "CANCELLED"
      /\ UNCHANGED <<state, trail, queue, body>>
  BY DEF Cancel, MayCall, fxVars
<1>3. /\ \A a \in Own : \A s \in Threads : inHand'[s] = a <=> inHand[s] = a
      /\ inHand'[t] = "cancelled"
      /\ Runner \in Threads
  BY <1>1, <1>2 DEF TypeOK, Own, Outcome, Nothing
<1>4. \A a : InQueue(a)' <=> InQueue(a)
  BY <1>2 DEF InQueue
<1>5. HandInv'
  BY <1>1, <1>2, <1>3 DEF HandInv, Own, Outcome
<1>6. QueueInv'
  BY <1>1, <1>2 DEF QueueInv
<1>7. StateInv'
  BY <1>1, <1>2, <1>3, <1>4 DEF StateInv, RunningAhead, Own, Outcome
<1>8. FutureInv'
  BY <1>1, <1>2, <1>3 DEF FutureInv, Pending
<1>9. TrailInv'
  BY <1>1, <1>2 DEF TrailInv
<1> QED
  BY <1>5, <1>6, <1>7, <1>8, <1>9

\* run() begins, ends, and settles the future.
LEMMA RunnerKeepsInv ==
  ASSUME IInv, Run \/ CallReturns \/ CallThrows \/ Finish
  PROVE  HandInv' /\ QueueInv' /\ StateInv' /\ FutureInv' /\ TrailInv'
<1>1. TypeOK /\ HandInv /\ QueueInv /\ StateInv /\ FutureInv /\ TrailInv
  BY DEF IInv
<1>2. UNCHANGED <<state, trail, queue>>
  BY DEF Run, CallReturns, CallThrows, Finish, fxVars
<1>3. \A a : InQueue(a)' <=> InQueue(a)
  BY <1>2 DEF InQueue
<1>4. RunningAhead' <=> RunningAhead
  BY <1>2, <1>3 DEF RunningAhead
<1>5. inHand \in [Threads -> Runnables \cup {Nothing}] /\ Runner \in Threads
  BY <1>1 DEF TypeOK
<1>6. TrailInv'
  BY <1>1, <1>2 DEF TrailInv
<1>7. CASE Run
  <2>1. body = "ready" /\ UNCHANGED future
    BY <1>7 DEF Run
  <2>2. \A i \in 1..Len(queue) : queue[i] \notin Own
    BY <1>1, <2>1 DEF QueueInv, Own, Outcome, Begun
  <2>3. inHand[Runner] \notin Own /\ state \in Early /\ future \in {"NEW", "CANCELLED"}
    BY <1>1, <2>1 DEF HandInv, StateInv, FutureInv, TypeOK, Own, Outcome
  <2>4. CASE body' = "call" /\ inHand' = [inHand EXCEPT ![Runner] = "running"] /\ future = "NEW"
    <3>1. HandInv'
      BY <1>1, <1>2, <1>5, <2>2, <2>3, <2>4 DEF HandInv, Own, Outcome
    <3>2. QueueInv'
      BY <1>1, <1>2, <2>2 DEF QueueInv, Own, Outcome
    <3>3. StateInv'
      BY <1>1, <1>2, <1>5, <2>1, <2>3, <2>4 DEF StateInv, Early, Outcome
    <3>4. Pending("cancelled")' => Pending("cancelled")
      BY <1>3, <1>5, <2>4 DEF Pending
    <3>5. FutureInv'
      BY <1>1, <1>2, <2>1, <2>3, <2>4, <3>4 DEF FutureInv
    <3> QED
      BY <1>6, <3>1, <3>2, <3>3, <3>5
  <2>5. CASE body' = "skipped" /\ UNCHANGED inHand /\ future # "NEW"
    <3>1. HandInv' /\ QueueInv'
      BY <1>1, <1>2, <2>2, <2>3, <2>5 DEF HandInv, QueueInv, Own, Outcome
    <3>2. StateInv'
      BY <1>1, <1>2, <2>1, <2>3, <2>5 DEF StateInv, Early, Own, Outcome
    <3>3. \A a : Pending(a)' <=> Pending(a)
      BY <1>3, <2>5 DEF Pending
    <3>4. FutureInv'
      BY <1>1, <1>2, <2>1, <2>3, <2>5, <3>3 DEF FutureInv
    <3> QED
      BY <1>6, <3>1, <3>2, <3>4
  <2> QED
    BY <1>7, <2>4, <2>5 DEF Run
<1>8. CASE CallReturns \/ CallThrows
  <2>1. /\ body = "call" /\ inHand[Runner] = Nothing /\ UNCHANGED future
        /\ \/ body' = "set" /\ future = "CANCELLED" /\ UNCHANGED inHand
           \/ body' = "set" /\ inHand' = [inHand EXCEPT ![Runner] = "succeeded"]
           \/ body' = "setException" /\ inHand' = [inHand EXCEPT ![Runner] = "failed"]
    BY <1>8 DEF CallReturns, CallThrows, IsCancelled
  <2>2. \A i \in 1..Len(queue) : queue[i] \notin Outcome
    BY <1>1, <2>1 DEF QueueInv, Outcome
  <2>3. RunningAhead
    BY <1>1, <2>1 DEF StateInv, Nothing
  <2>4. HandInv'
    BY <1>1, <1>2, <1>5, <2>1, <2>2 DEF HandInv, Own, Outcome, Nothing
  <2>5. QueueInv'
    BY <1>1, <1>2, <2>1, <2>2 DEF QueueInv, Outcome, Begun
  <2>6. StateInv'
    BY <1>1, <1>2, <1>4, <2>1, <2>3 DEF StateInv
  <2>7. /\ Pending("cancelled")' <=> Pending("cancelled")
        /\ inHand' = [inHand EXCEPT ![Runner] = "succeeded"] => Pending("succeeded")'
        /\ inHand' = [inHand EXCEPT ![Runner] = "failed"] => Pending("failed")'
    BY <1>3, <1>5, <2>1 DEF Pending, Nothing
  <2>8. FutureInv'
    BY <1>1, <1>2, <2>1, <2>7 DEF FutureInv
  <2> QED
    BY <1>6, <2>4, <2>5, <2>6, <2>8
<1>9. CASE Finish
  <2>1. /\ UNCHANGED <<body, inHand>> /\ future = "NEW"
        /\ \/ body = "set" /\ future' = "NORMAL"
           \/ body = "setException" /\ future' = "EXCEPTIONAL"
    BY <1>9 DEF Finish
  <2>2. HandInv' /\ QueueInv'
    BY <1>1, <1>2, <2>1 DEF HandInv, QueueInv
  <2>3. StateInv'
    BY <1>1, <1>2, <1>4, <2>1 DEF StateInv
  <2>4. \A a : Pending(a)' <=> Pending(a)
    BY <1>3, <2>1 DEF Pending
  <2>5. FutureInv'
    BY <1>1, <1>2, <2>1, <2>4 DEF FutureInv
  <2> QED
    BY <1>6, <2>2, <2>3, <2>5
<1> QED
  BY <1>7, <1>8, <1>9
-----------------------------------------------------------------------------
(***************************************************************************)
(* The invariant holds in every reachable state.                           *)
(***************************************************************************)
LEMMA InvInit == Init => IInv
<1> SUFFICES ASSUME Init PROVE IInv
  OBVIOUS
<1>1. TypeOK
  BY InitTypes
<1>2. Len(queue) = 0 /\ trail = << >> /\ \A t \in Threads : inHand[t] = Nothing
  BY DEF Init
<1>3. \A a \in Own \cup {"cancelled"} : ~ Pending(a)
  BY <1>2 DEF Pending, InQueue, Own, Outcome, Nothing
<1>4. HandInv
  BY <1>2 DEF HandInv, Own, Outcome, Nothing
<1>5. QueueInv
  BY <1>2 DEF QueueInv
<1>6. StateInv
  BY <1>2 DEF Init, StateInv, Early, Outcome, Nothing
<1>7. FutureInv
  BY <1>3 DEF Init, FutureInv
<1>8. TrailInv
  BY <1>2 DEF Init, TrailInv, Ordered, Latest
<1> QED
  BY <1>1, <1>4, <1>5, <1>6, <1>7, <1>8 DEF IInv

LEMMA InvStep == IInv /\ [Next]_vars => IInv'
<1> SUFFICES ASSUME IInv, [Next]_vars PROVE IInv'
  OBVIOUS
<1>0. TypeOK'
  BY TypeStep DEF IInv
<1> DEFINE Rest == HandInv /\ QueueInv /\ StateInv /\ FutureInv /\ TrailInv
<1>1. ASSUME FxRun PROVE Rest'
  BY <1>1, FxRunEffect, FxRunKeepsHand, FxRunKeepsQueue, FxRunKeepsState, FxRunKeepsFuture
<1>2. ASSUME FxSchedule \/ FxCancel PROVE Rest'
  BY <1>2, FxCallKeepsInv
<1>3. ASSUME NEW c \in Channels, NEW v \in PayloadsOf(c), FxUpdate(c, v) PROVE Rest'
  <2>1. UNCHANGED <<state, trail, queue, future, body, inHand>>
    BY <1>3 DEF FxUpdate
  <2> QED
    BY <2>1, UpdateKeepsInv
<1>4. ASSUME NEW t \in Threads, RunLater(t) PROVE Rest'
  BY <1>4, RunLaterKeepsInv
<1>5. ASSUME NEW t \in Threads, Cancel(t) PROVE Rest'
  BY <1>5, CancelKeepsInv
<1>6. ASSUME NEW t \in Threads, NEW c \in Channels, NEW v \in PayloadsOf(c), Update(t, c, v)
      PROVE  Rest'
  <2>1. /\ UNCHANGED <<state, trail, queue, future, body>>
        /\ \/ UNCHANGED inHand
           \/ inHand[t] = Nothing /\ inHand' = [inHand EXCEPT ![t] = c]
    BY <1>6 DEF Update, MayCall, fxVars
  <2> QED
    BY <2>1, UpdateKeepsInv
<1>7. ASSUME Run \/ CallReturns \/ CallThrows \/ Finish PROVE Rest'
  BY <1>7, RunnerKeepsInv
<1>8. CASE UNCHANGED vars
  <2>1. UNCHANGED <<state, trail, queue, future, body, inHand>>
    BY <1>8 DEF vars
  <2> QED
    BY <1>0, <2>1, UpdateKeepsInv DEF IInv
<1>9. CASE Next
  BY <1>0, <1>1, <1>2, <1>3, <1>4, <1>5, <1>6, <1>7, <1>9 DEF Next, IInv
<1> QED
  BY <1>8, <1>9

LEMMA Invariance == Spec => []IInv
BY InvInit, InvStep, PTL DEF Spec
-----------------------------------------------------------------------------
(***************************************************************************)
(* However background threads, call(), cancel() and event handlers are     *)
(* interleaved, the states that setState() stores come in life cycle       *)
(* order, nothing follows CANCELLED, and CANCELLED follows an outcome only *)
(* if cancel() took the future before it was settled.                      *)
(***************************************************************************)
THEOREM TaskLifecycle == Spec => []LifecycleOrder
<1>1. ASSUME IInv, NEW i \in 1..Len(trail), trail[i] = "CANCELLED"
      PROVE  IsCancelled
  <2>1. trail \in Seq(States) /\ Len(trail) \in Nat
    BY <1>1 DEF IInv, TypeOK
  <2>2. ASSUME i # Len(trail)
        PROVE  FALSE
    <3>1. i + 1 \in 1..Len(trail) /\ i + 1 # 1 /\ (i + 1) - 1 = i
      BY <2>1, <2>2
    <3>2. <<"CANCELLED", trail[i + 1]>> \in Chain
      BY <1>1, <3>1 DEF IInv, TrailInv, Ordered
    <3> QED
      BY <3>2 DEF Chain, Follows, Overtaken, Terminal, States
  <2>3. state = "CANCELLED"
    BY <1>1, <2>1, <2>2 DEF IInv, TrailInv, Latest
  <2> QED
    BY <1>1, <2>3 DEF IInv, FutureInv, IsCancelled
<1>2. ASSUME IInv
      PROVE  LifecycleOrder
  <2> SUFFICES ASSUME NEW i \in 1..Len(trail)
               PROVE  LET move == <<IF i = 1 THEN "READY" ELSE trail[i - 1], trail[i]>>
                      IN  move \in Follows \/ (move \in Overtaken /\ IsCancelled)
    BY DEF LifecycleOrder
  <2>1. <<IF i = 1 THEN "READY" ELSE trail[i - 1], trail[i]>> \in Chain
    BY <1>2 DEF IInv, TrailInv, Ordered
  <2>2. CASE <<IF i = 1 THEN "READY" ELSE trail[i - 1], trail[i]>> \in Overtaken
    <3>1. trail[i] = "CANCELLED"
      BY <2>2 DEF Overtaken
    <3> QED
      BY <1>1, <1>2, <2>2, <3>1
  <2> QED
    BY <2>1, <2>2 DEF Chain
<1> QED
  BY <1>2, Invariance, PTL

(***************************************************************************)
(* When nothing is on its way to the FX thread, the state that is shown    *)
(* and the FutureTask, which every thread can settle, agree on how the     *)
(* task ended.                                                             *)
(***************************************************************************)
THEOREM TaskOutcomes == Spec => []OutcomesAgree
<1>1. IInv => OutcomesAgree
  <2> SUFFICES ASSUME IInv, Idle, body \in {"ready", "skipped"} \/ future # "NEW"
               PROVE  /\ state = "CANCELLED" <=> future = "CANCELLED"
                      /\ state = "SUCCEEDED" <=> future = "NORMAL"
                      /\ state = "FAILED"    <=> future = "EXCEPTIONAL"
    BY DEF OutcomesAgree
  <2>1. \A a \in Own \cup {"cancelled"} : ~ Pending(a)
    <3>1. Len(queue) = 0 /\ \A t \in Threads : inHand[t] = Nothing
      BY DEF Idle
    <3> QED
      BY <3>1 DEF Pending, InQueue, Own, Outcome, Nothing
  <2>2. TypeOK /\ StateInv /\ FutureInv
    BY DEF IInv
  <2>3. ~ Pending("cancelled") /\ ~ Pending("succeeded") /\ ~ Pending("failed")
    BY <2>1 DEF Own, Outcome
  <2> QED
    BY <2>2, <2>3 DEF TypeOK, StateInv, FutureInv, Early
<1> QED
  BY <1>1, Invariance, PTL

(***************************************************************************)
(* Task implements the safety part of TaskLife: hidden behind queue and    *)
(* hand-overs, each of its steps is one step of the contract or none.      *)
(***************************************************************************)
THEOREM TaskImplementsLife == Spec => Life!Init /\ [][Life!Next]_(Life!lifeVars)
<1>1. Init => Life!Init
  BY DEF Init, Life!Init
<1>2. IInv /\ [Next]_vars => [Life!Next]_(Life!lifeVars)
  <2> SUFFICES ASSUME IInv, [Next]_vars PROVE Life!Next \/ UNCHANGED <<state, future, body>>
    BY DEF Life!lifeVars
  <2>0. TypeOK /\ FutureInv
    BY DEF IInv
  <2>1. ASSUME FxRun PROVE Life!Next \/ UNCHANGED <<state, future, body>>
    <3>1. FxEffect(Head(queue)) /\ UNCHANGED body
      BY <2>1, FxRunEffect
    <3>2. \/ UNCHANGED <<state, future, body>>
          \/ Life!Cancel \/ Life!ShowCancelled \/ Life!ShowRunning \/ Life!ShowOutcome
      BY <3>1 DEF FxEffect, Begun, Life!Cancel, Life!ShowCancelled, Life!ShowRunning, Life!ShowOutcome
    <3> QED
      BY <3>2 DEF Life!Next
  <2>2. ASSUME FxSchedule PROVE Life!Next
    <3>1. <<"SCHEDULED">> \in Paths
      BY DEF Paths
    <3>2. state = "READY" /\ body = "ready" /\ SetState(<<"SCHEDULED">>) /\ UNCHANGED body
      BY <2>2 DEF FxSchedule
    <3>3. \/ state' = "SCHEDULED" /\ UNCHANGED future
          \/ future = "NEW" /\ state' = "CANCELLED" /\ future' = "CANCELLED"
      BY <3>1, <3>2, SetStateEffect
    <3> QED
      BY <3>2, <3>3 DEF Life!Next, Life!Schedule, Life!Cancel
  <2>3. ASSUME FxCancel PROVE Life!Next
    BY <2>3 DEF FxCancel, Life!Next, Life!Cancel
  <2>4. ASSUME NEW t \in Threads, Cancel(t) PROVE Life!Next
    BY <2>4 DEF Cancel, fxVars, Life!Next, Life!Cancel
  <2>5. ASSUME Run PROVE Life!Next
    BY <2>5 DEF Run, fxVars, Life!Next, Life!Begin
  <2>6. ASSUME CallReturns \/ CallThrows PROVE Life!Next
    BY <2>6 DEF CallReturns, CallThrows, fxVars, Life!Next, Life!End
  <2>7. ASSUME Finish PROVE Life!Next
    BY <2>7 DEF Finish, fxVars, Life!Next, Life!Settle
  <2>8. ASSUME \/ \E c \in Channels : \E v \in PayloadsOf(c) : FxUpdate(c, v)
               \/ \E t \in Threads : RunLater(t)
               \/ \E t \in Threads, c \in Channels : \E v \in PayloadsOf(c) : Update(t, c, v)
               \/ UNCHANGED vars
        PROVE  UNCHANGED <<state, future, body>>
    BY <2>8 DEF FxUpdate, RunLater, Update, vars, fxVars
  <2> QED
    BY <2>1, <2>2, <2>3, <2>4, <2>5, <2>6, <2>7, <2>8 DEF Next
<1> QED
  BY <1>1, <1>2, Invariance, PTL DEF Spec

-----------------------------------------------------------------------------
(***************************************************************************)
(* OneRunnablePerChannel, place by place: at most one runnable of a        *)
(* channel is queued or held, and there is one exactly when the slot is    *)
(* filled.                                                                 *)
(***************************************************************************)
Single(c) ==
  /\ \A i, j \in 1..Len(queue) : queue[i] = c /\ queue[j] = c => i = j
  /\ \A t, u \in Threads : inHand[t] = c /\ inHand[u] = c => t = u
  /\ \A t \in Threads : inHand[t] = c => ~ InQueue(c)

\* Runner holds an update only inside call().
RunnerInv == inHand[Runner] \in Channels => body = "call"

ChannelInv == \A c \in Channels : Single(c) /\ (slot[c] # NULL <=> Pending(c))

(***************************************************************************)
(* When only call() updates the value: its updates are queued before the   *)
(* runnable that stores the result, and once that has run none is left.    *)
(***************************************************************************)
ValueInv ==
  /\ \A t \in Threads : inHand[t] = "value" => t = Runner /\ body = "call"
  /\ \A i, j \in 1..Len(queue) : queue[i] = "succeeded" /\ queue[j] = "value" => j < i
  /\ state = "SUCCEEDED" => ~ InQueue("value") /\ shown["value"] = Result

OwnValue == Updaters["value"] \subseteq {Runner} /\ "value" \notin FxUpdates

\* A channel is updated on the FX thread or in the background, not both.
OneSide == \A c \in FxUpdates : Updaters[c] = {}

\* Then the slots of the channels of the FX thread stay empty.
FxSlots == \A c \in FxUpdates : slot[c] = NULL
-----------------------------------------------------------------------------
\* The set formulation of the property.
LEMMA ChannelSets == TypeOK /\ ChannelInv => OneRunnablePerChannel
<1> SUFFICES ASSUME TypeOK, ChannelInv, NEW c \in Channels
             PROVE  IF slot[c] = NULL
                    THEN Queued(c) = {} /\ Held(c) = {}
                    ELSE \/ Held(c) = {}   /\ \E i \in DOMAIN queue : Queued(c) = {i}
                         \/ Queued(c) = {} /\ \E t \in Threads : Held(c) = {t}
  BY DEF OneRunnablePerChannel
<1>1. DOMAIN queue = 1..Len(queue)
  BY DEF TypeOK
<1>2. Single(c) /\ (slot[c] # NULL <=> Pending(c))
  BY DEF ChannelInv
<1>3. CASE slot[c] = NULL
  BY <1>1, <1>2, <1>3 DEF Pending, InQueue, Queued, Held
<1>4. CASE slot[c] # NULL /\ InQueue(c)
  <2>1. PICK i \in 1..Len(queue) : queue[i] = c
    BY <1>4 DEF InQueue
  <2>2. Queued(c) = {i}
    BY <1>1, <1>2, <2>1 DEF Single, Queued
  <2>3. Held(c) = {}
    BY <1>2, <1>4 DEF Single, Held
  <2> QED
    BY <1>1, <1>4, <2>1, <2>2, <2>3
<1>5. CASE slot[c] # NULL /\ ~ InQueue(c)
  <2>1. PICK t \in Threads : inHand[t] = c
    BY <1>2, <1>5 DEF Pending
  <2>2. Held(c) = {t}
    BY <1>2, <2>1 DEF Single, Held
  <2>3. Queued(c) = {}
    BY <1>1, <1>5 DEF InQueue, Queued
  <2> QED
    BY <1>5, <2>1, <2>2, <2>3
<1> QED
  BY <1>3, <1>4, <1>5
-----------------------------------------------------------------------------
(***************************************************************************)
(* One runnable per channel, kind of step by kind of step.                 *)
(***************************************************************************)
LEMMA ChannelNames ==
  \A c \in Channels : /\ c \notin {"running", "succeeded", "failed", "cancelled", Nothing}
                      /\ c \in Runnables
BY TaskAssumption DEF Nothing, Runnables

\* Steps that leave the slots, the queue and the holders of updates alone.
LEMMA ChannelQuiet ==
  ASSUME ChannelInv, UNCHANGED <<slot, queue>>,
         \A t \in Threads, c \in Channels : inHand'[t] = c <=> inHand[t] = c
  PROVE  ChannelInv'
<1> SUFFICES ASSUME NEW c \in Channels
             PROVE  Single(c)' /\ (slot'[c] # NULL <=> Pending(c)')
  BY DEF ChannelInv
<1>1. Single(c) /\ (slot[c] # NULL <=> Pending(c))
  BY DEF ChannelInv
<1>2. InQueue(c)' <=> InQueue(c)
  BY DEF InQueue
<1>3. Single(c)'
  BY <1>1, <1>2 DEF Single
<1>4. Pending(c)' <=> Pending(c)
  BY <1>2 DEF Pending
<1> QED
  BY <1>1, <1>3, <1>4

\* A thread that held no update takes a runnable that is not one either.
LEMMA TakesOther ==
  ASSUME TypeOK, NEW t \in Threads, inHand[t] \notin Channels,
         NEW a \in {"running", "succeeded", "failed", "cancelled"},
         inHand' = [inHand EXCEPT ![t] = a]
  PROVE  \A u \in Threads, c \in Channels : inHand'[u] = c <=> inHand[u] = c
BY ChannelNames DEF TypeOK

LEMMA ChannelRunLater ==
  ASSUME TypeOK, ChannelInv, NEW t \in Threads, RunLater(t)
  PROVE  ChannelInv'
<1> DEFINE a == inHand[t]
<1>1. /\ a \in Runnables /\ queue' = Append(queue, a) /\ slot' = slot
      /\ inHand' = [inHand EXCEPT ![t] = Nothing]
  BY DEF RunLater, TypeOK
<1> SUFFICES ASSUME NEW c \in Channels
             PROVE  Single(c)' /\ (slot'[c] # NULL <=> Pending(c)')
  BY DEF ChannelInv
<1>2. Single(c) /\ (slot[c] # NULL <=> Pending(c))
  BY DEF ChannelInv
<1>3. c # Nothing /\ c \in Runnables
  BY ChannelNames
<1>4. \A u \in Threads : inHand'[u] = IF u = t THEN Nothing ELSE inHand[u]
  BY <1>1 DEF TypeOK
<1>5. InQueue(c)' <=> InQueue(c) \/ c = a
  BY <1>1, <1>3, AppendInQueue
<1>6. Pending(c)' <=> Pending(c)
  BY <1>3, <1>4, <1>5 DEF Pending
<1>7. Single(c)'
  <2>1. /\ Len(queue) \in Nat /\ Len(queue') = Len(queue) + 1
        /\ \A i \in 1..Len(queue) : queue'[i] = queue[i]
        /\ queue'[Len(queue) + 1] = a
    BY <1>1, AppendIndex
  <2>2. c = a => ~ InQueue(c)
    BY <1>2 DEF Single
  <2>3. ASSUME NEW i \in 1..Len(queue'), NEW j \in 1..Len(queue'), queue'[i] = c, queue'[j] = c
        PROVE  i = j
    <3>1. CASE c = a
      BY <2>1, <2>2, <2>3, <3>1 DEF InQueue
    <3>2. CASE c # a
      <4>1. i \in 1..Len(queue) /\ j \in 1..Len(queue) /\ queue[i] = c /\ queue[j] = c
        BY <2>1, <2>3, <3>2
      <4> QED
        BY <1>2, <4>1 DEF Single
    <3> QED
      BY <3>1, <3>2
  <2>4. \A u, v \in Threads : inHand'[u] = c /\ inHand'[v] = c => u = v
    BY <1>2, <1>3, <1>4 DEF Single
  <2>5. \A u \in Threads : inHand'[u] = c => ~ InQueue(c)'
    BY <1>2, <1>3, <1>4, <1>5 DEF Single
  <2> QED
    BY <2>3, <2>4, <2>5 DEF Single
<1> QED
  BY <1>1, <1>2, <1>6, <1>7

LEMMA ChannelUpdate ==
  ASSUME NULL \notin Payloads, TypeOK, ChannelInv,
         NEW t \in Threads, NEW d \in Channels, NEW v \in PayloadsOf(d), Update(t, d, v)
  PROVE  ChannelInv'
<1>1. /\ inHand[t] = Nothing /\ slot' = [slot EXCEPT ![d] = v] /\ queue' = queue
      /\ inHand' = IF slot[d] = NULL THEN [inHand EXCEPT ![t] = d] ELSE inHand
  BY DEF Update, MayCall
<1>2. v # NULL
  BY DEF PayloadsOf
<1> SUFFICES ASSUME NEW c \in Channels
             PROVE  Single(c)' /\ (slot'[c] # NULL <=> Pending(c)')
  BY DEF ChannelInv
<1>3. Single(c) /\ (slot[c] # NULL <=> Pending(c))
  BY DEF ChannelInv
<1>4. c # Nothing
  BY ChannelNames
<1>5. InQueue(c)' <=> InQueue(c)
  BY <1>1 DEF InQueue
<1>6. CASE c = d /\ slot[d] = NULL
  <2>1. \A u \in Threads : inHand'[u] = IF u = t THEN c ELSE inHand[u]
    BY <1>1, <1>6 DEF TypeOK
  <2>2. ~ InQueue(c) /\ \A u \in Threads : inHand[u] # c
    BY <1>3, <1>6 DEF Pending
  <2>3. Single(c)'
    BY <1>3, <1>5, <1>1, <2>1, <2>2 DEF Single
  <2>4. slot'[c] # NULL /\ Pending(c)'
    BY <1>1, <1>2, <1>6, <2>1 DEF Pending, TypeOK
  <2> QED
    BY <2>3, <2>4
<1>7. CASE c # d \/ slot[d] # NULL
  <2>1. \A u \in Threads : inHand'[u] = c <=> inHand[u] = c
    BY <1>1, <1>4, <1>7 DEF TypeOK
  <2>2. slot'[c] # NULL <=> slot[c] # NULL
    BY <1>1, <1>2, <1>7 DEF TypeOK
  <2>3. Single(c)'
    BY <1>1, <1>3, <1>5, <2>1 DEF Single
  <2>4. Pending(c)' <=> Pending(c)
    BY <1>5, <2>1 DEF Pending
  <2> QED
    BY <1>3, <2>2, <2>3, <2>4
<1> QED
  BY <1>6, <1>7

\* What the FX thread does to the slots: an update empties its own.
LEMMA FxRunSlots ==
  ASSUME TypeOK, FxRun
  PROVE  /\ queue # << >> /\ queue' = Tail(queue) /\ UNCHANGED <<body, inHand>>
         /\ \A c \in Channels :
              IF Head(queue) = c
              THEN slot'[c] = NULL /\ shown'[c] = slot[c] /\ latest'[c] = latest[c]
              ELSE /\ slot'[c] = slot[c]
                   /\ \/ shown'[c] = shown[c] /\ latest'[c] = latest[c]
                      \/ /\ c = "value" /\ Head(queue) = "succeeded"
                         /\ shown'[c] = Result /\ latest'[c] = Result
<1>1. queue # << >> /\ queue' = Tail(queue) /\ UNCHANGED <<body, inHand>>
  BY DEF FxRun
<1>2. CASE RunRunning \/ RunFailed \/ RunCancelled
  BY <1>1, <1>2, ChannelNames DEF RunRunning, RunFailed, RunCancelled
<1>3. CASE RunSucceeded
  BY <1>1, <1>3, ChannelNames DEF RunSucceeded, TypeOK
<1>4. ASSUME NEW d \in Channels, RunUpdate(d)
      PROVE  \A c \in Channels :
               IF Head(queue) = c
               THEN slot'[c] = NULL /\ shown'[c] = slot[c] /\ latest'[c] = latest[c]
               ELSE slot'[c] = slot[c] /\ shown'[c] = shown[c] /\ latest'[c] = latest[c]
  BY <1>4 DEF RunUpdate, TypeOK
<1> QED
  BY <1>1, <1>2, <1>3, <1>4 DEF FxRun

LEMMA ChannelFxRun ==
  ASSUME TypeOK, ChannelInv, FxRun
  PROVE  ChannelInv'
<1>1. queue # << >> /\ queue' = Tail(queue) /\ inHand' = inHand
  BY FxRunSlots
<1>2. /\ Len(queue) \in Nat \ {0} /\ Len(queue') = Len(queue) - 1
      /\ \A i \in 1..Len(queue') : queue'[i] = queue[i + 1]
      /\ queue[1] = Head(queue)
  BY <1>1, TailIndex
<1> SUFFICES ASSUME NEW c \in Channels
             PROVE  Single(c)' /\ (slot'[c] # NULL <=> Pending(c)')
  BY DEF ChannelInv
<1>3. Single(c) /\ (slot[c] # NULL <=> Pending(c))
  BY DEF ChannelInv
<1>4. /\ InQueue(c)' => InQueue(c)
      /\ c # Head(queue) /\ InQueue(c) => InQueue(c)'
  BY <1>1, ChannelNames, TailInQueue
<1>5. Single(c)'
  <2>1. ASSUME NEW i \in 1..Len(queue'), NEW j \in 1..Len(queue'), queue'[i] = c, queue'[j] = c
        PROVE  i = j
    <3>1. /\ i + 1 \in 1..Len(queue) /\ j + 1 \in 1..Len(queue)
          /\ queue[i + 1] = c /\ queue[j + 1] = c
      BY <1>2, <2>1
    <3>2. i + 1 = j + 1
      BY <1>3, <3>1 DEF Single
    <3> QED
      BY <3>2
  <2> QED
    BY <1>1, <1>3, <1>4, <2>1 DEF Single
<1>6. CASE Head(queue) = c
  <2>1. 1 \in 1..Len(queue) /\ queue[1] = c
    BY <1>2, <1>6
  <2>2. InQueue(c)
    BY <2>1 DEF InQueue
  <2>3. ~ InQueue(c)'
    <3>1. ASSUME NEW i \in 1..Len(queue'), queue'[i] = c PROVE FALSE
      <4>1. i + 1 \in 1..Len(queue) /\ queue[i + 1] = c
        BY <1>2, <3>1
      <4>2. i + 1 = 1
        BY <1>3, <2>1, <4>1 DEF Single
      <4> QED
        BY <4>2
    <3> QED
      BY <3>1 DEF InQueue
  <2>4. ~ Pending(c)'
    BY <1>1, <1>3, <2>2, <2>3 DEF Single, Pending
  <2>5. slot'[c] = NULL
    BY <1>6, FxRunSlots
  <2> QED
    BY <1>5, <2>4, <2>5
<1>7. CASE Head(queue) # c
  <2>1. Pending(c)' <=> Pending(c)
    BY <1>1, <1>4, <1>7 DEF Pending
  <2>2. slot'[c] = slot[c]
    BY <1>7, FxRunSlots
  <2> QED
    BY <1>3, <1>5, <2>1, <2>2
<1> QED
  BY <1>6, <1>7

LEMMA ChannelStep ==
  ASSUME NULL \notin Payloads, TypeOK, RunnerInv, ChannelInv, [Next]_vars
  PROVE  RunnerInv' /\ ChannelInv'
<1>0. Runner \in Threads /\ \A c \in Channels : c # Nothing
  BY TaskAssumption, ChannelNames
<1>1. CASE FxRun
  <2>1. RunnerInv'
    BY <1>1, FxRunSlots DEF RunnerInv
  <2> QED
    BY <1>1, <2>1, ChannelFxRun
<1>2. ASSUME NEW t \in Threads, RunLater(t) PROVE RunnerInv' /\ ChannelInv'
  <2>1. RunnerInv'
    BY <1>0, <1>2 DEF RunnerInv, RunLater, TypeOK
  <2> QED
    BY <1>2, <2>1, ChannelRunLater
<1>3. ASSUME NEW t \in Threads, NEW c \in Channels, NEW v \in PayloadsOf(c), Update(t, c, v)
      PROVE  RunnerInv' /\ ChannelInv'
  <2>1. RunnerInv'
    BY <1>0, <1>3 DEF RunnerInv, Update, MayCall, TypeOK
  <2> QED
    BY <1>3, <2>1, ChannelUpdate
<1>4. ASSUME UNCHANGED <<slot, queue>>, NEW t \in Threads, inHand[t] \notin Channels,
             NEW a \in {"running", "succeeded", "failed", "cancelled"},
             inHand' = [inHand EXCEPT ![t] = a], t = Runner \/ body' = body
      PROVE  RunnerInv' /\ ChannelInv'
  <2>1. ChannelInv'
    BY <1>4, TakesOther, ChannelQuiet
  <2>2. RunnerInv'
    BY <1>0, <1>4, ChannelNames DEF RunnerInv, TypeOK
  <2> QED
    BY <2>1, <2>2
<1>5. ASSUME UNCHANGED <<slot, queue, inHand>>, inHand[Runner] \in Channels => body' = body
      PROVE  RunnerInv' /\ ChannelInv'
  BY <1>5, ChannelQuiet DEF RunnerInv
<1>6. ASSUME NEW t \in Threads, Cancel(t) PROVE RunnerInv' /\ ChannelInv'
  <2>1. /\ UNCHANGED <<slot, queue, body>> /\ inHand[t] = Nothing
        /\ inHand' = [inHand EXCEPT ![t] = "cancelled"]
    BY <1>6 DEF Cancel, MayCall
  <2> QED
    BY <1>0, <1>4, <2>1
<1>7. CASE Run
  <2>1. UNCHANGED <<slot, queue>> /\ inHand[Runner] \notin Channels
    BY <1>7 DEF Run, RunnerInv
  <2>2. inHand' = inHand \/ inHand' = [inHand EXCEPT ![Runner] = "running"]
    BY <1>7 DEF Run
  <2> QED
    BY <1>0, <1>4, <1>5, <2>1, <2>2
<1>8. CASE CallReturns \/ CallThrows
  <2>1. UNCHANGED <<slot, queue>> /\ inHand[Runner] = Nothing
    BY <1>8 DEF CallReturns, CallThrows
  <2>2. \/ inHand' = inHand
        \/ \E a \in {"succeeded", "failed"} : inHand' = [inHand EXCEPT ![Runner] = a]
    BY <1>8 DEF CallReturns, CallThrows
  <2> QED
    BY <1>0, <1>4, <1>5, <2>1, <2>2
<1>9. CASE \/ Finish \/ FxSchedule \/ FxCancel \/ UNCHANGED vars
           \/ \E c \in Channels : \E v \in PayloadsOf(c) : FxUpdate(c, v)
  <2>1. UNCHANGED <<slot, queue, inHand, body>>
    BY <1>9 DEF Finish, FxSchedule, FxCancel, FxUpdate, vars, fxVars
  <2> QED
    BY <1>5, <2>1
<1> QED
  BY <1>1, <1>2, <1>3, <1>6, <1>7, <1>8, <1>9 DEF Next

LEMMA ChannelInit == Init => RunnerInv /\ ChannelInv
<1> SUFFICES ASSUME Init PROVE RunnerInv /\ ChannelInv
  OBVIOUS
<1>1. Len(queue) = 0 /\ \A t \in Threads : inHand[t] = Nothing
  BY DEF Init
<1>2. \A c \in Channels : slot[c] = NULL
  BY DEF Init
<1>3. RunnerInv
  BY <1>1, TaskAssumption, ChannelNames DEF RunnerInv
<1>4. \A c \in Channels : ~ Pending(c) /\ Single(c)
  BY <1>1, ChannelNames DEF Pending, InQueue, Single
<1> QED
  BY <1>2, <1>3, <1>4 DEF ChannelInv

(***************************************************************************)
(* Provided update*() is not given null, a filled slot has exactly one     *)
(* runnable on its way and an empty slot none, however many threads call   *)
(* updateProgress, updateMessage, updateTitle and updateValue at once: the *)
(* two getAndSet, in the caller and in the runnable, decide it together.   *)
(***************************************************************************)
THEOREM TaskOneRunnable ==
  ASSUME NULL \notin Payloads
  PROVE  Spec => []OneRunnablePerChannel
<1> DEFINE Inv == TypeOK /\ RunnerInv /\ ChannelInv
<1>1. Init => Inv
  BY InitTypes, ChannelInit
<1>2. Inv /\ [Next]_vars => Inv'
  BY TypeStep, ChannelStep
<1>3. Inv => OneRunnablePerChannel
  BY ChannelSets
<1> QED
  BY <1>1, <1>2, <1>3, PTL DEF Spec
-----------------------------------------------------------------------------
(***************************************************************************)
(* The result.                                                             *)
(***************************************************************************)
LEMMA ValueNames == "value" \in Channels /\ "value" \in Runnables /\ "succeeded" \in Runnables
BY TaskAssumption DEF Runnables

\* When the runnable that stores the result runs, no update is on its way.
LEMMA ResultIsLast ==
  ASSUME IInv, ChannelInv, ValueInv, queue # << >>, Head(queue) = "succeeded"
  PROVE  slot["value"] = NULL /\ ~ InQueue("value")
<1>1. /\ Len(queue) \in Nat \ {0} /\ queue[1] = Head(queue) /\ body = "set"
  BY HeadFacts DEF IInv, TypeOK
<1>2. ~ InQueue("value")
  <2>1. ASSUME NEW j \in 1..Len(queue), queue[j] = "value" PROVE FALSE
    <3>1. 1 \in 1..Len(queue) /\ queue[1] = "succeeded"
      BY <1>1
    <3>2. j < 1
      BY <2>1, <3>1 DEF ValueInv
    <3> QED
      BY <1>1, <2>1, <3>2
  <2> QED
    BY <2>1 DEF InQueue
<1>3. ~ Pending("value")
  BY <1>1, <1>2 DEF Pending, ValueInv
<1> QED
  BY <1>2, <1>3, ValueNames DEF ChannelInv

LEMMA ValueFxRun ==
  ASSUME IInv, ChannelInv, ValueInv, FxRun
  PROVE  ValueInv'
<1>1. queue # << >> /\ queue' = Tail(queue) /\ UNCHANGED <<body, inHand>> /\ TypeOK
  BY FxRunSlots DEF IInv
<1>2. /\ Len(queue) \in Nat \ {0} /\ Len(queue') = Len(queue) - 1
      /\ \A i \in 1..Len(queue') : queue'[i] = queue[i + 1]
      /\ queue[1] = Head(queue)
  BY <1>1, TailIndex
<1>3. InQueue("value")' => InQueue("value")
  BY <1>1, ValueNames, TailInQueue
<1>4. ASSUME NEW i \in 1..Len(queue'), NEW j \in 1..Len(queue'),
             queue'[i] = "succeeded", queue'[j] = "value"
      PROVE  j < i
  <2>1. /\ i + 1 \in 1..Len(queue) /\ j + 1 \in 1..Len(queue)
        /\ queue[i + 1] = "succeeded" /\ queue[j + 1] = "value"
    BY <1>2, <1>4
  <2>2. j + 1 < i + 1
    BY <2>1 DEF ValueInv
  <2> QED
    BY <1>2, <2>2
<1>5. ASSUME state' = "SUCCEEDED" PROVE ~ InQueue("value")' /\ shown'["value"] = Result
  <2>1. CASE Head(queue) = "succeeded"
    <3>1. ~ InQueue("value") /\ Head(queue) # "value"
      BY <1>1, <2>1, ResultIsLast
    <3>2. RunSucceeded
      BY <2>1, ChannelNames DEF FxRun, RunRunning, RunFailed, RunCancelled, RunUpdate
    <3>3. shown'["value"] = Result
      BY <1>1, <3>2, ValueNames DEF RunSucceeded, TypeOK
    <3> QED
      BY <1>3, <3>1, <3>3
  <2>2. CASE Head(queue) # "succeeded"
    <3>1. state = "SUCCEEDED"
      BY <1>5, <2>2, FxRunEffect DEF FxEffect
    <3>2. ~ InQueue("value") /\ shown["value"] = Result
      BY <3>1 DEF ValueInv
    <3>3. Head(queue) # "value"
      BY <1>2, <3>2 DEF InQueue
    <3>4. shown'["value"] = Result
      BY <1>1, <2>2, <3>2, <3>3, FxRunSlots, ValueNames
    <3> QED
      BY <1>3, <3>2, <3>4
  <2> QED
    BY <2>1, <2>2
<1> QED
  BY <1>1, <1>4, <1>5 DEF ValueInv

\* A thread hands its runnable over: an update of call() is queued before
\* call() returns, hence before the result.
LEMMA ValueRunLater ==
  ASSUME IInv, ChannelInv, ValueInv, NEW t \in Threads, RunLater(t)
  PROVE  ValueInv'
<1> DEFINE a == inHand[t]
<1>1. /\ a \in Runnables /\ queue' = Append(queue, a)
      /\ inHand' = [inHand EXCEPT ![t] = Nothing]
      /\ UNCHANGED <<state, shown, body>> /\ TypeOK
  BY DEF RunLater, IInv, TypeOK, fxVars
<1>2. /\ Len(queue) \in Nat /\ Len(queue') = Len(queue) + 1
      /\ \A i \in 1..Len(queue) : queue'[i] = queue[i]
      /\ queue'[Len(queue) + 1] = a
  BY <1>1, AppendIndex
<1>3. \A u \in Threads : inHand'[u] = "value" => inHand[u] = "value"
  BY <1>1 DEF TypeOK, Nothing
<1>4. a = "value" => body = "call" /\ state # "SUCCEEDED"
  BY DEF ValueInv, IInv, StateInv
<1>5. ASSUME NEW i \in 1..Len(queue'), NEW j \in 1..Len(queue'),
             queue'[i] = "succeeded", queue'[j] = "value"
      PROVE  j < i
  <2>1. CASE j = Len(queue) + 1
    <3>1. a = "value" /\ body = "call"
      BY <1>2, <1>4, <1>5, <2>1
    <3>2. i \in 1..Len(queue) /\ queue[i] = "succeeded"
      BY <1>2, <1>5, <3>1
    <3> QED
      BY <3>1, <3>2 DEF IInv, QueueInv
  <2>2. CASE j # Len(queue) + 1
    <3>1. j \in 1..Len(queue) /\ queue[j] = "value"
      BY <1>2, <1>5, <2>2
    <3>2. CASE i = Len(queue) + 1
      BY <1>2, <3>1, <3>2
    <3>3. CASE i # Len(queue) + 1
      <4>1. i \in 1..Len(queue) /\ queue[i] = "succeeded"
        BY <1>2, <1>5, <3>3
      <4> QED
        BY <3>1, <4>1 DEF ValueInv
    <3> QED
      BY <3>2, <3>3
  <2> QED
    BY <2>1, <2>2
<1>6. InQueue("value")' => InQueue("value") \/ a = "value"
  BY <1>1, ValueNames, AppendInQueue
<1> QED
  BY <1>1, <1>3, <1>4, <1>5, <1>6 DEF ValueInv

LEMMA ValueQuiet ==
  ASSUME ValueInv, UNCHANGED queue,
         state' = "SUCCEEDED" => state = "SUCCEEDED" /\ shown'["value"] = shown["value"],
         \A t \in Threads : inHand'[t] = "value" =>
           \/ inHand[t] = "value" /\ body' = body
           \/ t = Runner /\ body' = "call"
  PROVE  ValueInv'
<1>1. InQueue("value")' <=> InQueue("value")
  BY DEF InQueue
<1> QED
  BY <1>1 DEF ValueInv

LEMMA ValueStep ==
  ASSUME OwnValue, IInv, ChannelInv, ValueInv, [Next]_vars
  PROVE  ValueInv'
<1>0. /\ Runner \in Threads /\ "value" \in Channels /\ TypeOK
      /\ "value" \notin {"running", "succeeded", "failed", "cancelled", Nothing}
  BY TaskAssumption DEF IInv, Nothing
<1>1. CASE FxRun
  BY <1>1, ValueFxRun
<1>2. ASSUME NEW t \in Threads, RunLater(t) PROVE ValueInv'
  BY <1>2, ValueRunLater
<1>3. ASSUME NEW t \in Threads, NEW c \in Channels, NEW v \in PayloadsOf(c), Update(t, c, v)
      PROVE  ValueInv'
  <2>1. UNCHANGED <<queue, state, shown, body>>
    BY <1>3 DEF Update, fxVars
  <2>2. c = "value" => t = Runner /\ body = "call"
    BY <1>3 DEF Update, OwnValue, MayCall
  <2>3. \A u \in Threads : inHand'[u] = "value" => inHand[u] = "value" \/ (u = t /\ c = "value")
    BY <1>0, <1>3 DEF Update, TypeOK
  <2> QED
    BY <2>1, <2>2, <2>3, ValueQuiet
<1>4. ASSUME NEW t \in Threads, Cancel(t) PROVE ValueInv'
  <2>1. UNCHANGED <<queue, state, shown, body>>
    BY <1>4 DEF Cancel, fxVars
  <2>2. \A u \in Threads : inHand'[u] = "value" => inHand[u] = "value"
    BY <1>0, <1>4 DEF Cancel, TypeOK
  <2> QED
    BY <2>1, <2>2, ValueQuiet
<1>5. CASE Run
  <2>1. UNCHANGED <<queue, state, shown>> /\ body = "ready"
    BY <1>5 DEF Run, fxVars
  <2>2. \A u \in Threads : inHand[u] # "value"
    BY <2>1 DEF ValueInv
  <2>3. \A u \in Threads : inHand'[u] # "value"
    BY <1>0, <1>5, <2>2 DEF Run, TypeOK
  <2> QED
    BY <2>1, <2>3, ValueQuiet
<1>6. CASE CallReturns \/ CallThrows
  <2>1. UNCHANGED <<queue, state, shown>> /\ inHand[Runner] = Nothing
    BY <1>6 DEF CallReturns, CallThrows, fxVars
  <2>2. \A u \in Threads : inHand[u] # "value"
    BY <1>0, <2>1 DEF ValueInv
  <2>3. \A u \in Threads : inHand'[u] # "value"
    BY <1>0, <1>6, <2>2 DEF CallReturns, CallThrows, TypeOK
  <2> QED
    BY <2>1, <2>3, ValueQuiet
<1>7. CASE FxSchedule \/ FxCancel
  <2>1. UNCHANGED <<queue, shown, inHand, body>>
    BY <1>7 DEF FxSchedule, FxCancel
  <2>2. state' # "SUCCEEDED"
    <3>1. CASE FxCancel
      BY <3>1 DEF FxCancel
    <3>2. CASE FxSchedule
      BY <3>2 DEF FxSchedule, SetState
    <3> QED
      BY <1>7, <3>1, <3>2
  <2> QED
    BY <2>1, <2>2, ValueQuiet
<1>8. CASE Finish \/ UNCHANGED vars
  <2>1. UNCHANGED <<queue, state, shown, inHand, body>>
    BY <1>8 DEF Finish, vars, fxVars
  <2> QED
    BY <2>1, ValueQuiet
<1>9. ASSUME NEW c \in Channels, NEW v \in PayloadsOf(c), FxUpdate(c, v) PROVE ValueInv'
  <2>1. UNCHANGED <<queue, state, inHand, body>> /\ shown'["value"] = shown["value"]
    BY <1>0, <1>9 DEF FxUpdate, OwnValue, TypeOK
  <2> QED
    BY <2>1, ValueQuiet
<1> QED
  BY <1>1, <1>2, <1>3, <1>4, <1>5, <1>6, <1>7, <1>8, <1>9 DEF Next

LEMMA ValueInit == Init => ValueInv
BY DEF Init, ValueInv, InQueue, Nothing

\* Once SUCCEEDED is shown nobody is left to fill the slot of the value.
LEMMA SucceededInv == IInv /\ ChannelInv /\ ValueInv => SucceededHasResult
<1> SUFFICES ASSUME IInv, ChannelInv, ValueInv, state = "SUCCEEDED"
             PROVE  shown["value"] = Result /\ slot["value"] = NULL
  BY DEF SucceededHasResult
<1>1. shown["value"] = Result /\ ~ InQueue("value")
  BY DEF ValueInv
<1>2. body = "set"
  BY DEF IInv, StateInv
<1>3. ~ Pending("value")
  BY <1>1, <1>2 DEF Pending, ValueInv
<1> QED
  BY <1>1, <1>3, ValueNames DEF ChannelInv

\* The last payload stays where it can be found.
LEMMA LatestStep ==
  ASSUME NULL \notin Payloads, IInv, ChannelInv, ValueInv, FxSlots, NoLostUpdate, [Next]_vars
  PROVE  NoLostUpdate'
<1>0. TypeOK
  BY DEF IInv
<1>1. CASE FxRun
  <2> SUFFICES ASSUME NEW c \in Channels
               PROVE  latest'[c] = IF slot'[c] = NULL THEN shown'[c] ELSE slot'[c]
    BY DEF NoLostUpdate
  <2>1. latest[c] = IF slot[c] = NULL THEN shown[c] ELSE slot[c]
    BY DEF NoLostUpdate
  <2>2. queue # << >>
    BY <1>1 DEF FxRun
  <2>3. CASE Head(queue) = c
    <3>1. 1 \in 1..Len(queue) /\ queue[1] = c
      BY <1>0, <1>1, <2>2, <2>3 DEF TypeOK
    <3>2. slot[c] # NULL
      BY <3>1 DEF ChannelInv, Pending, InQueue
    <3> QED
      BY <1>0, <1>1, <2>1, <2>3, <3>2, FxRunSlots
  <2>4. CASE Head(queue) # c
    <3>1. c = "value" /\ Head(queue) = "succeeded" => slot[c] = NULL
      BY <2>2, ResultIsLast
    <3> QED
      BY <1>0, <1>1, <2>1, <2>4, <3>1, FxRunSlots
  <2> QED
    BY <2>3, <2>4
<1>2. ASSUME NEW t \in Threads, NEW d \in Channels, NEW v \in PayloadsOf(d), Update(t, d, v)
      PROVE  NoLostUpdate'
  <2>1. /\ slot' = [slot EXCEPT ![d] = v] /\ latest' = [latest EXCEPT ![d] = v]
        /\ shown' = shown
    BY <1>2 DEF Update, fxVars
  <2>2. v # NULL
    BY DEF PayloadsOf
  <2> QED
    BY <1>0, <2>1, <2>2 DEF TypeOK, NoLostUpdate
<1>3. ASSUME NEW d \in Channels, NEW v \in PayloadsOf(d), FxUpdate(d, v) PROVE NoLostUpdate'
  <2>1. /\ shown' = [shown EXCEPT ![d] = v] /\ latest' = [latest EXCEPT ![d] = v]
        /\ slot' = slot /\ slot[d] = NULL
    BY <1>3 DEF FxUpdate, FxSlots
  <2> QED
    BY <1>0, <2>1 DEF TypeOK, NoLostUpdate
<1>4. CASE UNCHANGED <<slot, latest, shown>>
  BY <1>4 DEF NoLostUpdate
<1>5. ASSUME \/ FxSchedule \/ FxCancel \/ Run \/ CallReturns \/ CallThrows \/ Finish
             \/ UNCHANGED vars \/ \E t \in Threads : RunLater(t) \/ Cancel(t)
      PROVE  UNCHANGED <<slot, latest, shown>>
  BY <1>5 DEF FxSchedule, FxCancel, Run, CallReturns, CallThrows, Finish, RunLater, Cancel,
              vars, fxVars
<1> QED
  BY <1>1, <1>2, <1>3, <1>4, <1>5 DEF Next

\* Nobody fills the slot of a channel that only the FX thread updates.
LEMMA FxSlotsStep ==
  ASSUME OneSide, IInv, FxSlots, [Next]_vars
  PROVE  FxSlots'
<1>0. TypeOK /\ FxUpdates \subseteq Channels
  BY TaskAssumption DEF IInv
<1>1. CASE FxRun
  BY <1>0, <1>1, FxRunSlots DEF FxSlots
<1>2. ASSUME NEW t \in Threads, NEW d \in Channels, NEW v \in PayloadsOf(d), Update(t, d, v)
      PROVE  FxSlots'
  <2>1. slot' = [slot EXCEPT ![d] = v] /\ d \notin FxUpdates
    BY <1>2 DEF Update, OneSide
  <2> QED
    BY <1>0, <2>1 DEF TypeOK, FxSlots
<1>3. ASSUME \/ FxSchedule \/ FxCancel \/ Run \/ CallReturns \/ CallThrows \/ Finish
             \/ UNCHANGED vars \/ \E t \in Threads : RunLater(t) \/ Cancel(t)
             \/ \E c \in Channels : \E v \in PayloadsOf(c) : FxUpdate(c, v)
      PROVE  FxSlots'
  <2>1. slot' = slot
    BY <1>3 DEF FxSchedule, FxCancel, FxUpdate, Run, CallReturns, CallThrows, Finish, RunLater,
                Cancel, vars, fxVars
  <2> QED
    BY <2>1 DEF FxSlots
<1> QED
  BY <1>1, <1>2, <1>3 DEF Next

LEMMA ValueInvariance ==
  ASSUME NULL \notin Payloads, OwnValue
  PROVE  Spec => [](IInv /\ RunnerInv /\ ChannelInv /\ ValueInv)
<1> DEFINE Inv == IInv /\ RunnerInv /\ ChannelInv /\ ValueInv
<1>1. Init => Inv
  BY InvInit, ChannelInit, ValueInit
<1>2. Inv /\ [Next]_vars => Inv'
  <2>1. IInv => TypeOK
    BY DEF IInv
  <2> QED
    BY <2>1, InvStep, ChannelStep, ValueStep
<1> QED
  BY <1>1, <1>2, PTL DEF Spec

(***************************************************************************)
(* When only call() updates the value, and never with null, SUCCEEDED is   *)
(* shown with the result of call() in the value property and nothing left  *)
(* in its slot: the runnable of succeeded, which writes the value without  *)
(* going through the slot, cannot be overtaken by an earlier updateValue.  *)
(***************************************************************************)
THEOREM TaskSucceededHasResult ==
  ASSUME NULL \notin Payloads, OwnValue
  PROVE  Spec => []SucceededHasResult
BY ValueInvariance, SucceededInv, PTL

(***************************************************************************)
(* If moreover no property is updated on both sides, coalescing loses no   *)
(* last update: the payload of the last update*() call of any thread, or   *)
(* the result after it, is shown or lies in the slot, where                *)
(* TaskOneRunnable finds its runnable.                                     *)
(***************************************************************************)
THEOREM TaskNoLostUpdate ==
  ASSUME NULL \notin Payloads, OwnValue, OneSide
  PROVE  Spec => []NoLostUpdate
<1> DEFINE Inv == IInv /\ ChannelInv /\ ValueInv
           Kept == FxSlots /\ NoLostUpdate
<1>1. Init => Kept
  BY TaskAssumption DEF Init, FxSlots, NoLostUpdate
<1>2. Inv /\ Kept /\ [Next]_vars => Kept'
  BY FxSlotsStep, LatestStep
<1>3. Spec => []Inv
  BY ValueInvariance, PTL
<1> QED
  BY <1>1, <1>2, <1>3, PTL DEF Spec
=============================================================================
