---------------------------- MODULE ServiceProofs ----------------------------
(***************************************************************************)
(* The safety and action properties of Service, for any number of tasks    *)
(* and any depth of nested calls, from one inductive invariant.            *)
(*                                                                         *)
(* The frames of the FX thread are counted from the bottom of its stack,   *)
(* so that a frame keeps its height while calls above it come and go: most *)
(* lemmas say what a step does to the frames from some height on.          *)
(***************************************************************************)
EXTENDS Service, SequenceTheorems, TLAPS

\* The operation of the frame at height j, and its task.
Frames == Labels \X (0..MaxTasks \cup {1})
Op(j)  == stack[Len(stack) - j][1]
Arg(j) == stack[Len(stack) - j][2]

Heights  == 0..(Len(stack) - 1)
Busy     == 0 \in Heights
Outcomes == {"SUCCEEDED", "FAILED"}
Reports  == {"RUNNING", "CANCELLED"} \cup Outcomes

\* What a frame has below it.  Only handlers, what they call and the end of
\* cancel() are found at any height.
FrameAt(j) ==
  /\ Op(j) \in {"restart", "start", "execute", "detach"} \cup Reports => j = 0
  /\ Op(j) = "schedule" => j = 1 /\ Op(0) = "execute"
  /\ Op(j) = "SCHEDULED" =>
       j = 1 /\ ((Op(0) = "execute" /\ Arg(1) = task) \/ (Op(0) = "RUNNING" /\ Arg(1) = Arg(0)))
  /\ Op(j) = "reset" =>
       (j = 0 /\ Arg(j) = None) \/ (j = 1 /\ Arg(j) = 1 /\ Op(0) = "start")
  /\ Op(j) = "unbind" => j = 0 \/ (j = 1 /\ Op(0) = "start")
  /\ Op(j) = "active" => j = 0 \/ (j = 1 /\ Op(0) \in {"execute", "RUNNING"})
  /\ Op(j) # "READY"
  /\ Op(j) \in States \cup {"active", "inactive"} => Arg(j) \in Tasks

FrameInv == \A j \in Heights : FrameAt(j)

\* The field task and the binding of the state change together; the other
\* properties follow, at the latest when a reset() under way is over.
Resetting(j) == Op(j) = "unbind" \/ (Op(j) = "reset" /\ Arg(j) = 1)

FieldInv ==
  /\ own \in {"READY", "CANCELLED"}
  /\ task = bound
  /\ others # bound => \E j \in Heights : Resetting(j)
  /\ \A j \in Heights : Resetting(j) => task = None

\* The task being started, and the one restart() gives up.
Second(op) == 1 \in Heights /\ Op(1) = op
Announcing == Second("schedule")

StartInv ==
  /\ lambda =>
       /\ Busy => Op(0) \notin {"start", "restart", "execute", "detach"}
       /\ task # None => tstate[task] \in {"READY", "CANCELLED"} /\ task \notin handed
  /\ Busy /\ Op(0) = "execute" =>
       /\ task # None => task \notin handed
       /\ Announcing => task = None \/ tstate[task] \in {"READY", "CANCELLED"}
       /\ ~ Announcing => /\ task # None
                          /\ tstate[task] = "READY" => Second("SCHEDULED")
  /\ Busy /\ Op(0) = "detach" => task # None /\ future[task] # "NEW"

\* A task's state, its computation and its future.
StateOf(k) ==
  /\ tstate[k] = "RUNNING" => body[k] \notin {"ready", "skipped"}
  /\ tstate[k] = "SUCCEEDED" => body[k] = "set"
  /\ tstate[k] = "FAILED" => body[k] = "setException"
  /\ tstate[k] = "CANCELLED" => future[k] = "CANCELLED"
  /\ k \in handed => tstate[k] # "READY"
  /\ k \notin handed => body[k] = "ready"
  /\ k > created => tstate[k] = "READY" /\ future[k] = "NEW" /\ ~ running[k] /\ k \notin handed

StateInv == task <= created /\ \A k \in Tasks : StateOf(k)

\* An abandoned task is cancelled.
AloneInv ==
  \A k \in handed : body[k] \in {"ready", "call"} /\ future[k] = "NEW" => k = task

\* State s, which is about to be shown, is right for task k.
Due(k, s) ==
  /\ s = "RUNNING" => body[k] \notin {"ready", "skipped"} /\ tstate[k] \in {"SCHEDULED", "CANCELLED"}
  /\ s = "SUCCEEDED" => body[k] = "set"
  /\ s = "FAILED" => body[k] = "setException"
  /\ s \in Outcomes => tstate[k] \notin Outcomes
  /\ s = "CANCELLED" => future[k] = "CANCELLED"

\* The runnables of a task: RUNNING first, one outcome at most.
PostedRight(k) ==
  /\ body[k] \in {"ready", "skipped"} => posted[k] = << >>
  /\ \A i \in 1..Len(posted[k]) :
       /\ posted[k][i] \in Reports
       /\ posted[k][i] = "RUNNING" => i = 1
       /\ Due(k, posted[k][i])
  /\ \A i, j \in 1..Len(posted[k]) :
       posted[k][i] \in Outcomes /\ posted[k][j] \in Outcomes => i = j

\* RUNNING has been shown, or will be before the outcome is.
StartPosted(k) == posted[k] # << >> /\ posted[k][1] = "RUNNING"
StartShown(k) ==
  body[k] \notin {"ready", "skipped"} =>
    \/ tstate[k] \in Reports
    \/ StartPosted(k)
    \/ Busy /\ Op(0) = "RUNNING" /\ Arg(0) = k

PostInv == \A k \in Tasks : PostedRight(k) /\ StartShown(k)

\* The runnable being executed.
DueInv ==
  Busy /\ Op(0) \in Reports =>
    /\ Due(Arg(0), Op(0))
    /\ Op(0) = "RUNNING" => ~ StartPosted(Arg(0))
    /\ Op(0) \in Outcomes =>
         /\ tstate[Arg(0)] \in {"RUNNING", "CANCELLED"}
         /\ \A i \in 1..Len(posted[Arg(0)]) : posted[Arg(0)][i] \notin Outcomes

\* running agrees with the state, or a frame that will store it is left.
Mark(s) == IF s \in Active THEN "active" ELSE "inactive"

RunningOf(k) ==
  tstate[k] # "CANCELLED" =>
    /\ \/ running[k] <=> tstate[k] \in Active
       \/ \E j \in Heights : Op(j) = Mark(tstate[k]) /\ Arg(j) = k
    /\ \A j \in Heights : Op(j) \in {"active", "inactive"} /\ Arg(j) = k => Op(j) = Mark(tstate[k])

RunningInv == \A k \in Tasks : RunningOf(k)

\* The inductive invariant.
ServiceInv == /\ TypeOK /\ FrameInv /\ FieldInv /\ StartInv /\ StateInv /\ AloneInv
              /\ PostInv /\ DueInv /\ RunningInv /\ RestartResets

\* Handlers call cancel() only; a first start() under way off the FX thread
\* is not overtaken by another start.
Cautious == HandlerCalls \subseteq {"cancel"} /\ WhileStarting \subseteq {"cancel", "reset"}

\* The frames below height h stay.
Keeps(h) ==
  /\ stack' \in Seq(Frames)
  /\ \A j \in 0..(h - 1) : Op(j)' = Op(j) /\ Arg(j)' = Arg(j)

\* The frame on top, by its height.
LEMMA TopFrame ==
  ASSUME stack \in Seq(Frames), NEW op, At(op)
  PROVE  \E h \in Nat : /\ Len(stack) = h + 1
                        /\ Op(h) = op
                        /\ Head(stack) = <<op, Arg(h)>>
                        /\ Head(stack)[2] = Arg(h)
<1>1. Len(stack) \in Nat /\ Len(stack) # 0 /\ stack[1] \in Frames /\ Head(stack) = stack[1]
  BY DEF At
<1>2. PICK h \in Nat : Len(stack) = h + 1
  BY <1>1
<1>3. Len(stack) - h = 1
  BY <1>2
<1>4. stack[1] = <<stack[1][1], stack[1][2]>>
  BY <1>1 DEF Frames
<1> QED
  BY <1>1, <1>2, <1>3, <1>4 DEF Op, Arg, At

\* A frame is left.
LEMMA Pop ==
  ASSUME stack \in Seq(Frames), NEW h \in Nat, Len(stack) = h + 1, stack' = Tail(stack)
  PROVE  Keeps(h) /\ Len(stack') = h
<1>1. stack' \in Seq(Frames) /\ Len(stack') = h /\ \A i \in 1..h : stack'[i] = stack[i + 1]
  OBVIOUS
<1>2. ASSUME NEW j \in 0..(h - 1)
      PROVE  Op(j)' = Op(j) /\ Arg(j)' = Arg(j)
  <2>1. h - j \in 1..h /\ (h - j) + 1 = Len(stack) - j
    OBVIOUS
  <2>2. stack'[h - j] = stack[Len(stack) - j]
    BY <1>1, <2>1
  <2> QED
    BY <1>1, <2>2 DEF Op, Arg
<1> QED
  BY <1>1, <1>2 DEF Keeps

\* The frame on top gives way to the frames p.
LEMMA Push ==
  ASSUME stack \in Seq(Frames), NEW h \in Nat, Len(stack) = h + 1,
         NEW p \in Seq(Frames), stack' = p \o Tail(stack)
  PROVE  /\ Keeps(h)
         /\ Len(stack') = h + Len(p)
         /\ \A i \in 1..Len(p) : Op(h + Len(p) - i)' = p[i][1] /\ Arg(h + Len(p) - i)' = p[i][2]
<1> DEFINE t == Tail(stack)
<1>1. t \in Seq(Frames) /\ Len(t) = h /\ \A i \in 1..h : t[i] = stack[i + 1]
  OBVIOUS
<1>2. PICK n \in Nat : n = Len(p)
  OBVIOUS
<1>3. stack' \in Seq(Frames) /\ Len(stack') = n + h
  BY <1>1, <1>2
<1>4. \A i \in 1..n : stack'[i] = p[i]
  BY <1>1, <1>2
<1>5. \A i \in 1..h : stack'[n + i] = stack[i + 1]
  BY <1>1, <1>2
<1>6. ASSUME NEW j \in 0..(h - 1)
      PROVE  Op(j)' = Op(j) /\ Arg(j)' = Arg(j)
  <2>1. h - j \in 1..h /\ (h - j) + 1 = Len(stack) - j /\ n + (h - j) = (n + h) - j
    BY <1>2
  <2>2. stack'[(n + h) - j] = stack[Len(stack) - j]
    BY <1>5, <2>1
  <2> QED
    BY <1>3, <2>2 DEF Op, Arg
<1>7. ASSUME NEW i \in 1..n
      PROVE  Op(h + n - i)' = p[i][1] /\ Arg(h + n - i)' = p[i][2]
  <2>1. (n + h) - (h + n - i) = i
    BY <1>2
  <2> QED
    BY <1>3, <1>4, <2>1 DEF Op, Arg
<1> QED
  BY <1>2, <1>3, <1>6, <1>7 DEF Keeps

\* The frame at height h gives way to <<a, k>>, and perhaps a handler above it.
Replaced(h, a, k) ==
  /\ Keeps(h)
  /\ Len(stack') \in {h + 1, h + 2}
  /\ Op(h)' = a /\ Arg(h)' = k
  /\ Len(stack') = h + 2 => Op(h + 1)' = "handler" /\ Arg(h + 1)' = None

\* A frame is an operation and a task, None, or the mark of the reset() in restart().
LEMMA FrameTypes == \A a \in Labels, k \in 0..MaxTasks \cup {1} : <<a, k>> \in Frames
BY DEF Frames

\* The frame of an event handler.
LEMMA HandlerFrame == Frame("handler") = <<"handler", 0>> /\ Frame("handler") \in Frames
BY ServiceAssumption DEF Frames, Frame, None, Labels

\* The frame on top gives way to another, under the handler that was notified.
LEMMA Replace ==
  ASSUME stack \in Seq(Frames), NEW h \in Nat, Len(stack) = h + 1,
         NEW a \in Labels, NEW k \in 0..MaxTasks \cup {1},
         NEW p \in {<< >>, <<Frame("handler")>>},
         stack' = p \o << <<a, k>> >> \o Rest
  PROVE  Replaced(h, a, k)
<1>1. <<a, k>> \in Frames
  BY FrameTypes
<1>2. CASE p = << >>
  <2>1. stack' = << <<a, k>> >> \o Tail(stack)
    BY <1>1, <1>2 DEF Rest
  <2> DEFINE q == << <<a, k>> >>
  <2>2. q \in Seq(Frames) /\ Len(q) = 1 /\ q[1][1] = a /\ q[1][2] = k
    BY <1>1
  <2>3. stack' = q \o Tail(stack)
    BY <2>1
  <2> HIDE DEF q
  <2>4. Keeps(h) /\ Len(stack') = h + Len(q)
        /\ \A i \in 1..Len(q) : Op(h + Len(q) - i)' = q[i][1] /\ Arg(h + Len(q) - i)' = q[i][2]
    BY <2>2, <2>3, Push
  <2>5. Op(h + 1 - 1)' = q[1][1] /\ Arg(h + 1 - 1)' = q[1][2]
    BY <2>2, <2>4
  <2>6. h + 1 - 1 = h
    OBVIOUS
  <2> QED
    BY <2>2, <2>4, <2>5, <2>6 DEF Replaced
<1>3. CASE p = <<Frame("handler")>>
  <2> DEFINE q == << <<"handler", 0>>, <<a, k>> >>
  <2>1. stack' = q \o Tail(stack)
    BY <1>1, <1>3, HandlerFrame DEF Rest
  <2>2. /\ q \in Seq(Frames) /\ Len(q) = 2 /\ q[2][1] = a /\ q[2][2] = k
        /\ q[1][1] = "handler" /\ q[1][2] = 0
    <3>1. <<"handler", 0>> \in Frames
      BY HandlerFrame
    <3> QED
      BY <1>1, <3>1
  <2> HIDE DEF q
  <2>4. Keeps(h) /\ Len(stack') = h + Len(q)
        /\ \A i \in 1..Len(q) : Op(h + Len(q) - i)' = q[i][1] /\ Arg(h + Len(q) - i)' = q[i][2]
    BY <2>1, <2>2, Push
  <2>5. /\ Op(h + 2 - 1)' = q[1][1] /\ Arg(h + 2 - 1)' = q[1][2]
        /\ Op(h + 2 - 2)' = q[2][1] /\ Arg(h + 2 - 2)' = q[2][2]
    BY <2>2, <2>4
  <2>6. h + 2 - 2 = h /\ h + 2 - 1 = h + 1
    OBVIOUS
  <2> QED
    BY <2>2, <2>4, <2>5, <2>6 DEF Replaced, None
<1> QED
  BY <1>2, <1>3

\* A call begins or ends on an empty stack.
LEMMA Whole ==
  ASSUME NEW n \in Nat, NEW q \in Seq(Frames), Len(q) = n, stack' = q
  PROVE  /\ stack' \in Seq(Frames)
         /\ Len(stack') = n
         /\ \A j \in 0..(n - 1) : Op(j)' = q[n - j][1] /\ Arg(j)' = q[n - j][2]
BY DEF Op, Arg

\* Notify pushes a handler or nothing.
LEMMA NotifyFrames ==
  ASSUME NEW old, NEW new
  PROVE  Notify(old, new) \in {<< >>, <<Frame("handler")>>}
BY DEF Notify

-----------------------------------------------------------------------------
(***************************************************************************)
(* Frames of a class S which a step leaves as they are.                    *)
(***************************************************************************)
SameFrames(S) ==
  /\ \A j \in Heights : Op(j) \in S => j \in Heights' /\ Op(j)' = Op(j) /\ Arg(j)' = Arg(j)
  /\ \A j \in Heights' : Op(j)' \in S => j \in Heights /\ Op(j)' = Op(j) /\ Arg(j)' = Arg(j)

\* A class of frames is kept if neither the old nor the new frames on top are of it.
LEMMA AboveSame ==
  ASSUME stack \in Seq(Frames), NEW h \in Nat, Len(stack) = h + 1, Keeps(h),
         Len(stack') >= h, NEW S, Op(h) \notin S,
         \A j \in h..(Len(stack') - 1) : Op(j)' \notin S
  PROVE  SameFrames(S)
<1>1. PICK m \in Nat : Len(stack') = m /\ m >= h
  BY DEF Keeps
<1>2. Heights = 0..h /\ Heights' = 0..(m - 1)
  BY <1>1 DEF Heights
<1>3. \A j \in 0..(h - 1) : Op(j)' = Op(j) /\ Arg(j)' = Arg(j)
  BY DEF Keeps
<1>4. ASSUME NEW j \in 0..h, Op(j) \in S
      PROVE  j \in 0..(m - 1) /\ Op(j)' = Op(j) /\ Arg(j)' = Arg(j)
  <2>1. j # h
    BY <1>4
  <2>2. j \in 0..(h - 1) /\ j \in 0..(m - 1)
    BY <1>1, <2>1
  <2> QED
    BY <1>3, <2>2
<1>5. ASSUME NEW j \in 0..(m - 1), Op(j)' \in S
      PROVE  j \in 0..h /\ Op(j)' = Op(j) /\ Arg(j)' = Arg(j)
  <2>1. ~ (j \in h..(m - 1))
    BY <1>1, <1>5
  <2>2. j \in 0..(h - 1) /\ j \in 0..h
    BY <1>1, <2>1
  <2> QED
    BY <1>3, <2>2
<1> QED
  BY <1>2, <1>4, <1>5 DEF SameFrames

\* What is kept of a class is kept of a smaller one.
LEMMA SameSub ==
  ASSUME NEW S, NEW T, T \subseteq S, SameFrames(S)
  PROVE  SameFrames(T)
BY DEF SameFrames

\* A stack that does not change keeps all its frames.
LEMMA Unmoved ==
  ASSUME stack' = stack, NEW S
  PROVE  SameFrames(S)
<1>1. Heights' = Heights
  BY DEF Heights
<1>2. \A j : Op(j)' = Op(j) /\ Arg(j)' = Arg(j)
  BY DEF Op, Arg
<1> QED
  BY <1>1, <1>2 DEF SameFrames

-----------------------------------------------------------------------------
(***************************************************************************)
(* What the parts of the invariant depend on.                              *)
(***************************************************************************)
Marks == {"active", "inactive"}

\* AloneInv and StateInv do not depend on the stack.
LEMMA KeepTasks ==
  ASSUME StateInv, AloneInv, UNCHANGED <<task, created, handed, taskVars>>
  PROVE  StateInv' /\ AloneInv'
<1> USE DEF taskVars
<1>1. StateInv'
  BY DEF StateInv, StateOf
<1>2. AloneInv'
  BY DEF AloneInv
<1> QED
  BY <1>1, <1>2

\* StartShown and DueInv depend on the frame of a runnable being executed.
LEMMA KeepShown ==
  ASSUME \A k \in Tasks : StartShown(k), DueInv,
         UNCHANGED <<tstate, future, body, posted>>, SameFrames(Reports)
  PROVE  (\A k \in Tasks : StartShown(k)') /\ DueInv'
<1>1. Busy /\ Op(0) \in Reports => Busy' /\ Op(0)' = Op(0) /\ Arg(0)' = Arg(0)
  BY DEF SameFrames, Busy
<1>2. Busy' /\ Op(0)' \in Reports => Busy /\ Op(0)' = Op(0) /\ Arg(0)' = Arg(0)
  BY DEF SameFrames, Busy
<1>3. "RUNNING" \in Reports
  BY DEF Reports
<1>4. \A k : StartPosted(k)' <=> StartPosted(k)
  BY DEF StartPosted
<1>5. ASSUME NEW k \in Tasks
      PROVE  StartShown(k)'
  BY <1>1, <1>3, <1>4 DEF StartShown
<1>6. DueInv'
  BY <1>2, <1>4 DEF DueInv, Due
<1> QED
  BY <1>5, <1>6

\* RunningInv depends on the frames that will store running.
LEMMA KeepRunning ==
  ASSUME RunningInv, UNCHANGED <<tstate, running>>, SameFrames(Marks)
  PROVE  RunningInv'
<1>1. \A s : Mark(s) \in Marks
  BY DEF Mark, Marks
<1> SUFFICES ASSUME NEW k \in Tasks, tstate[k] # "CANCELLED"
             PROVE  /\ \/ running[k] <=> tstate[k] \in Active
                       \/ \E j \in Heights' : Op(j)' = Mark(tstate[k]) /\ Arg(j)' = k
                    /\ \A j \in Heights' : Op(j)' \in {"active", "inactive"} /\ Arg(j)' = k
                                             => Op(j)' = Mark(tstate[k])
  BY DEF RunningInv, RunningOf, Mark
<1>2. /\ \/ running[k] <=> tstate[k] \in Active
         \/ \E j \in Heights : Op(j) = Mark(tstate[k]) /\ Arg(j) = k
      /\ \A j \in Heights : Op(j) \in Marks /\ Arg(j) = k => Op(j) = Mark(tstate[k])
  BY DEF RunningInv, RunningOf, Marks
<1>3. ASSUME NEW j \in Heights, Op(j) = Mark(tstate[k]), Arg(j) = k
      PROVE  \E i \in Heights' : Op(i)' = Mark(tstate[k]) /\ Arg(i)' = k
  BY <1>1, <1>3 DEF SameFrames
<1>4. ASSUME NEW j \in Heights', Op(j)' \in Marks, Arg(j)' = k
      PROVE  Op(j)' = Mark(tstate[k])
  BY <1>2, <1>4 DEF SameFrames
<1> QED
  BY <1>2, <1>3, <1>4 DEF Marks

\* FieldInv depends on the frames of a reset().
LEMMA KeepFields ==
  ASSUME FieldInv, own' \in {"READY", "CANCELLED"}, UNCHANGED <<bound, others, task>>,
         SameFrames({"unbind", "reset"})
  PROVE  FieldInv'
<1>1. ASSUME NEW j \in Heights, Resetting(j)
      PROVE  j \in Heights' /\ Resetting(j)'
  BY <1>1 DEF SameFrames, Resetting
<1>2. ASSUME NEW j \in Heights', Resetting(j)'
      PROVE  j \in Heights /\ Resetting(j)
  BY <1>2 DEF SameFrames, Resetting
<1> QED
  BY <1>1, <1>2 DEF FieldInv

Opening == {"start", "restart", "execute", "detach", "schedule", "SCHEDULED"}

\* StartInv depends on the two lowest frames.
LEMMA KeepStart ==
  ASSUME StartInv, UNCHANGED <<lambda, task, tstate, handed, future>>, SameFrames(Opening)
  PROVE  StartInv'
<1>1. \A op \in Opening : (Busy' /\ Op(0)' = op) <=> (Busy /\ Op(0) = op)
  BY DEF SameFrames, Busy
<1>2. \A op \in Opening : Second(op)' <=> Second(op)
  BY DEF SameFrames, Second
<1>3. {"start", "restart", "execute", "detach", "schedule", "SCHEDULED"} = Opening
  BY DEF Opening
<1>4. Announcing' <=> Announcing
  BY <1>2, <1>3 DEF Announcing
<1> QED
  BY <1>1, <1>2, <1>3, <1>4 DEF StartInv

\* So the parts about runnables and running depend on two classes of frames.
LEMMA KeepPosts ==
  ASSUME ServiceInv, UNCHANGED <<tstate, running, future, body, posted>>,
         SameFrames(Reports), SameFrames(Marks)
  PROVE  PostInv' /\ DueInv' /\ RunningInv'
<1>1. \A k \in Tasks : PostedRight(k)'
  BY DEF ServiceInv, PostInv, PostedRight, Due
<1>2. (\A k \in Tasks : StartShown(k)') /\ DueInv'
  BY KeepShown DEF ServiceInv, PostInv
<1>3. RunningInv'
  BY KeepRunning DEF ServiceInv
<1> QED
  BY <1>1, <1>2, <1>3 DEF PostInv, Tasks

\* A step that touches no task, nor these frames, keeps the parts about tasks.
LEMMA KeepRest ==
  ASSUME ServiceInv, UNCHANGED <<task, created, handed, taskVars>>,
         SameFrames(Reports), SameFrames(Marks)
  PROVE  StateInv' /\ AloneInv' /\ PostInv' /\ DueInv' /\ RunningInv'
<1>1. UNCHANGED <<tstate, running, future, body, posted>>
  BY DEF taskVars
<1>2. StateInv' /\ AloneInv'
  BY KeepTasks DEF ServiceInv
<1>3. PostInv' /\ DueInv' /\ RunningInv'
  BY <1>1, KeepPosts
<1> QED
  BY <1>2, <1>3

\* Frames that stay have the same frames below them.
LEMMA KeepFrames ==
  ASSUME FrameInv, stack \in Seq(Frames), NEW h \in Nat, Len(stack) = h + 1, Keeps(h),
         task' = task \/ h <= 1
  PROVE  \A j \in 0..(h - 1) : FrameAt(j)'
<1> SUFFICES ASSUME NEW j \in 0..(h - 1)
             PROVE  FrameAt(j)'
  OBVIOUS
<1>1. j \in Heights /\ 0 \in 0..(h - 1) /\ (j = 1 => 1 \in 0..(h - 1)) /\ (h <= 1 => j = 0)
  BY DEF Heights
<1>2. FrameAt(j)
  BY <1>1 DEF FrameInv
<1>3. Op(j)' = Op(j) /\ Arg(j)' = Arg(j) /\ Op(0)' = Op(0) /\ Arg(0)' = Arg(0)
      /\ (j = 1 => Arg(1)' = Arg(1))
  BY <1>1 DEF Keeps
<1> QED
  BY <1>1, <1>2, <1>3 DEF FrameAt

\* FrameInv, from the frames that are new.
LEMMA NewFrames ==
  ASSUME FrameInv, stack \in Seq(Frames), NEW h \in Nat, Len(stack) = h + 1, Keeps(h),
         task' = task \/ h <= 1,
         \A j \in h..(Len(stack') - 1) : FrameAt(j)'
  PROVE  FrameInv'
<1>1. \A j \in 0..(h - 1) : FrameAt(j)'
  BY KeepFrames
<1>2. PICK m \in Nat : m = Len(stack')
  BY DEF Keeps
<1>3. ASSUME NEW j \in 0..(m - 1)
      PROVE  FrameAt(j)'
  <2>1. j \in 0..(h - 1) \/ j \in h..(m - 1)
    BY <1>2
  <2> QED
    BY <1>1, <1>2, <2>1
<1>4. Heights' = 0..(m - 1)
  BY <1>2 DEF Heights
<1> QED
  BY <1>3, <1>4 DEF FrameInv

\* Handlers, and what they call.
Passing == {"handler", "return", "cancel"}

\* Handlers and cancel() may stand anywhere.
LEMMA PassingFrame ==
  ASSUME NEW j, Op(j)' \in Passing
  PROVE  FrameAt(j)'
BY DEF FrameAt, Passing, Reports, Outcomes, States

\* They belong to no class that matters to the invariant.
LEMMA PassingClasses ==
  \A op \in Passing : op \notin Reports /\ op \notin Marks /\ op \notin {"unbind", "reset"}
                      /\ op \notin Opening
BY DEF Passing, Reports, Outcomes, Marks, Opening

\* What a step keeps that changes the stack, and perhaps the Service's own
\* state, only.
Aside == UNCHANGED <<bound, others, task, startedOnce, created, lambda, thrown, handed, taskVars>>

\* TypeOK, if only the stack and the own state change.
LEMMA TypeAside ==
  ASSUME TypeOK, Aside, own' \in States, stack' \in Seq(Frames)
  PROVE  TypeOK'
BY DEF TypeOK, Aside, taskVars, Frames

\* Pushing or leaving a handler or a cancel() keeps the invariant.
LEMMA Transparent ==
  ASSUME ServiceInv, NEW h \in Nat, Len(stack) = h + 1, Op(h) \in Passing,
         Keeps(h), Len(stack') >= h, \A j \in h..(Len(stack') - 1) : Op(j)' \in Passing,
         Aside, own' \in {"READY", "CANCELLED"}
  PROVE  ServiceInv'
<1>1. stack \in Seq(Frames) /\ stack' \in Seq(Frames)
  BY DEF ServiceInv, TypeOK, Frames, Keeps
<1>2. TypeOK'
  BY <1>1, TypeAside DEF ServiceInv, States
<1>3. FrameInv'
  <2>1. \A j \in h..(Len(stack') - 1) : FrameAt(j)'
    BY PassingFrame
  <2> QED
    BY <1>1, <2>1, NewFrames DEF ServiceInv, Aside
<1>4. SameFrames(Reports) /\ SameFrames(Marks) /\ SameFrames({"unbind", "reset"})
      /\ SameFrames(Opening)
  BY <1>1, PassingClasses, AboveSame
<1>5. UNCHANGED <<bound, others, task, created, lambda, thrown, handed>>
      /\ UNCHANGED <<tstate, running, future, body, posted>>
      /\ UNCHANGED taskVars
  BY DEF Aside, taskVars
<1>6. FieldInv'
  BY <1>4, <1>5, KeepFields DEF ServiceInv
<1>7. StartInv'
  BY <1>4, <1>5, KeepStart DEF ServiceInv
<1>8. StateInv' /\ AloneInv' /\ PostInv' /\ DueInv' /\ RunningInv'
  BY <1>4, <1>5, KeepRest
<1>9. RestartResets'
  BY <1>5 DEF ServiceInv, RestartResets
<1> QED
  BY <1>2, <1>3, <1>6, <1>7, <1>8, <1>9 DEF ServiceInv

-----------------------------------------------------------------------------
(***************************************************************************)
(* Steps that change the stack and little else.                            *)
(***************************************************************************)
\* The types that the invariant gives.
LEMMA InvTypes ==
  ASSUME ServiceInv
  PROVE  /\ stack \in Seq(Frames)
         /\ task \in 0..MaxTasks /\ created \in 0..MaxTasks
         /\ own \in {"READY", "CANCELLED"} /\ own \in States
         /\ bound = task
BY DEF ServiceInv, TypeOK, Frames, FieldInv

\* The frame on top, with what the invariant says of it.
LEMMA OnTop ==
  ASSUME ServiceInv, NEW op, At(op)
  PROVE  \E h \in Nat : /\ Len(stack) = h + 1
                        /\ Heights = 0..h /\ h \in Heights
                        /\ Op(h) = op
                        /\ Head(stack) = <<op, Arg(h)>> /\ Head(stack)[2] = Arg(h)
                        /\ FrameAt(h)
<1>1. stack \in Seq(Frames)
  BY InvTypes
<1>2. PICK h \in Nat : /\ Len(stack) = h + 1
                       /\ Op(h) = op
                       /\ Head(stack) = <<op, Arg(h)>>
                       /\ Head(stack)[2] = Arg(h)
  BY <1>1, TopFrame
<1>3. Heights = 0..h /\ h \in Heights
  BY <1>2 DEF Heights
<1>4. FrameAt(h)
  BY <1>3 DEF ServiceInv, FrameInv
<1> QED
  BY <1>2, <1>3, <1>4

\* An event handler returns.
LEMMA HandlerReturnStep ==
  ASSUME ServiceInv, HandlerReturn
  PROVE  ServiceInv'
<1>1. PICK op \in {"handler", "return"} : At(op)
  BY DEF HandlerReturn
<1>2. PICK h \in Nat : Len(stack) = h + 1 /\ Op(h) = op
  BY <1>1, OnTop
<1>3. Keeps(h) /\ Len(stack') = h
  BY <1>2, InvTypes, Pop DEF HandlerReturn, Rest
<1>4. Aside /\ own' \in {"READY", "CANCELLED"}
  BY InvTypes DEF Aside, HandlerReturn, svcVars
<1>5. Op(h) \in Passing
  BY <1>2 DEF Passing
<1>6. Len(stack') >= h /\ \A j \in h..(Len(stack') - 1) : Op(j)' \in Passing
  BY <1>3
<1> QED
  BY <1>2, <1>3, <1>4, <1>5, <1>6, Transparent

\* An event handler calls cancel().
LEMMA HandlerCallStep ==
  ASSUME ServiceInv, HandlerCall("cancel")
  PROVE  ServiceInv'
<1>1. PICK h \in Nat : Len(stack) = h + 1 /\ Op(h) = "handler"
  BY OnTop DEF HandlerCall
<1> DEFINE q == << <<"cancel", 0>>, <<"return", 0>> >>
<1>2. stack' = q \o Tail(stack)
  BY DEF HandlerCall, Rest, Frame, None
<1>3. /\ q \in Seq(Frames) /\ Len(q) = 2
      /\ q[1][1] = "cancel" /\ q[2][1] = "return"
  <2>1. <<"cancel", 0>> \in Frames /\ <<"return", 0>> \in Frames
    BY ServiceAssumption DEF Frames, Labels, Operations
  <2> QED
    BY <2>1
<1> HIDE DEF q
<1>4. /\ Keeps(h) /\ Len(stack') = h + 2
      /\ \A i \in 1..2 : Op(h + 2 - i)' = q[i][1]
  <2>1. stack \in Seq(Frames)
    BY InvTypes
  <2>2. /\ Keeps(h) /\ Len(stack') = h + Len(q)
        /\ \A i \in 1..Len(q) : Op(h + Len(q) - i)' = q[i][1]
    BY <1>1, <1>2, <1>3, <2>1, Push
  <2> QED
    BY <1>3, <2>2
<1>5. Op(h + 1)' = "cancel" /\ Op(h)' = "return"
  <2>1. h + 2 - 1 = h + 1 /\ h + 2 - 2 = h
    OBVIOUS
  <2>2. Op(h + 2 - 1)' = "cancel" /\ Op(h + 2 - 2)' = "return"
    BY <1>3, <1>4
  <2> QED
    BY <2>1, <2>2
<1>6. Aside /\ own' \in {"READY", "CANCELLED"}
  BY InvTypes DEF Aside, HandlerCall, svcVars
<1>7. \A j \in h..(h + 1) : j = h \/ j = h + 1
  OBVIOUS
<1>8. \A j \in h..(Len(stack') - 1) : Op(j)' \in Passing
  BY <1>4, <1>5, <1>7 DEF Passing
<1>9. Op(h) \in Passing /\ Len(stack') >= h
  BY <1>1, <1>4 DEF Passing
<1> QED
  BY <1>1, <1>4, <1>6, <1>8, <1>9, Transparent

\* A call or a runnable begins on the idle FX thread.
LEMMA Idle ==
  ASSUME Quiet
  PROVE  Heights = {} /\ ~ Busy
BY DEF Quiet, Heights, Busy

\* On an idle FX thread there are no frames to keep.
LEMMA IdleSame ==
  ASSUME Quiet, NEW S, \A j \in Heights' : Op(j)' \notin S
  PROVE  SameFrames(S)
BY Idle DEF SameFrames

\* The application calls the Service on the FX thread.
LEMMA FxCallStep ==
  ASSUME ServiceInv, WhileStarting \subseteq {"cancel", "reset"},
         NEW op \in FxCalls, FxCall(op)
  PROVE  ServiceInv'
<1>1. op \in Operations
  BY ServiceAssumption
<1> DEFINE q == << <<op, 0>> >>
<1>2. q \in Seq(Frames) /\ Len(q) = 1 /\ q[1][1] = op /\ q[1][2] = 0
  <2>1. <<op, 0>> \in Frames
    BY <1>1, ServiceAssumption DEF Frames, Labels
  <2> QED
    BY <2>1
<1>3. stack' = q
  BY DEF FxCall, Frame, None
<1> HIDE DEF q
<1>4. stack' \in Seq(Frames) /\ Len(stack') = 1 /\ Op(0)' = op /\ Arg(0)' = 0
  <2>1. \A j \in 0..0 : Op(j)' = q[1 - j][1] /\ Arg(j)' = q[1 - j][2]
    BY <1>2, <1>3, Whole
  <2> QED
    BY <1>2, <1>3, <2>1
<1>5. Heights' = {0} /\ Busy'
  BY <1>4 DEF Heights, Busy
<1>6. Quiet /\ Heights = {} /\ ~ Busy
  BY Idle DEF FxCall
<1>7. Aside /\ own' = own /\ (lambda => op \in {"cancel", "reset"})
  BY DEF Aside, FxCall, svcVars
<1>8. TypeOK'
  BY <1>4, <1>7, InvTypes, TypeAside DEF ServiceInv
<1>9. UNCHANGED <<bound, others, task, created, lambda, thrown, handed>>
      /\ UNCHANGED <<tstate, running, future, body, posted>>
      /\ UNCHANGED taskVars
  BY <1>7 DEF Aside, taskVars
<1>10. op \notin Reports /\ op \notin Marks
  BY <1>1 DEF Operations, Reports, Outcomes, Marks
<1>11. SameFrames(Reports) /\ SameFrames(Marks)
  BY <1>4, <1>5, <1>6, <1>10, IdleSame
<1>12. StateInv' /\ AloneInv' /\ PostInv' /\ DueInv' /\ RunningInv'
  BY <1>9, <1>11, KeepRest
<1>13. FrameAt(0)'
  BY <1>1, <1>4 DEF FrameAt, Operations, Reports, Outcomes, States, None
<1>14. FrameInv'
  BY <1>5, <1>13 DEF FrameInv
<1>15. FieldInv'
  <2>1. ~ Resetting(0)'
    BY <1>1, <1>4 DEF Resetting, Operations
  <2> QED
    BY <1>5, <1>6, <1>7, <1>9, <2>1 DEF FieldInv, ServiceInv
<1>16. StartInv'
  <2>1. op # "execute" /\ op # "detach"
    BY <1>1 DEF Operations
  <2>2. lambda => op \notin {"start", "restart", "execute", "detach"}
    BY <1>7
  <2> QED
    BY <1>4, <1>5, <1>9, <2>1, <2>2 DEF StartInv, ServiceInv
<1>17. RestartResets'
  BY <1>9 DEF ServiceInv, RestartResets
<1> QED
  BY <1>8, <1>12, <1>14, <1>15, <1>16, <1>17 DEF ServiceInv

\* A stack of one frame.
LEMMA OneFrame ==
  ASSUME NEW a \in Labels, NEW k \in 0..MaxTasks \cup {1}, stack' = << <<a, k>> >>
  PROVE  /\ stack' \in Seq(Frames) /\ Len(stack') = 1 /\ Heights' = {0} /\ Busy'
         /\ Op(0)' = a /\ Arg(0)' = k
<1> DEFINE q == << <<a, k>> >>
<1>1. q \in Seq(Frames) /\ Len(q) = 1 /\ q[1][1] = a /\ q[1][2] = k
  BY FrameTypes
<1>2. stack' = q
  OBVIOUS
<1> HIDE DEF q
<1>3. \A j \in 0..0 : Op(j)' = q[1 - j][1] /\ Arg(j)' = q[1 - j][2]
  BY <1>1, <1>2, Whole
<1>4. Op(0)' = a /\ Arg(0)' = k
  BY <1>1, <1>3
<1>5. stack' \in Seq(Frames) /\ Len(stack') = 1
  BY <1>1, <1>2
<1>6. Heights' = {0} /\ Busy'
  BY <1>5 DEF Heights, Busy
<1> QED
  BY <1>4, <1>5, <1>6

\* A stack of two frames.
LEMMA TwoFrames ==
  ASSUME NEW a \in Labels, NEW k \in 0..MaxTasks \cup {1},
         NEW b \in Labels, NEW l \in 0..MaxTasks \cup {1},
         stack' = << <<b, l>>, <<a, k>> >>
  PROVE  /\ stack' \in Seq(Frames) /\ Len(stack') = 2 /\ Heights' = {0, 1} /\ Busy'
         /\ Op(0)' = a /\ Arg(0)' = k /\ Op(1)' = b /\ Arg(1)' = l
<1> DEFINE q == << <<b, l>>, <<a, k>> >>
<1>1. q \in Seq(Frames) /\ Len(q) = 2 /\ q[2][1] = a /\ q[2][2] = k /\ q[1][1] = b /\ q[1][2] = l
  <2>1. <<a, k>> \in Frames /\ <<b, l>> \in Frames
    BY FrameTypes
  <2> QED
    BY <2>1
<1>2. stack' = q
  OBVIOUS
<1> HIDE DEF q
<1>3. \A j \in 0..1 : Op(j)' = q[2 - j][1] /\ Arg(j)' = q[2 - j][2]
  BY <1>1, <1>2, Whole
<1>4. Op(0)' = a /\ Arg(0)' = k /\ Op(1)' = b /\ Arg(1)' = l
  BY <1>1, <1>3
<1>5. stack' \in Seq(Frames) /\ Len(stack') = 2
  BY <1>1, <1>2
<1>6. Heights' = {0, 1} /\ Busy'
  BY <1>5 DEF Heights, Busy
<1> QED
  BY <1>4, <1>5, <1>6

\* An empty stack has no heights.
LEMMA NoFrame ==
  ASSUME stack' = << >>
  PROVE  stack' \in Seq(Frames) /\ Len(stack') = 0 /\ Heights' = {} /\ ~ Busy'
BY DEF Heights, Busy

\* Without a handler that made the call, an exception empties the stack.
LEMMA Unwound ==
  ASSUME stack \in Seq(Frames), \A j \in Heights : Op(j) # "return"
  PROVE  Unwind = << >>
<1>1. ASSUME NEW i \in DOMAIN stack
      PROVE  stack[i][1] # "return"
  <2>1. PICK n \in Nat : n = Len(stack) /\ i \in 1..n
    OBVIOUS
  <2>2. n - i \in 0..(n - 1) /\ n - (n - i) = i
    BY <2>1
  <2>3. n - i \in Heights
    BY <2>1, <2>2 DEF Heights
  <2>4. Op(n - i) = stack[i][1]
    BY <2>1, <2>2 DEF Op
  <2> QED
    BY <2>3, <2>4
<1>2. { i \in DOMAIN stack : stack[i][1] = "return" } = {}
  BY <1>1
<1> QED
  BY <1>2 DEF Unwind

\* A frame at height 0 or 1 has nothing or one frame below it.
LEMMA SmallHeights ==
  /\ 0..0 = {0}
  /\ 0..1 = {0, 1}
OBVIOUS

\* The queued half of a start() made off the FX thread.
LEMMA RunLambdaStep ==
  ASSUME ServiceInv, RunLambda
  PROVE  ServiceInv'
<1>1. "schedule" \in Labels /\ "execute" \in Labels /\ 0 \in 0..MaxTasks \cup {1}
  BY ServiceAssumption DEF Labels
<1>2. stack' = << <<"schedule", 0>>, <<"execute", 0>> >>
  BY DEF RunLambda, Frame, None
<1>3. /\ stack' \in Seq(Frames) /\ Heights' = {0, 1} /\ Busy'
      /\ Op(0)' = "execute" /\ Op(1)' = "schedule"
  BY <1>1, <1>2, TwoFrames
<1>4. Quiet /\ Heights = {} /\ ~ Busy /\ lambda
  BY Idle DEF RunLambda
<1>5. UNCHANGED <<own, bound, others, task, created, thrown, handed, taskVars>> /\ ~ lambda'
      /\ UNCHANGED <<tstate, future>>
  BY DEF RunLambda, svcVars, taskVars
<1>6. TypeOK'
  BY <1>3 DEF ServiceInv, TypeOK, RunLambda, svcVars, taskVars, Frames
<1>7. SameFrames(Reports) /\ SameFrames(Marks) /\ SameFrames({"unbind", "reset"})
  <2>1. \A op \in {"execute", "schedule"} :
          op \notin Reports /\ op \notin Marks /\ op \notin {"unbind", "reset"}
    BY DEF Reports, Outcomes, Marks
  <2> QED
    BY <1>3, <1>4, <2>1, IdleSame
<1>8. StateInv' /\ AloneInv' /\ PostInv' /\ DueInv' /\ RunningInv'
  BY <1>5, <1>7, KeepRest
<1>9. FieldInv'
  BY <1>5, <1>7, InvTypes, KeepFields DEF ServiceInv
<1>10. FrameInv'
  <2>1. FrameAt(0)' /\ FrameAt(1)'
    BY <1>3 DEF FrameAt, Reports, Outcomes, States
  <2> QED
    BY <1>3, <2>1 DEF FrameInv
<1>11. StartInv'
  <2>1. Announcing'
    BY <1>3 DEF Announcing, Second
  <2>2. task # None => tstate[task] \in {"READY", "CANCELLED"} /\ task \notin handed
    BY <1>4 DEF ServiceInv, StartInv
  <2> QED
    BY <1>3, <1>5, <2>1, <2>2 DEF StartInv
<1>12. RestartResets'
  BY <1>5 DEF ServiceInv, RestartResets
<1> QED
  BY <1>6, <1>8, <1>9, <1>10, <1>11, <1>12 DEF ServiceInv

\* executeTask() is about to announce the task.
LEMMA ScheduleStep ==
  ASSUME ServiceInv, Schedule
  PROVE  ServiceInv'
<1>1. PICK h \in Nat : Len(stack) = h + 1 /\ Op(h) = "schedule" /\ FrameAt(h) /\ Heights = 0..h
  BY OnTop DEF Schedule
<1>2. h = 1 /\ Op(0) = "execute" /\ Heights = {0, 1} /\ Busy /\ Announcing
  <2>1. h = 1 /\ Op(0) = "execute"
    BY <1>1 DEF FrameAt
  <2>2. Heights = {0, 1}
    BY <1>1, <2>1, SmallHeights
  <2> QED
    BY <1>1, <2>1, <2>2 DEF Busy, Announcing, Second
<1>3. task # None /\ task \in 0..MaxTasks \cup {1} /\ "SCHEDULED" \in Labels /\ task \in Tasks
  BY InvTypes, ServiceAssumption DEF Schedule, Labels, States, None, Tasks
<1>4. Replaced(1, "SCHEDULED", task)
  <2>1. stack' = << >> \o << <<"SCHEDULED", task>> >> \o Rest
    BY DEF Schedule
  <2> QED
    BY <1>1, <1>2, <1>3, <2>1, InvTypes, Replace
<1>5. Keeps(1) /\ stack' \in Seq(Frames) /\ Len(stack') = 2
  <2>1. Keeps(1) /\ stack' \in Seq(Frames)
    BY <1>4 DEF Replaced, Keeps
  <2> DEFINE f == << <<"SCHEDULED", task>> >>
  <2>2. f \in Seq(Frames) /\ Len(f) = 1
    BY <1>3, FrameTypes
  <2>3. stack' = f \o Tail(stack)
    BY DEF Schedule, Rest
  <2> HIDE DEF f
  <2>4. Len(stack') = 1 + Len(f)
    BY <1>1, <1>2, <2>2, <2>3, InvTypes, Push
  <2> QED
    BY <2>1, <2>2, <2>4
<1>6. /\ Heights' = {0, 1} /\ Busy' /\ Op(0)' = "execute"
      /\ Op(1)' = "SCHEDULED" /\ Arg(1)' = task
  BY <1>2, <1>4, <1>5 DEF Heights, Busy, Replaced, Keeps
<1>7. Aside /\ own' = own
  BY DEF Aside, Schedule, svcVars
<1>8. UNCHANGED <<bound, others, task, created, lambda, thrown, handed>>
      /\ UNCHANGED <<tstate, running, future, body, posted>>
      /\ UNCHANGED taskVars
  BY <1>7 DEF Aside, taskVars
<1>9. TypeOK'
  BY <1>5, <1>7, InvTypes, TypeAside DEF ServiceInv
<1>10. FrameInv'
  <2>1. FrameAt(0)' /\ FrameAt(1)'
    BY <1>3, <1>6, <1>8 DEF FrameAt, Reports, Outcomes, States
  <2> QED
    BY <1>6, <2>1 DEF FrameInv
<1>11. SameFrames(Reports) /\ SameFrames(Marks) /\ SameFrames({"unbind", "reset"})
  <2>1. \A op \in {"execute", "schedule", "SCHEDULED"} :
          op \notin Reports /\ op \notin Marks /\ op \notin {"unbind", "reset"}
    BY DEF Reports, Outcomes, Marks
  <2> QED
    BY <1>1, <1>2, <1>6, <2>1 DEF SameFrames
<1>12. StateInv' /\ AloneInv' /\ PostInv' /\ DueInv' /\ RunningInv'
  BY <1>8, <1>11, KeepRest
<1>13. FieldInv'
  BY <1>7, <1>8, <1>11, InvTypes, KeepFields DEF ServiceInv
<1>14. StartInv'
  <2>1. ~ Announcing' /\ Second("SCHEDULED")'
    BY <1>6 DEF Announcing, Second
  <2>2. task \notin handed /\ ~ lambda
    BY <1>2, <1>3 DEF ServiceInv, StartInv
  <2> QED
    BY <1>3, <1>6, <1>8, <2>1, <2>2 DEF StartInv
<1>15. RestartResets'
  BY <1>8 DEF ServiceInv, RestartResets
<1> QED
  BY <1>9, <1>10, <1>12, <1>13, <1>14, <1>15 DEF ServiceInv

-----------------------------------------------------------------------------
(***************************************************************************)
(* Exceptions.  None leaves a handler, or a reset() that restart() called. *)
(***************************************************************************)
\* An exception, where neither a handler nor a reset() of restart() is under way.
LEMMA ThrowStep ==
  ASSUME ServiceInv, Throw, stack # << >>, Head(stack) \in Frames,
         \A j \in Heights : /\ Op(j) \in {"reset", "start", "schedule", "execute"}
                            /\ ~ Resetting(j),
         Head(stack) # <<"reset", 1>>, Head(stack) # Frame("execute")
  PROVE  ServiceInv'
<1>1. stack' = << >>
  <2>1. \A j \in Heights : Op(j) # "return"
    OBVIOUS
  <2> QED
    BY <2>1, InvTypes, Unwound DEF Throw
<1>2. stack' \in Seq(Frames) /\ Heights' = {} /\ ~ Busy'
  BY <1>1, NoFrame
<1>3. UNCHANGED <<own, bound, others, task, created, lambda, handed>>
      /\ UNCHANGED <<tstate, future>> /\ UNCHANGED taskVars
  BY DEF Throw, svcVars, taskVars
<1>4. thrown' \subseteq thrown \cup {Head(stack)}
  BY DEF Throw
<1>5. TypeOK'
  BY <1>2, <1>4 DEF ServiceInv, TypeOK, Throw, svcVars, taskVars, Frames
<1>6. SameFrames(Reports) /\ SameFrames(Marks)
  BY <1>2 DEF SameFrames, Reports, Outcomes, Marks
<1>7. StateInv' /\ AloneInv' /\ PostInv' /\ DueInv' /\ RunningInv'
  BY <1>3, <1>6, KeepRest
<1>8. FrameInv'
  BY <1>2 DEF FrameInv
<1>9. FieldInv'
  BY <1>2, <1>3 DEF ServiceInv, FieldInv
<1>10. StartInv'
  BY <1>2, <1>3 DEF ServiceInv, StartInv
<1>11. RestartResets'
  BY <1>4 DEF ServiceInv, RestartResets
<1> QED
  BY <1>5, <1>7, <1>8, <1>9, <1>10, <1>11 DEF ServiceInv

\* The frame on top is well typed.
LEMMA HeadFrame ==
  ASSUME ServiceInv, NEW op, At(op)
  PROVE  stack # << >> /\ Head(stack) \in Frames
BY InvTypes DEF At

\* reset() refuses an active Service.
LEMMA ResetThrowsStep ==
  ASSUME ServiceInv, ResetThrows
  PROVE  ServiceInv'
<1>1. At("reset") /\ Throw /\ ServiceState \in Active
  BY DEF ResetThrows
<1>2. PICK h \in Nat : /\ Len(stack) = h + 1 /\ Op(h) = "reset" /\ FrameAt(h) /\ Heights = 0..h
                       /\ h \in Heights /\ Head(stack) = <<"reset", Arg(h)>>
  BY <1>1, OnTop
<1>3. h = 0 /\ Arg(0) = None
  <2>1. ~ Resetting(h)
    <3> SUFFICES ASSUME Resetting(h)
                 PROVE  FALSE
      OBVIOUS
    <3>1. bound = None
      BY <1>2, InvTypes DEF ServiceInv, FieldInv
    <3> QED
      BY <1>1, <3>1, InvTypes DEF ServiceState, Active
  <2> QED
    BY <1>2, <2>1 DEF FrameAt, Resetting
<1>4. Heights = {0} /\ ~ Resetting(0)
  BY <1>2, <1>3, SmallHeights DEF Resetting, None
<1>5. Head(stack) # <<"reset", 1>> /\ Head(stack) # Frame("execute")
  BY <1>2, <1>3 DEF Frame, None
<1> QED
  BY <1>1, <1>2, <1>3, <1>4, <1>5, HeadFrame, ThrowStep

\* start() refuses a Service that is not READY.
LEMMA StartThrowsStep ==
  ASSUME ServiceInv, StartThrows
  PROVE  ServiceInv'
<1>1. At("start") /\ Throw
  BY DEF StartThrows
<1>2. PICK h \in Nat : /\ Len(stack) = h + 1 /\ Op(h) = "start" /\ FrameAt(h) /\ Heights = 0..h
                       /\ Head(stack) = <<"start", Arg(h)>>
  BY <1>1, OnTop
<1>3. h = 0
  BY <1>2 DEF FrameAt
<1>4. Heights = {0} /\ ~ Resetting(0)
  BY <1>2, <1>3, SmallHeights DEF Resetting
<1>5. Head(stack) # <<"reset", 1>> /\ Head(stack) # Frame("execute")
  BY <1>2 DEF Frame
<1> QED
  BY <1>1, <1>2, <1>3, <1>4, <1>5, HeadFrame, ThrowStep

\* The lambda of an off-thread start finds no task to announce.
LEMMA ScheduleThrowsStep ==
  ASSUME ServiceInv, ScheduleThrows
  PROVE  ServiceInv'
<1>1. At("schedule") /\ Throw
  BY DEF ScheduleThrows
<1>2. PICK h \in Nat : /\ Len(stack) = h + 1 /\ Op(h) = "schedule" /\ FrameAt(h) /\ Heights = 0..h
                       /\ Head(stack) = <<"schedule", Arg(h)>>
  BY <1>1, OnTop
<1>3. h = 1 /\ Op(0) = "execute"
  BY <1>2 DEF FrameAt
<1>4. Heights = {0, 1} /\ ~ Resetting(0) /\ ~ Resetting(1)
  BY <1>2, <1>3, SmallHeights DEF Resetting
<1>5. Head(stack) # <<"reset", 1>> /\ Head(stack) # Frame("execute")
  BY <1>2 DEF Frame
<1> QED
  BY <1>1, <1>2, <1>3, <1>4, <1>5, HeadFrame, ThrowStep
-----------------------------------------------------------------------------
(***************************************************************************)
(* Steps of reset(), restart() and start().                                *)
(***************************************************************************)
\* reset() unbinds the remaining properties.
LEMMA UnbindStep ==
  ASSUME ServiceInv, Unbind
  PROVE  ServiceInv'
<1>1. PICK h \in Nat : Len(stack) = h + 1 /\ Op(h) = "unbind" /\ h \in Heights
  BY OnTop DEF Unbind
<1>2. Keeps(h) /\ Len(stack') = h /\ stack' \in Seq(Frames)
  BY <1>1, InvTypes, Pop DEF Unbind, Rest, Keeps
<1>3. task = None /\ bound = None
  BY <1>1, InvTypes DEF ServiceInv, FieldInv, Resetting
<1>4. UNCHANGED <<own, bound, task, created, lambda, thrown, handed>>
      /\ UNCHANGED <<tstate, future>> /\ UNCHANGED taskVars /\ others' = None
  BY DEF Unbind, taskVars
<1>5. TypeOK'
  BY <1>2, ServiceAssumption DEF ServiceInv, TypeOK, Unbind, taskVars, Frames, None
<1>6. SameFrames(Reports) /\ SameFrames(Marks) /\ SameFrames(Opening)
  <2>1. "unbind" \notin Reports /\ "unbind" \notin Marks /\ "unbind" \notin Opening
    BY DEF Reports, Outcomes, Marks, Opening
  <2>2. Len(stack') >= h /\ \A j \in h..(Len(stack') - 1) : FALSE
    BY <1>2
  <2> QED
    BY <1>1, <1>2, <2>1, <2>2, InvTypes, AboveSame
<1>7. StateInv' /\ AloneInv' /\ PostInv' /\ DueInv' /\ RunningInv'
  BY <1>4, <1>6, KeepRest
<1>8. StartInv'
  BY <1>4, <1>6, KeepStart DEF ServiceInv
<1>9. FrameInv'
  <2>1. \A j \in h..(Len(stack') - 1) : FALSE
    BY <1>2
  <2> QED
    BY <1>1, <1>2, <1>4, <2>1, InvTypes, NewFrames DEF ServiceInv
<1>10. FieldInv'
  BY <1>3, <1>4, InvTypes DEF FieldInv
<1>11. RestartResets'
  BY <1>4 DEF ServiceInv, RestartResets
<1> QED
  BY <1>5, <1>7, <1>8, <1>9, <1>10, <1>11 DEF ServiceInv

\* start() hands the task to the executor.
LEMMA ExecuteStep ==
  ASSUME ServiceInv, Execute
  PROVE  ServiceInv'
<1>1. PICK h \in Nat : Len(stack) = h + 1 /\ Op(h) = "execute" /\ FrameAt(h) /\ Heights = 0..h
  BY OnTop DEF Execute
<1>2. h = 0 /\ Heights = {0} /\ Busy
  BY <1>1, SmallHeights DEF FrameAt, Busy
<1>3. stack' = << >>
  BY <1>1, <1>2, InvTypes DEF Execute, Rest
<1>4. stack' \in Seq(Frames) /\ Heights' = {} /\ ~ Busy'
  BY <1>3, NoFrame
<1>5. task # None /\ task \in Tasks /\ tstate[task] # "READY" /\ task \notin handed /\ ~ lambda
  <2>1. ~ Announcing /\ ~ Second("SCHEDULED")
    BY <1>2 DEF Announcing, Second
  <2>2. task # None /\ tstate[task] # "READY" /\ task \notin handed /\ ~ lambda
    BY <1>1, <1>2, <2>1 DEF ServiceInv, StartInv
  <2> QED
    BY <2>2, InvTypes, ServiceAssumption DEF Tasks, None
<1>6. handed' = handed \cup {task} /\ thrown' = thrown
  BY <1>5 DEF Execute
<1>7. UNCHANGED <<own, bound, others, task, created, lambda>>
      /\ UNCHANGED <<tstate, running, future, body, posted>>
  BY DEF Execute, svcVars, taskVars
<1>8. TypeOK'
  BY <1>4, <1>5, <1>6 DEF ServiceInv, TypeOK, Execute, svcVars, taskVars, Frames
<1>9. FrameInv' /\ FieldInv' /\ StartInv'
  <2>1. ~ Resetting(0)
    BY <1>1, <1>2 DEF Resetting
  <2> QED
    BY <1>2, <1>4, <1>5, <1>7, <2>1 DEF ServiceInv, FrameInv, FieldInv, StartInv
<1>10. StateInv'
  <2>1. task <= created
    BY DEF ServiceInv, StateInv
  <2>2. ASSUME NEW k \in Tasks
        PROVE  StateOf(k)'
    <3>1. StateOf(k)
      BY DEF ServiceInv, StateInv
    <3>2. CASE k = task
      <4>1. ~ (task > created)
        BY <2>1, InvTypes, ServiceAssumption
      <4> QED
        BY <1>5, <1>6, <1>7, <3>1, <3>2, <4>1 DEF StateOf
    <3>3. CASE k # task
      BY <1>6, <1>7, <3>1, <3>3 DEF StateOf
    <3> QED
      BY <3>2, <3>3
  <2> QED
    BY <1>7, <2>1, <2>2 DEF StateInv, Tasks
<1>11. AloneInv'
  BY <1>6, <1>7 DEF ServiceInv, AloneInv
<1>12. SameFrames(Reports) /\ SameFrames(Marks)
  BY <1>1, <1>2, <1>4 DEF SameFrames, Reports, Outcomes, Marks
<1>13. PostInv' /\ DueInv' /\ RunningInv'
  BY <1>7, <1>12, KeepPosts
<1>14. RestartResets'
  BY <1>6 DEF ServiceInv, RestartResets
<1> QED
  BY <1>8, <1>9, <1>10, <1>11, <1>13, <1>14 DEF ServiceInv

\* Three frames, one in front of two.
LEMMA Joined ==
  ASSUME NEW S, NEW x \in S, NEW y \in S, NEW z \in S
  PROVE  <<x>> \o <<y, z>> = <<x, y, z>>
<1> DEFINE p == <<x>> \o <<y, z>>
           q == <<x, y, z>>
<1>1. q \in Seq(S) /\ Len(q) = 3 /\ q[1] = x /\ q[2] = y /\ q[3] = z
  OBVIOUS
<1>2. p \in Seq(S) /\ Len(p) = 3 /\ p[1] = x /\ p[2] = y /\ p[3] = z
  OBVIOUS
<1> HIDE DEF p, q
<1>3. \A i \in 1..3 : p[i] = q[i]
  <2>1. \A i \in 1..3 : i = 1 \/ i = 2 \/ i = 3
    OBVIOUS
  <2> QED
    BY <1>1, <1>2, <2>1
<1>4. p = q
  BY <1>1, <1>2, <1>3, SeqEqual
<1> QED
  BY <1>4 DEF p, q

\* Two or three frames, put together one by one.
LEMMA JoinedTwo ==
  ASSUME NEW S, NEW x \in S, NEW y \in S, NEW z \in S
  PROVE  /\ <<y>> \o <<z>> = <<y, z>>
         /\ << >> \o <<y, z>> = <<y, z>>
         /\ (<<x>> \o <<y>>) \o <<z>> = <<x>> \o <<y, z>>
<1>1. <<y>> \o <<z>> = <<y, z>>
  <2> DEFINE p == <<y>> \o <<z>>
             q == <<y, z>>
  <2>1. q \in Seq(S) /\ Len(q) = 2 /\ q[1] = y /\ q[2] = z
    OBVIOUS
  <2>2. p \in Seq(S) /\ Len(p) = 2 /\ p[1] = y /\ p[2] = z
    OBVIOUS
  <2> HIDE DEF p, q
  <2>3. \A i \in 1..2 : i = 1 \/ i = 2
    OBVIOUS
  <2>4. \A i \in 1..2 : p[i] = q[i]
    BY <2>1, <2>2, <2>3
  <2>5. p = q
    BY <2>1, <2>2, <2>4, SeqEqual
  <2> QED
    BY <2>5 DEF p, q
<1>2. << >> \o <<y, z>> = <<y, z>>
  OBVIOUS
<1>3. <<x>> \in Seq(S) /\ <<y>> \in Seq(S) /\ <<z>> \in Seq(S)
  OBVIOUS
<1>4. (<<x>> \o <<y>>) \o <<z>> = <<x>> \o (<<y>> \o <<z>>)
  BY <1>3, ConcatAssociative
<1> QED
  BY <1>1, <1>2, <1>4

\* Under a single frame there is nothing.
LEMMA RestEmpty ==
  ASSUME stack \in Seq(Frames), Len(stack) = 1
  PROVE  Rest = << >>
<1>1. Tail(stack) \in Seq(Frames) /\ Len(Tail(stack)) = 0
  OBVIOUS
<1> QED
  BY <1>1, EmptySeq DEF Rest

\* A call at the bottom of the stack enters another method.
LEMMA BeginTwo ==
  ASSUME stack \in Seq(Frames), Len(stack) = 1,
         NEW a \in Labels, NEW k \in 0..MaxTasks \cup {1},
         NEW b \in Labels, NEW l \in 0..MaxTasks \cup {1},
         NEW p \in {<< >>, <<Frame("handler")>>},
         stack' = p \o << <<b, l>>, <<a, k>> >>
  PROVE  /\ stack' \in Seq(Frames) /\ {0, 1} \subseteq Heights' /\ Heights' \subseteq {0, 1, 2} /\ Busy'
         /\ Op(0)' = a /\ Arg(0)' = k /\ Op(1)' = b /\ Arg(1)' = l
         /\ 2 \in Heights' => Op(2)' = "handler"
<1>1. CASE p = << >>
  <2>1. stack' = << <<b, l>>, <<a, k>> >>
    BY <1>1, FrameTypes
  <2>2. 2 \notin {0, 1}
    OBVIOUS
  <2> QED
    BY <2>1, <2>2, TwoFrames
<1>2. CASE p = <<Frame("handler")>>
  <2> DEFINE q == << <<"handler", 0>>, <<b, l>>, <<a, k>> >>
  <2>1. stack' = q
    <3>1. <<a, k>> \in Frames /\ <<b, l>> \in Frames
      BY FrameTypes
    <3>2. <<"handler", 0>> \in Frames /\ p = << <<"handler", 0>> >>
      BY <1>2, HandlerFrame
    <3>3. << <<"handler", 0>> >> \o << <<b, l>>, <<a, k>> >> = q
      BY <3>1, <3>2, Joined
    <3> QED
      BY <3>2, <3>3
  <2>2. /\ q \in Seq(Frames) /\ Len(q) = 3
        /\ q[3][1] = a /\ q[3][2] = k /\ q[2][1] = b /\ q[2][2] = l /\ q[1][1] = "handler"
    <3>1. <<a, k>> \in Frames /\ <<b, l>> \in Frames /\ <<"handler", 0>> \in Frames
      BY FrameTypes, HandlerFrame
    <3> QED
      BY <3>1
  <2> HIDE DEF q
  <2>3. \A j \in 0..2 : Op(j)' = q[3 - j][1] /\ Arg(j)' = q[3 - j][2]
    <3>1. 3 \in Nat /\ 3 - 1 = 2
      OBVIOUS
    <3>2. \A j \in 0..(3 - 1) : Op(j)' = q[3 - j][1] /\ Arg(j)' = q[3 - j][2]
      BY <2>1, <2>2, <3>1, Whole
    <3> QED
      BY <3>1, <3>2
  <2>4. Op(0)' = a /\ Arg(0)' = k /\ Op(1)' = b /\ Arg(1)' = l /\ Op(2)' = "handler"
    BY <2>2, <2>3
  <2>5. stack' \in Seq(Frames) /\ Len(stack') = 3
    BY <2>1, <2>2
  <2>6. Heights' = {0, 1, 2}
    BY <2>5 DEF Heights
  <2> QED
    BY <2>4, <2>5, <2>6 DEF Busy
<1> QED
  BY <1>1, <1>2

\* A stack that consists of reset(), start() and perhaps a handler, as
\* restart() leaves it.
LEMMA Restarting ==
  ASSUME ServiceInv, Len(stack) = 1, Op(0) \in {"restart", "detach"},
         NEW p \in {<< >>, <<Frame("handler")>>},
         stack' = p \o ByRestart
  PROVE  /\ stack' \in Seq(Frames)
         /\ FrameInv'
         /\ SameFrames(Reports) /\ SameFrames(Marks)
         /\ 1 \in Heights' /\ Resetting(1)'
         /\ Busy' /\ Op(0)' = "start"
<1>1. "start" \in Labels /\ "reset" \in Labels /\ 1 \in 0..MaxTasks \cup {1}
  BY DEF Labels, Operations
<1>2. /\ stack' \in Seq(Frames) /\ {0, 1} \subseteq Heights' /\ Heights' \subseteq {0, 1, 2} /\ Busy'
      /\ Op(0)' = "start" /\ Arg(0)' = 1 /\ Op(1)' = "reset" /\ Arg(1)' = 1
      /\ 2 \in Heights' => Op(2)' = "handler"
  BY <1>1, InvTypes, BeginTwo DEF ByRestart
<1>3. FrameAt(0)' /\ FrameAt(1)' /\ (2 \in Heights' => FrameAt(2)')
  BY <1>2 DEF FrameAt, Reports, Outcomes, States
<1>4. FrameInv'
  BY <1>2, <1>3 DEF FrameInv
<1>5. Resetting(1)'
  BY <1>2 DEF Resetting
<1>6. Heights = {0}
  BY DEF Heights
<1>7. \A op \in {"restart", "detach", "start", "reset", "handler"} : op \notin Reports /\ op \notin Marks
  BY DEF Reports, Outcomes, Marks
<1>8. \A j \in Heights' : Op(j)' \in {"start", "reset", "handler"}
  BY <1>2
<1>9. SameFrames(Reports) /\ SameFrames(Marks)
  BY <1>6, <1>7, <1>8 DEF SameFrames
<1> QED
  BY <1>2, <1>4, <1>5, <1>9

\* Giving up the current task leaves no task running unless it is cancelled.
LEMMA Abandon ==
  ASSUME ServiceInv, UNCHANGED <<created, handed, tstate, running, future, body>>,
         task' = None, task = None \/ future[task] # "NEW" \/ ServiceState \notin Active
  PROVE  StateInv' /\ AloneInv'
<1>1. StateInv'
  <2>1. task' <= created
    BY InvTypes, ServiceAssumption DEF None
  <2> QED
    BY <2>1 DEF ServiceInv, StateInv, StateOf
<1>2. ASSUME NEW k \in handed, body[k] \in {"ready", "call"}, future[k] = "NEW"
      PROVE  FALSE
  <2>1. k = task /\ k \in Tasks
    BY <1>2 DEF ServiceInv, AloneInv, TypeOK
  <2>2. bound = k /\ k # None
    BY <2>1, InvTypes DEF Tasks, None
  <2>3. tstate[k] \notin Active
    BY <1>2, <2>1, <2>2 DEF ServiceState
  <2>4. StateOf(k)
    BY <2>1 DEF ServiceInv, StateInv
  <2>5. tstate[k] \in States
    BY <2>1 DEF ServiceInv, TypeOK
  <2> QED
    BY <1>2, <2>3, <2>4, <2>5 DEF StateOf, States, Active
<1>3. AloneInv'
  BY <1>2 DEF AloneInv
<1> QED
  BY <1>1, <1>3

\* restart() gives the old task up.
LEMMA DetachStep ==
  ASSUME ServiceInv, Detach
  PROVE  ServiceInv'
<1>1. PICK h \in Nat : Len(stack) = h + 1 /\ Op(h) = "detach" /\ FrameAt(h) /\ Heights = 0..h
  BY OnTop DEF Detach
<1>2. h = 0 /\ Heights = {0} /\ Busy /\ Len(stack) = 1
  BY <1>1, SmallHeights DEF FrameAt, Busy
<1>3. PICK p \in {<< >>, <<Frame("handler")>>} : stack' = p \o ByRestart
  <2>1. Rest = << >>
    BY <1>2, InvTypes, RestEmpty
  <2>2. PICK p \in {<< >>, <<Frame("handler")>>} : p = Notify(ServiceState, "CANCELLED")
    BY NotifyFrames
  <2>3. stack' = p \o ByRestart \o << >>
    BY <2>1, <2>2 DEF Detach
  <2>4. <<"reset", 1>> \in Frames /\ <<"start", 1>> \in Frames
    BY DEF Frames, Labels, Operations
  <2>5. p \in Seq(Frames) /\ ByRestart \in Seq(Frames)
    <3>1. p \in Seq(Frames)
      <4>1. << >> \in Seq(Frames)
        OBVIOUS
      <4>2. <<Frame("handler")>> \in Seq(Frames)
        BY HandlerFrame
      <4> QED
        BY <4>1, <4>2
    <3>2. ByRestart \in Seq(Frames)
      BY <2>4 DEF ByRestart
    <3> QED
      BY <3>1, <3>2
  <2>6. stack' = p \o ByRestart
    BY <2>3, <2>5
  <2> QED
    BY <2>6
<1>4. /\ stack' \in Seq(Frames) /\ FrameInv' /\ SameFrames(Reports) /\ SameFrames(Marks)
      /\ 1 \in Heights' /\ Resetting(1)' /\ Busy' /\ Op(0)' = "start"
  BY <1>1, <1>2, <1>3, Restarting
<1>5. task' = None /\ bound' = None /\ own' = "CANCELLED"
      /\ UNCHANGED <<others, created, lambda, thrown, handed>>
      /\ UNCHANGED <<tstate, running, future, body, posted>>
  BY DEF Detach, taskVars
<1>6. ~ lambda /\ future[task] # "NEW"
  BY <1>1, <1>2 DEF ServiceInv, StartInv
<1>7. TypeOK'
  BY <1>4, <1>5, ServiceAssumption DEF ServiceInv, TypeOK, Detach, taskVars, Frames, States, None
<1>8. FieldInv'
  BY <1>4, <1>5 DEF FieldInv
<1>9. StartInv'
  BY <1>4, <1>5, <1>6 DEF StartInv
<1>10. StateInv' /\ AloneInv'
  BY <1>5, <1>6, Abandon
<1>11. PostInv' /\ DueInv' /\ RunningInv'
  BY <1>4, <1>5, KeepPosts
<1>12. RestartResets'
  BY <1>5 DEF ServiceInv, RestartResets
<1> QED
  BY <1>4, <1>7, <1>8, <1>9, <1>10, <1>11, <1>12 DEF ServiceInv

\* reset() gives the task up.
LEMMA ResetStep ==
  ASSUME ServiceInv, Reset
  PROVE  ServiceInv'
<1>1. PICK h \in Nat : Len(stack) = h + 1 /\ Op(h) = "reset" /\ FrameAt(h) /\ Heights = 0..h
  BY OnTop DEF Reset
<1>2. h = 0 \/ (h = 1 /\ Op(0) = "start")
  BY <1>1 DEF FrameAt
<1>3. Replaced(h, "unbind", None)
  <2>1. PICK p \in {<< >>, <<Frame("handler")>>} : p = Notify(ServiceState, "READY")
    BY NotifyFrames
  <2>2. stack' = p \o << <<"unbind", 0>> >> \o Rest
    BY <2>1 DEF Reset, Frame, None
  <2>3. "unbind" \in Labels /\ 0 \in 0..MaxTasks \cup {1}
    BY ServiceAssumption DEF Labels
  <2> QED
    BY <1>1, <2>2, <2>3, InvTypes, Replace DEF None
<1>4. PICK m \in {h + 1, h + 2} : Len(stack') = m
  BY <1>3 DEF Replaced
<1>5. stack' \in Seq(Frames) /\ Keeps(h) /\ Heights' = 0..(m - 1) /\ h \in Heights'
  BY <1>3, <1>4 DEF Replaced, Keeps, Heights
<1>6. \A j \in h..(m - 1) : Op(j)' \in {"unbind", "handler"} /\ (j = h => Op(j)' = "unbind")
      /\ (j # h => Op(j)' = "handler")
  <2>1. CASE m = h + 1
    <3>1. \A j \in h..(m - 1) : j = h
      BY <2>1
    <3> QED
      BY <1>3, <3>1 DEF Replaced
  <2>2. CASE m = h + 2
    <3>1. \A j \in h..(m - 1) : j = h \/ j = h + 1
      BY <2>2
    <3> QED
      BY <1>3, <1>4, <2>2, <3>1 DEF Replaced
  <2> QED
    BY <2>1, <2>2
<1>7. FrameInv'
  <2>1. ASSUME NEW j \in h..(m - 1)
        PROVE  FrameAt(j)'
    <3>1. CASE j = h
      <4>1. Op(j)' = "unbind" /\ (h = 1 => Op(0)' = "start")
        BY <1>2, <1>5, <1>6, <3>1 DEF Keeps
      <4> QED
        BY <1>2, <3>1, <4>1 DEF FrameAt, Reports, Outcomes, States
    <3>2. CASE j # h
      <4>1. Op(j)' \in Passing
        BY <1>6, <3>2 DEF Passing
      <4> QED
        BY <4>1, PassingFrame
    <3> QED
      BY <3>1, <3>2
  <2>2. task' = task \/ h <= 1
    BY <1>2
  <2> QED
    BY <1>1, <1>4, <1>5, <2>1, <2>2, InvTypes, NewFrames DEF ServiceInv
<1>8. SameFrames(Reports) /\ SameFrames(Marks) /\ SameFrames(Opening)
  <2>1. \A op \in {"unbind", "handler", "reset"} :
          op \notin Reports /\ op \notin Marks /\ op \notin Opening
    BY DEF Reports, Outcomes, Marks, Opening
  <2>2. m >= h
    BY <1>4
  <2> QED
    BY <1>1, <1>4, <1>5, <1>6, <2>1, <2>2, InvTypes, AboveSame
<1>9. task' = None /\ bound' = None /\ own' = "READY" /\ ServiceState \notin Active
      /\ UNCHANGED <<others, created, lambda, thrown, handed>>
      /\ UNCHANGED <<tstate, running, future, body, posted>>
  BY DEF Reset, taskVars
<1>10. TypeOK'
  BY <1>5, <1>9, ServiceAssumption DEF ServiceInv, TypeOK, Reset, taskVars, Frames, States, None
<1>11. FieldInv'
  <2>1. Resetting(h)'
    BY <1>3 DEF Resetting, Replaced
  <2> QED
    BY <1>5, <1>9, <2>1 DEF FieldInv
<1>12. StartInv'
  <2>1. Busy' => Op(0)' \in {"unbind", "start"}
    BY <1>2, <1>3, <1>5 DEF Replaced, Keeps
  <2>2. Busy /\ (h = 1 => Op(0) = "start")
    BY <1>1, <1>2, SmallHeights DEF Busy
  <2>3. lambda => (h = 0 /\ Op(0)' = "unbind")
    BY <1>2, <1>3, <2>2 DEF ServiceInv, StartInv, Replaced
  <2> QED
    BY <1>9, <2>1, <2>3 DEF StartInv
<1>13. StateInv' /\ AloneInv'
  BY <1>9, Abandon
<1>14. PostInv' /\ DueInv' /\ RunningInv'
  BY <1>8, <1>9, KeepPosts
<1>15. RestartResets'
  BY <1>9 DEF ServiceInv, RestartResets
<1> QED
  BY <1>7, <1>10, <1>11, <1>12, <1>13, <1>14, <1>15 DEF ServiceInv

\* A task has been created; it is the Service's, and nobody has touched it.
LEMMA Created ==
  ASSUME ServiceInv, ServiceState = "READY", CreateTask, UNCHANGED <<handed, taskVars>>
  PROVE  /\ task' \in Tasks /\ task' # None /\ task' = bound' /\ others' = bound'
         /\ created' \in 0..MaxTasks
         /\ tstate'[task'] = "READY" /\ task' \notin handed'
         /\ StateInv' /\ AloneInv'
<1>1. PICK n \in Nat : created = n /\ n < MaxTasks
  BY InvTypes, ServiceAssumption DEF CreateTask
<1>2. created' = n + 1 /\ task' = n + 1 /\ bound' = n + 1 /\ others' = n + 1
  BY <1>1 DEF CreateTask
<1>3. n + 1 \in Tasks /\ n + 1 # None /\ n + 1 \in 0..MaxTasks /\ n + 1 > created
  BY <1>1, ServiceAssumption DEF Tasks, None
<1>4. UNCHANGED <<handed, tstate, running, future, body, posted>>
  BY DEF taskVars
<1>5. StateOf(n + 1)
  BY <1>3 DEF ServiceInv, StateInv
<1>6. tstate[n + 1] = "READY" /\ n + 1 \notin handed
  BY <1>3, <1>5 DEF StateOf
<1>7. StateInv'
  <2>1. ASSUME NEW k \in Tasks
        PROVE  StateOf(k)'
    <3>1. StateOf(k)
      BY DEF ServiceInv, StateInv
    <3>2. k > created' => k > created
      BY <1>1, <1>2, ServiceAssumption DEF Tasks
    <3> QED
      BY <1>4, <3>1, <3>2 DEF StateOf
  <2>2. task' <= created'
    BY <1>1, <1>2
  <2> QED
    BY <2>1, <2>2 DEF StateInv, Tasks
<1>8. ASSUME NEW k \in handed, body[k] \in {"ready", "call"}, future[k] = "NEW"
      PROVE  FALSE
  <2>1. k = task /\ k \in Tasks
    BY <1>8 DEF ServiceInv, AloneInv, TypeOK
  <2>2. bound = k /\ k # None
    BY <2>1, InvTypes DEF Tasks, None
  <2>3. tstate[k] = "READY"
    BY <2>1, <2>2 DEF ServiceState
  <2>4. StateOf(k)
    BY <2>1 DEF ServiceInv, StateInv
  <2> QED
    BY <2>3, <2>4, <1>8 DEF StateOf
<1>9. AloneInv'
  BY <1>4, <1>8 DEF AloneInv
<1> QED
  BY <1>2, <1>3, <1>4, <1>6, <1>7, <1>9

\* start() creates and binds a task.
LEMMA StartStep ==
  ASSUME ServiceInv, Start
  PROVE  ServiceInv'
<1>1. PICK h \in Nat : Len(stack) = h + 1 /\ Op(h) = "start" /\ FrameAt(h) /\ Heights = 0..h
  BY OnTop DEF Start
<1>2. h = 0 /\ Heights = {0} /\ Busy /\ Len(stack) = 1
  BY <1>1, SmallHeights DEF FrameAt, Busy
<1>3. stack' = << <<"schedule", 0>>, <<"execute", 0>> >>
  <2>1. stack' = << <<"schedule", 0>>, <<"execute", 0>> >> \o << >>
    BY <1>2, InvTypes, RestEmpty DEF Start, Frame, None
  <2>2. <<"schedule", 0>> \in Frames /\ <<"execute", 0>> \in Frames
    BY ServiceAssumption DEF Frames, Labels
  <2> DEFINE q == << <<"schedule", 0>>, <<"execute", 0>> >>
  <2>3. q \in Seq(Frames)
    BY <2>2
  <2>4. stack' = q \o << >>
    BY <2>1
  <2> HIDE DEF q
  <2>5. stack' = q
    BY <2>3, <2>4
  <2> QED
    BY <2>5 DEF q
<1>4. "schedule" \in Labels /\ "execute" \in Labels /\ 0 \in 0..MaxTasks \cup {1}
  BY ServiceAssumption DEF Labels
<1>5. /\ stack' \in Seq(Frames) /\ Heights' = {0, 1} /\ Busy'
      /\ Op(0)' = "execute" /\ Op(1)' = "schedule"
  BY <1>3, <1>4, TwoFrames
<1>6. UNCHANGED <<own, lambda, thrown, handed, taskVars>> /\ startedOnce' = TRUE
      /\ UNCHANGED <<tstate, running, future, body, posted>>
  BY DEF Start, CreateTask, taskVars
<1>7. /\ task' \in Tasks /\ task' # None /\ task' = bound' /\ others' = bound'
      /\ created' \in 0..MaxTasks
      /\ tstate'[task'] = "READY" /\ task' \notin handed'
      /\ StateInv' /\ AloneInv'
  BY <1>6, Created DEF Start
<1>8. TypeOK'
  <2>1. {bound', others', task', created'} \subseteq 0..MaxTasks
    BY <1>7, ServiceAssumption DEF Tasks
  <2> QED
    BY <1>5, <1>6, <2>1 DEF ServiceInv, TypeOK, Frames
<1>9. SameFrames(Reports) /\ SameFrames(Marks)
  <2>1. \A op \in {"execute", "schedule", "start"} : op \notin Reports /\ op \notin Marks
    BY DEF Reports, Outcomes, Marks
  <2> QED
    BY <1>1, <1>2, <1>5, <2>1 DEF SameFrames
<1>10. PostInv' /\ DueInv' /\ RunningInv'
  BY <1>6, <1>9, KeepPosts
<1>11. FrameInv'
  <2>1. FrameAt(0)' /\ FrameAt(1)'
    BY <1>5 DEF FrameAt, Reports, Outcomes, States
  <2> QED
    BY <1>5, <2>1 DEF FrameInv
<1>12. FieldInv'
  <2>1. ~ Resetting(0)' /\ ~ Resetting(1)'
    BY <1>5 DEF Resetting
  <2> QED
    BY <1>5, <1>6, <1>7, <2>1, InvTypes DEF FieldInv
<1>13. StartInv'
  <2>1. Announcing' /\ ~ lambda
    BY <1>1, <1>2, <1>5 DEF Announcing, Second, ServiceInv, StartInv
  <2> QED
    BY <1>5, <1>6, <1>7, <2>1 DEF StartInv
<1>14. RestartResets'
  BY <1>6 DEF ServiceInv, RestartResets
<1> QED
  BY <1>7, <1>8, <1>10, <1>11, <1>12, <1>13, <1>14 DEF ServiceInv

\* The first start() on a background thread.
LEMMA StartOffFxStep ==
  ASSUME ServiceInv, StartOffFx
  PROVE  ServiceInv'
<1>1. Heights = {} /\ ~ Busy
  BY Idle DEF StartOffFx
<1>2. UNCHANGED <<own, stack, thrown, handed, taskVars>> /\ startedOnce' = TRUE /\ lambda' = TRUE
      /\ UNCHANGED <<tstate, running, future, body, posted>>
  BY DEF StartOffFx, CreateTask, taskVars
<1>3. Heights' = {} /\ ~ Busy' /\ stack' \in Seq(Frames)
  BY <1>1, <1>2, InvTypes DEF Heights, Busy
<1>4. /\ task' \in Tasks /\ task' # None /\ task' = bound' /\ others' = bound'
      /\ created' \in 0..MaxTasks
      /\ tstate'[task'] = "READY" /\ task' \notin handed'
      /\ StateInv' /\ AloneInv'
  BY <1>2, Created DEF StartOffFx
<1>5. TypeOK'
  <2>1. {bound', others', task', created'} \subseteq 0..MaxTasks
    BY <1>4, ServiceAssumption DEF Tasks
  <2> QED
    BY <1>2, <1>3, <2>1 DEF ServiceInv, TypeOK, Frames
<1>6. PostInv' /\ DueInv' /\ RunningInv'
  BY <1>2, Unmoved, KeepPosts
<1>7. FrameInv' /\ FieldInv'
  BY <1>2, <1>3, <1>4, InvTypes DEF FrameInv, FieldInv
<1>8. StartInv'
  BY <1>3, <1>4 DEF StartInv
<1>9. RestartResets'
  BY <1>2 DEF ServiceInv, RestartResets
<1> QED
  BY <1>4, <1>5, <1>6, <1>7, <1>8, <1>9 DEF ServiceInv

-----------------------------------------------------------------------------
(***************************************************************************)
(* Steps that store a task's state.                                        *)
(***************************************************************************)
\* The frames that will store running, but for those of task k.
SameMarks(k) ==
  /\ \A j \in Heights : Op(j) \in Marks /\ Arg(j) # k
                          => j \in Heights' /\ Op(j)' = Op(j) /\ Arg(j)' = Arg(j)
  /\ \A j \in Heights' : Op(j)' \in Marks /\ Arg(j)' # k
                           => j \in Heights /\ Op(j)' = Op(j) /\ Arg(j)' = Arg(j)

\* Frames that store running are kept if those on top are of task k.
LEMMA AboveMarks ==
  ASSUME stack \in Seq(Frames), NEW h \in Nat, Len(stack) = h + 1, Keeps(h),
         Len(stack') >= h, NEW k, Op(h) \notin Marks \/ Arg(h) = k,
         \A j \in h..(Len(stack') - 1) : Op(j)' \notin Marks \/ Arg(j)' = k
  PROVE  SameMarks(k)
<1>1. PICK m \in Nat : Len(stack') = m /\ m >= h
  BY DEF Keeps
<1>2. Heights = 0..h /\ Heights' = 0..(m - 1)
  BY <1>1 DEF Heights
<1>3. \A j \in 0..(h - 1) : Op(j)' = Op(j) /\ Arg(j)' = Arg(j)
  BY DEF Keeps
<1>4. ASSUME NEW j \in 0..h, Op(j) \in Marks, Arg(j) # k
      PROVE  j \in 0..(m - 1) /\ Op(j)' = Op(j) /\ Arg(j)' = Arg(j)
  <2>1. j # h
    BY <1>4
  <2>2. j \in 0..(h - 1) /\ j \in 0..(m - 1)
    BY <1>1, <2>1
  <2> QED
    BY <1>3, <2>2
<1>5. ASSUME NEW j \in 0..(m - 1), Op(j)' \in Marks, Arg(j)' # k
      PROVE  j \in 0..h /\ Op(j)' = Op(j) /\ Arg(j)' = Arg(j)
  <2>1. ~ (j \in h..(m - 1))
    BY <1>1, <1>5
  <2>2. j \in 0..(h - 1) /\ j \in 0..h
    BY <1>1, <2>1
  <2> QED
    BY <1>3, <2>2
<1> QED
  BY <1>2, <1>4, <1>5 DEF SameMarks

\* RunningInv for the tasks other than k.
LEMMA KeepOthersRunning ==
  ASSUME RunningInv, NEW l, SameMarks(l),
         NEW k \in Tasks, k # l, tstate'[k] = tstate[k], running'[k] = running[k]
  PROVE  RunningOf(k)'
<1>1. \A s : Mark(s) \in Marks
  BY DEF Mark, Marks
<1> SUFFICES ASSUME tstate[k] # "CANCELLED"
             PROVE  /\ \/ running[k] <=> tstate[k] \in Active
                       \/ \E j \in Heights' : Op(j)' = Mark(tstate[k]) /\ Arg(j)' = k
                    /\ \A j \in Heights' : Op(j)' \in {"active", "inactive"} /\ Arg(j)' = k
                                             => Op(j)' = Mark(tstate[k])
  BY DEF RunningOf, Mark
<1>2. /\ \/ running[k] <=> tstate[k] \in Active
         \/ \E j \in Heights : Op(j) = Mark(tstate[k]) /\ Arg(j) = k
      /\ \A j \in Heights : Op(j) \in Marks /\ Arg(j) = k => Op(j) = Mark(tstate[k])
  BY DEF RunningInv, RunningOf, Marks
<1>3. ASSUME NEW j \in Heights, Op(j) = Mark(tstate[k]), Arg(j) = k
      PROVE  \E i \in Heights' : Op(i)' = Mark(tstate[k]) /\ Arg(i)' = k
  BY <1>1, <1>3 DEF SameMarks
<1>4. ASSUME NEW j \in Heights', Op(j)' \in Marks, Arg(j)' = k
      PROVE  Op(j)' = Mark(tstate[k])
  BY <1>2, <1>4 DEF SameMarks
<1> QED
  BY <1>2, <1>3, <1>4 DEF Marks

\* The current task is cancelled on the FX thread.
Cancelling ==
  /\ task # None /\ future[task] = "NEW"
  /\ tstate' = [tstate EXCEPT ![task] = "CANCELLED"]
  /\ future' = [future EXCEPT ![task] = "CANCELLED"]
  /\ UNCHANGED <<own, bound, others, task, startedOnce, created, lambda, thrown, handed,
                 running, body, posted>>

\* What cancelling the current task does to the tasks.
LEMMA CancellingFields ==
  ASSUME ServiceInv, Cancelling
  PROVE  /\ task \in Tasks /\ task <= created
         /\ tstate'[task] = "CANCELLED" /\ future'[task] = "CANCELLED"
         /\ \A k \in Tasks : k # task => tstate'[k] = tstate[k] /\ future'[k] = future[k]
         /\ tstate' \in [Tasks -> States]
         /\ future' \in [Tasks -> {"NEW", "NORMAL", "EXCEPTIONAL", "CANCELLED"}]
<1>1. task \in Tasks
  BY InvTypes, ServiceAssumption DEF Cancelling, Tasks, None
<1>2. task <= created
  BY DEF ServiceInv, StateInv
<1> QED
  BY <1>1, <1>2 DEF ServiceInv, TypeOK, Cancelling, States

\* Cancelling the current task keeps the parts about tasks.
LEMMA CancellingInv ==
  ASSUME ServiceInv, Cancelling, stack' \in Seq(Frames),
         SameFrames(Reports), SameMarks(task)
  PROVE  TypeOK' /\ StateInv' /\ AloneInv' /\ PostInv' /\ DueInv' /\ RunningInv' /\ RestartResets'
<1>1. /\ task \in Tasks /\ task <= created
      /\ tstate'[task] = "CANCELLED" /\ future'[task] = "CANCELLED"
      /\ \A k \in Tasks : k # task => tstate'[k] = tstate[k] /\ future'[k] = future[k]
      /\ tstate' \in [Tasks -> States]
      /\ future' \in [Tasks -> {"NEW", "NORMAL", "EXCEPTIONAL", "CANCELLED"}]
  BY CancellingFields
<1>2. UNCHANGED <<own, bound, others, task, startedOnce, created, lambda, thrown, handed,
                  running, body, posted>>
  BY DEF Cancelling
<1>3. TypeOK'
  BY <1>1, <1>2 DEF ServiceInv, TypeOK, Frames
<1>4. StateInv'
  <2>1. ASSUME NEW k \in Tasks
        PROVE  StateOf(k)'
    <3>1. StateOf(k)
      BY DEF ServiceInv, StateInv
    <3>2. CASE k = task
      <4>1. ~ (task > created)
        BY <1>1, InvTypes, ServiceAssumption
      <4> QED
        BY <1>1, <1>2, <3>1, <3>2, <4>1 DEF StateOf
    <3>3. CASE k # task
      BY <1>1, <1>2, <3>1, <3>3 DEF StateOf
    <3> QED
      BY <3>2, <3>3
  <2> QED
    BY <1>1, <1>2, <2>1 DEF StateInv, Tasks
<1>5. AloneInv'
  <2>1. handed \subseteq Tasks
    BY DEF ServiceInv, TypeOK
  <2> QED
    BY <1>1, <1>2, <2>1 DEF ServiceInv, AloneInv
<1>6. ASSUME NEW k \in Tasks, NEW s, Due(k, s)
      PROVE  Due(k, s)'
  <2>1. CASE k = task
    BY <1>1, <1>2, <1>6, <2>1 DEF Due, Outcomes
  <2>2. CASE k # task
    BY <1>1, <1>2, <1>6, <2>2 DEF Due
  <2> QED
    BY <2>1, <2>2
<1>7. ASSUME NEW k \in Tasks
      PROVE  PostedRight(k)'
  BY <1>2, <1>6 DEF ServiceInv, PostInv, PostedRight
<1>8. Busy /\ Op(0) \in Reports => Busy' /\ Op(0)' = Op(0) /\ Arg(0)' = Arg(0)
  BY DEF SameFrames, Busy
<1>9. Busy' /\ Op(0)' \in Reports => Busy /\ Op(0)' = Op(0) /\ Arg(0)' = Arg(0)
  BY DEF SameFrames, Busy
<1>10. \A k : StartPosted(k)' <=> StartPosted(k)
  BY <1>2 DEF StartPosted
<1>11. ASSUME NEW k \in Tasks
       PROVE  StartShown(k)'
  <2>1. StartShown(k)
    BY DEF ServiceInv, PostInv
  <2>2. "RUNNING" \in Reports /\ "CANCELLED" \in Reports
    BY DEF Reports
  <2>3. CASE k = task
    BY <1>1, <2>2, <2>3 DEF StartShown
  <2>4. CASE k # task
    BY <1>1, <1>2, <1>8, <1>10, <2>1, <2>2, <2>4 DEF StartShown
  <2> QED
    BY <2>3, <2>4
<1>12. DueInv'
  <2> SUFFICES ASSUME Busy', Op(0)' \in Reports
               PROVE  DueInv'
    BY DEF DueInv
  <2>1. Busy /\ Op(0)' = Op(0) /\ Arg(0)' = Arg(0) /\ Op(0) \in Reports
    BY <1>9
  <2>2. FrameAt(0)
    BY <2>1 DEF ServiceInv, FrameInv, Busy
  <2>3. PICK k \in Tasks : k = Arg(0)
    BY <2>1, <2>2 DEF FrameAt, Reports, Outcomes, States
  <2>4. Due(k, Op(0)) /\ (Op(0) = "RUNNING" => ~ StartPosted(k))
        /\ (Op(0) \in Outcomes => /\ tstate[k] \in {"RUNNING", "CANCELLED"}
                                  /\ \A i \in 1..Len(posted[k]) : posted[k][i] \notin Outcomes)
    BY <2>1, <2>3 DEF ServiceInv, DueInv
  <2>5. Due(k, Op(0))'
    <3>1. PICK s : s = Op(0)
      OBVIOUS
    <3>2. Due(k, s)'
      BY <1>6, <2>4, <3>1
    <3> QED
      BY <2>1, <3>1, <3>2
  <2>6. tstate'[k] = tstate[k] \/ tstate'[k] = "CANCELLED"
    BY <1>1
  <2> QED
    BY <1>2, <1>10, <2>1, <2>3, <2>4, <2>5, <2>6 DEF DueInv
<1>13. RunningInv'
  <2>1. RunningOf(task)'
    BY <1>1, <1>2 DEF RunningOf
  <2>2. ASSUME NEW k \in Tasks, k # task
        PROVE  RunningOf(k)'
    BY <1>1, <1>2, <2>2, KeepOthersRunning DEF ServiceInv
  <2> QED
    BY <1>2, <2>1, <2>2 DEF RunningInv, Tasks
<1>14. RestartResets'
  BY <1>2 DEF ServiceInv, RestartResets
<1> QED
  BY <1>3, <1>4, <1>5, <1>7, <1>11, <1>12, <1>13, <1>14 DEF PostInv, Tasks

\* The frames from height h on, after the frame at that height was replaced.
LEMMA ReplacedFrames ==
  ASSUME NEW h \in Nat, NEW a, NEW k, Replaced(h, a, k)
  PROVE  /\ stack' \in Seq(Frames) /\ Keeps(h) /\ Len(stack') >= h
         /\ h \in Heights' /\ Op(h)' = a /\ Arg(h)' = k
         /\ \A j \in h..(Len(stack') - 1) : (j = h /\ Op(j)' = a /\ Arg(j)' = k)
                                            \/ (j # h /\ Op(j)' = "handler")
<1>1. PICK m \in {h + 1, h + 2} : Len(stack') = m
  BY DEF Replaced
<1>2. stack' \in Seq(Frames) /\ Keeps(h) /\ m >= h /\ Heights' = 0..(m - 1) /\ h \in Heights'
  BY <1>1 DEF Replaced, Keeps, Heights
<1>3. CASE m = h + 1
  <2>1. \A j \in h..(m - 1) : j = h
    BY <1>3
  <2> QED
    BY <1>1, <1>2, <2>1 DEF Replaced
<1>4. CASE m = h + 2
  <2>1. \A j \in h..(m - 1) : j = h \/ (j # h /\ j = h + 1)
    BY <1>4
  <2> QED
    BY <1>1, <1>2, <1>4, <2>1 DEF Replaced
<1> QED
  BY <1>3, <1>4

\* StoreState in terms of frames.
LEMMA Stored ==
  ASSUME ServiceInv, NEW h \in Nat, Len(stack) = h + 1,
         NEW k \in Tasks, NEW s \in States, StoreState(k, s, Rest)
  PROVE  Replaced(h, Mark(s), k) /\ tstate' = [tstate EXCEPT ![k] = s]
<1>1. Mark(s) \in Labels /\ k \in 0..MaxTasks \cup {1}
  BY ServiceAssumption DEF Mark, Labels, Tasks
<1>2. PICK p \in {<< >>, <<Frame("handler")>>} :
        p = IF bound = k THEN Notify(tstate[k], s) ELSE << >>
  BY NotifyFrames
<1>3. stack' = p \o << <<Mark(s), k>> >> \o Rest
  BY <1>2 DEF StoreState, Mark
<1>4. tstate' = [tstate EXCEPT ![k] = s]
  BY DEF StoreState
<1> QED
  BY <1>1, <1>3, <1>4, InvTypes, Replace

\* cancel() on the FX thread.
LEMMA CancelStep ==
  ASSUME ServiceInv, Cancel
  PROVE  ServiceInv'
<1>1. PICK h \in Nat : Len(stack) = h + 1 /\ Op(h) = "cancel" /\ Heights = 0..h
  BY OnTop DEF Cancel
<1>2. Op(h) \in Passing
  BY <1>1 DEF Passing
<1>3. CASE task # None /\ future[task] = "NEW"
  <2>1. Cancelling /\ StoreState(task, "CANCELLED", Rest)
    BY <1>3 DEF Cancel, CancelTask, StoreState, Cancelling
  <2>2. task \in Tasks
    BY <2>1, CancellingFields
  <2>3. Replaced(h, "inactive", task)
    <3>1. Mark("CANCELLED") = "inactive" /\ "CANCELLED" \in States
      BY DEF Mark, Active, States
    <3> QED
      BY <1>1, <2>1, <2>2, <3>1, Stored
  <2>4. /\ stack' \in Seq(Frames) /\ Keeps(h) /\ Len(stack') >= h
        /\ \A j \in h..(Len(stack') - 1) : (Op(j)' = "inactive" /\ Arg(j)' = task) \/ Op(j)' = "handler"
    BY <2>3, ReplacedFrames
  <2>5. SameFrames(Reports) /\ SameFrames({"unbind", "reset"}) /\ SameFrames(Opening)
    <3>1. \A op \in {"inactive", "handler", "cancel"} :
            op \notin Reports /\ op \notin {"unbind", "reset"} /\ op \notin Opening
      BY DEF Reports, Outcomes, Opening
    <3> QED
      BY <1>1, <2>4, <3>1, InvTypes, AboveSame
  <2>6. SameMarks(task)
    <3>1. "handler" \notin Marks /\ "cancel" \notin Marks
      BY DEF Marks
    <3> QED
      BY <1>1, <2>4, <3>1, InvTypes, AboveMarks
  <2>7. TypeOK' /\ StateInv' /\ AloneInv' /\ PostInv' /\ DueInv' /\ RunningInv' /\ RestartResets'
    BY <2>1, <2>4, <2>5, <2>6, CancellingInv
  <2>8. FrameInv'
    <3>1. UNCHANGED task
      BY <2>1 DEF Cancelling
    <3>2. ASSUME NEW j \in h..(Len(stack') - 1)
          PROVE  FrameAt(j)'
      <4>1. CASE Op(j)' = "handler"
        BY <4>1, PassingFrame DEF Passing
      <4>2. CASE Op(j)' = "inactive" /\ Arg(j)' = task
        BY <2>2, <4>2 DEF FrameAt, Reports, Outcomes, States, Tasks
      <4> QED
        BY <2>4, <4>1, <4>2
    <3> QED
      BY <1>1, <2>4, <3>1, <3>2, InvTypes, NewFrames DEF ServiceInv
  <2>9. FieldInv'
    BY <2>1, <2>5, InvTypes, KeepFields DEF ServiceInv, Cancelling
  <2>10. StartInv'
    <3>1. \A op \in Opening : (Busy' /\ Op(0)' = op) <=> (Busy /\ Op(0) = op)
      BY <2>5 DEF SameFrames, Busy
    <3>2. \A op \in Opening : Second(op)' <=> Second(op)
      BY <2>5 DEF SameFrames, Second
    <3>3. {"start", "restart", "execute", "detach", "schedule", "SCHEDULED"} = Opening
      BY DEF Opening
    <3>4. Announcing' <=> Announcing
      BY <3>2, <3>3 DEF Announcing
    <3>5. UNCHANGED <<task, lambda, handed>>
      BY <2>1 DEF Cancelling
    <3>6. tstate'[task] = "CANCELLED" /\ future'[task] = "CANCELLED"
      BY <2>1, CancellingFields
    <3> QED
      BY <1>3, <3>1, <3>3, <3>4, <3>5, <3>6 DEF StartInv, ServiceInv
  <2> QED
    BY <2>7, <2>8, <2>9, <2>10 DEF ServiceInv
<1>4. CASE ~ (task # None /\ future[task] = "NEW")
  <2>1. Aside /\ own' \in {"READY", "CANCELLED"}
    BY <1>4, InvTypes DEF Aside, Cancel, CancelTask, taskVars
  <2>2. PICK p \in {<< >>, <<Frame("handler")>>} : stack' = p \o Rest
    <3>1. \/ stack' = Rest
          \/ \E p \in {<< >>, <<Frame("handler")>>} : stack' = p \o Rest
      BY <1>4, NotifyFrames DEF Cancel, CancelTask
    <3>2. Rest = << >> \o Rest
      BY <1>1, InvTypes DEF Rest
    <3> QED
      BY <3>1, <3>2
  <2>3. p \in Seq(Frames) /\ (Len(p) = 0 \/ (Len(p) = 1 /\ p[1][1] = "handler"))
    <3>1. CASE p = << >>
      BY <3>1
    <3>2. CASE p = <<Frame("handler")>>
      <4>1. p = << <<"handler", 0>> >> /\ <<"handler", 0>> \in Frames
        BY <3>2, HandlerFrame
      <4> QED
        BY <4>1
    <3> QED
      BY <3>1, <3>2
  <2>4. /\ Keeps(h) /\ Len(stack') = h + Len(p)
        /\ \A i \in 1..Len(p) : Op(h + Len(p) - i)' = p[i][1]
    BY <1>1, <2>2, <2>3, InvTypes, Push DEF Rest
  <2>5. Len(stack') >= h /\ \A j \in h..(Len(stack') - 1) : Op(j)' \in Passing
    <3>1. CASE Len(p) = 0
      BY <2>4, <3>1
    <3>2. CASE Len(p) = 1 /\ p[1][1] = "handler"
      <4>1. Op(h + 1 - 1)' = "handler" /\ Len(stack') = h + 1
        BY <2>4, <3>2
      <4>2. h + 1 - 1 = h /\ h + 1 >= h /\ \A j \in h..(h + 1 - 1) : j = h
        OBVIOUS
      <4> QED
        BY <4>1, <4>2 DEF Passing
    <3> QED
      BY <2>3, <3>1, <3>2
  <2> QED
    BY <1>1, <1>2, <2>1, <2>4, <2>5, Transparent
<1> QED
  BY <1>3, <1>4

\* restart() cancels the task it will give up.
LEMMA RestartStep ==
  ASSUME ServiceInv, Restart
  PROVE  ServiceInv'
<1>1. PICK h \in Nat : Len(stack) = h + 1 /\ Op(h) = "restart" /\ FrameAt(h) /\ Heights = 0..h
  BY OnTop DEF Restart
<1>2. h = 0 /\ Heights = {0} /\ Busy /\ Len(stack) = 1
  BY <1>1, SmallHeights DEF FrameAt, Busy
<1>3. Rest = << >> /\ ~ lambda /\ stack \in Seq(Frames)
  BY <1>1, <1>2, InvTypes, RestEmpty DEF ServiceInv, StartInv
<1>4. "detach" \in Labels /\ "inactive" \in Labels /\ 0 \in 0..MaxTasks \cup {1}
  BY ServiceAssumption DEF Labels
<1>5. <<"detach", 0>> \in Frames /\ << <<"detach", 0>> >> \in Seq(Frames)
  BY <1>4, FrameTypes
<1>6. ~ Resetting(0) /\ others = bound
  BY <1>1, <1>2 DEF Resetting, ServiceInv, FieldInv
<1>7. CASE task # None /\ future[task] = "NEW"
  <2>1. Cancelling
    BY <1>7 DEF Restart, CancelTask, StoreState, Cancelling, svcVars
  <2>2. task \in Tasks /\ task \in 0..MaxTasks \cup {1} /\ tstate'[task] = "CANCELLED" /\ future'[task] = "CANCELLED"
        /\ UNCHANGED <<own, bound, others, task, lambda>>
    BY <2>1, CancellingFields, ServiceAssumption DEF Tasks, Cancelling
  <2>3. PICK p \in {<< >>, <<Frame("handler")>>} :
          stack' = p \o << <<"inactive", task>>, <<"detach", 0>> >>
    <3>1. PICK p \in {<< >>, <<Frame("handler")>>} :
            p = IF bound = task THEN Notify(tstate[task], "CANCELLED") ELSE << >>
      BY NotifyFrames
    <3>2. stack' = p \o << <<"inactive", task>> >> \o (<< <<"detach", 0>> >> \o << >>)
      BY <1>3, <1>7, <3>1 DEF Restart, CancelTask, StoreState, Active, Frame, None
    <3>3. << <<"detach", 0>> >> \o << >> = << <<"detach", 0>> >>
      BY <1>5
    <3>4. stack' = (p \o << <<"inactive", task>> >>) \o << <<"detach", 0>> >>
      BY <3>2, <3>3
    <3>5. <<"inactive", task>> \in Frames
      BY <1>4, <2>2, FrameTypes
    <3>6. CASE p = << >>
      <4>1. << >> \o << <<"inactive", task>> >> = << <<"inactive", task>> >>
        BY <3>5
      <4>2. << <<"inactive", task>> >> \o << <<"detach", 0>> >> = << <<"inactive", task>>, <<"detach", 0>> >>
        BY <1>5, <3>5, JoinedTwo
      <4>3. << >> \o << <<"inactive", task>>, <<"detach", 0>> >> = << <<"inactive", task>>, <<"detach", 0>> >>
        BY <1>5, <3>5, JoinedTwo
      <4> QED
        BY <3>4, <3>6, <4>1, <4>2, <4>3
    <3>7. CASE p = <<Frame("handler")>>
      <4>1. (p \o << <<"inactive", task>> >>) \o << <<"detach", 0>> >>
              = p \o << <<"inactive", task>>, <<"detach", 0>> >>
        <5>1. <<"handler", 0>> \in Frames /\ p = << <<"handler", 0>> >>
          BY <3>7, HandlerFrame
        <5>2. PICK x \in Frames, y \in Frames, z \in Frames :
                x = <<"handler", 0>> /\ y = <<"inactive", task>> /\ z = <<"detach", 0>>
          BY <1>5, <3>5, <5>1
        <5>3. (<<x>> \o <<y>>) \o <<z>> = <<x>> \o <<y, z>>
          BY JoinedTwo
        <5> QED
          BY <5>1, <5>2, <5>3
      <4> QED
        BY <3>4, <4>1
    <3> QED
      BY <3>6, <3>7
  <2>4. /\ stack' \in Seq(Frames) /\ {0, 1} \subseteq Heights' /\ Heights' \subseteq {0, 1, 2} /\ Busy'
        /\ Op(0)' = "detach" /\ Arg(0)' = 0 /\ Op(1)' = "inactive" /\ Arg(1)' = task
        /\ 2 \in Heights' => Op(2)' = "handler"
    BY <1>2, <1>3, <1>4, <2>2, <2>3, BeginTwo
  <2>5. SameFrames(Reports) /\ SameMarks(task)
    <3>1. \A op \in {"restart", "detach", "inactive", "handler"} : op \notin Reports
      BY DEF Reports, Outcomes
    <3>2. \A op \in {"restart", "detach", "handler"} : op \notin Marks
      BY DEF Marks
    <3>3. \A j \in Heights' : Op(j)' \in {"detach", "handler"} \/ (Op(j)' = "inactive" /\ Arg(j)' = task)
      BY <2>4
    <3> QED
      BY <1>1, <1>2, <3>1, <3>2, <3>3 DEF SameFrames, SameMarks
  <2>6. TypeOK' /\ StateInv' /\ AloneInv' /\ PostInv' /\ DueInv' /\ RunningInv' /\ RestartResets'
    BY <2>1, <2>4, <2>5, CancellingInv
  <2>7. FrameInv'
    <3>1. FrameAt(0)' /\ FrameAt(1)' /\ (2 \in Heights' => FrameAt(2)')
      BY <2>2, <2>4 DEF FrameAt, Reports, Outcomes, States, Tasks
    <3> QED
      BY <2>4, <3>1 DEF FrameInv
  <2>8. FieldInv'
    <3>1. \A j \in Heights' : ~ Resetting(j)'
      BY <2>4 DEF Resetting
    <3> QED
      BY <1>6, <2>2, <3>1, InvTypes DEF FieldInv
  <2>9. StartInv'
    BY <1>3, <1>7, <2>2, <2>4 DEF StartInv
  <2> QED
    BY <2>6, <2>7, <2>8, <2>9 DEF ServiceInv
<1>8. CASE task # None /\ future[task] # "NEW"
  <2>1. Aside /\ own' = own
    BY <1>8 DEF Restart, CancelTask, Aside, svcVars, taskVars
  <2>2. stack' = << <<"detach", 0>> >>
    <3>1. stack' = << <<"detach", 0>> >> \o << >>
      BY <1>3, <1>8 DEF Restart, CancelTask, Frame, None
    <3> QED
      BY <1>5, <3>1
  <2>3. stack' \in Seq(Frames) /\ Heights' = {0} /\ Busy' /\ Op(0)' = "detach"
    BY <1>4, <2>2, OneFrame
  <2>4. SameFrames(Reports) /\ SameFrames(Marks)
    <3>1. \A op \in {"restart", "detach"} : op \notin Reports /\ op \notin Marks
      BY DEF Reports, Outcomes, Marks
    <3> QED
      BY <1>1, <1>2, <2>3, <3>1 DEF SameFrames
  <2>5. UNCHANGED <<bound, others, task, created, lambda, thrown, handed>>
        /\ UNCHANGED <<tstate, running, future, body, posted>> /\ UNCHANGED taskVars
    BY <2>1 DEF Aside, taskVars
  <2>6. StateInv' /\ AloneInv' /\ PostInv' /\ DueInv' /\ RunningInv'
    BY <2>4, <2>5, KeepRest
  <2>7. TypeOK'
    BY <2>1, <2>3, InvTypes, TypeAside DEF ServiceInv
  <2>8. FrameInv'
    <3>1. FrameAt(0)'
      BY <2>3 DEF FrameAt, Reports, Outcomes, States
    <3> QED
      BY <2>3, <3>1 DEF FrameInv
  <2>9. FieldInv'
    <3>1. ~ Resetting(0)'
      BY <2>3 DEF Resetting
    <3> QED
      BY <1>6, <2>1, <2>3, <2>5, <3>1, InvTypes DEF FieldInv
  <2>10. StartInv'
    BY <1>3, <1>8, <2>3, <2>5 DEF StartInv
  <2>11. RestartResets'
    BY <2>5 DEF ServiceInv, RestartResets
  <2> QED
    BY <2>6, <2>7, <2>8, <2>9, <2>10, <2>11 DEF ServiceInv
<1>9. CASE task = None
  <2>1. Aside /\ own' = own
    BY <1>9 DEF Restart, Aside, svcVars
  <2>2. stack' = << >> \o ByRestart
    <3>1. stack' = ByRestart \o << >>
      BY <1>3, <1>9 DEF Restart
    <3>2. <<"reset", 1>> \in Frames /\ <<"start", 1>> \in Frames
      BY DEF Frames, Labels, Operations
    <3>3. ByRestart \in Seq(Frames)
      BY <3>2 DEF ByRestart
    <3> QED
      BY <3>1, <3>3
  <2>3. /\ stack' \in Seq(Frames) /\ FrameInv' /\ SameFrames(Reports) /\ SameFrames(Marks)
        /\ 1 \in Heights' /\ Resetting(1)' /\ Busy' /\ Op(0)' = "start"
    BY <1>1, <1>2, <2>2, Restarting
  <2>4. UNCHANGED <<bound, others, task, created, lambda, thrown, handed>>
        /\ UNCHANGED <<tstate, running, future, body, posted>> /\ UNCHANGED taskVars
    BY <2>1 DEF Aside, taskVars
  <2>5. StateInv' /\ AloneInv' /\ PostInv' /\ DueInv' /\ RunningInv'
    BY <2>3, <2>4, KeepRest
  <2>6. TypeOK'
    BY <2>1, <2>3, InvTypes, TypeAside DEF ServiceInv
  <2>7. FieldInv'
    BY <1>9, <2>1, <2>3, <2>4, InvTypes DEF FieldInv
  <2>8. StartInv'
    BY <1>3, <2>3, <2>4 DEF StartInv
  <2>9. RestartResets'
    BY <2>4 DEF ServiceInv, RestartResets
  <2> QED
    BY <2>3, <2>5, <2>6, <2>7, <2>8, <2>9 DEF ServiceInv
<1> QED
  BY <1>7, <1>8, <1>9

\* setState() stores running after the handlers have returned.
LEMMA SetRunningStep ==
  ASSUME ServiceInv, SetRunning
  PROVE  ServiceInv'
<1>1. PICK op \in Marks : At(op)
  BY DEF SetRunning, Marks
<1>2. PICK h \in Nat : /\ Len(stack) = h + 1 /\ Op(h) = op /\ Heights = 0..h /\ h \in Heights
                       /\ FrameAt(h) /\ Head(stack)[2] = Arg(h) /\ Head(stack) = <<op, Arg(h)>>
  BY <1>1, OnTop
<1>3. PICK k \in Tasks : k = Arg(h)
  BY <1>1, <1>2 DEF FrameAt, Marks
<1>4. Keeps(h) /\ Len(stack') = h /\ stack' \in Seq(Frames)
  BY <1>2, InvTypes, Pop DEF SetRunning, Rest, Keeps
<1>5. At("active") <=> op = "active"
  BY <1>1 DEF At
<1>6. UNCHANGED <<own, bound, others, task, startedOnce, created, lambda, thrown, handed>>
      /\ UNCHANGED <<tstate, future, body, posted>>
  BY DEF SetRunning, svcVars
<1>7. running \in [Tasks -> BOOLEAN]
  BY DEF ServiceInv, TypeOK
<1>8. running' = [running EXCEPT ![k] = (op = "active")]
  <2>1. CASE op = "active"
    <3>1. At("active") = TRUE
      BY <1>5, <2>1 DEF At
    <3> QED
      BY <1>2, <1>3, <2>1, <3>1 DEF SetRunning
  <2>2. CASE op # "active"
    <3>1. At("active") = FALSE
      BY <1>5, <2>2 DEF At
    <3> QED
      BY <1>2, <1>3, <2>2, <3>1 DEF SetRunning
  <2> QED
    BY <2>1, <2>2
<1>9. running' \in [Tasks -> BOOLEAN] /\ (running'[k] <=> op = "active")
      /\ \A l \in Tasks : l # k => running'[l] = running[l]
  BY <1>7, <1>8
<1>10. tstate[k] # "CANCELLED" => op = Mark(tstate[k])
  <2>1. RunningOf(k)
    BY DEF ServiceInv, RunningInv
  <2> QED
    BY <1>2, <1>3, <2>1 DEF RunningOf, Marks
<1>11. TypeOK'
  BY <1>4, <1>6, <1>9 DEF ServiceInv, TypeOK, Frames
<1>12. \A j \in h..(Len(stack') - 1) : FALSE
  BY <1>4
<1>13. FrameInv'
  BY <1>2, <1>4, <1>6, <1>12, InvTypes, NewFrames DEF ServiceInv
<1>14. SameFrames(Reports) /\ SameFrames({"unbind", "reset"}) /\ SameFrames(Opening) /\ SameMarks(k)
  <2>1. op \notin Reports /\ op \notin {"unbind", "reset"} /\ op \notin Opening
    BY DEF Marks, Reports, Outcomes, Opening
  <2>2. Len(stack') >= h
    BY <1>4
  <2> QED
    BY <1>2, <1>3, <1>4, <1>12, <2>1, <2>2, InvTypes, AboveSame, AboveMarks
<1>15. FieldInv' /\ StartInv'
  BY <1>6, <1>14, InvTypes, KeepFields, KeepStart DEF ServiceInv
<1>16. StateInv'
  <2>1. ASSUME NEW l \in Tasks
        PROVE  StateOf(l)'
    <3>1. StateOf(l)
      BY DEF ServiceInv, StateInv
    <3>2. CASE l = k /\ k > created
      <4>1. tstate[k] = "READY"
        BY <3>1, <3>2 DEF StateOf
      <4>2. op = "inactive"
        BY <1>10, <4>1 DEF Mark, Active
      <4>3. ~ running'[k]
        BY <1>9, <4>2
      <4> QED
        BY <1>6, <3>1, <3>2, <4>3 DEF StateOf
    <3>3. CASE l = k /\ ~ (k > created)
      BY <1>6, <3>1, <3>3 DEF StateOf
    <3>4. CASE l # k
      BY <1>6, <1>9, <3>1, <3>4 DEF StateOf
    <3> QED
      BY <3>2, <3>3, <3>4
  <2> QED
    BY <1>6, <2>1 DEF ServiceInv, StateInv, Tasks
<1>17. AloneInv'
  BY <1>6 DEF ServiceInv, AloneInv
<1>18. PostInv' /\ DueInv'
  <2>1. \A l \in Tasks : PostedRight(l)'
    BY <1>6 DEF ServiceInv, PostInv, PostedRight, Due
  <2>2. (\A l \in Tasks : StartShown(l)') /\ DueInv'
    BY <1>6, <1>14, KeepShown DEF ServiceInv, PostInv
  <2> QED
    BY <2>1, <2>2 DEF PostInv, Tasks
<1>19. RunningInv'
  <2>1. RunningOf(k)'
    <3> SUFFICES ASSUME tstate[k] # "CANCELLED"
                 PROVE  /\ running'[k] <=> tstate[k] \in Active
                        /\ \A j \in Heights' : Op(j)' \in {"active", "inactive"} /\ Arg(j)' = k
                                                 => Op(j)' = Mark(tstate[k])
      BY <1>6 DEF RunningOf, Mark
    <3>1. running'[k] <=> tstate[k] \in Active
      BY <1>9, <1>10 DEF Mark
    <3>2. ASSUME NEW j \in Heights', Op(j)' \in {"active", "inactive"}, Arg(j)' = k
          PROVE  Op(j)' = Mark(tstate[k])
      <4>1. j \in 0..(h - 1)
        BY <1>4 DEF Heights
      <4>2. j \in Heights /\ Op(j)' = Op(j) /\ Arg(j)' = Arg(j)
        BY <1>2, <1>4, <4>1 DEF Keeps
      <4> QED
        BY <3>2, <4>2 DEF ServiceInv, RunningInv, RunningOf
    <3> QED
      BY <3>1, <3>2
  <2>2. ASSUME NEW l \in Tasks, l # k
        PROVE  RunningOf(l)'
    BY <1>6, <1>9, <1>14, <2>2, KeepOthersRunning DEF ServiceInv
  <2> QED
    BY <2>1, <2>2 DEF RunningInv, Tasks
<1>20. RestartResets'
  BY <1>6 DEF ServiceInv, RestartResets
<1> QED
  BY <1>11, <1>13, <1>15, <1>16, <1>17, <1>18, <1>19, <1>20 DEF ServiceInv

\* The three ways in which a state comes to be stored: by start(), which
\* announces the task, and by the first and the second half of a runnable.
LEMMA StoreCases ==
  ASSUME ServiceInv, NEW k \in Tasks, NEW s \in States, At(s), Head(stack)[2] = k
  PROVE  \E h \in Nat :
           /\ Len(stack) = h + 1 /\ Op(h) = s /\ Arg(h) = k /\ Heights = 0..h
           /\ \/ h = 1 /\ s = "SCHEDULED" /\ Op(0) = "execute" /\ k = task
              \/ h = 1 /\ s = "SCHEDULED" /\ Op(0) = "RUNNING" /\ Arg(0) = k
              \/ h = 0 /\ s \in Reports
<1>1. PICK h \in Nat : /\ Len(stack) = h + 1 /\ Op(h) = s /\ Heights = 0..h
                       /\ FrameAt(h) /\ Head(stack)[2] = Arg(h)
  BY OnTop
<1>2. s # "READY"
  BY <1>1 DEF FrameAt
<1>3. s = "SCHEDULED" \/ s \in Reports
  BY <1>2 DEF States, Reports, Outcomes
<1>4. CASE s \in Reports
  BY <1>1, <1>4 DEF FrameAt
<1>5. CASE s = "SCHEDULED"
  BY <1>1, <1>5 DEF FrameAt
<1> QED
  BY <1>1, <1>3, <1>4, <1>5

\* A state that comes too late is ignored.
LEMMA SetStateIgnored ==
  ASSUME ServiceInv, NEW k \in Tasks, NEW s \in States, SetState(k, s),
         tstate[k] = "CANCELLED"
  PROVE  ServiceInv'
<1>1. PICK h \in Nat :
        /\ Len(stack) = h + 1 /\ Op(h) = s /\ Arg(h) = k /\ Heights = 0..h
        /\ \/ h = 1 /\ s = "SCHEDULED" /\ Op(0) = "execute" /\ k = task
           \/ h = 1 /\ s = "SCHEDULED" /\ Op(0) = "RUNNING" /\ Arg(0) = k
           \/ h = 0 /\ s \in Reports
  BY StoreCases DEF SetState
<1>2. Keeps(h) /\ Len(stack') = h /\ stack' \in Seq(Frames)
  BY <1>1, InvTypes, Pop DEF SetState, Rest, Keeps
<1>3. Aside /\ own' = own
  BY DEF SetState, Aside, svcVars, taskVars
<1>4. UNCHANGED <<bound, others, task, created, lambda, thrown, handed>>
      /\ UNCHANGED <<tstate, running, future, body, posted>> /\ UNCHANGED taskVars
  BY <1>3 DEF Aside, taskVars
<1>5. TypeOK'
  BY <1>2, <1>3, InvTypes, TypeAside DEF ServiceInv
<1>6. \A j \in h..(Len(stack') - 1) : FALSE
  BY <1>2
<1>7. FrameInv'
  BY <1>1, <1>2, <1>4, <1>6, InvTypes, NewFrames DEF ServiceInv
<1>8. SameFrames(Marks) /\ SameFrames({"unbind", "reset"})
  <2>1. s \notin Marks /\ s \notin {"unbind", "reset"}
    BY DEF Marks, States
  <2>2. Len(stack') >= h
    BY <1>2
  <2> QED
    BY <1>1, <1>2, <1>6, <2>1, <2>2, InvTypes, AboveSame
<1>9. FieldInv'
  BY <1>3, <1>4, <1>8, InvTypes, KeepFields DEF ServiceInv
<1>10. StateInv' /\ AloneInv'
  BY <1>4, KeepTasks DEF ServiceInv
<1>11. RunningInv'
  BY <1>4, <1>8, KeepRunning DEF ServiceInv
<1>12. Heights' = 0..(h - 1) /\ (Busy' <=> h = 1) /\ (h = 1 => Op(0)' = Op(0) /\ Arg(0)' = Arg(0))
       /\ ~ (1 \in Heights')
  BY <1>1, <1>2 DEF Heights, Busy, Keeps
<1>13. Busy
  BY <1>1 DEF Busy
<1>14. StartInv'
  <2>1. ~ Announcing' /\ ~ Second("SCHEDULED")'
    BY <1>12 DEF Announcing, Second
  <2>2. ASSUME Busy'
        PROVE  Busy /\ Op(0)' = Op(0) /\ Op(0) \in {"execute", "RUNNING"} /\ Op(1) = "SCHEDULED"
               /\ (Op(0) = "execute" => k = task)
    BY <1>1, <1>12, <1>13, <2>2
  <2>3. Busy' => ~ Announcing
    BY <2>2 DEF Announcing, Second
  <2> QED
    BY <1>4, <1>13, <2>1, <2>2, <2>3 DEF ServiceInv, StartInv
<1>15. PostInv'
  <2>1. \A l \in Tasks : PostedRight(l)'
    BY <1>4 DEF ServiceInv, PostInv, PostedRight, Due
  <2>2. ASSUME NEW l \in Tasks
        PROVE  StartShown(l)'
    <3>1. StartShown(l)
      BY DEF ServiceInv, PostInv
    <3>2. StartPosted(l)' <=> StartPosted(l)
      BY <1>4 DEF StartPosted
    <3>3. CASE l = k
      BY <1>4, <3>3 DEF StartShown, Reports
    <3>4. CASE l # k
      BY <1>1, <1>4, <1>12, <3>1, <3>2, <3>4 DEF StartShown
    <3> QED
      BY <3>3, <3>4
  <2> QED
    BY <2>1, <2>2 DEF PostInv, Tasks
<1>16. DueInv'
  <2>1. \A l : StartPosted(l)' <=> StartPosted(l)
    BY <1>4 DEF StartPosted
  <2> QED
    BY <1>4, <1>12, <1>13, <2>1 DEF ServiceInv, DueInv, Due
<1>17. RestartResets'
  BY <1>4 DEF ServiceInv, RestartResets
<1> QED
  BY <1>5, <1>7, <1>9, <1>10, <1>11, <1>14, <1>15, <1>16, <1>17 DEF ServiceInv

\* A state that is stored.
LEMMA SetStateStored ==
  ASSUME ServiceInv, NEW k \in Tasks, NEW s \in States, SetState(k, s),
         tstate[k] # "CANCELLED"
  PROVE  ServiceInv'
<1>1. PICK h \in Nat :
        /\ Len(stack) = h + 1 /\ Op(h) = s /\ Arg(h) = k /\ Heights = 0..h
        /\ \/ h = 1 /\ s = "SCHEDULED" /\ Op(0) = "execute" /\ k = task
           \/ h = 1 /\ s = "SCHEDULED" /\ Op(0) = "RUNNING" /\ Arg(0) = k
           \/ h = 0 /\ s \in Reports
  BY StoreCases DEF SetState
<1>2. Replaced(h, Mark(s), k) /\ tstate' = [tstate EXCEPT ![k] = s]
  BY <1>1, Stored DEF SetState
<1>3. /\ stack' \in Seq(Frames) /\ Keeps(h) /\ Len(stack') >= h
      /\ h \in Heights' /\ Op(h)' = Mark(s) /\ Arg(h)' = k
      /\ \A j \in h..(Len(stack') - 1) : (j = h /\ Op(j)' = Mark(s) /\ Arg(j)' = k)
                                         \/ (j # h /\ Op(j)' = "handler")
  BY <1>2, ReplacedFrames
<1>4. Busy /\ Busy' /\ (h = 1 => Op(0)' = Op(0) /\ Arg(0)' = Arg(0)) /\ (h = 0 => Op(0)' = Mark(s))
  <2>1. Busy' /\ Busy
    BY <1>1, <1>3 DEF Busy, Heights
  <2> QED
    BY <1>3, <2>1 DEF Keeps
<1>5. tstate \in [Tasks -> States]
  BY DEF ServiceInv, TypeOK
<1>6. tstate'[k] = s /\ (\A l \in Tasks : l # k => tstate'[l] = tstate[l]) /\ tstate' \in [Tasks -> States]
  BY <1>2, <1>5
<1>7. UNCHANGED <<own, bound, others, task, startedOnce, created, lambda, thrown, handed>>
      /\ UNCHANGED <<running, future, body, posted>>
  BY DEF SetState, svcVars
<1>8. StateOf(k) /\ PostedRight(k) /\ StartShown(k) /\ task <= created
  BY DEF ServiceInv, StateInv, PostInv
<1>9. Mark(s) \in Marks
  BY DEF Mark, Marks
\* What is known of k in the three cases.
<1>10. ASSUME h = 1, Op(0) = "execute"
       PROVE  s = "SCHEDULED" /\ k = task /\ k \notin handed /\ body[k] = "ready" /\ ~ lambda
              /\ ~ (k > created)
  <2>1. s = "SCHEDULED" /\ k = task /\ Op(1) = "SCHEDULED"
    BY <1>1, <1>10
  <2>2. ~ Announcing
    BY <2>1 DEF Announcing, Second
  <2>3. k \notin handed /\ ~ lambda
    BY <1>4, <1>10, <2>1, <2>2 DEF ServiceInv, StartInv
  <2>4. ~ (k > created)
    BY <1>8, <2>1, InvTypes, ServiceAssumption
  <2> QED
    BY <1>8, <2>1, <2>3, <2>4 DEF StateOf
<1>11. ASSUME h = 1, Op(0) # "execute"
       PROVE  s = "SCHEDULED" /\ Op(0) = "RUNNING" /\ Arg(0) = k /\ tstate[k] = "SCHEDULED"
              /\ body[k] \notin {"ready", "skipped"}
  <2>1. s = "SCHEDULED" /\ Op(0) = "RUNNING" /\ Arg(0) = k
    BY <1>1, <1>11
  <2>2. Due(k, "RUNNING")
    BY <1>4, <2>1 DEF ServiceInv, DueInv, Reports
  <2> QED
    BY <2>1, <2>2 DEF Due
<1>12. ASSUME h = 0
       PROVE  /\ s \in Reports /\ Due(k, s) /\ Op(0) = s /\ Arg(0) = k
              /\ s = "RUNNING" => ~ StartPosted(k)
              /\ s \in Outcomes => /\ tstate[k] = "RUNNING"
                                   /\ \A i \in 1..Len(posted[k]) : posted[k][i] \notin Outcomes
  BY <1>1, <1>4, <1>12 DEF ServiceInv, DueInv
<1>13. h \in {0, 1}
  BY <1>1
<1>14. s \in Reports \/ s = "SCHEDULED"
  BY <1>1
<1>15. TypeOK'
  BY <1>3, <1>6, <1>7 DEF ServiceInv, TypeOK, Frames
<1>16. FrameInv'
  <2>1. ASSUME NEW j \in h..(Len(stack') - 1)
        PROVE  FrameAt(j)'
    <3>1. CASE j # h
      <4>1. Op(j)' \in Passing
        BY <1>3, <3>1 DEF Passing
      <4> QED
        BY <4>1, PassingFrame
    <3>2. CASE j = h
      <4>1. Op(j)' \in {"active", "inactive"} /\ Arg(j)' = k
        BY <1>3, <1>9, <3>2 DEF Marks
      <4>2. h = 1 => Op(0)' \in {"execute", "RUNNING"}
        BY <1>4, <1>11
      <4> QED
        BY <1>13, <3>2, <4>1, <4>2 DEF FrameAt, Reports, Outcomes, States, Tasks
    <3> QED
      BY <3>1, <3>2
  <2> QED
    BY <1>1, <1>3, <1>7, <2>1, InvTypes, NewFrames DEF ServiceInv
<1>17. FieldInv'
  <2>1. \A op \in Marks \cup States \cup {"handler"} : op \notin {"unbind", "reset"}
    BY DEF Marks, States
  <2>2. SameFrames({"unbind", "reset"})
    BY <1>1, <1>3, <1>9, <2>1, InvTypes, AboveSame
  <2> QED
    BY <1>7, <2>2, InvTypes, KeepFields DEF ServiceInv
<1>18. StartInv'
  <2>1. CASE h = 0
    <3>1. Op(0)' \notin {"start", "restart", "execute", "detach"}
      BY <1>4, <1>9, <2>1 DEF Marks
    <3>2. ASSUME lambda, task # None
          PROVE  tstate'[task] \in {"READY", "CANCELLED"} /\ task \notin handed
      <4>1. tstate[task] \in {"READY", "CANCELLED"} /\ task \notin handed
        BY <3>2 DEF ServiceInv, StartInv
      <4>2. CASE k = task
        <5>1. body[k] = "ready"
          BY <1>8, <4>1, <4>2 DEF StateOf
        <5>2. s = "CANCELLED"
          BY <1>12, <2>1, <5>1 DEF Due, Reports, Outcomes
        <5> QED
          BY <1>6, <4>1, <4>2, <5>2
      <4>3. CASE k # task
        <5>1. task \in Tasks
          BY <3>2, InvTypes, ServiceAssumption DEF Tasks, None
        <5> QED
          BY <1>6, <4>1, <4>3, <5>1
      <4> QED
        BY <4>2, <4>3
    <3> QED
      BY <1>7, <3>1, <3>2 DEF StartInv
  <2>2. CASE h = 1 /\ Op(0) = "execute"
    <3>1. ~ Announcing'
      BY <1>3, <1>9, <2>2 DEF Announcing, Second, Marks
    <3>2. s = "SCHEDULED" /\ k = task /\ k \notin handed /\ ~ lambda
      BY <1>10, <2>2
    <3>3. task # None
      BY <3>2 DEF Tasks, None
    <3>4. tstate'[task] # "READY"
      BY <1>6, <3>2
    <3>5. Op(0)' = "execute"
      BY <1>4, <2>2
    <3> QED
      BY <1>7, <3>1, <3>2, <3>3, <3>4, <3>5 DEF StartInv
  <2>3. CASE h = 1 /\ Op(0) # "execute"
    <3>1. tstate[k] = "SCHEDULED" /\ s = "SCHEDULED" /\ Op(0) = "RUNNING"
      BY <1>11, <2>3
    <3>2. tstate' = tstate
      BY <1>2, <1>5, <3>1
    <3>3. Op(0)' = "RUNNING"
      BY <1>4, <2>3, <3>1
    <3> QED
      BY <1>4, <1>7, <3>2, <3>3 DEF ServiceInv, StartInv
  <2> QED
    BY <1>13, <2>1, <2>2, <2>3
<1>19. StateInv'
  <2>1. StateOf(k)'
    <3>1. CASE h = 0
      <4>1. ~ (k > created)
        <5> SUFFICES ASSUME k > created
                     PROVE  FALSE
          OBVIOUS
        <5>1. tstate[k] = "READY" /\ future[k] = "NEW" /\ body[k] = "ready"
          BY <1>8 DEF StateOf
        <5> QED
          BY <1>12, <3>1, <5>1 DEF Due, Reports, Outcomes
      <4>2. s \in Reports /\ Due(k, s)
        BY <1>12, <3>1
      <4> QED
        BY <1>6, <1>7, <1>8, <4>1, <4>2 DEF StateOf, Due, Reports, Outcomes
    <3>2. CASE h = 1 /\ Op(0) = "execute"
      <4>1. s = "SCHEDULED" /\ ~ (k > created)
        BY <1>10, <3>2
      <4> QED
        BY <1>6, <1>7, <1>8, <4>1 DEF StateOf
    <3>3. CASE h = 1 /\ Op(0) # "execute"
      <4>1. s = "SCHEDULED" /\ tstate[k] = "SCHEDULED"
        BY <1>11, <3>3
      <4> QED
        BY <1>6, <1>7, <1>8, <4>1 DEF StateOf
    <3> QED
      BY <1>13, <3>1, <3>2, <3>3
  <2>2. ASSUME NEW l \in Tasks, l # k
        PROVE  StateOf(l)'
    BY <1>6, <1>7, <2>2 DEF ServiceInv, StateInv, StateOf
  <2> QED
    BY <1>7, <1>8, <2>1, <2>2 DEF StateInv, Tasks
<1>20. AloneInv'
  BY <1>7 DEF ServiceInv, AloneInv
<1>21. PostInv'
  <2>1. PostedRight(k)'
    <3>1. ASSUME NEW i \in 1..Len(posted[k])
          PROVE  Due(k, posted[k][i])'
      <4>1. Due(k, posted[k][i]) /\ posted[k][i] \in Reports
            /\ (posted[k][i] = "RUNNING" => i = 1)
        BY <1>8 DEF PostedRight
      <4>2. CASE s = "SCHEDULED"
        BY <1>6, <1>7, <4>1, <4>2 DEF Due, Outcomes
      <4>3. CASE s = "CANCELLED"
        BY <1>6, <1>7, <4>1, <4>3 DEF Due, Outcomes
      <4>4. CASE s = "RUNNING"
        <5>1. h = 0
          BY <1>1, <4>4
        <5>2. posted[k] # << >>
          OBVIOUS
        <5>3. posted[k][i] # "RUNNING"
          BY <1>12, <4>1, <4>4, <5>1, <5>2 DEF StartPosted
        <5> QED
          BY <1>6, <1>7, <4>1, <4>4, <5>3 DEF Due, Outcomes
      <4>5. CASE s \in Outcomes
        <5>1. h = 0
          BY <1>1, <4>5 DEF Outcomes
        <5>2. tstate[k] = "RUNNING" /\ posted[k][i] \notin Outcomes
          BY <1>12, <4>5, <5>1
        <5> QED
          BY <1>6, <1>7, <4>1, <4>5, <5>2 DEF Due, Outcomes
      <4> QED
        BY <1>14, <4>2, <4>3, <4>4, <4>5 DEF Reports
    <3> QED
      BY <1>7, <1>8, <3>1 DEF PostedRight
  <2>2. ASSUME NEW l \in Tasks, l # k
        PROVE  PostedRight(l)'
    BY <1>6, <1>7, <2>2 DEF ServiceInv, PostInv, PostedRight, Due
  <2>3. \A l : StartPosted(l)' <=> StartPosted(l)
    BY <1>7 DEF StartPosted
  <2>4. StartShown(k)'
    <3>1. CASE h = 0
      BY <1>6, <1>12, <3>1 DEF StartShown
    <3>2. CASE h = 1 /\ Op(0) = "execute"
      <4>1. body[k] = "ready"
        BY <1>10, <3>2
      <4> QED
        BY <1>7, <4>1 DEF StartShown
    <3>3. CASE h = 1 /\ Op(0) # "execute"
      BY <1>4, <1>11, <3>3 DEF StartShown
    <3> QED
      BY <1>13, <3>1, <3>2, <3>3
  <2>5. ASSUME NEW l \in Tasks, l # k
        PROVE  StartShown(l)'
    <3>1. StartShown(l)
      BY DEF ServiceInv, PostInv
    <3>2. ASSUME Busy, Op(0) = "RUNNING", Arg(0) = l
          PROVE  Busy' /\ Op(0)' = "RUNNING" /\ Arg(0)' = l
      <4>1. h = 1
        BY <1>12, <1>13, <2>5, <3>2
      <4> QED
        BY <1>4, <3>2, <4>1
    <3> QED
      BY <1>6, <1>7, <2>3, <2>5, <3>1, <3>2 DEF StartShown
  <2> QED
    BY <2>1, <2>2, <2>4, <2>5 DEF PostInv, Tasks
<1>22. DueInv'
  <2>1. CASE h = 0
    <3>1. Op(0)' \notin Reports
      BY <1>4, <1>9, <2>1 DEF Marks, Reports, Outcomes
    <3> QED
      BY <3>1 DEF DueInv
  <2>2. CASE h = 1 /\ Op(0) = "execute"
    <3>1. Op(0)' \notin Reports
      BY <1>4, <2>2 DEF Reports, Outcomes
    <3> QED
      BY <3>1 DEF DueInv
  <2>3. CASE h = 1 /\ Op(0) # "execute"
    <3>1. tstate[k] = "SCHEDULED" /\ s = "SCHEDULED"
      BY <1>11, <2>3
    <3>2. tstate' = tstate
      BY <1>2, <1>5, <3>1
    <3>3. StartPosted(Arg(0))' <=> StartPosted(Arg(0))
      BY <1>4, <1>7, <2>3 DEF StartPosted
    <3> QED
      BY <1>4, <1>7, <2>3, <3>2, <3>3 DEF ServiceInv, DueInv, Due
  <2> QED
    BY <1>13, <2>1, <2>2, <2>3
<1>23. RunningInv'
  <2>1. RunningOf(k)'
    <3>1. ASSUME NEW j \in Heights', Op(j)' \in {"active", "inactive"}, Arg(j)' = k
          PROVE  Op(j)' = Mark(s)
      <4>1. CASE j \in h..(Len(stack') - 1)
        BY <1>3, <3>1, <4>1
      <4>2. CASE ~ (j \in h..(Len(stack') - 1))
        <5>1. PICK m \in Nat : m = Len(stack') /\ Heights' = 0..(m - 1)
          BY <1>3 DEF Heights
        <5>2. j \in 0..(h - 1)
          BY <4>2, <5>1
        <5>3. h = 1 /\ j = 0
          BY <1>13, <5>2
        <5>4. Op(0)' \in {"execute", "RUNNING"}
          BY <1>1, <1>4, <5>3
        <5> QED
          BY <3>1, <5>3, <5>4
      <4> QED
        BY <4>1, <4>2
    <3>2. Mark(tstate[k])' = Mark(s)
      BY <1>6 DEF Mark
    <3> QED
      BY <1>3, <3>1, <3>2 DEF RunningOf
  <2>2. SameMarks(k)
    <3>1. "handler" \notin Marks /\ s \notin Marks
      BY DEF Marks, States
    <3> QED
      BY <1>1, <1>3, <3>1, InvTypes, AboveMarks
  <2>3. ASSUME NEW l \in Tasks, l # k
        PROVE  RunningOf(l)'
    BY <1>6, <1>7, <2>2, <2>3, KeepOthersRunning DEF ServiceInv
  <2> QED
    BY <2>1, <2>3 DEF RunningInv, Tasks
<1>24. RestartResets'
  BY <1>7 DEF ServiceInv, RestartResets
<1> QED
  BY <1>15, <1>16, <1>17, <1>18, <1>19, <1>20, <1>21, <1>22, <1>23, <1>24 DEF ServiceInv

\* setState(): stored or ignored.
LEMMA SetStateStep ==
  ASSUME ServiceInv, NEW k \in Tasks, NEW s \in States, SetState(k, s)
  PROVE  ServiceInv'
BY SetStateIgnored, SetStateStored
-----------------------------------------------------------------------------
(***************************************************************************)
(* Steps of the executor's threads, and the runnables they have posted.    *)
(***************************************************************************)
\* A step of another thread keeps what concerns the FX thread.
LEMMA Background ==
  ASSUME ServiceInv, UNCHANGED <<svcVars, lambda, stack, thrown, handed, tstate, running>>,
         \A k \in Tasks : future[k] # "NEW" => future'[k] # "NEW"
  PROVE  /\ FrameInv' /\ FieldInv' /\ StartInv' /\ RunningInv' /\ RestartResets'
         /\ (Busy' <=> Busy) /\ Op(0)' = Op(0) /\ Arg(0)' = Arg(0)
         /\ stack' \in Seq(Frames)
         /\ UNCHANGED <<own, bound, others, task, startedOnce, created, lambda, thrown, handed,
                        tstate, running>>
<1>1. Heights' = Heights /\ (\A j : Op(j)' = Op(j) /\ Arg(j)' = Arg(j)) /\ (Busy' <=> Busy)
      /\ stack' \in Seq(Frames)
  BY InvTypes DEF Heights, Op, Arg, Busy
<1>2. UNCHANGED <<own, bound, others, task, startedOnce, created, lambda, thrown, handed,
                  tstate, running>>
  BY DEF svcVars
<1>3. FrameInv'
  BY <1>1, <1>2 DEF ServiceInv, FrameInv, FrameAt
<1>4. FieldInv'
  BY <1>2, InvTypes, Unmoved, KeepFields DEF ServiceInv
<1>5. StartInv'
  <2>1. \A op : Second(op)' <=> Second(op)
    BY <1>1 DEF Second
  <2>2. Announcing' <=> Announcing
    BY <2>1 DEF Announcing
  <2>3. task # None => task \in Tasks
    BY InvTypes, ServiceAssumption DEF Tasks, None
  <2> QED
    BY <1>1, <1>2, <2>1, <2>2, <2>3 DEF ServiceInv, StartInv
<1>6. RunningInv'
  BY <1>2, Unmoved, KeepRunning DEF ServiceInv
<1>7. RestartResets'
  BY <1>2 DEF ServiceInv, RestartResets
<1> QED
  BY <1>1, <1>2, <1>3, <1>4, <1>5, <1>6, <1>7

\* A runnable of task k goes to the end of the queue.
LEMMA PostedOne ==
  ASSUME posted \in [Tasks -> Seq(States)], NEW k \in Tasks, NEW r \in States, Post(k, r)
  PROVE  /\ posted' \in [Tasks -> Seq(States)]
         /\ Len(posted'[k]) = Len(posted[k]) + 1
         /\ \A i \in 1..Len(posted[k]) : posted'[k][i] = posted[k][i]
         /\ posted'[k][Len(posted[k]) + 1] = r
         /\ \A l \in Tasks : l # k => posted'[l] = posted[l]
<1>1. posted[k] \in Seq(States) /\ Append(posted[k], r) \in Seq(States)
  OBVIOUS
<1>2. posted'[k] = Append(posted[k], r) /\ posted' \in [Tasks -> Seq(States)]
      /\ \A l \in Tasks : l # k => posted'[l] = posted[l]
  BY <1>1 DEF Post
<1> QED
  BY <1>1, <1>2

\* The state r is posted behind what has been posted; it is no second
\* outcome, and RUNNING only if it is the first.
LEMMA PostedAnother ==
  ASSUME posted \in [Tasks -> Seq(States)], NEW k \in Tasks, NEW r \in Reports, Post(k, r),
         PostedRight(k), body'[k] \notin {"ready", "skipped"},
         r = "RUNNING" => posted[k] = << >>, Due(k, r)',
         \A i \in 1..Len(posted[k]) : Due(k, posted[k][i])'
                                      /\ (r \in Outcomes => posted[k][i] \notin Outcomes)
  PROVE  PostedRight(k)'
<1>1. r \in States
  BY DEF Reports, Outcomes, States
<1>2. PICK n \in Nat : n = Len(posted[k])
  BY <1>1
<1>3. /\ Len(posted'[k]) = n + 1
      /\ \A i \in 1..n : posted'[k][i] = posted[k][i]
      /\ posted'[k][n + 1] = r
  BY <1>1, <1>2, PostedOne
<1>4. \A i \in 1..(n + 1) : i \in 1..n \/ i = n + 1
  OBVIOUS
<1>5. \A i \in 1..n : posted[k][i] \in Reports /\ (posted[k][i] = "RUNNING" => i = 1)
  BY <1>2 DEF PostedRight
<1>6. \A i, j \in 1..n : posted[k][i] \in Outcomes /\ posted[k][j] \in Outcomes => i = j
  BY <1>2 DEF PostedRight
<1>7. r = "RUNNING" => n = 0
  BY <1>2
<1>8. ASSUME NEW i \in 1..(n + 1)
      PROVE  posted'[k][i] \in Reports /\ (posted'[k][i] = "RUNNING" => i = 1)
             /\ Due(k, posted[k][i])'
  <2>1. CASE i \in 1..n
    <3>1. posted'[k][i] = posted[k][i] /\ Due(k, posted[k][i])'
      BY <1>2, <1>3, <2>1
    <3> QED
      BY <1>5, <2>1, <3>1 DEF Due
  <2>2. CASE i = n + 1
    BY <1>3, <1>7, <2>2 DEF Due
  <2> QED
    BY <1>4, <2>1, <2>2
<1>9. ASSUME NEW i \in 1..(n + 1), NEW j \in 1..(n + 1),
             posted'[k][i] \in Outcomes, posted'[k][j] \in Outcomes
      PROVE  i = j
  BY <1>2, <1>3, <1>4, <1>6, <1>9
<1> QED
  BY <1>3, <1>8, <1>9 DEF PostedRight

\* What stays as it is when the threads have touched task k only.
LEMMA OtherTasks ==
  ASSUME ServiceInv, NEW k \in Tasks,
         (Busy' <=> Busy) /\ Op(0)' = Op(0) /\ Arg(0)' = Arg(0),
         UNCHANGED <<task, created, handed, tstate, running>>,
         \A l \in Tasks : l # k => /\ body'[l] = body[l] /\ future'[l] = future[l]
                                   /\ posted'[l] = posted[l],
         StateOf(k)', PostedRight(k)', StartShown(k)',
         body'[k] \in {"ready", "call"} /\ future'[k] = "NEW"
           => body[k] \in {"ready", "call"} /\ future[k] = "NEW",
         Busy /\ Op(0) \in Reports /\ Arg(0) = k => DueInv'
  PROVE  StateInv' /\ AloneInv' /\ PostInv' /\ DueInv'
<1>1. StateInv'
  <2>1. ASSUME NEW l \in Tasks, l # k
        PROVE  StateOf(l)'
    BY <2>1 DEF ServiceInv, StateInv, StateOf
  <2> QED
    BY <2>1 DEF ServiceInv, StateInv, Tasks
<1>2. AloneInv'
  <2>1. handed \subseteq Tasks
    BY DEF ServiceInv, TypeOK
  <2> QED
    BY <2>1 DEF ServiceInv, AloneInv
<1>3. PostInv'
  <2>1. ASSUME NEW l \in Tasks, l # k
        PROVE  PostedRight(l)' /\ StartShown(l)'
    <3>1. PostedRight(l) /\ StartShown(l)
      BY DEF ServiceInv, PostInv
    <3>2. PostedRight(l)'
      BY <2>1, <3>1 DEF PostedRight, Due
    <3>3. StartShown(l)'
      BY <2>1, <3>1 DEF StartShown, StartPosted
    <3> QED
      BY <3>2, <3>3
  <2> QED
    BY <2>1 DEF PostInv, Tasks
<1>4. DueInv'
  <2> SUFFICES ASSUME Busy, Op(0) \in Reports, Arg(0) # k
               PROVE  DueInv'
    BY DEF DueInv
  <2>1. FrameAt(0)
    BY DEF ServiceInv, FrameInv, Busy
  <2>2. PICK l \in Tasks : l = Arg(0) /\ l # k
    BY <2>1 DEF FrameAt, Reports, Outcomes, States
  <2>3. body'[l] = body[l] /\ future'[l] = future[l] /\ posted'[l] = posted[l]
    BY <2>2
  <2>4. StartPosted(l)' <=> StartPosted(l)
    BY <2>3 DEF StartPosted
  <2> QED
    BY <2>2, <2>3, <2>4 DEF ServiceInv, DueInv, Due
<1> QED
  BY <1>1, <1>2, <1>3, <1>4

\* What the invariant says of one task.
LEMMA TaskFacts ==
  ASSUME ServiceInv, NEW k \in Tasks
  PROVE  /\ StateOf(k) /\ PostedRight(k) /\ StartShown(k)
         /\ tstate[k] \in States /\ posted[k] \in Seq(States)
         /\ posted \in [Tasks -> Seq(States)]
         /\ body \in [Tasks -> {"ready", "skipped", "call", "set", "setException"}]
         /\ future \in [Tasks -> {"NEW", "NORMAL", "EXCEPTIONAL", "CANCELLED"}]
         /\ Busy /\ Op(0) \in Reports /\ Arg(0) = k =>
              /\ Due(k, Op(0))
              /\ Op(0) = "RUNNING" => ~ StartPosted(k)
              /\ Op(0) \in Outcomes =>
                   /\ tstate[k] \in {"RUNNING", "CANCELLED"}
                   /\ \A i \in 1..Len(posted[k]) : posted[k][i] \notin Outcomes
BY DEF ServiceInv, StateInv, PostInv, TypeOK, DueInv

\* The executor begins a task.
LEMMA BeginStep ==
  ASSUME ServiceInv, NEW k \in Tasks, Begin(k)
  PROVE  ServiceInv'
<1>1. UNCHANGED <<svcVars, lambda, stack, thrown, handed, tstate, running, future>>
      /\ k \in handed /\ body[k] = "ready"
  BY DEF Begin
<1>2. /\ FrameInv' /\ FieldInv' /\ StartInv' /\ RunningInv' /\ RestartResets'
      /\ (Busy' <=> Busy) /\ Op(0)' = Op(0) /\ Arg(0)' = Arg(0)
      /\ stack' \in Seq(Frames)
      /\ UNCHANGED <<own, bound, others, task, startedOnce, created, lambda, thrown, handed,
                     tstate, running>>
  BY <1>1, Background
<1>3. /\ StateOf(k) /\ PostedRight(k) /\ tstate[k] \in States
      /\ posted \in [Tasks -> Seq(States)]
      /\ body \in [Tasks -> {"ready", "skipped", "call", "set", "setException"}]
      /\ Busy /\ Op(0) \in Reports /\ Arg(0) = k => Due(k, Op(0))
  BY TaskFacts
<1>4. posted[k] = << >> /\ tstate[k] \in {"SCHEDULED", "CANCELLED"} /\ ~ (k > created)
  BY <1>1, <1>3 DEF PostedRight, StateOf, States
<1>5. ASSUME Busy, Op(0) \in Reports, Arg(0) = k
      PROVE  Op(0) = "CANCELLED" /\ future[k] = "CANCELLED"
  BY <1>1, <1>3, <1>5 DEF Due, Reports, Outcomes
<1>6. Busy /\ Op(0) \in Reports /\ Arg(0) = k => DueInv'
  BY <1>1, <1>2, <1>5 DEF DueInv, Due, Outcomes
<1>7. CASE future[k] = "NEW"
  <2>1. body' = [body EXCEPT ![k] = "call"] /\ Post(k, "RUNNING")
    BY <1>7 DEF Begin
  <2>2. body'[k] = "call" /\ (\A l \in Tasks : l # k => body'[l] = body[l])
        /\ body' \in [Tasks -> {"ready", "skipped", "call", "set", "setException"}]
    BY <1>3, <2>1
  <2>3. "RUNNING" \in States /\ "RUNNING" \in Reports
    BY DEF States, Reports
  <2>4. /\ posted' \in [Tasks -> Seq(States)]
        /\ Len(posted'[k]) = Len(posted[k]) + 1
        /\ posted'[k][Len(posted[k]) + 1] = "RUNNING"
        /\ \A l \in Tasks : l # k => posted'[l] = posted[l]
    BY <1>3, <2>1, <2>3, PostedOne
  <2>5. TypeOK'
    BY <1>1, <1>2, <2>2, <2>4 DEF ServiceInv, TypeOK, Frames
  <2>6. StateOf(k)'
    BY <1>1, <1>2, <1>3, <1>4, <2>2 DEF StateOf
  <2>7. PostedRight(k)'
    <3>1. Due(k, "RUNNING")'
      BY <1>2, <1>4, <2>2 DEF Due, Outcomes
    <3>2. \A i \in 1..Len(posted[k]) : FALSE
      BY <1>4
    <3> QED
      BY <1>3, <1>4, <2>1, <2>2, <2>3, <3>1, <3>2, PostedAnother
  <2>8. StartShown(k)'
    <3>1. Len(posted[k]) = 0
      BY <1>4
    <3>2. Len(posted'[k]) = 1 /\ posted'[k][1] = "RUNNING"
      BY <2>4, <3>1
    <3>3. StartPosted(k)'
      BY <3>2 DEF StartPosted
    <3> QED
      BY <3>3 DEF StartShown
  <2>9. StateInv' /\ AloneInv' /\ PostInv' /\ DueInv'
    BY <1>1, <1>2, <1>6, <1>7, <2>2, <2>4, <2>6, <2>7, <2>8, OtherTasks
  <2> QED
    BY <1>2, <2>5, <2>9 DEF ServiceInv
<1>8. CASE future[k] # "NEW"
  <2>1. body' = [body EXCEPT ![k] = "skipped"] /\ posted' = posted
    BY <1>8 DEF Begin
  <2>2. body'[k] = "skipped" /\ (\A l \in Tasks : l # k => body'[l] = body[l])
        /\ body' \in [Tasks -> {"ready", "skipped", "call", "set", "setException"}]
    BY <1>3, <2>1
  <2>3. TypeOK'
    BY <1>1, <1>2, <2>1, <2>2 DEF ServiceInv, TypeOK, Frames
  <2>4. StateOf(k)'
    BY <1>1, <1>2, <1>3, <1>4, <2>2 DEF StateOf
  <2>5. PostedRight(k)'
    BY <1>4, <2>1 DEF PostedRight
  <2>6. StartShown(k)'
    BY <2>2 DEF StartShown
  <2>7. StateInv' /\ AloneInv' /\ PostInv' /\ DueInv'
    BY <1>1, <1>2, <1>6, <2>1, <2>2, <2>4, <2>5, <2>6, OtherTasks
  <2> QED
    BY <1>2, <2>3, <2>7 DEF ServiceInv
<1> QED
  BY <1>7, <1>8

\* call() returns or throws, and the outcome is posted.
LEMMA CallEndsStep ==
  ASSUME ServiceInv, NEW k \in Tasks, CallEnds(k)
  PROVE  ServiceInv'
<1>1. UNCHANGED <<svcVars, lambda, stack, thrown, handed, tstate, running, future>>
      /\ body[k] = "call"
  BY DEF CallEnds
<1>2. /\ FrameInv' /\ FieldInv' /\ StartInv' /\ RunningInv' /\ RestartResets'
      /\ (Busy' <=> Busy) /\ Op(0)' = Op(0) /\ Arg(0)' = Arg(0)
      /\ stack' \in Seq(Frames)
      /\ UNCHANGED <<own, bound, others, task, startedOnce, created, lambda, thrown, handed,
                     tstate, running>>
  BY <1>1, Background
<1>3. /\ StateOf(k) /\ PostedRight(k) /\ StartShown(k) /\ tstate[k] \in States
      /\ posted \in [Tasks -> Seq(States)] /\ posted[k] \in Seq(States)
      /\ body \in [Tasks -> {"ready", "skipped", "call", "set", "setException"}]
      /\ Busy /\ Op(0) \in Reports /\ Arg(0) = k =>
           Due(k, Op(0)) /\ (Op(0) = "RUNNING" => ~ StartPosted(k))
  BY TaskFacts
<1>4. tstate[k] \notin Outcomes
  BY <1>1, <1>3 DEF StateOf, Outcomes
<1>5. \A i \in 1..Len(posted[k]) : /\ posted[k][i] \notin Outcomes /\ posted[k][i] \in Reports
                                   /\ Due(k, posted[k][i])
  BY <1>1, <1>3 DEF PostedRight, Due, Outcomes
<1>6. PICK b \in {"set", "setException"} : body' = [body EXCEPT ![k] = b]
        /\ \/ posted' = posted
           \/ b = "set" /\ Post(k, "SUCCEEDED")
           \/ b = "setException" /\ Post(k, "FAILED")
  BY DEF CallEnds
<1>7. body'[k] = b /\ (\A l \in Tasks : l # k => body'[l] = body[l])
      /\ body' \in [Tasks -> {"ready", "skipped", "call", "set", "setException"}]
  BY <1>3, <1>6
<1>8. StateOf(k)'
  BY <1>1, <1>2, <1>3, <1>4, <1>7 DEF StateOf, Outcomes
<1>9. ASSUME NEW s \in Reports, s \notin Outcomes, Due(k, s)
      PROVE  Due(k, s)'
  BY <1>1, <1>2, <1>7, <1>9 DEF Due, Outcomes
\* Whatever has been posted, RUNNING is still the first.
<1>10. ASSUME posted' \in [Tasks -> Seq(States)], PostedRight(k)',
              \A l \in Tasks : l # k => posted'[l] = posted[l],
              StartPosted(k)' <=> StartPosted(k)
       PROVE  ServiceInv'
  <2>1. StartShown(k)'
    BY <1>1, <1>2, <1>3, <1>7, <1>10 DEF StartShown
  <2>2. ASSUME Busy, Op(0) \in Reports, Arg(0) = k
        PROVE  DueInv'
    <3>1. Due(k, Op(0)) /\ Op(0) \notin Outcomes /\ (Op(0) = "RUNNING" => ~ StartPosted(k))
      BY <1>1, <1>3, <2>2 DEF Due, Outcomes
    <3>2. PICK s \in Reports : s = Op(0)
      BY <2>2
    <3>3. Due(k, s)'
      BY <1>9, <3>1, <3>2
    <3> QED
      BY <1>2, <1>10, <2>2, <3>1, <3>2, <3>3 DEF DueInv
  <2>3. body'[k] \notin {"ready", "call"}
    BY <1>7
  <2>4. StateInv' /\ AloneInv' /\ PostInv' /\ DueInv'
    BY <1>1, <1>2, <1>7, <1>8, <1>10, <2>1, <2>2, <2>3, OtherTasks
  <2>5. TypeOK'
    BY <1>1, <1>2, <1>7, <1>10 DEF ServiceInv, TypeOK, Frames
  <2> QED
    BY <1>2, <2>4, <2>5 DEF ServiceInv
<1>11. CASE posted' = posted
  <2>1. PostedRight(k)'
    <3>1. \A i \in 1..Len(posted[k]) : Due(k, posted[k][i])'
      BY <1>5, <1>9, <1>11 DEF Due
    <3> QED
      BY <1>1, <1>3, <1>7, <1>11, <3>1 DEF PostedRight
  <2>2. StartPosted(k)' <=> StartPosted(k)
    BY <1>11 DEF StartPosted
  <2> QED
    BY <1>3, <1>10, <1>11, <2>1, <2>2
<1>12. CASE posted' # posted
  <2>1. PICK r \in Outcomes : Post(k, r) /\ (r = "SUCCEEDED" => b = "set")
                              /\ (r = "FAILED" => b = "setException")
    BY <1>6, <1>12 DEF Outcomes
  <2>2. r \in States /\ r \in Reports /\ r # "RUNNING"
    BY DEF Outcomes, States, Reports
  <2>3. /\ posted' \in [Tasks -> Seq(States)]
        /\ Len(posted'[k]) = Len(posted[k]) + 1
        /\ \A i \in 1..Len(posted[k]) : posted'[k][i] = posted[k][i]
        /\ posted'[k][Len(posted[k]) + 1] = r
        /\ \A l \in Tasks : l # k => posted'[l] = posted[l]
    BY <1>3, <2>1, <2>2, PostedOne
  <2>4. PostedRight(k)'
    <3>1. Due(k, r)'
      BY <1>2, <1>4, <1>7, <2>1, <2>2 DEF Due, Outcomes
    <3>2. ASSUME NEW i \in 1..Len(posted[k])
          PROVE  Due(k, posted[k][i])' /\ posted[k][i] \notin Outcomes
      <4>1. PICK s \in Reports : s = posted[k][i] /\ s \notin Outcomes /\ Due(k, s)
        BY <1>5
      <4>2. Due(k, s)' /\ posted'[k][i] = s
        BY <1>9, <2>3, <4>1
      <4> QED
        BY <4>1, <4>2 DEF Due
    <3>3. body'[k] \notin {"ready", "skipped"}
      BY <1>7
    <3> QED
      BY <1>3, <2>1, <2>2, <3>1, <3>2, <3>3, PostedAnother
  <2>5. StartPosted(k)' <=> StartPosted(k)
    <3>1. PICK n \in Nat : n = Len(posted[k])
      BY <1>3
    <3>2. CASE n = 0
      <4>1. posted[k] = << >> /\ posted'[k][1] = r
        <5>1. posted[k] = << >>
          BY <1>3, <3>1, <3>2, EmptySeq
        <5>2. Len(posted[k]) + 1 = 1
          BY <3>1, <3>2
        <5> QED
          BY <2>3, <5>1, <5>2
      <4> QED
        BY <2>2, <4>1 DEF StartPosted
    <3>3. CASE n > 0
      <4>1. posted[k] # << >> /\ posted'[k] # << >> /\ posted'[k][1] = posted[k][1]
        BY <1>3, <2>3, <3>1, <3>3
      <4> QED
        BY <4>1 DEF StartPosted
    <3> QED
      BY <3>2, <3>3
  <2> QED
    BY <1>10, <2>3, <2>4, <2>5
<1> QED
  BY <1>11, <1>12

\* FutureTask.run() settles the future.
LEMMA SettleStep ==
  ASSUME ServiceInv, NEW k \in Tasks, Settle(k)
  PROVE  ServiceInv'
<1>1. UNCHANGED <<svcVars, lambda, stack, thrown, handed, tstate, running>>
      /\ UNCHANGED <<body, posted>> /\ future[k] = "NEW" /\ body[k] \in {"set", "setException"}
  BY DEF Settle
<1>2. PICK f \in {"NORMAL", "EXCEPTIONAL"} : future' = [future EXCEPT ![k] = f]
  BY DEF Settle
<1>3. /\ StateOf(k) /\ PostedRight(k) /\ StartShown(k)
      /\ future \in [Tasks -> {"NEW", "NORMAL", "EXCEPTIONAL", "CANCELLED"}]
      /\ Busy /\ Op(0) \in Reports /\ Arg(0) = k =>
           /\ Due(k, Op(0))
           /\ Op(0) = "RUNNING" => ~ StartPosted(k)
           /\ Op(0) \in Outcomes =>
                /\ tstate[k] \in {"RUNNING", "CANCELLED"}
                /\ \A i \in 1..Len(posted[k]) : posted[k][i] \notin Outcomes
  BY TaskFacts
<1>4. future'[k] = f /\ (\A l \in Tasks : l # k => future'[l] = future[l])
      /\ future' \in [Tasks -> {"NEW", "NORMAL", "EXCEPTIONAL", "CANCELLED"}]
  BY <1>2, <1>3
<1>5. \A l \in Tasks : future[l] # "NEW" => future'[l] # "NEW"
  BY <1>1, <1>4
<1>6. /\ FrameInv' /\ FieldInv' /\ StartInv' /\ RunningInv' /\ RestartResets'
      /\ (Busy' <=> Busy) /\ Op(0)' = Op(0) /\ Arg(0)' = Arg(0)
      /\ stack' \in Seq(Frames)
      /\ UNCHANGED <<own, bound, others, task, startedOnce, created, lambda, thrown, handed,
                     tstate, running>>
  BY <1>1, <1>5, Background
<1>7. TypeOK'
  BY <1>1, <1>4, <1>6 DEF ServiceInv, TypeOK, Frames
<1>8. StateOf(k)'
  BY <1>1, <1>3, <1>4, <1>6 DEF StateOf
<1>9. ASSUME NEW s, Due(k, s)
      PROVE  Due(k, s)'
  BY <1>1, <1>4, <1>6, <1>9 DEF Due
<1>10. PostedRight(k)'
  BY <1>1, <1>3, <1>9 DEF PostedRight
<1>11. StartPosted(k)' <=> StartPosted(k)
  BY <1>1 DEF StartPosted
<1>12. StartShown(k)'
  BY <1>1, <1>3, <1>6, <1>11 DEF StartShown
<1>13. ASSUME Busy, Op(0) \in Reports, Arg(0) = k
       PROVE  DueInv'
  <2>1. PICK s : s = Op(0)
    OBVIOUS
  <2>2. Due(k, s)'
    BY <1>3, <1>9, <1>13, <2>1
  <2> QED
    BY <1>1, <1>3, <1>6, <1>11, <1>13, <2>1, <2>2 DEF DueInv
<1>14. StateInv' /\ AloneInv' /\ PostInv' /\ DueInv'
  BY <1>1, <1>4, <1>6, <1>8, <1>10, <1>12, <1>13, OtherTasks
<1> QED
  BY <1>6, <1>7, <1>14 DEF ServiceInv

\* cancel() of a task on a background thread.
LEMMA CancelOffFxStep ==
  ASSUME ServiceInv, NEW k \in Tasks, CancelOffFx(k)
  PROVE  ServiceInv'
<1>1. UNCHANGED <<svcVars, lambda, stack, thrown, handed, tstate, running>>
      /\ body' = body /\ future[k] = "NEW" /\ body[k] = "call"
      /\ Post(k, "CANCELLED") /\ future' = [future EXCEPT ![k] = "CANCELLED"]
  BY DEF CancelOffFx
<1>2. /\ StateOf(k) /\ PostedRight(k) /\ StartShown(k)
      /\ posted \in [Tasks -> Seq(States)] /\ posted[k] \in Seq(States)
      /\ future \in [Tasks -> {"NEW", "NORMAL", "EXCEPTIONAL", "CANCELLED"}]
      /\ Busy /\ Op(0) \in Reports /\ Arg(0) = k =>
           Due(k, Op(0)) /\ (Op(0) = "RUNNING" => ~ StartPosted(k))
  BY TaskFacts
<1>3. future'[k] = "CANCELLED" /\ (\A l \in Tasks : l # k => future'[l] = future[l])
      /\ future' \in [Tasks -> {"NEW", "NORMAL", "EXCEPTIONAL", "CANCELLED"}]
  BY <1>1, <1>2
<1>4. \A l \in Tasks : future[l] # "NEW" => future'[l] # "NEW"
  BY <1>1, <1>3
<1>5. /\ FrameInv' /\ FieldInv' /\ StartInv' /\ RunningInv' /\ RestartResets'
      /\ (Busy' <=> Busy) /\ Op(0)' = Op(0) /\ Arg(0)' = Arg(0)
      /\ stack' \in Seq(Frames)
      /\ UNCHANGED <<own, bound, others, task, startedOnce, created, lambda, thrown, handed,
                     tstate, running>>
  BY <1>1, <1>4, Background
<1>6. "CANCELLED" \in States /\ "CANCELLED" \in Reports /\ "CANCELLED" \notin Outcomes
  BY DEF States, Reports, Outcomes
<1>7. /\ posted' \in [Tasks -> Seq(States)]
      /\ Len(posted'[k]) = Len(posted[k]) + 1
      /\ \A i \in 1..Len(posted[k]) : posted'[k][i] = posted[k][i]
      /\ posted'[k][Len(posted[k]) + 1] = "CANCELLED"
      /\ \A l \in Tasks : l # k => posted'[l] = posted[l]
  BY <1>1, <1>2, <1>6, PostedOne
<1>8. TypeOK'
  BY <1>1, <1>3, <1>5, <1>7 DEF ServiceInv, TypeOK, Frames
<1>9. StateOf(k)'
  BY <1>1, <1>2, <1>3, <1>5 DEF StateOf
<1>10. ASSUME NEW s, Due(k, s)
       PROVE  Due(k, s)'
  BY <1>1, <1>3, <1>5, <1>10 DEF Due
<1>11. PostedRight(k)'
  <2>1. Due(k, "CANCELLED")'
    BY <1>3 DEF Due, Outcomes
  <2>2. ASSUME NEW i \in 1..Len(posted[k])
        PROVE  Due(k, posted[k][i])'
    <3>1. PICK s : s = posted[k][i] /\ Due(k, s)
      BY <1>2 DEF PostedRight
    <3>2. Due(k, s)' /\ posted'[k][i] = s
      BY <1>7, <1>10, <3>1
    <3> QED
      BY <3>2 DEF Due
  <2>3. body'[k] \notin {"ready", "skipped"}
    BY <1>1
  <2> QED
    BY <1>1, <1>2, <1>6, <2>1, <2>2, <2>3, PostedAnother
<1>12. StartPosted(k)' <=> StartPosted(k)
  <2>1. PICK n \in Nat : n = Len(posted[k])
    BY <1>2
  <2>2. CASE n = 0
    <3>1. posted[k] = << >>
      BY <1>2, <2>1, <2>2, EmptySeq
    <3>2. Len(posted[k]) + 1 = 1
      BY <2>1, <2>2
    <3> QED
      BY <1>7, <3>1, <3>2 DEF StartPosted
  <2>3. CASE n > 0
    <3>1. posted[k] # << >> /\ posted'[k] # << >> /\ posted'[k][1] = posted[k][1]
      BY <1>2, <1>7, <2>1, <2>3
    <3> QED
      BY <3>1 DEF StartPosted
  <2> QED
    BY <2>2, <2>3
<1>13. StartShown(k)'
  BY <1>1, <1>2, <1>5, <1>12 DEF StartShown
<1>14. ASSUME Busy, Op(0) \in Reports, Arg(0) = k
       PROVE  DueInv'
  <2>1. Due(k, Op(0)) /\ Op(0) \notin Outcomes /\ (Op(0) = "RUNNING" => ~ StartPosted(k))
    BY <1>1, <1>2, <1>14 DEF Due, Outcomes
  <2>2. PICK s : s = Op(0)
    OBVIOUS
  <2>3. Due(k, s)'
    BY <1>10, <2>1, <2>2
  <2> QED
    BY <1>5, <1>12, <1>14, <2>1, <2>2, <2>3 DEF DueInv
<1>15. StateInv' /\ AloneInv' /\ PostInv' /\ DueInv'
  BY <1>1, <1>3, <1>5, <1>7, <1>9, <1>11, <1>13, <1>14, OtherTasks
<1> QED
  BY <1>5, <1>8, <1>15 DEF ServiceInv

\* The FX thread takes a runnable of a task from its queue.
LEMMA RunPostedStep ==
  ASSUME ServiceInv, NEW k \in Tasks, RunPosted(k)
  PROVE  ServiceInv'
<1>1. Quiet /\ Heights = {} /\ ~ Busy /\ posted[k] # << >>
  BY Idle DEF RunPosted
<1>2. /\ StateOf(k) /\ PostedRight(k) /\ StartShown(k)
      /\ posted \in [Tasks -> Seq(States)] /\ posted[k] \in Seq(States)
  BY TaskFacts
<1>3. PICK n \in Nat : Len(posted[k]) = n + 1
  <2>1. PICK m \in Nat : Len(posted[k]) = m /\ m # 0
    BY <1>1, <1>2, EmptySeq
  <2>2. m - 1 \in Nat /\ m = (m - 1) + 1
    BY <2>1
  <2> QED
    BY <2>1, <2>2
<1>4. PICK r \in Reports : /\ r = Head(posted[k]) /\ r = posted[k][1]
                           /\ Due(k, r)
  BY <1>1, <1>2, <1>3 DEF PostedRight
<1>5. /\ posted' \in [Tasks -> Seq(States)]
      /\ posted'[k] = Tail(posted[k])
      /\ \A l \in Tasks : l # k => posted'[l] = posted[l]
  <2>1. Tail(posted[k]) \in Seq(States)
    BY <1>1, <1>2
  <2> QED
    BY <1>2, <2>1 DEF RunPosted
<1>6. Len(posted'[k]) = n /\ \A i \in 1..n : posted'[k][i] = posted[k][i + 1]
  BY <1>1, <1>2, <1>3, <1>5
<1>7. UNCHANGED <<own, bound, others, task, startedOnce, created, lambda, thrown, handed>>
      /\ UNCHANGED <<tstate, running, future, body>>
  BY DEF RunPosted, svcVars
<1>8. \A i \in 1..n : i + 1 \in 1..(n + 1) /\ i + 1 # 1
  OBVIOUS
<1>9. \A i \in 1..(n + 1) : posted[k][i] \in Reports /\ Due(k, posted[k][i])
                            /\ (posted[k][i] = "RUNNING" => i = 1)
  BY <1>2, <1>3 DEF PostedRight
<1>10. \A i, j \in 1..(n + 1) : posted[k][i] \in Outcomes /\ posted[k][j] \in Outcomes => i = j
  BY <1>2, <1>3 DEF PostedRight
<1>11. body[k] \notin {"ready", "skipped"}
  BY <1>1, <1>2 DEF PostedRight
<1>12. \A i \in 1..n : posted'[k][i] \in Reports /\ posted'[k][i] # "RUNNING"
                       /\ (r \in Outcomes => posted'[k][i] \notin Outcomes)
  <2> SUFFICES ASSUME NEW i \in 1..n
               PROVE  posted'[k][i] \in Reports /\ posted'[k][i] # "RUNNING"
                      /\ (r \in Outcomes => posted'[k][i] \notin Outcomes)
    OBVIOUS
  <2>1. i + 1 \in 1..(n + 1) /\ i + 1 # 1 /\ 1 \in 1..(n + 1) /\ posted'[k][i] = posted[k][i + 1]
    BY <1>6, <1>8
  <2> QED
    BY <1>4, <1>9, <1>10, <2>1
<1>13. ~ StartPosted(k)'
  <2>1. CASE n = 0
    <3>1. posted'[k] = << >>
      BY <1>5, <1>6, <2>1, EmptySeq
    <3> QED
      BY <3>1 DEF StartPosted
  <2>2. CASE n > 0
    <3>1. 1 \in 1..n
      BY <2>2
    <3> QED
      BY <1>12, <3>1 DEF StartPosted
  <2> QED
    BY <2>1, <2>2
<1>14. PostedRight(k)'
  <2>1. ASSUME NEW i \in 1..n
        PROVE  Due(k, posted[k][i])'
    <3>1. PICK s : s = posted[k][i + 1] /\ Due(k, s)
      BY <1>8, <1>9
    <3>2. posted'[k][i] = s
      BY <1>6, <3>1
    <3> QED
      BY <1>7, <3>1, <3>2 DEF Due
  <2>2. ASSUME NEW i \in 1..n, NEW j \in 1..n,
               posted'[k][i] \in Outcomes, posted'[k][j] \in Outcomes
        PROVE  i = j
    <3>1. i + 1 = j + 1
      BY <1>6, <1>8, <1>10, <2>2
    <3> QED
      BY <3>1
  <2> QED
    BY <1>6, <1>7, <1>11, <1>12, <2>1, <2>2 DEF PostedRight
<1>15. r \in Labels /\ "SCHEDULED" \in Labels /\ k \in 0..MaxTasks \cup {1} /\ r \in States
  BY ServiceAssumption DEF Reports, Outcomes, Labels, States, Tasks
<1>16. /\ stack' \in Seq(Frames) /\ Busy' /\ Op(0)' = r /\ Arg(0)' = k
       /\ \/ Heights' = {0}
          \/ Heights' = {0, 1} /\ r = "RUNNING" /\ Op(1)' = "SCHEDULED" /\ Arg(1)' = k
  <2>1. CASE r = "RUNNING"
    <3>1. stack' = << <<"SCHEDULED", k>>, <<r, k>> >>
      BY <1>4, <2>1 DEF RunPosted
    <3> QED
      BY <1>15, <2>1, <3>1, TwoFrames
  <2>2. CASE r # "RUNNING"
    <3>1. stack' = << <<r, k>> >>
      BY <1>4, <2>2 DEF RunPosted
    <3> QED
      BY <1>15, <3>1, OneFrame
  <2> QED
    BY <2>1, <2>2
<1>17. TypeOK'
  BY <1>5, <1>7, <1>16 DEF ServiceInv, TypeOK, Frames
<1>18. FrameInv'
  <2>1. FrameAt(0)'
    BY <1>7, <1>16 DEF FrameAt, Reports, Outcomes, States, Tasks
  <2>2. 1 \in Heights' => FrameAt(1)'
    BY <1>7, <1>16 DEF FrameAt, Reports, Outcomes, States, Tasks
  <2> QED
    BY <1>16, <2>1, <2>2 DEF FrameInv
<1>19. \A j \in Heights' : Op(j)' \in Reports \/ (j = 1 /\ Op(j)' = "SCHEDULED")
  BY <1>16
<1>20. FieldInv' /\ RunningInv'
  <2>1. SameFrames({"unbind", "reset"}) /\ SameFrames(Marks)
    BY <1>1, <1>19, IdleSame DEF Reports, Outcomes, Marks
  <2> QED
    BY <1>7, <2>1, InvTypes, KeepFields, KeepRunning DEF ServiceInv
<1>21. StartInv'
  <2>1. Op(0)' \notin {"start", "restart", "execute", "detach"}
    BY <1>16 DEF Reports, Outcomes
  <2> QED
    BY <1>7, <2>1 DEF ServiceInv, StartInv
<1>22. StateInv' /\ AloneInv'
  <2>1. UNCHANGED <<task, created, handed>>
    BY <1>7
  <2> QED
    BY <1>7 DEF ServiceInv, StateInv, StateOf, AloneInv
<1>23. PostInv'
  <2>1. StartShown(k)'
    <3>1. CASE r = "RUNNING"
      BY <1>16, <3>1 DEF StartShown
    <3>2. CASE r # "RUNNING"
      BY <1>1, <1>2, <1>4, <1>7, <1>11, <3>2 DEF StartShown, StartPosted
    <3> QED
      BY <3>1, <3>2
  <2>2. ASSUME NEW l \in Tasks, l # k
        PROVE  PostedRight(l)' /\ StartShown(l)'
    <3>1. PostedRight(l) /\ StartShown(l)
      BY DEF ServiceInv, PostInv
    <3>2. PostedRight(l)'
      BY <1>5, <1>7, <2>2, <3>1 DEF PostedRight, Due
    <3>3. StartPosted(l)' <=> StartPosted(l)
      BY <1>5, <2>2 DEF StartPosted
    <3>4. StartShown(l)'
      BY <1>1, <1>7, <3>1, <3>3 DEF StartShown
    <3> QED
      BY <3>2, <3>4
  <2> QED
    BY <1>14, <2>1, <2>2 DEF PostInv, Tasks
<1>24. DueInv'
  <2>1. Due(k, r)'
    BY <1>4, <1>7 DEF Due
  <2>2. ASSUME r \in Outcomes
        PROVE  tstate[k] \in {"RUNNING", "CANCELLED"}
    <3>1. tstate[k] \notin Outcomes
      BY <1>4, <2>2 DEF Due
    <3>2. r # "RUNNING"
      BY <2>2 DEF Outcomes
    <3>3. tstate[k] \in Reports
      BY <1>1, <1>2, <1>4, <1>11, <3>2 DEF StartShown, StartPosted
    <3> QED
      BY <3>1, <3>3 DEF Reports
  <2> QED
    BY <1>6, <1>7, <1>12, <1>13, <1>16, <2>1, <2>2 DEF DueInv
<1>25. RestartResets'
  BY <1>7 DEF ServiceInv, RestartResets
<1> QED
  BY <1>17, <1>18, <1>20, <1>21, <1>22, <1>23, <1>24, <1>25 DEF ServiceInv

-----------------------------------------------------------------------------
(***************************************************************************)
(* The invariant holds.                                                    *)
(***************************************************************************)
\* The initial state.
LEMMA InitInv == ASSUME Init PROVE ServiceInv
<1> USE ServiceAssumption DEF Init
<1>1. Heights = {} /\ ~ Busy
  BY DEF Heights, Busy
<1>2. TypeOK
  <2>1. own \in States /\ {bound, others, task, created} \subseteq 0..MaxTasks
    BY DEF States, None
  <2>2. running \in [Tasks -> BOOLEAN] /\ startedOnce \in BOOLEAN /\ lambda \in BOOLEAN
    OBVIOUS
  <2>3. tstate \in [Tasks -> States]
        /\ future \in [Tasks -> {"NEW", "NORMAL", "EXCEPTIONAL", "CANCELLED"}]
        /\ body \in [Tasks -> {"ready", "skipped", "call", "set", "setException"}]
    BY DEF States
  <2>4. stack \in Seq(Frames) /\ posted \in [Tasks -> Seq(States)]
    <3>1. << >> \in Seq(Frames) /\ << >> \in Seq(States)
      OBVIOUS
    <3> QED
      BY <3>1
  <2> QED
    BY <2>1, <2>2, <2>3, <2>4 DEF TypeOK, Frames
<1>3. FrameInv /\ FieldInv /\ StartInv /\ RestartResets /\ DueInv
  BY <1>1 DEF FrameInv, FieldInv, StartInv, RestartResets, DueInv, None
<1>4. StateInv /\ AloneInv
  BY DEF StateInv, StateOf, AloneInv, None, Tasks
<1>5. PostInv
  BY DEF PostInv, PostedRight, StartShown
<1>6. RunningInv
  BY <1>1 DEF RunningInv, RunningOf, Active
<1> QED
  BY <1>2, <1>3, <1>4, <1>5, <1>6 DEF ServiceInv

\* A stuttering step.
LEMMA StutterInv == ASSUME ServiceInv, UNCHANGED vars PROVE ServiceInv'
<1>1. UNCHANGED <<svcVars, lambda, stack, thrown, handed, tstate, running>>
      /\ UNCHANGED <<future, body, posted>> /\ UNCHANGED <<task, created, handed, taskVars>>
      /\ UNCHANGED <<own, bound, others, task, startedOnce, created, lambda, thrown, handed>>
  BY DEF vars, svcVars, taskVars
<1>2. FrameInv' /\ FieldInv' /\ StartInv' /\ RestartResets' /\ stack' \in Seq(Frames)
  BY <1>1, Background
<1>3. StateInv' /\ AloneInv' /\ PostInv' /\ DueInv' /\ RunningInv'
  BY <1>1, Unmoved, KeepRest
<1>4. TypeOK'
  BY <1>1, <1>2 DEF ServiceInv, TypeOK, Frames
<1> QED
  BY <1>2, <1>3, <1>4 DEF ServiceInv

\* A step of the call that the FX thread is in.
LEMMA FxStepInv == ASSUME ServiceInv, FxStep PROVE ServiceInv'
<1>1. CASE HandlerReturn
  BY <1>1, HandlerReturnStep
<1>2. CASE \E k \in Tasks, s \in States : SetState(k, s)
  BY <1>2, SetStateStep
<1>3. CASE SetRunning
  BY <1>3, SetRunningStep
<1>4. CASE Cancel
  BY <1>4, CancelStep
<1>5. CASE Restart
  BY <1>5, RestartStep
<1>6. CASE Detach
  BY <1>6, DetachStep
<1>7. CASE Reset
  BY <1>7, ResetStep
<1>8. CASE Unbind
  BY <1>8, UnbindStep
<1>9. CASE ResetThrows
  BY <1>9, ResetThrowsStep
<1>10. CASE Start
  BY <1>10, StartStep
<1>11. CASE StartThrows
  BY <1>11, StartThrowsStep
<1>12. CASE Schedule
  BY <1>12, ScheduleStep
<1>13. CASE ScheduleThrows
  BY <1>13, ScheduleThrowsStep
<1>14. CASE Execute
  BY <1>14, ExecuteStep
<1> QED
  BY <1>1, <1>2, <1>3, <1>4, <1>5, <1>6, <1>7, <1>8, <1>9, <1>10, <1>11, <1>12, <1>13, <1>14
  DEF FxStep

\* Every step keeps the invariant.
LEMMA NextInv == ASSUME Cautious, ServiceInv, [Next]_vars PROVE ServiceInv'
<1>1. CASE FxStep
  BY <1>1, FxStepInv
<1>2. CASE \E op \in FxCalls : FxCall(op)
  BY <1>2, FxCallStep DEF Cautious
<1>3. CASE \E op \in HandlerCalls : HandlerCall(op)
  BY <1>3, HandlerCallStep DEF Cautious
<1>4. CASE StartOffFx
  BY <1>4, StartOffFxStep
<1>5. CASE RunLambda
  BY <1>5, RunLambdaStep
<1>6. CASE \E k \in Tasks : Begin(k) \/ CallEnds(k) \/ Settle(k) \/ CancelOffFx(k)
  BY <1>6, BeginStep, CallEndsStep, SettleStep, CancelOffFxStep
<1>7. CASE \E k \in Tasks : RunPosted(k)
  BY <1>7, RunPostedStep
<1>8. CASE UNCHANGED vars
  BY <1>8, StutterInv
<1> QED
  BY <1>1, <1>2, <1>3, <1>4, <1>5, <1>6, <1>7, <1>8 DEF Next

(***************************************************************************)
(* The inductive invariant holds of the methods of Service.java and the tasks *)
(* they start.                                                             *)
(***************************************************************************)
THEOREM ServiceInvariant == ASSUME Cautious PROVE Spec => []ServiceInv
BY InitInv, NextInv, PTL DEF Spec

(***************************************************************************)
(* Service's variables keep their types: the field task, the bindings, the *)
(* frames on the FX thread's stack and the runnables of every task.        *)
(***************************************************************************)
THEOREM ServiceTypes == ASSUME Cautious PROVE Spec => []TypeOK
<1>1. ServiceInv => TypeOK
  BY DEF ServiceInv
<1> QED
  BY <1>1, ServiceInvariant, PTL

(***************************************************************************)
(* When no call of Service is under way, all properties are bound to the task *)
(* in the field task, and to none exactly when there is none (bind and unbind *)
(* in start() and reset()).                                                *)
(***************************************************************************)
THEOREM ServiceBindings == ASSUME Cautious PROVE Spec => []BindingsAgree
<1>1. ServiceInv => BindingsAgree
  BY Idle DEF ServiceInv, FieldInv, BindingsAgree
<1> QED
  BY <1>1, ServiceInvariant, PTL

(***************************************************************************)
(* A task that the executor still has to run or is running, and that has not *)
(* been cancelled, is the Service's current one: restart() and reset() abandon *)
(* no task that goes on.                                                   *)
(***************************************************************************)
THEOREM ServiceNoOrphan == ASSUME Cautious PROVE Spec => []NoOrphan
<1>1. ServiceInv => NoOrphan
  BY DEF ServiceInv, AloneInv, NoOrphan
<1> QED
  BY <1>1, ServiceInvariant, PTL

(***************************************************************************)
(* Whatever handlers do in the middle of it, the reset() that restart()    *)
(* calls never throws.                                                     *)
(***************************************************************************)
THEOREM ServiceRestart == ASSUME Cautious PROVE Spec => []RestartResets
<1>1. ServiceInv => RestartResets
  BY DEF ServiceInv
<1> QED
  BY <1>1, ServiceInvariant, PTL

(***************************************************************************)
(* When no call is under way, the running property says whether the state is *)
(* SCHEDULED or RUNNING, unless the Service is CANCELLED.                  *)
(***************************************************************************)
THEOREM ServiceRunning == ASSUME Cautious PROVE Spec => []RunningWhileActive
<1>1. ASSUME ServiceInv, Quiet, ServiceState # "CANCELLED"
      PROVE  Running <=> ServiceState \in Active
  <2>1. Heights = {} /\ bound = task /\ others = bound /\ own \in {"READY", "CANCELLED"}
    BY <1>1, Idle, InvTypes DEF ServiceInv, FieldInv
  <2>2. CASE bound = None
    BY <2>1, <2>2 DEF Running, ServiceState, Active
  <2>3. CASE bound # None
    <3>1. bound \in Tasks
      BY <1>1, <2>1, <2>3, InvTypes, ServiceAssumption DEF Tasks, None
    <3>2. RunningOf(bound)
      BY <1>1, <3>1 DEF ServiceInv, RunningInv
    <3>3. ServiceState = tstate[bound] /\ (Running <=> running[bound])
      BY <2>1, <2>3 DEF ServiceState, Running
    <3> QED
      BY <1>1, <2>1, <3>2, <3>3 DEF RunningOf
  <2> QED
    BY <2>2, <2>3
<1>2. ServiceInv => RunningWhileActive
  BY <1>1 DEF RunningWhileActive
<1> QED
  BY <1>2, ServiceInvariant, PTL

-----------------------------------------------------------------------------
(***************************************************************************)
(* The action properties.                                                  *)
(***************************************************************************)
\* Task k may be given the state s.
Allowed(k, s) ==
  \/ s = "SCHEDULED" /\ tstate[k] = "READY" /\ body[k] = "ready"
  \/ s = "RUNNING" /\ tstate[k] = "SCHEDULED" /\ body[k] \notin {"ready", "skipped"}
  \/ s = "SUCCEEDED" /\ tstate[k] = "RUNNING" /\ body[k] = "set"
  \/ s = "FAILED" /\ tstate[k] = "RUNNING" /\ body[k] = "setException"
  \/ s = "CANCELLED" /\ future[k] = "CANCELLED"

\* setState() stores what the life cycle of a task allows.
LEMMA SetStateAllowed ==
  ASSUME ServiceInv, NEW k \in Tasks, NEW s \in States, SetState(k, s)
  PROVE  /\ UNCHANGED <<own, bound, future, body>>
         /\ \/ tstate' = tstate
            \/ /\ Allowed(k, s) /\ tstate[k] # "CANCELLED" /\ tstate'[k] = s
               /\ \A l \in Tasks : l # k => tstate'[l] = tstate[l]
<1>1. UNCHANGED <<own, bound, future, body>>
  BY DEF SetState, svcVars
<1>2. tstate \in [Tasks -> States] /\ StateOf(k)
  BY DEF ServiceInv, TypeOK, StateInv
<1>3. CASE tstate[k] = "CANCELLED" \/ tstate[k] = s
  BY <1>1, <1>2, <1>3 DEF SetState, StoreState
<1>4. CASE tstate[k] # "CANCELLED" /\ tstate[k] # s
  <2>1. tstate'[k] = s /\ \A l \in Tasks : l # k => tstate'[l] = tstate[l]
    BY <1>2, <1>4 DEF SetState, StoreState
  <2>2. PICK h \in Nat :
          /\ Len(stack) = h + 1 /\ Op(h) = s /\ Arg(h) = k /\ Heights = 0..h
          /\ \/ h = 1 /\ s = "SCHEDULED" /\ Op(0) = "execute" /\ k = task
             \/ h = 1 /\ s = "SCHEDULED" /\ Op(0) = "RUNNING" /\ Arg(0) = k
             \/ h = 0 /\ s \in Reports
    BY StoreCases DEF SetState
  <2>3. Busy
    BY <2>2 DEF Busy
  <2>4. CASE h = 1 /\ s = "SCHEDULED" /\ Op(0) = "execute" /\ k = task
    <3>1. ~ Announcing /\ k # None
      BY <2>2, <2>4 DEF Announcing, Second, Tasks, None
    <3>2. k \notin handed
      BY <2>3, <2>4, <3>1 DEF ServiceInv, StartInv
    <3>3. body[k] = "ready" /\ tstate[k] = "READY"
      BY <1>2, <1>4, <2>4, <3>2 DEF StateOf, States
    <3> QED
      BY <1>1, <1>4, <2>1, <2>4, <3>3 DEF Allowed
  <2>5. CASE h = 1 /\ s = "SCHEDULED" /\ Op(0) = "RUNNING" /\ Arg(0) = k
    <3>1. Due(k, "RUNNING")
      BY <2>3, <2>5 DEF ServiceInv, DueInv, Reports
    <3> QED
      BY <1>4, <2>5, <3>1 DEF Due
  <2>6. CASE h = 0 /\ s \in Reports
    <3>1. Due(k, s) /\ (s \in Outcomes => tstate[k] = "RUNNING")
      BY <1>4, <2>2, <2>3, <2>6 DEF ServiceInv, DueInv
    <3>2. Allowed(k, s)
      BY <1>4, <2>6, <3>1 DEF Allowed, Due, Reports, Outcomes
    <3> QED
      BY <1>1, <1>4, <2>1, <3>2
  <2> QED
    BY <2>2, <2>4, <2>5, <2>6
<1> QED
  BY <1>3, <1>4

\* cancel() and restart() cancel the current task or leave all tasks alone.
LEMMA CancelTaskEffect ==
  ASSUME ServiceInv, NEW cont, task # None, CancelTask(task, cont)
  PROVE  /\ task \in Tasks /\ UNCHANGED body
         /\ \/ UNCHANGED <<tstate, future>>
            \/ /\ future[task] = "NEW" /\ future'[task] = "CANCELLED" /\ tstate'[task] = "CANCELLED"
               /\ \A l \in Tasks : l # task => tstate'[l] = tstate[l] /\ future'[l] = future[l]
<1>1. task \in Tasks
  BY InvTypes, ServiceAssumption DEF Tasks, None
<1>2. tstate \in [Tasks -> States]
      /\ future \in [Tasks -> {"NEW", "NORMAL", "EXCEPTIONAL", "CANCELLED"}]
  BY DEF ServiceInv, TypeOK
<1> QED
  BY <1>1, <1>2 DEF CancelTask, StoreState

\* What a step makes of a task.
TaskStep(k) ==
  \/ UNCHANGED <<tstate[k], future[k], body[k]>>
  \/ Allowed(k, tstate'[k]) /\ tstate[k] # "CANCELLED" /\ UNCHANGED <<future[k], body[k]>>
  \/ /\ future[k] = "NEW" /\ future'[k] = "CANCELLED" /\ body'[k] = body[k]
     /\ tstate'[k] \in {tstate[k], "CANCELLED"}
  \/ /\ future[k] = "NEW" /\ UNCHANGED <<tstate[k], body[k]>>
     /\ \/ body[k] = "set" /\ future'[k] = "NORMAL"
        \/ body[k] = "setException" /\ future'[k] = "EXCEPTIONAL"
  \/ /\ UNCHANGED <<tstate[k], future[k]>>
     /\ \/ body[k] = "ready" /\ body'[k] = IF future[k] = "NEW" THEN "call" ELSE "skipped"
        \/ body[k] = "call" /\ body'[k] \in {"set", "setException"}

\* Such a step is one of TaskLife, or a stutter.
LEMMA TaskStepIsLife ==
  ASSUME NEW k \in Tasks, TaskStep(k)
  PROVE  Life(k)!Next \/ UNCHANGED <<tstate[k], future[k], body[k]>>
BY DEF TaskStep, Allowed, Life!Next, Life!Schedule, Life!Begin, Life!End, Life!Settle, Life!Cancel,
       Life!ShowRunning, Life!ShowOutcome, Life!ShowCancelled

\* Every step does one of these to every task.
LEMMA LifeStep ==
  ASSUME ServiceInv, [Next]_vars
  PROVE  \A k \in Tasks : TaskStep(k)
<1> SUFFICES ASSUME NEW k \in Tasks
             PROVE  TaskStep(k)
  OBVIOUS
<1>1. /\ tstate \in [Tasks -> States]
      /\ future \in [Tasks -> {"NEW", "NORMAL", "EXCEPTIONAL", "CANCELLED"}]
      /\ body \in [Tasks -> {"ready", "skipped", "call", "set", "setException"}]
  BY DEF ServiceInv, TypeOK
<1>2. CASE UNCHANGED taskVars
  BY <1>2 DEF TaskStep, taskVars
<1>3. CASE \E l \in Tasks, s \in States : SetState(l, s)
  <2>1. PICK l \in Tasks, s \in States : SetState(l, s)
    BY <1>3
  <2>2. /\ UNCHANGED <<own, bound, future, body>>
        /\ \/ tstate' = tstate
           \/ /\ Allowed(l, s) /\ tstate[l] # "CANCELLED" /\ tstate'[l] = s
              /\ \A i \in Tasks : i # l => tstate'[i] = tstate[i]
    BY <2>1, SetStateAllowed
  <2> QED
    BY <2>2 DEF TaskStep
<1>4. CASE Cancel \/ Restart
  <2>1. CASE task # None
    <3>1. PICK cont : CancelTask(task, cont)
      BY <1>4, <2>1 DEF Cancel, Restart
    <3>2. /\ task \in Tasks /\ UNCHANGED body
          /\ \/ UNCHANGED <<tstate, future>>
             \/ /\ future[task] = "NEW" /\ future'[task] = "CANCELLED" /\ tstate'[task] = "CANCELLED"
                /\ \A l \in Tasks : l # task => tstate'[l] = tstate[l] /\ future'[l] = future[l]
      BY <2>1, <3>1, CancelTaskEffect
    <3> QED
      BY <3>2 DEF TaskStep
  <2>2. CASE task = None
    <3>1. UNCHANGED taskVars
      BY <1>4, <2>2 DEF Cancel, Restart
    <3> QED
      BY <1>2, <3>1
  <2> QED
    BY <2>1, <2>2
<1>5. CASE SetRunning
  BY <1>5 DEF SetRunning, TaskStep
<1>6. CASE \E l \in Tasks : RunPosted(l)
  BY <1>6 DEF RunPosted, TaskStep
<1>7. CASE \E l \in Tasks : Begin(l) \/ CallEnds(l) \/ Settle(l) \/ CancelOffFx(l)
  <2>1. PICK l \in Tasks : Begin(l) \/ CallEnds(l) \/ Settle(l) \/ CancelOffFx(l)
    BY <1>7
  <2>2. CASE Begin(l)
    BY <1>1, <2>2 DEF Begin, TaskStep
  <2>3. CASE CallEnds(l)
    BY <1>1, <2>3 DEF CallEnds, TaskStep
  <2>4. CASE Settle(l)
    BY <1>1, <2>4 DEF Settle, TaskStep
  <2>5. CASE CancelOffFx(l)
    BY <1>1, <2>5 DEF CancelOffFx, TaskStep
  <2> QED
    BY <2>1, <2>2, <2>3, <2>4, <2>5
<1>8. CASE \/ HandlerReturn \/ Detach \/ Reset \/ Unbind \/ ResetThrows \/ Start \/ StartThrows
           \/ Schedule \/ ScheduleThrows \/ Execute \/ StartOffFx \/ RunLambda
           \/ (\E op \in FxCalls : FxCall(op)) \/ (\E op \in HandlerCalls : HandlerCall(op))
           \/ UNCHANGED vars
  <2>1. UNCHANGED taskVars
    BY <1>8 DEF HandlerReturn, Detach, Reset, Unbind, ResetThrows, Start, StartThrows, Schedule,
      ScheduleThrows, Execute, StartOffFx, RunLambda, FxCall, HandlerCall, Throw, vars, taskVars
  <2> QED
    BY <1>2, <2>1
<1> QED
  BY <1>3, <1>4, <1>5, <1>6, <1>7, <1>8 DEF Next, FxStep

(***************************************************************************)
(* Service uses each of its tasks as the contract TaskLife allows: every step *)
(* is one of the life cycle of the task, or leaves the task alone.         *)
(***************************************************************************)
THEOREM ServiceTasksObeyLife == ASSUME Cautious PROVE Spec => TasksObeyLife
<1>1. ASSUME ServiceInv, [Next]_vars
      PROVE  [\A k \in Tasks : Life(k)!Next \/ UNCHANGED <<tstate[k], future[k], body[k]>>]_vars
  BY <1>1, LifeStep, TaskStepIsLife
<1> QED
  BY <1>1, ServiceInvariant, PTL DEF Spec, TasksObeyLife

\* How a step may change the state that the Service shows.
Moves ==
  \/ <<ServiceState, ServiceState'>> \in ServiceFollows
  \/ ServiceState' = "CANCELLED" /\ (At("detach") \/ Overtaken')

\* The state property of the Service, while it stays bound to the same task:
\* an outcome is overtaken only if cancel() took the future.
LEMMA ShownStep ==
  ASSUME ServiceInv, UNCHANGED bound, bound # None, TaskStep(bound),
         ServiceState' # ServiceState
  PROVE  Moves
<1>1. ServiceState = tstate[bound] /\ ServiceState' = tstate'[bound]
  BY DEF ServiceState
<1>2. tstate[bound] \in States /\ StateOf(bound)
  <2>1. bound \in Tasks
    BY InvTypes, ServiceAssumption DEF Tasks, None
  <2> QED
    BY <2>1 DEF ServiceInv, TypeOK, StateInv
<1>3. \/ tstate'[bound] = "CANCELLED" /\ future'[bound] = "CANCELLED"
      \/ <<tstate[bound], tstate'[bound]>> \in
           { <<"READY", "SCHEDULED">>, <<"SCHEDULED", "RUNNING">>,
             <<"RUNNING", "SUCCEEDED">>, <<"RUNNING", "FAILED">> }
  BY <1>1 DEF TaskStep, Allowed
<1> QED
  BY <1>1, <1>2, <1>3 DEF Moves, ServiceFollows, Overtaken, Terminal

\* Every step of the Service keeps its life cycle.
LEMMA LifecycleStep ==
  ASSUME ServiceInv, [Next]_vars, ServiceState' # ServiceState
  PROVE  Moves
<1>1. ServiceState \in States
  <2>1. bound # None => bound \in Tasks
    BY InvTypes, ServiceAssumption DEF Tasks, None
  <2> QED
    BY <2>1, InvTypes DEF ServiceState, ServiceInv, TypeOK
<1>2. CASE UNCHANGED <<own, bound>>
  <2>1. bound # None
    BY <1>2 DEF ServiceState
  <2>2. bound \in Tasks
    BY <2>1, InvTypes, ServiceAssumption DEF Tasks, None
  <2> QED
    BY <1>2, <2>1, <2>2, LifeStep, ShownStep
<1>3. CASE Cancel /\ own' # own
  <2>1. bound = None /\ UNCHANGED bound /\ own' = "CANCELLED"
    BY <1>3, InvTypes DEF Cancel
  <2>2. ServiceState' = "CANCELLED" /\ ServiceState = own
    BY <2>1 DEF ServiceState
  <2>3. ServiceState = "READY"
    BY <1>3, <2>1, <2>2 DEF ServiceInv, FieldInv
  <2> QED
    BY <2>2, <2>3 DEF Moves, ServiceFollows, States, Terminal
<1>4. CASE Detach
  <2>1. ServiceState' = "CANCELLED"
    BY <1>4 DEF Detach, ServiceState
  <2> QED
    BY <1>4, <2>1 DEF Moves, Detach
<1>5. CASE Reset
  <2>1. ServiceState' = "READY" /\ ServiceState \notin Active
    BY <1>5 DEF Reset, ServiceState
  <2>2. ServiceState \in Terminal
    BY <1>1, <2>1 DEF States, Active, Terminal
  <2> QED
    BY <2>1, <2>2 DEF Moves, ServiceFollows
<1>6. CASE Start \/ StartOffFx
  <2>1. ServiceState = "READY" /\ CreateTask /\ UNCHANGED <<handed, taskVars>>
    BY <1>6 DEF Start, StartOffFx
  <2>2. task' # None /\ task' = bound' /\ tstate'[task'] = "READY"
    BY <2>1, Created
  <2>3. ServiceState' = "READY"
    BY <2>2 DEF ServiceState
  <2> QED
    BY <2>1, <2>3
<1>7. CASE (Cancel /\ own' = own) \/ Restart \/ SetRunning
  <2>1. UNCHANGED <<own, bound>>
    BY <1>7 DEF Cancel, Restart, SetRunning, svcVars
  <2> QED
    BY <1>2, <2>1
<1>8. CASE \/ \E k \in Tasks, s \in States : SetState(k, s)
           \/ \E k \in Tasks : RunPosted(k) \/ Begin(k) \/ CallEnds(k) \/ Settle(k) \/ CancelOffFx(k)
  <2>1. UNCHANGED <<own, bound>>
    BY <1>8 DEF SetState, RunPosted, Begin, CallEnds, Settle, CancelOffFx, svcVars
  <2> QED
    BY <1>2, <2>1
<1>9. CASE \/ HandlerReturn \/ Unbind \/ ResetThrows \/ StartThrows
           \/ Schedule \/ ScheduleThrows \/ Execute \/ RunLambda
           \/ (\E op \in FxCalls : FxCall(op)) \/ (\E op \in HandlerCalls : HandlerCall(op))
           \/ UNCHANGED vars
  <2>1. UNCHANGED <<own, bound>>
    BY <1>9 DEF HandlerReturn, Unbind, ResetThrows, StartThrows, Schedule,
      ScheduleThrows, Execute, RunLambda, FxCall, HandlerCall, Throw, vars, svcVars
  <2> QED
    BY <1>2, <2>1
<1> QED
  BY <1>3, <1>4, <1>5, <1>6, <1>7, <1>8, <1>9 DEF Next, FxStep

(***************************************************************************)
(* The state property of the Service changes along its life cycle only,    *)
(* even though it is bound to one task after the other: an outcome gives   *)
(* way to CANCELLED only in restart() or if cancel() took the future.      *)
(***************************************************************************)
THEOREM ServiceFollowsLifecycle == ASSUME Cautious PROVE Spec => ServiceLifecycle
<1>1. ASSUME ServiceInv, [Next]_vars
      PROVE  [ServiceState' # ServiceState
                => \/ <<ServiceState, ServiceState'>> \in ServiceFollows
                   \/ ServiceState' = "CANCELLED" /\ (At("detach") \/ Overtaken')]_vars
  BY <1>1, LifecycleStep DEF Moves
<1> QED
  BY <1>1, ServiceInvariant, PTL DEF Spec, ServiceLifecycle

==============================================================================
