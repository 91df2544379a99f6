----------------------------- MODULE EventLoopProofs -----------------------------
(* The safety properties of EventLoops for any number of loops, clients and       *)
(* calls.  The inductive invariant says which numbers are where on the way from   *)
(* invokeLater to the event thread (OrderInv), how the stack of loops, their      *)
(* states and the orders to end agree (StackInv), and what the dispatcher may     *)
(* wait for (WaitInv).                                                            *)
EXTENDS EventLoops, SequenceTheorems, TLAPS

(* Runnables that the dispatcher has taken and not submitted.                     *)
InHand == IF pc = "submit" THEN 1 ELSE 0

(* The runnables on their way are, in order, those after the last one started.    *)
NativeOrder == \A i \in 1..Len(native) : native[i] = started + i
HandOrder   == pc = "submit" => hand = started + Len(native) + 1
DequeOrder  ==
  \A i \in 1..Len(deque) : deque[i] = started + Len(native) + InHand + i
CountOrder  == count = started + Len(native) + InHand + Len(deque)

OrderInv == NativeOrder /\ HandOrder /\ DequeOrder /\ CountOrder

(* The loops in use are those on the stack, each once.                            *)
StackOnce == \A i, j \in 1..Len(stack) : stack[i] = stack[j] => i = j
InUse     == \A l \in Loops : state[l] # "IDLE" <=> \E i \in 1..Len(stack) : stack[i] = l

(* Until terminate, only loops that have been left are told to end, and a loop    *)
(* ends only when told.  The one flag of win and mac is always meant for the      *)
(* innermost loop.                                                                *)
QuitLeaving == \A l \in quit : state[l] = "LEAVING"
QuitTop     == SharedFlag /\ quit # {} => stack # <<>> /\ quit = {Top}
LeftLeaving == left => state[Top] = "LEAVING" /\ Top \notin quit

TellInv     == QuitLeaving /\ QuitTop /\ LeftLeaving
EndedLast   == ended => terminated

StackInv == StackOnce /\ InUse /\ EndedLast /\ (~terminated => TellInv)

(* Handlers run runnables that have been started.                                 *)
FrameOrder == \A i \in 1..Len(frames) : frames[i].later <= started

WaitInv == FrameOrder /\ DispatcherNotBlocked

(* Until terminate, and on gtk until a loop is entered after the current one was  *)
(* left, at most the innermost loop is told to end, and the value passed is its   *)
(* own.                                                                           *)
Excepted == terminated \/ (platform = "gtk" /\ reentered)

OneQuit ==
  quit # {} => /\ stack # <<>> /\ ~left
               /\ quit = {Top} /\ passValue = Top
               /\ leavingNestedEventLoop

LoopInv ==
  /\ TypeOK /\ OrderInv /\ StackInv /\ LeaveIsKept /\ DeferralEnds
  /\ NoLostNotification /\ WaitInv

----------------------------------------------------------------------------------
(* Sequences that grow and shrink by one.                                         *)
LEMMA GrowFacts ==
  ASSUME NEW S, NEW s \in Seq(S), NEW e \in S
  PROVE  /\ Append(s, e) \in Seq(S)
         /\ Len(Append(s, e)) = Len(s) + 1
         /\ Append(s, e)[Len(s) + 1] = e
         /\ \A i \in 1..Len(s) : Append(s, e)[i] = s[i]
         /\ Append(s, e) # <<>>
         /\ Len(s) \in Nat
  OBVIOUS

LEMMA TailFacts ==
  ASSUME NEW S, NEW s \in Seq(S), s # <<>>
  PROVE  /\ Tail(s) \in Seq(S)
         /\ Len(s) \in Nat /\ Len(s) >= 1
         /\ Len(Tail(s)) = Len(s) - 1
         /\ \A i \in 1..(Len(s) - 1) : Tail(s)[i] = s[i + 1]
         /\ Head(s) = s[1] /\ Head(s) \in S
  OBVIOUS

LEMMA PopFacts ==
  ASSUME NEW S, NEW s \in Seq(S), s # <<>>
  PROVE  /\ SubSeq(s, 1, Len(s) - 1) \in Seq(S)
         /\ Len(s) \in Nat /\ Len(s) >= 1
         /\ Len(SubSeq(s, 1, Len(s) - 1)) = Len(s) - 1
         /\ \A i \in 1..(Len(s) - 1) : SubSeq(s, 1, Len(s) - 1)[i] = s[i]
         /\ s[Len(s)] \in S
<1>1. Len(s) \in Nat /\ Len(s) >= 1 /\ \A i \in 1..Len(s) : s[i] \in S
  OBVIOUS
<1> DEFINE n == Len(s) - 1
<1>2. n \in Int /\ \A i \in 1..n : s[i] \in S
  BY <1>1
<1>3. /\ SubSeq(s, 1, n) \in Seq(S)
      /\ Len(SubSeq(s, 1, n)) = IF 1 <= n THEN n - 1 + 1 ELSE 0
      /\ \A i \in 1..(n - 1 + 1) : SubSeq(s, 1, n)[i] = s[1 + i - 1]
  BY <1>2, SubSeqProperties
<1>4. n \in Nat
  BY <1>1
<1> HIDE DEF n
<1>5. /\ Len(SubSeq(s, 1, n)) = n
      /\ \A i \in 1..n : SubSeq(s, 1, n)[i] = s[i]
  <2>1. ASSUME NEW m \in Nat PROVE (IF 1 <= m THEN m - 1 + 1 ELSE 0) = m
    OBVIOUS
  <2>2. n - 1 + 1 = n
    BY <1>4
  <2>3. ASSUME NEW i \in 1..n PROVE SubSeq(s, 1, n)[i] = s[i]
    <3>1. i \in 1..(n - 1 + 1) /\ 1 + i - 1 = i
      BY <1>4, <2>2
    <3> QED BY <1>3, <3>1
  <2> QED BY <1>3, <1>4, <2>1, <2>3
<1> USE DEF n
<1>6. s[Len(s)] \in S
  BY <1>1
<1> QED BY <1>1, <1>3, <1>5, <1>6

LEMMA PutBackSame ==
  ASSUME TypeOK, deque # <<>>
  PROVE  PutBack = deque
<1>1. deque \in Seq(Nat)
  BY DEF TypeOK
<1>2. /\ Tail(deque) \in Seq(Nat) /\ Head(deque) \in Nat /\ Head(deque) = deque[1]
      /\ Len(deque) \in Nat /\ Len(Tail(deque)) = Len(deque) - 1
      /\ \A i \in 1..(Len(deque) - 1) : Tail(deque)[i] = deque[i + 1]
  BY <1>1, TailFacts
<1>3. <<Head(deque)>> \in Seq(Nat) /\ Len(<<Head(deque)>>) = 1
      /\ <<Head(deque)>>[1] = Head(deque)
  BY <1>2
<1>4. /\ PutBack \in Seq(Nat)
      /\ Len(PutBack) = 1 + (Len(deque) - 1)
      /\ \A i \in 1..(1 + (Len(deque) - 1)) :
           PutBack[i] = IF i <= 1 THEN deque[1] ELSE Tail(deque)[i - 1]
  BY <1>2, <1>3, ConcatProperties DEF PutBack
<1>5. Len(PutBack) = Len(deque)
  BY <1>2, <1>4
<1>6. ASSUME NEW i \in 1..Len(deque) PROVE PutBack[i] = deque[i]
  <2>1. CASE i = 1
    BY <1>2, <1>4, <2>1
  <2>2. CASE i # 1
    <3>1. i - 1 \in 1..(Len(deque) - 1) /\ ~(i <= 1) /\ i \in 1..(1 + (Len(deque) - 1))
      BY <1>2, <2>2
    <3>2. PutBack[i] = Tail(deque)[i - 1]
      BY <1>4, <3>1
    <3>3. Tail(deque)[i - 1] = deque[(i - 1) + 1]
      BY <1>2, <3>1
    <3>4. (i - 1) + 1 = i
      OBVIOUS
    <3> QED BY <3>2, <3>3, <3>4
  <2> QED BY <2>1, <2>2
<1> QED BY <1>1, <1>4, <1>5, <1>6, SeqEqual

----------------------------------------------------------------------------------
(* Every action keeps the types.                                                  *)
LEMMA TypeInit == Init => TypeOK
<1> SUFFICES ASSUME Init PROVE TypeOK
  OBVIOUS
<1>1. \A S : <<>> \in Seq(S) /\ Len(<<>>) = 0
  OBVIOUS
<1>2. left \in BOOLEAN /\ ~left
  BY DEF Init
<1>3. nestedEventLoopEntered \in BOOLEAN /\ leavingNestedEventLoop \in BOOLEAN
  BY DEF Init
<1>4. state \in [Loops -> {"IDLE", "ACTIVE", "LEAVING"}]
      /\ call \in [Clients -> {"none", "native", "running", "done"}]
  BY DEF Init
<1>5. stack = <<>> /\ frames = <<>> /\ deque = <<>> /\ native = <<>>
  BY DEF Init
<1>6. /\ stack \in Seq(Loops) /\ frames \in Seq(Handlers)
      /\ Len(frames) \in {Len(stack), Len(stack) + 1}
      /\ deque \in Seq(Nat) /\ native \in Seq(Nat)
  BY <1>1, <1>5
<1>7. platform \in Platforms /\ terminated \in BOOLEAN /\ ended \in BOOLEAN
      /\ reentered \in BOOLEAN
  BY DEF Init
<1> QED BY <1>2, <1>3, <1>4, <1>6, <1>7 DEF Init, TypeOK

LEMMA TypeStep ==
  ASSUME TypeOK, [Next]_vars
  PROVE  TypeOK'
<1> USE LoopAssumption DEF appVars, loopVars, quitVars, dispVars, flagVars, runVars,
                           postVars, boundVars
<1>1. CASE InvokeLater
  <2>1. deque' \in Seq(Nat)
    BY <1>1, GrowFacts DEF TypeOK, InvokeLater
  <2> QED BY <1>1, <2>1 DEF TypeOK, InvokeLater
<1>2. CASE Defer
  <2>1. deque' = deque
    BY <1>2, PutBackSame DEF Defer
  <2> QED BY <1>2, <2>1 DEF TypeOK, Defer
<1>3. CASE Take
  <2>1. deque' \in Seq(Nat) /\ hand' \in Nat
    BY <1>3, TailFacts DEF TypeOK, Take
  <2> QED BY <1>3, <2>1 DEF TypeOK, Take
<1>4. CASE Submit
  <2>1. native' \in Seq(Nat)
    BY <1>4, GrowFacts DEF TypeOK, Submit
  <2> QED BY <1>4, <2>1 DEF TypeOK, Submit
<1>5. CASE DispatcherWaits
  BY <1>5 DEF TypeOK, DispatcherWaits
<1>6. CASE DispatcherResumes
  <2>1. nestedEventLoopEntered' \in BOOLEAN
    BY <1>6, Zenon DEF DispatcherResumes
  <2> QED BY <1>6, <2>1 DEF TypeOK, DispatcherResumes
<1>7. ASSUME NEW t \in Clients, InvokeAndWait(t) PROVE TypeOK'
  BY <1>7 DEF TypeOK, InvokeAndWait
<1>8. ASSUME NEW t \in Clients, ClientWaits(t) PROVE TypeOK'
  BY <1>8 DEF TypeOK, ClientWaits
<1>9. ASSUME NEW t \in Clients, ClientReturns(t) PROVE TypeOK'
  BY <1>9 DEF TypeOK, ClientReturns
<1>10. ASSUME NEW h \in Handlers, InLoop, frames' = Append(frames, h),
              UNCHANGED <<stack, left>>
       PROVE  /\ frames' \in Seq(Handlers)
              /\ Len(frames') \in {Len(stack'), Len(stack') + 1}
              /\ (left' => Len(frames') = Len(stack') /\ stack' # <<>>)
  <2>1. Len(frames') = Len(frames) + 1 /\ frames' \in Seq(Handlers)
    BY <1>10, GrowFacts DEF TypeOK
  <2> QED BY <1>10, <2>1 DEF InLoop
<1>11. CASE NativeEvent
  <2>1. NativeHandler \in Handlers
    BY DEF NativeHandler, Handlers
  <2> QED BY <1>10, <1>11, <2>1 DEF TypeOK, NativeEvent, Dispatches
<1>12. ASSUME NEW t \in Clients, RunClient(t) PROVE TypeOK'
  <2>1. [later |-> 0, wait |-> {t}] \in Handlers
    BY DEF Handlers
  <2> QED BY <1>10, <1>12, <2>1 DEF TypeOK, RunClient, Dispatches
<1>13. CASE RunLater
  <2>1. native' \in Seq(Nat) /\ Head(native) \in Nat
    BY <1>13, TailFacts DEF TypeOK, RunLater
  <2>2. [later |-> Head(native), wait |-> {}] \in Handlers
    BY <2>1 DEF Handlers
  <2> QED BY <1>10, <1>13, <2>1, <2>2 DEF TypeOK, RunLater, Dispatches
<1>14. CASE RunLambda
  <2>1. native' \in Seq(Nat) /\ Head(native) \in Nat
    BY <1>14, TailFacts DEF TypeOK, RunLambda
  <2>2. stack # <<>> => Top \in Loops
    BY PopFacts DEF TypeOK, Top
  <2>3. /\ leavingNestedEventLoop' \in BOOLEAN
        /\ quit' \subseteq Loops /\ passValue' \in Loops \cup {NoLoop}
    BY <1>14, <2>2 DEF TypeOK, RunLambda, LeaveAgain, LeaveNestedEventLoop
  <2>4. finished' \subseteq Nat /\ started' \in Nat /\ asleep' = {}
    BY <1>14, <2>1 DEF TypeOK, RunLambda
  <2> QED BY <1>14, <2>1, <2>3, <2>4 DEF TypeOK, RunLambda
<1>15. CASE HandlerEnds
  <2>1. frames # <<>> /\ Len(frames) = Len(stack) + 1
    BY <1>15 DEF TypeOK, HandlerEnds, InHandler
  <2>2. frames' \in Seq(Handlers) /\ Len(frames') = Len(stack) /\ Handler \in Handlers
    BY <1>15, <2>1, PopFacts DEF TypeOK, HandlerEnds, Handler
  <2>3. Handler.later \in Nat
    BY <2>2 DEF Handlers
  <2>4. ~left' /\ stack' = stack
    BY <1>15 DEF HandlerEnds, InHandler
  <2>5. finished' \subseteq Nat /\ asleep' \subseteq Clients \cup {Dispatcher}
    BY <1>15, <2>3 DEF TypeOK, HandlerEnds
  <2>6. call' \in [Clients -> {"none", "native", "running", "done"}]
    BY <1>15 DEF TypeOK, HandlerEnds
  <2> QED BY <1>15, <2>2, <2>4, <2>5, <2>6 DEF TypeOK, HandlerEnds
<1>16. ASSUME NEW l \in Loops, Enter(l) PROVE TypeOK'
  <2>1. stack' \in Seq(Loops) /\ Len(stack') = Len(stack) + 1 /\ ~left'
        /\ Len(frames) = Len(stack) + 1
    BY <1>16, GrowFacts DEF TypeOK, Enter, InHandler
  <2>2. reentered' \in BOOLEAN
    BY <1>16, Zenon DEF Enter
  <2>3. nestedEventLoopEntered' \in BOOLEAN /\ asleep' = {}
    BY <1>16 DEF Enter, NotifyEnteringNestedEventLoop
  <2> QED BY <1>16, <2>1, <2>2, <2>3 DEF TypeOK, Enter, QuitOnEntry
<1>17. ASSUME NEW l \in Loops, Leave(l) PROVE TypeOK'
  <2>1. state' \in [Loops -> {"IDLE", "ACTIVE", "LEAVING"}]
    BY <1>17 DEF TypeOK, Leave
  <2>2. /\ leavingNestedEventLoop' \in BOOLEAN /\ asleep' \subseteq Clients \cup {Dispatcher}
        /\ quit' \subseteq Loops /\ passValue' \in Loops \cup {NoLoop}
    BY <1>17 DEF TypeOK, Leave, LeaveNestedEventLoop
  <2> QED BY <1>17, <2>1, <2>2 DEF TypeOK, Leave
<1>18. CASE LoopReturns
  <2>1. left' /\ Len(frames') = Len(stack') /\ stack' # <<>>
    BY <1>18 DEF LoopReturns, InLoop, ToldToEnd
  <2> QED BY <1>18, <2>1 DEF TypeOK, LoopReturns, NotifyLeftNestedEventLoop
<1>19. CASE EnterReturns
  <2>1. stack' \in Seq(Loops) /\ Len(stack') = Len(stack) - 1 /\ Len(stack) \in Nat
        /\ Len(frames) = Len(stack)
    BY <1>19, PopFacts DEF TypeOK, EnterReturns, Popped
  <2>2. /\ deque' \in Seq(Nat) /\ count' \in Nat /\ lambdas' \subseteq Nat
    <3>1. /\ count + 1 \in Nat /\ Append(deque, count + 1) \in Seq(Nat)
          /\ lambdas \cup {count + 1} \subseteq Nat
          /\ deque \in Seq(Nat) /\ count \in Nat /\ lambdas \subseteq Nat
      BY GrowFacts DEF TypeOK
    <3> QED BY <1>19, <3>1 DEF EnterReturns, PostLambda
  <2>3. Len(frames') = Len(stack') + 1 /\ ~left'
    BY <1>19, <2>1 DEF EnterReturns
  <2> QED BY <1>19, <2>1, <2>2, <2>3 DEF TypeOK, EnterReturns
<1>20. CASE Terminate
  <2>1. ended' \in BOOLEAN /\ terminated' \in BOOLEAN
    BY <1>20, Zenon DEF Terminate
  <2>2. stack # <<>> => Top \in Loops
    BY PopFacts DEF TypeOK, Top
  <2>3. quit' \subseteq Loops
    BY <1>20, <2>2 DEF TypeOK, Terminate
  <2> QED BY <1>20, <2>1, <2>3 DEF TypeOK, Terminate
<1>21. CASE UNCHANGED vars
  BY <1>21 DEF TypeOK, vars
<1> QED
  BY <1>1, <1>2, <1>3, <1>4, <1>5, <1>6, <1>7, <1>8, <1>9, <1>11, <1>12, <1>13, <1>14,
     <1>15, <1>16, <1>17, <1>18, <1>19, <1>20, <1>21
  DEF Next, DispatcherNext, ClientNext, HandlerNext, LoopNext

----------------------------------------------------------------------------------
(* OrderInv.                                                                      *)
LEMMA OrderInit == Init => OrderInv
<1> SUFFICES ASSUME Init PROVE OrderInv
  OBVIOUS
<1>1. Len(native) = 0 /\ Len(deque) = 0 /\ started = 0 /\ count = 0 /\ pc = "take"
  BY DEF Init
<1> QED
  BY <1>1 DEF OrderInv, NativeOrder, HandOrder, DequeOrder, CountOrder, InHand

(* What OrderInv says about the head of the native queue.                         *)
LEMMA OrderFacts ==
  ASSUME TypeOK, OrderInv
  PROVE  /\ started <= count
         /\ native # <<>> => Head(native) = started + 1
         /\ pc = "submit" => hand > started
<1>1. /\ native \in Seq(Nat) /\ deque \in Seq(Nat) /\ started \in Nat
      /\ Len(native) \in Nat /\ Len(deque) \in Nat
  BY DEF TypeOK
<1>2. started <= count
  BY <1>1 DEF OrderInv, CountOrder, InHand
<1>3. native # <<>> => Head(native) = started + 1
  BY <1>1, TailFacts DEF OrderInv, NativeOrder
<1>4. pc = "submit" => hand > started
  BY <1>1 DEF OrderInv, HandOrder
<1> QED BY <1>2, <1>3, <1>4

(* The steps that move no runnable.                                               *)
LEMMA OrderQuiet ==
  ASSUME OrderInv, UNCHANGED <<native, started, hand, deque, count>>,
         pc = "submit" <=> pc' = "submit"
  PROVE  OrderInv'
  BY DEF OrderInv, NativeOrder, HandOrder, DequeOrder, CountOrder, InHand

(* The steps that give a runnable to invokeLater.                                 *)
LEMMA OrderPost ==
  ASSUME TypeOK, OrderInv, deque' = Append(deque, count + 1), count' = count + 1,
         UNCHANGED <<native, started, hand, pc>>
  PROVE  OrderInv'
<1>1. /\ deque \in Seq(Nat) /\ count \in Nat /\ started \in Nat /\ Len(native) \in Nat
      /\ Len(deque) \in Nat
  BY DEF TypeOK
<1>2. /\ Len(deque') = Len(deque) + 1 /\ deque'[Len(deque) + 1] = count + 1
      /\ \A i \in 1..Len(deque) : deque'[i] = deque[i]
  BY <1>1, GrowFacts
<1>3. InHand' = InHand /\ InHand \in Nat
  BY DEF InHand
<1>4. count = started + Len(native) + InHand + Len(deque)
  BY DEF OrderInv, CountOrder
<1>5. CountOrder'
  BY <1>1, <1>2, <1>3, <1>4 DEF CountOrder
<1>6. DequeOrder'
  <2>1. SUFFICES ASSUME NEW i \in 1..(Len(deque) + 1)
                 PROVE  deque'[i] = started + Len(native) + InHand + i
    BY <1>2, <1>3 DEF DequeOrder
  <2>2. CASE i \in 1..Len(deque)
    BY <1>2, <2>2 DEF OrderInv, DequeOrder
  <2>3. CASE i = Len(deque) + 1
    BY <1>1, <1>2, <1>3, <1>4, <2>3
  <2> QED BY <1>1, <2>2, <2>3
<1>7. NativeOrder' /\ HandOrder'
  BY DEF OrderInv, NativeOrder, HandOrder
<1> QED BY <1>5, <1>6, <1>7 DEF OrderInv

(* The steps that start a runnable.                                               *)
LEMMA OrderRun ==
  ASSUME TypeOK, OrderInv, native # <<>>, started' = Head(native),
         native' = Tail(native), UNCHANGED <<deque, count, hand, pc>>
  PROVE  OrderInv'
<1>1. /\ native \in Seq(Nat) /\ started \in Nat /\ Len(native) \in Nat
      /\ Len(deque) \in Nat
  BY DEF TypeOK
<1>2. /\ Len(native) >= 1 /\ Len(native') = Len(native) - 1
      /\ \A i \in 1..(Len(native) - 1) : native'[i] = native[i + 1]
  BY <1>1, TailFacts
<1>3. started' = started + 1
  BY OrderFacts
<1>4. started' + Len(native') = started + Len(native)
  BY <1>1, <1>2, <1>3
<1>5. InHand' = InHand
  BY DEF InHand
<1>6. NativeOrder'
  <2>1. SUFFICES ASSUME NEW i \in 1..(Len(native) - 1)
                 PROVE  native'[i] = started' + i
    BY <1>2 DEF NativeOrder
  <2>2. i + 1 \in 1..Len(native)
    BY <1>1
  <2>3. native[i + 1] = started + (i + 1)
    BY <2>2 DEF OrderInv, NativeOrder
  <2> QED BY <1>1, <1>2, <1>3, <2>3
<1>7. HandOrder' /\ DequeOrder' /\ CountOrder'
  BY <1>4, <1>5 DEF OrderInv, HandOrder, DequeOrder, CountOrder
<1> QED BY <1>6, <1>7 DEF OrderInv

LEMMA OrderStep ==
  ASSUME TypeOK, OrderInv, [Next]_vars
  PROVE  OrderInv'
<1> USE DEF appVars, loopVars, quitVars, dispVars, flagVars, runVars, postVars,
            boundVars
<1>1. CASE InvokeLater
  BY <1>1, OrderPost DEF InvokeLater
<1>2. CASE Defer
  <2>1. deque' = deque
    BY <1>2, PutBackSame DEF Defer
  <2> QED BY <1>2, <2>1, OrderQuiet DEF Defer
<1>3. CASE Take
  <2>1. /\ deque \in Seq(Nat) /\ started \in Nat /\ Len(native) \in Nat
        /\ Len(deque) \in Nat
    BY DEF TypeOK
  <2>2. /\ Len(deque) >= 1 /\ Len(deque') = Len(deque) - 1 /\ hand' = deque[1]
        /\ \A i \in 1..(Len(deque) - 1) : deque'[i] = deque[i + 1]
    BY <1>3, <2>1, TailFacts DEF Take
  <2>3. /\ InHand = 0 /\ InHand' = 1
        /\ started' = started /\ native' = native /\ count' = count
    BY <1>3 DEF Take, InHand
  <2>4. hand' = started + Len(native) + 1
    BY <2>1, <2>2, <2>3 DEF OrderInv, DequeOrder
  <2>5. DequeOrder'
    <3>1. SUFFICES ASSUME NEW i \in 1..(Len(deque) - 1)
                   PROVE  deque'[i] = started + Len(native) + 1 + i
      BY <2>2, <2>3 DEF DequeOrder
    <3>2. i + 1 \in 1..Len(deque)
      BY <2>1
    <3>3. deque[i + 1] = started + Len(native) + 0 + (i + 1)
      BY <2>3, <3>2 DEF OrderInv, DequeOrder
    <3> QED BY <2>1, <2>2, <3>3
  <2>6. CountOrder'
    BY <2>1, <2>2, <2>3 DEF OrderInv, CountOrder
  <2> QED BY <2>3, <2>4, <2>5, <2>6 DEF OrderInv, NativeOrder, HandOrder
<1>4. CASE Submit
  <2>1. /\ native \in Seq(Nat) /\ started \in Nat /\ Len(native) \in Nat
        /\ Len(deque) \in Nat /\ hand \in Nat
    BY DEF TypeOK
  <2>2. /\ Len(native') = Len(native) + 1 /\ native'[Len(native) + 1] = hand
        /\ \A i \in 1..Len(native) : native'[i] = native[i]
    BY <1>4, <2>1, GrowFacts DEF Submit
  <2>3. /\ InHand = 1 /\ InHand' = 0 /\ pc' = "wait"
        /\ started' = started /\ deque' = deque /\ count' = count
    BY <1>4 DEF Submit, InHand
  <2>4. hand = started + Len(native) + 1
    BY <1>4 DEF Submit, OrderInv, HandOrder
  <2>5. NativeOrder'
    <3>1. SUFFICES ASSUME NEW i \in 1..(Len(native) + 1)
                   PROVE  native'[i] = started + i
      BY <2>2, <2>3 DEF NativeOrder
    <3>2. CASE i \in 1..Len(native)
      BY <2>2, <3>2 DEF OrderInv, NativeOrder
    <3>3. CASE i = Len(native) + 1
      BY <2>1, <2>2, <2>4, <3>3
    <3> QED BY <2>1, <3>2, <3>3
  <2>6. started' + Len(native') + InHand' = started + Len(native) + InHand
    BY <2>1, <2>2, <2>3
  <2>7. DequeOrder' /\ CountOrder'
    BY <2>3, <2>6 DEF OrderInv, DequeOrder, CountOrder
  <2> QED BY <2>3, <2>5, <2>7 DEF OrderInv, HandOrder
<1>5. CASE DispatcherWaits
  BY <1>5, OrderQuiet DEF DispatcherWaits
<1>6. CASE DispatcherResumes
  BY <1>6, OrderQuiet DEF DispatcherResumes
<1>7. ASSUME NEW t \in Clients, ClientNext(t) \/ RunClient(t) PROVE OrderInv'
  BY <1>7, OrderQuiet
  DEF ClientNext, InvokeAndWait, ClientWaits, ClientReturns, RunClient
<1>8. CASE NativeEvent
  BY <1>8, OrderQuiet DEF NativeEvent
<1>9. CASE RunLater
  BY <1>9, OrderRun DEF RunLater
<1>10. CASE RunLambda
  BY <1>10, OrderRun DEF RunLambda
<1>11. CASE HandlerEnds \/ Terminate
  BY <1>11, OrderQuiet DEF HandlerEnds, Terminate
<1>12. ASSUME NEW l \in Loops, Enter(l) \/ Leave(l) PROVE OrderInv'
  BY <1>12, OrderQuiet DEF Enter, Leave
<1>13. CASE LoopReturns
  BY <1>13, OrderQuiet DEF LoopReturns
<1>14. CASE EnterReturns
  <2>1. CASE deque' = Append(deque, count + 1) /\ count' = count + 1
    BY <1>14, <2>1, OrderPost DEF EnterReturns
  <2>2. CASE UNCHANGED postVars
    BY <1>14, <2>2, OrderQuiet DEF EnterReturns
  <2> QED BY <1>14, <2>1, <2>2 DEF EnterReturns, PostLambda
<1>15. CASE UNCHANGED vars
  BY <1>15, OrderQuiet DEF vars
<1> QED
  BY <1>1, <1>2, <1>3, <1>4, <1>5, <1>6, <1>7, <1>8, <1>9, <1>10, <1>11, <1>12, <1>13,
     <1>14, <1>15
  DEF Next, DispatcherNext, HandlerNext, LoopNext

----------------------------------------------------------------------------------
(* StackInv.                                                                      *)
LEMMA StackInit == Init => StackInv
<1> SUFFICES ASSUME Init PROVE StackInv
  OBVIOUS
<1>1. Len(stack) = 0 /\ quit = {} /\ ~left /\ \A l \in Loops : state[l] = "IDLE"
  BY DEF Init
<1>2. EndedLast
  BY Zenon DEF Init, EndedLast
<1>3. StackOnce /\ InUse
  BY <1>1 DEF StackOnce, InUse
<1>4. TellInv
  BY <1>1 DEF TellInv, QuitLeaving, QuitTop, LeftLeaving
<1> QED BY <1>2, <1>3, <1>4, Zenon DEF StackInv

(* The innermost loop.                                                            *)
LEMMA TopFacts ==
  ASSUME TypeOK, stack # <<>>
  PROVE  /\ Len(stack) \in 1..Len(stack)
         /\ Top \in Loops /\ Top = stack[Len(stack)]
         /\ Len(stack) \in Nat /\ Len(stack) >= 1
  BY PopFacts DEF TypeOK, Top

(* Until terminate, the loop that is told to end has been left.                   *)
LEMMA ToldLeaving ==
  ASSUME StackInv, ToldToEnd, ~terminated
  PROVE  Top \in quit /\ state[Top] = "LEAVING"
  BY DEF StackInv, EndedLast, TellInv, ToldToEnd, QuitTop, QuitLeaving

(* The steps that leave the loops alone.                                          *)
LEMMA StackQuiet ==
  ASSUME StackInv, UNCHANGED <<stack, state, quit, left, platform, terminated, ended>>
  PROVE  StackInv'
  BY DEF StackInv, StackOnce, InUse, EndedLast, TellInv, QuitLeaving, QuitTop,
         LeftLeaving, Top, SharedFlag

LEMMA StackStep ==
  ASSUME TypeOK, StackInv, [Next]_vars
  PROVE  StackInv'
<1> USE DEF appVars, loopVars, quitVars, dispVars, flagVars, runVars, postVars,
            boundVars
<1>1. CASE InvokeLater \/ DispatcherNext \/ NativeEvent \/ RunLater \/ HandlerEnds
  BY <1>1, StackQuiet
  DEF InvokeLater, DispatcherNext, Defer, Take, Submit, DispatcherWaits,
      DispatcherResumes, NativeEvent, RunLater, HandlerEnds
<1>2. ASSUME NEW t \in Clients, ClientNext(t) \/ RunClient(t) PROVE StackInv'
  BY <1>2, StackQuiet
  DEF ClientNext, InvokeAndWait, ClientWaits, ClientReturns, RunClient
<1>3. CASE RunLambda
  <2>1. CASE LeaveAgain
    <3>1. /\ stack # <<>> /\ state[Top] = "LEAVING" /\ quit' = quit \cup {Top}
          /\ UNCHANGED <<stack, state, left, platform, terminated, ended>> /\ ~left
      BY <1>3, <2>1 DEF RunLambda, LeaveAgain, LeaveNestedEventLoop, Dispatches, InLoop
    <3> QED
      BY <3>1
      DEF StackInv, StackOnce, InUse, EndedLast, TellInv, QuitLeaving, QuitTop,
          LeftLeaving, Top, SharedFlag
  <2>2. CASE ~LeaveAgain
    BY <1>3, <2>2, StackQuiet DEF RunLambda
  <2> QED BY <2>1, <2>2
<1>4. ASSUME NEW l \in Loops, Enter(l) PROVE StackInv'
  <2>1. stack \in Seq(Loops) /\ Len(stack) \in Nat
        /\ state \in [Loops -> {"IDLE", "ACTIVE", "LEAVING"}] /\ quit \subseteq Loops
    BY DEF TypeOK
  <2>2. /\ Len(stack') = Len(stack) + 1 /\ stack'[Len(stack) + 1] = l
        /\ \A i \in 1..Len(stack) : stack'[i] = stack[i]
    BY <1>4, <2>1, GrowFacts DEF Enter
  <2>3. state[l] = "IDLE" /\ ~left' /\ state'[l] = "ACTIVE"
        /\ \A k \in Loops : k # l => state'[k] = state[k]
    BY <1>4, <2>1 DEF Enter, InHandler
  <2>4. \A i \in 1..Len(stack) : stack[i] # l
    BY <2>1, <2>3 DEF StackInv, InUse
  <2>5. StackOnce'
    <3>1. SUFFICES ASSUME NEW i \in 1..(Len(stack) + 1), NEW j \in 1..(Len(stack) + 1),
                          stack'[i] = stack'[j]
                   PROVE  i = j
      BY <2>2 DEF StackOnce
    <3>2. CASE i = Len(stack) + 1 \/ j = Len(stack) + 1
      BY <2>1, <2>2, <2>4, <3>1, <3>2
    <3>3. CASE i \in 1..Len(stack) /\ j \in 1..Len(stack)
      BY <2>2, <3>1, <3>3 DEF StackInv, StackOnce
    <3> QED BY <2>1, <3>2, <3>3
  <2>6. InUse'
    <3>1. SUFFICES ASSUME NEW k \in Loops
                   PROVE  state'[k] # "IDLE"
                            <=> \E i \in 1..(Len(stack) + 1) : stack'[i] = k
      BY <2>2 DEF InUse
    <3>2. CASE k = l
      BY <2>1, <2>2, <2>3, <3>2
    <3>3. CASE k # l
      <4>1. state'[k] = state[k]
        BY <2>3, <3>3
      <4>2. state[k] # "IDLE" <=> \E i \in 1..Len(stack) : stack[i] = k
        BY DEF StackInv, InUse
      <4>3. (\E i \in 1..Len(stack) : stack[i] = k)
              <=> \E i \in 1..(Len(stack) + 1) : stack'[i] = k
        BY <2>1, <2>2, <3>3
      <4> QED BY <4>1, <4>2, <4>3
    <3> QED BY <3>2, <3>3
  <2>7. ~terminated /\ ~ended /\ UNCHANGED <<platform, terminated, ended>>
    BY <1>4 DEF Enter, StackInv, EndedLast
  <2>8. QuitLeaving' /\ QuitTop'
    BY <1>4, <2>1, <2>3, <2>7
    DEF StackInv, TellInv, Enter, QuitOnEntry, QuitLeaving, QuitTop, SharedFlag
  <2> QED BY <2>3, <2>5, <2>6, <2>7, <2>8 DEF StackInv, EndedLast, TellInv, LeftLeaving
<1>5. ASSUME NEW l \in Loops, Leave(l) PROVE StackInv'
  <2>1. state \in [Loops -> {"IDLE", "ACTIVE", "LEAVING"}] /\ quit \subseteq Loops
    BY DEF TypeOK
  <2>2. /\ state[l] = "ACTIVE" /\ ~left' /\ state'[l] = "LEAVING"
        /\ (\A k \in Loops : k # l => state'[k] = state[k]) /\ stack' = stack
        /\ quit' \in {quit, quit \cup {l}} /\ (Top # l => quit' = quit)
    BY <1>5, <2>1 DEF Leave, InHandler, LeaveNestedEventLoop
  <2>3. stack # <<>>
    BY <2>2 DEF StackInv, InUse
  <2>4. StackOnce' /\ InUse'
    BY <2>2 DEF StackInv, StackOnce, InUse
  <2>5. UNCHANGED <<platform, terminated, ended>>
    BY <1>5 DEF Leave
  <2>6. ~terminated => QuitLeaving'
    BY <2>1, <2>2 DEF StackInv, TellInv, QuitLeaving
  <2>7. ~terminated => QuitTop'
    BY <2>2, <2>3, <2>5 DEF StackInv, TellInv, QuitTop, Top, SharedFlag
  <2> QED
    BY <2>2, <2>4, <2>5, <2>6, <2>7 DEF StackInv, EndedLast, TellInv, LeftLeaving
<1>6. CASE LoopReturns
  <2>1. ~terminated => Top \in quit /\ state[Top] = "LEAVING"
    BY <1>6, ToldLeaving DEF LoopReturns
  <2>2. /\ UNCHANGED <<stack, state, platform, terminated, ended>> /\ Top' = Top
        /\ quit' = IF SharedFlag THEN {} ELSE quit \ {Top}
    BY <1>6 DEF LoopReturns, Top
  <2>3. StackOnce' /\ InUse'
    BY <2>2 DEF StackInv, StackOnce, InUse
  <2>4. ~terminated => QuitLeaving' /\ QuitTop' /\ LeftLeaving'
    BY <2>1, <2>2
    DEF StackInv, TellInv, QuitLeaving, QuitTop, LeftLeaving, SharedFlag
  <2> QED BY <2>2, <2>3, <2>4 DEF StackInv, EndedLast, TellInv
<1>7. CASE EnterReturns
  <2>1. /\ stack \in Seq(Loops) /\ Len(stack) \in Nat /\ quit \subseteq Loops /\ left
        /\ state \in [Loops -> {"IDLE", "ACTIVE", "LEAVING"}] /\ stack # <<>>
    BY <1>7 DEF TypeOK, EnterReturns
  <2>2. Top \in Loops /\ Top = stack[Len(stack)] /\ Len(stack) >= 1
    BY <2>1, TopFacts
  <2>3. /\ Len(stack') = Len(stack) - 1
        /\ \A i \in 1..(Len(stack) - 1) : stack'[i] = stack[i]
    BY <1>7, <2>1, PopFacts DEF EnterReturns, Popped
  <2>4. /\ state'[Top] = "IDLE" /\ ~left' /\ quit' = quit
        /\ \A k \in Loops : k # Top => state'[k] = state[k]
    BY <1>7, <2>1, <2>2 DEF EnterReturns
  <2>5. \A i \in 1..(Len(stack) - 1) : stack[i] # Top
    BY <2>1, <2>2 DEF StackInv, StackOnce
  <2>6. StackOnce'
    BY <2>1, <2>3 DEF StackInv, StackOnce
  <2>7. InUse'
    <3>1. SUFFICES ASSUME NEW k \in Loops
                   PROVE  state'[k] # "IDLE"
                            <=> \E i \in 1..(Len(stack) - 1) : stack'[i] = k
      BY <2>3 DEF InUse
    <3>2. CASE k = Top
      BY <2>3, <2>4, <2>5, <3>2
    <3>3. CASE k # Top
      <4>1. state'[k] = state[k]
        BY <2>4, <3>3
      <4>2. state[k] # "IDLE" <=> \E i \in 1..Len(stack) : stack[i] = k
        BY DEF StackInv, InUse
      <4>3. (\E i \in 1..Len(stack) : stack[i] = k)
              <=> \E i \in 1..(Len(stack) - 1) : stack'[i] = k
        BY <2>1, <2>2, <2>3, <3>3
      <4> QED BY <4>1, <4>2, <4>3
    <3> QED BY <3>2, <3>3
  <2>8. UNCHANGED <<platform, terminated, ended>>
    BY <1>7 DEF EnterReturns
  <2>9. ~terminated => Top \notin quit
    BY <2>1 DEF StackInv, TellInv, LeftLeaving
  <2>10. ~terminated => QuitLeaving'
    BY <2>1, <2>4, <2>9 DEF StackInv, TellInv, QuitLeaving
  <2>11. ~terminated => QuitTop'
    BY <2>4, <2>8, <2>9 DEF StackInv, TellInv, QuitTop, SharedFlag
  <2> QED
    BY <2>4, <2>6, <2>7, <2>8, <2>10, <2>11
    DEF StackInv, EndedLast, TellInv, LeftLeaving
<1>8. CASE Terminate
  BY <1>8 DEF Terminate, StackInv, StackOnce, InUse, EndedLast
<1>9. CASE UNCHANGED vars
  BY <1>9, StackQuiet DEF vars
<1> QED
  BY <1>1, <1>2, <1>3, <1>4, <1>5, <1>6, <1>7, <1>8, <1>9
  DEF Next, HandlerNext, LoopNext

----------------------------------------------------------------------------------
(* LeaveIsKept.  A lambda in flight survives until it is started: runnables are   *)
(* started in order, and a lambda that is started tells the loop to end.          *)
LEMMA KeptQuiet ==
  ASSUME LeaveIsKept, UNCHANGED <<stack, state, left, quit, lambdas, started, terminated>>
  PROVE  LeaveIsKept'
  BY DEF LeaveIsKept, Top

LEMMA KeptStep ==
  ASSUME TypeOK, OrderInv, StackInv, LeaveIsKept, [Next]_vars
  PROVE  LeaveIsKept'
<1> USE DEF appVars, loopVars, quitVars, dispVars, flagVars, runVars, postVars,
            boundVars
<1>1. CASE InvokeLater \/ DispatcherNext \/ NativeEvent \/ HandlerEnds
  BY <1>1, KeptQuiet
  DEF InvokeLater, DispatcherNext, Defer, Take, Submit, DispatcherWaits,
      DispatcherResumes, NativeEvent, HandlerEnds
<1>2. ASSUME NEW t \in Clients, ClientNext(t) \/ RunClient(t) PROVE LeaveIsKept'
  BY <1>2, KeptQuiet
  DEF ClientNext, InvokeAndWait, ClientWaits, ClientReturns, RunClient
<1>3. CASE RunLater
  <2>1. started' = started + 1 /\ started' \notin lambdas /\ started \in Nat
        /\ lambdas \subseteq Nat
    BY <1>3, OrderFacts DEF RunLater, TypeOK
  <2>2. UNCHANGED <<stack, state, left, quit, lambdas, terminated>>
    BY <1>3 DEF RunLater
  <2>3. ASSUME NEW n \in lambdas, started < n PROVE started' < n
    BY <2>1, <2>3
  <2> QED BY <2>2, <2>3 DEF LeaveIsKept, Top
<1>4. CASE RunLambda
  BY <1>4 DEF RunLambda, LeaveAgain, LeaveNestedEventLoop, LeaveIsKept, Top
<1>5. ASSUME NEW l \in Loops, Enter(l) PROVE LeaveIsKept'
  <2>1. stack \in Seq(Loops) /\ state \in [Loops -> {"IDLE", "ACTIVE", "LEAVING"}]
    BY DEF TypeOK
  <2>2. Top' = l
    BY <1>5, <2>1, GrowFacts DEF Enter, Top
  <2>3. state'[l] = "ACTIVE"
    BY <1>5, <2>1 DEF Enter
  <2> QED BY <2>2, <2>3 DEF LeaveIsKept
<1>6. ASSUME NEW l \in Loops, Leave(l) PROVE LeaveIsKept'
  <2>1. state \in [Loops -> {"IDLE", "ACTIVE", "LEAVING"}]
    BY DEF TypeOK
  <2>2. /\ UNCHANGED <<stack, left, lambdas, started, terminated>> /\ Top' = Top
        /\ \A k \in Loops : k # l => state'[k] = state[k]
    BY <1>6, <2>1 DEF Leave, Top
  <2>3. CASE Top = l
    BY <1>6, <2>2, <2>3 DEF Leave, LeaveNestedEventLoop, LeaveIsKept
  <2>4. CASE Top # l
    <3>1. quit' = quit
      BY <1>6, <2>4 DEF Leave
    <3>2. stack # <<>> => state'[Top] = state[Top]
      BY <2>2, <2>4, TopFacts
    <3> QED BY <2>2, <3>1, <3>2 DEF LeaveIsKept
  <2> QED BY <2>3, <2>4
<1>7. CASE LoopReturns
  BY <1>7 DEF LoopReturns, LeaveIsKept
<1>8. CASE EnterReturns
  <2>1. stack \in Seq(Loops) /\ stack # <<>> /\ count \in Nat /\ started \in Nat
        /\ state \in [Loops -> {"IDLE", "ACTIVE", "LEAVING"}]
    BY <1>8 DEF TypeOK, EnterReturns
  <2>2. /\ stack' \in Seq(Loops) /\ Len(stack) \in Nat
        /\ Len(stack') = Len(stack) - 1
        /\ \A i \in 1..(Len(stack) - 1) : stack'[i] = stack[i]
    BY <1>8, <2>1, PopFacts DEF EnterReturns, Popped
  <2>3. SUFFICES ASSUME ~terminated', stack' # <<>>, state'[Top'] = "LEAVING"
                 PROVE  \E n \in lambdas' : started' < n
    BY DEF LeaveIsKept
  <2>4. Len(stack) > 1 /\ Top' = stack[Len(stack) - 1]
    BY <2>2, <2>3 DEF Top
  <2>5. state' = [state EXCEPT ![Top] = "IDLE"] /\ started' = started
    BY <1>8 DEF EnterReturns
  <2>6. Top' \in Loops
    BY <2>1, <2>2, <2>4
  <2>7. state[stack[Len(stack) - 1]] = "LEAVING"
    BY <2>1, <2>3, <2>4, <2>5, <2>6
  <2>8. count + 1 \in lambdas'
    BY <1>8, <2>3, <2>4, <2>7 DEF EnterReturns, PostLambda
  <2>9. started < count + 1
    BY <2>1, OrderFacts
  <2> QED BY <2>5, <2>8, <2>9
<1>9. CASE Terminate
  BY <1>9 DEF Terminate, LeaveIsKept
<1>10. CASE UNCHANGED vars
  BY <1>10, KeptQuiet DEF vars
<1> QED
  BY <1>1, <1>2, <1>3, <1>4, <1>5, <1>6, <1>7, <1>8, <1>9, <1>10
  DEF Next, HandlerNext, LoopNext

----------------------------------------------------------------------------------
(* DeferralEnds.                                                                  *)
LEMMA DeferralQuiet ==
  ASSUME DeferralEnds, UNCHANGED <<stack, state, left, leavingNestedEventLoop>>
  PROVE  DeferralEnds'
  BY DEF DeferralEnds

LEMMA DeferralStep ==
  ASSUME TypeOK, StackInv, DeferralEnds, [Next]_vars
  PROVE  DeferralEnds'
<1> USE DEF appVars, loopVars, quitVars, dispVars, flagVars, runVars, postVars,
            boundVars
<1>1. CASE InvokeLater \/ DispatcherNext \/ NativeEvent \/ RunLater \/ HandlerEnds
           \/ Terminate
  BY <1>1, DeferralQuiet
  DEF InvokeLater, DispatcherNext, Defer, Take, Submit, DispatcherWaits,
      DispatcherResumes, NativeEvent, RunLater, HandlerEnds, Terminate
<1>2. ASSUME NEW t \in Clients, ClientNext(t) \/ RunClient(t) PROVE DeferralEnds'
  BY <1>2, DeferralQuiet
  DEF ClientNext, InvokeAndWait, ClientWaits, ClientReturns, RunClient
<1>3. CASE RunLambda
  <2>1. CASE LeaveAgain
    <3>1. stack # <<>> /\ state[Top] = "LEAVING" /\ ~left
          /\ UNCHANGED <<stack, state, left>>
      BY <1>3, <2>1 DEF RunLambda, LeaveAgain, Dispatches, InLoop
    <3> QED BY <3>1, TopFacts DEF DeferralEnds
  <2>2. CASE ~LeaveAgain
    BY <1>3, <2>2, DeferralQuiet DEF RunLambda
  <2> QED BY <2>1, <2>2
<1>4. ASSUME NEW l \in Loops, Enter(l) PROVE DeferralEnds'
  <2>1. stack \in Seq(Loops) /\ state \in [Loops -> {"IDLE", "ACTIVE", "LEAVING"}]
        /\ Len(stack) \in Nat
    BY DEF TypeOK
  <2>2. /\ Len(stack') = Len(stack) + 1 /\ ~left'
        /\ \A i \in 1..Len(stack) : stack'[i] = stack[i]
    BY <1>4, <2>1, GrowFacts DEF Enter, InHandler
  <2>3. SUFFICES ASSUME leavingNestedEventLoop'
                 PROVE  \E i \in 1..Len(stack') : state'[stack'[i]] = "LEAVING"
    BY <2>2 DEF DeferralEnds
  <2>4. PICK i \in 1..Len(stack) : state[stack[i]] = "LEAVING"
    BY <1>4, <2>3 DEF Enter, DeferralEnds
  <2>5. stack[i] # l /\ stack[i] \in Loops
    BY <1>4, <2>1, <2>4 DEF Enter
  <2>6. state'[stack[i]] = "LEAVING"
    BY <1>4, <2>1, <2>4, <2>5 DEF Enter
  <2> QED BY <2>1, <2>2, <2>6
<1>5. ASSUME NEW l \in Loops, Leave(l) PROVE DeferralEnds'
  <2>1. stack \in Seq(Loops) /\ state \in [Loops -> {"IDLE", "ACTIVE", "LEAVING"}]
    BY DEF TypeOK
  <2>2. /\ stack' = stack /\ ~left' /\ ~left /\ state'[l] = "LEAVING"
        /\ \A k \in Loops : state[k] = "LEAVING" => state'[k] = "LEAVING"
        /\ state[l] = "ACTIVE"
    BY <1>5, <2>1 DEF Leave, InHandler
  <2>3. \E i \in 1..Len(stack) : stack[i] = l
    BY <2>2 DEF StackInv, InUse
  <2> QED BY <2>2, <2>3 DEF DeferralEnds
<1>6. CASE LoopReturns
  BY <1>6 DEF LoopReturns, NotifyLeftNestedEventLoop, DeferralEnds
<1>7. CASE EnterReturns
  BY <1>7 DEF EnterReturns, DeferralEnds
<1>8. CASE UNCHANGED vars
  BY <1>8, DeferralQuiet DEF vars
<1> QED
  BY <1>1, <1>2, <1>3, <1>4, <1>5, <1>6, <1>7, <1>8
  DEF Next, HandlerNext, LoopNext

----------------------------------------------------------------------------------
(* NoLostNotification.                                                            *)
LEMMA SleepQuiet ==
  ASSUME NoLostNotification,
         UNCHANGED <<asleep, dispVars, flagVars, finished, call>>
  PROVE  NoLostNotification'
  BY DEF NoLostNotification, MustWait, dispVars, flagVars

(* Steps that wake every thread.                                                  *)
LEMMA AllAwake ==
  ASSUME asleep' = {}
  PROVE  NoLostNotification'
  BY DEF NoLostNotification

LEMMA SleepStep ==
  ASSUME TypeOK, NoLostNotification, [Next]_vars
  PROVE  NoLostNotification'
<1> USE DEF appVars, loopVars, quitVars, dispVars, flagVars, runVars, postVars,
            boundVars
<1>1. CASE InvokeLater \/ NativeEvent \/ RunLater \/ Terminate
  BY <1>1, SleepQuiet DEF InvokeLater, NativeEvent, RunLater, Terminate
<1>2. CASE Defer \/ Take \/ Submit
  <2>1. pc \in {"take", "submit"} /\ UNCHANGED <<asleep, call>>
    BY <1>2 DEF Defer, Take, Submit
  <2>2. Dispatcher \notin asleep
    BY <2>1 DEF NoLostNotification, MustWait
  <2> QED BY <2>1, <2>2 DEF NoLostNotification
<1>3. CASE DispatcherWaits
  <2>1. MustWait' /\ call' = call /\ asleep' = asleep \cup {Dispatcher}
    BY <1>3 DEF DispatcherWaits, MustWait
  <2> QED BY <2>1, LoopAssumption DEF NoLostNotification
<1>4. CASE DispatcherResumes
  BY <1>4 DEF DispatcherResumes, NoLostNotification
<1>5. ASSUME NEW t \in Clients, InvokeAndWait(t) PROVE NoLostNotification'
  <2>1. /\ call \in [Clients -> {"none", "native", "running", "done"}]
        /\ call' = [call EXCEPT ![t] = "native"]
        /\ UNCHANGED <<asleep, dispVars, flagVars, finished>>
    BY <1>5 DEF TypeOK, InvokeAndWait
  <2>2. MustWait' <=> MustWait
    BY <2>1 DEF MustWait
  <2> QED BY <2>1, <2>2 DEF NoLostNotification
<1>6. ASSUME NEW t \in Clients, ClientWaits(t) PROVE NoLostNotification'
  <2>1. /\ call[t] \in {"native", "running"} /\ asleep' = asleep \cup {t}
        /\ UNCHANGED <<call, dispVars, flagVars, finished>>
    BY <1>6 DEF ClientWaits
  <2>2. MustWait' <=> MustWait
    BY <2>1 DEF MustWait
  <2> QED BY <2>1, <2>2, LoopAssumption DEF NoLostNotification
<1>7. ASSUME NEW t \in Clients, ClientReturns(t) PROVE NoLostNotification'
  <2>1. /\ call \in [Clients -> {"none", "native", "running", "done"}]
        /\ call' = [call EXCEPT ![t] = "none"] /\ t \notin asleep
        /\ UNCHANGED <<asleep, dispVars, flagVars, finished>>
    BY <1>7 DEF TypeOK, ClientReturns
  <2>2. MustWait' <=> MustWait
    BY <2>1 DEF MustWait
  <2> QED BY <2>1, <2>2 DEF NoLostNotification
<1>8. ASSUME NEW t \in Clients, RunClient(t) PROVE NoLostNotification'
  <2>1. /\ call \in [Clients -> {"none", "native", "running", "done"}]
        /\ call' = [call EXCEPT ![t] = "running"]
        /\ UNCHANGED <<asleep, dispVars, flagVars, finished>>
    BY <1>8 DEF TypeOK, RunClient
  <2>2. MustWait' <=> MustWait
    BY <2>1 DEF MustWait
  <2> QED BY <2>1, <2>2 DEF NoLostNotification
<1>9. CASE RunLambda \/ LoopReturns
  BY <1>9, AllAwake DEF RunLambda, LoopReturns, NotifyLeftNestedEventLoop
<1>10. CASE HandlerEnds
  <2>1. CASE Handler = NativeHandler
    <3>1. Handler.later = 0 /\ Handler.wait = {}
      BY <2>1 DEF NativeHandler
    <3>2. UNCHANGED <<asleep, dispVars, flagVars, finished>>
      BY <1>10, <2>1, <3>1 DEF HandlerEnds
    <3>3. call' = call
      BY <1>10, <3>1 DEF HandlerEnds, TypeOK
    <3> QED BY <3>2, <3>3, SleepQuiet
  <2>2. CASE Handler # NativeHandler
    BY <1>10, <2>2, AllAwake DEF HandlerEnds
  <2> QED BY <2>1, <2>2
<1>11. ASSUME NEW l \in Loops, Enter(l) PROVE NoLostNotification'
  BY <1>11, AllAwake DEF Enter, NotifyEnteringNestedEventLoop
<1>12. ASSUME NEW l \in Loops, Leave(l) PROVE NoLostNotification'
  <2>1. CASE Top = l /\ ~terminated
    BY <1>12, <2>1, AllAwake DEF Leave, LeaveNestedEventLoop
  <2>2. CASE ~(Top = l /\ ~terminated)
    BY <1>12, <2>2, SleepQuiet DEF Leave
  <2> QED BY <2>1, <2>2
<1>13. CASE EnterReturns
  BY <1>13, SleepQuiet DEF EnterReturns
<1>14. CASE UNCHANGED vars
  BY <1>14, SleepQuiet DEF vars
<1> QED
  BY <1>1, <1>2, <1>3, <1>4, <1>5, <1>6, <1>7, <1>8, <1>9, <1>10, <1>11, <1>12, <1>13,
     <1>14
  DEF Next, DispatcherNext, ClientNext, HandlerNext, LoopNext

----------------------------------------------------------------------------------
(* WaitInv.  Each frame holds the number of the runnable it runs, or 0.           *)
LEMMA FrameLater ==
  ASSUME TypeOK, NEW i \in 1..Len(frames)
  PROVE  frames[i].later \in Nat
<1>1. frames[i] \in Handlers
  BY DEF TypeOK
<1> QED BY <1>1 DEF Handlers

LEMMA WaitQuiet ==
  ASSUME WaitInv, UNCHANGED <<stack, frames, started, pc, hand, nestedEventLoopEntered>>
  PROVE  WaitInv'
  BY DEF WaitInv, FrameOrder, DispatcherNotBlocked

(* A handler starts on top of the innermost loop.                                 *)
LEMMA WaitPush ==
  ASSUME TypeOK, WaitInv, InLoop, NEW h \in Handlers, frames' = Append(frames, h),
         h.later <= started', started' >= started, started' \in Nat,
         UNCHANGED <<stack, pc, hand, nestedEventLoopEntered>>
  PROVE  WaitInv'
<1>1. frames \in Seq(Handlers) /\ Len(frames) \in Nat /\ Len(frames) = Len(stack)
      /\ started \in Nat
  BY DEF TypeOK, InLoop
<1>2. /\ Len(frames') = Len(frames) + 1 /\ frames'[Len(frames) + 1] = h
      /\ \A i \in 1..Len(frames) : frames'[i] = frames[i]
  BY <1>1, GrowFacts
<1>3. FrameOrder'
  <2>1. SUFFICES ASSUME NEW i \in 1..(Len(frames) + 1) PROVE frames'[i].later <= started'
    BY <1>2 DEF FrameOrder
  <2>2. CASE i = Len(frames) + 1
    BY <1>2, <2>2
  <2>3. CASE i \in 1..Len(frames)
    <3>1. frames[i].later \in Nat /\ frames[i].later <= started
      BY <2>3, FrameLater DEF WaitInv, FrameOrder
    <3> QED BY <1>1, <1>2, <2>3, <3>1
  <2> QED BY <1>1, <2>2, <2>3
<1>4. DispatcherNotBlocked'
  BY <1>1, <1>2 DEF WaitInv, DispatcherNotBlocked
<1> QED BY <1>3, <1>4 DEF WaitInv

LEMMA WaitStep ==
  ASSUME TypeOK, OrderInv, WaitInv, [Next]_vars
  PROVE  WaitInv'
<1> USE DEF appVars, loopVars, quitVars, dispVars, flagVars, runVars, postVars,
            boundVars
<1>1. CASE InvokeLater \/ DispatcherWaits \/ LoopReturns \/ Terminate
  BY <1>1, WaitQuiet DEF InvokeLater, DispatcherWaits, LoopReturns, Terminate
<1>2. CASE Defer \/ Take \/ DispatcherResumes
  BY <1>2 DEF Defer, Take, DispatcherResumes, WaitInv, FrameOrder, DispatcherNotBlocked
<1>3. CASE Submit
  <2>1. /\ UNCHANGED <<frames, stack, started, hand>> /\ hand > started
        /\ started \in Nat /\ hand \in Nat
    BY <1>3, OrderFacts DEF Submit, TypeOK
  <2>2. frames \in Seq(Handlers) /\ Len(stack) <= Len(frames) /\ Len(stack) \in Nat
        /\ Len(frames) \in Nat
    BY DEF TypeOK
  <2>3. ASSUME NEW i \in 1..Len(stack) PROVE frames[i].later # hand
    <3>1. i \in 1..Len(frames)
      BY <2>2
    <3>2. frames[i].later \in Nat /\ frames[i].later <= started
      BY <3>1, FrameLater DEF WaitInv, FrameOrder
    <3> QED BY <2>1, <3>2
  <2> QED BY <2>1, <2>3 DEF WaitInv, FrameOrder, DispatcherNotBlocked
<1>4. ASSUME NEW t \in Clients, ClientNext(t) PROVE WaitInv'
  BY <1>4, WaitQuiet DEF ClientNext, InvokeAndWait, ClientWaits, ClientReturns
<1>5. started \in Nat /\ 0 <= started /\ started >= started
  BY DEF TypeOK
<1>6. CASE NativeEvent
  <2>1. NativeHandler \in Handlers /\ NativeHandler.later = 0
    BY DEF NativeHandler, Handlers
  <2> QED BY <1>5, <1>6, <2>1, WaitPush DEF NativeEvent, Dispatches
<1>7. ASSUME NEW t \in Clients, RunClient(t) PROVE WaitInv'
  <2> DEFINE h == [later |-> 0, wait |-> {t}]
  <2>1. h \in Handlers /\ h.later = 0
    BY DEF Handlers
  <2>2. InLoop /\ frames' = Append(frames, h) /\ started' = started
        /\ UNCHANGED <<stack, pc, hand, nestedEventLoopEntered>>
    BY <1>7 DEF RunClient, Dispatches
  <2> HIDE DEF h
  <2> QED BY <1>5, <2>1, <2>2, WaitPush
<1>8. CASE RunLater
  <2> DEFINE h == [later |-> Head(native), wait |-> {}]
  <2>1. started' = Head(native) /\ started' = started + 1
    BY <1>8, OrderFacts DEF RunLater
  <2>2. h \in Handlers /\ h.later = started' /\ started' \in Nat
        /\ started' >= started /\ h.later <= started'
    BY <1>5, <2>1 DEF Handlers
  <2>3. InLoop /\ frames' = Append(frames, h)
        /\ UNCHANGED <<stack, pc, hand, nestedEventLoopEntered>>
    BY <1>8 DEF RunLater, Dispatches
  <2> HIDE DEF h
  <2> QED BY <2>2, <2>3, WaitPush
<1>9. CASE RunLambda
  <2>1. /\ started' = started + 1
        /\ UNCHANGED <<stack, frames, pc, hand, nestedEventLoopEntered>>
    BY <1>9, OrderFacts DEF RunLambda
  <2>2. \A i \in 1..Len(frames) : frames[i].later \in Nat
    BY FrameLater
  <2> QED BY <1>5, <2>1, <2>2 DEF WaitInv, FrameOrder, DispatcherNotBlocked
<1>10. CASE HandlerEnds
  <2>1. frames \in Seq(Handlers) /\ frames # <<>> /\ Len(frames) = Len(stack) + 1
        /\ Len(stack) \in Nat
    BY <1>10 DEF TypeOK, HandlerEnds, InHandler
  <2>2. /\ Len(frames') = Len(stack)
        /\ \A i \in 1..Len(stack) : frames'[i] = frames[i]
    BY <1>10, <2>1, PopFacts DEF HandlerEnds
  <2>3. UNCHANGED <<stack, started, pc, hand, nestedEventLoopEntered>>
    BY <1>10 DEF HandlerEnds
  <2> QED BY <2>1, <2>2, <2>3 DEF WaitInv, FrameOrder, DispatcherNotBlocked
<1>11. ASSUME NEW l \in Loops, Enter(l) PROVE WaitInv'
  BY <1>11 DEF Enter, NotifyEnteringNestedEventLoop, WaitInv, FrameOrder,
               DispatcherNotBlocked
<1>12. ASSUME NEW l \in Loops, Leave(l) PROVE WaitInv'
  BY <1>12, WaitQuiet DEF Leave
<1>13. CASE EnterReturns
  <2>1. Len(stack') = Len(stack) - 1 /\ Len(stack) \in Nat
    BY <1>13, PopFacts DEF TypeOK, EnterReturns, Popped
  <2>2. UNCHANGED <<frames, started, pc, hand, nestedEventLoopEntered>>
    BY <1>13 DEF EnterReturns
  <2> QED BY <2>1, <2>2 DEF WaitInv, FrameOrder, DispatcherNotBlocked
<1>14. CASE UNCHANGED vars
  BY <1>14, WaitQuiet DEF vars
<1> QED
  BY <1>1, <1>2, <1>3, <1>4, <1>6, <1>7, <1>8, <1>9, <1>10, <1>11, <1>12, <1>13, <1>14
  DEF Next, DispatcherNext, HandlerNext, LoopNext

----------------------------------------------------------------------------------
(* OneQuit and the assertions of EventLoop.enter.                                 *)
QuitInv == Excepted \/ (OneQuit /\ AssertsHold)

LEMMA QuitInit == Init => QuitInv
  BY DEF Init, QuitInv, OneQuit, AssertsHold

(* An exception stays one.                                                        *)
LEMMA ExceptedStays == ASSUME Excepted, [Next]_vars PROVE Excepted'
<1> USE DEF appVars
<1>1. ASSUME platform' = platform, terminated => terminated', reentered => reentered'
      PROVE  Excepted'
  BY <1>1 DEF Excepted
<1>2. CASE InvokeLater \/ DispatcherNext \/ NativeEvent \/ RunLater \/ RunLambda
           \/ HandlerEnds \/ LoopReturns \/ EnterReturns
  BY <1>1, <1>2
  DEF InvokeLater, DispatcherNext, Defer, Take, Submit, DispatcherWaits,
      DispatcherResumes, NativeEvent, RunLater, RunLambda, HandlerEnds, LoopReturns,
      EnterReturns
<1>3. ASSUME NEW t \in Clients, ClientNext(t) \/ RunClient(t) PROVE Excepted'
  BY <1>1, <1>3 DEF ClientNext, InvokeAndWait, ClientWaits, ClientReturns, RunClient
<1>4. ASSUME NEW l \in Loops, Enter(l) \/ Leave(l) PROVE Excepted'
  BY <1>1, <1>4 DEF Enter, Leave
<1>5. CASE Terminate
  BY <1>1, <1>5 DEF Terminate
<1>6. CASE UNCHANGED vars
  BY <1>1, <1>6 DEF vars
<1> QED
  BY <1>2, <1>3, <1>4, <1>5, <1>6 DEF Next, HandlerNext, LoopNext

LEMMA QuitQuiet ==
  ASSUME OneQuit, AssertsHold,
         UNCHANGED <<platform, terminated, reentered, stack, state, quit, left, ret,
                     passValue, leavingNestedEventLoop>>
  PROVE  OneQuit' /\ AssertsHold'
  BY DEF OneQuit, AssertsHold, Top

LEMMA QuitStep ==
  ASSUME TypeOK, StackInv, QuitInv, [Next]_vars
  PROVE  QuitInv'
<1> SUFFICES ASSUME ~Excepted' PROVE OneQuit' /\ AssertsHold'
  BY DEF QuitInv
<1> USE DEF appVars, loopVars, quitVars, dispVars, flagVars, runVars, postVars,
            boundVars
<1>a. OneQuit /\ AssertsHold
  BY ExceptedStays DEF QuitInv
<1>b. ~terminated' /\ (platform' = "gtk" => ~reentered')
  BY DEF Excepted
<1>1. CASE InvokeLater \/ DispatcherNext \/ NativeEvent \/ RunLater \/ HandlerEnds
  BY <1>1, <1>a, QuitQuiet
  DEF InvokeLater, DispatcherNext, Defer, Take, Submit, DispatcherWaits,
      DispatcherResumes, NativeEvent, RunLater, HandlerEnds
<1>2. ASSUME NEW t \in Clients, ClientNext(t) \/ RunClient(t)
      PROVE  OneQuit' /\ AssertsHold'
  BY <1>2, <1>a, QuitQuiet
  DEF ClientNext, InvokeAndWait, ClientWaits, ClientReturns, RunClient
<1>3. CASE RunLambda
  <2>1. CASE LeaveAgain
    <3>1. /\ stack # <<>> /\ ~left /\ UNCHANGED <<stack, left>> /\ Top' = Top
          /\ leavingNestedEventLoop' /\ passValue' = Top /\ quit' = quit \cup {Top}
      BY <1>3, <2>1
      DEF RunLambda, LeaveAgain, LeaveNestedEventLoop, Dispatches, InLoop, Top
    <3> QED BY <1>a, <3>1 DEF OneQuit, AssertsHold
  <2>2. CASE ~LeaveAgain
    BY <1>3, <1>a, <2>2, QuitQuiet DEF RunLambda
  <2> QED BY <2>1, <2>2
<1>4. ASSUME NEW l \in Loops, Enter(l) PROVE OneQuit' /\ AssertsHold'
  <2>1. quit' = {}
    <3>1. CASE SharedFlag
      BY <1>4, <3>1 DEF Enter, QuitOnEntry
    <3>2. CASE ~SharedFlag
      <4>1. ~leavingNestedEventLoop
        BY <1>4, <1>b, <3>2 DEF Enter, SharedFlag
      <4> QED BY <1>4, <1>a, <3>2, <4>1 DEF Enter, QuitOnEntry, OneQuit
    <3> QED BY <3>1, <3>2
  <2>2. ~left'
    BY <1>4 DEF Enter, InHandler
  <2> QED BY <2>1, <2>2 DEF OneQuit, AssertsHold
<1>5. ASSUME NEW l \in Loops, Leave(l) PROVE OneQuit' /\ AssertsHold'
  <2>1. /\ stack' = stack /\ Top' = Top /\ ~left /\ ~left' /\ ~terminated
        /\ UNCHANGED <<left, ret>> /\ state[l] = "ACTIVE"
    BY <1>5, <1>b DEF Leave, InHandler, Top
  <2>2. CASE Top = l
    <3>1. stack # <<>>
      BY <2>1 DEF StackInv, InUse
    <3>2. leavingNestedEventLoop' /\ passValue' = Top /\ quit' = quit \cup {Top}
      BY <1>5, <2>1, <2>2 DEF Leave, LeaveNestedEventLoop
    <3> QED BY <1>a, <2>1, <3>1, <3>2 DEF OneQuit, AssertsHold
  <2>3. CASE Top # l
    <3>1. UNCHANGED <<quit, passValue, leavingNestedEventLoop>>
      BY <1>5, <2>3 DEF Leave
    <3> QED BY <1>a, <2>1, <3>1 DEF OneQuit, AssertsHold
  <2> QED BY <2>2, <2>3
<1>6. CASE LoopReturns
  <2>1. Top \in quit /\ state[Top] = "LEAVING"
    BY <1>6, <1>b, ToldLeaving DEF LoopReturns
  <2>2. quit = {Top} /\ passValue = Top
    BY <1>a, <2>1 DEF OneQuit
  <2>3. quit' = {} /\ ret' = Top /\ Top' = Top /\ state' = state
    BY <1>6, <2>2 DEF LoopReturns, Top
  <2> QED BY <2>1, <2>3 DEF OneQuit, AssertsHold
<1>7. CASE EnterReturns
  <2>1. quit' = {} /\ ~left'
    BY <1>7, <1>a DEF EnterReturns, OneQuit
  <2> QED BY <2>1 DEF OneQuit, AssertsHold
<1>8. CASE Terminate
  BY <1>8, <1>b DEF Terminate
<1>9. CASE UNCHANGED vars
  BY <1>9, <1>a, QuitQuiet DEF vars
<1> QED
  BY <1>1, <1>2, <1>3, <1>4, <1>5, <1>6, <1>7, <1>8, <1>9
  DEF Next, HandlerNext, LoopNext

----------------------------------------------------------------------------------
(* The inductive invariant, and what follows from it.                             *)
LEMMA LoopInit == Init => LoopInv
<1> SUFFICES ASSUME Init PROVE LoopInv
  OBVIOUS
<1>1. LeaveIsKept /\ DeferralEnds /\ NoLostNotification
  BY DEF Init, LeaveIsKept, DeferralEnds, NoLostNotification
<1>2. WaitInv
  BY DEF Init, WaitInv, FrameOrder, DispatcherNotBlocked
<1> QED BY <1>1, <1>2, TypeInit, OrderInit, StackInit DEF LoopInv

LEMMA LoopStep ==
  ASSUME LoopInv, [Next]_vars
  PROVE  LoopInv'
  BY TypeStep, OrderStep, StackStep, KeptStep, DeferralStep, SleepStep, WaitStep
  DEF LoopInv

LEMMA LoopAlways == Spec => []LoopInv
  BY LoopInit, LoopStep, PTL DEF Spec

(* The types of the event loops, the dispatcher and its clients.                  *)
THEOREM TypesHold == Spec => []TypeOK
<1>1. LoopInv => TypeOK
  BY DEF LoopInv
<1> QED BY <1>1, LoopAlways, PTL

(* A loop that EventLoop.leave was called for is never forgotten: when it is the  *)
(* innermost one, it is told to end or the lambda of enter() is on its way.       *)
THEOREM LeaveAlwaysKept == Spec => []LeaveIsKept
<1>1. LoopInv => LeaveIsKept
  BY DEF LoopInv
<1> QED BY <1>1, LoopAlways, PTL

(* leavingNestedEventLoop is set only while a left loop is there to reset it.     *)
THEOREM DeferralAlwaysEnds == Spec => []DeferralEnds
<1>1. LoopInv => DeferralEnds
  BY DEF LoopInv
<1> QED BY <1>1, LoopAlways, PTL

(* Neither the dispatcher nor a caller of invokeAndWait misses a notifyAll().     *)
THEOREM NoNotificationLost == Spec => []NoLostNotification
<1>1. LoopInv => NoLostNotification
  BY DEF LoopInv
<1> QED BY <1>1, LoopAlways, PTL

(* The dispatcher goes on when the runnable it waits for enters a nested loop,    *)
(* whatever it did while that happened.                                           *)
THEOREM DispatcherNeverBlocked == Spec => []DispatcherNotBlocked
<1>1. LoopInv => DispatcherNotBlocked
  BY DEF LoopInv, WaitInv
<1> QED BY <1>1, LoopAlways, PTL

(* Runnables start in the order of the calls of invokeLater, through any nesting  *)
(* of loops and any deferral.                                                     *)
THEOREM AlwaysInOrder == Spec => RunsInOrder
<1>1. ASSUME LoopInv, [Next]_vars
      PROVE  [started' # started => started' = started + 1]_vars
  <2> USE DEF appVars, loopVars, quitVars, dispVars, flagVars, runVars, postVars,
              boundVars
  <2>1. CASE RunLater \/ RunLambda
    BY <1>1, <2>1, OrderFacts DEF LoopInv, RunLater, RunLambda
  <2>2. CASE InvokeLater \/ DispatcherNext \/ NativeEvent \/ HandlerEnds \/ LoopReturns
             \/ EnterReturns
    BY <2>2
    DEF InvokeLater, DispatcherNext, Defer, Take, Submit, DispatcherWaits,
        DispatcherResumes, NativeEvent, HandlerEnds, LoopReturns, EnterReturns
  <2>3. ASSUME NEW t \in Clients, ClientNext(t) \/ RunClient(t) PROVE started' = started
    BY <2>3 DEF ClientNext, InvokeAndWait, ClientWaits, ClientReturns, RunClient
  <2>4. ASSUME NEW l \in Loops, Enter(l) \/ Leave(l) PROVE started' = started
    BY <2>4 DEF Enter, Leave
  <2>5. CASE Terminate
    BY <2>5 DEF Terminate
  <2> QED
    BY <1>1, <2>1, <2>2, <2>3, <2>4, <2>5 DEF Next, HandlerNext, LoopNext
<1> QED BY <1>1, LoopAlways, PTL DEF Spec, RunsInOrder

(* The assertions of EventLoop.enter hold on every platform until terminate is    *)
(* called, on gtk as long as no handler enters a loop after leaving the current   *)
(* one.                                                                           *)
THEOREM AssertsAlwaysHold == Spec => []AssertsHold
<1>1. LoopInv => TypeOK /\ StackInv
  BY DEF LoopInv
<1>2. ASSUME TypeOK, StackInv, QuitInv, [Next]_vars PROVE QuitInv'
  BY <1>2, QuitStep
<1>3. QuitInv => AssertsHold
  BY DEF QuitInv, Excepted, AssertsHold
<1> QED BY <1>1, <1>2, <1>3, QuitInit, LoopAlways, PTL DEF Spec
=================================================================================
