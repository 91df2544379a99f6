-------------------------------- MODULE EventLoops --------------------------------
(* Nested event loops and the dispatcher of invokeLater: EventLoop,               *)
(* InvokeLaterDispatcher, the nested loops of Application and of its gtk, win and *)
(* mac subclasses.  Three kinds of threads:                                       *)
(*   the event thread, a stack of nested loops, each below a handler that is      *)
(*     blocked in EventLoop.enter();                                              *)
(*   the dispatcher, which hands runnables to the native queue one by one;        *)
(*   clients, which call invokeLater and invokeAndWait.                           *)
(* Runnables of invokeLater are numbered in the order of the calls.  LOCK is the  *)
(* monitor of the dispatcher: asleep are the threads in LOCK.wait(), and          *)
(* notifyAll() empties it.                                                        *)
EXTENDS Integers, Sequences

CONSTANTS
  Loops,            \* EventLoop objects
  Clients,          \* threads that call invokeAndWait
  Dispatcher,       \* the dispatcher thread
  NoLoop,           \* null
  Platforms,        \* the subclasses of Application the program may run with
  MaxCalls,         \* bound: calls of invokeLater by the application
  MaxEnters         \* bound: calls of EventLoop.enter

ASSUME LoopAssumption ==
  /\ Dispatcher \notin Clients
  /\ NoLoop \notin Loops
  /\ Platforms \subseteq {"gtk", "win", "mac"}
  /\ MaxCalls \in Nat /\ MaxEnters \in Nat

VARIABLES
  platform,         \* the subclass of Application
  terminated,       \* Application.terminate has been called
  ended,            \* and with it every native loop has to end
  reentered,        \* history: a loop was entered before one that was left returned
  stack,            \* EventLoop.stack, the innermost loop last
  state,            \* EventLoop.state
  frames,           \* what the event thread runs at each level, the innermost last
  left,             \* the innermost native loop has returned, enter() has not
  ret,              \* what it returned
  quit,             \* loops whose native loop is told to end
  passValue,        \* eventLoopExitEnterPassValue, sm_nestedLoopReturnValue
  deque,
  pc, hand,         \* the dispatcher: its place, and the runnable in its hand
  asleep,
  nestedEventLoopEntered, leavingNestedEventLoop,
  native,           \* runnables of invokeLater in the native queue
  finished,         \* runnables of invokeLater whose Future is done
  lambdas,          \* those that are the lambda of EventLoop.enter
  call,             \* of each client: its invokeAndWait
  count, started,   \* the last runnable given to invokeLater, the last one started
  calls, enters

loopVars == <<stack, state, frames, left, ret>>
quitVars == <<quit, passValue>>
dispVars == <<pc, hand>>
flagVars == <<nestedEventLoopEntered, leavingNestedEventLoop>>
runVars  == <<native, started, finished>>
postVars == <<deque, count, lambdas>>
boundVars == <<calls, enters>>
appVars == <<platform, terminated, ended, reentered>>
vars == <<appVars, loopVars, quitVars, dispVars, flagVars, runVars, postVars,
          asleep, call, boundVars>>

(* A handler: of a native event, of runnable later, or of a call of invokeAndWait *)
(* by the clients in wait (none or one).                                          *)
Handlers == [later : Nat, wait : SUBSET Clients]
NativeHandler == [later |-> 0, wait |-> {}]

Init ==
  /\ platform \in Platforms /\ terminated = FALSE /\ ended = FALSE
  /\ reentered = FALSE
  /\ stack = <<>> /\ state = [l \in Loops |-> "IDLE"]
  /\ frames = <<>> /\ left = FALSE /\ ret = NoLoop
  /\ quit = {} /\ passValue = NoLoop
  /\ deque = <<>> /\ native = <<>> /\ finished = {} /\ lambdas = {}
  /\ pc = "take" /\ hand = 0 /\ asleep = {}
  /\ nestedEventLoopEntered = FALSE /\ leavingNestedEventLoop = FALSE
  /\ call = [t \in Clients |-> "none"]
  /\ count = 0 /\ started = 0 /\ calls = 0 /\ enters = 0

Top == stack[Len(stack)]
Handler == frames[Len(frames)]

(* The event thread is in a handler, or in the native loop that waits for events. *)
InHandler == ~left /\ Len(frames) > Len(stack)
InLoop    == ~left /\ Len(frames) = Len(stack)

(* One flag tells the native loops to end (win, mac), or each native loop has its *)
(* own (gtk).                                                                     *)
SharedFlag == platform # "gtk"

(* The native loop calls handlers.  One that was told to end may still do so: "A  *)
(* native system may by default execute all submitted runnables before actually   *)
(* leaving a nested event loop."                                                  *)
Dispatches == InLoop /\ ~ended

(* checkEventThread: on gtk and win finishTerminating has reset the event thread. *)
CheckEventThread == terminated => platform = "mac"

----------------------------------------------------------------------------------
(* InvokeLaterDispatcher.invokeLater; a terminated application is null.           *)
InvokeLater ==
  /\ ~terminated /\ calls < MaxCalls
  /\ calls' = calls + 1
  /\ count' = count + 1
  /\ deque' = Append(deque, count + 1)
  /\ UNCHANGED <<appVars, loopVars, quitVars, dispVars, flagVars, runVars,
                 lambdas, asleep, call, enters>>

\* Variant: the deferred runnable goes to the end of the deque.
PutLast == Append(Tail(deque), Head(deque))

(* deque.addFirst(r), after takeFirst().                                          *)
PutBack == <<Head(deque)>> \o Tail(deque)

(* run(): a runnable is taken, and put back when a nested loop is being left.     *)
Defer ==
  /\ pc = "take" /\ deque # <<>> /\ leavingNestedEventLoop
  /\ pc' = "defer" /\ deque' = PutBack
  /\ UNCHANGED <<appVars, loopVars, quitVars, hand, flagVars, runVars, count,
                 lambdas, asleep, call, boundVars>>

(* The runnable is taken, no loop is being left.                                  *)
Take ==
  /\ pc = "take" /\ deque # <<>> /\ ~leavingNestedEventLoop
  /\ pc' = "submit" /\ hand' = Head(deque) /\ deque' = Tail(deque)
  /\ UNCHANGED <<appVars, loopVars, quitVars, flagVars, runVars, count, lambdas,
                 asleep, call, boundVars>>

(* submitForLaterInvocation: what was read before may have changed.               *)
Submit ==
  /\ pc = "submit"
  /\ pc' = "wait" /\ native' = Append(native, hand)
  /\ UNCHANGED <<appVars, loopVars, quitVars, hand, flagVars, started, finished,
                 postVars, asleep, call, boundVars>>

(* The conditions of the two loops around LOCK.wait().                            *)
MustWait ==
  \/ pc = "defer" /\ leavingNestedEventLoop
  \/ pc = "wait"  /\ hand \notin finished /\ ~nestedEventLoopEntered

DispatcherWaits ==
  /\ Dispatcher \notin asleep /\ MustWait
  /\ asleep' = asleep \cup {Dispatcher}
  /\ UNCHANGED <<appVars, loopVars, quitVars, dispVars, flagVars, runVars,
                 postVars, call, boundVars>>

DispatcherResumes ==
  /\ Dispatcher \notin asleep /\ pc \in {"defer", "wait"} /\ ~MustWait
  /\ pc' = "take"
  /\ nestedEventLoopEntered' = (pc = "defer" /\ nestedEventLoopEntered)
  /\ UNCHANGED <<appVars, loopVars, quitVars, hand, leavingNestedEventLoop,
                 runVars, postVars, asleep, call, boundVars>>

----------------------------------------------------------------------------------
(* InvokeLaterDispatcher.invokeAndWait, on the thread of a client.                *)
InvokeAndWait(t) ==
  /\ ~terminated /\ call[t] = "none"
  /\ call' = [call EXCEPT ![t] = "native"]
  /\ UNCHANGED <<appVars, loopVars, quitVars, dispVars, flagVars, runVars,
                 postVars, asleep, boundVars>>

ClientWaits(t) ==
  /\ t \notin asleep /\ call[t] \in {"native", "running"}
  /\ asleep' = asleep \cup {t}
  /\ UNCHANGED <<appVars, loopVars, quitVars, dispVars, flagVars, runVars,
                 postVars, call, boundVars>>

ClientReturns(t) ==
  /\ t \notin asleep /\ call[t] = "done"
  /\ call' = [call EXCEPT ![t] = "none"]
  /\ UNCHANGED <<appVars, loopVars, quitVars, dispVars, flagVars, runVars,
                 postVars, asleep, boundVars>>

----------------------------------------------------------------------------------
(* The native loop calls a handler.                                               *)
NativeEvent ==
  /\ Dispatches
  /\ frames' = Append(frames, NativeHandler)
  /\ UNCHANGED <<appVars, stack, state, left, ret, quitVars, dispVars, flagVars,
                 runVars, postVars, asleep, call, boundVars>>

RunClient(t) ==
  /\ Dispatches /\ call[t] = "native"
  /\ call' = [call EXCEPT ![t] = "running"]
  /\ frames' = Append(frames, [later |-> 0, wait |-> {t}])
  /\ UNCHANGED <<appVars, stack, state, left, ret, quitVars, dispVars, flagVars,
                 runVars, postVars, asleep, boundVars>>

(* Future.run of a runnable of the application.                                   *)
RunLater ==
  /\ Dispatches /\ native # <<>> /\ Head(native) \notin lambdas
  /\ started' = Head(native) /\ native' = Tail(native)
  /\ frames' = Append(frames, [later |-> Head(native), wait |-> {}])
  /\ UNCHANGED <<appVars, stack, state, left, ret, quitVars, dispVars, flagVars,
                 finished, postVars, asleep, call, boundVars>>

(* Application.leaveNestedEventLoop and the _leaveNestedEventLoop of the          *)
(* platform, with notifyLeavingNestedEventLoop.                                   *)
LeaveNestedEventLoop(l) ==
  /\ leavingNestedEventLoop' = TRUE /\ asleep' = {}
  /\ passValue' = l
  /\ quit' = quit \cup {l}

(* The test in the lambda of EventLoop.enter.  After terminate                    *)
(* leaveNestedEventLoop throws.                                                   *)
LeaveAgain == ~terminated /\ stack # <<>> /\ state[Top] = "LEAVING"

(* Future.run of that lambda: it leaves the innermost loop if that one is to be   *)
(* left.                                                                          *)
RunLambda ==
  /\ Dispatches /\ native # <<>> /\ Head(native) \in lambdas
  /\ started' = Head(native) /\ native' = Tail(native)
  /\ finished' = finished \cup {Head(native)}
  /\ asleep' = {}
  /\ IF LeaveAgain
       THEN LeaveNestedEventLoop(Top)
       ELSE UNCHANGED <<leavingNestedEventLoop, quitVars>>
  /\ UNCHANGED <<appVars, loopVars, dispVars, nestedEventLoopEntered, postVars,
                 call, boundVars>>

(* A handler returns to its native loop; Future.run sets done and notifies.       *)
HandlerEnds ==
  /\ InHandler
  /\ frames' = SubSeq(frames, 1, Len(frames) - 1)
  /\ finished' = IF Handler.later = 0 THEN finished ELSE finished \cup {Handler.later}
  /\ call' = [t \in Clients |-> IF t \in Handler.wait THEN "done" ELSE call[t]]
  /\ asleep' = IF Handler = NativeHandler THEN asleep ELSE {}
  /\ UNCHANGED <<appVars, stack, state, left, ret, quitVars, dispVars, flagVars,
                 native, started, postVars, boundVars>>

----------------------------------------------------------------------------------
\* Variant: the shared flag survives the entry of a loop.
NothingCleared == quit

(* What is left of the orders to end when a native loop is entered: the one flag  *)
(* of win and mac is reset.                                                       *)
QuitOnEntry == IF SharedFlag THEN {} ELSE quit

\* Variant: the dispatcher is not told.
EnterQuietly == UNCHANGED <<nestedEventLoopEntered, asleep>>

NotifyEnteringNestedEventLoop == nestedEventLoopEntered' = TRUE /\ asleep' = {}

(* EventLoop.enter up to the start of the native loop.  After terminate it throws *)
(* and undoes what it did.                                                        *)
Enter(l) ==
  /\ InHandler /\ ~terminated /\ state[l] = "IDLE" /\ enters < MaxEnters
  /\ reentered' = (reentered \/ leavingNestedEventLoop)
  /\ enters' = enters + 1
  /\ state' = [state EXCEPT ![l] = "ACTIVE"]
  /\ stack' = Append(stack, l)
  /\ NotifyEnteringNestedEventLoop
  /\ quit' = QuitOnEntry
  /\ UNCHANGED <<platform, terminated, ended, frames, left, ret, passValue,
                 dispVars, leavingNestedEventLoop, runVars, postVars, call,
                 calls>>

(* EventLoop.leave: only the innermost loop is told to end, and none once the     *)
(* application is null.                                                           *)
Leave(l) ==
  /\ InHandler /\ CheckEventThread /\ state[l] = "ACTIVE"
  /\ state' = [state EXCEPT ![l] = "LEAVING"]
  /\ IF Top = l /\ ~terminated
       THEN LeaveNestedEventLoop(l)
       ELSE UNCHANGED <<leavingNestedEventLoop, asleep, quitVars>>
  /\ UNCHANGED <<appVars, stack, frames, left, ret, dispVars,
                 nestedEventLoopEntered, runVars, postVars, call, boundVars>>

(* finishTerminating, once terminate() has closed the windows (the handlers of    *)
(* which may leave loops).  win destroys the toolkit window, GetInstance() is     *)
(* null and every loop ends; gtk_main_quit ends the innermost loop, and stop: of  *)
(* mac the outermost.                                                             *)
Terminate ==
  /\ InHandler /\ ~terminated
  /\ terminated' = TRUE
  /\ ended' = (platform = "win" \/ stack = <<>>)
  /\ quit' = IF platform = "gtk" /\ stack # <<>> THEN quit \cup {Top} ELSE quit
  /\ UNCHANGED <<platform, reentered, loopVars, passValue, dispVars, flagVars,
                 runVars, postVars, asleep, call, boundVars>>

(* The innermost native loop sees that it must end: it has been told, or all are. *)
ToldToEnd ==
  /\ stack # <<>>
  /\ ended \/ (IF SharedFlag THEN quit # {} ELSE Top \in quit)

\* Variant: the waiting dispatcher is not notified.
LeftQuietly == leavingNestedEventLoop' = FALSE /\ UNCHANGED asleep

\* Variant: the dispatcher is never told that the loop has been left.
LeftUntold == UNCHANGED <<leavingNestedEventLoop, asleep>>

NotifyLeftNestedEventLoop == leavingNestedEventLoop' = FALSE /\ asleep' = {}

(* _enterNestedEventLoop from the end of the native loop.                         *)
LoopReturns ==
  /\ InLoop /\ ToldToEnd
  /\ left' = TRUE
  /\ ret' = passValue /\ passValue' = NoLoop
  /\ quit' = IF SharedFlag THEN {} ELSE quit \ {Top}
  /\ NotifyLeftNestedEventLoop
  /\ UNCHANGED <<appVars, stack, state, frames, dispVars, nestedEventLoopEntered,
                 runVars, postVars, call, boundVars>>

Popped == SubSeq(stack, 1, Len(stack) - 1)

\* Variant: an outer loop that is to be left is forgotten.
NothingPosted == UNCHANGED postVars

(* The next loop may have been left while the innermost one ran.  After terminate *)
(* invokeLater throws.                                                            *)
PostLambda ==
  IF ~terminated /\ Len(stack) > 1 /\ state[stack[Len(stack) - 1]] = "LEAVING"
    THEN /\ count' = count + 1
         /\ deque' = Append(deque, count + 1)
         /\ lambdas' = lambdas \cup {count + 1}
    ELSE UNCHANGED postVars

(* The finally block of EventLoop.enter.                                          *)
EnterReturns ==
  /\ left
  /\ left' = FALSE /\ ret' = NoLoop
  /\ state' = [state EXCEPT ![Top] = "IDLE"]
  /\ stack' = Popped
  /\ PostLambda
  /\ UNCHANGED <<appVars, frames, quitVars, dispVars, flagVars, runVars, asleep,
                 call, boundVars>>

----------------------------------------------------------------------------------
DispatcherNext == Defer \/ Take \/ Submit \/ DispatcherWaits \/ DispatcherResumes

ClientNext(t) == InvokeAndWait(t) \/ ClientWaits(t) \/ ClientReturns(t)

HandlerNext == HandlerEnds \/ Terminate \/ \E l \in Loops : Enter(l) \/ Leave(l)

LoopNext ==
  \/ NativeEvent \/ RunLater \/ RunLambda \/ LoopReturns \/ EnterReturns
  \/ \E t \in Clients : RunClient(t)

Next ==
  \/ InvokeLater
  \/ DispatcherNext
  \/ \E t \in Clients : ClientNext(t)
  \/ HandlerNext
  \/ LoopNext

Spec == Init /\ [][Next]_vars

(* Threads run; a handler that does not wait in a loop ends; the native queue is  *)
(* a queue, so a loop that goes on with its handlers gets to each runnable; a     *)
(* loop tests between handlers whether to end.                                    *)
Fairness ==
  /\ WF_vars(DispatcherNext)
  /\ SF_vars(RunLater) /\ SF_vars(RunLambda)
  /\ WF_vars(HandlerEnds)
  /\ SF_vars(LoopReturns) /\ WF_vars(EnterReturns)

FairSpec == Spec /\ Fairness

----------------------------------------------------------------------------------
TypeOK ==
  /\ platform \in Platforms
  /\ terminated \in BOOLEAN /\ ended \in BOOLEAN /\ reentered \in BOOLEAN
  /\ stack \in Seq(Loops)
  /\ state \in [Loops -> {"IDLE", "ACTIVE", "LEAVING"}]
  /\ frames \in Seq(Handlers)
  /\ Len(frames) \in {Len(stack), Len(stack) + 1}
  /\ left \in BOOLEAN /\ ret \in Loops \cup {NoLoop}
  /\ (left => Len(frames) = Len(stack) /\ stack # <<>>)
  /\ quit \subseteq Loops
  /\ passValue \in Loops \cup {NoLoop}
  /\ deque \in Seq(Nat) /\ native \in Seq(Nat)
  /\ pc \in {"take", "defer", "submit", "wait"} /\ hand \in Nat
  /\ asleep \subseteq Clients \cup {Dispatcher}
  /\ nestedEventLoopEntered \in BOOLEAN /\ leavingNestedEventLoop \in BOOLEAN
  /\ finished \subseteq Nat /\ lambdas \subseteq Nat
  /\ call \in [Clients -> {"none", "native", "running", "done"}]
  /\ count \in Nat /\ started \in Nat /\ calls \in Nat /\ enters \in Nat

(* Platform.runLater: "The Runnables are executed in the order they are posted",  *)
(* one after the other and none twice or left out, although the dispatcher puts   *)
(* runnables back and nested loops run some of them inside others.                *)
RunsInOrder == [][started' # started => started' = started + 1]_vars

(* A loop that was left is not forgotten: as soon as it is the innermost one, its *)
(* native loop is told to end, or the lambda that will tell it is on its way.     *)
(* (Until terminate: invokeLater of the finally block then throws.)               *)
LeaveIsKept ==
  ~terminated /\ stack # <<>> /\ ~left /\ state[Top] = "LEAVING"
    => Top \in quit \/ \E n \in lambdas : started < n

(* The assertions of EventLoop.enter when its native loop has returned, with two  *)
(* exceptions: terminate ends loops nobody has left, which return null; and on    *)
(* gtk a loop entered after the current one was left takes over the one value     *)
(* returned.  (That the loop is the innermost one is part of the model.)          *)
AssertsHold ==
  left /\ ~terminated /\ (platform = "gtk" => ~reentered)
    => ret = Top /\ state[Top] = "LEAVING"

(* The dispatcher holds runnables back only while a loop that has been left is    *)
(* still there to release them when it returns.                                   *)
DeferralEnds ==
  leavingNestedEventLoop
    => ~left /\ \E i \in 1..Len(stack) : state[stack[i]] = "LEAVING"

(* No notification of the monitor is lost: a thread sleeps only as long as what   *)
(* it waits for has not happened.                                                 *)
NoLostNotification ==
  /\ Dispatcher \in asleep => MustWait
  /\ \A t \in Clients \cap asleep : call[t] \in {"native", "running"}

(* The dispatcher never waits for a runnable that is itself blocked in a nested   *)
(* loop, where it could wait for runnables behind it.                             *)
DispatcherNotBlocked ==
  pc = "wait" /\ (\E i \in 1..Len(stack) : frames[i].later = hand)
    => nestedEventLoopEntered

(* Platform.runLater: every runnable runs "at some unspecified time in the        *)
(* future", whatever loops are entered and left, unless terminate is called.      *)
RunnablesRun ==
  \A n \in 1..(MaxCalls + MaxEnters) :
    n <= count ~> n <= started \/ terminated

(* When all the loops have been left, in any order, their enter() calls return    *)
(* one after the other, unless the application enters another loop; after         *)
(* terminate they all return on win, and may hang on gtk and mac.                 *)
LeftLoopsReturn ==
  []<>(\/ stack = <<>>
       \/ ~ended /\ \E l \in Loops : state[l] = "ACTIVE"
       \/ terminated /\ platform # "win")
====================================================================================
