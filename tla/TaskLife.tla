------------------------------ MODULE TaskLife ------------------------------
(***************************************************************************)
(* What a task promises, without queues and hand-overs: one computation,   *)
(* one outcome decided by whoever settles the future first, and a state    *)
(* property that follows on the FX thread some time later.                 *)
(*                                                                         *)
(* Task is shown to implement this specification, and each task of a       *)
(* Service to behave as it says, so that Service need not look inside.     *)
(***************************************************************************)
VARIABLES
  state,    \* the state property, as the FX thread sees it
  future,   \* the outcome: NEW until it is decided
  body      \* the computation: ready, skipped, call, set, setException

lifeVars == <<state, future, body>>

Init ==
  /\ state = "READY"
  /\ future = "NEW"
  /\ body = "ready"

\* A Service announces the task before it is executed.
Schedule ==
  /\ body = "ready" /\ state = "READY"
  /\ state' = "SCHEDULED"
  /\ UNCHANGED <<future, body>>

Begin ==
  /\ body = "ready"
  /\ body' = IF future = "NEW" THEN "call" ELSE "skipped"
  /\ UNCHANGED <<state, future>>

End ==
  /\ body = "call"
  /\ body' \in {"set", "setException"}
  /\ UNCHANGED <<state, future>>

Settle ==
  /\ future = "NEW"
  /\ \/ body = "set" /\ future' = "NORMAL"
     \/ body = "setException" /\ future' = "EXCEPTIONAL"
  /\ UNCHANGED <<state, body>>

\* cancel() shows at once on the FX thread, later when called elsewhere.
Cancel ==
  /\ future = "NEW"
  /\ future' = "CANCELLED"
  /\ state' \in {state, "CANCELLED"}
  /\ UNCHANGED body

ShowRunning ==
  /\ body \notin {"ready", "skipped"}
  /\ state \in {"READY", "SCHEDULED"}
  /\ state' = "RUNNING"
  /\ UNCHANGED <<future, body>>

ShowOutcome ==
  /\ state = "RUNNING"
  /\ \/ body = "set" /\ state' = "SUCCEEDED"
     \/ body = "setException" /\ state' = "FAILED"
  /\ UNCHANGED <<future, body>>

ShowCancelled ==
  /\ future = "CANCELLED" /\ state # "CANCELLED"
  /\ state' = "CANCELLED"
  /\ UNCHANGED <<future, body>>

Next == \/ Schedule \/ Begin \/ End \/ Settle \/ Cancel
        \/ ShowRunning \/ ShowOutcome \/ ShowCancelled

Fairness == /\ WF_lifeVars(Settle)
            /\ WF_lifeVars(ShowRunning)
            /\ WF_lifeVars(ShowOutcome)
            /\ WF_lifeVars(ShowCancelled)

Spec == Init /\ [][Next]_lifeVars /\ Fairness
=============================================================================
