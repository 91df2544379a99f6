------------------------------- MODULE MCTask -------------------------------
(***************************************************************************)
(* Small instances of Task for TLC: the Runner r and one other background  *)
(* thread b; update*() payloads p and q.                                   *)
(***************************************************************************)
EXTENDS Task

CONSTANTS r, b, p, q

TwoThreads == {r, b}

\* call() updates its value, any background thread the progress; the message is
\* left to the FX thread.
BackgroundUpdates ==
  [c \in Channels |-> CASE c = "value" -> {r} [] c = "progress" -> {r, b} [] OTHER -> {}]
=============================================================================
