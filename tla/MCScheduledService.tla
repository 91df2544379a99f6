------------------------- MODULE MCScheduledService -------------------------
(***************************************************************************)
(* ScheduledService for TLC, with a delay of one tick and a period of two. *)
(***************************************************************************)
EXTENDS ScheduledService
=============================================================================
