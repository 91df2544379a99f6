----------------------------- MODULE MCService ------------------------------
(***************************************************************************)
(* Service for TLC; the configurations choose what the application and its *)
(* handlers call.                                                          *)
(***************************************************************************)
EXTENDS Service
=============================================================================
