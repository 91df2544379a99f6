--------------------------- MODULE MCPlaybackPipeline ---------------------------
(* Instance of PlaybackPipeline: the constants are given in the configurations. *)
EXTENDS PlaybackPipeline
==============================================================================
