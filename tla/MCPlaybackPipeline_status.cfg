SPECIFICATION Spec
CONSTANTS
  Calls = {"play", "pause", "stop", "finish", "seek", "zero", "rate", "dispose"}
  Notes = {"stall", "resume", "hls_eos", "full", "not_full", "underrun", "progress", "buf_eos", "eos", "error"}
  MaxCalls = 4
  MaxNotes = 2
INVARIANTS StandsStill NoMissedResume FreedOnce
CHECK_DEADLOCK FALSE
