----------------------------- MODULE MCQuantumPulse -----------------------------
(* Small instances of QuantumPulse for TLC.                                      *)
EXTENDS QuantumPulse

CONSTANTS s1, s2

MCScenes     == {s1, s2}
MCPresenting == {s1}
=================================================================================
