------------------------------- MODULE MCEventLoops -------------------------------
(* Small instances of EventLoops for TLC.                                         *)
EXTENDS EventLoops

CONSTANTS l1, l2, l3, t1

TwoLoops   == {l1, l2}
ThreeLoops == {l1, l2, l3}
OneClient  == {t1}
====================================================================================
