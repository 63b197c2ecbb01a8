--------------------------- MODULE MCStopTheWorld ---------------------------
(* Two and three threads, one of which may panic in a command handler. *)
EXTENDS StopTheWorld

CONSTANTS t1, t2, t3

TwoThreads == {t1, t2}
ThreeThreads == {t1, t2, t3}
OneFaulty == {t1}
=============================================================================
