------------------------------ MODULE MCMonitor ------------------------------
(* Two threads and one object that has never been locked. *)
EXTENDS Monitor

CONSTANTS t1, t2, o1

Two == {t1, t2}
OneObject == {o1}
AllKinds == {"Enter", "FastPath", "TryEnter", "TryEnterInfinite", "Exit"}
EnterExit == {"Enter", "Exit"}
=============================================================================
