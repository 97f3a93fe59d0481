-------------------------- MODULE MCSelectedBackend -------------------------
(* SelectedBackend for TLC.                                                 *)
EXTENDS SelectedBackend, MCTargets

CONSTANTS t1, t2, t3, t4

TwoThreads == {t1, t2}
ThreeThreads == {t1, t2, t3}
FourThreads == {t1, t2, t3, t4}
=============================================================================
