------------------------------ MODULE MCRdrand ------------------------------
(* Rdrand for TLC: two threads, and self_test with its own numbers; two     *)
(* tries stand for ten.                                                     *)
EXTENDS Rdrand

CONSTANTS t1, t2

TwoThreads == {t1, t2}
AllKinds == Kinds
=============================================================================
