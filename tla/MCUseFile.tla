------------------------------ MODULE MCUseFile -----------------------------
(* UseFile for TLC: three threads, so that an opener, a sleeper and a late  *)
(* caller meet, and as many descriptors as one opening can need, plus one.  *)
EXTENDS UseFile, TLC

CONSTANTS t1, t2, t3

TwoThreads == {t1, t2}
ThreeThreads == {t1, t2, t3}

(* The threads are interchangeable in every safety property.                *)
Interchangeable == Permutations(Threads)
=============================================================================
