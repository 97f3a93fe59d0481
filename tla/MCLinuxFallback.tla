-------------------------- MODULE MCLinuxFallback ---------------------------
(* LinuxFallback for TLC: two threads, every policy, and the builds whose   *)
(* behaviour differs.                                                       *)
EXTENDS LinuxFallback

CONSTANTS t1, t2

TwoThreads == {t1, t2}

B(android, symbol, test) ==
    [android |-> android, symbol |-> symbol, test |-> test]

AllBuilds == {B(FALSE, TRUE, "none"), B(FALSE, FALSE, "none"),
              B(TRUE, TRUE, "none"), B(FALSE, TRUE, "fallback"),
              B(FALSE, TRUE, "without_fallback")}
=============================================================================
