---------------------------- MODULE MCErrorCodes ----------------------------
(* ErrorCodes for TLC: the numbers at which the code changes its mind, and  *)
(* their neighbours.  TLC's own integers are 32 bits wide, so the RawOsError *)
(* of the model has 30: a result that is no RawOsError can be written down. *)
EXTENDS ErrorCodes

Largest == 536870911

Boundaries ==
    {-Largest - 2, -Largest - 1, -Largest, -65536, -65535, -4, -1, 0, 1, 2, 4,
     10, 11, 65534, 65535, 65536, 131072, Largest - 1, Largest, Largest + 1,
     Largest + 2, Largest + 131072, 2 * Largest + 1}
=============================================================================
