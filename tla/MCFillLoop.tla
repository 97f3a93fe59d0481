----------------------------- MODULE MCFillLoop -----------------------------
(* FillLoop for TLC: every backend, buffers of up to five bytes, pieces of  *)
(* two: a buffer may be shorter than a piece, a whole number of pieces, or  *)
(* leave a remainder.                                                       *)
EXTENDS FillLoop

AllBackends == Counting \cup Chunked \cup Whole
=============================================================================
