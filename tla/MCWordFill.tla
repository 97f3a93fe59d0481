----------------------------- MODULE MCWordFill -----------------------------
(* WordFill for TLC: every backend, at every address; buffers of up to      *)
(* three words of the wide kind less one byte, so that a prefix, a chunk    *)
(* and a tail meet.                                                         *)
EXTENDS WordFill
AllBackends == {"rdrand32", "rdrand64", "rndr", "wasi"}
=============================================================================
