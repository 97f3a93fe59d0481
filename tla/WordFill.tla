------------------------------ MODULE WordFill ------------------------------
(* One call to the backends that build a buffer out of random words:        *)
(* rdrand.rs and rndr.rs, which cut it from the front and draw from an      *)
(* instruction that may fail, and wasi_p2.rs and wasi_p3.rs, which split it *)
(* at the aligned addresses.  u32 and u64 are calls for four and eight      *)
(* bytes that start at a word.  Whether the instruction can be trusted is   *)
(* the subject of Rdrand, not of this module.                               *)
EXTENDS Integers

CONSTANTS Backends,   \* the backends checked
          MaxSize     \* the longest buffer

ASSUME BackendsAssumption ==
    Backends \subseteq {"rdrand32", "rdrand64", "rndr", "wasi"}
ASSUME MaxSizeAssumption == MaxSize \in Nat

VARIABLES
    backend,     \* compiled in
    available,   \* what is_rndr_available or RDRAND_GOOD says
    offset,      \* the buffer's address modulo the size of a word
    size,        \* dest.len(), not zero
    pos,         \* the bytes written
    buf,         \* each byte: which byte of which word it is, if any
    words,       \* history: the words taken so far
    tries,       \* the reads that failed for the word now wanted
    result       \* "called", "running", "ok", "unavailable" or "failed"

vars == <<backend, available, offset, size, pos, buf, words, tries, result>>
call == <<backend, available, offset, size>>

Word == IF backend = "rdrand32" THEN 4 ELSE 8
Uninit == [word |-> 0, place |-> 0, value |-> "none"]
AtMost(a, b) == IF a < b THEN a ELSE b

Init ==
    /\ backend \in Backends
    /\ available \in BOOLEAN
    /\ offset \in 0..(Word - 1)
    /\ size \in 1..MaxSize
    /\ pos = 0 /\ buf = [i \in 1..size |-> Uninit]
    /\ words = 0 /\ tries = 0
    /\ result = "called"

(* fill_inner asks first whether the instruction is there.                  *)
FillInner ==
    /\ result = "called"
    /\ result' = IF available \/ backend = "wasi" THEN "running"
                                                  ELSE "unavailable"
    /\ UNCHANGED <<call, pos, buf, words, tries>>

RETRY_LIMIT == IF backend = "rndr" THEN 5 ELSE 10

(* The host's words are random.  An instruction may fail, and leaves some   *)
(* word in the register all the same.                                       *)
Values == IF backend = "wasi" THEN {"random"} ELSE {"random", "garbage"}

(* Variant of the next definition with a bug: the flags are not looked at.  *)
AcceptedAlways(value) == TRUE

(* nzcv == 0, or rdrand_step(&mut val) == 1.                                *)
Accepted(value) == value = "random"

(* Variant of the next definition with a bug: the address is forgotten.     *)
PrefixNone == 0

(* align_to_mut: the bytes before the first aligned address.                *)
Prefix == IF backend = "wasi" THEN (Word - offset) % Word ELSE 0

(* Variant of the next definition with a bug: no care for the remainder.    *)
PieceWhole == IF pos = 0 /\ Prefix > 0 THEN Prefix ELSE Word

(* The bytes that the next word goes to: the prefix, a chunk, or the tail.  *)
Piece ==
    IF pos = 0 /\ Prefix > 0 THEN AtMost(Prefix, size)
                             ELSE AtMost(Word, size - pos)

(* The word that is copied: the one just read.                              *)
Source == words + 1

Byte(place, value) ==
    [word |-> Source, place |-> place, value |-> value]

(* One read of the register, or one call to get_random_u64.                 *)
Draw ==
    /\ result = "running"
    /\ \E value \in Values :
          IF Accepted(value)
          THEN /\ words' = words + 1
               /\ buf' = [i \in 1..size |->
                            IF i \in (pos + 1)..(pos + Piece)
                            THEN Byte(i - pos, value) ELSE buf[i]]
               /\ pos' = pos + Piece
               /\ tries' = 0
               /\ result' = IF pos' = size THEN "ok" ELSE "running"
          ELSE /\ tries' = (tries + 1) % RETRY_LIMIT
               /\ result' = IF tries' = 0 THEN "failed" ELSE "running"
               /\ UNCHANGED <<words, pos, buf>>
    /\ UNCHANGED call

Next == FillInner \/ Draw

Spec == Init /\ [][Next]_vars

-----------------------------------------------------------------------------
(* Properties.                                                              *)

Bytes == [word : 0..words, place : 0..Word,
          value : {"none", "random", "garbage"}]

(* Types; no copy goes beyond the buffer, or beyond the word it reads.      *)
TypeOK ==
    /\ backend \in Backends /\ available \in BOOLEAN
    /\ offset \in 0..(Word - 1)
    /\ size \in 1..MaxSize
    /\ pos \in 0..size
    /\ words \in 0..pos
    /\ buf \in [1..size -> Bytes]
    /\ tries \in 0..(RETRY_LIMIT - 1)
    /\ result \in {"called", "running", "ok", "unavailable", "failed"}

(* A call that succeeds has written every byte, from words the hardware     *)
(* vouched for, and has used no byte of a word twice.                       *)
OkMeansFresh ==
    result = "ok" =>
        \A i, j \in 1..size : /\ buf[i] # Uninit /\ buf[i].value = "random"
                              /\ buf[i] = buf[j] => i = j

(* The WASI backends store whole words through a *mut u64 only where such a *)
(* pointer may point.                                                       *)
WordStoresAligned ==
    [][backend = "wasi" /\ pos' = pos + Word => (offset + pos) % Word = 0]_vars

-----------------------------------------------------------------------------
(* Why they hold: the inductive invariant.  What is written so far is fresh *)
(* and the rest is untouched; and wherever the WASI backends go on, they    *)
(* are at the start of the buffer, at its end, or at an aligned address.    *)
Fresh ==
    /\ \A i \in 1..pos : buf[i] # Uninit /\ buf[i].value = "random"
    /\ \A i, j \in 1..pos : buf[i] = buf[j] => i = j
    /\ result = "ok" => pos = size
    /\ result \in {"called", "running"} => pos < size

Aligned ==
    backend = "wasi" /\ pos > 0 =>
        pos = size \/ (offset + pos) % Word = 0

IInv == TypeOK /\ Fresh /\ Aligned
=============================================================================
