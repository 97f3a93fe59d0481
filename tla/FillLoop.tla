------------------------------ MODULE FillLoop ------------------------------
(* One call of getrandom::fill through the backends that fill the buffer by *)
(* calling the system: in a loop that advances by what the system returns   *)
(* (getrandom, netbsd, linux_raw, hermit), piece by piece through           *)
(* chunks_mut (getentropy, solaris, windows_legacy, vxworks, wasm_js), or   *)
(* in one piece; and one call of getrandom::u32 or u64 on Hermit, which has *)
(* a system call for a whole value ("hermit_word").  The system may return  *)
(* whatever its result type allows; only the Infallible ones are taken at   *)
(* their word, as the code does.                                            *)
EXTENDS Integers, SysFill

CONSTANTS Backends,   \* the backends checked
          MaxSize,    \* the longest buffer
          Limit       \* the most one call may ask for: 256 to 2^31 - 1

Counting == {"getrandom", "netbsd", "linux_raw", "hermit"}
Chunked == {"getentropy", "solaris", "windows_legacy", "vxworks", "wasm_js",
            "wasm_js_atomics"}
Infallible == {"windows", "fuchsia", "esp_idf"}
Whole == {"apple_other", "solid", "wasi_p1", "custom", "hermit_word"}
         \cup Infallible

ASSUME BackendsAssumption == Backends \subseteq Counting \cup Chunked \cup Whole
ASSUME SizesAssumption == MaxSize \in Nat /\ Limit \in Nat \ {0}

VARIABLES
    backend,      \* compiled in
    size,         \* dest.len()
    pos,          \* the bytes the code has advanced over
    result,       \* "running", "ok", or the error
    unpoisoned,   \* MSan's view of the buffer
    written,      \* history: the bytes the system has written
    redrawn,      \* history: some byte was written by two calls
    last          \* history: the last call was "answered" or "interrupted"

vars == <<backend, size, pos, result, unpoisoned, written, redrawn, last>>

Bytes(n) == (pos + 1)..(pos + n)
Rest == size - pos
AtMost(a, b) == IF a < b THEN a ELSE b

Init ==
    /\ backend \in Backends
    /\ size \in 0..MaxSize
    /\ backend = "hermit_word" => size > 0
    /\ pos = 0
    /\ result = "running"
    /\ unpoisoned = {} /\ written = {}
    /\ redrawn = FALSE /\ last = "none"

(* wasm_js with atomics: the bytes go to a JavaScript array first, no       *)
(* longer than the buffer, and are copied if the call succeeds.             *)
ArrayLength == AtMost(size, Limit)

(* How many bytes the next call asks for; the NetBSD polyfill caps them.    *)
Asked ==
    IF backend = "wasm_js_atomics" THEN AtMost(Rest, ArrayLength)
    ELSE IF backend \in Chunked \cup {"netbsd"} THEN AtMost(Rest, Limit) ELSE Rest

-----------------------------------------------------------------------------
(* What a call returns, and what the backends make of it.                   *)

(* The errors a call may end with.                                          *)
FillError ==
    {"EINTR", "EIO", "UNEXPECTED", "ERRNO_NOT_POSITIVE", "UNSUPPORTED"}

(* The convention of a kernel without a libc: -errno, in an isize.          *)
EINTR == -4
BelowI32 == -6

(* from_neg_error_code(i32::try_from(r)?), of a result that is not a count. *)
RawFailure(r) ==
    CASE r \in 1..Rest                     -> {}
      [] r = EINTR                         -> {"EINTR"}
      [] r \in (BelowI32 + 1)..-1 \ {EINTR} -> {"EIO"}
      [] OTHER                             -> {"UNEXPECTED"}

LinuxRaw(r) == RawFailure(r) \ {"EINTR"}

(* getrandom(GRND_RANDOM) on Solaris: all of the chunk, or zero and errno.  *)
Solaris(r, errno) ==
    IF r = Asked THEN {}
    ELSE IF r = 0 THEN {LastOsError(errno)} ELSE {"UNEXPECTED"}

(* sys_secure_rand32 and sys_secure_rand64, of Hermit's inner_u32 and       *)
(* inner_u64: all of the value, -1, or something nobody expects.            *)
SecureRand(r) ==
    CASE r = 0  -> {}
      [] r = -1 -> {"UNSUPPORTED"}
      [] OTHER  -> {"UNEXPECTED"}

(* The error a result makes the backend return, if any.  Backends with an   *)
(* error of their own are not told apart from those that report errno.      *)
Stops(r, errno) ==
    CASE backend \in {"getrandom", "netbsd"} -> Failure(Rest, r, errno)
      [] backend = "linux_raw" -> LinuxRaw(r)
      [] backend = "hermit"    -> RawFailure(r)
      [] backend = "solaris"   -> Solaris(r, errno)
      [] backend = "hermit_word" -> SecureRand(r)
      [] OTHER                 -> IF r = 0 THEN {} ELSE {LastOsError(errno)}

(* Variant of the next definition with a bug: the buffer is not advanced    *)
(* beyond the first byte of a result.                                       *)
AdvanceByOne(r) ==
    IF backend \in Counting THEN (IF r > 0 THEN 1 ELSE 0) ELSE Asked

(* How far a result that does not stop the backend moves it: by the count,  *)
(* not at all (interrupted), or by the chunk.                               *)
Advance(r) ==
    IF backend \in Counting THEN (IF r > 0 THEN r ELSE 0) ELSE Asked

(* Variant of the next definition with a bug: a range that is too short.    *)
UnpoisonsExclusively(r, wrote) ==
    IF backend \in {"getrandom", "linux_raw"}
    THEN IF r \in 0..(Rest - 1) THEN Bytes(r) ELSE {}
    ELSE Bytes(wrote)

(* unpoison_linux_getrandom_result; elsewhere MSan sees the write itself.   *)
Unpoisons(r, wrote) ==
    IF backend \in {"getrandom", "linux_raw"}
    THEN IF r \in 0..Rest THEN Bytes(r) ELSE {}
    ELSE Bytes(wrote)

(* Variant of the next definition with a bug: the length is not looked at.  *)
PolyfillUnchecked(status, len) == IF status = 0 THEN len ELSE -1

(* polyfill_using_kern_arand: sysctl's status, and the length it set.       *)
Polyfill(status, len) ==
    CASE status = 0 /\ len <= Limit -> len
      [] status = -1                -> -1
      [] OTHER                      -> 0

(* What the system may do when asked: its result, and how much it wrote.    *)
(* sysctl reports a status and a length; other calls a count, of any size;  *)
(* the rest only success or failure.                                        *)
LengthAnswers ==
    {[r |-> Polyfill(status, len),
      wrote |-> IF status = 0 THEN AtMost(len, Asked) ELSE 0] :
          status \in {-1, 0, 1}, len \in 0..(Limit + 1)}

CountAnswers ==
    {[r |-> r, wrote |-> IF r < 0 THEN 0 ELSE AtMost(r, Asked)] :
          r \in BelowI32..(Asked + 1)}

Success == [r |-> 0, wrote |-> Asked]
Failures ==
    {[r |-> status, wrote |-> n] :
        status \in IF backend = "hermit_word" THEN {-1, 1} ELSE {-1},
        n \in IF backend = "wasm_js_atomics" THEN {0} ELSE 0..Asked}

Answers ==
    IF backend = "netbsd" THEN LengthAnswers
    ELSE IF backend \in Counting \cup {"solaris"} THEN CountAnswers
    ELSE {Success} \cup (IF backend \in Infallible THEN {} ELSE Failures)

-----------------------------------------------------------------------------
(* The call.                                                                *)

(* fill_uninit returns at once for an empty buffer.                         *)
FillNothing ==
    /\ result = "running" /\ size = 0
    /\ result' = "ok"
    /\ UNCHANGED <<backend, size, pos, unpoisoned, written, redrawn, last>>

CallsBackend == size > 0

FillInner ==
    /\ result = "running" /\ CallsBackend
    /\ \E answer \in Answers, errno \in Errno :
          LET stops == Stops(answer.r, errno)
              next  == IF stops = {} THEN pos + Advance(answer.r) ELSE pos
          IN /\ pos' = next
             /\ IF stops = {}
                THEN result' = IF next = size THEN "ok" ELSE "running"
                ELSE result' \in stops
             /\ unpoisoned' = unpoisoned \cup Unpoisons(answer.r, answer.wrote)
             /\ written' = written \cup Bytes(answer.wrote)
             /\ redrawn' = (redrawn \/ Bytes(answer.wrote) \cap written # {})
             /\ last' = IF answer.r \in {-1, EINTR} THEN "interrupted"
                                                    ELSE "answered"
    /\ UNCHANGED <<backend, size>>

Next == FillNothing \/ FillInner

Spec == Init /\ [][Next]_vars

-----------------------------------------------------------------------------
(* Properties.                                                              *)

(* Types; in particular the code never advances beyond the buffer.          *)
TypeOK ==
    /\ backend \in Backends
    /\ size \in 0..MaxSize
    /\ pos \in 0..size
    /\ result \in {"running", "ok"} \cup FillError
    /\ unpoisoned \subseteq 1..size
    /\ written \subseteq 1..size
    /\ redrawn \in BOOLEAN
    /\ last \in {"none", "answered", "interrupted"}

(* Success means that the system wrote every byte of the buffer: fill       *)
(* "returns an error on any failure, including partial reads".              *)
OkMeansFull == result = "ok" => written = 1..size

(* Memory Sanitizer is told of what was written and of nothing else, so it  *)
(* can be relied on to find a chunk that was left out, and a successful     *)
(* call leaves it nothing to complain of.                                   *)
ShadowExact ==
    /\ unpoisoned \subseteq written
    /\ result = "ok" => unpoisoned = 1..size

(* No byte is drawn twice: what a call has delivered is not asked for again *)
(* after a short result.                                                    *)
NothingRedrawn == ~redrawn

(* An interrupted call is not an error where the code says it retries.      *)
InterruptsRetried ==
    backend \in {"getrandom", "netbsd", "linux_raw"} => result # "EINTR"

(* Filling an empty buffer succeeds, without calling the system.            *)
EmptySucceeds == size = 0 => result \in {"running", "ok"} /\ last = "none"

(* Every call that was not interrupted brings the end nearer: it advances,  *)
(* or it is the last.  The loops end when the interruptions do.             *)
EveryAnswerCounts ==
    [][last' = "answered" /\ result' = "running" => pos' > pos]_vars

-----------------------------------------------------------------------------
(* Why they hold: the inductive invariant.  While the call runs, exactly    *)
(* the bytes it has advanced over are written and unpoisoned, and the rest  *)
(* of the buffer is not empty.                                              *)
Progress ==
    /\ result = "running" =>
          /\ written = 1..pos
          /\ unpoisoned = 1..pos
          /\ pos < size \/ size = 0
    /\ result = "ok" => pos = size

IInv ==
    /\ TypeOK
    /\ Progress
    /\ OkMeansFull /\ ShadowExact /\ NothingRedrawn
    /\ InterruptsRetried /\ EmptySucceeds
=============================================================================
