----------------------------- MODULE ErrorCodes -----------------------------
(* src/patches/getrandom-0.3.4/src/error.rs: an Error is a non-zero i32, on *)
(* UEFI a usize, that a system error (negative; on UEFI with the highest    *)
(* bit set), an internal code and a custom code share, and from which each  *)
(* must be told again.                                                      *)
(* An Option is a set of at most one element.  A "Variant" is a plausible   *)
(* mistake in the definition that follows it, and not part of the           *)
(* specification.                                                           *)
EXTENDS Integers

CONSTANTS MaxRaw,   \* i32::MAX, the largest RawOsError; on UEFI the largest
                    \* usize without its highest bit
          Numbers   \* the numbers that systems and callers come up with

MaxU16 == 65535
INTERNAL_START == 65536
CUSTOM_START == 131072
UEFI_ERROR_FLAG == MaxRaw + 1
I32 == (-MaxRaw - 1)..MaxRaw
Usize == 0..(2 * MaxRaw + 1)

ASSUME MaxRawAssumption == MaxRaw \in Nat /\ MaxRaw >= CUSTOM_START + MaxU16
ASSUME NumbersAssumption == Numbers \subseteq Int

(* new_internal, new_custom.                                                *)
NewInternal(n) == INTERNAL_START + n

(* Variant: the ranges overlap.                                             *)
NewCustomOverlapping(n) == INTERNAL_START + n

NewCustom(n) == CUSTOM_START + n

ERRNO_NOT_POSITIVE == NewInternal(1)
UNEXPECTED == NewInternal(2)

(* Variant: zero passes for an error code.                                  *)
FromNegErrorCodeOrZero(code) == IF code <= 0 THEN code ELSE UNEXPECTED

FromNegErrorCode(code) == IF code < 0 THEN code ELSE UNEXPECTED

(* util_libc.rs, last_os_error: of the errno of a libc.                     *)
LastOsErrorOf(errno) ==
    IF errno > 0 THEN FromNegErrorCode(-errno) ELSE ERRNO_NOT_POSITIVE

(* i32 negation in a release build: the smallest value stays.               *)
WrappingNeg(code) == IF code = -MaxRaw - 1 THEN code ELSE -code

(* code & UEFI_ERROR_FLAG != 0.                                             *)
HasErrorFlag(code) == code >= UEFI_ERROR_FLAG

FromUefiCode(code) == IF HasErrorFlag(code) THEN code ELSE UNEXPECTED

(* Variant: the sign is forgotten.                                          *)
FromRandomGetUnnegated(ret) ==
    IF ret <= MaxU16 THEN FromNegErrorCode(ret) ELSE UNEXPECTED

(* wasi_p1.rs, fill_inner: of a random_get that did not return zero.        *)
FromRandomGet(ret) ==
    IF ret <= MaxU16 THEN FromNegErrorCode(WrappingNeg(ret)) ELSE UNEXPECTED

(* linux_raw.rs and hermit.rs, fill_inner: of an isize that is no byte      *)
(* count; Hermit's may be zero.                                             *)
FromSyscall(ret) ==
    IF ret \in I32 THEN FromNegErrorCode(ret) ELSE UNEXPECTED

(* Variant: an unchecked negation, and no test of the sign.                 *)
RawOsErrorUnchecked(error, target) ==
    IF target = "solid" THEN {error} ELSE {-error}

(* raw_os_error; SOLID's std wants negative codes, all others positive ones *)
(* (checked_neg gives none for the smallest i32); UEFI keeps the flag.      *)
RawOsError(error, target) ==
    CASE target = "uefi"  -> IF HasErrorFlag(error) THEN {error} ELSE {}
      [] target = "solid" -> IF error < 0 THEN {error} ELSE {}
      [] OTHER            -> IF error < 0 /\ error # -MaxRaw - 1
                             THEN {-error} ELSE {}

(* error_std_impls.rs: the io::Error keeps the code of a system error and   *)
(* wraps any other.                                                         *)
ToIoError(error, target) ==
    IF RawOsError(error, target) # {}
    THEN [kind |-> "os", code |-> CHOOSE c \in RawOsError(error, target) : TRUE]
    ELSE [kind |-> "other", code |-> error]
-----------------------------------------------------------------------------
(* A program that meets one error after another, and may compare an error   *)
(* with the one before; an error is represented by where it came from.      *)

Targets == {"libc", "raw", "wasi_p1", "solid", "uefi"}

RawOsErrors(target) == IF target = "uefi" THEN Usize ELSE I32

(* The numbers a failed call may leave behind: errno holds anything; a raw  *)
(* system call returns an isize, not always an i32.                         *)
Failed(target, n) ==
    CASE target = "libc"    -> n \in I32
      [] target = "raw"     -> n <= 0
      [] target = "wasi_p1" -> n \in I32 /\ n # 0
      [] target = "solid"   -> n \in I32 /\ n < 0
      [] target = "uefi"    -> n \in Usize /\ HasErrorFlag(n)

Origins(target) ==
    {o \in [from : {"system", "custom", "internal"}, n : Numbers] :
        IF o.from = "system" THEN Failed(target, o.n) ELSE o.n \in 0..MaxU16}

VARIABLES target, first, second

vars == <<target, first, second>>

SystemError(n) ==
    CASE target = "libc"    -> LastOsErrorOf(n)
      [] target = "raw"     -> FromSyscall(n)
      [] target = "wasi_p1" -> FromRandomGet(n)
      [] target = "solid"   -> FromNegErrorCode(n)
      [] target = "uefi"    -> FromUefiCode(n)

ErrorOf(o) ==
    CASE o.from = "system" -> SystemError(o.n)
      [] o.from = "custom" -> NewCustom(o.n)
      [] OTHER             -> NewInternal(o.n)

(* The number by which the system named the failure, if it did, without     *)
(* the sign.                                                                *)
SystemCode(o) ==
    IF o.from # "system" THEN {}
    ELSE CASE target = "libc"    -> {o.n} \cap 1..MaxRaw
           [] target = "wasi_p1" -> {o.n} \cap 1..MaxU16
           [] target = "uefi"    -> {o.n}
           [] OTHER              -> {-o.n} \cap 1..(MaxRaw + 1)

Init ==
    /\ target \in Targets
    /\ first \in Origins(target)
    /\ second = first

Fail ==
    /\ first' \in Origins(target)
    /\ second' = first
    /\ UNCHANGED target

Spec == Init /\ [][Fail]_vars
-----------------------------------------------------------------------------
(* Properties.                                                              *)

(* An Error is a non-zero RawOsError whatever it is made from, which the    *)
(* unchecked constructors (NonZero::new_unchecked) and the .expect rely on. *)
NonZero == ErrorOf(first) \in RawOsErrors(target) /\ ErrorOf(first) # 0

(* The code the system gave is what raw_os_error and io::Error give back,   *)
(* but for the one negative code that has no positive counterpart.          *)
SystemCodeRecovered ==
    \A c \in SystemCode(first) :
        c <= MaxRaw \/ target \in {"solid", "uefi"} =>
            /\ RawOsError(ErrorOf(first), target) =
                  {IF target = "solid" THEN -c ELSE c}
            /\ ToIoError(ErrorOf(first), target).kind = "os"

(* raw_os_error gives no code that the system did not give, and in          *)
(* particular none for a custom or an internal error; what it gives is a    *)
(* RawOsError.                                                              *)
NothingElseIsSystem ==
    \A c \in RawOsError(ErrorOf(first), target) :
        /\ c \in RawOsErrors(target)
        /\ (IF target = "solid" THEN -c ELSE c) \in SystemCode(first)

(* A custom error is equal to no error of another origin or number.         *)
CustomIsUnique ==
    first.from = "custom" /\ ErrorOf(first) = ErrorOf(second) => second = first
=============================================================================
