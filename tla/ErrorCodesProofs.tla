-------------------------- MODULE ErrorCodesProofs --------------------------
(* ErrorCodes proved for every RawOsError, wherever its range ends, and for *)
(* every number a system may return.                                        *)
EXTENDS ErrorCodes, TLAPS

(* The errors a program holds come from its own target.                     *)
Held ==
    /\ target \in Targets
    /\ first \in Origins(target)
    /\ second \in Origins(target)

(* Where errors come from never changes: Held is inductive by itself.       *)
LEMMA HeldAlways == Spec => []Held
<1>1. Init => Held
  BY DEF Init, Held
<1>2. Held /\ [Fail]_vars => Held'
  BY DEF Held, Fail, vars, Origins, Failed
<1>3. QED  BY <1>1, <1>2, PTL DEF Spec

(* How the codes are laid out: all that the proofs need of the numbers.     *)
LEMMA Layout ==
    /\ MaxU16 \in Nat /\ MaxU16 > 2
    /\ INTERNAL_START \in Nat /\ INTERNAL_START > 0
    /\ CUSTOM_START \in Nat /\ CUSTOM_START > INTERNAL_START + MaxU16
    /\ MaxRaw \in Nat /\ MaxRaw >= CUSTOM_START + MaxU16
BY MaxRawAssumption, SMT DEF MaxU16, INTERNAL_START, CUSTOM_START

(* What an origin is.                                                       *)
LEMMA OriginFacts ==
    ASSUME NEW tgt \in Targets, NEW o \in Origins(tgt)
    PROVE  /\ o.n \in Int
           /\ o.from \in {"system", "custom", "internal"}
           /\ o.from = "system" => Failed(tgt, o.n)
           /\ o.from # "system" => o.n \in Nat /\ o.n <= MaxU16
           /\ o = [from |-> o.from, n |-> o.n]
<1>1. /\ o \in [from : {"system", "custom", "internal"}, n : Numbers]
      /\ IF o.from = "system" THEN Failed(tgt, o.n) ELSE o.n \in 0..MaxU16
  BY DEF Origins
<1>2. /\ o.n \in Numbers
      /\ o.from \in {"system", "custom", "internal"}
      /\ o = [from |-> o.from, n |-> o.n]
  BY <1>1
<1>3. o.n \in Int
  BY <1>2, NumbersAssumption
<1>4. o.from # "system" => o.n \in Nat /\ o.n <= MaxU16
  BY <1>1, Layout
<1>5. QED  BY <1>1, <1>2, <1>3, <1>4

(* The error lies outside of what internal and custom errors share.         *)
Outside(code) == IF target = "uefi" THEN code > MaxRaw ELSE code < 0

(* Whatever a failed call leaves behind becomes an error that is negative   *)
(* or flagged, and then carries the system's number, or an internal code.   *)
LEMMA SystemErrorRange ==
    ASSUME target \in Targets, NEW n \in Int, Failed(target, n)
    PROVE  /\ SystemError(n) \in RawOsErrors(target)
           /\ \/ SystemError(n) \in {ERRNO_NOT_POSITIVE, UNEXPECTED}
              \/ Outside(SystemError(n))
<1> USE Layout DEF RawOsErrors, I32, Usize, Outside, HasErrorFlag, UEFI_ERROR_FLAG,
        NewInternal, ERRNO_NOT_POSITIVE, UNEXPECTED, FromNegErrorCode, Failed
<1>1. CASE target = "libc"
  BY <1>1 DEF SystemError, LastOsErrorOf
<1>2. CASE target = "raw"
  BY <1>2 DEF SystemError, FromSyscall
<1>3. CASE target = "wasi_p1"
  BY <1>3 DEF SystemError, FromRandomGet, WrappingNeg
<1>4. CASE target = "solid"
  BY <1>4 DEF SystemError
<1>5. CASE target = "uefi"
  BY <1>5 DEF SystemError, FromUefiCode
<1>6. QED  BY <1>1, <1>2, <1>3, <1>4, <1>5 DEF Targets

(* The state formulas, from Held.                                           *)
LEMMA HeldNonZero == Held => NonZero
<1> SUFFICES ASSUME Held PROVE NonZero
  OBVIOUS
<1>1. /\ target \in Targets
      /\ first.n \in Int
      /\ first.from \in {"system", "custom", "internal"}
      /\ first.from = "system" => Failed(target, first.n)
      /\ first.from # "system" => first.n \in Nat /\ first.n <= MaxU16
  BY OriginFacts DEF Held
<1>2. CASE first.from = "system"
  <2>1. ErrorOf(first) = SystemError(first.n)
    BY <1>2 DEF ErrorOf
  <2>2. /\ SystemError(first.n) \in RawOsErrors(target)
        /\ \/ SystemError(first.n) \in {ERRNO_NOT_POSITIVE, UNEXPECTED}
           \/ Outside(SystemError(first.n))
    BY <1>1, <1>2, SystemErrorRange
  <2>3. QED
    BY <2>1, <2>2, Layout DEF NonZero, ERRNO_NOT_POSITIVE, UNEXPECTED,
       NewInternal, Outside
<1>3. CASE first.from # "system"
  BY <1>1, <1>3, Layout DEF NonZero, ErrorOf, NewCustom, NewInternal,
     RawOsErrors, I32, Usize
<1>4. QED  BY <1>2, <1>3

(* On each target, a number the system names comes back from the error.     *)
LEMMA HeldRecovered == Held => SystemCodeRecovered
<1> SUFFICES ASSUME Held,
                    NEW c \in SystemCode(first),
                    c <= MaxRaw \/ target \in {"solid", "uefi"}
             PROVE  /\ RawOsError(ErrorOf(first), target)
                          = {IF target = "solid" THEN -c ELSE c}
                    /\ ToIoError(ErrorOf(first), target).kind = "os"
  BY DEF SystemCodeRecovered
<1>1. /\ target \in Targets
      /\ first.n \in Int
      /\ first.from = "system" => Failed(target, first.n)
  BY OriginFacts DEF Held
<1>2. first.from = "system"
  BY DEF SystemCode
<1>3. ErrorOf(first) = SystemError(first.n)
  BY <1>2 DEF ErrorOf
<1>4. RawOsError(SystemError(first.n), target) = {IF target = "solid" THEN -c ELSE c}
  <2> USE Layout, <1>1, <1>2 DEF SystemCode, SystemError, RawOsError,
          I32, FromNegErrorCode, Failed
  <2>1. CASE target = "libc"
    BY <2>1 DEF LastOsErrorOf
  <2>2. CASE target = "raw"
    BY <2>2 DEF FromSyscall
  <2>3. CASE target = "wasi_p1"
    BY <2>3 DEF FromRandomGet, WrappingNeg
  <2>4. CASE target = "solid"
    BY <2>4
  <2>5. CASE target = "uefi"
    BY <2>5 DEF FromUefiCode
  <2>6. QED  BY <2>1, <2>2, <2>3, <2>4, <2>5 DEF Targets
<1>5. QED
  BY <1>3, <1>4 DEF ToIoError

(* And no other number does.                                                *)
LEMMA HeldNothingElse == Held => NothingElseIsSystem
<1> SUFFICES ASSUME Held,
                    NEW c \in RawOsError(ErrorOf(first), target)
             PROVE  /\ c \in RawOsErrors(target)
                    /\ (IF target = "solid" THEN -c ELSE c) \in SystemCode(first)
  BY DEF NothingElseIsSystem
<1>1. /\ target \in Targets
      /\ first.n \in Int
      /\ first.from \in {"system", "custom", "internal"}
      /\ first.from = "system" => Failed(target, first.n)
      /\ first.from # "system" => first.n \in Nat /\ first.n <= MaxU16
  BY OriginFacts DEF Held
<1>2. first.from = "system"
  BY <1>1, Layout DEF ErrorOf, NewCustom, NewInternal,
     RawOsError, HasErrorFlag, UEFI_ERROR_FLAG
<1>3. c \in RawOsError(SystemError(first.n), target)
  BY <1>2 DEF ErrorOf
<1> USE Layout, <1>1, <1>2, <1>3 DEF SystemCode, SystemError, RawOsError,
        RawOsErrors, I32, Usize, FromNegErrorCode, Failed, UNEXPECTED,
        NewInternal
<1>4. CASE target = "libc"
  BY <1>4 DEF LastOsErrorOf, ERRNO_NOT_POSITIVE
<1>5. CASE target = "raw"
  BY <1>5 DEF FromSyscall
<1>6. CASE target = "wasi_p1"
  BY <1>6 DEF FromRandomGet, WrappingNeg
<1>7. CASE target = "solid"
  BY <1>7
<1>8. CASE target = "uefi"
  BY <1>8 DEF FromUefiCode, HasErrorFlag, UEFI_ERROR_FLAG
<1>9. QED  BY <1>4, <1>5, <1>6, <1>7, <1>8 DEF Targets

(* The range of custom codes is theirs alone, and new_custom is injective.  *)
LEMMA HeldUnique == Held => CustomIsUnique
<1> SUFFICES ASSUME Held, first.from = "custom", ErrorOf(first) = ErrorOf(second)
             PROVE  second = first
  BY DEF CustomIsUnique
<1>1. /\ target \in Targets
      /\ first.n \in Nat /\ first.n <= MaxU16
  BY OriginFacts DEF Held
<1>2. /\ second.n \in Int
      /\ second.from \in {"system", "custom", "internal"}
      /\ second.from = "system" => Failed(target, second.n)
      /\ second.from # "system" => second.n \in Nat /\ second.n <= MaxU16
  BY OriginFacts DEF Held
<1>3. ErrorOf(first) = CUSTOM_START + first.n
  BY DEF ErrorOf, NewCustom
<1>4. second.from # "system"
  <2> SUFFICES ASSUME second.from = "system" PROVE FALSE
    OBVIOUS
  <2>1. ErrorOf(second) = SystemError(second.n)
    BY DEF ErrorOf
  <2>2. /\ SystemError(second.n) \in RawOsErrors(target)
        /\ \/ SystemError(second.n) \in {ERRNO_NOT_POSITIVE, UNEXPECTED}
           \/ Outside(SystemError(second.n))
    BY <1>1, <1>2, SystemErrorRange
  <2>3. SystemError(second.n) = CUSTOM_START + first.n
    BY <1>3, <2>1
  <2>4. SystemError(second.n) > INTERNAL_START + 2
    BY <1>1, <2>3, Layout
  <2>5. QED
    BY <1>1, <2>2, <2>3, <2>4, Layout DEF ERRNO_NOT_POSITIVE, UNEXPECTED,
       NewInternal, Outside
<1>5. second.from # "internal"
  BY <1>1, <1>2, <1>3, Layout DEF ErrorOf, NewInternal
<1>6. second.from = "custom" /\ second.n = first.n
  BY <1>1, <1>2, <1>3, <1>4, <1>5, Layout DEF ErrorOf, NewCustom
<1>7. /\ first = [from |-> first.from, n |-> first.n]
      /\ second = [from |-> second.from, n |-> second.n]
  BY OriginFacts DEF Held
<1>8. QED  BY <1>6, <1>7

(* Every Error is a non-zero RawOsError: no constructor in error.rs that    *)
(* skips the check, and no backend that feeds it, can make a zero.          *)
THEOREM AlwaysNonZero == Spec => []NonZero
BY HeldAlways, HeldNonZero, PTL

(* raw_os_error and io::Error give back the code that the system gave.      *)
THEOREM CodesRecovered == Spec => []SystemCodeRecovered
BY HeldAlways, HeldRecovered, PTL

(* raw_os_error gives no code that the system did not give.                 *)
THEOREM NoFalseCodes == Spec => []NothingElseIsSystem
BY HeldAlways, HeldNothingElse, PTL

(* An error made by new_custom equals no other error.                       *)
THEOREM CustomCodesUnique == Spec => []CustomIsUnique
BY HeldAlways, HeldUnique, PTL
=============================================================================
