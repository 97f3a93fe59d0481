------------------------------ MODULE SysFill -------------------------------
(* One iteration of the read loop shared by the libc backends:              *)
(* src/patches/getrandom-0.3.4/src/util_libc.rs, sys_fill_exact.  Only the  *)
(* length of the unfilled part of the buffer matters to it.                 *)
EXTENDS Integers

(* What errno may hold after a failed call: the interrupted call, which is  *)
(* retried, any other positive number, and the two values a libc should     *)
(* never leave there.                                                       *)
Errno == {"EINTR", "EIO", "nonpositive"}

(* last_os_error(): the errno as an Error.                                  *)
LastOsError(errno) ==
    IF errno = "nonpositive" THEN "ERRNO_NOT_POSITIVE" ELSE errno

(* Variants of the next definition with a bug: a count is trusted to fit in *)
(* the buffer; an end of file is tried again.                               *)
FailureTrustsCount(len, res, errno) ==
    CASE res > 0  -> {}
      [] res = -1 -> {LastOsError(errno)} \ {"EINTR"}
      [] OTHER    -> {"UNEXPECTED"}

FailureRetriesZero(len, res, errno) ==
    CASE res \in 0..len -> {}
      [] res = -1       -> {LastOsError(errno)} \ {"EINTR"}
      [] OTHER          -> {"UNEXPECTED"}

(* The error the iteration ends the loop with, as a set of at most one      *)
(* element, when sys_fill was given len bytes, returned res, and left errno *)
(* behind.  A result above len makes buf.get_mut(res..) return None; zero   *)
(* (end of file) and results below -1 are not expected of any system.       *)
Failure(len, res, errno) ==
    CASE res \in 1..len -> {}
      [] res = -1       -> {LastOsError(errno)} \ {"EINTR"}
      [] OTHER          -> {"UNEXPECTED"}

(* Variant of the next definition with a bug: -1 counts as a byte count.    *)
LeftUnchecked(len, res) == len - res

(* The bytes left to fill after an iteration that did not fail.             *)
Left(len, res) == IF res > 0 THEN len - res ELSE len
=============================================================================
