--------------------------- MODULE LinuxFallback ----------------------------
(* src/patches/getrandom-0.3.4/src/backends/linux_android_with_fallback.rs: *)
(* the getrandom system call where the kernel offers it to the thread that  *)
(* asks first, and the file of UseFile where it does not.  UseFile is part  *)
(* of the state: a thread whose call goes to the file takes its steps.      *)
EXTENDS UseFile

CONSTANTS Builds,    \* the builds considered: see Build
          Policies   \* how the kernel answers getrandom: "ok" or an error

(* What is fixed when the crate is built and linked: the target, whether    *)
(* dlsym finds getrandom (always, on musl), and the cfg of a test build.    *)
Build == [android : BOOLEAN, symbol : BOOLEAN,
          test : {"none", "fallback", "without_fallback"}]

ASSUME BuildsAssumption == Builds \subseteq Build
ASSUME LinuxBackendAssumption == Linux
ASSUME PoliciesAssumption == Policies \subseteq {"ok", "ENOSYS", "EPERM"}

VARIABLES
    build,
    GETRANDOM_FN,  \* the atomic: "null", "fptr" or "NOT_AVAILABLE"
    at,            \* where each thread is in this file
    fn,            \* the pointer it goes by
    rest,          \* the bytes its buffer still lacks
    policy,        \* how the kernel answers each thread (seccomp is per thread)
    policies,      \* history: every answer any thread has lived under
    outcome        \* what each thread's last call returned

lvars == <<build, GETRANDOM_FN, at, fn, rest, policy, policies, outcome>>
allVars == <<vars, lvars>>

LInit ==
    /\ Init
    /\ build \in Builds
    /\ GETRANDOM_FN = "null"
    /\ at = [t \in Threads |-> "idle"]
    /\ fn = [t \in Threads |-> "null"]
    /\ rest = [t \in Threads |-> 0]
    /\ policy \in [Threads -> Policies]
    /\ policies = {policy[t] : t \in Threads}
    /\ outcome = [t \in Threads |-> "none"]

(* Where a pointer takes the call.                                          *)
Dispatch(ptr) == IF ptr = "NOT_AVAILABLE" THEN "file" ELSE "syscall"

(* Variant: the cached pointer is not looked at.                            *)
BeginUncached(t) ==
    /\ at[t] = "idle"
    /\ fn' = [fn EXCEPT ![t] = GETRANDOM_FN]
    /\ at' = [at EXCEPT ![t] = "probe"]
    /\ \E n \in 1..MaxLen : rest' = [rest EXCEPT ![t] = n]
    /\ UNCHANGED <<build, GETRANDOM_FN, policy, policies, outcome, vars>>

(* fill_inner: the load of GETRANDOM_FN.                                    *)
Begin(t) ==
    /\ at[t] = "idle"
    /\ fn' = [fn EXCEPT ![t] = GETRANDOM_FN]
    /\ at' = [at EXCEPT ![t] = IF GETRANDOM_FN = "null" THEN "probe"
                               ELSE Dispatch(GETRANDOM_FN)]
    /\ \E n \in 1..MaxLen : rest' = [rest EXCEPT ![t] = n]
    /\ UNCHANGED <<build, GETRANDOM_FN, policy, policies, outcome, vars>>

(* Variants: EPERM is not understood; every error of the probe is taken for *)
(* a refusal.                                                               *)
UnavailableNoEPERM(answer) == answer = "ENOSYS"
UnavailableAnyError(answer) == answer # "ok"

(* The errors of the probe that mean the system call is not to be had.      *)
Unavailable(answer) ==
    answer = "ENOSYS" \/ (answer = "EPERM" /\ ~build.android)

(* Variant: the test build is not told apart.                               *)
ForbiddenNever(ptr) == FALSE

(* The check under cfg(getrandom_test_linux_without_fallback).              *)
Forbidden(ptr) == ptr = "NOT_AVAILABLE" /\ build.test = "without_fallback"

(* The pointer init comes to.                                               *)
Pointer(answer) ==
    IF ~build.symbol \/ build.test = "fallback" \/ Unavailable(answer)
    THEN "NOT_AVAILABLE" ELSE "fptr"

(* Where the kernel lets the call run, a signal may interrupt it.           *)
ProbeAnswers(t) == IF policy[t] = "ok" THEN {"ok", "EINTR"} ELSE {policy[t]}

(* init: dlsym and the probing call getrandom(ptr, 0, 0).                   *)
Probe(t) ==
    /\ at[t] = "probe"
    /\ \E answer \in ProbeAnswers(t) :
          LET ptr == Pointer(answer)
          IN IF Forbidden(ptr)
             THEN /\ at' = [at EXCEPT ![t] = "idle"]
                  /\ outcome' = [outcome EXCEPT ![t] = "panic"]
                  /\ UNCHANGED fn
             ELSE /\ at' = [at EXCEPT ![t] = "publish"]
                  /\ fn' = [fn EXCEPT ![t] = ptr]
                  /\ UNCHANGED outcome
    /\ UNCHANGED <<build, GETRANDOM_FN, rest, policy, policies, vars>>

(* init: the store; then fill_inner goes by the pointer init returned, not  *)
(* by what GETRANDOM_FN holds.                                              *)
Publish(t) ==
    /\ at[t] = "publish"
    /\ GETRANDOM_FN' = fn[t]
    /\ at' = [at EXCEPT ![t] = Dispatch(fn[t])]
    /\ UNCHANGED <<build, fn, rest, policy, policies, outcome, vars>>

(* getrandom(buf, len, 0) returns bytes only once the kernel's generator is *)
(* seeded, and may be refused at any time.                                  *)
Results(t) ==
    IF policy[t] = "ok" /\ seeded THEN {-1} \cup 1..rest[t] ELSE {-1}

(* sys_fill_exact with getrandom.                                           *)
Syscall(t) ==
    /\ at[t] = "syscall"
    /\ \E r \in Results(t) :
          LET errno   == IF policy[t] = "ok" THEN "EINTR" ELSE policy[t]
              failure == Failure(rest[t], r, errno)
              left    == Left(rest[t], r)
          IN /\ rest' = [rest EXCEPT ![t] = left]
             /\ at' = [at EXCEPT ![t] =
                           IF failure = {} /\ left > 0 THEN @ ELSE "idle"]
             /\ outcome' = [outcome EXCEPT ![t] =
                               IF failure # {} THEN "refused"
                               ELSE IF left = 0 THEN "ok" ELSE @]
    /\ UNCHANGED <<build, GETRANDOM_FN, fn, policy, policies, vars>>

(* use_file_fallback: use_file::fill_inner is called with the buffer, ...   *)
FileCall(t) ==
    /\ at[t] = "file"
    /\ Call(t) /\ len'[t] = rest[t]
    /\ UNCHANGED lvars

(* ... takes its steps, and returns.                                        *)
FileStep(t) ==
    /\ at[t] = "file"
    /\ Step(t) \/ FutexReturns(t) \/ PollFails(t)
    /\ LET over == pc[t] # "idle" /\ pc'[t] = "idle" IN
          /\ at' = [at EXCEPT ![t] = IF over THEN "idle" ELSE @]
          /\ outcome' = [outcome EXCEPT ![t] = IF over THEN res'[t] ELSE @]
    /\ UNCHANGED <<build, GETRANDOM_FN, fn, rest, policy, policies>>

(* A seccomp filter, once installed for a thread, stays.                    *)
Restrict(t) ==
    /\ policy[t] = "ok"
    /\ \E p \in Policies \ {"ok"} :
          /\ policy' = [policy EXCEPT ![t] = p]
          /\ policies' = policies \cup {p}
    /\ UNCHANGED <<build, GETRANDOM_FN, at, fn, rest, outcome, vars>>

LSeed == Seed /\ UNCHANGED lvars

LStep(t) ==
    \/ Probe(t) \/ Publish(t) \/ Syscall(t) \/ FileCall(t)
    \/ (FileStep(t) /\ Step(t))

LNext ==
    \/ \E t \in Threads :
          Begin(t) \/ Probe(t) \/ Publish(t) \/ Syscall(t)
          \/ FileCall(t) \/ FileStep(t) \/ Restrict(t)
    \/ LSeed

LFairness == WF_allVars(LSeed) /\ \A t \in Threads : WF_allVars(LStep(t))

LSpec == LInit /\ [][LNext]_allVars /\ LFairness

-----------------------------------------------------------------------------
(* Properties.                                                              *)

(* Types, those of UseFile included.                                        *)
LTypeOK ==
    /\ TypeOK
    /\ build \in Builds
    /\ GETRANDOM_FN \in {"null", "fptr", "NOT_AVAILABLE"}
    /\ at \in [Threads -> {"idle", "probe", "publish", "syscall", "file"}]
    /\ fn \in [Threads -> {"null", "fptr", "NOT_AVAILABLE"}]
    /\ rest \in [Threads -> 0..MaxLen]
    /\ policy \in [Threads -> Policies]
    /\ policies \subseteq Policies
    /\ outcome \in [Threads -> {"none", "ok", "err", "refused", "panic"}]
    /\ \A t \in Threads : /\ pc[t] # "idle" => at[t] = "file"
                          /\ at[t] # "idle" => rest[t] > 0

(* Whichever way a call took, and however initialisations raced, bytes are  *)
(* returned only after the kernel's generator was seeded.                   *)
OkAfterSeeding == \A t \in Threads : outcome[t] = "ok" => seeded

(* Reasons to use the file: the build, or a thread really was refused.      *)
Justified ==
    \/ ~build.symbol \/ build.test = "fallback"
    \/ "ENOSYS" \in policies
    \/ "EPERM" \in policies /\ ~build.android

(* Nobody uses the file without a reason; an interrupted probe is none.     *)
FallbackJustified ==
    GETRANDOM_FN = "NOT_AVAILABLE" \/ (\E t \in Threads : at[t] = "file") =>
        Justified

(* A call fails because the system call is refused only where filters came  *)
(* and went by the backend's back: some thread has lived with an answer for *)
(* which init keeps the system call (no refusal, or EPERM on Android, which *)
(* is left an error by decision), and some thread with a refusal.  Where    *)
(* every answer the kernel ever gave is a refusal that init understands,    *)
(* different ones for different threads included, the fallback catches all. *)
RefusalIsCaught ==
    \A t \in Threads : outcome[t] = "refused" =>
        /\ "ok" \in policies \/ ("EPERM" \in policies /\ build.android)
        /\ \E p \in policies : p # "ok"

(* The test build that forbids the fallback never opens a file.             *)
NoFileWithoutFallback == build.test = "without_fallback" => FD = FD_UNINIT

LazyCall(t) ==
    CASE at[t] = "idle" -> "idle"
      [] at[t] \in {"probe", "publish"} -> "init"
      [] at[t] \in {"syscall", "file"} -> "using"

LazyValue(t) == IF at[t] \in {"syscall", "file"} THEN fn[t] ELSE "null"

Lazily == INSTANCE LazyCache WITH
    Values <- {"fptr", "NOT_AVAILABLE"}, NoValue <- "null",
    cache <- GETRANDOM_FN,
    call <- [t \in Threads |-> LazyCall(t)],
    value <- [t \in Threads |-> LazyValue(t)]

(* However probes race, fail, or panic in a test build, the pointer is used *)
(* as LazyCache promises (its safety part): a call goes by what it has      *)
(* found itself or what was cached when it came, it stores before it draws, *)
(* nobody asks twice, and a panic leaves the cache alone.                   *)
LazilyCached == Lazily!Init /\ [][Lazily!Next]_(Lazily!vars)

(* Racing initialisations may overwrite each other's verdict, but not for   *)
(* ever: some day GETRANDOM_FN has its last value.                          *)
CacheSettles == <>[][UNCHANGED GETRANDOM_FN]_GETRANDOM_FN

-----------------------------------------------------------------------------
(* Why they hold: the inductive invariant.                                  *)

(* A verdict is what the atomic holds, or what init is about to store.      *)
Verdict(ptr) ==
    GETRANDOM_FN = ptr \/ \E t \in Threads : at[t] = "publish" /\ fn[t] = ptr

(* Some probe may have found the system call usable.                        *)
Offered == "ok" \in policies \/ ("EPERM" \in policies /\ build.android)

(* Each verdict, and each call that goes by it, has its reason in the       *)
(* answers the kernel has given so far, which nothing takes back.           *)
VerdictsFounded ==
    /\ Verdict("NOT_AVAILABLE") \/ (\E t \in Threads : at[t] = "file") =>
          Justified /\ build.test # "without_fallback"
    /\ Verdict("fptr") \/ (\E t \in Threads : at[t] = "syscall") => Offered
    /\ \A t \in Threads :
          /\ policy[t] \in policies
          /\ at[t] = "publish" => fn[t] # "null"
          /\ outcome[t] = "refused" => Offered /\ \E p \in policies : p # "ok"

LIInv ==
    /\ IInv
    /\ LTypeOK
    /\ VerdictsFounded
    /\ OkAfterSeeding
    /\ NoFileWithoutFallback

(* Why CacheSettles holds: those that may still store a verdict.            *)
Undecided == {t \in Threads : at[t] \in {"probe", "publish"}}

(* Once there is a verdict it is never lost, nobody new looks for another,  *)
(* and whoever replaces it has done so for the last time in its call.       *)
FewerReplacements ==
    GETRANDOM_FN # "null" =>
        /\ GETRANDOM_FN' # "null"
        /\ Undecided' \subseteq Undecided
        /\ GETRANDOM_FN' # GETRANDOM_FN => Undecided' # Undecided
=============================================================================
