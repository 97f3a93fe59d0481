------------------------------- MODULE Rdrand -------------------------------
(* src/patches/getrandom-0.3.4/src/backends/rdrand.rs and the LazyBool of   *)
(* src/patches/getrandom-0.3.4/src/lazy.rs: random words from an x86        *)
(* instruction that may be missing, may fail, and on broken CPUs repeats    *)
(* itself; and a verdict on it that any number of threads work out at once. *)
(* One step is one access to RDRAND_GOOD or one execution of RDRAND.        *)
EXTENDS Integers

CONSTANTS Threads,
          Cpus,           \* the kinds of CPU considered
          TargetFeatures, \* the builds considered: with +rdrand, without
          MaxWords,       \* the words the longest buffer needs
          RETRY_LIMIT,
          TestDraws,      \* 8 in self_test
          TestFails       \* 2: the collisions self_test puts up with

(* leafless: cpuid has no leaf 1.  absent: leaf 1 says no RDRAND.  good:    *)
(* fails at times, never repeats itself.  stuck, ones: always the same      *)
(* word, all ones in the second case.  dead: always fails.  oldAMD: good    *)
(* until a suspend, then reports success with all ones.                     *)
Kinds == {"leafless", "absent", "good", "stuck", "ones", "dead", "oldAMD"}

ASSUME CpusAssumption == Cpus \subseteq Kinds /\ TargetFeatures \subseteq BOOLEAN
ASSUME NumbersAssumption ==
    /\ MaxWords \in Nat \ {0} /\ RETRY_LIMIT \in Nat \ {0}
    /\ TestFails \in Nat /\ TestDraws \in Nat /\ TestDraws > TestFails + 1

VARIABLES
    static,        \* built with +rdrand: cpuid is not asked
    cpu, suspended,
    RDRAND_GOOD,   \* "UNINIT", "TRUE" or "FALSE"
    pc,            \* "idle", "init", "test", "store" or "fill"
    draws,         \* the draws that self_test or the buffer still need
    tries,         \* failed executions in the current rdrand()
    prev, fails,   \* self_test's locals
    verdict,       \* what init() returned
    outcome,       \* of the thread's last call
    tainted,       \* history: the threads whose last call took a broken CPU's word
    tested         \* history: some self test began before a suspend

locals == <<draws, tries, prev, fails, verdict, outcome, tainted>>
vars == <<static, cpu, suspended, RDRAND_GOOD, pc, locals, tested>>

(* rustc's contract for a target feature: the program is not run where the  *)
(* instruction does not exist.  Of CPUs that have it and lie it says        *)
(* nothing.                                                                 *)
MayRun == static => cpu \notin {"leafless", "absent"}

(* The machine may have been suspended before the program was started.      *)
Init ==
    /\ static \in TargetFeatures
    /\ cpu \in Cpus /\ suspended \in BOOLEAN
    /\ MayRun
    /\ RDRAND_GOOD = "UNINIT"
    /\ pc = [t \in Threads |-> "idle"]
    /\ draws = [t \in Threads |-> 0] /\ tries = [t \in Threads |-> 0]
    /\ prev = [t \in Threads |-> "ones"] /\ fails = [t \in Threads |-> 0]
    /\ verdict = [t \in Threads |-> "FALSE"]
    /\ outcome = [t \in Threads |-> "none"]
    /\ tainted = {} /\ tested = FALSE

-----------------------------------------------------------------------------
(* The CPU.                                                                 *)

Broken == cpu \in {"stuck", "ones", "dead"} \/ (cpu = "oldAMD" /\ suspended)

StepSucceeds ==
    IF cpu = "dead" THEN {FALSE} ELSE IF Broken THEN {TRUE} ELSE BOOLEAN

Words(t) ==
    IF cpu = "stuck" THEN {"a"}
    ELSE IF Broken THEN {"ones"} ELSE {"a", "b"} \ {prev[t]}

Suspend ==
    /\ ~suspended /\ suspended' = TRUE
    /\ UNCHANGED <<static, cpu, RDRAND_GOOD, pc, locals, tested>>

-----------------------------------------------------------------------------
(* unsync_init: load, maybe init, maybe store; the value comes from init(), *)
(* not from a second load.                                                  *)

(* A caller that has been told the verdict draws, or returns NO_RDRAND.     *)
Enter(t, good) ==
    /\ pc' = [pc EXCEPT ![t] = IF good = "TRUE" THEN "fill" ELSE "idle"]
    /\ outcome' = [outcome EXCEPT ![t] =
                      IF good = "TRUE" THEN "none" ELSE "NO_RDRAND"]
    /\ tries' = [tries EXCEPT ![t] = 0]
    /\ \E n \in (IF good = "TRUE" THEN 1..MaxWords ELSE {0}) :
          draws' = [draws EXCEPT ![t] = n]
    /\ tainted' = tainted \ {t}

Load(t) ==
    /\ pc[t] = "idle"
    /\ IF RDRAND_GOOD = "UNINIT"
       THEN pc' = [pc EXCEPT ![t] = "init"] /\ UNCHANGED locals
       ELSE Enter(t, RDRAND_GOOD) /\ UNCHANGED <<prev, fails, verdict>>
    /\ UNCHANGED <<static, cpu, suspended, RDRAND_GOOD, tested>>

(* Variants of the next definition with a bug: the family of AMD CPUs, or   *)
(* the feature flag, is not looked at.                                      *)
CpuidIgnoresFamily == static \/ cpu \notin {"leafless", "absent"}
CpuidIgnoresFlag == static \/ cpu \notin {"leafless", "oldAMD"}

(* is_rdrand_good, before the self test: leaf 1, vendor and family, flag;   *)
(* all of it compiled out with +rdrand.                                     *)
Cpuid == static \/ cpu \notin {"leafless", "absent", "oldAMD"}

IsRdrandGood(t) ==
    /\ pc[t] = "init"
    /\ IF Cpuid
       THEN /\ pc' = [pc EXCEPT ![t] = "test"]
            /\ draws' = [draws EXCEPT ![t] = TestDraws]
            /\ tries' = [tries EXCEPT ![t] = 0]
            /\ prev' = [prev EXCEPT ![t] = "ones"]
            /\ fails' = [fails EXCEPT ![t] = 0]
            /\ tested' = (tested \/ ~suspended)
            /\ UNCHANGED verdict
       ELSE /\ pc' = [pc EXCEPT ![t] = "store"]
            /\ verdict' = [verdict EXCEPT ![t] = "FALSE"]
            /\ UNCHANGED <<draws, tries, prev, fails, tested>>
    /\ UNCHANGED <<static, cpu, suspended, RDRAND_GOOD, outcome, tainted>>

(* self_test counts a word equal to the one before, and all ones first.     *)
Collides(t, word) == IF word = prev[t] THEN 1 ELSE 0

(* One successful RDRAND in self_test.                                      *)
TestStep(t) ==
    /\ pc[t] = "test" /\ TRUE \in StepSucceeds
    /\ \E word \in Words(t) :
          /\ prev' = [prev EXCEPT ![t] = word]
          /\ fails' = [fails EXCEPT ![t] = @ + Collides(t, word)]
    /\ draws' = [draws EXCEPT ![t] = @ - 1]
    /\ tries' = [tries EXCEPT ![t] = 0]
    /\ IF draws[t] = 1
       THEN /\ pc' = [pc EXCEPT ![t] = "store"]
            /\ verdict' = [verdict EXCEPT ![t] =
                              IF fails'[t] <= TestFails THEN "TRUE" ELSE "FALSE"]
       ELSE UNCHANGED <<pc, verdict>>
    /\ UNCHANGED <<static, cpu, suspended, RDRAND_GOOD, outcome, tainted,
                   tested>>

(* do_init's store, Relaxed and unconditional.                              *)
Store(t) ==
    /\ pc[t] = "store"
    /\ RDRAND_GOOD' = verdict[t]
    /\ Enter(t, verdict[t])
    /\ UNCHANGED <<static, cpu, suspended, prev, fails, verdict, tested>>

-----------------------------------------------------------------------------
(* rdrand_exact, rdrand_u32, rdrand_u64: so many words.                     *)
FillStep(t) ==
    /\ pc[t] = "fill" /\ TRUE \in StepSucceeds
    /\ draws' = [draws EXCEPT ![t] = @ - 1]
    /\ tries' = [tries EXCEPT ![t] = 0]
    /\ tainted' = IF Broken THEN tainted \cup {t} ELSE tainted
    /\ IF draws[t] = 1
       THEN /\ pc' = [pc EXCEPT ![t] = "idle"]
            /\ outcome' = [outcome EXCEPT ![t] = "ok"]
       ELSE UNCHANGED <<pc, outcome>>
    /\ UNCHANGED <<static, cpu, suspended, RDRAND_GOOD, prev, fails, verdict,
                   tested>>

(* Variant of the next definition with a bug: the retries are not counted.  *)
CountNothing(n) == n

CountRetry(n) == n + 1

Again(n) == n < RETRY_LIMIT

(* self_test's answer to an rdrand() that returned None.                    *)
NoneVerdict(t) == "FALSE"

(* RDRAND fails: again, or None after RETRY_LIMIT times.                    *)
StepFails(t) ==
    /\ pc[t] \in {"test", "fill"} /\ FALSE \in StepSucceeds
    /\ LET n == CountRetry(tries[t]) IN
          IF Again(n)
          THEN /\ tries' = [tries EXCEPT ![t] = n]
               /\ UNCHANGED <<pc, verdict, outcome>>
          ELSE /\ tries' = [tries EXCEPT ![t] = 0]
               /\ IF pc[t] = "test"
                  THEN /\ pc' = [pc EXCEPT ![t] = "store"]
                       /\ verdict' = [verdict EXCEPT ![t] = NoneVerdict(t)]
                       /\ UNCHANGED outcome
                  ELSE /\ pc' = [pc EXCEPT ![t] = "idle"]
                       /\ outcome' = [outcome EXCEPT ![t] = "FAILED_RDRAND"]
                       /\ UNCHANGED verdict
    /\ UNCHANGED <<static, cpu, suspended, RDRAND_GOOD, draws, prev, fails,
                   tainted, tested>>

Step(t) ==
    IsRdrandGood(t) \/ TestStep(t) \/ Store(t) \/ FillStep(t) \/ StepFails(t)

Next == (\E t \in Threads : Load(t) \/ Step(t)) \/ Suspend

Spec == Init /\ [][Next]_vars /\ \A t \in Threads : WF_vars(Step(t))

-----------------------------------------------------------------------------
(* Properties.                                                              *)

TypeOK ==
    /\ static \in BOOLEAN /\ tested \in BOOLEAN
    /\ cpu \in Cpus /\ suspended \in BOOLEAN
    /\ RDRAND_GOOD \in {"UNINIT", "TRUE", "FALSE"}
    /\ pc \in [Threads -> {"idle", "init", "test", "store", "fill"}]
    /\ draws \in [Threads -> Nat]
    /\ tries \in [Threads -> 0..(RETRY_LIMIT - 1)]
    /\ prev \in [Threads -> {"a", "b", "ones"}]
    /\ fails \in [Threads -> 0..TestDraws]
    /\ verdict \in [Threads -> {"TRUE", "FALSE"}]
    /\ outcome \in [Threads -> {"none", "ok", "NO_RDRAND", "FAILED_RDRAND"}]
    /\ tainted \in SUBSET Threads
    /\ \A t \in Threads : pc[t] \in {"test", "fill"} => draws[t] > 0

(* RDRAND is executed only where it exists, by any thread, whichever of     *)
(* them has found that out.                                                 *)
OnlyWhereSupported ==
    \A t \in Threads :
        pc[t] \in {"test", "fill"} => cpu \notin {"leafless", "absent"}

(* An old AMD and a build that does not look at its family.                 *)
UncheckedAMD == static /\ cpu = "oldAMD"

(* No call that succeeds has taken a word of a CPU that repeats itself,     *)
(* whichever thread tested it, whenever the machine is suspended; with one  *)
(* exception.  A build with +rdrand has the self test only, which an old    *)
(* AMD fails after a suspend but passes before one.                         *)
NoBrokenWords ==
    \A t \in Threads :
        outcome[t] = "ok" /\ t \in tainted =>
            UncheckedAMD /\ suspended /\ tested

(* A CPU whose instruction always fails is found out by the test: callers   *)
(* get NO_RDRAND, and none waits for ten more failures.                     *)
DeadIsFoundOut == \A t \in Threads : cpu = "dead" => pc[t] # "fill"

(* Every call ends, however the CPU fails: all loops are bounded.           *)
CallsEnd == \A t \in Threads : pc[t] # "idle" ~> pc[t] = "idle"

(* lazy.rs: "invoke an init() function until it succeeds, then return the   *)
(* cached value for future calls".  A LazyBool's init() always succeeds, so *)
(* its first verdict should be the last.                                    *)
VerdictIsFinal ==
    [][RDRAND_GOOD # "UNINIT" => RDRAND_GOOD' = RDRAND_GOOD]_vars

-----------------------------------------------------------------------------
(* Why they hold: the inductive invariant.                                  *)

(* The CPU gives the same word to every test that is under way.             *)
Repeats ==
    cpu \in {"stuck", "ones"} \/ (cpu = "oldAMD" /\ suspended /\ ~tested)

(* The self test has counted every repetition but the first word's: a CPU   *)
(* that always gives the same word cannot pass, as TestDraws is large.      *)
Counted(t) ==
    pc[t] = "test" =>
        /\ fails[t] + draws[t] <= TestDraws
        /\ Repeats =>
              /\ fails[t] + draws[t] + 1 >= TestDraws
              /\ draws[t] < TestDraws => prev[t] \in Words(t)

(* Nobody trusts a CPU other than a good one, or an unchecked AMD that has  *)
(* been tested in its good days: neither the cache, nor a thread about to   *)
(* fill it, nor one that draws.                                             *)
Trusted == cpu = "good" \/ (UncheckedAMD /\ tested)

TrustedIsGood ==
    /\ RDRAND_GOOD = "TRUE" => Trusted
    /\ \A t \in Threads :
          /\ pc[t] = "test" =>
                cpu \in {"good", "stuck", "ones", "dead"} \/ UncheckedAMD
          /\ pc[t] = "test" /\ ~suspended => tested
          /\ pc[t] = "store" /\ verdict[t] = "TRUE" => Trusted
          /\ pc[t] = "fill" => Trusted
    /\ tainted # {} => UncheckedAMD /\ suspended /\ tested

RInv ==
    /\ TypeOK
    /\ MayRun
    /\ \A t \in Threads : Counted(t)
    /\ TrustedIsGood
    /\ OnlyWhereSupported
    /\ DeadIsFoundOut

(* Why CallsEnd holds: the places still to come, then the words still to    *)
(* draw, then the failures still allowed.                                   *)
Way(t) ==
    CASE pc[t] = "idle" -> 0 [] pc[t] = "fill" -> 1 [] pc[t] = "store" -> 2
      [] pc[t] = "test" -> 3 [] pc[t] = "init" -> 4

Allowed(t) == RETRY_LIMIT - tries[t]

Nearer(t) ==
    \/ Way(t)' < Way(t)
    \/ /\ Way(t)' = Way(t)
       /\ \/ draws'[t] \in 0..(draws[t] - 1)
          \/ draws'[t] = draws[t] /\ Allowed(t)' \in 0..(Allowed(t) - 1)

(* Each step of a call brings it nearer to its end, and nothing else that   *)
(* happens takes it farther away.                                           *)
EachStepCounts ==
    \A t \in Threads :
        /\ Step(t) => Nearer(t)
        /\ pc[t] # "idle" /\ ~Step(t) =>
              UNCHANGED <<Way(t), draws[t], Allowed(t)>>
=============================================================================
