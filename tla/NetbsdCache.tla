---------------------------- MODULE NetbsdCache -----------------------------
(* src/patches/getrandom-0.3.4/src/backends/netbsd.rs: the pointer to the   *)
(* function that draws, found with dlsym or replaced by the polyfill, and   *)
(* cached with Release and Acquire.  What the functions return is in        *)
(* FillLoop.                                                                *)
(*                                                                          *)
(* One step is one access to GETRANDOM or one call.  The program may load   *)
(* or unload libraries, so dlsym may change its mind.                       *)
(* A "Variant" is a plausible mistake in the definition that follows it.    *)
EXTENDS Integers

CONSTANTS Threads,
          TestFallback   \* cfg(getrandom_test_netbsd_fallback), as a set of choices

VARIABLES
    test,        \* the choice
    found,       \* what dlsym finds: "getrandom" or "null"
    GETRANDOM,
    pc,          \* idle, init, store or fill
    fptr,        \* the local variable of fill_inner
    seen         \* the initialisations of a pointer ordered before a thread's next step

vars == <<test, found, GETRANDOM, pc, fptr, seen>>

Pointers == {"getrandom", "polyfill"}

Init ==
    /\ test \in TestFallback /\ found \in {"null", "getrandom"}
    /\ GETRANDOM = "null"
    /\ pc = [t \in Threads |-> "idle"] /\ fptr = [t \in Threads |-> "null"]
    /\ seen = [t \in Threads |-> {}]

Link ==
    /\ found' \in {"null", "getrandom"}
    /\ UNCHANGED <<test, GETRANDOM, pc, fptr, seen>>

(* Variant: the load is Relaxed.                                            *)
Relaxed(t) == seen

(* An Acquire load of a Release store.                                      *)
Acquire(t) == [seen EXCEPT ![t] = @ \cup ({GETRANDOM} \ {"null"})]

Load(t) ==
    /\ pc[t] = "idle"
    /\ pc' = [pc EXCEPT ![t] = IF GETRANDOM = "null" THEN "init" ELSE "fill"]
    /\ fptr' = [fptr EXCEPT ![t] = GETRANDOM]
    /\ seen' = Acquire(t)
    /\ UNCHANGED <<test, found, GETRANDOM>>

Resolved == IF found = "null" \/ test THEN "polyfill" ELSE "getrandom"

DlSym(t) ==
    /\ pc[t] = "init" /\ pc' = [pc EXCEPT ![t] = "store"]
    /\ fptr' = [fptr EXCEPT ![t] = Resolved]
    /\ seen' = [seen EXCEPT ![t] = @ \cup {Resolved}]
    /\ UNCHANGED <<test, found, GETRANDOM>>

Store(t) ==
    /\ pc[t] = "store" /\ pc' = [pc EXCEPT ![t] = "fill"]
    /\ GETRANDOM' = fptr[t]
    /\ UNCHANGED <<test, found, fptr, seen>>

(* sys_fill_exact by way of fptr.                                           *)
Fill(t) ==
    /\ pc[t] = "fill" /\ pc' = [pc EXCEPT ![t] = "idle"]
    /\ UNCHANGED <<test, found, GETRANDOM, fptr, seen>>

Step(t) == DlSym(t) \/ Store(t) \/ Fill(t)

Next == (\E t \in Threads : Load(t) \/ Step(t)) \/ Link

Fairness == \A t \in Threads : WF_vars(Step(t))

Spec == Init /\ [][Next]_vars /\ Fairness
-----------------------------------------------------------------------------
(* Properties.                                                              *)

AbstractCall(t) ==
    CASE pc[t] = "idle" -> "idle" [] pc[t] = "fill" -> "using" [] OTHER -> "init"

(* A pointer whose initialisation is not ordered before its use is no value. *)
AbstractValue(t) ==
    IF pc[t] # "fill" THEN "null"
    ELSE IF fptr[t] \in seen[t] THEN fptr[t] ELSE "unordered"

Lazy == INSTANCE LazyCache WITH
    Values <- Pointers, NoValue <- "null",
    cache <- GETRANDOM,
    call <- [t \in Threads |-> AbstractCall(t)],
    value <- [t \in Threads |-> AbstractValue(t)]

(* The cache keeps the promises of LazyCache, and the initialisation of a   *)
(* pointer "is ordered before any data read through the returned pointer"   *)
(* (netbsd.rs, 63-65).                                                      *)
ImplementsLazyCache == Lazy!Spec

LazilyCached == Lazy!Init /\ [][Lazy!Next]_(Lazy!vars)
-----------------------------------------------------------------------------
(* Why they hold: the inductive invariant.  The cached pointer need not be  *)
(* in anybody's `seen`: it is the Acquire load that puts it there.          *)
NInv ==
    /\ GETRANDOM \in Pointers \cup {"null"}
    /\ pc \in [Threads -> {"idle", "init", "store", "fill"}]
    /\ fptr \in [Threads -> Pointers \cup {"null"}]
    /\ seen \in [Threads -> SUBSET Pointers]
    /\ \A t \in Threads : pc[t] \in {"store", "fill"} => fptr[t] \in seen[t]
=============================================================================
