------------------------------- MODULE EfiRng -------------------------------
(* src/patches/getrandom-0.3.4/src/backends/efi_rng.rs: random bytes from   *)
(* the first UEFI protocol that hands out any, found by a search that may   *)
(* run several times at once and end at any step, and cached for good.      *)
(*                                                                          *)
(* One step is one access to RNG_PROTOCOL or one call into the firmware,    *)
(* whose answers are arbitrary.  The instance that handle h gives access to *)
(* is h.                                                                    *)
(* A "Variant" is a plausible mistake in the definition that follows it.    *)
EXTENDS Integers

CONSTANTS Threads,      \* the callers; they may interrupt each other
          Capacity,     \* 16: the handles that init() has room for
          MaxHandles    \* the most handles that the firmware has

ASSUME NumbersAssumption ==
    Capacity \in Nat \ {0} /\ MaxHandles \in Nat

Handles == 1..MaxHandles
NULL == 0

VARIABLES
    booted,         \* boot services have not been left
    RNG_PROTOCOL,
    pc,             \* idle, boot, locate, open, probe, store or fill
    count,          \* the handles that a search has located
    next,           \* the one it looks at
    protocol,       \* the local variable of fill_inner
    outcome,        \* of a thread's last call
    answered,       \* history: the protocols that have given random bytes
    refused         \* history: those that the current search has given up

locals == <<count, next, protocol, outcome, refused>>
vars == <<booted, RNG_PROTOCOL, pc, locals, answered>>

Init ==
    /\ booted = TRUE /\ RNG_PROTOCOL = NULL
    /\ pc = [t \in Threads |-> "idle"]
    /\ count = [t \in Threads |-> 0] /\ next = [t \in Threads |-> 1]
    /\ protocol = [t \in Threads |-> NULL]
    /\ outcome = [t \in Threads |-> "none"]
    /\ answered = {} /\ refused = [t \in Threads |-> {}]

Goto(t, place) == pc' = [pc EXCEPT ![t] = place]

Return(t, result) == Goto(t, "idle") /\ outcome' = [outcome EXCEPT ![t] = result]

(* ExitBootServices, called by the program.                                 *)
ExitBoot == booted /\ booted' = FALSE /\ UNCHANGED <<RNG_PROTOCOL, pc, locals, answered>>
-----------------------------------------------------------------------------
(* fill_inner: load, and init() if there is nothing.                        *)
Load(t) ==
    /\ pc[t] = "idle"
    /\ Goto(t, IF RNG_PROTOCOL = NULL THEN "boot" ELSE "fill")
    /\ protocol' = [protocol EXCEPT ![t] = RNG_PROTOCOL]
    /\ outcome' = [outcome EXCEPT ![t] = "none"]
    /\ UNCHANGED <<booted, RNG_PROTOCOL, count, next, answered, refused>>

(* Variant: an image handle is all that init() asks for.                    *)
BootServicesUnchecked == TRUE

(* std::os::uefi::env::boot_services.                                       *)
BootServices == booted

FindBootServices(t) ==
    /\ pc[t] = "boot"
    /\ IF BootServices
       THEN Goto(t, "locate") /\ UNCHANGED outcome
       ELSE Return(t, "BOOT_SERVICES_UNAVAILABLE")
    /\ UNCHANGED <<booted, RNG_PROTOCOL, count, next, protocol, answered, refused>>

(* Variant: the search ends before the last handle.                         *)
AfterHandleEarly(t, i) == IF i + 1 < count[t] THEN "open" ELSE "NO_RNG_HANDLE"

(* After handle i: the next one, or the end of the search.                  *)
AfterHandle(t, i) == IF i < count[t] THEN "open" ELSE "NO_RNG_HANDLE"

(* Variant: a handle that is refused is asked again.                         *)
SameHandle(i) == i

NextHandle(i) == i + 1

Advance(t, i) ==
    /\ next' = [next EXCEPT ![t] = NextHandle(i)]
    /\ IF AfterHandle(t, i) = "open"
       THEN Goto(t, "open") /\ UNCHANGED outcome
       ELSE Return(t, "NO_RNG_HANDLE")

(* locate_handle fails, or sets a length, in bytes, of its own.             *)
LocateFails(t) ==
    /\ pc[t] = "locate" /\ Return(t, "firmware")
    /\ UNCHANGED <<booted, RNG_PROTOCOL, count, next, protocol, answered, refused>>

Locate(t) ==
    /\ pc[t] = "locate"
    /\ \E n \in 0..MaxHandles :
          IF n > Capacity
          THEN Return(t, "UNEXPECTED") /\ UNCHANGED <<count, next, refused>>
          ELSE /\ count' = [count EXCEPT ![t] = n]
               /\ next' = [next EXCEPT ![t] = 1]
               /\ refused' = [refused EXCEPT ![t] = {}]
               /\ IF n > 0 THEN Goto(t, "open") /\ UNCHANGED outcome
                  ELSE Return(t, "NO_RNG_HANDLE")
    /\ UNCHANGED <<booted, RNG_PROTOCOL, protocol, answered>>

(* The firmware refuses handle next[t]: `continue`.                         *)
Refuse(t) ==
    /\ pc[t] \in {"open", "probe"}
    /\ Advance(t, next[t])
    /\ refused' = [refused EXCEPT ![t] = @ \cup {next[t]}]
    /\ UNCHANGED <<booted, RNG_PROTOCOL, count, protocol, answered>>

OpenNull(t) ==
    /\ pc[t] = "open" /\ Return(t, "UNEXPECTED")
    /\ UNCHANGED <<booted, RNG_PROTOCOL, count, next, protocol, answered, refused>>

(* Variant: whatever opens will do.                                         *)
AfterOpenStore == "store"

(* "Try to use the acquired protocol handle".                               *)
AfterOpen == "probe"

Open(t) ==
    /\ pc[t] = "open" /\ Goto(t, AfterOpen)
    /\ protocol' = [protocol EXCEPT ![t] = next[t]]
    /\ UNCHANGED <<booted, RNG_PROTOCOL, count, next, outcome, answered, refused>>

Probe(t) ==
    /\ pc[t] = "probe" /\ Goto(t, "store")
    /\ answered' = answered \cup {protocol[t]}
    /\ UNCHANGED <<booted, RNG_PROTOCOL, locals>>

Store(t) ==
    /\ pc[t] = "store" /\ Goto(t, "fill")
    /\ RNG_PROTOCOL' = protocol[t]
    /\ UNCHANGED <<booted, locals, answered>>

(* get_rng for the caller's buffer.                                         *)
Fill(t) ==
    /\ pc[t] = "fill"
    /\ \E result \in {"ok", "firmware"} : Return(t, result)
    /\ UNCHANGED <<booted, RNG_PROTOCOL, count, next, protocol, answered, refused>>

Step(t) ==
    \/ FindBootServices(t) \/ LocateFails(t) \/ Locate(t) \/ Refuse(t)
    \/ OpenNull(t) \/ Open(t) \/ Probe(t) \/ Store(t) \/ Fill(t)

Next == (\E t \in Threads : Load(t) \/ Step(t)) \/ ExitBoot

(* A call into the firmware returns.                                        *)
Fairness == \A t \in Threads : WF_vars(Step(t))

Spec == Init /\ [][Next]_vars /\ Fairness
-----------------------------------------------------------------------------
(* Properties.                                                              *)

TypeOK ==
    /\ booted \in BOOLEAN
    /\ RNG_PROTOCOL \in Handles \cup {NULL}
    /\ pc \in [Threads -> {"idle", "boot", "locate", "open", "probe", "store", "fill"}]
    /\ count \in [Threads -> 0..Capacity]
    /\ next \in [Threads -> 1..(Capacity + 1)]
    /\ protocol \in [Threads -> Handles \cup {NULL}]
    /\ outcome \in [Threads -> {"none", "ok", "firmware", "UNEXPECTED",
                       "BOOT_SERVICES_UNAVAILABLE", "NO_RNG_HANDLE"}]
    /\ answered \in SUBSET Handles
    /\ refused \in [Threads -> SUBSET Handles]

Searching(t) == pc[t] \in {"locate", "open", "probe", "store"}

(* A caller's buffer, and the cache, see only protocols that have given     *)
(* random bytes once, whichever of the racing searches found them; no call  *)
(* dereferences a null pointer.                                             *)
OnlyAnswering ==
    /\ RNG_PROTOCOL # NULL => RNG_PROTOCOL \in answered
    /\ \A t \in Threads : pc[t] \in {"store", "fill"} => protocol[t] \in answered

(* NO_RNG_HANDLE is returned only when every handle located was tried.      *)
NoneMissed ==
    \A t \in Threads :
        outcome[t] = "NO_RNG_HANDLE" => refused[t] = 1..count[t]

(* Boot services have ended, and no search is on its way.                   *)
Closed == ~booted /\ \A t \in Threads : ~Searching(t)

(* From then on the cache is what it is: no caller gets at the firmware for *)
(* another search, nobody stores again, and no protocol is probed.  With    *)
(* nothing cached the backend is out of service for good; with a protocol   *)
(* cached, that very one goes on being used, since nothing in the code      *)
(* looks at boot services once there is a pointer.                          *)
NothingFoundAfterExit ==
    [][Closed => Closed' /\ UNCHANGED <<RNG_PROTOCOL, answered>>]_vars

AbstractCall(t) ==
    CASE pc[t] = "idle" -> "idle" [] pc[t] = "fill" -> "using" [] OTHER -> "init"

AbstractValue(t) == IF pc[t] = "fill" THEN protocol[t] ELSE NULL

Lazy == INSTANCE LazyCache WITH
    Values <- Handles, NoValue <- NULL,
    cache <- RNG_PROTOCOL,
    call <- [t \in Threads |-> AbstractCall(t)],
    value <- [t \in Threads |-> AbstractValue(t)]

(* The racing searches keep the promises of LazyCache, and all end.         *)
ImplementsLazyCache == Lazy!Spec

LazilyCached == Lazy!Init /\ [][Lazy!Next]_(Lazy!vars)
-----------------------------------------------------------------------------
(* Why they hold: the inductive invariant.                                  *)

(* A search is at one of its handles, and has given up all before it.       *)
Position(t) ==
    /\ pc[t] \in {"open", "probe"} =>
          /\ next[t] <= count[t] /\ count[t] <= MaxHandles
          /\ refused[t] = 1..(next[t] - 1)
    /\ pc[t] = "probe" => protocol[t] \in Handles
    /\ pc[t] # "idle" => outcome[t] = "none"

EInv ==
    /\ TypeOK
    /\ \A t \in Threads : Position(t)
    /\ OnlyAnswering
    /\ NoneMissed

(* Why every search ends: the places still to come, then the handles still  *)
(* to try, each of them opened first and then probed.                       *)
Way(t) ==
    CASE pc[t] = "idle" -> 0 [] pc[t] = "fill" -> 1 [] pc[t] = "store" -> 2
      [] pc[t] \in {"open", "probe"} -> 3 [] pc[t] = "locate" -> 4
      [] pc[t] = "boot" -> 5

ToTry(t) == 2 * (count[t] - next[t]) + (IF pc[t] = "open" THEN 1 ELSE 0)

Nearer(t) ==
    \/ Way(t)' < Way(t)
    \/ Way(t)' = Way(t) /\ ToTry(t)' \in 0..(ToTry(t) - 1)

(* Each step of a call brings it nearer to its end, and nothing else that   *)
(* happens, in another search or to boot services, takes it farther away.   *)
EachStepCounts ==
    \A t \in Threads :
        /\ Step(t) => Nearer(t)
        /\ pc[t] # "idle" /\ ~Step(t) => UNCHANGED <<Way(t), ToTry(t)>>
=============================================================================
