-------------------------- MODULE SelectedBackend ---------------------------
(* A program is configured (BackendSelect) and built.  If it got one of the *)
(* backends with a cache of their own (EfiRng, NetbsdCache, VxworksInit) it *)
(* then runs with that, and the cache of no other backend is ever touched.  *)
EXTENDS EfiRng, BackendSelect

CONSTANTS NetbsdThreads, VxworksThreads

VARIABLES built,                                  \* the backend, or "no"
          test, found, GETRANDOM, np, fptr, seen, \* NetbsdCache
          pool, RNG_INIT, vp                      \* VxworksInit

Netbsd == INSTANCE NetbsdCache WITH
    Threads <- NetbsdThreads, TestFallback <- BOOLEAN, pc <- np

Vxworks == INSTANCE VxworksInit WITH Threads <- VxworksThreads, pc <- vp

efi == <<booted, RNG_PROTOCOL, pc, count, next, protocol, outcome, refused, answered>>
netbsd == <<test, found, GETRANDOM, np, fptr, seen>>
vxworks == <<pool, RNG_INIT, vp>>
allvars == <<built, config, efi, netbsd, vxworks>>

(* What may be otherwise is changed by Netbsd!Link and Vxworks!Prepare, and *)
(* by Build.                                                                *)
SInit ==
    /\ built = "no"
    /\ found = "null" /\ test = FALSE /\ pool = "absent"
    /\ InitConfig /\ Init /\ Netbsd!Init /\ Vxworks!Init

Configure ==
    /\ built = "no" /\ Edit
    /\ UNCHANGED <<built, efi, netbsd, vxworks>>

(* These backends do not depend on the compiler and the features: they are  *)
(* forgotten.                                                               *)
Build ==
    /\ built = "no" /\ Accepted
    /\ Selected \in {"efi_rng", "netbsd", "vxworks"}
    /\ built' = Selected
    /\ rustc' = 78 /\ features' = {} /\ cpu' = {}
    /\ test' \in IF built' = "netbsd" THEN BOOLEAN ELSE {FALSE}
    /\ UNCHANGED <<target, flag, efi, vxworks, found, GETRANDOM, np, fptr, seen>>

InEfi == built = "efi_rng" /\ UNCHANGED <<built, config, netbsd, vxworks>>
InNetbsd == built = "netbsd" /\ UNCHANGED <<built, config, efi, vxworks>>
InVxworks == built = "vxworks" /\ UNCHANGED <<built, config, efi, netbsd>>

SNext ==
    \/ Configure
    \/ Build
    \/ InEfi /\ Next
    \/ InNetbsd /\ Netbsd!Next
    \/ InVxworks /\ Vxworks!Next

SFairness ==
    /\ \A t \in Threads : WF_allvars(InEfi /\ Step(t))
    /\ \A t \in NetbsdThreads : WF_allvars(InNetbsd /\ Netbsd!Step(t))
    /\ WF_allvars(InVxworks /\ Vxworks!Prepare)
    /\ \A t \in VxworksThreads : WF_allvars(InVxworks /\ Vxworks!Step(t))

SSpec == SInit /\ [][SNext]_allvars /\ SFairness
-----------------------------------------------------------------------------
(* Properties, besides those of BackendSelect and EfiRng.                   *)

(* The cache of netbsd.rs keeps the promises of LazyCache, with pointers    *)
(* that are ordered before their use.                                       *)
NetbsdImplementsLazyCache == Netbsd!ImplementsLazyCache

(* So does the flag of vxworks.rs, with nobody who draws from a pool that   *)
(* is not ready.                                                            *)
VxworksImplementsLazyCache == Vxworks!ImplementsLazyCache
-----------------------------------------------------------------------------
(* Why they, and those of BackendSelect and EfiRng, hold: the invariants of *)
(* the parts, side by side.                                                 *)
SInv == ConfigOK /\ EInv /\ Netbsd!NInv /\ Vxworks!VInv
=============================================================================
