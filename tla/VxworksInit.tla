---------------------------- MODULE VxworksInit -----------------------------
(* src/patches/getrandom-0.3.4/src/backends/vxworks.rs: every thread asks   *)
(* randSecure until it, or another thread, has seen that the system's       *)
(* entropy pool is ready; then it draws.  The chunks are in FillLoop.       *)
(*                                                                          *)
(* One step is one access to RNG_INIT or one system call.                   *)
(* A "Variant" is a plausible mistake in the definition that follows it.    *)
EXTENDS Integers

CONSTANT Threads

VARIABLES
    pool,       \* "absent", "collecting" or "secure"
    RNG_INIT,
    pc          \* idle, init, store, stored, load (again) or fill

vars == <<pool, RNG_INIT, pc>>

Init ==
    /\ pool \in {"absent", "collecting", "secure"}
    /\ RNG_INIT = FALSE
    /\ pc = [t \in Threads |-> "idle"]

Goto(t, place) == pc' = [pc EXCEPT ![t] = place]

(* The system starts its generator, and fills the pool.                     *)
Prepare ==
    /\ pool # "secure"
    /\ pool' = IF pool = "absent" THEN "collecting" ELSE "secure"
    /\ UNCHANGED <<RNG_INIT, pc>>

(* The loop of fill_inner looks at RNG_INIT.                                *)
Load(t) ==
    /\ pc[t] \in {"idle", "load", "stored"}
    /\ Goto(t, IF RNG_INIT THEN "fill" ELSE "init")
    /\ UNCHANGED <<pool, RNG_INIT>>

(* Variant: a result of zero is success.                                    *)
EqualIsReady == "store"

(* randSecure returned zero; usleep, and round the loop again.              *)
Equal == "load"

(* init: Greater, Equal, Less.                                              *)
RandSecure(t) ==
    /\ pc[t] = "init"
    /\ Goto(t, CASE pool = "secure" -> "store"
                 [] pool = "collecting" -> Equal
                 [] pool = "absent" -> "idle")
    /\ UNCHANGED <<pool, RNG_INIT>>

Store(t) ==
    /\ pc[t] = "store" /\ Goto(t, "stored")
    /\ RNG_INIT' = TRUE
    /\ UNCHANGED pool

(* randABytes.                                                              *)
Fill(t) == pc[t] = "fill" /\ Goto(t, "idle") /\ UNCHANGED <<pool, RNG_INIT>>

Step(t) == (pc[t] # "idle" /\ Load(t)) \/ RandSecure(t) \/ Store(t) \/ Fill(t)

Next == (\E t \in Threads : Load(t) \/ Step(t)) \/ Prepare

(* The loop has no bound: it is for the system to make its pool ready.      *)
Fairness == WF_vars(Prepare) /\ \A t \in Threads : WF_vars(Step(t))

Spec == Init /\ [][Next]_vars /\ Fairness
-----------------------------------------------------------------------------
(* Properties.                                                              *)

Ready == IF pool = "secure" THEN "ready" ELSE "unready"

AbstractCall(t) ==
    CASE pc[t] = "idle" -> "idle"
      [] pc[t] \in {"stored", "fill"} -> "using"
      [] OTHER -> "init"

AbstractValue(t) == IF pc[t] \in {"stored", "fill"} THEN Ready ELSE "none"

Lazy == INSTANCE LazyCache WITH
    Values <- {"ready"}, NoValue <- "none",
    cache <- IF RNG_INIT THEN Ready ELSE "none",
    call <- [t \in Threads |-> AbstractCall(t)],
    value <- [t \in Threads |-> AbstractValue(t)]

(* Nobody draws, or tells others to draw, from a pool that is not ready;    *)
(* every call ends, by its own success, another thread's, or an error, as   *)
(* long as the system fills its pool; and the flag is never taken back.     *)
ImplementsLazyCache == Lazy!Spec

LazilyCached == Lazy!Init /\ [][Lazy!Next]_(Lazy!vars)
-----------------------------------------------------------------------------
(* Why they hold: the inductive invariant.  What a thread knows of the pool *)
(* from RNG_INIT or from randSecure stays true.                             *)
VInv ==
    /\ pool \in {"absent", "collecting", "secure"}
    /\ RNG_INIT \in BOOLEAN
    /\ pc \in [Threads -> {"idle", "init", "store", "stored", "load", "fill"}]
    /\ RNG_INIT => pool = "secure"
    /\ \A t \in Threads :
          /\ pc[t] = "store" => pool = "secure"
          /\ pc[t] \in {"stored", "fill"} => RNG_INIT
=============================================================================
