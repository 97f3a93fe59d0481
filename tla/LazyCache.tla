----------------------------- MODULE LazyCache ------------------------------
(* What a lazily filled cache without a lock promises: no caller waits for  *)
(* another; those that find the cache empty all look for a value, each uses *)
(* the one it has found itself, a failed search is reported to the caller   *)
(* that made it and leaves the cache alone, and nobody empties the cache.   *)
(* Of several values found at once the last one stays.                      *)
EXTENDS Integers

CONSTANTS Threads,   \* the threads that call fill
          Values,    \* what may be cached
          NoValue

VARIABLES cache,
          call,      \* what each thread's call is doing
          value      \* the value it uses

vars == <<cache, call, value>>

Init ==
    /\ cache = NoValue
    /\ call = [t \in Threads |-> "idle"]
    /\ value = [t \in Threads |-> NoValue]

Become(t, from, to, v) ==
    /\ call[t] = from
    /\ call' = [call EXCEPT ![t] = to]
    /\ value' = [value EXCEPT ![t] = v]

Hit(t) ==
    cache # NoValue /\ Become(t, "idle", "using", cache) /\ UNCHANGED cache

Miss(t) ==
    cache = NoValue /\ Become(t, "idle", "init", NoValue) /\ UNCHANGED cache

Succeed(t) ==
    \E v \in Values : Become(t, "init", "using", v) /\ cache' = v

(* A search that is repeated may come upon another one's result.            *)
Join(t) ==
    cache # NoValue /\ Become(t, "init", "using", cache) /\ UNCHANGED cache

Fail(t) == Become(t, "init", "idle", NoValue) /\ UNCHANGED cache

Finish(t) == Become(t, "using", "idle", NoValue) /\ UNCHANGED cache

Next ==
    \E t \in Threads :
        Hit(t) \/ Miss(t) \/ Succeed(t) \/ Join(t) \/ Fail(t) \/ Finish(t)

(* Every search ends, and every use.                                        *)
Fairness ==
    \A t \in Threads : /\ WF_vars(Succeed(t) \/ Join(t) \/ Fail(t))
                       /\ WF_vars(Finish(t))

Spec == Init /\ [][Next]_vars /\ Fairness
=============================================================================
