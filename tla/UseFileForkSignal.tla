-------------------------- MODULE UseFileForkSignal -------------------------
(* src/patches/getrandom-0.3.4/src/backends/use_file.rs in a process that   *)
(* forks, and in one whose signal handlers call fill.  The code provides    *)
(* for neither; this module finds out what its lock makes of them.          *)
(*                                                                          *)
(* A fork copies the process, FD and the descriptor table included, with    *)
(* one thread only.  The parent goes on as in UseFile, so the module        *)
(* follows the child: the other threads stay where they were for ever.  A   *)
(* signal handler is a thread of its own, which runs while the thread it    *)
(* interrupted, its host, stands still.                                     *)
EXTENDS UseFile

CONSTANT Hosts    \* the choices for hosts, below

(* A handler has a host, which is no handler itself and has no other.       *)
ASSUME HostsAssumption ==
    \A choice \in Hosts :
        /\ DOMAIN choice \subseteq Threads
        /\ \A h \in DOMAIN choice : choice[h] \in Threads \ DOMAIN choice
        /\ \A h, i \in DOMAIN choice : choice[h] = choice[i] => h = i

VARIABLES alive,  \* the threads of the process that is followed
          hosts   \* for each thread that is a handler, the thread it interrupts

pvars == <<vars, alive, hosts>>

PInit ==
    /\ Init
    /\ alive = Threads
    /\ hosts \in Hosts

Handlers(t) == {h \in DOMAIN hosts : hosts[h] = t}

CanRun(t) == t \in alive /\ \A h \in Handlers(t) : pc[h] = "idle"

(* A signal ends the FUTEX_WAIT of the thread it is delivered to            *)
(* (FutexReturns) before its handler runs.                                  *)
MayCall(t) == t \in DOMAIN hosts => pc[hosts[t]] # "asleep"

Run(t) ==
    /\ CanRun(t)
    /\ \/ MayCall(t) /\ Call(t)
       \/ Step(t)
       \/ FutexReturns(t)
       \/ PollFails(t)
    /\ UNCHANGED <<alive, hosts>>

(* fork(2), called outside of fill by a thread that is no handler.          *)
Fork(t) ==
    /\ t \notin DOMAIN hosts
    /\ pc[t] = "idle" /\ CanRun(t)
    /\ alive' = {t} \cup Handlers(t)
    /\ UNCHANGED <<vars, hosts>>

PNext ==
    \/ \E t \in Threads : Run(t) \/ Fork(t)
    \/ Seed /\ UNCHANGED <<alive, hosts>>

(* As in UseFile; strong, because a thread gets to run between signals,     *)
(* however many there are.                                                  *)
PFairness ==
    /\ WF_pvars(Seed /\ UNCHANGED <<alive, hosts>>)
    /\ \A t \in Threads :
          /\ SF_pvars(CanRun(t) /\ Step(t) /\ UNCHANGED <<alive, hosts>>)
          /\ SF_pvars(CanRun(t) /\ CasSucceeds(t) /\ UNCHANGED <<alive, hosts>>)

PSpec == PInit /\ [][PNext]_pvars /\ PFairness
-----------------------------------------------------------------------------
(* Properties.                                                              *)

(* The thread that is to open the file has vanished in a fork, or is        *)
(* interrupted by a handler.                                                *)
Abandoned == \E t \in Threads : Opening(t) /\ ~CanRun(t)

Survivors == INSTANCE SharedFile WITH
    file <- IF FD \in Fds THEN FD ELSE FD_UNINIT,
    call <- [t \in Threads |-> IF t \in alive THEN AbstractCall(t) ELSE "idle"]

(* Fork and signals leave everything that SharedFile promises in time to    *)
(* the threads that are left: whoever waits tries to open the file or gets  *)
(* it, and every call ends.  The one exception is an opener that cannot go  *)
(* on, when the process has forked, or a handler has called fill, during    *)
(* the initialisation.                                                      *)
HangsOnlyIfAbandoned == []~Abandoned => Survivors!Fairness

(* That exception is final: FD stays FD_ONGOING_INIT, so every later call   *)
(* of the child, or of the interrupted process, waits for ever.             *)
AbandonmentIsFinal == [][Abandoned => Abandoned' /\ FD' = FD]_pvars

(* Open files that no thread which is left will ever close or share: a      *)
(* child inherits the descriptor of an opening, not the thread that has its *)
(* number in a local.                                                       *)
Held(f) ==
    \E t \in alive :
        /\ fd[t] = f
        /\ pc[t] \in {"poll", "close"} \/ (pc[t] = "store" /\ res[t] = "ok")
Orphans == {f \in Fds : files[f] # "closed" /\ FD # f /\ ~Held(f)}

(* Forks, however many and at whatever moment, cost a process one           *)
(* descriptor at most, and that only together with the lock: then nothing   *)
(* is ever opened again, so the leak cannot grow.  A process that can still *)
(* open the file has lost none.                                             *)
OneOrphanAtMost == \A f, g \in Orphans : f = g /\ Abandoned

-----------------------------------------------------------------------------
(* Why it is final: the inductive invariant.                                *)

(* A handler that interrupts the opener can only wait: it came when FD was  *)
(* FD_ONGOING_INIT, and as long as it waits, its host does not change that. *)
HandlersWait ==
    \A h \in DOMAIN hosts :
        Opening(hosts[h]) => pc[h] \in {"idle", "loop", "wait", "asleep", "waited"}

(* A thread's handlers survive a fork with it.                              *)
HandlersSurvive ==
    \A h \in DOMAIN hosts : hosts[h] \in alive => h \in alive

PIInv ==
    /\ IInv
    /\ hosts \in Hosts /\ alive \in SUBSET Threads
    /\ HandlersWait
    /\ HandlersSurvive
=============================================================================
