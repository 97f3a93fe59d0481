------------------------- MODULE MCUseFileForkSignal ------------------------
(* UseFileForkSignal for TLC: two threads that are equals, one of which may *)
(* vanish in a fork while it opens the file, or a thread and its handler;   *)
(* on Linux, and on the systems that wait with nanosleep.                   *)
EXTENDS UseFileForkSignal

CONSTANTS main, second

TwoThreads == {main, second}
NoneOrOneHandler == {[h \in {} |-> main], [h \in {second} |-> main]}

VARIABLE os   \* what the program is built for

mcvars == <<pvars, os>>

Elsewhere == INSTANCE UseFileForkSignal WITH Linux <- FALSE

On(name) == os = name /\ UNCHANGED os

MCInit == PInit /\ os \in {"linux", "other"}

Either(linux, other) == (On("linux") /\ linux) \/ (On("other") /\ other)

MCNext == Either(PNext, Elsewhere!PNext)

(* PFairness of the system that the program is built for.                   *)
MCFairness ==
    /\ WF_mcvars(Seed /\ UNCHANGED <<alive, hosts, os>>)
    /\ \A t \in Threads :
          /\ SF_mcvars(/\ CanRun(t) /\ Either(Step(t), Elsewhere!Step(t))
                       /\ UNCHANGED <<alive, hosts>>)
          /\ SF_mcvars(/\ CanRun(t)
                       /\ Either(CasSucceeds(t), Elsewhere!CasSucceeds(t))
                       /\ UNCHANGED <<alive, hosts>>)

MCSpec == MCInit /\ [][MCNext]_mcvars /\ MCFairness
=============================================================================
