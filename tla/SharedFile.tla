----------------------------- MODULE SharedFile -----------------------------
(* What use_file.rs promises its callers: one file, opened by one of them   *)
(* and used by all.  Nobody uses a file that is not the published one, at   *)
(* most one caller is opening it at a time, a failed attempt is reported to *)
(* the caller that made it and leaves the way free for another, and once    *)
(* the file is published everyone who waits gets it.                        *)
EXTENDS Integers

CONSTANTS Threads,   \* the threads that call fill
          Fds        \* the descriptors the system may hand out

VARIABLES file,      \* the published descriptor, or NoFile
          call       \* what each thread's call is doing

vars == <<file, call>>

NoFile == -1

Init ==
    /\ file = NoFile
    /\ call = [t \in Threads |-> "idle"]

Become(t, from, to) ==
    /\ call[t] = from
    /\ call' = [call EXCEPT ![t] = to]

Arrive(t) == Become(t, "idle", "waiting") /\ UNCHANGED file

(* A call that finds the file open never waits.                             *)
Hit(t) == file # NoFile /\ Become(t, "idle", "using") /\ UNCHANGED file

(* The right to open the file is exclusive and is not given out twice.      *)
Take(t) ==
    /\ file = NoFile
    /\ \A u \in Threads : call[u] # "opening"
    /\ Become(t, "waiting", "opening")
    /\ UNCHANGED file

Publish(t) ==
    /\ Become(t, "opening", "using")
    /\ file' \in Fds

(* Only the thread that tried to open the file sees the error.              *)
Abandon(t) == Become(t, "opening", "idle") /\ UNCHANGED file

Join(t) == file # NoFile /\ Become(t, "waiting", "using") /\ UNCHANGED file

Finish(t) == Become(t, "using", "idle") /\ UNCHANGED file

Next ==
    \E t \in Threads :
        \/ Arrive(t) \/ Hit(t) \/ Take(t) \/ Publish(t)
        \/ Abandon(t) \/ Join(t) \/ Finish(t)

Fairness ==
    /\ WF_vars(\E t \in Threads : Take(t))
    /\ \A t \in Threads : /\ WF_vars(Publish(t) \/ Abandon(t))
                          /\ WF_vars(Join(t))
                          /\ WF_vars(Finish(t))

Spec == Init /\ [][Next]_vars /\ Fairness
=============================================================================
