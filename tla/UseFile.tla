------------------------------ MODULE UseFile -------------------------------
(* src/patches/getrandom-0.3.4/src/backends/use_file.rs: the backend that   *)
(* reads /dev/urandom through one file descriptor shared by all threads.    *)
(* One step is one access to the atomic FD, one system call, or the return  *)
(* of one.  A system call that is interrupted and issued again (EINTR in    *)
(* open, poll and read) changes nothing and is a stuttering step.           *)
(*                                                                          *)
(* The atomic is sequentially consistent here; what Acquire and Release add *)
(* is modelled by the sets seen and published, below.                       *)
(*                                                                          *)
(* A definition marked "Variant" is not part of the specification: it is a  *)
(* plausible mistake in the definition that follows it, kept to show that   *)
(* some property below would notice it.                                     *)
EXTENDS Integers, SysFill

CONSTANTS
    Threads,   \* the threads that call getrandom::fill
    Fds,       \* the descriptors the kernel may hand out
    MaxLen,    \* the longest buffer a caller passes
    Linux      \* target_os is linux or android: futex and /dev/random poll

ASSUME FdsAssumption == Fds \subseteq Nat
ASSUME MaxLenAssumption == MaxLen \in Nat \ {0}
ASSUME LinuxAssumption == Linux \in BOOLEAN

FD_UNINIT == -1
FD_ONGOING_INIT == -2
(* Variant: fill_inner forgets that the file may be in the making.          *)
SentinelsUninitOnly == {FD_UNINIT}

Sentinels == {FD_UNINIT, FD_ONGOING_INIT}

VARIABLES
    FD,         \* the atomic: a sentinel or the shared descriptor
    pc,         \* where each thread is
    fd,         \* each thread's local fd (of /dev/random, then /dev/urandom)
    len,        \* the bytes its buffer still lacks
    res,        \* the Result it holds or has returned: "ok" or "err"
    futex,      \* what its last FUTEX_WAIT returned, until it looked at it
    files,      \* the process's descriptor table
    seeded,     \* the kernel's random number generator has been seeded
    seen,       \* the descriptors whose in-process bookkeeping it may rely on
    published   \* the same, for a thread that loads FD with Acquire

vars == <<FD, pc, fd, len, res, futex, files, seeded, seen, published>>
local == <<fd, len, res, futex>>
kernel == <<files, seeded>>
order == <<seen, published>>

Init ==
    /\ FD = FD_UNINIT
    /\ pc = [t \in Threads |-> "idle"]
    /\ fd = [t \in Threads |-> FD_UNINIT]
    /\ len = [t \in Threads |-> 0]
    /\ res = [t \in Threads |-> "ok"]
    /\ futex = [t \in Threads |-> "none"]
    /\ files = [f \in Fds |-> "closed"]
    /\ seeded \in BOOLEAN
    /\ seen = [t \in Threads |-> {}]
    /\ published = {}

-----------------------------------------------------------------------------
(* The orderings FD is accessed with.  A Release store publishes what the   *)
(* storing thread has done and seen; an Acquire load that reads it hands    *)
(* that on to the loading thread.                                           *)
Acquire(t) == seen' = [seen EXCEPT ![t] = @ \cup published]
(* Variant: a Relaxed store.                                                *)
ReleaseRelaxed(t) == published' = {}

Release(t) == published' = seen[t]

Goto(t, from, to) ==
    /\ pc[t] = from
    /\ pc' = [pc EXCEPT ![t] = to]

(* fill_inner, up to the first load of FD.                                  *)
Call(t) ==
    /\ \E n \in 1..MaxLen : len' = [len EXCEPT ![t] = n]
    /\ IF FD \in Sentinels
       THEN Goto(t, "idle", "loop") /\ UNCHANGED fd
       ELSE Goto(t, "idle", "fill") /\ fd' = [fd EXCEPT ![t] = FD]
    /\ Acquire(t)
    /\ UNCHANGED <<FD, res, futex, kernel, published>>

(* open_or_wait: the load that heads the loop.                              *)
Load(t) ==
    /\ CASE FD = FD_UNINIT       -> Goto(t, "loop", "cas") /\ UNCHANGED fd
         [] FD = FD_ONGOING_INIT -> Goto(t, "loop", "wait") /\ UNCHANGED fd
         [] OTHER                -> /\ Goto(t, "loop", "fill")
                                    /\ fd' = [fd EXCEPT ![t] = FD]
    /\ Acquire(t)
    /\ UNCHANGED <<FD, len, res, futex, kernel, published>>

(* compare_exchange_weak(FD_UNINIT, FD_ONGOING_INIT, AcqRel, Relaxed).      *)
(* Variant: the test and the store are not one atomic step.                 *)
CasSucceedsBlindly(t) ==
    /\ Goto(t, "cas", IF Linux THEN "random" ELSE "urandom")
    /\ FD' = FD_ONGOING_INIT
    /\ seen' = [seen EXCEPT ![t] = @ \cup published]
    /\ published' = published \cup seen[t]
    /\ UNCHANGED <<local, kernel>>

CasSucceeds(t) ==
    /\ FD = FD_UNINIT
    /\ Goto(t, "cas", IF Linux THEN "random" ELSE "urandom")
    /\ FD' = FD_ONGOING_INIT
    /\ seen' = [seen EXCEPT ![t] = @ \cup published]
    /\ published' = published \cup seen[t]
    /\ UNCHANGED <<local, kernel>>

(* The weak form may fail although FD still is FD_UNINIT.                   *)
CasFails(t) ==
    /\ Goto(t, "cas", "loop")
    /\ UNCHANGED <<FD, local, kernel, order>>

(* Variant: a wait that does not compare FD with the expected value.        *)
FutexWaitBlindly(t) ==
    /\ Linux
    /\ Goto(t, "wait", "asleep")
    /\ UNCHANGED <<FD, local, kernel, order>>

(* sync::wait on Linux and Android.  The kernel puts the thread to sleep    *)
(* only if FD still holds the value it was told to expect.                  *)
FutexWait(t) ==
    /\ Linux
    /\ IF FD = FD_ONGOING_INIT
       THEN Goto(t, "wait", "asleep") /\ UNCHANGED futex
       ELSE Goto(t, "wait", "waited") /\ futex' = [futex EXCEPT ![t] = "EAGAIN"]
    /\ UNCHANGED <<FD, fd, len, res, kernel, order>>

(* A sleeping thread may return early: with EINTR when a signal handler     *)
(* ran, with 0 when the wake up was spurious.                               *)
FutexReturns(t) ==
    /\ Goto(t, "asleep", "waited")
    /\ \E r \in {"0", "EINTR"} : futex' = [futex EXCEPT ![t] = r]
    /\ UNCHANGED <<FD, fd, len, res, kernel, order>>

(* The debug assertion on the return value, then back to the loop.          *)
Waited(t) ==
    /\ Goto(t, "waited", "loop")
    /\ futex' = [futex EXCEPT ![t] = "none"]
    /\ UNCHANGED <<FD, fd, len, res, kernel, order>>

(* sync::wait elsewhere: one nanosleep, whatever FD becomes meanwhile.      *)
Nanosleep(t) ==
    /\ ~Linux
    /\ Goto(t, "wait", "loop")
    /\ UNCHANGED <<FD, local, kernel, order>>

-----------------------------------------------------------------------------
(* The initialisation section, entered by CasSucceeds and left by Store.    *)

(* open_readonly: some free descriptor, or an error other than EINTR.  What *)
(* a thread knew of an earlier file under that descriptor is worth nothing. *)
OpenReadonly(t, path, here, next) ==
    \/ \E f \in Fds :
          /\ files[f] = "closed"
          /\ files' = [files EXCEPT ![f] = path]
          /\ fd' = [fd EXCEPT ![t] = f]
          /\ seen' = [u \in Threads |-> IF u = t THEN seen[u] \cup {f}
                                        ELSE seen[u] \ {f}]
          /\ published' = published \ {f}
          /\ res' = [res EXCEPT ![t] = "ok"]
          /\ Goto(t, here, next)
    \/ /\ res' = [res EXCEPT ![t] = "err"]
       /\ Goto(t, here, "store")
       /\ UNCHANGED <<files, fd, order>>

(* wait_until_rng_ready: open, poll, close.                                 *)
OpenRandom(t) ==
    /\ OpenReadonly(t, "random", "random", "poll")
    /\ UNCHANGED <<FD, len, futex, seeded>>

(* poll has no timeout, so it returns 1 once the generator is seeded, ...   *)
PollReady(t) ==
    /\ seeded
    /\ Goto(t, "poll", "close")
    /\ res' = [res EXCEPT ![t] = "ok"]
    /\ UNCHANGED <<FD, fd, len, futex, kernel, order>>

(* Variant: the error of poll is dropped.                                   *)
PollFailsSilently(t) ==
    /\ Goto(t, "poll", "close")
    /\ res' = [res EXCEPT ![t] = "ok"]
    /\ UNCHANGED <<FD, fd, len, futex, kernel, order>>

(* ... or fails, with ENOMEM.                                               *)
PollFails(t) ==
    /\ Goto(t, "poll", "close")
    /\ res' = [res EXCEPT ![t] = "err"]
    /\ UNCHANGED <<FD, fd, len, futex, kernel, order>>

(* Variant: the error of poll leaves the function before the close.         *)
CloseRandomIfReady(t) ==
    /\ Goto(t, "close", IF res[t] = "ok" THEN "urandom" ELSE "store")
    /\ files' = [files EXCEPT ![fd[t]] = IF res[t] = "ok" THEN "closed" ELSE @]
    /\ UNCHANGED <<FD, local, seeded, order>>

(* /dev/random is closed in either case; the ? in open_fd decides.          *)
CloseRandom(t) ==
    /\ Goto(t, "close", IF res[t] = "ok" THEN "urandom" ELSE "store")
    /\ files' = [files EXCEPT ![fd[t]] = "closed"]
    /\ UNCHANGED <<FD, local, seeded, order>>

OpenUrandom(t) ==
    /\ OpenReadonly(t, "urandom", "urandom", "store")
    /\ UNCHANGED <<FD, len, futex, seeded>>

(* Variant: an error leaves FD as it is.                                    *)
StoreValueIfOk(t) == IF res[t] = "ok" THEN fd[t] ELSE FD

(* FD.store(val, Release): the descriptor, or FD_UNINIT after an error.     *)
StoreValue(t) == IF res[t] = "ok" THEN fd[t] ELSE FD_UNINIT

(* Where open_or_wait's result takes its caller: to reading, or out.        *)
Outcome(t) == IF res[t] = "ok" THEN "fill" ELSE "idle"

Store(t) ==
    /\ Goto(t, "store", IF Linux THEN "wake" ELSE Outcome(t))
    /\ FD' = StoreValue(t)
    /\ Release(t)
    /\ UNCHANGED <<local, kernel, seen>>

(* Variant: FUTEX_WAKE of one sleeper instead of INT_MAX.                   *)
SleepersOne ==
    LET all == {u \in Threads : pc[u] = "asleep"}
    IN IF all = {} THEN {} ELSE {CHOOSE u \in all : TRUE}

(* sync::wake: FUTEX_WAKE of every sleeper.                                 *)
Sleepers == {u \in Threads : pc[u] = "asleep"}

Wake(t) ==
    /\ pc[t] = "wake"
    /\ pc' = [u \in Threads |-> IF u \in Sleepers THEN "waited"
                                ELSE IF u = t THEN Outcome(t) ELSE pc[u]]
    /\ futex' = [u \in Threads |-> IF u \in Sleepers THEN "0" ELSE futex[u]]
    /\ UNCHANGED <<FD, fd, len, res, kernel, order>>

-----------------------------------------------------------------------------
(* sys_fill_exact with libc::read: one read, of up to the whole rest.       *)
Read(t) ==
    \E r \in -1..len[t], errno \in Errno :
        LET failure == Failure(len[t], r, errno)
            left    == Left(len[t], r)
        IN /\ len' = [len EXCEPT ![t] = IF failure = {} THEN left ELSE @]
           /\ res' = [res EXCEPT ![t] = IF failure = {} THEN "ok" ELSE "err"]
           /\ Goto(t, "fill",
                   IF failure = {} /\ left > 0 THEN "fill" ELSE "idle")
           /\ UNCHANGED <<FD, fd, futex, kernel, order>>

(* The kernel's generator is seeded once, at a time of its own.             *)
Seed ==
    /\ ~seeded
    /\ seeded' = TRUE
    /\ UNCHANGED <<FD, pc, local, files, order>>

(* The steps a thread takes as soon as it is scheduled.                     *)
Step(t) ==
    \/ Load(t) \/ CasSucceeds(t) \/ CasFails(t)
    \/ FutexWait(t) \/ Waited(t) \/ Nanosleep(t)
    \/ OpenRandom(t) \/ PollReady(t) \/ CloseRandom(t) \/ OpenUrandom(t)
    \/ Store(t) \/ Wake(t) \/ Read(t)

Next ==
    \/ \E t \in Threads : Call(t) \/ Step(t) \/ FutexReturns(t) \/ PollFails(t)
    \/ Seed

(* Threads are scheduled, the generator is seeded some day, and the weak    *)
(* exchange does not fail for no reason for ever.  Nobody has to call, to   *)
(* be sent a signal, or to run out of memory.                               *)
Fairness ==
    /\ WF_vars(Seed)
    /\ \A t \in Threads : WF_vars(Step(t)) /\ SF_vars(CasSucceeds(t))

Spec == Init /\ [][Next]_vars /\ Fairness
-----------------------------------------------------------------------------
(* Properties.                                                              *)

Labels == {"idle", "loop", "cas", "wait", "asleep", "waited", "random", "poll",
           "close", "urandom", "store", "wake", "fill"}

(* Every variable has its type.                                             *)
TypeOK ==
    /\ FD \in Fds \cup {FD_UNINIT, FD_ONGOING_INIT}
    /\ pc \in [Threads -> Labels]
    /\ fd \in [Threads -> Fds \cup {FD_UNINIT}]
    /\ len \in [Threads -> 0..MaxLen]
    /\ res \in [Threads -> {"ok", "err"}]
    /\ futex \in [Threads -> {"none", "0", "EAGAIN", "EINTR"}]
    /\ files \in [Fds -> {"closed", "random", "urandom"}]
    /\ seeded \in BOOLEAN
    /\ seen \in [Threads -> SUBSET Fds]
    /\ published \in SUBSET Fds

(* The thread runs open_fd, or has its result and has not stored it yet.    *)
Opening(t) == pc[t] \in {"random", "poll", "close", "urandom", "store"}

(* FD_ONGOING_INIT is a lock: it is held exactly while some thread is in    *)
(* the initialisation section of open_or_wait, and by one thread only.      *)
SingleOpener ==
    /\ (FD = FD_ONGOING_INIT) <=> (\E t \in Threads : Opening(t))
    /\ \A t, u \in Threads : Opening(t) /\ Opening(u) => t = u

(* The process never holds more than the descriptor it needs: /dev/random   *)
(* is open only while it is polled, and an open /dev/urandom is, or is      *)
(* about to be, the shared one.  No error path loses a descriptor.          *)
NoFdLeak ==
    \A f \in Fds :
        /\ files[f] = "random" =>
              \E t \in Threads : pc[t] \in {"poll", "close"} /\ fd[t] = f
        /\ files[f] = "urandom" =>
              \/ FD = f
              \/ \E t \in Threads :
                    pc[t] = "store" /\ res[t] = "ok" /\ fd[t] = f

(* A thread that reads does so through the published descriptor, which is   *)
(* open on /dev/urandom, whichever way it came by it: the fast path, the    *)
(* loop, or its own opening.                                                *)
ReadersUsePublished ==
    \A t \in Threads :
        pc[t] = "fill" => FD \in Fds /\ fd[t] = FD /\ files[FD] = "urandom"

(* On Linux and Android nobody reads /dev/urandom, and no descriptor of it  *)
(* is published, before the kernel's generator is seeded.                   *)
SeededBeforeRead ==
    Linux /\ (FD \in Fds \/ \E t \in Threads : pc[t] = "fill") => seeded

(* A thread that reads through a descriptor opened by another is ordered    *)
(* after that opening, so it sees the in-process state of the open call     *)
(* (the promise made where FD is declared).                                 *)
ReadersSynchronised ==
    \A t \in Threads : pc[t] = "fill" => fd[t] \in seen[t]

(* Nobody sleeps on a value of FD that is gone unless someone is about to   *)
(* wake all sleepers.                                                       *)
NoLostWakeup ==
    (\E t \in Threads : pc[t] = "asleep") =>
        FD = FD_ONGOING_INIT \/ \E t \in Threads : pc[t] = "wake"

(* The comment in sync::wait, checked by its debug assertion: FUTEX_WAIT    *)
(* should return either 0 or the EAGAIN error.                              *)
WaitAssertion ==
    \A t \in Threads : pc[t] = "waited" => futex[t] \in {"0", "EAGAIN"}

(* A published descriptor stays published, and open on the same file.       *)
FDStable == [][(FD \in Fds) => FD' = FD /\ files'[FD] = files[FD]]_vars

-----------------------------------------------------------------------------
(* Why the safety properties hold: the inductive invariant.                 *)

(* What a thread in the initialisation section has achieved so far.         *)
OpenerState(t) ==
    /\ pc[t] \in {"poll", "close"} => fd[t] \in Fds /\ files[fd[t]] = "random"
    /\ pc[t] = "close" /\ res[t] = "ok" => seeded
    /\ pc[t] = "urandom" /\ Linux => seeded
    /\ pc[t] = "store" /\ res[t] = "ok" =>
          /\ fd[t] \in Fds /\ files[fd[t]] = "urandom"
          /\ fd[t] \in seen[t]
          /\ Linux => seeded

(* What a thread that has been given the descriptor may rely on.            *)
ReaderState(t) ==
    pc[t] = "fill" \/ (pc[t] = "wake" /\ res[t] = "ok") =>
        /\ FD \in Fds /\ fd[t] = FD
        /\ fd[t] \in seen[t]

(* What the value of FD promises to whoever loads it.                       *)
PublishedState ==
    FD \in Fds => /\ files[FD] = "urandom"
                  /\ FD \in published
                  /\ Linux => seeded

(* Only a futex puts threads to sleep until they are woken.                 *)
AsleepOnFutex(t) == pc[t] = "asleep" => Linux

(* The state of each thread is justified by the files that are open and by  *)
(* what is published; no step can take that justification away, because     *)
(* only the one opener changes FD and the files.                            *)
IInv ==
    /\ TypeOK
    /\ SingleOpener
    /\ PublishedState
    /\ \A t \in Threads : OpenerState(t) /\ ReaderState(t) /\ AsleepOnFutex(t)

-----------------------------------------------------------------------------
(* UseFile implements SharedFile.                                           *)
AbstractCall(t) ==
    CASE Opening(t) -> "opening"
      [] pc[t] \in {"loop", "cas", "wait", "asleep", "waited"} -> "waiting"
      [] pc[t] = "fill" \/ (pc[t] = "wake" /\ res[t] = "ok") -> "using"
      [] OTHER -> "idle"

File == INSTANCE SharedFile WITH
    file <- IF FD \in Fds THEN FD ELSE FD_UNINIT,
    call <- [t \in Threads |-> AbstractCall(t)]

(* What the threads see of the shared descriptor is what SharedFile allows. *)
SafelyShared == File!Init /\ [][File!Next]_(File!vars)

(* The same with SharedFile's liveness: as long as the file is not open and *)
(* a thread waits for it, somebody tries to open it; every attempt ends;    *)
(* once it is open everyone who waits reads from it, and every read ends.   *)
ImplementsSharedFile == File!Spec
=============================================================================
