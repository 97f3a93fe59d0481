---------------------------- MODULE UseFileProofs ---------------------------
(* Proofs about UseFile, for any set of threads, any set of descriptors,    *)
(* any buffer length, and both values of Linux.                             *)
EXTENDS UseFile, TLAPS

-----------------------------------------------------------------------------
(* Types.                                                                   *)

(* What one iteration of sys_fill_exact leaves of a buffer is no longer     *)
(* than the buffer was.                                                     *)
LEMMA LeftBounded ==
    ASSUME NEW n \in Nat, NEW r \in -1..n
    PROVE  Left(n, r) \in 0..n
BY DEF Left

(* open_readonly keeps the types of what it writes.                         *)
LEMMA OpenReadonlyTypes ==
    ASSUME TypeOK, NEW t \in Threads, NEW path \in {"random", "urandom"},
           NEW here, NEW next \in Labels, OpenReadonly(t, path, here, next)
    PROVE  /\ pc' \in [Threads -> Labels]
           /\ fd' \in [Threads -> Fds \cup {FD_UNINIT}]
           /\ res' \in [Threads -> {"ok", "err"}]
           /\ files' \in [Fds -> {"closed", "random", "urandom"}]
           /\ seen' \in [Threads -> SUBSET Fds]
           /\ published' \in SUBSET Fds
<1> USE DEF TypeOK, Labels, Goto, order
<1>1. CASE \E f \in Fds :
             /\ files' = [files EXCEPT ![f] = path]
             /\ fd' = [fd EXCEPT ![t] = f]
             /\ seen' = [u \in Threads |-> IF u = t THEN seen[u] \cup {f}
                                           ELSE seen[u] \ {f}]
             /\ published' = published \ {f}
             /\ res' = [res EXCEPT ![t] = "ok"]
             /\ Goto(t, here, next)
  BY <1>1
<1>2. CASE /\ res' = [res EXCEPT ![t] = "err"]
           /\ Goto(t, here, "store")
           /\ UNCHANGED <<files, fd, order>>
  BY <1>2
<1>3. QED
  BY <1>1, <1>2 DEF OpenReadonly

(* No step of any thread, nor of the kernel, breaks the types.              *)
LEMMA TypeStep == TypeOK /\ [Next]_vars => TypeOK'
<1> SUFFICES ASSUME TypeOK, [Next]_vars PROVE TypeOK'
  OBVIOUS
<1> USE FdsAssumption, MaxLenAssumption
       DEF TypeOK, Labels, FD_UNINIT, FD_ONGOING_INIT, Goto, local, kernel,
       order
<1>1. ASSUME NEW t \in Threads, Call(t) PROVE TypeOK'
  <2>0. PICK n \in 1..MaxLen : len' = [len EXCEPT ![t] = n]
    BY <1>1 DEF Call
  <2>1. len' \in [Threads -> 0..MaxLen] /\ seen' \in [Threads -> SUBSET Fds]
    <3>1. n \in 0..MaxLen
      BY MaxLenAssumption
    <3>2. len' \in [Threads -> 0..MaxLen]
      BY <2>0, <3>1
    <3>3. QED
      BY <1>1, <3>2 DEF Call, Acquire
  <2>2. pc' \in [Threads -> Labels] /\ fd' \in [Threads -> Fds \cup {FD_UNINIT}]
    BY <1>1 DEF Call, Sentinels
  <2>3. QED
    BY <1>1, <2>1, <2>2 DEF Call
<1>2. ASSUME NEW t \in Threads, Load(t) PROVE TypeOK'
  BY <1>2 DEF Load, Acquire
<1>3. ASSUME NEW t \in Threads, CasSucceeds(t) PROVE TypeOK'
  BY <1>3 DEF CasSucceeds
<1>4. ASSUME NEW t \in Threads, CasFails(t) \/ Nanosleep(t) PROVE TypeOK'
  BY <1>4 DEF CasFails, Nanosleep
<1>5. ASSUME NEW t \in Threads, FutexWait(t) \/ FutexReturns(t) \/ Waited(t)
      PROVE TypeOK'
  <2>1. CASE FutexWait(t)
    BY <2>1 DEF FutexWait
  <2>2. CASE FutexReturns(t)
    BY <2>2 DEF FutexReturns
  <2>3. CASE Waited(t)
    BY <2>3 DEF Waited
  <2>4. QED
    BY <1>5, <2>1, <2>2, <2>3
<1>6. ASSUME NEW t \in Threads, OpenRandom(t) PROVE TypeOK'
  BY <1>6, OpenReadonlyTypes DEF OpenRandom
<1>7. ASSUME NEW t \in Threads, PollReady(t) \/ PollFails(t) PROVE TypeOK'
  BY <1>7 DEF PollReady, PollFails
<1>8. ASSUME NEW t \in Threads, CloseRandom(t) PROVE TypeOK'
  BY <1>8 DEF CloseRandom
<1>9. ASSUME NEW t \in Threads, OpenUrandom(t) PROVE TypeOK'
  BY <1>9, OpenReadonlyTypes DEF OpenUrandom
<1>10. ASSUME NEW t \in Threads, Store(t) PROVE TypeOK'
  BY <1>10 DEF Store, StoreValue, Outcome, Release
<1>11. ASSUME NEW t \in Threads, Wake(t) PROVE TypeOK'
  BY <1>11 DEF Wake, Outcome, Sleepers
<1>12. ASSUME NEW t \in Threads, Read(t) PROVE TypeOK'
  <2>1. PICK r \in -1..len[t], errno \in Errno :
          /\ len' = [len EXCEPT ![t] = IF Failure(len[t], r, errno) = {}
                                       THEN Left(len[t], r) ELSE @]
          /\ res' = [res EXCEPT ![t] = IF Failure(len[t], r, errno) = {}
                                       THEN "ok" ELSE "err"]
          /\ \E to \in {"fill", "idle"} : Goto(t, "fill", to)
          /\ UNCHANGED <<FD, fd, futex, kernel, order>>
    BY <1>12 DEF Read
  <2>2. Left(len[t], r) \in 0..len[t]
    BY LeftBounded
  <2>3. len' \in [Threads -> 0..MaxLen]
    BY <2>1, <2>2
  <2>4. QED
    BY <2>1, <2>3
<1>13. CASE Seed
  BY <1>13 DEF Seed
<1>14. CASE UNCHANGED vars
  BY <1>14 DEF vars
<1>15. QED
  BY <1>1, <1>2, <1>3, <1>4, <1>5, <1>6, <1>7, <1>8, <1>9, <1>10, <1>11,
     <1>12, <1>13, <1>14 DEF Next, Step

(* Every variable of use_file.rs keeps its type, whatever the threads do.   *)
THEOREM TypeCorrect == Spec => []TypeOK
<1>1. Init => TypeOK
  BY FdsAssumption, MaxLenAssumption
     DEF Init, TypeOK, Labels, FD_UNINIT, FD_ONGOING_INIT
<1>2. QED
  BY <1>1, TypeStep, PTL DEF Spec

-----------------------------------------------------------------------------
(* Safety.                                                                  *)

(* No step breaks the inductive invariant.                                  *)
LEMMA SafetyStep == IInv /\ [Next]_vars => IInv'
<1> SUFFICES ASSUME IInv, [Next]_vars PROVE IInv'
  OBVIOUS
<1> USE FdsAssumption DEF IInv, TypeOK, SingleOpener, PublishedState,
       OpenerState, ReaderState, AsleepOnFutex, Opening, FD_UNINIT,
       FD_ONGOING_INIT, Goto, local, kernel, order
<1>0. TypeOK'
  BY TypeStep
<1>1. ASSUME NEW t \in Threads, Call(t) PROVE IInv'
  <2>1. SingleOpener'
    BY <1>0, <1>1 DEF Call, Acquire, Sentinels
  <2>2. PublishedState'
    BY <1>0, <1>1 DEF Call, Acquire, Sentinels
  <2>3. ASSUME NEW u \in Threads PROVE OpenerState(u)'
    BY <1>0, <1>1, <2>3 DEF Call, Acquire, Sentinels
  <2>4. ASSUME NEW u \in Threads PROVE (ReaderState(u) /\ AsleepOnFutex(u))'
    BY <1>0, <1>1, <2>4 DEF Call, Acquire, Sentinels
  <2>5. QED
    BY <1>0, <2>1, <2>2, <2>3, <2>4
<1>2. ASSUME NEW t \in Threads, Load(t) PROVE IInv'
  <2>1. SingleOpener'
    BY <1>0, <1>2 DEF Load, Acquire
  <2>2. PublishedState'
    BY <1>0, <1>2 DEF Load, Acquire
  <2>3. ASSUME NEW u \in Threads PROVE OpenerState(u)'
    BY <1>0, <1>2, <2>3 DEF Load, Acquire
  <2>4. ASSUME NEW u \in Threads PROVE (ReaderState(u) /\ AsleepOnFutex(u))'
    BY <1>0, <1>2, <2>4 DEF Load, Acquire
  <2>5. QED
    BY <1>0, <2>1, <2>2, <2>3, <2>4
<1>3. ASSUME NEW t \in Threads, CasSucceeds(t) PROVE IInv'
  <2>1. SingleOpener'
    BY <1>0, <1>3 DEF CasSucceeds
  <2>2. PublishedState'
    BY <1>0, <1>3 DEF CasSucceeds
  <2>3. ASSUME NEW u \in Threads PROVE OpenerState(u)'
    BY <1>0, <1>3, <2>3 DEF CasSucceeds
  <2>4. ASSUME NEW u \in Threads PROVE (ReaderState(u) /\ AsleepOnFutex(u))'
    BY <1>0, <1>3, <2>4 DEF CasSucceeds
  <2>5. QED
    BY <1>0, <2>1, <2>2, <2>3, <2>4
<1>4. ASSUME NEW t \in Threads, CasFails(t) PROVE IInv'
  <2>1. SingleOpener'
    BY <1>0, <1>4 DEF CasFails
  <2>2. PublishedState'
    BY <1>0, <1>4 DEF CasFails
  <2>3. ASSUME NEW u \in Threads PROVE OpenerState(u)'
    BY <1>0, <1>4, <2>3 DEF CasFails
  <2>4. ASSUME NEW u \in Threads PROVE (ReaderState(u) /\ AsleepOnFutex(u))'
    BY <1>0, <1>4, <2>4 DEF CasFails
  <2>5. QED
    BY <1>0, <2>1, <2>2, <2>3, <2>4
<1>5. ASSUME NEW t \in Threads, FutexWait(t) PROVE IInv'
  <2>1. SingleOpener'
    BY <1>0, <1>5 DEF FutexWait
  <2>2. PublishedState'
    BY <1>0, <1>5 DEF FutexWait
  <2>3. ASSUME NEW u \in Threads PROVE OpenerState(u)'
    BY <1>0, <1>5, <2>3 DEF FutexWait
  <2>4. ASSUME NEW u \in Threads PROVE (ReaderState(u) /\ AsleepOnFutex(u))'
    BY <1>0, <1>5, <2>4 DEF FutexWait
  <2>5. QED
    BY <1>0, <2>1, <2>2, <2>3, <2>4
<1>6. ASSUME NEW t \in Threads, FutexReturns(t) PROVE IInv'
  <2>1. SingleOpener'
    BY <1>0, <1>6 DEF FutexReturns
  <2>2. PublishedState'
    BY <1>0, <1>6 DEF FutexReturns
  <2>3. ASSUME NEW u \in Threads PROVE OpenerState(u)'
    BY <1>0, <1>6, <2>3 DEF FutexReturns
  <2>4. ASSUME NEW u \in Threads PROVE (ReaderState(u) /\ AsleepOnFutex(u))'
    BY <1>0, <1>6, <2>4 DEF FutexReturns
  <2>5. QED
    BY <1>0, <2>1, <2>2, <2>3, <2>4
<1>7. ASSUME NEW t \in Threads, Waited(t) PROVE IInv'
  <2>1. SingleOpener'
    BY <1>0, <1>7 DEF Waited
  <2>2. PublishedState'
    BY <1>0, <1>7 DEF Waited
  <2>3. ASSUME NEW u \in Threads PROVE OpenerState(u)'
    BY <1>0, <1>7, <2>3 DEF Waited
  <2>4. ASSUME NEW u \in Threads PROVE (ReaderState(u) /\ AsleepOnFutex(u))'
    BY <1>0, <1>7, <2>4 DEF Waited
  <2>5. QED
    BY <1>0, <2>1, <2>2, <2>3, <2>4
<1>8. ASSUME NEW t \in Threads, Nanosleep(t) PROVE IInv'
  <2>1. SingleOpener'
    BY <1>0, <1>8 DEF Nanosleep
  <2>2. PublishedState'
    BY <1>0, <1>8 DEF Nanosleep
  <2>3. ASSUME NEW u \in Threads PROVE OpenerState(u)'
    BY <1>0, <1>8, <2>3 DEF Nanosleep
  <2>4. ASSUME NEW u \in Threads PROVE (ReaderState(u) /\ AsleepOnFutex(u))'
    BY <1>0, <1>8, <2>4 DEF Nanosleep
  <2>5. QED
    BY <1>0, <2>1, <2>2, <2>3, <2>4
<1>9. ASSUME NEW t \in Threads, OpenRandom(t) PROVE IInv'
  <2>1. SingleOpener'
    BY <1>0, <1>9 DEF OpenRandom, OpenReadonly
  <2>2. PublishedState'
    BY <1>0, <1>9 DEF OpenRandom, OpenReadonly
  <2>3. ASSUME NEW u \in Threads PROVE OpenerState(u)'
    BY <1>0, <1>9, <2>3 DEF OpenRandom, OpenReadonly
  <2>4. ASSUME NEW u \in Threads PROVE (ReaderState(u) /\ AsleepOnFutex(u))'
    BY <1>0, <1>9, <2>4 DEF OpenRandom, OpenReadonly
  <2>5. QED
    BY <1>0, <2>1, <2>2, <2>3, <2>4
<1>10. ASSUME NEW t \in Threads, PollReady(t) PROVE IInv'
  <2>1. SingleOpener'
    BY <1>0, <1>10 DEF PollReady
  <2>2. PublishedState'
    BY <1>0, <1>10 DEF PollReady
  <2>3. ASSUME NEW u \in Threads PROVE OpenerState(u)'
    BY <1>0, <1>10, <2>3 DEF PollReady
  <2>4. ASSUME NEW u \in Threads PROVE (ReaderState(u) /\ AsleepOnFutex(u))'
    BY <1>0, <1>10, <2>4 DEF PollReady
  <2>5. QED
    BY <1>0, <2>1, <2>2, <2>3, <2>4
<1>11. ASSUME NEW t \in Threads, PollFails(t) PROVE IInv'
  <2>1. SingleOpener'
    BY <1>0, <1>11 DEF PollFails
  <2>2. PublishedState'
    BY <1>0, <1>11 DEF PollFails
  <2>3. ASSUME NEW u \in Threads PROVE OpenerState(u)'
    BY <1>0, <1>11, <2>3 DEF PollFails
  <2>4. ASSUME NEW u \in Threads PROVE (ReaderState(u) /\ AsleepOnFutex(u))'
    BY <1>0, <1>11, <2>4 DEF PollFails
  <2>5. QED
    BY <1>0, <2>1, <2>2, <2>3, <2>4
<1>12. ASSUME NEW t \in Threads, CloseRandom(t) PROVE IInv'
  <2>1. SingleOpener'
    BY <1>0, <1>12 DEF CloseRandom
  <2>2. PublishedState'
    BY <1>0, <1>12 DEF CloseRandom
  <2>3. ASSUME NEW u \in Threads PROVE OpenerState(u)'
    BY <1>0, <1>12, <2>3 DEF CloseRandom
  <2>4. ASSUME NEW u \in Threads PROVE (ReaderState(u) /\ AsleepOnFutex(u))'
    BY <1>0, <1>12, <2>4 DEF CloseRandom
  <2>5. QED
    BY <1>0, <2>1, <2>2, <2>3, <2>4
<1>13. ASSUME NEW t \in Threads, OpenUrandom(t) PROVE IInv'
  <2>1. SingleOpener'
    BY <1>0, <1>13 DEF OpenUrandom, OpenReadonly
  <2>2. PublishedState'
    BY <1>0, <1>13 DEF OpenUrandom, OpenReadonly
  <2>3. ASSUME NEW u \in Threads PROVE OpenerState(u)'
    BY <1>0, <1>13, <2>3 DEF OpenUrandom, OpenReadonly
  <2>4. ASSUME NEW u \in Threads PROVE (ReaderState(u) /\ AsleepOnFutex(u))'
    BY <1>0, <1>13, <2>4 DEF OpenUrandom, OpenReadonly
  <2>5. QED
    BY <1>0, <2>1, <2>2, <2>3, <2>4
<1>14. ASSUME NEW t \in Threads, Store(t) PROVE IInv'
  <2>1. SingleOpener'
    BY <1>0, <1>14 DEF Store, StoreValue, Outcome, Release
  <2>2. PublishedState'
    BY <1>0, <1>14 DEF Store, StoreValue, Outcome, Release
  <2>3. ASSUME NEW u \in Threads PROVE OpenerState(u)'
    BY <1>0, <1>14, <2>3 DEF Store, StoreValue, Outcome, Release
  <2>4. ASSUME NEW u \in Threads PROVE (ReaderState(u) /\ AsleepOnFutex(u))'
    BY <1>0, <1>14, <2>4 DEF Store, StoreValue, Outcome, Release
  <2>5. QED
    BY <1>0, <2>1, <2>2, <2>3, <2>4
<1>15. ASSUME NEW t \in Threads, Wake(t) PROVE IInv'
  <2>1. SingleOpener'
    BY <1>0, <1>15 DEF Wake, Sleepers, Outcome
  <2>2. PublishedState'
    BY <1>0, <1>15 DEF Wake, Sleepers, Outcome
  <2>3. ASSUME NEW u \in Threads PROVE OpenerState(u)'
    BY <1>0, <1>15, <2>3 DEF Wake, Sleepers, Outcome
  <2>4. ASSUME NEW u \in Threads PROVE (ReaderState(u) /\ AsleepOnFutex(u))'
    BY <1>0, <1>15, <2>4 DEF Wake, Sleepers, Outcome
  <2>5. QED
    BY <1>0, <2>1, <2>2, <2>3, <2>4
<1>16. ASSUME NEW t \in Threads, Read(t) PROVE IInv'
  <2>1. SingleOpener'
    BY <1>0, <1>16 DEF Read
  <2>2. PublishedState'
    BY <1>0, <1>16 DEF Read
  <2>3. ASSUME NEW u \in Threads PROVE OpenerState(u)'
    BY <1>0, <1>16, <2>3 DEF Read
  <2>4. ASSUME NEW u \in Threads PROVE (ReaderState(u) /\ AsleepOnFutex(u))'
    BY <1>0, <1>16, <2>4 DEF Read
  <2>5. QED
    BY <1>0, <2>1, <2>2, <2>3, <2>4
<1>17. CASE Seed
  BY <1>0, <1>17 DEF Seed
<1>18. CASE UNCHANGED vars
  BY <1>0, <1>18 DEF vars
<1>19. QED
  BY <1>1, <1>2, <1>3, <1>4, <1>5, <1>6, <1>7, <1>8, <1>9, <1>10, <1>11,
     <1>12, <1>13, <1>14, <1>15, <1>16, <1>17, <1>18 DEF Next, Step

(* It holds before the first call.                                          *)
LEMMA InitIInv == Init => IInv
<1> SUFFICES ASSUME Init PROVE IInv
  OBVIOUS
<1>1. TypeOK
  BY FdsAssumption, MaxLenAssumption
     DEF Init, TypeOK, Labels, FD_UNINIT, FD_ONGOING_INIT
<1>2. SingleOpener
  BY DEF Init, SingleOpener, Opening, FD_UNINIT, FD_ONGOING_INIT
<1>3. PublishedState
  BY FdsAssumption DEF Init, PublishedState, FD_UNINIT
<1>4. \A t \in Threads : OpenerState(t) /\ ReaderState(t) /\ AsleepOnFutex(t)
  BY DEF Init, OpenerState, ReaderState, AsleepOnFutex
<1>5. QED
  BY <1>1, <1>2, <1>3, <1>4 DEF IInv

(* The inductive invariant holds throughout every behaviour.                *)
THEOREM Invariant == Spec => []IInv
BY InitIInv, SafetyStep, PTL DEF Spec

(* The initialisation section of open_or_wait is entered by one thread at a *)
(* time, and FD says FD_ONGOING_INIT exactly then.                          *)
THEOREM MutualExclusion == Spec => []SingleOpener
<1>1. IInv => SingleOpener
  BY DEF IInv
<1>2. QED
  BY <1>1, Invariant, PTL

(* Whoever reads, reads from the one published descriptor, open on          *)
(* /dev/urandom.                                                            *)
THEOREM OneSharedFile == Spec => []ReadersUsePublished
<1>1. IInv => ReadersUsePublished
  BY DEF IInv, ReadersUsePublished, ReaderState, PublishedState
<1>2. QED
  BY <1>1, Invariant, PTL

(* On Linux /dev/urandom is published and read only after the kernel's      *)
(* generator has been seeded.                                               *)
THEOREM NoEarlyRead == Spec => []SeededBeforeRead
<1>1. IInv => SeededBeforeRead
  BY DEF IInv, SeededBeforeRead, ReaderState, PublishedState
<1>2. QED
  BY <1>1, Invariant, PTL

(* Every reader is ordered after the opening of the file it reads.          *)
THEOREM OpenHappensBeforeRead == Spec => []ReadersSynchronised
<1>1. IInv => ReadersSynchronised
  BY DEF IInv, ReadersSynchronised, ReaderState
<1>2. QED
  BY <1>1, Invariant, PTL

(* The published descriptor is never withdrawn or closed.                   *)
THEOREM PublishedForever == Spec => FDStable
<1>1. IInv /\ [Next]_vars => [(FD \in Fds) => FD' = FD /\ files'[FD] = files[FD]]_vars
  <2> SUFFICES ASSUME IInv, Next, FD \in Fds
               PROVE  FD' = FD /\ files'[FD] = files[FD]
    BY DEF vars
  <2> USE FdsAssumption DEF local, kernel
  <2>0. FD # FD_UNINIT /\ FD # FD_ONGOING_INIT /\ \A t \in Threads : ~Opening(t)
    BY DEF IInv, SingleOpener, FD_UNINIT, FD_ONGOING_INIT
  <2>1. ASSUME NEW t \in Threads,
               Opening(t) => FALSE,
               Call(t) \/ Step(t) \/ FutexReturns(t) \/ PollFails(t)
        PROVE  FD' = FD /\ files'[FD] = files[FD]
    BY <2>0, <2>1 DEF Call, Step, Load, CasSucceeds, CasFails, FutexWait,
       FutexReturns, Waited, Nanosleep, OpenRandom, OpenUrandom, OpenReadonly,
       PollReady, PollFails, CloseRandom, Store, Wake, Read, Opening, Goto
  <2>2. CASE Seed
    BY <2>2 DEF Seed
  <2>3. QED
    BY <2>0, <2>1, <2>2 DEF Next
<1>2. QED
  BY <1>1, Invariant, PTL DEF Spec, FDStable

(* What an opening has in hand is all that is open but the shared file.     *)
LEMMA LeakFreeStart == Init => NoFdLeak
BY DEF Init, NoFdLeak

LEMMA LeakFreeStep == IInv /\ NoFdLeak /\ [Next]_vars => NoFdLeak'
<1> SUFFICES ASSUME IInv, NoFdLeak, [Next]_vars PROVE NoFdLeak'
  OBVIOUS
<1> USE FdsAssumption DEF IInv, TypeOK, NoFdLeak, SingleOpener, Opening,
       OpenerState, FD_UNINIT, FD_ONGOING_INIT, Goto, local, kernel, order
<1>1. ASSUME NEW t \in Threads, Call(t) PROVE NoFdLeak'
  BY <1>1 DEF Call, Acquire, Sentinels
<1>2. ASSUME NEW t \in Threads, Load(t) PROVE NoFdLeak'
  BY <1>2 DEF Load, Acquire
<1>3. ASSUME NEW t \in Threads, CasSucceeds(t) PROVE NoFdLeak'
  BY <1>3 DEF CasSucceeds
<1>4. ASSUME NEW t \in Threads, CasFails(t) PROVE NoFdLeak'
  BY <1>4 DEF CasFails
<1>5. ASSUME NEW t \in Threads, FutexWait(t) PROVE NoFdLeak'
  BY <1>5 DEF FutexWait
<1>6. ASSUME NEW t \in Threads, FutexReturns(t) PROVE NoFdLeak'
  BY <1>6 DEF FutexReturns
<1>7. ASSUME NEW t \in Threads, Waited(t) PROVE NoFdLeak'
  BY <1>7 DEF Waited
<1>8. ASSUME NEW t \in Threads, Nanosleep(t) PROVE NoFdLeak'
  BY <1>8 DEF Nanosleep
<1>9. ASSUME NEW t \in Threads, OpenRandom(t) PROVE NoFdLeak'
  BY <1>9 DEF OpenRandom, OpenReadonly
<1>10. ASSUME NEW t \in Threads, PollReady(t) PROVE NoFdLeak'
  BY <1>10 DEF PollReady
<1>11. ASSUME NEW t \in Threads, PollFails(t) PROVE NoFdLeak'
  BY <1>11 DEF PollFails
<1>12. ASSUME NEW t \in Threads, CloseRandom(t) PROVE NoFdLeak'
  BY <1>12 DEF CloseRandom
<1>13. ASSUME NEW t \in Threads, OpenUrandom(t) PROVE NoFdLeak'
  BY <1>13 DEF OpenUrandom, OpenReadonly
<1>14. ASSUME NEW t \in Threads, Store(t) PROVE NoFdLeak'
  BY <1>14 DEF Store, StoreValue, Outcome, Release
<1>15. ASSUME NEW t \in Threads, Wake(t) PROVE NoFdLeak'
  BY <1>15 DEF Wake, Sleepers, Outcome
<1>16. ASSUME NEW t \in Threads, Read(t) PROVE NoFdLeak'
  BY <1>16 DEF Read
<1>17. CASE Seed
  BY <1>17 DEF Seed
<1>18. CASE UNCHANGED vars
  BY <1>18 DEF vars
<1>19. QED
  BY <1>1, <1>2, <1>3, <1>4, <1>5, <1>6, <1>7, <1>8, <1>9, <1>10, <1>11,
     <1>12, <1>13, <1>14, <1>15, <1>16, <1>17, <1>18 DEF Next, Step

(* Neither an error nor the end of the section leaves a descriptor open     *)
(* that nobody will use.                                                    *)
THEOREM NoDescriptorLeak == Spec => []NoFdLeak
BY LeakFreeStart, LeakFreeStep, Invariant, PTL DEF Spec

(* No thread falls asleep on, or is left asleep with, a value of FD that    *)
(* nobody will wake it from.                                                *)
THEOREM NobodyForgotten == Spec => []NoLostWakeup
<1>1. Init => NoLostWakeup
  BY DEF Init, NoLostWakeup
<1>2. IInv /\ NoLostWakeup /\ [Next]_vars => NoLostWakeup'
  <2> SUFFICES ASSUME IInv, NoLostWakeup, [Next]_vars PROVE NoLostWakeup'
    OBVIOUS
  <2> USE FdsAssumption DEF IInv, TypeOK, NoLostWakeup, SingleOpener, Opening, AsleepOnFutex,
         FD_UNINIT, FD_ONGOING_INIT, Goto, local, kernel, order
  <2>1. ASSUME NEW t \in Threads, Call(t) PROVE NoLostWakeup'
    BY <2>1 DEF Call, Acquire, Sentinels
  <2>2. ASSUME NEW t \in Threads, Load(t) PROVE NoLostWakeup'
    BY <2>2 DEF Load, Acquire
  <2>3. ASSUME NEW t \in Threads, CasSucceeds(t) PROVE NoLostWakeup'
    BY <2>3 DEF CasSucceeds
  <2>4. ASSUME NEW t \in Threads, CasFails(t) PROVE NoLostWakeup'
    BY <2>4 DEF CasFails
  <2>5. ASSUME NEW t \in Threads, FutexWait(t) PROVE NoLostWakeup'
    BY <2>5 DEF FutexWait
  <2>6. ASSUME NEW t \in Threads, FutexReturns(t) PROVE NoLostWakeup'
    BY <2>6 DEF FutexReturns
  <2>7. ASSUME NEW t \in Threads, Waited(t) PROVE NoLostWakeup'
    BY <2>7 DEF Waited
  <2>8. ASSUME NEW t \in Threads, Nanosleep(t) PROVE NoLostWakeup'
    BY <2>8 DEF Nanosleep
  <2>9. ASSUME NEW t \in Threads, OpenRandom(t) PROVE NoLostWakeup'
    BY <2>9 DEF OpenRandom, OpenReadonly
  <2>10. ASSUME NEW t \in Threads, PollReady(t) PROVE NoLostWakeup'
    BY <2>10 DEF PollReady
  <2>11. ASSUME NEW t \in Threads, PollFails(t) PROVE NoLostWakeup'
    BY <2>11 DEF PollFails
  <2>12. ASSUME NEW t \in Threads, CloseRandom(t) PROVE NoLostWakeup'
    BY <2>12 DEF CloseRandom
  <2>13. ASSUME NEW t \in Threads, OpenUrandom(t) PROVE NoLostWakeup'
    BY <2>13 DEF OpenUrandom, OpenReadonly
  <2>14. ASSUME NEW t \in Threads, Store(t) PROVE NoLostWakeup'
    BY <2>14 DEF Store, StoreValue, Outcome, Release
  <2>15. ASSUME NEW t \in Threads, Wake(t) PROVE NoLostWakeup'
    <3>1. \A u \in Threads : pc'[u] # "asleep"
      BY <2>15 DEF Wake, Sleepers, Outcome
    <3>2. QED
      BY <3>1
  <2>16. ASSUME NEW t \in Threads, Read(t) PROVE NoLostWakeup'
    BY <2>16 DEF Read
  <2>17. CASE Seed
    BY <2>17 DEF Seed
  <2>18. CASE UNCHANGED vars
    BY <2>18 DEF vars
  <2>19. QED
    BY <2>1, <2>2, <2>3, <2>4, <2>5, <2>6, <2>7, <2>8, <2>9, <2>10, <2>11,
       <2>12, <2>13, <2>14, <2>15, <2>16, <2>17, <2>18 DEF Next, Step
<1>3. QED
  BY <1>1, <1>2, Invariant, PTL DEF Spec

-----------------------------------------------------------------------------
(* Refinement.                                                              *)

(* A step that leaves the control state and result of every other thread    *)
(* alone changes only its own thread's call.                                *)
LEMMA OneCall ==
    ASSUME NEW t \in Threads, NEW from, NEW to,
           AbstractCall(t) = from, AbstractCall(t)' = to,
           \A u \in Threads \ {t} : pc'[u] = pc[u] /\ res'[u] = res[u]
    PROVE  File!Become(t, from, to)
<1>1. \A u \in Threads \ {t} : AbstractCall(u)' = AbstractCall(u)
  BY DEF AbstractCall, Opening
<1>2. QED
  BY <1>1 DEF File!Become

(* Every step of UseFile is a step of SharedFile, or leaves it unchanged.   *)
LEMMA RefinementStep == IInv /\ IInv' /\ [Next]_vars => [File!Next]_(File!vars)
<1> SUFFICES ASSUME IInv, IInv', [Next]_vars PROVE [File!Next]_(File!vars)
  OBVIOUS
<1> USE FdsAssumption DEF IInv, TypeOK, SingleOpener, OpenerState, ReaderState,
       Opening, FD_UNINIT, FD_ONGOING_INIT, Goto, local, kernel, order,
       File!NoFile
<1>1. ASSUME NEW t \in Threads, Call(t) PROVE [File!Next]_(File!vars)
  <2>0. \A u \in Threads \ {t} : pc'[u] = pc[u] /\ res'[u] = res[u]
    BY <1>1 DEF Call, Sentinels
  <2>1. CASE FD \in Sentinels
    <3>1. AbstractCall(t) = "idle" /\ AbstractCall(t)' = "waiting"
      BY <1>1, <2>1 DEF Call, Sentinels, AbstractCall
    <3>2. File!Become(t, "idle", "waiting")
      BY <2>0, <3>1, OneCall
    <3>3. File!Arrive(t)
      BY <1>1, <2>1, <3>2 DEF Call, Sentinels, File!Arrive
    <3>4. QED
      BY <3>3 DEF File!Next
  <2>2. CASE FD \notin Sentinels
    <3>1. AbstractCall(t) = "idle" /\ AbstractCall(t)' = "using"
      BY <1>1, <2>2 DEF Call, Sentinels, AbstractCall
    <3>2. File!Become(t, "idle", "using")
      BY <2>0, <3>1, OneCall
    <3>3. File!Hit(t)
      BY <1>1, <2>2, <3>2 DEF Call, Sentinels, File!Hit
    <3>4. QED
      BY <3>3 DEF File!Next
  <2>3. QED
    BY <2>1, <2>2
<1>2. ASSUME NEW t \in Threads, Load(t) PROVE [File!Next]_(File!vars)
  <2>0. \A u \in Threads \ {t} : pc'[u] = pc[u] /\ res'[u] = res[u]
    BY <1>2 DEF Load
  <2>1. CASE FD \in Fds
    <3>1. AbstractCall(t) = "waiting" /\ AbstractCall(t)' = "using"
      BY <1>2, <2>1 DEF Load, AbstractCall
    <3>2. File!Become(t, "waiting", "using")
      BY <2>0, <3>1, OneCall
    <3>3. File!Join(t)
      BY <1>2, <2>1, <3>2 DEF Load, File!Join
    <3>4. QED
      BY <3>3 DEF File!Next
  <2>2. CASE FD \notin Fds
    BY <1>2, <2>2 DEF Load, AbstractCall, File!vars
  <2>3. QED
    BY <2>1, <2>2
<1>3. ASSUME NEW t \in Threads, CasSucceeds(t) PROVE File!Next
  <2>1. AbstractCall(t) = "waiting" /\ AbstractCall(t)' = "opening"
    BY <1>3 DEF CasSucceeds, AbstractCall
  <2>2. File!Become(t, "waiting", "opening")
    BY <1>3, <2>1, OneCall DEF CasSucceeds
  <2>3. \A u \in Threads : AbstractCall(u) # "opening"
    BY <1>3 DEF CasSucceeds, AbstractCall
  <2>4. File!Take(t)
    BY <1>3, <2>2, <2>3 DEF CasSucceeds, File!Take
  <2>5. QED
    BY <2>4 DEF File!Next
<1>4. ASSUME NEW t \in Threads, Store(t) PROVE [File!Next]_(File!vars)
  <2>0. \A u \in Threads \ {t} : pc'[u] = pc[u] /\ res'[u] = res[u]
    BY <1>4 DEF Store, StoreValue, Outcome
  <2>1. CASE res[t] = "ok"
    <3>1. AbstractCall(t) = "opening" /\ AbstractCall(t)' = "using"
      BY <1>4, <2>1 DEF Store, StoreValue, Outcome, AbstractCall
    <3>2. File!Become(t, "opening", "using")
      BY <2>0, <3>1, OneCall
    <3>3. File!Publish(t)
      BY <1>4, <2>1, <3>2 DEF Store, StoreValue, Outcome, File!Publish
    <3>4. QED
      BY <3>3 DEF File!Next
  <2>2. CASE res[t] # "ok"
    <3>1. AbstractCall(t) = "opening" /\ AbstractCall(t)' = "idle"
      BY <1>4, <2>2 DEF Store, StoreValue, Outcome, AbstractCall
    <3>2. File!Become(t, "opening", "idle")
      BY <2>0, <3>1, OneCall
    <3>3. File!Abandon(t)
      BY <1>4, <2>2, <3>2 DEF Store, StoreValue, Outcome, File!Abandon
    <3>4. QED
      BY <3>3 DEF File!Next
  <2>3. QED
    BY <2>1, <2>2
<1>5. ASSUME NEW t \in Threads, Read(t) PROVE [File!Next]_(File!vars)
  <2>0. \A u \in Threads \ {t} : pc'[u] = pc[u] /\ res'[u] = res[u]
    BY <1>5 DEF Read
  <2>1. CASE pc'[t] = "idle"
    <3>1. AbstractCall(t) = "using" /\ AbstractCall(t)' = "idle"
      BY <1>5, <2>1 DEF Read, AbstractCall
    <3>2. File!Become(t, "using", "idle")
      BY <2>0, <3>1, OneCall
    <3>3. File!Finish(t)
      BY <1>5, <2>1, <3>2 DEF Read, File!Finish
    <3>4. QED
      BY <3>3 DEF File!Next
  <2>2. CASE pc'[t] # "idle"
    BY <1>5, <2>2 DEF Read, AbstractCall, File!vars
  <2>3. QED
    BY <2>1, <2>2
<1>6. ASSUME NEW t \in Threads, CasFails(t) PROVE UNCHANGED File!vars
  BY <1>6 DEF CasFails, AbstractCall, File!vars
<1>7. ASSUME NEW t \in Threads, FutexWait(t) PROVE UNCHANGED File!vars
  BY <1>7 DEF FutexWait, AbstractCall, File!vars
<1>8. ASSUME NEW t \in Threads, FutexReturns(t) PROVE UNCHANGED File!vars
  BY <1>8 DEF FutexReturns, AbstractCall, File!vars
<1>9. ASSUME NEW t \in Threads, Waited(t) PROVE UNCHANGED File!vars
  BY <1>9 DEF Waited, AbstractCall, File!vars
<1>10. ASSUME NEW t \in Threads, Nanosleep(t) PROVE UNCHANGED File!vars
  BY <1>10 DEF Nanosleep, AbstractCall, File!vars
<1>11. ASSUME NEW t \in Threads, OpenRandom(t) PROVE UNCHANGED File!vars
  BY <1>11 DEF OpenRandom, OpenReadonly, AbstractCall, File!vars
<1>12. ASSUME NEW t \in Threads, PollReady(t) PROVE UNCHANGED File!vars
  BY <1>12 DEF PollReady, AbstractCall, File!vars
<1>13. ASSUME NEW t \in Threads, PollFails(t) PROVE UNCHANGED File!vars
  BY <1>13 DEF PollFails, AbstractCall, File!vars
<1>14. ASSUME NEW t \in Threads, CloseRandom(t) PROVE UNCHANGED File!vars
  BY <1>14 DEF CloseRandom, AbstractCall, File!vars
<1>15. ASSUME NEW t \in Threads, OpenUrandom(t) PROVE UNCHANGED File!vars
  BY <1>15 DEF OpenUrandom, OpenReadonly, AbstractCall, File!vars
<1>16. ASSUME NEW t \in Threads, Wake(t) PROVE UNCHANGED File!vars
  BY <1>16 DEF Wake, Sleepers, Outcome, AbstractCall, File!vars
<1>17. CASE Seed
  BY <1>17 DEF Seed, AbstractCall, File!vars
<1>18. CASE UNCHANGED vars
  BY <1>18 DEF vars, AbstractCall, File!vars
<1>19. QED
  BY <1>1, <1>2, <1>3, <1>4, <1>5, <1>6, <1>7, <1>8, <1>9, <1>10, <1>11,
     <1>12, <1>13, <1>14, <1>15, <1>16, <1>17, <1>18 DEF Next, Step

(* For any number of threads and descriptors, what callers see of the       *)
(* shared descriptor is one exclusive, unrepeated opening of one file.      *)
THEOREM SharedFileImplemented == Spec => SafelyShared
<1>1. Init => File!Init
  BY DEF Init, File!Init, File!NoFile, FD_UNINIT, AbstractCall, Opening
<1>2. QED
  BY <1>1, RefinementStep, Invariant, PTL DEF Spec, SafelyShared
=============================================================================
