------------------------- MODULE LinuxFallbackProofs ------------------------
(* Proofs about LinuxFallback, for any threads, descriptors, builds and     *)
(* policies.  Its steps are steps of UseFile, or leave UseFile's variables  *)
(* alone, so the invariant of UseFile carries over; what is added is why    *)
(* each cached verdict, and each call that goes by it, is justified.        *)
EXTENDS LinuxFallback, UseFileProofs

-----------------------------------------------------------------------------
(* LinuxFallback moves UseFile only by UseFile's own steps.                 *)
LEMMA FileMoves == [LNext]_allVars => [Next]_vars
<1> SUFFICES ASSUME [LNext]_allVars PROVE [Next]_vars
  OBVIOUS
<1>1. ASSUME NEW t \in Threads,
             Begin(t) \/ Probe(t) \/ Publish(t) \/ Syscall(t) \/ Restrict(t)
      PROVE  UNCHANGED vars
  BY <1>1 DEF Begin, Probe, Publish, Syscall, Restrict
<1>2. ASSUME NEW t \in Threads, FileCall(t) \/ FileStep(t) PROVE Next
  BY <1>2 DEF FileCall, FileStep, Next
<1>3. CASE LSeed
  BY <1>3 DEF LSeed, Next
<1>4. CASE UNCHANGED allVars
  BY <1>4 DEF allVars
<1>5. QED
  BY <1>1, <1>2, <1>3, <1>4 DEF LNext

(* What a step of UseFile taken by t does to control: other threads neither *)
(* start nor end a call of use_file, FD leaves FD_UNINIT only, and seeding  *)
(* is not undone.                                                           *)
LEMMA OthersStay ==
    ASSUME TypeOK, NEW t \in Threads,
           Call(t) \/ Step(t) \/ FutexReturns(t) \/ PollFails(t)
    PROVE  /\ \A u \in Threads \ {t} : pc[u] = "idle" <=> pc'[u] = "idle"
           /\ seeded' = seeded
           /\ Call(t) => FD' = FD
<1> USE DEF TypeOK, Goto, local, kernel, order
<1>1. CASE Call(t)
  BY <1>1 DEF Call
<1>2. CASE Load(t) \/ CasSucceeds(t) \/ CasFails(t) \/ FutexWait(t)
           \/ Waited(t) \/ Nanosleep(t) \/ FutexReturns(t) \/ PollFails(t)
  BY <1>2 DEF Load, CasSucceeds, CasFails, FutexWait, Waited, Nanosleep,
     FutexReturns, PollFails, Call
<1>3. CASE OpenRandom(t) \/ PollReady(t) \/ CloseRandom(t) \/ OpenUrandom(t)
  BY <1>3 DEF OpenRandom, PollReady, CloseRandom, OpenUrandom, OpenReadonly,
     Call
<1>4. CASE Store(t) \/ Read(t)
  BY <1>4 DEF Store, Read, Call
<1>5. CASE Wake(t)
  BY <1>5 DEF Wake, Sleepers, Call
<1>6. QED
  BY <1>1, <1>2, <1>3, <1>4, <1>5 DEF Step

(* A call of use_file that ends well ends with a read, so after seeding.    *)
LEMMA FileEndsSeeded ==
    ASSUME IInv, NEW t \in Threads, Step(t) \/ FutexReturns(t) \/ PollFails(t),
           pc[t] # "idle", pc'[t] = "idle"
    PROVE  res'[t] = "ok" => seeded
<1> USE DEF IInv, TypeOK, Labels, Goto, local, kernel, order
<1>1. CASE Load(t) \/ CasSucceeds(t) \/ CasFails(t) \/ FutexWait(t)
           \/ Waited(t) \/ Nanosleep(t) \/ FutexReturns(t) \/ PollFails(t)
  BY <1>1 DEF Load, CasSucceeds, CasFails, FutexWait, Waited, Nanosleep,
     FutexReturns, PollFails
<1>2. CASE OpenRandom(t) \/ PollReady(t) \/ CloseRandom(t) \/ OpenUrandom(t)
  BY <1>2 DEF OpenRandom, PollReady, CloseRandom, OpenUrandom, OpenReadonly
<1>3. CASE Store(t)
  BY <1>3, LinuxBackendAssumption DEF Store
<1>4. CASE Wake(t)
  BY <1>4 DEF Wake, Sleepers, Outcome
<1>5. CASE Read(t)
  BY <1>5, LinuxBackendAssumption DEF Read, ReaderState, PublishedState
<1>6. QED
  BY <1>1, <1>2, <1>3, <1>4, <1>5 DEF Step

-----------------------------------------------------------------------------
(* The probe.                                                               *)

(* The verdict a probe comes to has its reason in an answer of the kernel.  *)
LEMMA PointerFounded ==
    ASSUME NEW t \in Threads, policy[t] \in Policies, policy[t] \in policies,
           build \in Build, NEW answer \in ProbeAnswers(t)
    PROVE  /\ Pointer(answer) \in {"fptr", "NOT_AVAILABLE"}
           /\ Pointer(answer) = "NOT_AVAILABLE" => Justified
           /\ Pointer(answer) = "fptr" => Offered
<1>1. CASE policy[t] = "ok"
  <2>1. answer \in {"ok", "EINTR"}
    BY <1>1 DEF ProbeAnswers
  <2>2. ~Unavailable(answer)
    BY <2>1 DEF Unavailable
  <2>3. QED
    BY <1>1, <2>2 DEF Pointer, Justified, Offered
<1>2. CASE policy[t] # "ok"
  <2>1. answer = policy[t] /\ answer \in {"ENOSYS", "EPERM"}
    BY <1>2, PoliciesAssumption DEF ProbeAnswers
  <2>2. QED
    BY <2>1 DEF Pointer, Unavailable, Justified, Offered
<1>3. QED
  BY <1>1, <1>2

-----------------------------------------------------------------------------
(* The invariant.                                                           *)

LEMMA LInitLIInv == LInit => LIInv
<1> SUFFICES ASSUME LInit PROVE LIInv
  OBVIOUS
<1>1. IInv /\ TypeOK
  BY InitIInv DEF LInit, IInv
<1>2. LTypeOK
  BY <1>1, PoliciesAssumption, MaxLenAssumption DEF LInit, LTypeOK, Init
<1>3. VerdictsFounded
  BY DEF LInit, VerdictsFounded, Verdict
<1>4. OkAfterSeeding /\ NoFileWithoutFallback
  BY DEF LInit, Init, OkAfterSeeding, NoFileWithoutFallback
<1>5. QED
  BY <1>1, <1>2, <1>3, <1>4 DEF LIInv

LEMMA BeginKeeps == ASSUME LIInv, NEW t \in Threads, Begin(t)
                    PROVE  LTypeOK' /\ VerdictsFounded'
<1> USE DEF LIInv, Begin, vars
<1>1. TypeOK'
  BY DEF LTypeOK, TypeOK
<1>2. PICK n \in 1..MaxLen : rest' = [rest EXCEPT ![t] = n]
  OBVIOUS
<1>3. n \in 0..MaxLen
  BY MaxLenAssumption
<1>4. LTypeOK'
  BY <1>1, <1>2, <1>3 DEF LTypeOK, Dispatch
<1>5. VerdictsFounded'
  BY DEF LTypeOK, Dispatch, VerdictsFounded, Verdict, Justified, Offered
<1>6. QED
  BY <1>4, <1>5

LEMMA ProbeKeeps == ASSUME LIInv, NEW t \in Threads, Probe(t)
                    PROVE  LTypeOK' /\ VerdictsFounded'
<1> USE BuildsAssumption DEF LIInv, vars
<1>1. TypeOK'
  BY DEF Probe, LTypeOK, TypeOK
<1>2. PICK answer \in ProbeAnswers(t) :
         IF Forbidden(Pointer(answer))
         THEN /\ at' = [at EXCEPT ![t] = "idle"]
              /\ outcome' = [outcome EXCEPT ![t] = "panic"]
              /\ UNCHANGED fn
         ELSE /\ at' = [at EXCEPT ![t] = "publish"]
              /\ fn' = [fn EXCEPT ![t] = Pointer(answer)]
              /\ UNCHANGED outcome
  BY DEF Probe
<1>3. /\ Pointer(answer) \in {"fptr", "NOT_AVAILABLE"}
      /\ Pointer(answer) = "NOT_AVAILABLE" => Justified
      /\ Pointer(answer) = "fptr" => Offered
  BY PointerFounded DEF LTypeOK, VerdictsFounded
<1>4. LTypeOK'
  BY <1>1, <1>2, <1>3 DEF Probe, LTypeOK
<1>5. VerdictsFounded'
  BY <1>2, <1>3
     DEF Probe, LTypeOK, VerdictsFounded, Verdict, Justified, Offered, Forbidden
<1>6. QED
  BY <1>4, <1>5

LEMMA PublishKeeps == ASSUME LIInv, NEW t \in Threads, Publish(t)
                      PROVE  LTypeOK' /\ VerdictsFounded'
<1> USE DEF LIInv, Publish, vars
<1>1. TypeOK'
  BY DEF LTypeOK, TypeOK
<1>2. fn[t] # "null" /\ Verdict(fn[t])
  BY DEF VerdictsFounded, Verdict
<1>3. LTypeOK'
  BY <1>1, <1>2 DEF LTypeOK, Dispatch
<1>4. VerdictsFounded'
  BY <1>2 DEF LTypeOK, Dispatch, VerdictsFounded, Verdict, Justified, Offered
<1>5. QED
  BY <1>3, <1>4

(* A system call that is let through may be interrupted, but not refused.   *)
LEMMA SyscallKeeps == ASSUME LIInv, NEW t \in Threads, Syscall(t)
                      PROVE  LTypeOK' /\ VerdictsFounded' /\ OkAfterSeeding'
<1> USE DEF LIInv, vars
<1>1. TypeOK'
  BY DEF Syscall, LTypeOK, TypeOK
<1> DEFINE errno == IF policy[t] = "ok" THEN "EINTR" ELSE policy[t]
<1>2. PICK r \in Results(t) :
         /\ rest' = [rest EXCEPT ![t] = Left(rest[t], r)]
         /\ at' = [at EXCEPT ![t] =
                       IF Failure(rest[t], r, errno) = {} /\ Left(rest[t], r) > 0
                       THEN @ ELSE "idle"]
         /\ outcome' = [outcome EXCEPT ![t] =
                           IF Failure(rest[t], r, errno) # {} THEN "refused"
                           ELSE IF Left(rest[t], r) = 0 THEN "ok" ELSE @]
  BY DEF Syscall
<1>3. r \in -1..rest[t] /\ r # 0 /\ rest[t] \in 0..MaxLen
  BY MaxLenAssumption DEF Results, LTypeOK
<1>4. Left(rest[t], r) \in 0..MaxLen
  BY <1>3, MaxLenAssumption DEF Left
<1>5. LTypeOK'
  BY <1>1, <1>2, <1>4 DEF Syscall, LTypeOK
<1>6. policy[t] = "ok" => Failure(rest[t], r, errno) = {}
  BY <1>3 DEF Failure, LastOsError
<1>7. VerdictsFounded'
  BY <1>2, <1>6
     DEF Syscall, LTypeOK, VerdictsFounded, Verdict, Justified, Offered
<1>8. OkAfterSeeding'
  <2>1. at[t] = "syscall" /\ rest[t] > 0
    BY DEF Syscall, LTypeOK
  <2>2. Left(rest[t], r) = 0 => seeded
    BY <1>3, <2>1 DEF Left, Results
  <2>3. QED
    BY <1>2, <2>2 DEF OkAfterSeeding, LTypeOK, Syscall
<1>9. QED
  BY <1>5, <1>7, <1>8

LEMMA FileCallKeeps == ASSUME LIInv, NEW t \in Threads, FileCall(t)
                       PROVE  LTypeOK' /\ VerdictsFounded'
<1> USE DEF LIInv, FileCall, lvars
<1>1. TypeOK'
  BY TypeStep DEF LTypeOK, Next
<1>2. \A u \in Threads \ {t} : pc[u] = "idle" <=> pc'[u] = "idle"
  BY OthersStay DEF LTypeOK
<1>3. LTypeOK'
  BY <1>1, <1>2 DEF LTypeOK
<1>4. VerdictsFounded'
  BY DEF VerdictsFounded, Verdict, Justified, Offered
<1>5. QED
  BY <1>3, <1>4

(* A call of use_file that succeeds has read a seeded file.                 *)
LEMMA FileStepKeeps == ASSUME LIInv, NEW t \in Threads, FileStep(t)
                       PROVE  LTypeOK' /\ VerdictsFounded' /\ OkAfterSeeding'
<1> USE DEF LIInv
<1> DEFINE over == pc[t] # "idle" /\ pc'[t] = "idle"
<1>0. /\ at[t] = "file"
      /\ Step(t) \/ FutexReturns(t) \/ PollFails(t)
      /\ at' = [at EXCEPT ![t] = IF over THEN "idle" ELSE @]
      /\ outcome' = [outcome EXCEPT ![t] = IF over THEN res'[t] ELSE @]
      /\ UNCHANGED <<build, GETRANDOM_FN, fn, rest, policy, policies>>
  BY DEF FileStep
<1>1. TypeOK'
  BY <1>0, TypeStep DEF LTypeOK, Next
<1>2. /\ \A u \in Threads \ {t} : pc[u] = "idle" <=> pc'[u] = "idle"
      /\ seeded' = seeded
  BY <1>0, OthersStay DEF LTypeOK
<1>3. LTypeOK'
  <2>1. res'[t] \in {"ok", "err"}
    BY <1>1 DEF TypeOK
  <2>2. QED
    BY <1>0, <1>1, <1>2, <2>1 DEF LTypeOK
<1>4. VerdictsFounded'
  <2>1. res'[t] # "refused"
    BY <1>1 DEF TypeOK
  <2>2. QED
    BY <1>0, <2>1 DEF LTypeOK, VerdictsFounded, Verdict, Justified, Offered
<1>5. OkAfterSeeding'
  <2>1. over => (res'[t] = "ok" => seeded)
    BY <1>0, FileEndsSeeded
  <2>2. QED
    BY <1>0, <1>2, <2>1 DEF OkAfterSeeding, LTypeOK
<1>6. QED
  BY <1>3, <1>4, <1>5

LEMMA RestrictKeeps == ASSUME LIInv, NEW t \in Threads, Restrict(t)
                       PROVE  LTypeOK' /\ VerdictsFounded'
<1> USE DEF LIInv, Restrict, vars
<1>1. TypeOK'
  BY DEF LTypeOK, TypeOK
<1>2. LTypeOK'
  BY <1>1 DEF LTypeOK
<1>3. VerdictsFounded'
  BY DEF LTypeOK, VerdictsFounded, Verdict, Justified, Offered
<1>4. QED
  BY <1>2, <1>3

(* No step breaks the invariant.                                            *)
LEMMA LSafetyStep == LIInv /\ [LNext]_allVars => LIInv'
<1> SUFFICES ASSUME LIInv, [LNext]_allVars PROVE LIInv'
  OBVIOUS
<1>1. IInv'
  BY FileMoves, SafetyStep DEF LIInv
<1>2. LTypeOK' /\ VerdictsFounded' /\ OkAfterSeeding'
  <2> USE DEF LIInv
  <2>1. ASSUME NEW t \in Threads, Begin(t) PROVE OkAfterSeeding'
    BY <2>1 DEF Begin, OkAfterSeeding, vars
  <2>2. ASSUME NEW t \in Threads, Probe(t) PROVE OkAfterSeeding'
    BY <2>2 DEF Probe, OkAfterSeeding, LTypeOK, vars
  <2>3. ASSUME NEW t \in Threads, Publish(t) \/ Restrict(t)
        PROVE  OkAfterSeeding'
    BY <2>3 DEF Publish, Restrict, OkAfterSeeding, vars
  <2>4. ASSUME NEW t \in Threads, FileCall(t) PROVE OkAfterSeeding'
    <3>1. seeded' = seeded
      BY <2>4, OthersStay DEF FileCall, LTypeOK
    <3>2. QED
      BY <2>4, <3>1 DEF FileCall, OkAfterSeeding, lvars
  <2>5. CASE LSeed
    <3>1. TypeOK'
      BY <2>5, TypeStep DEF LSeed, LTypeOK, Next
    <3>2. QED
      BY <2>5, <3>1 DEF LSeed, Seed, LTypeOK, VerdictsFounded, Verdict,
         Justified,
         Offered, OkAfterSeeding, lvars
  <2>6. CASE UNCHANGED allVars
    BY <2>6 DEF allVars, vars, lvars, LTypeOK, TypeOK, VerdictsFounded, Verdict,
       Justified, Offered, OkAfterSeeding
  <2>7. QED
    BY <2>1, <2>2, <2>3, <2>4, <2>5, <2>6, BeginKeeps, ProbeKeeps, PublishKeeps,
       SyscallKeeps, FileCallKeeps, FileStepKeeps, RestrictKeeps DEF LNext
<1>3. NoFileWithoutFallback'
  <2> USE DEF LIInv, NoFileWithoutFallback
  <2>1. ASSUME NEW t \in Threads,
               Begin(t) \/ Probe(t) \/ Publish(t) \/ Syscall(t) \/ Restrict(t)
        PROVE  NoFileWithoutFallback'
    BY <2>1 DEF Begin, Probe, Publish, Syscall, Restrict, vars
  <2>2. ASSUME NEW t \in Threads, FileCall(t) \/ FileStep(t)
        PROVE  NoFileWithoutFallback'
    <3>1. at[t] = "file" /\ build' = build
      BY <2>2 DEF FileCall, FileStep, lvars
    <3>2. QED
      BY <3>1 DEF VerdictsFounded
  <2>3. CASE LSeed
    BY <2>3 DEF LSeed, Seed, lvars
  <2>4. CASE UNCHANGED allVars
    BY <2>4 DEF allVars, vars, lvars
  <2>5. QED
    BY <2>1, <2>2, <2>3, <2>4 DEF LNext
<1>4. QED
  BY <1>1, <1>2, <1>3 DEF LIInv

(* The invariant of the composition, for any number of threads.             *)
THEOREM LInvariant == LSpec => []LIInv
BY LInitLIInv, LSafetyStep, PTL DEF LSpec

-----------------------------------------------------------------------------
(* What follows from it.                                                    *)

(* Every variable of the backend and of the file keeps its type.            *)
THEOREM LTypeCorrect == LSpec => []LTypeOK
<1>1. LIInv => LTypeOK
  BY DEF LIInv
<1>2. QED
  BY <1>1, LInvariant, PTL

(* No call of the backend succeeds before the kernel's generator is seeded, *)
(* by the system call or by the file, whatever verdicts the threads cached. *)
THEOREM NoEarlySuccess == LSpec => []OkAfterSeeding
<1>1. LIInv => OkAfterSeeding
  BY DEF LIInv
<1>2. QED
  BY <1>1, LInvariant, PTL

(* The file is used only where a reason for it exists: the build, or a      *)
(* refusal some thread really met.                                          *)
THEOREM FallbackHasReason == LSpec => []FallbackJustified
<1>1. LIInv => FallbackJustified
  BY DEF LIInv, VerdictsFounded, Verdict, FallbackJustified
<1>2. QED
  BY <1>1, LInvariant, PTL

(* A refusal reaches the caller only where some answer kept the system call *)
(* in use: as long as all answers are refusals that init understands, the   *)
(* fallback catches every one.                                              *)
THEOREM FallbackCatches == LSpec => []RefusalIsCaught
<1>1. LIInv => RefusalIsCaught
  BY DEF LIInv, VerdictsFounded, Offered, RefusalIsCaught
<1>2. QED
  BY <1>1, LInvariant, PTL

(* The test build without the fallback opens no file.                       *)
THEOREM FallbackCanBeForbidden == LSpec => []NoFileWithoutFallback
<1>1. LIInv => NoFileWithoutFallback
  BY DEF LIInv
<1>2. QED
  BY <1>1, LInvariant, PTL

(* In the composition UseFile still implements SharedFile: the descriptor   *)
(* that the fallback uses is opened once and shared by all.                 *)
THEOREM FallbackSharesFile == LSpec => SafelyShared
<1>1. LInit => File!Init
  BY DEF LInit, Init, File!Init, File!NoFile, FD_UNINIT, AbstractCall, Opening
<1>2. LIInv /\ LIInv' /\ [LNext]_allVars => [File!Next]_(File!vars)
  BY FileMoves, RefinementStep DEF LIInv
<1>3. QED
  BY <1>1, <1>2, LInvariant, PTL DEF LSpec, SafelyShared

-----------------------------------------------------------------------------
(* LinuxFallback implements LazyCache (its safety part).                    *)

(* The call of one thread changes, and no other.                            *)
LEMMA OneLazyCall ==
    ASSUME NEW t \in Threads,
           \A u \in Threads \ {t} : at'[u] = at[u] /\ fn'[u] = fn[u]
    PROVE  /\ [u \in Threads |-> LazyCall(u)']
                 = [[u \in Threads |-> LazyCall(u)] EXCEPT ![t] = LazyCall(t)']
           /\ [u \in Threads |-> LazyValue(u)']
                 = [[u \in Threads |-> LazyValue(u)] EXCEPT ![t] = LazyValue(t)']
<1>1. \A u \in Threads \ {t} : /\ LazyCall(u)' = LazyCall(u)
                               /\ LazyValue(u)' = LazyValue(u)
  BY DEF LazyCall, LazyValue
<1>2. QED
  BY <1>1

(* A step is seen in the abstraction only where its own thread goes.        *)
LEMMA LazyMoves ==
    ASSUME LTypeOK, NEW t \in Threads,
           \/ Begin(t) \/ Probe(t) \/ Publish(t) \/ Syscall(t)
           \/ FileCall(t) \/ FileStep(t)
    PROVE  \A u \in Threads \ {t} : at'[u] = at[u] /\ fn'[u] = fn[u]
<1> USE DEF LTypeOK
<1>1. CASE Begin(t) \/ Publish(t) \/ Syscall(t)
  BY <1>1 DEF Begin, Publish, Syscall
<1>2. CASE Probe(t)
  BY <1>2 DEF Probe
<1>3. CASE FileCall(t) \/ FileStep(t)
  BY <1>3 DEF FileCall, FileStep, lvars
<1>4. QED
  BY <1>1, <1>2, <1>3

LEMMA LazyRefinementStep ==
    LIInv /\ [LNext]_allVars => [Lazily!Next]_(Lazily!vars)
<1> SUFFICES ASSUME LIInv, [LNext]_allVars PROVE [Lazily!Next]_(Lazily!vars)
  OBVIOUS
<1>0. LTypeOK /\ VerdictsFounded
  BY DEF LIInv
<1>1. CASE UNCHANGED allVars \/ LSeed \/ \E t \in Threads : Restrict(t)
  <2>1. UNCHANGED <<GETRANDOM_FN, at, fn>>
    BY <1>1 DEF allVars, lvars, LSeed, Restrict
  <2>2. QED
    BY <2>1 DEF Lazily!vars, LazyCall, LazyValue
<1>2. ASSUME NEW t \in Threads,
             \/ Begin(t) \/ Probe(t) \/ Publish(t) \/ Syscall(t)
             \/ FileCall(t) \/ FileStep(t)
      PROVE  [Lazily!Next]_(Lazily!vars)
  <2>1. \A u \in Threads \ {t} : at'[u] = at[u] /\ fn'[u] = fn[u]
    BY <1>0, <1>2, LazyMoves
  <2>2. CASE Begin(t)
    <3>1. at[t] = "idle" /\ fn'[t] = GETRANDOM_FN /\ GETRANDOM_FN' = GETRANDOM_FN
      BY <1>0, <2>2 DEF Begin, LTypeOK
    <3>2. CASE GETRANDOM_FN = "null"
      <4>1. at'[t] = "probe"
        BY <1>0, <2>2, <3>2 DEF Begin, LTypeOK
      <4>2. Lazily!Miss(t)
        BY <2>1, <3>1, <3>2, <4>1, OneLazyCall
           DEF Lazily!Miss, Lazily!Become, LazyCall, LazyValue
      <4>3. QED
        BY <4>2 DEF Lazily!Next
    <3>3. CASE GETRANDOM_FN # "null"
      <4>1. at'[t] \in {"syscall", "file"}
        BY <1>0, <2>2, <3>3 DEF Begin, Dispatch, LTypeOK
      <4>2. /\ LazyCall(t) = "idle" /\ LazyCall(t)' = "using"
            /\ LazyValue(t)' = GETRANDOM_FN
        BY <3>1, <4>1 DEF LazyCall, LazyValue
      <4>3. Lazily!Hit(t)
        BY <2>1, <3>1, <3>3, <4>2, OneLazyCall DEF Lazily!Hit, Lazily!Become
      <4>4. QED
        BY <4>3 DEF Lazily!Next
    <3>4. QED
      BY <3>2, <3>3
  <2>3. CASE Probe(t)
    <3>1. /\ at[t] = "probe" /\ at'[t] \in {"idle", "publish"}
          /\ GETRANDOM_FN' = GETRANDOM_FN
      BY <1>0, <2>3 DEF Probe, LTypeOK
    <3>2. CASE at'[t] = "idle"
      <4>1. Lazily!Fail(t)
        BY <2>1, <3>1, <3>2, OneLazyCall
           DEF Lazily!Fail, Lazily!Become, LazyCall, LazyValue
      <4>2. QED
        BY <4>1 DEF Lazily!Next
    <3>3. CASE at'[t] = "publish"
      <4>1. \A u \in Threads : /\ LazyCall(u)' = LazyCall(u)
                               /\ LazyValue(u)' = LazyValue(u)
        BY <2>1, <3>1, <3>3 DEF LazyCall, LazyValue
      <4>2. QED
        BY <3>1, <4>1 DEF Lazily!vars
    <3>4. QED
      BY <3>1, <3>2, <3>3
  <2>4. CASE Publish(t)
    <3>1. /\ at[t] = "publish" /\ GETRANDOM_FN' = fn[t] /\ fn'[t] = fn[t]
          /\ at'[t] \in {"syscall", "file"} /\ fn[t] \in {"fptr", "NOT_AVAILABLE"}
      BY <1>0, <2>4 DEF Publish, Dispatch, LTypeOK, VerdictsFounded
    <3>2. /\ LazyCall(t) = "init" /\ LazyCall(t)' = "using"
          /\ LazyValue(t)' = fn[t]
      BY <3>1 DEF LazyCall, LazyValue
    <3>3. Lazily!Succeed(t)
      BY <2>1, <3>1, <3>2, OneLazyCall DEF Lazily!Succeed, Lazily!Become
    <3>4. QED
      BY <3>3 DEF Lazily!Next
  <2>5. CASE Syscall(t) \/ FileCall(t) \/ FileStep(t)
    <3>1. /\ at[t] \in {"syscall", "file"} /\ at'[t] \in {at[t], "idle"}
          /\ GETRANDOM_FN' = GETRANDOM_FN /\ fn' = fn
      <4>1. CASE Syscall(t)
        BY <1>0, <4>1 DEF Syscall, LTypeOK
      <4>2. CASE FileCall(t)
        BY <4>2 DEF FileCall, lvars
      <4>3. CASE FileStep(t)
        BY <1>0, <4>3 DEF FileStep, LTypeOK
      <4>4. QED
        BY <2>5, <4>1, <4>2, <4>3
    <3>2. CASE at'[t] = "idle"
      <4>1. Lazily!Finish(t)
        BY <2>1, <3>1, <3>2, OneLazyCall
           DEF Lazily!Finish, Lazily!Become, LazyCall, LazyValue
      <4>2. QED
        BY <4>1 DEF Lazily!Next
    <3>3. CASE at'[t] = at[t]
      <4>1. \A u \in Threads : /\ LazyCall(u)' = LazyCall(u)
                               /\ LazyValue(u)' = LazyValue(u)
        BY <2>1, <3>1, <3>3 DEF LazyCall, LazyValue
      <4>2. QED
        BY <3>1, <4>1 DEF Lazily!vars
    <3>4. QED
      BY <3>1, <3>2, <3>3
  <2>6. QED
    BY <1>2, <2>2, <2>3, <2>4, <2>5
<1>3. QED
  BY <1>1, <1>2 DEF LNext

(* The cached pointer is used as LazyCache promises, for any threads, any   *)
(* builds and any policies, installed at any time.                          *)
THEOREM FallbackLazilyCached == LSpec => LazilyCached
<1>1. LInit => Lazily!Init
  BY DEF LInit, Lazily!Init, LazyCall, LazyValue
<1>2. QED
  BY <1>1, LazyRefinementStep, LInvariant, PTL DEF LSpec, LazilyCached

-----------------------------------------------------------------------------
(* Racing verdicts settle.                                                  *)

(* Once there is a verdict nobody begins to look for one, and a store is    *)
(* the end of its thread's own search.                                      *)
LEMMA ReplacementStep == LIInv /\ [LNext]_allVars => [FewerReplacements]_allVars
<1> SUFFICES ASSUME LIInv, [LNext]_allVars, GETRANDOM_FN # "null"
             PROVE  /\ GETRANDOM_FN' # "null"
                    /\ Undecided' \subseteq Undecided
                    /\ GETRANDOM_FN' # GETRANDOM_FN => Undecided' # Undecided
  BY DEF FewerReplacements
<1> USE DEF Undecided
<1>0. at \in [Threads -> {"idle", "probe", "publish", "syscall", "file"}]
  BY DEF LIInv, LTypeOK
<1>1. ASSUME NEW t \in Threads, Publish(t)
      PROVE  /\ GETRANDOM_FN' # "null"
             /\ Undecided' \subseteq Undecided /\ Undecided' # Undecided
  <2>1. at[t] = "publish" /\ fn[t] # "null" /\ GETRANDOM_FN' = fn[t]
    BY <1>1 DEF Publish, LIInv, VerdictsFounded
  <2>2. at' = [at EXCEPT ![t] = Dispatch(fn[t])] /\ Dispatch(fn[t]) \in {"syscall", "file"}
    BY <1>1 DEF Publish, Dispatch
  <2>3. t \in Undecided /\ t \notin Undecided'
    BY <1>0, <2>1, <2>2
  <2>4. QED
    BY <1>0, <2>1, <2>2, <2>3
<1>2. ASSUME NEW t \in Threads, Begin(t) \/ Probe(t) \/ Syscall(t)
      PROVE  GETRANDOM_FN' = GETRANDOM_FN /\ Undecided' \subseteq Undecided
  <2>1. CASE Begin(t)
    BY <1>0, <2>1 DEF Begin, Dispatch
  <2>2. CASE Probe(t)
    BY <1>0, <2>2 DEF Probe
  <2>3. CASE Syscall(t)
    BY <1>0, <2>3 DEF Syscall
  <2>4. QED
    BY <1>2, <2>1, <2>2, <2>3
<1>3. ASSUME NEW t \in Threads, FileCall(t) \/ FileStep(t) \/ Restrict(t)
      PROVE  GETRANDOM_FN' = GETRANDOM_FN /\ Undecided' \subseteq Undecided
  BY <1>0, <1>3 DEF FileCall, FileStep, Restrict, lvars
<1>4. CASE LSeed \/ UNCHANGED allVars
  BY <1>4 DEF LSeed, lvars, allVars
<1>5. QED
  BY <1>1, <1>2, <1>3, <1>4 DEF LNext

(* Racing initialisations replace the cached verdict at most once for each  *)
(* thread that was on its way when the first was stored, so that with       *)
(* finitely many threads CacheSettles follows, without any fairness.        *)
THEOREM VerdictsRunOut == LSpec => [][FewerReplacements]_allVars
<1>1. QED
  BY LInvariant, ReplacementStep, PTL DEF LSpec
=============================================================================
