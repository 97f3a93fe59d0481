---------------------------- MODULE RdrandProofs ----------------------------
(* Proofs about Rdrand, for any set of threads, any choice of CPUs, any     *)
(* number of retries, draws and tolerated collisions.                       *)
EXTENDS Rdrand, TLAPS

-----------------------------------------------------------------------------
(* What is known of the CPU.                                                *)

(* A CPU that is trusted, and one that always gives the same word.          *)
LEMMA TrustedCpu ==
    Trusted => cpu # "dead" /\ (Broken => UncheckedAMD /\ suspended /\ tested)
BY DEF Trusted, UncheckedAMD, Broken

LEMMA StuckWords ==
    ASSUME NEW t \in Threads, Repeats,
           NEW v \in Words(t), NEW w \in Words(t)
    PROVE  v = w
BY DEF Words, Broken, Repeats

(* If a CPU repeats itself after a step, it did before, with the same word. *)
LEMMA StillRepeats ==
    ASSUME UNCHANGED <<cpu, suspended>>, tested => tested', Repeats'
    PROVE  Repeats /\ \A t \in Threads : Words(t)' = Words(t)
BY DEF Repeats, Words, Broken

LEMMA WordTypes == ASSUME NEW t \in Threads PROVE Words(t) \subseteq {"a", "b", "ones"}
BY DEF Words

(* Only a CPU that has RDRAND gets as far as the test, and an old AMD does  *)
(* only if the build does not ask.                                          *)
LEMMA TestedCpu ==
    cpu \in Cpus /\ MayRun /\ Cpuid =>
        cpu \in {"good", "stuck", "ones", "dead"} \/ UncheckedAMD
BY CpusAssumption DEF Cpuid, Kinds, MayRun, UncheckedAMD

(* A dead CPU never succeeds, and only "dead" and "good" may fail.          *)
LEMMA DeadCpu == TRUE \in StepSucceeds => cpu # "dead"
BY DEF StepSucceeds

-----------------------------------------------------------------------------
(* The inductive invariant.                                                 *)

LEMMA InitInvariant == Init => RInv
<1> SUFFICES ASSUME Init PROVE RInv
  OBVIOUS
<1> USE NumbersAssumption, CpusAssumption DEF Init
<1>1. TypeOK
  <2>1. 0 \in 0..(RETRY_LIMIT - 1) /\ 0 \in 0..TestDraws
    OBVIOUS
  <2>2. cpu \in Cpus /\ suspended \in BOOLEAN
    BY Zenon
  <2>4. static \in BOOLEAN /\ tested \in BOOLEAN
    BY Zenon
  <2>3. QED
    BY <2>1, <2>2, <2>4 DEF TypeOK
<1>2. \A t \in Threads : Counted(t)
  BY DEF Counted
<1>3. TrustedIsGood
  BY DEF TrustedIsGood
<1>4. OnlyWhereSupported /\ DeadIsFoundOut /\ MayRun
  BY DEF OnlyWhereSupported, DeadIsFoundOut
<1>5. QED
  BY <1>1, <1>2, <1>3, <1>4 DEF RInv

(* Being told a verdict that may be trusted keeps the invariant.            *)
LEMMA EnterKeeps ==
    ASSUME RInv, NEW t \in Threads, pc[t] \in {"idle", "store"},
           NEW good \in {"TRUE", "FALSE"},
           good = "TRUE" => Trusted,
           Enter(t, good), RDRAND_GOOD' \in {RDRAND_GOOD, good},
           UNCHANGED <<static, cpu, suspended, prev, fails, verdict, tested>>
    PROVE  RInv'
<1> USE NumbersAssumption DEF RInv
<1>0. PICK n \in (IF good = "TRUE" THEN 1..MaxWords ELSE {0}) :
          draws' = [draws EXCEPT ![t] = n]
  BY DEF Enter
<1>1. n \in Nat /\ (good = "TRUE" => n > 0)
  BY <1>0
<1>2. /\ pc' = [pc EXCEPT ![t] = IF good = "TRUE" THEN "fill" ELSE "idle"]
      /\ tainted' = tainted \ {t}
      /\ tries' = [tries EXCEPT ![t] = 0]
      /\ outcome' = [outcome EXCEPT ![t] =
                        IF good = "TRUE" THEN "none" ELSE "NO_RDRAND"]
  BY DEF Enter
<1>3. TypeOK'
  BY <1>0, <1>1, <1>2 DEF TypeOK
<1>4. \A u \in Threads : Counted(u)'
  <2> SUFFICES ASSUME NEW u \in Threads PROVE Counted(u)'
    OBVIOUS
  <2>1. u # t => pc'[u] = pc[u] /\ draws'[u] = draws[u]
    BY <1>0, <1>2 DEF TypeOK
  <2>2. pc'[t] # "test"
    BY <1>2 DEF TypeOK
  <2>3. Repeats' => Repeats /\ Words(u)' = Words(u)
    BY StillRepeats
  <2>4. QED
    BY <2>1, <2>2, <2>3 DEF Counted
<1>5. TrustedIsGood'
  BY <1>2 DEF TrustedIsGood, TypeOK, Trusted, UncheckedAMD
<1>6. OnlyWhereSupported' /\ DeadIsFoundOut' /\ MayRun'
  BY <1>2 DEF OnlyWhereSupported, DeadIsFoundOut, TypeOK, MayRun, Trusted, UncheckedAMD
<1>7. QED
  BY <1>3, <1>4, <1>5, <1>6

LEMMA LoadKeeps == ASSUME RInv, NEW t \in Threads, Load(t) PROVE RInv'
<1>1. CASE RDRAND_GOOD = "UNINIT"
  <2>1. /\ pc' = [pc EXCEPT ![t] = "init"]
        /\ UNCHANGED <<static, cpu, suspended, RDRAND_GOOD, locals, tested>>
    BY <1>1 DEF Load
  <2>2. \A u \in Threads : Counted(u)'
    BY <2>1, StillRepeats DEF RInv, TypeOK, Counted, locals
  <2>3. QED
    BY <2>1, <2>2 DEF RInv, TypeOK, TrustedIsGood, OnlyWhereSupported,
                DeadIsFoundOut, locals, MayRun, Trusted, UncheckedAMD
<1>2. CASE RDRAND_GOOD # "UNINIT"
  <2>1. RDRAND_GOOD \in {"TRUE", "FALSE"} /\ (RDRAND_GOOD = "TRUE" => Trusted)
    BY <1>2 DEF RInv, TypeOK, TrustedIsGood
  <2>2. QED
    BY <1>2, <2>1, EnterKeeps DEF Load
<1>3. QED
  BY <1>1, <1>2

LEMMA StoreKeeps == ASSUME RInv, NEW t \in Threads, Store(t) PROVE RInv'
<1>1. verdict[t] \in {"TRUE", "FALSE"} /\ (verdict[t] = "TRUE" => Trusted)
  BY DEF RInv, TypeOK, TrustedIsGood, Store
<1>2. QED
  BY <1>1, EnterKeeps DEF Store

LEMMA IsRdrandGoodKeeps ==
    ASSUME RInv, NEW t \in Threads, IsRdrandGood(t) PROVE RInv'
<1> USE NumbersAssumption DEF RInv
<1>1. CASE Cpuid
  <2>1. cpu \in {"good", "stuck", "ones", "dead"} \/ UncheckedAMD
    BY <1>1, TestedCpu DEF TypeOK
  <2>2. /\ pc' = [pc EXCEPT ![t] = "test"]
        /\ draws' = [draws EXCEPT ![t] = TestDraws]
        /\ tries' = [tries EXCEPT ![t] = 0]
        /\ prev' = [prev EXCEPT ![t] = "ones"]
        /\ fails' = [fails EXCEPT ![t] = 0]
        /\ UNCHANGED <<verdict, static, cpu, suspended, RDRAND_GOOD, outcome,
                       tainted>>
    BY <1>1 DEF IsRdrandGood
  <2>3. tested' = (tested \/ ~suspended)
    BY <1>1 DEF IsRdrandGood
  <2>4. TypeOK'
    BY <2>2, <2>3 DEF TypeOK
  <2>5. ASSUME NEW u \in Threads PROVE Counted(u)'
    <3>1. CASE u = t
      BY <2>2, <3>1 DEF Counted, TypeOK
    <3>2. CASE u # t
      <4>1. /\ pc'[u] = pc[u] /\ draws'[u] = draws[u]
            /\ fails'[u] = fails[u] /\ prev'[u] = prev[u]
        BY <2>2, <3>2 DEF TypeOK
      <4>2. Repeats' => Repeats /\ Words(u)' = Words(u)
        BY <2>2, <2>3, StillRepeats
      <4>3. QED
        BY <4>1, <4>2 DEF Counted
    <3>3. QED
      BY <3>1, <3>2
  <2>6. TrustedIsGood'
    BY <2>1, <2>2, <2>3 DEF TrustedIsGood, TypeOK, Trusted, UncheckedAMD
  <2>7. OnlyWhereSupported' /\ DeadIsFoundOut' /\ MayRun'
    BY <2>1, <2>2 DEF OnlyWhereSupported, DeadIsFoundOut, TypeOK, MayRun,
                      UncheckedAMD
  <2>8. QED
    BY <2>4, <2>5, <2>6, <2>7
<1>2. CASE ~Cpuid
  <2>1. /\ pc' = [pc EXCEPT ![t] = "store"]
        /\ verdict' = [verdict EXCEPT ![t] = "FALSE"]
        /\ UNCHANGED <<draws, tries, prev, fails, static, cpu, suspended,
                       RDRAND_GOOD, outcome, tainted, tested>>
    BY <1>2 DEF IsRdrandGood
  <2>2. \A u \in Threads : Counted(u)'
    BY <2>1, StillRepeats DEF TypeOK, Counted
  <2>3. QED
    BY <2>1, <2>2 DEF TypeOK, TrustedIsGood, OnlyWhereSupported,
                      DeadIsFoundOut, MayRun, Trusted, UncheckedAMD
<1>3. QED
  BY <1>1, <1>2

(* The self test: a CPU that always gives the same word collides every time *)
(* but the first, so when the draws are used up it has collided too often.  *)
LEMMA TestStepKeeps == ASSUME RInv, NEW t \in Threads, TestStep(t) PROVE RInv'
<1> USE NumbersAssumption DEF RInv
<1>0. PICK word \in Words(t) :
         /\ prev' = [prev EXCEPT ![t] = word]
         /\ fails' = [fails EXCEPT ![t] = @ + Collides(t, word)]
  BY DEF TestStep
<1>1. /\ pc[t] = "test" /\ draws[t] \in Nat /\ draws[t] > 0
      /\ fails[t] \in Nat /\ Collides(t, word) \in {0, 1}
      /\ word \in {"a", "b", "ones"}
  BY WordTypes DEF TestStep, TypeOK, Collides
<1>2. /\ draws' = [draws EXCEPT ![t] = draws[t] - 1]
      /\ tries' = [tries EXCEPT ![t] = 0]
      /\ fails' = [fails EXCEPT ![t] = fails[t] + Collides(t, word)]
      /\ UNCHANGED <<static, cpu, suspended, RDRAND_GOOD, outcome, tainted,
                     tested>>
  BY <1>0 DEF TestStep
<1>3. fails'[t] = fails[t] + Collides(t, word) /\ draws'[t] = draws[t] - 1
  BY <1>2 DEF TypeOK
<1>4. fails[t] + draws[t] <= TestDraws
  BY <1>1 DEF Counted
<1>5. Repeats => fails'[t] + draws'[t] + 1 >= TestDraws
  <2> SUFFICES ASSUME Repeats
               PROVE  fails'[t] + draws'[t] + 1 >= TestDraws
    OBVIOUS
  <2>1. fails[t] + draws[t] + 1 >= TestDraws
    BY <1>1 DEF Counted
  <2>2. CASE draws[t] < TestDraws
    <3>1. prev[t] = word
      BY <1>1, <2>2, StuckWords DEF Counted
    <3>2. Collides(t, word) = 1
      BY <3>1 DEF Collides
    <3>3. QED
      BY <1>1, <1>3, <2>1, <3>2
  <2>3. CASE ~(draws[t] < TestDraws)
    BY <1>1, <1>3, <2>3
  <2>4. QED
    BY <2>2, <2>3
<1>6. Words(t) \in SUBSET {"a", "b", "ones"}
  BY WordTypes
<1>7. Repeats' => Repeats /\ word \in Words(t)'
  BY <1>2, StillRepeats
<1>8. fails' \in [Threads -> 0..TestDraws]
  <2>1. fails[t] + Collides(t, word) \in 0..TestDraws
    BY <1>1, <1>4
  <2>2. QED
    BY <1>2, <2>1 DEF TypeOK
<1>9. \A u \in Threads \ {t} :
         /\ fails'[u] = fails[u] /\ draws'[u] = draws[u] /\ prev'[u] = prev[u]
         /\ tries'[u] = tries[u] /\ pc'[u] = pc[u] /\ verdict'[u] = verdict[u]
         /\ Repeats' => Words(u)' = Words(u)
  <2>1. \A u \in Threads \ {t} :
         /\ fails'[u] = fails[u] /\ draws'[u] = draws[u] /\ prev'[u] = prev[u]
         /\ tries'[u] = tries[u] /\ pc'[u] = pc[u] /\ verdict'[u] = verdict[u]
    BY <1>0, <1>2 DEF TestStep, TypeOK
  <2>2. QED
    BY <1>2, <2>1, StillRepeats
<1>10. CASE draws[t] = 1
  <2>1. /\ pc' = [pc EXCEPT ![t] = "store"]
        /\ verdict' = [verdict EXCEPT ![t] =
                          IF fails'[t] <= TestFails THEN "TRUE" ELSE "FALSE"]
    BY <1>10 DEF TestStep
  <2>2. Repeats => ~(fails'[t] <= TestFails)
    BY <1>1, <1>3, <1>5, <1>10
  <2>3. Repeats \/ Trusted
    BY <1>1, DeadCpu DEF TestStep, TrustedIsGood, Trusted, Repeats, UncheckedAMD,
                         TypeOK
  <2>9. Trusted' = Trusted /\ UncheckedAMD' = UncheckedAMD
    BY <1>2 DEF Trusted, UncheckedAMD
  <2>4. TypeOK'
    BY <1>0, <1>1, <1>2, <1>8, <2>1 DEF TypeOK
  <2>5. \A u \in Threads : Counted(u)'
    BY <1>2, <1>7, <1>9, <2>1 DEF Counted, TypeOK
  <2>6. TrustedIsGood'
    BY <1>2, <1>9, <2>1, <2>2, <2>3, <2>9 DEF TrustedIsGood, TypeOK
  <2>7. OnlyWhereSupported' /\ DeadIsFoundOut' /\ MayRun'
    BY <1>2, <2>1 DEF OnlyWhereSupported, DeadIsFoundOut, TypeOK, MayRun
  <2>8. QED
    BY <2>4, <2>5, <2>6, <2>7
<1>11. CASE draws[t] # 1
  <2>1. UNCHANGED <<pc, verdict>>
    BY <1>11 DEF TestStep
  <2>2. draws' \in [Threads -> Nat] /\ draws'[t] > 0
    BY <1>1, <1>2, <1>11 DEF TypeOK
  <2>3. TypeOK'
    BY <1>0, <1>1, <1>2, <1>8, <1>9, <2>1, <2>2 DEF TypeOK
  <2>4. Counted(t)'
    <3>1. fails'[t] + draws'[t] <= TestDraws
      BY <1>1, <1>3, <1>4
    <3>2. prev'[t] = word
      BY <1>0 DEF TypeOK
    <3>3. QED
      BY <1>2, <1>5, <1>7, <3>1, <3>2 DEF Counted
  <2>5. \A u \in Threads : Counted(u)'
    BY <1>2, <1>7, <1>9, <2>4 DEF Counted
  <2>6. TrustedIsGood' /\ OnlyWhereSupported' /\ DeadIsFoundOut' /\ MayRun'
    BY <1>2, <2>1 DEF TrustedIsGood, OnlyWhereSupported, DeadIsFoundOut, MayRun,
                      Trusted, UncheckedAMD
  <2>7. QED
    BY <2>3, <2>5, <2>6
<1>12. QED
  BY <1>10, <1>11

LEMMA FillStepKeeps == ASSUME RInv, NEW t \in Threads, FillStep(t) PROVE RInv'
<1> USE NumbersAssumption DEF RInv
<1>1. /\ pc[t] = "fill" /\ Trusted
      /\ Broken => UncheckedAMD /\ suspended /\ tested
  BY TrustedCpu DEF FillStep, TrustedIsGood
<1>2. /\ draws' = [draws EXCEPT ![t] = draws[t] - 1]
      /\ tries' = [tries EXCEPT ![t] = 0]
      /\ tainted' = IF Broken THEN tainted \cup {t} ELSE tainted
      /\ UNCHANGED <<static, cpu, suspended, RDRAND_GOOD, prev, fails, verdict,
                     tested>>
  BY <1>1 DEF FillStep
<1>3. \/ /\ draws[t] = 1 /\ pc' = [pc EXCEPT ![t] = "idle"]
         /\ outcome' = [outcome EXCEPT ![t] = "ok"]
      \/ draws[t] # 1 /\ UNCHANGED <<pc, outcome>>
  BY DEF FillStep
<1>4. draws[t] \in Nat /\ draws[t] > 0 /\ draws' \in [Threads -> Nat]
  BY <1>1, <1>2 DEF TypeOK
<1>5. TypeOK'
  BY <1>2, <1>3, <1>4 DEF TypeOK
<1>6. \A u \in Threads : Counted(u)'
  <2> SUFFICES ASSUME NEW u \in Threads, pc'[u] = "test" PROVE Counted(u)'
    BY DEF Counted
  <2>1. u # t /\ pc[u] = "test"
    BY <1>1, <1>3 DEF TypeOK
  <2>2. draws'[u] = draws[u]
    BY <1>2, <2>1 DEF TypeOK
  <2>3. Repeats' => Repeats /\ Words(u)' = Words(u)
    BY <1>2, StillRepeats
  <2>4. QED
    BY <1>2, <2>1, <2>2, <2>3 DEF Counted
<1>7. TrustedIsGood'
  BY <1>1, <1>2, <1>3 DEF TrustedIsGood, TypeOK, Trusted, UncheckedAMD
<1>8. OnlyWhereSupported' /\ DeadIsFoundOut' /\ MayRun'
  BY <1>2, <1>3 DEF OnlyWhereSupported, DeadIsFoundOut, TypeOK, MayRun
<1>9. QED
  BY <1>5, <1>6, <1>7, <1>8

LEMMA StepFailsKeeps == ASSUME RInv, NEW t \in Threads, StepFails(t) PROVE RInv'
<1> USE NumbersAssumption DEF RInv
<1>1. /\ pc[t] \in {"test", "fill"}
      /\ UNCHANGED <<static, cpu, suspended, RDRAND_GOOD, draws, prev, fails,
                     tainted, tested>>
  BY DEF StepFails
<1>2. PICK n \in 0..(RETRY_LIMIT - 1) : tries' = [tries EXCEPT ![t] = n]
  <2>1. tries[t] \in 0..(RETRY_LIMIT - 1)
    BY DEF TypeOK
  <2>2. CASE Again(CountRetry(tries[t]))
    BY <2>1, <2>2 DEF StepFails, Again, CountRetry
  <2>3. CASE ~Again(CountRetry(tries[t]))
    BY <2>1, <2>3 DEF StepFails
  <2>4. QED
    BY <2>2, <2>3
<1>3. \/ UNCHANGED <<pc, verdict, outcome>>
      \/ /\ pc[t] = "test" /\ pc' = [pc EXCEPT ![t] = "store"]
         /\ verdict' = [verdict EXCEPT ![t] = "FALSE"]
         /\ UNCHANGED outcome
      \/ /\ pc[t] = "fill" /\ pc' = [pc EXCEPT ![t] = "idle"]
         /\ outcome' = [outcome EXCEPT ![t] = "FAILED_RDRAND"]
         /\ UNCHANGED verdict
  BY <1>1 DEF StepFails, NoneVerdict
<1>4. TypeOK'
  BY <1>1, <1>2, <1>3 DEF TypeOK
<1>5. \A u \in Threads : Counted(u)'
  <2> SUFFICES ASSUME NEW u \in Threads, pc'[u] = "test" PROVE Counted(u)'
    BY DEF Counted
  <2>1. pc[u] = "test"
    BY <1>3 DEF TypeOK
  <2>2. Repeats' => Repeats /\ Words(u)' = Words(u)
    BY <1>1, StillRepeats
  <2>3. QED
    BY <1>1, <2>1, <2>2 DEF Counted
<1>6. TrustedIsGood' /\ OnlyWhereSupported' /\ DeadIsFoundOut' /\ MayRun'
  BY <1>1, <1>3 DEF TrustedIsGood, OnlyWhereSupported, DeadIsFoundOut, TypeOK,
                    MayRun, Trusted, UncheckedAMD
<1>7. QED
  BY <1>4, <1>5, <1>6

LEMMA SuspendKeeps == ASSUME RInv, Suspend PROVE RInv'
<1> USE DEF RInv, Suspend, locals
<1>1. TypeOK'
  BY DEF TypeOK
<1>2. \A u \in Threads : Counted(u)'
  <2> SUFFICES ASSUME NEW u \in Threads, pc[u] = "test", Repeats' PROVE Counted(u)'
    BY DEF Counted
  <2>1. tested
    BY DEF TrustedIsGood
  <2>2. cpu \in {"stuck", "ones"}
    BY <2>1 DEF Repeats
  <2>3. Repeats /\ Words(u)' = Words(u)
    BY <2>2 DEF Repeats, Words, Broken
  <2>4. QED
    BY <2>3 DEF Counted
<1>3. TrustedIsGood'
  BY DEF TrustedIsGood, Trusted, UncheckedAMD
<1>4. OnlyWhereSupported' /\ DeadIsFoundOut' /\ MayRun'
  BY DEF OnlyWhereSupported, DeadIsFoundOut, MayRun
<1>5. QED
  BY <1>1, <1>2, <1>3, <1>4

LEMMA StutterKeeps == ASSUME RInv, UNCHANGED vars PROVE RInv'
<1> USE DEF RInv, vars, locals
<1>1. \A u \in Threads : Counted(u)'
  BY StillRepeats DEF Counted
<1>2. QED
  BY <1>1 DEF TypeOK, TrustedIsGood, OnlyWhereSupported, DeadIsFoundOut, MayRun,
              Trusted, UncheckedAMD

-----------------------------------------------------------------------------
(* No step, of any thread or of the machine, breaks what RInv says: what is *)
(* trusted is a good CPU, or in a +rdrand build one that was good when it   *)
(* was tested, and the self test counts what it must.  The machine may have *)
(* been suspended at any time, and a +rdrand build may run on any CPU that  *)
(* has the instruction.                                                     *)
THEOREM Invariant == Spec => []RInv
<1>1. RInv /\ [Next]_vars => RInv'
  BY LoadKeeps, StoreKeeps, IsRdrandGoodKeeps, TestStepKeeps, FillStepKeeps,
     StepFailsKeeps, SuspendKeeps, StutterKeeps DEF Next, Step
<1>2. QED
  BY InitInvariant, <1>1, PTL DEF Spec

(* No call that succeeds has taken a word of a CPU that repeats itself,     *)
(* however many threads test it, and whenever the machine is suspended, but *)
(* in a +rdrand build on an old AMD that is suspended after its test.       *)
THEOREM OnlyGoodWords == Spec => []NoBrokenWords
<1>1. RInv => NoBrokenWords
  BY DEF RInv, TrustedIsGood, NoBrokenWords
<1>2. QED
  BY Invariant, <1>1, PTL

(* RDRAND is never executed on a CPU that does not have it.                 *)
THEOREM ExecutedWhereSupported == Spec => []OnlyWhereSupported
<1>1. RInv => OnlyWhereSupported
  BY DEF RInv
<1>2. QED
  BY Invariant, <1>1, PTL

(* A CPU whose RDRAND always fails is never drawn from.                     *)
THEOREM DeadNeverDrawn == Spec => []DeadIsFoundOut
<1>1. RInv => DeadIsFoundOut
  BY DEF RInv
<1>2. QED
  BY Invariant, <1>1, PTL

-----------------------------------------------------------------------------
(* Every call ends: what can be said of it without fairness.                *)

(* What a step of one thread does to the calls of the others, and what a    *)
(* Load or a Suspend does to calls on their way.                            *)
LEMMA OthersUntouched ==
    ASSUME TypeOK, NEW t \in Threads, pc[t] # "idle", ~Step(t), [Next]_vars
    PROVE  UNCHANGED <<pc[t], draws[t], tries[t]>>
<1>1. ASSUME NEW u \in Threads, Load(u) \/ Step(u)
      PROVE  UNCHANGED <<pc[t], draws[t], tries[t]>>
  <2>1. u # t
    BY <1>1 DEF Load
  <2>2. CASE Load(u) \/ Store(u)
    BY <2>1, <2>2 DEF Load, Store, Enter, locals, TypeOK
  <2>3. CASE IsRdrandGood(u)
    BY <2>1, <2>3 DEF IsRdrandGood, TypeOK
  <2>4. CASE TestStep(u) \/ FillStep(u)
    BY <2>1, <2>4 DEF TestStep, FillStep, TypeOK
  <2>5. CASE StepFails(u)
    BY <2>1, <2>5 DEF StepFails, TypeOK
  <2>6. QED
    BY <1>1, <2>2, <2>3, <2>4, <2>5 DEF Step
<1>2. CASE Suspend \/ UNCHANGED vars
  BY <1>2 DEF Suspend, vars, locals
<1>3. QED
  BY <1>1, <1>2 DEF Next

(* A draw, in the test or for the caller, that leaves others to be made.    *)
LEMMA DrawCounts ==
    ASSUME TypeOK, NEW t \in Threads, TestStep(t) \/ FillStep(t)
    PROVE  Nearer(t)
<1>1. draws[t] \in Nat \ {0} /\ draws'[t] = draws[t] - 1
  <2>1. draws[t] \in Nat /\ draws[t] > 0
    BY DEF TestStep, FillStep, TypeOK
  <2>2. draws'[t] = draws[t] - 1
    BY DEF TestStep, FillStep, TypeOK
  <2>3. QED
    BY <2>1, <2>2
<1>2. CASE TestStep(t)
  <2>1. pc[t] = "test" /\ (pc'[t] = "store" \/ pc'[t] = "test")
    BY <1>2 DEF TestStep, TypeOK
  <2>2. QED
    BY <1>1, <2>1 DEF Nearer, Way
<1>3. CASE FillStep(t)
  <2>1. pc[t] = "fill" /\ (pc'[t] = "idle" \/ pc'[t] = "fill")
    BY <1>3 DEF FillStep, TypeOK
  <2>2. QED
    BY <1>1, <2>1 DEF Nearer, Way
<1>4. QED
  BY <1>2, <1>3

(* A failure: one less is allowed, or the loop is left.                     *)
LEMMA FailureCounts ==
    ASSUME TypeOK, NEW t \in Threads, StepFails(t) PROVE Nearer(t)
<1> USE NumbersAssumption
<1>1. tries[t] \in 0..(RETRY_LIMIT - 1) /\ draws'[t] = draws[t]
  BY DEF StepFails, TypeOK
<1>2. CASE Again(CountRetry(tries[t]))
  <2>1. pc' = pc /\ tries'[t] = tries[t] + 1
    BY <1>2 DEF StepFails, CountRetry, TypeOK
  <2>2. Way(t)' = Way(t)
    BY <2>1 DEF Way
  <2>3. Allowed(t)' \in 0..(Allowed(t) - 1)
    BY <1>1, <1>2, <2>1 DEF Allowed, Again, CountRetry
  <2>4. QED
    BY <1>1, <2>2, <2>3 DEF Nearer
<1>3. CASE ~Again(CountRetry(tries[t]))
  <2>1. \/ pc[t] = "test" /\ pc'[t] = "store"
        \/ pc[t] = "fill" /\ pc'[t] = "idle"
    BY <1>3 DEF StepFails, TypeOK
  <2>2. QED
    BY <2>1 DEF Nearer, Way
<1>4. QED
  BY <1>2, <1>3

LEMMA StepCounts == ASSUME TypeOK, NEW t \in Threads, Step(t) PROVE Nearer(t)
<1>1. CASE IsRdrandGood(t)
  <2>1. pc[t] = "init" /\ pc'[t] \in {"test", "store"}
    BY <1>1 DEF IsRdrandGood, TypeOK
  <2>2. QED
    BY <2>1 DEF Nearer, Way
<1>2. CASE Store(t)
  <2>1. pc[t] = "store" /\ pc'[t] \in {"fill", "idle"}
    BY <1>2 DEF Store, Enter, TypeOK
  <2>2. QED
    BY <2>1 DEF Nearer, Way
<1>3. QED
  BY <1>1, <1>2, DrawCounts, FailureCounts DEF Step

(* However the CPU fails, every step of a call makes a bounded number of    *)
(* further ones: the loops of self_test, of rdrand and of rdrand_exact end, *)
(* for any RETRY_LIMIT and any buffer.                                      *)
THEOREM CallsGetNearer == Spec => [][EachStepCounts]_vars
<1>1. TypeOK /\ [Next]_vars => [EachStepCounts]_vars
  <2> SUFFICES ASSUME TypeOK, [Next]_vars, NEW t \in Threads
               PROVE  /\ Step(t) => Nearer(t)
                      /\ pc[t] # "idle" /\ ~Step(t) =>
                            UNCHANGED <<Way(t), draws[t], Allowed(t)>>
    BY DEF EachStepCounts
  <2>1. Step(t) => Nearer(t)
    BY StepCounts
  <2>2. pc[t] # "idle" /\ ~Step(t) => UNCHANGED <<Way(t), draws[t], Allowed(t)>>
    BY OthersUntouched DEF Way, Allowed
  <2>3. QED
    BY <2>1, <2>2
<1>2. RInv => TypeOK
  BY DEF RInv
<1>3. QED
  BY Invariant, <1>1, <1>2, PTL DEF Spec
=============================================================================
