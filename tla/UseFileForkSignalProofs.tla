----------------------- MODULE UseFileForkSignalProofs ----------------------
(* Proofs about UseFile in a process that forks or handles signals, for any *)
(* set of threads and any assignment of handlers to them.                   *)
EXTENDS UseFileForkSignal, UseFileProofs

-----------------------------------------------------------------------------
(* Every step is one of UseFile, or leaves its state alone.                 *)
LEMMA StepsOfUseFile == [PNext]_pvars => [Next]_vars
BY DEF PNext, pvars, Run, Fork, Next, vars

(* What thread u does in UseFile.                                           *)
Does(u) == Call(u) \/ Step(u) \/ FutexReturns(u) \/ PollFails(u)

(* A step of one thread moves no other, but for waking it.                  *)
LEMMA OthersStay ==
    ASSUME TypeOK, NEW u \in Threads, Does(u), NEW w \in Threads, w # u
    PROVE  pc'[w] = pc[w] \/ (pc[w] = "asleep" /\ pc'[w] = "waited")
<1> USE DEF TypeOK, Goto
<1>1. CASE Wake(u)
  BY <1>1 DEF Wake, Sleepers
<1>2. CASE OpenRandom(u) \/ OpenUrandom(u)
  BY <1>2 DEF OpenRandom, OpenUrandom, OpenReadonly
<1>3. CASE Call(u) \/ Load(u) \/ CasSucceeds(u) \/ CasFails(u)
  BY <1>3 DEF Call, Load, CasSucceeds, CasFails
<1>4. CASE FutexWait(u) \/ Waited(u) \/ Nanosleep(u) \/ FutexReturns(u)
  BY <1>4 DEF FutexWait, Waited, Nanosleep, FutexReturns
<1>5. CASE PollReady(u) \/ PollFails(u) \/ CloseRandom(u) \/ Store(u) \/ Read(u)
  BY <1>5 DEF PollReady, PollFails, CloseRandom, Store, Read
<1>6. QED
  BY <1>1, <1>2, <1>3, <1>4, <1>5 DEF Does, Step

(* While a thread opens the file, FD does not change unless that thread     *)
(* changes it, and a thread that comes, or waits, waits.                    *)
LEMMA OnlyTheOpener ==
    ASSUME IInv, NEW t \in Threads, Opening(t), NEW u \in Threads, u # t, Does(u)
    PROVE  /\ FD' = FD
           /\ pc[u] = "idle" => pc'[u] = "loop"
           /\ pc[u] \in {"loop", "wait", "asleep", "waited"} =>
                 pc'[u] \in {"loop", "wait", "asleep", "waited"}
<1> USE DEF IInv, TypeOK, Goto
<1>1. FD = FD_ONGOING_INIT /\ ~Opening(u)
  BY DEF SingleOpener
<1>2. FD # FD_UNINIT /\ FD \in Sentinels
  BY <1>1 DEF FD_UNINIT, FD_ONGOING_INIT, Sentinels
<1>3. CASE Call(u) \/ Load(u) \/ CasFails(u)
  BY <1>1, <1>2, <1>3 DEF Call, Load, CasFails
<1>4. CASE FutexWait(u) \/ Waited(u) \/ Nanosleep(u) \/ FutexReturns(u)
  BY <1>4 DEF FutexWait, Waited, Nanosleep, FutexReturns
<1>5. CASE Wake(u) \/ Read(u)
  BY <1>5 DEF Wake, Sleepers, Read
<1>6. ~CasSucceeds(u)
  BY <1>2 DEF CasSucceeds
<1>7. ~(OpenRandom(u) \/ OpenUrandom(u))
  BY <1>1 DEF OpenRandom, OpenUrandom, OpenReadonly, Opening
<1>8. ~(PollReady(u) \/ PollFails(u) \/ CloseRandom(u) \/ Store(u))
  BY <1>1 DEF PollReady, PollFails, CloseRandom, Store, Opening
<1>9. QED
  BY <1>3, <1>4, <1>5, <1>6, <1>7, <1>8 DEF Does, Step

-----------------------------------------------------------------------------
(* The inductive invariant.                                                 *)

(* What the assumption says of the handlers that there are.                 *)
LEMMA HandlersAndHosts ==
    ASSUME hosts \in Hosts, NEW h \in DOMAIN hosts
    PROVE  h \in Threads /\ hosts[h] \in Threads /\ hosts[h] \notin DOMAIN hosts
BY HostsAssumption

LEMMA InitPIInv == PInit => PIInv
<1> SUFFICES ASSUME PInit PROVE PIInv
  OBVIOUS
<1>1. HandlersWait
  BY HandlersAndHosts DEF PInit, Init, HandlersWait
<1>2. HandlersSurvive
  BY HandlersAndHosts DEF PInit, HandlersSurvive
<1>3. QED
  BY <1>1, <1>2, InitIInv DEF PInit, PIInv

LEMMA RunKeeps ==
    ASSUME PIInv, NEW u \in Threads, Run(u), NEW h \in DOMAIN hosts,
           Opening(hosts[h])'
    PROVE  pc'[h] \in {"idle", "loop", "wait", "asleep", "waited"}
<1> DEFINE g == hosts[h]
<1>1. h \in Threads /\ g \in Threads /\ g # h /\ hosts' = hosts
  BY HandlersAndHosts DEF PIInv, Run
<1>2. Does(u) /\ IInv /\ TypeOK
  BY DEF Run, Does, PIInv, IInv
<1>3. CASE u = g
  <2>1. pc[h] = "idle"
    BY <1>3 DEF Run, CanRun, Handlers
  <2>2. QED
    BY <1>1, <1>2, <1>3, <2>1, OthersStay
<1>4. CASE u # g
  <2>1. Opening(g)
    BY <1>1, <1>2, <1>4, OthersStay DEF Opening
  <2>2. pc[h] \in {"idle", "loop", "wait", "asleep", "waited"}
    BY <2>1 DEF PIInv, HandlersWait
  <2>3. QED
    BY <1>1, <1>2, <1>4, <2>1, <2>2, OthersStay, OnlyTheOpener
<1>5. QED
  BY <1>3, <1>4

LEMMA PStep == PIInv /\ [PNext]_pvars => PIInv'
<1> SUFFICES ASSUME PIInv, [PNext]_pvars PROVE PIInv'
  OBVIOUS
<1>0. IInv'
  BY StepsOfUseFile, SafetyStep DEF PIInv
<1>1. CASE \E u \in Threads : Run(u)
  <2>1. PICK u \in Threads : Run(u)
    BY <1>1
  <2>2. UNCHANGED <<alive, hosts>>
    BY <2>1 DEF Run
  <2>3. HandlersWait'
    BY <2>1, <2>2, RunKeeps DEF HandlersWait
  <2>4. QED
    BY <1>0, <2>2, <2>3 DEF PIInv, HandlersSurvive
<1>2. CASE \E u \in Threads : Fork(u)
  <2>1. PICK u \in Threads : Fork(u)
    BY <1>2
  <2>2. /\ alive' = {u} \cup Handlers(u) /\ hosts' = hosts /\ pc' = pc
        /\ u \notin DOMAIN hosts
    BY <2>1 DEF Fork, vars
  <2>3. alive' \in SUBSET Threads
    BY <2>2, HandlersAndHosts DEF PIInv, Handlers
  <2>4. HandlersSurvive'
    BY <2>2, HandlersAndHosts DEF PIInv, Handlers, HandlersSurvive
  <2>5. HandlersWait'
    BY <2>2 DEF PIInv, HandlersWait, Opening
  <2>6. QED
    BY <1>0, <2>2, <2>3, <2>4, <2>5 DEF PIInv
<1>3. CASE (Seed /\ UNCHANGED <<alive, hosts>>) \/ UNCHANGED pvars
  <2>1. UNCHANGED <<pc, alive, hosts>>
    BY <1>3 DEF Seed, pvars, vars
  <2>2. QED
    BY <1>0, <2>1 DEF PIInv, HandlersWait, HandlersSurvive, Opening
<1>4. QED
  BY <1>1, <1>2, <1>3 DEF PNext

-----------------------------------------------------------------------------
(* Forks and signal handlers, whenever they come, break nothing that the    *)
(* code promises at any one time: its invariant holds in the child, and     *)
(* handlers find themselves waiting behind the opener they interrupt.       *)
THEOREM ForkSignalInvariant == PSpec => []PIInv
BY InitPIInv, PStep, PTL DEF PSpec

(* Nor do they break the sharing of the one file.                           *)
THEOREM ForkSignalSafelyShared == PSpec => SafelyShared
<1>1. PInit => File!Init
  BY DEF PInit, Init, File!Init, File!NoFile, FD_UNINIT, AbstractCall, Opening
<1>2. PIInv /\ PIInv' /\ [PNext]_pvars => [File!Next]_(File!vars)
  BY StepsOfUseFile, RefinementStep DEF PIInv
<1>3. QED
  BY <1>1, <1>2, ForkSignalInvariant, PTL DEF PSpec, SafelyShared

(* A process loses at most one descriptor to its forks, with the lock.      *)
THEOREM ForksLoseOne == PSpec => []OneOrphanAtMost
<1>1. PInit => NoFdLeak
  BY LeakFreeStart DEF PInit
<1>2. IInv /\ NoFdLeak /\ [PNext]_pvars => NoFdLeak'
  BY StepsOfUseFile, LeakFreeStep
<1>3. PIInv /\ NoFdLeak => OneOrphanAtMost
  <2> SUFFICES ASSUME PIInv, NoFdLeak PROVE OneOrphanAtMost
    OBVIOUS
  <2>1. ASSUME NEW f \in Orphans
        PROVE  \E t \in Threads : Opening(t) /\ fd[t] = f /\ ~CanRun(t)
    <3>1. f \in Fds /\ files[f] # "closed" /\ FD # f /\ ~Held(f)
      BY DEF Orphans
    <3>2. files[f] \in {"random", "urandom"}
      BY <3>1 DEF PIInv, IInv, TypeOK
    <3>3. PICK t \in Threads :
             /\ fd[t] = f
             /\ pc[t] \in {"poll", "close"} \/ (pc[t] = "store" /\ res[t] = "ok")
      BY <3>1, <3>2 DEF NoFdLeak
    <3>4. t \notin alive
      BY <3>1, <3>3 DEF Held
    <3>5. QED
      BY <3>3, <3>4 DEF Opening, CanRun
  <2>2. QED
    BY <2>1 DEF PIInv, IInv, SingleOpener, OneOrphanAtMost, Abandoned
<1>4. QED
  BY <1>1, <1>2, <1>3, ForkSignalInvariant, PTL DEF PSpec, PIInv

(* An initialisation that loses its thread is never finished: FD stays      *)
(* FD_ONGOING_INIT, whatever the survivors or the handlers do.              *)
THEOREM AbandonedForever == PSpec => AbandonmentIsFinal
<1>1. PIInv /\ [PNext]_pvars => [Abandoned => Abandoned' /\ FD' = FD]_pvars
  <2> SUFFICES ASSUME PIInv, PNext, Abandoned PROVE Abandoned' /\ FD' = FD
    BY DEF pvars
  <2>1. PICK t \in Threads : Opening(t) /\ ~CanRun(t)
    BY DEF Abandoned
  <2>2. t \notin alive \/ \E h \in Handlers(t) : pc[h] # "idle"
    BY <2>1 DEF CanRun
  <2>3. ASSUME NEW u \in Threads, Run(u) PROVE Abandoned' /\ FD' = FD
    <3>1. u # t /\ Does(u) /\ IInv /\ TypeOK /\ UNCHANGED <<alive, hosts>>
      BY <2>1, <2>3 DEF Run, Does, PIInv, IInv
    <3>2. FD' = FD
      BY <2>1, <3>1, OnlyTheOpener
    <3>3. Opening(t)'
      BY <2>1, <3>1, OthersStay DEF Opening
    <3>4. \A h \in Handlers(t) : pc[h] # "idle" => pc'[h] # "idle"
      <4> SUFFICES ASSUME NEW h \in Handlers(t), pc[h] # "idle"
                   PROVE  pc'[h] # "idle"
        OBVIOUS
      <4>1. h \in DOMAIN hosts /\ hosts[h] = t /\ h \in Threads
        BY HandlersAndHosts DEF Handlers, PIInv
      <4>2. pc[h] \in {"loop", "wait", "asleep", "waited"}
        BY <2>1, <4>1 DEF PIInv, HandlersWait
      <4>3. QED
        BY <2>1, <3>1, <4>1, <4>2, OthersStay, OnlyTheOpener
    <3>5. Handlers(t)' = Handlers(t)
      BY <3>1 DEF Handlers
    <3>6. ~CanRun(t)'
      BY <2>2, <3>1, <3>4, <3>5 DEF CanRun
    <3>7. QED
      BY <3>2, <3>3, <3>6 DEF Abandoned
  <2>4. ASSUME NEW u \in Threads, Fork(u) PROVE Abandoned' /\ FD' = FD
    <3>1. /\ alive' = {u} \cup Handlers(u) /\ hosts' = hosts
          /\ pc' = pc /\ FD' = FD /\ CanRun(u)
      BY <2>4 DEF Fork, vars
    <3>2. u # t /\ u \in alive
      BY <2>1, <3>1 DEF CanRun
    <3>3. t \notin alive => t \notin alive'
      BY <3>1, <3>2 DEF PIInv, HandlersSurvive, Handlers
    <3>4. ~CanRun(t)'
      BY <2>2, <3>1, <3>3 DEF CanRun, Handlers
    <3>5. QED
      BY <2>1, <3>1, <3>4 DEF Abandoned, Opening
  <2>5. ASSUME Seed, UNCHANGED <<alive, hosts>> PROVE Abandoned' /\ FD' = FD
    BY <2>1, <2>5 DEF Seed, Abandoned, Opening, CanRun, Handlers
  <2>6. QED
    BY <2>3, <2>4, <2>5 DEF PNext
<1>2. QED
  BY <1>1, ForkSignalInvariant, PTL DEF PSpec, AbandonmentIsFinal
=============================================================================
