------------------------ MODULE SelectedBackendProofs -----------------------
(* Proofs about SelectedBackend: about the caches of efi_rng.rs, netbsd.rs  *)
(* and vxworks.rs, for any number of threads, handles and any capacity;     *)
(* about the choice of a backend, for any targets; and about the program    *)
(* that is configured, built and run.                                       *)
EXTENDS SelectedBackend, SequenceTheorems, WellFoundedInduction, TLAPS

-----------------------------------------------------------------------------
(* EfiRng: the inductive invariant.                                         *)

LEMMA InitEInv == Init => EInv
<1> SUFFICES ASSUME Init PROVE EInv
  OBVIOUS
<1> USE NumbersAssumption DEF Init, NULL, Handles
<1>1. TypeOK
  <2>1. 0 \in 0..Capacity /\ 1 \in 1..(Capacity + 1)
    OBVIOUS
  <2>2. booted \in BOOLEAN
    BY Zenon
  <2>3. QED
    BY <2>1, <2>2 DEF TypeOK
<1>2. \A t \in Threads : Position(t)
  BY DEF Position
<1>3. OnlyAnswering /\ NoneMissed
  BY DEF OnlyAnswering, NoneMissed
<1>4. QED
  BY <1>1, <1>2, <1>3 DEF EInv

(* Steps that leave the cache and the search of every thread alone, but for *)
(* one, which leaves the search or begins it.                               *)
LEMMA Outside ==
    ASSUME EInv, NEW t \in Threads,
           NEW p \in {"idle", "boot", "locate", "fill"}, pc' = [pc EXCEPT ![t] = p],
           NEW o \in {"none", "ok", "firmware", "UNEXPECTED",
                      "BOOT_SERVICES_UNAVAILABLE"},
           outcome' = [outcome EXCEPT ![t] = o],
           p # "idle" => o = "none",
           NEW v \in Handles \cup {NULL}, protocol' = [protocol EXCEPT ![t] = v],
           p = "fill" => v \in answered,
           booted' = booted, RNG_PROTOCOL' \in {RNG_PROTOCOL, v},
           RNG_PROTOCOL' # RNG_PROTOCOL => p = "fill",
           UNCHANGED <<count, next, answered, refused>>
    PROVE  EInv'
<1> USE DEF EInv
<1>1. TypeOK'
  BY DEF TypeOK
<1>2. \A u \in Threads : Position(u)'
  <2> SUFFICES ASSUME NEW u \in Threads PROVE Position(u)'
    OBVIOUS
  <2>1. CASE u = t
    BY <2>1 DEF Position, TypeOK
  <2>2. CASE u # t
    BY <2>2 DEF Position, TypeOK
  <2>3. QED
    BY <2>1, <2>2
<1>3. OnlyAnswering'
  BY DEF OnlyAnswering, TypeOK
<1>4. NoneMissed'
  BY DEF NoneMissed, TypeOK
<1>5. QED
  BY <1>1, <1>2, <1>3, <1>4

LEMMA LoadKeeps == ASSUME EInv, NEW t \in Threads, Load(t) PROVE EInv'
<1>1. RNG_PROTOCOL \in Handles \cup {NULL} /\ (RNG_PROTOCOL # NULL => RNG_PROTOCOL \in answered)
  BY DEF EInv, TypeOK, OnlyAnswering
<1>2. CASE RNG_PROTOCOL = NULL
  BY <1>1, <1>2, Outside DEF Load, Goto
<1>3. CASE RNG_PROTOCOL # NULL
  BY <1>1, <1>3, Outside DEF Load, Goto
<1>4. QED
  BY <1>2, <1>3

(* A return, or the next place, with the locals of the search untouched.    *)
LEMMA LeaveKeeps ==
    ASSUME EInv, NEW t \in Threads,
           FindBootServices(t) \/ LocateFails(t) \/ OpenNull(t) \/ Fill(t)
    PROVE  EInv'
<1>0. protocol[t] \in Handles \cup {NULL} /\ protocol = [protocol EXCEPT ![t] = protocol[t]]
      /\ outcome[t] \in {"none", "ok", "firmware", "UNEXPECTED",
                         "BOOT_SERVICES_UNAVAILABLE", "NO_RNG_HANDLE"}
      /\ outcome = [outcome EXCEPT ![t] = outcome[t]]
  BY DEF EInv, TypeOK
<1>1. CASE FindBootServices(t)
  <2>1. outcome[t] = "none"
    BY <1>1 DEF FindBootServices, EInv, Position
  <2>2. CASE BootServices
    BY <1>0, <1>1, <2>1, <2>2, Outside DEF FindBootServices, Goto
  <2>3. CASE ~BootServices
    BY <1>0, <1>1, <2>3, Outside DEF FindBootServices, Goto, Return
  <2>4. QED
    BY <2>2, <2>3
<1>2. CASE LocateFails(t)
  BY <1>0, <1>2, Outside DEF LocateFails, Goto, Return
<1>3. CASE OpenNull(t)
  BY <1>0, <1>3, Outside DEF OpenNull, Goto, Return
<1>4. CASE Fill(t)
  BY <1>0, <1>4, Outside DEF Fill, Goto, Return
<1>5. QED
  BY <1>1, <1>2, <1>3, <1>4

LEMMA StoreKeeps == ASSUME EInv, NEW t \in Threads, Store(t) PROVE EInv'
<1>1. /\ protocol[t] \in Handles \cup {NULL}
      /\ protocol = [protocol EXCEPT ![t] = protocol[t]]
      /\ outcome = [outcome EXCEPT ![t] = "none"]
      /\ protocol[t] \in answered
  BY DEF EInv, TypeOK, OnlyAnswering, Position, Store
<1>2. QED
  BY <1>1, Outside DEF Store, Goto, locals

(* A search that begins, with room for all handles or without.              *)
LEMMA LocateKeeps == ASSUME EInv, NEW t \in Threads, Locate(t) PROVE EInv'
<1> USE NumbersAssumption
<1>1. PICK n \in 0..MaxHandles :
          IF n > Capacity
          THEN Return(t, "UNEXPECTED") /\ UNCHANGED <<count, next, refused>>
          ELSE /\ count' = [count EXCEPT ![t] = n]
               /\ next' = [next EXCEPT ![t] = 1]
               /\ refused' = [refused EXCEPT ![t] = {}]
               /\ IF n > 0 THEN Goto(t, "open") /\ UNCHANGED outcome
                  ELSE Return(t, "NO_RNG_HANDLE")
  BY DEF Locate
<1>2. CASE n > Capacity
  <2>1. protocol[t] \in Handles \cup {NULL} /\ protocol = [protocol EXCEPT ![t] = protocol[t]]
    BY DEF EInv, TypeOK
  <2>2. QED
    BY <1>1, <1>2, <2>1, Outside DEF Locate, Goto, Return
<1>3. CASE ~(n > Capacity)
  <2> USE DEF EInv
  <2>1. /\ count' = [count EXCEPT ![t] = n]
        /\ next' = [next EXCEPT ![t] = 1]
        /\ refused' = [refused EXCEPT ![t] = {}]
        /\ UNCHANGED <<booted, RNG_PROTOCOL, protocol, answered>>
        /\ \/ n > 0 /\ pc' = [pc EXCEPT ![t] = "open"] /\ outcome' = outcome
           \/ /\ n = 0 /\ pc' = [pc EXCEPT ![t] = "idle"]
              /\ outcome' = [outcome EXCEPT ![t] = "NO_RNG_HANDLE"]
    BY <1>1, <1>3 DEF Locate, Goto, Return
  <2>2. n \in 0..Capacity /\ 1 \in 1..(Capacity + 1) /\ n <= MaxHandles
    BY <1>3
  <2>3. outcome[t] = "none" /\ pc[t] = "locate"
    BY DEF Locate, Position
  <2>4. TypeOK'
    BY <2>1, <2>2 DEF TypeOK
  <2>5. \A u \in Threads : Position(u)'
    <3> SUFFICES ASSUME NEW u \in Threads PROVE Position(u)'
      OBVIOUS
    <3>1. CASE u = t
      <4>1. count'[t] = n /\ next'[t] = 1 /\ refused'[t] = 1..(1 - 1)
        BY <2>1 DEF TypeOK
      <4>2. pc'[t] # "probe" /\ (pc'[t] # "idle" => n > 0 /\ outcome'[t] = "none")
        BY <2>1, <2>3 DEF TypeOK
      <4>3. QED
        BY <2>2, <3>1, <4>1, <4>2 DEF Position
    <3>2. CASE u # t
      BY <2>1, <3>2 DEF Position, TypeOK
    <3>3. QED
      BY <3>1, <3>2
  <2>6. OnlyAnswering'
    BY <2>1 DEF OnlyAnswering, TypeOK
  <2>7. NoneMissed'
    <3> SUFFICES ASSUME NEW u \in Threads, outcome'[u] = "NO_RNG_HANDLE"
                 PROVE  refused'[u] = 1..count'[u]
      BY DEF NoneMissed
    <3>1. CASE u = t
      BY <2>1, <2>3, <3>1 DEF TypeOK
    <3>2. CASE u # t
      BY <2>1, <3>2 DEF NoneMissed, TypeOK
    <3>3. QED
      BY <3>1, <3>2
  <2>8. QED
    BY <2>4, <2>5, <2>6, <2>7
<1>4. QED
  BY <1>2, <1>3

(* A handle is given up: the next, or NO_RNG_HANDLE after the last.         *)
LEMMA RefuseKeeps == ASSUME EInv, NEW t \in Threads, Refuse(t) PROVE EInv'
<1> USE NumbersAssumption DEF EInv
<1> DEFINE i == next[t]
<1>1. /\ i \in 1..(Capacity + 1) /\ count[t] \in 0..Capacity
      /\ i <= count[t] /\ count[t] <= MaxHandles
      /\ refused[t] = 1..(i - 1) /\ outcome[t] = "none"
  BY DEF Refuse, TypeOK, Position
<1>2. /\ next' = [next EXCEPT ![t] = i + 1]
      /\ refused' = [refused EXCEPT ![t] = refused[t] \cup {i}]
      /\ UNCHANGED <<booted, RNG_PROTOCOL, count, protocol, answered>>
      /\ \/ i < count[t] /\ pc' = [pc EXCEPT ![t] = "open"] /\ outcome' = outcome
         \/ /\ ~(i < count[t]) /\ pc' = [pc EXCEPT ![t] = "idle"]
            /\ outcome' = [outcome EXCEPT ![t] = "NO_RNG_HANDLE"]
  BY DEF Refuse, Advance, AfterHandle, NextHandle, Goto, Return
<1>3. refused'[t] = 1..i /\ next'[t] = i + 1 /\ count'[t] = count[t]
  BY <1>1, <1>2 DEF TypeOK
<1>4. TypeOK'
  <2>1. i + 1 \in 1..(Capacity + 1) /\ i \in Handles
    BY <1>1 DEF Handles
  <2>2. QED
    BY <1>2, <2>1 DEF TypeOK
<1>5. \A u \in Threads : Position(u)'
  <2> SUFFICES ASSUME NEW u \in Threads PROVE Position(u)'
    OBVIOUS
  <2>1. CASE u = t
    <3>1. pc'[t] # "probe"
          /\ (pc'[t] # "idle" => i < count[t] /\ outcome'[t] = "none")
      BY <1>1, <1>2 DEF TypeOK
    <3>2. (i + 1) - 1 = i
      BY <1>1
    <3>3. QED
      BY <1>1, <1>3, <2>1, <3>1, <3>2 DEF Position
  <2>2. CASE u # t
    BY <1>2, <2>2 DEF Position, TypeOK
  <2>3. QED
    BY <2>1, <2>2
<1>6. OnlyAnswering'
  BY <1>2 DEF OnlyAnswering, TypeOK
<1>7. NoneMissed'
  <2> SUFFICES ASSUME NEW u \in Threads, outcome'[u] = "NO_RNG_HANDLE"
               PROVE  refused'[u] = 1..count'[u]
    BY DEF NoneMissed
  <2>1. CASE u = t
    <3>1. ~(i < count[t])
      BY <1>1, <1>2, <2>1
    <3>2. i = count[t]
      BY <1>1, <3>1
    <3>3. QED
      BY <1>3, <2>1, <3>2
  <2>2. CASE u # t
    BY <1>2, <2>2 DEF NoneMissed, TypeOK
  <2>3. QED
    BY <2>1, <2>2
<1>8. QED
  BY <1>4, <1>5, <1>6, <1>7

(* A handle opens, and gives random bytes.                                  *)
LEMMA AcquireKeeps ==
    ASSUME EInv, NEW t \in Threads, Open(t) \/ Probe(t) PROVE EInv'
<1> USE NumbersAssumption DEF EInv
<1>1. CASE Open(t)
  <2>1. /\ pc' = [pc EXCEPT ![t] = "probe"] /\ pc[t] = "open"
        /\ protocol' = [protocol EXCEPT ![t] = next[t]]
        /\ UNCHANGED <<booted, RNG_PROTOCOL, count, next, outcome, answered, refused>>
    BY <1>1 DEF Open, Goto, AfterOpen
  <2>2. next[t] \in Handles
    BY <2>1 DEF Position, TypeOK, Handles
  <2>3. TypeOK'
    BY <2>1, <2>2 DEF TypeOK
  <2>4. \A u \in Threads : Position(u)'
    BY <2>1, <2>2 DEF Position, TypeOK
  <2>5. OnlyAnswering' /\ NoneMissed'
    BY <2>1 DEF OnlyAnswering, NoneMissed, TypeOK
  <2>6. QED
    BY <2>3, <2>4, <2>5
<1>2. CASE Probe(t)
  <2>1. /\ pc' = [pc EXCEPT ![t] = "store"] /\ pc[t] = "probe"
        /\ answered' = answered \cup {protocol[t]}
        /\ UNCHANGED <<booted, RNG_PROTOCOL, count, next, protocol, outcome, refused>>
    BY <1>2 DEF Probe, Goto, locals
  <2>2. protocol[t] \in Handles
    BY <2>1 DEF Position
  <2>3. TypeOK'
    BY <2>1, <2>2 DEF TypeOK
  <2>4. \A u \in Threads : Position(u)'
    BY <2>1, <2>2 DEF Position, TypeOK
  <2>5. OnlyAnswering' /\ NoneMissed'
    BY <2>1 DEF OnlyAnswering, NoneMissed, TypeOK
  <2>6. QED
    BY <2>3, <2>4, <2>5
<1>3. QED
  BY <1>1, <1>2

LEMMA StepKeeps == EInv /\ [Next]_vars => EInv'
<1> SUFFICES ASSUME EInv, [Next]_vars PROVE EInv'
  OBVIOUS
<1>1. CASE UNCHANGED vars \/ ExitBoot
  <2>1. /\ booted' \in BOOLEAN
        /\ UNCHANGED <<RNG_PROTOCOL, pc, count, next, protocol, outcome,
                       answered, refused>>
    BY <1>1 DEF vars, locals, ExitBoot, EInv, TypeOK
  <2>2. QED
    BY <2>1 DEF EInv, TypeOK, Position, OnlyAnswering, NoneMissed
<1>2. ASSUME NEW t \in Threads, Load(t) \/ Step(t) PROVE EInv'
  BY <1>2, LoadKeeps, LeaveKeeps, StoreKeeps, LocateKeeps, RefuseKeeps,
     AcquireKeeps DEF Step
<1>3. QED
  BY <1>1, <1>2 DEF Next

(* The end of boot services is the end of all searches and stores.          *)
LEMMA LateStaysLate ==
    TypeOK /\ [Next]_vars =>
        [Closed => Closed' /\ UNCHANGED <<RNG_PROTOCOL, answered>>]_vars
<1> SUFFICES ASSUME TypeOK, Next, Closed
             PROVE  Closed' /\ UNCHANGED <<RNG_PROTOCOL, answered>>
  BY DEF vars
<1> USE DEF Closed, Searching, TypeOK
<1>1. CASE ExitBoot
  BY <1>1 DEF ExitBoot
<1>2. ASSUME NEW t \in Threads, Load(t) \/ Step(t)
      PROVE  Closed' /\ UNCHANGED <<RNG_PROTOCOL, answered>>
  <2>1. CASE Load(t)
    BY <2>1 DEF Load, Goto
  <2>2. CASE FindBootServices(t)
    BY <2>2 DEF FindBootServices, BootServices, Goto, Return
  <2>3. CASE Fill(t)
    BY <2>3 DEF Fill, Goto, Return
  <2>4. ~(LocateFails(t) \/ Locate(t) \/ Refuse(t) \/ OpenNull(t) \/ Open(t)
          \/ Probe(t) \/ Store(t))
    BY DEF LocateFails, Locate, Refuse, OpenNull, Open, Probe, Store
  <2>5. QED
    BY <1>2, <2>1, <2>2, <2>3, <2>4 DEF Step
<1>3. QED
  BY <1>1, <1>2 DEF Next

-----------------------------------------------------------------------------
(* Its steps are steps of LazyCache.                                        *)

(* The call of one thread changes, and no other.                            *)
LEMMA OneBecomes ==
    ASSUME NEW t \in Threads,
           \A u \in Threads \ {t} : pc'[u] = pc[u] /\ protocol'[u] = protocol[u]
    PROVE  /\ [u \in Threads |-> AbstractCall(u)']
                 = [[u \in Threads |-> AbstractCall(u)] EXCEPT ![t] = AbstractCall(t)']
           /\ [u \in Threads |-> AbstractValue(u)']
                 = [[u \in Threads |-> AbstractValue(u)] EXCEPT ![t] = AbstractValue(t)']
<1>1. \A u \in Threads \ {t} : /\ AbstractCall(u)' = AbstractCall(u)
                               /\ AbstractValue(u)' = AbstractValue(u)
  BY DEF AbstractCall, AbstractValue
<1>2. QED
  BY <1>1

LEMMA LazyStep == EInv /\ EInv' /\ [Next]_vars => [Lazy!Next]_(Lazy!vars)
<1> SUFFICES ASSUME EInv, EInv', [Next]_vars PROVE [Lazy!Next]_(Lazy!vars)
  OBVIOUS
<1>0. TypeOK /\ TypeOK'
  BY DEF EInv
<1>1. CASE UNCHANGED vars \/ ExitBoot
  BY <1>1 DEF AbstractCall, AbstractValue, vars, locals, ExitBoot, Lazy!vars
<1>2. ASSUME NEW t \in Threads, Load(t) \/ Step(t) PROVE [Lazy!Next]_(Lazy!vars)
  <2>1. \A u \in Threads \ {t} : pc'[u] = pc[u] /\ protocol'[u] = protocol[u]
    <3>1. CASE Load(t) \/ FindBootServices(t) \/ LocateFails(t) \/ Locate(t)
      BY <1>0, <3>1 DEF Load, FindBootServices, LocateFails, Locate, Goto, Return, TypeOK
    <3>2. CASE Refuse(t) \/ OpenNull(t) \/ Open(t)
      BY <1>0, <3>2 DEF Refuse, Advance, OpenNull, Open, Goto, Return, TypeOK
    <3>3. CASE Probe(t) \/ Store(t) \/ Fill(t)
      BY <1>0, <3>3 DEF Probe, Store, Fill, Goto, Return, TypeOK, locals
    <3>4. QED
      BY <1>2, <3>1, <3>2, <3>3 DEF Step
  <2>2. CASE Load(t)
    <3>1. CASE RNG_PROTOCOL = NULL
      <4>1. Lazy!Become(t, "idle", "init", NULL)
        BY <1>0, <2>1, <2>2, <3>1, OneBecomes
           DEF Lazy!Become, Load, Goto, AbstractCall, AbstractValue, TypeOK
      <4>2. Lazy!Miss(t)
        BY <2>2, <3>1, <4>1 DEF Lazy!Miss, Load
      <4>3. QED
        BY <4>2 DEF Lazy!Next
    <3>2. CASE RNG_PROTOCOL # NULL
      <4>0. /\ pc[t] = "idle" /\ pc'[t] = "fill"
            /\ protocol'[t] = RNG_PROTOCOL
        BY <1>0, <2>2, <3>2 DEF Load, Goto, TypeOK
      <4>1. Lazy!Become(t, "idle", "using", RNG_PROTOCOL)
        <5>1. /\ AbstractCall(t) = "idle" /\ AbstractCall(t)' = "using"
              /\ AbstractValue(t)' = RNG_PROTOCOL
          BY <4>0 DEF AbstractCall, AbstractValue
        <5>2. QED
          BY <1>0, <2>1, <5>1, OneBecomes DEF Lazy!Become, AbstractCall, AbstractValue
      <4>2. Lazy!Hit(t)
        BY <2>2, <3>2, <4>1 DEF Lazy!Hit, Load
      <4>3. QED
        BY <4>2 DEF Lazy!Next
    <3>3. QED
      BY <3>1, <3>2
  <2>3. CASE Store(t)
    <3>0. /\ pc[t] = "store" /\ pc'[t] = "fill"
          /\ protocol'[t] = protocol[t]
      BY <1>0, <2>3 DEF Store, Goto, TypeOK, locals
    <3>1. Lazy!Become(t, "init", "using", protocol[t])
      <4>1. /\ AbstractCall(t) = "init" /\ AbstractCall(t)' = "using"
            /\ AbstractValue(t)' = protocol[t]
        BY <3>0 DEF AbstractCall, AbstractValue
      <4>2. QED
        BY <1>0, <2>1, <4>1, OneBecomes DEF Lazy!Become, AbstractCall, AbstractValue
    <3>2. protocol[t] \in Handles
      <4>1. protocol[t] \in answered /\ answered \in SUBSET Handles
        BY <1>0, <2>3 DEF Store, EInv, OnlyAnswering, TypeOK
      <4>2. QED
        BY <4>1
    <3>3. Lazy!Succeed(t)
      <4>1. RNG_PROTOCOL' = protocol[t]
        BY <2>3 DEF Store
      <4>2. QED
        BY <3>1, <3>2, <4>1 DEF Lazy!Succeed, Lazy!Become
    <3>4. QED
      BY <3>3 DEF Lazy!Next
  <2>4. CASE Fill(t)
    <3>0. pc[t] = "fill" /\ pc'[t] = "idle"
      BY <1>0, <2>4 DEF Fill, Goto, Return, TypeOK
    <3>1. Lazy!Become(t, "using", "idle", NULL)
      BY <1>0, <2>1, <3>0, OneBecomes DEF Lazy!Become, AbstractCall, AbstractValue
    <3>2. Lazy!Finish(t)
      BY <2>4, <3>1 DEF Lazy!Finish, Fill
    <3>3. QED
      BY <3>2 DEF Lazy!Next
  <2>5. CASE \/ FindBootServices(t) \/ LocateFails(t) \/ Locate(t) \/ Refuse(t)
             \/ OpenNull(t) \/ Open(t) \/ Probe(t)
    <3>1. /\ pc[t] \in {"boot", "locate", "open", "probe"}
          /\ RNG_PROTOCOL' = RNG_PROTOCOL
      BY <2>5 DEF FindBootServices, LocateFails, Locate, Refuse, OpenNull, Open,
                  Probe, locals
    <3>2. pc'[t] \in {"idle", "locate", "open", "probe", "store"}
      <4>1. CASE FindBootServices(t) \/ LocateFails(t) \/ Locate(t)
        BY <1>0, <4>1 DEF FindBootServices, LocateFails, Locate, Goto, Return, TypeOK
      <4>2. CASE Refuse(t) \/ OpenNull(t) \/ Open(t) \/ Probe(t)
        BY <1>0, <4>2 DEF Refuse, Advance, OpenNull, Open, AfterOpen, Probe, Goto,
                          Return, TypeOK
      <4>3. QED
        BY <2>5, <4>1, <4>2
    <3>3. CASE pc'[t] = "idle"
      <4>1. Lazy!Become(t, "init", "idle", NULL)
        BY <1>0, <2>1, <3>1, <3>3, OneBecomes DEF Lazy!Become, AbstractCall, AbstractValue
      <4>2. QED
        BY <3>1, <4>1 DEF Lazy!Fail, Lazy!Next
    <3>4. CASE pc'[t] # "idle"
      <4>1. \A u \in Threads : /\ AbstractCall(u)' = AbstractCall(u)
                               /\ AbstractValue(u)' = AbstractValue(u)
        BY <2>1, <3>1, <3>2, <3>4 DEF AbstractCall, AbstractValue
      <4>2. QED
        BY <3>1, <4>1 DEF AbstractCall, AbstractValue, Lazy!vars
    <3>5. QED
      BY <3>3, <3>4
  <2>6. QED
    BY <1>2, <2>2, <2>3, <2>4, <2>5 DEF Step
<1>3. QED
  BY <1>1, <1>2 DEF Next

LEMMA EfiSafe ==
    Init /\ [][Next]_vars => /\ []EInv /\ []OnlyAnswering /\ []NoneMissed
                            /\ NothingFoundAfterExit /\ LazilyCached
<1>1. EInv => TypeOK /\ OnlyAnswering /\ NoneMissed
  BY DEF EInv
<1>2. Init => Lazy!Init
  BY DEF AbstractCall, AbstractValue, Init, Lazy!Init
<1>3. QED
  BY <1>1, <1>2, InitEInv, StepKeeps, LateStaysLate, LazyStep, PTL
     DEF NothingFoundAfterExit, LazilyCached

(* Every search is at a handle it has located, with all before it tried.    *)
THEOREM EfiInvariant == Spec => []EInv
BY EfiSafe, PTL DEF Spec

(* Only protocols that have given random bytes are cached or used, so none  *)
(* is null, for any number of racing searches and any answers.              *)
THEOREM OnlyAnsweringUsed == Spec => []OnlyAnswering
BY EfiSafe, PTL DEF Spec

(* NO_RNG_HANDLE means that every handle the firmware named was tried.      *)
THEOREM NoHandleMissed == Spec => []NoneMissed
BY EfiSafe, PTL DEF Spec

(* When boot services have ended, an empty cache stays empty, unless a      *)
(* search was already on its way.                                           *)
THEOREM NothingAfterExit == Spec => NothingFoundAfterExit
BY EfiSafe, PTL DEF Spec

(* efi_rng.rs implements LazyCache (its safety part): callers never wait    *)
(* for one another, use what they have found or what was cached when they   *)
(* came, and nobody takes the cached protocol back.                         *)
THEOREM LazyCacheImplemented == Spec => LazilyCached
BY EfiSafe, PTL DEF Spec
-----------------------------------------------------------------------------
(* Its calls end: what can be said of it without fairness.                  *)

(* What happens outside a call leaves the call where it is.                 *)
LEMMA OthersUntouched ==
    ASSUME TypeOK, NEW t \in Threads, pc[t] # "idle", ~Step(t), [Next]_vars
    PROVE  UNCHANGED <<pc[t], count[t], next[t]>>
<1>1. ASSUME NEW u \in Threads, Load(u) \/ Step(u)
      PROVE  UNCHANGED <<pc[t], count[t], next[t]>>
  <2> USE DEF Goto, Return, TypeOK
  <2>1. u # t
    BY <1>1 DEF Load
  <2>2. CASE Load(u) \/ FindBootServices(u) \/ LocateFails(u) \/ OpenNull(u)
    BY <2>1, <2>2 DEF Load, FindBootServices, LocateFails, OpenNull
  <2>3. CASE Locate(u)
    BY <2>1, <2>3 DEF Locate
  <2>4. CASE Refuse(u)
    BY <2>1, <2>4 DEF Refuse, Advance
  <2>5. CASE Open(u) \/ Probe(u) \/ Store(u) \/ Fill(u)
    BY <2>1, <2>5 DEF Open, Probe, Store, Fill, locals
  <2>6. QED
    BY <1>1, <2>2, <2>3, <2>4, <2>5 DEF Step
<1>2. CASE ExitBoot \/ UNCHANGED vars
  BY <1>2 DEF ExitBoot, vars, locals
<1>3. QED
  BY <1>1, <1>2 DEF Next

(* A handle that is given up is one less to try; one that opens is still    *)
(* the same, but need not be opened again.                                  *)
LEMMA StepCounts == ASSUME EInv, NEW t \in Threads, Step(t) PROVE Nearer(t)
<1> USE DEF Goto, Return
<1>0. pc \in [Threads -> {"idle", "boot", "locate", "open", "probe", "store", "fill"}]
      /\ count[t] \in Nat /\ next[t] \in Nat
      /\ next \in [Threads -> 1..(Capacity + 1)]
  BY NumbersAssumption DEF EInv, TypeOK
<1>1. CASE FindBootServices(t)
  <2>1. pc[t] = "boot" /\ pc'[t] \in {"locate", "idle"}
    BY <1>0, <1>1 DEF FindBootServices
  <2>2. QED
    BY <2>1 DEF Nearer, Way
<1>2. CASE LocateFails(t) \/ Locate(t)
  <2>1. pc[t] = "locate" /\ pc'[t] \in {"open", "idle"}
    BY <1>0, <1>2 DEF LocateFails, Locate
  <2>2. QED
    BY <2>1 DEF Nearer, Way
<1>3. CASE Refuse(t)
  <2>1. pc[t] \in {"open", "probe"} /\ pc'[t] \in {"open", "idle"}
    BY <1>0, <1>3 DEF Refuse, Advance
  <2>2. count'[t] = count[t] /\ next'[t] = next[t] + 1
        /\ (pc'[t] = "open" => next[t] < count[t])
    BY <1>0, <1>3 DEF EInv, TypeOK, Refuse, Advance, NextHandle, AfterHandle
  <2>3. CASE pc'[t] = "open"
    <3>1. Way(t)' = Way(t)
      BY <2>1, <2>3 DEF Way
    <3>2. ToTry(t)' \in 0..(ToTry(t) - 1)
      BY <1>0, <2>1, <2>2, <2>3 DEF ToTry
    <3>3. QED
      BY <3>1, <3>2 DEF Nearer
  <2>4. CASE pc'[t] = "idle"
    BY <2>1, <2>4 DEF Nearer, Way
  <2>5. QED
    BY <2>1, <2>3, <2>4
<1>4. CASE OpenNull(t)
  <2>1. pc[t] = "open" /\ pc'[t] = "idle"
    BY <1>0, <1>4 DEF OpenNull
  <2>2. QED
    BY <2>1 DEF Nearer, Way
<1>5. CASE Open(t)
  <2>1. /\ pc[t] = "open" /\ pc'[t] = "probe"
        /\ count'[t] = count[t] /\ next'[t] = next[t] /\ next[t] <= count[t]
    BY <1>0, <1>5 DEF Open, AfterOpen, EInv, Position
  <2>2. Way(t)' = Way(t)
    BY <2>1 DEF Way
  <2>3. ToTry(t)' \in 0..(ToTry(t) - 1)
    BY <1>0, <2>1 DEF ToTry
  <2>4. QED
    BY <2>2, <2>3 DEF Nearer
<1>6. CASE Probe(t) \/ Store(t) \/ Fill(t)
  <2>1. \/ pc[t] = "probe" /\ pc'[t] = "store"
        \/ pc[t] = "store" /\ pc'[t] = "fill"
        \/ pc[t] = "fill" /\ pc'[t] = "idle"
    BY <1>0, <1>6 DEF Probe, Store, Fill
  <2>2. QED
    BY <2>1 DEF Nearer, Way
<1>7. QED
  BY <1>1, <1>2, <1>3, <1>4, <1>5, <1>6 DEF Step

(* Whatever the firmware answers, and whoever searches at the same time,    *)
(* each step of a call is one less to make: the loop over the handles ends. *)
THEOREM SearchesGetNearer == Spec => [][EachStepCounts]_vars
<1>1. EInv /\ [Next]_vars => [EachStepCounts]_vars
  <2> SUFFICES ASSUME EInv, [Next]_vars, NEW t \in Threads
               PROVE  /\ Step(t) => Nearer(t)
                      /\ pc[t] # "idle" /\ ~Step(t) => UNCHANGED <<Way(t), ToTry(t)>>
    BY DEF EachStepCounts
  <2>1. Step(t) => Nearer(t)
    BY StepCounts
  <2>2. pc[t] # "idle" /\ ~Step(t) => UNCHANGED <<Way(t), ToTry(t)>>
    BY OthersUntouched DEF EInv, Way, ToTry
  <2>3. QED
    BY <2>1, <2>2
<1>2. QED
  BY EfiInvariant, <1>1, PTL DEF Spec

-----------------------------------------------------------------------------
(* NetbsdCache: its invariant, and its steps as steps of LazyCache.         *)

LEMMA NetbsdBegins == Netbsd!Init => Netbsd!NInv /\ Netbsd!Lazy!Init
BY DEF Netbsd!Init, Netbsd!NInv, Netbsd!Pointers, Netbsd!Lazy!Init,
       Netbsd!AbstractCall, Netbsd!AbstractValue

LEMMA NetbsdKeeps == Netbsd!NInv /\ [Netbsd!Next]_(Netbsd!vars) => Netbsd!NInv'
<1> SUFFICES ASSUME Netbsd!NInv, [Netbsd!Next]_(Netbsd!vars) PROVE Netbsd!NInv'
  OBVIOUS
<1> USE DEF Netbsd!NInv, Netbsd!Pointers
<1>1. ASSUME NEW t \in NetbsdThreads, Netbsd!Load(t) PROVE Netbsd!NInv'
  BY <1>1 DEF Netbsd!Load, Netbsd!Acquire
<1>2. ASSUME NEW t \in NetbsdThreads, Netbsd!DlSym(t) PROVE Netbsd!NInv'
  BY <1>2 DEF Netbsd!DlSym, Netbsd!Resolved
<1>3. ASSUME NEW t \in NetbsdThreads, Netbsd!Store(t) \/ Netbsd!Fill(t) PROVE Netbsd!NInv'
  BY <1>3 DEF Netbsd!Store, Netbsd!Fill
<1>4. CASE Netbsd!Link \/ UNCHANGED Netbsd!vars
  BY <1>4 DEF Netbsd!Link, Netbsd!vars
<1>5. QED
  BY <1>1, <1>2, <1>3, <1>4 DEF Netbsd!Next, Netbsd!Step

(* The call of one thread changes, and no other.                            *)
LEMMA NetbsdOneBecomes ==
    ASSUME NEW t \in NetbsdThreads,
           \A u \in NetbsdThreads \ {t} :
               np'[u] = np[u] /\ fptr'[u] = fptr[u] /\ seen'[u] = seen[u]
    PROVE  /\ [u \in NetbsdThreads |-> Netbsd!AbstractCall(u)']
                 = [[u \in NetbsdThreads |-> Netbsd!AbstractCall(u)]
                       EXCEPT ![t] = Netbsd!AbstractCall(t)']
           /\ [u \in NetbsdThreads |-> Netbsd!AbstractValue(u)']
                 = [[u \in NetbsdThreads |-> Netbsd!AbstractValue(u)]
                       EXCEPT ![t] = Netbsd!AbstractValue(t)']
<1>1. \A u \in NetbsdThreads \ {t} :
          /\ Netbsd!AbstractCall(u)' = Netbsd!AbstractCall(u)
          /\ Netbsd!AbstractValue(u)' = Netbsd!AbstractValue(u)
  BY DEF Netbsd!AbstractCall, Netbsd!AbstractValue
<1>2. QED
  BY <1>1

LEMMA NetbsdLazyStep ==
    Netbsd!NInv /\ [Netbsd!Next]_(Netbsd!vars) => [Netbsd!Lazy!Next]_(Netbsd!Lazy!vars)
<1> SUFFICES ASSUME Netbsd!NInv, [Netbsd!Next]_(Netbsd!vars)
             PROVE  [Netbsd!Lazy!Next]_(Netbsd!Lazy!vars)
  OBVIOUS
<1> USE DEF Netbsd!NInv
<1>1. ASSUME NEW t \in NetbsdThreads, Netbsd!Load(t) PROVE Netbsd!Lazy!Next
  <2>1. \A u \in NetbsdThreads \ {t} :
            np'[u] = np[u] /\ fptr'[u] = fptr[u] /\ seen'[u] = seen[u]
    BY <1>1 DEF Netbsd!Load, Netbsd!Acquire
  <2>2. CASE GETRANDOM = "null"
    <3>1. /\ Netbsd!AbstractCall(t) = "idle" /\ Netbsd!AbstractCall(t)' = "init"
          /\ Netbsd!AbstractValue(t)' = "null"
      BY <1>1, <2>2 DEF Netbsd!Load, Netbsd!AbstractCall, Netbsd!AbstractValue
    <3>2. Netbsd!Lazy!Miss(t)
      BY <1>1, <2>1, <2>2, <3>1, NetbsdOneBecomes
         DEF Netbsd!Load, Netbsd!Lazy!Miss, Netbsd!Lazy!Become
    <3>3. QED
      BY <3>2 DEF Netbsd!Lazy!Next
  <2>3. CASE GETRANDOM # "null"
    <3>1. /\ Netbsd!AbstractCall(t) = "idle" /\ Netbsd!AbstractCall(t)' = "using"
          /\ Netbsd!AbstractValue(t)' = GETRANDOM
      BY <1>1, <2>3
         DEF Netbsd!Load, Netbsd!Acquire, Netbsd!AbstractCall, Netbsd!AbstractValue
    <3>2. Netbsd!Lazy!Hit(t)
      BY <1>1, <2>1, <2>3, <3>1, NetbsdOneBecomes
         DEF Netbsd!Load, Netbsd!Lazy!Hit, Netbsd!Lazy!Become
    <3>3. QED
      BY <3>2 DEF Netbsd!Lazy!Next
  <2>4. QED
    BY <2>2, <2>3
<1>2. ASSUME NEW t \in NetbsdThreads, Netbsd!DlSym(t) PROVE UNCHANGED Netbsd!Lazy!vars
  <2>1. ASSUME NEW u \in NetbsdThreads
        PROVE  /\ Netbsd!AbstractCall(u)' = Netbsd!AbstractCall(u)
               /\ Netbsd!AbstractValue(u)' = Netbsd!AbstractValue(u)
    <3>1. CASE u = t
      BY <1>2, <3>1 DEF Netbsd!DlSym, Netbsd!AbstractCall, Netbsd!AbstractValue
    <3>2. CASE u # t
      BY <1>2, <3>2 DEF Netbsd!DlSym, Netbsd!AbstractCall, Netbsd!AbstractValue
    <3>3. QED
      BY <3>1, <3>2
  <2>2. QED
    BY <1>2, <2>1 DEF Netbsd!DlSym, Netbsd!Lazy!vars
<1>3. ASSUME NEW t \in NetbsdThreads, Netbsd!Store(t) PROVE Netbsd!Lazy!Next
  <2>1. \A u \in NetbsdThreads \ {t} :
            np'[u] = np[u] /\ fptr'[u] = fptr[u] /\ seen'[u] = seen[u]
    BY <1>3 DEF Netbsd!Store
  <2>2. /\ Netbsd!AbstractCall(t) = "init" /\ Netbsd!AbstractCall(t)' = "using"
        /\ Netbsd!AbstractValue(t)' = fptr[t] /\ fptr[t] \in Netbsd!Pointers
        /\ GETRANDOM' = fptr[t]
    BY <1>3 DEF Netbsd!Store, Netbsd!AbstractCall, Netbsd!AbstractValue
  <2>3. Netbsd!Lazy!Succeed(t)
    BY <2>1, <2>2, NetbsdOneBecomes DEF Netbsd!Lazy!Succeed, Netbsd!Lazy!Become
  <2>4. QED
    BY <2>3 DEF Netbsd!Lazy!Next
<1>4. ASSUME NEW t \in NetbsdThreads, Netbsd!Fill(t) PROVE Netbsd!Lazy!Next
  <2>1. \A u \in NetbsdThreads \ {t} :
            np'[u] = np[u] /\ fptr'[u] = fptr[u] /\ seen'[u] = seen[u]
    BY <1>4 DEF Netbsd!Fill
  <2>2. /\ Netbsd!AbstractCall(t) = "using" /\ Netbsd!AbstractCall(t)' = "idle"
        /\ Netbsd!AbstractValue(t)' = "null"
        /\ GETRANDOM' = GETRANDOM
    BY <1>4 DEF Netbsd!Fill, Netbsd!AbstractCall, Netbsd!AbstractValue
  <2>3. Netbsd!Lazy!Finish(t)
    BY <2>1, <2>2, NetbsdOneBecomes DEF Netbsd!Lazy!Finish, Netbsd!Lazy!Become
  <2>4. QED
    BY <2>3 DEF Netbsd!Lazy!Next
<1>5. CASE Netbsd!Link \/ UNCHANGED Netbsd!vars
  BY <1>5
     DEF Netbsd!Link, Netbsd!vars, Netbsd!Lazy!vars, Netbsd!AbstractCall, Netbsd!AbstractValue
<1>6. QED
  BY <1>1, <1>2, <1>3, <1>4, <1>5 DEF Netbsd!Next, Netbsd!Step

-----------------------------------------------------------------------------
(* VxworksInit: the same.                                                   *)

LEMMA VxworksBegins == Vxworks!Init => Vxworks!VInv /\ Vxworks!Lazy!Init
BY DEF Vxworks!Init, Vxworks!VInv, Vxworks!Lazy!Init, Vxworks!AbstractCall,
       Vxworks!AbstractValue

LEMMA VxworksKeeps == Vxworks!VInv /\ [Vxworks!Next]_(Vxworks!vars) => Vxworks!VInv'
<1> SUFFICES ASSUME Vxworks!VInv, [Vxworks!Next]_(Vxworks!vars) PROVE Vxworks!VInv'
  OBVIOUS
<1> USE DEF Vxworks!VInv, Vxworks!Goto
<1>1. ASSUME NEW t \in VxworksThreads, Vxworks!Load(t) \/ Vxworks!Fill(t)
      PROVE  Vxworks!VInv'
  BY <1>1 DEF Vxworks!Load, Vxworks!Fill
<1>2. ASSUME NEW t \in VxworksThreads, Vxworks!RandSecure(t) PROVE Vxworks!VInv'
  BY <1>2 DEF Vxworks!RandSecure, Vxworks!Equal
<1>3. ASSUME NEW t \in VxworksThreads, Vxworks!Store(t) PROVE Vxworks!VInv'
  BY <1>3 DEF Vxworks!Store
<1>4. CASE Vxworks!Prepare \/ UNCHANGED Vxworks!vars
  BY <1>4 DEF Vxworks!Prepare, Vxworks!vars
<1>5. QED
  BY <1>1, <1>2, <1>3, <1>4 DEF Vxworks!Next, Vxworks!Step

(* The call of one thread changes, and no other.                            *)
LEMMA VxworksOneBecomes ==
    ASSUME NEW t \in VxworksThreads, pool' = pool,
           \A u \in VxworksThreads \ {t} : vp'[u] = vp[u]
    PROVE  /\ [u \in VxworksThreads |-> Vxworks!AbstractCall(u)']
                 = [[u \in VxworksThreads |-> Vxworks!AbstractCall(u)]
                       EXCEPT ![t] = Vxworks!AbstractCall(t)']
           /\ [u \in VxworksThreads |-> Vxworks!AbstractValue(u)']
                 = [[u \in VxworksThreads |-> Vxworks!AbstractValue(u)]
                       EXCEPT ![t] = Vxworks!AbstractValue(t)']
<1>1. \A u \in VxworksThreads \ {t} :
          /\ Vxworks!AbstractCall(u)' = Vxworks!AbstractCall(u)
          /\ Vxworks!AbstractValue(u)' = Vxworks!AbstractValue(u)
  BY DEF Vxworks!AbstractCall, Vxworks!AbstractValue, Vxworks!Ready
<1>2. QED
  BY <1>1

LEMMA VxworksLazyStep == Vxworks!VInv /\ [Vxworks!Next]_(Vxworks!vars)
                 => [Vxworks!Lazy!Next]_(Vxworks!Lazy!vars)
<1> SUFFICES ASSUME Vxworks!VInv, [Vxworks!Next]_(Vxworks!vars)
             PROVE  [Vxworks!Lazy!Next]_(Vxworks!Lazy!vars)
  OBVIOUS
<1> USE DEF Vxworks!VInv, Vxworks!Goto, Vxworks!AbstractCall, Vxworks!AbstractValue, Vxworks!Ready
<1>1. ASSUME NEW t \in VxworksThreads, Vxworks!Load(t)
      PROVE  [Vxworks!Lazy!Next]_(Vxworks!Lazy!vars)
  <2>0. pool' = pool /\ \A u \in VxworksThreads \ {t} : vp'[u] = vp[u]
    BY <1>1 DEF Vxworks!Load
  <2>1. CASE vp[t] = "idle" /\ RNG_INIT
    <3>1. Vxworks!Lazy!Hit(t)
      BY <1>1, <2>0, <2>1, VxworksOneBecomes
         DEF Vxworks!Load, Vxworks!Lazy!Hit, Vxworks!Lazy!Become
    <3>2. QED
      BY <3>1 DEF Vxworks!Lazy!Next
  <2>2. CASE vp[t] = "idle" /\ ~RNG_INIT
    <3>1. Vxworks!Lazy!Miss(t)
      BY <1>1, <2>0, <2>2, VxworksOneBecomes
         DEF Vxworks!Load, Vxworks!Lazy!Miss, Vxworks!Lazy!Become
    <3>2. QED
      BY <3>1 DEF Vxworks!Lazy!Next
  <2>3. CASE vp[t] = "load" /\ RNG_INIT
    <3>1. Vxworks!Lazy!Join(t)
      BY <1>1, <2>0, <2>3, VxworksOneBecomes
         DEF Vxworks!Load, Vxworks!Lazy!Join, Vxworks!Lazy!Become
    <3>2. QED
      BY <3>1 DEF Vxworks!Lazy!Next
  <2>4. CASE (vp[t] = "load" /\ ~RNG_INIT) \/ vp[t] = "stored"
    BY <1>1, <2>0, <2>4, VxworksOneBecomes DEF Vxworks!Load, Vxworks!Lazy!vars
  <2>5. QED
    BY <1>1, <2>1, <2>2, <2>3, <2>4 DEF Vxworks!Load
<1>2. ASSUME NEW t \in VxworksThreads, Vxworks!RandSecure(t)
      PROVE  [Vxworks!Lazy!Next]_(Vxworks!Lazy!vars)
  <2>0. pool' = pool /\ RNG_INIT' = RNG_INIT /\ vp[t] = "init"
        /\ \A u \in VxworksThreads \ {t} : vp'[u] = vp[u]
    BY <1>2 DEF Vxworks!RandSecure
  <2>1. CASE pool = "absent"
    <3>1. vp'[t] = "idle"
      BY <1>2, <2>1 DEF Vxworks!RandSecure
    <3>2. Vxworks!Lazy!Fail(t)
      BY <2>0, <3>1, VxworksOneBecomes DEF Vxworks!Lazy!Fail, Vxworks!Lazy!Become
    <3>3. QED
      BY <3>2 DEF Vxworks!Lazy!Next
  <2>2. CASE pool # "absent"
    <3>1. vp'[t] \in {"store", "load"}
      BY <1>2, <2>2 DEF Vxworks!RandSecure, Vxworks!Equal
    <3>2. QED
      BY <2>0, <3>1 DEF Vxworks!Lazy!vars
  <2>3. QED
    BY <2>1, <2>2
<1>3. ASSUME NEW t \in VxworksThreads, Vxworks!Store(t) PROVE Vxworks!Lazy!Next
  <2>1. pool' = pool /\ \A u \in VxworksThreads \ {t} : vp'[u] = vp[u]
    BY <1>3 DEF Vxworks!Store
  <2>2. Vxworks!Lazy!Succeed(t)
    BY <1>3, <2>1, VxworksOneBecomes
       DEF Vxworks!Store, Vxworks!Lazy!Succeed, Vxworks!Lazy!Become
  <2>3. QED
    BY <2>2 DEF Vxworks!Lazy!Next
<1>4. ASSUME NEW t \in VxworksThreads, Vxworks!Fill(t) PROVE Vxworks!Lazy!Next
  <2>1. pool' = pool /\ \A u \in VxworksThreads \ {t} : vp'[u] = vp[u]
    BY <1>4 DEF Vxworks!Fill
  <2>2. Vxworks!Lazy!Finish(t)
    BY <1>4, <2>1, VxworksOneBecomes
       DEF Vxworks!Fill, Vxworks!Lazy!Finish, Vxworks!Lazy!Become
  <2>3. QED
    BY <2>2 DEF Vxworks!Lazy!Next
<1>5. CASE Vxworks!Prepare
  <2>1. \A u \in VxworksThreads : vp[u] \notin {"stored", "fill"}
    BY <1>5 DEF Vxworks!Prepare
  <2>2. QED
    BY <1>5, <2>1 DEF Vxworks!Prepare, Vxworks!Lazy!vars
<1>6. CASE UNCHANGED Vxworks!vars
  BY <1>6 DEF Vxworks!vars, Vxworks!Lazy!vars
<1>7. QED
  BY <1>1, <1>2, <1>3, <1>4, <1>5, <1>6 DEF Vxworks!Next, Vxworks!Step
-----------------------------------------------------------------------------
(* The branches of backends.rs: the first that is on is taken.              *)

(* A concatenation, by index.                                               *)
LEMMA Concatenation ==
    ASSUME NEW S, NEW s \in Seq(S), NEW t \in Seq(S)
    PROVE  /\ Len(s \o t) = Len(s) + Len(t)
           /\ \A i \in 1..Len(s) : (s \o t)[i] = s[i]
           /\ \A i \in 1..Len(t) : (s \o t)[Len(s) + i] = t[i]
<1> DEFINE c == s \o t  m == Len(s)  n == Len(t)
<1>1. m \in Nat /\ n \in Nat
  OBVIOUS
<1>2. /\ Len(c) = m + n
      /\ \A i \in 1..(m + n) : c[i] = IF i <= m THEN s[i] ELSE t[i - m]
  BY ConcatProperties
<1> HIDE DEF c, m, n
<1>3. ASSUME NEW i \in 1..m PROVE c[i] = s[i]
  <2>1. i \in 1..(m + n) /\ i <= m
    BY <1>1
  <2>2. QED
    BY <1>2, <2>1
<1>4. ASSUME NEW i \in 1..n PROVE c[m + i] = t[i]
  <2>1. m + i \in 1..(m + n) /\ ~(m + i <= m) /\ (m + i) - m = i
    BY <1>1
  <2>2. QED
    BY <1>2, <2>1
<1>5. QED
  BY <1>2, <1>3, <1>4 DEF c, m, n

LEMMA MinIsLeast ==
    ASSUME NEW S \in SUBSET Nat, S # {}
    PROVE  Min(S) \in S /\ \A j \in S : Min(S) <= j
<1>1. PICK x \in S : \A y \in S : <<y, x>> \notin OpToRel(<, Nat)
  BY WFMin, NatLessThanWellFounded
<1>2. ASSUME NEW y \in S PROVE x <= y
  <2>1. ASSUME y < x PROVE <<y, x>> \in OpToRel(<, Nat)
    <3>1. <<y, x>> \in Nat \X Nat /\ <<y, x>>[1] = y /\ <<y, x>>[2] = x
      OBVIOUS
    <3>2. QED
      BY <2>1, <3>1 DEF OpToRel
  <2>2. ~(y < x)
    BY <1>1, <2>1, Zenon
  <2>3. QED
    BY <2>2
<1>3. QED
  BY <1>2 DEF Min

LEMMA BranchFields ==
    ASSUME NEW condition, NEW backend
    PROVE  /\ Branch(condition, backend).on = condition
           /\ Branch(condition, backend).use = backend
BY DEF Branch

LEMMA BranchesInOrder ==
    /\ Len(Branches) = 28
    /\ \A i \in 1..9 : Branches[i] = OptIn[i]
    /\ \A i \in 1..19 : Branches[9 + i] = ByTarget[i]
<1> DEFINE S == {OptIn[i] : i \in 1..9} \cup {ByTarget[i] : i \in 1..19}
<1>1. OptIn \in Seq(S) /\ ByTarget \in Seq(S)
  <2>1. OptIn = [i \in 1..9 |-> OptIn[i]]
    BY DEF OptIn
  <2>2. ByTarget = [i \in 1..19 |-> ByTarget[i]]
    BY DEF ByTarget
  <2>3. QED
    BY <2>1, <2>2
<1>2. Len(OptIn) = 9 /\ Len(ByTarget) = 19
  BY DEF OptIn, ByTarget, Branch
<1> HIDE DEF S
<1>3. ASSUME NEW s \in Seq(S), NEW t \in Seq(S), s = OptIn, t = ByTarget
      PROVE  /\ Len(Branches) = 28
             /\ \A i \in 1..9 : Branches[i] = s[i]
             /\ \A i \in 1..19 : Branches[9 + i] = t[i]
  <2>1. Len(s) = 9 /\ Len(t) = 19 /\ Branches = s \o t
    BY <1>2, <1>3 DEF Branches
  <2>2. /\ Len(s \o t) = Len(s) + Len(t)
        /\ \A i \in 1..Len(s) : (s \o t)[i] = s[i]
        /\ \A i \in 1..Len(t) : (s \o t)[Len(s) + i] = t[i]
    BY Concatenation
  <2>3. /\ Len(Branches) = 9 + 19
        /\ \A i \in 1..9 : Branches[i] = s[i]
        /\ \A i \in 1..19 : Branches[9 + i] = t[i]
    BY <2>1, <2>2, Zenon
  <2>4. QED
    BY <2>3
<1>4. QED
  BY <1>1, <1>3

(* When the branches of the targets are on.                                 *)
LEMMA TargetConditions ==
    /\ ByTarget[1].on <=> Os({"linux"}) /\ target.env = ""
    /\ ByTarget[2].on <=> Os({"espidf"})
    /\ ByTarget[3].on <=> Os({"haiku", "redox", "nto", "aix"})
    /\ ByTarget[4].on <=> Os({"macos", "openbsd", "vita", "emscripten"})
    /\ ByTarget[5].on <=> OldKernels
    /\ ByTarget[6].on <=> HasGetrandom
    /\ ByTarget[7].on <=> Os({"solaris"})
    /\ ByTarget[8].on <=> Os({"netbsd"})
    /\ ByTarget[9].on <=> Os({"fuchsia"})
    /\ ByTarget[10].on <=> Os({"ios", "visionos", "watchos", "tvos"})
    /\ ByTarget[11].on <=> Arch({"wasm32"}) /\ Os({"wasi"})
    /\ ByTarget[12].on <=> Os({"hermit"})
    /\ ByTarget[13].on <=> Os({"vxworks"})
    /\ ByTarget[14].on <=> Os({"solid_asp3"})
    /\ ByTarget[15].on <=> Win7
    /\ ByTarget[16].on <=> Os({"windows"})
    /\ ByTarget[17].on <=> Sgx
    /\ ByTarget[18].on <=> OsLessWasm
    /\ ByTarget[19].on
<1>1. /\ ByTarget[1].on = (Os({"linux"}) /\ target.env = "")
      /\ ByTarget[2].on = Os({"espidf"})
      /\ ByTarget[3].on = Os({"haiku", "redox", "nto", "aix"})
      /\ ByTarget[4].on = Os({"macos", "openbsd", "vita", "emscripten"})
      /\ ByTarget[5].on = OldKernels
      /\ ByTarget[6].on = HasGetrandom
      /\ ByTarget[7].on = Os({"solaris"})
      /\ ByTarget[8].on = Os({"netbsd"})
      /\ ByTarget[9].on = Os({"fuchsia"})
      /\ ByTarget[10].on = Os({"ios", "visionos", "watchos", "tvos"})
      /\ ByTarget[11].on = (Arch({"wasm32"}) /\ Os({"wasi"}))
      /\ ByTarget[12].on = Os({"hermit"})
      /\ ByTarget[13].on = Os({"vxworks"})
      /\ ByTarget[14].on = Os({"solid_asp3"})
      /\ ByTarget[15].on = Win7
      /\ ByTarget[16].on = Os({"windows"})
      /\ ByTarget[17].on = Sgx
      /\ ByTarget[18].on = OsLessWasm
      /\ ByTarget[19].on = TRUE
  BY BranchFields DEF ByTarget
<1>2. QED
  BY <1>1

(* What they use.                                                           *)
LEMMA TargetUses ==
    /\ ByTarget[1].use = "linux_raw"
    /\ ByTarget[2].use = "esp_idf"
    /\ ByTarget[3].use = "use_file"
    /\ ByTarget[4].use = "getentropy"
    /\ ByTarget[5].use = "linux_android_with_fallback"
    /\ ByTarget[6].use = "getrandom"
    /\ ByTarget[7].use = "solaris"
    /\ ByTarget[8].use = "netbsd"
    /\ ByTarget[9].use = "fuchsia"
    /\ ByTarget[10].use = "apple_other"
    /\ target.env = "p1" => ByTarget[11].use = "wasi_p1"
    /\ target.env = "p2" => ByTarget[11].use = "wasi_p2"
    /\ ByTarget[12].use = "hermit"
    /\ ByTarget[13].use = "vxworks"
    /\ ByTarget[14].use = "solid"
    /\ ByTarget[15].use = "windows_legacy"
    /\ ByTarget[16].use = "windows"
    /\ ByTarget[17].use = "rdrand"
    /\ "wasm_js" \in features => ByTarget[18].use = "wasm_js"
BY BranchFields DEF ByTarget

LEMMA LastUses ==
    /\ ByTarget[11].use \in {"wasi_p1", "wasi_p2", "wasi_p3", "compile_error"}
    /\ ByTarget[18].use \in {"wasm_js", "compile_error"}
    /\ ByTarget[19].use = "compile_error"
<1>1. /\ target.env = "p1" => ByTarget[11].use = "wasi_p1"
      /\ target.env = "p2" => ByTarget[11].use = "wasi_p2"
      /\ target.env = "p3" => ByTarget[11].use = "wasi_p3"
      /\ target.env \notin {"p1", "p2", "p3"} => ByTarget[11].use = "compile_error"
  BY BranchFields DEF ByTarget
<1>2. /\ "wasm_js" \in features => ByTarget[18].use = "wasm_js"
      /\ "wasm_js" \notin features => ByTarget[18].use = "compile_error"
  BY BranchFields DEF ByTarget
<1>3. ByTarget[19].use = "compile_error"
  BY BranchFields DEF ByTarget
<1>4. QED
  BY <1>1, <1>2, <1>3

LEMMA FirstIsSelected ==
    \E k \in 1..28 : /\ Branches[k].on /\ Selected = Branches[k].use
                     /\ \A j \in 1..(k - 1) : ~Branches[j].on
<1> DEFINE On(branch) == branch.on
           I == {i \in 1..Len(Branches) : On(Branches[i])}
           k == Min(I)
<1>1. Branches[28].on
  <2>1. Branches[9 + 19] = ByTarget[19]
    BY BranchesInOrder
  <2>2. ByTarget[19].on
    BY TargetConditions
  <2>3. QED
    BY <2>1, <2>2
<1>2. I \in SUBSET Nat /\ 28 \in I
  BY <1>1, BranchesInOrder
<1> HIDE DEF I
<1>3. k \in I /\ \A j \in I : k <= j
  BY <1>2, MinIsLeast
<1>4. SelectInSeq(Branches, On) = k
  BY <1>2 DEF SelectInSeq, I
<1> HIDE DEF k
<1>5. Selected = Branches[k].use
  BY <1>4 DEF Selected
<1>6. k \in 1..28 /\ Branches[k].on
  BY <1>3, BranchesInOrder DEF I
<1>7. ASSUME NEW j \in 1..(k - 1) PROVE ~Branches[j].on
  <2>1. j \in 1..Len(Branches) /\ ~(k <= j)
    BY <1>6, BranchesInOrder
  <2>2. QED
    BY <1>3, <2>1 DEF I
<1>8. QED
  BY <1>5, <1>6, <1>7

(* For the provers, which do not enumerate intervals of themselves.         *)
LEMMA Enumerated ==
    /\ 1..9 = {1, 2, 3, 4, 5, 6, 7, 8, 9}
    /\ 1..19 = {1, 2, 3, 4, 5, 6, 7, 8, 9, 10, 11, 12, 13, 14, 15, 16, 17, 18, 19}
OBVIOUS

LEMMA OptInBranches ==
    /\ OptIn[1].on = ("custom" \in Backends) /\ OptIn[1].use = "custom"
    /\ OptIn[2].on = ("linux_getrandom" \in Backends) /\ OptIn[2].use = "getrandom"
    /\ OptIn[3].on = ("linux_raw" \in Backends) /\ OptIn[3].use = "linux_raw"
    /\ OptIn[4].on = ("rdrand" \in Backends) /\ OptIn[4].use = "rdrand"
    /\ OptIn[5].on = ("rndr" \in Backends) /\ OptIn[5].use = "rndr"
    /\ OptIn[6].on = ("efi_rng" \in Backends) /\ OptIn[6].use = "efi_rng"
    /\ OptIn[7].on = ("windows_legacy" \in Backends) /\ OptIn[7].use = "windows_legacy"
    /\ OptIn[8].on = ("wasm_js" \in Backends)
    /\ OptIn[8].use \in {"wasm_js", "compile_error"}
    /\ OptIn[9].on = ("unsupported" \in Backends) /\ OptIn[9].use = "unsupported"
BY BranchFields DEF OptIn

(* The branch of the flag is taken, unless an earlier one is on: that of    *)
(* windows_legacy, if build.rs has added it.                                *)
LEMMA FlagSelects ==
    ASSUME flag \in Flags
    PROVE  /\ BuildScript # {} /\ flag \in {"wasm_js", "unsupported"} =>
                 Selected = "windows_legacy"
           /\ ~(BuildScript # {} /\ flag \in {"wasm_js", "unsupported"}) =>
                 /\ Selected \in {AskedFor, "compile_error"}
                 /\ flag # "wasm_js" => Selected = AskedFor
<1>1. PICK k \in 1..28 : /\ Branches[k].on /\ Selected = Branches[k].use
                         /\ \A j \in 1..(k - 1) : ~Branches[j].on
  BY FirstIsSelected
<1>2. /\ Backends = BuildScript \cup {flag}
      /\ BuildScript = {} \/ BuildScript = {"windows_legacy"}
  BY DEF Backends, Flags, BuildScript
<1>3. \E i \in 1..9 : OptIn[i].on
  BY <1>2, OptInBranches, Enumerated DEF Flags
<1>4. k \in 1..9
  BY <1>1, <1>3, BranchesInOrder
<1>5. OptIn[k].on /\ Selected = OptIn[k].use
  BY <1>1, <1>4, BranchesInOrder
<1>6. \A j \in 1..(k - 1) : ~OptIn[j].on
  BY <1>1, <1>4, BranchesInOrder
<1>7. CASE BuildScript = {"windows_legacy"} /\ flag \in {"wasm_js", "unsupported"}
  <2>1. \A i \in 1..6 : ~OptIn[i].on
    <3>1. 1..6 = {1, 2, 3, 4, 5, 6}
      OBVIOUS
    <3>2. QED
      BY <1>2, <1>7, <3>1, OptInBranches
  <2>2. OptIn[7].on
    BY <1>2, <1>7, OptInBranches
  <2>3. k = 7
    <3>1. k \notin 1..6
      BY <1>5, <2>1
    <3>2. ~(k > 7)
      BY <1>4, <1>6, <2>2
    <3>3. QED
      BY <1>4, <3>1, <3>2
  <2>4. QED
    BY <1>5, <1>7, <2>3, OptInBranches
<1>8. CASE ~(BuildScript = {"windows_legacy"} /\ flag \in {"wasm_js", "unsupported"})
  <2>1. PICK i \in 1..9 : OptIn[i].on /\ \/ i = 1 /\ flag = "custom"
                                         \/ i = 2 /\ flag = "linux_getrandom"
                                         \/ i = 3 /\ flag = "linux_raw"
                                         \/ i = 4 /\ flag = "rdrand"
                                         \/ i = 5 /\ flag = "rndr"
                                         \/ i = 6 /\ flag = "efi_rng"
                                         \/ i = 7 /\ flag = "windows_legacy"
                                         \/ i = 8 /\ flag = "wasm_js"
                                         \/ i = 9 /\ flag = "unsupported"
    BY <1>2, OptInBranches, Enumerated DEF Flags
  <2>2. \A j \in 1..9 : OptIn[j].on => j = i \/ (j = 7 /\ i \notin {8, 9})
    <3>1. /\ OptIn[1].on => flag = "custom"
          /\ OptIn[2].on => flag = "linux_getrandom"
          /\ OptIn[3].on => flag = "linux_raw"
          /\ OptIn[4].on => flag = "rdrand"
          /\ OptIn[5].on => flag = "rndr"
          /\ OptIn[6].on => flag = "efi_rng"
          /\ OptIn[7].on => flag = "windows_legacy" \/ BuildScript = {"windows_legacy"}
          /\ OptIn[8].on => flag = "wasm_js"
          /\ OptIn[9].on => flag = "unsupported"
      BY <1>2, OptInBranches
    <3>2. OptIn[7].on => i \notin {8, 9}
      BY <1>8, <2>1, <3>1
    <3>3. QED
      BY <2>1, <3>1, <3>2, Enumerated
  <2>3. k <= i
    BY <1>4, <1>6, <2>1
  <2>4. k = i
    <3>1. k = i \/ (k = 7 /\ i \notin {8, 9})
      BY <1>4, <1>5, <2>2
    <3>2. QED
      BY <2>1, <2>3, <3>1
  <2>5. QED
    BY <1>2, <1>5, <1>8, <2>1, <2>4, OptInBranches DEF AskedFor
<1>9. QED
  BY <1>2, <1>7, <1>8

LEMMA FirstOfTarget ==
    ASSUME Backends = {}
    PROVE  \E k \in 1..19 : /\ ByTarget[k].on /\ Selected = ByTarget[k].use
                            /\ \A j \in 1..(k - 1) : ~ByTarget[j].on
<1>1. PICK k \in 1..28 : /\ Branches[k].on /\ Selected = Branches[k].use
                         /\ \A j \in 1..(k - 1) : ~Branches[j].on
  BY FirstIsSelected
<1>2. \A i \in 1..9 : ~OptIn[i].on
  BY OptInBranches, Enumerated
<1>3. k \in 10..28
  BY <1>1, <1>2, BranchesInOrder
<1>4. k - 9 \in 1..19 /\ Branches[9 + (k - 9)] = ByTarget[k - 9] /\ 9 + (k - 9) = k
  BY <1>3, BranchesInOrder
<1>5. ASSUME NEW j \in 1..(k - 9 - 1) PROVE ~ByTarget[j].on
  <2>1. 9 + j \in 1..(k - 1) /\ j \in 1..19
    BY <1>3
  <2>2. Branches[9 + j] = ByTarget[j]
    BY <2>1, BranchesInOrder
  <2>3. QED
    BY <1>1, <2>1, <2>2
<1>6. QED
  BY <1>1, <1>4, <1>5

(* Without a flag the first branch that fits the target is taken.           *)
LEMMA SelectedByTarget ==
    ASSUME Backends = {}
    PROVE  Selected =
             IF ByTarget[1].on THEN ByTarget[1].use
             ELSE IF ByTarget[2].on THEN ByTarget[2].use
             ELSE IF ByTarget[3].on THEN ByTarget[3].use
             ELSE IF ByTarget[4].on THEN ByTarget[4].use
             ELSE IF ByTarget[5].on THEN ByTarget[5].use
             ELSE IF ByTarget[6].on THEN ByTarget[6].use
             ELSE IF ByTarget[7].on THEN ByTarget[7].use
             ELSE IF ByTarget[8].on THEN ByTarget[8].use
             ELSE IF ByTarget[9].on THEN ByTarget[9].use
             ELSE IF ByTarget[10].on THEN ByTarget[10].use
             ELSE IF ByTarget[11].on THEN ByTarget[11].use
             ELSE IF ByTarget[12].on THEN ByTarget[12].use
             ELSE IF ByTarget[13].on THEN ByTarget[13].use
             ELSE IF ByTarget[14].on THEN ByTarget[14].use
             ELSE IF ByTarget[15].on THEN ByTarget[15].use
             ELSE IF ByTarget[16].on THEN ByTarget[16].use
             ELSE IF ByTarget[17].on THEN ByTarget[17].use
             ELSE IF ByTarget[18].on THEN ByTarget[18].use
             ELSE ByTarget[19].use
<1>1. PICK k \in 1..19 : /\ ByTarget[k].on /\ Selected = ByTarget[k].use
                         /\ \A j \in 1..(k - 1) : ~ByTarget[j].on
  BY FirstOfTarget
<1>2. \A j \in 1..19 : ByTarget[j].on => k <= j
  BY <1>1
<1>3. /\ ByTarget[1].on => k <= 1
      /\ ByTarget[2].on => k <= 2
      /\ ByTarget[3].on => k <= 3
      /\ ByTarget[4].on => k <= 4
      /\ ByTarget[5].on => k <= 5
      /\ ByTarget[6].on => k <= 6
      /\ ByTarget[7].on => k <= 7
      /\ ByTarget[8].on => k <= 8
      /\ ByTarget[9].on => k <= 9
      /\ ByTarget[10].on => k <= 10
      /\ ByTarget[11].on => k <= 11
      /\ ByTarget[12].on => k <= 12
      /\ ByTarget[13].on => k <= 13
      /\ ByTarget[14].on => k <= 14
      /\ ByTarget[15].on => k <= 15
      /\ ByTarget[16].on => k <= 16
      /\ ByTarget[17].on => k <= 17
      /\ ByTarget[18].on => k <= 18
  BY <1>2
<1>4. \/ k = 1 /\ ByTarget[1].on /\ Selected = ByTarget[1].use
      \/ k = 2 /\ ByTarget[2].on /\ Selected = ByTarget[2].use
      \/ k = 3 /\ ByTarget[3].on /\ Selected = ByTarget[3].use
      \/ k = 4 /\ ByTarget[4].on /\ Selected = ByTarget[4].use
      \/ k = 5 /\ ByTarget[5].on /\ Selected = ByTarget[5].use
      \/ k = 6 /\ ByTarget[6].on /\ Selected = ByTarget[6].use
      \/ k = 7 /\ ByTarget[7].on /\ Selected = ByTarget[7].use
      \/ k = 8 /\ ByTarget[8].on /\ Selected = ByTarget[8].use
      \/ k = 9 /\ ByTarget[9].on /\ Selected = ByTarget[9].use
      \/ k = 10 /\ ByTarget[10].on /\ Selected = ByTarget[10].use
      \/ k = 11 /\ ByTarget[11].on /\ Selected = ByTarget[11].use
      \/ k = 12 /\ ByTarget[12].on /\ Selected = ByTarget[12].use
      \/ k = 13 /\ ByTarget[13].on /\ Selected = ByTarget[13].use
      \/ k = 14 /\ ByTarget[14].on /\ Selected = ByTarget[14].use
      \/ k = 15 /\ ByTarget[15].on /\ Selected = ByTarget[15].use
      \/ k = 16 /\ ByTarget[16].on /\ Selected = ByTarget[16].use
      \/ k = 17 /\ ByTarget[17].on /\ Selected = ByTarget[17].use
      \/ k = 18 /\ ByTarget[18].on /\ Selected = ByTarget[18].use
      \/ k = 19 /\ Selected = ByTarget[19].use
  BY <1>1, Enumerated
<1>5. QED
  BY <1>3, <1>4

(* What TargetsAssumption says of the target at hand.                       *)
LEMMA KnownTarget ==
    ASSUME target \in Targets
    PROVE  /\ Sgx <=> target.env = "sgx"
           /\ target.env = "sgx" => target.os = "unknown" /\ target.arch = "x86_64"
           /\ Os({"wasi"}) => Arch({"wasm32"})
           /\ Os({"linux"}) /\ target.env = "" => Arch(RawArchs)
BY TargetsAssumption DEF Sgx, Os, Arch

LEMMA SelectedByOs ==
    ASSUME target \in Targets, Backends = {}
    PROVE
      /\ Os({"linux"}) /\ target.env = "" => Selected = "linux_raw"
      /\ Os({"linux", "android"}) /\ ~(Os({"linux"}) /\ target.env = "") =>
           Selected = IF OldKernels THEN "linux_android_with_fallback" ELSE "getrandom"
      /\ Os({"espidf"}) => Selected = "esp_idf"
      /\ Os({"redox", "haiku", "nto", "aix"}) => Selected = "use_file"
      /\ Os({"macos", "openbsd", "emscripten", "vita"}) => Selected = "getentropy"
      /\ Os({"freebsd", "dragonfly", "illumos", "hurd", "cygwin"}) => Selected = "getrandom"
      /\ Os({"horizon"}) /\ Arch({"arm"}) => Selected = "getrandom"
      /\ Os({"solaris"}) => Selected = "solaris"
      /\ Os({"netbsd"}) => Selected = "netbsd"
      /\ Os({"solid_asp3"}) => Selected = "solid"
      /\ Os({"fuchsia"}) => Selected = "fuchsia"
      /\ Os({"hermit"}) => Selected = "hermit"
      /\ Os({"vxworks"}) => Selected = "vxworks"
      /\ Os({"ios", "tvos", "watchos"}) => Selected = "apple_other"
      /\ Os({"wasi"}) /\ target.env = "p1" => Selected = "wasi_p1"
      /\ Os({"wasi"}) /\ target.env = "p2" => Selected = "wasi_p2"
      /\ Os({"windows"}) => Selected = IF Win7 THEN "windows_legacy" ELSE "windows"
      /\ target.env = "sgx" => Selected = "rdrand"
      /\ OsLessWasm /\ "wasm_js" \in features => Selected = "wasm_js"
<1>1. Os({"linux"}) /\ target.env = "" => Selected = "linux_raw"
  BY SelectedByTarget, TargetConditions, TargetUses DEF Os
<1>2. ASSUME Os({"linux", "android"}), ~(Os({"linux"}) /\ target.env = "")
      PROVE  Selected = IF OldKernels THEN "linux_android_with_fallback" ELSE "getrandom"
  <2>1. /\ ~ByTarget[1].on /\ ~ByTarget[2].on /\ ~ByTarget[3].on /\ ~ByTarget[4].on
        /\ ByTarget[5].on <=> OldKernels
        /\ ByTarget[6].on
    BY <1>2, TargetConditions DEF Os, HasGetrandom
  <2>2. QED
    BY <2>1, SelectedByTarget, TargetUses
<1>3. Os({"espidf"}) => Selected = "esp_idf"
  BY SelectedByTarget, TargetConditions, TargetUses DEF Os
<1>4. Os({"redox", "haiku", "nto", "aix"}) => Selected = "use_file"
  BY SelectedByTarget, TargetConditions, TargetUses DEF Os
<1>5. Os({"macos", "openbsd", "emscripten", "vita"}) => Selected = "getentropy"
  BY SelectedByTarget, TargetConditions, TargetUses DEF Os
<1>6. /\ Os({"freebsd", "dragonfly", "illumos", "hurd", "cygwin"}) => Selected = "getrandom"
      /\ Os({"horizon"}) /\ Arch({"arm"}) => Selected = "getrandom"
  BY SelectedByTarget, TargetConditions, TargetUses DEF Os, OldKernels, HasGetrandom
<1>7. Os({"solaris"}) => Selected = "solaris"
  BY SelectedByTarget, TargetConditions, TargetUses DEF Os, OldKernels, HasGetrandom
<1>8. Os({"netbsd"}) => Selected = "netbsd"
  BY SelectedByTarget, TargetConditions, TargetUses DEF Os, OldKernels, HasGetrandom
<1>9. Os({"solid_asp3"}) => Selected = "solid"
  BY SelectedByTarget, TargetConditions, TargetUses DEF Os, OldKernels, HasGetrandom
<1>10. Os({"fuchsia"}) => Selected = "fuchsia"
  BY SelectedByTarget, TargetConditions, TargetUses DEF Os, OldKernels, HasGetrandom
<1>11. Os({"hermit"}) => Selected = "hermit"
  BY SelectedByTarget, TargetConditions, TargetUses DEF Os, OldKernels, HasGetrandom
<1>12. Os({"vxworks"}) => Selected = "vxworks"
  BY SelectedByTarget, TargetConditions, TargetUses DEF Os, OldKernels, HasGetrandom
<1>13. Os({"ios", "tvos", "watchos"}) => Selected = "apple_other"
  BY SelectedByTarget, TargetConditions, TargetUses DEF Os, OldKernels, HasGetrandom
<1>14. /\ Os({"wasi"}) /\ target.env = "p1" => Selected = "wasi_p1"
       /\ Os({"wasi"}) /\ target.env = "p2" => Selected = "wasi_p2"
  <2>1. Os({"wasi"}) => Selected = ByTarget[11].use
    BY SelectedByTarget, TargetConditions, KnownTarget DEF Os, OldKernels, HasGetrandom
  <2>2. QED
    BY <2>1, TargetUses
<1>15. Os({"windows"}) => Selected = IF Win7 THEN "windows_legacy" ELSE "windows"
  <2>1. Os({"windows"}) => Selected = IF ByTarget[15].on THEN ByTarget[15].use
                                      ELSE ByTarget[16].use
    BY SelectedByTarget, TargetConditions DEF Os, OldKernels, HasGetrandom
  <2>2. QED
    BY <2>1, TargetConditions, TargetUses
<1>16. target.env = "sgx" => Selected = "rdrand"
  BY SelectedByTarget, TargetConditions, TargetUses, KnownTarget
     DEF Os, OldKernels, HasGetrandom, Win7
<1>17. OsLessWasm /\ "wasm_js" \in features => Selected = "wasm_js"
  BY SelectedByTarget, TargetConditions, TargetUses
     DEF Os, OldKernels, HasGetrandom, Win7, OsLessWasm, Sgx, Arch
<1>18. QED
  BY <1>1, <1>2, <1>3, <1>4, <1>5, <1>6, <1>7, <1>8, <1>9, <1>10, <1>11, <1>12,
     <1>13, <1>14, <1>15, <1>16, <1>17

(* Which errors a default build describes.                                  *)
LEMMA DescribedByDefault ==
    ASSUME target \in Targets, Backends = {}
    PROVE  Described =
             (IF Os({"ios", "visionos", "watchos", "tvos"}) THEN AppleErrors ELSE {})
             \cup (IF Win7 THEN WindowsLegacyErrors ELSE {})
             \cup (IF Os({"vxworks"}) THEN VxworksErrors ELSE {})
             \cup (IF target.env = "sgx" THEN RdrandErrors ELSE {})
BY KnownTarget DEF Described

LEMMA NothingDescribed ==
    ASSUME target \in Targets, Backends = {}, target.env # "sgx", ~Win7,
           ~Os({"ios", "visionos", "watchos", "tvos", "vxworks"})
    PROVE  Described = {}
BY DescribedByDefault DEF Os

(* What the backends of default builds draw from, and which must meet       *)
(* conditions of their own.                                                 *)
LEMMA Sources ==
    /\ \A backend \in {"getentropy", "apple_other", "fuchsia", "hermit", "vxworks",
                       "solid", "esp_idf"} :
          Implementation(backend) = {backend} /\ Guard(backend)
    /\ Implementation("getrandom") = {"getrandom"} /\ Guard("getrandom")
    /\ Implementation("linux_raw") = {"getrandom"}
    /\ Guard("linux_raw") <=> Os({"android", "linux"}) /\ Arch(RawArchs)
    /\ Implementation("linux_android_with_fallback") = {"getrandom", "/dev/urandom"}
    /\ Guard("linux_android_with_fallback")
    /\ Implementation("netbsd") = {"getrandom", "kern.arandom"} /\ Guard("netbsd")
    /\ Implementation("solaris") = {"getrandom with GRND_RANDOM"} /\ Guard("solaris")
    /\ Implementation("use_file") = {"/dev/urandom"} /\ Guard("use_file")
    /\ Implementation("windows") = {"ProcessPrng"} /\ Guard("windows")
    /\ Implementation("windows_legacy") = {"RtlGenRandom"}
    /\ Guard("windows_legacy") <=> Os({"windows"})
    /\ Implementation("wasi_p1") = {"random_get"} /\ Guard("wasi_p1")
    /\ Implementation("wasi_p2") = {"get-random-u64"} /\ Guard("wasi_p2")
    /\ Implementation("rdrand") = {"rdrand"}
    /\ Implementation("wasm_js") = {"wasm_js"}
    /\ Guard("wasm_js") <=> OsLessWasm
<1>1. \A backend \in {"getentropy", "apple_other", "fuchsia", "hermit", "vxworks",
                      "solid", "esp_idf"} :
          Implementation(backend) = {backend}
  BY DEF Implementation
<1>2. \A backend \in {"getentropy", "apple_other", "fuchsia", "hermit", "vxworks",
                      "solid", "esp_idf"} :
          Guard(backend)
  BY DEF Guard
<1>3. Implementation("getrandom") = {"getrandom"} /\ Guard("getrandom")
  BY DEF Implementation, Guard
<1>4. /\ Implementation("linux_raw") = {"getrandom"}
      /\ Guard("linux_raw") <=> Os({"android", "linux"}) /\ Arch(RawArchs)
  BY DEF Implementation, Guard, LinuxRawCompiles
<1>5. /\ Implementation("linux_android_with_fallback") = {"getrandom", "/dev/urandom"}
      /\ Guard("linux_android_with_fallback")
  BY DEF Implementation, Guard
<1>6. Implementation("netbsd") = {"getrandom", "kern.arandom"} /\ Guard("netbsd")
  BY DEF Implementation, Guard
<1>7. Implementation("solaris") = {"getrandom with GRND_RANDOM"} /\ Guard("solaris")
  BY DEF Implementation, Guard
<1>8. Implementation("use_file") = {"/dev/urandom"} /\ Guard("use_file")
  BY DEF Implementation, Guard
<1>9. Implementation("windows") = {"ProcessPrng"} /\ Guard("windows")
  BY DEF Implementation, Guard
<1>10. /\ Implementation("windows_legacy") = {"RtlGenRandom"}
       /\ Guard("windows_legacy") <=> Os({"windows"})
  BY DEF Implementation, Guard, WindowsLegacyCompiles
<1>11. Implementation("wasi_p1") = {"random_get"} /\ Guard("wasi_p1")
  BY DEF Implementation, Guard
<1>12. Implementation("wasi_p2") = {"get-random-u64"} /\ Guard("wasi_p2")
  BY DEF Implementation, Guard
<1>13. Implementation("rdrand") = {"rdrand"}
  BY DEF Implementation
<1>14. /\ Implementation("wasm_js") = {"wasm_js"}
       /\ Guard("wasm_js") <=> OsLessWasm
  BY DEF Implementation, Guard, WasmJsCompiles
<1>15. QED
  BY <1>1, <1>2, <1>3, <1>4, <1>5, <1>6, <1>7, <1>8, <1>9, <1>10, <1>11, <1>12, <1>13,
     <1>14

LEMMA ErrorsDefined ==
    /\ Defined("apple_other") = AppleErrors
    /\ Defined("windows_legacy") = WindowsLegacyErrors
    /\ Defined("wasm_js") = WasmJsErrors
    /\ Defined("vxworks") = VxworksErrors
    /\ Defined("rdrand") = RdrandErrors
BY DEF Defined

(* The rows of the README's table, for a target that is no SGX enclave.     *)
LEMMA DocumentedByOs ==
    ASSUME target \in Targets, target.env # "sgx"
    PROVE
      /\ Os({"windows"}) /\ (Win7 \/ rustc = 77) => Documented = {"RtlGenRandom"}
      /\ Os({"windows"}) /\ ~Win7 /\ rustc = 78 => Documented = {"ProcessPrng"}
      /\ Os({"macos", "openbsd", "emscripten", "vita"}) => Documented = {"getentropy"}
      /\ Os({"ios", "tvos", "watchos"}) => Documented = {"apple_other"}
      /\ Os({"freebsd", "dragonfly", "illumos", "hurd", "cygwin"}) => Documented = {"getrandom"}
      /\ Os({"horizon"}) /\ Arch({"arm"}) => Documented = {"getrandom"}
      /\ Os({"netbsd"}) => Documented = {"getrandom", "kern.arandom"}
      /\ Os({"solaris"}) => Documented = {"getrandom with GRND_RANDOM"}
      /\ Os({"redox", "haiku", "nto", "aix"}) => Documented = {"/dev/urandom"}
      /\ Os({"fuchsia"}) => Documented = {"fuchsia"}
      /\ Os({"hermit"}) => Documented = {"hermit"}
      /\ Os({"vxworks"}) => Documented = {"vxworks"}
      /\ Os({"solid_asp3"}) => Documented = {"solid"}
      /\ Os({"espidf"}) => Documented = {"esp_idf"}
      /\ Os({"wasi"}) /\ target.env = "p1" => Documented = {"random_get"}
      /\ Os({"wasi"}) /\ target.env = "p2" => Documented = {"get-random-u64"}
      /\ OsLessWasm /\ "wasm_js" \in features => Documented = {"wasm_js"}
<1>1. ASSUME Os({"windows"}), Win7 \/ rustc = 77 PROVE Documented = {"RtlGenRandom"}
  <2>1. target.os = "windows" /\ ~(~Win7 /\ rustc = 78)
    BY <1>1 DEF Os
  <2>2. QED
    BY <1>1, <2>1 DEF Documented, Os, OsLessWasm
<1>2. ASSUME Os({"windows"}), ~Win7, rustc = 78 PROVE Documented = {"ProcessPrng"}
  <2>1. target.os = "windows" /\ ~Win7 /\ rustc # 77 /\ rustc = 78
    BY <1>2 DEF Os
  <2>2. QED
    BY <2>1 DEF Documented, Os, OsLessWasm
<1>3. Os({"macos", "openbsd", "emscripten", "vita"}) => Documented = {"getentropy"}
  BY DEF Documented, Os, OsLessWasm, Arch
<1>4. Os({"ios", "tvos", "watchos"}) => Documented = {"apple_other"}
  BY DEF Documented, Os, OsLessWasm, Arch
<1>5. Os({"freebsd", "dragonfly", "illumos", "hurd", "cygwin"}) => Documented = {"getrandom"}
  BY DEF Documented, Os, OsLessWasm, Arch
<1>6. Os({"horizon"}) /\ Arch({"arm"}) => Documented = {"getrandom"}
  BY DEF Documented, Os, OsLessWasm, Arch
<1>7. Os({"netbsd"}) => Documented = {"getrandom", "kern.arandom"}
  BY DEF Documented, Os, OsLessWasm, Arch
<1>8. Os({"solaris"}) => Documented = {"getrandom with GRND_RANDOM"}
  BY DEF Documented, Os, OsLessWasm, Arch
<1>9. Os({"redox", "haiku", "nto", "aix"}) => Documented = {"/dev/urandom"}
  BY DEF Documented, Os, OsLessWasm, Arch
<1>10. /\ Os({"fuchsia"}) => Documented = {"fuchsia"}
       /\ Os({"hermit"}) => Documented = {"hermit"}
       /\ Os({"vxworks"}) => Documented = {"vxworks"}
  <2>1. Os({"fuchsia", "hermit", "vxworks"}) => Documented = {target.os}
    BY DEF Documented, Os, OsLessWasm, Arch
  <2>2. QED
    BY <2>1 DEF Os
<1>11. Os({"solid_asp3"}) => Documented = {"solid"}
  BY DEF Documented, Os, OsLessWasm, Arch
<1>12. Os({"espidf"}) => Documented = {"esp_idf"}
  BY DEF Documented, Os, OsLessWasm, Arch
<1>13. Os({"wasi"}) /\ target.env = "p1" => Documented = {"random_get"}
  BY DEF Documented, Os, OsLessWasm, Arch
<1>14. Os({"wasi"}) /\ target.env = "p2" => Documented = {"get-random-u64"}
  BY DEF Documented, Os, OsLessWasm, Arch
<1>15. ASSUME OsLessWasm, "wasm_js" \in features PROVE Documented = {"wasm_js"}
  BY <1>15 DEF Documented, Os, OsLessWasm, Arch
<1>16. QED
  BY <1>1, <1>2, <1>3, <1>4, <1>5, <1>6, <1>7, <1>8, <1>9, <1>10, <1>11, <1>12,
     <1>13, <1>14, <1>15

LEMMA DocumentedSgx ==
    ASSUME target \in Targets, target.env = "sgx", "rdrand" \in cpu
    PROVE  Documented = {"rdrand"}
<1>1. target.os = "unknown" /\ target.arch = "x86_64"
  BY KnownTarget
<1>2. QED
  BY <1>1 DEF Documented, Os, OsLessWasm, Arch

(* A target that is in the table is in one of its rows.                     *)
LEMMA DocumentedRows ==
    ASSUME target \in Targets, Documented # {}
    PROVE
      \/ target.env = "sgx" /\ "rdrand" \in cpu
      \/ Os({"windows"}) /\ (Win7 \/ rustc \in {77, 78})
      \/ Os({"macos", "openbsd", "emscripten", "vita"})
      \/ Os({"ios", "tvos", "watchos"})
      \/ Os({"freebsd", "dragonfly", "illumos", "hurd", "cygwin"})
      \/ Os({"horizon"}) /\ Arch({"arm"})
      \/ Os({"netbsd"})
      \/ Os({"solaris"})
      \/ Os({"redox", "haiku", "nto", "aix"})
      \/ Os({"fuchsia", "hermit", "vxworks"})
      \/ Os({"solid_asp3"})
      \/ Os({"espidf"})
      \/ Os({"wasi"}) /\ target.env \in {"p1", "p2"}
      \/ OsLessWasm /\ "wasm_js" \in features
BY DEF Documented, Os, OsLessWasm, Arch

(* Without a flag the older Windows compilers are the only ones to which    *)
(* build.rs gives one.                                                      *)
LEMMA NoFlag ==
    ASSUME ConfigOK, flag = "none", ~(Os({"windows"}) /\ rustc = 77)
    PROVE  Backends = {}
BY DEF ConfigOK, Backends, BuildScript, Os

LEMMA OldWindows ==
    ASSUME target \in Targets, flag = "none", Os({"windows"}), rustc = 77
    PROVE  /\ Accepted /\ Implementation(Selected) = Documented
           /\ Selected = "windows_legacy" /\ Backends = {"windows_legacy"}
<1>1. Backends = {"windows_legacy"}
  BY DEF Backends, BuildScript, Os
<1>2. PICK k \in 1..28 : /\ Branches[k].on /\ Selected = Branches[k].use
                         /\ \A j \in 1..(k - 1) : ~Branches[j].on
  BY FirstIsSelected
<1>3. /\ \A i \in 1..9 : OptIn[i].on => i = 7
      /\ OptIn[7].on /\ OptIn[7].use = "windows_legacy"
  BY <1>1, OptInBranches, Enumerated
<1>4. Branches[7].on
  BY <1>3, BranchesInOrder
<1>5. k \in 1..7
  BY <1>2, <1>4
<1>6. k = 7 /\ Selected = OptIn[7].use
  BY <1>2, <1>3, <1>5, BranchesInOrder
<1>7. Described \subseteq WindowsLegacyErrors
  BY <1>1, KnownTarget DEF Described, Os
<1>8. Documented = {"RtlGenRandom"}
  <2>1. target.env # "sgx"
    BY KnownTarget DEF Os
  <2>2. QED
    BY <2>1, DocumentedByOs
<1>9. QED
  BY <1>1, <1>3, <1>6, <1>7, <1>8, Sources, ErrorsDefined DEF Accepted

(* Without a flag, a row of the table builds and gets its source.           *)
LEMMA RowsBuild ==
    ASSUME target \in Targets, Backends = {}, Documented # {},
           ~(Os({"windows"}) /\ rustc = 77)
    PROVE  Accepted /\ Implementation(Selected) = Documented
<1> USE DEF Accepted
<1>1. target.env # "sgx" \/ target.os = "unknown"
  BY KnownTarget
(* Most backends have no error of their own, and none is described.         *)
<1>2. ASSUME NEW backend, Selected = backend, Guard(backend),
             target.env # "sgx" => Documented = Implementation(backend),
             target.os \notin {"unknown", "ios", "visionos", "watchos", "tvos", "vxworks"},
             ~Win7
      PROVE  Accepted /\ Implementation(Selected) = Documented
  <2>1. target.env # "sgx" /\ Described = {}
    BY <1>1, <1>2, NothingDescribed DEF Os
  <2>2. QED
    BY <1>2, <2>1
<1>3. CASE target.env = "sgx" /\ "rdrand" \in cpu
  <2>1. Selected = "rdrand" /\ Documented = {"rdrand"}
    BY <1>3, SelectedByOs, DocumentedSgx
  <2>2. Described = RdrandErrors
    BY <1>3, DescribedByDefault, KnownTarget DEF Os, Win7
  <2>3. Guard("rdrand")
    BY <1>3, KnownTarget DEF Guard, RdrandCompiles, SgxCompiles, Arch
  <2>4. QED
    BY <2>1, <2>2, <2>3, Sources, ErrorsDefined
<1>4. CASE Os({"windows"}) /\ Win7
  <2>1. target.env # "sgx" /\ Described = WindowsLegacyErrors
    BY <1>1, <1>4, DescribedByDefault DEF Os
  <2>2. Selected = "windows_legacy" /\ Documented = {"RtlGenRandom"}
    BY <1>4, <2>1, SelectedByOs, DocumentedByOs
  <2>3. QED
    BY <1>4, <2>1, <2>2, Sources, ErrorsDefined
<1>5. CASE Os({"windows"}) /\ ~Win7 /\ rustc = 78
  <2>1. Selected = "windows" /\ target.os = "windows"
    BY <1>5, SelectedByOs DEF Os
  <2>2. QED
    BY <1>2, <1>5, <2>1, DocumentedByOs, Sources
<1>6. CASE Os({"ios", "tvos", "watchos"})
  <2>1. target.env # "sgx" /\ Described = AppleErrors
    BY <1>1, <1>6, DescribedByDefault DEF Os, Win7
  <2>2. QED
    BY <1>6, <2>1, SelectedByOs, DocumentedByOs, Sources, ErrorsDefined
<1>7. CASE Os({"vxworks"})
  <2>1. target.env # "sgx" /\ Described = VxworksErrors
    BY <1>1, <1>7, DescribedByDefault DEF Os, Win7
  <2>2. QED
    BY <1>7, <2>1, SelectedByOs, DocumentedByOs, Sources, ErrorsDefined
<1>8. CASE OsLessWasm /\ "wasm_js" \in features
  <2>1. target.env # "sgx"
    BY <1>8, KnownTarget DEF OsLessWasm, Arch
  <2>2. Described = {}
    BY <1>8, <2>1, NothingDescribed DEF OsLessWasm, Os, Win7
  <2>3. Selected = "wasm_js" /\ Documented = {"wasm_js"}
    BY <1>8, <2>1, SelectedByOs, DocumentedByOs
  <2>4. QED
    BY <1>8, <2>2, <2>3, Sources
<1>9. CASE Os({"macos", "openbsd", "emscripten", "vita"})
  <2>1. Selected = "getentropy" /\ target.os \notin {"unknown", "windows"}
    BY <1>9, SelectedByOs DEF Os
  <2>2. QED
    BY <1>2, <1>9, <2>1, DocumentedByOs, Sources DEF Os, Win7
<1>10. CASE Os({"freebsd", "dragonfly", "illumos", "hurd", "cygwin"})
  <2>1. Selected = "getrandom" /\ target.os \notin {"unknown", "windows"}
    BY <1>10, SelectedByOs DEF Os
  <2>2. QED
    BY <1>2, <1>10, <2>1, DocumentedByOs, Sources DEF Os, Win7
<1>11. CASE Os({"horizon"}) /\ Arch({"arm"})
  <2>1. Selected = "getrandom" /\ target.os \notin {"unknown", "windows"}
    BY <1>11, SelectedByOs DEF Os
  <2>2. QED
    BY <1>2, <1>11, <2>1, DocumentedByOs, Sources DEF Os, Win7
<1>12. CASE Os({"netbsd"})
  <2>1. Selected = "netbsd" /\ target.os \notin {"unknown", "windows"}
    BY <1>12, SelectedByOs DEF Os
  <2>2. QED
    BY <1>2, <1>12, <2>1, DocumentedByOs, Sources DEF Os, Win7
<1>13. CASE Os({"solaris"})
  <2>1. Selected = "solaris" /\ target.os \notin {"unknown", "windows"}
    BY <1>13, SelectedByOs DEF Os
  <2>2. QED
    BY <1>2, <1>13, <2>1, DocumentedByOs, Sources DEF Os, Win7
<1>14. CASE Os({"redox", "haiku", "nto", "aix"})
  <2>1. Selected = "use_file" /\ target.os \notin {"unknown", "windows"}
    BY <1>14, SelectedByOs DEF Os
  <2>2. QED
    BY <1>2, <1>14, <2>1, DocumentedByOs, Sources DEF Os, Win7
<1>15. CASE Os({"fuchsia"})
  <2>1. Selected = "fuchsia" /\ target.os \notin {"unknown", "windows"}
    BY <1>15, SelectedByOs DEF Os
  <2>2. Implementation("fuchsia") = {"fuchsia"} /\ Guard("fuchsia")
    BY Sources
  <2>3. QED
    BY <1>2, <1>15, <2>1, <2>2, DocumentedByOs DEF Os, Win7
<1>16. CASE Os({"hermit"})
  <2>1. Selected = "hermit" /\ target.os \notin {"unknown", "windows"}
    BY <1>16, SelectedByOs DEF Os
  <2>2. Implementation("hermit") = {"hermit"} /\ Guard("hermit")
    BY Sources
  <2>3. QED
    BY <1>2, <1>16, <2>1, <2>2, DocumentedByOs DEF Os, Win7
<1>17. CASE Os({"solid_asp3"})
  <2>1. Selected = "solid" /\ target.os \notin {"unknown", "windows"}
    BY <1>17, SelectedByOs DEF Os
  <2>2. Implementation("solid") = {"solid"} /\ Guard("solid")
    BY Sources
  <2>3. QED
    BY <1>2, <1>17, <2>1, <2>2, DocumentedByOs DEF Os, Win7
<1>18. CASE Os({"espidf"})
  <2>1. Selected = "esp_idf" /\ target.os \notin {"unknown", "windows"}
    BY <1>18, SelectedByOs DEF Os
  <2>2. Implementation("esp_idf") = {"esp_idf"} /\ Guard("esp_idf")
    BY Sources
  <2>3. QED
    BY <1>2, <1>18, <2>1, <2>2, DocumentedByOs DEF Os, Win7
<1>19. CASE Os({"wasi"}) /\ target.env = "p1"
  <2>1. Selected = "wasi_p1" /\ target.os \notin {"unknown", "windows"}
    BY <1>19, SelectedByOs DEF Os
  <2>2. QED
    BY <1>2, <1>19, <2>1, DocumentedByOs, Sources DEF Os, Win7
<1>20. CASE Os({"wasi"}) /\ target.env = "p2"
  <2>1. Selected = "wasi_p2" /\ target.os \notin {"unknown", "windows"}
    BY <1>20, SelectedByOs DEF Os
  <2>2. QED
    BY <1>2, <1>20, <2>1, DocumentedByOs, Sources DEF Os, Win7
<1>21. QED
  BY DocumentedRows, <1>3, <1>4, <1>5, <1>6, <1>7, <1>8, <1>9, <1>10, <1>11, <1>12, <1>13,
     <1>14, <1>15, <1>16, <1>17, <1>18, <1>19, <1>20 DEF Os

(* Without a flag, Linux and Android get the system call.                   *)
LEMMA LinuxBuilds ==
    ASSUME target \in Targets, Backends = {}, Os({"linux", "android"})
    PROVE  /\ Accepted /\ "getrandom" \in Implementation(Selected)
           /\ Implementation(Selected) # {"getrandom"} <=>
                  FallbackDocumented /\ ~Arch({"riscv32", "riscv64"})
<1>1. Described = {}
  BY NothingDescribed, KnownTarget DEF Os, Win7
<1>2. CASE Os({"linux"}) /\ target.env = ""
  <2>1. Selected = "linux_raw" /\ Arch(RawArchs)
    BY <1>2, SelectedByOs, KnownTarget
  <2>2. Implementation("linux_raw") = {"getrandom"} /\ Guard("linux_raw")
    BY <2>1, Sources DEF Os
  <2>3. ~FallbackDocumented
    BY <1>2 DEF FallbackDocumented, Os
  <2>4. QED
    BY <1>1, <2>1, <2>2, <2>3 DEF Accepted
<1>3. CASE ~(Os({"linux"}) /\ target.env = "") /\ OldKernels
  <2>1. Selected = "linux_android_with_fallback"
    BY <1>3, SelectedByOs
  <2>2. FallbackDocumented /\ ~Arch({"riscv32", "riscv64"})
    BY <1>3 DEF FallbackDocumented, OldKernels, Arch, Os
  <2>3. {"getrandom", "/dev/urandom"} # {"getrandom"}
    OBVIOUS
  <2>4. QED
    BY <1>1, <2>1, <2>2, <2>3, Sources DEF Accepted
<1>4. CASE ~(Os({"linux"}) /\ target.env = "") /\ ~OldKernels
  <2>1. Selected = "getrandom"
    BY <1>4, SelectedByOs
  <2>2. ~(FallbackDocumented /\ ~Arch({"riscv32", "riscv64"}))
    BY <1>4 DEF FallbackDocumented, OldKernels, Arch, Os
  <2>3. QED
    BY <1>1, <2>1, <2>2, Sources DEF Accepted
<1>5. QED
  BY <1>2, <1>3, <1>4

(* The branches by target, one by one: the condition in error.rs is that of *)
(* the branch, except for wasm_js.                                          *)
LEMMA ErrorsDescribed ==
    ASSUME target \in Targets, Backends = {}
    PROVE  Defined(Selected) \subseteq Described <=> Selected # "wasm_js"
<1>1. PICK k \in 1..19 : ByTarget[k].on /\ Selected = ByTarget[k].use
  BY FirstOfTarget
<1>2. /\ Defined("wasm_js") = WasmJsErrors /\ WasmJsErrors # {}
      /\ WasmJsErrors \cap Described = {}
  BY ErrorsDefined, DescribedByDefault
     DEF WasmJsErrors, AppleErrors, WindowsLegacyErrors, VxworksErrors, RdrandErrors
<1>3. CASE Selected = "wasm_js"
  BY <1>2, <1>3
<1>4. CASE Selected # "wasm_js"
  <2>1. ASSUME Defined(Selected) = {} PROVE Defined(Selected) \subseteq Described
    BY <2>1
  <2>2. CASE k = 10
    <3>1. Selected = "apple_other" /\ Os({"ios", "visionos", "watchos", "tvos"})
      BY <1>1, <2>2, TargetConditions, TargetUses
    <3>2. QED
      BY <1>4, <3>1, ErrorsDefined, DescribedByDefault
  <2>3. CASE k = 13
    <3>1. Selected = "vxworks" /\ Os({"vxworks"})
      BY <1>1, <2>3, TargetConditions, TargetUses
    <3>2. QED
      BY <1>4, <3>1, ErrorsDefined, DescribedByDefault
  <2>4. CASE k = 15
    <3>1. Selected = "windows_legacy" /\ Win7
      BY <1>1, <2>4, TargetConditions, TargetUses
    <3>2. QED
      BY <1>4, <3>1, ErrorsDefined, DescribedByDefault
  <2>5. CASE k = 17
    <3>1. Selected = "rdrand" /\ target.env = "sgx"
      BY <1>1, <2>5, TargetConditions, TargetUses DEF Sgx
    <3>2. QED
      BY <1>4, <3>1, ErrorsDefined, DescribedByDefault
  <2>6. CASE k \in {1, 2, 3, 4, 5, 6, 7, 8, 9}
    <3>1. Selected \in {"linux_raw", "esp_idf", "use_file", "getentropy",
                        "linux_android_with_fallback", "getrandom", "solaris",
                        "netbsd", "fuchsia"}
      BY <1>1, <2>6, TargetUses
    <3>2. Defined(Selected) = {}
      BY <3>1 DEF Defined
    <3>3. QED
      BY <1>4, <2>1, <3>2
  <2>7. CASE k = 11
    <3>1. Selected \in {"wasi_p1", "wasi_p2", "wasi_p3", "compile_error"}
      BY <1>1, <2>7, LastUses
    <3>2. Defined(Selected) = {}
      BY <3>1 DEF Defined
    <3>3. QED
      BY <1>4, <2>1, <3>2
  <2>8. CASE k \in {12, 14, 16, 18, 19}
    <3>1. Selected \in {"hermit", "solid", "windows", "wasm_js", "compile_error"}
      BY <1>1, <2>8, TargetUses, LastUses
    <3>2. Defined(Selected) = {}
      BY <1>4, <3>1 DEF Defined
    <3>3. QED
      BY <1>4, <2>1, <3>2
  <2>9. QED
    BY <1>1, <2>2, <2>3, <2>4, <2>5, <2>6, <2>7, <2>8, Enumerated
<1>5. QED
  BY <1>3, <1>4

(* Where build.rs has chosen windows_legacy, only win7 has a description of *)
(* its error.                                                               *)
LEMMA OldWindowsDescribed ==
    ASSUME ConfigOK, flag = "none", BuildScript # {}
    PROVE  Defined(Selected) \subseteq Described <=> ~Undescribed
<1>1. target \in Targets /\ Os({"windows"}) /\ rustc = 77
  BY DEF ConfigOK, BuildScript, Os
<1>2. Selected = "windows_legacy" /\ Backends = {"windows_legacy"}
  BY <1>1, OldWindows
<1>3. Described = IF Win7 THEN WindowsLegacyErrors ELSE {}
  BY <1>1, <1>2, KnownTarget DEF Described, Os
<1>4. QED
  BY <1>2, <1>3, ErrorsDefined DEF Undescribed, WindowsLegacyErrors

LEMMA DefaultsHold == ConfigOK => DefaultAsDocumented
<1> SUFFICES ASSUME ConfigOK, flag = "none"
             PROVE  /\ Documented # {} => Accepted /\ Implementation(Selected) = Documented
                    /\ Os({"linux", "android"}) =>
                          /\ Accepted
                          /\ "getrandom" \in Implementation(Selected)
                          /\ Implementation(Selected) # {"getrandom"} <=>
                                FallbackDocumented /\ ~Arch({"riscv32", "riscv64"})
                    /\ Defined(Selected) \subseteq Described <=> ~Undescribed
  BY DEF DefaultAsDocumented
<1>1. target \in Targets
  BY DEF ConfigOK
<1>2. CASE Os({"windows"}) /\ rustc = 77
  <2>1. BuildScript # {}
    BY <1>2 DEF BuildScript, Os
  <2>2. QED
    BY <1>1, <1>2, <2>1, OldWindows, OldWindowsDescribed DEF Os
<1>3. CASE ~(Os({"windows"}) /\ rustc = 77)
  <2>1. Backends = {} /\ BuildScript = {}
    BY <1>3, NoFlag DEF Backends
  <2>2. QED
    BY <1>1, <1>3, <2>1, RowsBuild, LinuxBuilds, ErrorsDescribed DEF Undescribed
<1>4. QED
  BY <1>2, <1>3

LEMMA FlagHolds == ConfigOK => FlagObeyed
BY FlagSelects DEF ConfigOK, FlagObeyed

LEMMA OptInAccepted ==
    ASSUME ConfigOK, flag \in {"custom", "unsupported"}, BuildScript = {}
    PROVE  Accepted <=> ~(\/ Os({"ios", "visionos", "watchos", "tvos", "vxworks"})
                          \/ Win7 \/ target.env = "sgx")
<1>1. Selected = flag
  BY FlagSelects DEF Flags, AskedFor
<1>2. Guard(flag) /\ Defined(flag) = {}
  <2>1. Guard("custom") /\ Guard("unsupported")
    BY DEF Guard
  <2>2. Defined("custom") = {} /\ Defined("unsupported") = {}
    BY DEF Defined
  <2>3. QED
    BY <2>1, <2>2
<1>3. Backends = {flag}
  BY DEF Backends
<1>4. target \in Targets
  BY DEF ConfigOK
<1>5. Described =
             (IF Os({"ios", "visionos", "watchos", "tvos"}) THEN AppleErrors ELSE {})
             \cup (IF Win7 THEN WindowsLegacyErrors ELSE {})
             \cup (IF Os({"vxworks"}) THEN VxworksErrors ELSE {})
             \cup (IF target.env = "sgx" THEN RdrandErrors ELSE {})
  BY <1>3, <1>4, KnownTarget DEF Described
<1>6. QED
  BY <1>1, <1>2, <1>5 DEF Accepted, Os, AppleErrors, WindowsLegacyErrors,
                          VxworksErrors, RdrandErrors
-----------------------------------------------------------------------------
(* The program: its backend moves as the backend's own module says, and     *)
(* the others do not.                                                       *)

LEMMA EfiMoves == [SNext]_allvars => [Next]_vars
BY DEF SNext, allvars, efi, vars, locals, Configure, Build, InEfi, InNetbsd, InVxworks

(* Build chooses getrandom_test_netbsd_fallback.                            *)
LEMMA NetbsdMoves ==
    [SNext]_allvars => [Netbsd!Next]_(Netbsd!vars) \/ UNCHANGED <<GETRANDOM, np, fptr, seen>>
BY DEF SNext, allvars, netbsd, Netbsd!vars, Configure, Build, InEfi, InNetbsd, InVxworks

LEMMA VxworksMoves == [SNext]_allvars => [Vxworks!Next]_(Vxworks!vars)
BY DEF SNext, allvars, vxworks, Vxworks!vars, Configure, Build, InEfi, InNetbsd, InVxworks

LEMMA ConfigBegins == InitConfig => ConfigOK
BY DEF ConfigOK, InitConfig

LEMMA EditKeeps == ConfigOK /\ [Edit]_config => ConfigOK'
BY DEF ConfigOK, Edit, config

LEMMA ConfigKept == ConfigOK /\ [SNext]_allvars => ConfigOK'
<1>1. ConfigOK /\ Build => ConfigOK'
  BY DEF Build, ConfigOK
<1>2. [SNext]_allvars => Build \/ [Edit]_config
  BY DEF SNext, allvars, config, Configure, InEfi, InNetbsd, InVxworks
<1>3. QED
  BY <1>1, <1>2, EditKeeps

LEMMA NetbsdKept == Netbsd!NInv /\ [SNext]_allvars => Netbsd!NInv'
<1>1. Netbsd!NInv /\ UNCHANGED <<GETRANDOM, np, fptr, seen>> => Netbsd!NInv'
  BY DEF Netbsd!NInv
<1>2. QED
  BY <1>1, NetbsdMoves, NetbsdKeeps

LEMMA NetbsdLazyKept ==
    Netbsd!NInv /\ [SNext]_allvars => [Netbsd!Lazy!Next]_(Netbsd!Lazy!vars)
<1>1. UNCHANGED <<GETRANDOM, np, fptr, seen>> => UNCHANGED Netbsd!Lazy!vars
  BY DEF Netbsd!Lazy!vars, Netbsd!AbstractCall, Netbsd!AbstractValue
<1>2. QED
  BY <1>1, NetbsdMoves, NetbsdLazyStep

(* The invariants of the parts, side by side.                               *)
THEOREM ProgramInvariant == SSpec => []SInv
<1>1. SInit => SInv
  BY ConfigBegins, InitEInv, NetbsdBegins, VxworksBegins DEF SInit, SInv
<1>2. SInv /\ [SNext]_allvars => SInv'
  BY ConfigKept, EfiMoves, StepKeeps, NetbsdKept, VxworksMoves, VxworksKeeps DEF SInv
<1>3. QED
  BY <1>1, <1>2, PTL DEF SSpec

(* Every documented target builds without a flag and gets the documented    *)
(* source, for any targets of which TargetsAssumption is true.              *)
THEOREM DefaultsAsDocumented == SSpec => []DefaultAsDocumented
<1>1. SInv => DefaultAsDocumented
  BY DefaultsHold DEF SInv
<1>2. QED
  BY <1>1, ProgramInvariant, PTL

(* A flag is obeyed or refused, on any target, with any features and any    *)
(* compiler, but for the one case that FlagObeyed names, in which it is     *)
(* always ignored.                                                          *)
THEOREM FlagsObeyed == SSpec => []FlagObeyed
<1>1. SInv => FlagObeyed
  BY FlagHolds DEF SInv
<1>2. QED
  BY <1>1, ProgramInvariant, PTL

(* The README's claim that `custom` and `unsupported` are backends for all  *)
(* targets fails on the targets whose own backend has an error that         *)
(* error.rs describes, and on no others.                                    *)
THEOREM OptInNearlyEverywhere ==
    SSpec => [](OptInEverywhere <=>
                  ~(/\ flag \in {"custom", "unsupported"} /\ BuildScript = {}
                    /\ \/ Os({"ios", "visionos", "watchos", "tvos", "vxworks"})
                       \/ Win7
                       \/ target.env = "sgx"))
<1>1. SInv => (OptInEverywhere <=>
                 ~(/\ flag \in {"custom", "unsupported"} /\ BuildScript = {}
                   /\ \/ Os({"ios", "visionos", "watchos", "tvos", "vxworks"})
                      \/ Win7
                      \/ target.env = "sgx"))
  BY OptInAccepted DEF SInv, OptInEverywhere
<1>2. QED
  BY <1>1, ProgramInvariant, PTL

(* The cache of efi_rng.rs in a program that was configured and built.      *)
THEOREM EfiInProgram ==
    SSpec => /\ []OnlyAnswering /\ []NoneMissed
             /\ NothingFoundAfterExit /\ LazilyCached
<1>1. SInit => Init
  BY DEF SInit
<1>2. SSpec => Init /\ [][Next]_vars
  BY <1>1, EfiMoves, PTL DEF SSpec
<1>3. QED
  BY <1>2, EfiSafe, PTL

(* netbsd.rs implements LazyCache (its safety part), for any number of      *)
(* threads and whatever dlsym answers: nobody calls a pointer that was not  *)
(* resolved before the call.                                                *)
THEOREM NetbsdLazilyCached == SSpec => Netbsd!LazilyCached
<1>1. SInit => Netbsd!Lazy!Init
  BY NetbsdBegins DEF SInit
<1>2. SInv => Netbsd!NInv
  BY DEF SInv
<1>3. QED
  BY <1>1, <1>2, ProgramInvariant, NetbsdLazyKept, PTL DEF SSpec, Netbsd!LazilyCached

(* vxworks.rs implements LazyCache (its safety part), for any number of     *)
(* threads: nobody draws from a pool that is not ready.                     *)
THEOREM VxworksLazilyCached == SSpec => Vxworks!LazilyCached
<1>1. SInit => Vxworks!Lazy!Init
  BY VxworksBegins DEF SInit
<1>2. SInv => Vxworks!VInv
  BY DEF SInv
<1>3. SInv /\ [SNext]_allvars => [Vxworks!Lazy!Next]_(Vxworks!Lazy!vars)
  BY <1>2, VxworksMoves, VxworksLazyStep
<1>4. QED
  BY <1>1, <1>3, ProgramInvariant, PTL DEF SSpec, Vxworks!LazilyCached
=============================================================================
