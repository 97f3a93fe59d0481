--------------------------- MODULE FillLoopProofs ---------------------------
(* FillLoop proved for buffers of every size, pieces of every size, and     *)
(* every choice of backends.                                                *)
EXTENDS FillLoop, TLAPS

USE SizesAssumption

(* The part of the state an answer depends on: a call that has something    *)
(* left to ask for.                                                         *)
Asking ==
    /\ backend \in Counting \cup Chunked \cup Whole
    /\ size \in Nat /\ pos \in Nat /\ pos < size

LEMMA AskedBounds == Asking => Asked \in 1..Rest /\ Rest \in Nat
BY DEF Asking, Asked, Rest, AtMost, ArrayLength

(* What the code may conclude from an answer, whatever the backend: it      *)
(* advances by what was written unless it stops.                            *)
AnswerUnderstood(answer, errno) ==
    /\ answer.wrote \in 0..Rest
    /\ Stops(answer.r, errno) \in SUBSET FillError
    /\ Stops(answer.r, errno) = {} =>
          /\ Advance(answer.r) = answer.wrote
          /\ Unpoisons(answer.r, answer.wrote) = Bytes(answer.wrote)
          /\ answer.r \notin {-1, EINTR} => answer.wrote > 0
    /\ Unpoisons(answer.r, answer.wrote) \subseteq Bytes(answer.wrote)
    /\ backend \in {"getrandom", "netbsd", "linux_raw"} =>
          "EINTR" \notin Stops(answer.r, errno)

LEMMA FailureTypes ==
    ASSUME NEW len \in Nat, NEW r \in Int, NEW errno \in Errno
    PROVE  /\ Failure(len, r, errno) \in SUBSET FillError
           /\ "EINTR" \notin Failure(len, r, errno)
           /\ LastOsError(errno) \in FillError
           /\ Failure(len, r, errno) = {} => r = -1 \/ r \in 1..len
BY DEF Failure, LastOsError, Errno, FillError

(* A whole value from Hermit: only a result of zero goes unreported.        *)
LEMMA SecureRandTypes ==
    ASSUME NEW r
    PROVE  /\ SecureRand(r) \in SUBSET FillError
           /\ SecureRand(r) = {} => r = 0
<1>1. CASE r = 0
  BY <1>1 DEF SecureRand
<1>2. CASE r = -1
  <2>1. r # 0
    BY <1>2
  <2>2. SecureRand(r) = {"UNSUPPORTED"}
    BY <1>2, <2>1 DEF SecureRand
  <2>3. QED
    BY <2>2 DEF FillError
<1>3. CASE r # 0 /\ r # -1
  <2>1. SecureRand(r) = {"UNEXPECTED"}
    BY <1>3 DEF SecureRand
  <2>2. QED
    BY <2>1 DEF FillError
<1>4. QED
  BY <1>1, <1>2, <1>3

LEMMA NetbsdUnderstood ==
    ASSUME Asking, backend = "netbsd", NEW answer \in Answers, NEW errno \in Errno
    PROVE  AnswerUnderstood(answer, errno)
<1>1. PICK status \in {-1, 0, 1}, len \in 0..(Limit + 1) :
          answer = [r |-> Polyfill(status, len),
                    wrote |-> IF status = 0 THEN AtMost(len, Asked) ELSE 0]
  BY DEF Answers, LengthAnswers
<1>2. answer.r = Polyfill(status, len) /\ answer.r \in Int
  BY <1>1 DEF Polyfill
<1>3. answer.wrote \in 0..Rest /\ (status = 0 /\ len <= Asked => answer.wrote = len)
  BY <1>1, AskedBounds DEF AtMost
<1>4. Stops(answer.r, errno) = Failure(Rest, answer.r, errno)
  BY DEF Stops
<1>5. Unpoisons(answer.r, answer.wrote) = Bytes(answer.wrote)
  BY DEF Unpoisons
<1>6. Stops(answer.r, errno) = {} => Advance(answer.r) = answer.wrote
  <2> SUFFICES ASSUME Stops(answer.r, errno) = {} PROVE Advance(answer.r) = answer.wrote
    OBVIOUS
  <2>1. answer.r = -1 \/ answer.r \in 1..Rest
    BY <1>2, <1>4, AskedBounds, FailureTypes
  <2>2. Advance(answer.r) = IF answer.r > 0 THEN answer.r ELSE 0
    BY DEF Advance, Counting
  <2>3. CASE answer.r = -1
    BY <1>1, <1>2, <2>2, <2>3 DEF Polyfill
  <2>4. CASE answer.r \in 1..Rest
    BY <1>1, <1>2, <1>3, <2>2, <2>4, AskedBounds DEF Polyfill, Asked, AtMost,
       Chunked
  <2>5. QED  BY <2>1, <2>3, <2>4
<1>7. Stops(answer.r, errno) = {} /\ answer.r # -1 => answer.wrote > 0
  <2>1. Stops(answer.r, errno) = {} => answer.r = -1 \/ answer.r \in 1..Rest
    BY <1>2, <1>4, AskedBounds, FailureTypes
  <2>2. Advance(answer.r) = IF answer.r > 0 THEN answer.r ELSE 0
    BY DEF Advance, Counting
  <2>3. QED  BY <1>2, <1>6, <2>1, <2>2, AskedBounds
<1>8. QED
  BY <1>2, <1>3, <1>4, <1>5, <1>6, <1>7, AskedBounds, FailureTypes DEF
     AnswerUnderstood

(* The calls that return a count: getrandom, linux_raw, hermit.             *)
LEMMA CountUnderstood ==
    ASSUME Asking, backend \in {"getrandom", "linux_raw", "hermit"},
           NEW answer \in Answers, NEW errno \in Errno
    PROVE  AnswerUnderstood(answer, errno)
<1>1. Asked = Rest /\ Rest \in Nat \ {0}
  BY AskedBounds DEF Asked, Chunked
<1>2. PICK r \in BelowI32..(Asked + 1) :
          answer = [r |-> r, wrote |-> IF r < 0 THEN 0 ELSE AtMost(r, Asked)]
  BY DEF Answers, CountAnswers, Counting
<1>3. /\ answer.r \in Int
      /\ answer.wrote = IF answer.r < 0 THEN 0 ELSE AtMost(answer.r, Rest)
  BY <1>1, <1>2 DEF BelowI32
<1>4. /\ answer.wrote \in 0..Rest
      /\ answer.r \in 0..Rest => answer.wrote = answer.r
  BY <1>1, <1>3 DEF AtMost
<1>5. Advance(answer.r) = IF answer.r > 0 THEN answer.r ELSE 0
  BY DEF Advance, Counting
<1>6. /\ Stops(answer.r, errno) \in SUBSET FillError
      /\ Stops(answer.r, errno) = {} =>
            answer.r \in {-1, EINTR} \/ answer.r \in 1..Rest
      /\ backend \in {"getrandom", "linux_raw"} => "EINTR" \notin Stops(answer.r, errno)
  <2>1. CASE backend = "getrandom"
    BY <1>1, <1>3, <2>1, FailureTypes DEF Stops
  <2>2. RawFailure(answer.r) \in SUBSET FillError
    BY DEF RawFailure, FillError
  <2>3. RawFailure(answer.r) \subseteq {"EINTR"} =>
            answer.r = EINTR \/ answer.r \in 1..Rest
    BY <1>1, <1>3 DEF RawFailure, EINTR, BelowI32
  <2>4. RawFailure(answer.r) = {} => answer.r \in 1..Rest
    BY <1>1, <1>3 DEF RawFailure, EINTR, BelowI32
  <2>5. CASE backend = "linux_raw"
    BY <2>2, <2>3, <2>5 DEF Stops, LinuxRaw
  <2>6. CASE backend = "hermit"
    BY <2>2, <2>4, <2>6 DEF Stops
  <2>7. QED  BY <2>1, <2>5, <2>6
<1>7. Stops(answer.r, errno) = {} =>
          /\ Advance(answer.r) = answer.wrote
          /\ answer.r \notin {-1, EINTR} => answer.wrote > 0
  BY <1>1, <1>3, <1>4, <1>5, <1>6 DEF EINTR
<1>8. /\ Unpoisons(answer.r, answer.wrote) \subseteq Bytes(answer.wrote)
      /\ Stops(answer.r, errno) = {} =>
            Unpoisons(answer.r, answer.wrote) = Bytes(answer.wrote)
  <2>1. CASE backend = "hermit"
    BY <2>1 DEF Unpoisons
  <2>2. CASE backend # "hermit" /\ answer.r \in 0..Rest
    BY <1>4, <2>2 DEF Unpoisons
  <2>3. CASE backend # "hermit" /\ answer.r \notin 0..Rest
    <3>1. Unpoisons(answer.r, answer.wrote) = {}
      BY <2>3 DEF Unpoisons
    <3>2. Stops(answer.r, errno) = {} => answer.wrote = 0
      BY <1>1, <1>3, <1>6, <2>3 DEF EINTR
    <3>3. answer.wrote = 0 => Bytes(answer.wrote) = {}
      BY DEF Bytes, Asking
    <3>4. QED  BY <3>1, <3>2, <3>3
  <2>4. QED  BY <2>1, <2>2, <2>3
<1>9. QED
  BY <1>4, <1>6, <1>7, <1>8 DEF AnswerUnderstood

(* The calls that fill a piece or nothing: Solaris, and all others.         *)
LEMMA PieceUnderstood ==
    ASSUME Asking, backend \in Chunked \cup Whole,
           NEW answer \in Answers, NEW errno \in Errno
    PROVE  AnswerUnderstood(answer, errno)
<1>1. /\ Asked \in 1..Rest /\ Rest \in Nat
      /\ Advance(answer.r) = Asked
      /\ Unpoisons(answer.r, answer.wrote) = Bytes(answer.wrote)
      /\ backend \notin {"getrandom", "netbsd", "linux_raw", "hermit"}
  BY AskedBounds DEF Advance, Unpoisons, Chunked, Whole, Infallible, Counting
<1>2. LastOsError(errno) \in FillError
  BY FailureTypes
<1>3. CASE backend = "solaris"
  <2>1. PICK r \in BelowI32..(Asked + 1) :
            answer = [r |-> r, wrote |-> IF r < 0 THEN 0 ELSE AtMost(r, Asked)]
    BY <1>3 DEF Answers, CountAnswers
  <2>2. /\ answer.wrote \in 0..Rest
        /\ answer.r = Asked => answer.wrote = Asked
    BY <1>1, <2>1 DEF AtMost, BelowI32
  <2>3. Stops(answer.r, errno) = Solaris(answer.r, errno)
    BY <1>3 DEF Stops
  <2>4. /\ Stops(answer.r, errno) \in SUBSET FillError
        /\ Stops(answer.r, errno) = {} => answer.r = Asked
    BY <1>2, <2>3 DEF Solaris, FillError
  <2>5. QED
    BY <1>1, <2>2, <2>4 DEF AnswerUnderstood
<1>4. CASE backend # "solaris"
  <2>1. answer = Success \/ answer \in Failures
    BY <1>1, <1>4 DEF Answers, Counting
  <2>2. /\ answer.wrote \in 0..Rest
        /\ answer.r = 0 => answer.wrote = Asked
    BY <1>1, <2>1 DEF Success, Failures
  <2>3. Stops(answer.r, errno) = IF backend = "hermit_word" THEN SecureRand(answer.r)
                                 ELSE IF answer.r = 0 THEN {}
                                 ELSE {LastOsError(errno)}
    BY <1>1, <1>4 DEF Stops
  <2>4. /\ Stops(answer.r, errno) \in SUBSET FillError
        /\ Stops(answer.r, errno) = {} => answer.r = 0
    BY <1>2, <2>3, SecureRandTypes
  <2>5. QED
    BY <1>1, <2>2, <2>4 DEF AnswerUnderstood
<1>5. QED  BY <1>3, <1>4

LEMMA Understood ==
    ASSUME Asking, NEW answer \in Answers, NEW errno \in Errno
    PROVE  AnswerUnderstood(answer, errno)
<1>1. \/ backend = "netbsd"
      \/ backend \in {"getrandom", "linux_raw", "hermit"}
      \/ backend \in Chunked \cup Whole
  BY DEF Asking, Counting
<1>2. QED
  BY <1>1, NetbsdUnderstood, CountUnderstood, PieceUnderstood

-----------------------------------------------------------------------------
(* The bytes of one more answer.                                            *)
LEMMA BytesExtend ==
    ASSUME Asking, NEW n \in 0..Rest
    PROVE  /\ pos + n \in 0..size
           /\ (1..pos) \cup Bytes(n) = 1..(pos + n)
           /\ (1..pos) \cap Bytes(n) = {}
           /\ Bytes(n) \subseteq 1..size
BY DEF Asking, Rest, Bytes

LEMMA InitIInv == Init => IInv
<1> SUFFICES ASSUME Init PROVE IInv
  OBVIOUS
<1>1. TypeOK
  <2>1. redrawn \in BOOLEAN /\ last \in {"none", "answered", "interrupted"}
    BY Zenon DEF Init
  <2>2. /\ backend \in Backends /\ size \in 0..MaxSize /\ pos \in 0..size
        /\ result \in {"running", "ok"} \cup FillError
    BY DEF Init
  <2>3. unpoisoned \subseteq 1..size /\ written \subseteq 1..size
    BY DEF Init
  <2>4. QED  BY <2>1, <2>2, <2>3 DEF TypeOK
<1>2. Progress
  <2>1. pos = 0 /\ size \in Nat /\ result = "running"
    BY DEF Init
  <2>2. written = 1..pos /\ unpoisoned = 1..pos
    BY <2>1 DEF Init
  <2>3. QED  BY <2>1, <2>2 DEF Progress
<1>3. OkMeansFull /\ ShadowExact /\ InterruptsRetried /\ EmptySucceeds
  BY DEF Init, OkMeansFull, ShadowExact, InterruptsRetried, EmptySucceeds
<1>4. NothingRedrawn
  BY DEF Init, NothingRedrawn
<1>5. QED  BY <1>1, <1>2, <1>3, <1>4 DEF IInv

LEMMA FillNothingKeepsIInv == IInv /\ FillNothing => IInv'
BY DEF FillNothing, IInv, TypeOK, Progress, OkMeansFull, ShadowExact,
   NothingRedrawn, InterruptsRetried, EmptySucceeds

(* An answer changes the state in one of two ways.                          *)
LEMMA OneAnswer ==
    ASSUME IInv, FillInner
    PROVE  /\ Asking /\ result = "running"
           /\ UNCHANGED <<backend, size>>
           /\ \E n \in 0..Rest :
                 /\ written' = written \cup Bytes(n)
                 /\ redrawn' = (redrawn \/ Bytes(n) \cap written # {})
                 /\ last' \in {"answered", "interrupted"}
                 /\ \/ /\ pos' = pos + n
                       /\ unpoisoned' = unpoisoned \cup Bytes(n)
                       /\ result' = IF pos' = size THEN "ok" ELSE "running"
                       /\ last' = "answered" => n > 0
                    \/ /\ pos' = pos
                       /\ \E some \in SUBSET Bytes(n) :
                             unpoisoned' = unpoisoned \cup some
                       /\ result' \in FillError
                       /\ backend \in {"getrandom", "netbsd", "linux_raw"} =>
                             result' # "EINTR"
<1>1. Asking /\ result = "running" /\ pos \in Nat
  BY BackendsAssumption DEF IInv, TypeOK, Progress, FillInner, CallsBackend,
     Asking
<1>2. PICK answer \in Answers, errno \in Errno :
          LET stops == Stops(answer.r, errno)
              next  == IF stops = {} THEN pos + Advance(answer.r) ELSE pos
          IN /\ pos' = next
             /\ IF stops = {}
                THEN result' = IF next = size THEN "ok" ELSE "running"
                ELSE result' \in stops
             /\ unpoisoned' = unpoisoned \cup Unpoisons(answer.r, answer.wrote)
             /\ written' = written \cup Bytes(answer.wrote)
             /\ redrawn' = (redrawn \/ Bytes(answer.wrote) \cap written # {})
             /\ last' = IF answer.r \in {-1, EINTR} THEN "interrupted"
                                                    ELSE "answered"
  BY DEF FillInner
<1>3. AnswerUnderstood(answer, errno)
  BY <1>1, Understood
<1>4. CASE Stops(answer.r, errno) = {}
  BY <1>1, <1>2, <1>3, <1>4 DEF AnswerUnderstood, FillInner
<1>5. CASE Stops(answer.r, errno) # {}
  BY <1>1, <1>2, <1>3, <1>5 DEF AnswerUnderstood, FillInner
<1>6. QED  BY <1>4, <1>5

LEMMA FillInnerKeepsIInv == IInv /\ FillInner => IInv'
<1> SUFFICES ASSUME IInv, FillInner PROVE IInv'
  OBVIOUS
<1>1. /\ Asking /\ result = "running"
      /\ UNCHANGED <<backend, size>>
      /\ written = 1..pos /\ unpoisoned = 1..pos /\ ~redrawn
      /\ backend \in Backends /\ size \in 0..MaxSize /\ pos \in 0..size
      /\ size # 0
  BY OneAnswer DEF IInv, TypeOK, Progress, NothingRedrawn, Asking
<1>2. PICK n \in 0..Rest :
          /\ written' = written \cup Bytes(n)
          /\ redrawn' = (redrawn \/ Bytes(n) \cap written # {})
          /\ last' \in {"answered", "interrupted"}
          /\ \/ /\ pos' = pos + n
                /\ unpoisoned' = unpoisoned \cup Bytes(n)
                /\ result' = IF pos' = size THEN "ok" ELSE "running"
             \/ /\ pos' = pos
                /\ \E some \in SUBSET Bytes(n) :
                      unpoisoned' = unpoisoned \cup some
                /\ result' \in FillError
                /\ backend \in {"getrandom", "netbsd", "linux_raw"} =>
                      result' # "EINTR"
  BY OneAnswer
<1>3. /\ pos + n \in 0..size
      /\ (1..pos) \cup Bytes(n) = 1..(pos + n)
      /\ (1..pos) \cap Bytes(n) = {}
      /\ Bytes(n) \subseteq 1..size /\ 1..pos \subseteq 1..size
  BY <1>1, BytesExtend
<1>4. written' = 1..(pos + n) /\ written' \subseteq 1..size /\ redrawn' = FALSE
  BY <1>1, <1>2, <1>3
<1>5. CASE /\ pos' = pos + n
           /\ unpoisoned' = unpoisoned \cup Bytes(n)
           /\ result' = IF pos' = size THEN "ok" ELSE "running"
  <2>1. unpoisoned' = written'
    BY <1>1, <1>2, <1>5
  <2>2. result' \in {"running", "ok"} /\ (result' = "ok" => pos' = size)
        /\ (result' = "running" => pos' < size)
    BY <1>1, <1>3, <1>5
  <2>3. QED
    BY <1>1, <1>2, <1>3, <1>4, <1>5, <2>1, <2>2
    DEF IInv, TypeOK, Progress, OkMeansFull, ShadowExact, NothingRedrawn,
        InterruptsRetried, EmptySucceeds
<1>6. CASE /\ pos' = pos
           /\ \E some \in SUBSET Bytes(n) : unpoisoned' = unpoisoned \cup some
           /\ result' \in FillError
           /\ backend \in {"getrandom", "netbsd", "linux_raw"} =>
                 result' # "EINTR"
  <2>1. unpoisoned' \subseteq written'
    BY <1>1, <1>2, <1>6
  <2>2. result' \notin {"running", "ok"}
    BY <1>6 DEF FillError
  <2>3. QED
    BY <1>1, <1>2, <1>4, <1>6, <2>1, <2>2
    DEF IInv, TypeOK, Progress, OkMeansFull, ShadowExact, NothingRedrawn,
        InterruptsRetried, EmptySucceeds
<1>7. QED  BY <1>2, <1>5, <1>6

(* The inductive invariant, of which the next theorems are the parts.       *)
THEOREM Invariant == Spec => []IInv
<1>1. IInv /\ UNCHANGED vars => IInv'
  BY DEF vars, IInv, TypeOK, Progress, OkMeansFull, ShadowExact, NothingRedrawn,
     InterruptsRetried, EmptySucceeds
<1>2. IInv /\ [Next]_vars => IInv'
  BY <1>1, FillNothingKeepsIInv, FillInnerKeepsIInv DEF Next
<1>3. QED  BY InitIInv, <1>2, PTL DEF Spec

(* No backend advances beyond the buffer, whatever count it is told.        *)
THEOREM TypeCorrect == Spec => []TypeOK
<1>1. IInv => TypeOK
  BY DEF IInv
<1>2. QED  BY Invariant, <1>1, PTL

(* Success is reported only for a buffer the system wrote in full.          *)
THEOREM SuccessIsFull == Spec => []OkMeansFull
<1>1. IInv => OkMeansFull
  BY DEF IInv
<1>2. QED  BY Invariant, <1>1, PTL

(* Memory Sanitizer is told of the written bytes and of no others.          *)
THEOREM ShadowAlwaysExact == Spec => []ShadowExact
<1>1. IInv => ShadowExact
  BY DEF IInv
<1>2. QED  BY Invariant, <1>1, PTL

(* No byte of the buffer is asked for again once it has been delivered.     *)
THEOREM NeverRedrawn == Spec => []NothingRedrawn
<1>1. IInv => NothingRedrawn
  BY DEF IInv
<1>2. QED  BY Invariant, <1>1, PTL

(* The loops that retry interrupted calls never return EINTR.               *)
THEOREM NoInterruptReturned == Spec => []InterruptsRetried
<1>1. IInv => InterruptsRetried
  BY DEF IInv
<1>2. QED  BY Invariant, <1>1, PTL

(* Every answer that leaves the loop running brings its end nearer.         *)
THEOREM Progressing == Spec => EveryAnswerCounts
<1>1. IInv /\ [Next]_vars =>
          [last' = "answered" /\ result' = "running" => pos' > pos]_vars
  <2> SUFFICES ASSUME IInv, Next, last' = "answered", result' = "running"
               PROVE  pos' > pos
    OBVIOUS
  <2>1. FillInner
    BY DEF Next, FillNothing
  <2>2. QED
    BY <2>1, OneAnswer DEF Asking, FillError
<1>2. QED
  BY Invariant, <1>1, PTL DEF Spec, EveryAnswerCounts
=============================================================================
