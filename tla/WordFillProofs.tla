--------------------------- MODULE WordFillProofs ---------------------------
(* Proofs about WordFill, for buffers of any length at any address.         *)
EXTENDS WordFill, TLAPS

(* How far an address is from the next multiple of eight.                   *)
LEMMA Prefixes ==
    ASSUME NEW o \in 0..7
    PROVE  /\ (8 - o) % 8 \in 0..7
           /\ (o + ((8 - o) % 8)) % 8 = 0
           /\ (8 - o) % 8 = 0 <=> o = 0
<1>1. CASE o = 0
  BY <1>1
<1>2. CASE o \in 1..7
  <2>1. 8 - o \in 1..7
    BY <1>2
  <2>2. (8 - o) % 8 = 8 - o
    BY <2>1
  <2>3. o + (8 - o) = 8 /\ 8 % 8 = 0
    BY <1>2
  <2>4. QED
    BY <1>2, <2>1, <2>2, <2>3
<1>3. QED
  BY <1>1, <1>2

(* What the next word goes to is not empty, fits in a word, and ends within *)
(* the buffer; on WASI it ends at an aligned address or at the buffer's     *)
(* end, and a whole word starts at one.                                     *)
LEMMA PieceFits ==
    ASSUME IInv, result = "running"
    PROVE  /\ Piece \in 1..Word
           /\ pos + Piece \in 1..size
           /\ backend = "wasi" =>
                 /\ pos + Piece = size \/ (offset + pos + Piece) % 8 = 0
                 /\ Piece = 8 => (offset + pos) % 8 = 0
<1> USE DEF IInv, TypeOK, Fresh
<1>1. size \in Nat /\ pos \in 0..(size - 1) /\ offset \in 0..(Word - 1)
  BY MaxSizeAssumption
<1>2. CASE backend # "wasi"
  BY <1>1, <1>2 DEF Piece, Prefix, AtMost, Word
<1>3. CASE backend = "wasi"
  <2>1. Word = 8 /\ offset \in 0..7
    BY <1>1, <1>3 DEF Word
  <2>2. Prefix \in 0..7 /\ (offset + Prefix) % 8 = 0 /\ (Prefix = 0 <=> offset = 0)
    <3>1. Prefix = (8 - offset) % 8
      BY <2>1, <1>3 DEF Prefix
    <3>2. QED
      BY <2>1, <3>1, Prefixes
  <2>3. CASE pos = 0 /\ Prefix > 0
    <3>1. Piece = AtMost(Prefix, size)
      BY <2>3 DEF Piece
    <3>2. Piece \in 1..7 /\ Piece <= size /\ (Piece = size \/ Piece = Prefix)
      BY <1>1, <2>2, <2>3, <3>1 DEF AtMost
    <3>3. offset + pos + Piece = offset + Piece /\ pos + Piece = Piece
      BY <2>1, <2>3, <3>2
    <3>4. QED
      BY <1>1, <2>1, <2>2, <3>2, <3>3
  <2>4. CASE ~(pos = 0 /\ Prefix > 0)
    <3>1. (offset + pos) % 8 = 0
      BY <1>1, <1>3, <2>1, <2>2, <2>4 DEF Aligned
    <3>2. Piece = AtMost(8, size - pos)
      BY <2>1, <2>4 DEF Piece
    <3>3. (offset + pos + 8) % 8 = 0
      BY <1>1, <2>1, <3>1
    <3>4. QED
      BY <1>1, <2>1, <3>1, <3>2, <3>3 DEF AtMost
  <2>5. QED
    BY <2>3, <2>4
<1>4. QED
  BY <1>2, <1>3

LEMMA InitIInv == Init => IInv
<1> SUFFICES ASSUME Init PROVE IInv
  OBVIOUS
<1>1. size \in Nat /\ size > 0
  BY MaxSizeAssumption DEF Init
<1>2. buf \in [1..size -> Bytes]
  BY DEF Init, Uninit, Word, Bytes
<1>3. tries \in 0..(RETRY_LIMIT - 1)
  BY DEF Init, RETRY_LIMIT
<1>4. QED
  BY <1>1, <1>2, <1>3 DEF Init, IInv, TypeOK, Fresh, Aligned

(* A word that is taken makes the written part of the buffer longer by      *)
(* bytes that are random and not there yet.                                 *)
LEMMA TakenKeepsIInv ==
    ASSUME IInv, result = "running", UNCHANGED call,
           words' = words + 1,
           buf' = [i \in 1..size |->
                     IF i \in (pos + 1)..(pos + Piece)
                     THEN Byte(i - pos, "random") ELSE buf[i]],
           pos' = pos + Piece,
           tries' = 0,
           result' = IF pos' = size THEN "ok" ELSE "running"
    PROVE  IInv'
<1>0. /\ size \in Nat /\ pos \in Nat /\ words \in 0..pos
      /\ Word \in {4, 8} /\ RETRY_LIMIT \in {5, 10}
  BY MaxSizeAssumption DEF IInv, TypeOK, Word, RETRY_LIMIT
<1>u. Word' = Word /\ RETRY_LIMIT' = RETRY_LIMIT /\ size' = size
  BY DEF call, Word, RETRY_LIMIT
<1>1. Piece \in 1..Word /\ pos + Piece \in 1..size
  BY PieceFits
<1>o. ASSUME NEW i \in 1..size
      PROVE  buf[i] \in Bytes
  BY DEF IInv, TypeOK
<1>2. ASSUME NEW i \in 1..size, i \notin (pos + 1)..(pos + Piece)
      PROVE  buf'[i] = buf[i]
  BY <1>2
<1>3. ASSUME NEW i \in (pos + 1)..(pos + Piece)
      PROVE  /\ i \in 1..size /\ i \notin 1..pos
             /\ buf'[i].word = words + 1
             /\ buf'[i].place = i - pos
             /\ buf'[i].value = "random"
             /\ buf'[i] \in Bytes'
  <2>1. i \in 1..size /\ i \notin 1..pos
    BY <1>0, <1>1, <1>3
  <2>2. buf'[i] = Byte(i - pos, "random")
    BY <1>3, <2>1
  <2>3. buf'[i] = [word |-> words + 1, place |-> i - pos, value |-> "random"]
    BY <2>2 DEF Byte, Source
  <2>4. i - pos \in 0..Word /\ words + 1 \in 0..words'
    BY <1>0, <1>1, <1>3
  <2>5. [word |-> words + 1, place |-> i - pos, value |-> "random"]
           \in Bytes'
    BY <1>u, <2>4 DEF Bytes
  <2>6. buf'[i] \in Bytes'
    BY <2>3, <2>5
  <2>7. buf'[i].word = words + 1 /\ buf'[i].place = i - pos /\ buf'[i].value = "random"
    BY <2>3
  <2>8. QED
    BY <2>1, <2>6, <2>7
<1>4. TypeOK'
  <2>1. ASSUME NEW i \in 1..size
        PROVE  buf'[i] \in Bytes'
    <3>1. CASE i \in (pos + 1)..(pos + Piece)
      BY <1>3, <3>1
    <3>2. CASE i \notin (pos + 1)..(pos + Piece)
      <4>1. 0..words \subseteq 0..words'
        BY <1>0
      <4>2. QED
        BY <1>2, <1>o, <1>u, <3>2, <4>1 DEF Bytes
    <3>3. QED
      BY <3>1, <3>2
  <2>2. buf' \in [1..size -> Bytes']
    BY <2>1
  <2>3. words' \in 0..pos' /\ pos' \in 0..size /\ tries' \in 0..(RETRY_LIMIT - 1)
    BY <1>0, <1>1
  <2>4. QED
    BY <1>u, <2>2, <2>3 DEF IInv, TypeOK, call
<1>5. Fresh'
  <2>1. ASSUME NEW i \in 1..pos'
        PROVE  i \in 1..pos \/ i \in (pos + 1)..(pos + Piece)
    BY <1>0, <1>1
  <2>2. ASSUME NEW i \in 1..pos
        PROVE  /\ buf'[i] = buf[i] /\ buf'[i].word # words + 1
               /\ buf'[i] # Uninit /\ buf'[i].value = "random"
    <3>1. i \in 1..size /\ i \notin (pos + 1)..(pos + Piece)
      BY <1>0, <1>1
    <3>2. buf'[i] = buf[i]
      BY <1>2, <3>1
    <3>3. buf[i].word \in 0..words
      BY <1>o, <3>1 DEF Bytes
    <3>4. buf[i] # Uninit /\ buf[i].value = "random"
      BY DEF IInv, Fresh
    <3>5. QED
      BY <1>0, <3>2, <3>3, <3>4
  <2>3. ASSUME NEW i \in 1..pos' PROVE buf'[i] # Uninit /\ buf'[i].value = "random"
    <3>1. CASE i \in 1..pos
      BY <2>2, <3>1
    <3>2. CASE i \in (pos + 1)..(pos + Piece)
      <4>1. buf'[i].value = "random" /\ Uninit.value = "none"
        BY <1>3, <3>2 DEF Uninit
      <4>2. QED
        BY <4>1
    <3>3. QED
      BY <2>1, <3>1, <3>2
  <2>4. ASSUME NEW i \in 1..pos', NEW j \in 1..pos', buf'[i] = buf'[j]
        PROVE  i = j
    <3>0. buf'[i].word = buf'[j].word /\ buf'[i].place = buf'[j].place
      BY <2>4
    <3>1. CASE i \in 1..pos /\ j \in 1..pos
      <4>1. buf[i] = buf[j]
        BY <2>2, <2>4, <3>1
      <4>2. \A k, l \in 1..pos : buf[k] = buf[l] => k = l
        BY DEF IInv, Fresh
      <4>3. QED
        BY <3>1, <4>1, <4>2
    <3>2. CASE i \in (pos + 1)..(pos + Piece) /\ j \in (pos + 1)..(pos + Piece)
      <4>1. i - pos = j - pos
        BY <1>3, <3>0, <3>2
      <4>2. QED
        BY <4>1, <1>0
    <3>3. CASE i \in 1..pos /\ j \in (pos + 1)..(pos + Piece)
      BY <1>3, <2>2, <3>0, <3>3
    <3>4. CASE j \in 1..pos /\ i \in (pos + 1)..(pos + Piece)
      BY <1>3, <2>2, <3>0, <3>4
    <3>5. QED
      BY <2>1, <3>1, <3>2, <3>3, <3>4
  <2>5. /\ result' = "ok" => pos' = size'
        /\ result' \in {"called", "running"} => pos' < size'
    BY <1>0, <1>1, <1>u
  <2>6. QED
    BY <2>3, <2>4, <2>5 DEF Fresh, Uninit
<1>6. Aligned'
  <2>1. SUFFICES ASSUME backend = "wasi"
                 PROVE  pos' = size \/ (offset + pos') % Word = 0
    BY <1>u DEF Aligned, call
  <2>2. Word = 8 /\ offset \in Nat
    BY <2>1 DEF Word, IInv, TypeOK
  <2>3. pos + Piece = size \/ (offset + pos + Piece) % 8 = 0
    BY <2>1, PieceFits
  <2>4. offset + pos' = offset + pos + Piece
    BY <1>0, <1>1, <2>2
  <2>5. QED
    BY <2>2, <2>3, <2>4
<1>7. QED
  BY <1>4, <1>5, <1>6 DEF IInv

(* No step breaks the invariant.                                            *)
LEMMA StepIInv == IInv /\ [Next]_vars => IInv'
<1> SUFFICES ASSUME IInv, [Next]_vars PROVE IInv'
  OBVIOUS
<1>1. CASE FillInner
  <2>1. Word' = Word /\ RETRY_LIMIT' = RETRY_LIMIT
    BY <1>1 DEF FillInner, call, Word, RETRY_LIMIT
  <2>2. TypeOK' /\ Fresh'
    BY <1>1, <2>1 DEF FillInner, call, IInv, TypeOK, Bytes, Fresh
  <2>3. Aligned'
    BY <1>1, <2>1 DEF FillInner, call, IInv, Aligned
  <2>4. QED
    BY <2>2, <2>3 DEF IInv
<1>2. CASE Draw
  <2>1. PICK value \in Values :
           IF Accepted(value)
           THEN /\ words' = words + 1
                /\ buf' = [i \in 1..size |->
                             IF i \in (pos + 1)..(pos + Piece)
                             THEN Byte(i - pos, value) ELSE buf[i]]
                /\ pos' = pos + Piece
                /\ tries' = 0
                /\ result' = IF pos' = size THEN "ok" ELSE "running"
           ELSE /\ tries' = (tries + 1) % RETRY_LIMIT
                /\ result' = IF tries' = 0 THEN "failed" ELSE "running"
                /\ UNCHANGED <<words, pos, buf>>
    BY <1>2 DEF Draw
  <2>2. result = "running" /\ UNCHANGED call
    BY <1>2 DEF Draw
  <2>3. CASE value = "random"
    BY <2>1, <2>2, <2>3, TakenKeepsIInv DEF Accepted
  <2>4. CASE value = "garbage"
    <3>1. /\ tries' = (tries + 1) % RETRY_LIMIT
          /\ result' = IF tries' = 0 THEN "failed" ELSE "running"
          /\ UNCHANGED <<words, pos, buf>>
      BY <2>1, <2>4 DEF Accepted
    <3>2. Word' = Word /\ RETRY_LIMIT' = RETRY_LIMIT /\ RETRY_LIMIT \in {5, 10}
      BY <2>2 DEF call, Word, RETRY_LIMIT
    <3>3. tries' \in 0..(RETRY_LIMIT - 1)
      BY <3>1, <3>2 DEF IInv, TypeOK
    <3>4. TypeOK' /\ Fresh'
      BY <2>2, <3>1, <3>2, <3>3 DEF call, IInv, TypeOK, Bytes, Fresh
    <3>5. Aligned'
      BY <2>2, <3>1, <3>2 DEF call, IInv, Aligned
    <3>6. QED
      BY <3>4, <3>5 DEF IInv
  <2>5. QED
    BY <2>3, <2>4 DEF Values
<1>3. CASE UNCHANGED vars
  <2>1. Word' = Word /\ RETRY_LIMIT' = RETRY_LIMIT
    BY <1>3 DEF vars, Word, RETRY_LIMIT
  <2>2. QED
    BY <1>3, <2>1 DEF vars, IInv, TypeOK, Bytes, Fresh, Aligned
<1>4. QED
  BY <1>1, <1>2, <1>3 DEF Next

(* The invariant, for every buffer.                                         *)
THEOREM Invariant == Spec => []IInv
BY InitIInv, StepIInv, PTL DEF Spec

(* No word is copied beyond its end or beyond the end of the buffer.        *)
THEOREM TypeCorrect == Spec => []TypeOK
<1>1. IInv => TypeOK
  BY DEF IInv
<1>2. QED
  BY <1>1, Invariant, PTL

(* A successful call has filled the buffer with random bytes, and has used  *)
(* each byte of each word at most once.                                     *)
THEOREM SuccessIsFresh == Spec => []OkMeansFresh
<1>1. IInv => OkMeansFresh
  BY DEF IInv, Fresh, OkMeansFresh
<1>2. QED
  BY <1>1, Invariant, PTL

(* WASI stores whole words at aligned addresses only.                       *)
THEOREM StoresAreAligned == Spec => WordStoresAligned
<1>1. IInv /\ [Next]_vars =>
        [backend = "wasi" /\ pos' = pos + Word => (offset + pos) % Word = 0]_vars
  <2> SUFFICES ASSUME IInv, Next, backend = "wasi", pos' = pos + Word
               PROVE  (offset + pos) % Word = 0
    BY DEF vars
  <2>1. Word = 8 /\ pos \in Nat
    BY DEF Word, IInv, TypeOK
  <2>2. result = "running" /\ pos' = pos + Piece
    BY <2>1 DEF Next, FillInner, Draw
  <2>3. Piece \in Nat
    BY <2>2, PieceFits, <2>1
  <2>4. Piece = 8
    BY <2>1, <2>2, <2>3
  <2>5. QED
    BY <2>1, <2>2, <2>4, PieceFits
<1>2. QED
  BY <1>1, Invariant, PTL DEF Spec, WordStoresAligned
=============================================================================
