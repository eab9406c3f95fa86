---------------------------- MODULE TextRing_proofs ----------------------------
(***************************************************************************)
(* CircularBuffer keeps the promise of EditLine for every capacity and     *)
(* every set of characters and strings.  The invariant is the type of the  *)
(* two indices: what get() returns is determined by them, so each step is  *)
(* compared with its abstract counterpart place by place.                  *)
(***************************************************************************)
EXTENDS TextRing, SequenceTheorems, TLAPS

Symbols == Characters \cup {Zero}

RingTyped ==
    /\ backBuffer \in [Places -> Symbols]
    /\ start \in Places
    /\ end \in Places
    /\ rest \in Seq(Symbols)

\* The place of the i-th character from s, without the remainder.
Place(s, i) == IF s + i - 1 < Capacity THEN s + i - 1 ELSE s + i - 1 - Capacity

\* What get() returns, with the remainders worked out.
GetFacts ==
    /\ RingSize \in 0 .. Capacity - 1
    /\ Get = [i \in 1 .. RingSize |-> backBuffer[Place(start, i)]]
    /\ \A i \in 1 .. RingSize : Place(start, i) \in Places
    /\ Get \in Seq(Symbols)
    /\ Len(Get) = RingSize

-----------------------------------------------------------------------------
\* The remainder of a sum of two indices (the % BUFFER_SIZE of append and get).
LEMMA Wraps ==
    ASSUME NEW a \in Nat, a < 2 * Capacity
    PROVE  a % Capacity = IF a < Capacity THEN a ELSE a - Capacity
<1>1. Capacity \in Nat /\ Capacity > 0
  BY RingAssumption
<1>2. CASE a < Capacity
  BY <1>1, <1>2, SMT
<1>3. CASE a >= Capacity
  BY <1>1, <1>3, SMT
<1>4. QED
  BY <1>1, <1>2, <1>3

\* The index after i.
LEMMA SuccessorIs ==
    ASSUME NEW i \in Places
    PROVE  /\ Successor(i) = IF i + 1 = Capacity THEN 0 ELSE i + 1
           /\ Successor(i) \in Places
<1>1. Capacity \in Nat /\ Capacity > 0
  BY RingAssumption
<1>2. i \in Nat /\ i < Capacity /\ i + 1 \in Nat /\ i + 1 < 2 * Capacity
  BY <1>1 DEF Places
<1>3. PICK a \in Nat : a = i + 1
  BY <1>2
<1>4. a % Capacity = IF a < Capacity THEN a ELSE a - Capacity
  BY <1>2, <1>3, Wraps
<1>5. QED
  BY <1>1, <1>2, <1>3, <1>4 DEF Successor, Places

\* How many characters get() returns, and where they are.
LEMMA GetIs == RingTyped => GetFacts
<1>0. SUFFICES ASSUME RingTyped PROVE GetFacts
  OBVIOUS
<1>1. Capacity \in Nat /\ Capacity > 0
  BY RingAssumption
<1>2. start \in Nat /\ end \in Nat /\ start < Capacity /\ end < Capacity
  BY <1>0, <1>1 DEF RingTyped, Places
<1>3. RingSize \in 0 .. Capacity - 1
  BY <1>1, <1>2 DEF RingSize
<1>4. ASSUME NEW i \in 1 .. RingSize
      PROVE  (start + i - 1) % Capacity = Place(start, i) /\ Place(start, i) \in Places
  <2>1. start + i - 1 \in Nat /\ start + i - 1 < 2 * Capacity
    BY <1>1, <1>2, <1>3
  <2>2. QED
    BY <1>1, <1>2, <1>3, <2>1, Wraps DEF Place, Places
<1>5. Get = [i \in 1 .. RingSize |-> backBuffer[Place(start, i)]]
  BY <1>4 DEF Get
<1>6. \A i \in 1 .. RingSize : backBuffer[Place(start, i)] \in Symbols
  BY <1>0, <1>4 DEF RingTyped
<1>7. Get \in Seq(Symbols) /\ Len(Get) = RingSize
  BY <1>3, <1>5, <1>6
<1>8. QED
  BY <1>3, <1>4, <1>5, <1>7 DEF GetFacts

\* Writing a character keeps the indices inside of the buffer.
LEMMA PutTyped ==
    ASSUME RingTyped, NEW c \in Symbols, Put(c), rest' \in Seq(Symbols)
    PROVE  RingTyped'
BY SuccessorIs DEF RingTyped, Put

\* append of one character (circularBuffer.h:48-56) adds it, and drops the oldest
\* character when the ring is full.
LEMMA PutAdds ==
    ASSUME RingTyped, NEW c \in Symbols, Put(c), rest' \in Seq(Symbols)
    PROVE  Line!Add(c)
<1>0. RingTyped'
  BY PutTyped
<1>1. Capacity \in Nat /\ Capacity > 0
  BY RingAssumption
<1>2. start \in Nat /\ end \in Nat /\ start < Capacity /\ end < Capacity
  BY <1>1 DEF RingTyped, Places
<1>3. /\ RingSize \in 0 .. Capacity - 1
      /\ Get = [i \in 1 .. RingSize |-> backBuffer[Place(start, i)]]
      /\ \A i \in 1 .. RingSize : Place(start, i) \in Places
      /\ Get \in Seq(Symbols)
      /\ Len(Get) = RingSize
  BY GetIs DEF GetFacts
<1>a. GetFacts'
  BY <1>0, GetIs, PTL
<1>4. /\ RingSize' \in 0 .. Capacity - 1
      /\ Get' = [i \in 1 .. RingSize' |-> backBuffer'[Place(start', i)]]
      /\ \A i \in 1 .. RingSize' : Place(start', i) \in Places
      /\ Get' \in Seq(Symbols)
      /\ Len(Get') = RingSize'
  BY <1>a DEF GetFacts
<1>5. end' = (IF end + 1 = Capacity THEN 0 ELSE end + 1)
  BY SuccessorIs DEF Put, RingTyped
<1>6. backBuffer' = [backBuffer EXCEPT ![end] = c]
  BY DEF Put
<1>7. DOMAIN backBuffer = Places /\ end \in Places
  BY DEF RingTyped
<1>8. CASE end' # start
  <2>1. start' = start
    BY <1>8 DEF Put
  <2>2. RingSize' = RingSize + 1
    BY <1>1, <1>2, <1>5, <1>8, <2>1 DEF RingSize
  <2>3. ASSUME NEW i \in 1 .. RingSize'
        PROVE  Get'[i] = Append(Get, c)[i]
    <3>1. Get'[i] = backBuffer'[Place(start, i)] /\ Place(start, i) \in Places
      BY <1>4, <2>1
    <3>2. CASE i = RingSize + 1
      <4>1. Place(start, i) = end
        BY <1>1, <1>2, <3>2 DEF Place, RingSize
      <4>2. Append(Get, c)[i] = c
        BY <1>3, <3>2
      <4>3. QED
        BY <3>1, <4>1, <4>2, <1>6, <1>7
    <3>3. CASE i # RingSize + 1
      <4>1. i \in 1 .. RingSize
        BY <1>3, <2>2, <3>3
      <4>2. Place(start, i) # end
        BY <1>1, <1>2, <4>1 DEF Place, RingSize
      <4>3. Append(Get, c)[i] = Get[i]
        BY <1>3, <4>1
      <4>4. QED
        BY <3>1, <4>1, <4>2, <4>3, <1>3, <1>6, <1>7
    <3>4. QED
      BY <3>2, <3>3
  <2>4. Append(Get, c) \in Seq(Symbols) /\ Len(Append(Get, c)) = RingSize'
    BY <1>3, <2>2
  <2>5. Get' = Append(Get, c)
    BY <1>4, <2>3, <2>4, SeqEqual
  <2>6. Len(Get) < Capacity - 1
    BY <1>1, <1>3, <1>4, <2>2
  <2>7. QED
    BY <2>5, <2>6 DEF Line!Add
<1>9. CASE end' = start
  <2>1. start' = (IF start + 1 = Capacity THEN 0 ELSE start + 1)
    BY <1>9, SuccessorIs DEF Put, RingTyped
  <2>2. RingSize = Capacity - 1 /\ RingSize' = Capacity - 1
    BY <1>1, <1>2, <1>5, <1>9, <2>1 DEF RingSize
  <2>3. ASSUME NEW i \in 1 .. RingSize'
        PROVE  Get'[i] = Tail(Append(Get, c))[i]
    <3>1. Get'[i] = backBuffer'[Place(start', i)] /\ Place(start', i) \in Places
      BY <1>4
    <3>2. Tail(Append(Get, c))[i] = Append(Get, c)[i + 1]
      BY <1>3, <2>2
    <3>3. CASE i = Capacity - 1
      <4>1. Place(start', i) = end
        BY <1>1, <1>2, <1>5, <1>9, <2>1, <3>3 DEF Place
      <4>2. Append(Get, c)[i + 1] = c
        BY <1>1, <1>3, <2>2, <3>3
      <4>3. QED
        BY <3>1, <3>2, <4>1, <4>2, <1>6, <1>7
    <3>4. CASE i # Capacity - 1
      <4>1. i + 1 \in 1 .. RingSize
        BY <1>1, <2>2, <3>4
      <4>2. Place(start', i) = Place(start, i + 1)
        BY <1>1, <1>2, <2>1, <2>2, <3>4 DEF Place
      <4>3. Place(start, i + 1) # end
        BY <1>1, <1>2, <1>5, <1>9, <2>2, <4>1 DEF Place
      <4>4. Append(Get, c)[i + 1] = Get[i + 1]
        BY <1>3, <4>1
      <4>5. QED
        BY <3>1, <3>2, <4>1, <4>2, <4>3, <4>4, <1>3, <1>6, <1>7
    <3>5. QED
      BY <3>3, <3>4
  <2>4. /\ Tail(Append(Get, c)) \in Seq(Symbols)
        /\ Len(Tail(Append(Get, c))) = RingSize'
    <3>1. PICK s : s = Append(Get, c)
      OBVIOUS
    <3>2. s \in Seq(Symbols) /\ Len(s) = Capacity /\ Capacity \in Nat /\ Capacity # 0
      BY <1>1, <1>3, <2>2, <3>1
    <3>3. Tail(s) \in Seq(Symbols) /\ Len(Tail(s)) = Capacity - 1
      BY <3>2
    <3>4. QED
      BY <2>2, <3>1, <3>3
  <2>5. Get' = Tail(Append(Get, c))
    BY <1>4, <2>3, <2>4, SeqEqual
  <2>6. ~(Len(Get) < Capacity - 1)
    BY <1>1, <1>3, <2>2
  <2>7. QED
    BY <2>5, <2>6 DEF Line!Add
<1>10. QED
  BY <1>8, <1>9

-----------------------------------------------------------------------------
\* backspace (circularBuffer.h:58-65) takes the youngest character off.
LEMMA BackspaceErases ==
    ASSUME RingTyped, Backspace
    PROVE  RingTyped' /\ Line!Erase
<1>1. Capacity \in Nat /\ Capacity > 0
  BY RingAssumption
<1>2. start \in Nat /\ end \in Nat /\ start < Capacity /\ end < Capacity
  BY <1>1 DEF RingTyped, Places
<1>3. end' = (IF end = 0 THEN Capacity - 1 ELSE end - 1) /\ start # end
  BY DEF Backspace
<1>4. /\ backBuffer' = [backBuffer EXCEPT ![end'] = Zero]
      /\ start' = start /\ rest' = rest
  BY DEF Backspace
<1>5. RingTyped'
  <2>1. end' \in Places
    BY <1>1, <1>2, <1>3 DEF Places
  <2>2. backBuffer' \in [Places -> Symbols]
    BY <1>4 DEF RingTyped, Symbols
  <2>3. QED
    BY <1>4, <2>1, <2>2 DEF RingTyped
<1>6. /\ RingSize \in 0 .. Capacity - 1
      /\ Get = [i \in 1 .. RingSize |-> backBuffer[Place(start, i)]]
      /\ \A i \in 1 .. RingSize : Place(start, i) \in Places
      /\ Get \in Seq(Symbols)
      /\ Len(Get) = RingSize
  BY GetIs DEF GetFacts
<1>a. GetFacts'
  BY <1>5, GetIs, PTL
<1>7. /\ RingSize' \in 0 .. Capacity - 1
      /\ Get' = [i \in 1 .. RingSize' |-> backBuffer'[Place(start', i)]]
      /\ Get' \in Seq(Symbols)
      /\ Len(Get') = RingSize'
  BY <1>a DEF GetFacts
<1>8. RingSize' = RingSize - 1 /\ RingSize > 0
  BY <1>1, <1>2, <1>3, <1>4 DEF RingSize
<1>9. ASSUME NEW i \in 1 .. RingSize'
      PROVE  Get'[i] = SubSeq(Get, 1, RingSize - 1)[i]
  <2>1. i \in 1 .. RingSize
    BY <1>6, <1>8
  <2>2. Place(start, i) # end'
    BY <1>1, <1>2, <1>3, <1>8, <2>1 DEF Place, RingSize
  <2>3. Get'[i] = Get[i]
    BY <1>4, <1>6, <1>7, <2>1, <2>2 DEF RingTyped
  <2>4. SubSeq(Get, 1, RingSize - 1)[i] = Get[i]
    BY <1>6, <1>8, <2>1
  <2>5. QED
    BY <2>3, <2>4
<1>10. /\ SubSeq(Get, 1, RingSize - 1) \in Seq(Symbols)
       /\ Len(SubSeq(Get, 1, RingSize - 1)) = RingSize'
  BY <1>6, <1>8
<1>11. Get' = SubSeq(Get, 1, Len(Get) - 1)
  BY <1>6, <1>7, <1>9, <1>10, SeqEqual
<1>12. Get # <<>>
  BY <1>6, <1>8
<1>13. QED
  BY <1>5, <1>11, <1>12 DEF Line!Erase

\* clear (circularBuffer.h:20-25) leaves nothing.
LEMMA ClearEmpties ==
    ASSUME RingTyped, Clear
    PROVE  RingTyped' /\ Line!Empty
<1>1. Capacity \in Nat /\ Capacity > 0
  BY RingAssumption
<1>2. RingTyped'
  BY <1>1 DEF RingTyped, Clear, Places, Symbols
<1>3. RingSize' = 0
  BY DEF Clear, RingSize
<1>a. GetFacts'
  BY <1>2, GetIs, PTL
<1>4. Len(Get') = 0 /\ Get' \in Seq(Symbols)
  BY <1>3, <1>a DEF GetFacts
<1>5. QED
  BY <1>2, <1>4 DEF Line!Empty

\* The type of the indices is an invariant of every step, and every step is a step
\* of EditLine or leaves what get() returns alone.
LEMMA RingStep ==
    ASSUME RingTyped, [RingNext]_ringVars
    PROVE  RingTyped' /\ [Line!LineNext]_Get
<1>1. ASSUME NEW c \in Characters, AppendOne(c)
      PROVE  RingTyped' /\ Line!LineNext
  <2>1. c \in Symbols /\ Put(c) /\ rest' \in Seq(Symbols)
    BY <1>1 DEF AppendOne, RingTyped, Symbols
  <2>2. QED
    BY <2>1, PutTyped, PutAdds DEF Line!LineNext
<1>2. ASSUME NEW s \in Strings, AppendString(s)
      PROVE  RingTyped' /\ Get' = Get
  <2>1. s \in Seq(Symbols) /\ Capacity \in Nat /\ Capacity > 0
    BY RingAssumption DEF Symbols
  <2>2. Last(s) \in Seq(Symbols)
    BY <2>1 DEF Last
  <2>3. QED
    BY <1>2, <2>2 DEF AppendString, RingTyped, Get, RingSize
<1>3. ASSUME Copy
      PROVE  RingTyped' /\ [Line!LineNext]_Get
  <2>1. Head(rest) \in Symbols /\ Tail(rest) \in Seq(Symbols)
    BY <1>3 DEF Copy, RingTyped
  <2>2. CASE Head(rest) = Zero
    BY <1>3, <2>2 DEF Copy, RingTyped, Get, RingSize
  <2>3. CASE Head(rest) # Zero
    <3>1. Head(rest) \in Characters /\ Put(Head(rest)) /\ rest' \in Seq(Symbols)
      BY <1>3, <2>1, <2>3 DEF Copy, Symbols
    <3>2. QED
      BY <2>1, <3>1, PutTyped, PutAdds DEF Line!LineNext
  <2>4. QED
    BY <2>2, <2>3
<1>4. CASE Backspace
  BY <1>4, BackspaceErases DEF Line!LineNext
<1>5. CASE Clear
  BY <1>5, ClearEmpties DEF Line!LineNext
<1>6. CASE UNCHANGED ringVars
  BY <1>6 DEF ringVars, RingTyped, Get, RingSize
<1>7. QED
  BY <1>1, <1>2, <1>3, <1>4, <1>5, <1>6 DEF RingNext

\* Each call does to the line what it is for.
LEMMA RingAsAsked ==
    ASSUME RingTyped
    PROVE  AsAsked
<1>1. ASSUME NEW c \in Characters, AppendOne(c)
      PROVE  Line!Add(c)
  <2>1. c \in Symbols /\ Put(c) /\ rest' \in Seq(Symbols)
    BY <1>1 DEF AppendOne, RingTyped, Symbols
  <2>2. QED
    BY <2>1, PutAdds
<1>2. ASSUME Copy, Head(rest) = Zero
      PROVE  Get' = Get
  BY <1>2 DEF Copy, Get, RingSize
<1>3. ASSUME Copy, Head(rest) # Zero
      PROVE  Line!Add(Head(rest))
  <2>1. Head(rest) \in Symbols /\ Put(Head(rest)) /\ rest' \in Seq(Symbols)
    BY <1>3 DEF Copy, RingTyped
  <2>2. QED
    BY <2>1, PutAdds
<1>4. QED
  BY <1>1, <1>2, <1>3, BackspaceErases, ClearEmpties DEF AsAsked

LEMMA RingStart ==
    ASSUME RingInit
    PROVE  RingTyped /\ Line!LineInit
<1>1. RingTyped
  BY RingAssumption DEF RingInit, RingTyped, Places, Symbols
<1>2. Len(Get) = 0 /\ Get \in Seq(Symbols)
  BY <1>1, GetIs DEF GetFacts, RingInit, RingSize
<1>3. QED
  BY <1>1, <1>2 DEF Line!LineInit

\* The ring implements the line: get() returns the last BUFFER_SIZE - 1 characters
\* appended and not erased, for every size of the buffer (circularBuffer.h).
THEOREM LineTheorem == RingSpec => LineKept
<1>1. RingInit => RingTyped /\ Line!LineInit
  BY RingStart
<1>2. RingTyped /\ [RingNext]_ringVars => RingTyped' /\ [Line!LineNext]_Get
  BY RingStep
<1>3. RingTyped => AsAsked
  BY RingAsAsked
<1>4. QED
  BY <1>1, <1>2, <1>3, PTL DEF RingSpec, LineKept, Line!LineSpec
=============================================================================
