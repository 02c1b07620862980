-------------------------- MODULE SundaySearchProofs --------------------------
(* Theorems about SundaySearch, for any terminator and any contents of the  *)
(* buffer and of the memory after it.                                       *)
EXTENDS SundaySearch, WellFoundedInduction, TLAPS

LEMMA WidthIsPositive == Width \in Nat \ {0} /\ DOMAIN Until = 1..Width
  BY SearchAssumption DEF Width

\* A shift by char_step(c) moves the window on, and aligns c with an equal
\* character of Until or with none.
LEMMA CharStep ==
    ASSUME NEW c
    PROVE  /\ char_step(c) \in 1..(Width + 1)
           /\ \A i \in 1..Width : Until[i] = c => i <= Width + 1 - char_step(c)
  <1> DEFINE at == {i \in DOMAIN Until : Until[i] = c}
             from == {n \in 1..Width : Width + 1 - n \in at}
  <1>1. CASE at = {}
    BY <1>1, WidthIsPositive DEF char_step
  <1>2. CASE at # {}
    <2>1. PICK n \in from : \A m \in from : n <= m
      <3>1. from \subseteq Nat
        OBVIOUS
      <3>2. from # {}
        <4>1. PICK i \in 1..Width : i \in at
          BY <1>2, WidthIsPositive
        <4>2. Width + 1 - i \in 1..Width /\ Width + 1 - (Width + 1 - i) = i
          BY WidthIsPositive
        <4>3. QED
          BY <4>1, <4>2
      <3>3. PICK n \in from : \A m \in from : <<m, n>> \notin OpToRel(<, Nat)
        <4> HIDE DEF from
        <4> DEFINE less == OpToRel(<, Nat)
        <4>1. IsWellFoundedOn(less, Nat)
          BY NatLessThanWellFounded
        <4> HIDE DEF less
        <4>2. \E n \in from : \A m \in from : <<m, n>> \notin less
          BY <3>1, <3>2, <4>1, WFMin
        <4>3. QED
          BY <4>2 DEF less
      <3>4. \A m \in from : ~(m < n)
        BY <3>1, <3>3 DEF OpToRel
      <3>5. QED
        BY <3>1, <3>4
    <2>2. \A i \in at : i <= Width + 1 - n
      <3>1. SUFFICES ASSUME NEW i \in at
                     PROVE  i <= Width + 1 - n
        OBVIOUS
      <3>2. i \in 1..Width
        BY WidthIsPositive
      <3>3. Width + 1 - i \in 1..Width /\ Width + 1 - (Width + 1 - i) = i
        BY <3>2, WidthIsPositive
      <3>4. n <= Width + 1 - i
        BY <2>1, <3>3
      <3>5. QED
        BY <3>2, <3>4, WidthIsPositive
    <2>3. Width + 1 - n \in at
      BY <2>1
    <2> HIDE DEF at
    <2> DEFINE step == CHOOSE k \in 1..Width : /\ Width + 1 - k \in at
                                               /\ \A i \in at : i <= Width + 1 - k
    <2>4. step \in 1..Width /\ \A i \in at : i <= Width + 1 - step
      <3>1. n \in 1..Width
        BY <2>1
      <3>2. QED
        BY <2>2, <2>3, <3>1
    <2>5. char_step(c) = step
      BY <1>2 DEF char_step, at
    <2> HIDE DEF step
    <2>6. QED
      BY <2>4, <2>5, WidthIsPositive DEF at
  <1>3. QED
    BY <1>1, <1>2
-----------------------------------------------------------------------------
LEMMA MemoryTyped == TypeOK => /\ Len(mem) \in Nat
                               /\ mem \in [1..Len(mem) -> Chars]
  BY DEF TypeOK

LEMMA InitIInv == Init => IInv
  <1> SUFFICES ASSUME Init
               PROVE  IInv
    OBVIOUS
  <1> USE SearchAssumption, WidthIsPositive DEF Init
  <1>1. size + Slack \in Nat /\ size <= size + Slack
    OBVIOUS
  <1>2. mem \in Seq(Chars) /\ Len(mem) = size + Slack
    BY <1>1
  <1>3. TypeOK
    BY <1>1, <1>2 DEF TypeOK
  <1>4. MatchedSoFar
    BY DEF MatchedSoFar
  <1>5. \A q \in Occurrences : q \in Nat /\ q + Width <= size
    BY DEF Occurrences, OccursAt
  <1>6. NothingSkipped
    BY <1>5 DEF NothingSkipped
  <1>7. FindsFirst
    BY <1>5 DEF FindsFirst
  <1>8. CompleteIsSafe
    BY <1>5 DEF CompleteIsSafe
  <1>9. QED
    BY <1>3, <1>4, <1>6, <1>7, <1>8 DEF IInv

LEMMA OccurrencesInBuffer ==
    TypeOK => \A q \in Occurrences : q \in Nat /\ q + Width <= size
  BY MemoryTyped DEF TypeOK, Occurrences, OccursAt

\* What the contents of the buffer say does not change.
LEMMA BufferKept ==
    ASSUME UNCHANGED <<mem, size>>
    PROVE  Occurrences' = Occurrences /\ (Ascii <=> Ascii') /\ Width' = Width
  BY DEF Occurrences, OccursAt, Ascii, Width

LEMMA CompareKeepsIInv == IInv /\ Compare => IInv'
  <1> SUFFICES ASSUME IInv, Compare
               PROVE  IInv'
    OBVIOUS
  <1> USE WidthIsPositive, BufferKept
  <1>1. TypeOK' /\ subind \in 0..Width /\ subind < Width
    BY DEF IInv, TypeOK, NothingSkipped, Compare
  <1>2. MatchedSoFar'
    <2>1. SUFFICES ASSUME NEW i \in 1..subind'
                   PROVE  mem[tmp + i] = Until[i]
      BY DEF MatchedSoFar, Compare
    <2>2. CASE i = subind + 1
      BY <2>2, <1>1 DEF Compare, Matches, At, IInv, TypeOK
    <2>3. CASE i \in 1..subind
      BY <2>3 DEF IInv, MatchedSoFar
    <2>4. QED
      BY <1>1, <2>2, <2>3 DEF Compare
  <1>3. NothingSkipped'
    BY <1>1 DEF IInv, NothingSkipped, Compare
  <1>4. FindsFirst'
    <2>1. CASE result' = "found" /\ tmp + Width <= size
      <3>1. \A i \in 1..Width : mem[tmp + i] = Until[i]
        BY <1>2, <2>1, <1>1 DEF MatchedSoFar, Compare
      <3>2. tmp \in Occurrences
        BY <2>1, <3>1 DEF Occurrences, OccursAt, IInv, TypeOK
      <3>3. First(tmp)
        BY <3>2 DEF First, IInv, NothingSkipped, Compare
      <3>4. QED
        BY <2>1, <3>3 DEF FindsFirst, First, Compare
    <2>2. QED
      BY <2>1 DEF FindsFirst, Compare
  <1>5. CompleteIsSafe'
    BY DEF IInv, CompleteIsSafe, Compare
  <1>6. QED
    BY <1>1, <1>2, <1>3, <1>4, <1>5 DEF IInv

\* A window that does not match is before every occurrence.
LEMMA MismatchIsBefore ==
    ASSUME IInv, Mismatch
    PROVE  \A q \in Occurrences : tmp < q
  <1>1. SUFFICES ASSUME NEW q \in Occurrences, q = tmp
                 PROVE  FALSE
    BY DEF IInv, NothingSkipped, Mismatch, Occurrences, TypeOK
  <1>2. subind + 1 \in 1..Width /\ subind \in Nat
    BY WidthIsPositive DEF IInv, TypeOK, NothingSkipped, Mismatch
  <1>3. mem[tmp + (subind + 1)] = Until[subind + 1]
    BY <1>1, <1>2 DEF Occurrences, OccursAt
  <1>4. tmp + (subind + 1) = tmp + subind + 1
    BY <1>2 DEF IInv, TypeOK
  <1>5. QED
    BY <1>3, <1>4 DEF Mismatch, Matches, At

LEMMA GiveUpKeepsIInv == IInv /\ GiveUp => IInv'
  <1> SUFFICES ASSUME IInv, GiveUp
               PROVE  IInv'
    OBVIOUS
  <1> USE WidthIsPositive, BufferKept
  <1>1. TypeOK' /\ MatchedSoFar' /\ NothingSkipped' /\ CompleteIsSafe'
    BY DEF IInv, TypeOK, MatchedSoFar, NothingSkipped, CompleteIsSafe, GiveUp
  <1>2. Occurrences = {}
    <2>1. \A q \in Occurrences : tmp < q /\ q + Width <= size /\ q \in Nat
      BY MismatchIsBefore, OccurrencesInBuffer DEF GiveUp, IInv
    <2>2. QED
      BY <2>1 DEF GiveUp, TooShort, IInv, TypeOK
  <1>3. FindsFirst'
    BY <1>2 DEF FindsFirst, GiveUp
  <1>4. QED
    BY <1>1, <1>3 DEF IInv

\* The window moves to no later place than the first occurrence: the character
\* right after it is part of every occurrence that the new one would skip.
LEMMA ShiftSkipsNothing ==
    ASSUME IInv, Shift
    PROVE  \A q \in Occurrences : tmp' <= q
  <1> DEFINE c == At(tmp + Width)
             s == char_step(c)
  <1>1. /\ tmp \in Nat /\ Width \in Nat
        /\ s \in 1..(Width + 1) /\ tmp' = tmp + s
        /\ \A i \in 1..Width : Until[i] = c => i <= Width + 1 - s
    BY CharStep, WidthIsPositive DEF Shift, IInv, TypeOK
  <1> HIDE DEF s
  <1>2. SUFFICES ASSUME NEW q \in Occurrences, q < tmp + s
                 PROVE  FALSE
    BY <1>1 DEF Occurrences, IInv, TypeOK
  <1>3. tmp < q /\ q \in Nat
    BY MismatchIsBefore DEF Shift, Occurrences, IInv, TypeOK
  <1> DEFINE i == tmp + Width + 1 - q
  <1>4. i \in 1..Width /\ q + i = tmp + Width + 1
    BY <1>1, <1>2, <1>3
  <1> HIDE DEF i
  <1>5. Until[i] = c
    BY <1>4 DEF Occurrences, OccursAt, At
  <1>6. i <= Width + 1 - s
    BY <1>1, <1>4, <1>5
  <1>7. QED
    BY <1>1, <1>2, <1>3, <1>4, <1>6

LEMMA ShiftKeepsIInv == IInv /\ Shift => IInv'
  <1> SUFFICES ASSUME IInv, Shift
               PROVE  IInv'
    OBVIOUS
  <1> USE WidthIsPositive, BufferKept
  <1>1. tmp \in Nat /\ tmp' \in Nat
    BY CharStep DEF Shift, IInv, TypeOK
  <1>2. TypeOK'
    BY <1>1 DEF Shift, Mismatch, IInv, TypeOK
  <1>3. MatchedSoFar'
    BY DEF MatchedSoFar, Shift
  <1>4. \A q \in Occurrences : tmp' <= q /\ q \in Nat /\ q + Width <= size
    BY ShiftSkipsNothing DEF Occurrences, OccursAt, IInv, TypeOK
  <1>5. NothingSkipped'
    BY <1>4 DEF NothingSkipped, Shift, Mismatch
  <1>6. result' = "exit" => Occurrences = {}
    BY <1>4, <1>1 DEF Shift, Mismatch, IInv, TypeOK
  <1>7. FindsFirst'
    BY <1>6 DEF FindsFirst, Shift, Mismatch
  <1>8. CompleteIsSafe'
    BY <1>4, <1>1 DEF CompleteIsSafe, Shift, Mismatch, IInv, TypeOK
  <1>9. QED
    BY <1>2, <1>3, <1>5, <1>7, <1>8 DEF IInv

\* As long as an occurrence lies ahead, the window and the character after a
\* mismatching one are in the buffer.
LEMMA GoWildKeepsIInv == IInv /\ GoWild => IInv'
  <1> SUFFICES ASSUME IInv, GoWild
               PROVE  IInv'
    OBVIOUS
  <1> USE WidthIsPositive, BufferKept
  <1>1. TypeOK' /\ MatchedSoFar' /\ NothingSkipped' /\ FindsFirst'
    BY DEF IInv, TypeOK, MatchedSoFar, NothingSkipped, FindsFirst, GoWild
  <1>2. ASSUME Occurrences # {}, Ascii
        PROVE  FALSE
    <2>1. PICK q \in Occurrences : TRUE
      BY <1>2
    <2>2. tmp <= q /\ q \in Nat /\ q + Width <= size /\ tmp \in Nat
      BY <2>1, OccurrencesInBuffer DEF IInv, NothingSkipped, GoWild, TypeOK
    <2>3. size \in Nat /\ size <= Len(mem) /\ Len(mem) \in Nat
      BY MemoryTyped DEF IInv, TypeOK
    <2>4. Readable(tmp + subind)
      BY <2>2, <2>3 DEF Readable, IInv, TypeOK, NothingSkipped, GoWild
    <2>5. Mismatch
      BY <2>4 DEF GoWild
    <2>6. tmp + Width < size
      BY <2>2, <2>3, <2>5, MismatchIsBefore
    <2>7. Readable(tmp + Width) /\ At(tmp + Width) \notin Negative
      BY <2>2, <2>3, <2>6, <1>2 DEF Readable, At, Ascii
    <2>8. QED
      BY <2>4, <2>7 DEF GoWild
  <1>3. CompleteIsSafe'
    BY <1>2 DEF CompleteIsSafe, GoWild
  <1>4. QED
    BY <1>1, <1>3 DEF IInv

LEMMA SearchInvariant == Spec => []IInv
  <1>1. IInv /\ [Next]_vars => IInv'
    <2>1. IInv /\ UNCHANGED vars => IInv'
      BY DEF IInv, TypeOK, MatchedSoFar, NothingSkipped, FindsFirst, First,
             CompleteIsSafe, Occurrences, OccursAt, Ascii, Width, vars
    <2>2. QED
      BY <2>1, CompareKeepsIInv, GiveUpKeepsIInv, ShiftKeepsIInv, GoWildKeepsIInv
      DEF Next
  <1>2. QED
    BY <1>1, InitIInv, PTL DEF Spec

\* Every variable of the search keeps its type: the deque iterators, the index
\* into the terminator and the way the search ended (stream.cpp:221-283).
THEOREM SearchTypeCorrect == Spec => []TypeOK
  BY SearchInvariant, PTL DEF IInv

\* __read_from_buffer never gives up on a buffer that holds the terminator, and
\* what it finds inside the buffer is the first occurrence, for any terminator.
THEOREM FirstIsFound == Spec => []FindsFirst
  BY SearchInvariant, PTL DEF IInv

\* When the buffer is ASCII and holds the terminator, __read_from_buffer neither
\* reads beyond the buffer nor indexes char_step with a negative char.
THEOREM CompleteHeaderIsSafe == Spec => []CompleteIsSafe
  BY SearchInvariant, PTL DEF IInv
===============================================================================
