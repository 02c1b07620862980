------------------------- MODULE ResponseFramingProofs -------------------------
(* Theorems about ResponseFraming, for any headers, bodies and numbers.      *)
EXTENDS ResponseFraming, HeaderOrderProofs, SequenceTheorems, FunctionTheorems,
        FiniteSetTheorems

-----------------------------------------------------------------------------
(* The order of a map.                                                       *)

\* What can be the keys of a HeaderMap.
IsKeys(D) ==
    /\ IsFiniteSet(D) /\ D \subseteq Text
    /\ \A k, l \in D : Equivalent(k, l) => k = l

\* They can be put in order, and then each of them is there once.
LEMMA InOrderIs ==
    ASSUME NEW D, IsKeys(D)
    PROVE  /\ Cardinality(D) \in Nat /\ InOrder(D) \in [1..Cardinality(D) -> D]
           /\ \A i, j \in 1..Cardinality(D) : InOrder(D)[i] = InOrder(D)[j] => i = j
           /\ \A k \in D : \E i \in 1..Cardinality(D) : InOrder(D)[i] = k
  <1> DEFINE N == Cardinality(D)
             upTo(k) == {j \in D : j = k \/ ci_less(j, k)}
             rank == [k \in D |-> Cardinality(upTo(k))]
  <1>1. N \in Nat /\ \A T \in SUBSET D : IsFiniteSet(T) /\ Cardinality(T) \in Nat
    <2>1. \A T \in SUBSET D : IsFiniteSet(T)
      BY FS_Subset DEF IsKeys
    <2>2. QED
      BY <2>1, FS_CardinalityType DEF IsKeys
  <1>2. ASSUME NEW j \in D, NEW k \in D, ci_less(j, k)
        PROVE  rank[j] < rank[k]
    <2>1. j \in Text /\ k \in Text /\ \A l \in D : l \in Text
      BY DEF IsKeys
    <2>2. upTo(j) \subseteq upTo(k)
      BY <1>2, <2>1, StrictWeakOrder
    <2>3. k \notin upTo(j)
      <3>1. k # j
        BY <1>2, <2>1, StrictWeakOrder
      <3>2. ~ci_less(k, j)
        BY <1>2, <2>1, StrictWeakOrder
      <3>3. QED
        BY <3>1, <3>2
    <2>4. IsFiniteSet(upTo(j)) /\ IsFiniteSet(upTo(k)) /\ Cardinality(upTo(j)) \in Nat
          /\ Cardinality(upTo(k)) \in Nat
      BY <1>1
    <2>5. Cardinality(upTo(j) \cup {k}) = Cardinality(upTo(j)) + 1
      BY <2>3, <2>4, FS_AddElement
    <2>6. upTo(j) \cup {k} \in SUBSET upTo(k)
      BY <2>2
    <2>7. Cardinality(upTo(j)) + 1 <= Cardinality(upTo(k))
      BY <2>4, <2>5, <2>6, FS_Subset
    <2>8. rank[j] = Cardinality(upTo(j)) /\ rank[k] = Cardinality(upTo(k))
      OBVIOUS
    <2>9. QED
      BY <2>4, <2>7, <2>8
  <1>3. rank \in [D -> 1..N]
    <2>1. ASSUME NEW k \in D
          PROVE  Cardinality(upTo(k)) \in 1..N
      <3>1. upTo(k) \in SUBSET D /\ {k} \in SUBSET upTo(k)
        OBVIOUS
      <3>2. IsFiniteSet(upTo(k)) /\ Cardinality(upTo(k)) \in Nat /\ IsFiniteSet(D)
        BY <1>1, <3>1 DEF IsKeys
      <3>3. Cardinality(upTo(k)) <= N
        BY <3>1, <3>2, FS_Subset
      <3>4. Cardinality({k}) <= Cardinality(upTo(k)) /\ Cardinality({k}) = 1
        BY <3>1, <3>2, FS_Subset, FS_Singleton
      <3>5. QED
        BY <1>1, <3>2, <3>3, <3>4
    <2>2. QED
      BY <2>1
  <1>4. \A j, k \in D : j # k => ci_less(j, k) \/ ci_less(k, j)
    BY DEF IsKeys, Equivalent
  <1> HIDE DEF rank, N
  <1>5. \A j, k \in D : rank[j] = rank[k] => j = k
    BY <1>2, <1>3, <1>4
  <1>6. \A i \in 1..N : \E k \in D : rank[k] = i
    <2>1. rank \in Injection(D, 1..N)
      BY <1>3, <1>5, Fun_IsInj
    <2>2. IsFiniteSet(1..N) /\ Cardinality(1..N) = N
      BY <1>1, FS_Interval
    <2>3. rank \in Surjection(D, 1..N)
      BY <2>1, <2>2, FS_Injection DEF N
    <2>4. QED
      BY <2>3, Fun_SurjectionProperties
  <1> DEFINE inverse == [i \in 1..N |-> CHOOSE k \in D : rank[k] = i]
             Ordered(s) == \A i, j \in DOMAIN s : i < j => s[i] # s[j] /\ ~ci_less(s[j], s[i])
  <1>7. inverse \in [1..N -> D] /\ Ordered(inverse)
    <2>1. \A i \in 1..N : inverse[i] \in D /\ rank[inverse[i]] = i
      BY <1>6
    <2>2. inverse \in [1..N -> D]
      BY <2>1
    <2>3. ASSUME NEW i \in 1..N, NEW j \in 1..N, i < j
          PROVE  inverse[i] # inverse[j] /\ ~ci_less(inverse[j], inverse[i])
      <3>1. ~ci_less(inverse[j], inverse[i])
        BY <1>2, <2>1, <2>3
      <3>2. inverse[i] # inverse[j]
        BY <2>1, <2>3
      <3>3. QED
        BY <3>1, <3>2
    <2>4. QED
      BY <2>2, <2>3
  <1> HIDE DEF inverse
  <1> DEFINE s == InOrder(D)
  <1>8. s \in [1..N -> D] /\ Ordered(s)
    BY <1>7 DEF InOrder, N
  <1> HIDE DEF s
  <1>9. ASSUME NEW i \in 1..N, NEW j \in 1..N, s[i] = s[j]
        PROVE  i = j
    BY <1>1, <1>8, <1>9
  <1>10. \A k \in D : \E i \in 1..N : s[i] = k
    <2>1. s \in Injection(1..N, D)
      BY <1>8, <1>9, Fun_IsInj
    <2>2. Cardinality(1..N) = N
      BY <1>1, FS_Interval
    <2>3. s \in Surjection(1..N, D)
      BY <2>1, <2>2, FS_Injection DEF N, IsKeys
    <2>4. QED
      BY <2>3 DEF Surjection
  <1>11. QED
    BY <1>1, <1>8, <1>9, <1>10 DEF s, N

\* WithType adds at most one key, and then there is one Content-Type.
LEMMA WithTypeIs ==
    ASSUME NEW map, IsKeys(DOMAIN map), NEW w, w = WithType(map)
    PROVE  /\ IsKeys(DOMAIN w) /\ DOMAIN map \subseteq DOMAIN w
           /\ \A k \in DOMAIN map : w[k] = map[k]
           /\ \A k \in DOMAIN w : k \in DOMAIN map \/ k = ContentType
           /\ \E k \in DOMAIN w : Equivalent(k, ContentType)
  <1>1. ContentType \in Text /\ Equivalent(ContentType, ContentType)
    BY FramingAssumption, StrictWeakOrder DEF Equivalent
  <1>2. CASE \E k \in DOMAIN map : Equivalent(k, ContentType)
    <2>1. w = map
      BY <1>2 DEF WithType, Has, Spelling
    <2>2. QED
      BY <1>2, <2>1
  <1>3. CASE ~\E k \in DOMAIN map : Equivalent(k, ContentType)
    <2>1. Spelling(map, ContentType) = ContentType
      BY <1>3 DEF Spelling
    <2>2. ContentType \notin DOMAIN map
      BY <1>1, <1>3
    <2>3. /\ DOMAIN w = DOMAIN map \cup {ContentType}
          /\ \A k \in DOMAIN map : w[k] = map[k]
      BY <2>1, <2>2 DEF WithType, Has, Put
    <2>4. IsKeys(DOMAIN w)
      <3>1. IsFiniteSet(DOMAIN w)
        BY <2>3, FS_AddElement DEF IsKeys
      <3>2. \A k \in DOMAIN map : ~Equivalent(k, ContentType) /\ ~Equivalent(ContentType, k)
        BY <1>3 DEF Equivalent
      <3>3. QED
        BY <1>1, <2>3, <3>1, <3>2 DEF IsKeys
    <2>5. QED
      BY <1>1, <2>3, <2>4
  <1>4. QED
    BY <1>2, <1>3

-----------------------------------------------------------------------------
(* Sequences of whatever there is.                                           *)

IsSeq(s) == \E S : s \in Seq(S)

LEMMA SeqIs ==
    ASSUME NEW s, IsSeq(s)
    PROVE  Len(s) \in Nat /\ DOMAIN s = 1..Len(s) /\ (s = <<>> <=> Len(s) = 0)
  <1>1. PICK S : s \in Seq(S)
    BY DEF IsSeq
  <1>2. QED
    BY <1>1, LenProperties, EmptySeq

LEMMA SameSeq ==
    ASSUME NEW s, IsSeq(s), NEW t, IsSeq(t), Len(s) = Len(t), \A i \in 1..Len(s) : s[i] = t[i]
    PROVE  s = t
  <1>1. PICK S, T : s \in Seq(S) /\ t \in Seq(T)
    BY DEF IsSeq
  <1>2. s \in Seq(S \cup T) /\ t \in Seq(S \cup T)
    BY <1>1, SeqMonotonic
  <1>3. QED
    BY <1>2, SeqEqual

LEMMA FunctionIsSeq ==
    ASSUME NEW n \in Nat, NEW S, NEW s \in [1..n -> S]
    PROVE  IsSeq(s) /\ Len(s) = n
  <1>1. s \in Seq(S)
    BY SeqDef
  <1>2. QED
    BY <1>1, LenProperties DEF IsSeq

IsConcat(u, s, t) ==
    /\ IsSeq(u) /\ Len(u) = Len(s) + Len(t)
    /\ \A i \in 1..Len(s) : u[i] = s[i]
    /\ \A i \in 1..Len(t) : u[Len(s) + i] = t[i]

LEMMA ConcatIs ==
    ASSUME NEW s, IsSeq(s), NEW t, IsSeq(t)
    PROVE  IsConcat(s \o t, s, t)
  <1>1. PICK S, T : s \in Seq(S) /\ t \in Seq(T)
    BY DEF IsSeq
  <1>2. s \in Seq(S \cup T) /\ t \in Seq(S \cup T)
    BY <1>1, SeqMonotonic
  <1>3. /\ IsSeq(s \o t) /\ Len(s \o t) = Len(s) + Len(t)
        /\ \A i \in 1..(Len(s) + Len(t)) :
             (s \o t)[i] = IF i <= Len(s) THEN s[i] ELSE t[i - Len(s)]
    BY <1>2, ConcatProperties DEF IsSeq
  <1>4. Len(s) \in Nat /\ Len(t) \in Nat
    BY SeqIs
  <1>5. ASSUME NEW i \in 1..Len(t)
        PROVE  (s \o t)[Len(s) + i] = t[i]
    <2>1. Len(s) + i \in 1..(Len(s) + Len(t)) /\ ~(Len(s) + i <= Len(s)) /\ (Len(s) + i) - Len(s) = i
      BY <1>4
    <2>2. QED
      BY <1>3, <2>1
  <1>6. QED
    BY <1>3, <1>4, <1>5 DEF IsConcat

LEMMA AppendIs ==
    ASSUME NEW s, IsSeq(s), NEW e
    PROVE  /\ IsSeq(Append(s, e)) /\ Len(Append(s, e)) = Len(s) + 1
           /\ \A i \in 1..Len(s) : Append(s, e)[i] = s[i]
           /\ Append(s, e)[Len(s) + 1] = e
  <1>1. PICK S : s \in Seq(S)
    BY DEF IsSeq
  <1>2. s \in Seq(S \cup {e}) /\ e \in S \cup {e}
    BY <1>1, SeqMonotonic
  <1>3. QED
    BY <1>2, AppendProperties DEF IsSeq

LEMMA TailIs ==
    ASSUME NEW s, IsSeq(s), s # <<>>
    PROVE  /\ IsSeq(Tail(s)) /\ Len(Tail(s)) = Len(s) - 1 /\ Head(s) = s[1]
           /\ \A i \in 1..(Len(s) - 1) : Tail(s)[i] = s[i + 1]
  <1>1. PICK S : s \in Seq(S)
    BY DEF IsSeq
  <1>2. QED
    BY <1>1, HeadTailProperties DEF IsSeq

LEMMA SmallSeqs == /\ IsSeq(<<>>) /\ Len(<<>>) = 0
                   /\ \A a : IsSeq(<<a>>) /\ Len(<<a>>) = 1 /\ <<a>>[1] = a
                   /\ \A a, b : /\ IsSeq(<<a, b>>) /\ Len(<<a, b>>) = 2
                                /\ <<a, b>>[1] = a /\ <<a, b>>[2] = b
  <1>1. \A a : <<a>> \in Seq({a})
    OBVIOUS
  <1>2. \A a, b : <<a, b>> \in Seq({a, b})
    OBVIOUS
  <1>3. <<>> \in Seq({})
    OBVIOUS
  <1>4. QED
    BY <1>1, <1>2, <1>3 DEF IsSeq

LEMMA Associative ==
    ASSUME NEW s, IsSeq(s), NEW t, IsSeq(t), NEW u, IsSeq(u)
    PROVE  (s \o t) \o u = s \o (t \o u)
  <1>1. PICK S, T, U : s \in Seq(S) /\ t \in Seq(T) /\ u \in Seq(U)
    BY DEF IsSeq
  <1>2. s \in Seq(S \cup T \cup U) /\ t \in Seq(S \cup T \cup U) /\ u \in Seq(S \cup T \cup U)
    BY <1>1, SeqMonotonic
  <1>3. QED
    BY <1>2, ConcatAssociative

-----------------------------------------------------------------------------
(* What is in a package.                                                     *)

IsBody(b) == IsSeq(b) /\ Len(b) \in DOMAIN Decimal

LEMMA BodiesAreBodies ==
    /\ \A b \in Bodies \cup {ErrorPage} : IsBody(b)
    /\ \A b : IsBody(b) => IsSeq(Bytes(b)) /\ Len(Bytes(b)) = Len(b)
                           /\ \A i \in 1..Len(b) : Bytes(b)[i] = Byte(b[i])
  <1>1. ASSUME NEW b \in Bodies \cup {ErrorPage}
        PROVE  IsBody(b)
    <2>1. b = [i \in 1..Len(b) |-> b[i]] /\ Len(b) \in DOMAIN Decimal /\ Len(b) \in Nat
      BY FramingAssumption
    <2>2. b \in [1..Len(b) -> {b[i] : i \in 1..Len(b)}]
      BY <2>1
    <2>3. QED
      BY <2>1, <2>2, FunctionIsSeq DEF IsBody
  <1>2. ASSUME NEW b, IsBody(b)
        PROVE  /\ IsSeq(Bytes(b)) /\ Len(Bytes(b)) = Len(b)
               /\ \A i \in 1..Len(b) : Bytes(b)[i] = Byte(b[i])
    <2>1. DOMAIN b = 1..Len(b) /\ Len(b) \in Nat
      BY <1>2, SeqIs DEF IsBody
    <2>2. /\ Bytes(b) \in [1..Len(b) -> {Byte(b[i]) : i \in 1..Len(b)}]
          /\ \A i \in 1..Len(b) : Bytes(b)[i] = Byte(b[i])
      BY <2>1 DEF Bytes
    <2>3. QED
      BY <2>1, <2>2, FunctionIsSeq
  <1>3. QED
    BY <1>1, <1>2

\* The Content-Lengths of lines 2 to j - 1, and those that the handler has set.
LengthsBefore(P, j) == {P[k].value : k \in {k \in 2..(j - 1) : Equivalent(P[k].name, ContentLength)}}

Own(r) == {r.headers[k] : k \in {k \in DOMAIN r.headers : Equivalent(k, ContentLength)}}

\* P is a response r: its line c is the one Content-Type, and line b ends the head.
IsPackage(P, r, b, c) ==
    /\ IsSeq(P) /\ IsBody(r.body) /\ b \in Nat /\ c \in 2..(b - 1)
    /\ Len(P) = b + Len(r.body)
    /\ P[1].kind = "status" /\ P[b].kind = "blank"
    /\ \A j \in 2..(b - 1) : /\ P[j].kind = "header"
                             /\ Equivalent(P[j].name, ContentType) <=> j = c
    /\ \A i \in 1..Len(r.body) : P[b + i] = Byte(r.body[i])
    /\ LengthsBefore(P, b) = Own(r) \cup (IF r.body = <<>> THEN {} ELSE {Decimal[Len(r.body)]})

\* The header lines of a response.
AreHeaders(h, r, c) ==
    /\ IsSeq(h) /\ c \in 1..Len(h)
    /\ \A i \in 1..Len(h) : /\ h[i].kind = "header"
                            /\ Equivalent(h[i].name, ContentType) <=> i = c
    /\ {h[i].value : i \in {i \in 1..Len(h) : Equivalent(h[i].name, ContentLength)}}
         = Own(r) \cup (IF r.body = <<>> THEN {} ELSE {Decimal[Len(r.body)]})

LEMMA Assembled ==
    ASSUME NEW r, IsBody(r.body), NEW h, NEW c, AreHeaders(h, r, c)
    PROVE  IsPackage(<<StatusLine>> \o h \o <<BlankLine>> \o Bytes(r.body), r, Len(h) + 2, c + 1)
  <1> DEFINE s == <<StatusLine>> \o h
             u == s \o <<BlankLine>>
             t == Bytes(r.body)
             P == u \o t
             N == Len(h)
  <1>1. IsSeq(h) /\ N \in Nat /\ c \in 1..N
    BY SeqIs DEF AreHeaders
  <1>2. /\ IsSeq(s) /\ Len(s) = N + 1 /\ s[1] = StatusLine
        /\ \A i \in 1..N : s[1 + i] = h[i]
    <2>1. IsSeq(<<StatusLine>>) /\ Len(<<StatusLine>>) = 1 /\ <<StatusLine>>[1] = StatusLine
      BY SmallSeqs
    <2>2. QED
      BY <1>1, <2>1, ConcatIs DEF IsConcat
  <1> HIDE DEF s
  <1>3. /\ IsSeq(u) /\ Len(u) = N + 2 /\ u[N + 2] = BlankLine
        /\ \A i \in 1..(N + 1) : u[i] = s[i]
    <2>1. IsSeq(<<BlankLine>>) /\ Len(<<BlankLine>>) = 1 /\ <<BlankLine>>[1] = BlankLine
      BY SmallSeqs
    <2>2. IsConcat(u, s, <<BlankLine>>)
      BY <1>2, <2>1, ConcatIs
    <2> HIDE DEF u
    <2>3. 1 \in 1..Len(<<BlankLine>>) /\ Len(s) + 1 = N + 2
      BY <1>1, <1>2, <2>1
    <2>4. u[N + 2] = BlankLine
      BY <2>1, <2>2, <2>3 DEF IsConcat
    <2>5. QED
      BY <1>1, <1>2, <2>1, <2>2, <2>4 DEF IsConcat
  <1> HIDE DEF u
  <1>4. IsSeq(t) /\ Len(t) = Len(r.body) /\ \A i \in 1..Len(r.body) : t[i] = Byte(r.body[i])
    BY BodiesAreBodies
  <1>5. P = <<StatusLine>> \o h \o <<BlankLine>> \o Bytes(r.body)
    BY DEF P, u, s, t
  <1> HIDE DEF t
  <1>6. /\ IsSeq(P) /\ Len(P) = N + 2 + Len(t) /\ \A i \in 1..(N + 2) : P[i] = u[i]
        /\ \A i \in 1..Len(t) : P[N + 2 + i] = t[i]
    <2>1. IsConcat(P, u, t)
      BY <1>3, <1>4, ConcatIs DEF P
    <2>2. QED
      BY <1>3, <2>1 DEF IsConcat
  <1> HIDE DEF P
  <1>7. /\ P[1] = StatusLine /\ P[N + 2] = BlankLine
        /\ \A i \in 1..N : P[i + 1] = h[i]
    <2>1. 1 \in 1..(N + 1) /\ 1 \in 1..(N + 2) /\ N + 2 \in 1..(N + 2)
      BY <1>1
    <2>2. P[1] = StatusLine /\ P[N + 2] = BlankLine
      BY <1>2, <1>3, <1>6, <2>1
    <2>3. ASSUME NEW i \in 1..N
          PROVE  P[i + 1] = h[i]
      <3>1. i + 1 \in 1..(N + 1) /\ i + 1 \in 1..(N + 2) /\ 1 + i = i + 1
        BY <1>1
      <3>2. P[i + 1] = u[i + 1] /\ u[i + 1] = s[i + 1] /\ s[1 + i] = h[i]
        BY <1>2, <1>3, <1>6, <3>1
      <3>3. QED
        BY <3>1, <3>2
    <2>4. QED
      BY <2>2, <2>3
  <1>8. \A j \in 2..(N + 1) : j - 1 \in 1..N /\ P[j] = h[j - 1]
    <2>1. \A j \in 2..(N + 1) : j - 1 \in 1..N /\ (j - 1) + 1 = j
      BY <1>1
    <2>2. QED
      BY <1>7, <2>1
  <1>9. LengthsBefore(P, N + 2)
          = {h[i].value : i \in {i \in 1..N : Equivalent(h[i].name, ContentLength)}}
    <2>1. \A i \in 1..N : i + 1 \in 2..(N + 1)
      BY <1>1
    <2>2. ASSUME NEW v \in LengthsBefore(P, N + 2)
          PROVE  v \in {h[i].value : i \in {i \in 1..N : Equivalent(h[i].name, ContentLength)}}
      <3>1. PICK j \in 2..(N + 1) : Equivalent(P[j].name, ContentLength) /\ v = P[j].value
        BY DEF LengthsBefore
      <3>2. QED
        BY <1>8, <3>1
    <2>3. ASSUME NEW i \in 1..N, Equivalent(h[i].name, ContentLength)
          PROVE  h[i].value \in LengthsBefore(P, N + 2)
      <3>1. i + 1 \in 2..(N + 1) /\ P[i + 1] = h[i]
        BY <1>7, <2>1
      <3>2. QED
        BY <2>3, <3>1 DEF LengthsBefore
    <2>4. QED
      BY <2>2, <2>3
  <1>10. \A j \in 2..(N + 1) :
           P[j].kind = "header" /\ (Equivalent(P[j].name, ContentType) <=> j = c + 1)
    <2>1. ASSUME NEW j \in 2..(N + 1)
          PROVE  j - 1 = c <=> j = c + 1
      BY <1>1
    <2>2. QED
      BY <1>8, <2>1 DEF AreHeaders
  <1>11. StatusLine.kind = "status" /\ BlankLine.kind = "blank"
    BY DEF StatusLine, BlankLine
  <1>12. /\ N + 2 \in Nat /\ c + 1 \in 2..(N + 1)
         /\ Len(P) = N + 2 + Len(r.body)
         /\ \A i \in 1..Len(r.body) : P[N + 2 + i] = Byte(r.body[i])
    <2>1. N + 2 \in Nat /\ c + 1 \in 2..(N + 1)
      BY <1>1
    <2>2. Len(P) = N + 2 + Len(r.body)
      BY <1>4, <1>6
    <2>3. \A i \in 1..Len(r.body) : P[N + 2 + i] = Byte(r.body[i])
      BY <1>4, <1>6
    <2>4. QED
      BY <2>1, <2>2, <2>3
  <1>13. LengthsBefore(P, N + 2)
           = Own(r) \cup (IF r.body = <<>> THEN {} ELSE {Decimal[Len(r.body)]})
    BY <1>9 DEF AreHeaders
  <1>14. IsSeq(P) /\ P[1].kind = "status" /\ P[N + 2].kind = "blank"
    BY <1>6, <1>7, <1>11
  <1>15. IsPackage(P, r, N + 2, c + 1)
    <2> DEFINE b == N + 2
               values == Own(r) \cup (IF r.body = <<>> THEN {} ELSE {Decimal[Len(r.body)]})
    <2>1. /\ IsBody(r.body) /\ b \in Nat /\ c + 1 \in 2..(b - 1) /\ IsSeq(P)
          /\ Len(P) = b + Len(r.body) /\ P[1].kind = "status" /\ P[b].kind = "blank"
          /\ LengthsBefore(P, b) = values
      BY <1>12, <1>13, <1>14
    <2>2. \A i \in 1..Len(r.body) : P[b + i] = Byte(r.body[i])
      BY <1>12
    <2>3. \A j \in 2..(b - 1) :
            P[j].kind = "header" /\ (Equivalent(P[j].name, ContentType) <=> j = c + 1)
      <3>1. b - 1 = N + 1
        BY <1>1
      <3>2. QED
        BY <1>10, <3>1, Zenon
    <2>4. IsPackage(P, r, b, c + 1)
      <3> HIDE DEF b
      <3>1. QED
        BY <2>1, <2>2, <2>3 DEF IsPackage, values
    <2>5. QED
      BY <2>4
  <1>16. QED
    BY <1>5, <1>15

LEMMA Names ==
    /\ ContentType \in Text /\ ContentLength \in Text
    /\ Equivalent(ContentType, ContentType) /\ Equivalent(ContentLength, ContentLength)
    /\ ~Equivalent(ContentType, ContentLength) /\ ~Equivalent(ContentLength, ContentType)
  <1>1. ContentType \in Text /\ ContentLength \in Text
        /\ ~Equivalent(ContentType, ContentLength)
    BY FramingAssumption
  <1>2. QED
    BY <1>1, StrictWeakOrder DEF Equivalent

LEMMA HeaderLines ==
    \A n, v : LET line == HeaderLine(n, v)
              IN  line.kind = "header" /\ line.name = n /\ line.value = v
  BY DEF HeaderLine

LEMMA PackageIs ==
    ASSUME NEW map \in HeaderMaps, NEW r, IsBody(r.body), r.headers = map
    PROVE  \E b, c : IsPackage(Package(map, r.body), r, b, c)
  <1> DEFINE w == WithType(map)
             D == DOMAIN w
             keys == InOrder(D)
             N == Cardinality(D)
             h == [i \in DOMAIN keys |-> HeaderLine(keys[i], w[keys[i]])]
             l == IF r.body # <<>> THEN LengthLine(r.body) ELSE <<>>
             v == Decimal[Len(r.body)]
  <1>1. IsKeys(DOMAIN map)
    BY FramingAssumption DEF IsKeys
  <1>2. /\ IsKeys(D) /\ DOMAIN map \subseteq D
        /\ \A k \in DOMAIN map : w[k] = map[k]
        /\ \A k \in D : k \in DOMAIN map \/ k = ContentType
        /\ \E k \in D : Equivalent(k, ContentType)
    BY <1>1, WithTypeIs
  <1>3. Package(map, r.body) = <<StatusLine>> \o h \o l \o <<BlankLine>> \o Bytes(r.body)
    BY DEF Package
  <1> HIDE DEF w
  <1>4. /\ N \in Nat /\ keys \in [1..N -> D]
        /\ \A i, j \in 1..N : keys[i] = keys[j] => i = j
        /\ \A k \in D : \E i \in 1..N : keys[i] = k
    BY <1>2, InOrderIs
  <1> HIDE DEF keys, N
  <1>5. /\ IsSeq(h) /\ Len(h) = N
        /\ \A i \in 1..N : /\ keys[i] \in D /\ h[i].kind = "header"
                           /\ h[i].name = keys[i] /\ h[i].value = w[keys[i]]
    <2>1. h \in [1..N -> {h[i] : i \in 1..N}]
      BY <1>4
    <2>2. \A i \in 1..N : h[i] = HeaderLine(keys[i], w[keys[i]]) /\ keys[i] \in D
      BY <1>4
    <2> HIDE DEF h
    <2>3. IsSeq(h) /\ Len(h) = N
      BY <1>4, <2>1, FunctionIsSeq
    <2>4. QED
      BY <2>2, <2>3, HeaderLines
  <1> HIDE DEF h
  <1>6. /\ IsSeq(l) /\ Len(l) = IF r.body = <<>> THEN 0 ELSE 1
        /\ r.body # <<>> => /\ l[1].kind = "header" /\ l[1].name = ContentLength
                            /\ l[1].value = v
    BY SmallSeqs, HeaderLines DEF LengthLine
  <1> HIDE DEF l
  <1>7. PICK c \in 1..N : \A i \in 1..N : Equivalent(keys[i], ContentType) <=> i = c
    <2>1. PICK k \in D : Equivalent(k, ContentType)
      BY <1>2
    <2>2. PICK c \in 1..N : keys[c] = k
      BY <1>4
    <2>3. ASSUME NEW i \in 1..N, Equivalent(keys[i], ContentType)
          PROVE  i = c
      <3>1. keys[i] \in Text /\ k \in Text /\ keys[i] \in D
        BY <1>2, <1>5 DEF IsKeys
      <3>2. Equivalent(keys[i], k)
        <4>1. Equivalent(ContentType, k)
          BY <2>1 DEF Equivalent
        <4>2. QED
          BY <2>3, <3>1, <4>1, Names, StrictWeakOrder
      <3>3. QED
        BY <1>2, <1>4, <2>2, <3>1, <3>2 DEF IsKeys
    <2>4. QED
      BY <2>1, <2>2, <2>3
  <1> DEFINE t == h \o l
  <1>8. /\ IsSeq(t) /\ Len(t) = N + Len(l)
        /\ \A i \in 1..N : t[i] = h[i]
        /\ \A i \in 1..Len(l) : t[N + i] = l[i]
    <2>1. IsConcat(t, h, l)
      BY <1>5, <1>6, ConcatIs
    <2> HIDE DEF t
    <2>2. QED
      BY <1>5, <2>1 DEF IsConcat
  <1>9. Package(map, r.body) = <<StatusLine>> \o t \o <<BlankLine>> \o Bytes(r.body)
    <2>1. (<<StatusLine>> \o h) \o l = <<StatusLine>> \o t
      BY <1>5, <1>6, Associative, SmallSeqs
    <2>2. QED
      BY <1>3, <2>1
  <1> HIDE DEF t
  <1>10. /\ r.body = <<>> => Len(t) = N
         /\ r.body # <<>> => /\ Len(t) = N + 1 /\ t[N + 1] = l[1]
                             /\ 1..(N + 1) = 1..N \cup {N + 1}
         /\ c \in 1..Len(t)
    BY <1>4, <1>6, <1>8
  <1>11. ASSUME NEW i \in 1..Len(t)
         PROVE  t[i].kind = "header" /\ (Equivalent(t[i].name, ContentType) <=> i = c)
    <2>1. CASE i \in 1..N
      BY <1>5, <1>7, <1>8, <2>1
    <2>2. CASE i \notin 1..N
      <3>1. r.body # <<>> /\ i = N + 1 /\ i # c
        BY <1>4, <1>10, <2>2
      <3>2. t[i].kind = "header" /\ t[i].name = ContentLength
        BY <1>6, <1>10, <3>1
      <3>3. QED
        BY <3>1, <3>2, Names
    <2>3. QED
      BY <2>1, <2>2
  <1>12. {t[i].value : i \in {i \in 1..Len(t) : Equivalent(t[i].name, ContentLength)}}
           = Own(r) \cup (IF r.body = <<>> THEN {} ELSE {v})
    <2> DEFINE Values == {t[i].value : i \in {i \in 1..Len(t) : Equivalent(t[i].name, ContentLength)}}
    <2>1. \A i \in 1..N : /\ i \in 1..Len(t) /\ t[i].name = keys[i] /\ t[i].value = w[keys[i]]
                          /\ keys[i] \in D
      BY <1>4, <1>5, <1>8, <1>10
    <2>2. Own(r) \subseteq Values
      <3>1. ASSUME NEW k \in DOMAIN map, Equivalent(k, ContentLength)
            PROVE  map[k] \in Values
        <4>1. PICK i \in 1..N : keys[i] = k
          BY <1>2, <1>4
        <4>2. i \in 1..Len(t) /\ t[i].name = k /\ t[i].value = map[k]
          BY <1>2, <2>1, <4>1
        <4>3. QED
          BY <3>1, <4>2
      <3>2. QED
        BY <3>1 DEF Own
    <2>3. r.body # <<>> => v \in Values
      <3>1. ASSUME r.body # <<>> PROVE N + 1 \in 1..Len(t) /\ t[N + 1] = l[1]
        BY <1>4, <1>10, <3>1
      <3>2. QED
        BY <1>6, <3>1, Names
    <2>4. ASSUME NEW i \in 1..Len(t), Equivalent(t[i].name, ContentLength)
          PROVE  t[i].value \in Own(r) \/ (r.body # <<>> /\ t[i].value = v)
      <3>1. CASE i \in 1..N
        <4>1. keys[i] \in D /\ Equivalent(keys[i], ContentLength) /\ t[i].value = w[keys[i]]
          BY <2>1, <2>4, <3>1
        <4>2. keys[i] \in DOMAIN map /\ w[keys[i]] = map[keys[i]]
          BY <1>2, <4>1, Names
        <4>3. QED
          BY <4>1, <4>2 DEF Own
      <3>2. CASE i \notin 1..N
        <4>1. r.body # <<>> /\ i = N + 1
          BY <1>4, <1>10, <3>2
        <4>2. QED
          BY <1>6, <1>10, <4>1
      <3>3. QED
        BY <3>1, <3>2
    <2>5. QED
      BY <2>2, <2>3, <2>4
  <1>13. AreHeaders(t, r, c)
    BY <1>8, <1>10, <1>11, <1>12 DEF AreHeaders
  <1>14. QED
    BY <1>9, <1>13, Assembled

LEMMA ErrorPackageIs ==
    ASSUME NEW r, r.body = ErrorPage,
           r.headers = Put(<<>>, ContentLength, Decimal[Len(ErrorPage)])
    PROVE  \E b, c : IsPackage(ErrorPackage, r, b, c)
  <1> DEFINE l == HeaderLine(ContentLength, Decimal[Len(ErrorPage)])
             m == HeaderLine(ContentType, <<"text/html">>)
             t == <<l>> \o <<m>>
  <1>1. IsBody(r.body) /\ r.body # <<>>
    BY BodiesAreBodies, FramingAssumption
  <1>2. /\ l.kind = "header" /\ l.name = ContentLength /\ l.value = Decimal[Len(r.body)]
        /\ m.kind = "header" /\ m.name = ContentType
    BY HeaderLines
  <1>3. ErrorPackage = <<StatusLine>> \o <<l>> \o <<m, BlankLine>> \o Bytes(r.body)
    BY DEF ErrorPackage, LengthLine
  <1> HIDE DEF l, m
  <1>4. /\ IsSeq(t) /\ Len(t) = 2 /\ t[1] = l /\ t[2] = m
    BY SmallSeqs, ConcatIs DEF IsConcat
  <1>5. ErrorPackage = <<StatusLine>> \o t \o <<BlankLine>> \o Bytes(r.body)
    <2>1. <<m, BlankLine>> = <<m>> \o <<BlankLine>>
      OBVIOUS
    <2>2. IsSeq(<<StatusLine>> \o <<l>>)
      BY SmallSeqs, ConcatIs DEF IsConcat
    <2>3. /\ (<<StatusLine>> \o <<l>>) \o (<<m>> \o <<BlankLine>>)
               = ((<<StatusLine>> \o <<l>>) \o <<m>>) \o <<BlankLine>>
          /\ (<<StatusLine>> \o <<l>>) \o <<m>> = <<StatusLine>> \o t
      BY <2>2, SmallSeqs, Associative
    <2>4. QED
      BY <1>3, <2>1, <2>3
  <1> HIDE DEF t
  <1>6. Own(r) = {Decimal[Len(r.body)]}
    <2>1. Spelling(<<>>, ContentLength) = ContentLength
      BY DEF Spelling
    <2>2. /\ DOMAIN r.headers = {ContentLength}
          /\ r.headers[ContentLength] = Decimal[Len(r.body)]
      BY <2>1 DEF Put
    <2>3. QED
      BY <2>2, Names DEF Own
  <1>7. AreHeaders(t, r, 2)
    <2>1. 1..Len(t) = {1, 2}
      BY <1>4
    <2>2. /\ \A i \in 1..Len(t) : /\ t[i].kind = "header"
                                  /\ Equivalent(t[i].name, ContentType) <=> i = 2
                                  /\ Equivalent(t[i].name, ContentLength) <=> i = 1
      BY <1>2, <1>4, <2>1, Names
    <2>3. {i \in 1..Len(t) : Equivalent(t[i].name, ContentLength)} = {1}
      BY <2>1, <2>2
    <2>4. QED
      BY <1>1, <1>2, <1>4, <1>6, <2>1, <2>2, <2>3 DEF AreHeaders
  <1>8. QED
    BY <1>1, <1>5, <1>7, Assembled

-----------------------------------------------------------------------------
(* What is on the wire.                                                      *)

\* e is line j of package i, and after it comes line j2 of package i2.
IsAt(e, n, packs, i, j) ==
    i \in 1..n /\ j \in 1..Len(packs[i].lines) /\ e = packs[i].lines[j]

Follows(packs, i, j, i2, j2) ==
    \/ j < Len(packs[i].lines) /\ i2 = i /\ j2 = j + 1
    \/ ~(j < Len(packs[i].lines)) /\ i2 = i + 1 /\ j2 = 1

\* The lines of w are the last ones of the packages of the responses s: pk[x] and
\* at[x] say where line x is from.
IsStream(w, s, packs, pk, at) ==
    /\ IsSeq(w) /\ IsSeq(s) /\ IsSeq(packs) /\ Len(packs) = Len(s)
    /\ \A i \in 1..Len(s) : IsPackage(packs[i].lines, s[i], packs[i].blank, packs[i].type)
    /\ \A x \in 1..Len(w) : /\ IsAt(w[x], Len(s), packs, pk[x], at[x])
                            /\ Follows(packs, pk[x], at[x], pk[x + 1], at[x + 1])
    /\ pk[Len(w) + 1] = Len(s) + 1 /\ at[Len(w) + 1] = 1

LEMMA Taken ==
    ASSUME NEW w, NEW s, NEW packs, NEW pk, NEW at, IsStream(w, s, packs, pk, at), w # <<>>
    PROVE  /\ IsAt(Head(w), Len(s), packs, pk[1], at[1])
           /\ \E pk2, at2 : /\ IsStream(Tail(w), s, packs, pk2, at2)
                            /\ Follows(packs, pk[1], at[1], pk2[1], at2[1])
  <1> DEFINE t == Tail(w)
             pk2 == [x \in Nat |-> pk[x + 1]]
             at2 == [x \in Nat |-> at[x + 1]]
  <1>1. IsSeq(w) /\ Len(w) \in Nat \ {0}
    BY SeqIs DEF IsStream
  <1>2. /\ IsSeq(t) /\ Len(t) = Len(w) - 1 /\ Head(w) = w[1]
        /\ \A x \in 1..(Len(w) - 1) : t[x] = w[x + 1]
    BY <1>1, TailIs
  <1> HIDE DEF t
  <1>3. \A x \in Nat : pk2[x] = pk[x + 1] /\ at2[x] = at[x + 1]
    OBVIOUS
  <1> HIDE DEF pk2, at2
  <1>4. ASSUME NEW x \in 1..Len(t)
        PROVE  /\ IsAt(t[x], Len(s), packs, pk2[x], at2[x])
               /\ Follows(packs, pk2[x], at2[x], pk2[x + 1], at2[x + 1])
    <2>1. x \in Nat /\ x + 1 \in Nat /\ x + 1 \in 1..Len(w) /\ x \in 1..(Len(w) - 1)
      BY <1>1, <1>2
    <2>2. /\ IsAt(w[x + 1], Len(s), packs, pk[x + 1], at[x + 1])
          /\ Follows(packs, pk[x + 1], at[x + 1], pk[(x + 1) + 1], at[(x + 1) + 1])
      BY <2>1 DEF IsStream
    <2>3. /\ pk2[x] = pk[x + 1] /\ at2[x] = at[x + 1] /\ t[x] = w[x + 1]
          /\ pk2[x + 1] = pk[(x + 1) + 1] /\ at2[x + 1] = at[(x + 1) + 1]
      BY <1>2, <1>3, <2>1
    <2>4. QED
      BY <2>2, <2>3
  <1>5. pk2[Len(t) + 1] = Len(s) + 1 /\ at2[Len(t) + 1] = 1
    <2>1. Len(t) + 1 = Len(w) /\ Len(w) \in Nat
      BY <1>1, <1>2
    <2>2. QED
      BY <1>3, <2>1 DEF IsStream
  <1>6. IsStream(t, s, packs, pk2, at2)
    <2>1. /\ IsSeq(s) /\ IsSeq(packs) /\ Len(packs) = Len(s)
          /\ \A i \in 1..Len(s) :
               IsPackage(packs[i].lines, s[i], packs[i].blank, packs[i].type)
      BY DEF IsStream
    <2>2. QED
      BY <1>2, <1>4, <1>5, <2>1 DEF IsStream
  <1>7. /\ IsAt(Head(w), Len(s), packs, pk[1], at[1])
        /\ Follows(packs, pk[1], at[1], pk2[1], at2[1])
    <2>1. 1 \in 1..Len(w) /\ 1 \in Nat
      BY <1>1
    <2>2. /\ IsAt(w[1], Len(s), packs, pk[1], at[1])
          /\ Follows(packs, pk[1], at[1], pk[1 + 1], at[1 + 1])
      BY <2>1 DEF IsStream
    <2>3. QED
      BY <1>2, <1>3, <2>1, <2>2
  <1>8. QED
    BY <1>6, <1>7 DEF t

LEMMA Given ==
    ASSUME NEW w, NEW s, NEW packs, NEW pk, NEW at, IsStream(w, s, packs, pk, at),
           NEW P, NEW r, NEW b, NEW c, IsPackage(P, r, b, c)
    PROVE  \E packs2, pk2, at2 :
             /\ IsStream(w \o P, Append(s, r), packs2, pk2, at2)
             /\ pk2[1] = pk[1] /\ at2[1] = at[1]
             /\ \A i \in 1..Len(s) : packs2[i] = packs[i]
  <1> DEFINE W == w \o P
             S == Append(s, r)
             new == [lines |-> P, blank |-> b, type |-> c]
             packs2 == Append(packs, new)
             n == Len(w)
             pk2 == [x \in Nat |-> IF x <= n THEN pk[x]
                                   ELSE IF x <= n + Len(P) THEN Len(s) + 1 ELSE Len(s) + 2]
             at2 == [x \in Nat |-> IF x <= n THEN at[x]
                                   ELSE IF x <= n + Len(P) THEN x - n ELSE 1]
  <1>1. /\ IsSeq(w) /\ n \in Nat /\ IsSeq(s) /\ Len(s) \in Nat /\ IsSeq(packs)
        /\ Len(packs) = Len(s) /\ IsSeq(P) /\ Len(P) \in Nat \ {0}
    <2>1. IsSeq(P) /\ Len(P) = b + Len(r.body) /\ b \in Nat \ {0} /\ IsSeq(r.body)
      BY DEF IsPackage, IsBody
    <2>2. Len(r.body) \in Nat
      BY <2>1, SeqIs
    <2>3. IsSeq(w) /\ IsSeq(s) /\ IsSeq(packs) /\ Len(packs) = Len(s)
      BY DEF IsStream
    <2>4. QED
      BY <2>1, <2>2, <2>3, SeqIs
  <1>2. IsConcat(W, w, P)
    BY <1>1, ConcatIs
  <1>3. /\ IsSeq(S) /\ Len(S) = Len(s) + 1 /\ S[Len(s) + 1] = r
        /\ \A i \in 1..Len(s) : S[i] = s[i]
    BY <1>1, AppendIs
  <1>4. /\ IsSeq(packs2) /\ Len(packs2) = Len(s) + 1 /\ packs2[Len(s) + 1] = new
        /\ \A i \in 1..Len(s) : packs2[i] = packs[i]
    BY <1>1, AppendIs
  <1>5. new.lines = P /\ new.blank = b /\ new.type = c
    OBVIOUS
  <1> HIDE DEF new, packs2, W, S
  <1>6. /\ \A x \in 1..n : pk2[x] = pk[x] /\ at2[x] = at[x]
        /\ \A x \in 1..Len(P) : pk2[n + x] = Len(s) + 1 /\ at2[n + x] = x
        /\ pk2[n + Len(P) + 1] = Len(s) + 2 /\ at2[n + Len(P) + 1] = 1
    BY <1>1
  <1> HIDE DEF pk2, at2
  <1>7. pk2[n + 1] = pk[n + 1] /\ at2[n + 1] = at[n + 1]
    BY <1>1, <1>6 DEF IsStream
  <1>8. ASSUME NEW x \in 1..n
        PROVE  /\ IsAt(W[x], Len(S), packs2, pk2[x], at2[x])
               /\ Follows(packs2, pk2[x], at2[x], pk2[x + 1], at2[x + 1])
    <2>1. /\ IsAt(w[x], Len(s), packs, pk[x], at[x])
          /\ Follows(packs, pk[x], at[x], pk[x + 1], at[x + 1])
      BY DEF IsStream
    <2>2. pk2[x] = pk[x] /\ at2[x] = at[x] /\ W[x] = w[x]
      BY <1>2, <1>6 DEF IsConcat
    <2>3. pk2[x + 1] = pk[x + 1] /\ at2[x + 1] = at[x + 1]
      <3>1. x = n \/ x + 1 \in 1..n
        BY <1>1
      <3>2. QED
        BY <1>6, <1>7, <3>1
    <2>4. pk[x] \in 1..Len(S) /\ packs2[pk[x]] = packs[pk[x]]
      BY <1>1, <1>3, <1>4, <2>1 DEF IsAt
    <2>5. IsAt(W[x], Len(S), packs2, pk2[x], at2[x])
      BY <2>1, <2>2, <2>4 DEF IsAt
    <2>6. Follows(packs2, pk2[x], at2[x], pk2[x + 1], at2[x + 1])
      BY <2>1, <2>2, <2>3, <2>4 DEF Follows
    <2>7. QED
      BY <2>5, <2>6
  <1>9. ASSUME NEW y \in 1..Len(P)
        PROVE  /\ IsAt(W[n + y], Len(S), packs2, pk2[n + y], at2[n + y])
               /\ Follows(packs2, pk2[n + y], at2[n + y], pk2[(n + y) + 1], at2[(n + y) + 1])
    <2>1. pk2[n + y] = Len(s) + 1 /\ at2[n + y] = y /\ W[n + y] = P[y]
      BY <1>2, <1>6 DEF IsConcat
    <2>2. Len(s) + 1 \in 1..Len(S) /\ packs2[Len(s) + 1].lines = P
      BY <1>1, <1>3, <1>4, <1>5
    <2>3. IsAt(W[n + y], Len(S), packs2, pk2[n + y], at2[n + y])
      BY <2>1, <2>2 DEF IsAt
    <2>4. CASE y < Len(P)
      <3>1. y + 1 \in 1..Len(P) /\ (n + y) + 1 = n + (y + 1)
        BY <1>1, <2>4
      <3>2. pk2[(n + y) + 1] = Len(s) + 1 /\ at2[(n + y) + 1] = y + 1
        BY <1>6, <3>1
      <3>3. QED
        BY <2>1, <2>2, <2>3, <2>4, <3>2 DEF Follows
    <2>5. CASE ~(y < Len(P))
      <3>1. (n + y) + 1 = n + Len(P) + 1 /\ (Len(s) + 1) + 1 = Len(s) + 2
        BY <1>1, <2>5
      <3>2. pk2[(n + y) + 1] = (Len(s) + 1) + 1 /\ at2[(n + y) + 1] = 1
        BY <1>6, <3>1
      <3>3. QED
        BY <2>1, <2>2, <2>3, <2>5, <3>2 DEF Follows
    <2>6. QED
      BY <2>4, <2>5
  <1>10. ASSUME NEW x \in 1..Len(W)
         PROVE  /\ IsAt(W[x], Len(S), packs2, pk2[x], at2[x])
                /\ Follows(packs2, pk2[x], at2[x], pk2[x + 1], at2[x + 1])
    <2>1. Len(W) = n + Len(P)
      BY <1>2 DEF IsConcat
    <2>2. x \in 1..n \/ (x - n \in 1..Len(P) /\ n + (x - n) = x)
      BY <1>1, <2>1
    <2>3. QED
      BY <1>8, <1>9, <2>2
  <1>11. ASSUME NEW i \in 1..Len(S)
         PROVE  IsPackage(packs2[i].lines, S[i], packs2[i].blank, packs2[i].type)
    <2>1. CASE i \in 1..Len(s)
      BY <1>3, <1>4, <2>1 DEF IsStream
    <2>2. CASE i = Len(s) + 1
      BY <1>3, <1>4, <1>5, <2>2
    <2>3. QED
      BY <1>1, <1>3, <2>1, <2>2
  <1>12. pk2[Len(W) + 1] = Len(S) + 1 /\ at2[Len(W) + 1] = 1
    <2>1. Len(W) + 1 = n + Len(P) + 1 /\ Len(S) + 1 = Len(s) + 2
      BY <1>1, <1>2, <1>3 DEF IsConcat
    <2>2. QED
      BY <1>6, <2>1
  <1>13. IsStream(W, S, packs2, pk2, at2)
    <2>1. IsSeq(W) /\ IsSeq(S) /\ IsSeq(packs2) /\ Len(packs2) = Len(S)
      BY <1>2, <1>3, <1>4 DEF IsConcat
    <2>2. QED
      BY <1>10, <1>11, <1>12, <2>1 DEF IsStream
  <1>14. pk2[1] = pk[1] /\ at2[1] = at[1]
    <2>1. 1 \in 1..n \/ n + 1 = 1
      BY <1>1
    <2>2. QED
      BY <1>6, <1>7, <2>1
  <1>15. QED
    BY <1>4, <1>13, <1>14 DEF W, S

-----------------------------------------------------------------------------
(* What the client has read.                                                 *)

\* The body that the client should find in r.
Wanted(r) == IF r.method = "HEAD" THEN <<>> ELSE Bytes(r.body)

\* g are the bodies of the first responses of s.
Right(g, s) ==
    /\ IsSeq(g) /\ Len(g) <= Len(s)
    /\ \A k \in 1..Len(g) : g[k] = Wanted(s[k])

\* There is a response without an end, and up to it the bodies are right.
Astray(g, s) ==
    \E n \in 1..Len(s) :
        /\ n <= Len(g) + 1 /\ ~Delimited(s[n])
        /\ \A k \in 1..(n - 1) : g[k] = Wanted(s[k])

LEMMA NextIsRight ==
    ASSUME NEW s, IsSeq(s), NEW g, Right(g, s), Len(g) + 1 <= Len(s),
           NEW b, b = Wanted(s[Len(g) + 1])
    PROVE  Right(Append(g, b), s)
  <1>1. Len(g) \in Nat /\ IsSeq(g)
    BY SeqIs DEF Right
  <1>2. /\ IsSeq(Append(g, b)) /\ Len(Append(g, b)) = Len(g) + 1
        /\ \A k \in 1..Len(g) : Append(g, b)[k] = g[k]
        /\ Append(g, b)[Len(g) + 1] = b
    BY <1>1, AppendIs
  <1>3. ASSUME NEW k \in 1..(Len(g) + 1)
        PROVE  Append(g, b)[k] = Wanted(s[k])
    <2>1. k \in 1..Len(g) \/ k = Len(g) + 1
      BY <1>1
    <2>2. QED
      BY <1>2, <2>1 DEF Right
  <1>4. QED
    BY <1>2, <1>3 DEF Right

LEMMA MoreIsSent ==
    ASSUME NEW s, IsSeq(s), NEW r, NEW g, IsSeq(g)
    PROVE  /\ Right(g, s) => Right(g, Append(s, r))
           /\ Astray(g, s) => Astray(g, Append(s, r))
  <1>1. /\ Len(s) \in Nat /\ Len(g) \in Nat /\ Len(Append(s, r)) = Len(s) + 1
        /\ \A k \in 1..Len(s) : Append(s, r)[k] = s[k]
    BY SeqIs, AppendIs
  <1>2. ASSUME Right(g, s) PROVE Right(g, Append(s, r))
    <2>1. \A k \in 1..Len(g) : k \in 1..Len(s) /\ g[k] = Wanted(s[k])
      BY <1>1, <1>2 DEF Right
    <2>2. Len(g) <= Len(s) + 1
      BY <1>1, <1>2 DEF Right
    <2>3. QED
      BY <1>1, <2>1, <2>2 DEF Right
  <1>3. ASSUME Astray(g, s) PROVE Astray(g, Append(s, r))
    <2>1. PICK n \in 1..Len(s) : /\ n <= Len(g) + 1 /\ ~Delimited(s[n])
                                 /\ \A k \in 1..(n - 1) : g[k] = Wanted(s[k])
      BY <1>3 DEF Astray
    <2>2. /\ n \in 1..Len(Append(s, r)) /\ Append(s, r)[n] = s[n]
          /\ \A k \in 1..(n - 1) : Append(s, r)[k] = s[k]
      BY <1>1
    <2>3. QED
      BY <2>1, <2>2 DEF Astray
  <1>4. QED
    BY <1>2, <1>3

LEMMA MoreIsRead ==
    ASSUME NEW s, NEW g, IsSeq(g), NEW b, Astray(g, s), IsSeq(s)
    PROVE  Astray(Append(g, b), s)
  <1>1. /\ Len(s) \in Nat /\ Len(g) \in Nat /\ Len(Append(g, b)) = Len(g) + 1
        /\ \A k \in 1..Len(g) : Append(g, b)[k] = g[k]
    BY SeqIs, AppendIs
  <1>2. PICK n \in 1..Len(s) : /\ n <= Len(g) + 1 /\ ~Delimited(s[n])
                               /\ \A k \in 1..(n - 1) : g[k] = Wanted(s[k])
    BY DEF Astray
  <1>3. n <= Len(Append(g, b)) + 1 /\ \A k \in 1..(n - 1) : k \in 1..Len(g)
    BY <1>1, <1>2
  <1>4. QED
    BY <1>1, <1>2, <1>3 DEF Astray

LEMMA GoesAstray ==
    ASSUME NEW s, IsSeq(s), NEW g, Right(g, s), Len(g) + 1 <= Len(s), ~Delimited(s[Len(g) + 1])
    PROVE  Astray(g, s)
  <1>1. Len(s) \in Nat /\ Len(g) \in Nat
    BY SeqIs DEF Right
  <1>2. Len(g) + 1 \in 1..Len(s) /\ (Len(g) + 1) - 1 = Len(g)
    BY <1>1
  <1>3. QED
    BY <1>2 DEF Astray, Right

LEMMA Kinds ==
    ASSUME NEW P, NEW r, NEW b, NEW c, IsPackage(P, r, b, c), NEW j \in 1..Len(P)
    PROVE  /\ P[j].kind = "status" <=> j = 1
           /\ P[j].kind = "header" <=> j \in 2..(b - 1)
           /\ P[j].kind = "blank" <=> j = b
           /\ b \in Nat /\ 2 < b /\ b <= Len(P) /\ c \in 2..(b - 1)
  <1>1. b \in Nat /\ c \in 2..(b - 1) /\ Len(r.body) \in Nat /\ Len(P) = b + Len(r.body)
    BY SeqIs DEF IsPackage, IsBody
  <1>2. j = 1 \/ j \in 2..(b - 1) \/ j = b \/ (j - b \in 1..Len(r.body) /\ b + (j - b) = j)
    BY <1>1
  <1>3. P[1].kind = "status" /\ P[b].kind = "blank" /\ \A k \in 2..(b - 1) : P[k].kind = "header"
    BY DEF IsPackage
  <1>4. ASSUME NEW x \in 1..Len(r.body) PROVE P[b + x].kind = "byte"
    <2>1. P[b + x] = Byte(r.body[x])
      BY DEF IsPackage
    <2>2. QED
      BY <2>1 DEF Byte
  <1>5. CASE j = 1
    BY <1>1, <1>3, <1>5
  <1>6. CASE j \in 2..(b - 1)
    BY <1>1, <1>3, <1>6
  <1>7. CASE j = b
    BY <1>1, <1>3, <1>7
  <1>8. CASE j - b \in 1..Len(r.body) /\ b + (j - b) = j
    <2>1. P[j].kind = "byte"
      BY <1>4, <1>8
    <2>2. j # 1 /\ j \notin 2..(b - 1) /\ j # b
      BY <1>1, <1>8
    <2>3. QED
      BY <1>1, <2>1, <2>2
  <1>9. QED
    BY <1>2, <1>5, <1>6, <1>7, <1>8

-----------------------------------------------------------------------------
(* The invariant.  The client is before line j of package i.                 *)

TypesKnown == types \in 0..1 /\ (reading \in {"body", "close"} => types = 1)

LastIsLast == \A k \in 1..Len(sent) : sent[k].last => k = Len(sent)

\* In a head it knows what is in the lines before j.
HeadRead(packs, i, j) ==
    reading = "header" =>
        /\ i \in 1..Len(sent) /\ j \in 2..packs[i].blank
        /\ types = IF packs[i].type < j THEN 1 ELSE 0
        /\ lengths = LengthsBefore(packs[i].lines, j)

\* In a body it knows how long it is, and has what is before line j.
InBody(p, r, j) ==
    /\ r.method # "HEAD" /\ lengths = {Decimal[Len(r.body)]}
    /\ j = p.blank + (Len(body) + 1) /\ Len(body) < Len(r.body)
    /\ \A k \in 1..Len(body) : body[k] = Byte(r.body[k])

\* It is where it takes itself to be.
Along(packs, i, j) ==
    /\ Right(got, sent)
    /\ \/ reading = "status" /\ i = Len(got) + 1 /\ j = 1 /\ body = <<>>
       \/ reading = "header" /\ i = Len(got) + 1 /\ body = <<>>
       \/ /\ reading = "body" /\ i = Len(got) + 1 /\ i <= Len(sent)
          /\ InBody(packs[i], sent[i], j)
       \/ /\ reading = "close" /\ i = Len(sent) + 1 /\ j = 1 /\ body = <<>>
          /\ Len(sent) = Len(got) + 1 /\ sent[Len(sent)].last
          /\ sent[Len(sent)].method # "HEAD" /\ sent[Len(sent)].body = <<>>

Reader(packs, i, j) ==
    /\ HeadRead(packs, i, j)
    /\ Astray(got, sent) \/ Along(packs, i, j)

IInv ==
    /\ TypesKnown /\ LastIsLast /\ IsSeq(got) /\ IsSeq(body) /\ IsSeq(sent)
    /\ \E packs, pk, at : /\ IsStream(wire, sent, packs, pk, at)
                          /\ Reader(packs, pk[1], at[1])

LEMMA InvInitially == Init => IInv
  <1> SUFFICES ASSUME Init PROVE IInv
    OBVIOUS
  <1> USE DEF Init
  <1>1. IsSeq(<<>>) /\ Len(<<>>) = 0
    BY SmallSeqs
  <1>2. TypesKnown /\ LastIsLast
    BY <1>1 DEF TypesKnown, LastIsLast
  <1> DEFINE ones == [x \in Nat |-> 1]
  <1>3. IsStream(wire, sent, <<>>, ones, ones)
    BY <1>1 DEF IsStream
  <1>4. Reader(<<>>, ones[1], ones[1])
    BY <1>1 DEF Reader, HeadRead, Along, Right
  <1>5. QED
    BY <1>1, <1>2, <1>3, <1>4 DEF IInv

LEMMA SendKeeps ==
    ASSUME IInv, NEW m, NEW P, NEW map, NEW b, NEW last, Send(m, P, map, b, last),
           \A r : r.headers = map /\ r.body = b => \E blank, c : IsPackage(P, r, blank, c)
    PROVE  IInv'
  <1> DEFINE r == [method |-> m, headers |-> map, body |-> b, last |-> last]
  <1>1. /\ wire' = wire \o P /\ sent' = Append(sent, r) /\ reading' = reading
        /\ lengths' = lengths /\ types' = types /\ body' = body /\ got' = got
    BY DEF Send
  <1>2. r.headers = map /\ r.body = b
    OBVIOUS
  <1> HIDE DEF r
  <1>3. PICK blank, c : IsPackage(P, r, blank, c)
    BY <1>2
  <1>4. PICK packs, pk, at : IsStream(wire, sent, packs, pk, at) /\ Reader(packs, pk[1], at[1])
    BY DEF IInv
  <1>5. PICK packs2, pk2, at2 :
             /\ IsStream(wire', sent', packs2, pk2, at2)
             /\ pk2[1] = pk[1] /\ at2[1] = at[1]
             /\ \A i \in 1..Len(sent) : packs2[i] = packs[i]
    BY <1>1, <1>3, <1>4, Given
  <1>6. /\ IsSeq(sent) /\ IsSeq(got) /\ IsSeq(body) /\ Len(sent) \in Nat /\ Len(got) \in Nat
        /\ IsSeq(sent') /\ Len(sent') = Len(sent) + 1
        /\ \A i \in 1..Len(sent) : sent'[i] = sent[i]
    BY <1>1, SeqIs, AppendIs DEF IInv
  <1>7. \A i \in 1..Len(sent) : ~sent[i].last
    BY <1>6, SeqIs DEF Send
  <1>8. TypesKnown' /\ LastIsLast'
    <2>1. TypesKnown'
      BY <1>1 DEF IInv, TypesKnown
    <2>2. ASSUME NEW k \in 1..Len(sent'), sent'[k].last PROVE k = Len(sent')
      <3>1. k \in 1..Len(sent) \/ k = Len(sent')
        BY <1>6
      <3>2. QED
        BY <1>6, <1>7, <2>2, <3>1
    <2>3. QED
      BY <2>1, <2>2 DEF LastIsLast
  <1> DEFINE i == pk[1]
             j == at[1]
  <1>9. HeadRead(packs2, i, j)'
    <2>1. SUFFICES ASSUME reading = "header"
                   PROVE  HeadRead(packs2, i, j)'
      BY <1>1 DEF HeadRead
    <2>2. /\ i \in 1..Len(sent) /\ j \in 2..packs[i].blank
          /\ types = IF packs[i].type < j THEN 1 ELSE 0
          /\ lengths = LengthsBefore(packs[i].lines, j)
      BY <1>4, <2>1 DEF Reader, HeadRead
    <2>3. packs2[i] = packs[i] /\ i \in 1..Len(sent')
      BY <1>5, <1>6, <2>2
    <2>4. QED
      BY <1>1, <2>2, <2>3 DEF HeadRead
  <1>10. Astray(got, sent) => Astray(got, sent)'
    BY <1>1, <1>6, MoreIsSent
  <1>11. ASSUME Along(packs, i, j)
         PROVE  Along(packs2, i, j)'
    <2>1. Right(got, sent)'
      BY <1>1, <1>6, <1>11, MoreIsSent DEF Along
    <2>2. CASE reading = "body"
      <3>1. i = Len(got) + 1 /\ i \in 1..Len(sent) /\ InBody(packs[i], sent[i], j)
        BY <1>6, <1>11, <2>2 DEF Along
      <3>2. packs2[i] = packs[i] /\ sent'[i] = sent[i] /\ i <= Len(sent')
        BY <1>5, <1>6, <3>1
      <3>3. InBody(packs2[i], sent[i], j)'
        BY <1>1, <3>1, <3>2 DEF InBody
      <3>4. QED
        BY <1>1, <2>1, <2>2, <3>1, <3>2, <3>3 DEF Along
    <2>3. CASE reading = "close"
      <3>1. sent[Len(sent)].last /\ Len(sent) \in 1..Len(sent)
        BY <1>6, <1>11, <2>3 DEF Along
      <3>2. QED
        BY <1>7, <3>1
    <2>4. CASE reading \notin {"body", "close"}
      BY <1>1, <1>11, <2>1, <2>4 DEF Along
    <2>5. QED
      BY <2>2, <2>3, <2>4
  <1>12. Reader(packs2, i, j)'
    BY <1>4, <1>9, <1>10, <1>11 DEF Reader
  <1>13. QED
    BY <1>1, <1>5, <1>6, <1>8, <1>12 DEF IInv

\* What a client knows who takes the next line.
NextLine(packs, i, j, packs2, pk2, at2) ==
    /\ IsStream(wire', sent', packs2, pk2, at2)
    /\ Follows(packs, i, j, pk2[1], at2[1])
    /\ i \in 1..Len(sent) /\ j \in 1..Len(packs[i].lines)
    /\ Head(wire) = packs[i].lines[j]
    /\ IsPackage(packs[i].lines, sent[i], packs[i].blank, packs[i].type)
    /\ Head(wire).kind = "status" <=> j = 1
    /\ Head(wire).kind = "header" <=> j \in 2..(packs[i].blank - 1)
    /\ Head(wire).kind = "blank" <=> j = packs[i].blank
    /\ packs[i].blank \in Nat /\ 2 < packs[i].blank /\ packs[i].blank <= Len(packs[i].lines)
    /\ packs[i].type \in 2..(packs[i].blank - 1)
    /\ Len(packs[i].lines) = packs[i].blank + Len(sent[i].body)
    /\ Len(packs[i].lines) \in Nat /\ Len(sent[i].body) \in Nat

LEMMA ALineIsTaken ==
    ASSUME NEW packs, NEW pk, NEW at, IsStream(wire, sent, packs, pk, at),
           wire # <<>>, wire' = Tail(wire), sent' = sent
    PROVE  \E pk2, at2 : NextLine(packs, pk[1], at[1], packs, pk2, at2)
  <1> DEFINE i == pk[1]
             j == at[1]
  <1>1. PICK pk2, at2 : /\ IsStream(Tail(wire), sent, packs, pk2, at2)
                        /\ Follows(packs, i, j, pk2[1], at2[1])
    BY Taken
  <1>2. /\ i \in 1..Len(sent) /\ j \in 1..Len(packs[i].lines)
        /\ Head(wire) = packs[i].lines[j]
    BY Taken DEF IsAt
  <1>3. IsPackage(packs[i].lines, sent[i], packs[i].blank, packs[i].type)
    BY <1>2 DEF IsStream
  <1>4. /\ Len(sent[i].body) \in Nat /\ Len(packs[i].lines) \in Nat
        /\ Len(packs[i].lines) = packs[i].blank + Len(sent[i].body)
    BY <1>3, SeqIs DEF IsPackage, IsBody
  <1> HIDE DEF i, j
  <1>5. /\ Head(wire).kind = "status" <=> j = 1
        /\ Head(wire).kind = "header" <=> j \in 2..(packs[i].blank - 1)
        /\ Head(wire).kind = "blank" <=> j = packs[i].blank
        /\ packs[i].blank \in Nat /\ 2 < packs[i].blank /\ packs[i].blank <= Len(packs[i].lines)
        /\ packs[i].type \in 2..(packs[i].blank - 1)
    BY <1>2, <1>3, Kinds
  <1>6. NextLine(packs, i, j, packs, pk2, at2)
    BY <1>1, <1>2, <1>3, <1>4, <1>5 DEF NextLine
  <1>7. QED
    BY <1>6 DEF i, j

LEMMA LengthsOfOneMore ==
    ASSUME NEW P, NEW j \in Nat, 2 <= j
    PROVE  LengthsBefore(P, j + 1)
             = LengthsBefore(P, j)
               \cup (IF Equivalent(P[j].name, ContentLength) THEN {P[j].value} ELSE {})
  <1>1. 2..((j + 1) - 1) = 2..(j - 1) \cup {j}
    OBVIOUS
  <1>2. QED
    BY <1>1 DEF LengthsBefore

LEMMA ReadStatusKeeps == ASSUME IInv, ReadStatus PROVE IInv'
  <1> USE DEF ReadStatus, Reads
  <1>1. PICK packs, pk, at : IsStream(wire, sent, packs, pk, at) /\ Reader(packs, pk[1], at[1])
    BY DEF IInv
  <1>2. PICK pk2, at2 : NextLine(packs, pk[1], at[1], packs, pk2, at2)
    BY <1>1, ALineIsTaken
  <1> DEFINE i == pk[1]
             j == at[1]
             i2 == pk2[1]
             j2 == at2[1]
  <1>3. Reader(packs, i, j) /\ NextLine(packs, i, j, packs, pk2, at2)
    BY <1>1, <1>2
  <1>4. j = 1 /\ i2 = i /\ j2 = 2 /\ IsStream(wire', sent', packs, pk2, at2)
    BY <1>3 DEF NextLine, Follows
  <1> HIDE DEF i, j, i2, j2
  <1>5. HeadRead(packs, i2, j2)'
    <2>1. LengthsBefore(packs[i].lines, 2) = {}
      BY DEF LengthsBefore
    <2>2. i \in 1..Len(sent) /\ 2 \in 2..packs[i].blank /\ ~(packs[i].type < 2)
      BY <1>3 DEF NextLine
    <2>3. QED
      BY <1>4, <2>1, <2>2 DEF HeadRead
  <1>6. Along(packs, i, j) => Along(packs, i2, j2)'
    BY <1>4 DEF Along, Right
  <1>7. Reader(packs, i2, j2)'
    BY <1>3, <1>5, <1>6 DEF Reader
  <1>8. TypesKnown' /\ LastIsLast'
    BY DEF IInv, TypesKnown, LastIsLast
  <1>9. QED
    BY <1>4, <1>7, <1>8 DEF IInv, i2, j2

LEMMA ReadHeaderKeeps == ASSUME IInv, ReadHeader PROVE IInv'
  <1> USE DEF ReadHeader, Reads
  <1>1. PICK packs, pk, at : IsStream(wire, sent, packs, pk, at) /\ Reader(packs, pk[1], at[1])
    BY DEF IInv
  <1>2. PICK pk2, at2 : NextLine(packs, pk[1], at[1], packs, pk2, at2)
    BY <1>1, ALineIsTaken
  <1> DEFINE i == pk[1]
             j == at[1]
             i2 == pk2[1]
             j2 == at2[1]
             P == packs[i].lines
             b == packs[i].blank
             c == packs[i].type
  <1>3. Reader(packs, i, j) /\ NextLine(packs, i, j, packs, pk2, at2)
    BY <1>1, <1>2
  <1> HIDE DEF i, j, i2, j2
  <1>4. /\ j \in 2..(b - 1) /\ b \in Nat /\ c \in 2..(b - 1) /\ i2 = i /\ j2 = j + 1
        /\ IsStream(wire', sent', packs, pk2, at2)
        /\ i \in 1..Len(sent) /\ Head(wire) = P[j]
        /\ Equivalent(P[j].name, ContentType) <=> j = c
    <2>1. /\ j \in 2..(b - 1) /\ b \in Nat /\ c \in 2..(b - 1) /\ b <= Len(P) /\ Len(P) \in Nat
          /\ i \in 1..Len(sent) /\ Head(wire) = P[j]
          /\ IsStream(wire', sent', packs, pk2, at2)
      BY <1>3 DEF NextLine
    <2>2. j < Len(P) /\ j + 1 # 1
      BY <2>1
    <2>3. i2 = i /\ j2 = j + 1
      BY <1>3, <2>2 DEF NextLine, Follows, i2, j2
    <2>4. Equivalent(P[j].name, ContentType) <=> j = c
      BY <1>3, <2>1 DEF NextLine, IsPackage
    <2>5. QED
      BY <2>1, <2>3, <2>4
  <1>5. types = (IF c < j THEN 1 ELSE 0) /\ lengths = LengthsBefore(P, j)
    BY <1>3 DEF Reader, HeadRead
  <1>6. HeadRead(packs, i2, j2)'
    <2>1. types' = IF c < j + 1 THEN 1 ELSE 0
      BY <1>4, <1>5
    <2>2. lengths' = LengthsBefore(P, j + 1)
      <3>1. j \in Nat /\ 2 <= j
        BY <1>4
      <3>2. LengthsBefore(P, j + 1)
              = LengthsBefore(P, j)
                \cup (IF Equivalent(P[j].name, ContentLength) THEN {P[j].value} ELSE {})
        BY <3>1, LengthsOfOneMore
      <3>3. QED
        BY <1>4, <1>5, <3>2
    <2>3. j + 1 \in 2..b
      BY <1>4
    <2>4. QED
      BY <1>4, <2>1, <2>2, <2>3 DEF HeadRead
  <1>7. Along(packs, i, j) => Along(packs, i2, j2)'
    BY <1>4 DEF Along, Right
  <1>8. Reader(packs, i2, j2)'
    BY <1>3, <1>6, <1>7 DEF Reader
  <1>9. TypesKnown'
    <2>1. types' \in 0..1
      BY <1>4, <1>5
    <2>2. QED
      BY <2>1 DEF TypesKnown
  <1>10. LastIsLast'
    BY DEF IInv, LastIsLast
  <1>11. QED
    BY <1>4, <1>8, <1>9, <1>10 DEF IInv, i2, j2

LEMMA OneLength ==
    ASSUME NEW n \in DOMAIN Decimal, lengths = {Decimal[n]}
    PROVE  Length = n
  BY FramingAssumption DEF Length

LEMMA NoBytes == Bytes(<<>>) = <<>>
  <1>1. IsBody(<<>>)
    BY SmallSeqs, FramingAssumption DEF IsBody
  <1>2. IsSeq(Bytes(<<>>)) /\ Len(Bytes(<<>>)) = 0
    BY <1>1, SmallSeqs, BodiesAreBodies
  <1>3. QED
    BY <1>2, SeqIs

\* Where the head ends, a client that is along knows how the body ends.
LEMMA HeadTellsTheEnd ==
    ASSUME NEW packs, NEW i, NEW j, NEW pk2, NEW at2, IsSeq(sent), IsSeq(got), ReadBlank,
           NextLine(packs, i, j, packs, pk2, at2), LastIsLast, Reader(packs, i, j),
           Along(packs, i, j), Delimited(sent[i])
    PROVE  Along(packs, pk2[1], at2[1])'
  <1> USE DEF ReadBlank, Reads
  <1> DEFINE P == packs[i].lines
             b == packs[i].blank
             r == sent[i]
             L == Len(r.body)
             i2 == pk2[1]
             j2 == at2[1]
  <1>1. /\ i \in 1..Len(sent) /\ j = b /\ IsPackage(P, r, b, packs[i].type)
        /\ Len(P) = b + L /\ L \in Nat /\ b \in Nat /\ 2 < b
        /\ Follows(packs, i, j, i2, j2)
    BY DEF NextLine
  <1>2. lengths = LengthsBefore(P, b)
    BY <1>1 DEF Reader, HeadRead
  <1>3. /\ IsSeq(r.body) /\ L \in DOMAIN Decimal
        /\ lengths = Own(r) \cup (IF r.body = <<>> THEN {} ELSE {Decimal[L]})
    BY <1>1, <1>2 DEF IsPackage, IsBody
  <1>4. r.body = <<>> <=> L = 0
    BY <1>3, SeqIs
  <1>5. /\ Own(r) \subseteq {Decimal[L]}
        /\ IF r.method = "HEAD" THEN r.body = <<>>
           ELSE r.body # <<>> \/ Own(r) # {} \/ r.last
    BY DEF Delimited, Own
  <1>6. /\ i = Len(got) + 1 /\ body = <<>> /\ Right(got, sent)
        /\ Len(got) \in Nat /\ Len(sent) \in Nat /\ sent' = sent
    BY SeqIs DEF Along
  <1>7. 0 \in DOMAIN Decimal /\ (Decimal[L] = Decimal[0] => L = 0)
    BY <1>3, FramingAssumption
  <1>8. L = 0 => i2 = i + 1 /\ j2 = 1
    BY <1>1 DEF Follows
  <1>9. L # 0 => i2 = i /\ j2 = b + 1
    BY <1>1 DEF Follows
  <1> HIDE DEF P, b, r, L, i2, j2
  <1>10. CASE r.method = "HEAD" \/ lengths = {Decimal[0]}
    <2>1. r.body = <<>> /\ L = 0
      <3>1. CASE r.method = "HEAD"
        BY <1>4, <1>5, <3>1
      <3>2. CASE lengths = {Decimal[0]}
        <4>1. r.body # <<>> => Decimal[L] = Decimal[0]
          BY <1>3, <3>2
        <4>2. QED
          BY <1>4, <1>7, <4>1
      <3>3. QED
        BY <1>10, <3>1, <3>2
    <2>2. got' = Append(got, <<>>) /\ body' = <<>> /\ reading' = "status"
      BY <1>6, <1>10 DEF BodyDone, r
    <2>3. Wanted(r) = <<>>
      BY <2>1, NoBytes DEF Wanted
    <2>4. Right(got, sent)' /\ Len(got') = Len(got) + 1
      <3>1. Len(got) + 1 <= Len(sent) /\ <<>> = Wanted(sent[Len(got) + 1])
        BY <1>1, <1>6, <2>3 DEF r
      <3>2. Right(Append(got, <<>>), sent)
        BY <1>6, <3>1, NextIsRight
      <3>3. Len(Append(got, <<>>)) = Len(got) + 1
        BY AppendIs
      <3>4. QED
        BY <1>6, <2>2, <3>2, <3>3
    <2>5. i2 = Len(got') + 1 /\ j2 = 1
      BY <1>6, <1>8, <2>1, <2>4
    <2>6. QED
      BY <2>2, <2>4, <2>5 DEF Along, i2, j2
  <1>11. CASE ~(r.method = "HEAD" \/ lengths = {Decimal[0]}) /\ lengths = {}
    <2>1. r.body = <<>> /\ L = 0 /\ r.last
      BY <1>3, <1>4, <1>5, <1>11
    <2>2. i = Len(sent)
      BY <1>1, <2>1 DEF LastIsLast, r
    <2>3. reading' = "close" /\ body' = body /\ got' = got
      BY <1>6, <1>11 DEF r
    <2>4. i2 = Len(sent) + 1 /\ j2 = 1
      BY <1>8, <2>1, <2>2
    <2>5. /\ sent[Len(sent)].last /\ sent[Len(sent)].method # "HEAD"
          /\ sent[Len(sent)].body = <<>> /\ Len(sent) = Len(got) + 1
      BY <1>6, <1>11, <2>1, <2>2 DEF r
    <2>6. QED
      BY <1>6, <2>3, <2>4, <2>5 DEF Along, Right, i2, j2
  <1>12. CASE ~(r.method = "HEAD" \/ lengths = {Decimal[0]}) /\ lengths # {}
    <2>1. lengths = {Decimal[L]} /\ L # 0
      BY <1>3, <1>5, <1>12
    <2>2. Cardinality(lengths) = 1
      BY <2>1, FS_Singleton
    <2>3. reading' = "body" /\ body' = body /\ got' = got /\ lengths' = lengths
      BY <1>6, <1>12, <2>2 DEF r
    <2>4. i2 = i /\ j2 = b + (0 + 1)
      BY <1>1, <1>9, <2>1 DEF b
    <2>5. Len(body) = 0 /\ 0 < L
      BY <1>1, <1>6, <2>1, SmallSeqs DEF L
    <2>6. InBody(packs[i], r, j2)'
      BY <1>6, <1>12, <2>1, <2>3, <2>4, <2>5 DEF InBody, r, L, b
    <2>7. i <= Len(sent)
      BY <1>1
    <2>8. QED
      BY <1>6, <2>3, <2>4, <2>6, <2>7 DEF Along, Right, r, i2, j2
  <1>13. QED
    BY <1>10, <1>11, <1>12

LEMMA StaysAstray ==
    ASSUME IsSeq(got), IsSeq(sent), Astray(got, sent), sent' = sent,
           NEW b, got' \in {got, Append(got, b)}
    PROVE  Astray(got, sent)'
  BY MoreIsRead

LEMMA ReadBlankKeeps == ASSUME IInv, ReadBlank PROVE IInv'
  <1> USE DEF ReadBlank, Reads
  <1>1. PICK packs, pk, at : IsStream(wire, sent, packs, pk, at) /\ Reader(packs, pk[1], at[1])
    BY DEF IInv
  <1>2. PICK pk2, at2 : NextLine(packs, pk[1], at[1], packs, pk2, at2)
    BY <1>1, ALineIsTaken
  <1> DEFINE i == pk[1]
             j == at[1]
             i2 == pk2[1]
             j2 == at2[1]
  <1>3. Reader(packs, i, j) /\ NextLine(packs, i, j, packs, pk2, at2)
        /\ IsStream(wire', sent', packs, pk2, at2)
    BY <1>1, <1>2 DEF NextLine
  <1>4. /\ IsSeq(got) /\ IsSeq(sent) /\ IsSeq(body) /\ LastIsLast /\ TypesKnown
    BY DEF IInv
  <1> HIDE DEF i, j
  <1>5. types = 1
    <2>1. /\ j = packs[i].blank /\ packs[i].blank \in Nat
          /\ packs[i].type \in 2..(packs[i].blank - 1)
      BY <1>3 DEF NextLine
    <2>2. packs[i].type < j
      BY <2>1
    <2>3. QED
      BY <1>3, <2>2 DEF Reader, HeadRead
  <1>6. /\ got' \in {got, Append(got, <<>>)} /\ body' \in {body, <<>>}
        /\ reading' # "header" /\ types' = types /\ sent' = sent
    BY DEF BodyDone
  <1>7. IsSeq(got') /\ IsSeq(body') /\ IsSeq(sent')
    <2>1. IsSeq(Append(got, <<>>)) /\ IsSeq(<<>>)
      BY <1>4, SmallSeqs, AppendIs
    <2>2. QED
      BY <1>4, <1>6, <2>1
  <1>8. Astray(got, sent) => Astray(got, sent)'
    BY <1>4, <1>6, StaysAstray
  <1>9. ASSUME Along(packs, i, j), ~Delimited(sent[i])
        PROVE  Astray(got, sent)
    <2>1. i = Len(got) + 1 /\ Right(got, sent)
      BY <1>9 DEF Along
    <2>2. i <= Len(sent)
      <3>1. i \in 1..Len(sent)
        BY <1>3 DEF NextLine
      <3>2. Len(sent) \in Nat
        BY <1>4, SeqIs
      <3>3. QED
        BY <3>1, <3>2
    <2>3. QED
      BY <1>4, <1>9, <2>1, <2>2, GoesAstray
  <1>10. ASSUME Along(packs, i, j), Delimited(sent[i])
         PROVE  Along(packs, i2, j2)'
    BY <1>3, <1>4, <1>10, HeadTellsTheEnd
  <1> HIDE DEF i2, j2
  <1>11. Reader(packs, i2, j2)'
    BY <1>3, <1>6, <1>8, <1>9, <1>10 DEF Reader, HeadRead
  <1>12. TypesKnown' /\ LastIsLast'
    BY <1>4, <1>5, <1>6 DEF TypesKnown, LastIsLast
  <1>13. QED
    BY <1>3, <1>7, <1>11, <1>12 DEF IInv, i2, j2

\* A client that is along takes one byte of the body that it is in.
LEMMA AByteOfTheBody ==
    ASSUME NEW packs, NEW i, NEW j, NEW pk2, NEW at2, IsSeq(sent), IsSeq(got), IsSeq(body),
           ReadBody, NextLine(packs, i, j, packs, pk2, at2), Along(packs, i, j)
    PROVE  Along(packs, pk2[1], at2[1])'
  <1> USE DEF ReadBody
  <1> DEFINE P == packs[i].lines
             b == packs[i].blank
             r == sent[i]
             L == Len(r.body)
             longer == Append(body, Head(wire))
             i2 == pk2[1]
             j2 == at2[1]
  <1>1. /\ i \in 1..Len(sent) /\ j \in 1..Len(P) /\ Head(wire) = P[j] /\ b \in Nat
        /\ IsPackage(P, r, b, packs[i].type) /\ Len(P) = b + L /\ L \in Nat
        /\ Follows(packs, i, j, i2, j2)
    BY DEF NextLine
  <1>2. /\ Len(got) \in Nat /\ Len(sent) \in Nat /\ Len(body) \in Nat /\ sent' = sent
        /\ lengths' = lengths
    BY SeqIs
  <1>3. reading = "body"
    <2>1. CASE reading = "close"
      BY <1>1, <1>2, <2>1 DEF Along
    <2>2. QED
      BY <2>1
  <1>4. /\ Right(got, sent) /\ i = Len(got) + 1 /\ InBody(packs[i], r, j)
    BY <1>3 DEF Along
  <1>5. /\ r.method # "HEAD" /\ lengths = {Decimal[L]}
        /\ j = b + (Len(body) + 1) /\ Len(body) < L
        /\ \A k \in 1..Len(body) : body[k] = Byte(r.body[k])
    BY <1>4 DEF InBody
  <1>6. IsBody(r.body) /\ Head(wire) = Byte(r.body[Len(body) + 1])
    <2>1. Len(body) + 1 \in 1..L
      BY <1>1, <1>2, <1>5
    <2>2. QED
      BY <1>1, <1>5, <2>1 DEF IsPackage
  <1>7. /\ IsSeq(longer) /\ Len(longer) = Len(body) + 1
        /\ \A k \in 1..(Len(body) + 1) : longer[k] = Byte(r.body[k])
    <2>1. /\ IsSeq(longer) /\ Len(longer) = Len(body) + 1
          /\ \A k \in 1..Len(body) : longer[k] = body[k]
          /\ longer[Len(body) + 1] = Head(wire)
      BY AppendIs
    <2> HIDE DEF longer
    <2>2. ASSUME NEW k \in 1..(Len(body) + 1) PROVE longer[k] = Byte(r.body[k])
      <3>1. k \in 1..Len(body) \/ k = Len(body) + 1
        BY <1>2
      <3>2. QED
        BY <1>5, <1>6, <2>1, <3>1
    <2>3. QED
      BY <2>1, <2>2
  <1>8. Length = L
    BY <1>5, <1>6, OneLength DEF IsBody
  <1> HIDE DEF P, b, r, L, longer, i2, j2
  <1>9. CASE Len(body) + 1 = L
    <2>1. got' = Append(got, longer) /\ body' = <<>> /\ reading' = "status"
      BY <1>3, <1>8, <1>9 DEF BodyDone, longer
    <2>2. longer = Wanted(r)
      <3>1. /\ IsSeq(Bytes(r.body)) /\ Len(Bytes(r.body)) = L
            /\ \A k \in 1..L : Bytes(r.body)[k] = Byte(r.body[k])
        BY <1>6, BodiesAreBodies DEF L
      <3>2. longer = Bytes(r.body)
        BY <1>7, <1>9, <3>1, SameSeq
      <3>3. QED
        BY <1>5, <3>2 DEF Wanted
    <2>3. Right(got, sent)' /\ Len(got') = Len(got) + 1
      <3>1. Len(got) + 1 <= Len(sent) /\ longer = Wanted(sent[Len(got) + 1])
        BY <1>1, <1>2, <1>4, <2>2 DEF r
      <3>2. Right(Append(got, longer), sent)
        BY <1>4, <3>1, NextIsRight
      <3>3. Len(Append(got, longer)) = Len(got) + 1
        BY AppendIs
      <3>4. QED
        BY <1>2, <2>1, <3>2, <3>3
    <2>4. i2 = i + 1 /\ j2 = 1
      <3>1. ~(j < Len(P))
        BY <1>1, <1>2, <1>5, <1>9
      <3>2. QED
        BY <1>1, <3>1 DEF Follows, P
    <2>5. i2 = Len(got') + 1
      BY <1>2, <1>4, <2>3, <2>4
    <2>6. QED
      BY <2>1, <2>3, <2>4, <2>5 DEF Along, i2, j2
  <1>10. CASE Len(body) + 1 # L
    <2>1. body' = longer /\ got' = got /\ reading' = "body"
      BY <1>3, <1>8, <1>10 DEF longer
    <2>2. Len(body) + 1 < L
      BY <1>1, <1>2, <1>5, <1>10
    <2>3. i2 = i /\ j2 = j + 1
      <3>1. j < Len(P)
        BY <1>1, <1>2, <1>5, <2>2
      <3>2. QED
        BY <1>1, <3>1 DEF Follows, P
    <2>4. j2 = b + (Len(longer) + 1)
      BY <1>1, <1>2, <1>5, <1>7, <2>3
    <2>5. InBody(packs[i], r, j2)'
      BY <1>2, <1>5, <1>7, <2>1, <2>2, <2>4 DEF InBody, r, b, L
    <2>6. i <= Len(sent)
      BY <1>1
    <2>7. QED
      BY <1>2, <1>4, <2>1, <2>3, <2>5, <2>6 DEF Along, Right, r, i2, j2
  <1>11. QED
    BY <1>9, <1>10

LEMMA ReadBodyKeeps == ASSUME IInv, ReadBody PROVE IInv'
  <1> USE DEF ReadBody
  <1>1. PICK packs, pk, at : IsStream(wire, sent, packs, pk, at) /\ Reader(packs, pk[1], at[1])
    BY DEF IInv
  <1>2. PICK pk2, at2 : NextLine(packs, pk[1], at[1], packs, pk2, at2)
    BY <1>1, ALineIsTaken
  <1> DEFINE i == pk[1]
             j == at[1]
             i2 == pk2[1]
             j2 == at2[1]
             longer == Append(body, Head(wire))
  <1>3. Reader(packs, i, j) /\ NextLine(packs, i, j, packs, pk2, at2)
        /\ IsStream(wire', sent', packs, pk2, at2)
    BY <1>1, <1>2 DEF NextLine
  <1>4. IsSeq(got) /\ IsSeq(sent) /\ IsSeq(body) /\ LastIsLast /\ TypesKnown
    BY DEF IInv
  <1>5. IsSeq(longer)
    BY <1>4, AppendIs
  <1> HIDE DEF i, j, longer
  <1>6. /\ got' \in {got, Append(got, longer)} /\ body' \in {longer, <<>>}
        /\ reading' \in {reading, "status"} /\ reading' # "header"
        /\ types' = types /\ sent' = sent
    BY DEF BodyDone, longer
  <1>7. IsSeq(got') /\ IsSeq(body') /\ IsSeq(sent')
    <2>1. IsSeq(Append(got, longer)) /\ IsSeq(<<>>)
      BY <1>4, SmallSeqs, AppendIs
    <2>2. QED
      BY <1>4, <1>5, <1>6, <2>1
  <1>8. Astray(got, sent) => Astray(got, sent)'
    BY <1>4, <1>6, StaysAstray
  <1>9. Along(packs, i, j) => Along(packs, i2, j2)'
    BY <1>3, <1>4, AByteOfTheBody
  <1> HIDE DEF i2, j2
  <1>10. Reader(packs, i2, j2)'
    BY <1>3, <1>6, <1>8, <1>9 DEF Reader, HeadRead
  <1>11. TypesKnown' /\ LastIsLast'
    BY <1>4, <1>6 DEF TypesKnown, LastIsLast
  <1>12. QED
    BY <1>3, <1>7, <1>10, <1>11 DEF IInv, i2, j2

LEMMA ReadCloseKeeps == ASSUME IInv, ReadClose PROVE IInv'
  <1> USE DEF ReadClose
  <1>1. PICK packs, pk, at : IsStream(wire, sent, packs, pk, at) /\ Reader(packs, pk[1], at[1])
    BY DEF IInv
  <1> DEFINE i == pk[1]
             j == at[1]
  <1>2. IsSeq(got) /\ IsSeq(sent) /\ IsSeq(body) /\ LastIsLast /\ TypesKnown
    BY DEF IInv
  <1>3. /\ got' = Append(got, body) /\ body' = <<>> /\ reading' = "status"
        /\ wire' = wire /\ sent' = sent /\ types' = types
    BY DEF BodyDone
  <1>4. IsSeq(got') /\ IsSeq(body') /\ IsSeq(sent') /\ Len(got') = Len(got) + 1
    BY <1>2, <1>3, SmallSeqs, AppendIs
  <1>5. Astray(got, sent) => Astray(got, sent)'
    BY <1>2, <1>3, StaysAstray
  <1>6. ASSUME Along(packs, i, j)
        PROVE  Along(packs, i, j)'
    <2>1. /\ Right(got, sent) /\ i = Len(sent) + 1 /\ j = 1 /\ body = <<>>
          /\ Len(sent) = Len(got) + 1 /\ sent[Len(sent)].method # "HEAD"
          /\ sent[Len(sent)].body = <<>>
      BY <1>6 DEF Along
    <2>2. body = Wanted(sent[Len(got) + 1])
      BY <2>1, NoBytes DEF Wanted
    <2>3. Len(got) + 1 <= Len(sent)
      BY <1>2, <2>1, SeqIs
    <2>4. Right(got, sent)'
      BY <1>2, <1>3, <2>1, <2>2, <2>3, NextIsRight
    <2>5. i = Len(got') + 1
      BY <1>4, <2>1
    <2>6. QED
      BY <1>3, <2>1, <2>4, <2>5 DEF Along
  <1> HIDE DEF i, j
  <1>7. Reader(packs, i, j)'
    BY <1>1, <1>3, <1>5, <1>6 DEF Reader, HeadRead, i, j
  <1>8. TypesKnown' /\ LastIsLast'
    BY <1>2, <1>3 DEF TypesKnown, LastIsLast
  <1>9. IsStream(wire', sent', packs, pk, at)
    BY <1>1, <1>3
  <1>10. QED
    BY <1>4, <1>7, <1>8, <1>9 DEF IInv, i, j

LEMMA ReadLostKeeps == ASSUME IInv, ReadLost PROVE IInv'
  <1> USE DEF ReadLost
  <1>1. PICK packs, pk, at : IsStream(wire, sent, packs, pk, at) /\ Reader(packs, pk[1], at[1])
    BY DEF IInv
  <1> DEFINE i == pk[1]
             j == at[1]
  <1>2. IsAt(Head(wire), Len(sent), packs, i, j)
    BY <1>1, Taken
  <1>3. ~Along(packs, i, j)
    <2>1. i \in 1..Len(sent) /\ j \in 1..Len(packs[i].lines) /\ Head(wire) = packs[i].lines[j]
      BY <1>2 DEF IsAt
    <2>2. IsPackage(packs[i].lines, sent[i], packs[i].blank, packs[i].type)
      BY <1>1, <2>1 DEF IsStream
    <2>3. j # 1
      BY <2>1, <2>2, Kinds
    <2>4. QED
      BY <2>3 DEF Along
  <1> HIDE DEF i, j
  <1>4. Reader(packs, i, j)'
    BY <1>1, <1>3 DEF Reader, HeadRead, i, j
  <1>5. TypesKnown' /\ LastIsLast'
    BY DEF IInv, TypesKnown, LastIsLast
  <1>6. IsStream(wire', sent', packs, pk, at)
    BY <1>1
  <1>7. QED
    BY <1>4, <1>5, <1>6 DEF IInv, i, j

LEMMA InvKept == IInv /\ [Next]_vars => IInv'
  <1> SUFFICES ASSUME IInv, [Next]_vars PROVE IInv'
    OBVIOUS
  <1>1. CASE UNCHANGED vars
    <2>1. /\ wire' = wire /\ sent' = sent /\ reading' = reading /\ lengths' = lengths
          /\ types' = types /\ body' = body /\ got' = got
      BY <1>1 DEF vars
    <2>2. PICK packs, pk, at : IsStream(wire, sent, packs, pk, at) /\ Reader(packs, pk[1], at[1])
      BY DEF IInv
    <2>3. Reader(packs, pk[1], at[1])'
      BY <2>1, <2>2 DEF Reader, HeadRead, Along, InBody
    <2>4. TypesKnown' /\ LastIsLast'
      BY <2>1 DEF IInv, TypesKnown, LastIsLast
    <2>5. IsStream(wire', sent', packs, pk, at)
      BY <2>1, <2>2
    <2>6. IsSeq(got') /\ IsSeq(body') /\ IsSeq(sent')
      BY <2>1 DEF IInv
    <2>7. QED
      BY <2>3, <2>4, <2>5, <2>6 DEF IInv
  <1>2. ASSUME NEW m, NEW last, NEW map \in HeaderMaps, NEW b \in Bodies,
               Respond(m, map, b, last)
        PROVE  IInv'
    <2>1. ASSUME NEW r, r.headers = map, r.body = b
          PROVE  \E blank, c : IsPackage(Package(map, b), r, blank, c)
      BY <2>1, BodiesAreBodies, PackageIs
    <2>2. QED
      BY <1>2, <2>1, SendKeeps DEF Respond
  <1>3. ASSUME NEW m, NEW last, Refuse(m, last)
        PROVE  IInv'
    <2>1. \A r : r.headers = Put(<<>>, ContentLength, Decimal[Len(ErrorPage)])
                 /\ r.body = ErrorPage
                   => \E blank, c : IsPackage(ErrorPackage, r, blank, c)
      BY ErrorPackageIs
    <2>2. QED
      BY <1>3, <2>1, SendKeeps DEF Refuse
  <1>4. QED
    BY <1>1, <1>2, <1>3, ReadStatusKeeps, ReadHeaderKeeps, ReadBlankKeeps, ReadBodyKeeps,
       ReadCloseKeeps, ReadLostKeeps DEF Next

\* OneContentType holds in every reachable state: whatever headers a handler sets, in
\* whatever spelling, HttpResponse::make_package and HttpError::make_package give the
\* head one Content-Type (response.cpp, except.cpp).
THEOREM OneTypeIsSent == Spec => []OneContentType
  <1>1. IInv => OneContentType
    BY DEF IInv, TypesKnown, OneContentType
  <1>2. QED
    BY <1>1, InvInitially, InvKept, PTL DEF Spec

\* InStep holds in every reachable state: as long as each handler leaves a response
\* that ends, a client that goes by the headers takes each response for what it is.
THEOREM ClientInStep == Spec => []InStep
  <1>1. ASSUME IInv PROVE InStep
    <2>1. PICK packs, pk, at : IsStream(wire, sent, packs, pk, at) /\ Reader(packs, pk[1], at[1])
      BY <1>1 DEF IInv
    <2> DEFINE i == pk[1]
               j == at[1]
    <2>2. /\ IsSeq(got) /\ IsSeq(sent) /\ DOMAIN got = 1..Len(got)
          /\ Len(got) \in Nat /\ Len(sent) \in Nat
      BY <1>1, SeqIs DEF IInv
    <2>3. CASE Astray(got, sent)
      <3>1. PICK n \in 1..Len(sent) : /\ n <= Len(got) + 1 /\ ~Delimited(sent[n])
                                      /\ \A k \in 1..(n - 1) : got[k] = Wanted(sent[k])
        BY <2>3 DEF Astray
      <3>2. ASSUME NEW k \in DOMAIN got, DelimitedUpTo(k)
            PROVE  got[k] = Wanted(sent[k])
        <4>1. ~(n \in 1..k)
          BY <3>1, <3>2 DEF DelimitedUpTo
        <4>2. k \in 1..(n - 1)
          BY <2>2, <4>1
        <4>3. QED
          BY <3>1, <4>2
      <3>3. ~DelimitedUpTo(Len(sent))
        BY <3>1 DEF DelimitedUpTo
      <3>4. QED
        BY <3>2, <3>3 DEF InStep, Wanted
    <2>4. CASE Along(packs, i, j)
      <3>1. Len(got) <= Len(sent) /\ \A k \in DOMAIN got : got[k] = Wanted(sent[k])
        BY <2>2, <2>4 DEF Along, Right
      <3>2. reading # "lost"
        BY <2>4 DEF Along
      <3>3. ASSUME wire = <<>>
            PROVE  reading = "close" \/ (reading = "status" /\ Len(got) = Len(sent))
        <4>1. i = Len(sent) + 1 /\ j = 1
          BY <2>1, <3>3, SmallSeqs DEF IsStream
        <4>2. reading # "header"
          BY <2>1, <2>2, <4>1 DEF Reader, HeadRead
        <4>3. reading # "body"
          BY <2>2, <2>4, <4>1 DEF Along
        <4>4. QED
          BY <2>2, <2>4, <4>1, <4>2, <4>3 DEF Along
      <3>4. QED
        BY <3>1, <3>2, <3>3 DEF InStep, Wanted
    <2>5. QED
      BY <2>1, <2>3, <2>4 DEF Reader
  <1>2. QED
    BY <1>1, InvInitially, InvKept, PTL DEF Spec
===============================================================================
