--------------------------- MODULE HeaderOrderProofs ---------------------------
(* Theorems about HeaderOrder, for any characters and any tolower.           *)
EXTENDS HeaderOrder, WellFoundedInduction, TLAPS

\* A set of natural numbers that is not empty has a least element.
LEMMA LeastNatural ==
    ASSUME NEW T, T \subseteq Nat, T # {}
    PROVE  \E n \in T : \A m \in T : n <= m
  <1> DEFINE less == OpToRel(<, Nat)
  <1>1. PICK n \in T : \A m \in T : <<m, n>> \notin less
    <2>1. IsWellFoundedOn(less, Nat)
      BY NatLessThanWellFounded
    <2> HIDE DEF less
    <2>2. QED
      BY <2>1, WFMin
  <1>2. \A m \in T : ~(m < n)
    <2>1. \A m \in Nat : m < n => <<m, n>> \in less
      BY DEF OpToRel
    <2> HIDE DEF less
    <2>2. QED
      BY <1>1, <2>1
  <1>3. QED
    BY <1>2

\* s is less than t because of position n: it ends there, or has a lesser code.
LessAt(s, t, n) ==
    /\ n \in 1..Len(t) /\ n <= Len(s) + 1 /\ AgreeUpTo(s, t, n - 1)
    /\ n = Len(s) + 1 \/ ci_compare(s[n], t[n])

LEMMA Codes == ASSUME NEW s \in Text, NEW i \in 1..Len(s) PROVE tolower[s[i]] \in Int
  BY OrderAssumption DEF Text

LEMMA LessIsLessAt ==
    ASSUME NEW s \in Text, NEW t \in Text
    PROVE  ci_less(s, t) <=> \E n \in Nat : LessAt(s, t, n)
  <1> USE DEF Text
  <1>1. ASSUME ci_less(s, t) PROVE \E n \in Nat : LessAt(s, t, n)
    <2>1. ASSUME NEW i \in DOMAIN s \cap DOMAIN t,
                 ci_compare(s[i], t[i]), AgreeUpTo(s, t, i - 1)
          PROVE  LessAt(s, t, i) /\ i \in Nat
      BY <2>1 DEF LessAt
    <2>2. CASE Len(s) < Len(t) /\ AgreeUpTo(s, t, Len(s))
      <3>1. Len(s) + 1 \in 1..Len(t) /\ (Len(s) + 1) - 1 = Len(s)
        BY <2>2
      <3>2. LessAt(s, t, Len(s) + 1)
        BY <2>2, <3>1 DEF LessAt
      <3>3. QED
        BY <3>1, <3>2
    <2>3. QED
      BY <1>1, <2>1, <2>2 DEF ci_less
  <1>2. ASSUME NEW n \in Nat, LessAt(s, t, n) PROVE ci_less(s, t)
    <2>1. CASE n = Len(s) + 1
      <3>1. n - 1 = Len(s) /\ Len(s) < Len(t)
        BY <1>2, <2>1 DEF LessAt
      <3>2. QED
        BY <1>2, <3>1 DEF LessAt, ci_less
    <2>2. CASE n # Len(s) + 1
      <3>1. n \in DOMAIN s \cap DOMAIN t
        BY <1>2, <2>2 DEF LessAt
      <3>2. QED
        BY <1>2, <2>2, <3>1 DEF LessAt, ci_less
    <2>3. QED
      BY <2>1, <2>2
  <1>3. QED
    BY <1>1, <1>2

LEMMA AgreeIsSameCode ==
    ASSUME NEW s \in Text, NEW t \in Text, NEW n \in Nat, n <= Len(s), n <= Len(t)
    PROVE  AgreeUpTo(s, t, n) <=> \A i \in 1..n : tolower[s[i]] = tolower[t[i]]
  <1>1. \A i \in 1..n : tolower[s[i]] \in Int /\ tolower[t[i]] \in Int
    BY Codes DEF Text
  <1>2. QED
    BY <1>1 DEF AgreeUpTo, ci_compare

\* ci_less is irreflexive, ...
LEMMA NotLessThanItself == ASSUME NEW s \in Text PROVE ~ci_less(s, s)
  <1>1. ASSUME NEW n \in Nat, LessAt(s, s, n) PROVE FALSE
    <2>1. n \in 1..Len(s) /\ n # Len(s) + 1 /\ ci_compare(s[n], s[n])
      BY <1>1 DEF LessAt, Text
    <2>2. QED
      BY <2>1, Codes DEF ci_compare
  <1>2. QED
    BY <1>1, LessIsLessAt

\* ... transitive, ...
LEMMA LessIsTransitive ==
    ASSUME NEW s \in Text, NEW t \in Text, NEW u \in Text, ci_less(s, t), ci_less(t, u)
    PROVE  ci_less(s, u)
  <1>1. PICK n \in Nat : LessAt(s, t, n)
    BY LessIsLessAt
  <1>2. PICK m \in Nat : LessAt(t, u, m)
    BY LessIsLessAt
  <1>3. Len(s) \in Nat /\ Len(t) \in Nat /\ Len(u) \in Nat
    BY DEF Text
  <1>4. /\ n \in 1..Len(t) /\ n <= Len(s) + 1 /\ m \in 1..Len(u) /\ m <= Len(t) + 1
        /\ n = Len(s) + 1 \/ ci_compare(s[n], t[n])
        /\ m = Len(t) + 1 \/ ci_compare(t[m], u[m])
    BY <1>1, <1>2 DEF LessAt
  <1>5. /\ \A i \in 1..(n - 1) : tolower[s[i]] = tolower[t[i]]
        /\ \A i \in 1..(m - 1) : tolower[t[i]] = tolower[u[i]]
    <2>1. /\ n - 1 \in Nat /\ n - 1 <= Len(s) /\ n - 1 <= Len(t)
          /\ m - 1 \in Nat /\ m - 1 <= Len(t) /\ m - 1 <= Len(u)
      BY <1>3, <1>4
    <2>2. AgreeUpTo(s, t, n - 1) /\ AgreeUpTo(t, u, m - 1)
      BY <1>1, <1>2 DEF LessAt
    <2>3. QED
      BY <2>1, <2>2, AgreeIsSameCode
  <1>6. ASSUME NEW k \in Nat, k \in 1..Len(u), k <= Len(s) + 1, k <= n, k <= m,
               k = Len(s) + 1 \/ ci_compare(s[k], u[k])
        PROVE  ci_less(s, u)
    <2>1. \A i \in 1..(k - 1) : tolower[s[i]] = tolower[u[i]]
      BY <1>3, <1>4, <1>5, <1>6
    <2>2. k - 1 \in Nat /\ k - 1 <= Len(s) /\ k - 1 <= Len(u)
      BY <1>3, <1>6
    <2>3. AgreeUpTo(s, u, k - 1)
      BY <2>1, <2>2, AgreeIsSameCode
    <2>4. QED
      BY <1>6, <2>3, LessIsLessAt DEF LessAt
  <1>7. CASE n < m
    <2>1. n \in 1..Len(u) /\ n \in 1..(m - 1) /\ tolower[t[n]] = tolower[u[n]]
      BY <1>3, <1>4, <1>5, <1>7
    <2>2. n = Len(s) + 1 \/ ci_compare(s[n], u[n])
      BY <1>4, <2>1 DEF ci_compare
    <2>3. QED
      BY <1>4, <1>6, <1>7, <2>1, <2>2
  <1>8. CASE m < n
    <2>1. m # Len(t) + 1 /\ m \in 1..(n - 1) /\ tolower[s[m]] = tolower[t[m]]
      BY <1>3, <1>4, <1>5, <1>8
    <2>2. ci_compare(s[m], u[m]) /\ m <= Len(s) + 1
      BY <1>3, <1>4, <1>8, <2>1 DEF ci_compare
    <2>3. QED
      BY <1>4, <1>6, <1>8, <2>2
  <1>9. CASE n = m
    <2>1. m # Len(t) + 1 /\ ci_compare(t[n], u[n])
      BY <1>3, <1>4, <1>9
    <2>2. n = Len(s) + 1 \/ ci_compare(s[n], u[n])
      <3>1. CASE n # Len(s) + 1
        <4>1. n \in 1..Len(s) /\ n \in 1..Len(t) /\ n \in 1..Len(u)
          BY <1>3, <1>4, <1>9, <3>1
        <4>2. tolower[s[n]] \in Int /\ tolower[t[n]] \in Int /\ tolower[u[n]] \in Int
          BY <4>1, Codes
        <4>3. QED
          BY <1>4, <2>1, <3>1, <4>2 DEF ci_compare
      <3>2. QED
        BY <3>1
    <2>3. QED
      BY <1>4, <1>6, <1>9, <2>2
  <1>10. QED
    BY <1>7, <1>8, <1>9

\* ... and two texts are equivalent exactly if they differ in case only.
SameLetters(s, t) == Len(s) = Len(t) /\ \A i \in 1..Len(s) : tolower[s[i]] = tolower[t[i]]

LEMMA NotLessThanSameLetters ==
    ASSUME NEW s \in Text, NEW t \in Text, SameLetters(s, t)
    PROVE  ~ci_less(s, t)
  <1>1. ASSUME NEW n \in Nat, LessAt(s, t, n) PROVE FALSE
    <2>1. n \in 1..Len(s) /\ ci_compare(s[n], t[n]) /\ tolower[s[n]] = tolower[t[n]]
      BY <1>1 DEF LessAt, SameLetters, Text
    <2>2. QED
      BY <2>1, Codes DEF ci_compare
  <1>2. QED
    BY <1>1, LessIsLessAt

LEMMA DifferentLettersAreOrdered ==
    ASSUME NEW s \in Text, NEW t \in Text, ~SameLetters(s, t)
    PROVE  ci_less(s, t) \/ ci_less(t, s)
  <1> DEFINE Differ == {n \in Nat \ {0} : \/ n > Len(s) \/ n > Len(t)
                                          \/ tolower[s[n]] # tolower[t[n]]}
  <1>1. Len(s) \in Nat /\ Len(t) \in Nat
    BY DEF Text
  <1>2. PICK n \in Differ : \A m \in Differ : n <= m
    <2>1. Len(s) + 1 \in Differ
      BY <1>1
    <2>2. QED
      BY <2>1, LeastNatural
  <1>3. \A m \in 1..(n - 1) : m <= Len(s) /\ m <= Len(t) /\ tolower[s[m]] = tolower[t[m]]
    BY <1>1, <1>2
  <1>4. n \in Nat \ {0} /\ n - 1 <= Len(s) /\ n - 1 <= Len(t)
    BY <1>1, <1>2, <1>3
  <1> HIDE DEF Differ
  <1>5. AgreeUpTo(s, t, n - 1) /\ AgreeUpTo(t, s, n - 1)
    BY <1>1, <1>3, <1>4, AgreeIsSameCode
  <1>6. ~(n > Len(s) /\ n > Len(t))
    BY <1>1, <1>3, <1>4 DEF SameLetters
  <1>7. CASE n > Len(s)
    BY <1>1, <1>4, <1>5, <1>6, <1>7, LessIsLessAt DEF LessAt
  <1>8. CASE n > Len(t)
    BY <1>1, <1>4, <1>5, <1>6, <1>8, LessIsLessAt DEF LessAt
  <1>9. CASE n <= Len(s) /\ n <= Len(t)
    <2>1. n \in 1..Len(s) /\ n \in 1..Len(t) /\ tolower[s[n]] # tolower[t[n]]
      BY <1>1, <1>2, <1>4, <1>9 DEF Differ
    <2>2. ci_compare(s[n], t[n]) \/ ci_compare(t[n], s[n])
      BY <2>1, Codes DEF ci_compare
    <2>3. QED
      BY <1>1, <1>4, <1>5, <2>1, <2>2, LessIsLessAt DEF LessAt
  <1>10. QED
    BY <1>1, <1>4, <1>7, <1>8, <1>9

\* The comparison behind HeaderMap ignores case, and only case.
THEOREM OnlyCaseIsIgnored ==
    \A s, t \in Text : Equivalent(s, t) <=> SameLetters(s, t)
  <1> SUFFICES ASSUME NEW s \in Text, NEW t \in Text
               PROVE  Equivalent(s, t) <=> SameLetters(s, t)
    OBVIOUS
  <1>1. SameLetters(s, t) => SameLetters(t, s)
    BY DEF SameLetters
  <1>2. QED
    BY <1>1, NotLessThanSameLetters, DifferentLettersAreOrdered DEF Equivalent

\* It is a strict weak order, which std::map requires: irreflexive and transitive,
\* and so is being equivalent.
THEOREM StrictWeakOrder ==
    \A s, t, u \in Text :
        /\ ~ci_less(s, s)
        /\ ci_less(s, t) /\ ci_less(t, u) => ci_less(s, u)
        /\ Equivalent(s, t) /\ Equivalent(t, u) => Equivalent(s, u)
  <1> SUFFICES ASSUME NEW s \in Text, NEW t \in Text, NEW u \in Text
               PROVE  /\ ~ci_less(s, s)
                      /\ ci_less(s, t) /\ ci_less(t, u) => ci_less(s, u)
                      /\ Equivalent(s, t) /\ Equivalent(t, u) => Equivalent(s, u)
    OBVIOUS
  <1>1. SameLetters(s, t) /\ SameLetters(t, u) => SameLetters(s, u)
    BY DEF SameLetters, Text
  <1>2. QED
    BY <1>1, NotLessThanItself, LessIsTransitive, OnlyCaseIsIgnored
================================================================================
