------------------------------ MODULE HeaderOrder ------------------------------
(***************************************************************************)
(* The order of HeaderMap's keys (src/src/headerstr.h), and the map itself: *)
(* a std::map that takes two keys for the same one when neither is less.   *)
(* A string is a sequence of characters (or of larger pieces) and tolower  *)
(* gives the code of each in lower case.                                   *)
(***************************************************************************)
EXTENDS Integers, Sequences

CONSTANTS Chars, tolower

Text == Seq(Chars)

ASSUME OrderAssumption == tolower \in [Chars -> Int]

ci_compare(c1, c2) == tolower[c1] < tolower[c2]

AgreeUpTo(s, t, n) ==
    \A i \in 1..n : ~ci_compare(s[i], t[i]) /\ ~ci_compare(t[i], s[i])

\* lexicographical_compare, which the code calls ci_equal.
ci_less(s, t) ==
    \/ \E i \in DOMAIN s \cap DOMAIN t : ci_compare(s[i], t[i]) /\ AgreeUpTo(s, t, i - 1)
    \/ Len(s) < Len(t) /\ AgreeUpTo(s, t, Len(s))

Equivalent(s, t) == ~ci_less(s, t) /\ ~ci_less(t, s)

\* Mutant: a plain std::map.
SpellingExact(map, key) == key

\* The key an access ends up with: that of the first insertion.
Spelling(map, key) == IF \E k \in DOMAIN map : Equivalent(k, key)
                      THEN CHOOSE k \in DOMAIN map : Equivalent(k, key)
                      ELSE key

Has(map, key) == Spelling(map, key) \in DOMAIN map

\* map[key] = value
Put(map, key, value) ==
    [k \in DOMAIN map \cup {Spelling(map, key)} |->
        IF k = Spelling(map, key) THEN value ELSE map[k]]

\* map[key], which inserts an empty value where there is none.
Touch(map, key) == IF Has(map, key) THEN map ELSE Put(map, key, <<>>)
===============================================================================
