-------------------------- MODULE RequestParserProofs --------------------------
(* Theorems about RequestParser, for any header blocks and characters.       *)
EXTENDS RequestParser, HeaderOrderProofs, SequenceTheorems, FunctionTheorems,
        FiniteSetTheorems

LEMMA LeastIsLeast ==
    ASSUME NEW S, S \subseteq Nat, S # {}
    PROVE  Least(S) \in S /\ \A m \in S : Least(S) <= m
  BY LeastNatural DEF Least

\* strtok returns a part of the string, and goes on at a position.
LEMMA StrtokType ==
    ASSUME NEW s \in Text, NEW p \in Nat \ {0}, NEW delims
    PROVE  /\ strtok(s, p, delims).token \in Text
           /\ strtok(s, p, delims).next \in Nat \ {0}
  <1> DEFINE b == Start(s, p, delims)
             E == {i \in b..Len(s) : s[i] \in delims} \cup {Len(s) + 1}
             e == Least(E)
  <1>1. Len(s) \in Nat
    BY DEF Text
  <1>2. b \in Nat \ {0} /\ b <= Len(s) + 1
    <2> DEFINE B == {i \in p..Len(s) : s[i] \notin delims} \cup {Len(s) + 1}
    <2>1. B \subseteq Nat \ {0} /\ B # {} /\ Len(s) + 1 \in B
      BY <1>1
    <2> HIDE DEF B
    <2>2. Least(B) \in B /\ Least(B) <= Len(s) + 1
      BY <2>1, LeastIsLeast
    <2>3. b = Least(B)
      BY DEF Start, B
    <2>4. QED
      BY <2>1, <2>2, <2>3
  <1> HIDE DEF b
  <1>3. e \in Nat \ {0} /\ e <= Len(s) + 1
    <2>1. E \subseteq Nat \ {0} /\ E # {} /\ Len(s) + 1 \in E
      BY <1>1, <1>2
    <2> HIDE DEF E
    <2>2. QED
      BY <2>1, LeastIsLeast
  <1>4. strtok(s, p, delims) = [found |-> b <= Len(s), token |-> SubSeq(s, b, e - 1),
                                next |-> e + 1]
    BY DEF strtok, b
  <1> HIDE DEF e
  <1>5. SubSeq(s, b, e - 1) \in Text
    <2>1. \A i \in b..(e - 1) : s[i] \in Chars
      BY <1>1, <1>2, <1>3 DEF Text
    <2>2. b \in Int /\ e - 1 \in Int
      BY <1>2, <1>3
    <2>3. QED
      BY <2>1, <2>2, SubSeqProperties DEF Text
  <1>6. QED
    BY <1>3, <1>4, <1>5

IsHeaderMap(map) == DOMAIN map \subseteq Text /\ \A k \in DOMAIN map : map[k] \in Text

LEMMA SpellingType ==
    ASSUME NEW map, NEW key \in Text
    PROVE  Spelling(map, key) \in DOMAIN map \cup {key}
  BY DEF Spelling

LEMMA PutType ==
    ASSUME NEW map, IsHeaderMap(map), NEW key \in Text, NEW value \in Text
    PROVE  IsHeaderMap(Put(map, key, value))
  BY SpellingType DEF IsHeaderMap, Put

LEMMA TouchType ==
    ASSUME NEW map, IsHeaderMap(map), NEW key \in Text
    PROVE  IsHeaderMap(Touch(map, key))
  <1>1. <<>> \in Text
    BY DEF Text
  <1>2. QED
    BY <1>1, PutType DEF Touch

\* The names the code itself asks for.
LEMMA OwnNames ==
    /\ <<"Content-Type">> \in Text /\ <<"Content-Length">> \in Text
    /\ <<"Connection">> \in Text /\ <<"application/octet-stream">> \in Text
  BY ParserAssumption DEF Text

\* What the actions rely on beyond types.
Positions ==
    /\ block \in Seq(Text) /\ (pc \notin {"idle"} => block # <<>>)
    /\ line \in Nat \ {0} /\ pos \in Nat \ {0}
    /\ pc = "query" => Question # {}

PInv == TypeOK /\ Positions

LEMMA InitPInv == Init => PInv
  <1> SUFFICES ASSUME Init
               PROVE  PInv
    OBVIOUS
  <1>1. /\ <<"GET">> \in Text /\ <<"/">> \in Text /\ <<"HTTP/1.1">> \in Text
        /\ <<>> \in Seq(Text) /\ 0 \in 0..MaxRequests
    BY ParserAssumption DEF Text
  <1>2. DOMAIN Empty = {}
    BY DEF Empty
  <1>3. QED
    BY <1>1, <1>2 DEF Init, PInv, TypeOK, Positions

\* The request line sets three fields to parts of it.
LEMMA RequestLineInv == ASSUME PInv, RequestLine PROVE PInv'
  <1> DEFINE m == strtok(block[1], 1, {" "})
             u == strtok(block[1], m.next, {" "})
             v == strtok(block[1], u.next, {" "})
             upper == [i \in DOMAIN v.token |-> toupper[v.token[i]]]
  <1>1. /\ method' = IF m.found THEN m.token ELSE method
        /\ uri' = IF u.found THEN u.token ELSE uri
        /\ version' = IF v.found THEN upper ELSE version
        /\ headers' = IF v.found THEN Empty ELSE headers
        /\ pc' = IF v.found THEN "headers" ELSE "malformed"
        /\ line' = 2 /\ UNCHANGED <<block, pos, params, count>>
        /\ pc = "request line"
    BY DEF RequestLine
  <1>2. block[1] \in Text /\ 1 \in Nat \ {0}
    <2>1. block \in Seq(Text) /\ block # <<>>
      BY <1>1 DEF PInv, Positions
    <2>2. QED
      BY <2>1
  <1>3. m.token \in Text /\ m.next \in Nat \ {0}
    BY <1>2, StrtokType
  <1> HIDE DEF m
  <1>4. u.token \in Text /\ u.next \in Nat \ {0}
    BY <1>2, <1>3, StrtokType
  <1> HIDE DEF u
  <1>5. v.token \in Text
    BY <1>2, <1>4, StrtokType
  <1> HIDE DEF v
  <1>6. upper \in Text
    <2>1. /\ v.token \in Seq(Chars) /\ DOMAIN v.token = 1..Len(v.token) /\ Len(v.token) \in Nat
          /\ \A i \in DOMAIN v.token : toupper[v.token[i]] \in Chars
      BY <1>5, ParserAssumption DEF Text
    <2>2. QED
      BY <2>1 DEF Text
  <1> HIDE DEF upper
  <1>7. IsHeaderMap(headers')
    <2>1. IsHeaderMap(headers) /\ IsHeaderMap(Empty)
      BY DEF PInv, TypeOK, IsHeaderMap, Empty
    <2>2. QED
      BY <1>1, <2>1
  <1>8. method' \in Text /\ uri' \in Text /\ version' \in Text
    BY <1>1, <1>3, <1>4, <1>6 DEF PInv, TypeOK
  <1>9. pc' \in {"headers", "malformed"}
    BY <1>1
  <1>10. TypeOK'
    BY <1>1, <1>7, <1>8, <1>9 DEF PInv, TypeOK, IsHeaderMap
  <1>11. Positions'
    <2>1. block \in Seq(Text) /\ block # <<>> /\ pos \in Nat \ {0}
      BY <1>1 DEF PInv, Positions
    <2>2. block' = block /\ pos' = pos /\ line' = 2 /\ pc' # "query"
      BY <1>1, <1>9
    <2>3. QED
      BY <2>1, <2>2 DEF Positions
  <1>12. QED
    BY <1>10, <1>11 DEF PInv

LEMMA HeaderLineInv == ASSUME PInv, HeaderLine PROVE PInv'
  <1>1. /\ headers' = Put(headers, Name(block[line]).token, Value(block[line]).token)
        /\ line' = line + 1
        /\ UNCHANGED <<pc, block, pos, method, uri, version, params, count>>
        /\ line <= Len(block) /\ pc = "headers"
    BY DEF HeaderLine, IsHeader
  <1>2. block[line] \in Text /\ 1 \in Nat \ {0}
    BY <1>1 DEF PInv, Positions
  <1>3. Name(block[line]).token \in Text /\ Name(block[line]).next \in Nat \ {0}
    BY <1>2, StrtokType DEF Name
  <1>4. Value(block[line]).token \in Text
    BY <1>2, <1>3, StrtokType DEF Value
  <1>5. IsHeaderMap(headers)
    BY DEF PInv, TypeOK, IsHeaderMap
  <1>6. IsHeaderMap(headers')
    BY <1>1, <1>3, <1>4, <1>5, PutType
  <1>7. QED
    BY <1>1, <1>6 DEF PInv, TypeOK, Positions, IsHeaderMap

LEMMA QuestionType ==
    ASSUME PInv
    PROVE  /\ uri \in Seq(Chars) /\ Len(uri) \in Nat /\ DOMAIN uri = 1..Len(uri)
           /\ Question \subseteq 1..Len(uri)
  <1>1. uri \in Seq(Chars)
    BY DEF PInv, TypeOK, Text
  <1>2. QED
    BY <1>1 DEF Question

LEMMA HeadersEndInv == ASSUME PInv, HeadersEnd PROVE PInv'
  <1>1. /\ UNCHANGED <<block, line, method, uri, version, count>>
        /\ params' = Empty /\ pc = "headers"
        /\ headers' \in {headers, Put(headers, <<"Content-Type">>, <<"application/octet-stream">>)}
    BY DEF HeadersEnd, ParamsCleared
  <1>2. IsHeaderMap(headers')
    <2>1. IsHeaderMap(headers)
      BY DEF PInv, TypeOK, IsHeaderMap
    <2>2. QED
      BY <1>1, <2>1, PutType, OwnNames
  <1>3. DOMAIN params' = {}
    BY <1>1 DEF Empty
  <1>4. Question' = Question
    BY <1>1 DEF Question
  <1>5. CASE Question = {}
    <2>1. pc' = "parsed" /\ pos' = pos
      BY <1>5 DEF HeadersEnd
    <2>2. uri \in Seq(Chars \ {"?"})
      BY <1>5, QuestionType DEF Question
    <2>3. QED
      BY <1>1, <1>2, <1>3, <2>1, <2>2 DEF PInv, TypeOK, Positions, IsHeaderMap
  <1>6. CASE Question # {}
    <2>1. pc' = "query" /\ pos' = Least(Question) + 1
      BY <1>6 DEF HeadersEnd
    <2>2. Least(Question) \in Nat
      BY <1>6, QuestionType, LeastIsLeast
    <2>3. QED
      BY <1>1, <1>2, <1>3, <1>4, <1>6, <2>1, <2>2 DEF PInv, TypeOK, Positions, IsHeaderMap
  <1>7. QED
    BY <1>5, <1>6

LEMMA QueryPairInv == ASSUME PInv, QueryPair PROVE PInv'
  <1>1. /\ params' = [k \in DOMAIN params \cup {Key.token} |->
                         IF k # Key.token THEN params[k]
                         ELSE IF Val.found THEN Val.token ELSE <<>>]
        /\ pos' = Val.next
        /\ UNCHANGED <<pc, block, line, method, uri, version, headers, count>>
    BY DEF QueryPair
  <1>2. uri \in Text /\ pos \in Nat \ {0}
    BY DEF PInv, TypeOK, Positions
  <1>3. Key.token \in Text /\ Key.next \in Nat \ {0}
    BY <1>2, StrtokType DEF Key
  <1>4. Val.token \in Text /\ Val.next \in Nat \ {0}
    BY <1>2, <1>3, StrtokType DEF Val
  <1>5. <<>> \in Text
    BY DEF Text
  <1>6. DOMAIN params' \subseteq Text /\ \A k \in DOMAIN params' : params'[k] \in Text
    BY <1>1, <1>3, <1>4, <1>5 DEF PInv, TypeOK
  <1>7. Question' = Question
    BY <1>1 DEF Question
  <1>8. QED
    BY <1>1, <1>4, <1>6, <1>7 DEF PInv, TypeOK, Positions

\* The path is what precedes the first question mark, and has none.
LEMMA QueryEndInv == ASSUME PInv, QueryEnd PROVE PInv'
  <1> DEFINE q == Least(Question)
  <1>1. /\ UNCHANGED <<block, line, pos, method, version, headers, params, count>>
        /\ pc = "query" /\ pc' = "parsed" /\ uri' = SubSeq(uri, 1, q - 1)
    BY DEF QueryEnd, Path
  <1>2. q \in Question /\ \A i \in Question : q <= i
    <2>1. Question # {}
      BY <1>1 DEF PInv, Positions
    <2>2. Question \subseteq Nat
      BY QuestionType
    <2>3. QED
      BY <2>1, <2>2, LeastIsLeast
  <1> HIDE DEF q
  <1>3. uri \in Seq(Chars) /\ q \in 1..Len(uri) /\ Len(uri) \in Nat
    BY <1>2, QuestionType
  <1>4. \A i \in 1..(q - 1) : i \in DOMAIN uri /\ i \notin Question
    BY <1>2, <1>3
  <1>5. \A i \in 1..(q - 1) : uri[i] \in Chars \ {"?"}
    BY <1>3, <1>4 DEF Question
  <1>6. uri' \in Seq(Chars \ {"?"})
    <2>1. 1 \in Int /\ q - 1 \in Int
      BY <1>3
    <2>2. QED
      BY <1>1, <1>5, <2>1, SubSeqProperties
  <1>7. uri' \in Text
    BY <1>6 DEF Text
  <1>8. QED
    BY <1>1, <1>6, <1>7 DEF PInv, TypeOK, Positions

LEMMA NextPInv == PInv /\ [Next]_vars => PInv'
  <1> SUFFICES ASSUME PInv, [Next]_vars
               PROVE  PInv'
    OBVIOUS
  <1>1. ASSUME NEW b \in Blocks, count < MaxRequests, Arrives(b)
        PROVE  PInv'
    <2>1. block' \in Seq(Text) /\ block' # <<>>
      BY <1>1, ParserAssumption DEF Arrives, Text
    <2>2. count' \in 0..MaxRequests
      <3>1. count' = count + 1 /\ count < MaxRequests
        BY <1>1 DEF Arrives
      <3>2. count \in 0..MaxRequests /\ MaxRequests \in Nat
        BY ParserAssumption DEF PInv, TypeOK
      <3>3. QED
        BY <3>1, <3>2
    <2>3. pc' = "request line" /\ UNCHANGED <<line, pos, fieldVars>>
      BY <1>1 DEF Arrives
    <2>4. QED
      BY <2>1, <2>2, <2>3 DEF PInv, TypeOK, Positions, fieldVars
  <1>2. CASE Parse
    BY <1>2, RequestLineInv, HeaderLineInv, HeadersEndInv, QueryPairInv, QueryEndInv DEF Parse
  <1>3. CASE GetHeader
    <2>1. IsHeaderMap(headers')
      BY <1>3, TouchType, OwnNames DEF GetHeader, PInv, TypeOK, IsHeaderMap
    <2>2. QED
      BY <1>3, <2>1 DEF GetHeader, PInv, TypeOK, Positions, IsHeaderMap
  <1>4. CASE Refused
    BY <1>4 DEF Refused, PInv, TypeOK, Positions, fieldVars
  <1>5. CASE GetBody
    <2>1. IsHeaderMap(headers')
      BY <1>5, TouchType, OwnNames DEF GetBody, PInv, TypeOK, IsHeaderMap
    <2>2. QED
      BY <1>5, <2>1 DEF GetBody, PInv, TypeOK, Positions, IsHeaderMap
  <1>6. CASE UNCHANGED vars
    BY <1>6 DEF vars, fieldVars, PInv, TypeOK, Positions, Question
  <1>7. QED
    BY <1>1, <1>2, <1>3, <1>4, <1>5, <1>6, ParserAssumption DEF Next

LEMMA ParserInvariance == Spec => []PInv
  BY InitPInv, NextPInv, PTL DEF Spec

\* Whatever arrives, strtok never leaves its string, every field is a text made of
\* what arrived, and a parsed URI holds no question mark.
THEOREM ParserTypeCorrect == Spec => []TypeOK
  <1>1. PInv => TypeOK
    BY DEF PInv
  <1>2. QED
    BY <1>1, ParserInvariance, PTL

-----------------------------------------------------------------------------
(* One entry for each name. *)

\* No two headers have names that differ in case only, or not at all.
NamesDistinct == \A k, l \in DOMAIN headers : SameLetters(k, l) => k = l

Distinct(map) == \A k, l \in DOMAIN map : SameLetters(k, l) => k = l

LEMMA PutDistinct ==
    ASSUME NEW map, IsHeaderMap(map), Distinct(map), NEW key \in Text, NEW value
    PROVE  Distinct(Put(map, key, value))
  <1>1. DOMAIN Put(map, key, value) = DOMAIN map \cup {Spelling(map, key)}
    BY DEF Put
  <1>2. CASE \E k \in DOMAIN map : Equivalent(k, key)
    <2>1. Spelling(map, key) \in DOMAIN map
      BY <1>2 DEF Spelling
    <2>2. QED
      BY <1>1, <2>1 DEF Distinct
  <1>3. CASE ~\E k \in DOMAIN map : Equivalent(k, key)
    <2>1. Spelling(map, key) = key
      BY <1>3 DEF Spelling
    <2>2. \A k \in DOMAIN map : ~SameLetters(k, key) /\ ~SameLetters(key, k)
      BY <1>3, OnlyCaseIsIgnored DEF IsHeaderMap, Equivalent
    <2>3. QED
      BY <1>1, <2>1, <2>2 DEF Distinct
  <1>4. QED
    BY <1>2, <1>3

LEMMA TouchDistinct ==
    ASSUME NEW map, IsHeaderMap(map), Distinct(map), NEW key \in Text
    PROVE  Distinct(Touch(map, key))
  BY PutDistinct DEF Touch

LEMMA NextDistinct == PInv /\ NamesDistinct /\ [Next]_vars => NamesDistinct'
  <1> SUFFICES ASSUME PInv, Distinct(headers), [Next]_vars
               PROVE  Distinct(headers')
    BY DEF NamesDistinct, Distinct
  <1>0. IsHeaderMap(headers)
    BY DEF PInv, TypeOK, IsHeaderMap
  <1>1. CASE RequestLine
    BY <1>1 DEF RequestLine, Distinct, Empty
  <1>2. CASE HeaderLine
    <2>1. /\ headers' = Put(headers, Name(block[line]).token, Value(block[line]).token)
          /\ line <= Len(block) /\ pc = "headers"
      BY <1>2 DEF HeaderLine, IsHeader
    <2>2. block[line] \in Text /\ 1 \in Nat \ {0}
      BY <2>1 DEF PInv, Positions
    <2>3. Name(block[line]).token \in Text
      BY <2>2, StrtokType DEF Name
    <2>4. QED
      BY <1>0, <2>1, <2>3, PutDistinct
  <1>3. CASE HeadersEnd
    BY <1>0, <1>3, PutDistinct, OwnNames DEF HeadersEnd
  <1>4. CASE GetHeader \/ GetBody
    BY <1>0, <1>4, TouchDistinct, OwnNames DEF GetHeader, GetBody
  <1>5. CASE UNCHANGED headers
    BY <1>5
  <1>6. QED
    BY <1>1, <1>2, <1>3, <1>4, <1>5
       DEF Next, Parse, Arrives, QueryPair, QueryEnd, Refused, vars, fieldVars

\* However a client spells the names of its headers, and whatever the code looks
\* up in between, each name has one entry.
THEOREM OneEntryPerName == Spec => []NamesDistinct
  <1>1. Init => NamesDistinct
    BY DEF Init, NamesDistinct, Empty
  <1>2. QED
    BY <1>1, NextDistinct, ParserInvariance, PTL DEF Spec

-----------------------------------------------------------------------------
(* strtok finds words: the longest runs without separators.                  *)

\* Where a token begins, ...
LEMMA StartIs ==
    ASSUME NEW s \in Text, NEW p \in Nat \ {0}, NEW delims
    PROVE  LET b == Start(s, p, delims)
           IN  /\ b \in Nat \ {0} /\ b <= Len(s) + 1
               /\ \A i \in p..Len(s) : i < b => s[i] \in delims
               /\ b <= Len(s) => p <= b /\ s[b] \notin delims
  <1> DEFINE B == {i \in p..Len(s) : s[i] \notin delims} \cup {Len(s) + 1}
             b == Least(B)
  <1>1. Len(s) \in Nat
    BY DEF Text
  <1>2. B \subseteq Nat \ {0} /\ B # {} /\ Len(s) + 1 \in B
    BY <1>1
  <1>3. /\ \A i \in p..Len(s) : s[i] \notin delims => i \in B
        /\ \A i \in B : i # Len(s) + 1 => i \in p..Len(s) /\ s[i] \notin delims
    OBVIOUS
  <1> HIDE DEF B
  <1>4. b \in B /\ \A i \in B : b <= i
    BY <1>2, LeastIsLeast
  <1> HIDE DEF b
  <1>5. /\ b \in Nat \ {0} /\ b <= Len(s) + 1
        /\ \A i \in p..Len(s) : i < b => s[i] \in delims
        /\ b <= Len(s) => p <= b /\ s[b] \notin delims
    BY <1>1, <1>2, <1>3, <1>4
  <1>6. Start(s, p, delims) = b
    BY DEF Start, b, B
  <1>7. QED
    BY <1>5, <1>6

\* ... and where the separator after it is.
End(s, b, delims) == Least({i \in b..Len(s) : s[i] \in delims} \cup {Len(s) + 1})

LEMMA EndIs ==
    ASSUME NEW s \in Text, NEW b \in Nat \ {0}, b <= Len(s) + 1, NEW delims
    PROVE  LET e == End(s, b, delims)
           IN  /\ e \in Nat \ {0} /\ b <= e /\ e <= Len(s) + 1
               /\ \A i \in b..(e - 1) : s[i] \notin delims
               /\ e <= Len(s) => s[e] \in delims
  <1> DEFINE E == {i \in b..Len(s) : s[i] \in delims} \cup {Len(s) + 1}
             e == Least(E)
  <1>1. Len(s) \in Nat
    BY DEF Text
  <1>2. E \subseteq Nat \ {0} /\ E # {} /\ Len(s) + 1 \in E
    BY <1>1
  <1>3. /\ \A i \in b..Len(s) : s[i] \in delims => i \in E
        /\ \A i \in E : i # Len(s) + 1 => i \in b..Len(s) /\ s[i] \in delims
    OBVIOUS
  <1> HIDE DEF E
  <1>4. e \in E /\ \A i \in E : e <= i
    BY <1>2, LeastIsLeast
  <1> HIDE DEF e
  <1>5. /\ e \in Nat \ {0} /\ b <= e /\ e <= Len(s) + 1
        /\ \A i \in b..(e - 1) : s[i] \notin delims
        /\ e <= Len(s) => s[e] \in delims
    BY <1>1, <1>2, <1>3, <1>4
  <1>6. End(s, b, delims) = e
    BY DEF End, e, E
  <1>7. QED
    BY <1>5, <1>6

LEMMA StrtokIs ==
    ASSUME NEW s, NEW p, NEW delims
    PROVE  LET b == Start(s, p, delims)
               e == End(s, b, delims)
           IN  strtok(s, p, delims) = [found |-> b <= Len(s), token |-> SubSeq(s, b, e - 1),
                                       next |-> e + 1]
  BY DEF strtok, End

WordsBefore(s, seps, p) == {j \in WordStarts(s, seps) : j < p}

\* Position p is not inside of a word, and k words begin before it.
AtWord(s, seps, p, k) ==
    /\ p = 1 \/ p > Len(s) + 1 \/ s[p - 1] \in seps
    /\ Cardinality(WordsBefore(s, seps, p)) = k

LEMMA WordStartsFinite ==
    ASSUME NEW s \in Text, NEW seps, NEW T, T \subseteq WordStarts(s, seps)
    PROVE  /\ IsFiniteSet(T) /\ Cardinality(T) \in Nat
           /\ WordStarts(s, seps) \subseteq 1..Len(s) /\ Len(s) \in Nat
  <1>1. Len(s) \in Nat /\ DOMAIN s = 1..Len(s)
    BY DEF Text
  <1>2. WordStarts(s, seps) \subseteq 1..Len(s)
    BY <1>1 DEF WordStarts
  <1>3. IsFiniteSet(1..Len(s)) /\ T \in SUBSET (1..Len(s))
    BY <1>1, <1>2, FS_Interval
  <1>4. IsFiniteSet(T)
    BY <1>3, FS_Subset
  <1>5. QED
    BY <1>1, <1>2, <1>4, FS_CardinalityType

\* The word that begins at b is the one with as many words before it.
LEMMA WordAt ==
    ASSUME NEW s \in Text, NEW seps, NEW b \in WordStarts(s, seps), NEW k \in Nat,
           Cardinality(WordsBefore(s, seps, b)) = k,
           NEW e \in Nat, b <= e, e <= Len(s) + 1,
           \A i \in b..(e - 1) : s[i] \notin seps, e <= Len(s) => s[e] \in seps
    PROVE  Word(s, seps, k + 1) = SubSeq(s, b, e - 1)
  <1> DEFINE W == WordStarts(s, seps)
             upTo(i) == {j \in W : j <= i}
             rank(i) == Cardinality(upTo(i))
             before == WordsBefore(s, seps, b)
  <1>1. W \subseteq 1..Len(s) /\ Len(s) \in Nat /\ b \in 1..Len(s)
    BY WordStartsFinite
  <1>2. before \subseteq W /\ IsFiniteSet(before) /\ b \notin before
    <2>1. before \subseteq W
      BY DEF WordsBefore
    <2>2. b \notin before
      BY <1>1 DEF WordsBefore
    <2>3. QED
      BY <2>1, <2>2, WordStartsFinite
  <1>3. rank(b) = k + 1
    <2>1. upTo(b) = before \cup {b}
      BY <1>1 DEF WordsBefore
    <2>2. QED
      BY <1>2, <2>1, FS_AddElement
  <1>4. ASSUME NEW i \in W, rank(i) = k + 1
        PROVE  i = b
    <2>1. i \in 1..Len(s)
      BY <1>1
    <2>2. CASE i < b
      <3>1. upTo(i) \in SUBSET before
        BY <1>1, <2>1, <2>2 DEF WordsBefore
      <3>2. rank(i) <= k
        BY <1>2, <3>1, FS_Subset
      <3>3. QED
        BY <1>4, <3>2
    <2>3. CASE b < i
      <3>1. IsFiniteSet(upTo(b)) /\ i \notin upTo(b)
        BY <1>1, <2>1, <2>3, WordStartsFinite
      <3>2. Cardinality(upTo(b) \cup {i}) = (k + 1) + 1
        BY <1>3, <3>1, FS_AddElement
      <3>3. upTo(b) \cup {i} \in SUBSET upTo(i) /\ IsFiniteSet(upTo(i))
        BY <1>1, <2>1, <2>3, WordStartsFinite
      <3>4. (k + 1) + 1 <= k + 1
        BY <1>4, <3>2, <3>3, FS_Subset
      <3>5. QED
        BY <3>4
    <2>4. QED
      BY <1>1, <2>1, <2>2, <2>3
  <1> DEFINE c == CHOOSE i \in W : rank(i) = k + 1
             run == {x \in c..Len(s) : \A i \in c..x : s[i] \notin seps}
  <1>5. c = b
    BY <1>3, <1>4
  <1>6. Word(s, seps, k + 1) = SubSeq(s, c, c + Cardinality(run) - 1)
    BY DEF Word
  <1> HIDE DEF c
  <1>7. run = b..(e - 1)
    <2>1. run = {x \in b..Len(s) : \A i \in b..x : s[i] \notin seps}
      BY <1>5
    <2>2. ASSUME NEW x \in b..Len(s)
          PROVE  (\A i \in b..x : s[i] \notin seps) <=> x <= e - 1
      <3>1. CASE x <= e - 1
        BY <1>1, <3>1
      <3>2. CASE e <= x
        <4>1. e \in b..x /\ s[e] \in seps
          BY <1>1, <3>2
        <4>2. QED
          BY <3>2, <4>1
      <3>3. QED
        BY <1>1, <3>1, <3>2
    <2>3. \A x \in b..(e - 1) : x \in b..Len(s)
      BY <1>1
    <2>4. QED
      BY <1>1, <2>1, <2>2, <2>3
  <1> HIDE DEF run
  <1>8. Cardinality(run) = e - b
    <2>1. b \in Int /\ e - 1 \in Int
      BY <1>1
    <2>2. Cardinality(run) = IF b > e - 1 THEN 0 ELSE (e - 1) - b + 1
      BY <1>7, <2>1, FS_Interval
    <2>3. QED
      BY <1>1, <2>1, <2>2
  <1>9. c + Cardinality(run) - 1 = e - 1
    BY <1>1, <1>5, <1>8
  <1>10. QED
    BY <1>5, <1>6, <1>9

\* strtok from behind k words finds the next one exactly if there is one.
LEMMA NextWord ==
    ASSUME NEW s \in Text, NEW seps, NEW p \in Nat \ {0}, NEW k \in Nat,
           AtWord(s, seps, p, k)
    PROVE  LET t == strtok(s, p, seps)
           IN  /\ t.found <=> Words(s, seps) > k
               /\ t.found => /\ t.token = Word(s, seps, k + 1)
                             /\ AtWord(s, seps, t.next, k + 1)
  <1> DEFINE W == WordStarts(s, seps)
             b == Start(s, p, seps)
             e == End(s, b, seps)
             before == WordsBefore(s, seps, p)
             t == strtok(s, p, seps)
  <1>1. W \subseteq 1..Len(s) /\ Len(s) \in Nat /\ DOMAIN s = 1..Len(s)
    <2>1. DOMAIN s = 1..Len(s)
      BY DEF Text
    <2>2. QED
      BY <2>1, WordStartsFinite
  <1>2. /\ b \in Nat \ {0} /\ b <= Len(s) + 1
        /\ \A i \in p..Len(s) : i < b => s[i] \in seps
        /\ b <= Len(s) => p <= b /\ s[b] \notin seps
    BY StartIs
  <1> HIDE DEF b
  <1>3. /\ e \in Nat \ {0} /\ b <= e /\ e <= Len(s) + 1
        /\ \A i \in b..(e - 1) : s[i] \notin seps
        /\ e <= Len(s) => s[e] \in seps
    BY <1>2, EndIs
  <1> HIDE DEF e
  <1>4. /\ t.found <=> b <= Len(s)
        /\ t.token = SubSeq(s, b, e - 1) /\ t.next = e + 1
    BY StrtokIs DEF b, e
  <1> HIDE DEF t
  <1> SUFFICES /\ t.found <=> Words(s, seps) > k
               /\ t.found => /\ t.token = Word(s, seps, k + 1)
                             /\ AtWord(s, seps, t.next, k + 1)
    BY DEF t
  <1>5. IsFiniteSet(before) /\ Cardinality(before) = k /\ before \subseteq W
    BY WordStartsFinite DEF WordsBefore, AtWord
  <1>6. \A j \in W : j < b => j < p
    <2>1. SUFFICES ASSUME NEW j \in W, j < b, p <= j
                   PROVE  FALSE
      BY <1>1
    <2>2. s[j] \in seps
      BY <1>1, <1>2, <2>1
    <2>3. QED
      BY <2>2 DEF WordStarts
  <1>7. CASE b > Len(s)
    <2>1. W = before
      BY <1>1, <1>2, <1>6, <1>7 DEF WordsBefore
    <2>2. Words(s, seps) = k
      BY <1>5, <2>1 DEF Words
    <2>3. ~t.found /\ ~(Words(s, seps) > k)
      BY <1>1, <1>2, <1>4, <1>7, <2>2
    <2>4. QED
      BY <2>3
  <1>8. CASE b <= Len(s)
    <2>1. b \in W
      <3>1. b \in DOMAIN s /\ s[b] \notin seps
        BY <1>1, <1>2, <1>8
      <3>2. b = 1 \/ s[b - 1] \in seps
        <4>1. CASE b = p
          BY <1>1, <1>2, <1>8, <4>1 DEF AtWord
        <4>2. CASE b # p
          <5>1. b - 1 \in p..Len(s) /\ b - 1 < b
            BY <1>1, <1>2, <1>8, <4>2
          <5>2. QED
            BY <1>2, <5>1
        <4>3. QED
          BY <4>1, <4>2
      <3>3. QED
        BY <3>1, <3>2 DEF WordStarts
    <2>2. WordsBefore(s, seps, b) = before
      BY <1>1, <1>2, <1>6, <1>8 DEF WordsBefore
    <2>3. b \notin before
      BY <1>2, <1>8 DEF WordsBefore
    <2>4. Cardinality(before \cup {b}) = k + 1
      BY <1>5, <2>3, FS_AddElement
    <2>5. Words(s, seps) > k
      <3>1. IsFiniteSet(W) /\ before \cup {b} \in SUBSET W
        BY <1>5, <2>1, WordStartsFinite
      <3>2. k + 1 <= Cardinality(W)
        BY <2>4, <3>1, FS_Subset
      <3>3. Cardinality(W) \in Nat
        BY WordStartsFinite
      <3>4. QED
        BY <3>2, <3>3 DEF Words
    <2>6. Word(s, seps, k + 1) = SubSeq(s, b, e - 1)
      BY <1>3, <1>5, <2>1, <2>2, WordAt
    <2>7. AtWord(s, seps, e + 1, k + 1)
      <3>1. e + 1 > Len(s) + 1 \/ s[(e + 1) - 1] \in seps
        BY <1>1, <1>3
      <3>2. ASSUME NEW j \in W, b < j
            PROVE  ~(j < e + 1)
        <4>1. SUFFICES ASSUME j < e + 1
                       PROVE  FALSE
          OBVIOUS
        <4>2. j \in 1..Len(s) /\ s[j] \notin seps /\ (j = 1 \/ s[j - 1] \in seps)
          BY <1>1 DEF WordStarts
        <4>3. j - 1 \in b..(e - 1) /\ j # 1
          BY <1>2, <1>3, <3>2, <4>1, <4>2
        <4>4. QED
          BY <1>3, <4>2, <4>3
      <3>3. WordsBefore(s, seps, e + 1) = before \cup {b}
        <4>1. \A j \in W : j < e + 1 <=> j < b \/ j = b
          BY <1>1, <1>2, <1>3, <3>2
        <4>2. QED
          BY <2>1, <2>2, <4>1 DEF WordsBefore
      <3>4. QED
        BY <2>4, <3>1, <3>3 DEF AtWord
    <2>8. QED
      BY <1>4, <1>8, <2>5, <2>6, <2>7
  <1>9. QED
    BY <1>1, <1>2, <1>7, <1>8

-----------------------------------------------------------------------------
(* A request's headers are its own.                                          *)

WordsIn(l)    == Words(l, {":", " "})
FirstWord(l)  == Word(l, {":", " "}, 1)
SecondWord(l) == Word(l, {":", " "}, 2)

LEMMA HeaderLinesAre ==
    /\ HeaderLines = {n \in 2..Len(block) : \A m \in 2..n : WordsIn(block[m]) >= 2}
    /\ \A n : NameOf(n) = FirstWord(block[n]) /\ ValueOf(n) = SecondWord(block[n])
  BY Zenon DEF HeaderLines, NameOf, ValueOf, WordsIn, FirstWord, SecondWord

\* A line is a header exactly if it has two words, which are name and value.
LEMMA HeaderWords ==
    ASSUME NEW l \in Text
    PROVE  /\ Name(l).found /\ Value(l).found <=> WordsIn(l) >= 2
           /\ Name(l).found /\ Value(l).found =>
                Name(l).token = FirstWord(l) /\ Value(l).token = SecondWord(l)
           /\ Name(l).token \in Text /\ Value(l).token \in Text
  <1> DEFINE seps == {":", " "}
  <1>1. /\ Name(l) = strtok(l, 1, seps) /\ Value(l) = strtok(l, Name(l).next, seps)
        /\ WordsIn(l) = Words(l, seps)
        /\ FirstWord(l) = Word(l, seps, 1) /\ SecondWord(l) = Word(l, seps, 2)
    BY Zenon DEF Name, Value, WordsIn, FirstWord, SecondWord
  <1> HIDE DEF seps
  <1>2. Name(l).token \in Text /\ Name(l).next \in Nat \ {0}
    BY <1>1, StrtokType
  <1>3. Value(l).token \in Text
    BY <1>1, <1>2, StrtokType
  <1>4. AtWord(l, seps, 1, 0)
    <2>1. WordStarts(l, seps) \subseteq 1..Len(l) /\ Len(l) \in Nat
      BY WordStartsFinite
    <2>2. WordsBefore(l, seps, 1) = {}
      BY <2>1 DEF WordsBefore
    <2>3. QED
      BY <2>2, FS_EmptySet DEF AtWord
  <1>5. /\ Name(l).found <=> Words(l, seps) > 0
        /\ Name(l).found => /\ Name(l).token = Word(l, seps, 1)
                            /\ AtWord(l, seps, Name(l).next, 1)
    <2>1. 0 + 1 = 1
      OBVIOUS
    <2>2. QED
      BY <1>1, <1>4, <2>1, NextWord
  <1>6. ASSUME Name(l).found
        PROVE  /\ Value(l).found <=> Words(l, seps) > 1
               /\ Value(l).found => Value(l).token = Word(l, seps, 2)
    <2>1. 1 + 1 = 2
      OBVIOUS
    <2>2. QED
      BY <1>1, <1>2, <1>5, <1>6, <2>1, NextWord
  <1>7. Words(l, seps) \in Nat
    BY WordStartsFinite DEF Words
  <1>8. QED
    BY <1>1, <1>2, <1>3, <1>5, <1>6, <1>7

\* What map[key] = value does.
LEMMA PutEntry ==
    ASSUME NEW map, IsHeaderMap(map), NEW key \in Text, NEW value,
           NEW at, at = Spelling(map, key), NEW new, new = Put(map, key, value)
    PROVE  /\ Equivalent(at, key) /\ at \in Text
           /\ DOMAIN new = DOMAIN map \cup {at} /\ new[at] = value
           /\ \A k \in DOMAIN map : k # at => new[k] = map[k]
           /\ at \notin DOMAIN map => at = key
  <1>1. Equivalent(key, key)
    BY StrictWeakOrder DEF Equivalent
  <1>2. Equivalent(at, key) /\ at \in DOMAIN map \cup {key}
    BY <1>1 DEF Spelling
  <1>3. at \in Text
    BY <1>2 DEF IsHeaderMap
  <1>4. QED
    BY <1>2, <1>3 DEF Put

\* Of two lines with the same name the later one counts.
Entries(S) ==
    \A n \in S : (\A m \in S : m > n => ~Equivalent(NameOf(m), NameOf(n))) =>
                     \E k \in DOMAIN headers :
                         Equivalent(k, NameOf(n)) /\ headers[k] = ValueOf(n)

\* The headers hold the lines that have been read, and at the end the default.
HeadersSoFar ==
    /\ pc = "headers" =>
         /\ line >= 2 /\ 2..(line - 1) \subseteq HeaderLines
         /\ Entries(2..(line - 1))
         /\ \A k \in DOMAIN headers : \E n \in 2..(line - 1) : k = NameOf(n)
    /\ pc \in {"query", "parsed"} =>
         /\ Entries(HeaderLines)
         /\ \A k \in DOMAIN headers :
              (\E n \in HeaderLines : k = NameOf(n)) \/ k = <<"Content-Type">>

LEMMA LinesStay ==
    ASSUME UNCHANGED block
    PROVE  /\ HeaderLines' = HeaderLines
           /\ \A n : NameOf(n)' = NameOf(n) /\ ValueOf(n)' = ValueOf(n)
  BY Zenon DEF HeaderLines, NameOf, ValueOf

LEMMA LineIsHeader ==
    ASSUME PInv, NEW n \in Nat \ {0}, n <= Len(block)
    PROVE  /\ block[n] \in Text
           /\ IsHeader(n) <=> WordsIn(block[n]) >= 2
           /\ IsHeader(n) => /\ Name(block[n]).token = NameOf(n)
                             /\ Value(block[n]).token = ValueOf(n)
                             /\ NameOf(n) \in Text
  <1>1. block[n] \in Text
    BY DEF PInv, Positions
  <1>2. QED
    BY <1>1, HeaderWords, HeaderLinesAre DEF IsHeader

LEMMA NamesAreTexts == ASSUME PInv, NEW n \in HeaderLines PROVE NameOf(n) \in Text
  <1>1. n \in Nat \ {0} /\ n <= Len(block) /\ n \in 2..n
    <2>1. Len(block) \in Nat
      BY DEF PInv, Positions
    <2>2. QED
      BY <2>1, HeaderLinesAre
  <1>2. WordsIn(block[n]) >= 2
    BY <1>1, HeaderLinesAre
  <1>3. QED
    BY <1>1, <1>2, LineIsHeader

LEMMA HeaderLineRead == ASSUME PInv, HeadersSoFar, HeaderLine PROVE HeadersSoFar'
  <1>1. /\ pc = "headers" /\ IsHeader(line) /\ line' = line + 1
        /\ headers' = Put(headers, Name(block[line]).token, Value(block[line]).token)
        /\ UNCHANGED <<pc, block>>
    BY DEF HeaderLine
  <1>2. /\ line \in Nat /\ line >= 2 /\ line <= Len(block) /\ Len(block) \in Nat
        /\ 2..(line - 1) \subseteq HeaderLines
    BY <1>1 DEF HeadersSoFar, PInv, Positions, IsHeader
  <1>3. /\ WordsIn(block[line]) >= 2 /\ NameOf(line) \in Text
        /\ headers' = Put(headers, NameOf(line), ValueOf(line))
    BY <1>1, <1>2, LineIsHeader
  <1>4. 2..line \subseteq HeaderLines
    <2>1. ASSUME NEW n \in 2..line
          PROVE  n \in 2..Len(block) /\ WordsIn(block[n]) >= 2
      <3>1. CASE n = line
        BY <1>2, <1>3, <3>1
      <3>2. CASE n # line
        <4>1. n \in 2..(line - 1) /\ n \in 2..n
          BY <1>2, <3>2
        <4>2. n \in HeaderLines
          BY <1>2, <4>1
        <4>3. QED
          BY <4>1, <4>2, HeaderLinesAre
      <3>3. QED
        BY <3>1, <3>2
    <2>2. QED
      BY <1>2, <2>1, HeaderLinesAre
  <1>5. IsHeaderMap(headers)
    BY DEF PInv, TypeOK, IsHeaderMap
  <1> DEFINE at == Spelling(headers, NameOf(line))
  <1> HIDE DEF at
  <1>6. /\ Equivalent(at, NameOf(line)) /\ at \in Text
        /\ DOMAIN headers' = DOMAIN headers \cup {at} /\ headers'[at] = ValueOf(line)
        /\ \A k \in DOMAIN headers : k # at => headers'[k] = headers[k]
        /\ at \notin DOMAIN headers => at = NameOf(line)
    <2>1. at = Spelling(headers, NameOf(line))
      BY DEF at
    <2>2. QED
      BY <1>3, <1>5, <2>1, PutEntry
  <1>7. /\ HeaderLines' = HeaderLines /\ line' - 1 = line
        /\ \A n : NameOf(n)' = NameOf(n) /\ ValueOf(n)' = ValueOf(n)
    BY <1>1, <1>2, LinesStay
  <1>8. Entries(2..(line - 1))'
    <2>1. SUFFICES ASSUME NEW n \in 2..line,
                          \A m \in 2..line : m > n => ~Equivalent(NameOf(m), NameOf(n))
                   PROVE  \E k \in DOMAIN headers' :
                              Equivalent(k, NameOf(n)) /\ headers'[k] = ValueOf(n)
      BY <1>7 DEF Entries
    <2>2. CASE n = line
      BY <1>6, <2>2
    <2>3. CASE n # line
      <3>1. n \in 2..(line - 1) /\ line \in 2..line /\ line > n
        BY <1>2, <2>3
      <3>2. PICK k \in DOMAIN headers : Equivalent(k, NameOf(n)) /\ headers[k] = ValueOf(n)
        <4>1. \A m \in 2..(line - 1) : m \in 2..line
          BY <1>2
        <4>2. QED
          BY <1>1, <2>1, <3>1, <4>1 DEF HeadersSoFar, Entries
      <3>3. k # at
        <4>1. SUFFICES ASSUME k = at
                       PROVE  FALSE
          OBVIOUS
        <4>2. NameOf(n) \in Text
          BY <1>2, <3>1, NamesAreTexts
        <4>3. Equivalent(NameOf(line), at) /\ Equivalent(at, NameOf(n))
          BY <1>6, <3>2, <4>1 DEF Equivalent
        <4>4. Equivalent(NameOf(line), NameOf(n))
          BY <1>3, <1>6, <4>2, <4>3, StrictWeakOrder
        <4>5. QED
          BY <2>1, <3>1, <4>4
      <3>4. QED
        BY <1>6, <3>2, <3>3
    <2>4. QED
      BY <2>2, <2>3
  <1>9. \A k \in DOMAIN headers' : \E n \in 2..line : k = NameOf(n)
    <2>1. line \in 2..line /\ \A n \in 2..(line - 1) : n \in 2..line
      BY <1>2
    <2>2. QED
      BY <1>1, <1>6, <2>1 DEF HeadersSoFar
  <1>10. pc' = "headers" /\ line' >= 2
    BY <1>1, <1>2
  <1>11. QED
    BY <1>4, <1>7, <1>8, <1>9, <1>10 DEF HeadersSoFar

LEMMA HeadersEndRead == ASSUME PInv, HeadersSoFar, HeadersEnd PROVE HeadersSoFar'
  <1>1. /\ pc = "headers" /\ ~IsHeader(line) /\ UNCHANGED <<block, line>>
        /\ headers' = IF Has(headers, <<"Content-Type">>) THEN headers
                      ELSE Put(headers, <<"Content-Type">>, <<"application/octet-stream">>)
        /\ pc' # "headers"
    BY DEF HeadersEnd
  <1>2. /\ line \in Nat /\ line >= 2 /\ Len(block) \in Nat
        /\ 2..(line - 1) \subseteq HeaderLines
        /\ Entries(2..(line - 1))
        /\ \A k \in DOMAIN headers : \E n \in 2..(line - 1) : k = NameOf(n)
    BY <1>1 DEF HeadersSoFar, PInv, Positions
  <1>3. HeaderLines = 2..(line - 1)
    <2>1. ASSUME NEW n \in HeaderLines
          PROVE  n \in 2..(line - 1)
      <3>1. n \in 2..Len(block) /\ \A m \in 2..n : WordsIn(block[m]) >= 2
        BY HeaderLinesAre
      <3>2. CASE line <= n
        <4>1. line \in 2..n /\ line <= Len(block)
          BY <1>2, <3>1, <3>2
        <4>2. IsHeader(line)
          BY <1>2, <3>1, <4>1, LineIsHeader
        <4>3. QED
          BY <1>1, <4>2
      <3>3. QED
        BY <1>2, <3>1, <3>2
    <2>2. QED
      BY <1>2, <2>1
  <1>4. /\ DOMAIN headers \subseteq DOMAIN headers'
        /\ DOMAIN headers' \subseteq DOMAIN headers \cup {<<"Content-Type">>}
        /\ \A k \in DOMAIN headers : headers'[k] = headers[k]
    <2>1. IsHeaderMap(headers)
      BY DEF PInv, TypeOK, IsHeaderMap
    <2> DEFINE ct == <<"Content-Type">>
    <2>2. CASE ~Has(headers, ct)
      <3>1. PICK v : headers' = Put(headers, ct, v)
        BY <1>1, <2>2
      <3>2. PICK at : at = Spelling(headers, ct)
        OBVIOUS
      <3>3. ct \in Text
        BY OwnNames
      <3> HIDE DEF ct
      <3>4. /\ Equivalent(at, ct)
            /\ DOMAIN headers' = DOMAIN headers \cup {at}
            /\ \A k \in DOMAIN headers : k # at => headers'[k] = headers[k]
            /\ at \notin DOMAIN headers => at = ct
        BY <2>1, <3>1, <3>2, <3>3, PutEntry
      <3>5. at \notin DOMAIN headers
        BY <2>2, <3>2 DEF Has
      <3>6. QED
        BY <3>4, <3>5 DEF ct
    <2>3. QED
      BY <1>1, <2>2
  <1>5. /\ HeaderLines' = HeaderLines
        /\ \A n : NameOf(n)' = NameOf(n) /\ ValueOf(n)' = ValueOf(n)
    BY <1>1, LinesStay
  <1>6. Entries(HeaderLines)'
    BY <1>2, <1>3, <1>4, <1>5 DEF Entries
  <1>7. \A k \in DOMAIN headers' :
            (\E n \in HeaderLines : k = NameOf(n)) \/ k = <<"Content-Type">>
    BY <1>2, <1>3, <1>4
  <1>8. QED
    BY <1>1, <1>5, <1>6, <1>7 DEF HeadersSoFar

LEMMA NextHeadersSoFar == PInv /\ HeadersSoFar /\ [Next]_vars => HeadersSoFar'
  <1> SUFFICES ASSUME PInv, HeadersSoFar, [Next]_vars
               PROVE  HeadersSoFar'
    OBVIOUS
  <1>1. CASE RequestLine
    <2>1. CASE pc' = "headers"
      <3>1. headers' = Empty /\ line' = 2
        BY <1>1, <2>1 DEF RequestLine
      <3>2. DOMAIN headers' = {} /\ 2..(line' - 1) = {} /\ line' >= 2
        BY <3>1 DEF Empty
      <3>3. QED
        BY <2>1, <3>2 DEF HeadersSoFar, Entries
    <2>2. CASE pc' # "headers"
      <3>1. pc' = "malformed"
        BY <1>1, <2>2 DEF RequestLine
      <3>2. QED
        BY <3>1 DEF HeadersSoFar
    <2>3. QED
      BY <2>1, <2>2
  <1>2. CASE HeaderLine
    BY <1>2, HeaderLineRead
  <1>3. CASE HeadersEnd
    BY <1>3, HeadersEndRead
  <1>4. CASE UNCHANGED <<block, line, headers>> /\ pc' \in {pc, "parsed"}
             /\ (pc' = "parsed" => pc \in {"query", "parsed"})
    BY <1>4, LinesStay DEF HeadersSoFar, Entries
  <1>5. CASE QueryPair \/ QueryEnd \/ UNCHANGED vars
    BY <1>4, <1>5 DEF QueryPair, QueryEnd, vars, fieldVars
  <1>6. CASE pc' \in {"request line", "serving", "idle"}
    BY <1>6 DEF HeadersSoFar
  <1>7. QED
    BY <1>1, <1>2, <1>3, <1>5, <1>6 DEF Next, Parse, Arrives, GetHeader, Refused, GetBody

\* A handler sees the headers of its own request and no other: every well-formed line
\* up to the first that is not, under one spelling of its name, the last value of a
\* repeated name, and the default Content-Type.
THEOREM HeadersAreRead == Spec => []HeadersRead
  <1>1. PInv /\ NamesDistinct /\ HeadersSoFar => HeadersRead
    <2> SUFFICES ASSUME PInv, NamesDistinct, HeadersSoFar, pc = "parsed"
                 PROVE  /\ \A n \in HeaderLines :
                             (\A m \in HeaderLines : m > n => ~Equivalent(NameOf(m), NameOf(n)))
                                => LET found == {k \in DOMAIN headers : Equivalent(k, NameOf(n))}
                                   IN  \E k \in found : found = {k} /\ headers[k] = ValueOf(n)
                        /\ \A k \in DOMAIN headers :
                             \/ \E n \in HeaderLines : k = NameOf(n)
                             \/ k = <<"Content-Type">>
      BY DEF HeadersRead
    <2>1. ASSUME NEW n \in HeaderLines,
                 \A m \in HeaderLines : m > n => ~Equivalent(NameOf(m), NameOf(n))
          PROVE  LET found == {k \in DOMAIN headers : Equivalent(k, NameOf(n))}
                 IN  \E k \in found : found = {k} /\ headers[k] = ValueOf(n)
      <3>1. PICK k \in DOMAIN headers : Equivalent(k, NameOf(n)) /\ headers[k] = ValueOf(n)
        BY <2>1 DEF HeadersSoFar, Entries
      <3>2. ASSUME NEW h \in DOMAIN headers, Equivalent(h, NameOf(n))
            PROVE  h = k
        <4>1. h \in Text /\ k \in Text /\ NameOf(n) \in Text
          BY NamesAreTexts DEF PInv, TypeOK
        <4>2. Equivalent(NameOf(n), k)
          BY <3>1 DEF Equivalent
        <4>3. Equivalent(h, k)
          BY <3>2, <4>1, <4>2, StrictWeakOrder
        <4>4. SameLetters(h, k)
          BY <4>1, <4>3, OnlyCaseIsIgnored
        <4>5. QED
          BY <4>4 DEF NamesDistinct
      <3>3. QED
        BY <3>1, <3>2
    <2>2. QED
      BY <2>1 DEF HeadersSoFar
  <1>2. Init => NamesDistinct /\ HeadersSoFar
    BY DEF Init, NamesDistinct, Empty, HeadersSoFar
  <1>3. PInv /\ NamesDistinct /\ HeadersSoFar /\ [Next]_vars => (NamesDistinct /\ HeadersSoFar)'
    BY NextDistinct, NextHeadersSoFar
  <1>4. QED
    BY <1>1, <1>2, <1>3, ParserInvariance, PTL DEF Spec

-----------------------------------------------------------------------------
(* A query string is decoded into its pairs.                                 *)

\* strtok finds the same word with fewer separators, if it ends at one of them.
LEMMA StrtokAgrees ==
    ASSUME NEW s \in Text, NEW seps, NEW delims \in SUBSET seps,
           NEW p \in WordStarts(s, seps),
           End(s, p, seps) <= Len(s) => s[End(s, p, seps)] \in delims
    PROVE  /\ strtok(s, p, delims) = strtok(s, p, seps)
           /\ strtok(s, p, delims).found
  <1> DEFINE e == End(s, p, seps)
             d == End(s, p, delims)
  <1>1. p \in 1..Len(s) /\ Len(s) \in Nat /\ s[p] \notin seps
    BY WordStartsFinite DEF WordStarts
  <1>2. ASSUME NEW D \in SUBSET seps
        PROVE  Start(s, p, D) = p
    <2> DEFINE b == Start(s, p, D)
    <2>1. /\ b \in Nat \ {0} /\ b <= Len(s) + 1
          /\ \A i \in p..Len(s) : i < b => s[i] \in D
          /\ b <= Len(s) => p <= b
      BY <1>1, StartIs
    <2> HIDE DEF b
    <2>2. p \in p..Len(s) /\ s[p] \notin D
      BY <1>1
    <2>3. b = p
      BY <1>1, <2>1, <2>2
    <2>4. QED
      BY <2>3 DEF b
  <1>3. /\ e \in Nat \ {0} /\ p <= e /\ e <= Len(s) + 1
        /\ \A i \in p..(e - 1) : s[i] \notin seps
        /\ e <= Len(s) => s[e] \in delims
    BY <1>1, EndIs
  <1>4. /\ d \in Nat \ {0} /\ p <= d /\ d <= Len(s) + 1
        /\ \A i \in p..(d - 1) : s[i] \notin delims
        /\ d <= Len(s) => s[d] \in delims
    BY <1>1, EndIs
  <1> HIDE DEF d, e
  <1>5. ~(d < e)
    <2>1. SUFFICES ASSUME d < e
                   PROVE  FALSE
      OBVIOUS
    <2>2. d \in p..(e - 1) /\ d <= Len(s)
      BY <1>1, <1>3, <1>4, <2>1
    <2>3. QED
      BY <1>3, <1>4, <2>2
  <1>6. ~(e < d)
    <2>1. SUFFICES ASSUME e < d
                   PROVE  FALSE
      OBVIOUS
    <2>2. e \in p..(d - 1) /\ e <= Len(s)
      BY <1>1, <1>3, <1>4, <2>1
    <2>3. QED
      BY <1>3, <1>4, <2>2
  <1>7. d = e
    BY <1>3, <1>4, <1>5, <1>6
  <1>8. Start(s, p, delims) = p /\ Start(s, p, seps) = p
    BY <1>2
  <1>9. /\ strtok(s, p, delims) = [found |-> p <= Len(s), token |-> SubSeq(s, p, d - 1),
                                   next |-> d + 1]
        /\ strtok(s, p, seps) = [found |-> p <= Len(s), token |-> SubSeq(s, p, e - 1),
                                 next |-> e + 1]
    BY <1>8, StrtokIs DEF d, e
  <1>10. strtok(s, p, delims) = strtok(s, p, seps)
    BY <1>7, <1>9, Zenon
  <1>11. strtok(s, p, delims).found
    <2> DEFINE b == Start(s, p, delims)
    <2>1. strtok(s, p, delims).found <=> b <= Len(s)
      BY StrtokIs DEF d
    <2>2. QED
      BY <1>1, <1>8, <2>1
  <1>12. QED
    BY <1>10, <1>11
\* q is what follows the first o pieces of s.
Suffix(q, s, o) == Len(s) = o + Len(q) /\ \A i \in 1..Len(q) : q[i] = s[o + i]

\* strtok in a string finds what it finds in the end of it.
LEMMA StrtokInSuffix ==
    ASSUME NEW s \in Text, NEW q \in Text, NEW o \in Nat, Suffix(q, s, o),
           NEW p \in Nat \ {0}, NEW delims
    PROVE  /\ strtok(s, o + p, delims).found <=> strtok(q, p, delims).found
           /\ strtok(s, o + p, delims).token = strtok(q, p, delims).token
           /\ strtok(s, o + p, delims).next = o + strtok(q, p, delims).next
  <1> DEFINE b == Start(q, p, delims)
             c == Start(s, o + p, delims)
             e == End(q, b, delims)
             f == End(s, c, delims)
  <1>1. /\ Len(s) \in Nat /\ Len(q) \in Nat /\ o + p \in Nat \ {0}
        /\ Len(s) = o + Len(q) /\ \A i \in 1..Len(q) : q[i] = s[o + i]
    BY DEF Text, Suffix
  <1>2. /\ b \in Nat \ {0} /\ b <= Len(q) + 1
        /\ \A i \in p..Len(q) : i < b => q[i] \in delims
        /\ b <= Len(q) => p <= b /\ q[b] \notin delims
    BY StartIs
  <1>3. /\ c \in Nat \ {0} /\ c <= Len(s) + 1
        /\ \A i \in (o + p)..Len(s) : i < c => s[i] \in delims
        /\ c <= Len(s) => o + p <= c /\ s[c] \notin delims
    BY <1>1, StartIs
  <1> HIDE DEF b, c
  <1>4. c = o + b
    <2>1. CASE c < o + b
      <3>1. c <= Len(s) /\ c - o \in p..Len(q) /\ c - o < b /\ c - o \in 1..Len(q)
        BY <1>1, <1>2, <1>3, <2>1
      <3>2. q[c - o] = s[o + (c - o)] /\ o + (c - o) = c
        BY <1>1, <1>3, <3>1
      <3>3. QED
        BY <1>2, <1>3, <3>1, <3>2
    <2>2. CASE o + b < c
      <3>1. b <= Len(q) /\ o + b \in (o + p)..Len(s) /\ b \in 1..Len(q)
        BY <1>1, <1>2, <1>3, <2>2
      <3>2. q[b] = s[o + b]
        BY <1>1, <3>1
      <3>3. QED
        BY <1>2, <1>3, <2>2, <3>1, <3>2
    <2>3. QED
      BY <1>2, <1>3, <2>1, <2>2
  <1>5. /\ e \in Nat \ {0} /\ b <= e /\ e <= Len(q) + 1
        /\ \A i \in b..(e - 1) : q[i] \notin delims
        /\ e <= Len(q) => q[e] \in delims
    BY <1>2, EndIs
  <1>6. /\ f \in Nat \ {0} /\ c <= f /\ f <= Len(s) + 1
        /\ \A i \in c..(f - 1) : s[i] \notin delims
        /\ f <= Len(s) => s[f] \in delims
    BY <1>3, EndIs
  <1> HIDE DEF e, f
  <1>7. f = o + e
    <2>1. CASE f < o + e
      <3>1. f <= Len(s) /\ f - o \in b..(e - 1) /\ f - o \in 1..Len(q)
        BY <1>1, <1>2, <1>4, <1>5, <1>6, <2>1
      <3>2. q[f - o] = s[o + (f - o)] /\ o + (f - o) = f
        BY <1>1, <1>6, <3>1
      <3>3. QED
        BY <1>5, <1>6, <3>1, <3>2
    <2>2. CASE o + e < f
      <3>1. e <= Len(q) /\ o + e \in c..(f - 1) /\ e \in 1..Len(q)
        BY <1>1, <1>2, <1>4, <1>5, <1>6, <2>2
      <3>2. q[e] = s[o + e]
        BY <1>1, <3>1
      <3>3. QED
        BY <1>5, <1>6, <3>1, <3>2
    <2>3. QED
      BY <1>5, <1>6, <2>1, <2>2
  <1>8. SubSeq(s, c, f - 1) = SubSeq(q, b, e - 1)
    <2> DEFINE t == SubSeq(s, c, f - 1)
               u == SubSeq(q, b, e - 1)
    <2>1. /\ c \in Int /\ f - 1 \in Int /\ b \in Int /\ e - 1 \in Int
          /\ \A i \in c..(f - 1) : s[i] \in Chars
          /\ \A i \in b..(e - 1) : q[i] \in Chars
      BY <1>1, <1>2, <1>3, <1>5, <1>6 DEF Text
    <2>2. /\ t \in Seq(Chars) /\ u \in Seq(Chars)
          /\ Len(t) = IF c <= f - 1 THEN (f - 1) - c + 1 ELSE 0
          /\ Len(u) = IF b <= e - 1 THEN (e - 1) - b + 1 ELSE 0
          /\ \A i \in 1..((f - 1) - c + 1) : t[i] = s[c + i - 1]
          /\ \A i \in 1..((e - 1) - b + 1) : u[i] = q[b + i - 1]
      BY <2>1, SubSeqProperties
    <2> HIDE DEF t, u
    <2>3. Len(t) = Len(u) /\ Len(u) = e - b
      BY <1>2, <1>4, <1>5, <1>7, <2>2
    <2>4. ASSUME NEW i \in 1..Len(u)
          PROVE  t[i] = u[i]
      <3>1. /\ i \in 1..((f - 1) - c + 1) /\ i \in 1..((e - 1) - b + 1)
            /\ b + i - 1 \in 1..Len(q) /\ c + i - 1 = o + (b + i - 1)
        BY <1>1, <1>2, <1>4, <1>5, <1>7, <2>3
      <3>2. QED
        BY <1>1, <2>2, <3>1
    <2>5. t = u
      BY <2>2, <2>3, <2>4, SeqEqual
    <2>6. QED
      BY <2>5 DEF t, u
  <1>9. /\ strtok(s, o + p, delims).found <=> c <= Len(s)
        /\ strtok(s, o + p, delims).token = SubSeq(s, c, f - 1)
        /\ strtok(s, o + p, delims).next = f + 1
    BY StrtokIs DEF c, f
  <1>10. /\ strtok(q, p, delims).found <=> b <= Len(q)
         /\ strtok(q, p, delims).token = SubSeq(q, b, e - 1)
         /\ strtok(q, p, delims).next = e + 1
    BY StrtokIs DEF b, e
  <1>11. /\ c <= Len(s) <=> b <= Len(q)
         /\ f + 1 = o + (e + 1)
    BY <1>1, <1>2, <1>4, <1>5, <1>7
  <1>12. QED
    BY <1>8, <1>9, <1>10, <1>11

SepsOf(q, seps) == {i \in DOMAIN q : q[i] \in seps}

SepsUpTo(q, seps, i) == {j \in SepsOf(q, seps) : j <= i}

\* Single separators stand between words, in turn those that end a key and those
\* that end a pair, and as many as make pairs.
Alternates(q, seps, keyEnd, pairEnd) ==
    /\ Words(q, seps) = Cardinality(SepsOf(q, seps)) + 1
    /\ \A i \in SepsOf(q, seps) :
         IF Cardinality(SepsUpTo(q, seps, i)) % 2 = 1 THEN q[i] \in keyEnd
                                                      ELSE q[i] \in pairEnd
    /\ Cardinality(SepsOf(q, seps)) % 2 = 1

LEMMA SepsFinite ==
    ASSUME NEW q \in Text, NEW seps
    PROVE  /\ SepsOf(q, seps) \subseteq 1..Len(q) /\ Len(q) \in Nat
           /\ \A T \in SUBSET SepsOf(q, seps) : IsFiniteSet(T) /\ Cardinality(T) \in Nat
  <1>1. Len(q) \in Nat /\ DOMAIN q = 1..Len(q)
    BY DEF Text
  <1>2. SepsOf(q, seps) \subseteq 1..Len(q)
    BY <1>1 DEF SepsOf
  <1>3. ASSUME NEW T \in SUBSET SepsOf(q, seps)
        PROVE  IsFiniteSet(T) /\ Cardinality(T) \in Nat
    <2>1. IsFiniteSet(1..Len(q)) /\ T \in SUBSET (1..Len(q))
      BY <1>1, <1>2, FS_Interval
    <2>2. IsFiniteSet(T)
      BY <2>1, FS_Subset
    <2>3. QED
      BY <2>2, FS_CardinalityType
  <1>4. QED
    BY <1>1, <1>2, <1>3

After(S) == {1} \cup {i + 1 : i \in S}

LEMMA OneMore ==
    ASSUME NEW S, S \subseteq Nat \ {0}, IsFiniteSet(S)
    PROVE  IsFiniteSet(After(S)) /\ Cardinality(After(S)) = Cardinality(S) + 1
  <1> DEFINE T == {i + 1 : i \in S}
             f == [i \in S |-> i + 1]
  <1>1. f \in Bijection(S, T)
    <2>1. f \in [S -> T] /\ \A t \in T : \E i \in S : f[i] = t
      OBVIOUS
    <2>2. \A i, j \in S : f[i] = f[j] => i = j
      OBVIOUS
    <2>3. QED
      BY <2>1, <2>2, Fun_IsBij
  <1>2. IsFiniteSet(T) /\ Cardinality(T) = Cardinality(S)
    BY <1>1, FS_Bijection, Fun_ExistsBij
  <1>3. 1 \notin T
    OBVIOUS
  <1> HIDE DEF T
  <1>4. IsFiniteSet(T \cup {1}) /\ Cardinality(T \cup {1}) = Cardinality(T) + 1
    BY <1>2, <1>3, FS_AddElement
  <1>5. After(S) = T \cup {1}
    BY DEF After, T
  <1>6. QED
    BY <1>2, <1>4, <1>5

\* With as many words as that, each separator is followed by one.
LEMMA WordsAreSeparated ==
    ASSUME NEW q \in Text, NEW seps, Words(q, seps) = Cardinality(SepsOf(q, seps)) + 1
    PROVE  WordStarts(q, seps) = After(SepsOf(q, seps))
  <1> DEFINE S == SepsOf(q, seps)
             W == WordStarts(q, seps)
  <1>1. S \subseteq Nat \ {0} /\ IsFiniteSet(S)
    BY SepsFinite
  <1>2. IsFiniteSet(After(S)) /\ Cardinality(After(S)) = Cardinality(S) + 1
    BY <1>1, OneMore
  <1>3. W \in SUBSET After(S)
    <2>1. DOMAIN q = 1..Len(q) /\ Len(q) \in Nat
      BY DEF Text
    <2>2. ASSUME NEW i \in W, i # 1
          PROVE  i - 1 \in S /\ i = (i - 1) + 1
      BY <2>1, <2>2 DEF WordStarts, SepsOf
    <2>3. QED
      BY <2>2 DEF After
  <1>4. Cardinality(W) = Cardinality(S) + 1
    BY DEF Words
  <1>5. QED
    BY <1>2, <1>3, <1>4, FS_Subset

\* The separator that ends a word has the word's number.
LEMMA SeparatorOfWord ==
    ASSUME NEW q \in Text, NEW seps, Words(q, seps) = Cardinality(SepsOf(q, seps)) + 1,
           NEW p \in Nat \ {0}, p <= Len(q) + 1, NEW k \in Nat, AtWord(q, seps, p, k)
    PROVE  /\ p \in WordStarts(q, seps)
           /\ End(q, p, seps) <= Len(q) =>
                /\ End(q, p, seps) \in SepsOf(q, seps)
                /\ Cardinality(SepsUpTo(q, seps, End(q, p, seps))) = k + 1
  <1> DEFINE S == SepsOf(q, seps)
             W == WordStarts(q, seps)
             e == End(q, p, seps)
             before == WordsBefore(q, seps, p)
  <1>1. /\ Len(q) \in Nat /\ DOMAIN q = 1..Len(q)
        /\ W \subseteq 1..Len(q) /\ S \subseteq 1..Len(q)
    <2>1. Len(q) \in Nat /\ DOMAIN q = 1..Len(q)
      BY DEF Text
    <2>2. QED
      BY <2>1, WordStartsFinite, SepsFinite
  <1>2. W = After(S)
    BY WordsAreSeparated
  <1>3. p \in W
    <2>1. CASE p = 1
      BY <1>2, <2>1 DEF After
    <2>2. CASE p # 1
      <3>1. p - 1 \in S /\ (p - 1) + 1 = p
        BY <1>1, <2>2 DEF AtWord, SepsOf
      <3>2. QED
        BY <1>2, <3>1 DEF After
    <2>3. QED
      BY <2>1, <2>2
  <1>4. /\ e \in Nat \ {0} /\ p <= e /\ e <= Len(q) + 1
        /\ \A i \in p..(e - 1) : q[i] \notin seps
        /\ e <= Len(q) => q[e] \in seps
    BY EndIs
  <1> HIDE DEF e
  <1>5. ASSUME e <= Len(q)
        PROVE  e \in S /\ Cardinality(SepsUpTo(q, seps, e)) = k + 1
    <2> DEFINE less == {i \in S : i < e}
               upTo == SepsUpTo(q, seps, e)
    <2>1. e \in S
      BY <1>1, <1>4, <1>5 DEF SepsOf
    <2>2. IsFiniteSet(less) /\ e \notin less /\ less \subseteq Nat \ {0} /\ Cardinality(less) \in Nat
      <3>1. less \in SUBSET S /\ e \notin less /\ less \subseteq Nat \ {0}
        BY <1>1, <1>4
      <3>2. QED
        BY <3>1, SepsFinite
    <2>3. upTo = less \cup {e}
      BY <1>1, <1>4, <2>1 DEF SepsUpTo
    <2>4. Cardinality(upTo) = Cardinality(less) + 1
      BY <2>2, <2>3, FS_AddElement
    <2>5. After(less) = before \cup {p}
      <3>1. ASSUME NEW i \in less
            PROVE  i + 1 \in before \cup {p}
        <4>1. i \in S /\ i < e /\ i \in Nat /\ i + 1 \in W
          BY <1>1, <1>2, <2>2 DEF After
        <4>2. i \notin p..(e - 1)
          BY <1>4, <4>1 DEF SepsOf
        <4>3. i < p
          BY <1>4, <4>1, <4>2
        <4>4. QED
          BY <1>1, <4>1, <4>3 DEF WordsBefore
      <3>2. 1 \in before \cup {p}
        <4>1. 1 \in W
          BY <1>2 DEF After
        <4>2. QED
          BY <4>1 DEF WordsBefore
      <3>3. ASSUME NEW j \in before \cup {p}
            PROVE  j \in After(less)
        <4>1. j \in After(S) /\ j <= p /\ j \in Nat
          BY <1>1, <1>2, <1>3 DEF WordsBefore
        <4>2. CASE j = 1
          BY <4>2 DEF After
        <4>3. CASE j # 1
          <5>1. PICK i \in S : j = i + 1
            BY <4>1, <4>3 DEF After
          <5>2. i < e
            BY <1>1, <1>4, <4>1, <5>1
          <5>3. QED
            BY <5>1, <5>2 DEF After
        <4>4. QED
          BY <4>2, <4>3
      <3> HIDE DEF less, before
      <3>4. After(less) \subseteq before \cup {p}
        BY <3>1, <3>2 DEF After
      <3>5. QED
        BY <3>3, <3>4
    <2>6. Cardinality(before \cup {p}) = k + 1
      <3>1. IsFiniteSet(before) /\ Cardinality(before) = k /\ p \notin before
        <4>1. before \subseteq W /\ p \notin before
          BY DEF WordsBefore
        <4>2. QED
          BY <4>1, WordStartsFinite DEF AtWord
      <3>2. QED
        BY <3>1, FS_AddElement
    <2>7. Cardinality(After(less)) = Cardinality(less) + 1
      BY <2>2, OneMore
    <2>8. QED
      BY <2>1, <2>4, <2>5, <2>6, <2>7
  <1>6. QED
    BY <1>3, <1>5 DEF e

\* The next key and the value after it are the next two words.
LEMMA PairRead ==
    ASSUME NEW q \in Text, NEW seps, NEW keyEnd \in SUBSET seps, NEW pairEnd \in SUBSET seps,
           Alternates(q, seps, keyEnd, pairEnd),
           NEW p \in Nat \ {0}, NEW k \in Nat, k % 2 = 0, AtWord(q, seps, p, k),
           NEW key, key = strtok(q, p, keyEnd),
           NEW val, val = strtok(q, key.next, pairEnd)
    PROVE  /\ key.found <=> Words(q, seps) > k
           /\ key.found => /\ key.token = Word(q, seps, k + 1)
                           /\ val.found /\ val.token = Word(q, seps, k + 2)
                           /\ val.next \in Nat \ {0}
                           /\ AtWord(q, seps, val.next, k + 2)
  <1> DEFINE S == SepsOf(q, seps)
             W == WordStarts(q, seps)
  <1>1. Len(q) \in Nat /\ W \subseteq 1..Len(q)
    BY WordStartsFinite
  <1>2. Words(q, seps) = Cardinality(S) + 1 /\ Cardinality(S) \in Nat /\ Cardinality(S) % 2 = 1
    BY SepsFinite DEF Alternates
  <1>3. ASSUME NEW i \in Nat \ {0}, NEW D, strtok(q, i, D).found
        PROVE  i <= Len(q)
    <2> DEFINE b == Start(q, i, D)
    <2>1. b <= Len(q)
      BY <1>3, StrtokIs
    <2>2. QED
      BY <1>1, <2>1, StartIs
  <1>4. CASE p > Len(q) + 1
    <2>1. ~strtok(q, p, keyEnd).found /\ ~strtok(q, p, seps).found
      BY <1>1, <1>3, <1>4
    <2>2. strtok(q, p, seps).found <=> Words(q, seps) > k
      BY NextWord
    <2>3. QED
      BY <2>1, <2>2
  <1>5. CASE p <= Len(q) + 1
    <2>1. /\ p \in W
          /\ End(q, p, seps) <= Len(q) =>
               /\ End(q, p, seps) \in S
               /\ Cardinality(SepsUpTo(q, seps, End(q, p, seps))) = k + 1
      BY <1>2, <1>5, SeparatorOfWord
    <2>2. (k + 1) % 2 = 1
      OBVIOUS
    <2>3. End(q, p, seps) <= Len(q) => q[End(q, p, seps)] \in keyEnd
      BY <2>1, <2>2 DEF Alternates
    <2>4. key = strtok(q, p, seps) /\ key.found
      BY <2>1, <2>3, StrtokAgrees
    <2>5. /\ Words(q, seps) > k /\ key.token = Word(q, seps, k + 1)
          /\ AtWord(q, seps, key.next, k + 1)
      BY <2>4, NextWord
    <2>6. key.next \in Nat \ {0}
      BY <2>4, StrtokType
    <2>7. Words(q, seps) > k + 1
      BY <1>2, <2>2, <2>5
    <2>8. strtok(q, key.next, seps).found
      BY <2>5, <2>6, <2>7, NextWord
    <2>9. key.next <= Len(q) + 1
      BY <1>1, <1>3, <2>6, <2>8
    <2>10. /\ key.next \in W
           /\ End(q, key.next, seps) <= Len(q) =>
                /\ End(q, key.next, seps) \in S
                /\ Cardinality(SepsUpTo(q, seps, End(q, key.next, seps))) = (k + 1) + 1
      BY <1>2, <2>5, <2>6, <2>9, SeparatorOfWord
    <2>11. (k + 1) + 1 = k + 2 /\ (k + 2) % 2 # 1
      OBVIOUS
    <2>12. End(q, key.next, seps) <= Len(q) => q[End(q, key.next, seps)] \in pairEnd
      BY <2>10, <2>11 DEF Alternates
    <2>13. val = strtok(q, key.next, seps) /\ val.found
      BY <2>10, <2>12, StrtokAgrees
    <2>14. /\ val.token = Word(q, seps, (k + 1) + 1)
           /\ AtWord(q, seps, val.next, (k + 1) + 1)
      BY <2>5, <2>6, <2>13, NextWord
    <2>15. val.next \in Nat \ {0}
      BY <2>6, <2>13, StrtokType
    <2>16. QED
      BY <2>4, <2>5, <2>11, <2>13, <2>14, <2>15
  <1>6. QED
    BY <1>1, <1>4, <1>5

Blank   == {" "}
KeyEnd  == {"="}
PairEnd == {"&"}
QSeps   == {"=", "&"}
Mark(c) == c = "?"

LEMMA WellFormedAlternates ==
    ASSUME NEW q, WellFormed(q)
    PROVE  Alternates(q, QSeps, KeyEnd, PairEnd)
  <1>1. SepsOf(q, QSeps) = {i \in DOMAIN q : q[i] \in {"=", "&"}}
    BY Zenon DEF SepsOf, QSeps
  <1> DEFINE seps == {i \in DOMAIN q : q[i] \in {"=", "&"}}
             rank(i) == Cardinality({j \in seps : j <= i})
  <1>2. /\ Words(q, {"=", "&"}) = Cardinality(seps) + 1
        /\ \A i \in seps : q[i] = IF rank(i) % 2 = 1 THEN "=" ELSE "&"
        /\ Cardinality(seps) % 2 = 1
    BY Zenon DEF WellFormed
  <1>3. \A i : SepsUpTo(q, QSeps, i) = {j \in seps : j <= i}
    BY <1>1, Zenon DEF SepsUpTo
  <1> HIDE DEF seps
  <1>4. ASSUME NEW i \in seps
        PROVE  IF rank(i) % 2 = 1 THEN q[i] \in KeyEnd ELSE q[i] \in PairEnd
    <2>1. q[i] = IF rank(i) % 2 = 1 THEN "=" ELSE "&"
      BY <1>2
    <2>2. CASE rank(i) % 2 = 1
      BY <2>1, <2>2, Zenon DEF KeyEnd
    <2>3. CASE rank(i) % 2 # 1
      BY <2>1, <2>3, Zenon DEF PairEnd
    <2>4. QED
      BY <2>2, <2>3
  <1>5. Words(q, QSeps) = Cardinality(seps) + 1
    BY <1>2, Zenon DEF QSeps
  <1>6. SepsOf(q, QSeps) = seps
    BY <1>1 DEF seps
  <1>7. QED
    BY <1>2, <1>3, <1>4, <1>5, <1>6, Zenon DEF Alternates

-----------------------------------------------------------------------------
(* The request line is read as its words.                                    *)

\* The pairs among the first k words of a query string.
Decoded(q, map, k) ==
    LET pairs == {n \in 1..k : n % 2 = 1}
        key(n) == Word(q, QSeps, n)
    IN  /\ DOMAIN map = {key(n) : n \in pairs}
        /\ \A n \in pairs : (\A m \in pairs : m > n => key(m) # key(n))
                               => map[key(n)] = Word(q, QSeps, n + 1)

AllDecoded(q, map) ==
    /\ q = <<>> => map = Empty
    /\ WellFormed(q) => Decoded(q, map, Words(q, QSeps))

\* What follows the first n pieces and the question mark.
QueryOf(t, n) == SubSeq(t, n + 2, Len(t))

PathRead ==
    /\ uri = SubSeq(Target, 1, Len(uri))
    /\ uri # Target => Mark(Target[Len(uri) + 1])
    /\ AllDecoded(QueryOf(Target, Len(uri)), params)

Query == QueryOf(uri, Least(Question) - 1)

\* The pairs before strtok's pointer are decoded, and it stands at the next one.
QuerySoFar ==
    /\ Query = <<>> => params = Empty /\ pos > Len(uri)
    /\ WellFormed(Query) =>
         \E k \in Nat : \E p \in Nat \ {0} :
            /\ k % 2 = 0 /\ pos = Least(Question) + p
            /\ AtWord(Query, QSeps, p, k) /\ Decoded(Query, params, k)

LineSoFar ==
    /\ pc = "malformed" => Words(block[1], Blank) < 3
    /\ pc \in {"headers", "query", "parsed"} =>
         Words(block[1], Blank) >= 3 /\ method = Word(block[1], Blank, 1)
    /\ pc \in {"headers", "query"} => uri = Target
    /\ pc = "query" => QuerySoFar
    /\ pc = "parsed" => PathRead

LEMMA LineSoFarSuffices == ASSUME PInv, LineSoFar PROVE LineRead
  <1>1. CASE pc = "malformed"
    <2>1. Words(block[1], {" "}) < 3
      BY <1>1, Zenon DEF LineSoFar, Blank
    <2>2. pc # "parsed"
      BY <1>1
    <2>3. QED
      BY <2>1, <2>2, Zenon DEF LineRead
  <1>2. CASE pc = "parsed"
    <2>1. Question = {}
      <3>1. uri \in Seq(Chars \ {"?"})
        BY <1>2, Zenon DEF PInv, TypeOK
      <3>2. ASSUME NEW S, NEW s \in Seq(S)
            PROVE  \A i \in DOMAIN s : s[i] \in S
        OBVIOUS
      <3>3. \A i \in DOMAIN uri : uri[i] \in Chars \ {"?"}
        BY <3>1, <3>2, Zenon
      <3>4. QED
        BY <3>3, Zenon DEF Question
    <2> DEFINE q == QueryOf(Target, Len(uri))
               pairs == {n \in 1..Words(q, QSeps) : n % 2 = 1}
               key(n) == Word(q, QSeps, n)
    <2>2. /\ q = <<>> => params = Empty
          /\ WellFormed(q) =>
               /\ DOMAIN params = {key(n) : n \in pairs}
               /\ \A n \in pairs : (\A m \in pairs : m > n => key(m) # key(n))
                                      => params[key(n)] = Word(q, QSeps, n + 1)
      BY <1>2, Zenon DEF LineSoFar, PathRead, AllDecoded, Decoded
    <2>3. /\ Words(block[1], Blank) >= 3 /\ method = Word(block[1], Blank, 1)
          /\ uri = SubSeq(Target, 1, Len(uri))
          /\ uri # Target => Mark(Target[Len(uri) + 1])
      BY <1>2, Zenon DEF LineSoFar, PathRead
    <2>4. pc # "malformed"
      BY <1>2
    <2>5. QED
      BY <2>1, <2>2, <2>3, <2>4, Zenon DEF LineRead, Blank, QSeps, Mark, QueryOf
  <1>3. CASE pc \notin {"malformed", "parsed"}
    BY <1>3, Zenon DEF LineRead
  <1>4. QED
    BY <1>1, <1>2, <1>3

LEMMA AtFirst == ASSUME NEW s \in Text, NEW seps PROVE AtWord(s, seps, 1, 0)
  <1>1. WordStarts(s, seps) \subseteq 1..Len(s) /\ Len(s) \in Nat
    BY WordStartsFinite
  <1>2. WordsBefore(s, seps, 1) = {}
    BY <1>1 DEF WordsBefore
  <1>3. QED
    BY <1>2, FS_EmptySet DEF AtWord

\* After a call that found nothing, the next one finds nothing either.
LEMMA NothingFollows ==
    ASSUME NEW s \in Text, NEW p \in Nat \ {0}, NEW delims
    PROVE  /\ ~strtok(s, p, delims).found => strtok(s, p, delims).next > Len(s)
           /\ p > Len(s) => ~strtok(s, p, delims).found
  <1> DEFINE b == Start(s, p, delims)
             e == End(s, b, delims)
  <1>1. Len(s) \in Nat
    BY DEF Text
  <1>2. b \in Nat \ {0} /\ b <= Len(s) + 1 /\ (b <= Len(s) => p <= b)
    BY StartIs
  <1> HIDE DEF b
  <1>3. e \in Nat \ {0} /\ b <= e
    BY <1>2, EndIs
  <1> HIDE DEF e
  <1>4. /\ strtok(s, p, delims).found <=> b <= Len(s)
        /\ strtok(s, p, delims).next = e + 1
    BY StrtokIs DEF b, e
  <1>5. QED
    BY <1>1, <1>2, <1>3, <1>4

\* Three calls from the beginning find the first three words, if there are three.
LEMMA ThreeWords ==
    ASSUME NEW s \in Text, NEW seps,
           NEW m, m = strtok(s, 1, seps), NEW u, u = strtok(s, m.next, seps),
           NEW v, v = strtok(s, u.next, seps)
    PROVE  /\ v.found <=> Words(s, seps) >= 3
           /\ v.found => /\ m.found /\ m.token = Word(s, seps, 1)
                         /\ u.found /\ u.token = Word(s, seps, 2)
  <1>1. m.next \in Nat \ {0} /\ u.next \in Nat \ {0}
    <2>1. m.next \in Nat \ {0}
      BY StrtokType
    <2>2. QED
      BY <2>1, StrtokType
  <1>2. /\ m.found <=> Words(s, seps) > 0
        /\ m.found => m.token = Word(s, seps, 1) /\ AtWord(s, seps, m.next, 1)
    <2>1. AtWord(s, seps, 1, 0) /\ 0 + 1 = 1
      BY AtFirst
    <2>2. QED
      BY <2>1, NextWord
  <1>3. ASSUME m.found
        PROVE  /\ u.found <=> Words(s, seps) > 1
               /\ u.found => u.token = Word(s, seps, 2) /\ AtWord(s, seps, u.next, 2)
    <2>1. 1 + 1 = 2
      OBVIOUS
    <2>2. QED
      BY <1>1, <1>2, <1>3, <2>1, NextWord
  <1>4. ASSUME m.found, u.found
        PROVE  v.found <=> Words(s, seps) > 2
    BY <1>1, <1>3, <1>4, NextWord
  <1>5. /\ ~m.found => ~u.found
        /\ ~u.found => ~v.found
    BY <1>1, NothingFollows
  <1>6. Words(s, seps) \in Nat
    BY WordStartsFinite DEF Words
  <1>7. QED
    BY <1>2, <1>3, <1>4, <1>5, <1>6

LEMMA RequestLineRead == ASSUME PInv, RequestLine PROVE LineSoFar'
  <1> DEFINE m == strtok(block[1], 1, Blank)
             u == strtok(block[1], m.next, Blank)
             v == strtok(block[1], u.next, Blank)
  <1>1. /\ method' = IF m.found THEN m.token ELSE method
        /\ uri' = IF u.found THEN u.token ELSE uri
        /\ pc' = IF v.found THEN "headers" ELSE "malformed"
        /\ block' = block /\ pc = "request line"
    BY Zenon DEF RequestLine, Blank
  <1>2. block[1] \in Text
    <2>1. block \in Seq(Text) /\ block # <<>>
      BY <1>1 DEF PInv, Positions
    <2>2. QED
      BY <2>1
  <1>3. /\ v.found <=> Words(block[1], Blank) >= 3
        /\ v.found => /\ m.found /\ m.token = Word(block[1], Blank, 1)
                      /\ u.found /\ u.token = Word(block[1], Blank, 2)
    BY <1>2, ThreeWords
  <1>4. Words(block[1], Blank) \in Nat
    BY <1>2, WordStartsFinite DEF Words
  <1> HIDE DEF m, u, v
  <1>5. Target' = Word(block[1], Blank, 2)
    BY <1>1, Zenon DEF Target, Blank
  <1>6. CASE v.found
    <2>1. pc' = "headers" /\ uri' = Target' /\ method' = Word(block[1], Blank, 1)
      BY <1>1, <1>3, <1>5, <1>6
    <2>2. Words(block[1], Blank) >= 3
      BY <1>3, <1>6
    <2>3. QED
      BY <1>1, <2>1, <2>2 DEF LineSoFar
  <1>7. CASE ~v.found
    <2>1. Words(block[1], Blank) < 3
      BY <1>3, <1>4, <1>7
    <2>2. pc' = "malformed"
      BY <1>1, <1>7
    <2>3. QED
      BY <1>1, <2>1, <2>2 DEF LineSoFar
  <1>8. QED
    BY <1>6, <1>7

LEMMA EmptyQuery == ~WellFormed(<<>>) /\ AllDecoded(<<>>, Empty)
  <1>1. <<>> \in Text /\ SepsOf(<<>>, QSeps) = {}
    BY DEF Text, SepsOf
  <1>2. Cardinality({}) = 0
    BY FS_EmptySet
  <1>3. ~Alternates(<<>>, QSeps, KeyEnd, PairEnd)
    <2>1. 0 % 2 # 1
      OBVIOUS
    <2>2. QED
      BY <1>1, <1>2, <2>1, Zenon DEF Alternates
  <1>4. ~WellFormed(<<>>)
    BY <1>3, WellFormedAlternates
  <1>5. QED
    BY <1>4 DEF AllDecoded

LEMMA SplitAtMark ==
    ASSUME PInv, Question # {}
    PROVE  /\ Least(Question) \in 1..Len(uri) /\ Mark(uri[Least(Question)])
           /\ uri \in Text /\ Len(uri) \in Nat /\ Query \in Text
           /\ Len(uri) = Least(Question) + Len(Query) /\ Len(Query) \in Nat
           /\ Suffix(Query, uri, Least(Question))
  <1> DEFINE o == Least(Question)
  <1>1. uri \in Text /\ Len(uri) \in Nat /\ Question \subseteq 1..Len(uri)
    BY QuestionType DEF Text
  <1>2. o \in Question
    <2>1. Question \subseteq Nat
      BY <1>1
    <2>2. QED
      BY <2>1, LeastIsLeast
  <1> HIDE DEF o
  <1>3. Mark(uri[o])
    BY <1>2, Zenon DEF Question, Mark
  <1>4. o \in 1..Len(uri) /\ (o - 1) + 2 = o + 1
    BY <1>1, <1>2
  <1>5. Query = SubSeq(uri, o + 1, Len(uri))
    BY <1>4 DEF Query, QueryOf, o
  <1>6. /\ o + 1 \in Int /\ Len(uri) \in Int
        /\ \A i \in (o + 1)..Len(uri) : uri[i] \in Chars
    BY <1>1, <1>4 DEF Text
  <1>7. /\ Query \in Seq(Chars)
        /\ Len(Query) = IF o + 1 <= Len(uri) THEN Len(uri) - (o + 1) + 1 ELSE 0
        /\ \A i \in 1..(Len(uri) - (o + 1) + 1) : Query[i] = uri[(o + 1) + i - 1]
    BY <1>5, <1>6, SubSeqProperties
  <1>8. Len(uri) = o + Len(Query) /\ Len(Query) \in Nat
    BY <1>1, <1>4, <1>7
  <1>9. ASSUME NEW i \in 1..Len(Query)
        PROVE  Query[i] = uri[o + i]
    <2>1. i \in 1..(Len(uri) - (o + 1) + 1) /\ (o + 1) + i - 1 = o + i
      BY <1>1, <1>4, <1>8
    <2>2. QED
      BY <1>7, <2>1
  <1>10. QED
    BY <1>1, <1>3, <1>4, <1>7, <1>8, <1>9 DEF o, Text, Suffix

LEMMA QueryBegins ==
    ASSUME PInv, LineSoFar, HeadersEnd
    PROVE  LineSoFar'
  <1>1. /\ pc = "headers" /\ UNCHANGED <<block, uri, method>> /\ params' = Empty
        /\ IF Question = {} THEN pc' = "parsed" ELSE pc' = "query" /\ pos' = Least(Question) + 1
    BY DEF HeadersEnd, ParamsCleared
  <1>2. /\ Words(block[1], Blank) >= 3 /\ method = Word(block[1], Blank, 1) /\ uri = Target
    BY <1>1 DEF LineSoFar
  <1>3. Target' = Target /\ Question' = Question /\ Query' = Query
    BY <1>1, Zenon DEF Target, Question, Query
  <1>4. CASE Question = {}
    <2>1. pc' = "parsed"
      BY <1>1, <1>4
    <2>2. uri \in Text /\ Len(uri) \in Nat
      BY QuestionType DEF Text
    <2>3. uri = SubSeq(uri, 1, Len(uri))
      BY <2>2, SubSeqFull DEF Text
    <2>4. QueryOf(uri, Len(uri)) = <<>>
      BY <2>2, SubSeqEmpty DEF QueryOf
    <2>5. PathRead'
      BY <1>1, <1>2, <1>3, <2>3, <2>4, EmptyQuery DEF PathRead
    <2>6. QED
      BY <1>1, <1>2, <2>1, <2>5 DEF LineSoFar
  <1>5. CASE Question # {}
    <2> DEFINE o == Least(Question)
    <2>1. pc' = "query" /\ pos' = o + 1
      BY <1>1, <1>5
    <2>2. o \in Nat /\ Len(uri) = o + Len(Query) /\ Query \in Text /\ Len(Query) \in Nat
      BY <1>5, SplitAtMark
    <2> HIDE DEF o
    <2>3. Query = <<>> => pos' > Len(uri)
      <3>1. Query = <<>> => Len(Query) = 0
        OBVIOUS
      <3>2. QED
        BY <2>1, <2>2, <3>1
    <2>4. AtWord(Query, QSeps, 1, 0)
      BY <2>2, AtFirst
    <2>5. Decoded(Query, Empty, 0)
      <3>1. DOMAIN Empty = {} /\ 1..0 = {}
        BY DEF Empty
      <3>2. QED
        BY <3>1, Zenon DEF Decoded
    <2>6. 0 % 2 = 0 /\ 0 \in Nat /\ 1 \in Nat \ {0}
      OBVIOUS
    <2>7. o' = o
      BY <1>3 DEF o
    <2>8. QuerySoFar'
      BY <1>1, <1>3, <2>1, <2>3, <2>4, <2>5, <2>6, <2>7 DEF QuerySoFar, o
    <2>9. QED
      BY <1>1, <1>2, <1>3, <2>1, <2>8 DEF LineSoFar
  <1>6. QED
    BY <1>4, <1>5

\* One pair more.
LEMMA DecodedPair ==
    ASSUME NEW q, NEW map, NEW k \in Nat, k % 2 = 0, Decoded(q, map, k),
           NEW new, new = [x \in DOMAIN map \cup {Word(q, QSeps, k + 1)} |->
                              IF x # Word(q, QSeps, k + 1) THEN map[x]
                                                           ELSE Word(q, QSeps, k + 2)]
    PROVE  Decoded(q, new, k + 2)
  <1> DEFINE key(n) == Word(q, QSeps, n)
             odd(j) == {n \in 1..j : n % 2 = 1}
  <1>1. odd(k + 2) = odd(k) \cup {k + 1}
    OBVIOUS
  <1>2. \A n \in odd(k) : n < k + 1
    OBVIOUS
  <1>3. /\ DOMAIN map = {key(n) : n \in odd(k)}
        /\ \A n \in odd(k) : (\A m \in odd(k) : m > n => key(m) # key(n))
                                => map[key(n)] = key(n + 1)
    BY Zenon DEF Decoded
  <1>4. (k + 1) + 1 = k + 2
    OBVIOUS
  <1> HIDE DEF key, odd
  <1>5. new = [x \in DOMAIN map \cup {key(k + 1)} |->
                  IF x # key(k + 1) THEN map[x] ELSE key(k + 2)]
    BY DEF key
  <1>6. DOMAIN new = {key(n) : n \in odd(k + 2)}
    BY <1>1, <1>3, <1>5
  <1>7. ASSUME NEW n \in odd(k + 2), \A m \in odd(k + 2) : m > n => key(m) # key(n)
        PROVE  new[key(n)] = key(n + 1)
    <2>1. CASE n = k + 1
      BY <1>4, <1>5, <2>1
    <2>2. CASE n # k + 1
      <3>1. n \in odd(k) /\ k + 1 > n /\ k + 1 \in odd(k + 2)
        <4>1. n \in odd(k) /\ n < k + 1
          BY <1>1, <1>2, <2>2
        <4>2. n \in Nat
          BY <4>1 DEF odd
        <4>3. QED
          BY <1>1, <4>1, <4>2
      <3>2. key(n) # key(k + 1) /\ key(n) \in DOMAIN map
        BY <1>3, <1>7, <3>1
      <3>3. map[key(n)] = key(n + 1)
        BY <1>1, <1>3, <1>7, <3>1
      <3>4. QED
        BY <1>5, <3>2, <3>3
    <2>3. QED
      BY <2>1, <2>2
  <1>8. QED
    BY <1>6, <1>7, Zenon DEF Decoded, key, odd

\* The two calls of strtok for a pair, seen in the query string.
LEMMA PairInQuery ==
    ASSUME PInv, pc = "query", NEW p \in Nat \ {0}, pos = Least(Question) + p,
           NEW key, key = strtok(Query, p, KeyEnd),
           NEW val, val = strtok(Query, key.next, PairEnd)
    PROVE  /\ Key.found <=> key.found
           /\ Key.token = key.token
           /\ Val.found <=> val.found
           /\ Val.token = val.token
           /\ Val.next = Least(Question) + val.next
  <1> DEFINE o == Least(Question)
  <1>1. /\ o \in Nat /\ uri \in Text /\ Query \in Text
        /\ Suffix(Query, uri, o)
    <2>1. Question # {}
      BY DEF PInv, Positions
    <2>2. /\ o \in 1..Len(uri) /\ uri \in Text /\ Len(uri) \in Nat /\ Query \in Text
          /\ Suffix(Query, uri, o)
      BY <2>1, SplitAtMark, Zenon
    <2> HIDE DEF o
    <2>3. QED
      BY <2>2
  <1>2. /\ Key = strtok(uri, o + p, KeyEnd)
        /\ Val = strtok(uri, Key.next, PairEnd)
    BY Zenon DEF Key, Val, KeyEnd, PairEnd
  <1> HIDE DEF o
  <1>3. /\ Key.found <=> key.found
        /\ Key.token = key.token
        /\ Key.next = o + key.next
    <2>1. /\ strtok(uri, o + p, KeyEnd).found <=> strtok(Query, p, KeyEnd).found
          /\ strtok(uri, o + p, KeyEnd).token = strtok(Query, p, KeyEnd).token
          /\ strtok(uri, o + p, KeyEnd).next = o + strtok(Query, p, KeyEnd).next
      BY <1>1, StrtokInSuffix
    <2>2. QED
      BY <1>2, <2>1, Zenon
  <1>4. key.next \in Nat \ {0}
    BY <1>1, StrtokType
  <1>5. Val = strtok(uri, o + key.next, PairEnd)
    BY <1>2, <1>3
  <1>6. /\ Val.found <=> val.found
        /\ Val.token = val.token
        /\ Val.next = o + val.next
    <2> DEFINE n == key.next
    <2>1. n \in Nat \ {0}
      BY <1>4
    <2> HIDE DEF n
    <2>2. /\ strtok(uri, o + n, PairEnd).found <=> strtok(Query, n, PairEnd).found
          /\ strtok(uri, o + n, PairEnd).token = strtok(Query, n, PairEnd).token
          /\ strtok(uri, o + n, PairEnd).next = o + strtok(Query, n, PairEnd).next
      BY <1>1, <2>1, StrtokInSuffix
    <2>3. QED
      BY <1>5, <2>2, Zenon DEF n
  <1>7. QED
    BY <1>3, <1>6 DEF o

LEMMA EmptyQueryEnds == ASSUME PInv, pc = "query", pos > Len(uri) PROVE ~Key.found
  <1>1. uri \in Text /\ pos \in Nat \ {0}
    BY DEF PInv, TypeOK, Positions
  <1>2. QED
    BY <1>1, NothingFollows, Zenon DEF Key

LEMMA QueryFacts == KeyEnd \in SUBSET QSeps /\ PairEnd \in SUBSET QSeps
  BY Zenon DEF KeyEnd, PairEnd, QSeps

LEMMA PairIsRead ==
    ASSUME PInv, LineSoFar, QueryPair
    PROVE  LineSoFar'
  <1>1. /\ pc = "query" /\ Key.found
        /\ params' = [k \in DOMAIN params \cup {Key.token} |->
                         IF k # Key.token THEN params[k]
                         ELSE IF Val.found THEN Val.token ELSE <<>>]
        /\ pos' = Val.next
        /\ UNCHANGED <<pc, block, method, uri>>
    BY DEF QueryPair
  <1>2. /\ Words(block[1], Blank) >= 3 /\ method = Word(block[1], Blank, 1) /\ uri = Target
        /\ QuerySoFar
    BY <1>1 DEF LineSoFar
  <1>3. Target' = Target /\ Question' = Question /\ Query' = Query
    BY <1>1, Zenon DEF Target, Question, Query
  <1>4. Query # <<>>
    BY <1>1, <1>2, EmptyQueryEnds DEF QuerySoFar
  <1> DEFINE o == Least(Question)
  <1>5. ASSUME WellFormed(Query)
        PROVE  \E k \in Nat : \E p \in Nat \ {0} :
                 /\ k % 2 = 0 /\ pos' = o + p
                 /\ AtWord(Query, QSeps, p, k) /\ Decoded(Query, params', k)
    <2>1. PICK k \in Nat, p \in Nat \ {0} :
             /\ k % 2 = 0 /\ pos = Least(Question) + p
             /\ AtWord(Query, QSeps, p, k) /\ Decoded(Query, params, k)
      BY <1>2, <1>5 DEF QuerySoFar
    <2>2. PICK key : key = strtok(Query, p, KeyEnd)
      OBVIOUS
    <2>3. PICK val : val = strtok(Query, key.next, PairEnd)
      OBVIOUS
    <2>4. /\ Key.found <=> key.found
          /\ Key.token = key.token
          /\ Val.found <=> val.found
          /\ Val.token = val.token
          /\ Val.next = o + val.next
      BY <1>1, <2>1, <2>2, <2>3, PairInQuery
    <2>5. Query \in Text
      <3>1. Question # {}
        BY <1>1 DEF PInv, Positions
      <3>2. QED
        BY <3>1, SplitAtMark
    <2>6. Alternates(Query, QSeps, KeyEnd, PairEnd)
      BY <1>5, WellFormedAlternates
    <2>7. /\ key.token = Word(Query, QSeps, k + 1)
          /\ val.found /\ val.token = Word(Query, QSeps, k + 2)
          /\ val.next \in Nat \ {0}
          /\ AtWord(Query, QSeps, val.next, k + 2)
      BY <1>1, <2>1, <2>2, <2>3, <2>4, <2>5, <2>6, QueryFacts, PairRead
    <2>8. params' = [x \in DOMAIN params \cup {Word(Query, QSeps, k + 1)} |->
                        IF x # Word(Query, QSeps, k + 1) THEN params[x]
                                                         ELSE Word(Query, QSeps, k + 2)]
      BY <1>1, <2>4, <2>7, Zenon
    <2>9. Decoded(Query, params', k + 2)
      BY <2>1, <2>8, DecodedPair
    <2>10. k + 2 \in Nat /\ (k + 2) % 2 = 0
      BY <2>1
    <2>11. pos' = o + val.next
      BY <1>1, <2>4
    <2>12. QED
      BY <2>7, <2>9, <2>10, <2>11
  <1>6. QuerySoFar'
    BY <1>3, <1>4, <1>5 DEF QuerySoFar
  <1>7. QED
    BY <1>1, <1>2, <1>3, <1>6 DEF LineSoFar

LEMMA QueryIsRead ==
    ASSUME PInv, LineSoFar, QueryEnd
    PROVE  LineSoFar'
  <1> DEFINE o == Least(Question)
  <1>1. /\ pc = "query" /\ ~Key.found /\ pc' = "parsed"
        /\ uri' = SubSeq(uri, 1, o - 1)
        /\ UNCHANGED <<block, method, params>>
    BY DEF QueryEnd, Path
  <1>2. /\ Words(block[1], Blank) >= 3 /\ method = Word(block[1], Blank, 1) /\ uri = Target
        /\ QuerySoFar
    BY <1>1 DEF LineSoFar
  <1>3. Target' = Target
    BY <1>1, Zenon DEF Target
  <1>4. /\ o \in 1..Len(uri) /\ Mark(uri[o])
        /\ uri \in Text /\ Len(uri) \in Nat /\ Query \in Text
    <2>1. Question # {}
      BY <1>1 DEF PInv, Positions
    <2>2. QED
      BY <2>1, SplitAtMark
  <1> HIDE DEF o
  <1>5. Len(uri') = o - 1
    <2>1. /\ 1 \in Int /\ o - 1 \in Int
          /\ \A i \in 1..(o - 1) : uri[i] \in Chars
      BY <1>4 DEF Text
    <2>2. Len(SubSeq(uri, 1, o - 1)) = IF 1 <= o - 1 THEN (o - 1) - 1 + 1 ELSE 0
      BY <2>1, SubSeqProperties
    <2>3. QED
      BY <1>1, <1>4, <2>2
  <1>6. Query = QueryOf(Target, Len(uri'))
    BY <1>2, <1>5 DEF Query, o
  <1>7. ASSUME WellFormed(Query)
        PROVE  Decoded(Query, params, Words(Query, QSeps))
    <2>1. PICK k \in Nat, p \in Nat \ {0} :
             /\ k % 2 = 0 /\ pos = Least(Question) + p
             /\ AtWord(Query, QSeps, p, k) /\ Decoded(Query, params, k)
      BY <1>2, <1>7 DEF QuerySoFar
    <2>2. PICK key : key = strtok(Query, p, KeyEnd)
      OBVIOUS
    <2>3. PICK val : val = strtok(Query, key.next, PairEnd)
      OBVIOUS
    <2>4. ~key.found
      BY <1>1, <2>1, <2>2, <2>3, PairInQuery
    <2>5. Alternates(Query, QSeps, KeyEnd, PairEnd)
      BY <1>7, WellFormedAlternates
    <2>6. ~(Words(Query, QSeps) > k)
      BY <1>4, <2>1, <2>2, <2>3, <2>4, <2>5, QueryFacts, PairRead
    <2>7. k <= Words(Query, QSeps) /\ Words(Query, QSeps) \in Nat
      <3> DEFINE W == WordStarts(Query, QSeps)
                 before == WordsBefore(Query, QSeps, p)
      <3>1. IsFiniteSet(W) /\ Cardinality(W) \in Nat /\ before \in SUBSET W
        BY <1>4, WordStartsFinite DEF WordsBefore
      <3>2. Cardinality(before) <= Cardinality(W)
        BY <3>1, FS_Subset
      <3>3. QED
        BY <2>1, <3>1, <3>2 DEF AtWord, Words
    <2>8. Words(Query, QSeps) = k
      BY <2>6, <2>7
    <2>9. QED
      BY <2>1, <2>8
  <1>8. AllDecoded(Query, params)
    BY <1>2, <1>7 DEF AllDecoded, QuerySoFar
  <1>9. PathRead'
    <2>1. uri' = SubSeq(Target', 1, Len(uri'))
      BY <1>1, <1>2, <1>3, <1>5
    <2>2. Mark(Target'[Len(uri') + 1])
      <3>1. Len(uri') + 1 = o
        BY <1>4, <1>5
      <3>2. QED
        BY <1>2, <1>3, <1>4, <3>1
    <2>3. AllDecoded(QueryOf(Target', Len(uri')), params')
      BY <1>1, <1>3, <1>6, <1>8
    <2>4. QED
      BY <2>1, <2>2, <2>3 DEF PathRead
  <1>10. QED
    BY <1>1, <1>2, <1>3, <1>9 DEF LineSoFar

LEMMA NextLineSoFar == PInv /\ LineSoFar /\ [Next]_vars => LineSoFar'
  <1> SUFFICES ASSUME PInv, LineSoFar, [Next]_vars
               PROVE  LineSoFar'
    OBVIOUS
  <1>1. CASE RequestLine
    BY <1>1, RequestLineRead
  <1>2. CASE HeadersEnd
    BY <1>2, QueryBegins
  <1>3. CASE QueryPair
    BY <1>3, PairIsRead
  <1>4. CASE QueryEnd
    BY <1>4, QueryIsRead
  <1>5. CASE HeaderLine \/ UNCHANGED vars
    <2>1. UNCHANGED <<pc, block, pos, method, uri, params>>
      BY <1>5 DEF HeaderLine, vars, fieldVars
    <2>2. Target' = Target /\ Question' = Question /\ Query' = Query
      BY <2>1, Zenon DEF Target, Question, Query
    <2>3. QuerySoFar' = QuerySoFar /\ PathRead' = PathRead
      BY <2>1, <2>2 DEF QuerySoFar, PathRead
    <2>4. QED
      BY <2>1, <2>2, <2>3 DEF LineSoFar
  <1>6. CASE pc' \in {"request line", "serving", "idle"}
    BY <1>6 DEF LineSoFar
  <1>7. QED
    BY <1>1, <1>2, <1>3, <1>4, <1>5, <1>6 DEF Next, Parse, Arrives, GetHeader, Refused, GetBody

\* Whatever arrives, the request line is read as its first three words and refused
\* if it has not as many, the path ends at the first question mark, and a
\* well-formed query string is decoded into its pairs and leaves none of the last one's.
THEOREM LineIsRead == Spec => []LineRead
  <1>1. PInv /\ LineSoFar => LineRead
    BY LineSoFarSuffices
  <1>2. Init => LineSoFar
    BY DEF Init, LineSoFar
  <1>3. QED
    BY <1>1, <1>2, NextLineSoFar, ParserInvariance, PTL DEF Spec
===============================================================================
