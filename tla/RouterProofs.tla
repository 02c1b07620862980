------------------------------ MODULE RouterProofs ------------------------------
(* Theorems about Router, for any patterns, what they match, and any handlers. *)
EXTENDS Router, SequenceTheorems, TLAPS

\* The key of a pattern ends with a "$", its own or the one the server adds.
LEMMA Keys ==
    ASSUME NEW p \in Patterns
    PROVE  /\ p \in Seq(STRING) /\ p # <<>>
           /\ ~Plain(p) => Key(p) = p
           /\ Plain(p) => Key(p) = Append(p, "$")
  BY RouterAssumption DEF Key, Plain

LEMMA AddedIsNotPlain ==
    ASSUME NEW p \in Patterns
    PROVE  ~Plain(Append(p, "$"))
  BY Keys, AppendProperties DEF Plain

\* Registrations are for the same pattern exactly if they have the same key.
LEMMA SameIsSameKey ==
    ASSUME NEW p \in Patterns, NEW q \in Patterns
    PROVE  Same(p, q) <=> Key(p) = Key(q)
  <1> USE Keys, AddedIsNotPlain
  <1>1. CASE Plain(p) /\ Plain(q)
    <2>1. Append(p, "$") = Append(q, "$") <=> p = q
      BY AppendInjective
    <2>2. QED
      BY <1>1, <2>1 DEF Same
  <1>2. CASE Plain(p) /\ ~Plain(q)
    BY <1>2 DEF Same
  <1>3. CASE ~Plain(p) /\ Plain(q)
    BY <1>3 DEF Same
  <1>4. CASE ~Plain(p) /\ ~Plain(q)
    BY <1>4 DEF Same
  <1>5. QED
    BY <1>1, <1>2, <1>3, <1>4

LEMMA InitTypeOK == Init => TypeOK
  BY RouterAssumption DEF Init, TypeOK, Caught, Callbacks

\* What a registration that succeeds does to the table and to the history.
Added(p, hd) ==
    /\ Key(p) \notin Malformed
    /\ DOMAIN handlers' = DOMAIN handlers \cup {Key(p)}
    /\ handlers'[Key(p)] = hd
    /\ \A k \in DOMAIN handlers \ {Key(p)} : handlers'[k] = handlers[k]
    /\ registered' \in Seq(Patterns \X Handlers)
    /\ Len(registered') = Len(registered) + 1
    /\ registered'[Len(registered) + 1] = <<p, hd>>
    /\ \A i \in 1..Len(registered) : registered'[i] = registered[i]

LEMMA Registers ==
    ASSUME TypeOK, NEW p \in Patterns, NEW hd \in Handlers, register_handler(p, hd)
    PROVE  UNCHANGED <<handlers, registered>> \/ Added(p, hd)
  <1>1. CASE Rejected(p)
    BY <1>1 DEF register_handler
  <1>2. CASE ~Rejected(p)
    <2>1. /\ handlers' = [k \in DOMAIN handlers \cup {Key(p)} |->
                              IF k = Key(p) THEN hd ELSE handlers[k]]
          /\ registered' = Append(registered, <<p, hd>>)
          /\ Key(p) \notin Malformed
      BY <1>2 DEF register_handler, Rejected
    <2>2. registered \in Seq(Patterns \X Handlers) /\ <<p, hd>> \in Patterns \X Handlers
      BY DEF TypeOK
    <2>3. /\ registered' \in Seq(Patterns \X Handlers)
          /\ Len(registered') = Len(registered) + 1
          /\ registered'[Len(registered) + 1] = <<p, hd>>
          /\ \A i \in 1..Len(registered) : registered'[i] = registered[i]
      BY <2>1, <2>2, AppendProperties
    <2>4. QED
      BY <2>1, <2>3 DEF Added
  <1>3. QED
    BY <1>1, <1>2

LEMMA NextTypeOK == TypeOK /\ [Next]_vars => TypeOK'
  <1> SUFFICES ASSUME TypeOK, [Next]_vars
               PROVE  TypeOK'
    OBVIOUS
  <1> USE RouterAssumption DEF TypeOK, Callbacks, Caught
  <1>1. ASSUME NEW p \in Patterns, NEW hd \in Handlers, register_handler(p, hd)
        PROVE  TypeOK'
    <2>1. UNCHANGED <<handlers, registered>> \/ Added(p, hd)
      BY <1>1, Registers
    <2>2. /\ DOMAIN handlers' \subseteq {Key(q) : q \in Patterns} \ Malformed
          /\ \A k \in DOMAIN handlers' : handlers'[k] \in Handlers
          /\ untried \subseteq DOMAIN handlers'
      BY <2>1 DEF Added
    <2>3. registered' \in Seq(Patterns \X Handlers) /\ known \in 0..Len(registered')
      BY <2>1 DEF Added
    <2>4. QED
      BY <1>1, <2>2, <2>3 DEF register_handler, request
  <1>2. ASSUME NEW u \in Uris, NEW m \in Methods, Arrives(u, m)
        PROVE  TypeOK'
    BY <1>2 DEF Arrives
  <1>3. ASSUME NEW k \in untried, Try(k)
        PROVE  TypeOK'
    BY <1>3 DEF Try, Rest, request
  <1>4. CASE NotFound
    BY <1>4 DEF NotFound, Ends, request
  <1>5. CASE Call
    BY <1>5, AppendProperties DEF Call, Current, request
  <1>6. CASE NotAllowed
    BY <1>6 DEF NotAllowed, Ends, request
  <1>7. CASE Returns
    BY <1>7 DEF Returns, Following, request
  <1>8. ASSUME NEW o \in {"HttpError", "ParseException", "exception"}, Raises(o)
        PROVE  TypeOK'
    BY <1>8 DEF Raises, Ends, request
  <1>9. CASE UNCHANGED vars
    BY <1>9 DEF vars, request
  <1>10. QED
    BY <1>1, <1>2, <1>3, <1>4, <1>5, <1>6, <1>7, <1>8, <1>9 DEF Next, Route

\* Every variable of the table and of the routing keeps its type.
THEOREM RouterTypeCorrect == Spec => []TypeOK
  BY InitTypeOK, NextTypeOK, PTL DEF Spec

-----------------------------------------------------------------------------
LEMMA InitInv == Init => IInv
  <1> SUFFICES ASSUME Init
               PROVE  IInv
    OBVIOUS
  <1>1. TypeOK
    BY InitTypeOK
  <1>2. QED
    BY <1>1 DEF Init, IInv, TableIsNewest, SearchedSoFar, CalledSoFar, Callbacks,
                CallOrder, NewestServes, NotFoundIsRight

\* The table after a registration is again the newest: the new entry is the last
\* of its key, and every other entry keeps its registration.
LEMMA TableKept ==
    ASSUME TypeOK, TableIsNewest, NEW p \in Patterns, NEW hd \in Handlers, Added(p, hd)
    PROVE  TableIsNewest'
  <1> DEFINE n == Len(registered) + 1
  <1> USE DEF Added, TypeOK
  <1>0. n \in Nat /\ Len(registered) \in Nat /\ registered'[n] = <<p, hd>>
    OBVIOUS
  <1>1. ASSUME NEW i \in 1..n
        PROVE  Key(registered'[i][1]) \in DOMAIN handlers'
    <2>1. CASE i = n
      BY <1>0, <2>1
    <2>2. CASE i # n
      <3>1. i \in 1..Len(registered) /\ registered'[i] = registered[i]
        BY <1>0, <2>2
      <3>2. QED
        BY <3>1 DEF TableIsNewest
    <2>3. QED
      BY <2>1, <2>2
  <1>2. ASSUME NEW k \in DOMAIN handlers'
        PROVE  \E i \in 1..n :
                  /\ registered'[i] = <<registered'[i][1], handlers'[k]>>
                  /\ Key(registered'[i][1]) = k
                  /\ \A j \in (i + 1)..n : Key(registered'[j][1]) # k
    <2>1. CASE k = Key(p)
      <3>1. n \in 1..n /\ \A j \in (n + 1)..n : FALSE
        BY <1>0
      <3>2. registered'[n] = <<registered'[n][1], handlers'[k]>> /\ Key(registered'[n][1]) = k
        BY <1>0, <2>1
      <3> HIDE DEF n
      <3>3. QED
        BY <3>1, <3>2
    <2>2. CASE k # Key(p)
      <3>1. k \in DOMAIN handlers /\ handlers'[k] = handlers[k]
        BY <2>2
      <3>2. PICK i \in 1..Len(registered) :
               /\ registered[i] = <<registered[i][1], handlers[k]>>
               /\ Key(registered[i][1]) = k
               /\ \A j \in (i + 1)..Len(registered) : Key(registered[j][1]) # k
        BY <3>1 DEF TableIsNewest
      <3>3. i \in 1..n /\ registered'[i] = registered[i]
        BY <1>0
      <3>4. ASSUME NEW j \in (i + 1)..n
            PROVE  Key(registered'[j][1]) # k
        <4>1. CASE j = n
          BY <1>0, <2>2, <4>1
        <4>2. CASE j # n
          <5>1. j \in (i + 1)..Len(registered) /\ j \in 1..Len(registered)
            BY <1>0, <4>2
          <5>2. QED
            BY <3>2, <5>1
        <4>3. QED
          BY <4>1, <4>2
      <3>5. /\ registered'[i] = <<registered'[i][1], handlers'[k]>>
            /\ Key(registered'[i][1]) = k
        BY <3>1, <3>2, <3>3
      <3> HIDE DEF n
      <3>6. QED
        BY <3>3, <3>4, <3>5
    <2>3. QED
      BY <2>1, <2>2
  <1>3. QED
    BY <1>0, <1>1, <1>2 DEF TableIsNewest

\* The registrations a request knows stay what they are.
LEMMA KnownKept ==
    ASSUME TypeOK, NEW p \in Patterns, NEW hd \in Handlers, Added(p, hd),
           UNCHANGED <<known, uri>>
    PROVE  /\ \A i \in 1..known : registered'[i] = registered[i]
           /\ Newest' = Newest
           /\ \A o \in Handlers : Entitled(o)' <=> Entitled(o)
  <1>1. \A i \in 1..known : registered'[i] = registered[i]
    BY DEF Added, TypeOK
  <1>2. Newest' = Newest
    <2>1. known \in Nat
      BY DEF TypeOK
    <2>2. \A i \in 1..known : \A j \in (i + 1)..known :
             Same(registered'[i][1], registered'[j][1]) <=> Same(registered[i][1], registered[j][1])
      <3>1. \A i \in 1..known : \A j \in (i + 1)..known : j \in 1..known
        BY <2>1
      <3>2. QED
        BY <1>1, <3>1
    <2>3. QED
      BY <2>2 DEF Newest
  <1>3. \A i \in Newest : i \in 1..known
    BY DEF Newest
  <1>4. QED
    BY <1>1, <1>2, <1>3 DEF Entitled

\* A handler found in the table is entitled to the request.
LEMMA FoundIsEntitled ==
    ASSUME TypeOK, TableIsNewest, known = Len(registered),
           NEW k \in DOMAIN handlers, Matches(k)
    PROVE  Entitled(handlers[k])
  <1>1. PICK i \in 1..Len(registered) :
           /\ registered[i] = <<registered[i][1], handlers[k]>>
           /\ Key(registered[i][1]) = k
           /\ \A j \in (i + 1)..Len(registered) : Key(registered[j][1]) # k
    BY DEF TableIsNewest
  <1>2. \A j \in 1..Len(registered) : registered[j][1] \in Patterns
    BY DEF TypeOK
  <1>3. i \in Newest
    <2>1. ASSUME NEW j \in (i + 1)..known
          PROVE  ~Same(registered[i][1], registered[j][1])
      <3>1. j \in 1..Len(registered)
        BY DEF TypeOK
      <3>2. QED
        BY <1>1, <1>2, <3>1, SameIsSameKey
    <2>2. QED
      BY <2>1 DEF Newest
  <1>4. QED
    BY <1>1, <1>3 DEF Entitled, Matches

-----------------------------------------------------------------------------
(* The invariant is kept: by a registration, and by the steps of a request.  *)

LEMMA RegisterInv ==
    ASSUME IInv, TypeOK', NEW p \in Patterns, NEW hd \in Handlers, register_handler(p, hd)
    PROVE  IInv'
  <1> USE DEF IInv
  <1>1. /\ UNCHANGED <<uri, method, untried, h, outcome, known, calls>>
        /\ pc' = pc \/ (pc \in Callbacks /\ pc' = "terminated")
        /\ pc \in {"idle"} \cup Callbacks
    BY DEF register_handler, request
  <1>2. CASE UNCHANGED <<handlers, registered>>
    <2>1. TableIsNewest' /\ CallOrder' /\ NewestServes' /\ NotFoundIsRight'
      BY <1>1, <1>2 DEF TableIsNewest, CallOrder, NewestServes, NotFoundIsRight, Newest
    <2>2. SearchedSoFar' /\ CalledSoFar'
      BY <1>1, <1>2 DEF SearchedSoFar, CalledSoFar, Callbacks, Entitled, Newest
    <2>3. QED
      BY <2>1, <2>2
  <1>3. CASE Added(p, hd)
    <2>1. TableIsNewest'
      BY <1>3, TableKept
    <2>2. /\ \A i \in 1..known : registered'[i] = registered[i]
          /\ Newest' = Newest
          /\ \A o \in Handlers : Entitled(o)' <=> Entitled(o)
      BY <1>1, <1>3, KnownKept
    <2>3. \A i \in Newest : i \in 1..known
      BY DEF Newest
    <2>4. CallOrder' /\ NewestServes' /\ NotFoundIsRight'
      BY <1>1, <2>2, <2>3 DEF CallOrder, NewestServes, NotFoundIsRight
    <2>5. SearchedSoFar'
      BY <1>1 DEF SearchedSoFar, Callbacks
    <2>6. CalledSoFar'
      <3>1. SUFFICES ASSUME pc' \in Callbacks
                     PROVE  CalledSoFar'
        BY DEF CalledSoFar
      <3>2. pc' = pc /\ h \in Handlers
        BY <1>1, <3>1 DEF Callbacks, TypeOK
      <3>3. Entitled(h)'
        BY <1>1, <2>2, <3>1, <3>2 DEF CalledSoFar
      <3>4. QED
        BY <1>1, <3>1, <3>2, <3>3 DEF CalledSoFar
    <2>7. QED
      BY <2>1, <2>4, <2>5, <2>6
  <1>4. QED
    BY <1>2, <1>3, Registers

LEMMA ArrivesInv ==
    ASSUME IInv, TypeOK', NEW u \in Uris, NEW m \in Methods, Arrives(u, m)
    PROVE  IInv'
  <1>1. /\ UNCHANGED <<handlers, registered>>
        /\ pc' = "looking" /\ untried' = DOMAIN handlers /\ outcome' = "none"
        /\ known' = Len(registered) /\ calls' = <<>>
    BY DEF Arrives
  <1>2. TableIsNewest'
    BY <1>1 DEF IInv, TableIsNewest
  <1>3. SearchedSoFar' /\ CalledSoFar'
    BY <1>1 DEF SearchedSoFar, CalledSoFar, Callbacks
  <1>4. CallOrder' /\ NewestServes' /\ NotFoundIsRight'
    BY <1>1 DEF CallOrder, NewestServes, NotFoundIsRight
  <1>5. QED
    BY <1>2, <1>3, <1>4 DEF IInv

\* The table and what a request knows of it, in every step but these two.
LEMMA TableUnread ==
    ASSUME IInv, UNCHANGED <<handlers, registered, known, uri>>
    PROVE  TableIsNewest' /\ Newest' = Newest /\ \A o \in Handlers : Entitled(o)' <=> Entitled(o)
  BY DEF IInv, TableIsNewest, Newest, Entitled

LEMMA TryInv ==
    ASSUME IInv, TypeOK', NEW k \in untried, Try(k)
    PROVE  IInv'
  <1>1. /\ UNCHANGED <<handlers, uri, method, outcome, registered, known, calls>>
        /\ pc = "looking" /\ k \in DOMAIN handlers /\ h' \in Handlers \cup {h}
    BY DEF IInv, TypeOK, Try, request
  <1>2. calls = <<>> /\ outcome = "none" /\ known = Len(registered)
    BY <1>1 DEF IInv, SearchedSoFar
  <1>3. TableIsNewest' /\ CallOrder' /\ NewestServes' /\ NotFoundIsRight'
    BY <1>1, <1>2, TableUnread DEF CallOrder, NewestServes, NotFoundIsRight
  <1>4. CASE Matches(k)
    <2>1. pc' = "prepare" /\ h' = handlers[k] /\ h' \in Handlers
      BY <1>1, <1>4 DEF Try, IInv, TypeOK
    <2>2. Entitled(h')
      BY <1>1, <1>2, <1>4, <2>1, FoundIsEntitled DEF IInv
    <2>3. Entitled(h)'
      BY <1>1, <2>1, <2>2 DEF Entitled, Newest
    <2>4. CalledSoFar' /\ SearchedSoFar'
      BY <1>1, <1>2, <2>1, <2>3 DEF CalledSoFar, SearchedSoFar, Stages
    <2>5. QED
      BY <1>3, <2>4 DEF IInv
  <1>5. CASE ~Matches(k)
    <2>1. pc' = "looking" /\ untried' = untried \ {k}
      BY <1>1, <1>5 DEF Try, Rest
    <2>2. SearchedSoFar'
      BY <1>1, <1>5, <2>1 DEF IInv, SearchedSoFar, Matches
    <2>3. CalledSoFar'
      BY <2>1 DEF CalledSoFar, Callbacks
    <2>4. QED
      BY <1>3, <2>2, <2>3 DEF IInv
  <1>6. QED
    BY <1>4, <1>5

\* A request ends by an exception or with one of the answers; it keeps its calls.
LEMMA EndsInv ==
    ASSUME IInv, TypeOK', NEW o \in Caught \cup {"exception"}, Ends(o),
           o = "404" => pc = "looking" /\ untried = {},
           o = "405" => pc = "verb" /\ Len(calls) = 1
    PROVE  IInv'
  <1>1. /\ UNCHANGED <<handlers, uri, method, untried, h, registered, known, calls>>
        /\ outcome' = o /\ pc' \in {"idle", "terminated"}
    BY DEF Ends, Caught, request
  <1>2. TableIsNewest' /\ NewestServes'
    BY <1>1, TableUnread DEF IInv, NewestServes
  <1>3. SearchedSoFar' /\ CalledSoFar'
    BY <1>1 DEF SearchedSoFar, CalledSoFar, Callbacks
  <1>4. o = "404" => calls = <<>> /\ known = Len(registered) /\ \A k \in DOMAIN handlers : ~Matches(k)
    BY DEF IInv, SearchedSoFar
  <1>5. CallOrder'
    BY <1>1, <1>4 DEF IInv, CallOrder, Caught
  <1>6. NotFoundIsRight'
    BY <1>1, <1>4 DEF IInv, NotFoundIsRight, TableIsNewest, Matches
  <1>7. QED
    BY <1>2, <1>3, <1>5, <1>6 DEF IInv

\* Which stage a request is at, by how many callbacks were called.
LEMMA StageReached ==
    ASSUME IInv, pc \in Callbacks
    PROVE  /\ h \in Handlers /\ outcome = "none" /\ calls \in Seq(Handlers \X Callbacks)
           /\ \E n \in 1..3 : pc = Stages[n] /\ Len(calls) = IF Called THEN n ELSE n - 1
  <1>1. h \in Handlers /\ outcome = "none" /\ calls \in Seq(Handlers \X Callbacks)
    BY DEF IInv, TypeOK, CalledSoFar
  <1>2. PICK n \in 1..3 : pc = Stages[n] /\ Len(calls) \in {n - 1, n}
    BY DEF IInv, CalledSoFar
  <1>3. \A i \in DOMAIN calls : calls[i] = <<h, Stages[i]>>
    BY DEF IInv, CalledSoFar
  <1>4. CASE Len(calls) = n
    <2>1. n \in DOMAIN calls /\ calls # <<>>
      BY <1>1, <1>4
    <2>2. Called
      BY <1>2, <1>3, <1>4, <2>1 DEF Called
    <2>3. QED
      BY <1>1, <1>2, <1>4, <2>2
  <1>5. CASE Len(calls) = n - 1
    <2>1. ~Called
      <3>1. SUFFICES ASSUME Called
                     PROVE  FALSE
        OBVIOUS
      <3>2. n \in 2..3 /\ n - 1 \in DOMAIN calls
        BY <1>1, <1>5, <3>1 DEF Called
      <3>3. Stages[n - 1] = Stages[n]
        BY <1>2, <1>3, <1>5, <3>1, <3>2 DEF Called
      <3>4. QED
        BY <3>2, <3>3 DEF Stages
    <2>2. QED
      BY <1>1, <1>2, <1>5, <2>1
  <1>6. QED
    BY <1>2, <1>4, <1>5

LEMMA CallInv ==
    ASSUME IInv, TypeOK', Call
    PROVE  IInv'
  <1>1. /\ UNCHANGED <<handlers, pc, uri, method, untried, h, outcome, registered, known>>
        /\ pc \in Callbacks /\ ~Called /\ calls' = Append(calls, <<h, pc>>)
    BY DEF Call, Current, request
  <1>2. PICK n \in 1..3 : pc = Stages[n] /\ Len(calls) = n - 1
    BY <1>1, StageReached
  <1>3. /\ h \in Handlers /\ outcome = "none" /\ calls \in Seq(Handlers \X Callbacks)
        /\ <<h, pc>> \in Handlers \X Callbacks
    BY <1>1, StageReached
  <1>4. /\ Len(calls') = n /\ calls'[n] = <<h, pc>>
        /\ \A i \in 1..(n - 1) : calls'[i] = calls[i]
    BY <1>1, <1>2, <1>3, AppendProperties
  <1>5. DOMAIN calls' = 1..n /\ calls' # <<>> /\ DOMAIN calls = 1..(n - 1)
    BY <1>1, <1>2, <1>3, <1>4, AppendProperties
  <1>6. \A i \in DOMAIN calls' : calls'[i] = <<h, Stages[i]>>
    <2>1. \A i \in 1..(n - 1) : calls[i] = <<h, Stages[i]>>
      BY <1>1, <1>5 DEF IInv, CalledSoFar
    <2>2. \A i \in 1..n : i = n \/ i \in 1..(n - 1)
      BY <1>2
    <2>3. QED
      BY <1>2, <1>4, <1>5, <2>1, <2>2
  <1>7. Entitled(h) /\ Entitled(h)'
    BY <1>1, <1>3, TableUnread DEF IInv, CalledSoFar
  <1>8. TableIsNewest' /\ NotFoundIsRight' /\ SearchedSoFar'
    BY <1>1, <1>3, TableUnread DEF IInv, NotFoundIsRight, SearchedSoFar, Callbacks
  <1>9. CallOrder'
    <2>1. 1 \in DOMAIN calls' /\ calls'[1][1] = h
      BY <1>5, <1>6
    <2>2. QED
      BY <1>1, <1>3, <1>4, <1>5, <1>6, <2>1 DEF CallOrder
  <1>10. CalledSoFar'
    BY <1>1, <1>2, <1>3, <1>4, <1>6, <1>7 DEF CalledSoFar
  <1>11. NewestServes'
    <2>1. 1 \in DOMAIN calls' /\ calls'[1][1] = h
      BY <1>5, <1>6
    <2>2. Newest' = Newest
      BY <1>1, TableUnread
    <2>3. QED
      BY <1>1, <1>7, <2>1, <2>2 DEF NewestServes, Entitled
  <1>12. QED
    BY <1>8, <1>9, <1>10, <1>11 DEF IInv

LEMMA ReturnsInv ==
    ASSUME IInv, TypeOK', Returns
    PROVE  IInv'
  <1>1. /\ UNCHANGED <<handlers, uri, method, untried, h, registered, known, calls>>
        /\ pc \in Callbacks /\ Called /\ pc' = Following[pc]
        /\ outcome' = IF pc = "after" THEN "handled" ELSE outcome
    BY DEF Returns, request
  <1>2. PICK n \in 1..3 : pc = Stages[n] /\ Len(calls) = n
    BY <1>1, StageReached
  <1>3. outcome = "none"
    BY <1>1, StageReached
  <1>4. pc = "after" <=> n = 3
    BY <1>2 DEF Stages
  <1>5. n < 3 => pc' = Stages[n + 1]
    BY <1>1, <1>2 DEF Stages, Following
  <1>6. n = 3 => pc' = "idle"
    BY <1>1, <1>4 DEF Following
  <1>7. TableIsNewest' /\ NewestServes' /\ NotFoundIsRight'
    BY <1>1, <1>3, TableUnread DEF IInv, NewestServes, NotFoundIsRight
  <1>8. CallOrder'
    BY <1>1, <1>2, <1>3, <1>4 DEF IInv, CallOrder
  <1>9. SearchedSoFar'
    BY <1>2, <1>5, <1>6 DEF SearchedSoFar, Stages
  <1>10. CalledSoFar'
    <2>1. CASE n = 3
      BY <1>6, <2>1 DEF CalledSoFar, Callbacks
    <2>2. CASE n < 3
      <3>1. outcome' = "none"
        BY <1>1, <1>3, <1>4, <2>2
      <3>2. Entitled(h)' /\ \A i \in DOMAIN calls' : calls'[i] = <<h', Stages[i]>>
        BY <1>1, StageReached, TableUnread DEF IInv, CalledSoFar
      <3>3. n + 1 \in 1..3 /\ Len(calls') = (n + 1) - 1
        BY <1>1, <1>2, <2>2
      <3>4. QED
        BY <1>5, <2>2, <3>1, <3>2, <3>3, <1>1 DEF CalledSoFar
    <2>3. QED
      BY <1>2, <2>1, <2>2
  <1>11. QED
    BY <1>7, <1>8, <1>9, <1>10 DEF IInv

LEMMA NextInv == IInv /\ [Next]_vars => IInv'
  <1> SUFFICES ASSUME IInv, [Next]_vars
               PROVE  IInv'
    OBVIOUS
  <1>0. TypeOK'
    BY NextTypeOK DEF IInv
  <1>1. ASSUME NEW p \in Patterns, NEW hd \in Handlers, register_handler(p, hd)
        PROVE  IInv'
    BY <1>0, <1>1, RegisterInv
  <1>2. ASSUME NEW u \in Uris, NEW m \in Methods, Arrives(u, m)
        PROVE  IInv'
    BY <1>0, <1>2, ArrivesInv
  <1>3. ASSUME NEW k \in untried, Try(k)
        PROVE  IInv'
    BY <1>0, <1>3, TryInv
  <1>4. CASE NotFound
    BY <1>0, <1>4, EndsInv DEF NotFound, Caught
  <1>5. CASE Call
    BY <1>0, <1>5, CallInv
  <1>6. CASE NotAllowed
    <2>1. pc = "verb" /\ ~Called /\ Ends("405")
      BY <1>6 DEF NotAllowed
    <2>2. Len(calls) = 1
      BY <2>1, StageReached DEF Callbacks, Stages
    <2>3. QED
      BY <1>0, <2>1, <2>2, EndsInv DEF Caught
  <1>7. CASE Returns
    BY <1>0, <1>7, ReturnsInv
  <1>8. ASSUME NEW o \in {"HttpError", "ParseException", "exception"}, Raises(o)
        PROVE  IInv'
    BY <1>0, <1>8, EndsInv DEF Raises, Caught
  <1>9. CASE UNCHANGED vars
    BY <1>9, TableUnread
       DEF vars, request, IInv, TypeOK, TableIsNewest, SearchedSoFar, CalledSoFar, Matches,
           Entitled, Newest, CallOrder, NewestServes, NotFoundIsRight
  <1>10. QED
    BY <1>1, <1>2, <1>3, <1>4, <1>5, <1>6, <1>7, <1>8, <1>9 DEF Next, Route

LEMMA Invariance == Spec => []IInv
  BY InitInv, NextInv, PTL DEF Spec

\* One object sees each request through, its callbacks in order, whatever they
\* register meanwhile.
THEOREM CallsAreInOrder == Spec => []CallOrder
  <1>1. IInv => CallOrder
    BY DEF IInv
  <1>2. QED
    BY <1>1, Invariance, PTL

\* A request is served by the newest handler of a pattern that matches it,
\* whatever the patterns match and in whatever order the table is searched.
THEOREM NewestIsCalled == Spec => []NewestServes
  <1>1. IInv => NewestServes
    BY DEF IInv
  <1>2. QED
    BY <1>1, Invariance, PTL

\* The answer 404 means that no registered pattern matched.
THEOREM NotFoundMeansNone == Spec => []NotFoundIsRight
  <1>1. IInv => NotFoundIsRight
    BY DEF IInv
  <1>2. QED
    BY <1>1, Invariance, PTL
=============================================================================
