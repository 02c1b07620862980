----------------------------- MODULE RequestParser -----------------------------
(***************************************************************************)
(* HttpRequest::parse_headers (src/src/request.cpp) and the accesses of    *)
(* connection.cpp to the request.  Every connection has one HttpRequest,   *)
(* which is parsed into again for each of its requests.                    *)
(*                                                                         *)
(* A string is a sequence of pieces: separators, the CR that getline       *)
(* leaves, and words, whose characters strtok does not tell apart.  A      *)
(* header block is the sequence of its lines.                              *)
(***************************************************************************)
EXTENDS HeaderOrder, FiniteSets

CONSTANTS
    Blocks,       \* header blocks that arrive
    LaterBlocks,  \* bound: those that arrive after the first request
    toupper,      \* the pieces in upper case
    MaxRequests   \* bound: blocks that arrive on the connection

ASSUME ParserAssumption ==
    /\ \A b \in Blocks : b # <<>> /\ b \in Seq(Seq(Chars))
    /\ LaterBlocks \subseteq Blocks
    /\ toupper \in [Chars -> Chars]
    /\ MaxRequests \in Nat
    /\ {"GET", "/", "HTTP/1.1", "Content-Type", "Content-Length", "Connection",
        "application/octet-stream"} \subseteq Chars

VARIABLES
    pc, block, line,  \* where parse_headers is, its argument, the line it is at
    pos,              \* strtok's pointer into the query string
    method, uri, version, headers, params,
    count             \* history: blocks parsed

fieldVars == <<method, uri, version, headers, params>>
vars == <<pc, block, line, pos, fieldVars, count>>

Empty == [k \in {} |-> <<>>]

-----------------------------------------------------------------------------
(* strtok *)

Least(S) == CHOOSE n \in S : \A m \in S : n <= m

Start(s, p, delims) == Least({i \in p..Len(s) : s[i] \notin delims} \cup {Len(s) + 1})

\* The token found from position p on, and where the next call goes on.
strtok(s, p, delims) ==
    LET b == Start(s, p, delims)
        e == Least({i \in b..Len(s) : s[i] \in delims} \cup {Len(s) + 1})
    IN  [found |-> b <= Len(s), token |-> SubSeq(s, b, e - 1), next |-> e + 1]

-----------------------------------------------------------------------------
Arrives(b) ==
    /\ pc' = "request line" /\ block' = b /\ count' = count + 1
    /\ UNCHANGED <<line, pos, fieldVars>>

\* Each token is stored before the next is looked for; the headers are cleared
\* only when all three are there.
RequestLine ==
    /\ pc = "request line"
    /\ LET m == strtok(block[1], 1, {" "})
           u == strtok(block[1], m.next, {" "})
           v == strtok(block[1], u.next, {" "})
       IN  /\ method' = IF m.found THEN m.token ELSE method
           /\ uri' = IF u.found THEN u.token ELSE uri
           /\ version' = IF v.found THEN [i \in DOMAIN v.token |-> toupper[v.token[i]]]
                                    ELSE version
           /\ headers' = IF v.found THEN Empty ELSE headers
           /\ pc' = IF v.found THEN "headers" ELSE "malformed"
    /\ line' = 2
    /\ UNCHANGED <<block, pos, params, count>>

Name(l)  == strtok(l, 1, {":", " "})
Value(l) == strtok(l, Name(l).next, {":", " "})

\* The line has both; the first one that has not ends the headers.
IsHeader(n) == n <= Len(block) /\ Name(block[n]).found /\ Value(block[n]).found

HeaderLine ==
    /\ pc = "headers" /\ IsHeader(line)
    /\ headers' = Put(headers, Name(block[line]).token, Value(block[line]).token)
    /\ line' = line + 1
    /\ UNCHANGED <<pc, block, pos, method, uri, version, params, count>>

Question == {i \in DOMAIN uri : uri[i] = "?"}

\* Mutant: the parameters are cleared only for a new query string.
ParamsClearedLate == IF Question = {} THEN params ELSE Empty

ParamsCleared == Empty

HeadersEnd ==
    /\ pc = "headers" /\ ~IsHeader(line)
    /\ headers' = IF Has(headers, <<"Content-Type">>) THEN headers
                  ELSE Put(headers, <<"Content-Type">>, <<"application/octet-stream">>)
    /\ params' = ParamsCleared
    /\ IF Question = {} THEN pc' = "parsed" /\ UNCHANGED pos
                        ELSE pc' = "query" /\ pos' = Least(Question) + 1
    /\ UNCHANGED <<block, line, method, uri, version, count>>

Key == strtok(uri, pos, {"="})

Val == strtok(uri, Key.next, {"&"})

\* params[key] = value, a plain std::map.
QueryPair ==
    /\ pc = "query" /\ Key.found
    /\ params' = [k \in DOMAIN params \cup {Key.token} |->
                     IF k # Key.token THEN params[k]
                     ELSE IF Val.found THEN Val.token ELSE <<>>]
    /\ pos' = Val.next
    /\ UNCHANGED <<pc, block, line, method, uri, version, headers, count>>

\* Mutant: erases from behind the question mark.
PathAndMark == SubSeq(uri, 1, Least(Question))

Path == SubSeq(uri, 1, Least(Question) - 1)

QueryEnd ==
    /\ pc = "query" /\ ~Key.found
    /\ uri' = Path
    /\ pc' = "parsed"
    /\ UNCHANGED <<block, line, pos, method, version, headers, params, count>>

\* __stream_handler_get_header goes on, or reads the next header.
GetHeader ==
    /\ pc = "parsed"
    /\ headers' = Touch(headers, <<"Content-Length">>)
    /\ pc' = "serving"
    /\ UNCHANGED <<block, line, pos, method, uri, version, params, count>>

Refused ==
    /\ pc = "malformed" /\ pc' = "idle"
    /\ UNCHANGED <<block, line, pos, fieldVars, count>>

\* __stream_handler_get_body: the user handler has run, or has raised an error.
GetBody ==
    /\ pc = "serving" /\ pc' = "idle"
    /\ headers' \in {headers, Touch(headers, <<"Connection">>)}
    /\ UNCHANGED <<block, line, pos, method, uri, version, params, count>>

Init ==
    /\ pc = "idle" /\ block = <<>> /\ line = 1 /\ pos = 1 /\ count = 0
    /\ method = <<"GET">> /\ uri = <<"/">> /\ version = <<"HTTP/1.1">>
    /\ headers = Empty /\ params = Empty

Parse == RequestLine \/ HeaderLine \/ HeadersEnd \/ QueryPair \/ QueryEnd

Next ==
    \/ /\ pc = "idle" /\ count < MaxRequests
       /\ \/ count = 0 /\ \E b \in Blocks : Arrives(b)
          \/ count > 0 /\ \E b \in LaterBlocks : Arrives(b)
    \/ Parse \/ GetHeader \/ Refused \/ GetBody

Spec == Init /\ [][Next]_vars

-----------------------------------------------------------------------------
(* What the parser should compute, without strtok: the words of a string    *)
(* are its longest runs of pieces that are no separators.                   *)

WordStarts(s, seps) ==
    {i \in DOMAIN s : s[i] \notin seps /\ (i = 1 \/ s[i - 1] \in seps)}

Words(s, seps) == Cardinality(WordStarts(s, seps))

\* The n-th word of s.
Word(s, seps, n) ==
    LET b == CHOOSE i \in WordStarts(s, seps) :
                 Cardinality({j \in WordStarts(s, seps) : j <= i}) = n
        run == {e \in b..Len(s) : \A i \in b..e : s[i] \notin seps}
    IN  SubSeq(s, b, b + Cardinality(run) - 1)

\* Header lines before the first one without name or value.
HeaderLines ==
    {n \in 2..Len(block) : \A m \in 2..n : Words(block[m], {":", " "}) >= 2}

NameOf(n)  == Word(block[n], {":", " "}, 1)
ValueOf(n) == Word(block[n], {":", " "}, 2)

Target == Word(block[1], {" "}, 2)

\* A query string of the form k=v&k=v..., no key or value empty.
WellFormed(q) ==
    LET seps == {i \in DOMAIN q : q[i] \in {"=", "&"}}
        rank(i) == Cardinality({j \in seps : j <= i})
    IN  /\ Words(q, {"=", "&"}) = Cardinality(seps) + 1
        /\ \A i \in seps : q[i] = IF rank(i) % 2 = 1 THEN "=" ELSE "&"
        /\ Cardinality(seps) % 2 = 1

-----------------------------------------------------------------------------
TypeOK ==
    /\ pc \in {"idle", "request line", "headers", "query", "parsed", "malformed", "serving"}
    /\ block \in Seq(Text) /\ line \in Nat /\ pos \in Nat
    /\ method \in Text /\ uri \in Text /\ version \in Text
    /\ pc \in {"parsed", "serving"} => uri \in Seq(Chars \ {"?"})
    /\ DOMAIN headers \subseteq Text /\ \A k \in DOMAIN headers : headers[k] \in Text
    /\ DOMAIN params \subseteq Text /\ \A k \in DOMAIN params : params[k] \in Text
    /\ count \in 0..MaxRequests

\* The request line is read as its first three words, and refused if it has not
\* as many; the path is what precedes the first question mark of the second, and
\* what follows it, if it is a well-formed query string, is decoded into its
\* pairs.  A request without one has no parameters, whatever came before it.
LineRead ==
    /\ pc = "malformed" => Words(block[1], {" "}) < 3
    /\ pc = "parsed" =>
         LET q == SubSeq(Target, Len(uri) + 2, Len(Target))
             pairs == {n \in 1..Words(q, {"=", "&"}) : n % 2 = 1}
             key(n) == Word(q, {"=", "&"}, n)
         IN  /\ Words(block[1], {" "}) >= 3
             /\ method = Word(block[1], {" "}, 1)
             /\ Question = {} /\ uri = SubSeq(Target, 1, Len(uri))
             /\ uri # Target => Target[Len(uri) + 1] = "?"
             /\ q = <<>> => params = Empty
             /\ WellFormed(q) =>
                  /\ DOMAIN params = {key(n) : n \in pairs}
                  /\ \A n \in pairs : (\A m \in pairs : m > n => key(m) # key(n))
                                         => params[key(n)] = Word(q, {"=", "&"}, n + 1)

\* A handler sees the headers of its own request and no other: each well-formed
\* line before the first ill-formed one, in one entry whatever the case of its
\* name, with the last value of a name that comes twice, and the default
\* Content-Type.
HeadersRead ==
    pc = "parsed" =>
        /\ \A n \in HeaderLines :
             (\A m \in HeaderLines : m > n => ~Equivalent(NameOf(m), NameOf(n)))
                => LET found == {k \in DOMAIN headers : Equivalent(k, NameOf(n))}
                   IN  \E k \in found : found = {k} /\ headers[k] = ValueOf(n)
        /\ \A k \in DOMAIN headers :
             \/ \E n \in HeaderLines : k = NameOf(n)
             \/ k = <<"Content-Type">>
===============================================================================
