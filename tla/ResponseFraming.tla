---------------------------- MODULE ResponseFraming ----------------------------
(***************************************************************************)
(* HttpResponse::make_package and HttpError::make_package (src/src/        *)
(* response.cpp, except.cpp), and what a client makes of the responses of  *)
(* one connection, which it has to tell apart by their headers alone.      *)
(* Who answers what, and when, is HttpConnection's matter; here requests   *)
(* are answered one after the other and all output arrives.                *)
(***************************************************************************)
EXTENDS HeaderOrder, FiniteSets, TLC

CONSTANTS
    HeaderMaps,      \* what handlers put into response.headers
    Bodies,          \* and into response.body: sequences of bytes
    ErrorPage,       \* the body of an HttpError
    Decimal,         \* numbers as texts
    MaxResponses     \* bound: responses on the connection

ContentType == <<"Content-Type">>
ContentLength == <<"Content-Length">>

ASSUME FramingAssumption ==
    /\ \A b \in Bodies \cup {ErrorPage} :
         b = [i \in 1..Len(b) |-> b[i]] /\ Len(b) \in DOMAIN Decimal
    /\ 0 \in DOMAIN Decimal /\ DOMAIN Decimal \subseteq Nat
    /\ \A m, n \in DOMAIN Decimal : Decimal[m] = Decimal[n] => m = n
    \* what a std::map can hold
    /\ \A map \in HeaderMaps :
         /\ IsFiniteSet(DOMAIN map) /\ DOMAIN map \subseteq Text
         /\ \A k, l \in DOMAIN map : Equivalent(k, l) => k = l
    /\ ContentType \in Text /\ ContentLength \in Text
    /\ ~Equivalent(ContentType, ContentLength)
    /\ ErrorPage # <<>> /\ MaxResponses \in Nat

VARIABLES
    wire,            \* what the client has not read: lines, then bytes
    sent,            \* history: the responses
    reading,         \* client: at a "status", "header" or "body", until "close", or "lost"
    lengths, types,  \* client: Content-Length and Content-Type lines of this head
    body,            \* client: what it has of this body
    got              \* client: the bodies it has read

vars == <<wire, sent, reading, lengths, types, body, got>>

-----------------------------------------------------------------------------
StatusLine == [kind |-> "status"]
HeaderLine(n, v) == [kind |-> "header", name |-> n, value |-> v]
BlankLine == [kind |-> "blank"]
Byte(b) == [kind |-> "byte", value |-> b]
Bytes(b) == [i \in DOMAIN b |-> Byte(b[i])]

\* Mutant: looks for the spelling of the library only.
WithTypeExact(map) ==
    IF ContentType \in DOMAIN map THEN map ELSE (ContentType :> <<"text/plain">>) @@ map

WithType(map) == IF Has(map, ContentType) THEN map ELSE Put(map, ContentType, <<"text/plain">>)

\* Mutant: off by one.
LengthLineLong(b) == <<HeaderLine(ContentLength, Decimal[Len(b) + 1])>>

LengthLine(b) == <<HeaderLine(ContentLength, Decimal[Len(b)])>>

\* The keys in the order in which a std::map is iterated over.
InOrder(keys) ==
    CHOOSE s \in [1..Cardinality(keys) -> keys] :
        \A i, j \in DOMAIN s : i < j => s[i] # s[j] /\ ~ci_less(s[j], s[i])

\* HttpResponse::make_package
Package(map, b) ==
    LET keys == InOrder(DOMAIN WithType(map))
    IN  <<StatusLine>>
        \o [i \in DOMAIN keys |-> HeaderLine(keys[i], WithType(map)[keys[i]])]
        \o (IF b # <<>> THEN LengthLine(b) ELSE <<>>)
        \o <<BlankLine>> \o Bytes(b)

\* HttpError::make_package
ErrorPackage ==
    <<StatusLine>> \o LengthLine(ErrorPage)
    \o <<HeaderLine(ContentType, <<"text/html">>), BlankLine>> \o Bytes(ErrorPage)

\* A request with method m is answered with what its handler left, or with an
\* error; last when the connection is closed with it.
Send(m, package, map, b, last) ==
    /\ Len(sent) < MaxResponses
    /\ \A i \in DOMAIN sent : ~sent[i].last
    /\ wire' = wire \o package
    /\ sent' = Append(sent, [method |-> m, headers |-> map, body |-> b, last |-> last])
    /\ UNCHANGED <<reading, lengths, types, body, got>>

Respond(m, map, b, last) == Send(m, Package(map, b), map, b, last)

Refuse(m, last) ==
    Send(m, ErrorPackage, Put(<<>>, ContentLength, Decimal[Len(ErrorPage)]), ErrorPage, last)

-----------------------------------------------------------------------------
(* A client that reads responses as HTTP/1.1 says. *)

Reads(kind) == wire # <<>> /\ Head(wire).kind = kind /\ wire' = Tail(wire)

ReadStatus ==
    /\ reading = "status" /\ Reads("status")
    /\ reading' = "header" /\ lengths' = {} /\ types' = 0
    /\ UNCHANGED <<sent, body, got>>

ReadHeader ==
    /\ reading = "header" /\ Reads("header")
    /\ LET name == Head(wire).name
       IN  /\ lengths' = IF Equivalent(name, ContentLength)
                          THEN lengths \cup {Head(wire).value} ELSE lengths
           /\ types' = IF Equivalent(name, ContentType) THEN types + 1 ELSE types
    /\ UNCHANGED <<sent, reading, body, got>>

Length == CHOOSE n \in DOMAIN Decimal : Decimal[n] \in lengths

BodyDone(b) == got' = Append(got, b) /\ body' = <<>> /\ reading' = "status"

\* The head says how the body ends.
ReadBlank ==
    /\ reading = "header" /\ Reads("blank")
    /\ IF sent[Len(got) + 1].method = "HEAD" \/ lengths = {Decimal[0]}
       THEN BodyDone(<<>>)
       ELSE /\ reading' = IF lengths = {} THEN "close"
                          ELSE IF Cardinality(lengths) = 1 THEN "body" ELSE "lost"
            /\ UNCHANGED <<body, got>>
    /\ UNCHANGED <<sent, lengths, types>>

\* Whatever comes is the body while it lasts.
ReadBody ==
    /\ reading \in {"body", "close"} /\ wire # <<>> /\ wire' = Tail(wire)
    /\ IF reading = "body" /\ Len(body) + 1 = Length
       THEN BodyDone(Append(body, Head(wire)))
       ELSE body' = Append(body, Head(wire)) /\ UNCHANGED <<reading, got>>
    /\ UNCHANGED <<sent, lengths, types>>

ReadClose ==
    /\ reading = "close" /\ wire = <<>> /\ sent[Len(sent)].last
    /\ BodyDone(body)
    /\ UNCHANGED <<wire, sent, lengths, types>>

\* What is there is not the beginning of a response.
ReadLost ==
    /\ reading = "status" /\ wire # <<>> /\ Head(wire).kind # "status"
    /\ reading' = "lost"
    /\ UNCHANGED <<wire, sent, lengths, types, body, got>>

-----------------------------------------------------------------------------
Init ==
    /\ wire = <<>> /\ sent = <<>> /\ reading = "status"
    /\ lengths = {} /\ types = 0 /\ body = <<>> /\ got = <<>>

Next ==
    \/ \E m \in {"GET", "HEAD"}, last \in BOOLEAN :
         \/ \E map \in HeaderMaps, b \in Bodies : Respond(m, map, b, last)
         \/ Refuse(m, last)
    \/ ReadStatus \/ ReadHeader \/ ReadBlank \/ ReadBody \/ ReadClose \/ ReadLost

Spec == Init /\ [][Next]_vars

-----------------------------------------------------------------------------
\* What a handler has to do for its response to have an end.  The library adds
\* no length to a response without a body, and sends a body after a HEAD if
\* there is one: the page of an HttpError always is.
Delimited(r) ==
    LET own == {r.headers[k] : k \in {k \in DOMAIN r.headers : Equivalent(k, ContentLength)}}
    IN  /\ own \subseteq {Decimal[Len(r.body)]}
        /\ IF r.method = "HEAD" THEN r.body = <<>>
           ELSE r.body # <<>> \/ own # {} \/ r.last

DelimitedUpTo(n) == \A i \in 1..n : Delimited(sent[i])

\* As long as the responses are delimited the client takes each for what it is,
\* however many are on their way, never loses its way, and does not wait for more
\* when it has read all.
InStep ==
    /\ \A i \in DOMAIN got :
         DelimitedUpTo(i) =>
             got[i] = IF sent[i].method = "HEAD" THEN <<>> ELSE Bytes(sent[i].body)
    /\ DelimitedUpTo(Len(sent)) =>
         /\ reading # "lost"
         /\ wire = <<>> => reading = "close" \/ (reading = "status" /\ Len(got) = Len(sent))

\* A head has one Content-Type, whether the handler set it or not and however it
\* spelled the name.
OneContentType ==
    /\ types <= 1
    /\ reading \in {"body", "close"} => types = 1
===============================================================================
