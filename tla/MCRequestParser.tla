---------------------------- MODULE MCRequestParser ----------------------------
(* RequestParser on the request lines, headers and query strings up to a length. *)
EXTENDS RequestParser, SequencesExt

\* One word is there in two spellings, and is greater than the others.
Words1 == {"GET", "/", "HTTP/1.1", "Connection", "Content-Length",
           "application/octet-stream"}
Separators == {" ", ":", "?", "=", "&", "CR"}
MCChars == Words1 \cup Separators \cup {"Content-Type", "content-type", "http/1.1"}

\* Codes in lower case: the two spellings of Content-Type have the same.
Order == <<" ", ":", "?", "=", "&", "CR", "/", "Connection", "Content-Length",
           "Content-Type", "GET", "HTTP/1.1", "application/octet-stream">>
Code(c) == CHOOSE i \in DOMAIN Order : Order[i] = c
MCtolower == [c \in MCChars |-> CASE c = "content-type" -> Code("Content-Type")
                                  [] c = "http/1.1" -> Code("HTTP/1.1")
                                  [] OTHER -> Code(c)]
MCtoupper == [c \in MCChars |-> IF c = "http/1.1" THEN "HTTP/1.1" ELSE c]

Line(target) == <<"GET", " ">> \o target \o <<" ", "http/1.1", "CR">>

\* Any request line, any two header lines, any query string.
AnyLine   == {<<l, <<"CR">>>> : l \in BoundedSeq({"GET", " ", "?", "CR"}, 6)}
HeaderSeq == BoundedSeq({"content-type", "/", ":", " "}, 4)
AnyHeaders == {<<Line(<<"/">>), l, <<"Content-Type", ":", " ", "GET", "CR">>, m>> :
                  l \in HeaderSeq, m \in {<<"CR">>, <<"Connection", ":", "/", "CR">>}}
AnyQuery  == {<<Line(<<"/", "?">> \o q)>> : q \in BoundedSeq({"/", "GET", "=", "&", "?"}, 6)}
\* Requests that differ in what they leave behind in the object.
ReuseBlocks == {
    <<Line(<<"/">>), <<"CR">>>>,
    <<Line(<<"/", "?", "GET", "=", "/">>), <<"Connection", ":", " ", "GET", "CR">>>>,
    <<Line(<<"/", "?", "/", "=", "/", "&", "/", "=", "GET">>), <<"content-type", ":", "/">>,
      <<"Content-Type", ":", "GET">>, <<"CR">>>>,
    <<Line(<<"?", "/", "=", "GET">>), <<"GET", ":">>, <<"Content-Length", ":", "/">>>>,
    <<<<"GET", " ", "/", "CR">>>>,
    <<<<"CR">>, <<"content-type", ":", "GET">>>> }

AllBlocks == AnyLine \cup AnyHeaders \cup AnyQuery \cup ReuseBlocks
===============================================================================
