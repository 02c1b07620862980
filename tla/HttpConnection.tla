---------------------------- MODULE HttpConnection ----------------------------
(***************************************************************************)
(* One HttpConnection (src/src/connection.cpp) and the IOStream it owns:   *)
(* the header / body / write handlers are the client code of the stream,   *)
(* and the stream's close callback destroys both objects.                  *)
(*                                                                         *)
(* A unit of input that completes a header block is the request it carries,*)
(* so Ends is the set of requests:                                         *)
(*   ok   : parse_headers accepts the block (it throws ParseException else)*)
(*   len  : strtol of its Content-Length, 0 when there is none             *)
(*   conn : the value stored under "Connection", NoValue if there is none  *)
(***************************************************************************)
EXTENDS IOStream, FiniteSets

CONSTANTS
    Replies,  \* what a user handler may do, see below
    RespLen   \* units of every response package (never empty)

Requests == Ends

\* A user handler returns, with response.close set or not, or throws an HttpError,
\* an HttpRequest::ParseException, or something else.
Outcomes == {"ok", "close", "error", "parse", "throw"}

\* The write calls pass either __stream_handler_on_write or nothing.
ReadHandlers == {"header", "body"}

ASSUME ConnectionAssumption ==
    /\ Handlers = ReadHandlers \cup {"on_write"}
    /\ Replies \subseteq Outcomes
    /\ RespLen \in 1..MaxWrite
    /\ \A r \in Requests : r.ok \in BOOLEAN /\ r.len \in Lengths
    \* the bound of the stream leaves room for every response
    /\ RespLen * MaxInput <= MaxOutput

VARIABLES
    cclosed,     \* HttpConnection::_closed
    closeAfter,  \* _close_after_finished
    closeCb,     \* the accept handler has set the connection's close callback
    request,     \* the last request whose header was parsed
    parsed,      \* history: headers parsed
    answered,    \* history: response packages given to write_bytes
    dropped,     \* history: requests given up by a ParseException of the handler
    lastReply    \* history: what the handler did with the last request

connVars == <<cclosed, closeAfter, closeCb, request, parsed, answered, dropped,
              lastReply>>
vars == <<streamVars, connVars>>

\* What headers["Connection"] gives for a request without the header.
NoValue == ""

NoRequest == [ok |-> FALSE, len |-> 0, conn |-> NoValue]

-----------------------------------------------------------------------------
\* Header values in the order of lexicographical_compare with ci_compare.
\* getline leaves the CR of the line in the value.
Collation == <<NoValue, "close", "close_CR", "keep_alive_CR">>

\* Mutant: the values of the header and of the text are swapped.
ci_equalSwapped(s, t) == \E i, j \in DOMAIN Collation :
                             i > j /\ Collation[i] = s /\ Collation[j] = t

\* ci_equal is lexicographical_compare, that is "less than".
ci_equal(s, t) == \E i, j \in DOMAIN Collation :
                      i < j /\ Collation[i] = s /\ Collation[j] = t

\* Mutant: every closed connection deletes itself.
DeletesAlways == TRUE

MarkClosed == cclosed' = TRUE
Deletes == closeCb

\* Closing the stream runs its close callback, HttpConnection::close; closing
\* the connection closes the stream.  Either way both are closed, and both are
\* destroyed if the accept handler's callback ("delete conn") is in place.
ConnectionClosed ==
    /\ MarkClosed /\ alive' = ~Deletes
    /\ UNCHANGED <<closeAfter, closeCb, request, parsed, answered, dropped, lastReply>>

\* Mutant: the read is armed without looking at what is already there.
AwaitHeaderArmsOnly == /\ readUntil' = TRUE /\ readHandler' = "header"
                       /\ Return /\ UNCHANGED <<readNum, frame, callVars>>

AwaitHeader == read_until("header") /\ UNCHANGED <<readNum, callVars>>

\* Mutants: nobody reads on; reading goes on after the last request.
ReadsOnNever(closing) == FALSE
ReadsOnAlways(closing) == TRUE

ReadsOn(closing) == ~closing

\* How both handlers end: read on unless the connection is finishing.
NextRequest(closing) ==
    IF ReadsOn(closing)
    THEN AwaitHeader
    ELSE Return /\ UNCHANGED <<readNum, readUntil, readHandler, frame, callVars>>

\* Mutant: an HttpError is logged and not sent.
PackageNotErrors(reply) == IF reply = "error" THEN 0 ELSE RespLen

Package(reply) == RespLen
OnWrite(reply) == IF reply = "error" THEN NoHandler ELSE "on_write"

\* A response, or the package of an HttpError, which has no write handler.
respond(reply) ==
    /\ write_bytes(Package(reply), OnWrite(reply))
    /\ answered' = answered + (IF Package(reply) = 0 THEN 0 ELSE 1)
    /\ UNCHANGED dropped

ClientFrame == UNCHANGED <<inq, peer, room, rdbuf, nwire, objectVars, base,
                           evt, got, input, consumed>>

\* HttpConnection::HttpConnection after its stream is built.
ConnConstruct ==
    /\ pc = "client" /\ callee = "constructor"
    /\ AwaitHeader
    /\ ClientFrame
    /\ UNCHANGED <<errno, ready, nospace, wrbuf, nwritten, writeHandler, connVars>>

\* The accept handler sets the close callback of the connection it has built.
ConnOpened == Opened /\ closeCb' = TRUE
              /\ UNCHANGED <<cclosed, closeAfter, request, parsed, answered, dropped,
                             lastReply>>

\* __stream_handler_get_header.  The argument ends with the request's unit; strtol
\* may set errno.
get_header ==
    /\ pc = "client" /\ callee = "header"
    /\ LET r == data[Len(data)]
       IN  IF r.ok
           THEN /\ request' = r /\ parsed' = parsed + 1
                /\ read_bytes(r.len, "body") /\ UNCHANGED readUntil
           ELSE NextRequest(closeAfter) /\ UNCHANGED <<request, parsed>>
    /\ errno' \in {errno, "other"}
    /\ ClientFrame
    /\ UNCHANGED <<ready, nospace, wrbuf, nwritten, writeHandler, cclosed, closeAfter,
                   closeCb, answered, dropped, lastReply>>

\* __stream_handler_get_body, up to the catch clauses.  The user handler runs
\* arbitrary code, so errno is arbitrary afterwards.
handler_ran(reply) ==
    /\ pc = "client" /\ callee = "body" /\ reply \in Replies
    /\ lastReply' = reply
    /\ errno' \in {"EAGAIN", "other"}
    /\ ClientFrame
    /\ UNCHANGED <<cclosed, closeCb, request, parsed>>

\* A response, or an HttpError, after which Connection is not looked at.
get_body(reply) ==
    /\ reply \in {"ok", "close", "error"} /\ handler_ran(reply)
    /\ LET closing == \/ closeAfter
                      \/ reply # "error" /\ ci_equal(request.conn, "close")
                      \/ reply = "close"
       IN  closeAfter' = closing /\ NextRequest(closing)
    /\ respond(reply)

\* A ParseException is logged: nothing is written, and the connection reads on.
get_body_drops ==
    /\ handler_ran("parse")
    /\ dropped' = dropped + 1
    /\ NextRequest(closeAfter)
    /\ UNCHANGED <<ready, nospace, wrbuf, nwritten, writeHandler, closeAfter, answered>>

\* Anything else leaves a noexcept function: std::terminate.
get_body_throws ==
    /\ callee = "body" /\ "throw" \in Replies
    /\ ClientThrows /\ UNCHANGED connVars

\* __stream_handler_on_write.
on_write_returns ==
    /\ pc = "client" /\ callee = "on_write" /\ ~closeAfter
    /\ Return
    /\ ClientFrame
    /\ UNCHANGED <<readNum, readUntil, readHandler, frame, callVars, errno, ready,
                   nospace, wrbuf, nwritten, writeHandler, connVars>>

on_write_closes ==
    /\ callee = "on_write" /\ closeAfter
    /\ ClientCloses /\ ConnectionClosed

-----------------------------------------------------------------------------
Init ==
    /\ StreamInit
    /\ cclosed = FALSE /\ closeAfter = FALSE /\ closeCb = FALSE
    /\ request = NoRequest /\ lastReply = "none"
    /\ parsed = 0 /\ answered = 0 /\ dropped = 0

\* The server's thread.
Thread ==
    \/ (Construct \/ StreamStep) /\ UNCHANGED connVars
    \/ StreamCloseStep /\ ConnectionClosed
    \/ ConnConstruct \/ ConnOpened
    \/ get_header
    \/ \E reply \in Replies : get_body(reply)
    \/ get_body_drops \/ get_body_throws
    \/ on_write_returns \/ on_write_closes

Environment == Peer /\ UNCHANGED connVars

Next == Thread \/ Environment

\* The thread never stops: epoll_wait returns every descriptor on the ready
\* list in turn, and no callback blocks.  The peer acknowledges what it is sent.
Fairness == /\ WF_vars(Thread)
            /\ WF_vars(ClientDrain /\ UNCHANGED connVars)

Spec == Init /\ [][Next]_vars
FairSpec == Spec /\ Fairness

-----------------------------------------------------------------------------
(* A client that sends one request at a time, header and body in full, and  *)
(* the next one only when it has received the whole response.               *)

Asked == {i \in DOMAIN input : input[i] \in Requests}

\* Units of the last request's body that the client has still to send.
BodyLeft == IF Asked = {} THEN 0
            ELSE LET last == CHOOSE i \in Asked : \A j \in Asked : j <= i
                 IN  input[last].len - (Len(input) - last)

AllReceived == nwire = RespLen * Cardinality(Asked) /\ room = SendRoom

PoliteSend ==
    \E u \in Units : /\ ClientSend(u)
                    /\ IF BodyLeft > 0 THEN u \notin Requests
                                       ELSE u \in Requests /\ AllReceived

PoliteNext ==
    \/ Thread
    \/ (PoliteSend \/ ClientFin \/ ClientReset \/ ClientDrain) /\ UNCHANGED connVars

PoliteSpec == Init /\ [][PoliteNext]_vars /\ Fairness

-----------------------------------------------------------------------------
TypeOK ==
    /\ StreamTypeOK
    /\ cclosed \in BOOLEAN /\ closeAfter \in BOOLEAN /\ closeCb \in BOOLEAN
    /\ request \in Requests \cup {NoRequest}
    /\ parsed \in Nat /\ answered \in Nat /\ dropped \in Nat
    /\ lastReply \in Outcomes \cup {"none"}

\* The two _closed flags count as one only while they agree.
Phase == IF pc = "accepted" THEN "none"
         ELSE IF ~alive THEN "destroyed"
         ELSE IF sclosed /\ cclosed THEN "leaked"
         ELSE IF ~sclosed /\ ~cclosed /\ closeCb THEN "open" ELSE "constructing"

Life == INSTANCE Lifecycle WITH phase <- Phase

\* A connection lives as the accept handler expects: whatever closes it, it is
\* destroyed at once and once, and the mutual recursion of IOStream::close and
\* HttpConnection::close ends with both closed; except that one which closes
\* itself inside its own constructor is kept for ever.
LifecycleSpec == Life!Spec

Exchange == INSTANCE RequestReply WITH finishing <- closeAfter, open <- ~sclosed

\* Requests and responses alternate whatever the pieces they come in: a header is
\* parsed only when every earlier request has its response or was given up by its
\* handler's ParseException, never on a closed connection or after the response
\* that announced the end; and giving up a request never announces it.
RequestReplySpec == Exchange!Spec

\* An open, idle connection has settled every request it parsed exactly once, except
\* the one whose body it reads, whether they came alone, pipelined or in pieces:
\* by a response, by the package of an HttpError, or, for a ParseException of the
\* handler, with nothing at all.  And unless it is finishing it has an outstanding
\* read that some input can satisfy.  The one exception is a Content-Length whose
\* int conversion is negative: __read_from_buffer then never succeeds and the
\* connection is parked until its peer goes away.
AlwaysListening ==
    pc = "wait" /\ ~sclosed =>
        /\ parsed = answered + dropped + (IF readHandler = "body" THEN 1 ELSE 0)
        /\ \/ closeAfter
           \/ readHandler = "header" /\ Searching
           \/ readHandler = "body" /\ (readNum >= 0 \/ AsInt(request.len) < 0)

\* The server hangs up on a peer that is still there only after the last request it
\* parsed was settled, and for one of two reasons that this request gives: its user
\* handler set response.close, or its Connection value is empty, the only one that
\* ci_equal takes for "close".  Not having the header at all is that reason too, and
\* "Connection: close" is none.  A would-block result, a malformed header, an
\* HttpError, a ParseException or an earlier request never is.
HangsUpForAReason ==
    sclosed /\ peer = "open" =>
        /\ parsed = answered + dropped
        /\ lastReply = "close" \/ (lastReply = "ok" /\ request.conn = NoValue)

\* __handler_poll goes on using the stream after a handler destroyed it only if
\* the peer closed or reset the connection: with a live peer the event carries
\* no error bit and the last part of __handler_poll touches nothing.
LivePeerNeverFreed == pc = "freed" => peer # "open"

\* A connection that is to be closed after its response, or whose peer has closed
\* or reset it, does get closed, whatever was buffered, parked or half sent: the
\* write handler or the error bits of the event see to it.
ConnectionEnds == closeAfter \/ peer # "open" ~> sclosed \/ pc \in Dead

\* test_client.cpp sends REQ_NUM = 100 requests, none with a Connection header,
\* over one connection and counts on an answer to each.
KeepsServing == sclosed => peer # "open"

\* socket.cpp: a recv of 0 bytes raises SocketError(EREMOTEIO, "remote client
\* closed"), which __read_to_buffer does not take for would-block: the stream
\* is closed by the read that saw the end of input.
EofClosesStream ==
    [][pc = "recv" /\ inq = <<>> /\ peer = "fin" /\ pc' # "recv" => sclosed']_vars

\* A client that takes turns has each of its requests parsed as one, with exactly
\* its own body: __read_from_buffer hands over all that is buffered as the body,
\* which takes later requests with it unless the client waited.
NoRequestSwallowed ==
    /\ parsed <= Cardinality({i \in Asked : i <= consumed})
    /\ pc = "client" /\ callee \in ReadHandlers =>
         Cardinality({i \in Asked : i <= consumed})
            = parsed + (IF callee = "header" THEN 1 ELSE 0)
    /\ pc = "client" /\ callee = "body" => Len(data) = request.len

\* For a client that takes turns, the read that ends a handler never finds the
\* next header: no header handler runs inside another, and the C++ stack does not
\* grow with the number of requests (it does for a client that pipelines).
NoNestedRequest == pc = "search" /\ frame = "loop" /\ parsed > 0 => ~UntilReady

\* When the send buffer has room for a response, no response to a client that
\* takes turns is cut short, not even the last one before a close.
AnswerComplete == sclosed /\ peer = "open" => nwire = RespLen * answered

\* Requests that get no response: malformed ones, which are logged and read over,
\* and those whose handler threw a ParseException.
Unanswered == dropped > 0 \/ \E i \in Asked : ~input[i].ok

\* A client that takes turns and stays gets a response to every request, except to
\* one that is malformed or given up, for whose response it waits in vain, or that it
\* sends while the connection is being closed after the one before.
PoliteServed ==
    Asked # {} /\ BodyLeft = 0
        ~> \/ nwire = RespLen * Cardinality(Asked) \/ Unanswered
           \/ sclosed \/ peer # "open" \/ pc \in Dead
===============================================================================
