# A formal model of HTTPSrv

TLA+ models, model-checking configurations and machine-checked proofs for the
C++11 HTTP server library in `src/src/` (paths below are relative to the
repository's parent directory, as in `PROJECT.json`).

The library is small and single-threaded, yet hard to test: it is driven by
edge-triggered epoll, its objects close and delete each other through
callbacks, the kernel and the peers act between any two of its system calls,
and descriptor numbers are reused while events for them may be under way.

## Inventory

| Component | State | Operations | Interacts with |
|---|---|---|---|
| `EPollIOLoop` (`ioloop.cpp`) | handler table, epoll set, events array (1024), wake pipe | `add/update/remove_handler`, `start`, `stop` | calls handlers; handlers call back into it |
| `SocketClient`, `TcpServer` (`socket.cpp`) | a descriptor | `send`, `recv`, `accept`, `shutdown`, `close`; failures become `SocketError(errno)` | kernel; the thread's `errno` |
| `IOStream` (`stream.cpp`) | `_rdbuf`, `_wrbuf`, outstanding read (`_read_num` or `_read_until`), read and write handler, `_closed` | `read_bytes`, `read_until`, `write_bytes`, `close`, `__handler_poll` | registered with the loop; calls its client's handlers, which call it again |
| `HttpConnection` (`connection.cpp`) | `_closed`, `_close_after_finished`, the current request | header, body and write handler; `close` | client of one stream; calls the user handler; close callbacks in both directions |
| `HttpServer` (`server.cpp`) | listening socket, handler per URL pattern | constructor, accept handler, `register_handler`, request dispatch | creates connections and deletes them through their close callback |
| `HttpRequest` (`request.cpp`) | method, URI, headers, parameters | `parse_headers`, `parse_body` | called by the connection |
| `HttpResponse`, `HttpError` | status, headers, body | `make_package` | called by the connection |
| `HttpHandler` (`handler.cpp`) | none | one method per HTTP verb, 405 by default | user code |

What makes each of them correct, and hard to get right:

* **Loop.** Table and epoll set agree; no edge is lost, also when the array is
  too small; an event reaches whoever was registered when it was raised;
  `stop()` works under load. Handlers change the table while one of its entries
  is executing.
* **Stream.** Bytes are neither lost, duplicated nor reordered; the thread never
  sleeps on input, output or a satisfiable read that no edge will announce
  (edge-triggered lost wake-ups); a handler may close, and delete, the stream
  under the feet of the code that called it.
* **Connection.** Every parsed request is settled once, by a response, by the package
  of an `HttpError`, or, if its handler raises a `ParseException`, with nothing at all; a
  connection goes on listening unless it is finishing; it is closed when the peer
  goes, or for a reason that its last request gave, not otherwise; stream and connection
  are closed together, and destroyed.
* **Server.** Live connections own their descriptors and handlers exclusively; a
  running server listens; no client waits for ever.
* **Search, parser, router, framing.** Pure algorithms, right for every input.

The full list, each hazard at its line, is under `hazards` in `PROJECT.json`.

## Modules

```
Lifecycle        abstract: the life of a connection
IOLoop           EPollIOLoop under an arbitrary client
  HttpServer     + the accept handler, connections, descriptor numbers
IOStream         one IOStream and its socket under an arbitrary client
  HttpConnection + the handlers of connection.cpp as that client
RequestReply     abstract: requests and responses of a connection
SundaySearch     the search in IOStream::__read_from_buffer
HeaderOrder      the comparison and the map behind all headers
  RequestParser    + HttpRequest::parse_headers
  ResponseFraming  + make_package of responses and errors
Router           register_handler and the dispatch to an HttpHandler
HttpServerProofs (with IOLoop's), IOStreamProofs, HttpConnectionProofs, SundaySearchProofs,
RouterProofs, HeaderOrderProofs, RequestParserProofs, ResponseFramingProofs   theorems
MC*              instances for TLC
```

An indented module EXTENDS the one above it, and has it as a property (`LoopSpec`,
`StreamSpec`) where that is a system of its own: the server is an admissible client of the
loop, and the connection one of the stream. What is checked in `IOLoop` and `IOStream`
under arbitrary clients therefore holds of the real ones. `HttpConnection` also has the
abstract `Lifecycle` and `RequestReply` as properties (`LifecycleSpec`,
`RequestReplySpec`). `HttpServer` takes from `Lifecycle` what it assumes of a connection:
the names and the order of its phases.

The last four are what a connection calls without giving up control, and meet it in
values: `RequestParser` ends as the field `ok` of a request, `Router` as one of the
`Replies`, `ResponseFraming` as a package of `RespLen` units. Two connections of one
process share only the loop and `errno`; the first is `HttpServer`, and the second
is arbitrary in `IOStream` whenever anything else may have run.

### IOLoop

`handlers`, `interest`, `ready` and `batch` are the `unordered_map`, the epoll
set, epoll's ready list and the part of the events array not yet handled;
`state` is where `start()` is. `EpollWait` moves a set of ready descriptors of at
most `MaxEvents` into the array; `TakeEvent` is `toggle_callback`; `TakeWake` the
`goto FINISHED`; `CallbackThrows` the `goto FAILED`; `EpollFails` an
`epoll_wait` that fails. While `state = "callback"` the client may perform
operations, then return, throw or die. A handler is the token of the object its
closure captures. `raised` and `pending` are history variables. The wake pipe is
never drained, which is why an edge of it is one element of `ready`; a pipe full
of undrained `stop()` calls is not modelled.

### HttpServer

Adds `phase`, `fdOf`, `openFds`, `building` and `backlog`. The accept handler is
modelled from one system call to the next: `AcceptOk` (accept and registration),
`CtorReturns` (`set_close_callback`), `AcceptEmpty` (EAGAIN), `AcceptFails` and
`AcceptAgain` (any other errno, after which the loop in the handler goes round once
more, on a closed descriptor), `AcceptAddFails`. Numbers handed out by accept
are any that are not in use. Inside a connection's callback, or its
constructor, it may write (`ConnWrites`), close (`ConnCloses`), return or die. The
descriptors the user's own code opens are covered by the arbitrary choice of a
number.

### IOStream

The thread's position is `pc`; each action reaches from one system call or API
boundary to the next, so that the peer (`ClientSend`, `ClientFin`, `ClientReset`,
`ClientDrain`) acts in between. Handlers call the read functions only in tail
position, and those call the handlers only in tail position, so that the call
stack reduces to `frame` (poll, or the loop of a read function) and `base` (where
`__handler_poll`, or the constructor, resumes). `ready` is the edge pending in
epoll; `nospace` is the kernel's flag that freed send space must raise one.
`errno` is a variable: other callbacks and user code leave anything in it, and
`recv` returning 0 does not touch it.

Bytes are units; one that ends with the terminator of `read_until` is in `Ends`.
`_read_num` is an int of `IntMod` values, converted from the argument modulo
`IntMod`. Three states of the thread are final: `overrun` (the search has left the
buffer), `freed` (a destroyed stream was used) and `terminated` (an exception left
a `noexcept` function). The first two are undefined behaviour; the model says
that they are reached and claims nothing after that.

### HttpConnection

A request is the record of what the control flow looks at: whether the header
parses, the `strtol` of Content-Length, and the value stored under Connection.
`ci_equal` is what the code computes, a lexicographic "less than"
(`headerstr.h:33`); values keep the CR of their line, as `getline` and `strtok`
leave it. A user handler may answer, with `response.close` set or not, or raise an
`HttpError` (`get_body`); it may raise an `HttpRequest::ParseException`, which is caught,
so that nothing is written and the connection reads on (`get_body_drops`); or it may let
another exception out of the `noexcept` function (`get_body_throws`). The history variable
`dropped` counts the requests given up in the second way, `lastReply` says what became of
the last one.

`ConnectionClosed` is the mutual recursion of the two `close` functions: both flags are
set, and both objects destroyed if the accept handler's callback is in place. It is one
step, because nothing comes between its calls; that the flags stop the recursion, and
that there is one `delete`, is therefore read off the code and not checked.

`RequestReply` is the promise that a client can count on: a request is parsed only when
the one before is settled, by a response (`Answer`) or by being given up (`Drop`), and
after the response that announced the end none is. `HangsUpForAReason` names the only two
reasons for which the server hangs up on a peer that stays: the handler of the last
request set `response.close`, or the value of its Connection header is empty, which
includes not having one. It is the code's rule, which `KeepsServing` shows to be
the inverse of what the header means.

### SundaySearch

One comparison or shift per step over the buffer followed by arbitrary memory
(`Slack` characters of it), because nothing keeps the code's iterator inside the
buffer. The unsigned comparison in line 245 and the index by a plain `char` in line
251 are modelled as they are.

### HttpConnection with a client that takes turns

`PoliteSpec` restricts the peer, not the server: it sends a request and its body in
pieces of any size, and the next request when it has received a whole response. It may
still go away at any moment. To a malformed request, or one whose handler raises a
`ParseException`, the server says nothing (`Unanswered`), and such a client waits in vain;
`PoliteServed` exempts just that. What holds for such a client, and fails for one that
pipelines, is stated separately (`NoRequestSwallowed`, `NoNestedRequest`, `PoliteServed`):
`__read_from_buffer` hands over the whole buffer as a body, later requests included.

### HeaderOrder, RequestParser

A string is a sequence of pieces: separators, CR, and words. `tolower` gives the code
of each piece in lower case. `ci_less` is `lexicographical_compare`; `Spelling` is the key
that an access of a `std::map` ends up with. The actions of `RequestParser` follow the
loops of `parse_headers`, one token pair at a time, on an object that keeps what earlier
requests left; `GetHeader` and `GetBody` are the lookups of `connection.cpp`, which
insert keys. The reference definition (`Words`, `Word`) knows nothing of `strtok`: the words
of a string are its longest runs without separators. What the code does with query strings
that are not of the form `k=v&k=v` is modelled, and `LineRead` claims nothing about it: an
empty value (`k=&l=v`) takes the next pair for its value.

### Router

The table maps a pattern's text, with the `$` added, to a handler. `Try` visits the entries
in any order, as an `unordered_map` may; callbacks are entered (`Call`), may register
handlers, and return or raise. What a regular expression matches is the constant
`Language`. An exception that is neither an `HttpError` nor a `ParseException` ends the
process (`terminated`), since the connection catches only those two (`Caught`).

### ResponseFraming

A package is a sequence of lines and bytes, the headers in the order in which a `std::map`
is iterated over (`InOrder`). A header map is a function whose keys are pairwise not
equivalent, which is what `FramingAssumption` says of them; the lengths of the bodies have
different texts (`Decimal`). The reader is a client of HTTP/1.1, external to
the library. `Delimited` says what a handler has to do for its response to have an end:
have a body, or set Content-Length itself, or close; and have no body in answer to HEAD.
Up to the first response that is not, the client is in step. Of the library's own responses
the page of an `HttpError` for HEAD is not delimited.

### Mutants

Operators introduced by a comment "Mutant" are not part of any specification.
Each is the definition that follows it, changed as a plausible bug would change it;
`PROJECT.json` pairs every property of a passing run with one that violates it.

## Runs

| Configuration | Question | Bounds |
|---|---|---|
| `MCIOStream` | Is a stream right under any client of its API? | 2 units in, 2 out, recv and send of 1, send buffer of 1, 4-valued int |
| `MCHttpConnection` | Is a connection right under every shape of request, reply and departure, and does it end when it must? | 3 units in at once or in pieces, 3 responses of 2 out over a send buffer of 1, 8-valued int |
| `MCHttpConnection_polite` | Does a client that takes turns get each request served, whole and alone, unless it is malformed or given up? | 5 units in, bodies up to 2, 5 responses of 2 over a send buffer of 2, send of 1 |
| `MCIOLoop` | Is the loop right under any client, restarts included? | 2 descriptors and the wake pipe, array of 2 |
| `MCHttpServer` | Do descriptors, handlers, events and connections stay matched, and is every client accepted? | 3 connections on 2 reused numbers and the listening one, array of 2 |
| `MCSundaySearch` | Is the search right, and does it stay inside the buffer, for complete headers? | every buffer of up to 7 of {CR, LF, other, non-ASCII}, 1 behind it |
| `MCRequestParser` | Is every block read as its words say, and does one request leave anything to the next? | all request lines of up to 6 pieces of 4, header lines of up to 4 of 4, query strings of up to 6 of 5; two more requests after it, of 6, two of them malformed |
| `MCRouter` | Does one right handler see each request through? | 4 registrations of overlapping, repeated and malformed patterns, 2 requests |
| `MCResponseFraming` | Can a client tell responses apart? | 3 responses, bodies up to 2 bytes, headers in two spellings |
| `MCHttpConnection_keepalive` | Does the server go on serving `test_client.cpp`? | **violated** |
| `MCHttpConnection_eof` | Does a recv of 0 bytes close the stream? | **violated** |
| `MCSundaySearch_found` | Is what the search finds in the buffer? | **violated** |

Why the bounds suffice: one recv or send of one unit already splits messages at
every place; a send buffer smaller than a response makes short and blocked sends
happen; two units are a header and the beginning of a body, or two requests, and
three add a complete body of two; `IntMod` is small so that a length can wrap, to
a negative and to a small positive number; three ready descriptors exceed an
array of two; with three connections on two numbers every number is used again
in a round in which its old event was taken. The terminator has four characters, so
that seven leave room for every shift in front of it. In a header line of four pieces,
separators can stand in front of, between and behind a name and a value, once
or twice; a query string of six has room for two pairs that go wrong. Three requests or
responses are one before and one behind the one that is out of the ordinary. `CHECK_DEADLOCK FALSE` is set
everywhere because the program really stops: a closed connection, a crashed or
finished loop, and a search that has ended do nothing more.

### Fairness

* *Loop*: `start()` runs on, and every callback ends (no call in it blocks; a user's
  handler is assumed to return). epoll's ready list is first-in first-out, and
  what does not fit stays at its head, so that no descriptor is passed over for
  ever: strong fairness of "epoll_wait returns this descriptor". No fairness for
  clients' operations, `stop`, `start`, edges or failures.
* *Connection*: weak fairness of the thread, which is what the loop's
  `EdgeHandled` gives a single descriptor, and of the peer's acknowledgements.
  None for input, FIN or reset.
* *Search*: weak fairness of the only thread.

### What the violated runs show

* **Keep-alive is inverted** (`connection.cpp:80`). `ci_equal` is "less than": a
  request without Connection header closes its connection after the answer, and
  one with `Connection: close` does not. `test_client.cpp:48` sends 100 requests over
  one connection.
* **End of input is read as a stale errno** (`socket.cpp:83`). `ret <= 0` takes the
  case of 0 as well, so that the branch with EREMOTEIO is dead. The stream is
  still closed, because the loop always reports EPOLLRDHUP as an error
  (`ConnectionEnds` holds); but the other way round, a request that arrived
  together with the FIN is dropped when errno is not EAGAIN.
* **The search leaves the buffer** (`stream.cpp:239`, `245`, `250`) for unfinished
  headers. For complete ASCII headers it is right: `FindsFirst`, `CompleteIsSafe` and
  `CompleteIsFound` hold, the first two also as theorems.

Also visible in the model, with no text of the repository to contradict, and exempted by
the properties named: a malformed request, and one whose handler raises a
`ParseException`, gets no response (`PoliteServed`; a client that pipelines takes the next
response for it); the socket of a connection whose registration fails stays open while
`start()` ends (`NoFdLeak`); a response without a body, or an error page for HEAD, has no end
that a client could find (`InStep`); a
connection closed inside its constructor is leaked (`Lifecycle`'s phase `leaked`); a
response is cut short when the send buffer was full (`AnswerComplete` is for
responses that fit it); a deleted stream is used when the peer has gone
(`LivePeerNeverFreed` is the exact boundary); a negative Content-Length parks a
connection, and one that wraps to a small number ends its body early (nothing is
claimed of either but `AlwaysListening` and `ConnectionEnds`); an accept error ends
the server (`NeverDeaf`).

## Proofs

TLAPS checks the following for every number of descriptors, connections and requests,
every size of the events array and of all buffers, every terminator, all patterns,
handlers, characters and header blocks, from the named assumptions of the modules
(`LoopAssumption`, `ServerAssumption`: the sets are finite,
the special values are not members of them, the array holds at least one event;
`StreamAssumption`: buffers have room for a unit, an int has more than one value;
`ConnectionAssumption`: a response has at least one unit and at most what one
`write_bytes` may be given, the lengths of requests are among those a read may be given,
and the bound of the output leaves room for a response to every unit of input, so that
the bounds of the stream never keep the connection from answering;
`SearchAssumption`: the terminator is not empty and has no negative character;
`RouterAssumption`: a pattern is not empty; `OrderAssumption`, `ParserAssumption`: `tolower`
and `toupper` are functions, the code's own names are among the pieces, a header block
has a first line; `FramingAssumption`: bodies and header maps are what a string and a
`std::map` can hold, different numbers have different texts, and Content-Type and
Content-Length are different names).

`HttpServerProofs`, its first part, about `IOLoop` under an arbitrary client:

* `LoopTypeCorrect`: types; the events array is never overfilled.
* `TablesAgree`: `TableMatchesEpoll` is inductive by itself, since only a client's
  operations touch either table.
* `EdgesAreKept`: `NoEventLost`, that a queued edge stays queued until its callback or
  the removal of its descriptor, whatever the callbacks before it in the array do, unless
  the round is broken off. It needs that the array is empty outside of a round
  (`BatchInUse`), since `EpollWait` overwrites it.

`HttpServerProofs`, its second part:

* `TypeCorrect`, `HandlersAreOwned`, `EventsAreFresh`, `NoDescriptorLeak`, `ServerHears`,
  `ClientsAreQueued`: one inductive invariant, `IInv`, implies them all. None of
  these is inductive alone. `NoStaleEvent`, for instance, needs that whatever is
  closed has no event left in the array; that holds because a connection is
  closed only from its own callback, whose event has been taken (`Queued`), or from
  its constructor, whose descriptor was not watched when the array was filled,
  as everything in the array is watched (`Queued`), everything watched is open
  (`Watched`), and accept returns what is not open. That the constructor runs inside
  the accept handler is `AcceptHandler`; who owns which entry is `Wiring`.
* `LoopImplemented`: step refinement to `IOLoop`.

`IOStreamProofs`, for an arbitrary client:

* `InputInOrder`, `OutputInOrder`: the buffers are exactly what lies between what was
  consumed and what is still in the socket (`Spliced`), and between what the socket took and
  what was written (`Queue`). With `StreamTypeCorrect` both are inductive.
* `ReadEdgeKept`, `WriteEdgeKept`, `NoReadStranded`: the properties speak of the thread when
  it sleeps, the invariant of wherever it is. Input that no edge will announce is
  about to be read, and the end of input is among the bits of the event being handled
  (`ReadEdge`); output is waiting for an edge, for space the kernel will announce, or for the
  write part of the event being handled (`WriteEdge`, which needs to know what the outermost
  frame resumes with: `Outermost`); and whenever the buffer is not about to be searched, no
  outstanding read could be satisfied from it (`Searched`).

`HttpConnectionProofs`:

* `ConnectionUsesStream`: every step of the connection is one of its stream with an arbitrary
  client, so that all of the above holds of it, and serves as hypothesis below.
* `TypeCorrect`, `ListensWhileOpen`, `ClosesForAReason`, `FreedOnlyWithoutPeer`,
  `LivesAsExpected`, `RequestsAlternate`: one inductive invariant, `ConnInv`. `Reading` says
  what an open connection reads and how many requests it has to settle, wherever the thread
  is; `LastRequest` that a connection that is finishing owes it to the last request it
  parsed, and `OnlyEmptyIsClose` that `ci_equal` takes no value but the empty one for
  "close". That an
  object is not used after it was destroyed while the peer is there, needs that a
  peer that stays is hung up on only by the write handler of a last response, the last call
  of a poll (`LastResponse`, `Callbacks`), and that the error branch behind it is taken only
  for a peer that has gone (`ErrorsAreEnds`).
* `LivesAsExpected`, `RequestsAlternate`: step refinement to `Lifecycle` and `RequestReply`.
* `NothingSwallowed`, `RequestsNotNested`, `AnswersComplete`: under `PoliteSpec`, for
  requests whose Content-Length is its own value as an int (`LengthsFit`), the last also for
  responses that fit the send buffer. `TakesTurns` follows the
  last request from the wire through the header and the body to its settlement, and says
  that what precedes it is answered (a request that is malformed or given up is the last one,
  since its client waits for ever); `OutputGone` that the client has read all of it when it
  sends the next one; `NothingNew` that a handler that reads on, on the stack of
  another, has nothing to find; `Fits` that nothing is left of a response when the write handler
  runs, which may close the connection.

`SundaySearchProofs`:

* `FirstIsFound`, `CompleteHeaderIsSafe`, `SearchTypeCorrect`: the inductive invariant
  `IInv` adds to `FindsFirst` and `CompleteIsSafe` that what precedes the iterator in the
  window has been compared (`MatchedSoFar`) and that the window is not behind the first
  occurrence (`NothingSkipped`). The lemma `CharStep` says what the table holds: the
  least shift that aligns a character with an equal one of the terminator.
  `ShiftSkipsNothing` follows: an occurrence that a shift jumped over would contain the
  character right after the old window. As long as an occurrence lies ahead, that
  character is in the buffer, which is why a complete header is searched safely.

`RouterProofs`:

* `CallsAreInOrder`, `NewestIsCalled`, `NotFoundMeansNone`, `RouterTypeCorrect`: the inductive
  invariant adds that the table holds the last registration of each key
  (`TableIsNewest`), that what was tried so far does not match (`SearchedSoFar`), and that
  the object found is entitled to the request and was called up to the current stage
  (`CalledSoFar`). That a registration in a callback changes neither rests on `h` being a
  copy, and on `Newest` looking only at registrations the request knows. The lemma
  `SameIsSameKey` justifies the key: two patterns are the same up to the "$" that the
  server adds exactly if their keys are equal, also when a pattern ends with several.

`HeaderOrderProofs`, `RequestParserProofs`:

* `OnlyCaseIsIgnored`, `StrictWeakOrder`: the comparison is what `std::map` requires. Both go
  by the position that decides it (`LessAt`); that there is one in two different texts is
  the least position at which they differ (`LeastNatural`, by well-foundedness).
* `ParserTypeCorrect`: needs that `parse_headers` has a line to look at and the query
  loop a question mark (`Positions`).
* `OneEntryPerName`: `Put` and `Touch` add a key only when no equivalent one is there.
* `HeadersAreRead`: a call of `strtok` from behind the k-th word finds the next one, and stops
  behind it (`NextWord`), by the cardinalities of the sets of words on either side, so that
  no induction over the text is needed. `HeadersSoFar` says that the entries are those of the lines before the
  current one, each with the value of the last line with an equivalent name; that
  "one entry" is the only one is `NamesDistinct`.
* `LineIsRead`: `LineRead`, which is about the request line and the query string. The request
  line is three calls of `strtok` (`ThreeWords`). In a query string of the form `k=v&k=v` the
  words are those behind every separator (`WordsAreSeparated`, again by cardinality), so that
  each round of the loop takes one name and one value (`PairRead`) and leaves off at the next
  `&`; `QuerySoFar` says where it is and that the parameters are those of the pairs before.

`ResponseFramingProofs`:

* `OneTypeIsSent`, `ClientInStep`: one inductive invariant. A package is a head with one
  Content-Type and the lengths of the handler and of the library, followed by its body
  (`IsPackage`), for any header map (`PackageIs`) and for an error page (`ErrorPackageIs`);
  that a map's keys can be put in order, and each is then there once, is `InOrderIs`, by the
  ranks of the keys. What is on the wire is the end of the packages of the responses sent:
  `IsStream` labels each unit with its package and its place there, and says which
  comes next, so that taking a unit (`Taken`) and sending a package (`Given`) need no sums of lengths.
  In a head, even one met by a client that lost its way, it has seen the fields of the
  lines before (`HeadRead`), which is all `OneContentType` needs. For `InStep`, either a
  response without an end is among those it has begun, and up to it the bodies are right (`Astray`),
  or it is where it takes itself to be (`Along`).

The type invariants of `IOLoop`, `HttpServer`, `IOStream` and `SundaySearch` are theorems and are not
checked again by a run. Every invariant that a run checks is a theorem. Only model-checked is
liveness: `CompleteIsFound` (the search of a complete header ends), `ConnectionEnds`,
`PoliteServed`, `EdgeHandled`, `StopEnds` and `ClientAccepted`. Leads-to properties under
fairness need ENABLED, which the prover does not handle.

## Not modelled

* `IOLoop::started`, `_doing`, `_write_buf_freezing`, the mutexes and `getopt`
  tables: never read. Logging, addresses, time stamps.
* Failures that abort at start-up; running out of memory.
* The destructors of server and loop, which run when `main` returns; running
  `start()` again with an `HttpServer` (the loop alone is checked with restarts).
* That the table entry whose closure executes is erased by `close()`: the closure
  has copied all it needs by then. A client of the loop that closes a descriptor without
  `remove_handler`: the library has none.
* The order of the calls inside the recursion of `IOStream::close` and
  `HttpConnection::close` (see `ConnectionClosed`).
* `read_bytes` and `read_until` without a handler (`stream.h:47`, `48`): the library always passes
  one, and so does the arbitrary client of `IOStream`.
* The texts of messages, so that the static buffer of 1024 characters for an error
  page (`except.cpp:49`) has no counterpart.
* A NUL in a request, where `strtok` would stop, and an empty URL pattern, whose last
  character `register_handler` looks at.
* The groups of a match (`urlargs`), `raw_body`, `remote`: copied from one place to
  another.
* `test.cpp`, `test_client.cpp`, `SConstruct`: programs around the library.

## Plan

Done: all modules above, and theorems for all their safety properties. What is left is
outside the prover's reach (liveness) or listed under "Not modelled".
