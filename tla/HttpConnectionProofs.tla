------------------------- MODULE HttpConnectionProofs -------------------------
(* Theorems about HttpConnection, for any requests, replies and buffers, and *)
(* any pieces in which input comes and output goes.                          *)
EXTENDS HttpConnection, IOStreamProofs, FiniteSetTheorems

-----------------------------------------------------------------------------
(* The inductive invariant.                                                  *)

ConnTypes ==
    /\ cclosed \in BOOLEAN /\ closeAfter \in BOOLEAN /\ closeCb \in BOOLEAN
    /\ request \in Requests \cup {NoRequest}
    /\ parsed \in Nat /\ answered \in Nat /\ dropped \in Nat
    /\ lastReply \in Outcomes \cup {"none"}

\* Only the connection's own handlers are ever called, the write handler only by
\* the write part of __handler_poll.
Callbacks ==
    /\ readHandler \in ReadHandlers \cup {NoHandler}
    /\ writeHandler \in {"on_write", NoHandler}
    /\ pc = "client" => /\ callee \in {"constructor", "header", "body", "on_write"}
                        /\ callee = "on_write" => base = "error"

\* Each parsed header has taken a unit of input, each response is in the output.
Counts ==
    /\ Len(input) <= MaxInput
    /\ parsed <= consumed /\ nwritten = RespLen * answered
    /\ pc = "client" /\ callee = "header" =>
         /\ parsed < consumed
         /\ Len(data) > 0 /\ data[Len(data)] \in Requests

\* An error bit means that the peer has gone, and it does not come back.
ErrorsAreEnds == "ERR" \in evt => peer # "open"

\* Both closed flags agree, and a closed stream has left epoll.
ClosedTogether ==
    /\ cclosed = sclosed
    /\ ~alive => sclosed
    /\ sclosed => ~ready
    /\ pc \in {"accepted", "client", "recv", "search", "written"} => ~sclosed
    /\ pc = "accepted" => ~closeCb
    /\ pc = "freed" => ~alive

\* A peer that stays is hung up on only by the write handler of a last response,
\* after which __handler_poll has nothing left to do.
LastResponse ==
    peer = "open" => /\ sclosed => closeAfter
                     /\ ~alive => pc \in {"error", "wait"}

AwaitsNothing == readHandler = NoHandler /\ readNum = -1 /\ ~readUntil

AwaitsHeader == readHandler = "header" /\ readNum = -1 /\ readUntil

AwaitsBody == readHandler = "body" /\ readNum = AsInt(request.len) /\ ~readUntil

\* The request that ends the connection is the last one; it is settled, and its
\* handler or its Connection value is the reason.
LastRequest ==
    closeAfter => /\ parsed = answered + dropped
                  /\ lastReply = "close" \/ (lastReply = "ok" /\ request.conn = NoValue)

\* What an open connection reads, and how many requests it has to settle, wherever
\* the thread is: the handlers that read on have no read outstanding when they begin.
Reading ==
    Running =>
      IF pc = "accepted" \/ (pc = "client" /\ callee \in {"constructor", "header"})
      THEN ~closeAfter /\ AwaitsNothing /\ parsed = answered + dropped
      ELSE IF pc = "client" /\ callee = "body"
      THEN ~closeAfter /\ AwaitsNothing /\ parsed = answered + dropped + 1
      ELSE \/ closeAfter /\ AwaitsNothing /\ parsed = answered + dropped
           \/ ~closeAfter /\ AwaitsHeader /\ parsed = answered + dropped
           \/ ~closeAfter /\ AwaitsBody /\ parsed = answered + dropped + 1

ConnInv ==
    /\ ConnTypes /\ Callbacks /\ Counts /\ ErrorsAreEnds /\ ClosedTogether
    /\ LastResponse /\ LastRequest /\ Reading

-----------------------------------------------------------------------------
(* The connection is a client of its stream.                                 *)

LEMMA ConstantTypes ==
    /\ RespLen \in Nat \ {0} /\ RespLen \in 0..MaxWrite
    /\ MaxInput \in Nat /\ MaxOutput \in Nat /\ MaxWrite \in Nat
    /\ RespLen * MaxInput <= MaxOutput
  BY StreamAssumption, ConnectionAssumption

LEMMA HandlerTypes ==
    /\ "header" \in Handlers /\ "body" \in Handlers /\ "on_write" \in Handlers
    /\ NoHandler # "header" /\ NoHandler # "body" /\ NoHandler # "on_write"
  BY StreamAssumption, ConnectionAssumption DEF ReadHandlers

LEMMA RequestTypes ==
    \A r \in Requests : r.ok \in BOOLEAN /\ r.len \in Lengths /\ r.len \in Int
  BY StreamAssumption, ConnectionAssumption

LEMMA CountTypes ==
    ASSUME StreamInv, ConnInv
    PROVE  /\ parsed \in Nat /\ answered \in Nat /\ dropped \in Nat /\ consumed \in Nat
           /\ nwritten \in Nat /\ Len(input) \in Nat
           /\ consumed <= Len(input)
  <1>1. /\ parsed \in Nat /\ answered \in Nat /\ dropped \in Nat
        /\ nwritten \in Nat
    BY DEF StreamInv, ConnInv, ConnTypes, StreamTypeOK
  <1>2. QED
    BY <1>1, QueueTypes DEF StreamInv, Spliced

LEMMA Multiples ==
    ASSUME NEW k \in Nat, NEW m \in Nat, NEW n \in Nat, m <= n
    PROVE  k * m <= k * n /\ k * m \in Nat /\ k * n \in Nat
  <1>1. PICK d \in Nat : n = m + d
    <2>1. n - m \in Nat /\ n = m + (n - m)
      OBVIOUS
    <2>2. QED
      BY <2>1
  <1>2. k * n = k * m + k * d
    BY <1>1
  <1>3. k * m \in Nat /\ k * d \in Nat
    OBVIOUS
  <1>4. QED
    BY <1>2, <1>3

\* The bound of the stream leaves room for the response to any parsed request.
LEMMA ResponseFits ==
    ASSUME StreamInv, ConnInv, answered <= parsed
    PROVE  /\ nwritten + 0 <= MaxOutput
           /\ answered + 1 <= parsed => nwritten + RespLen <= MaxOutput
  <1> DEFINE asked == RespLen * parsed
             most == RespLen * MaxInput
             next == RespLen * (answered + 1)
  <1>1. nwritten = RespLen * answered /\ parsed <= MaxInput
    BY CountTypes, ConstantTypes DEF ConnInv, Counts
  <1>2. RespLen * answered <= asked /\ asked <= most
    BY <1>1, Multiples, CountTypes, ConstantTypes
  <1>3. answered + 1 <= parsed => next <= asked
    BY Multiples, CountTypes, ConstantTypes
  <1>4. next = RespLen * answered + RespLen
    BY CountTypes, ConstantTypes
  <1>5. asked \in Nat /\ most \in Nat /\ most <= MaxOutput
    BY Multiples, CountTypes, ConstantTypes
  <1>6. nwritten <= asked /\ next = nwritten + RespLen
    BY <1>1, <1>2, <1>4
  <1> HIDE DEF asked, most, next
  <1>7. nwritten \in Nat /\ MaxOutput \in Nat /\ RespLen \in Nat /\ asked <= most
    BY <1>2, CountTypes, ConstantTypes
  <1>8. QED
    BY <1>3, <1>5, <1>6, <1>7

\* Where a handler of the connection begins.
LEMMA AtHandler ==
    ASSUME StreamInv, ConnInv, pc = "client"
    PROVE  /\ ~sclosed /\ answered <= parsed
           /\ callee \in {"constructor", "header"} =>
                ~closeAfter /\ AwaitsNothing /\ parsed = answered + dropped
           /\ callee = "body" => ~closeAfter /\ AwaitsNothing /\ parsed = answered + dropped + 1
           /\ callee = "header" => data[Len(data)] \in Requests
  <1>1. ~sclosed /\ Running
    BY DEF ConnInv, ClosedTogether, Running, Dead
  <1>2. answered <= parsed
    BY <1>1, CountTypes DEF ConnInv, Reading
  <1>3. QED
    BY <1>1, <1>2 DEF ConnInv, Reading, Counts

\* A ParseException settles the request with nothing but reading on.
LEMMA DropStep ==
    ASSUME StreamInv, ConnInv, get_body_drops
    PROVE  /\ pc = "client" /\ callee = "body" /\ pc' = "search"
           /\ ~sclosed /\ ~closeAfter /\ AwaitsNothing /\ AwaitsHeader'
           /\ parsed = answered + dropped + 1 /\ dropped' = dropped + 1
           /\ lastReply' = "parse" /\ "parse" \in Replies
           /\ errno' \in {"EAGAIN", "other"}
           /\ read_until("header") /\ UNCHANGED <<readNum, callVars>> /\ ClientFrame
           /\ UNCHANGED <<ready, nospace, wrbuf, nwritten, writeHandler, sclosed, alive,
                          cclosed, closeAfter, closeCb, request, parsed, answered>>
  <1>1. /\ pc = "client" /\ callee = "body" /\ ClientFrame /\ errno' \in {"EAGAIN", "other"}
        /\ lastReply' = "parse" /\ "parse" \in Replies /\ dropped' = dropped + 1
        /\ UNCHANGED <<ready, nospace, wrbuf, nwritten, writeHandler, cclosed, closeAfter,
                       closeCb, request, parsed, answered>>
    BY DEF get_body_drops, handler_ran
  <1>2. ~sclosed /\ ~closeAfter /\ AwaitsNothing /\ parsed = answered + dropped + 1
    BY <1>1, AtHandler
  <1>3. read_until("header") /\ UNCHANGED <<readNum, callVars>>
    BY <1>2 DEF get_body_drops, NextRequest, ReadsOn, AwaitHeader
  <1>4. pc' = "search" /\ AwaitsHeader'
    BY <1>2, <1>3 DEF read_until, Look, AwaitsNothing, AwaitsHeader
  <1>5. UNCHANGED <<sclosed, alive>>
    BY <1>1 DEF ClientFrame, objectVars
  <1>6. QED
    BY <1>1, <1>2, <1>3, <1>4, <1>5

\* Nothing sorts before "close" but the empty value.
LEMMA OnlyEmptyIsClose ==
    ASSUME NEW c, ci_equal(c, "close")
    PROVE  c = NoValue
  BY DEF ci_equal, Collation

LEMMA StepIsStreamStep ==
    StreamInv /\ ConnInv /\ [Next]_vars => [StreamNext]_streamVars
  <1> SUFFICES ASSUME StreamInv, ConnInv, [Next]_vars
               PROVE  [StreamNext]_streamVars
    OBVIOUS
  <1>0. errno \in {"EAGAIN", "other"}
    BY DEF StreamInv, StreamTypeOK
  <1>1. ASSUME pc = "client", ClientFrame, errno' \in {"EAGAIN", "other"}
        PROVE  /\ write_bytes(0, NoHandler)
                    => \E len \in 0..MaxWrite, h \in Handlers \cup {NoHandler} :
                         nwritten + len <= MaxOutput /\ write_bytes(len, h)
               /\ UNCHANGED <<inq, peer, room, rdbuf, nwire, objectVars, base, evt,
                              got, history>>
    <2>1. answered <= parsed
      BY <1>1, AtHandler
    <2>2. nwritten + 0 <= MaxOutput /\ 0 \in 0..MaxWrite
      BY <2>1, ResponseFits, ConstantTypes
    <2>3. QED
      BY <1>1, <2>2 DEF ClientFrame, history
  <1>2. CASE ConnConstruct
    <2>1. pc = "client" /\ callee = "constructor" /\ ClientFrame
      BY <1>2 DEF ConnConstruct
    <2>2. errno' \in {"EAGAIN", "other"} /\ write_bytes(0, NoHandler)
      BY <1>0, <1>2 DEF ConnConstruct, write_bytes
    <2>3. read_until("header") /\ UNCHANGED <<readNum, callVars>>
      BY <1>2 DEF ConnConstruct, AwaitHeader
    <2>4. ClientContinues
      BY <1>1, <2>1, <2>2, <2>3, HandlerTypes DEF ClientContinues
    <2>5. QED
      BY <2>4 DEF StreamNext
  <1>3. CASE get_header
    <2>1. pc = "client" /\ callee = "header" /\ ClientFrame
      BY <1>3 DEF get_header
    <2>2. errno' \in {"EAGAIN", "other"} /\ write_bytes(0, NoHandler)
      BY <1>0, <1>3 DEF get_header, write_bytes
    <2>3. data[Len(data)] \in Requests /\ ~closeAfter
      BY <2>1, AtHandler
    <2>4. CASE data[Len(data)].ok
      <3>1. read_bytes(data[Len(data)].len, "body") /\ UNCHANGED readUntil
        BY <1>3, <2>4 DEF get_header
      <3>2. ClientContinues
        BY <1>1, <2>1, <2>2, <2>3, <3>1, HandlerTypes, RequestTypes DEF ClientContinues
      <3>3. QED
        BY <3>2 DEF StreamNext
    <2>5. CASE ~data[Len(data)].ok
      <3>1. read_until("header") /\ UNCHANGED <<readNum, callVars>>
        BY <1>3, <2>3, <2>5 DEF get_header, NextRequest, ReadsOn, AwaitHeader
      <3>2. ClientContinues
        BY <1>1, <2>1, <2>2, <3>1, HandlerTypes DEF ClientContinues
      <3>3. QED
        BY <3>2 DEF StreamNext
    <2>6. QED
      BY <2>4, <2>5
  <1>4. ASSUME NEW reply \in Replies, get_body(reply)
        PROVE  ClientContinues
    <2>1. pc = "client" /\ callee = "body" /\ ClientFrame /\ errno' \in {"EAGAIN", "other"}
      BY <1>4 DEF get_body, handler_ran
    <2>2. answered + 1 <= parsed /\ answered <= parsed
      BY <2>1, AtHandler, CountTypes
    <2>3. nwritten + RespLen <= MaxOutput /\ RespLen \in 0..MaxWrite
      BY <2>2, ResponseFits, ConstantTypes
    <2>4. write_bytes(RespLen, OnWrite(reply)) /\ OnWrite(reply) \in Handlers \cup {NoHandler}
      BY <1>4, HandlerTypes DEF get_body, respond, Package, OnWrite, handler_ran
    <2>5. \/ Return /\ UNCHANGED <<readNum, readUntil, readHandler, frame, callVars>>
          \/ read_until("header") /\ UNCHANGED <<readNum, callVars>>
      BY <1>4 DEF get_body, NextRequest, AwaitHeader, handler_ran
    <2>6. QED
      BY <1>1, <2>1, <2>3, <2>4, <2>5, HandlerTypes DEF ClientContinues
  <1>5. CASE on_write_returns
    <2>1. pc = "client" /\ ClientFrame /\ Return
      BY <1>5 DEF on_write_returns
    <2>2. /\ UNCHANGED <<readNum, readUntil, readHandler, frame, callVars>>
          /\ errno' \in {"EAGAIN", "other"} /\ write_bytes(0, NoHandler)
      BY <1>0, <1>5 DEF on_write_returns, write_bytes
    <2>3. ClientContinues
      BY <1>1, <2>1, <2>2 DEF ClientContinues
    <2>4. QED
      BY <2>3 DEF StreamNext
  <1>6. CASE ConnOpened \/ get_body_throws \/ on_write_closes
    BY <1>6 DEF ConnOpened, get_body_throws, on_write_closes, StreamNext
  <1>10. CASE get_body_drops
    <2>1. /\ pc = "client" /\ ClientFrame /\ errno' \in {"EAGAIN", "other"}
          /\ read_until("header") /\ UNCHANGED <<readNum, callVars>>
      BY <1>10, DropStep
    <2>2. write_bytes(0, NoHandler)
      BY <1>10, DropStep DEF write_bytes
    <2>3. ClientContinues
      BY <1>1, <2>1, <2>2, HandlerTypes DEF ClientContinues
    <2>4. QED
      BY <2>3 DEF StreamNext
  <1>7. CASE (Construct \/ StreamStep) \/ StreamCloseStep \/ Peer
    BY <1>7 DEF StreamNext
  <1>8. CASE UNCHANGED vars
    BY <1>8 DEF vars
  <1>9. QED
    BY <1>2, <1>3, <1>4, <1>5, <1>6, <1>7, <1>8, <1>10
       DEF Next, Thread, Environment, StreamNext

-----------------------------------------------------------------------------
(* Every step preserves the invariant, one part at a time.                   *)

LEMMA NextConnTypes == StreamInv /\ ConnInv /\ [Next]_vars => ConnTypes'
  <1> SUFFICES ASSUME StreamInv, ConnInv, [Next]_vars
               PROVE  ConnTypes'
    OBVIOUS
  <1>0. ConnTypes
    BY DEF ConnInv
  <1>1. CASE get_header
    <2>1. data[Len(data)] \in Requests
      BY <1>1, AtHandler DEF get_header
    <2>2. /\ request' \in {request, data[Len(data)]} /\ parsed' \in {parsed, parsed + 1}
          /\ UNCHANGED <<cclosed, closeAfter, closeCb, answered, dropped, lastReply>>
      BY <1>1 DEF get_header
    <2>3. QED
      BY <1>0, <2>1, <2>2 DEF ConnTypes
  <1>2. ASSUME NEW reply \in Replies, get_body(reply)
        PROVE  ConnTypes'
    <2>1. closeAfter' \in BOOLEAN
      BY <1>2 DEF get_body, handler_ran
    <2>2. answered' \in {answered, answered + 1}
      BY <1>0, <1>2 DEF get_body, respond, ConnTypes, handler_ran
    <2>3. UNCHANGED <<cclosed, closeCb, request, parsed, dropped>> /\ lastReply' = reply
      BY <1>2 DEF get_body, handler_ran, respond
    <2>4. reply \in Outcomes
      BY ConnectionAssumption
    <2>5. QED
      BY <1>0, <2>1, <2>2, <2>3, <2>4 DEF ConnTypes
  <1>3. CASE ConnOpened
    BY <1>0, <1>3 DEF ConnOpened, ConnTypes
  <1>4. CASE ConnectionClosed
    BY <1>0, <1>4 DEF ConnectionClosed, MarkClosed, ConnTypes
  <1>5. CASE UNCHANGED connVars
    BY <1>0, <1>5 DEF connVars, ConnTypes
  <1>7. CASE get_body_drops
    BY <1>0, <1>7, DropStep DEF ConnTypes, Outcomes
  <1>6. QED
    BY <1>1, <1>2, <1>3, <1>4, <1>5, <1>7
       DEF Next, Thread, Environment, ConnConstruct, get_body_throws, on_write_returns,
           on_write_closes, vars

LEMMA NextErrorsAreEnds == ConnInv /\ [Next]_vars => ErrorsAreEnds'
  <1> SUFFICES ASSUME ConnInv, [Next]_vars
               PROVE  ErrorsAreEnds'
    OBVIOUS
  <1>0. ErrorsAreEnds
    BY DEF ConnInv
  <1>1. CASE EpollWait
    BY <1>1 DEF EpollWait, Mask, ErrorBit, ErrorsAreEnds
  <1>2. CASE Peer
    BY <1>0, <1>2 DEF Peer, ClientSend, ClientFin, ClientReset, ClientDrain, stackVars,
                      ErrorsAreEnds
  <1>3. CASE UNCHANGED <<peer, evt>>
    BY <1>0, <1>3 DEF ErrorsAreEnds
  <1>4. QED
    BY <1>1, <1>2, <1>3
       DEF Next, Thread, Environment, StreamStep, StreamCloseStep, Construct, ConnConstruct,
           ConnOpened, Opened, RecvData, RecvWouldBlock, RecvFailed, SearchBytes, SearchUntil,
           SearchNothing, SearchOverrun, WriteEnter, SendSome, SendBlocked, SendFailed,
           SendClosed, Written, PollReturn, PollError, get_header, get_body, get_body_throws,
           on_write_returns, on_write_closes, ClientCloses, ClientThrows, ClientFrame,
           kernelVars, stackVars, streamVars, vars, handler_ran, get_body_drops

LEMMA BaseType == StreamInv => base \in {"opened", "write", "error"}
  BY DEF StreamInv, StreamTypeOK

LEMMA PeerStaysAway == [StreamNext]_streamVars => (peer' = "open" => peer = "open")
  BY DEF StreamNext, Peer, StreamStep, StreamCloseStep, ClientSend, ClientFin, ClientReset,
         ClientDrain, Construct, Opened, EpollWait, RecvData, RecvWouldBlock, SearchBytes,
         SearchUntil, SearchNothing, SearchOverrun, WriteEnter, SendSome, SendBlocked,
         SendClosed, Written, PollReturn, RecvFailed, SendFailed, PollError,
         ClientContinues, ClientCloses, ClientThrows, streamVars, kernelVars

\* What a step that closes the stream does.
LEMMA ClosingStep ==
    ASSUME StreamInv, ConnInv, (StreamCloseStep /\ ConnectionClosed) \/ on_write_closes
    PROVE  /\ ~sclosed /\ sclosed' /\ cclosed' /\ ~ready' /\ alive' = ~closeCb
           /\ UNCHANGED <<peer, closeAfter, closeCb, request, parsed, answered, dropped,
                          lastReply>>
           /\ pc' \in {"wait", "opened", "write", "error"}
           /\ peer = "open" => closeAfter /\ pc' = "error"
  <1>1. ConnectionClosed
    BY DEF on_write_closes
  <1>2. ~sclosed /\ sclosed' = TRUE /\ ready' = FALSE /\ UNCHANGED peer
    BY DEF on_write_closes, StreamCloseStep, RecvFailed, SendFailed, PollError, ClientCloses,
           CloseStream
  <1>3. pc' \in {"wait", base}
    BY DEF on_write_closes, StreamCloseStep, RecvFailed, SendFailed, PollError, ClientCloses,
           Return
  <1>4. ASSUME peer = "open" PROVE closeAfter /\ pc' = "error"
    <2>1. ~RecvFailed
      BY <1>4 DEF RecvFailed, RecvErrors, WouldBlock
    <2>2. ~SendFailed /\ ~PollError
      BY <1>4 DEF SendFailed, PollError, ConnInv, ErrorsAreEnds
    <2>3. on_write_closes
      BY <2>1, <2>2 DEF StreamCloseStep
    <2>4. QED
      BY <2>3 DEF on_write_closes, ClientCloses, Return, ConnInv, Callbacks
  <1>5. QED
    BY <1>1, <1>2, <1>3, <1>4, BaseType DEF ConnectionClosed, MarkClosed, Deletes

\* Every other step leaves the flags alone; closeAfter is never taken back.
Quiet ==
    /\ UNCHANGED <<sclosed, alive, cclosed>>
    /\ closeAfter => closeAfter'
    /\ sclosed => ~ready'

LEMMA QuietStep ==
    ASSUME StreamInv, ConnInv, [Next]_vars,
           ~(StreamCloseStep /\ ConnectionClosed), ~on_write_closes
    PROVE  Quiet
  <1>0. /\ sclosed => ~ready
        /\ pc \in {"accepted", "client"} => ~sclosed
    BY DEF ConnInv, ClosedTogether
  <1>1. CASE Peer /\ UNCHANGED connVars
    BY <1>1, <1>0 DEF Peer, ClientSend, ClientFin, ClientReset, ClientDrain, Running,
                      objectVars, connVars, Quiet
  <1>2. CASE Construct /\ UNCHANGED connVars
    BY <1>2, <1>0 DEF Construct, objectVars, connVars, Quiet
  <1>3. CASE StreamStep /\ UNCHANGED connVars
    <2>1. UNCHANGED <<sclosed, alive>> /\ (ready' = ready \/ ready' = FALSE)
      BY <1>3 DEF StreamStep, EpollWait, RecvData, RecvWouldBlock, SearchBytes, SearchUntil,
                  SearchNothing, SearchOverrun, WriteEnter, SendSome, SendBlocked, SendClosed,
                  Written, PollReturn, kernelVars, objectVars
    <2>2. QED
      BY <1>0, <1>3, <2>1 DEF connVars, Quiet
  <1>4. CASE ConnOpened
    BY <1>4, <1>0 DEF ConnOpened, Opened, kernelVars, objectVars, Quiet
  <1>5. CASE ConnConstruct \/ get_header \/ on_write_returns
    BY <1>5, <1>0 DEF ConnConstruct, get_header, on_write_returns, ClientFrame, objectVars,
                      connVars, Quiet
  <1>6. ASSUME NEW reply \in Replies, get_body(reply)
        PROVE  Quiet
    BY <1>6, <1>0 DEF get_body, ClientFrame, objectVars, Quiet, handler_ran
  <1>7. CASE get_body_throws
    BY <1>7, <1>0 DEF get_body_throws, ClientThrows, kernelVars, objectVars, connVars, Quiet
  <1>10. CASE get_body_drops
    BY <1>10, <1>0, DropStep DEF Quiet
  <1>8. CASE UNCHANGED vars
    BY <1>8, <1>0 DEF vars, streamVars, kernelVars, objectVars, connVars, Quiet
  <1>9. QED
    BY <1>1, <1>2, <1>3, <1>4, <1>5, <1>6, <1>7, <1>8, <1>10 DEF Next, Thread, Environment

\* Where the thread can go: the places that need an open stream are reached from
\* each other, from epoll_wait with an event, or from a send that succeeded; a
\* stream that was destroyed under a live peer is not looked at again.
Placed ==
    /\ pc \in {"accepted", "client", "recv", "search", "written"} => ~sclosed
    /\ pc = "accepted" => ~closeCb
    /\ pc = "freed" => ~alive
    /\ ~alive /\ peer = "open" => pc \in {"error", "wait"}

LEMMA NextPlaced == StreamInv /\ ConnInv /\ [Next]_vars /\ Quiet => Placed'
  <1> SUFFICES ASSUME StreamInv, ConnInv, [Next]_vars, Quiet
               PROVE  Placed'
    OBVIOUS
  <1>0. /\ Placed /\ base \in {"opened", "write", "error"}
        /\ ~alive => sclosed
        /\ sclosed => ~ready
    BY BaseType DEF ConnInv, ClosedTogether, LastResponse, Placed
  <1>1. UNCHANGED <<sclosed, alive>>
    BY DEF Quiet
  <1>2. CASE UNCHANGED <<pc, closeCb>> /\ (peer' = "open" => peer = "open")
    BY <1>0, <1>1, <1>2 DEF Placed
  <1>3. ASSUME ~sclosed, pc' \notin {"accepted", "freed"}
        PROVE  Placed'
    BY <1>0, <1>1, <1>3 DEF Placed
  <1>4. CASE Peer /\ UNCHANGED connVars
    BY <1>2, <1>4 DEF Peer, ClientSend, ClientFin, ClientReset, ClientDrain, connVars
  <1>5. CASE Construct \/ ConnConstruct
    BY <1>0, <1>3, <1>5 DEF Construct, ConnConstruct, AwaitHeader, read_until, Look, Return,
                            Placed
  <1>6. CASE EpollWait
    BY <1>0, <1>3, <1>6 DEF EpollWait
  <1>7. CASE RecvData \/ RecvWouldBlock
    BY <1>0, <1>3, <1>7 DEF RecvData, RecvAgain, RecvWouldBlock, Placed
  <1>8. CASE SearchBytes \/ SearchUntil
    BY <1>0, <1>3, <1>8 DEF SearchBytes, SearchUntil, Deliver, Call, Placed
  <1>9. CASE SearchNothing \/ SearchOverrun
    BY <1>0, <1>3, <1>9 DEF SearchNothing, SearchOverrun, Placed
  <1>10. CASE WriteEnter /\ UNCHANGED connVars
    BY <1>0, <1>1, <1>10 DEF WriteEnter, kernelVars, Placed
  <1>11. CASE SendSome
    BY <1>3, <1>11 DEF SendSome, SendAgain
  <1>12. CASE SendBlocked
    BY <1>3, <1>12 DEF SendBlocked
  <1>13. CASE Written
    BY <1>0, <1>3, <1>13 DEF Written, Call, Placed
  <1>14. CASE PollReturn /\ UNCHANGED connVars
    BY <1>0, <1>1, <1>14 DEF PollReturn, CloseCalled, kernelVars, Placed, ConnInv,
                             ErrorsAreEnds
  <1>15. CASE SendClosed \/ ConnOpened
    BY <1>0, <1>1, <1>15 DEF SendClosed, ConnOpened, Opened, Placed
  <1>16. CASE get_header
    BY <1>0, <1>3, <1>16 DEF get_header, read_bytes, NextRequest, AwaitHeader, read_until,
                             Look, Return, Placed
  <1>17. ASSUME NEW reply \in Replies, get_body(reply)
         PROVE  Placed'
    BY <1>0, <1>3, <1>17 DEF get_body, NextRequest, AwaitHeader, read_until, Look, Return,
                             Placed, handler_ran
  <1>18. CASE on_write_returns \/ get_body_throws
    BY <1>0, <1>3, <1>18 DEF on_write_returns, get_body_throws, ClientThrows, Return, Placed
  <1>22. CASE get_body_drops
    BY <1>3, <1>22, DropStep
  <1>19. CASE UNCHANGED vars
    BY <1>2, <1>19 DEF vars, streamVars, kernelVars, connVars
  <1>20. CASE (StreamCloseStep /\ ConnectionClosed) \/ on_write_closes
    BY <1>1, <1>20, ClosingStep
  <1>21. QED
    BY <1>4, <1>5, <1>6, <1>7, <1>8, <1>9, <1>10, <1>11, <1>12, <1>13, <1>14, <1>15, <1>16,
       <1>17, <1>18, <1>19, <1>20, <1>22 DEF Next, Thread, Environment, StreamStep

LEMMA NextClosed == StreamInv /\ ConnInv /\ [Next]_vars => ClosedTogether' /\ LastResponse'
  <1> SUFFICES ASSUME StreamInv, ConnInv, [Next]_vars
               PROVE  ClosedTogether' /\ LastResponse'
    OBVIOUS
  <1>1. CASE (StreamCloseStep /\ ConnectionClosed) \/ on_write_closes
    <2>1. pc' \in {"wait", "opened", "write", "error"} /\ sclosed' /\ cclosed' /\ ~ready'
      BY <1>1, ClosingStep
    <2>2. ClosedTogether'
      <3>1. sclosed' \in BOOLEAN /\ cclosed' \in BOOLEAN
        BY StepIsStreamStep, NextStreamInv, NextConnTypes DEF StreamInv, StreamTypeOK, ConnTypes
      <3>2. cclosed' = sclosed'
        BY <2>1, <3>1
      <3>3. QED
        BY <2>1, <3>2 DEF ClosedTogether
    <2>3. LastResponse'
      BY <1>1, ClosingStep DEF LastResponse
    <2>4. QED
      BY <2>2, <2>3
  <1>2. CASE Quiet
    <2>1. Placed'
      BY <1>2, NextPlaced
    <2>2. ClosedTogether'
      BY <1>2, <2>1 DEF Quiet, Placed, ConnInv, ClosedTogether
    <2>3. peer' = "open" => peer = "open"
      BY StepIsStreamStep, PeerStaysAway
    <2>4. LastResponse'
      BY <1>2, <2>1, <2>3 DEF Quiet, Placed, ConnInv, LastResponse
    <2>5. QED
      BY <2>2, <2>4
  <1>3. QED
    BY <1>1, <1>2, QuietStep

LEMMA NextCallbacks == StreamInv /\ ConnInv /\ [Next]_vars => Callbacks'
  <1> SUFFICES ASSUME StreamInv, ConnInv, [Next]_vars
               PROVE  Callbacks'
    OBVIOUS
  <1>0. Callbacks /\ base \in {"opened", "write", "error"}
    BY BaseType DEF ConnInv
  <1>1. readHandler' \in ReadHandlers \cup {NoHandler}
    <2>1. CASE SearchBytes \/ SearchUntil
      BY <2>1 DEF SearchBytes, SearchUntil, Deliver
    <2>2. CASE ConnConstruct \/ get_header
      BY <1>0, <2>2 DEF ConnConstruct, get_header, read_bytes, NextRequest, AwaitHeader,
                        read_until, ReadHandlers, Callbacks
    <2>3. ASSUME NEW reply \in Replies, get_body(reply)
          PROVE  readHandler' \in ReadHandlers \cup {NoHandler}
      BY <1>0, <2>3 DEF get_body, NextRequest, AwaitHeader, read_until, ReadHandlers, Callbacks,
                        handler_ran
    <2>4. CASE UNCHANGED readHandler
      BY <1>0, <2>4 DEF Callbacks
    <2>6. CASE get_body_drops
      BY <2>6, DropStep DEF AwaitsHeader, ReadHandlers
    <2>5. QED
      BY <2>1, <2>2, <2>3, <2>4, <2>6
         DEF Next, Thread, Environment, Peer, ClientSend, ClientFin, ClientReset, ClientDrain,
             StreamStep, StreamCloseStep, Construct, ConnOpened, Opened, EpollWait, RecvData,
             RecvWouldBlock, RecvFailed, SearchNothing, SearchOverrun, WriteEnter, SendSome,
             SendBlocked, SendFailed, SendClosed, Written, PollReturn, PollError,
             get_body_throws, on_write_returns, on_write_closes, ClientCloses, ClientThrows,
             readVars, streamVars, vars
  <1>2. writeHandler' \in {"on_write", NoHandler}
    <2>1. CASE Written
      BY <2>1 DEF Written
    <2>2. ASSUME NEW reply \in Replies, get_body(reply)
          PROVE  writeHandler' \in {"on_write", NoHandler}
      BY <1>0, <2>2 DEF get_body, respond, write_bytes, OnWrite, Callbacks, handler_ran
    <2>3. CASE UNCHANGED writeHandler
      BY <1>0, <2>3 DEF Callbacks
    <2>5. CASE get_body_drops
      BY <1>0, <2>5, DropStep DEF Callbacks
    <2>4. QED
      BY <2>1, <2>2, <2>3, <2>5
         DEF Next, Thread, Environment, Peer, ClientSend, ClientFin, ClientReset, ClientDrain,
             StreamStep, StreamCloseStep, Construct, ConnConstruct, ConnOpened, Opened,
             EpollWait, RecvData, RecvWouldBlock, RecvFailed, SearchBytes, SearchUntil,
             SearchNothing, SearchOverrun, WriteEnter, SendSome, SendBlocked, SendFailed,
             SendClosed, PollReturn, PollError, get_header, get_body_throws,
             on_write_returns, on_write_closes, ClientCloses, ClientThrows,
             writeVars, streamVars, vars
  <1>3. ASSUME pc' = "client"
        PROVE  /\ callee' \in {"constructor", "header", "body", "on_write"}
               /\ callee' = "on_write" => base' = "error"
    <2>1. CASE UNCHANGED <<pc, callee, base>>
      BY <1>0, <1>3, <2>1 DEF Callbacks
    <2>2. CASE Construct
      BY <2>2 DEF Construct
    <2>3. CASE SearchBytes \/ SearchUntil
      <3>1. callee' = readHandler /\ readHandler # NoHandler
        BY <1>0, <1>3, <2>3 DEF SearchBytes, SearchUntil, Deliver, Call
      <3>2. QED
        BY <1>0, <3>1 DEF Callbacks, ReadHandlers
    <2>4. CASE Written
      BY <1>0, <1>3, <2>4 DEF Written, Call, Callbacks
    <2>5. CASE get_header
      BY <1>0, <1>3, <2>5 DEF get_header, read_bytes, NextRequest, AwaitHeader, read_until,
                              Look, Return
    <2>6. CASE ConnConstruct \/ ConnOpened \/ on_write_returns \/ get_body_throws
      BY <1>0, <1>3, <2>6 DEF ConnConstruct, AwaitHeader, read_until, Look, Return,
                              ConnOpened, Opened, on_write_returns, get_body_throws,
                              ClientThrows
    <2>7. ASSUME NEW reply \in Replies, get_body(reply)
          PROVE  FALSE
      BY <1>0, <1>3, <2>7 DEF get_body, NextRequest, AwaitHeader, read_until, Look, Return,
                              handler_ran
    <2>8. CASE EpollWait \/ RecvData \/ RecvWouldBlock \/ SearchNothing \/ SearchOverrun
      BY <1>0, <1>3, <2>8 DEF EpollWait, RecvData, RecvAgain, RecvWouldBlock, SearchNothing,
                              SearchOverrun
    <2>9. CASE WriteEnter \/ SendSome \/ SendBlocked \/ SendClosed \/ PollReturn
      BY <1>3, <2>9 DEF WriteEnter, SendSome, SendAgain, SendBlocked, SendClosed, PollReturn
    <2>10. CASE StreamCloseStep \/ on_write_closes
      BY <1>0, <1>3, <2>10 DEF StreamCloseStep, RecvFailed, SendFailed, PollError,
                               on_write_closes, ClientCloses, Return
    <2>11. CASE Peer \/ UNCHANGED vars
      BY <2>1, <2>11 DEF Peer, ClientSend, ClientFin, ClientReset, ClientDrain, stackVars,
                         callVars, streamVars, vars
    <2>13. CASE get_body_drops
      BY <1>3, <2>13, DropStep
    <2>12. QED
      BY <2>2, <2>3, <2>4, <2>5, <2>6, <2>7, <2>8, <2>9, <2>10, <2>11, <2>13
         DEF Next, Thread, Environment, StreamStep
  <1>4. QED
    BY <1>1, <1>2, <1>3 DEF Callbacks

\* What has been read and not answered; the three ways in which a thread that is in
\* none of the connection's handlers may find it.
Idle == \/ closeAfter /\ AwaitsNothing /\ parsed = answered + dropped
        \/ ~closeAfter /\ AwaitsHeader /\ parsed = answered + dropped
        \/ ~closeAfter /\ AwaitsBody /\ parsed = answered + dropped + 1

LEMMA IdleIn ==
    ASSUME ConnInv, Running,
           ~(pc = "accepted" \/ (pc = "client" /\ callee \in {"constructor", "header", "body"}))
    PROVE  Idle
  BY DEF ConnInv, Reading, Idle

LEMMA IdleOut ==
    ASSUME Idle',
           ~(pc' = "accepted" \/ (pc' = "client" /\ callee' \in {"constructor", "header", "body"}))
    PROVE  Reading'
  BY DEF Reading, Idle

LEMMA NextReading == StreamInv /\ ConnInv /\ [Next]_vars => Reading'
  <1> SUFFICES ASSUME StreamInv, ConnInv, [Next]_vars, Running'
               PROVE  Reading'
    BY DEF Reading
  <1>0. /\ Reading /\ base \in {"opened", "write", "error"}
        /\ readHandler \in ReadHandlers \cup {NoHandler}
        /\ writeHandler \in {"on_write", NoHandler}
        /\ pc \in {"accepted", "client", "recv", "search", "written"} => ~sclosed
    BY BaseType DEF ConnInv, Callbacks, ClosedTogether
  <1>1. ASSUME UNCHANGED <<connVars, readNum, readUntil, readHandler>>
        PROVE  /\ Idle => Idle'
               /\ AwaitsNothing => AwaitsNothing'
               /\ UNCHANGED <<closeAfter, parsed, answered, dropped>>
    BY <1>1 DEF connVars, Idle, AwaitsNothing, AwaitsHeader, AwaitsBody
  <1>2. CASE (Peer /\ UNCHANGED connVars) \/ UNCHANGED vars
    <2>1. UNCHANGED <<pc, sclosed, callee, readNum, readUntil, readHandler, closeAfter,
                      request, parsed, answered, dropped>>
      BY <1>2 DEF Peer, ClientSend, ClientFin, ClientReset, ClientDrain, objectVars, callVars,
                  readVars, connVars, streamVars, vars
    <2>2. QED
      BY <1>0, <2>1 DEF Reading, Running, AwaitsNothing, AwaitsHeader, AwaitsBody
  <1>3. CASE Construct /\ UNCHANGED connVars
    <2>1. ~closeAfter /\ AwaitsNothing /\ parsed = answered + dropped
      BY <1>0, <1>3 DEF Construct, Reading, Running, Dead
    <2>2. UNCHANGED <<readNum, readUntil, readHandler>>
      BY <1>3 DEF Construct, readVars
    <2>3. pc' = "client" /\ callee' = "constructor"
      BY <1>3 DEF Construct
    <2>4. QED
      BY <1>1, <1>3, <2>1, <2>2, <2>3 DEF Reading
  <1>4. CASE ConnConstruct
    <2>1. ~sclosed /\ ~closeAfter /\ AwaitsNothing /\ parsed = answered + dropped
      BY <1>4, AtHandler DEF ConnConstruct
    <2>2. Idle' /\ pc' = "search"
      BY <1>4, <2>1 DEF ConnConstruct, AwaitHeader, read_until, Look, connVars, Idle,
                        AwaitsNothing, AwaitsHeader
    <2>3. QED
      BY <2>2, IdleOut
  <1>5. ASSUME UNCHANGED <<sclosed, connVars, readNum, readUntil, readHandler>>,
               pc \notin Dead \cup {"accepted", "client"},
               pc' # "accepted", pc' = "client" => callee' = "on_write"
        PROVE  Reading'
    <2>1. Running
      BY <1>5 DEF Running
    <2>2. Idle'
      BY <1>1, <1>5, <2>1, IdleIn DEF Running
    <2>3. QED
      BY <1>5, <2>2, IdleOut
  <1>6. CASE SearchBytes /\ UNCHANGED connVars
    <2>1. Idle
      BY <1>0, <1>6, IdleIn DEF SearchBytes, Running, Dead
    <2>2. ~closeAfter /\ AwaitsBody /\ parsed = answered + dropped + 1
      BY <1>6, <2>1 DEF SearchBytes, BytesReady, Idle, AwaitsNothing, AwaitsHeader
    <2>3. /\ pc' = "client" /\ callee' = "body" /\ AwaitsNothing'
          /\ UNCHANGED <<closeAfter, parsed, answered, dropped>>
      BY <1>6, <2>2, HandlerTypes
         DEF SearchBytes, Deliver, Call, AwaitsBody, AwaitsNothing, connVars
    <2>4. QED
      BY <2>2, <2>3 DEF Reading
  <1>7. CASE SearchUntil /\ UNCHANGED connVars
    <2>1. Idle
      BY <1>0, <1>7, IdleIn DEF SearchUntil, Running, Dead
    <2>2. ~closeAfter /\ AwaitsHeader /\ parsed = answered + dropped
      BY <1>7, <2>1 DEF SearchUntil, Searching, Idle, AwaitsNothing, AwaitsBody
    <2>3. /\ pc' = "client" /\ callee' = "header" /\ AwaitsNothing'
          /\ UNCHANGED <<closeAfter, parsed, answered, dropped>>
      BY <1>7, <2>2, HandlerTypes
         DEF SearchUntil, Deliver, Call, AwaitsHeader, AwaitsNothing, connVars
    <2>4. QED
      BY <2>2, <2>3 DEF Reading
  <1>8. CASE (EpollWait \/ RecvData \/ RecvWouldBlock \/ SearchNothing) /\ UNCHANGED connVars
    <2>1. UNCHANGED <<sclosed, readNum, readUntil, readHandler>>
      BY <1>8 DEF EpollWait, RecvData, RecvWouldBlock, SearchNothing, objectVars, readVars
    <2>2. pc \in {"wait", "recv", "search"}
          /\ pc' \in {"wait", "recv", "search", "write", "opened", "error"}
      BY <1>0, <1>8 DEF EpollWait, RecvData, RecvAgain, RecvWouldBlock, SearchNothing
    <2>3. QED
      BY <1>5, <1>8, <2>1, <2>2 DEF Dead
  <1>9. CASE (WriteEnter \/ SendSome \/ SendBlocked \/ SendClosed \/ Written \/ PollReturn)
             /\ UNCHANGED connVars
    <2>1. UNCHANGED <<sclosed, readNum, readUntil, readHandler>>
      BY <1>9 DEF WriteEnter, SendSome, SendBlocked, SendClosed, Written, PollReturn,
                  objectVars, readVars
    <2>2. /\ pc \in {"write", "send", "written", "error"} /\ pc' # "accepted"
          /\ pc' = "client" => callee' = "on_write"
      BY <1>0, <1>9 DEF WriteEnter, SendSome, SendAgain, SendBlocked, SendClosed, Written,
                        Call, PollReturn
    <2>3. QED
      BY <1>5, <1>9, <2>1, <2>2 DEF Dead
  <1>10. CASE ConnOpened
    <2>1. UNCHANGED <<sclosed, readNum, readUntil, readHandler, closeAfter, request, parsed,
                      answered, dropped>>
      BY <1>10 DEF ConnOpened, Opened, objectVars, readVars
    <2>2. Idle /\ pc' = "wait"
      BY <1>10, <2>1, IdleIn DEF ConnOpened, Opened, Running, Dead
    <2>3. Idle'
      BY <2>1, <2>2 DEF Idle, AwaitsNothing, AwaitsHeader, AwaitsBody
    <2>4. QED
      BY <2>2, <2>3, IdleOut
  <1>11. CASE get_header
    <2>1. /\ ~sclosed /\ ~closeAfter /\ AwaitsNothing /\ parsed = answered + dropped
          /\ data[Len(data)] \in Requests
      BY <1>11, AtHandler DEF get_header
    <2>2. UNCHANGED <<closeAfter, answered, dropped, sclosed>>
      BY <1>11 DEF get_header, ClientFrame, objectVars
    <2>3. CASE ~data[Len(data)].ok
      <3>1. AwaitHeader /\ UNCHANGED <<request, parsed>>
        BY <1>11, <2>1, <2>3 DEF get_header, NextRequest, ReadsOn
      <3>2. Idle' /\ pc' = "search"
        BY <2>1, <2>2, <3>1 DEF AwaitHeader, read_until, Look, Idle, AwaitsNothing,
                                AwaitsHeader
      <3>3. QED
        BY <3>2, IdleOut
    <2>4. CASE data[Len(data)].ok
      <3> DEFINE r == data[Len(data)]
      <3>1. /\ request' = r /\ parsed' = answered' + dropped' + 1 /\ UNCHANGED readUntil
            /\ read_bytes(r.len, "body")
        BY <1>11, <2>1, <2>2, <2>4 DEF get_header
      <3>2. CASE r.len = 0
        <4>1. pc' = "client" /\ callee' = "body" /\ AwaitsNothing'
          BY <2>1, <3>1, <3>2 DEF read_bytes, AwaitsNothing
        <4>2. QED
          BY <2>1, <2>2, <3>1, <4>1 DEF Reading
      <3>3. CASE r.len # 0
        <4>1. readNum' = AsInt(r.len) /\ readHandler' = "body" /\ pc' = "search"
          BY <2>1, <3>1, <3>3 DEF read_bytes, Look
        <4>2. AwaitsBody'
          BY <2>1, <3>1, <4>1 DEF AwaitsBody, AwaitsNothing, AsInt
        <4>3. QED
          BY <2>1, <2>2, <3>1, <4>1, <4>2, IdleOut DEF Idle
      <3>4. QED
        BY <3>2, <3>3
    <2>5. QED
      BY <2>3, <2>4
  <1>12. ASSUME NEW reply \in Replies, get_body(reply)
         PROVE  Reading'
    <2>1. ~sclosed /\ AwaitsNothing /\ parsed = answered + dropped + 1
      BY <1>12, AtHandler DEF get_body, handler_ran
    <2>2. answered' = answered + 1 /\ UNCHANGED <<parsed, dropped>>
      BY <1>12, ConstantTypes DEF get_body, respond, Package, handler_ran
    <2>6. parsed' = answered' + dropped'
      BY <2>1, <2>2, CountTypes
    <2>3. CASE closeAfter'
      <3>1. Return /\ UNCHANGED <<readNum, readUntil, readHandler>>
        BY <1>12, <2>3 DEF get_body, NextRequest, ReadsOn, handler_ran
      <3>2. AwaitsNothing' /\ pc' \in {"opened", "write", "error"}
        BY <1>0, <2>1, <3>1 DEF AwaitsNothing, Return
      <3>3. Idle'
        BY <2>3, <2>6, <3>2 DEF Idle
      <3>4. QED
        BY <3>2, <3>3, IdleOut
    <2>4. CASE ~closeAfter'
      <3>1. AwaitHeader
        BY <1>12, <2>4 DEF get_body, NextRequest, ReadsOn, handler_ran
      <3>2. AwaitsHeader' /\ pc' = "search"
        BY <2>1, <3>1 DEF AwaitHeader, read_until, Look, AwaitsNothing, AwaitsHeader
      <3>3. Idle'
        BY <2>4, <2>6, <3>2 DEF Idle
      <3>4. QED
        BY <3>2, <3>3, IdleOut
    <2>5. QED
      BY <2>3, <2>4
  <1>13. CASE on_write_returns
    <2>1. /\ UNCHANGED <<sclosed, readNum, readUntil, readHandler, closeAfter, request,
                         parsed, answered, dropped>>
          /\ pc = "client" /\ callee = "on_write" /\ pc' \in {"opened", "write", "error"}
      BY <1>0, <1>13 DEF on_write_returns, Return, ClientFrame, objectVars, connVars
    <2>2. Idle
      BY <1>0, <2>1, IdleIn DEF Running, Dead
    <2>3. Idle'
      BY <2>1, <2>2 DEF Idle, AwaitsNothing, AwaitsHeader, AwaitsBody
    <2>4. QED
      BY <2>1, <2>3, IdleOut
  <1>14. CASE SearchOverrun \/ get_body_throws
    BY <1>14 DEF SearchOverrun, get_body_throws, ClientThrows, Running, Dead
  <1>15. CASE (StreamCloseStep /\ ConnectionClosed) \/ on_write_closes
    BY <1>15, ClosingStep DEF Running
  <1>17. CASE get_body_drops
    <2>1. /\ ~closeAfter' /\ AwaitsHeader' /\ pc' = "search"
          /\ parsed' = answered' + dropped'
      BY <1>17, DropStep, CountTypes
    <2>2. QED
      BY <2>1, IdleOut DEF Idle
  <1>16. QED
    BY <1>2, <1>3, <1>4, <1>6, <1>7, <1>8, <1>9, <1>10, <1>11, <1>12, <1>13, <1>14, <1>15,
       <1>17
       DEF Next, Thread, Environment, StreamStep

LEMMA NextCounts == StreamInv /\ ConnInv /\ [Next]_vars => Counts'
  <1> SUFFICES ASSUME StreamInv, ConnInv, [Next]_vars
               PROVE  Counts'
    OBVIOUS
  <1>0. /\ Len(input) <= MaxInput /\ parsed <= consumed /\ nwritten = RespLen * answered
        /\ pc = "client" /\ callee = "header" =>
             parsed < consumed /\ Len(data) > 0 /\ data[Len(data)] \in Requests
    BY DEF ConnInv, Counts
  <1>1. ASSUME UNCHANGED <<input, parsed, consumed, nwritten, answered>>,
               \/ pc' # "client" \/ callee' # "header"
               \/ UNCHANGED <<pc, callee, data>>
        PROVE  Counts'
    BY <1>0, <1>1 DEF Counts
  <1>2. ASSUME NEW u \in Units, ClientSend(u), UNCHANGED connVars
        PROVE  Counts'
    <2>1. Len(input') <= MaxInput
      <3>1. Len(input) < MaxInput /\ input' = Append(input, u)
        BY <1>2 DEF ClientSend
      <3>2. input \in Seq(Units)
        BY DEF StreamInv, StreamTypeOK
      <3>3. Len(input') = Len(input) + 1 /\ Len(input) \in Nat
        BY <3>1, <3>2
      <3>4. QED
        BY <3>1, <3>3, ConstantTypes
    <2>2. UNCHANGED <<parsed, consumed, nwritten, answered, dropped, pc, callee, data>>
      BY <1>2 DEF ClientSend, writeVars, callVars, connVars
    <2>3. QED
      BY <1>0, <2>1, <2>2 DEF Counts
  <1>3. CASE SearchBytes /\ UNCHANGED connVars
    <2>1. consumed' = consumed + Len(rdbuf) /\ UNCHANGED <<input, parsed, nwritten, answered, dropped>>
      BY <1>3 DEF SearchBytes, Deliver, writeVars, connVars
    <2>2. parsed' <= consumed'
      BY <1>0, <2>1, CountTypes, QueueTypes DEF StreamInv
    <2>3. ~(pc' = "client" /\ callee' = "header")
      <3>1. Idle
        BY <1>3, IdleIn DEF SearchBytes, Running, Dead, ConnInv, ClosedTogether
      <3>2. readHandler = "body"
        BY <1>3, <3>1 DEF SearchBytes, BytesReady, Idle, AwaitsNothing, AwaitsHeader, AwaitsBody
      <3>3. QED
        BY <1>3, <3>2, HandlerTypes DEF SearchBytes, Deliver, Call
    <2>4. QED
      BY <1>0, <2>1, <2>2, <2>3 DEF Counts
  <1>4. CASE SearchUntil /\ UNCHANGED connVars
    <2>1. PICK i \in DOMAIN rdbuf : EndsAt(i) /\ Deliver(SubSeq(rdbuf, 1, i))
      BY <1>4 DEF SearchUntil
    <2>2. UNCHANGED <<input, parsed, nwritten, answered, dropped>>
      BY <1>4 DEF SearchUntil, writeVars, connVars
    <2>3. i \in 1..Len(rdbuf) /\ rdbuf[i] \in Requests
      BY <2>1, QueueTypes DEF EndsAt, Requests, StreamInv
    <2>4. /\ data' = SubSeq(rdbuf, 1, i)
          /\ consumed' = consumed + Len(SubSeq(rdbuf, 1, i))
      BY <2>1 DEF Deliver
    <2>5. Len(SubSeq(rdbuf, 1, i)) = i /\ SubSeq(rdbuf, 1, i)[i] = rdbuf[i]
      BY <2>3, QueueTypes, FirstOf DEF StreamInv
    <2>6. Len(data') > 0 /\ data'[Len(data')] \in Requests
      BY <2>3, <2>4, <2>5
    <2>7. parsed' < consumed' /\ parsed' <= consumed'
      <3>1. consumed' = consumed + i /\ parsed' = parsed
        BY <2>2, <2>4, <2>5
      <3>2. i \in Nat /\ i > 0
        BY <2>3
      <3>3. QED
        BY <1>0, <3>1, <3>2, CountTypes
    <2>8. QED
      BY <1>0, <2>2, <2>6, <2>7 DEF Counts
  <1>5. CASE get_header
    <2>1. UNCHANGED <<input, consumed, nwritten, answered, dropped>> /\ parsed' \in {parsed, parsed + 1}
      BY <1>5 DEF get_header, ClientFrame
    <2>2. pc = "client" /\ callee = "header"
      BY <1>5 DEF get_header
    <2>3. parsed' <= consumed'
      BY <1>0, <2>1, <2>2, CountTypes
    <2>4. ~(pc' = "client" /\ callee' = "header")
      BY <1>5, BaseType DEF get_header, read_bytes, NextRequest, AwaitHeader, read_until,
                            Look, Return
    <2>5. QED
      BY <1>0, <2>1, <2>3, <2>4 DEF Counts
  <1>6. ASSUME NEW reply \in Replies, get_body(reply)
        PROVE  Counts'
    <2>1. ~sclosed
      BY <1>6, AtHandler DEF get_body, handler_ran
    <2>2. /\ UNCHANGED <<input, consumed, parsed>>
          /\ nwritten' = nwritten + RespLen /\ answered' = answered + 1
      BY <1>6, <2>1, ConstantTypes DEF get_body, ClientFrame, respond, Package, write_bytes,
                                       handler_ran
    <2>3. nwritten' = RespLen * answered'
      BY <1>0, <2>2, CountTypes, ConstantTypes
    <2>4. pc' # "client"
      BY <1>6, BaseType DEF get_body, NextRequest, AwaitHeader, read_until, Look, Return,
                            handler_ran
    <2>5. QED
      BY <1>0, <2>2, <2>3, <2>4 DEF Counts
  <1>7. CASE (Construct \/ Written) /\ UNCHANGED connVars
    <2>1. pc' # "client" \/ callee' # "header"
      BY <1>7, BaseType DEF Construct, Written, Call, ConnInv, Callbacks
    <2>2. UNCHANGED <<input, parsed, consumed, nwritten, answered, dropped>>
      BY <1>7 DEF Construct, Written, writeVars, history, connVars
    <2>3. QED
      BY <1>1, <2>1, <2>2
  <1>8. CASE ConnConstruct \/ ConnOpened \/ get_body_throws \/ on_write_returns
    <2>1. pc' # "client"
      BY <1>8, BaseType DEF ConnConstruct, AwaitHeader, read_until, Look, Return, ConnOpened,
                            Opened, get_body_throws, ClientThrows, on_write_returns
    <2>2. UNCHANGED <<input, parsed, consumed, nwritten, answered, dropped>>
      BY <1>8 DEF ConnConstruct, ConnOpened, Opened, get_body_throws, ClientThrows,
                  on_write_returns, ClientFrame, writeVars, history, connVars
    <2>3. QED
      BY <1>1, <2>1, <2>2
  <1>9. CASE (StreamCloseStep /\ ConnectionClosed) \/ on_write_closes
    <2>1. pc' # "client" /\ UNCHANGED <<parsed, answered, dropped>>
      BY <1>9, ClosingStep
    <2>2. UNCHANGED <<input, consumed, nwritten>>
      BY <1>9 DEF StreamCloseStep, RecvFailed, SendFailed, PollError, on_write_closes,
                  ClientCloses, writeVars, history
    <2>3. QED
      BY <1>1, <2>1, <2>2
  <1>10. CASE (EpollWait \/ RecvData \/ RecvWouldBlock \/ SearchNothing \/ SearchOverrun)
              /\ UNCHANGED connVars
    <2>1. UNCHANGED <<input, parsed, consumed, nwritten, answered, dropped>>
      BY <1>10 DEF EpollWait, RecvData, RecvWouldBlock, SearchNothing, SearchOverrun,
                   writeVars, history, connVars
    <2>2. pc' # "client"
      BY <1>10, BaseType DEF EpollWait, RecvData, RecvAgain, RecvWouldBlock, SearchNothing,
                             SearchOverrun
    <2>3. QED
      BY <1>1, <2>1, <2>2
  <1>11. CASE (WriteEnter \/ SendSome \/ SendBlocked \/ SendClosed \/ PollReturn)
              /\ UNCHANGED connVars
    <2>1. UNCHANGED <<input, parsed, consumed, nwritten, answered, dropped>>
      BY <1>11 DEF WriteEnter, SendSome, SendBlocked, SendClosed, PollReturn, writeVars,
                   history, connVars
    <2>2. pc' # "client"
      BY <1>11 DEF WriteEnter, SendSome, SendAgain, SendBlocked, SendClosed, PollReturn
    <2>3. QED
      BY <1>1, <2>1, <2>2
  <1>12. CASE (ClientFin \/ ClientReset \/ ClientDrain) /\ UNCHANGED connVars
    BY <1>1, <1>12 DEF ClientFin, ClientReset, ClientDrain, writeVars, callVars, history,
                       connVars
  <1>15. CASE get_body_drops
    <2>1. pc' # "client" /\ UNCHANGED <<parsed, nwritten, answered>> /\ ClientFrame
      BY <1>15, DropStep
    <2>2. QED
      BY <1>1, <2>1 DEF ClientFrame
  <1>13. CASE UNCHANGED vars
    BY <1>1, <1>13 DEF vars, streamVars, writeVars, callVars, history, connVars
  <1>14. QED
    BY <1>2, <1>3, <1>4, <1>5, <1>6, <1>7, <1>8, <1>9, <1>10, <1>11, <1>12, <1>13, <1>15
       DEF Next, Thread, Environment, Peer, StreamStep

\* closeAfter is set by the body handler only, after which no header is parsed.
LEMMA NextLastRequest == StreamInv /\ ConnInv /\ [Next]_vars => LastRequest'
  <1> SUFFICES ASSUME StreamInv, ConnInv, [Next]_vars, closeAfter'
               PROVE  /\ parsed' = answered' + dropped'
                      /\ \/ lastReply' = "close"
                         \/ lastReply' = "ok" /\ request'.conn = NoValue
    BY DEF LastRequest
  <1>0. LastRequest
    BY DEF ConnInv
  <1>1. CASE UNCHANGED <<closeAfter, request, parsed, answered, dropped, lastReply>>
    BY <1>0, <1>1 DEF LastRequest
  <1>2. CASE get_header
    BY <1>2, AtHandler DEF get_header
  <1>3. CASE get_body_drops
    BY <1>3, DropStep
  <1>4. ASSUME NEW reply \in Replies, get_body(reply)
        PROVE  /\ parsed' = answered' + dropped'
               /\ \/ lastReply' = "close"
                  \/ lastReply' = "ok" /\ request'.conn = NoValue
    <2>1. ~closeAfter /\ parsed = answered + dropped + 1
      BY <1>4, AtHandler DEF get_body, handler_ran
    <2>2. answered' = answered + 1 /\ UNCHANGED <<parsed, dropped, request>>
          /\ lastReply' = reply
      BY <1>4, ConstantTypes DEF get_body, handler_ran, respond, Package
    <2>3. parsed' = answered' + dropped'
      BY <2>1, <2>2, CountTypes
    <2>4. /\ reply \in {"ok", "close", "error"}
          /\ reply = "close" \/ (reply # "error" /\ ci_equal(request.conn, "close"))
      BY <1>4, <2>1 DEF get_body
    <2>5. reply = "close" \/ (reply = "ok" /\ request.conn = NoValue)
      BY <2>4, OnlyEmptyIsClose
    <2>6. QED
      BY <2>2, <2>3, <2>5
  <1>5. CASE (StreamCloseStep /\ ConnectionClosed) \/ on_write_closes
    BY <1>1, <1>5 DEF ConnectionClosed, on_write_closes
  <1>6. QED
    BY <1>1, <1>2, <1>3, <1>4, <1>5
       DEF Next, Thread, Environment, ConnConstruct, ConnOpened, get_body_throws,
           on_write_returns, connVars, vars

LEMMA InitConnInv == Init => ConnInv
  <1> SUFFICES ASSUME Init
               PROVE  ConnInv
    OBVIOUS
  <1>1. Callbacks /\ ErrorsAreEnds /\ ClosedTogether /\ LastResponse
    BY DEF Init, StreamInit, Callbacks, ErrorsAreEnds, ClosedTogether, LastResponse
  <1>6. Reading
    <2>1. /\ pc = "accepted" /\ ~closeAfter /\ AwaitsNothing
          /\ parsed = 0 /\ answered = 0 /\ dropped = 0
      BY DEF Init, StreamInit, AwaitsNothing
    <2>2. QED
      BY <2>1 DEF Reading
  <1>5. LastRequest
    BY DEF Init, LastRequest
  <1>4. ConnTypes
    BY DEF Init, ConnTypes
  <1>2. Counts
    <2>1. input = <<>> /\ parsed = 0 /\ consumed = 0 /\ nwritten = 0 /\ answered = 0
          /\ pc # "client"
      BY DEF Init, StreamInit
    <2>2. RespLen * 0 = 0 /\ Len(<<>>) = 0
      BY ConstantTypes
    <2>3. QED
      BY <2>1, <2>2, ConstantTypes DEF Counts
  <1>3. QED
    BY <1>1, <1>2, <1>4, <1>5, <1>6 DEF ConnInv

LEMMA NextConnInv == StreamInv /\ ConnInv /\ [Next]_vars => ConnInv'
  BY NextConnTypes, NextCallbacks, NextCounts, NextErrorsAreEnds, NextClosed, NextLastRequest,
     NextReading
     DEF ConnInv

\* The invariant of the stream holds because the connection is one of its clients.
LEMMA ConnectionInvariant == Spec => [](StreamInv /\ ConnInv)
  <1>1. Init => StreamInv /\ ConnInv
    BY InitStreamInv, InitConnInv DEF Init
  <1>2. StreamInv /\ ConnInv /\ [Next]_vars => (StreamInv /\ ConnInv)'
    BY StepIsStreamStep, NextStreamInv, NextConnInv
  <1>3. QED
    BY <1>1, <1>2, PTL DEF Spec

-----------------------------------------------------------------------------
(* What follows for every execution.                                         *)

\* Every variable of the connection and of its stream keeps its type.
THEOREM TypeCorrect == Spec => []TypeOK
  <1>1. StreamInv /\ ConnInv => TypeOK
    BY DEF StreamInv, ConnInv, ConnTypes, TypeOK
  <1>2. QED
    BY <1>1, ConnectionInvariant, PTL

\* The handlers of the connection use their stream as any client may: whatever was
\* proved of IOStream with an arbitrary client holds of the stream of a connection.
THEOREM ConnectionUsesStream == Spec => StreamSpec
  <1>1. Init => StreamInit
    BY DEF Init
  <1>2. QED
    BY <1>1, ConnectionInvariant, StepIsStreamStep, PTL DEF Spec, StreamSpec

\* An open connection that waits has a request to settle exactly when it reads a body,
\* every other one having been answered or given up by its handler, and unless it is
\* finishing it has an outstanding read, which some input satisfies except for a
\* Content-Length that is negative as an int.
THEOREM ListensWhileOpen == Spec => []AlwaysListening
  <1>1. StreamInv /\ ConnInv => AlwaysListening
    <2> SUFFICES ASSUME StreamInv, ConnInv, pc = "wait", ~sclosed
                 PROVE  /\ parsed = answered + dropped
                                     + (IF readHandler = "body" THEN 1 ELSE 0)
                        /\ \/ closeAfter
                           \/ readHandler = "header" /\ Searching
                           \/ readHandler = "body" /\ (readNum >= 0 \/ AsInt(request.len) < 0)
      BY DEF AlwaysListening
    <2>1. Idle
      BY IdleIn DEF Running, Dead
    <2>2. CASE closeAfter /\ AwaitsNothing /\ parsed = answered + dropped
      BY <2>2, HandlerTypes, CountTypes DEF AwaitsNothing
    <2>3. CASE AwaitsHeader /\ parsed = answered + dropped
      BY <2>3, CountTypes DEF AwaitsHeader, Searching
    <2>4. CASE AwaitsBody /\ parsed = answered + dropped + 1
      <3>1. readNum \in Int
        BY DEF StreamInv, StreamTypeOK
      <3>2. readNum >= 0 \/ AsInt(request.len) < 0
        BY <2>4, <3>1 DEF AwaitsBody
      <3>3. QED
        BY <2>4, <3>2 DEF AwaitsBody
    <2>5. QED
      BY <2>1, <2>2, <2>3, <2>4 DEF Idle
  <1>2. QED
    BY <1>1, ConnectionInvariant, PTL

\* A connection whose peer is still there is closed only after its last request was
\* settled, because the handler of that request set response.close or because its
\* Connection value is empty.
THEOREM ClosesForAReason == Spec => []HangsUpForAReason
  <1>1. ConnInv => HangsUpForAReason
    BY DEF ConnInv, LastResponse, LastRequest, HangsUpForAReason
  <1>2. QED
    BY <1>1, ConnectionInvariant, PTL

\* The event loop's callback uses a destroyed stream only when the peer has gone.
THEOREM FreedOnlyWithoutPeer == Spec => []LivePeerNeverFreed
  <1>1. ConnInv => LivePeerNeverFreed
    BY DEF ConnInv, ClosedTogether, LastResponse, LivePeerNeverFreed
  <1>2. QED
    BY <1>1, ConnectionInvariant, PTL

\* The phase of a connection changes only when it is built, when the accept handler
\* sets its close callback, and when something closes it.
LEMMA PhaseStep ==
    ASSUME StreamInv, ConnInv, [Next]_vars
    PROVE  \/ Phase' = Phase
           \/ <<Phase, Phase'>> \in Life!Moves
  <1>0. /\ cclosed = sclosed /\ (~alive => sclosed)
        /\ pc = "accepted" => ~sclosed /\ ~closeCb /\ alive
        /\ sclosed' \in BOOLEAN /\ cclosed' \in BOOLEAN
        /\ sclosed \in BOOLEAN /\ cclosed \in BOOLEAN
    BY StepIsStreamStep, NextStreamInv, NextConnTypes
       DEF ConnInv, ClosedTogether, StreamInv, StreamTypeOK, ConnTypes
  <1>1. CASE (StreamCloseStep /\ ConnectionClosed) \/ on_write_closes
    <2>1. pc # "accepted" /\ pc' # "accepted"
      BY <1>1, ClosingStep DEF StreamCloseStep, RecvFailed, SendFailed, PollError,
                               on_write_closes, ClientCloses
    <2>2. ~sclosed /\ sclosed' /\ cclosed' /\ alive' = ~closeCb
      BY <1>1, ClosingStep
    <2>3. CASE closeCb
      <3>1. Phase = "open"
        BY <1>0, <2>1, <2>2, <2>3 DEF Phase
      <3>2. Phase' = "destroyed"
        <4>1. ~alive'
          BY <2>2, <2>3
        <4>2. QED
          BY <2>1, <4>1 DEF Phase
      <3>3. QED
        BY <3>1, <3>2 DEF Life!Moves
    <2>4. CASE ~closeCb
      <3>1. Phase = "constructing"
        BY <1>0, <2>1, <2>2, <2>4 DEF Phase
      <3>2. Phase' = "leaked"
        <4>1. alive' /\ sclosed' /\ cclosed'
          BY <2>2, <2>4
        <4>2. QED
          BY <2>1, <4>1 DEF Phase
      <3>3. QED
        BY <3>1, <3>2 DEF Life!Moves
    <2>5. QED
      BY <2>3, <2>4
  <1>2. CASE Construct /\ UNCHANGED connVars
    <2>1. /\ pc = "accepted" /\ pc' = "client"
          /\ UNCHANGED <<sclosed, alive, cclosed, closeCb>>
      BY <1>2 DEF Construct, objectVars, connVars
    <2>2. Phase = "none" /\ Phase' = "constructing"
      BY <1>0, <2>1 DEF Phase
    <2>3. QED
      BY <2>2 DEF Life!Moves
  <1>3. CASE ConnOpened
    <2>1. /\ pc = "opened" /\ pc' = "wait" /\ closeCb' = TRUE
          /\ UNCHANGED <<sclosed, alive, cclosed>>
      BY <1>3 DEF ConnOpened, Opened, objectVars
    <2>2. Phase' = Phase \/ (Phase = "constructing" /\ Phase' = "open")
      BY <1>0, <2>1 DEF Phase
    <2>3. QED
      BY <2>2 DEF Life!Moves
  <1>4. CASE Quiet /\ UNCHANGED closeCb /\ (pc = "accepted" <=> pc' = "accepted")
    BY <1>4 DEF Quiet, Phase
  <1>5. CASE Quiet
    <2>1. CASE Peer /\ UNCHANGED connVars
      BY <1>4, <1>5, <2>1 DEF Peer, ClientSend, ClientFin, ClientReset, ClientDrain, connVars
    <2>2. CASE UNCHANGED vars
      BY <1>4, <1>5, <2>2 DEF vars, streamVars, connVars
    <2>3. ASSUME pc # "accepted", pc' # "accepted", UNCHANGED closeCb
          PROVE  Phase' = Phase
      BY <1>5, <2>3 DEF Quiet, Phase
    <2>4. CASE StreamStep /\ UNCHANGED connVars
      BY <2>3, <2>4, BaseType
         DEF StreamStep, EpollWait, RecvData, RecvAgain, RecvWouldBlock, SearchBytes,
             SearchUntil, Deliver, Call, SearchNothing, SearchOverrun, WriteEnter, SendSome,
             SendAgain, SendBlocked, SendClosed, Written, PollReturn, connVars
    <2>5. CASE ConnConstruct \/ get_header \/ on_write_returns \/ get_body_throws
      BY <2>3, <2>5, BaseType
         DEF ConnConstruct, get_header, read_bytes, NextRequest, AwaitHeader, read_until, Look,
             Return, on_write_returns, get_body_throws, ClientThrows, connVars
    <2>6. ASSUME NEW reply \in Replies, get_body(reply)
          PROVE  Phase' = Phase
      BY <2>3, <2>6, BaseType DEF get_body, NextRequest, AwaitHeader, read_until, Look, Return,
                                  handler_ran
    <2>8. CASE get_body_drops
      BY <2>3, <2>8, DropStep
    <2>7. QED
      BY <1>1, <1>2, <1>3, <2>1, <2>2, <2>4, <2>5, <2>6, <2>8 DEF Next, Thread, Environment
  <1>6. QED
    BY <1>1, <1>5, QuietStep

\* Whatever closes a connection, it is destroyed at once and once, and both closed
\* flags end up set, except that one which closes itself in its own constructor is
\* closed and never destroyed.
THEOREM LivesAsExpected == Spec => LifecycleSpec
  <1>1. Init => Life!Init
    BY DEF Init, StreamInit, Phase, Life!Init
  <1>2. StreamInv /\ ConnInv /\ [Next]_vars => [Life!Next]_Phase
    BY PhaseStep DEF Life!Next
  <1>3. QED
    BY <1>1, <1>2, ConnectionInvariant, PTL DEF Spec, LifecycleSpec, Life!Spec

\* Requests are answered, or given up by their handlers, one after the other, on an
\* open connection only, and none follows the response that announced the end.
THEOREM RequestsAlternate == Spec => RequestReplySpec
  <1>1. Init => Exchange!Init
    BY DEF Init, StreamInit, Exchange!Init
  <1>2. StreamInv /\ ConnInv /\ [Next]_vars => [Exchange!Next]_Exchange!exchange
    <2> SUFFICES ASSUME StreamInv, ConnInv, [Next]_vars
                 PROVE  [Exchange!Next]_Exchange!exchange
      OBVIOUS
    <2>1. CASE get_header
      <3>1. ~sclosed /\ ~closeAfter /\ parsed = answered + dropped
        BY <2>1, AtHandler DEF get_header
      <3>2. UNCHANGED <<sclosed, closeAfter, answered, dropped>> /\ parsed' \in {parsed, parsed + 1}
        BY <2>1 DEF get_header, ClientFrame, objectVars
      <3>3. QED
        BY <3>1, <3>2 DEF Exchange!Next, Exchange!Parse, Exchange!Settled, Exchange!exchange
    <2>2. ASSUME NEW reply \in Replies, get_body(reply)
          PROVE  Exchange!Answer
      <3>1. ~sclosed /\ parsed = answered + dropped + 1
        BY <2>2, AtHandler DEF get_body, handler_ran
      <3>2. /\ UNCHANGED <<sclosed, parsed, dropped>> /\ answered' = answered + 1
            /\ closeAfter' \in BOOLEAN
        BY <2>2, ConstantTypes DEF get_body, ClientFrame, objectVars, respond, Package,
                                   handler_ran
      <3>3. QED
        BY <3>1, <3>2 DEF Exchange!Answer, Exchange!Settled
    <2>6. CASE get_body_drops
      <3>1. Exchange!Drop
        BY <2>6, DropStep DEF Exchange!Drop, Exchange!Settled
      <3>2. QED
        BY <3>1 DEF Exchange!Next
    <2>3. CASE (StreamCloseStep /\ ConnectionClosed) \/ on_write_closes
      BY <2>3, ClosingStep DEF Exchange!Next, Exchange!Close
    <2>4. CASE UNCHANGED <<sclosed, closeAfter, parsed, answered, dropped>>
      BY <2>4 DEF Exchange!exchange
    <2>5. QED
      BY <2>1, <2>2, <2>3, <2>4, <2>6
         DEF Next, Thread, Environment, Peer, ClientSend, ClientFin, ClientReset, ClientDrain,
             StreamStep, Construct, ConnConstruct, ConnOpened, Opened, EpollWait, RecvData,
             RecvWouldBlock, SearchBytes, SearchUntil, SearchNothing, SearchOverrun,
             WriteEnter, SendSome, SendBlocked, SendClosed, Written, PollReturn,
             get_body_throws, on_write_returns, ClientThrows, ClientFrame, objectVars,
             connVars, streamVars, vars, Exchange!Next
  <1>3. QED
    BY <1>1, <1>2, ConnectionInvariant, PTL
       DEF Spec, RequestReplySpec, Exchange!Spec

-----------------------------------------------------------------------------
(* A client that takes turns, whose requests say lengths that an int can hold. *)

LengthsFit == \A r \in Requests : AsInt(r.len) = r.len

NumAsked == Cardinality(Asked)

InHeader == pc = "client" /\ callee = "header"

InBody == pc = "client" /\ callee = "body"

LastAsked(l) == l \in Asked /\ \A i \in Asked : i <= l

\* The last request, unit l of the input, waits unparsed; or its header handler runs,
\* or has refused it.
Unread(l) == consumed = l - 1 /\ ~InHeader

HeaderRead(l) == consumed = l /\ (InHeader => data[Len(data)] = input[l])

\* Its body is awaited, or has been handed over whole and alone.
BodyNext(l) ==
    /\ request = input[l]
    /\ IF InBody THEN consumed = l + input[l].len /\ Len(data) = input[l].len
                 ELSE consumed = l \/ (pc \in Dead /\ consumed >= l)

\* It is answered or given up, and nothing else has come.
Settled(l) == consumed = l + input[l].len /\ consumed = Len(input) /\ consumed >= l

\* Every request parsed but the last "open" ones has its response; or all are settled,
\* and at most the last was given up, for whose response the client then waits.
InTurn(open) == parsed = answered + open /\ dropped = 0

AllSettled == parsed = answered + dropped /\ dropped \in {0, 1}

\* How far the last request has come.
Turn(l) ==
    /\ LastAsked(l)
    /\ Len(input) = l \/ Len(input) - l <= input[l].len
    /\ \/ NumAsked = parsed + 1 /\ InTurn(0) /\ (Unread(l) \/ HeaderRead(l))
       \/ NumAsked = parsed /\ InTurn(1) /\ BodyNext(l)
       \/ NumAsked = parsed /\ AllSettled /\ Settled(l) /\ ~InHeader

NoneYet == input = <<>> /\ parsed = 0 /\ InTurn(0)

TakesTurns == NoneYet \/ \E l \in Asked : Turn(l)

\* A request comes only when the output before it has gone.
OutputGone == NumAsked = answered + 1 => wrbuf = <<>> /\ room = SendRoom

\* Once something was parsed, a read that ends a handler begins with the response
\* still to be sent, after a request given up, or behind a refused one.
NothingNew ==
    /\ pc = "accepted" \/ (pc = "client" /\ callee = "constructor") => parsed = 0
    /\ pc \in {"search", "recv"} /\ frame = "loop" /\ parsed = answered + dropped /\ parsed > 0 =>
         \/ wrbuf # <<>> \/ dropped > 0
         \/ NumAsked = parsed + 1 /\ \E l \in Asked : LastAsked(l) /\ consumed = l

\* A response fits the send buffer, and is in it when the write handler is called.
Fits ==
    /\ Len(wrbuf) <= room
    /\ pc = "written" \/ (pc = "client" /\ callee = "on_write") => wrbuf = <<>>
    /\ sclosed /\ peer = "open" => wrbuf = <<>>

\* What one unit more makes of Asked.
LEMMA AskedTypes ==
    ASSUME StreamInv
    PROVE  /\ input \in Seq(Units) /\ Len(input) \in Nat /\ DOMAIN input = 1..Len(input)
           /\ IsFiniteSet(Asked) /\ Asked \subseteq 1..Len(input) /\ NumAsked \in Nat
  <1>1. input \in Seq(Units) /\ Len(input) \in Nat /\ DOMAIN input = 1..Len(input)
    BY DEF StreamInv, StreamTypeOK
  <1>2. Asked \in SUBSET (1..Len(input)) /\ IsFiniteSet(1..Len(input))
    BY <1>1, FS_Interval DEF Asked
  <1>3. IsFiniteSet(Asked)
    BY <1>2, FS_Subset
  <1>4. QED
    BY <1>1, <1>2, <1>3, FS_CardinalityType DEF NumAsked

LEMMA AskedSame == UNCHANGED input => UNCHANGED <<Asked, NumAsked>>
  BY DEF Asked, NumAsked

LEMMA AskedSent ==
    ASSUME StreamInv, NEW u \in Units, ClientSend(u)
    PROVE  /\ Len(input') = Len(input) + 1 /\ input'[Len(input) + 1] = u
           /\ \A i \in 1..Len(input) : input'[i] = input[i]
           /\ u \in Requests => /\ Asked' = Asked \cup {Len(input) + 1}
                                /\ NumAsked' = NumAsked + 1
           /\ u \notin Requests => Asked' = Asked /\ NumAsked' = NumAsked
  <1>1. input' = Append(input, u)
    BY DEF ClientSend
  <1>2. /\ Len(input') = Len(input) + 1 /\ input'[Len(input) + 1] = u
        /\ \A i \in 1..Len(input) : input'[i] = input[i]
        /\ DOMAIN input' = 1..(Len(input) + 1)
    BY <1>1, AskedTypes
  <1>3. Asked' = IF u \in Requests THEN Asked \cup {Len(input) + 1} ELSE Asked
    <2>1. ASSUME NEW i \in 1..(Len(input) + 1)
          PROVE  i \in 1..Len(input) \/ i = Len(input) + 1
      BY AskedTypes
    <2>2. Asked' = {i \in 1..(Len(input) + 1) : input'[i] \in Requests}
      BY <1>2 DEF Asked
    <2>3. Asked = {i \in 1..Len(input) : input[i] \in Requests}
      BY AskedTypes DEF Asked
    <2>4. QED
      BY <1>2, <2>1, <2>2, <2>3, AskedTypes
  <1>4. Len(input) + 1 \notin Asked
    BY AskedTypes
  <1>5. u \in Requests => NumAsked' = NumAsked + 1
    BY <1>3, <1>4, AskedTypes, FS_AddElement DEF NumAsked
  <1>6. QED
    BY <1>2, <1>3, <1>5 DEF NumAsked

\* Nothing that is buffered behind the last request is a request.
LEMMA NoneBehind ==
    ASSUME StreamInv, NEW l \in Asked, LastAsked(l), consumed >= l
    PROVE  ~\E i \in DOMAIN rdbuf : EndsAt(i)
  <1> SUFFICES ASSUME NEW i \in 1..Len(rdbuf), rdbuf[i] \in Requests
               PROVE  FALSE
    BY QueueTypes DEF EndsAt, Requests, StreamInv
  <1>1. rdbuf[i] = input[consumed + i] /\ consumed + i \in 1..Len(input)
    BY QueueTypes DEF StreamInv, Spliced
  <1>2. consumed + i \in Asked
    BY <1>1, AskedTypes DEF Asked
  <1>3. consumed + i <= l
    BY <1>2 DEF LastAsked
  <1>4. QED
    BY <1>3, AskedTypes, QueueTypes DEF StreamInv

\* The client that takes turns is a peer like any other.
LEMMA PoliteStep == [PoliteNext]_vars => [Next]_vars
  BY DEF PoliteNext, PoliteSend, Next, Environment, Peer

\* It asks when everything before is answered and sent.
LEMMA AskedInTurn ==
    ASSUME StreamInv, ConnInv, TakesTurns, AllReceived
    PROVE  NumAsked = answered /\ parsed = answered /\ dropped = 0 /\ wrbuf = <<>>
  <1>1. nwire <= nwritten /\ nwritten = RespLen * answered /\ nwire = RespLen * NumAsked
    <2>1. Len(wrbuf) = nwritten - nwire /\ Len(wrbuf) \in Nat /\ nwritten \in Nat /\ nwire \in Nat
      BY OutputTypes DEF StreamInv, Queue
    <2>2. nwire <= nwritten
      BY <2>1
    <2>3. QED
      BY <2>2 DEF AllReceived, NumAsked, ConnInv, Counts
  <1>2. /\ NumAsked \in {answered, answered + 1} /\ parsed <= NumAsked /\ answered <= parsed
        /\ answered + dropped <= parsed
    <2>1. CASE NoneYet
      <3>1. Asked = {}
        BY <2>1, AskedTypes DEF NoneYet
      <3>2. NumAsked = 0
        BY <3>1, FS_EmptySet DEF NumAsked
      <3>3. QED
        BY <2>1, <3>2, CountTypes DEF NoneYet, InTurn
    <2>2. ASSUME NEW l \in Asked, Turn(l)
          PROVE  /\ NumAsked \in {answered, answered + 1} /\ parsed <= NumAsked
                 /\ answered <= parsed /\ answered + dropped <= parsed
      <3>1. \/ NumAsked = parsed + 1 /\ InTurn(0)
            \/ NumAsked = parsed /\ (InTurn(1) \/ AllSettled)
        BY <2>2 DEF Turn
      <3>2. QED
        BY <3>1, CountTypes DEF InTurn, AllSettled
    <2>3. QED
      BY <2>1, <2>2 DEF TakesTurns
  <1>3. NumAsked = answered
    <2>1. CASE NumAsked = answered + 1
      <3> DEFINE before == RespLen * answered
      <3>1. nwire = before + RespLen /\ before \in Nat
        <4>1. nwire = RespLen * (answered + 1)
          BY <1>1, <2>1
        <4>2. RespLen * (answered + 1) = RespLen * answered + RespLen
          BY CountTypes, ConstantTypes
        <4>3. RespLen * answered \in Nat
          BY Multiples, CountTypes, ConstantTypes
        <4>4. QED
          BY <4>1, <4>2, <4>3
      <3>2. nwritten = before
        BY <1>1
      <3> HIDE DEF before
      <3>3. before + RespLen <= before
        BY <1>1, <3>1, <3>2
      <3>4. QED
        BY <3>1, <3>3, ConstantTypes
    <2>2. QED
      BY <1>2, <2>1
  <1>4. wrbuf = <<>>
    <2>1. nwire = nwritten
      BY <1>1, <1>3
    <2>2. Len(wrbuf) = 0
      BY <2>1, OutputTypes DEF StreamInv, Queue
    <2>3. QED
      BY <2>2, OutputTypes, EmptySeq DEF StreamInv
  <1>5. QED
    BY <1>2, <1>3, <1>4, CountTypes

\* The steps that are neither the peer's nor a call or a return of a read handler
\* change nothing that Turn looks at.
LEMMA OtherStep ==
    ASSUME StreamInv, ConnInv, [PoliteNext]_vars,
           ~\E u \in Units : ClientSend(u) /\ UNCHANGED connVars,
           ~(SearchBytes /\ UNCHANGED connVars), ~(SearchUntil /\ UNCHANGED connVars),
           ~get_header, ~\E reply \in Replies : get_body(reply), ~get_body_drops,
           ~get_body_throws
    PROVE  /\ UNCHANGED <<input, consumed, parsed, answered, dropped, request>>
           /\ InHeader' <=> InHeader
           /\ InBody' <=> InBody
           /\ InHeader => data' = data
           /\ InBody => data' = data
           /\ pc \in Dead => pc' \in Dead
  <1>1. CASE (ClientFin \/ ClientReset \/ ClientDrain) /\ UNCHANGED connVars
    BY <1>1 DEF ClientFin, ClientReset, ClientDrain, callVars, history, connVars, InHeader,
                InBody
  <1>2. CASE UNCHANGED vars
    BY <1>2 DEF vars, streamVars, callVars, history, connVars, InHeader, InBody
  <1>3. ASSUME UNCHANGED <<input, consumed, parsed, answered, dropped, request>>,
               ~InHeader, ~InBody, pc \notin Dead,
               pc' # "client" \/ callee' \notin {"header", "body"}
        PROVE  /\ UNCHANGED <<input, consumed, parsed, answered, dropped, request>>
               /\ InHeader' <=> InHeader
               /\ InBody' <=> InBody
               /\ InHeader => data' = data
               /\ InBody => data' = data
               /\ pc \in Dead => pc' \in Dead
    BY <1>3 DEF InHeader, InBody
  <1>4. CASE Construct /\ UNCHANGED connVars
    BY <1>3, <1>4 DEF Construct, history, connVars, InHeader, InBody, Dead
  <1>5. CASE (EpollWait \/ RecvData \/ RecvWouldBlock \/ SearchNothing \/ SearchOverrun)
             /\ UNCHANGED connVars
    <2>1. UNCHANGED <<input, consumed, parsed, answered, dropped, request>>
      BY <1>5 DEF EpollWait, RecvData, RecvWouldBlock, SearchNothing, SearchOverrun,
                  history, connVars
    <2>2. pc \in {"wait", "recv", "search"} /\ pc' # "client"
      BY <1>5, BaseType DEF EpollWait, RecvData, RecvAgain, RecvWouldBlock, SearchNothing,
                            SearchOverrun
    <2>3. QED
      BY <1>3, <2>1, <2>2 DEF InHeader, InBody, Dead
  <1>6. CASE (WriteEnter \/ SendSome \/ SendBlocked \/ SendClosed \/ Written \/ PollReturn)
             /\ UNCHANGED connVars
    <2>1. UNCHANGED <<input, consumed, parsed, answered, dropped, request>>
      BY <1>6 DEF WriteEnter, SendSome, SendBlocked, SendClosed, Written, PollReturn,
                  history, connVars
    <2>2. /\ pc \in {"write", "send", "written", "error"}
          /\ pc' # "client" \/ callee' = "on_write"
      BY <1>6 DEF WriteEnter, SendSome, SendAgain, SendBlocked, SendClosed, Written, Call,
                  PollReturn, ConnInv, Callbacks
    <2>3. QED
      BY <1>3, <2>1, <2>2 DEF InHeader, InBody, Dead
  <1>7. CASE ConnConstruct \/ ConnOpened \/ on_write_returns
    <2>1. UNCHANGED <<input, consumed, parsed, answered, dropped, request>>
      BY <1>7 DEF ConnConstruct, ConnOpened, Opened, on_write_returns, ClientFrame, history,
                  connVars
    <2>2. /\ pc \in {"client", "opened"} /\ (pc = "client" => callee \in {"constructor", "on_write"})
          /\ pc' # "client"
      BY <1>7, BaseType DEF ConnConstruct, AwaitHeader, read_until, Look, ConnOpened, Opened,
                            on_write_returns, Return
    <2>3. QED
      BY <1>3, <2>1, <2>2 DEF InHeader, InBody, Dead
  <1>8. CASE (StreamCloseStep /\ ConnectionClosed) \/ on_write_closes
    <2>1. UNCHANGED <<input, consumed, parsed, answered, dropped, request>>
      BY <1>8, ClosingStep DEF StreamCloseStep, RecvFailed, SendFailed, PollError,
                               on_write_closes, ClientCloses, history
    <2>2. /\ pc \in {"recv", "send", "error", "client"} /\ pc' # "client"
          /\ pc = "client" => callee = "on_write"
      BY <1>8, ClosingStep DEF StreamCloseStep, RecvFailed, SendFailed, PollError,
                               on_write_closes, ClientCloses
    <2>3. QED
      BY <1>3, <2>1, <2>2 DEF InHeader, InBody, Dead
  <1>9. QED
    BY <1>1, <1>2, <1>4, <1>5, <1>6, <1>7, <1>8
       DEF PoliteNext, PoliteSend, Thread, StreamStep

\* A step that leaves alone what Turn looks at.
LEMMA TurnStays ==
    ASSUME NEW l, Turn(l),
           UNCHANGED <<input, consumed, parsed, answered, dropped, request>>,
           InHeader' <=> InHeader, InBody' <=> InBody,
           InHeader => data' = data, InBody => data' = data,
           pc \in Dead => pc' \in Dead
    PROVE  Turn(l)' /\ l \in Asked'
  <1>1. UNCHANGED <<Asked, NumAsked>>
    BY AskedSame
  <1>2. LastAsked(l)' /\ l \in Asked'
    BY <1>1 DEF Turn, LastAsked
  <1>3. Unread(l) => Unread(l)'
    BY DEF Unread
  <1>4. HeaderRead(l) => HeaderRead(l)'
    BY DEF HeaderRead
  <1>5. BodyNext(l) => BodyNext(l)'
    BY DEF BodyNext
  <1>6. Settled(l) => Settled(l)'
    BY DEF Settled
  <1>7. QED
    BY <1>1, <1>2, <1>3, <1>4, <1>5, <1>6 DEF Turn, InTurn, AllSettled

\* The client asks, or sends a piece of the body it has announced.
LEMMA SendKeepsTurn ==
    ASSUME StreamInv, ConnInv, TakesTurns, LengthsFit, PoliteSend, UNCHANGED connVars
    PROVE  TakesTurns'
  <1>1. PICK u \in Units : /\ ClientSend(u)
                           /\ IF BodyLeft > 0 THEN u \notin Requests
                                              ELSE u \in Requests /\ AllReceived
    BY DEF PoliteSend
  <1>2. /\ UNCHANGED <<consumed, parsed, answered, dropped, request, pc, callee, data>>
        /\ InHeader' = InHeader /\ InBody' = InBody
    BY <1>1 DEF ClientSend, callVars, connVars, InHeader, InBody
  <1>0. PICK n \in Nat : n = Len(input)
    BY AskedTypes
  <1>3. consumed \in Nat /\ Asked \subseteq 1..n /\ NumAsked \in Nat
    BY <1>0, AskedTypes, CountTypes
  <1>4. /\ Len(input') = n + 1 /\ input'[n + 1] = u
        /\ \A i \in 1..n : input'[i] = input[i]
        /\ u \in Requests => Asked' = Asked \cup {n + 1} /\ NumAsked' = NumAsked + 1
        /\ u \notin Requests => Asked' = Asked /\ NumAsked' = NumAsked
    BY <1>0, <1>1, AskedSent
  <1>5. CASE BodyLeft > 0
    <2>1. PICK l \in Asked : Turn(l)
      <3>1. Asked # {}
        BY <1>5 DEF BodyLeft
      <3>2. ~NoneYet
        BY <3>1, AskedTypes DEF NoneYet
      <3>3. QED
        BY <3>2 DEF TakesTurns
    <2>2. BodyLeft = input[l].len - (n - l)
      <3>1. l = CHOOSE i \in Asked : \A j \in Asked : j <= i
        <4>1. \A j \in Asked : j <= l
          BY <2>1 DEF Turn, LastAsked
        <4>2. ASSUME NEW i \in Asked, \A j \in Asked : j <= i
              PROVE  i = l
          <5>1. i \in Int /\ l \in Int
            BY <1>3
          <5>2. QED
            BY <4>1, <4>2, <5>1
        <4>3. QED
          BY <4>1, <4>2
      <3>2. QED
        BY <1>0, <2>1, <3>1 DEF BodyLeft
    <2>3. input[l].len \in Int /\ l \in 1..n /\ input'[l] = input[l]
      BY <1>3, <1>4, <2>1, RequestTypes DEF Asked
    <2>4. n + 1 - l <= input'[l].len
      BY <1>3, <1>5, <2>2, <2>3
    <2>5. l \in Asked' /\ LastAsked(l)' /\ NumAsked' = NumAsked
      BY <1>1, <1>4, <1>5, <2>1 DEF Turn, LastAsked
    <2>6. Unread(l) => Unread(l)'
      BY <1>2 DEF Unread
    <2>7. HeaderRead(l) => HeaderRead(l)'
      BY <1>2, <2>3 DEF HeaderRead
    <2>8. BodyNext(l) => BodyNext(l)'
      BY <1>2, <2>3 DEF BodyNext
    <2>9. ~Settled(l)
      <3>1. CASE Settled(l)
        <4>1. n = l + input[l].len
          BY <1>0, <3>1 DEF Settled
        <4>2. QED
          BY <1>3, <1>5, <2>2, <2>3, <4>1
      <3>2. QED
        BY <3>1
    <2>10. Turn(l)'
      <3>1. Len(input') - l <= input'[l].len
        <4>1. Len(input') = n + 1
          BY <1>4
        <4>2. QED
          BY <1>3, <2>3, <2>4, <4>1
      <3>2. CASE NumAsked = parsed + 1 /\ InTurn(0) /\ (Unread(l) \/ HeaderRead(l))
        <4>1. Unread(l)' \/ HeaderRead(l)'
          BY <2>6, <2>7, <3>2
        <4>2. NumAsked' = parsed' + 1 /\ InTurn(0)'
          BY <1>2, <2>5, <3>2 DEF InTurn
        <4>3. QED
          BY <2>5, <3>1, <4>1, <4>2 DEF Turn
      <3>3. CASE NumAsked = parsed /\ InTurn(1) /\ BodyNext(l)
        <4>1. NumAsked' = parsed' /\ InTurn(1)'
          BY <1>2, <2>5, <3>3 DEF InTurn
        <4>2. QED
          BY <2>5, <2>8, <3>1, <3>3, <4>1 DEF Turn
      <3>4. QED
        BY <2>1, <2>9, <3>2, <3>3 DEF Turn
    <2>11. QED
      BY <2>5, <2>10 DEF TakesTurns
  <1>6. CASE ~(BodyLeft > 0)
    <2>1. u \in Requests /\ AllReceived
      BY <1>1, <1>6
    <2>2. NumAsked = answered /\ parsed = answered /\ dropped = 0
      BY <2>1, AskedInTurn
    <2>3. consumed = n /\ ~InHeader
      <3>1. CASE NoneYet
        <4>1. n = 0
          BY <1>0, <3>1 DEF NoneYet
        <4>2. consumed <= n
          BY <1>0, CountTypes
        <4>3. ~InHeader
          <5>1. InHeader => parsed < consumed
            BY DEF InHeader, ConnInv, Counts
          <5>2. QED
            BY <1>3, <3>1, <4>1, <4>2, <5>1 DEF NoneYet
        <4>4. QED
          BY <1>3, <4>1, <4>2, <4>3
      <3>2. ASSUME NEW l \in Asked, Turn(l)
            PROVE  consumed = n /\ ~InHeader
        <4>1. ~(NumAsked = parsed + 1) /\ ~InTurn(1)
          BY <2>2, CountTypes DEF InTurn
        <4>2. QED
          BY <1>0, <3>2, <4>1 DEF Turn, Settled
      <3>3. QED
        BY <3>1, <3>2 DEF TakesTurns
    <2>4. n + 1 \in Asked' /\ LastAsked(n + 1)'
      <3>1. Asked' = Asked \cup {n + 1}
        BY <1>4, <2>1
      <3>2. \A i \in Asked' : i <= n + 1
        BY <1>3, <3>1
      <3>3. QED
        BY <3>1, <3>2 DEF LastAsked
    <2>5. Unread(n + 1)'
      <3>2. consumed' = (n + 1) - 1 /\ ~InHeader'
        BY <1>2, <1>3, <2>3
      <3>3. QED
        BY <3>2 DEF Unread
    <2>6. Turn(n + 1)'
      <3>1. NumAsked' = parsed' + 1 /\ InTurn(0)'
        BY <1>2, <1>3, <1>4, <2>1, <2>2 DEF InTurn
      <3>2. QED
        BY <1>4, <2>4, <2>5, <3>1 DEF Turn
    <2>7. QED
      BY <2>4, <2>6 DEF TakesTurns
  <1>7. QED
    BY <1>5, <1>6

LEMMA TurnMoves ==
    ASSUME NEW l \in Asked, Turn(l), UNCHANGED input,
           \/ NumAsked = parsed' + 1 /\ InTurn(0)' /\ HeaderRead(l)'
           \/ NumAsked = parsed' /\ InTurn(1)' /\ BodyNext(l)'
           \/ NumAsked = parsed' /\ AllSettled' /\ Settled(l)' /\ ~InHeader'
    PROVE  TakesTurns'
  <1>1. UNCHANGED <<Asked, NumAsked>>
    BY AskedSame
  <1>2. LastAsked(l)' /\ l \in Asked'
    BY <1>1 DEF Turn, LastAsked
  <1>3. (Len(input) = l \/ Len(input) - l <= input[l].len)'
    BY DEF Turn
  <1>4. Turn(l)'
    BY <1>1, <1>2, <1>3 DEF Turn
  <1>5. QED
    BY <1>2, <1>4 DEF TakesTurns

LEMMA LastTypes ==
    ASSUME StreamInv, NEW l \in Asked
    PROVE  /\ l \in 1..Len(input) /\ l \in Int /\ l - 1 \in Nat
           /\ input[l] \in Requests /\ input[l].len \in Int
  BY AskedTypes, RequestTypes DEF Asked

\* Which of the three it is, from the requests still to be settled.
LEMMA WhichTurn ==
    ASSUME StreamInv, ConnInv, NEW l \in Asked, Turn(l)
    PROVE  /\ parsed = answered + dropped + 1 =>
                NumAsked = parsed /\ InTurn(1) /\ BodyNext(l)
           /\ parsed = answered + dropped =>
                \/ NumAsked = parsed + 1 /\ InTurn(0) /\ (Unread(l) \/ HeaderRead(l))
                \/ NumAsked = parsed /\ AllSettled /\ Settled(l) /\ ~InHeader
  <1>1. /\ InTurn(0) \/ AllSettled => parsed = answered + dropped
        /\ InTurn(1) => parsed = answered + dropped + 1
    BY CountTypes DEF InTurn, AllSettled
  <1>2. ~(parsed = answered + dropped /\ parsed = answered + dropped + 1)
    BY CountTypes
  <1>3. QED
    BY <1>1, <1>2 DEF Turn

\* A request that has a header is asked.
LEMMA OneAsked ==
    ASSUME StreamInv, ConnInv, TakesTurns, InHeader \/ parsed = answered + dropped + 1
    PROVE  \E l \in Asked : Turn(l)
  <1>1. InHeader => parsed < consumed /\ consumed <= Len(input)
    BY CountTypes DEF InHeader, ConnInv, Counts
  <1>2. ~NoneYet
    <2>1. CASE InHeader
      BY <1>1, <2>1, CountTypes, EmptySeq, AskedTypes DEF NoneYet
    <2>2. CASE parsed = answered + dropped + 1
      BY <2>2, CountTypes DEF NoneYet, InTurn
    <2>3. QED
      BY <2>1, <2>2
  <1>3. QED
    BY <1>2 DEF TakesTurns

\* The body is in the buffer, whole and alone, when its read is satisfied.
LEMMA BodyComes ==
    ASSUME StreamInv, ConnInv, TakesTurns, LengthsFit, SearchBytes, UNCHANGED connVars
    PROVE  TakesTurns'
  <1>1. /\ pc = "search" /\ BytesReady /\ UNCHANGED <<input, parsed, answered, dropped, request>>
        /\ Deliver(rdbuf)
    BY DEF SearchBytes, connVars
  <1>2. AwaitsBody /\ parsed = answered + dropped + 1
    <2>1. Running
      BY <1>1 DEF ConnInv, ClosedTogether, Running, Dead
    <2>2. readNum # -1
      BY <1>1 DEF BytesReady
    <2>3. QED
      BY <1>1, <2>1, <2>2 DEF ConnInv, Reading, AwaitsNothing, AwaitsHeader
  <1>3. PICK l \in Asked : Turn(l)
    BY <1>2, OneAsked
  <1>4. NumAsked = parsed /\ InTurn(1) /\ consumed = l /\ request = input[l]
    BY <1>1, <1>2, <1>3, WhichTurn DEF BodyNext, InBody, Dead
  <1>5. Len(rdbuf) = input[l].len /\ Len(rdbuf) \in Nat
    <2>1. readNum = input[l].len
      BY <1>2, <1>4, LastTypes DEF AwaitsBody, LengthsFit
    <2>2. Len(rdbuf) >= readNum /\ Len(rdbuf) # 0
      BY <1>1, EmptySeq, QueueTypes DEF BytesReady, StreamInv
    <2>3. consumed + Len(rdbuf) + Len(inq) = Len(input)
      BY DEF StreamInv, Spliced
    <2>4. /\ Len(rdbuf) \in Nat /\ Len(inq) \in Nat /\ Len(input) \in Nat
          /\ l \in Int /\ input[l].len \in Int
      BY QueueTypes, LastTypes DEF StreamInv
    <2>5. Len(input) = l \/ Len(input) - l <= input[l].len
      BY <1>3 DEF Turn
    <2> DEFINE b == Len(rdbuf)
               q == Len(inq)
               n == Len(input)
               m == input[l].len
    <2> HIDE DEF b, q, n, m
    <2>6. /\ b \in Nat /\ q \in Nat /\ n \in Nat /\ l \in Int /\ m \in Int
          /\ b >= m /\ b # 0 /\ l + b + q = n /\ (n = l \/ n - l <= m)
      BY <1>4, <2>1, <2>2, <2>3, <2>4, <2>5 DEF b, q, n, m
    <2>7. b = m
      BY <2>6
    <2>8. QED
      BY <2>4, <2>7 DEF b, m
  <1>6. /\ data' = rdbuf /\ consumed' = consumed + Len(rdbuf)
        /\ pc' = "client" /\ callee' = "body"
    BY <1>1, <1>2, HandlerTypes DEF Deliver, Call, AwaitsBody
  <1>7. BodyNext(l)'
    BY <1>1, <1>4, <1>5, <1>6 DEF BodyNext, InBody
  <1>8. NumAsked = parsed' /\ InTurn(1)'
    BY <1>1, <1>4 DEF InTurn
  <1>9. QED
    BY <1>1, <1>3, <1>7, <1>8, TurnMoves

\* The only header there is to be found is the last request, first in the buffer.
LEMMA HeaderComes ==
    ASSUME StreamInv, ConnInv, TakesTurns, SearchUntil, UNCHANGED connVars
    PROVE  TakesTurns'
  <1>1. pc = "search" /\ Searching /\ UNCHANGED <<input, parsed, answered, dropped, request>>
    BY DEF SearchUntil, connVars
  <1>2. PICK i \in DOMAIN rdbuf : EndsAt(i) /\ Deliver(SubSeq(rdbuf, 1, i))
    BY DEF SearchUntil
  <1>3. AwaitsHeader /\ parsed = answered + dropped
    <2>1. Running
      BY <1>1 DEF ConnInv, ClosedTogether, Running, Dead
    <2>2. readNum = -1 /\ readUntil = TRUE
      BY <1>1 DEF Searching, StreamInv, StreamTypeOK
    <2>3. QED
      BY <1>1, <2>1, <2>2 DEF ConnInv, Reading, AwaitsNothing, AwaitsBody
  <1>4. /\ i \in 1..Len(rdbuf) /\ rdbuf[i] \in Requests /\ rdbuf[i] = input[consumed + i]
        /\ consumed + i \in Asked
    <2>1. i \in 1..Len(rdbuf) /\ rdbuf[i] \in Requests
      BY <1>2, QueueTypes DEF EndsAt, Requests, StreamInv
    <2>2. consumed + i \in 1..Len(input) /\ rdbuf[i] = input[consumed + i]
      BY <2>1, Places DEF StreamInv
    <2>3. QED
      BY <2>1, <2>2, AskedTypes DEF Asked
  <1>5. PICK l \in Asked : Turn(l)
    <2>1. ~NoneYet
      BY <1>4, AskedTypes DEF NoneYet
    <2>2. QED
      BY <2>1 DEF TakesTurns
  <1>6. NumAsked = parsed + 1 /\ InTurn(0) /\ consumed = l - 1
    <2>1. ~(consumed >= l)
      BY <1>2, <1>5, NoneBehind DEF Turn
    <2>2. ~HeaderRead(l)
      BY <2>1, LastTypes DEF HeaderRead
    <2>3. ~Settled(l)
      BY <2>1 DEF Settled
    <2>5. QED
      BY <1>3, <1>5, <2>2, <2>3, WhichTurn DEF Unread
  <1>7. i = 1
    <2>1. consumed + i <= l
      BY <1>4, <1>5 DEF Turn, LastAsked
    <2>2. QED
      BY <1>4, <1>6, <2>1, LastTypes
  <1>8. /\ data' = SubSeq(rdbuf, 1, i) /\ consumed' = consumed + Len(SubSeq(rdbuf, 1, i))
        /\ pc' = "client" /\ callee' = "header"
    BY <1>2, <1>3, HandlerTypes DEF Deliver, Call, AwaitsHeader
  <1>9. Len(data') = 1 /\ data'[1] = input[l]
    <2>1. 1 \in 0..Len(rdbuf)
      BY <1>4, <1>7, QueueTypes DEF StreamInv
    <2>2. Len(SubSeq(rdbuf, 1, 1)) = 1 /\ SubSeq(rdbuf, 1, 1)[1] = rdbuf[1]
      BY <2>1, FirstOf, QueueTypes DEF StreamInv
    <2>3. rdbuf[1] = input[l]
      BY <1>4, <1>6, <1>7, LastTypes
    <2>4. QED
      BY <1>7, <1>8, <2>2, <2>3
  <1>10. consumed' = l
    <2>1. consumed = l - 1 /\ consumed' = consumed + 1
      BY <1>6, <1>8, <1>9
    <2>2. QED
      BY <2>1, LastTypes
  <1>11. HeaderRead(l)'
    BY <1>1, <1>9, <1>10 DEF HeaderRead
  <1>12. NumAsked = parsed' + 1 /\ InTurn(0)'
    BY <1>1, <1>6 DEF InTurn
  <1>13. QED
    BY <1>1, <1>5, <1>11, <1>12, TurnMoves

\* The header handler takes that request, or refuses it.
LEMMA HeaderHandled ==
    ASSUME StreamInv, ConnInv, TakesTurns, get_header
    PROVE  TakesTurns'
  <1>1. /\ InHeader /\ UNCHANGED <<input, consumed, answered, dropped>>
        /\ ~sclosed /\ ~closeAfter /\ parsed = answered + dropped
    BY AtHandler DEF get_header, ClientFrame, InHeader
  <1>2. PICK l \in Asked : Turn(l)
    BY <1>1, OneAsked
  <1>3. NumAsked = parsed + 1 /\ InTurn(0) /\ consumed = l /\ data[Len(data)] = input[l]
    BY <1>1, <1>2, WhichTurn DEF Unread, HeaderRead
  <1>4. CASE input[l].ok
    <2>1. request' = input[l] /\ parsed' = parsed + 1 /\ read_bytes(input[l].len, "body")
      BY <1>3, <1>4 DEF get_header
    <2>2. BodyNext(l)'
      <3>1. CASE input[l].len = 0
        <4>1. callee' = "body" /\ pc' = "client" /\ data' = <<>> /\ Len(<<>>) = 0
          BY <2>1, <3>1 DEF read_bytes
        <4>2. l = l + input[l].len
          BY <3>1, LastTypes
        <4>3. QED
          BY <1>1, <1>3, <2>1, <3>1, <4>1, <4>2 DEF BodyNext, InBody
      <3>2. CASE input[l].len # 0
        <4>1. pc' = "search"
          BY <1>1, <2>1, <3>2 DEF read_bytes, Look
        <4>2. QED
          BY <1>1, <1>3, <2>1, <4>1 DEF BodyNext, InBody
      <3>3. QED
        BY <3>1, <3>2
    <2>3. NumAsked = parsed' /\ InTurn(1)'
      BY <1>1, <1>3, <2>1, CountTypes DEF InTurn
    <2>4. QED
      BY <1>1, <1>2, <2>2, <2>3, TurnMoves
  <1>5. CASE ~input[l].ok
    <2>1. pc' = "search" /\ UNCHANGED parsed
      BY <1>1, <1>3, <1>5 DEF get_header, NextRequest, ReadsOn, AwaitHeader, read_until, Look
    <2>2. HeaderRead(l)'
      BY <1>1, <1>3, <2>1 DEF HeaderRead, InHeader
    <2>3. NumAsked = parsed' + 1 /\ InTurn(0)'
      BY <1>1, <1>3, <2>1 DEF InTurn
    <2>4. QED
      BY <1>1, <1>2, <2>2, <2>3, TurnMoves
  <1>6. QED
    BY <1>4, <1>5

LEMMA AtBody ==
    ASSUME StreamInv, ConnInv, TakesTurns, InBody
    PROVE  \E l \in Asked :
             /\ Turn(l) /\ NumAsked = parsed /\ InTurn(1) /\ request = input[l]
             /\ consumed = l + input[l].len /\ consumed = Len(input) /\ consumed >= l
             /\ Len(data) = request.len
  <1>1. parsed = answered + dropped + 1
    BY AtHandler DEF InBody
  <1>2. PICK l \in Asked : Turn(l)
    BY <1>1, OneAsked
  <1>3. NumAsked = parsed /\ InTurn(1) /\ BodyNext(l)
    BY <1>1, <1>2, WhichTurn
  <1>4. request = input[l] /\ consumed = l + input[l].len /\ Len(data) = input[l].len
    BY <1>3 DEF BodyNext
  <1>5. Len(data) \in Nat
    BY DEF StreamInv, StreamTypeOK
  <1>6. input[l].len \in Nat /\ l \in Int
    BY <1>4, <1>5, LastTypes
  <1>7. consumed <= Len(input) /\ (Len(input) = l \/ Len(input) - l <= input[l].len)
    BY <1>2, CountTypes DEF Turn
  <1>8. consumed = Len(input) /\ consumed >= l
    BY <1>4, <1>6, <1>7, CountTypes
  <1>9. QED
    BY <1>2, <1>3, <1>4, <1>8

\* The body handler answers it, gives it up, or lets an exception out.
LEMMA BodyHandled ==
    ASSUME StreamInv, ConnInv, TakesTurns, NEW reply \in Replies, get_body(reply)
    PROVE  TakesTurns'
  <1>1. /\ InBody /\ UNCHANGED <<input, consumed, parsed>>
        /\ Package(reply) # 0 /\ pc' # "client"
    BY BaseType, ConstantTypes
       DEF get_body, ClientFrame, history, InBody, Package, NextRequest, AwaitHeader,
           read_until, Look, Return, handler_ran
  <1>2. PICK l \in Asked :
          /\ Turn(l) /\ NumAsked = parsed /\ InTurn(1)
          /\ consumed = l + input[l].len /\ consumed = Len(input) /\ consumed >= l
    BY <1>1, AtBody
  <1>3. answered' = answered + 1 /\ UNCHANGED dropped
    BY <1>1 DEF get_body, respond
  <1>6. NumAsked = parsed' /\ AllSettled'
    BY <1>1, <1>2, <1>3, CountTypes DEF InTurn, AllSettled
  <1>4. Settled(l)' /\ ~InHeader'
    BY <1>1, <1>2 DEF Settled, InHeader
  <1>5. QED
    BY <1>1, <1>2, <1>4, <1>6, TurnMoves

LEMMA BodyDropped ==
    ASSUME StreamInv, ConnInv, TakesTurns, get_body_drops
    PROVE  TakesTurns'
  <1>1. /\ InBody /\ UNCHANGED <<input, consumed, parsed, answered>>
        /\ dropped' = dropped + 1 /\ pc' = "search"
    BY DropStep DEF ClientFrame, InBody
  <1>2. PICK l \in Asked :
          /\ Turn(l) /\ NumAsked = parsed /\ InTurn(1)
          /\ consumed = l + input[l].len /\ consumed = Len(input) /\ consumed >= l
    BY <1>1, AtBody
  <1>3. NumAsked = parsed' /\ AllSettled'
    BY <1>1, <1>2, CountTypes DEF InTurn, AllSettled
  <1>4. Settled(l)' /\ ~InHeader'
    BY <1>1, <1>2 DEF Settled, InHeader
  <1>5. QED
    BY <1>1, <1>2, <1>3, <1>4, TurnMoves

LEMMA BodyThrows ==
    ASSUME StreamInv, ConnInv, TakesTurns, get_body_throws
    PROVE  TakesTurns'
  <1>1. /\ InBody /\ UNCHANGED <<input, consumed, parsed, answered, dropped, request>>
        /\ pc' = "terminated"
    BY DEF get_body_throws, ClientThrows, history, connVars, InBody
  <1>2. PICK l \in Asked :
          /\ Turn(l) /\ NumAsked = parsed /\ InTurn(1) /\ request = input[l]
          /\ consumed >= l
    BY <1>1, AtBody
  <1>3. BodyNext(l)'
    BY <1>1, <1>2 DEF BodyNext, InBody, Dead
  <1>5. NumAsked = parsed' /\ InTurn(1)'
    BY <1>1, <1>2 DEF InTurn
  <1>4. QED
    BY <1>1, <1>2, <1>3, <1>5, TurnMoves

\* Only the client adds to the input, in turn.
LEMMA InputGrows ==
    ASSUME [PoliteNext]_vars
    PROVE  UNCHANGED input \/ (PoliteSend /\ UNCHANGED connVars)
  <1>1. CASE Thread
    BY <1>1 DEF Thread, StreamStep, StreamCloseStep, Construct, ConnConstruct, ConnOpened,
                Opened, EpollWait, RecvData, RecvWouldBlock, RecvFailed, SearchBytes,
                SearchUntil, SearchNothing, SearchOverrun, WriteEnter, SendSome, SendBlocked,
                SendFailed, SendClosed, Written, PollReturn, PollError, get_header, get_body,
                get_body_throws, on_write_returns, on_write_closes, ClientCloses,
                ClientThrows, ClientFrame, history, handler_ran, get_body_drops
  <1>2. CASE (PoliteSend \/ ClientFin \/ ClientReset \/ ClientDrain) /\ UNCHANGED connVars
    BY <1>2 DEF ClientFin, ClientReset, ClientDrain, history
  <1>3. CASE UNCHANGED vars
    BY <1>3 DEF vars, streamVars, history
  <1>4. QED
    BY <1>1, <1>2, <1>3 DEF PoliteNext

LEMMA NextTakesTurns ==
    ASSUME LengthsFit, StreamInv, ConnInv, TakesTurns, [PoliteNext]_vars
    PROVE  TakesTurns'
  <1>1. CASE \E u \in Units : ClientSend(u) /\ UNCHANGED connVars
    <2>1. Len(input') = Len(input) + 1 /\ Len(input) \in Nat
      BY <1>1, AskedSent, AskedTypes
    <2>2. QED
      BY <2>1, InputGrows, SendKeepsTurn
  <1>2. CASE SearchBytes /\ UNCHANGED connVars
    BY <1>2, BodyComes
  <1>3. CASE SearchUntil /\ UNCHANGED connVars
    BY <1>3, HeaderComes
  <1>4. CASE get_header
    BY <1>4, HeaderHandled
  <1>5. CASE \E reply \in Replies : get_body(reply)
    BY <1>5, BodyHandled
  <1>6. CASE get_body_throws
    BY <1>6, BodyThrows
  <1>9. CASE get_body_drops
    BY <1>9, BodyDropped
  <1>7. CASE /\ ~\E u \in Units : ClientSend(u) /\ UNCHANGED connVars
             /\ ~(SearchBytes /\ UNCHANGED connVars) /\ ~(SearchUntil /\ UNCHANGED connVars)
             /\ ~get_header /\ ~(\E reply \in Replies : get_body(reply))
             /\ ~get_body_drops /\ ~get_body_throws
    <2>1. /\ UNCHANGED <<input, consumed, parsed, answered, dropped, request>>
          /\ InHeader' <=> InHeader
          /\ InBody' <=> InBody
          /\ InHeader => data' = data
          /\ InBody => data' = data
          /\ pc \in Dead => pc' \in Dead
      BY <1>7, OtherStep
    <2>2. NoneYet => NoneYet'
      BY <2>1 DEF NoneYet, InTurn
    <2>3. ASSUME NEW l \in Asked, Turn(l)
          PROVE  TakesTurns'
      BY <2>1, <2>3, TurnStays DEF TakesTurns
    <2>4. QED
      BY <2>2, <2>3 DEF TakesTurns
  <1>8. QED
    BY <1>1, <1>2, <1>3, <1>4, <1>5, <1>6, <1>7, <1>9

-----------------------------------------------------------------------------
(* What follows for every execution with such a client.                      *)

LEMMA PoliteInvariant ==
    ASSUME LengthsFit
    PROVE  PoliteSpec => [](StreamInv /\ ConnInv /\ TakesTurns)
  <1>1. Init => StreamInv /\ ConnInv /\ TakesTurns
    BY InitStreamInv, InitConnInv DEF Init, StreamInit, TakesTurns, NoneYet, InTurn
  <1>2. StreamInv /\ ConnInv /\ TakesTurns /\ [PoliteNext]_vars
          => (StreamInv /\ ConnInv /\ TakesTurns)'
    BY PoliteStep, StepIsStreamStep, NextStreamInv, NextConnInv, NextTakesTurns
  <1>3. QED
    BY <1>1, <1>2, PTL DEF PoliteSpec

\* The requests that have been handed to a read handler.
Heard == {i \in Asked : i <= consumed}

LEMMA HeardAll ==
    ASSUME NEW l \in Asked, LastAsked(l), consumed >= l, StreamInv
    PROVE  Cardinality(Heard) = NumAsked
  <1>1. Heard = Asked
    <2>1. ASSUME NEW i \in Asked PROVE i <= consumed
      <3>1. i <= l /\ i \in Int /\ l \in Int /\ consumed \in Int
        BY LastTypes, QueueTypes DEF LastAsked, StreamInv
      <3>2. QED
        BY <3>1
    <2>2. QED
      BY <2>1 DEF Heard
  <1>2. QED
    BY <1>1 DEF NumAsked

LEMMA HeardButOne ==
    ASSUME NEW l \in Asked, LastAsked(l), consumed = l - 1, StreamInv
    PROVE  Cardinality(Heard) = NumAsked - 1
  <1>1. Heard = Asked \ {l}
    <2>1. ASSUME NEW i \in Asked PROVE i <= consumed <=> i # l
      <3>1. i <= l /\ i \in Int /\ l \in Int
        BY LastTypes DEF LastAsked
      <3>2. QED
        BY <3>1
    <2>2. QED
      BY <2>1 DEF Heard
  <1>2. QED
    BY <1>1, AskedTypes, FS_RemoveElement DEF NumAsked

\* A client that takes turns has each request parsed as one, with its own body and
\* nothing else, however its bytes are cut: none is handed over inside a body.
THEOREM NothingSwallowed ==
    ASSUME LengthsFit
    PROVE  PoliteSpec => []NoRequestSwallowed
  <1>1. StreamInv /\ ConnInv /\ TakesTurns => NoRequestSwallowed
    <2> SUFFICES ASSUME StreamInv, ConnInv, TakesTurns
                 PROVE  /\ parsed <= Cardinality(Heard)
                        /\ InHeader => Cardinality(Heard) = parsed + 1
                        /\ InBody => Cardinality(Heard) = parsed /\ Len(data) = request.len
      BY CountTypes DEF NoRequestSwallowed, Heard, InHeader, InBody, ReadHandlers
    <2>1. /\ InHeader => parsed = answered + dropped
          /\ InBody => parsed = answered + dropped + 1
      BY AtHandler DEF InHeader, InBody
    <2>2. parsed \in Nat /\ answered \in Nat /\ dropped \in Nat
      BY CountTypes
    <2>3. CASE NoneYet
      <3>1. Heard = {}
        BY <2>3, AskedTypes DEF NoneYet, Heard
      <3>2. ~InHeader
        <4>1. Len(input) = 0
          BY <2>3 DEF NoneYet
        <4>2. QED
          BY <2>3, <4>1, CountTypes DEF InHeader, ConnInv, Counts, NoneYet
      <3>3. QED
        BY <2>1, <2>2, <2>3, <3>1, <3>2, FS_EmptySet DEF NoneYet, InTurn
    <2>4. ASSUME NEW l \in Asked, Turn(l)
          PROVE  /\ parsed <= Cardinality(Heard)
                 /\ InHeader => Cardinality(Heard) = parsed + 1
                 /\ InBody => Cardinality(Heard) = parsed /\ Len(data) = request.len
      <3>0. LastAsked(l) /\ l \in Int /\ NumAsked \in Nat
        BY <2>4, LastTypes, AskedTypes DEF Turn
      <3>1. CASE NumAsked = parsed + 1 /\ InTurn(0) /\ Unread(l)
        <4>1. Cardinality(Heard) = parsed /\ ~InHeader
          BY <2>2, <3>0, <3>1, HeardButOne DEF Unread
        <4>2. QED
          BY <2>1, <2>2, <3>1, <4>1 DEF InTurn
      <3>2. CASE NumAsked = parsed + 1 /\ InTurn(0) /\ HeaderRead(l)
        <4>1. Cardinality(Heard) = parsed + 1
          BY <3>0, <3>2, HeardAll DEF HeaderRead
        <4>2. QED
          BY <2>1, <2>2, <3>2, <4>1 DEF InTurn
      <3>3. CASE NumAsked = parsed /\ InTurn(1) /\ BodyNext(l)
        <4>1. InBody => consumed >= l /\ Len(data) = request.len
          <5>1. Len(data) \in Nat
            BY DEF StreamInv, StreamTypeOK
          <5>2. ASSUME InBody
                PROVE  request = input[l] /\ consumed = l + Len(data) /\ Len(data) = input[l].len
            BY <3>3, <5>2 DEF BodyNext
          <5>3. QED
            BY <3>0, <5>1, <5>2
        <4>2. consumed >= l
          BY <3>0, <3>3, <4>1 DEF BodyNext
        <4>3. Cardinality(Heard) = parsed
          BY <3>0, <3>3, <4>2, HeardAll
        <4>4. QED
          BY <2>1, <2>2, <3>3, <4>1, <4>3 DEF InTurn
      <3>4. CASE NumAsked = parsed /\ AllSettled /\ Settled(l) /\ ~InHeader
        <4>1. Cardinality(Heard) = parsed
          BY <3>0, <3>4, HeardAll DEF Settled
        <4>2. QED
          BY <2>1, <2>2, <3>4, <4>1 DEF AllSettled
      <3>5. QED
        BY <2>4, <3>1, <3>2, <3>3, <3>4 DEF Turn
    <2>5. QED
      BY <2>3, <2>4 DEF TakesTurns
  <1>2. QED
    BY <1>1, PoliteInvariant, PTL

-----------------------------------------------------------------------------
(* The reads of such a client's requests are not nested.                     *)

\* A piece of a body is no request, and a request comes when all is answered.
LEMMA PoliteSends ==
    ASSUME StreamInv, ConnInv, TakesTurns, PoliteSend, UNCHANGED connVars
    PROVE  /\ UNCHANGED <<pc, frame, callee, wrbuf, room, consumed, parsed, answered, dropped>>
           /\ \/ UNCHANGED <<Asked, NumAsked>>
              \/ /\ NumAsked' = NumAsked + 1 /\ NumAsked = answered /\ parsed = answered
                 /\ dropped = 0 /\ wrbuf = <<>> /\ room = SendRoom
  <1>1. PICK u \in Units : /\ ClientSend(u)
                           /\ IF BodyLeft > 0 THEN u \notin Requests
                                              ELSE u \in Requests /\ AllReceived
    BY DEF PoliteSend
  <1>2. UNCHANGED <<pc, frame, callee, wrbuf, room, consumed, parsed, answered, dropped>>
    BY <1>1 DEF ClientSend, stackVars, callVars, writeVars, connVars
  <1>3. CASE u \notin Requests
    BY <1>1, <1>2, <1>3, AskedSent
  <1>4. CASE u \in Requests
    <2>1. AllReceived
      BY <1>1, <1>4
    <2>2. NumAsked = answered /\ parsed = answered /\ dropped = 0 /\ wrbuf = <<>>
      BY <2>1, AskedInTurn
    <2>3. QED
      BY <1>1, <1>2, <1>4, <2>1, <2>2, AskedSent DEF AllReceived
  <1>5. QED
    BY <1>3, <1>4

\* A response is queued: the output is not empty then.
LEMMA Responds ==
    ASSUME StreamInv, ConnInv, NEW reply \in Replies, get_body(reply)
    PROVE  /\ answered' = answered + 1
           /\ UNCHANGED <<parsed, dropped, consumed, input, room, peer, sclosed>>
           /\ ~sclosed /\ parsed = answered + dropped + 1
           /\ Len(wrbuf') = Len(wrbuf) + RespLen /\ wrbuf' # <<>>
           /\ pc = "client" /\ callee = "body" /\ pc' \in {"search", "opened", "write", "error"}
  <1>1. pc = "client" /\ callee = "body" /\ ~sclosed /\ parsed = answered + dropped + 1
    BY AtHandler DEF get_body, handler_ran
  <1> DEFINE response == [i \in 1..RespLen |-> nwritten + i]
  <1>2. answered' = answered + 1 /\ wrbuf' = wrbuf \o response
    BY <1>1, ConstantTypes DEF get_body, respond, Package, write_bytes, Queued, handler_ran
  <1>3. response \in Seq(Nat) /\ Len(response) = RespLen
    BY OutputTypes, ConstantTypes DEF StreamInv
  <1> HIDE DEF response
  <1>4. Len(wrbuf') = Len(wrbuf) + RespLen
    BY <1>2, <1>3, OutputTypes, ConcatProperties DEF StreamInv
  <1>5. wrbuf' # <<>>
    BY <1>4, OutputTypes, ConstantTypes DEF StreamInv
  <1>6. UNCHANGED <<parsed, dropped, consumed, input, room, peer, sclosed>>
    BY DEF get_body, respond, ClientFrame, objectVars, handler_ran
  <1>7. pc' \in {"search", "opened", "write", "error"}
    BY BaseType DEF get_body, NextRequest, AwaitHeader, read_until, Look, Return,
                    handler_ran
  <1>8. QED
    BY <1>1, <1>2, <1>4, <1>5, <1>6, <1>7

\* Output goes away only.
LEMMA OutputShrinks ==
    ASSUME StreamInv, ConnInv, [PoliteNext]_vars, ~\E reply \in Replies : get_body(reply)
    PROVE  /\ UNCHANGED answered
           /\ \/ UNCHANGED <<wrbuf, room>>
              \/ SendSome /\ wrbuf' = Unsent(Sent) /\ room' = room - Sent
              \/ UNCHANGED wrbuf /\ room' = room + 1 /\ room < SendRoom
  <1>1. UNCHANGED answered
    BY DEF PoliteNext, Thread, ConnectionClosed, ConnConstruct, ConnOpened, get_header,
           get_body_drops, get_body_throws, on_write_returns, on_write_closes, connVars, vars
  <1>2. CASE Construct \/ (StreamStep /\ ~SendSome) \/ StreamCloseStep
    BY <1>1, <1>2
       DEF StreamStep, StreamCloseStep, Construct, EpollWait, RecvData, RecvWouldBlock,
           RecvFailed, SearchBytes, SearchUntil, SearchNothing, SearchOverrun, WriteEnter,
           SendBlocked, SendFailed, SendClosed, Written, PollReturn, PollError, kernelVars,
           writeVars
  <1>3. CASE SendSome
    BY <1>1, <1>3 DEF SendSome, Sent
  <1>4. CASE ConnConstruct \/ ConnOpened \/ get_header \/ get_body_throws
             \/ on_write_returns \/ on_write_closes
    BY <1>1, <1>4
       DEF ConnConstruct, ConnOpened, Opened, get_header, get_body_throws, ClientThrows,
           on_write_returns, on_write_closes, ClientCloses, ClientFrame, kernelVars, writeVars
  <1>5. CASE (PoliteSend \/ ClientFin \/ ClientReset) /\ UNCHANGED connVars
    BY <1>1, <1>5 DEF PoliteSend, ClientSend, ClientFin, ClientReset, writeVars
  <1>6. CASE ClientDrain
    BY <1>1, <1>6 DEF ClientDrain, writeVars
  <1>7. CASE UNCHANGED vars
    BY <1>7 DEF vars, streamVars, kernelVars, writeVars, connVars
  <1>9. CASE get_body_drops
    BY <1>1, <1>9, DropStep DEF ClientFrame
  <1>8. QED
    BY <1>2, <1>3, <1>4, <1>5, <1>6, <1>7, <1>9 DEF PoliteNext, Thread

\* SendSome with nothing to send changes nothing.
LEMMA SendsNothing ==
    ASSUME StreamInv, wrbuf = <<>>
    PROVE  Sent = 0 /\ Unsent(0) = <<>>
  <1>1. Sent \in 0..Len(wrbuf) /\ Len(wrbuf) = 0
    BY SentSome DEF StreamInv
  <1>2. Len(Unsent(0)) = 0 /\ Unsent(0) \in Seq(Nat)
    BY <1>1, OthersOf, OutputTypes DEF Unsent, StreamInv
  <1>3. QED
    BY <1>1, <1>2, EmptySeq

LEMMA NextOutputGone ==
    ASSUME StreamInv, ConnInv, TakesTurns, OutputGone, [PoliteNext]_vars
    PROVE  OutputGone'
  <1>0. NumAsked \in Nat /\ answered \in Nat /\ room \in Nat /\ SendRoom \in Nat
    BY AskedTypes, CountTypes, StreamAssumption DEF StreamInv, StreamTypeOK
  <1>1. CASE ~UNCHANGED input
    <2>1. PoliteSend /\ UNCHANGED connVars
      BY <1>1, InputGrows
    <2>2. QED
      BY <1>0, <2>1, PoliteSends DEF OutputGone
  <1>2. CASE UNCHANGED input
    <2>1. UNCHANGED NumAsked
      BY <1>2, AskedSame
    <2>2. ASSUME NEW reply \in Replies, get_body(reply)
          PROVE  OutputGone'
      <3>1. NumAsked <= parsed /\ answered' = parsed /\ parsed \in Nat
        <4>1. InBody
          BY <2>2, Responds DEF InBody
        <4>2. QED
          BY <2>2, <4>1, AtBody, Responds, CountTypes DEF InTurn
      <3>2. QED
        BY <1>0, <2>1, <3>1 DEF OutputGone
    <2>3. CASE ~\E reply \in Replies : get_body(reply)
      <3> SUFFICES ASSUME wrbuf = <<>>, room = SendRoom, UNCHANGED answered
                   PROVE  wrbuf' = <<>> /\ room' = SendRoom
        BY <2>1, <2>3, OutputShrinks DEF OutputGone
      <3>1. Sent = 0 /\ Unsent(0) = <<>>
        BY SendsNothing
      <3>2. QED
        BY <1>0, <2>3, <3>1, OutputShrinks
    <2>4. QED
      BY <2>2, <2>3
  <1>3. QED
    BY <1>1, <1>2

LEMMA NextNothingNew ==
    ASSUME LengthsFit, StreamInv, ConnInv, TakesTurns, NothingNew, [PoliteNext]_vars
    PROVE  NothingNew'
  <1> DEFINE Reads == pc \in {"search", "recv"} /\ frame = "loop"
             Refused == NumAsked = parsed + 1 /\ \E l \in Asked : LastAsked(l) /\ consumed = l
             Begins == pc = "accepted" \/ (pc = "client" /\ callee = "constructor")
  <1>0. parsed \in Nat /\ answered \in Nat /\ dropped \in Nat
    BY CountTypes
  <1>2. CASE ~UNCHANGED input
    <2>1. PoliteSend /\ UNCHANGED connVars
      BY <1>2, InputGrows
    <2>2. UNCHANGED <<pc, frame, callee, wrbuf, consumed, parsed, answered, dropped>>
      BY <2>1, PoliteSends
    <2>3. CASE UNCHANGED <<Asked, NumAsked>>
      <3>1. \A l : LastAsked(l) => LastAsked(l)'
        BY <2>3 DEF LastAsked
      <3>2. QED
        BY <2>2, <2>3, <3>1 DEF NothingNew
    <2>4. CASE NumAsked = answered /\ wrbuf = <<>> /\ parsed = answered /\ dropped = 0
      BY <1>0, <2>2, <2>4 DEF NothingNew
    <2>5. QED
      BY <2>1, <2>3, <2>4, PoliteSends
  <1>3. CASE UNCHANGED input
    <2>0. UNCHANGED <<Asked, NumAsked>>
      BY <1>3, AskedSame
    <2>1. ASSUME UNCHANGED <<parsed, answered, dropped, wrbuf, consumed>>, Begins' => Begins,
                 Reads' => Reads
          PROVE  NothingNew'
      <3>1. \A l : LastAsked(l) => LastAsked(l)'
        BY <2>0 DEF LastAsked
      <3>2. QED
        BY <2>0, <2>1, <3>1 DEF NothingNew
    <2>2. ASSUME ~Begins', ~Reads'
          PROVE  NothingNew'
      BY <2>2 DEF NothingNew
    <2>3. ASSUME ~Begins', parsed' = 0
          PROVE  NothingNew'
      BY <2>3 DEF NothingNew
    <2>4. CASE (ClientFin \/ ClientReset \/ ClientDrain) /\ UNCHANGED connVars
      BY <1>3, <2>1, <2>4 DEF ClientFin, ClientReset, ClientDrain, callVars, stackVars,
                              writeVars, history, connVars
    <2>5. CASE UNCHANGED vars
      BY <2>1, <2>5 DEF vars, streamVars, callVars, stackVars, writeVars, history, connVars
    <2>6. CASE Construct /\ UNCHANGED connVars
      <3>1. parsed = 0 /\ pc' = "client" /\ parsed' = 0
        BY <2>6 DEF Construct, NothingNew, connVars
      <3>2. QED
        BY <3>1 DEF NothingNew
    <2>7. CASE ConnConstruct
      <3>1. parsed' = 0 /\ ~Begins'
        BY <2>7, BaseType DEF ConnConstruct, NothingNew, AwaitHeader, read_until, Look, Return,
                              connVars
      <3>2. QED
        BY <2>3, <3>1
    <2>8. CASE (RecvData \/ RecvWouldBlock \/ SearchNothing) /\ UNCHANGED connVars
      <3>1. UNCHANGED <<parsed, answered, dropped, wrbuf, consumed>>
        BY <2>8 DEF RecvData, RecvWouldBlock, SearchNothing, writeVars, history, connVars
      <3>2. (Begins' => Begins) /\ (Reads' => Reads)
        BY <2>8, BaseType DEF RecvData, RecvAgain, RecvWouldBlock, SearchNothing, stackVars
      <3>3. QED
        BY <2>1, <3>1, <3>2
    <2>9. CASE SearchBytes \/ SearchUntil
      <3>1. pc' \in {"client", "opened", "write", "error"}
        BY <2>9, BaseType DEF SearchBytes, SearchUntil, Deliver, Call
      <3>2. pc' = "client" => callee' = readHandler /\ readHandler # "constructor"
        BY <2>9, BaseType DEF SearchBytes, SearchUntil, Deliver, Call, ConnInv, Callbacks,
                    ReadHandlers
      <3>3. QED
        BY <2>2, <3>1, <3>2
    <2>10. CASE EpollWait
      BY <2>2, <2>10 DEF EpollWait
    <2>11. CASE SearchOverrun \/ WriteEnter \/ SendSome \/ SendBlocked \/ SendClosed
                \/ PollReturn \/ ConnOpened \/ get_body_throws \/ on_write_returns
      BY <2>2, <2>11, BaseType
         DEF SearchOverrun, WriteEnter, SendSome, SendAgain, SendBlocked, SendClosed,
             PollReturn, ConnOpened, Opened, get_body_throws, ClientThrows,
             on_write_returns, Return
    <2>12. CASE Written
      <3>1. pc' # "client" \/ callee' = "on_write"
        BY <2>12 DEF Written, Call, ConnInv, Callbacks
      <3>2. pc' \in {"client", "error"}
        BY <2>12 DEF Written, Call
      <3>3. QED
        BY <2>2, <3>1, <3>2
    <2>13. CASE (StreamCloseStep /\ ConnectionClosed) \/ on_write_closes
      BY <2>2, <2>13, ClosingStep
    <2>14. ASSUME NEW reply \in Replies, get_body(reply)
           PROVE  NothingNew'
      BY <2>14, Responds DEF NothingNew
    <2>18. CASE get_body_drops
      <3>1. dropped' > 0 /\ pc' = "search"
        BY <1>0, <2>18, DropStep
      <3>2. QED
        BY <3>1 DEF NothingNew
    <2>15. CASE get_header
      <3>0. ~sclosed /\ ~closeAfter /\ parsed = answered + dropped /\ InHeader
        BY <2>15, AtHandler DEF get_header, InHeader
      <3>1. CASE parsed' = parsed + 1
        <4>1. parsed' # answered' + dropped'
          BY <1>0, <2>15, <3>0, <3>1 DEF get_header
        <4>2. ~Begins'
          BY <2>15, BaseType DEF get_header, read_bytes, NextRequest, AwaitHeader, read_until,
                                 Look, Return
        <4>3. QED
          BY <4>1, <4>2 DEF NothingNew
      <3>2. CASE parsed' # parsed + 1
        <4>1. ~Begins' /\ UNCHANGED <<consumed, answered, dropped, parsed>>
          BY <2>15, <3>0, <3>2 DEF get_header, NextRequest, ReadsOn, AwaitHeader, read_until,
                                   Look, ClientFrame, history
        <4>2. PICK l \in Asked : Turn(l)
          BY <3>0, OneAsked
        <4>3. NumAsked = parsed + 1 /\ consumed = l /\ LastAsked(l)
          <5>1. NumAsked = parsed + 1 /\ consumed = l
            BY <3>0, <4>2, WhichTurn DEF Unread, HeaderRead
          <5>2. QED
            BY <4>2, <5>1 DEF Turn
        <4>4. LastAsked(l)'
          BY <2>0, <4>3 DEF LastAsked
        <4>5. QED
          BY <2>0, <4>1, <4>3, <4>4 DEF NothingNew
      <3>3. QED
        BY <3>1, <3>2
    <2>16. CASE PoliteSend /\ UNCHANGED connVars
      <3>1. PICK u \in Units : ClientSend(u)
        BY <2>16 DEF PoliteSend
      <3>2. Len(input') = Len(input) + 1 /\ Len(input) \in Nat
        BY <3>1, AskedSent, AskedTypes
      <3>3. QED
        BY <1>3, <3>2
    <2>17. QED
      BY <2>4, <2>5, <2>6, <2>7, <2>8, <2>9, <2>10, <2>11, <2>12, <2>13, <2>14, <2>15, <2>16, <2>18
         DEF PoliteNext, Thread, StreamStep
  <1>4. QED
    BY <1>2, <1>3

\* The read that ends a handler never finds the next header when the client takes
\* turns: header handlers do not nest, and the stack does not grow with the requests.
THEOREM RequestsNotNested ==
    ASSUME LengthsFit
    PROVE  PoliteSpec => []NoNestedRequest
  <1>1. StreamInv /\ ConnInv /\ TakesTurns /\ OutputGone /\ NothingNew => NoNestedRequest
    <2> SUFFICES ASSUME StreamInv, ConnInv, TakesTurns, OutputGone, NothingNew,
                        pc = "search", frame = "loop", parsed > 0, UntilReady
                 PROVE  FALSE
      BY DEF NoNestedRequest
    <2>1. Running
      BY DEF ConnInv, ClosedTogether, Running, Dead
    <2>2. readNum = -1 /\ readUntil = TRUE /\ \E i \in DOMAIN rdbuf : EndsAt(i)
      BY DEF UntilReady, Searching, StreamInv, StreamTypeOK
    <2>3. parsed = answered + dropped
      BY <2>1, <2>2 DEF ConnInv, Reading, AwaitsNothing, AwaitsBody
    <2>4. \A l \in Asked : LastAsked(l) => ~(consumed >= l)
      BY <2>2, NoneBehind
    <2>5. wrbuf # <<>> \/ dropped > 0
      <3>1. \A l \in Asked : LastAsked(l) => consumed # l
        BY <2>4, LastTypes
      <3>2. QED
        BY <2>3, <3>1 DEF NothingNew
    <2>6. ~(NumAsked = parsed + 1 /\ InTurn(0))
      <3>1. NumAsked = parsed + 1 /\ InTurn(0) => NumAsked = answered + 1 /\ dropped = 0
        BY CountTypes DEF InTurn
      <3>2. QED
        BY <2>5, <3>1 DEF OutputGone
    <2>7. PICK l \in Asked : Turn(l)
      BY CountTypes DEF TakesTurns, NoneYet
    <2>8. Settled(l) /\ LastAsked(l)
      <3>1. Settled(l)
        BY <2>3, <2>6, <2>7, WhichTurn
      <3>2. QED
        BY <2>7, <3>1 DEF Turn
    <2>9. QED
      BY <2>4, <2>8 DEF Settled
  <1>2. Init => OutputGone /\ NothingNew
    BY DEF Init, StreamInit, OutputGone, NothingNew
  <1>3. StreamInv /\ ConnInv /\ TakesTurns /\ OutputGone /\ NothingNew /\ [PoliteNext]_vars
          => (OutputGone /\ NothingNew)'
    BY NextOutputGone, NextNothingNew
  <1>4. PoliteSpec => Init /\ [][PoliteNext]_vars
    BY DEF PoliteSpec
  <1>5. QED
    BY <1>1, <1>2, <1>3, <1>4, PoliteInvariant, PTL

-----------------------------------------------------------------------------
(* The answers to such a client are whole, if one fits the send buffer.      *)

\* A live peer is hung up on by the write handler only.
LEMMA HangsUp ==
    ASSUME ConnInv, peer = "open"
    PROVE  ~StreamCloseStep
  <1>1. ~RecvFailed
    BY DEF RecvFailed, RecvErrors, WouldBlock
  <1>2. ~SendFailed /\ ~PollError
    BY DEF SendFailed, PollError, ConnInv, ErrorsAreEnds
  <1>3. QED
    BY <1>1, <1>2 DEF StreamCloseStep

\* The write handler is called by the write part of __handler_poll.
LEMMA WriteHandlerReached ==
    ASSUME StreamInv, ConnInv, [PoliteNext]_vars, ~SendSome, ~SendBlocked,
           pc' = "written" \/ (pc' = "client" /\ callee' = "on_write")
    PROVE  pc = "written" \/ (pc = "client" /\ callee = "on_write")
  <1>1. CASE PoliteSend \/ ClientFin \/ ClientReset \/ ClientDrain
    BY <1>1 DEF PoliteSend, ClientSend, ClientFin, ClientReset, ClientDrain, callVars
  <1>2. CASE UNCHANGED vars
    BY <1>2 DEF vars, streamVars, callVars
  <1>3. CASE Construct \/ (StreamStep /\ ~SearchBytes /\ ~SearchUntil /\ ~Written)
    BY <1>3 DEF Construct, StreamStep, EpollWait, RecvData, RecvAgain, RecvWouldBlock,
                SearchNothing, SearchOverrun, WriteEnter, SendClosed, PollReturn, StreamInv,
                StreamTypeOK
  <1>4. CASE SearchBytes \/ SearchUntil
    BY <1>4, BaseType DEF SearchBytes, SearchUntil, Deliver, Call, ConnInv, Callbacks,
                          ReadHandlers
  <1>5. CASE Written
    BY <1>5 DEF Written
  <1>6. CASE (StreamCloseStep /\ ConnectionClosed) \/ on_write_closes
    BY <1>6, ClosingStep
  <1>7. CASE ConnConstruct \/ ConnOpened \/ get_header \/ get_body_throws \/ on_write_returns
    BY <1>7, BaseType
       DEF ConnConstruct, ConnOpened, Opened, get_header, read_bytes, NextRequest,
           AwaitHeader, read_until, Look, Return, get_body_throws, ClientThrows,
           on_write_returns
  <1>8. ASSUME NEW reply \in Replies, get_body(reply)
        PROVE  FALSE
    BY <1>8, Responds
  <1>10. ~get_body_drops
    BY DropStep
  <1>9. QED
    BY <1>1, <1>2, <1>3, <1>4, <1>5, <1>6, <1>7, <1>8, <1>10 DEF PoliteNext, Thread, StreamStep

LEMMA NextFits ==
    ASSUME LengthsFit, RespLen <= SendRoom,
           StreamInv, ConnInv, TakesTurns, OutputGone, Fits, [PoliteNext]_vars
    PROVE  Fits'
  <1> DEFINE AtWriteHandler == pc = "written" \/ (pc = "client" /\ callee = "on_write")
             Hung == sclosed /\ peer = "open"
  <1>0. /\ Len(wrbuf) \in Nat /\ room \in Nat /\ SendRoom \in Nat /\ RespLen \in Nat
        /\ Len(<<>>) = 0 /\ Len(wrbuf) <= room
    BY OutputTypes, ConstantTypes, StreamAssumption DEF StreamInv, StreamTypeOK, Fits
  <1>1. ASSUME NEW reply \in Replies, get_body(reply)
        PROVE  Fits'
    <2>1. wrbuf = <<>> /\ room = SendRoom
      <3>1. InBody
        BY <1>1, Responds DEF InBody
      <3>2. QED
        BY <3>1, AtBody DEF OutputGone, InTurn
    <2>2. Len(wrbuf') <= room'
      BY <1>0, <1>1, <2>1, Responds
    <2>3. ~AtWriteHandler' /\ ~Hung'
      BY <1>1, Responds
    <2>4. QED
      BY <2>2, <2>3 DEF Fits
  <1>2. CASE SendSome
    <2>1. wrbuf' = SubSeq(wrbuf, Sent + 1, Len(wrbuf)) /\ room' = room - Sent
      BY <1>2 DEF SendSome, Unsent, Sent
    <2>2. Sent \in 0..Len(wrbuf) /\ Sent <= room
      BY SentSome DEF StreamInv
    <2>3. Len(wrbuf') = Len(wrbuf) - Sent
      BY <2>1, <2>2, OthersOf, OutputTypes DEF StreamInv
    <2>4. Len(wrbuf') <= room'
      BY <1>0, <2>1, <2>2, <2>3
    <2>5. pc' \in {"written", "send"} /\ (pc' = "written" => wrbuf' = <<>>) /\ ~sclosed'
      BY <1>2 DEF SendSome, SendAgain, objectVars
    <2>6. QED
      BY <2>4, <2>5 DEF Fits
  <1>3. CASE ~SendSome /\ ~\E reply \in Replies : get_body(reply)
    <2>1. UNCHANGED wrbuf /\ Len(wrbuf') <= room'
      BY <1>0, <1>3, OutputShrinks
    <2>2. ASSUME AtWriteHandler'
          PROVE  wrbuf = <<>>
      <3>1. CASE AtWriteHandler
        BY <3>1 DEF Fits
      <3>2. CASE SendBlocked
        <4>1. Len(wrbuf) = 0
          BY <1>0, <3>2 DEF SendBlocked
        <4>2. QED
          BY <4>1, OutputTypes, EmptySeq DEF StreamInv
      <3>3. CASE ~AtWriteHandler /\ ~SendBlocked
        BY <1>3, <2>2, <3>3, WriteHandlerReached
      <3>4. QED
        BY <3>1, <3>2, <3>3
    <2>3. ASSUME Hung'
          PROVE  wrbuf = <<>>
      <3>1. CASE (StreamCloseStep /\ ConnectionClosed) \/ on_write_closes
        <4>1. peer = "open"
          BY <2>3, <3>1, ClosingStep
        <4>2. on_write_closes
          BY <3>1, <4>1, HangsUp
        <4>3. QED
          BY <4>2 DEF on_write_closes, ClientCloses, Fits
      <3>2. CASE ~(StreamCloseStep /\ ConnectionClosed) /\ ~on_write_closes
        <4>1. sclosed /\ peer = "open"
          BY <2>3, <3>2, QuietStep, PoliteStep, PeerStaysAway, StepIsStreamStep DEF Quiet
        <4>2. QED
          BY <4>1 DEF Fits
      <3>3. QED
        BY <3>1, <3>2
    <2>4. QED
      BY <2>1, <2>2, <2>3 DEF Fits
  <1>4. QED
    BY <1>1, <1>2, <1>3

\* A response that fits the send buffer is never cut short for a client that takes
\* turns, not even the one after which the connection is closed.
THEOREM AnswersComplete ==
    ASSUME LengthsFit, RespLen <= SendRoom
    PROVE  PoliteSpec => []AnswerComplete
  <1>1. StreamInv /\ ConnInv /\ Fits => AnswerComplete
    <2> SUFFICES ASSUME StreamInv, ConnInv, Fits, sclosed, peer = "open"
                 PROVE  nwire = RespLen * answered
      BY DEF AnswerComplete
    <2>1. wrbuf = <<>>
      BY DEF Fits
    <2>2. Len(wrbuf) = nwritten - nwire /\ Len(<<>>) = 0
      BY DEF StreamInv, Queue
    <2>3. nwire = nwritten
      BY <2>1, <2>2, OutputTypes DEF StreamInv
    <2>4. nwritten = RespLen * answered
      BY DEF ConnInv, Counts
    <2>5. QED
      BY <2>3, <2>4
  <1>2. Init => OutputGone /\ Fits
    <2>1. Len(<<>>) = 0 /\ 0 <= SendRoom
      BY StreamAssumption
    <2>2. QED
      BY <2>1 DEF Init, StreamInit, OutputGone, Fits
  <1>3. StreamInv /\ ConnInv /\ TakesTurns /\ OutputGone /\ Fits /\ [PoliteNext]_vars
          => (OutputGone /\ Fits)'
    BY NextOutputGone, NextFits
  <1>4. PoliteSpec => Init /\ [][PoliteNext]_vars
    BY DEF PoliteSpec
  <1>5. QED
    BY <1>1, <1>2, <1>3, <1>4, PoliteInvariant, PTL
===============================================================================
