------------------------------- MODULE IOStream -------------------------------
(***************************************************************************)
(* One IOStream (src/src/stream.cpp) on one accepted, non-blocking,        *)
(* edge-triggered socket, with the kernel's side of that socket and an     *)
(* arbitrary client of the stream's API.                                   *)
(*                                                                         *)
(* Everything runs on the loop's single thread, but the remote peer and    *)
(* the kernel do not: they may act between any two system calls.  So each  *)
(* action of the thread runs from one system call (or API boundary) to the *)
(* next, and pc says where the thread is.  All calls made from inside a    *)
(* read or write handler are tail calls, so the call stack is only         *)
(*   frame : who called __read_to_buffer / __read_from_buffer,             *)
(*           __handler_poll ("poll") or the loop of read_bytes and         *)
(*           read_until ("loop"), and                                      *)
(*   base  : where the outermost function resumes once the handlers return.*)
(*                                                                         *)
(* Bytes are abstracted to units.  Units in Ends are the last bytes of a   *)
(* "\r\n\r\n"; read_until is only ever called with that terminator.        *)
(***************************************************************************)
EXTENDS Integers, Sequences

CONSTANTS
    Units,        \* chunks of input bytes
    Ends,         \* those that complete the terminator of read_until
    NonAscii,     \* those with a character that is negative as a plain char
    Handlers,     \* the callbacks a client passes to the read and write calls
    NoHandler,    \* a default-constructed std::function
    RecvBufSize,  \* SO_RCVBUF: the most one recv takes
    SendBufSize,  \* SO_SNDBUF: the most one send is asked to take
    SendRoom,     \* free space of the kernel's send buffer when it is empty
    IntMod,       \* number of values of a C++ int (2^32 in the build)
    Lengths,      \* the lengths a generic client passes to read_bytes
    MaxInput,     \* bound: units the peer ever sends
    MaxOutput,    \* bound: units the client ever writes
    MaxWrite      \* bound: units of one write_bytes

ASSUME StreamAssumption ==
    /\ Ends \subseteq Units /\ NonAscii \subseteq Units
    /\ NoHandler \notin Handlers
    /\ RecvBufSize \in Nat \ {0} /\ SendBufSize \in Nat \ {0}
    /\ SendRoom \in Nat \ {0}    /\ IntMod \in Nat \ {0, 1}
    /\ Lengths \subseteq Int
    /\ MaxInput \in Nat /\ MaxOutput \in Nat /\ MaxWrite \in Nat

VARIABLES
    \* kernel
    inq,          \* socket receive queue
    peer,         \* "open", "fin" (peer sent FIN) or "rst" (connection reset)
    room,         \* free units in the socket send buffer
    ready,        \* the descriptor is on epoll's ready list (an edge is pending)
    nospace,      \* SOCK_NOSPACE: freed send space will raise an edge
    errno,        \* the thread's errno: "EAGAIN" or "other"
    \* the IOStream object
    rdbuf, wrbuf, \* _rdbuf, _wrbuf
    readNum,      \* _read_num, -1 when no read_bytes is outstanding
    readUntil,    \* _read_until # nullptr
    readHandler, writeHandler,
    sclosed,      \* _closed
    alive,        \* FALSE once the object has been destroyed
    \* the thread
    pc, frame, base,
    evt,          \* the type bits of the event being handled
    got,          \* readsize # 0 in __read_to_buffer
    callee, data, \* the client callback running at pc = "client", its argument
    \* history
    input,        \* every unit the peer has sent
    consumed,     \* how many of them were handed to read handlers
    nwritten,     \* units passed to write_bytes; unit k of the output is named k
    nwire         \* units accepted by send()

kernelVars == <<inq, peer, room, ready, nospace>>
readVars   == <<rdbuf, readNum, readUntil, readHandler>>
writeVars  == <<wrbuf, writeHandler, nwritten, nwire>>
objectVars == <<sclosed, alive>>
callVars   == <<callee, data>>
stackVars  == <<frame, base, evt, got>>
history    == <<input, consumed>>
streamVars == <<kernelVars, errno, readVars, writeVars, objectVars,
                   pc, stackVars, callVars, history>>

\* The thread never leaves these: it has read outside of _rdbuf, touched a
\* destroyed stream, or died of an exception the client let out.
Dead == {"overrun", "freed", "terminated"}

Running == pc \notin Dead /\ ~sclosed

-----------------------------------------------------------------------------
(* The kernel as epoll sees it. *)

OutReady == room > 0 \/ peer = "rst"

\* Mutant: EPOLLRDHUP is not asked for.
ErrorBitNoRdhup == peer = "rst"

\* EPOLLRDHUP, EPOLLHUP or EPOLLERR.
ErrorBit == peer # "open"

\* The conditions epoll reports for the socket, as the loop's type bits.
Mask == (IF inq # <<>> \/ peer # "open" THEN {"IN"} ELSE {})
        \cup (IF OutReady THEN {"OUT"} ELSE {}) \cup (IF ErrorBit THEN {"ERR"} ELSE {})

\* epoll_ctl ADD or MOD polls the socket: it is queued when a condition holds
\* now, and asks for a wake-up on send space when there is none.
Rearm == /\ ready' = (ready \/ Mask # {})
         /\ nospace' = (nospace \/ ~OutReady)

ClientSend(u) ==
    /\ Running /\ peer = "open" /\ Len(input) < MaxInput
    /\ inq' = Append(inq, u)
    /\ input' = Append(input, u)
    /\ ready' = (pc # "accepted")
    /\ UNCHANGED <<peer, room, nospace, errno, readVars, writeVars, objectVars,
                   pc, stackVars, callVars, consumed>>

ClientFin ==
    /\ Running /\ peer = "open"
    /\ peer' = "fin"
    /\ ready' = (pc # "accepted")
    /\ UNCHANGED <<inq, room, nospace, errno, readVars, writeVars, objectVars,
                   pc, stackVars, callVars, history>>

ClientReset ==
    /\ Running /\ peer # "rst"
    /\ peer' = "rst"
    /\ ready' = (pc # "accepted")
    /\ UNCHANGED <<inq, room, nospace, errno, readVars, writeVars, objectVars,
                   pc, stackVars, callVars, history>>

\* The peer acknowledges one unit.  Freed space is an edge only if somebody
\* found the buffer full before.
ClientDrain ==
    /\ Running /\ peer # "rst" /\ room < SendRoom
    /\ room' = room + 1
    /\ ready' = (ready \/ nospace)
    /\ nospace' = FALSE
    /\ UNCHANGED <<inq, peer, errno, readVars, writeVars, objectVars,
                   pc, stackVars, callVars, history>>

-----------------------------------------------------------------------------
(* Helpers of the object. *)

Least(S) == CHOOSE n \in S : \A m \in S : n <= m

\* size_t or long stored into the int _read_num.
AsInt(n) == LET m == n % IntMod
            IN  IF m >= IntMod \div 2 THEN m - IntMod ELSE m

\* Mutant: any data will do.
BytesReadyAny == readNum # -1 /\ readNum >= 0 /\ rdbuf # <<>>

\* "_rdbuf.size() >= _read_num && _rdbuf.size() != 0": the comparison is
\* unsigned, so a negative _read_num is larger than any size.
BytesReady == /\ readNum # -1
              /\ readNum >= 0 /\ Len(rdbuf) >= readNum /\ rdbuf # <<>>

EndsAt(i) == i \in DOMAIN rdbuf /\ rdbuf[i] \in Ends

Searching == readNum = -1 /\ readUntil

UntilReady == Searching /\ \E i \in DOMAIN rdbuf : EndsAt(i)

\* The outermost function goes on when the handlers have returned.
Return == pc' = base

\* close() on an open stream: deregister, shutdown (ENOTCONN after a reset),
\* close, then the close callback, which may destroy the stream.
CloseStream ==
    /\ ~sclosed
    /\ sclosed' = TRUE
    /\ ready' = FALSE
    /\ alive' \in BOOLEAN

CloseErrno(e) == IF peer = "rst" THEN "other" ELSE e

-----------------------------------------------------------------------------
(* IOStream::IOStream and the epoll_wait / toggle_callback of the loop.     *)

Construct ==
    /\ pc = "accepted"
    /\ Rearm
    /\ pc' = "client" /\ callee' = "constructor" /\ base' = "opened"
    /\ UNCHANGED <<inq, peer, room, errno, readVars, writeVars, objectVars,
                   frame, evt, got, data, history>>

\* The constructor has returned to the accept handler.
Opened ==
    /\ pc = "opened"
    /\ pc' = "wait" /\ callee' = "none"
    /\ UNCHANGED <<kernelVars, errno, readVars, writeVars, objectVars, stackVars, data, history>>

\* epoll_wait takes the descriptor off the ready list and polls it again: the
\* mask is the one of this moment.  Other callbacks ran since: errno is theirs.
EpollWait ==
    /\ pc = "wait" /\ ready
    /\ ready' = FALSE
    /\ nospace' = (nospace \/ ~OutReady)
    /\ evt' = Mask
    /\ errno' \in {"EAGAIN", "other"}
    /\ pc' = IF Mask = {} THEN "wait" ELSE IF "IN" \in Mask THEN "recv" ELSE "write"
    /\ frame' = "poll" /\ base' = "write" /\ got' = FALSE
    /\ callee' = "none" /\ data' = <<>>
    /\ UNCHANGED <<inq, peer, room, readVars, writeVars, objectVars, history>>

-----------------------------------------------------------------------------
(* __read_to_buffer: one action per outcome of recv.                        *)

\* Mutant: the buffer is overwritten.
ReceivedAlone(n) == SubSeq(inq, 1, n)

Received(n) == rdbuf \o SubSeq(inq, 1, n)

\* Mutant: recv is called once per event.
RecvOnce == pc' = "search"

\* recv is called until it fails.
RecvAgain == UNCHANGED pc

RecvData ==
    /\ pc = "recv" /\ inq # <<>>
    /\ LET n == Least({Len(inq), RecvBufSize})
       IN  rdbuf' = Received(n) /\ inq' = SubSeq(inq, n + 1, Len(inq))
    /\ got' = TRUE /\ RecvAgain
    /\ UNCHANGED <<peer, room, ready, nospace, errno, readNum, readUntil, readHandler,
                   writeVars, objectVars, frame, base, evt, callVars, history>>

\* The codes SocketClient::recv may throw.  When recv returned 0 it throws the
\* errno that happens to be set.
RecvErrors == IF inq # <<>> THEN {}
              ELSE CASE peer = "open" -> {"EAGAIN"}
                     [] peer = "fin"  -> {errno}
                     [] peer = "rst"  -> {errno, "other"}

\* Mutant: EAGAIN is an error like any other.
WouldBlockNever(e) == FALSE

WouldBlock(e) == e = "EAGAIN"

\* A would-block error ends the loop normally: __handler_poll goes on with
\* __read_from_buffer only if something was read; read_bytes and read_until
\* look again if something was read and give up otherwise.
RecvWouldBlock ==
    /\ pc = "recv"
    /\ \E e \in RecvErrors : WouldBlock(e) /\ errno' = e
    /\ pc' = IF got THEN "search" ELSE IF frame = "poll" THEN "write" ELSE base
    /\ UNCHANGED <<kernelVars, readVars, writeVars, objectVars, stackVars, callVars, history>>

\* IOStreamException: __handler_poll jumps to ERROR_OCCUR, the others break.
\* Both close the stream; what was read in this call is never looked at.
RecvFailed ==
    /\ pc = "recv"
    /\ \E e \in RecvErrors : ~WouldBlock(e) /\ errno' = CloseErrno(e)
    /\ CloseStream
    /\ pc' = IF frame = "poll" THEN "wait" ELSE base
    /\ UNCHANGED <<inq, peer, room, nospace, readVars, writeVars, stackVars, callVars, history>>

-----------------------------------------------------------------------------
(* __read_from_buffer.                                                      *)

\* Mutant: an empty handler is called too.
CallUnchecked(h, next) == pc' = "client" /\ callee' = h

\* A std::function is called only if it is not empty.
Call(h, next) ==
    IF h = NoHandler THEN pc' = next /\ UNCHANGED callee
                     ELSE pc' = "client" /\ callee' = h

\* The handler is moved out of _read_handler before it is called; without one
\* the data is dropped and true is returned all the same.
Deliver(d) ==
    /\ data' = d
    /\ consumed' = consumed + Len(d)
    /\ readHandler' = NoHandler
    /\ Call(readHandler, base)

\* The whole buffer is handed over, not just the _read_num bytes asked for.
SearchBytes ==
    /\ pc = "search" /\ BytesReady
    /\ Deliver(rdbuf)
    /\ rdbuf' = <<>> /\ readNum' = -1
    /\ UNCHANGED <<kernelVars, errno, readUntil, writeVars, objectVars, stackVars, input>>

\* Mutant: the header is copied and not removed.
AfterHeaderKept(i) == rdbuf

AfterHeader(i) == SubSeq(rdbuf, i + 1, Len(rdbuf))

SearchUntil ==
    /\ pc = "search" /\ Searching
    /\ \E i \in DOMAIN rdbuf :
         /\ EndsAt(i) /\ \A j \in 1..(i - 1) : ~EndsAt(j)
         /\ Deliver(SubSeq(rdbuf, 1, i))
         /\ rdbuf' = AfterHeader(i)
    /\ readUntil' = FALSE
    /\ UNCHANGED <<kernelVars, errno, readNum, writeVars, objectVars, stackVars, input>>

SearchNothing ==
    /\ pc = "search" /\ ~BytesReady /\ ~UntilReady
    /\ pc' = IF frame = "poll" THEN "write" ELSE "recv"
    /\ got' = FALSE
    /\ UNCHANGED <<kernelVars, errno, readVars, writeVars, objectVars,
                   frame, base, evt, callVars, history>>

\* The Sunday search leaves the buffer, or its table of shifts, when the header
\* is unfinished or not ASCII (module SundaySearch).
SearchOverrun ==
    /\ pc = "search" /\ Searching /\ rdbuf # <<>>
    /\ ~UntilReady \/ \E i \in DOMAIN rdbuf : rdbuf[i] \in NonAscii
    /\ pc' = "overrun"
    /\ UNCHANGED <<kernelVars, errno, readVars, writeVars, objectVars, stackVars, callVars, history>>

-----------------------------------------------------------------------------
(* The write and the error part of __handler_poll.                          *)

WriteEnter ==
    /\ pc = "write"
    /\ pc' = IF "OUT" \notin evt THEN "error"
             ELSE IF ~alive THEN "freed"
             ELSE IF wrbuf = <<>> THEN "error" ELSE "send"
    /\ UNCHANGED <<kernelVars, errno, readVars, writeVars, objectVars, stackVars, callVars, history>>

Unsent(n) == SubSeq(wrbuf, n + 1, Len(wrbuf))

\* Mutant: one send per event.
SendOnce == pc' = "written"

\* send is called until all is gone or it fails.
SendAgain == pc' = IF wrbuf' = <<>> THEN "written" ELSE "send"

SendSome ==
    /\ pc = "send" /\ ~sclosed /\ peer # "rst" /\ room > 0
    /\ LET n == Least({Len(wrbuf), SendBufSize, room})
       IN  wrbuf' = Unsent(n) /\ room' = room - n /\ nwire' = nwire + n
    /\ SendAgain
    /\ UNCHANGED <<inq, peer, ready, nospace, errno, readVars, writeHandler, nwritten,
                   objectVars, stackVars, callVars, history>>

\* EAGAIN leaves the loop; the write handler is called with output still queued.
SendBlocked ==
    /\ pc = "send" /\ ~sclosed /\ peer # "rst" /\ room = 0
    /\ errno' = "EAGAIN" /\ nospace' = TRUE
    /\ pc' = "written"
    /\ UNCHANGED <<inq, peer, room, ready, readVars, writeVars, objectVars, stackVars, callVars, history>>

SendFailed ==
    /\ pc = "send" /\ ~sclosed /\ peer = "rst"
    /\ CloseStream
    /\ errno' = "other"
    /\ pc' = "wait"
    /\ UNCHANGED <<inq, peer, room, nospace, readVars, writeVars, stackVars, callVars, history>>

\* The client closed the stream in its read handler and kept the object: the
\* descriptor is gone (EBADF) and ERROR_OCCUR finds the stream closed.
SendClosed ==
    /\ pc = "send" /\ sclosed
    /\ errno' = "other"
    /\ pc' = "wait"
    /\ UNCHANGED <<kernelVars, readVars, writeVars, objectVars, stackVars, callVars, history>>

Written ==
    /\ pc = "written"
    /\ writeHandler' = NoHandler
    /\ base' = "error"
    /\ Call(writeHandler, "error")
    /\ UNCHANGED <<kernelVars, errno, readVars, wrbuf, nwritten, nwire, objectVars,
                   frame, evt, got, data, history>>

\* Mutant: the end of __handler_poll looks at the stream in any case.
CloseCalledAlways == TRUE

CloseCalled == "ERR" \in evt

\* EV_ERROR was not set, or close() returns at once on a closed stream; either
\* way the callback is over.  close() on a destroyed stream reads freed memory.
PollReturn ==
    /\ pc = "error" /\ ("ERR" \notin evt \/ sclosed)
    /\ pc' = IF CloseCalled /\ ~alive THEN "freed" ELSE "wait"
    /\ UNCHANGED <<kernelVars, errno, readVars, writeVars, objectVars, stackVars, callVars, history>>

PollError ==
    /\ pc = "error" /\ "ERR" \in evt
    /\ CloseStream
    /\ errno' = CloseErrno(errno)
    /\ pc' = "wait"
    /\ UNCHANGED <<inq, peer, room, nospace, readVars, writeVars, stackVars, callVars, history>>

-----------------------------------------------------------------------------
(* The API, as a client's callback (or the code after the constructor) uses *)
(* it: at most one write_bytes, then one of the tail calls.                 *)

\* Mutant: output still queued is overwritten.
QueuedAlone(len) == [i \in 1..len |-> nwritten + i]

Queued(len) == wrbuf \o [i \in 1..len |-> nwritten + i]

\* Mutant: the socket is not armed again.
update_handlerForgotten == UNCHANGED <<ready, nospace>>

update_handler == Rearm

write_bytes(len, h) ==
    IF len = 0 \/ sclosed
    THEN UNCHANGED <<wrbuf, nwritten, writeHandler, ready, nospace>>
    ELSE /\ wrbuf' = Queued(len)
         /\ nwritten' = nwritten + len
         /\ update_handler
         /\ writeHandler' = h

\* Mutant: the read waits for an event before it looks at the buffer.
LookLater == Return /\ UNCHANGED frame

\* The loop of read_bytes and read_until begins with what is buffered.
Look == pc' = "search" /\ frame' = "loop"

read_bytes(len, h) ==
    IF len = 0 \/ sclosed
    THEN /\ callee' = h /\ data' = <<>> /\ pc' = "client"
         /\ UNCHANGED <<readNum, readHandler, frame>>
    ELSE /\ readNum' = AsInt(len) /\ readHandler' = h
         /\ Look
         /\ UNCHANGED callVars

read_until(h) ==
    IF sclosed
    THEN Return /\ UNCHANGED <<readUntil, readHandler, frame>>
    ELSE readUntil' = TRUE /\ readHandler' = h /\ Look

\* A step of client code that does not close the stream.
ClientContinues ==
    /\ pc = "client"
    /\ \E len \in 0..MaxWrite, h \in Handlers \cup {NoHandler} :
          nwritten + len <= MaxOutput /\ write_bytes(len, h)
    /\ \/ Return /\ UNCHANGED <<readNum, readUntil, readHandler, frame, callVars>>
       \/ \E n \in Lengths, h \in Handlers : read_bytes(n, h) /\ UNCHANGED readUntil
       \/ \E h \in Handlers : read_until(h) /\ UNCHANGED <<readNum, callVars>>
    /\ errno' \in {"EAGAIN", "other"}
    /\ UNCHANGED <<inq, peer, room, rdbuf, nwire, objectVars, base, evt, got, history>>

\* close() called by the client, on a stream it has not closed.
ClientCloses ==
    /\ pc = "client"
    /\ CloseStream
    /\ errno' = CloseErrno(errno)
    /\ Return
    /\ UNCHANGED <<inq, peer, room, nospace, readVars, writeVars, stackVars, callVars, history>>

\* A handler let an exception out.
ClientThrows ==
    /\ pc = "client"
    /\ pc' = "terminated"
    /\ UNCHANGED <<kernelVars, errno, readVars, writeVars, objectVars, stackVars, callVars, history>>

-----------------------------------------------------------------------------
StreamInit ==
    /\ inq = <<>> /\ peer = "open" /\ room = SendRoom /\ ready = FALSE /\ nospace = FALSE
    /\ errno \in {"EAGAIN", "other"}
    /\ rdbuf = <<>> /\ wrbuf = <<>>
    /\ readNum = -1 /\ readUntil = FALSE
    /\ readHandler = NoHandler /\ writeHandler = NoHandler
    /\ sclosed = FALSE /\ alive = TRUE
    /\ pc = "accepted" /\ frame = "loop" /\ base = "opened"
    /\ evt = {} /\ got = FALSE /\ callee = "none" /\ data = <<>>
    /\ input = <<>> /\ consumed = 0 /\ nwritten = 0 /\ nwire = 0

Peer == (\E u \in Units : ClientSend(u)) \/ ClientFin \/ ClientReset \/ ClientDrain

\* Steps of the stream's own code that do not close it ...
StreamStep ==
    \/ EpollWait
    \/ RecvData \/ RecvWouldBlock
    \/ SearchBytes \/ SearchUntil \/ SearchNothing \/ SearchOverrun
    \/ WriteEnter \/ SendSome \/ SendBlocked \/ SendClosed \/ Written \/ PollReturn

\* ... and those that do.
StreamCloseStep == RecvFailed \/ SendFailed \/ PollError

StreamNext ==
    \/ Peer
    \/ Construct \/ Opened
    \/ StreamStep
    \/ StreamCloseStep
    \/ ClientContinues \/ ClientCloses \/ ClientThrows

StreamSpec == StreamInit /\ [][StreamNext]_streamVars

-----------------------------------------------------------------------------
StreamTypeOK ==
    /\ inq \in Seq(Units) /\ peer \in {"open", "fin", "rst"}
    /\ room \in 0..SendRoom /\ ready \in BOOLEAN /\ nospace \in BOOLEAN
    /\ errno \in {"EAGAIN", "other"}
    /\ rdbuf \in Seq(Units) /\ wrbuf \in Seq(Nat)
    /\ readNum \in Int /\ readUntil \in BOOLEAN
    /\ readHandler \in Handlers \cup {NoHandler}
    /\ writeHandler \in Handlers \cup {NoHandler}
    /\ sclosed \in BOOLEAN /\ alive \in BOOLEAN
    /\ pc \in {"accepted", "client", "opened", "wait", "recv", "search",
               "write", "send", "written", "error"} \cup Dead
    /\ frame \in {"poll", "loop"} /\ base \in {"opened", "write", "error"}
    /\ evt \in SUBSET {"IN", "OUT", "ERR"} /\ got \in BOOLEAN
    /\ callee \in Handlers \cup {"none", "constructor"} /\ data \in Seq(Units)
    /\ input \in Seq(Units) /\ consumed \in Nat
    /\ nwritten \in Nat /\ nwire \in Nat

\* Input is neither lost, duplicated nor reordered: what is buffered followed
\* by what the kernel still holds is exactly what was sent and not yet handed
\* to a read handler (the copying in __read_to_buffer and __read_from_buffer).
InputOrder == rdbuf \o inq = SubSeq(input, consumed + 1, Len(input))

\* Output is neither lost, duplicated nor reordered: _wrbuf is exactly what
\* was given to write_bytes and not yet accepted by send, across short sends,
\* blocked sends and writes queued behind unsent ones.
OutputOrder == wrbuf = [i \in 1..(nwritten - nwire) |-> nwire + i]

\* Edge-triggered reads: when the thread sleeps in epoll_wait, unread input or
\* a closed peer always has an edge pending; otherwise no event would ever
\* come.  This is what reading until EAGAIN buys.
NoLostReadEdge ==
    pc = "wait" /\ ~sclosed /\ (inq # <<>> \/ peer # "open") => ready

\* Edge-triggered writes: when the thread sleeps, queued output has an edge
\* pending, or the buffer is full and freeing it will raise one.  This is what
\* the update_handler call of write_bytes buys.
NoLostWriteEdge ==
    pc = "wait" /\ ~sclosed /\ wrbuf # <<>> => ready \/ (room = 0 /\ nospace)

\* A read that buffered input can already satisfy is never left waiting for a
\* new event, which may not come: the terminator, or _read_num bytes, are
\* never sitting in _rdbuf while the thread sleeps.
NoStrandedRead ==
    pc = "wait" /\ ~sclosed => ~BytesReady /\ ~UntilReady
===============================================================================
