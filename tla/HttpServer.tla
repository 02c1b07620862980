------------------------------ MODULE HttpServer ------------------------------
(***************************************************************************)
(* HttpServer and its TcpServer (src/src/server.cpp, socket.cpp) on an     *)
(* EPollIOLoop, with any number of connections that come, are built, write *)
(* and close, and the process's descriptor numbers, which accept reuses.   *)
(*                                                                         *)
(* Of a connection this module keeps what the loop and the accept handler  *)
(* can see of it; module HttpConnection shows how its code comes to close  *)
(* it.                                                                     *)
(* start() is called once, as test.cpp and README.rst do, and memory does  *)
(* not run out.                                                            *)
(***************************************************************************)
EXTENDS IOLoop

CONSTANTS
    Conns,      \* HttpConnection objects
    NoConn,     \* no connection
    Server,     \* the HttpServer, captured by the accept handler
    ListenFd    \* TcpServer::sfd

ASSUME ServerAssumption ==
    /\ IsFiniteSet(Conns) /\ NoConn \notin Conns /\ Server \notin Conns
    /\ Tokens = Conns \cup {Server}
    /\ ListenFd \in Fds

VARIABLES
    phase,      \* the life of each connection, by the names of Lifecycle
    fdOf,       \* SocketClient::cfd of each connection
    openFds,    \* descriptor numbers in use by the server and its connections
    building,   \* the connection whose constructor the accept handler is in
    backlog     \* kernel: connections waiting for accept

serverVars == <<phase, fdOf, openFds, building, backlog>>
vars == <<loopVars, serverVars>>

Phases == {"none", "constructing", "open", "leaked", "destroyed"}
Unused == {c \in Conns : phase[c] = "none"}
Live   == {c \in Conns : phase[c] \in {"constructing", "open"}}

-----------------------------------------------------------------------------
\* TcpServer::TcpServer: clients may connect from listen() on.
Listen == /\ openFds' = openFds \cup {ListenFd}
          /\ backlog' \in 0..Cardinality(Unused)

\* HttpServer::HttpServer: the descriptor is registered after listen().
ServerConstruct ==
    /\ state = "idle" /\ ListenFd \notin openFds
    /\ Listen
    /\ add_handler(ListenFd, Server)
    /\ backlog' > 0 => ListenFd \in ready'
    /\ UNCHANGED <<Control, phase, fdOf, building>>

\* A client connects; each of Conns serves for one connection.
Connect ==
    /\ ListenFd \in openFds
    /\ backlog < Cardinality(Unused)
    /\ backlog' = backlog + 1
    /\ Edge(ListenFd)
    /\ UNCHANGED <<phase, fdOf, openFds, building>>

\* Bytes, space, a FIN or a reset on a connection.
ConnEdge(c) ==
    /\ c \in Live /\ Edge(fdOf[c])
    /\ UNCHANGED serverVars

-----------------------------------------------------------------------------
(* __accept_handler, from one system call to the next.                      *)

Accepting == state = "callback" /\ current = ListenFd /\ building = NoConn

\* TcpServer::accept succeeds.  The kernel hands out a number not in use.
Accepts(fd) == backlog > 0 /\ fd \notin openFds

Taken(fd) == backlog' = backlog - 1 /\ openFds' = openFds \cup {fd}

\* accept, and the registration by the constructor of the IOStream.
AcceptOk(c, fd) ==
    /\ Accepting /\ Accepts(fd) /\ Taken(fd)
    /\ c \in Unused
    /\ fdOf' = [fdOf EXCEPT ![c] = fd]
    /\ phase' = [phase EXCEPT ![c] = "constructing"]
    /\ building' = c
    /\ add_handler(fd, c)
    /\ UNCHANGED Control

\* epoll_ctl ADD fails: the IOLoopException passes through the constructors,
\* none of which closes the socket, and ends start().
AcceptAddFails(fd) ==
    /\ Accepting /\ Accepts(fd) /\ Taken(fd)
    /\ CallbackThrows
    /\ UNCHANGED <<Registered, phase, fdOf, building>>

\* Mutant: the accept handler does not go on until EAGAIN.
NoneWaitingOrSome == TRUE

NoneWaiting == backlog = 0

\* EAGAIN.
AcceptEmpty ==
    /\ Accepting /\ ListenFd \in openFds /\ NoneWaiting
    /\ CallbackReturns
    /\ UNCHANGED <<Registered, serverVars>>

\* TcpServer::shutdown and close: the kernel drops who is waiting.
Unlisten == openFds' = openFds \ {ListenFd} /\ backlog' = 0

\* Any other errno (EMFILE, ECONNABORTED, ...): the server stops listening, and
\* the loop goes round again.
AcceptFails ==
    /\ Accepting /\ ListenFd \in openFds
    /\ remove_handler(ListenFd) /\ Unlisten
    /\ UNCHANGED <<Control, phase, fdOf, building>>

\* Mutant: a break follows the server's close.
RemoveAgainNot == CallbackReturns

\* remove_handler of the closed descriptor fails.
RemoveAgain == CallbackThrows

\* accept on the closed descriptor: EBADF, and remove_handler throws.
AcceptAgain ==
    /\ Accepting /\ ListenFd \notin openFds
    /\ RemoveAgain
    /\ UNCHANGED <<Registered, serverVars>>

\* The constructor returns; set_close_callback is called even if the connection
\* is closed by now.
CtorReturns(c) ==
    /\ state = "callback" /\ building = c
    /\ building' = NoConn
    /\ phase' = [phase EXCEPT ![c] = IF @ = "constructing" THEN "open" ELSE @]
    /\ UNCHANGED <<loopVars, fdOf, openFds, backlog>>

-----------------------------------------------------------------------------
(* The code of a connection, run by its constructor or by an event.         *)

\* Mutant: code run for one connection closes another one, say an idle one.
RunsConnOfAnother(c) == state = "callback" /\ c \in Live

RunsConn(c) == /\ state = "callback" /\ c \in Live
               /\ building = c \/ current = fdOf[c]

\* write_bytes.
ConnWrites(c) ==
    /\ RunsConn(c)
    /\ update_handler(fdOf[c])
    /\ UNCHANGED <<Control, serverVars>>

\* Mutants: close() leaves its callback in the table (closing the descriptor
\* takes it out of the epoll set); it leaves the descriptor open.
UnregisterByClose(fd) ==
    /\ interest' = interest \ {fd} /\ ready' = ready \ {fd}
    /\ pending' = pending \ {fd} /\ UNCHANGED handlers
FreedNot(fd) == openFds

Unregister(fd) == remove_handler(fd)

\* SocketClient::close.
Freed(fd) == openFds \ {fd}

\* A connection that is being built has no callback yet that deletes it.
Ended(p) == IF p = "open" THEN "destroyed" ELSE "leaked"

\* IOStream::close, HttpConnection::close and, unless it is being built, delete.
ConnCloses(c) ==
    /\ RunsConn(c)
    /\ Unregister(fdOf[c])
    /\ openFds' = Freed(fdOf[c])
    /\ phase' = [phase EXCEPT ![c] = Ended(@)]
    /\ UNCHANGED <<Control, fdOf, building, backlog>>

\* The end of __handler_poll.
ConnReturns ==
    /\ current # ListenFd
    /\ CallbackReturns
    /\ UNCHANGED <<Registered, serverVars>>

\* An exception leaves a noexcept handler, or the stream is used after delete.
ConnDies ==
    /\ current # ListenFd \/ building # NoConn
    /\ CallbackDies
    /\ UNCHANGED <<Registered, serverVars>>

-----------------------------------------------------------------------------
Init ==
    /\ LoopInit
    /\ phase = [c \in Conns |-> "none"] /\ fdOf = [c \in Conns |-> NoFd]
    /\ openFds = {} /\ building = NoConn /\ backlog = 0

Accept ==
    \/ \E fd \in Fds : AcceptAddFails(fd) \/ \E c \in Conns : AcceptOk(c, fd)
    \/ AcceptEmpty \/ AcceptFails \/ AcceptAgain
    \/ \E c \in Conns : CtorReturns(c)

LoopStep ==
    /\ \/ state = "idle" /\ openFds # {} /\ start
       \/ stop \/ EpollFails \/ Loop
    /\ UNCHANGED serverVars

Next ==
    \/ ServerConstruct
    \/ Connect \/ \E c \in Conns : ConnEdge(c)
    \/ LoopStep
    \/ Accept
    \/ \E c \in Conns : ConnWrites(c) \/ ConnCloses(c)
    \/ ConnReturns \/ ConnDies

Spec == Init /\ [][Next]_vars

\* The loop runs, accept never blocks, every callback ends, and epoll's ready
\* list is first-in first-out.
Fairness ==
    /\ WF_vars(Loop /\ UNCHANGED serverVars)
    /\ WF_vars(Accept) /\ WF_vars(ConnReturns)
    /\ SF_vars(EpollWait /\ ListenFd \in batch' /\ UNCHANGED serverVars)

FairSpec == Spec /\ Fairness

-----------------------------------------------------------------------------
TypeOK ==
    /\ LoopTypeOK
    /\ phase \in [Conns -> Phases]
    /\ fdOf \in [Conns -> Fds \cup {NoFd}]
    /\ openFds \in SUBSET Fds
    /\ building \in Conns \cup {NoConn}
    /\ backlog \in Nat

\* The handler of a descriptor is the live connection that owns it and no
\* other: close() never leaves a callback that captures a destroyed connection
\* in the table, and a live connection is never without its callback.
NoDanglingHandler ==
    \A c \in Conns, fd \in Fds :
        handlers[fd] = c <=> c \in Live /\ fdOf[c] = fd

\* While start() runs, the descriptors in use are the listening one and those
\* of live connections: no path through close, a failing constructor or a
\* failing accept leaves one behind.
NoFdLeak ==
    state \in {"waiting", "dispatching"}
        => openFds = {ListenFd} \cup {fdOf[c] : c \in Live}

\* The server never runs on deaf: an accept error, after which it no longer
\* listens, always ends start() (through the EBADF of the next accept).
NeverDeaf ==
    state \in {"waiting", "dispatching"}
        => ListenFd \in openFds /\ handlers[ListenFd] = Server

\* Edge-triggered accept: a waiting client always has an event coming, because
\* the accept handler goes on until EAGAIN.
NoLostClient ==
    state \in {"waiting", "dispatching"} /\ backlog > 0
        => ListenFd \in ready \cup batch

\* A waiting client is accepted, unless start() ends.
ClientAccepted ==
    state # "idle" /\ backlog > 0 ~> backlog = 0 \/ state \in Exited

-----------------------------------------------------------------------------
(* The inductive invariant behind the safety properties (HttpServerProofs). *)

\* Who owns the entries of the handler table.
Wiring ==
    /\ TableMatchesEpoll /\ NoDanglingHandler
    /\ \A c \in Live : fdOf[c] \in Fds
    /\ \A fd \in Fds : handlers[fd] = Server <=> fd = ListenFd /\ ListenFd \in openFds

\* Descriptors in use are watched.  Only the failure of epoll_ctl ADD breaks
\* that, and it ends start().
Watched ==
    /\ interest \subseteq openFds
    /\ state # "failed" => openFds \subseteq interest
    /\ state = "idle" => openFds \subseteq {ListenFd}

\* Every event, queued or taken, is for a watched descriptor; the descriptor
\* whose callback runs, and one just accepted, have none in the array.
Queued ==
    /\ ready \subseteq interest \cup {WakeFd}
    /\ batch \subseteq interest \cup {WakeFd}
    /\ batch # {} => state \in {"dispatching", "callback"}
    /\ state = "callback" => current \in Fds \ batch
    /\ building # NoConn => fdOf[building] \notin batch

\* A connection is built inside the accept handler, which ends start() once the
\* server no longer listens.
AcceptHandler ==
    /\ building # NoConn =>
         /\ state \in {"callback", "crashed"}
         /\ state = "callback" => current = ListenFd
         /\ ListenFd \in openFds
    /\ state \in {"waiting", "dispatching"} => ListenFd \in openFds
    /\ state = "callback" /\ ListenFd \notin openFds => current = ListenFd

\* Waiting clients have an event coming unless the accept handler is at work.
Backlog ==
    /\ backlog > 0 => ListenFd \in openFds
    /\ backlog > 0 /\ (state = "callback" => current # ListenFd) /\ state \notin Exited
         => ListenFd \in ready \cup batch

IInv == Wiring /\ Watched /\ Queued /\ NoStaleEvent /\ AcceptHandler /\ Backlog
===============================================================================
