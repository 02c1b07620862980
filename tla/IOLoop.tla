-------------------------------- MODULE IOLoop --------------------------------
(***************************************************************************)
(* EPollIOLoop and its base IOLoop (src/src/ioloop.cpp): the handler table,*)
(* epoll's interest and ready lists, the array of events one epoll_wait    *)
(* returns, and an arbitrary client that adds, updates and removes         *)
(* handlers from inside callbacks or from the code around start().         *)
(*                                                                         *)
(* A handler is represented by the token of the object its closure         *)
(* captures.  The order of the events array is left open.                  *)
(***************************************************************************)
EXTENDS Naturals, FiniteSets

CONSTANTS
    Fds,       \* descriptor numbers
    Tokens,    \* what handlers stand for
    NoToken,   \* no handler
    NoFd,      \* no descriptor
    WakeFd,    \* wake_pipe[0], registered by the constructor, not in handlers
    MaxEvents  \* EPOLL_MAX_EVENT

ASSUME LoopAssumption ==
    /\ IsFiniteSet(Fds)
    /\ WakeFd \notin Fds /\ NoFd \notin Fds \cup {WakeFd}
    /\ NoToken \notin Tokens
    /\ MaxEvents \in Nat \ {0}

VARIABLES
    handlers,  \* IOLoop::handlers
    interest,  \* descriptors in the epoll set, besides WakeFd
    ready,     \* epoll's ready list: edges not yet returned
    batch,     \* events returned by epoll_wait and not yet handled
    current,   \* descriptor whose callback is running
    state,     \* where start() is
    raised,    \* history: the token registered when a batched event was taken
    pending    \* history: edges whose handler has not been called since

loopVars == <<handlers, interest, ready, batch, current, state, raised, pending>>

Events == Fds \cup {WakeFd}

Exited == {"finished", "failed", "crashed"}

\* The code of a client runs in a callback, or outside of start().
ClientRuns == state \in {"callback", "idle", "finished", "failed"}

-----------------------------------------------------------------------------
(* Kernel. *)

\* Data, space, a FIN or a reset arrives: a new edge.
Edge(fd) ==
    /\ fd \in interest
    /\ ready' = ready \cup {fd}
    /\ pending' = pending \cup {fd}
    /\ UNCHANGED <<handlers, interest, batch, current, state, raised>>

\* epoll_ctl ADD and MOD queue a descriptor that is ready at that moment.
Polled(fd) == \/ ready' = ready /\ pending' = pending \ {fd}
              \/ ready' = ready \cup {fd} /\ pending' = pending \cup {fd}

-----------------------------------------------------------------------------
(* The operations.  Each calls epoll_ctl first and throws when that fails,  *)
(* before it touches the handler table.                                     *)

add_handler(fd, t) ==
    /\ fd \notin interest
    /\ interest' = interest \cup {fd}
    /\ handlers' = [handlers EXCEPT ![fd] = t]
    /\ Polled(fd)

update_handler(fd) ==
    /\ fd \in interest
    /\ Polled(fd)
    /\ UNCHANGED <<interest, handlers>>

\* Mutant: EPollIOLoop does not call the base class.
ErasedNot(fd) == handlers

Erased(fd) == [handlers EXCEPT ![fd] = NoToken]

\* The events array keeps what it holds for the descriptor.
remove_handler(fd) ==
    /\ fd \in interest
    /\ interest' = interest \ {fd}
    /\ ready' = ready \ {fd}
    /\ pending' = pending \ {fd}
    /\ handlers' = Erased(fd)

\* stop() writes to the wake pipe; it may be called at any time.
stop ==
    /\ state # "crashed"
    /\ ready' = ready \cup {WakeFd}
    /\ UNCHANGED <<handlers, interest, batch, current, state, raised, pending>>

-----------------------------------------------------------------------------
(* EPollIOLoop::start. *)

start ==
    /\ state \in {"idle", "finished", "failed"}
    /\ state' = "waiting"
    /\ UNCHANGED <<handlers, interest, ready, batch, current, raised, pending>>

\* The kernel fills the array; what does not fit stays on its ready list.
Fits(b) == Cardinality(b) <= MaxEvents /\ (b = ready \/ Cardinality(b) = MaxEvents)
Left(b) == ready \ b

EpollWait ==
    /\ state = "waiting" /\ ready # {}
    /\ \E b \in SUBSET ready :
         /\ Fits(b) /\ batch' = b /\ ready' = Left(b)
         /\ raised' = [fd \in Fds |-> IF fd \in b THEN handlers[fd] ELSE NoToken]
    /\ state' = "dispatching"
    /\ UNCHANGED <<handlers, interest, current, pending>>

\* epoll_wait fails (EINTR): the while ends, and start returns EXIT_SUCCESS.
EpollFails ==
    /\ state = "waiting"
    /\ state' = "finished"
    /\ UNCHANGED <<handlers, interest, ready, batch, current, raised, pending>>

BatchDone ==
    /\ state = "dispatching" /\ batch = {}
    /\ state' = "waiting"
    /\ UNCHANGED <<handlers, interest, ready, batch, current, raised, pending>>

\* Mutant: the wake pipe has no special treatment.
WakeEndsNot == UNCHANGED state

WakeEnds == state' = "finished"

\* The wake pipe's event ends start() at once; the pipe is not drained and the
\* rest of the array is forgotten.
TakeWake ==
    /\ state = "dispatching" /\ WakeFd \in batch
    /\ WakeEnds /\ batch' = {}
    /\ UNCHANGED <<handlers, interest, ready, current, raised, pending>>

\* Mutant: one event is handled in each round, and the others are dropped.
RestNone(fd) == {}

Rest(fd) == batch \ {fd}

\* toggle_callback looks the descriptor up again: the handler may be gone.
TakeEvent(fd) ==
    /\ state = "dispatching" /\ fd \in batch \ {WakeFd}
    /\ batch' = Rest(fd)
    /\ pending' = pending \ {fd}
    /\ IF handlers[fd] # NoToken
       THEN current' = fd /\ state' = "callback"
       ELSE UNCHANGED <<current, state>>
    /\ UNCHANGED <<handlers, interest, ready, raised>>

CallbackReturns ==
    /\ state = "callback"
    /\ state' = "dispatching" /\ current' = NoFd
    /\ UNCHANGED <<batch, raised>>

\* A std::exception leaves the callback: start returns EXIT_FAILURE.
CallbackThrows ==
    /\ state = "callback"
    /\ state' = "failed" /\ current' = NoFd /\ batch' = {}
    /\ UNCHANGED raised

\* The process dies in the callback: std::terminate or undefined behaviour.
CallbackDies ==
    /\ state = "callback"
    /\ state' = "crashed" /\ current' = NoFd /\ batch' = {}
    /\ UNCHANGED raised

-----------------------------------------------------------------------------
LoopInit ==
    /\ handlers = [fd \in Fds |-> NoToken]
    /\ interest = {} /\ ready = {} /\ batch = {}
    /\ current = NoFd /\ state = "idle"
    /\ raised = [fd \in Fds |-> NoToken]
    /\ pending = {}

Registered == <<handlers, interest, ready, pending>>
Control    == <<batch, current, state, raised>>

Kernel == \E fd \in Fds : Edge(fd)

Loop == EpollWait \/ BatchDone \/ TakeWake \/ \E fd \in Fds : TakeEvent(fd)

\* One operation of the client, after which it may go on, return or throw.
ClientOp == \E fd \in Fds :
                \/ \E t \in Tokens : add_handler(fd, t)
                \/ update_handler(fd)
                \/ remove_handler(fd)

CallbackEnds == CallbackReturns \/ CallbackThrows \/ CallbackDies

Client ==
    \/ ClientRuns /\ ClientOp /\ UNCHANGED Control
    \/ (ClientOp \/ UNCHANGED Registered) /\ CallbackEnds

LoopNext == Kernel \/ stop \/ start \/ EpollFails \/ Loop \/ Client

LoopSpec == LoopInit /\ [][LoopNext]_loopVars

\* The loop keeps running and every callback returns.  The kernel's ready list
\* is first-in first-out, so no descriptor on it is passed over for ever.
LoopFairness ==
    /\ WF_loopVars(Loop)
    /\ WF_loopVars(UNCHANGED Registered /\ CallbackEnds)
    /\ \A fd \in Events : SF_loopVars(EpollWait /\ fd \in batch')

FairLoopSpec == LoopSpec /\ LoopFairness

-----------------------------------------------------------------------------
LoopTypeOK ==
    /\ handlers \in [Fds -> Tokens \cup {NoToken}]
    /\ interest \in SUBSET Fds
    /\ ready \in SUBSET Events
    /\ batch \in SUBSET Events /\ Cardinality(batch) <= MaxEvents
    /\ current \in Fds \cup {NoFd}
    /\ state \in {"idle", "waiting", "dispatching", "callback"} \cup Exited
    /\ raised \in [Fds -> Tokens \cup {NoToken}]
    /\ pending \in SUBSET Fds

\* The handler table and the epoll set never disagree, whatever clients do and
\* in whichever callback: an event always finds its handler, and a handler
\* always has its descriptor watched.
TableMatchesEpoll == \A fd \in Fds : handlers[fd] # NoToken <=> fd \in interest

\* An edge that is queued, in the kernel or in the events array, stays queued until
\* it is handled, also across two calls of start() and whatever the callbacks of
\* the descriptors before it in the array do.  It is lost only when stop() or an
\* exception ends start() in the middle of the array.
NoEventLost ==
    [][\A fd \in pending' \cap (ready \cup batch) :
         \/ fd \in ready' \cup batch'
         \/ state \in {"dispatching", "callback"} /\ state' \in Exited]_loopVars

\* The events array is only in use between epoll_wait and the last callback.
BatchInUse == batch # {} => state \in {"dispatching", "callback"}

\* An event of the array reaches the object that was registered when
\* epoll_wait returned it, never a later owner of the same descriptor number.
NoStaleEvent == \A fd \in batch \ {WakeFd} : handlers[fd] = raised[fd]

\* stop() ends start(), even when descriptors are ready all the time.
StopEnds == WakeFd \in ready /\ state # "idle" ~> state \in Exited

\* Every edge of a watched descriptor gets its callback, unless the handler is
\* removed or the loop ends first.
EdgeHandled ==
    \A fd \in Fds : (fd \in ready /\ state = "waiting")
                       ~> (current = fd \/ fd \notin interest \/ state \in Exited)
===============================================================================
