--------------------------- MODULE HttpServerProofs ---------------------------
(* Theorems about IOLoop, for any descriptors and any client, and about     *)
(* HttpServer, for any set of connections and descriptors.                  *)
EXTENDS HttpServer, FiniteSetTheorems, TLAPS

-----------------------------------------------------------------------------
(* The loop: type correctness.                                              *)

\* The events array has room for no event, and for fewer events than it holds.
LEMMA ArrayEmpty == Cardinality({}) <= MaxEvents
  BY FS_EmptySet, LoopAssumption

LEMMA ArrayShrinks ==
    ASSUME LoopTypeOK, NEW fd \in Events
    PROVE  Cardinality(batch \ {fd}) <= MaxEvents
  <1>1. IsFiniteSet(Events)
    BY FS_AddElement, LoopAssumption DEF Events
  <1>2. IsFiniteSet(batch)
    BY <1>1, FS_Subset DEF LoopTypeOK
  <1>3. Cardinality(batch \ {fd}) <= Cardinality(batch)
    BY <1>2, FS_Subset
  <1>4. Cardinality(batch) \in Nat /\ Cardinality(batch \ {fd}) \in Nat
    BY <1>2, FS_CardinalityType, FS_Subset
  <1>5. QED
    BY <1>3, <1>4, LoopAssumption DEF LoopTypeOK

LEMMA LoopInitTypeOK == LoopInit => LoopTypeOK
  BY ArrayEmpty, LoopAssumption DEF LoopInit, LoopTypeOK, Events, Exited

\* What one operation of a client does to the tables, wherever it is called.
LEMMA ClientOpTypes ==
    ASSUME LoopTypeOK, ClientOp
    PROVE  /\ handlers' \in [Fds -> Tokens \cup {NoToken}]
           /\ interest' \in SUBSET Fds
           /\ ready' \in SUBSET Events
           /\ pending' \in SUBSET Fds
  BY DEF LoopTypeOK, Events, ClientOp, add_handler, update_handler, remove_handler,
         Erased, Polled

LEMMA LoopNextTypeOK == LoopTypeOK /\ [LoopNext]_loopVars => LoopTypeOK'
  <1> SUFFICES ASSUME LoopTypeOK, [LoopNext]_loopVars
               PROVE  LoopTypeOK'
    OBVIOUS
  <1> USE LoopAssumption DEF LoopTypeOK, Events, Exited
  <1>1. CASE Kernel
    BY <1>1 DEF Kernel, Edge
  <1>2. CASE stop
    BY <1>2 DEF stop
  <1>3. CASE start
    BY <1>3 DEF start
  <1>4. CASE EpollFails
    BY <1>4 DEF EpollFails
  <1>5. CASE EpollWait
    BY <1>5 DEF EpollWait, Fits, Left
  <1>6. CASE BatchDone
    BY <1>6 DEF BatchDone
  <1>7. CASE TakeWake
    BY <1>7, ArrayEmpty DEF TakeWake, WakeEnds
  <1>8. ASSUME NEW fd \in Fds, TakeEvent(fd)
        PROVE  LoopTypeOK'
    BY <1>8, ArrayShrinks DEF TakeEvent, Rest
  <1>9. CASE Client
    <2>1. CASE ClientRuns /\ ClientOp /\ UNCHANGED Control
      BY <2>1, ClientOpTypes DEF Control
    <2>2. CASE (ClientOp \/ UNCHANGED Registered) /\ CallbackEnds
      BY <2>2, ClientOpTypes, ArrayEmpty
      DEF Registered, CallbackEnds, CallbackReturns, CallbackThrows, CallbackDies
    <2>3. QED
      BY <1>9, <2>1, <2>2 DEF Client
  <1>10. CASE UNCHANGED loopVars
    BY <1>10 DEF loopVars
  <1>11. QED
    BY <1>1, <1>2, <1>3, <1>4, <1>5, <1>6, <1>7, <1>8, <1>9, <1>10 DEF LoopNext, Loop

\* Every variable of the loop keeps its type under any client.
THEOREM LoopTypeCorrect == LoopSpec => []LoopTypeOK
  BY LoopInitTypeOK, LoopNextTypeOK, PTL DEF LoopSpec

-----------------------------------------------------------------------------
(* The loop: the handler table and the epoll set.                           *)

\* Only the operations touch either table.
LEMMA OnlyClientOps ==
    [LoopNext]_loopVars => ClientOp \/ UNCHANGED <<handlers, interest>>
  BY DEF LoopNext, loopVars, Kernel, Edge, stop, start, EpollFails, Loop, EpollWait,
         Fits, Left, BatchDone, TakeWake, WakeEnds, TakeEvent, Rest, Client, Registered

\* The handler table and the epoll set agree whatever clients do, in whichever
\* callback, and however callbacks end.
THEOREM TablesAgree == LoopSpec => []TableMatchesEpoll
  <1>1. LoopInit => TableMatchesEpoll
    BY DEF LoopInit, TableMatchesEpoll
  <1>2. ASSUME LoopTypeOK, TableMatchesEpoll, [LoopNext]_loopVars
        PROVE  TableMatchesEpoll'
    <2>1. CASE ClientOp
      BY <1>2, <2>1, LoopAssumption
      DEF LoopTypeOK, TableMatchesEpoll, ClientOp, add_handler, update_handler,
          remove_handler, Erased
    <2>2. CASE UNCHANGED <<handlers, interest>>
      BY <1>2, <2>2 DEF TableMatchesEpoll
    <2>3. QED
      BY <1>2, <2>1, <2>2, OnlyClientOps
  <1>3. QED
    BY <1>1, <1>2, LoopTypeCorrect, PTL DEF LoopSpec

-----------------------------------------------------------------------------
(* The loop: no edge is lost.                                               *)

LEMMA InitBatch == LoopInit => BatchInUse
  BY DEF LoopInit, BatchInUse

LEMMA NextBatch == BatchInUse /\ [LoopNext]_loopVars => BatchInUse'
  BY DEF LoopNext, loopVars, Kernel, Edge, stop, start, EpollFails, Loop, EpollWait,
         Fits, Left, BatchDone, TakeWake, WakeEnds, TakeEvent, Rest, Client, Control,
         ClientRuns, CallbackEnds, CallbackReturns, CallbackThrows, CallbackDies,
         BatchInUse

\* An operation leaves no edge behind that is neither handled nor queued.
LEMMA ClientOpQueues ==
    ASSUME ClientOp
    PROVE  pending' \cap ready \subseteq ready'
  BY DEF ClientOp, add_handler, update_handler, remove_handler, Erased, Polled

Kept == \A fd \in pending' \cap (ready \cup batch) :
            \/ fd \in ready' \cup batch'
            \/ state \in {"dispatching", "callback"} /\ state' \in Exited

\* Whatever the size of the events array, whatever clients do and however often
\* start() is called, no step drops a queued edge but those in which stop() or an
\* exception ends start() in the middle of the array.  What epoll_wait overwrites
\* is empty, since the array is in use only while it is dispatched.
THEOREM EdgesAreKept == LoopSpec => NoEventLost
  <1>1. ASSUME BatchInUse, LoopNext
        PROVE  Kept
    <2>1. CASE Kernel \/ stop \/ start \/ EpollFails \/ BatchDone
      BY <2>1 DEF Kernel, Edge, stop, start, EpollFails, BatchDone, Kept
    <2>2. CASE EpollWait
      BY <1>1, <2>2 DEF EpollWait, Fits, Left, BatchInUse, Kept
    <2>3. CASE TakeWake
      BY <2>3 DEF TakeWake, WakeEnds, Exited, Kept
    <2>4. ASSUME NEW fd \in Fds, TakeEvent(fd)
          PROVE  Kept
      BY <2>4 DEF TakeEvent, Rest, Kept
    <2>5. CASE ClientRuns /\ ClientOp /\ UNCHANGED Control
      BY <2>5, ClientOpQueues DEF Control, Kept
    <2>6. CASE (ClientOp \/ UNCHANGED Registered) /\ CallbackEnds
      <3>1. pending' \cap ready \subseteq ready'
        BY <2>6, ClientOpQueues DEF Registered
      <3>2. QED
        BY <2>6, <3>1
        DEF CallbackEnds, CallbackReturns, CallbackThrows, CallbackDies, Exited, Kept
    <2>7. QED
      BY <1>1, <2>1, <2>2, <2>3, <2>4, <2>5, <2>6 DEF LoopNext, Loop, Client
  <1>2. BatchInUse /\ [LoopNext]_loopVars => [Kept]_loopVars
    BY <1>1
  <1>3. QED
    BY <1>2, InitBatch, NextBatch, PTL DEF LoopSpec, NoEventLost, Kept

-----------------------------------------------------------------------------
(* The server: type correctness.                                            *)

\* The number of unused connections is a number.
LEMMA UnusedCount == Cardinality(Unused) \in Nat
  <1>1. IsFiniteSet(Unused)
    BY FS_Subset, ServerAssumption DEF Unused
  <1>2. QED
    BY <1>1, FS_CardinalityType

LEMMA InitTypeOK == Init => TypeOK
  BY LoopAssumption, ServerAssumption, ArrayEmpty
  DEF Init, LoopInit, TypeOK, LoopTypeOK, Events, Exited, Phases

\* Every step of the server keeps every variable in its type.
LEMMA NextTypeOK == TypeOK /\ [Next]_vars => TypeOK'
  <1> SUFFICES ASSUME TypeOK, [Next]_vars
               PROVE  TypeOK'
    OBVIOUS
  <1> USE LoopAssumption, ServerAssumption
      DEF TypeOK, LoopTypeOK, Events, Exited, Phases
  <1>1. CASE ServerConstruct
    BY <1>1, UnusedCount DEF ServerConstruct, Listen, add_handler, Polled, Control
  <1>2. CASE Connect
    BY <1>2 DEF Connect, Edge
  <1>3. CASE \E c \in Conns : ConnEdge(c)
    BY <1>3 DEF ConnEdge, Edge, Live, serverVars
  <1>4. CASE LoopStep
    <2>1. CASE state = "idle" /\ openFds # {} /\ start
      BY <1>4, <2>1 DEF LoopStep, start, serverVars
    <2>2. CASE stop
      BY <1>4, <2>2 DEF LoopStep, stop, serverVars
    <2>3. CASE EpollFails
      BY <1>4, <2>3 DEF LoopStep, EpollFails, serverVars
    <2>4. CASE EpollWait
      BY <1>4, <2>4 DEF LoopStep, EpollWait, Fits, Left, serverVars
    <2>5. CASE BatchDone
      BY <1>4, <2>5 DEF LoopStep, BatchDone, serverVars
    <2>6. CASE TakeWake
      BY <1>4, <2>6, ArrayEmpty DEF LoopStep, TakeWake, WakeEnds, serverVars
    <2>7. CASE \E fd \in Fds : TakeEvent(fd)
      BY <1>4, <2>7, ArrayShrinks DEF LoopStep, TakeEvent, Rest, serverVars
    <2>8. QED
      BY <1>4, <2>1, <2>2, <2>3, <2>4, <2>5, <2>6, <2>7 DEF LoopStep, Loop
  <1>5. CASE Accept
    <2>1. ASSUME NEW fd \in Fds, AcceptAddFails(fd)
          PROVE  TypeOK'
      BY <2>1, ArrayEmpty DEF AcceptAddFails, Accepts, Taken, CallbackThrows, Registered
    <2>2. ASSUME NEW fd \in Fds, NEW c \in Conns, AcceptOk(c, fd)
          PROVE  TypeOK'
      BY <2>2 DEF AcceptOk, Accepts, Taken, Unused, add_handler, Polled, Control
    <2>3. CASE AcceptEmpty
      BY <2>3 DEF AcceptEmpty, NoneWaiting, CallbackReturns, Registered, serverVars
    <2>4. CASE AcceptFails
      BY <2>4 DEF AcceptFails, Unlisten, remove_handler, Erased, Control
    <2>5. CASE AcceptAgain
      BY <2>5, ArrayEmpty DEF AcceptAgain, RemoveAgain, CallbackThrows, Registered,
                              serverVars
    <2>6. ASSUME NEW c \in Conns, CtorReturns(c)
          PROVE  TypeOK'
      BY <2>6 DEF CtorReturns, loopVars
    <2>7. QED
      BY <1>5, <2>1, <2>2, <2>3, <2>4, <2>5, <2>6 DEF Accept
  <1>6. ASSUME NEW c \in Conns, ConnWrites(c)
        PROVE  TypeOK'
    BY <1>6 DEF ConnWrites, RunsConn, Live, update_handler, Polled, Control, serverVars
  <1>7. ASSUME NEW c \in Conns, ConnCloses(c)
        PROVE  TypeOK'
    BY <1>7 DEF ConnCloses, Unregister, Freed, Ended, remove_handler, Erased, Control
  <1>8. CASE ConnReturns
    BY <1>8 DEF ConnReturns, CallbackReturns, Registered, serverVars
  <1>9. CASE ConnDies
    BY <1>9, ArrayEmpty DEF ConnDies, CallbackDies, Registered, serverVars
  <1>10. CASE UNCHANGED vars
    BY <1>10 DEF vars, loopVars, serverVars
  <1>11. QED
    BY <1>1, <1>2, <1>3, <1>4, <1>5, <1>6, <1>7, <1>8, <1>9, <1>10 DEF Next

\* Every variable of the loop and of the server keeps its type: in particular
\* the backlog never goes below zero.
THEOREM TypeCorrect == Spec => []TypeOK
  BY InitTypeOK, NextTypeOK, PTL DEF Spec

-----------------------------------------------------------------------------
(* The inductive invariant.                                                 *)

LEMMA InitInv == Init => IInv
  BY LoopAssumption, ServerAssumption
  DEF Init, LoopInit, IInv, Wiring, TableMatchesEpoll, NoDanglingHandler, Live, Watched,
      Queued, NoStaleEvent, AcceptHandler, Backlog, Exited

\* Every step of the server keeps the invariant.
LEMMA NextInv == TypeOK /\ IInv /\ [Next]_vars => IInv'
  <1> SUFFICES ASSUME TypeOK, IInv, [Next]_vars
               PROVE  IInv'
    OBVIOUS
  <1> USE LoopAssumption, ServerAssumption
      DEF TypeOK, LoopTypeOK, Events, Exited,
          IInv, Wiring, TableMatchesEpoll, NoDanglingHandler, Live, Watched,
          Queued, NoStaleEvent, AcceptHandler, Backlog
  <1>1. CASE ServerConstruct
    BY <1>1, UnusedCount DEF ServerConstruct, Listen, add_handler, Polled, Control
  <1>2. CASE Connect
    BY <1>2 DEF Connect, Edge
  <1>3. ASSUME NEW c \in Conns, ConnEdge(c)
        PROVE  IInv'
    BY <1>3 DEF ConnEdge, Edge, serverVars
  <1>4. CASE LoopStep
    <2>1. CASE state = "idle" /\ openFds # {} /\ start
      BY <1>4, <2>1 DEF LoopStep, start, serverVars
    <2>2. CASE stop
      BY <1>4, <2>2 DEF LoopStep, stop, serverVars
    <2>3. CASE EpollFails
      BY <1>4, <2>3 DEF LoopStep, EpollFails, serverVars
    <2>4. CASE EpollWait
      BY <1>4, <2>4 DEF LoopStep, EpollWait, Fits, Left, serverVars
    <2>5. CASE BatchDone
      BY <1>4, <2>5 DEF LoopStep, BatchDone, serverVars
    <2>6. CASE TakeWake
      BY <1>4, <2>6 DEF LoopStep, TakeWake, WakeEnds, serverVars
    <2>7. ASSUME NEW fd \in Fds, TakeEvent(fd)
          PROVE  IInv'
      BY <1>4, <2>7 DEF LoopStep, TakeEvent, Rest, serverVars
    <2>8. QED
      BY <1>4, <2>1, <2>2, <2>3, <2>4, <2>5, <2>6, <2>7 DEF LoopStep, Loop
  <1>5. CASE Accept
    <2>1. ASSUME NEW fd \in Fds, AcceptAddFails(fd)
          PROVE  IInv'
      BY <2>1 DEF AcceptAddFails, Accepts, Taken, Accepting, CallbackThrows, Registered
    <2>2. ASSUME NEW fd \in Fds, NEW c \in Conns, AcceptOk(c, fd)
          PROVE  IInv'
      BY <2>2 DEF AcceptOk, Accepts, Taken, Accepting, Unused, add_handler, Polled,
                  Control
    <2>3. CASE AcceptEmpty
      BY <2>3 DEF AcceptEmpty, NoneWaiting, Accepting, CallbackReturns, Registered,
                  serverVars
    <2>4. CASE AcceptFails
      BY <2>4 DEF AcceptFails, Unlisten, Accepting, remove_handler, Erased, Control
    <2>5. CASE AcceptAgain
      BY <2>5 DEF AcceptAgain, RemoveAgain, Accepting, CallbackThrows, Registered,
                  serverVars
    <2>6. ASSUME NEW c \in Conns, CtorReturns(c)
          PROVE  IInv'
      BY <2>6 DEF CtorReturns, loopVars
    <2>7. QED
      BY <1>5, <2>1, <2>2, <2>3, <2>4, <2>5, <2>6 DEF Accept
  <1>6. ASSUME NEW c \in Conns, ConnWrites(c)
        PROVE  IInv'
    BY <1>6 DEF ConnWrites, RunsConn, update_handler, Polled, Control, serverVars
  <1>7. ASSUME NEW c \in Conns, ConnCloses(c)
        PROVE  IInv'
    BY <1>7 DEF ConnCloses, Unregister, Freed, Ended, RunsConn, remove_handler, Erased,
                Control
  <1>8. CASE ConnReturns
    BY <1>8 DEF ConnReturns, CallbackReturns, Registered, serverVars
  <1>9. CASE ConnDies
    BY <1>9 DEF ConnDies, CallbackDies, Registered, serverVars
  <1>10. CASE UNCHANGED vars
    BY <1>10 DEF vars, loopVars, serverVars
  <1>11. QED
    BY <1>1, <1>2, <1>3, <1>4, <1>5, <1>6, <1>7, <1>8, <1>9, <1>10 DEF Next

LEMMA Invariance == Spec => [](TypeOK /\ IInv)
  <1>1. Init => TypeOK /\ IInv
    BY InitTypeOK, InitInv
  <1>2. TypeOK /\ IInv /\ [Next]_vars => (TypeOK /\ IInv)'
    BY NextTypeOK, NextInv
  <1>3. QED
    BY <1>1, <1>2, PTL DEF Spec

-----------------------------------------------------------------------------
(* What follows from it.                                                    *)

\* A callback in the loop's table always belongs to the live connection that
\* owns the descriptor, so that the loop never calls into a destroyed one.
THEOREM HandlersAreOwned == Spec => []NoDanglingHandler
  <1>1. IInv => NoDanglingHandler
    BY DEF IInv, Wiring
  <1>2. QED
    BY <1>1, Invariance, PTL

\* Although accept reuses the number of a descriptor closed earlier in the same
\* batch, no event of the batch is delivered to the new owner.
THEOREM EventsAreFresh == Spec => []NoStaleEvent
  <1>1. IInv => NoStaleEvent
    BY DEF IInv
  <1>2. QED
    BY <1>1, Invariance, PTL

\* While start() runs, the server holds the listening descriptor and one for
\* each live connection, and no other.
THEOREM NoDescriptorLeak == Spec => []NoFdLeak
  <1>1. TypeOK /\ IInv => NoFdLeak
    <2> SUFFICES ASSUME TypeOK, IInv, state \in {"waiting", "dispatching"}
                 PROVE  openFds = {ListenFd} \cup {fdOf[c] : c \in Live}
      BY DEF NoFdLeak
    <2>1. openFds = interest
      BY DEF IInv, Watched
    <2>2. ListenFd \in openFds
      BY DEF IInv, AcceptHandler
    <2>3. ASSUME NEW c \in Live
          PROVE  fdOf[c] \in openFds
      <3>1. fdOf[c] \in Fds
        BY DEF IInv, Wiring
      <3>2. handlers[fdOf[c]] = c
        BY <3>1 DEF IInv, Wiring, NoDanglingHandler, Live
      <3>3. c # NoToken
        BY LoopAssumption, ServerAssumption DEF Live
      <3>4. QED
        BY <2>1, <3>1, <3>2, <3>3 DEF IInv, Wiring, TableMatchesEpoll
    <2>4. ASSUME NEW fd \in openFds
          PROVE  fd = ListenFd \/ \E c \in Live : fd = fdOf[c]
      <3>1. fd \in Fds /\ handlers[fd] \in Conns \cup {Server}
        BY <2>1, ServerAssumption
        DEF IInv, Wiring, TableMatchesEpoll, TypeOK, LoopTypeOK
      <3>2. QED
        BY <3>1 DEF IInv, Wiring, NoDanglingHandler
    <2>5. QED
      BY <2>2, <2>3, <2>4
  <1>2. QED
    BY <1>1, Invariance, PTL

\* start() never waits for events, or hands them out, without listening.
THEOREM ServerHears == Spec => []NeverDeaf
  <1>1. TypeOK /\ IInv => NeverDeaf
    BY ServerAssumption DEF IInv, Wiring, AcceptHandler, NeverDeaf
  <1>2. QED
    BY <1>1, Invariance, PTL

\* A client in the backlog always has an event of the listening descriptor
\* coming, however many arrive while the accept handler runs.
THEOREM ClientsAreQueued == Spec => []NoLostClient
  <1>1. IInv => NoLostClient
    BY DEF IInv, Backlog, NoLostClient, Exited
  <1>2. QED
    BY <1>1, Invariance, PTL

\* The server and its connections are a client of the loop as IOLoop describes
\* it: they register, update and remove handlers only where client code runs,
\* only in ways epoll_ctl accepts, and leave callbacks in one of three ways.
THEOREM LoopImplemented == Spec => LoopSpec
  <1>1. Init => LoopInit
    BY DEF Init
  <1>2. TypeOK /\ IInv /\ [Next]_vars => [LoopNext]_loopVars
    <2> SUFFICES ASSUME TypeOK, IInv, [Next]_vars
                 PROVE  LoopNext \/ UNCHANGED loopVars
      BY DEF loopVars
    <2>1. ASSUME ServerConstruct
          PROVE  LoopNext
      BY <2>1, ServerAssumption
      DEF ServerConstruct, Listen, LoopNext, Client, ClientOp, ClientRuns
    <2>2. ASSUME Connect \/ \E c \in Conns : ConnEdge(c)
          PROVE  LoopNext
      BY <2>2, ServerAssumption
      DEF Connect, ConnEdge, LoopNext, Kernel, IInv, Wiring
    <2>3. ASSUME LoopStep
          PROVE  LoopNext
      BY <2>3 DEF LoopStep, LoopNext
    <2>4. ASSUME Accept
          PROVE  LoopNext \/ UNCHANGED loopVars
      <3>1. ASSUME NEW fd \in Fds, NEW c \in Conns, AcceptOk(c, fd)
            PROVE  LoopNext
        BY <3>1, ServerAssumption
        DEF AcceptOk, Accepts, Taken, Accepting, LoopNext, Client, ClientOp, ClientRuns
      <3>2. CASE AcceptFails
        BY <3>2, ServerAssumption
        DEF AcceptFails, Unlisten, Accepting, LoopNext, Client, ClientOp, ClientRuns
      <3>3. QED
        BY <2>4, <3>1, <3>2
        DEF Accept, AcceptAddFails, Accepts, Taken, AcceptEmpty, NoneWaiting,
            AcceptAgain, RemoveAgain, CtorReturns, LoopNext, Client, CallbackEnds
    <2>5. ASSUME NEW c \in Conns, ConnWrites(c) \/ ConnCloses(c)
          PROVE  LoopNext
      <3>1. state = "callback" /\ fdOf[c] \in Fds
        BY <2>5 DEF ConnWrites, ConnCloses, Unregister, Freed, Ended, RunsConn, IInv,
                    Wiring
      <3>2. QED
        BY <2>5, <3>1 DEF ConnWrites, ConnCloses, Unregister, Freed, Ended, LoopNext,
                          Client, ClientOp, ClientRuns
    <2>6. ASSUME ConnReturns \/ ConnDies
          PROVE  LoopNext
      BY <2>6 DEF ConnReturns, ConnDies, LoopNext, Client, CallbackEnds
    <2>7. QED
      BY <2>1, <2>2, <2>3, <2>4, <2>5, <2>6 DEF Next, vars
  <1>3. QED
    BY <1>1, <1>2, Invariance, PTL DEF Spec, LoopSpec
===============================================================================
