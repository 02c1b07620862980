---------------------------- MODULE IOStreamProofs ----------------------------
(* Theorems about IOStream, for any units, buffer sizes and client.          *)
EXTENDS IOStream, SequenceTheorems, TLAPS

-----------------------------------------------------------------------------
(* Type correctness.                                                        *)

LEMMA AsIntType == ASSUME NEW n \in Int PROVE AsInt(n) \in Int
  BY StreamAssumption DEF AsInt

\* The least of two or three numbers.
LEMMA LeastOfTwo ==
    ASSUME NEW a \in Nat, NEW b \in Nat
    PROVE  Least({a, b}) \in {a, b} /\ Least({a, b}) <= a /\ Least({a, b}) <= b
  BY DEF Least

LEMMA LeastOfThree ==
    ASSUME NEW a \in Nat, NEW b \in Nat, NEW c \in Nat
    PROVE  /\ Least({a, b, c}) \in {a, b, c}
           /\ Least({a, b, c}) <= a /\ Least({a, b, c}) <= b /\ Least({a, b, c}) <= c
  BY DEF Least

\* How much one recv and one send take.
Taken == Least({Len(inq), RecvBufSize})
Sent  == Least({Len(wrbuf), SendBufSize, room})

LEMMA TakenSome ==
    ASSUME StreamTypeOK, inq # <<>>
    PROVE  Taken \in 1..Len(inq)
  <1>1. Len(inq) \in Nat \ {0} /\ RecvBufSize \in Nat \ {0}
    BY StreamAssumption DEF StreamTypeOK
  <1>2. QED
    BY <1>1, LeastOfTwo DEF Taken

LEMMA SentSome ==
    ASSUME StreamTypeOK
    PROVE  Sent \in 0..Len(wrbuf) /\ Sent <= room
  <1>1. Len(wrbuf) \in Nat /\ SendBufSize \in Nat \ {0} /\ room \in Nat
    BY StreamAssumption DEF StreamTypeOK
  <1>2. QED
    BY <1>1, LeastOfThree DEF Sent

\* The type invariant in parts: each is disturbed by a few actions only.
KernelTypes ==
    /\ inq \in Seq(Units) /\ peer \in {"open", "fin", "rst"}
    /\ room \in 0..SendRoom /\ ready \in BOOLEAN /\ nospace \in BOOLEAN
    /\ errno \in {"EAGAIN", "other"}

ReadTypes ==
    /\ rdbuf \in Seq(Units) /\ readNum \in Int /\ readUntil \in BOOLEAN
    /\ readHandler \in Handlers \cup {NoHandler}
    /\ input \in Seq(Units) /\ consumed \in Nat

WriteTypes ==
    /\ wrbuf \in Seq(Nat) /\ writeHandler \in Handlers \cup {NoHandler}
    /\ nwritten \in Nat /\ nwire \in Nat

ThreadTypes ==
    /\ sclosed \in BOOLEAN /\ alive \in BOOLEAN
    /\ pc \in {"accepted", "client", "opened", "wait", "recv", "search",
               "write", "send", "written", "error"} \cup Dead
    /\ frame \in {"poll", "loop"} /\ base \in {"opened", "write", "error"}
    /\ evt \in SUBSET {"IN", "OUT", "ERR"} /\ got \in BOOLEAN

CallTypes ==
    callee \in Handlers \cup {"none", "constructor"} /\ data \in Seq(Units)

LEMMA TypesInParts ==
    /\ StreamTypeOK <=> KernelTypes /\ ReadTypes /\ WriteTypes /\ ThreadTypes /\ CallTypes
    /\ StreamTypeOK' <=> /\ KernelTypes' /\ ReadTypes' /\ WriteTypes'
                         /\ ThreadTypes' /\ CallTypes'
  BY DEF StreamTypeOK, KernelTypes, ReadTypes, WriteTypes, ThreadTypes, CallTypes

LEMMA InitStreamTypeOK == StreamInit => StreamTypeOK
  <1> SUFFICES ASSUME StreamInit
               PROVE  StreamTypeOK
    OBVIOUS
  <1>1. KernelTypes
    <2>1. inq \in Seq(Units) /\ room \in 0..SendRoom
      BY StreamAssumption DEF StreamInit
    <2>2. QED
      BY <2>1 DEF StreamInit, KernelTypes
  <1>2. ReadTypes
    <2>1. rdbuf \in Seq(Units) /\ input \in Seq(Units)
      BY DEF StreamInit
    <2>2. readNum \in Int /\ consumed \in Nat
      BY DEF StreamInit
    <2>3. readUntil \in BOOLEAN /\ readHandler \in Handlers \cup {NoHandler}
      BY DEF StreamInit
    <2>4. QED
      BY <2>1, <2>2, <2>3 DEF ReadTypes
  <1>3. WriteTypes
    BY DEF StreamInit, WriteTypes
  <1>4. ThreadTypes
    BY DEF StreamInit, ThreadTypes
  <1>5. CallTypes
    BY DEF StreamInit, CallTypes
  <1>6. QED
    BY <1>1, <1>2, <1>3, <1>4, <1>5, TypesInParts

LEMMA NextKernelTypes == StreamTypeOK /\ [StreamNext]_streamVars => KernelTypes'
  <1> SUFFICES ASSUME StreamTypeOK, [StreamNext]_streamVars
               PROVE  KernelTypes'
    OBVIOUS
  <1>0. KernelTypes
    BY TypesInParts
  <1> USE StreamAssumption DEF KernelTypes, kernelVars
  <1>1. CASE Peer
    <2>1. ASSUME NEW u \in Units, ClientSend(u) PROVE KernelTypes'
      BY <1>0, <2>1 DEF ClientSend
    <2>2. CASE ClientFin
      BY <1>0, <2>2 DEF ClientFin
    <2>3. CASE ClientReset
      BY <1>0, <2>3 DEF ClientReset
    <2>4. CASE ClientDrain
      <3>1. room' \in 0..SendRoom /\ ready' \in BOOLEAN
        BY <1>0, <2>4 DEF ClientDrain
      <3>2. nospace' \in BOOLEAN /\ UNCHANGED <<inq, peer, errno>>
        BY <2>4 DEF ClientDrain
      <3>3. QED
        BY <1>0, <3>1, <3>2
    <2>5. QED
      BY <1>1, <2>1, <2>2, <2>3, <2>4 DEF Peer
  <1>2. CASE Construct
    BY <1>0, <1>2 DEF Construct, Rearm
  <1>3. CASE EpollWait
    <2>1. ready' \in BOOLEAN /\ nospace' \in BOOLEAN
      BY <1>3 DEF EpollWait
    <2>2. UNCHANGED <<inq, peer, room>> /\ errno' \in {"EAGAIN", "other"}
      BY <1>3 DEF EpollWait
    <2>3. QED
      BY <1>0, <2>1, <2>2
  <1>4. CASE RecvData
    <2>1. inq' = SubSeq(inq, Taken + 1, Len(inq)) /\ inq # <<>>
      BY <1>4 DEF RecvData, Taken
    <2>2. inq' \in Seq(Units)
      BY <1>0, <2>1, TakenSome
    <2>3. UNCHANGED <<peer, room, ready, nospace, errno>>
      BY <1>4 DEF RecvData
    <2>4. QED
      BY <1>0, <2>2, <2>3
  <1>5. CASE RecvWouldBlock
    BY <1>0, <1>5 DEF RecvWouldBlock, RecvErrors
  <1>6. CASE RecvFailed
    BY <1>0, <1>6 DEF RecvFailed, RecvErrors, CloseStream, CloseErrno
  <1>7. CASE SendSome
    BY <1>0, <1>7, SentSome DEF SendSome, Sent
  <1>8. CASE SendBlocked \/ SendClosed
    BY <1>0, <1>8 DEF SendBlocked, SendClosed
  <1>9. CASE SendFailed \/ PollError
    BY <1>0, <1>9 DEF SendFailed, PollError, CloseStream, CloseErrno
  <1>10. CASE ClientContinues
    BY <1>0, <1>10 DEF ClientContinues, write_bytes, update_handler, Rearm
  <1>11. CASE ClientCloses
    BY <1>0, <1>11 DEF ClientCloses, CloseStream, CloseErrno
  <1>12. CASE UNCHANGED <<kernelVars, errno>>
    BY <1>0, <1>12
  <1>13. QED
    BY <1>1, <1>2, <1>3, <1>4, <1>5, <1>6, <1>7, <1>8, <1>9, <1>10, <1>11, <1>12
       DEF StreamNext, StreamStep, StreamCloseStep, Opened, SearchBytes, SearchUntil,
           SearchNothing, SearchOverrun, WriteEnter, Written, PollReturn, ClientThrows,
           streamVars

LEMMA NextReadTypes == StreamTypeOK /\ [StreamNext]_streamVars => ReadTypes'
  <1> SUFFICES ASSUME StreamTypeOK, [StreamNext]_streamVars
               PROVE  ReadTypes'
    OBVIOUS
  <1>0. ReadTypes /\ inq \in Seq(Units)
    BY TypesInParts DEF KernelTypes
  <1> USE DEF ReadTypes, readVars, history
  <1>1. ASSUME NEW u \in Units, ClientSend(u) PROVE ReadTypes'
    BY <1>0, <1>1 DEF ClientSend
  <1>2. CASE RecvData
    <2>1. rdbuf' = rdbuf \o SubSeq(inq, 1, Taken) /\ inq # <<>>
      BY <1>2 DEF RecvData, Received, Taken
    <2>2. SubSeq(inq, 1, Taken) \in Seq(Units)
      BY <1>0, <2>1, TakenSome
    <2>3. rdbuf' \in Seq(Units)
      BY <1>0, <2>1, <2>2
    <2>4. QED
      BY <1>0, <1>2, <2>3 DEF RecvData
  <1>3. CASE SearchBytes
    BY <1>0, <1>3 DEF SearchBytes, Deliver
  <1>4. CASE SearchUntil
    <2>1. PICK i \in DOMAIN rdbuf : Deliver(SubSeq(rdbuf, 1, i)) /\ rdbuf' = AfterHeader(i)
      BY <1>4 DEF SearchUntil
    <2>2. SubSeq(rdbuf, 1, i) \in Seq(Units) /\ rdbuf' \in Seq(Units)
      BY <1>0, <2>1 DEF AfterHeader
    <2>3. consumed' \in Nat /\ readHandler' = NoHandler
      BY <1>0, <2>1, <2>2 DEF Deliver
    <2>4. readUntil' = FALSE /\ UNCHANGED <<readNum, input>>
      BY <1>4 DEF SearchUntil
    <2>5. QED
      BY <1>0, <2>2, <2>3, <2>4
  <1>5. CASE ClientContinues
    BY <1>0, <1>5, AsIntType, StreamAssumption DEF ClientContinues, read_bytes, read_until
  <1>6. CASE UNCHANGED <<readVars, history>>
    BY <1>0, <1>6
  <1>7. QED
    BY <1>1, <1>2, <1>3, <1>4, <1>5, <1>6
       DEF StreamNext, Peer, StreamStep, StreamCloseStep, ClientFin, ClientReset,
           ClientDrain, Construct, Opened, EpollWait, RecvWouldBlock, SearchNothing,
           SearchOverrun, WriteEnter, SendSome, SendBlocked, SendClosed, Written,
           PollReturn, RecvFailed, SendFailed, PollError, ClientCloses, ClientThrows,
           streamVars

LEMMA NextWriteTypes == StreamTypeOK /\ [StreamNext]_streamVars => WriteTypes'
  <1> SUFFICES ASSUME StreamTypeOK, [StreamNext]_streamVars
               PROVE  WriteTypes'
    OBVIOUS
  <1>0. WriteTypes
    BY TypesInParts
  <1> USE DEF WriteTypes, writeVars
  <1>1. CASE SendSome
    <2>1. wrbuf' = SubSeq(wrbuf, Sent + 1, Len(wrbuf)) /\ nwire' = nwire + Sent
      BY <1>1 DEF SendSome, Unsent, Sent
    <2>2. wrbuf' \in Seq(Nat) /\ nwire' \in Nat
      BY <1>0, <2>1, SentSome
    <2>3. QED
      BY <1>0, <1>1, <2>2 DEF SendSome
  <1>2. CASE Written
    BY <1>0, <1>2 DEF Written
  <1>3. CASE ClientContinues
    <2>1. PICK len \in 0..MaxWrite, h \in Handlers \cup {NoHandler} : write_bytes(len, h)
      BY <1>3 DEF ClientContinues
    <2>2. [i \in 1..len |-> nwritten + i] \in Seq(Nat)
      BY <1>0, StreamAssumption
    <2>3. Queued(len) \in Seq(Nat)
      BY <1>0, <2>2 DEF Queued
    <2>4. nwire' = nwire
      BY <1>3 DEF ClientContinues
    <2>5. QED
      BY <1>0, <2>1, <2>3, <2>4, StreamAssumption DEF write_bytes
  <1>4. CASE UNCHANGED writeVars
    BY <1>0, <1>4
  <1>5. QED
    BY <1>1, <1>2, <1>3, <1>4
       DEF StreamNext, Peer, StreamStep, StreamCloseStep, ClientSend, ClientFin,
           ClientReset, ClientDrain, Construct, Opened, EpollWait, RecvData,
           RecvWouldBlock, SearchBytes, SearchUntil, SearchNothing, SearchOverrun,
           WriteEnter, SendBlocked, SendClosed, PollReturn, RecvFailed, SendFailed,
           PollError, ClientCloses, ClientThrows, streamVars

LEMMA NextThreadTypes == StreamTypeOK /\ [StreamNext]_streamVars => ThreadTypes'
  <1> SUFFICES ASSUME StreamTypeOK, [StreamNext]_streamVars
               PROVE  ThreadTypes'
    OBVIOUS
  <1>0. ThreadTypes
    BY TypesInParts
  <1> USE DEF ThreadTypes, Dead, objectVars, stackVars
  <1>1. CASE Construct
    BY <1>0, <1>1 DEF Construct
  <1>2. CASE Opened
    BY <1>0, <1>2 DEF Opened
  <1>3. CASE EpollWait
    <2>1. Mask \subseteq {"IN", "OUT", "ERR"}
      <3>1. Mask \subseteq {"IN"} \cup {"OUT"} \cup {"ERR"}
        BY Zenon DEF Mask
      <3>2. QED
        BY <3>1
    <2>2. pc' \in {"wait", "recv", "write"} /\ evt' = Mask /\ UNCHANGED objectVars
      BY <1>3 DEF EpollWait
    <2>3. frame' = "poll" /\ base' = "write" /\ got' \in BOOLEAN
      BY <1>3 DEF EpollWait
    <2>4. QED
      BY <1>0, <2>1, <2>2, <2>3
  <1>4. CASE RecvData
    BY <1>0, <1>4 DEF RecvData, RecvAgain
  <1>5. CASE RecvWouldBlock
    BY <1>0, <1>5 DEF RecvWouldBlock
  <1>6. CASE RecvFailed
    BY <1>0, <1>6 DEF RecvFailed, CloseStream
  <1>7. CASE SearchBytes
    BY <1>0, <1>7 DEF SearchBytes, Deliver, Call
  <1>8. CASE SearchUntil
    <2>1. pc' \in {"client", base} /\ UNCHANGED <<objectVars, stackVars>>
      BY <1>8 DEF SearchUntil, Deliver, Call
    <2>2. QED
      BY <1>0, <2>1
  <1>9. CASE SearchNothing
    BY <1>0, <1>9 DEF SearchNothing
  <1>10. CASE SearchOverrun
    BY <1>0, <1>10 DEF SearchOverrun
  <1>11. CASE WriteEnter
    BY <1>0, <1>11 DEF WriteEnter
  <1>12. CASE SendSome
    BY <1>0, <1>12 DEF SendSome, SendAgain
  <1>13. CASE SendBlocked \/ SendClosed
    BY <1>0, <1>13 DEF SendBlocked, SendClosed
  <1>14. CASE SendFailed
    BY <1>0, <1>14 DEF SendFailed, CloseStream
  <1>15. CASE Written
    BY <1>0, <1>15 DEF Written, Call
  <1>16. CASE PollReturn
    BY <1>0, <1>16 DEF PollReturn
  <1>17. CASE PollError
    BY <1>0, <1>17 DEF PollError, CloseStream
  <1>18. CASE ClientContinues
    <2>1. /\ pc' \in {base, "client", "search"} /\ frame' \in {frame, "loop"}
          /\ UNCHANGED <<sclosed, alive, base, evt, got>>
      BY <1>18 DEF ClientContinues, Return, read_bytes, read_until, Look
    <2>2. QED
      BY <1>0, <2>1
  <1>19. CASE ClientCloses
    BY <1>0, <1>19 DEF ClientCloses, CloseStream, Return
  <1>20. CASE ClientThrows
    BY <1>0, <1>20 DEF ClientThrows
  <1>21. CASE UNCHANGED <<objectVars, stackVars, pc>>
    BY <1>0, <1>21
  <1>22. QED
    BY <1>1, <1>2, <1>3, <1>4, <1>5, <1>6, <1>7, <1>8, <1>9, <1>10, <1>11, <1>12, <1>13,
       <1>14, <1>15, <1>16, <1>17, <1>18, <1>19, <1>20, <1>21
       DEF StreamNext, Peer, StreamStep, StreamCloseStep, ClientSend, ClientFin,
           ClientReset, ClientDrain, streamVars

LEMMA NextCallTypes == StreamTypeOK /\ [StreamNext]_streamVars => CallTypes'
  <1> SUFFICES ASSUME StreamTypeOK, [StreamNext]_streamVars
               PROVE  CallTypes'
    OBVIOUS
  <1>0. /\ CallTypes /\ rdbuf \in Seq(Units)
        /\ {readHandler, writeHandler} \subseteq Handlers \cup {NoHandler}
    BY TypesInParts DEF ReadTypes, WriteTypes
  <1> USE DEF CallTypes, callVars
  <1>1. CASE Construct \/ Opened
    BY <1>0, <1>1 DEF Construct, Opened
  <1>2. CASE EpollWait
    BY <1>0, <1>2 DEF EpollWait
  <1>3. CASE SearchBytes
    BY <1>0, <1>3 DEF SearchBytes, Deliver, Call
  <1>4. CASE SearchUntil
    <2>1. PICK i \in DOMAIN rdbuf : Deliver(SubSeq(rdbuf, 1, i))
      BY <1>4 DEF SearchUntil
    <2>2. SubSeq(rdbuf, 1, i) \in Seq(Units)
      BY <1>0
    <2>3. QED
      BY <1>0, <2>1, <2>2 DEF Deliver, Call
  <1>5. CASE Written
    BY <1>0, <1>5 DEF Written, Call
  <1>6. CASE ClientContinues
    <2>1. /\ callee' \in Handlers \cup {callee}
          /\ data' \in {<<>>, data}
      BY <1>6 DEF ClientContinues, read_bytes, read_until
    <2>2. <<>> \in Seq(Units)
      OBVIOUS
    <2>3. QED
      BY <1>0, <2>1, <2>2
  <1>7. CASE UNCHANGED callVars
    BY <1>0, <1>7
  <1>8. QED
    BY <1>1, <1>2, <1>3, <1>4, <1>5, <1>6, <1>7
       DEF StreamNext, Peer, StreamStep, StreamCloseStep, ClientSend, ClientFin,
           ClientReset, ClientDrain, RecvData, RecvWouldBlock, SearchNothing,
           SearchOverrun, WriteEnter, SendSome, SendBlocked, SendClosed, PollReturn,
           RecvFailed, SendFailed, PollError, ClientCloses, ClientThrows, streamVars

LEMMA NextStreamTypeOK == StreamTypeOK /\ [StreamNext]_streamVars => StreamTypeOK'
  BY NextKernelTypes, NextReadTypes, NextWriteTypes, NextThreadTypes, NextCallTypes,
     TypesInParts

\* Every variable of the stream keeps its type: what is handed to callbacks is
\* input, the send buffer is never over-full, and handlers are called only when set.
THEOREM StreamTypeCorrect == StreamSpec => []StreamTypeOK
  BY InitStreamTypeOK, NextStreamTypeOK, PTL DEF StreamSpec

-----------------------------------------------------------------------------
(* Input and output are kept in order.                                      *)

\* The inductive form of InputOrder: what was sent is what was consumed, then the
\* buffer, then the receive queue.
Spliced ==
    /\ consumed + Len(rdbuf) + Len(inq) = Len(input)
    /\ \A i \in 1..Len(rdbuf) : rdbuf[i] = input[consumed + i]
    /\ \A i \in 1..Len(inq) : inq[i] = input[consumed + Len(rdbuf) + i]

\* The first n elements of a sequence, and the others.
LEMMA FirstOf ==
    ASSUME NEW S, NEW s \in Seq(S), NEW n \in 0..Len(s)
    PROVE  /\ SubSeq(s, 1, n) \in Seq(S) /\ Len(SubSeq(s, 1, n)) = n
           /\ \A i \in 1..n : SubSeq(s, 1, n)[i] = s[i]
  <1>1. \A i \in 1..n : s[i] \in S
    OBVIOUS
  <1>2. 1 \in Int /\ n \in Int /\ n - 1 + 1 = n
    OBVIOUS
  <1>3. /\ SubSeq(s, 1, n) \in Seq(S)
        /\ Len(SubSeq(s, 1, n)) = IF 1 <= n THEN n - 1 + 1 ELSE 0
        /\ \A i \in 1..(n - 1 + 1) : SubSeq(s, 1, n)[i] = s[1 + i - 1]
    BY <1>1, <1>2, SubSeqProperties
  <1>4. QED
    BY <1>3

LEMMA OthersOf ==
    ASSUME NEW S, NEW s \in Seq(S), NEW n \in 0..Len(s)
    PROVE  /\ SubSeq(s, n + 1, Len(s)) \in Seq(S)
           /\ Len(SubSeq(s, n + 1, Len(s))) = Len(s) - n
           /\ \A i \in 1..(Len(s) - n) : SubSeq(s, n + 1, Len(s))[i] = s[n + i]
  <1>1. \A i \in (n + 1)..Len(s) : s[i] \in S
    OBVIOUS
  <1>2. n + 1 \in Int /\ Len(s) \in Int
    OBVIOUS
  <1> DEFINE m == n + 1
  <1> HIDE DEF m
  <1>3. /\ SubSeq(s, m, Len(s)) \in Seq(S)
        /\ Len(SubSeq(s, m, Len(s))) = IF m <= Len(s) THEN Len(s) - m + 1 ELSE 0
        /\ \A i \in 1..(Len(s) - m + 1) : SubSeq(s, m, Len(s))[i] = s[m + i - 1]
    BY <1>1, <1>2, SubSeqProperties DEF m
  <1>4. \A i \in 1..(Len(s) - n) : n + 1 + i - 1 = n + i
    OBVIOUS
  <1>5. QED
    BY <1>3, <1>4 DEF m

LEMMA QueueTypes ==
    ASSUME StreamTypeOK
    PROVE  /\ Len(inq) \in Nat /\ Len(rdbuf) \in Nat /\ Len(input) \in Nat
           /\ inq \in Seq(Units) /\ rdbuf \in Seq(Units) /\ input \in Seq(Units)
           /\ consumed \in Nat /\ DOMAIN rdbuf = 1..Len(rdbuf)
  BY DEF StreamTypeOK

\* Where the buffer and the queue are in the input.
LEMMA Places ==
    ASSUME StreamTypeOK, Spliced
    PROVE  /\ \A i \in 1..Len(rdbuf) :
                consumed + i \in 1..Len(input) /\ rdbuf[i] = input[consumed + i]
           /\ \A i \in 1..Len(inq) :
                /\ consumed + Len(rdbuf) + i \in 1..Len(input)
                /\ inq[i] = input[consumed + Len(rdbuf) + i]
  BY QueueTypes DEF Spliced

LEMMA SplicedIsOrder == StreamTypeOK /\ Spliced => InputOrder
  <1> SUFFICES ASSUME StreamTypeOK, Spliced
               PROVE  rdbuf \o inq = SubSeq(input, consumed + 1, Len(input))
    BY DEF InputOrder
  <1> DEFINE rest == SubSeq(input, consumed + 1, Len(input))
             all  == rdbuf \o inq
  <1>1. /\ rest \in Seq(Units) /\ Len(rest) = Len(rdbuf) + Len(inq)
        /\ \A i \in 1..Len(rest) : rest[i] = input[consumed + i]
    <2>1. consumed \in 0..Len(input) /\ Len(input) - consumed = Len(rdbuf) + Len(inq)
      BY QueueTypes DEF Spliced
    <2>2. QED
      BY <2>1, OthersOf, QueueTypes
  <1>2. /\ all \in Seq(Units) /\ Len(all) = Len(rdbuf) + Len(inq)
        /\ \A i \in 1..Len(all) : all[i] = IF i <= Len(rdbuf) THEN rdbuf[i]
                                           ELSE inq[i - Len(rdbuf)]
    BY QueueTypes, ConcatProperties
  <1> HIDE DEF rest, all
  <1>3. ASSUME NEW i \in 1..Len(all) PROVE all[i] = rest[i]
    <2>1. CASE i <= Len(rdbuf)
      <3>1. i \in 1..Len(rdbuf)
        BY <1>2, <2>1, QueueTypes
      <3>2. QED
        BY <1>1, <1>2, <2>1, <3>1, Places
    <2>2. CASE i > Len(rdbuf)
      <3>1. i - Len(rdbuf) \in 1..Len(inq)
        BY <1>2, <2>2, QueueTypes
      <3>2. inq[i - Len(rdbuf)] = input[consumed + Len(rdbuf) + (i - Len(rdbuf))]
        BY <3>1 DEF Spliced
      <3>3. QED
        BY <1>1, <1>2, <2>2, <3>2, QueueTypes
    <2>3. QED
      BY <2>1, <2>2, QueueTypes
  <1>4. all = rest
    BY <1>1, <1>2, <1>3, SeqEqual
  <1>5. QED
    BY <1>4 DEF all, rest

\* Handing over the first n units of the buffer.
LEMMA DeliverKeepsSpliced ==
    ASSUME StreamTypeOK, Spliced, NEW n \in 0..Len(rdbuf),
           Deliver(SubSeq(rdbuf, 1, n)), rdbuf' = SubSeq(rdbuf, n + 1, Len(rdbuf)),
           UNCHANGED <<inq, input>>
    PROVE  Spliced'
  <1>1. consumed' = consumed + n
    BY QueueTypes, FirstOf DEF Deliver
  <1>2. /\ Len(rdbuf') = Len(rdbuf) - n
        /\ \A i \in 1..Len(rdbuf') : rdbuf'[i] = rdbuf[n + i]
    BY QueueTypes, OthersOf
  <1>3. n \in Nat /\ consumed \in Nat /\ Len(rdbuf) \in Nat
    BY QueueTypes
  <1>4. consumed' + Len(rdbuf') = consumed + Len(rdbuf)
    <2> DEFINE left == Len(rdbuf')
    <2>1. left = Len(rdbuf) - n
      BY <1>2
    <2> HIDE DEF left
    <2>2. consumed' + left = consumed + Len(rdbuf)
      BY <1>1, <1>3, <2>1
    <2>3. QED
      BY <2>2 DEF left
  <1>5. ASSUME NEW i \in 1..Len(rdbuf') PROVE rdbuf'[i] = input[consumed' + i]
    <2>1. n + i \in 1..Len(rdbuf) /\ consumed' + i = consumed + (n + i)
      BY <1>1, <1>2, <1>3
    <2>2. QED
      BY <1>2, <2>1, Places
  <1>6. QED
    BY <1>4, <1>5 DEF Spliced

LEMMA NextSpliced == StreamTypeOK /\ Spliced /\ [StreamNext]_streamVars => Spliced'
  <1> SUFFICES ASSUME StreamTypeOK, Spliced, [StreamNext]_streamVars
               PROVE  Spliced'
    OBVIOUS
  <1>1. ASSUME NEW u \in Units, ClientSend(u) PROVE Spliced'
    <2>1. inq' = Append(inq, u) /\ input' = Append(input, u) /\ UNCHANGED <<rdbuf, consumed>>
      BY <1>1 DEF ClientSend, readVars
    <2>2. /\ Len(inq') = Len(inq) + 1 /\ Len(input') = Len(input) + 1
          /\ \A i \in 1..Len(inq) : inq'[i] = inq[i]
          /\ \A i \in 1..Len(input) : input'[i] = input[i]
          /\ inq'[Len(inq) + 1] = u /\ input'[Len(input) + 1] = u
      BY <2>1, QueueTypes
    <2>3. \A i \in 1..Len(rdbuf) : rdbuf[i] = input'[consumed + i]
      BY <2>2, Places
    <2>4. ASSUME NEW i \in 1..Len(inq')
          PROVE  inq'[i] = input'[consumed + Len(rdbuf) + i]
      <3>1. CASE i \in 1..Len(inq)
        BY <2>2, <3>1, Places
      <3>2. CASE i = Len(inq) + 1
        <4>1. consumed + Len(rdbuf) + i = Len(input) + 1
          BY <3>2, QueueTypes DEF Spliced
        <4>2. QED
          BY <2>2, <3>2, <4>1
      <3>3. QED
        BY <2>2, <3>1, <3>2, QueueTypes
    <2>5. consumed + Len(rdbuf) + Len(inq') = Len(input')
      BY <2>2, QueueTypes DEF Spliced
    <2>6. QED
      BY <2>1, <2>3, <2>4, <2>5 DEF Spliced
  <1>2. CASE RecvData
    <2>1. /\ rdbuf' = rdbuf \o SubSeq(inq, 1, Taken) /\ inq # <<>>
          /\ inq' = SubSeq(inq, Taken + 1, Len(inq)) /\ UNCHANGED <<input, consumed>>
      BY <1>2 DEF RecvData, Received, Taken, history
    <2>2. Taken \in 1..Len(inq)
      BY <2>1, TakenSome
    <2>3. /\ Len(inq') = Len(inq) - Taken
          /\ \A i \in 1..Len(inq') : inq'[i] = inq[Taken + i]
      BY <2>1, <2>2, QueueTypes
    <2>4. /\ SubSeq(inq, 1, Taken) \in Seq(Units) /\ Len(SubSeq(inq, 1, Taken)) = Taken
          /\ \A i \in 1..Taken : SubSeq(inq, 1, Taken)[i] = inq[i]
      BY <2>2, QueueTypes
    <2>5. /\ Len(rdbuf') = Len(rdbuf) + Taken
          /\ \A i \in 1..Len(rdbuf') : rdbuf'[i] = IF i <= Len(rdbuf) THEN rdbuf[i]
                                                   ELSE inq[i - Len(rdbuf)]
      <3> DEFINE head == SubSeq(inq, 1, Taken)
      <3> HIDE DEF head
      <3>1. /\ Len(rdbuf \o head) = Len(rdbuf) + Len(head)
            /\ \A i \in 1..Len(rdbuf) + Len(head) :
                 (rdbuf \o head)[i] = IF i <= Len(rdbuf) THEN rdbuf[i] ELSE head[i - Len(rdbuf)]
        BY <2>4, QueueTypes, ConcatProperties DEF head
      <3>2. \A i \in 1..(Len(rdbuf) + Taken) : i > Len(rdbuf) => i - Len(rdbuf) \in 1..Taken
        BY <2>2, QueueTypes
      <3>3. QED
        BY <2>1, <2>2, <2>4, <3>1, <3>2, QueueTypes DEF head
    <2>6. ASSUME NEW i \in 1..Len(rdbuf') PROVE rdbuf'[i] = input[consumed + i]
      <3>1. CASE i <= Len(rdbuf)
        <4>1. i \in 1..Len(rdbuf)
          BY <3>1, QueueTypes
        <4>2. QED
          BY <2>5, <4>1, Places
      <3>2. CASE i > Len(rdbuf)
        <4>1. i - Len(rdbuf) \in 1..Len(inq)
          BY <2>2, <2>5, <3>2, QueueTypes
        <4>2. inq[i - Len(rdbuf)] = input[consumed + Len(rdbuf) + (i - Len(rdbuf))]
          BY <4>1 DEF Spliced
        <4>3. QED
          BY <2>5, <3>2, <4>2, QueueTypes
      <3>3. QED
        BY <2>2, <2>5, <3>1, <3>2, QueueTypes
    <2>7. ASSUME NEW i \in 1..Len(inq')
          PROVE  inq'[i] = input[consumed + Len(rdbuf') + i]
      <3>1. Taken + i \in 1..Len(inq)
        BY <2>2, <2>3, QueueTypes
      <3>2. inq[Taken + i] = input[consumed + Len(rdbuf) + (Taken + i)]
        BY <3>1 DEF Spliced
      <3>3. QED
        BY <2>2, <2>3, <2>5, <3>2, QueueTypes
    <2>8. consumed + Len(rdbuf') + Len(inq') = Len(input)
      BY <2>2, <2>3, <2>5, QueueTypes DEF Spliced
    <2>9. QED
      BY <2>1, <2>6, <2>7, <2>8 DEF Spliced
  <1>3. CASE SearchBytes
    <2>1. /\ rdbuf = SubSeq(rdbuf, 1, Len(rdbuf))
          /\ <<>> = SubSeq(rdbuf, Len(rdbuf) + 1, Len(rdbuf))
      <3>1. Len(rdbuf) \in 0..Len(rdbuf)
        BY QueueTypes
      <3>2. QED
        BY <3>1, QueueTypes, FirstOf, OthersOf, SeqEqual, EmptySeq
    <2>2. Deliver(rdbuf) /\ rdbuf' = <<>> /\ UNCHANGED <<inq, input>>
      BY <1>3 DEF SearchBytes, kernelVars
    <2>3. Len(rdbuf) \in 0..Len(rdbuf)
      BY QueueTypes
    <2>4. QED
      BY <2>1, <2>2, <2>3, DeliverKeepsSpliced
  <1>4. CASE SearchUntil
    <2>1. PICK i \in DOMAIN rdbuf : Deliver(SubSeq(rdbuf, 1, i)) /\ rdbuf' = AfterHeader(i)
      BY <1>4 DEF SearchUntil
    <2>2. i \in 0..Len(rdbuf) /\ UNCHANGED <<inq, input>>
      BY <1>4, QueueTypes DEF SearchUntil, kernelVars
    <2>3. QED
      BY <2>1, <2>2, DeliverKeepsSpliced DEF AfterHeader
  <1>5. CASE UNCHANGED <<inq, rdbuf, input, consumed>>
    BY <1>5 DEF Spliced
  <1>6. QED
    BY <1>1, <1>2, <1>3, <1>4, <1>5
       DEF StreamNext, Peer, StreamStep, StreamCloseStep, ClientFin, ClientReset,
           ClientDrain, Construct, Opened, EpollWait, RecvWouldBlock, SearchNothing,
           SearchOverrun, WriteEnter, SendSome, SendBlocked, SendClosed, Written,
           PollReturn, RecvFailed, SendFailed, PollError, ClientContinues, ClientCloses,
           ClientThrows, streamVars, kernelVars, readVars, history

\* The inductive form of OutputOrder.
Queue ==
    /\ Len(wrbuf) = nwritten - nwire
    /\ \A i \in 1..Len(wrbuf) : wrbuf[i] = nwire + i

LEMMA OutputTypes ==
    ASSUME StreamTypeOK
    PROVE  wrbuf \in Seq(Nat) /\ Len(wrbuf) \in Nat /\ nwritten \in Nat /\ nwire \in Nat
  BY DEF StreamTypeOK

LEMMA QueueIsOrder == StreamTypeOK /\ Queue => OutputOrder
  <1> SUFFICES ASSUME StreamTypeOK, Queue
               PROVE  wrbuf = [i \in 1..(nwritten - nwire) |-> nwire + i]
    BY DEF OutputOrder
  <1>1. wrbuf = [i \in 1..Len(wrbuf) |-> wrbuf[i]]
    BY OutputTypes
  <1>2. QED
    BY <1>1 DEF Queue

LEMMA NextQueue == StreamTypeOK /\ Queue /\ [StreamNext]_streamVars => Queue'
  <1> SUFFICES ASSUME StreamTypeOK, Queue, [StreamNext]_streamVars
               PROVE  Queue'
    OBVIOUS
  <1>1. CASE SendSome
    <2>1. /\ wrbuf' = SubSeq(wrbuf, Sent + 1, Len(wrbuf)) /\ nwire' = nwire + Sent
          /\ nwritten' = nwritten
      BY <1>1 DEF SendSome, Unsent, Sent
    <2>2. Sent \in 0..Len(wrbuf)
      BY SentSome
    <2>3. /\ Len(wrbuf') = Len(wrbuf) - Sent
          /\ \A i \in 1..(Len(wrbuf) - Sent) : wrbuf'[i] = wrbuf[Sent + i]
      BY <2>1, <2>2, OutputTypes, OthersOf
    <2>4. Len(wrbuf') = nwritten' - nwire'
      <3> DEFINE left == Len(wrbuf')
      <3>1. left = Len(wrbuf) - Sent
        BY <2>3
      <3> HIDE DEF left
      <3>2. left = nwritten - (nwire + Sent)
        BY <2>2, <3>1, OutputTypes DEF Queue
      <3>3. QED
        BY <2>1, <3>2 DEF left
    <2>5. ASSUME NEW i \in 1..Len(wrbuf') PROVE wrbuf'[i] = nwire' + i
      <3>1. i \in 1..(Len(wrbuf) - Sent)
        BY <2>3
      <3>2. Sent + i \in 1..Len(wrbuf) /\ nwire + (Sent + i) = (nwire + Sent) + i
        BY <2>2, <3>1, OutputTypes
      <3>3. wrbuf'[i] = nwire + (Sent + i)
        BY <2>3, <3>1, <3>2 DEF Queue
      <3>4. QED
        BY <2>1, <3>2, <3>3
    <2>6. QED
      BY <2>4, <2>5 DEF Queue
  <1>2. CASE ClientContinues
    <2>1. PICK len \in 0..MaxWrite, h \in Handlers \cup {NoHandler} : write_bytes(len, h)
      BY <1>2 DEF ClientContinues
    <2>2. nwire' = nwire
      BY <1>2 DEF ClientContinues
    <2>3. CASE UNCHANGED <<wrbuf, nwritten>>
      BY <2>2, <2>3 DEF Queue
    <2>4. CASE wrbuf' = Queued(len) /\ nwritten' = nwritten + len
      <3> DEFINE new == [i \in 1..len |-> nwritten + i]
      <3>1. len \in Nat
        BY StreamAssumption
      <3>2. new \in Seq(Nat) /\ Len(new) = len /\ \A i \in 1..len : new[i] = nwritten + i
        BY <3>1, OutputTypes
      <3>3. wrbuf' = wrbuf \o new
        BY <2>4 DEF Queued
      <3> HIDE DEF new
      <3>4. /\ Len(wrbuf') = Len(wrbuf) + len
            /\ \A i \in 1..(Len(wrbuf) + len) :
                 wrbuf'[i] = IF i <= Len(wrbuf) THEN wrbuf[i] ELSE new[i - Len(wrbuf)]
        BY <3>2, <3>3, OutputTypes, ConcatProperties
      <3>5. Len(wrbuf') = nwritten' - nwire'
        <4> DEFINE all == Len(wrbuf')
        <4>1. all = Len(wrbuf) + len
          BY <3>4
        <4> HIDE DEF all
        <4>2. all = (nwritten + len) - nwire
          BY <3>1, <4>1, OutputTypes DEF Queue
        <4>3. QED
          BY <2>2, <2>4, <4>2 DEF all
      <3>6. ASSUME NEW i \in 1..Len(wrbuf') PROVE wrbuf'[i] = nwire + i
        <4>1. i \in 1..(Len(wrbuf) + len)
          BY <3>4
        <4>2. CASE i <= Len(wrbuf)
          <5>1. i \in 1..Len(wrbuf)
            BY <4>1, <4>2, <3>1, OutputTypes
          <5>2. QED
            BY <3>4, <4>1, <4>2, <5>1 DEF Queue
        <4>3. CASE i > Len(wrbuf)
          <5>1. i - Len(wrbuf) \in 1..len /\ ~(i <= Len(wrbuf))
            BY <4>1, <4>3, <3>1, OutputTypes
          <5>2. wrbuf'[i] = nwritten + (i - Len(wrbuf))
            BY <3>2, <3>4, <4>1, <5>1
          <5>3. nwritten + (i - Len(wrbuf)) = nwire + i
            BY <4>1, OutputTypes DEF Queue
          <5>4. QED
            BY <5>2, <5>3
        <4>4. QED
          BY <4>1, <4>2, <4>3, <3>1, OutputTypes
      <3>7. QED
        BY <2>2, <3>5, <3>6 DEF Queue
    <2>5. QED
      BY <2>1, <2>3, <2>4 DEF write_bytes
  <1>3. CASE UNCHANGED <<wrbuf, nwritten, nwire>>
    BY <1>3 DEF Queue
  <1>4. QED
    BY <1>1, <1>2, <1>3
       DEF StreamNext, Peer, StreamStep, StreamCloseStep, ClientSend, ClientFin,
           ClientReset, ClientDrain, Construct, Opened, EpollWait, RecvData,
           RecvWouldBlock, SearchBytes, SearchUntil, SearchNothing, SearchOverrun,
           WriteEnter, SendBlocked, SendClosed, Written, PollReturn, RecvFailed,
           SendFailed, PollError, ClientCloses, ClientThrows, streamVars, writeVars

-----------------------------------------------------------------------------
(* Edges and reads that nobody would look at again.                         *)

\* An edge is needed, or will be: the descriptor is in epoll and open.
Polled == ~sclosed /\ pc \notin Dead \cup {"accepted"}

\* Only the constructor's code goes back to the accept handler, and it handles
\* no event.
Outermost ==
    /\ base = "opened" => evt = {}
    /\ pc \in {"accepted", "opened"} => base = "opened"

\* Input has its edge or is being read; the end of it has its edge, or is among
\* the bits of the event that is being handled.
ReadEdge ==
    Polled => /\ inq # <<>> => ready \/ pc = "recv"
              /\ peer # "open" => ready \/ (pc # "wait" /\ "ERR" \in evt)

\* Freed space will be noticed.
SpaceAwaited == room = 0 /\ nospace

\* The event that is being handled will come to the output.
OutputAhead ==
    /\ "OUT" \in evt
    /\ \/ pc \in {"write", "send"}
       \/ pc \in {"recv", "search", "client"} /\ base = "write"

\* Output has its edge, or will have it when the full buffer drains, or the event
\* that is being handled will come to it.
WriteEdge == Polled /\ wrbuf # <<>> => ready \/ SpaceAwaited \/ OutputAhead

\* After anything was added to the buffer, and after every new read, the buffer is
\* searched.
Searched ==
    Running /\ pc # "search" /\ (pc = "recv" => ~got) => ~BytesReady /\ ~UntilReady

LEMMA InitEdges == StreamInit => Outermost /\ ReadEdge /\ WriteEdge /\ Searched
  BY DEF StreamInit, Outermost, ReadEdge, WriteEdge, Searched, Polled, BytesReady,
         UntilReady, Searching

LEMMA NextOutermost == StreamTypeOK /\ Outermost /\ [StreamNext]_streamVars => Outermost'
  <1> SUFFICES ASSUME StreamTypeOK, Outermost, [StreamNext]_streamVars
               PROVE  Outermost'
    OBVIOUS
  <1>0. base \in {"opened", "write", "error"}
    BY DEF StreamTypeOK
  <1> USE DEF Outermost, stackVars
  <1>1. CASE Peer
    BY <1>1 DEF Peer, ClientSend, ClientFin, ClientReset, ClientDrain
  <1>2. CASE Construct \/ Opened \/ EpollWait
    BY <1>2 DEF Construct, Opened, EpollWait
  <1>3. CASE RecvData \/ RecvWouldBlock \/ RecvFailed
    BY <1>0, <1>3 DEF RecvData, RecvAgain, RecvWouldBlock, RecvFailed
  <1>4. CASE SearchBytes \/ SearchUntil
    BY <1>0, <1>4 DEF SearchBytes, SearchUntil, Deliver, Call
  <1>5. CASE SearchNothing \/ SearchOverrun \/ WriteEnter
    BY <1>5 DEF SearchNothing, SearchOverrun, WriteEnter
  <1>6. CASE SendSome \/ SendBlocked \/ SendClosed \/ SendFailed
    BY <1>6 DEF SendSome, SendAgain, SendBlocked, SendClosed, SendFailed
  <1>7. CASE Written \/ PollReturn \/ PollError
    BY <1>7 DEF Written, Call, PollReturn, PollError
  <1>8. CASE ClientContinues
    <2>1. pc' \in {base, "client", "search"} /\ UNCHANGED <<base, evt>>
      BY <1>8 DEF ClientContinues, Return, read_bytes, read_until, Look
    <2>2. QED
      BY <1>0, <2>1
  <1>9. CASE ClientCloses \/ ClientThrows
    BY <1>0, <1>9 DEF ClientCloses, Return, ClientThrows
  <1>10. CASE UNCHANGED streamVars
    BY <1>10 DEF streamVars
  <1>11. QED
    BY <1>1, <1>2, <1>3, <1>4, <1>5, <1>6, <1>7, <1>8, <1>9, <1>10
       DEF StreamNext, StreamStep, StreamCloseStep

\* A stream that is closed stays closed, and needs no edges.
LEMMA ClosedStays == [StreamNext]_streamVars /\ sclosed => sclosed'
  BY DEF StreamNext, Peer, StreamStep, StreamCloseStep, ClientSend, ClientFin, ClientReset,
         ClientDrain, Construct, Opened, EpollWait, RecvData, RecvWouldBlock, SearchBytes,
         SearchUntil, SearchNothing, SearchOverrun, WriteEnter, SendSome, SendBlocked,
         SendClosed, Written, PollReturn, RecvFailed, SendFailed, PollError,
         ClientContinues, ClientCloses, ClientThrows, CloseStream, streamVars, objectVars

LEMMA NextReadEdge ==
    StreamTypeOK /\ Outermost /\ ReadEdge /\ [StreamNext]_streamVars => ReadEdge'
  <1> SUFFICES ASSUME StreamTypeOK, Outermost, ReadEdge, [StreamNext]_streamVars, Polled'
               PROVE  /\ inq' # <<>> => ready' \/ pc' = "recv"
                      /\ peer' # "open" => ready' \/ (pc' # "wait" /\ "ERR" \in evt')
    BY DEF ReadEdge
  <1>0. ~sclosed
    BY ClosedStays DEF Polled
  <1>b. base \in {"opened", "write", "error"}
    BY DEF StreamTypeOK
  <1> USE <1>0 DEF ReadEdge, Polled, Outermost, Dead, stackVars, kernelVars
  <1>1. CASE Peer
    BY <1>1 DEF Peer, ClientSend, ClientFin, ClientReset, ClientDrain, Running
  <1>2. CASE Construct
    BY <1>2 DEF Construct, Rearm, Mask
  <1>3. CASE Opened
    BY <1>3 DEF Opened
  <1>4. CASE EpollWait
    BY <1>4 DEF EpollWait, Mask, ErrorBit
  <1>5. CASE RecvData
    BY <1>5 DEF RecvData, RecvAgain
  <1>6. CASE RecvWouldBlock
    <2>1. inq = <<>>
      BY <1>6 DEF RecvWouldBlock, RecvErrors
    <2>2. pc = "recv" /\ pc' # "wait" /\ UNCHANGED <<inq, peer, ready, evt>>
      BY <1>b, <1>6 DEF RecvWouldBlock
    <2>3. QED
      BY <2>1, <2>2
  <1>7. CASE SearchBytes \/ SearchUntil
    BY <1>b, <1>7 DEF SearchBytes, SearchUntil, Deliver, Call
  <1>8. CASE SearchNothing \/ SearchOverrun \/ WriteEnter
    BY <1>8 DEF SearchNothing, SearchOverrun, WriteEnter
  <1>9. CASE SendSome \/ SendBlocked \/ SendClosed
    BY <1>9 DEF SendSome, SendAgain, SendBlocked, SendClosed
  <1>10. CASE Written \/ PollReturn
    BY <1>10 DEF Written, Call, PollReturn
  <1>11. CASE StreamCloseStep \/ ClientCloses
    BY <1>11 DEF StreamCloseStep, RecvFailed, SendFailed, PollError, ClientCloses, CloseStream
  <1>12. CASE ClientContinues
    <2>1. pc = "client" /\ pc' \in {base, "client", "search"} /\ UNCHANGED <<inq, peer, evt>>
      BY <1>12 DEF ClientContinues, Return, read_bytes, read_until, Look
    <2>2. ready => ready'
      BY <1>12 DEF ClientContinues, write_bytes, update_handler, Rearm
    <2>3. QED
      BY <1>b, <2>1, <2>2
  <1>13. CASE ClientThrows
    BY <1>13 DEF ClientThrows
  <1>14. CASE UNCHANGED streamVars
    BY <1>14 DEF streamVars, objectVars
  <1>15. QED
    BY <1>1, <1>2, <1>3, <1>4, <1>5, <1>6, <1>7, <1>8, <1>9, <1>10, <1>11, <1>12, <1>13,
       <1>14 DEF StreamNext, StreamStep

LEMMA NextWriteEdge ==
    StreamTypeOK /\ WriteEdge /\ [StreamNext]_streamVars => WriteEdge'
  <1> SUFFICES ASSUME StreamTypeOK, WriteEdge, [StreamNext]_streamVars, Polled',
                      wrbuf' # <<>>
               PROVE  ready' \/ SpaceAwaited' \/ OutputAhead'
    BY DEF WriteEdge
  <1>0. ~sclosed
    BY ClosedStays DEF Polled
  <1>t. room \in Nat /\ ready \in BOOLEAN /\ nospace \in BOOLEAN
    BY DEF StreamTypeOK
  <1>1. CASE Peer
    <2>1. UNCHANGED <<wrbuf, sclosed, pc, evt, base>>
      BY <1>1 DEF Peer, ClientSend, ClientFin, ClientReset, ClientDrain,
                  objectVars, stackVars, writeVars
    <2>2. ready' \/ UNCHANGED <<ready, room, nospace>> \/ (~nospace /\ ready' = ready)
      <3>1. pc # "accepted"
        BY <2>1 DEF Polled
      <3>2. CASE ClientDrain
        <4>1. CASE nospace
          BY <3>2, <4>1 DEF ClientDrain
        <4>2. CASE ~nospace
          <5>1. ready' \/ ready' = ready
            BY <1>t, <3>2, <4>2 DEF ClientDrain
          <5>2. QED
            BY <4>2, <5>1
        <4>3. QED
          BY <4>1, <4>2
      <3>3. QED
        BY <1>1, <3>1, <3>2 DEF Peer, ClientSend, ClientFin, ClientReset
    <2>3. Polled /\ (OutputAhead' <=> OutputAhead)
      BY <2>1 DEF Polled, OutputAhead
    <2>4. QED
      BY <2>1, <2>2, <2>3 DEF WriteEdge, SpaceAwaited
  <1>2. ASSUME UNCHANGED <<ready, room, nospace>>, Polled, wrbuf # <<>>,
               OutputAhead => OutputAhead'
        PROVE  ready' \/ SpaceAwaited' \/ OutputAhead'
    BY <1>2 DEF WriteEdge, SpaceAwaited
  <1>3. Rearm => ready' \/ (nospace' /\ room = 0)
    <2>1. OutReady => Mask # {}
      BY DEF Mask
    <2>2. ~OutReady => room = 0
      BY <1>t DEF OutReady
    <2>3. QED
      BY <2>1, <2>2 DEF Rearm
  <1>4. CASE Construct
    BY <1>3, <1>4 DEF Construct, SpaceAwaited
  <1>5. CASE Opened
    <2>1. UNCHANGED <<ready, room, nospace, wrbuf>> /\ Polled
      BY <1>5, <1>0 DEF Opened, kernelVars, writeVars, Polled, Dead
    <2>2. ~OutputAhead
      BY <1>5 DEF Opened, OutputAhead
    <2>3. QED
      BY <1>2, <2>1, <2>2
  <1>6. CASE EpollWait
    <2>1. room = 0 \/ "OUT" \in evt'
      BY <1>6 DEF EpollWait, Mask, OutReady, StreamTypeOK
    <2>2. CASE room = 0 /\ ~OutReady
      BY <1>6, <2>2 DEF EpollWait, SpaceAwaited
    <2>3. CASE OutReady
      <3>1. "OUT" \in Mask
        BY <2>3 DEF Mask
      <3>2. QED
        BY <1>6, <3>1 DEF EpollWait, OutputAhead
    <2>4. QED
      BY <2>1, <2>2, <2>3 DEF OutReady, StreamTypeOK
  <1>7. CASE RecvData \/ RecvWouldBlock
    <2>1. UNCHANGED <<ready, room, nospace, wrbuf, evt, base>>
      BY <1>7 DEF RecvData, RecvWouldBlock, kernelVars, writeVars, stackVars
    <2>2. pc = "recv" /\ pc' \in {"recv", "search", "write", base}
      BY <1>7 DEF RecvData, RecvAgain, RecvWouldBlock
    <2>3. Polled /\ (OutputAhead => OutputAhead')
      BY <1>0, <2>1, <2>2 DEF Polled, Dead, OutputAhead
    <2>4. QED
      BY <1>2, <2>1, <2>3
  <1>8. CASE SearchBytes \/ SearchUntil \/ SearchNothing
    <2>1. UNCHANGED <<ready, room, nospace, wrbuf, evt, base>>
      BY <1>8 DEF SearchBytes, SearchUntil, SearchNothing, kernelVars, writeVars, stackVars
    <2>2. pc = "search" /\ pc' \in {"recv", "client", "write", base}
      BY <1>8 DEF SearchBytes, SearchUntil, SearchNothing, Deliver, Call
    <2>3. Polled /\ (OutputAhead => OutputAhead')
      BY <1>0, <2>1, <2>2 DEF Polled, Dead, OutputAhead
    <2>4. QED
      BY <1>2, <2>1, <2>3
  <1>9. CASE WriteEnter
    <2>1. UNCHANGED <<ready, room, nospace, wrbuf, evt, base>> /\ pc = "write"
      BY <1>9 DEF WriteEnter, kernelVars, writeVars, stackVars
    <2>2. OutputAhead => OutputAhead'
      BY <1>9, <2>1 DEF WriteEnter, Polled, Dead, OutputAhead
    <2>3. QED
      BY <1>0, <1>2, <2>1, <2>2 DEF Polled, Dead
  <1>10. CASE SendSome
    <2>1. /\ UNCHANGED <<evt, base>> /\ pc = "send" /\ pc' = "send"
          /\ ready' = ready /\ room > 0
      BY <1>10 DEF SendSome, SendAgain, stackVars
    <2>2. Polled /\ ~SpaceAwaited /\ (OutputAhead => OutputAhead')
      BY <1>0, <2>1 DEF Polled, Dead, SpaceAwaited, OutputAhead
    <2>3. wrbuf # <<>>
      <3>1. CASE wrbuf = <<>>
        <4>1. wrbuf' = SubSeq(wrbuf, Sent + 1, Len(wrbuf)) /\ Sent \in 0..Len(wrbuf)
          BY <1>10, SentSome DEF SendSome, Unsent, Sent
        <4>2. Len(wrbuf') = Len(wrbuf) - Sent
          BY <4>1, OutputTypes, OthersOf
        <4>3. Len(wrbuf) = 0
          BY <3>1
        <4>4. Len(wrbuf') = 0
          BY <4>1, <4>2, <4>3
        <4>5. QED
          BY <4>1, <4>4, OutputTypes, EmptySeq
      <3>2. QED
        BY <3>1
    <2>4. QED
      BY <2>1, <2>2, <2>3 DEF WriteEdge
  <1>11. CASE SendBlocked
    BY <1>11 DEF SendBlocked, SpaceAwaited
  <1>12. CASE Written
    <2>1. UNCHANGED <<ready, room, nospace, wrbuf>> /\ Polled /\ ~OutputAhead
      BY <1>0, <1>12 DEF Written, kernelVars, Polled, Dead, OutputAhead
    <2>2. QED
      BY <1>2, <2>1
  <1>13. CASE PollReturn
    <2>1. UNCHANGED <<ready, room, nospace, wrbuf>> /\ Polled /\ ~OutputAhead
      BY <1>0, <1>13 DEF PollReturn, kernelVars, writeVars, Polled, Dead, OutputAhead
    <2>2. QED
      BY <1>2, <2>1
  <1>14. CASE SearchOverrun \/ ClientThrows
    BY <1>14 DEF SearchOverrun, ClientThrows, Polled, Dead
  <1>15. CASE SendClosed
    BY <1>0, <1>15 DEF SendClosed
  <1>16. CASE StreamCloseStep \/ ClientCloses
    BY <1>16 DEF StreamCloseStep, RecvFailed, SendFailed, PollError, ClientCloses,
                 CloseStream, Polled
  <1>17. CASE ClientContinues
    <2>1. pc = "client" /\ pc' \in {base, "client", "search"} /\ UNCHANGED <<room, base, evt>>
      BY <1>17 DEF ClientContinues, Return, read_bytes, read_until, Look
    <2>2. \/ UNCHANGED <<wrbuf, ready, nospace>>
          \/ Rearm
      BY <1>17 DEF ClientContinues, write_bytes, update_handler
    <2>3. Polled /\ (OutputAhead => OutputAhead')
      BY <1>0, <2>1 DEF Polled, Dead, OutputAhead
    <2>4. QED
      BY <1>2, <1>3, <2>1, <2>2, <2>3 DEF SpaceAwaited
  <1>18. CASE UNCHANGED streamVars
    <2>1. UNCHANGED <<ready, room, nospace, wrbuf, evt, base, pc, sclosed>>
      BY <1>18 DEF streamVars, kernelVars, writeVars, stackVars, objectVars
    <2>2. QED
      BY <1>2, <2>1 DEF Polled, OutputAhead
  <1>19. QED
    BY <1>1, <1>4, <1>5, <1>6, <1>7, <1>8, <1>9, <1>10, <1>11, <1>12, <1>13, <1>14, <1>15,
       <1>16, <1>17, <1>18 DEF StreamNext, StreamStep

LEMMA NextSearched == Searched /\ [StreamNext]_streamVars => Searched'
  <1> SUFFICES ASSUME Searched, [StreamNext]_streamVars,
                      Running', pc' # "search", pc' = "recv" => ~got'
               PROVE  ~BytesReady' /\ ~UntilReady'
    BY DEF Searched
  <1>0. ~sclosed
    BY ClosedStays DEF Running
  <1>1. ASSUME UNCHANGED <<rdbuf, readNum, readUntil>>, ~BytesReady, ~UntilReady
        PROVE  ~BytesReady' /\ ~UntilReady'
    BY <1>1 DEF BytesReady, UntilReady, Searching, EndsAt
  <1>2. ASSUME UNCHANGED <<rdbuf, readNum, readUntil>>,
               pc \notin Dead \cup {"search"}, pc = "recv" => ~got
        PROVE  ~BytesReady' /\ ~UntilReady'
    BY <1>0, <1>1, <1>2 DEF Searched, Running
  <1>3. CASE RecvData
    BY <1>3 DEF RecvData, RecvAgain
  <1>4. CASE RecvWouldBlock
    BY <1>2, <1>4 DEF RecvWouldBlock, readVars, Dead
  <1>5. CASE SearchBytes
    BY <1>5 DEF SearchBytes, BytesReady, UntilReady, Searching, EndsAt
  <1>6. CASE SearchUntil
    BY <1>6 DEF SearchUntil, BytesReady, UntilReady, Searching
  <1>7. CASE SearchNothing
    BY <1>1, <1>7 DEF SearchNothing, readVars
  <1>8. CASE SearchOverrun \/ ClientThrows
    BY <1>8 DEF SearchOverrun, ClientThrows, Running, Dead
  <1>9. CASE StreamCloseStep \/ ClientCloses
    BY <1>9 DEF StreamCloseStep, RecvFailed, SendFailed, PollError, ClientCloses,
                CloseStream, Running
  <1>10. CASE ClientContinues
    <2>1. pc = "client" /\ UNCHANGED rdbuf
      BY <1>10 DEF ClientContinues
    <2>2. UNCHANGED <<readNum, readUntil>> \/ pc' = "search"
      BY <1>10 DEF ClientContinues, read_bytes, read_until, Look
    <2>3. QED
      BY <1>2, <2>1, <2>2 DEF Dead
  <1>11. CASE Peer
    <2>1. UNCHANGED <<rdbuf, readNum, readUntil, pc, got, sclosed>>
      BY <1>11 DEF Peer, ClientSend, ClientFin, ClientReset, ClientDrain,
                   objectVars, stackVars, readVars
    <2>2. QED
      BY <1>2, <2>1 DEF Running
  <1>12. CASE Construct \/ Opened \/ EpollWait
    <2>1. UNCHANGED <<rdbuf, readNum, readUntil>> /\ pc \in {"accepted", "opened", "wait"}
      BY <1>12 DEF Construct, Opened, EpollWait, readVars
    <2>2. QED
      BY <1>2, <2>1 DEF Dead
  <1>13. CASE WriteEnter \/ SendSome \/ SendBlocked \/ SendClosed \/ Written \/ PollReturn
    <2>1. /\ UNCHANGED <<rdbuf, readNum, readUntil>>
          /\ pc \in {"write", "send", "written", "error"}
      BY <1>13 DEF WriteEnter, SendSome, SendBlocked, SendClosed, Written, PollReturn, readVars
    <2>2. QED
      BY <1>2, <2>1 DEF Dead
  <1>14. CASE UNCHANGED streamVars
    <2>1. UNCHANGED <<rdbuf, readNum, readUntil, pc, got, sclosed>>
      BY <1>14 DEF streamVars, objectVars, stackVars, readVars
    <2>2. QED
      BY <1>2, <2>1 DEF Running
  <1>15. QED
    BY <1>3, <1>4, <1>5, <1>6, <1>7, <1>8, <1>9, <1>10, <1>11, <1>12, <1>13, <1>14
       DEF StreamNext, StreamStep

-----------------------------------------------------------------------------
(* The stream's invariant, and what it says of every execution.             *)

StreamInv ==
    /\ StreamTypeOK
    /\ Spliced /\ Queue
    /\ Outermost /\ ReadEdge /\ WriteEdge /\ Searched

LEMMA InitStreamInv == StreamInit => StreamInv
  <1> SUFFICES ASSUME StreamInit
               PROVE  StreamInv
    OBVIOUS
  <1>1. StreamTypeOK
    BY InitStreamTypeOK
  <1>2. Spliced /\ Queue
    BY DEF StreamInit, Spliced, Queue
  <1>3. QED
    BY <1>1, <1>2, InitEdges DEF StreamInv

LEMMA NextStreamInv == StreamInv /\ [StreamNext]_streamVars => StreamInv'
  BY NextStreamTypeOK, NextSpliced, NextQueue, NextOutermost, NextReadEdge, NextWriteEdge,
     NextSearched DEF StreamInv

LEMMA StreamInvariant == StreamSpec => []StreamInv
  BY InitStreamInv, NextStreamInv, PTL DEF StreamSpec

\* What the invariant says at the moments the properties look at.
LEMMA StreamInvImplies ==
    StreamInv => InputOrder /\ OutputOrder /\ NoLostReadEdge /\ NoLostWriteEdge
                 /\ NoStrandedRead
  <1> SUFFICES ASSUME StreamInv
               PROVE  InputOrder /\ OutputOrder /\ NoLostReadEdge /\ NoLostWriteEdge
                      /\ NoStrandedRead
    OBVIOUS
  <1>1. InputOrder
    BY SplicedIsOrder DEF StreamInv
  <1>2. OutputOrder
    BY QueueIsOrder DEF StreamInv
  <1>3. NoLostReadEdge
    BY DEF StreamInv, ReadEdge, Polled, Dead, NoLostReadEdge
  <1>4. NoLostWriteEdge
    BY DEF StreamInv, WriteEdge, SpaceAwaited, OutputAhead, Polled, Dead, NoLostWriteEdge
  <1>5. NoStrandedRead
    BY DEF StreamInv, Searched, Running, Dead, NoStrandedRead
  <1>6. QED
    BY <1>1, <1>2, <1>3, <1>4, <1>5

\* Whatever the peer sends, in whatever pieces recv takes it and whatever the
\* client asks for, each unit of input reaches the read handlers once and in order
\* (the copying in __read_to_buffer and __read_from_buffer).
THEOREM InputInOrder == StreamSpec => []InputOrder
  BY StreamInvariant, StreamInvImplies, PTL

\* Whatever part of it each send accepts, the output reaches the kernel once and
\* in the order in which it was given to write_bytes.
THEOREM OutputInOrder == StreamSpec => []OutputOrder
  BY StreamInvariant, StreamInvImplies, PTL

\* The thread never sleeps in epoll_wait over unread input or an end of input
\* without an edge pending: reading until EAGAIN is enough for every RecvBufSize
\* and any number of pieces.
THEOREM ReadEdgeKept == StreamSpec => []NoLostReadEdge
  BY StreamInvariant, StreamInvImplies, PTL

\* Nor over queued output without an edge pending or to come from a full buffer:
\* the update_handler of every write_bytes is enough, wherever it is called.
THEOREM WriteEdgeKept == StreamSpec => []NoLostWriteEdge
  BY StreamInvariant, StreamInvImplies, PTL

\* Nor over a read that the buffered input already satisfies: read_bytes and
\* read_until look before they wait, and so does __handler_poll after each read.
THEOREM NoReadStranded == StreamSpec => []NoStrandedRead
  BY StreamInvariant, StreamInvImplies, PTL
===============================================================================
