----------------------------- MODULE RequestReply -----------------------------
(***************************************************************************)
(* What an HttpConnection promises about its requests and responses: they  *)
(* alternate, except that a request may be dropped without a response, a   *)
(* closed connection does neither, and a connection whose response         *)
(* announced the end parses no more requests.                              *)
(***************************************************************************)
EXTENDS Naturals

VARIABLES
    open,       \* the stream is open
    finishing,  \* the connection ends with the response being sent
    parsed,     \* requests parsed
    answered,   \* responses given to the stream
    dropped     \* requests that get none

exchange == <<open, finishing, parsed, answered, dropped>>

Init == /\ open = TRUE /\ finishing = FALSE
        /\ parsed = 0 /\ answered = 0 /\ dropped = 0

Settled == answered + dropped

Parse ==
    /\ open /\ ~finishing /\ parsed = Settled
    /\ parsed' = parsed + 1
    /\ UNCHANGED <<open, finishing, answered, dropped>>

Answer ==
    /\ open /\ parsed = Settled + 1
    /\ answered' = answered + 1
    /\ finishing' \in BOOLEAN
    /\ UNCHANGED <<open, parsed, dropped>>

\* The client is told nothing, and the connection goes on.
Drop ==
    /\ open /\ parsed = Settled + 1
    /\ dropped' = dropped + 1
    /\ UNCHANGED <<open, finishing, parsed, answered>>

Close ==
    /\ open /\ open' = FALSE
    /\ UNCHANGED <<finishing, parsed, answered, dropped>>

Next == Parse \/ Answer \/ Drop \/ Close

Spec == Init /\ [][Next]_exchange
===============================================================================
