--------------------------------- MODULE Router ---------------------------------
(***************************************************************************)
(* HttpServer::register_handler and the routing of a request to an         *)
(* HttpHandler (src/src/server.cpp, handler.cpp).  Callbacks of a handler  *)
(* are the program's own code: they may register handlers while the        *)
(* request they serve is being routed.                                     *)
(*                                                                         *)
(* A pattern is a regular expression's text, of which only a "$" at the    *)
(* end matters, and Language gives what it matches as a whole.             *)
(***************************************************************************)
EXTENDS Integers, Sequences, FiniteSets

CONSTANTS
    Patterns,          \* texts passed to register_handler
    Language,          \* the URIs that each key of the table matches
    Malformed,         \* the keys that std::regex does not accept
    Uris, Methods,     \* of requests
    Handlers,          \* the program's handler objects
    NoHandler,         \* an uninitialised pointer
    Overrides,         \* the methods whose handler function each one overrides
    MaxRegistered,     \* bound: calls of register_handler that succeed
    MaxRequests        \* bound: requests

\* Of HTTP's methods, those the dispatch knows.
Verbs == {"GET", "POST", "PUT", "PATCH", "DELETE", "OPTIONS", "HEAD", "COPY",
          "LINK", "UNLINK"}

\* Mutant: the text as it is.
KeyAsGiven(p) == p

Key(p) == IF p[Len(p)] = "$" THEN p ELSE Append(p, "$")

ASSUME RouterAssumption ==
    /\ \A p \in Patterns : p \in Seq(STRING) /\ p # <<>>
    /\ \A p \in Patterns : Language[Key(p)] \subseteq Uris
    /\ NoHandler \notin Handlers
    /\ "/" \in Uris /\ "GET" \in Methods
    /\ Overrides \in [Handlers -> SUBSET Verbs]
    /\ MaxRegistered \in Nat /\ MaxRequests \in Nat

VARIABLES
    handlers,          \* the table: a function from keys to handlers
    pc,                \* idle, looking, or the callback that runs
    uri, method,       \* of the request
    untried,           \* keys the loop over the table has not come to
    h,                 \* the local variable h: the handler of the match
    outcome,           \* how the last request ended
    registered,        \* history: the registrations <<pattern, handler>>
    known,             \* history: how many there were when the request came
    calls,             \* history: callbacks of this request
    count              \* history: requests

request == <<uri, method>>
vars == <<handlers, pc, request, untried, h, outcome, registered, known, calls, count>>

Callbacks == {"prepare", "verb", "after"}

-----------------------------------------------------------------------------
\* Mutant: the entry is there before its expression is compiled.
RejectedLate(p) == FALSE

Rejected(p) == Key(p) \in Malformed

\* The expression is compiled first: when it is malformed the table is as before.
register_handler(p, hd) ==
    /\ pc \in {"idle"} \cup Callbacks
    /\ Len(registered) < MaxRegistered
    /\ IF Rejected(p)
       THEN UNCHANGED <<handlers, registered>>
       ELSE /\ handlers' = [k \in DOMAIN handlers \cup {Key(p)} |->
                               IF k = Key(p) THEN hd ELSE handlers[k]]
            /\ registered' = Append(registered, <<p, hd>>)
    \* Raised in a callback, the exception ends in a noexcept function.
    /\ pc' = IF Rejected(p) /\ pc \in Callbacks THEN "terminated" ELSE pc
    /\ UNCHANGED <<request, untried, h, outcome, known, calls, count>>

Arrives(u, m) ==
    /\ pc = "idle" /\ count < MaxRequests
    /\ uri' = u /\ method' = m /\ pc' = "looking"
    /\ untried' = DOMAIN handlers /\ h' = NoHandler /\ outcome' = "none"
    /\ known' = Len(registered) /\ calls' = <<>> /\ count' = count + 1
    /\ UNCHANGED <<handlers, registered>>

\* match_not_null: nothing matches the empty path.
Matches(k) == uri \in Language[k] \ {"empty"}

\* HttpConnection's body handler calls all this from inside a try, with clauses for
\* HttpError and ParseException; anything else leaves a noexcept function.
Caught == {"404", "405", "HttpError", "ParseException"}

Ends(o) ==
    /\ outcome' = o /\ pc' = IF o \in Caught THEN "idle" ELSE "terminated"
    /\ UNCHANGED <<handlers, request, untried, h, registered, known, calls, count>>

\* Mutant: the search ends with the first entry that does not match.
RestNone(k) == {}

Rest(k) == untried \ {k}

\* The loop over the unordered_map, in whatever order it has.
Try(k) ==
    /\ pc = "looking" /\ k \in untried
    /\ IF Matches(k)
       THEN pc' = "prepare" /\ h' = handlers[k] /\ UNCHANGED untried
       ELSE untried' = Rest(k) /\ UNCHANGED <<pc, h>>
    /\ UNCHANGED <<handlers, request, outcome, registered, known, calls, count>>

NotFound == pc = "looking" /\ untried = {} /\ Ends("404")

\* Mutant: looks its handler up anew for every callback.
CurrentNow ==
    IF \E k \in DOMAIN handlers : Matches(k)
    THEN handlers[CHOOSE k \in DOMAIN handlers : Matches(k)] ELSE h

Current == h

Following == [prepare |-> "verb", verb |-> "after", after |-> "idle"]

\* The callback is entered, does what it does (register_handler), and returns.
Called == calls # <<>> /\ calls[Len(calls)][2] = pc

Call ==
    /\ pc \in Callbacks /\ ~Called
    /\ pc = "verb" => method \in Overrides[Current]
    /\ calls' = Append(calls, <<Current, pc>>)
    /\ UNCHANGED <<handlers, pc, request, untried, h, outcome, registered, known, count>>

\* The method is none of those the dispatch knows, or HttpHandler's own function runs.
NotAllowed == pc = "verb" /\ ~Called /\ method \notin Overrides[Current] /\ Ends("405")

Returns ==
    /\ pc \in Callbacks /\ Called
    /\ pc' = Following[pc]
    /\ outcome' = IF pc = "after" THEN "handled" ELSE outcome
    /\ UNCHANGED <<handlers, request, untried, h, registered, known, calls, count>>

Raises(o) == pc \in Callbacks /\ Called /\ Ends(o)

-----------------------------------------------------------------------------
Init ==
    /\ handlers = [k \in {} |-> NoHandler] /\ pc = "idle"
    /\ uri = "/" /\ method = "GET"
    /\ untried = {} /\ h = NoHandler /\ outcome = "none"
    /\ registered = <<>> /\ known = 0 /\ calls = <<>> /\ count = 0

\* What the user handler of HttpConnection does with one request.
Route ==
    \/ \E k \in untried : Try(k)
    \/ NotFound \/ Call \/ NotAllowed \/ Returns
    \/ \E o \in {"HttpError", "ParseException", "exception"} : Raises(o)

Next ==
    \/ \E p \in Patterns, hd \in Handlers : register_handler(p, hd)
    \/ \E u \in Uris, m \in Methods : Arrives(u, m)
    \/ Route

Spec == Init /\ [][Next]_vars

-----------------------------------------------------------------------------
TypeOK ==
    /\ DOMAIN handlers \subseteq {Key(p) : p \in Patterns} \ Malformed
    /\ \A k \in DOMAIN handlers : handlers[k] \in Handlers
    /\ pc \in {"idle", "looking", "terminated"} \cup Callbacks
    /\ uri \in Uris /\ method \in Methods
    /\ untried \subseteq DOMAIN handlers
    /\ h \in Handlers \cup {NoHandler} /\ (pc \in Callbacks => h \in Handlers)
    /\ outcome \in {"none", "handled", "exception"} \cup Caught
    /\ registered \in Seq(Patterns \X Handlers) /\ known \in 0..Len(registered)
    /\ calls \in Seq(Handlers \X Callbacks) /\ count \in 0..MaxRequests

Stages == <<"prepare", "verb", "after">>

\* A handler sees its request through: prepare, the function of the method and
\* after are called once each, in this order, on one object, whatever the
\* callbacks register meanwhile, and none is left out unless an error was raised.
CallOrder ==
    /\ Len(calls) <= 3
    /\ \A n \in DOMAIN calls :
         calls[n] = <<calls[1][1], Stages[n]>>
    /\ outcome = "handled" => Len(calls) = 3
    /\ outcome \in {"404", "405"} => Len(calls) = IF outcome = "404" THEN 0 ELSE 1

\* A pattern is the same with and without the "$" that the server adds.
Plain(p) == p[Len(p)] # "$"
Same(p, q) == \/ p = q
              \/ Plain(q) /\ p = Append(q, "$")
              \/ Plain(p) /\ q = Append(p, "$")

\* The registrations that a request that comes now finds.
Newest == {i \in 1..known : \A j \in (i + 1)..known : ~Same(registered[i][1], registered[j][1])}

\* A request goes to the newest handler of a pattern that matches, however the
\* pattern was written and in whatever order the table is searched: never to one
\* that another registration has replaced.
NewestServes ==
    calls # <<>> =>
        \E i \in Newest :
            /\ registered[i][2] = calls[1][1]
            /\ uri \in Language[Key(registered[i][1])]

\* The server says 404 only when nothing it knows matches.
NotFoundIsRight ==
    outcome = "404" =>
        uri = "empty" \/ \A i \in 1..known : uri \notin Language[Key(registered[i][1])]

-----------------------------------------------------------------------------
(* The strengthening that makes the last three inductive. *)

\* The table holds the last registration of every key, and nothing else.
TableIsNewest ==
    /\ \A i \in 1..Len(registered) : Key(registered[i][1]) \in DOMAIN handlers
    /\ \A k \in DOMAIN handlers :
         \E i \in 1..Len(registered) :
             /\ registered[i] = <<registered[i][1], handlers[k]>>
             /\ Key(registered[i][1]) = k
             /\ \A j \in (i + 1)..Len(registered) : Key(registered[j][1]) # k

\* While the table is searched, it is the one the request found.
SearchedSoFar ==
    pc = "looking" =>
        /\ known = Len(registered) /\ calls = <<>> /\ outcome = "none"
        /\ \A k \in DOMAIN handlers \ untried : ~Matches(k)

\* An object that the registrations known to the request entitle to it.
Entitled(hd) ==
    \E i \in Newest : registered[i][2] = hd /\ uri \in Language[Key(registered[i][1])]

\* The callbacks up to the current one were called, on the object found.
CalledSoFar ==
    pc \in Callbacks =>
        /\ outcome = "none" /\ Entitled(h)
        /\ \A n \in DOMAIN calls : calls[n] = <<h, Stages[n]>>
        /\ \E n \in 1..3 : pc = Stages[n] /\ Len(calls) \in {n - 1, n}

IInv == /\ TypeOK /\ TableIsNewest /\ SearchedSoFar /\ CalledSoFar
        /\ CallOrder /\ NewestServes /\ NotFoundIsRight
===============================================================================
