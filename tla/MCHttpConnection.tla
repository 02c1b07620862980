--------------------------- MODULE MCHttpConnection ---------------------------
(* HttpConnection on small instances: the requests each run sends. *)
EXTENDS HttpConnection

Req(ok, len, conn) == [ok |-> ok, len |-> len, conn |-> conn]

\* The handlers of a connection, for the constant Handlers.
MCHandlers == {"header", "body", "on_write"}

MCLengths == {0, 1, 2, 9, -2}

CONSTANT Text  \* header pieces and body bytes

\* Requests of every shape: no Connection header; kept alive, with and without
\* body; malformed; negative and too large Content-Length.
MixedEnds == { Req(TRUE, 0, ""), Req(TRUE, 0, "keep_alive_CR"),
               Req(TRUE, 2, "keep_alive_CR"), Req(FALSE, 0, ""),
               Req(TRUE, -2, "close_CR"), Req(TRUE, 9, "keep_alive_CR") }
MixedUnits == MixedEnds \cup {Text}
AllReplies == Outcomes

\* test_client.cpp: Content-Length: 0, Host, no Connection; test.cpp answers.
TestEnds == { Req(TRUE, 0, "") }
OkReplies == {"ok"}

\* The client that takes turns: requests with and without body, malformed ones too.
PoliteEnds == { Req(TRUE, 0, "keep_alive_CR"), Req(TRUE, 2, "keep_alive_CR"),
                Req(TRUE, 1, ""), Req(FALSE, 1, "") }
PoliteUnits == PoliteEnds \cup {Text}
===============================================================================
