----------------------------- MODULE MCHttpServer -----------------------------
(* HttpServer on a small instance. *)
EXTENDS HttpServer

CONSTANTS c1, c2, c3

MCConns  == {c1, c2, c3}
MCTokens == MCConns \cup {Server}
===============================================================================
