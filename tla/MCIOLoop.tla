------------------------------- MODULE MCIOLoop -------------------------------
(* IOLoop under an arbitrary client, on small instances. *)
EXTENDS IOLoop

CONSTANTS f1, f2, t1, t2

MCFds    == {f1, f2}
MCTokens == {t1, t2}
===============================================================================
