------------------------------- MODULE Lifecycle -------------------------------
(***************************************************************************)
(* What the life of an HttpConnection looks like from the accept handler.  *)
(* The accept handler builds a connection with new, then gives it the      *)
(* close callback that deletes it.  A connection closed after that is      *)
(* destroyed; one that closes itself while it is still being built never   *)
(* sees the callback, and is closed but never deleted.                     *)
(***************************************************************************)
VARIABLE phase

Moves == { <<"none", "constructing">>, <<"constructing", "open">>,
           <<"constructing", "leaked">>, <<"open", "destroyed">> }

Init == phase = "none"

Next == <<phase, phase'>> \in Moves

Spec == Init /\ [][Next]_phase
===============================================================================
