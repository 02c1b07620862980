------------------------------ MODULE MCIOStream ------------------------------
(* IOStream under an arbitrary client, on a small instance. *)
EXTENDS IOStream

MCLengths == {0, 1, 2, -1, 4}
===============================================================================
