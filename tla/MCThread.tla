------------------------------ MODULE MCThread ------------------------------
(* Thread for TLC: three callers, and one answerer besides the first. *)
EXTENDS Thread

CONSTANTS c1, c2, c3, a1

MCCallers == {c1, c2, c3}
MCAnswerers == {a1}
=============================================================================
