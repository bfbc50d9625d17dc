------------------------------ MODULE MCSession ------------------------------
(* A small instance of SessionClientJS. *)
EXTENDS SessionClientJS

CONSTANTS c1, c2, k1, k2, t1, t3, t4
=============================================================================
