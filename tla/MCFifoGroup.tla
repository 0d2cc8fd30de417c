---------------------------- MODULE MCFifoGroup ----------------------------
(* Model-checking instance of FifoGroup: three nested groups, two leaves. *)
EXTENDS FifoGroup

CONSTANTS a, b
MCLeaves == {a, b}
=============================================================================
