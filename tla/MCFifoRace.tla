----------------------------- MODULE MCFifoRace -----------------------------
(* FifoRace instantiated for TLC: a group of three leaf modifiers. *)
EXTENDS FifoRace, TLC

CONSTANTS m1, m2, m3

MCMods == <<m1, m2, m3>>

=============================================================================
