------------------------------ MODULE MCTunnel ------------------------------
(* Tunnel instantiated for TLC: the writers each code path can hand to     *)
(* copySync as cw.                                                         *)
EXTENDS Tunnel, TLC

MCHalfClosers == {"closewriter", "pipe"}
MCArmed == {TRUE}
MCUnarmed == {FALSE}

=============================================================================
