------------------------------ MODULE MCLogger ------------------------------
(* Logger instantiated for TLC: every mode, valid or not. *)
EXTENDS Logger, TLC

MCModes == {"url", "header", "body", "error", "other"}

=============================================================================
