----------------------------- MODULE MCMitmLoop -----------------------------
(* MitmLoop instantiated for TLC. *)
EXTENDS MitmLoop, TLC

MCKinds == {"get", "upgrade", "mitm"}

=============================================================================
