------------------------------- MODULE Splice -------------------------------
(***************************************************************************)
(* What a CONNECT or 101 tunnel promises its two peers (spec "Tunnel       *)
(* splicing"), stated without the proxy's buffers, copy tasks or deadlines: *)
(* the client and the upstream each send numbered chunks and may close     *)
(* their side, and each reads, one chunk at a time, the next chunk the     *)
(* other has sent. Nothing is lost from the middle, reordered, duplicated  *)
(* or invented; a chunk may stay undelivered for ever (a deadline can cut  *)
(* a copy short), so the promise is about what is read, not that all of it *)
(* is. Tunnel implements this specification (Tunnel.tla, SpliceRefinement; *)
(* TunnelProofs.tla, SpliceRefinementHolds).                               *)
(***************************************************************************)
EXTENDS Naturals, Sequences

CONSTANTS
    MaxData    \* bound on the chunks each peer sends

VARIABLES
    csent, usent,  \* chunks the client / the upstream has sent
    urecv, crecv,  \* chunks the upstream / the client has read
    cEOF, uEOF     \* the client / the upstream has closed its write side

vars == <<csent, usent, urecv, crecv, cEOF, uEOF>>

(* The client may have sent some chunks before the tunnel is set up. *)
Init ==
    /\ csent \in 0..MaxData /\ usent = 0
    /\ urecv = <<>> /\ crecv = <<>>
    /\ cEOF = FALSE /\ uEOF = FALSE

ClientSend ==
    /\ ~cEOF /\ csent < MaxData
    /\ csent' = csent + 1
    /\ UNCHANGED <<usent, urecv, crecv, cEOF, uEOF>>

UpSend ==
    /\ ~uEOF /\ usent < MaxData
    /\ usent' = usent + 1
    /\ UNCHANGED <<csent, urecv, crecv, cEOF, uEOF>>

ClientClose ==
    /\ ~cEOF
    /\ cEOF' = TRUE
    /\ UNCHANGED <<csent, usent, urecv, crecv, uEOF>>

UpClose ==
    /\ ~uEOF
    /\ uEOF' = TRUE
    /\ UNCHANGED <<csent, usent, urecv, crecv, cEOF>>

(* The upstream reads the client's next chunk, one it has sent. *)
UpRecv ==
    /\ Len(urecv) < csent
    /\ urecv' = Append(urecv, Len(urecv) + 1)
    /\ UNCHANGED <<csent, usent, crecv, cEOF, uEOF>>

(* The client reads the upstream's next chunk. *)
ClientRecv ==
    /\ Len(crecv) < usent
    /\ crecv' = Append(crecv, Len(crecv) + 1)
    /\ UNCHANGED <<csent, usent, urecv, cEOF, uEOF>>

Next ==
    \/ ClientSend \/ UpSend \/ ClientClose \/ UpClose
    \/ UpRecv \/ ClientRecv

Spec == Init /\ [][Next]_vars

=============================================================================
