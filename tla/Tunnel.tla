------------------------------- MODULE Tunnel -------------------------------
(***************************************************************************)
(* The tunnel of a CONNECT or 101 upgrade (src/proxy.go, tunnel, drain-    *)
(* Buffer, copySync): the proxy writes the response head to the client,    *)
(* drains the bytes its buffered reader already holds to the upstream,     *)
(* starts two copySync tasks (outbound: client conn -> upstream writer cw; *)
(* inbound: upstream reader cr -> client conn), each of which half-closes  *)
(* its destination when its copy ends, and waits on donec twice.           *)
(*                                                                         *)
(* Bytes are numbered chunks: the client's k-th chunk is k, the upstream's *)
(* k-th chunk is k, so a stream is a sequence of numbers. The client and   *)
(* the upstream server are the environment. A read deadline armed by      *)
(* readRequest, and a write deadline armed by an earlier handle() on the   *)
(* same connection, are never cleared before the tunnel: whether each is   *)
(* armed is fixed when the tunnel starts.                                  *)
(***************************************************************************)
EXTENDS Naturals, Sequences

CONSTANTS
    MaxData,        \* bound on the chunks each side sends
    MaxPre,         \* bound on the chunks already buffered by brw.Reader
    CwKinds,        \* what cw can be: "closewriter", "pipe", "none"
    ReadDeadlines,  \* whether a read deadline can be armed on conn (ReadTimeout > 0)
    WriteDeadlines  \* whether a write deadline can be armed on conn (WriteTimeout > 0)

ASSUME TunnelAssumption ==
    /\ MaxData \in Nat /\ MaxPre \in Nat /\ MaxPre <= MaxData
    /\ CwKinds \subseteq {"closewriter", "pipe", "none"} /\ CwKinds # {}
    /\ ReadDeadlines \subseteq BOOLEAN /\ ReadDeadlines # {}
    /\ WriteDeadlines \subseteq BOOLEAN /\ WriteDeadlines # {}

VARIABLES
    cwKind,   \* the outbound writer: a net.Conn with CloseWrite, the
              \* *io.PipeWriter of ConnectPassthrough, or neither
    tpc,      \* the handler in tunnel(): "head", "drain", "wait", "done"
    opc, ipc, \* the outbound and inbound copySync: "idle", "copy", "closew", "done"
    donec,    \* values sent on donec
    buf,      \* chunks buffered in brw.Reader when the tunnel starts
    c2p,      \* client -> conn: chunks not yet read by the proxy
    p2u,      \* proxy -> upstream: chunks written to cw, not yet read
    u2p,      \* upstream -> proxy: chunks not yet read from cr
    p2c,      \* proxy -> client: chunks written to conn, not yet read
    csent, usent,   \* chunks the client / the upstream has sent
    urecv, crecv,   \* chunks the upstream / the client has read
    cEOF, uEOF,     \* the client / the upstream has closed its write side
    pEOFu, pEOFc,   \* the proxy has half-closed towards upstream / client
    rdl, wdl        \* a read / write deadline is armed on conn

vars == <<cwKind, tpc, opc, ipc, donec, buf, c2p, p2u, u2p, p2c,
          csent, usent, urecv, crecv, cEOF, uEOF, pEOFu, pEOFc, rdl, wdl>>

Upto(n) == [i \in 1..n |-> i]

(* handleConnectRequest / handleUpgradeResponse pick cw: the dialed        *)
(* connection, the pipe writer of ConnectPassthrough, or the 101 body. The *)
(* client may have sent chunks right behind the request; http.ReadRequest  *)
(* left them in brw.Reader.                                                *)
Init ==
    /\ cwKind \in CwKinds
    /\ tpc = "head" /\ opc = "idle" /\ ipc = "idle" /\ donec = 0
    /\ \E pre \in 0..MaxPre : buf = Upto(pre) /\ csent = pre
    /\ c2p = <<>> /\ p2u = <<>> /\ u2p = <<>> /\ p2c = <<>>
    /\ usent = 0 /\ urecv = <<>> /\ crecv = <<>>
    /\ cEOF = FALSE /\ uEOF = FALSE /\ pEOFu = FALSE /\ pEOFc = FALSE
    /\ rdl \in ReadDeadlines /\ wdl \in WriteDeadlines

-----------------------------------------------------------------------------
(* tunnel(): res.Write(brw) and brw.Flush() succeed, or fail once the      *)
(* write deadline has passed and tunnel returns the error.                 *)
WriteHead ==
    /\ tpc = "head"
    /\ tpc' = "drain"
    /\ UNCHANGED <<cwKind, opc, ipc, donec, buf, c2p, p2u, u2p, p2c,
                   csent, usent, urecv, crecv, cEOF, uEOF, pEOFu, pEOFc, rdl, wdl>>

WriteHeadFail ==
    /\ tpc = "head"
    /\ wdl
    /\ tpc' = "done"
    /\ UNCHANGED <<cwKind, opc, ipc, donec, buf, c2p, p2u, u2p, p2c,
                   csent, usent, urecv, crecv, cEOF, uEOF, pEOFu, pEOFc, rdl, wdl>>

(* Mutant: drainBuffer is not called; the buffered chunks are never sent.  *)
DrainSkip ==
    /\ tpc = "drain"
    /\ buf' = <<>>
    /\ tpc' = "wait" /\ opc' = "copy" /\ ipc' = "copy"
    /\ UNCHANGED <<cwKind, donec, c2p, p2u, u2p, p2c,
                   csent, usent, urecv, crecv, cEOF, uEOF, pEOFu, pEOFc, rdl, wdl>>

(* drainBuffer(cw, brw.Reader): Peek(Buffered()) and cw.Write it (its      *)
(* error is ignored); the copies then read conn, never brw.Reader. Then   *)
(* go copySync twice.                                                      *)
Drain ==
    /\ tpc = "drain"
    /\ p2u' = p2u \o buf
    /\ buf' = <<>>
    /\ tpc' = "wait" /\ opc' = "copy" /\ ipc' = "copy"
    /\ UNCHANGED <<cwKind, donec, c2p, u2p, p2c,
                   csent, usent, urecv, crecv, cEOF, uEOF, pEOFu, pEOFc, rdl, wdl>>

(* Mutant: tunnel receives from donec once and returns. *)
WaitOnce ==
    /\ tpc = "wait"
    /\ donec >= 1
    /\ tpc' = "done"
    /\ UNCHANGED <<cwKind, opc, ipc, donec, buf, c2p, p2u, u2p, p2c,
                   csent, usent, urecv, crecv, cEOF, uEOF, pEOFu, pEOFc, rdl, wdl>>

(* <-donec; <-donec; return nil *)
Wait ==
    /\ tpc = "wait"
    /\ donec = 2
    /\ tpc' = "done"
    /\ UNCHANGED <<cwKind, opc, ipc, donec, buf, c2p, p2u, u2p, p2c,
                   csent, usent, urecv, crecv, cEOF, uEOF, pEOFu, pEOFc, rdl, wdl>>

-----------------------------------------------------------------------------
(* copySync("outbound", cw, conn): io.CopyBuffer moves a chunk, returns    *)
(* at EOF, or returns the timeout error once the read deadline passes,     *)
(* whatever is still to come.                                              *)
(* Mutant: after a short write the chunk is written again but not consumed. *)
OutCopyRewrite ==
    /\ opc = "copy"
    /\ c2p # <<>>
    /\ p2u' = Append(p2u, Head(c2p))
    /\ UNCHANGED <<cwKind, tpc, opc, ipc, donec, buf, c2p, u2p, p2c,
                   csent, usent, urecv, crecv, cEOF, uEOF, pEOFu, pEOFc, rdl, wdl>>

OutCopy ==
    /\ opc = "copy"
    /\ c2p # <<>>
    /\ p2u' = Append(p2u, Head(c2p))
    /\ c2p' = Tail(c2p)
    /\ UNCHANGED <<cwKind, tpc, opc, ipc, donec, buf, u2p, p2c,
                   csent, usent, urecv, crecv, cEOF, uEOF, pEOFu, pEOFc, rdl, wdl>>

OutEnd ==
    /\ opc = "copy"
    /\ \/ c2p = <<>> /\ cEOF
       \/ rdl
    /\ opc' = "closew"
    /\ UNCHANGED <<cwKind, tpc, ipc, donec, buf, c2p, p2u, u2p, p2c,
                   csent, usent, urecv, crecv, cEOF, uEOF, pEOFu, pEOFc, rdl, wdl>>

(* Mutant: copySync never half-closes its destination. *)
OutCloseWriteNever ==
    /\ opc = "closew"
    /\ opc' = "done"
    /\ donec' = donec + 1
    /\ UNCHANGED <<cwKind, tpc, ipc, buf, c2p, p2u, u2p, p2c,
                   csent, usent, urecv, crecv, cEOF, uEOF, pEOFu, pEOFc, rdl, wdl>>

(* CloseWrite() if cw is a closeWriter, else pw.Close() if it is the pipe  *)
(* writer, else only a log line; then donec <- true.                       *)
OutCloseWrite ==
    /\ opc = "closew"
    /\ pEOFu' = (pEOFu \/ cwKind \in {"closewriter", "pipe"})
    /\ opc' = "done"
    /\ donec' = donec + 1
    /\ UNCHANGED <<cwKind, tpc, ipc, buf, c2p, p2u, u2p, p2c,
                   csent, usent, urecv, crecv, cEOF, uEOF, pEOFc, rdl, wdl>>

(* copySync("inbound", conn, cr): a chunk is written to conn, or the write *)
(* fails once the write deadline has passed; EOF from cr ends the copy.    *)
InCopy ==
    /\ ipc = "copy"
    /\ u2p # <<>>
    /\ p2c' = Append(p2c, Head(u2p))
    /\ u2p' = Tail(u2p)
    /\ UNCHANGED <<cwKind, tpc, opc, ipc, donec, buf, c2p, p2u,
                   csent, usent, urecv, crecv, cEOF, uEOF, pEOFu, pEOFc, rdl, wdl>>

InEnd ==
    /\ ipc = "copy"
    /\ \/ u2p = <<>> /\ uEOF
       \/ u2p # <<>> /\ wdl
    /\ ipc' = "closew"
    /\ UNCHANGED <<cwKind, tpc, opc, donec, buf, c2p, p2u, u2p, p2c,
                   csent, usent, urecv, crecv, cEOF, uEOF, pEOFu, pEOFc, rdl, wdl>>

(* CloseWrite() if asCloseWriter(conn) finds one (a TCP or TLS client     *)
(* connection), else only a log line; then donec <- true.                  *)
InCloseWrite ==
    /\ ipc = "closew"
    /\ pEOFc' \in {TRUE, pEOFc}
    /\ ipc' = "done"
    /\ donec' = donec + 1
    /\ UNCHANGED <<cwKind, tpc, opc, buf, c2p, p2u, u2p, p2c,
                   csent, usent, urecv, crecv, cEOF, uEOF, pEOFu, rdl, wdl>>

-----------------------------------------------------------------------------
(* The environment: the client and the upstream server. *)

ClientSend ==
    /\ ~cEOF /\ csent < MaxData
    /\ csent' = csent + 1
    /\ c2p' = Append(c2p, csent + 1)
    /\ UNCHANGED <<cwKind, tpc, opc, ipc, donec, buf, p2u, u2p, p2c,
                   usent, urecv, crecv, cEOF, uEOF, pEOFu, pEOFc, rdl, wdl>>

ClientClose ==
    /\ ~cEOF
    /\ cEOF' = TRUE
    /\ UNCHANGED <<cwKind, tpc, opc, ipc, donec, buf, c2p, p2u, u2p, p2c,
                   csent, usent, urecv, crecv, uEOF, pEOFu, pEOFc, rdl, wdl>>

ClientRecv ==
    /\ p2c # <<>>
    /\ crecv' = Append(crecv, Head(p2c))
    /\ p2c' = Tail(p2c)
    /\ UNCHANGED <<cwKind, tpc, opc, ipc, donec, buf, c2p, p2u, u2p,
                   csent, usent, urecv, cEOF, uEOF, pEOFu, pEOFc, rdl, wdl>>

UpSend ==
    /\ ~uEOF /\ usent < MaxData
    /\ usent' = usent + 1
    /\ u2p' = Append(u2p, usent + 1)
    /\ UNCHANGED <<cwKind, tpc, opc, ipc, donec, buf, c2p, p2u, p2c,
                   csent, urecv, crecv, cEOF, uEOF, pEOFu, pEOFc, rdl, wdl>>

UpRecv ==
    /\ p2u # <<>>
    /\ urecv' = Append(urecv, Head(p2u))
    /\ p2u' = Tail(p2u)
    /\ UNCHANGED <<cwKind, tpc, opc, ipc, donec, buf, c2p, u2p, p2c,
                   csent, usent, crecv, cEOF, uEOF, pEOFu, pEOFc, rdl, wdl>>

UpClose ==
    /\ ~uEOF
    /\ uEOF' = TRUE
    /\ UNCHANGED <<cwKind, tpc, opc, ipc, donec, buf, c2p, p2u, u2p, p2c,
                   csent, usent, urecv, crecv, cEOF, pEOFu, pEOFc, rdl, wdl>>

(* A server that has read the proxy's EOF finishes and closes its side. *)
UpFinish == pEOFu /\ p2u = <<>> /\ UpClose

Next ==
    \/ WriteHead \/ WriteHeadFail \/ Drain \/ Wait
    \/ OutCopy \/ OutEnd \/ OutCloseWrite
    \/ InCopy \/ InEnd \/ InCloseWrite
    \/ ClientSend \/ ClientClose \/ ClientRecv
    \/ UpSend \/ UpRecv \/ UpClose

(* The handler and the two copy goroutines run when they can, and an      *)
(* armed deadline passes. Peers read what they are sent, and a server      *)
(* closes after reading EOF; when the client closes is its own choice.     *)
Fairness ==
    /\ WF_vars(WriteHead) /\ WF_vars(Drain) /\ WF_vars(Wait)
    /\ WF_vars(OutCopy) /\ WF_vars(OutEnd) /\ WF_vars(OutCloseWrite)
    /\ WF_vars(InCopy) /\ WF_vars(InEnd) /\ WF_vars(InCloseWrite)
    /\ WF_vars(ClientRecv) /\ WF_vars(UpRecv) /\ WF_vars(UpFinish)

Spec == Init /\ [][Next]_vars /\ Fairness

-----------------------------------------------------------------------------
TypeOK ==
    /\ cwKind \in CwKinds
    /\ tpc \in {"head", "drain", "wait", "done"}
    /\ opc \in {"idle", "copy", "closew", "done"} /\ ipc \in {"idle", "copy", "closew", "done"}
    /\ donec \in 0..2
    /\ \A s \in {buf, c2p, p2u, u2p, p2c, urecv, crecv} : s \in Seq(1..MaxData)
    /\ csent \in 0..MaxData /\ usent \in 0..MaxData
    /\ \A b \in {cEOF, uEOF, pEOFu, pEOFc} : b \in BOOLEAN
    /\ rdl \in ReadDeadlines /\ wdl \in WriteDeadlines

(* Spec "Tunnel splicing": bytes are copied in both directions until EOF.  *)
(* When the outbound copy has finished, the client had closed and          *)
(* everything it sent, the chunks drainBuffer took from brw.Reader first,  *)
(* has been written to the upstream in order; when the inbound copy has    *)
(* finished, likewise for what the upstream sent to the client.            *)
SpliceUntilEOF ==
    /\ opc = "done" => cEOF /\ urecv \o p2u = Upto(csent)
    /\ ipc = "done" => uEOF /\ crecv \o p2c = Upto(usent)

(* The same for each direction whose copy no deadline can cut short: the   *)
(* outbound copy (drainBuffer, then io.CopyBuffer from conn) when no read  *)
(* deadline is armed, the inbound copy when no write deadline is.          *)
TunnelLossless ==
    /\ opc = "done" /\ ~rdl => cEOF /\ urecv \o p2u = Upto(csent)
    /\ ipc = "done" /\ ~wdl => uEOF /\ crecv \o p2c = Upto(usent)

(* Spec 5, "both copy tasks complete before the handler ends": a step in  *)
(* which tunnel() returns is the failed write of the response head, taken *)
(* before any copySync starts, or one taken when both copySync tasks have *)
(* half-closed and sent on donec.                                          *)
HandlerJoinsCopies ==
    [][tpc' = "done" /\ tpc # "done" =>
         \/ tpc = "head"
         \/ opc = "done" /\ ipc = "done"]_vars

(* donec counts the copySync tasks that have finished: each sends once,   *)
(* after its half-close; and neither task runs before drainBuffer.        *)
DoneCount ==
    /\ donec = (IF opc = "done" THEN 1 ELSE 0) + (IF ipc = "done" THEN 1 ELSE 0)
    /\ tpc \in {"head", "drain"} => opc = "idle" /\ ipc = "idle"

(* Inductive strengthening of TunnelLossless: no chunk is ever lost or    *)
(* reordered on its way (what the upstream read, what is in flight to it,  *)
(* what brw.Reader holds, what the client sent and the proxy did not read *)
(* are the client's chunks in order, and likewise inbound); brw.Reader is  *)
(* drained before the copies start; a copy that ended with no deadline     *)
(* armed saw EOF on an empty stream, and nothing follows an EOF.           *)
StreamInv ==
    /\ urecv \o p2u \o buf \o c2p = Upto(csent)
    /\ crecv \o p2c \o u2p = Upto(usent)
    /\ opc # "idle" => buf = <<>>
    /\ opc \in {"closew", "done"} /\ ~rdl => cEOF /\ c2p = <<>>
    /\ ipc \in {"closew", "done"} /\ ~wdl => uEOF /\ u2p = <<>>

(* Spec 5: both copy tasks complete before the handler ends, and step 4's  *)
(* half-close "unblocks the peer direction on EOF": once the client has    *)
(* closed its side, the tunnel ends and the handler goes on.               *)
TunnelEnds == cEOF ~> (tpc = "done")


-----------------------------------------------------------------------------
(***************************************************************************)
(* Refinement. Seen from its two peers, the tunnel is the pair of in-order *)
(* channels of Splice.tla: the peers' own counters and reads are Splice's  *)
(* variables, and the handler, the copy tasks, drainBuffer and every       *)
(* buffer in between are hidden. A peer reading a chunk is Splice's        *)
(* UpRecv or ClientRecv; every step of the proxy is a stutter.             *)
(***************************************************************************)
Peers == INSTANCE Splice WITH
             csent <- csent, usent <- usent, urecv <- urecv, crecv <- crecv,
             cEOF <- cEOF, uEOF <- uEOF

(* Spec "Tunnel splicing" as a whole (Splice.tla): whatever the deadlines  *)
(* and the writer kind, each peer reads only chunks the other sent, in the *)
(* order sent, none twice and none skipped; drainBuffer's chunks come      *)
(* first, before anything io.CopyBuffer forwards.                          *)
SpliceRefinement == Peers!Spec

=============================================================================
