------------------------------ MODULE MitmLoop ------------------------------
(***************************************************************************)
(* Which stream each handle() call works on when CONNECT requests are      *)
(* intercepted (src/proxy.go: handleLoop, handle, the MITM branch of       *)
(* handleConnectRequest, handleUpgradeResponse). A stream is named by its *)
(* TLS depth: 0 is the accepted conn, d + 1 is the tls.Server wrapped      *)
(* around stream d. handleLoop calls handle(ctx, conn, brw) with the       *)
(* accepted conn on every iteration; the MITM branch resets brw onto the   *)
(* decrypted stream and calls handle on it once, then returns to the loop. *)
(* Request bodies, responses and modifiers are left out: only the streams *)
(* matter here.                                                            *)
(***************************************************************************)
EXTENDS Naturals

CONSTANTS
    Kinds,     \* requests a client sends: "get", "upgrade" (answered 101), "mitm" (CONNECT)
    MaxReqs    \* bound on the requests on one connection

(* Kinds is a subset of {"get", "upgrade", "mitm"}; MaxReqs is in Nat. *)

VARIABLES
    pc,       \* "loop" (top of handleLoop's for), "read", "serve", "done"
    arg,      \* the stream the running handle() was given as conn
    rl, wl,   \* the streams brw.Reader and brw.Writer are bound to
    cur,      \* the request being handled
    n,        \* requests read so far
    spliced   \* the streams a tunnel spliced (at most one tunnel per connection)

vars == <<pc, arg, rl, wl, cur, n, spliced>>

(* handleLoop: brw = bufio.NewReadWriter over conn. *)
Init ==
    /\ pc = "loop" /\ arg = 0 /\ rl = 0 /\ wl = 0
    /\ cur = "get" /\ n = 0 /\ spliced = {}

(* p.handle(ctx, conn, brw) on the connection handleLoop was given. *)
Loop ==
    /\ pc = "loop"
    /\ arg' = 0
    /\ pc' = "read"
    /\ UNCHANGED <<rl, wl, cur, n, spliced>>

(* readRequest(ctx, conn, brw): http.ReadRequest(brw.Reader). When the     *)
(* client has no more requests the read fails with a closeable error.      *)
Read ==
    /\ pc = "read"
    /\ IF n < MaxReqs
         THEN \E k \in Kinds : cur' = k /\ n' = n + 1 /\ pc' = "serve"
         ELSE pc' = "done" /\ UNCHANGED <<cur, n>>
    /\ UNCHANGED <<arg, rl, wl, spliced>>

(* A request answered with a response through brw: handle returns nil. *)
ServeGet ==
    /\ pc = "serve" /\ cur = "get"
    /\ pc' = "loop"
    /\ UNCHANGED <<arg, rl, wl, cur, n, spliced>>

(* handleUpgradeResponse(res, brw, conn): tunnel writes the 101 through    *)
(* brw and copies between conn and the upstream; then errClose.            *)
ServeUpgrade ==
    /\ pc = "serve" /\ cur = "upgrade"
    /\ spliced' = {[conn |-> arg, reader |-> rl, writer |-> wl]}
    /\ pc' = "done"
    /\ UNCHANGED <<arg, rl, wl, cur, n>>

(* The MITM branch: write 200 through brw, read one byte. A TLS handshake  *)
(* record: tls.Server over peekedConn{conn, ...}; on success brw.Writer    *)
(* and brw.Reader are reset onto it and handle(ctx, nconn, brw) runs; a    *)
(* failed handshake, or an h2 session handed to H2Config().Proxy, returns *)
(* its error to handleLoop, which stops on a closeable one ("tls:", EOF)  *)
(* and loops on any other. Any other byte: brw.Reader (only) is reset     *)
(* onto a MultiReader ending in conn, and handle(ctx, conn, brw) runs.     *)
ServeMitm ==
    /\ pc = "serve" /\ cur = "mitm"
    /\ \/ /\ arg' = arg + 1 /\ rl' = arg + 1 /\ wl' = arg + 1
          /\ pc' = "read"
       \/ /\ pc' \in {"loop", "done"}
          /\ UNCHANGED <<arg, rl, wl>>
       \/ /\ rl' = arg
          /\ pc' = "read"
          /\ UNCHANGED <<arg, wl>>
    /\ UNCHANGED <<cur, n, spliced>>

Next == Loop \/ Read \/ ServeGet \/ ServeUpgrade \/ ServeMitm

Spec == Init /\ [][Next]_vars

-----------------------------------------------------------------------------
TypeOK ==
    /\ pc \in {"loop", "read", "serve", "done"}
    /\ arg \in Nat /\ rl \in Nat /\ wl \in Nat
    /\ cur \in Kinds \cup {"get"}
    /\ n \in 0..MaxReqs
    /\ spliced \subseteq [conn : Nat, reader : Nat, writer : Nat]

(* Spec 4.5 "CONNECT handling" 2 and "Upgrade tunneling": after a TLS     *)
(* MITM the handler loop runs on the decrypted stream, so a 101 tunnel     *)
(* copies between the upstream and the very stream the request and its    *)
(* 101 response went through.                                              *)
TunnelOnRequestStream ==
    \A t \in spliced : t.conn = t.reader /\ t.conn = t.writer

=============================================================================
