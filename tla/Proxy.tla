-------------------------------- MODULE Proxy --------------------------------
(***************************************************************************)
(* The proxy engine's connection lifecycle (src/proxy.go): the accept loop *)
(* Serve, one handleLoop task per accepted connection, readRequest and the *)
(* outcome of one handle() step, and the graceful shutdown Close(), which   *)
(* signals the closing channel and waits on the connection wait group.     *)
(*                                                                         *)
(* One handle() step after the request has been read is a single action,   *)
(* Serve(c): its outcome (hijack by a modifier, response written, 101 or    *)
(* CONNECT tunnel, CONNECT rejected) is chosen from what the code can do.   *)
(* A tunnel keeps handle() blocked until both of its copies end, which      *)
(* depends on the peers (TunnelReturn). The steps inside the tunnel are the *)
(* subject of the module Tunnel.                                            *)
(* Clients are the environment: they dial, send requests and close.        *)
(***************************************************************************)
EXTENDS Naturals, Sequences, FiniteSets

CONSTANTS
    Conns,            \* client connections that may be dialed (model values)
    Closers,          \* tasks that may call Proxy.Close()
    NoOne,            \* the holder of connsMu when nobody holds it
    Msgs,             \* kinds of messages a client may send, see MsgKinds
    MaxMsgs,          \* bound on the messages one client sends
    ReadTimeoutSet,   \* ReadHeaderTimeout or ReadTimeout > 0: reads have a deadline
    CloseAfterReply   \* Proxy.CloseAfterReply

(* "keep": an HTTP/1.1 keep-alive request; "close": a request with          *)
(* Connection: close or below HTTP/1.1; "upgrade": a request the upstream   *)
(* may answer with 101; "connect": a CONNECT request; "bad": bytes that      *)
(* http.ReadRequest fails to parse.                                          *)
MsgKinds == {"keep", "close", "upgrade", "connect", "bad"}

ASSUME ProxyAssumption ==
    /\ IsFiniteSet(Conns)
    /\ NoOne \notin Closers
    /\ Msgs \subseteq MsgKinds
    /\ MaxMsgs \in Nat
    /\ ReadTimeoutSet \in BOOLEAN
    /\ CloseAfterReply \in BOOLEAN

(* const maxConsecutiveErrors = 5 in handleLoop *)
MaxConsecutiveErrors == 5

VARIABLES
    closing,      \* p.closing has been closed
    lclosed,      \* the listener has been closed
    spc,          \* Serve: "check" (top of the loop), "accept", "done"
    mu,           \* holder of p.connsMu
    conns,        \* the handler tasks counted by p.conns (the wait group)
    cpc,          \* cpc[k]: where Close() called by k is
    cst,          \* cst[c]: "idle", "dialed" (in the backlog), "accepted"
    inbox,        \* inbox[c]: messages sent by the client and not yet read
    nsent,        \* nsent[c]: messages the client has sent
    eof,          \* eof[c]: the client has closed its side
    hpc,          \* hpc[c]: where handleLoop for c is
    cur,          \* cur[c]: the kind of the request being handled
    result,       \* result[c]: what the last handle() returned
    errs,         \* errs[c]: handleLoop's consecutive error counter
    hijacked,     \* hijacked[c]: a modifier hijacked the session
    shut,         \* shut[c]: readRequest half-closed the write side
    pclosed,      \* pclosed[c]: handleLoop's deferred conn.Close() ran
    parsed,       \* parsed[c]: requests http.ReadRequest returned
    answered,     \* answered[c]: responses delivered to the client
    hist          \* hist[c]: the values handle() returned to handleLoop, in
                  \* order (a history variable: no code reads it)

serveVars  == <<spc, lclosed>>
closeVars  == <<closing, mu, cpc>>
clientVars == <<cst, inbox, nsent, eof>>
connVars   == <<hpc, cur, result, errs, hijacked, shut, pclosed, parsed, answered, hist>>
vars == <<serveVars, closeVars, clientVars, connVars, conns>>

HPCs == {"none", "add", "check", "read", "serve", "tunnel", "result", "exit", "done"}
CPCs == {"idle", "lock", "wait", "returned", "panicked"}
Results == {"nil", "close", "err"}

-----------------------------------------------------------------------------
Init ==
    /\ closing = FALSE
    /\ lclosed = FALSE
    /\ spc = "check"
    /\ mu = NoOne
    /\ conns = {}
    /\ cpc = [k \in Closers |-> "idle"]
    /\ cst = [c \in Conns |-> "idle"]
    /\ inbox = [c \in Conns |-> <<>>]
    /\ nsent = [c \in Conns |-> 0]
    /\ eof = [c \in Conns |-> FALSE]
    /\ hpc = [c \in Conns |-> "none"]
    /\ cur = [c \in Conns |-> "keep"]
    /\ result = [c \in Conns |-> "nil"]
    /\ errs = [c \in Conns |-> 0]
    /\ hijacked = [c \in Conns |-> FALSE]
    /\ shut = [c \in Conns |-> FALSE]
    /\ pclosed = [c \in Conns |-> FALSE]
    /\ parsed = [c \in Conns |-> 0]
    /\ answered = [c \in Conns |-> 0]
    /\ hist = [c \in Conns |-> <<>>]

-----------------------------------------------------------------------------
(* The environment: clients and the owner of the listener. *)

Dial(c) ==
    /\ cst[c] = "idle"
    /\ ~lclosed
    /\ cst' = [cst EXCEPT ![c] = "dialed"]
    /\ UNCHANGED <<serveVars, closeVars, conns, inbox, nsent, eof, connVars>>

Send(c, m) ==
    /\ cst[c] # "idle"
    /\ ~eof[c]
    /\ nsent[c] < MaxMsgs
    /\ inbox' = [inbox EXCEPT ![c] = Append(@, m)]
    /\ nsent' = [nsent EXCEPT ![c] = @ + 1]
    /\ UNCHANGED <<serveVars, closeVars, conns, cst, eof, connVars>>

ClientClose(c) ==
    /\ cst[c] # "idle"
    /\ ~eof[c]
    /\ eof' = [eof EXCEPT ![c] = TRUE]
    /\ UNCHANGED <<serveVars, closeVars, conns, cst, inbox, nsent, connVars>>

(* The listener's owner closes it (the tests' deferred l.Close()). *)
CloseListener ==
    /\ ~lclosed
    /\ lclosed' = TRUE
    /\ UNCHANGED <<spc, closeVars, conns, clientVars, connVars>>

-----------------------------------------------------------------------------
(* Serve: the accept loop. *)

(* if p.Closing() { return nil }; the deferred l.Close() runs on return. *)
ServeCheck ==
    /\ spc = "check"
    /\ IF closing THEN spc' = "done" /\ lclosed' = TRUE
                  ELSE spc' = "accept" /\ UNCHANGED lclosed
    /\ UNCHANGED <<closeVars, conns, clientVars, connVars>>

(* l.Accept() returns a connection: go p.handleLoop(conn). *)
Accept(c) ==
    /\ spc = "accept"
    /\ ~lclosed
    /\ cst[c] = "dialed"
    /\ cst' = [cst EXCEPT ![c] = "accepted"]
    /\ hpc' = [hpc EXCEPT ![c] = "add"]
    /\ spc' = "check"
    /\ UNCHANGED <<lclosed, closeVars, conns, inbox, nsent, eof,
                   cur, result, errs, hijacked, shut, pclosed, parsed, answered, hist>>

(* A temporary accept error: sleep for the back-off delay and continue.   *)
(* Time is not modelled, so neither is the delay.                          *)
AcceptTemporary ==
    /\ spc = "accept"
    /\ ~lclosed
    /\ spc' = "check"
    /\ UNCHANGED <<lclosed, closeVars, conns, clientVars, connVars>>

(* net.ErrClosed, or any other accept error: return it. *)
AcceptFail ==
    /\ spc = "accept"
    /\ spc' = "done"
    /\ lclosed' = TRUE
    /\ UNCHANGED <<closeVars, conns, clientVars, connVars>>

-----------------------------------------------------------------------------
(* handleLoop(conn) for one accepted connection c. *)

(* Mutant: conns.Add(1) without taking p.connsMu. *)
HandlerAddNoLock(c) ==
    /\ hpc[c] = "add"
    /\ conns' = conns \cup {c}
    /\ hpc' = [hpc EXCEPT ![c] = "check"]
    /\ UNCHANGED <<serveVars, closeVars, clientVars,
                   cur, result, errs, hijacked, shut, pclosed, parsed, answered, hist>>

(* connsMu.Lock(); conns.Add(1); connsMu.Unlock() *)
HandlerAdd(c) ==
    /\ hpc[c] = "add"
    /\ mu = NoOne
    /\ conns' = conns \cup {c}
    /\ hpc' = [hpc EXCEPT ![c] = "check"]
    /\ UNCHANGED <<serveVars, closeVars, clientVars,
                   cur, result, errs, hijacked, shut, pclosed, parsed, answered, hist>>

(* Mutant: the p.Closing() check after registering is missing. *)
HandlerCheckNoClosing(c) ==
    /\ hpc[c] = "check"
    /\ hpc' = [hpc EXCEPT ![c] = "read"]
    /\ UNCHANGED <<serveVars, closeVars, conns, clientVars,
                   cur, result, errs, hijacked, shut, pclosed, parsed, answered, hist>>

(* if p.Closing() { return } *)
HandlerCheck(c) ==
    /\ hpc[c] = "check"
    /\ hpc' = [hpc EXCEPT ![c] = IF closing THEN "exit" ELSE "read"]
    /\ UNCHANGED <<serveVars, closeVars, conns, clientVars,
                   cur, result, errs, hijacked, shut, pclosed, parsed, answered, hist>>

(* readRequest: http.ReadRequest returns a request. If p.closing is closed *)
(* by then, the request is dropped and errClose returned.                  *)
ReadRequest(c) ==
    /\ hpc[c] = "read"
    /\ inbox[c] # <<>>
    /\ Head(inbox[c]) # "bad"
    /\ inbox' = [inbox EXCEPT ![c] = Tail(@)]
    /\ parsed' = [parsed EXCEPT ![c] = @ + 1]
    /\ IF closing
         THEN /\ result' = [result EXCEPT ![c] = "close"]
              /\ hpc' = [hpc EXCEPT ![c] = "result"]
              /\ UNCHANGED cur
         ELSE /\ cur' = [cur EXCEPT ![c] = Head(inbox[c])]
              /\ hpc' = [hpc EXCEPT ![c] = "serve"]
              /\ UNCHANGED result
    /\ UNCHANGED <<serveVars, closeVars, conns, cst, nsent, eof,
                   errs, hijacked, shut, pclosed, answered, hist>>

(* readRequest: a read error. The write side is half-closed (CloseWrite)   *)
(* whatever the error; a parse error is not closeable, EOF and a deadline   *)
(* are.                                                                    *)
ReadError(c, r) ==
    /\ hpc[c] = "read"
    /\ shut' = [shut EXCEPT ![c] = TRUE]
    /\ result' = [result EXCEPT ![c] = r]
    /\ hpc' = [hpc EXCEPT ![c] = "result"]
    /\ UNCHANGED <<serveVars, closeVars, conns, cst, nsent, eof,
                   cur, errs, hijacked, pclosed, parsed, answered, hist>>

ReadBad(c) ==
    /\ inbox[c] # <<>>
    /\ Head(inbox[c]) = "bad"
    /\ inbox' = [inbox EXCEPT ![c] = Tail(@)]
    /\ ReadError(c, "err")

(* http.ReadRequest returns io.EOF (closeable) on a client that closed.    *)
ReadEOF(c) ==
    /\ inbox[c] = <<>>
    /\ eof[c]
    /\ UNCHANGED inbox
    /\ ReadError(c, "close")

(* The header deadline set at the top of readRequest passes while the     *)
(* client is idle. The deadline readRequest re-arms (or clears) after the  *)
(* read only bounds later reads of the same request, the body reads of    *)
(* handle() and a tunnel's outbound copy (Tunnel's rdl); every readRequest *)
(* sets its own header deadline again, so here it is the constant          *)
(* ReadTimeoutSet.                                                         *)
ReadTimeout(c) ==
    /\ ReadTimeoutSet
    /\ inbox[c] = <<>>
    /\ UNCHANGED inbox
    /\ ReadError(c, "close")

(* Writing a response back: it reaches the client unless readRequest has  *)
(* half-closed the write side.                                            *)
Deliver(c) ==
    answered' = [answered EXCEPT ![c] = IF shut[c] THEN @ ELSE @ + 1]

(* handle() returns to handleLoop; or it enters a tunnel (tunnel(), called *)
(* by handleUpgradeResponse and handleConnectRequest) and stays blocked.    *)
Returns(c) == hpc' = [hpc EXCEPT ![c] = "result"]
Tunnels(c) == hpc' = [hpc EXCEPT ![c] = "tunnel"]

(* handle() after readRequest, for a request that is not CONNECT.          *)
(* hij: a request or response modifier hijacked the session (return nil).  *)
(* up: the upstream answered 101 Switching Protocols: handleUpgradeResponse *)
(* tunnels, then returns errClose.                                         *)
(* resClose: the upstream response asks to close.                          *)
(* short: res.Write failed with io.ErrUnexpectedEOF (the upstream body was *)
(* cut short; the bufio writer hides a broken client side until Flush).    *)
ServeHTTP(c) ==
    \E hij, up, resClose, short \in BOOLEAN :
      /\ up => cur[c] = "upgrade"
      /\ IF hij
           THEN /\ hijacked' = [hijacked EXCEPT ![c] = TRUE]
                /\ result' = [result EXCEPT ![c] = "nil"]
                /\ UNCHANGED answered
                /\ Returns(c)
           ELSE /\ Deliver(c)
                /\ UNCHANGED hijacked
                /\ result' = [result EXCEPT ![c] =
                      IF \/ up
                         \/ cur[c] = "close" \/ resClose \/ closing
                         \/ CloseAfterReply
                         \/ short
                      THEN "close" ELSE "nil"]
                /\ IF up THEN Tunnels(c) ELSE Returns(c)

(* handleConnectRequest without MITM.                                      *)
(* hij: a modifier hijacked the session; ok: the dial succeeded and the    *)
(* response stayed 200 (tunnel, then errClose); otherwise the 502 or       *)
(* upstream response is written and the error of brw.Flush() returned.     *)
ServeConnect(c) ==
    \E hij, ok \in BOOLEAN :
      IF hij
        THEN /\ hijacked' = [hijacked EXCEPT ![c] = TRUE]
             /\ result' = [result EXCEPT ![c] = "nil"]
             /\ UNCHANGED answered
             /\ Returns(c)
        ELSE /\ Deliver(c)
             /\ UNCHANGED hijacked
             /\ result' = [result EXCEPT ![c] =
                   IF ok THEN "close" ELSE IF shut[c] THEN "err" ELSE "nil"]
             /\ IF ok THEN Tunnels(c) ELSE Returns(c)

Serve(c) ==
    /\ hpc[c] = "serve"
    /\ IF cur[c] = "connect" THEN ServeConnect(c) ELSE ServeHTTP(c)
    /\ UNCHANGED <<serveVars, closeVars, conns, clientVars,
                   cur, errs, shut, pclosed, parsed, hist>>

(* tunnel(): both copySync tasks have sent on donec (<-donec; <-donec), or *)
(* writing the response head failed; handle() returns errClose. When that  *)
(* happens depends on the client and the upstream closing their sides.     *)
TunnelReturn(c) ==
    /\ hpc[c] = "tunnel"
    /\ Returns(c)
    /\ UNCHANGED <<serveVars, closeVars, conns, clientVars,
                   cur, result, errs, hijacked, shut, pclosed, parsed, answered, hist>>

(* Mutant: a success does not reset the consecutive error counter. *)
HandleResultNoReset(c) ==
    /\ hpc[c] = "result"
    /\ hist' = [hist EXCEPT ![c] = Append(@, result[c])]
    /\ LET e == IF result[c] = "err" THEN errs[c] + 1 ELSE errs[c]
       IN /\ errs' = [errs EXCEPT ![c] = IF result[c] = "close" THEN @ ELSE e]
          /\ hpc' = [hpc EXCEPT ![c] =
                IF \/ result[c] = "close"
                   \/ e >= MaxConsecutiveErrors
                   \/ hijacked[c]
                THEN "exit" ELSE "read"]
    /\ UNCHANGED <<serveVars, closeVars, conns, clientVars,
                   cur, result, hijacked, shut, pclosed, parsed, answered>>

(* The body of handleLoop's for loop after p.handle() returned. *)
HandleResult(c) ==
    /\ hpc[c] = "result"
    /\ hist' = [hist EXCEPT ![c] = Append(@, result[c])]
    /\ LET e == IF result[c] = "err" THEN errs[c] + 1 ELSE 0
       IN /\ errs' = [errs EXCEPT ![c] = IF result[c] = "close" THEN @ ELSE e]
          /\ hpc' = [hpc EXCEPT ![c] =
                IF \/ result[c] = "close"
                   \/ e >= MaxConsecutiveErrors
                   \/ hijacked[c]
                THEN "exit" ELSE "read"]
    /\ UNCHANGED <<serveVars, closeVars, conns, clientVars,
                   cur, result, hijacked, shut, pclosed, parsed, answered>>

HandlerExit(c) ==
    /\ hpc[c] = "exit"
    /\ pclosed' = [pclosed EXCEPT ![c] = TRUE]
    /\ conns' = conns \ {c}
    /\ hpc' = [hpc EXCEPT ![c] = "done"]
    /\ UNCHANGED <<serveVars, closeVars, clientVars,
                   cur, result, errs, hijacked, shut, parsed, answered, hist>>

-----------------------------------------------------------------------------
(* Close(), called by k. *)

(* close(p.closing): closing a closed channel panics. *)
CloseSignal(k) ==
    /\ cpc[k] = "idle"
    /\ IF closing THEN cpc' = [cpc EXCEPT ![k] = "panicked"] /\ UNCHANGED closing
                  ELSE cpc' = [cpc EXCEPT ![k] = "lock"] /\ closing' = TRUE
    /\ UNCHANGED <<mu, serveVars, conns, clientVars, connVars>>

(* p.connsMu.Lock() *)
CloseLock(k) ==
    /\ cpc[k] = "lock"
    /\ mu = NoOne
    /\ mu' = k
    /\ cpc' = [cpc EXCEPT ![k] = "wait"]
    /\ UNCHANGED <<closing, serveVars, conns, clientVars, connVars>>

(* Mutant: Close() does not wait for the handlers. *)
CloseWaitNoWait(k) ==
    /\ cpc[k] = "wait"
    /\ mu' = NoOne
    /\ cpc' = [cpc EXCEPT ![k] = "returned"]
    /\ UNCHANGED <<closing, serveVars, conns, clientVars, connVars>>

(* p.conns.Wait(); p.connsMu.Unlock() *)
CloseWait(k) ==
    /\ cpc[k] = "wait"
    /\ conns = {}
    /\ mu' = NoOne
    /\ cpc' = [cpc EXCEPT ![k] = "returned"]
    /\ UNCHANGED <<closing, serveVars, conns, clientVars, connVars>>

-----------------------------------------------------------------------------
Environment ==
    \/ \E c \in Conns : Dial(c) \/ ClientClose(c) \/ \E m \in Msgs : Send(c, m)
    \/ CloseListener
    \/ \E k \in Closers : CloseSignal(k)

ServeLoop ==
    \/ ServeCheck \/ AcceptTemporary \/ AcceptFail
    \/ \E c \in Conns : Accept(c)

Handler(c) ==
    \/ HandlerAdd(c) \/ HandlerCheck(c)
    \/ ReadRequest(c) \/ ReadBad(c) \/ ReadEOF(c) \/ ReadTimeout(c)
    \/ Serve(c) \/ TunnelReturn(c) \/ HandleResult(c) \/ HandlerExit(c)

Closer(k) == CloseLock(k) \/ CloseWait(k)

Next ==
    \/ Environment
    \/ ServeLoop
    \/ \E c \in Conns : Handler(c)
    \/ \E k \in Closers : Closer(k)

(* The proxy's own tasks are scheduled by the Go runtime and never stop    *)
(* while they can run; a read deadline eventually passes. The clients, the *)
(* listener's owner, the caller of Close() and the accept errors are the   *)
(* environment and get no fairness, and neither does the end of a tunnel:  *)
(* tunnel() returns when both peers have closed their sides, and no        *)
(* deadline covers the inbound copy from the upstream.                     *)
Fairness ==
    /\ WF_vars(ServeCheck)
    /\ \A c \in Conns :
         /\ WF_vars(Accept(c))
         /\ WF_vars(HandlerAdd(c)) /\ WF_vars(HandlerCheck(c))
         /\ WF_vars(ReadRequest(c)) /\ WF_vars(ReadBad(c)) /\ WF_vars(ReadEOF(c))
         /\ WF_vars(ReadTimeout(c))
         /\ WF_vars(Serve(c)) /\ WF_vars(HandleResult(c)) /\ WF_vars(HandlerExit(c))
    /\ \A k \in Closers : WF_vars(Closer(k))

Spec == Init /\ [][Next]_vars /\ Fairness

-----------------------------------------------------------------------------
LifecycleTypeOK ==
    /\ closing \in BOOLEAN
    /\ lclosed \in BOOLEAN
    /\ spc \in {"check", "accept", "done"}
    /\ mu \in Closers \cup {NoOne}
    /\ conns \subseteq Conns
    /\ cpc \in [Closers -> CPCs]
    /\ cst \in [Conns -> {"idle", "dialed", "accepted"}]
    /\ inbox \in [Conns -> Seq(Msgs)]
    /\ nsent \in [Conns -> Nat]
    /\ eof \in [Conns -> BOOLEAN]
    /\ hpc \in [Conns -> HPCs]
    /\ cur \in [Conns -> MsgKinds]
    /\ result \in [Conns -> Results]
    /\ errs \in [Conns -> Nat]
    /\ hijacked \in [Conns -> BOOLEAN]
    /\ shut \in [Conns -> BOOLEAN]
    /\ pclosed \in [Conns -> BOOLEAN]
    /\ parsed \in [Conns -> Nat]
    /\ answered \in [Conns -> Nat]

TypeOK == LifecycleTypeOK /\ hist \in [Conns -> Seq(Results)]

(* A handler task that can still read or serve a request. *)
Serving(c) == hpc[c] \in {"read", "serve", "tunnel", "result"}

(* Close() has returned for some caller. *)
CloseReturned == \E k \in Closers : cpc[k] = "returned"

(* Graceful shutdown (Proxy.Close, handleLoop): once Close() has returned, *)
(* no connection handler is reading, serving or about to read a request.   *)
(* A handler spawned by Serve just before Close may register with the      *)
(* wait group after Wait() returned; it must see the closing channel and   *)
(* leave without reading.                                                  *)
QuiescentAfterClose ==
    CloseReturned => \A c \in Conns : ~Serving(c)

(* Inductive strengthening of QuiescentAfterClose: a handler that has     *)
(* registered with the wait group and not yet called Done is in conns, and *)
(* a Close() caller past close(p.closing) has closed the channel.          *)
Registered == {"check", "read", "serve", "tunnel", "result", "exit"}

QuiescenceInv ==
    /\ TypeOK
    /\ \A c \in Conns : hpc[c] \in Registered => c \in conns
    /\ \A k \in Closers : cpc[k] \in {"lock", "wait", "returned"} => closing
    /\ QuiescentAfterClose

(* The peers of every tunnel eventually close their sides, so that each   *)
(* tunnel() the proxy enters returns.                                      *)
TunnelsEnd == \A c \in Conns : WF_vars(TunnelReturn(c))

(* Proxy.Close's contract: once signalled, every call of Close() returns:  *)
(* each handler's pending read ends and the wait group drains, provided    *)
(* every tunnel ends. An open tunnel holds Close() as long as its peers do *)
(* (Tunnel.tla), which the contract's "closes existing connections" does   *)
(* not cover either.                                                        *)
CloseReturns ==
    TunnelsEnd => \A k \in Closers : (cpc[k] = "lock") ~> (cpc[k] = "returned")

(* Spec 8: every request that parses gets exactly one response unless the *)
(* connection was hijacked: checked when the handler has finished.         *)
EveryRequestAnswered ==
    \A c \in Conns : hpc[c] = "done" /\ ~hijacked[c] => answered[c] = parsed[c]

(* The last n values handle() returned in the history s are errors that   *)
(* are not closeable.                                                      *)
LastErrs(s, n) == n <= Len(s) /\ \A i \in (Len(s) - n + 1)..Len(s) : s[i] = "err"

(* handleLoop left its loop after an error that is not closeable, and not  *)
(* because a modifier hijacked the connection.                             *)
ExitOnError(c) ==
    /\ hpc[c] \in {"exit", "done"} /\ ~hijacked[c]
    /\ hist[c] # <<>> /\ hist[c][Len(hist[c])] = "err"

(* handleLoop's consecutive error limit (proxy.go 297-316), against the    *)
(* history of what handle() returned: a handler whose last five handle()   *)
(* calls failed with errors that are not closeable (parse errors, a         *)
(* rejected CONNECT's flush error) never reads another request, and a      *)
(* handler leaves the loop on such an error only once the last five calls  *)
(* failed. A success in between resets the count; a closeable error or a   *)
(* hijack ends the loop without counting.                                  *)
ErrorLimitExact ==
    \A c \in Conns :
        /\ hpc[c] = "read" => ~LastErrs(hist[c], MaxConsecutiveErrors)
        /\ ExitOnError(c) => LastErrs(hist[c], MaxConsecutiveErrors)

(* Inductive strengthening of ErrorLimitExact: a connection Serve has not  *)
(* accepted has no handler yet (Accept starts one without looking at it);  *)
(* a handler that has not read yet has no history; inside handleLoop's for *)
(* loop the counter is below the limit and is the length of the run of      *)
(* errors that ends the history.                                            *)
InLoop == HPCs \ {"exit", "done"}
Unread == {"none", "add", "check"}
TrailingRun(s, n) == LastErrs(s, n) /\ (n < Len(s) => s[Len(s) - n] # "err")
ErrorCountInv ==
    \A c \in Conns :
        /\ cst[c] # "accepted" => hpc[c] = "none"
        /\ hpc[c] \in Unread => hist[c] = <<>>
        /\ hpc[c] \in InLoop => errs[c] < MaxConsecutiveErrors
        /\ hpc[c] \in InLoop => TrailingRun(hist[c], errs[c])
        /\ ExitOnError(c) => LastErrs(hist[c], MaxConsecutiveErrors)

(* sync.WaitGroup's rule that an Add from zero happens before Wait, which *)
(* handleLoop and Close() keep with p.connsMu: no handler registers with   *)
(* conns (conns.Add(1)) while some Close() caller is inside conns.Wait().  *)
NoAddDuringWait ==
    [][(\E k \in Closers : cpc[k] = "wait") => conns' \subseteq conns]_vars

(* Inductive strengthening: a Close() caller is in conns.Wait() exactly    *)
(* while it holds p.connsMu.                                               *)
WaitHoldsLock ==
    \A k \in Closers : cpc[k] = "wait" <=> mu = k

-----------------------------------------------------------------------------
(***************************************************************************)
(* Refinement. The shutdown protocol of Close() and handleLoop implements  *)
(* the abstract promise of Shutdown.tla: the handlers being served map to  *)
(* Shutdown's active set, the closing channel to signalled, the Close()   *)
(* calls that have returned to returned. A handler's Closing() check that *)
(* goes on to read is Admit, its exit from the loop is Finish, close(p.    *)
(* closing) is Signal and the return from conns.Wait() is Return; every    *)
(* other step changes none of the three.                                   *)
(***************************************************************************)
ActiveHandlers == {c \in Conns : Serving(c)}
ReturnedClosers == {k \in Closers : cpc[k] = "returned"}

Abs == INSTANCE Shutdown WITH
           signalled <- closing, active <- ActiveHandlers, returned <- ReturnedClosers

(* Proxy.Close's contract as a whole (Shutdown.tla): no handler starts     *)
(* serving once close(p.closing) ran, and each Close() call returns only   *)
(* while no handler is serving; every behaviour of the engine is one of    *)
(* the abstract specification's.                                           *)
ShutdownRefinement == Abs!Spec

=============================================================================
