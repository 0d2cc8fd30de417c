----------------------------- MODULE ProxyProofs -----------------------------
(***************************************************************************)
(* Proofs about the proxy's connection lifecycle (module Proxy), for every *)
(* set of connections and of Close() callers and every message bound.      *)
(***************************************************************************)
EXTENDS Proxy, SequenceTheorems, TLAPS

-----------------------------------------------------------------------------
(* Type correctness.                                                       *)

USE DEF HPCs, CPCs, Results, MsgKinds, serveVars, closeVars, clientVars, connVars

LEMMA InitTypeOK == Init => TypeOK
  <1> SUFFICES ASSUME Init PROVE TypeOK
    OBVIOUS
  <1>1. inbox \in [Conns -> Seq(Msgs)]
    BY DEF Init
  <1>2. cpc \in [Closers -> CPCs] /\ hpc \in [Conns -> HPCs]
    BY DEF Init
  <1>3. hist \in [Conns -> Seq(Results)]
    BY DEF Init
  <1>4. QED
    BY <1>1, <1>2, <1>3, ProxyAssumption DEF Init, TypeOK, LifecycleTypeOK

(* The outcomes of one handle() step keep its three outputs typed. *)
LEMMA ServeOutputsTyped ==
  ASSUME NEW c \in Conns,
         answered \in [Conns -> Nat], hijacked \in [Conns -> BOOLEAN],
         result \in [Conns -> Results], shut \in [Conns -> BOOLEAN],
         ServeHTTP(c) \/ ServeConnect(c)
  PROVE  /\ answered' \in [Conns -> Nat]
         /\ hijacked' \in [Conns -> BOOLEAN]
         /\ result' \in [Conns -> Results]
  <1>1. answered' \in [Conns -> Nat]
    BY DEF ServeHTTP, ServeConnect, Deliver
  <1>2. hijacked' \in [Conns -> BOOLEAN]
    BY ZenonT(30) DEF ServeHTTP, ServeConnect
  <1>3. result' \in [Conns -> Results]
    BY DEF ServeHTTP, ServeConnect
  <1>4. QED
    BY <1>1, <1>2, <1>3

(* readRequest's successful read keeps the handler's state typed. *)
LEMMA ReadRequestTyped ==
  ASSUME NEW c \in Conns, closing \in BOOLEAN,
         hpc \in [Conns -> HPCs], result \in [Conns -> Results],
         cur \in [Conns -> MsgKinds], Head(inbox[c]) \in MsgKinds,
         ReadRequest(c)
  PROVE  /\ hpc' \in [Conns -> HPCs]
         /\ result' \in [Conns -> Results]
         /\ cur' \in [Conns -> MsgKinds]
  <1>1. CASE closing
    BY <1>1 DEF ReadRequest
  <1>2. CASE ~closing
    BY <1>2 DEF ReadRequest
  <1>3. QED
    BY <1>1, <1>2

(* One handle() step moves its own handler to "result" or into a tunnel,  *)
(* and sets at most its own hijacked flag.                                 *)
LEMMA ServeSteps ==
  ASSUME NEW c \in Conns, Serve(c)
  PROVE  /\ hpc' = [hpc EXCEPT ![c] = "result"] \/ hpc' = [hpc EXCEPT ![c] = "tunnel"]
         /\ hijacked' = [hijacked EXCEPT ![c] = TRUE] \/ hijacked' = hijacked
  <1>1. hpc' = [hpc EXCEPT ![c] = "result"] \/ hpc' = [hpc EXCEPT ![c] = "tunnel"]
    BY DEF Serve, ServeHTTP, ServeConnect, Returns, Tunnels
  <1>2. hijacked' = [hijacked EXCEPT ![c] = TRUE] \/ hijacked' = hijacked
    BY DEF Serve, ServeHTTP, ServeConnect
  <1>3. QED
    BY <1>1, <1>2

(* Every action keeps the variables of the lifecycle in their types. *)
LEMMA NextLifecycleTypeOK == LifecycleTypeOK /\ [Next]_vars => LifecycleTypeOK'
  <1> SUFFICES ASSUME LifecycleTypeOK, [Next]_vars PROVE LifecycleTypeOK'
    OBVIOUS
  <1> USE ProxyAssumption DEF LifecycleTypeOK
  <1>1. ASSUME NEW c \in Conns, Dial(c) PROVE LifecycleTypeOK'
    <2>1. cst' \in [Conns -> {"idle", "dialed", "accepted"}]
      BY <1>1 DEF Dial
    <2>2. QED
      BY <1>1, <2>1 DEF Dial, serveVars, closeVars, connVars
  <1>2. ASSUME NEW c \in Conns, NEW m \in Msgs, Send(c, m) PROVE LifecycleTypeOK'
    BY <1>2 DEF Send
  <1>3. ASSUME NEW c \in Conns, ClientClose(c) PROVE LifecycleTypeOK'
    BY <1>3 DEF ClientClose
  <1>4. CASE CloseListener
    BY <1>4 DEF CloseListener
  <1>5. ASSUME NEW k \in Closers, CloseSignal(k) PROVE LifecycleTypeOK'
    BY <1>5, ZenonT(30) DEF CloseSignal, CPCs
  <1>6. CASE ServeCheck
    BY <1>6 DEF ServeCheck
  <1>7. CASE AcceptTemporary
    BY <1>7 DEF AcceptTemporary
  <1>20. CASE AcceptFail
    BY <1>20 DEF AcceptFail
  <1>8. ASSUME NEW c \in Conns, Accept(c) PROVE LifecycleTypeOK'
    BY <1>8 DEF Accept, HPCs
  <1>9. ASSUME NEW c \in Conns, HandlerAdd(c) PROVE LifecycleTypeOK'
    BY <1>9 DEF HandlerAdd, HPCs
  <1>10. ASSUME NEW c \in Conns, HandlerCheck(c) PROVE LifecycleTypeOK'
    BY <1>10 DEF HandlerCheck, HPCs
  <1>11. ASSUME NEW c \in Conns, ReadRequest(c) PROVE LifecycleTypeOK'
    <2>0. Head(inbox[c]) \in Msgs /\ Tail(inbox[c]) \in Seq(Msgs)
      BY <1>11, HeadTailProperties DEF ReadRequest
    <2>1. inbox' \in [Conns -> Seq(Msgs)] /\ parsed' \in [Conns -> Nat]
      BY <1>11, <2>0 DEF ReadRequest
    <2>2. Head(inbox[c]) \in MsgKinds
      BY <2>0
    <2>3. /\ hpc' \in [Conns -> HPCs]
          /\ result' \in [Conns -> Results]
          /\ cur' \in [Conns -> MsgKinds]
      BY <1>11, <2>2, ReadRequestTyped
    <2>4. QED
      BY <1>11, <2>1, <2>3 DEF ReadRequest
  <1>12. ASSUME NEW c \in Conns, NEW r \in Results, ReadError(c, r)
         PROVE  /\ shut' \in [Conns -> BOOLEAN]
                /\ result' \in [Conns -> Results]
                /\ hpc' \in [Conns -> HPCs]
    BY <1>12 DEF ReadError
  <1>21. ASSUME NEW c \in Conns, ReadBad(c) PROVE LifecycleTypeOK'
    <2>0. Tail(inbox[c]) \in Seq(Msgs)
      BY <1>21, HeadTailProperties DEF ReadBad
    <2>1. inbox' \in [Conns -> Seq(Msgs)]
      BY <1>21, <2>0 DEF ReadBad
    <2>2. QED
      BY <1>21, <1>12, <2>1 DEF ReadBad, ReadError
  <1>22. ASSUME NEW c \in Conns, ReadEOF(c) PROVE LifecycleTypeOK'
    BY <1>22, <1>12 DEF ReadEOF, ReadError
  <1>23. ASSUME NEW c \in Conns, ReadTimeout(c) PROVE LifecycleTypeOK'
    BY <1>23, <1>12 DEF ReadTimeout, ReadError
  <1>13. ASSUME NEW c \in Conns, Serve(c) PROVE LifecycleTypeOK'
    <2>1. hpc' \in [Conns -> HPCs]
      BY <1>13, ServeSteps
    <2>2. /\ answered' \in [Conns -> Nat]
          /\ hijacked' \in [Conns -> BOOLEAN]
          /\ result' \in [Conns -> Results]
      BY <1>13, ServeOutputsTyped DEF Serve
    <2>3. UNCHANGED <<serveVars, closeVars, conns, clientVars,
                     cur, errs, shut, pclosed, parsed, hist>>
      BY <1>13 DEF Serve
    <2>4. QED
      BY <2>1, <2>2, <2>3
  <1>14. ASSUME NEW c \in Conns, HandleResult(c) PROVE LifecycleTypeOK'
    BY <1>14 DEF HandleResult
  <1>24. ASSUME NEW c \in Conns, TunnelReturn(c) PROVE LifecycleTypeOK'
    BY <1>24 DEF TunnelReturn, Returns
  <1>15. ASSUME NEW c \in Conns, HandlerExit(c) PROVE LifecycleTypeOK'
    BY <1>15 DEF HandlerExit, HPCs
  <1>16. ASSUME NEW k \in Closers, CloseLock(k) PROVE LifecycleTypeOK'
    BY <1>16 DEF CloseLock, CPCs
  <1>17. ASSUME NEW k \in Closers, CloseWait(k) PROVE LifecycleTypeOK'
    BY <1>17 DEF CloseWait, CPCs
  <1>18. CASE UNCHANGED vars
    BY <1>18 DEF vars, serveVars, closeVars, clientVars, connVars
  <1>19. QED
    BY <1>1, <1>2, <1>3, <1>4, <1>5, <1>6, <1>7, <1>8, <1>9, <1>10,
       <1>11, <1>13, <1>14, <1>15, <1>16, <1>17, <1>18, <1>20, <1>21, <1>22, <1>23,
       <1>24
    DEF Next, Environment, ServeLoop, Handler, Closer

(* handleLoop appends handle()'s result to the history; nothing else     *)
(* touches it.                                                             *)
LEMMA NextHistTyped ==
  ASSUME TypeOK, [Next]_vars PROVE hist' \in [Conns -> Seq(Results)]
  <1>1. ASSUME NEW c \in Conns, HandleResult(c) PROVE hist' \in [Conns -> Seq(Results)]
    <2>1. Append(hist[c], result[c]) \in Seq(Results)
      BY AppendProperties DEF TypeOK, LifecycleTypeOK
    <2>2. QED
      BY <1>1, <2>1 DEF HandleResult, TypeOK
  <1>2. CASE ~\E c \in Conns : HandleResult(c)
    <2>1. UNCHANGED hist
      BY <1>2, ZenonT(60) DEF Next, Environment, ServeLoop, Handler, Closer, vars, Dial,
         ClientClose, Send, CloseListener, CloseSignal, ServeCheck, AcceptTemporary,
         AcceptFail, Accept, CloseLock, CloseWait, HandlerAdd, HandlerCheck,
         ReadRequest, ReadBad, ReadEOF, ReadTimeout, ReadError, Serve, TunnelReturn,
         HandlerExit
    <2>2. QED
      BY <2>1 DEF TypeOK
  <1>3. QED
    BY <1>1, <1>2

LEMMA NextTypeOK == TypeOK /\ [Next]_vars => TypeOK'
  BY NextLifecycleTypeOK, NextHistTyped DEF TypeOK

(* The variables of the lifecycle always have their types. *)
THEOREM TypeCorrect == Spec => []TypeOK
  BY InitTypeOK, NextTypeOK, PTL DEF Spec

-----------------------------------------------------------------------------
(* Graceful shutdown: once Close() has returned, no handler reads or       *)
(* serves. The invariant is strengthened by QuiescenceInv (module Proxy):  *)
(* CloseWait needs every registered handler to be in the wait group, and   *)
(* HandlerCheck needs the closing channel closed once Close() has returned. *)

RegisteredInConns == \A c \in Conns : hpc[c] \in Registered => c \in conns
SignalledClosing == \A k \in Closers : cpc[k] \in {"lock", "wait", "returned"} => closing

LEMMA InitQuiescence == Init => QuiescenceInv
  BY InitTypeOK DEF Init, QuiescenceInv, QuiescentAfterClose, CloseReturned, Registered

(* A step that moves no handler, no Close() caller, and leaves the wait    *)
(* group and the closing channel alone keeps the invariant.                *)
LEMMA QuiescenceFrame ==
  ASSUME QuiescenceInv, TypeOK',
         UNCHANGED <<hpc, conns, cpc, closing>>
  PROVE  QuiescenceInv'
  BY SMTT(20) DEF QuiescenceInv, QuiescentAfterClose, CloseReturned, Serving

LEMMA NextQuiescence == QuiescenceInv /\ [Next]_vars => QuiescenceInv'
  <1> SUFFICES ASSUME QuiescenceInv, [Next]_vars PROVE QuiescenceInv'
    OBVIOUS
  <1>0. TypeOK /\ TypeOK'
    BY NextTypeOK DEF QuiescenceInv
  <1> USE DEF QuiescenceInv
  <1> DEFINE Goal == RegisteredInConns' /\ SignalledClosing' /\ QuiescentAfterClose'
  <1>a. Goal => QuiescenceInv'
    BY <1>0 DEF RegisteredInConns, SignalledClosing
  <1>b. RegisteredInConns /\ SignalledClosing /\ QuiescentAfterClose
    BY DEF RegisteredInConns, SignalledClosing
  <1>1. CASE \E c \in Conns : Dial(c) \/ ClientClose(c) \/ \E m \in Msgs : Send(c, m)
    BY <1>0, <1>1, QuiescenceFrame DEF Dial, ClientClose, Send
  <1>2. CASE CloseListener \/ ServeCheck \/ AcceptTemporary \/ AcceptFail
    BY <1>0, <1>2, QuiescenceFrame DEF CloseListener, ServeCheck, AcceptTemporary, AcceptFail
  <1>3. ASSUME NEW k \in Closers, CloseSignal(k) PROVE QuiescenceInv'
    <2>1. RegisteredInConns'
      BY <1>3, <1>b DEF CloseSignal, RegisteredInConns
    <2>2. SignalledClosing'
      BY <1>3, <1>b, <1>0 DEF CloseSignal, SignalledClosing, TypeOK, LifecycleTypeOK
    <2>3. QuiescentAfterClose'
      BY <1>3, <1>b, <1>0 DEF CloseSignal, QuiescentAfterClose, CloseReturned, Serving, TypeOK, LifecycleTypeOK
    <2>4. QED
      BY <1>a, <2>1, <2>2, <2>3
  <1>4. ASSUME NEW k \in Closers, CloseLock(k) PROVE QuiescenceInv'
    BY <1>0, <1>4, <1>b, <1>a DEF CloseLock, RegisteredInConns, SignalledClosing,
       QuiescentAfterClose, CloseReturned, Serving, TypeOK, LifecycleTypeOK
  <1>5. ASSUME NEW k \in Closers, CloseWait(k) PROVE QuiescenceInv'
    <2>1. \A c \in Conns : ~Serving(c)
      BY <1>5, <1>b DEF CloseWait, RegisteredInConns, Serving, Registered
    <2>2. QuiescentAfterClose'
      BY <1>5, <2>1 DEF CloseWait, QuiescentAfterClose, Serving
    <2>3. SignalledClosing'
      BY <1>5, <1>b, <1>0 DEF CloseWait, SignalledClosing, TypeOK, LifecycleTypeOK
    <2>4. QED
      BY <1>5, <1>a, <1>b, <2>2, <2>3 DEF CloseWait, RegisteredInConns
  <1>6. ASSUME NEW c \in Conns, Accept(c) PROVE QuiescenceInv'
    BY <1>0, <1>6, <1>b, <1>a DEF Accept, RegisteredInConns, SignalledClosing,
       QuiescentAfterClose, CloseReturned, Serving, Registered, TypeOK, LifecycleTypeOK
  <1>7. ASSUME NEW c \in Conns, HandlerAdd(c) PROVE QuiescenceInv'
    BY <1>0, <1>7, <1>b, <1>a DEF HandlerAdd, RegisteredInConns, SignalledClosing,
       QuiescentAfterClose, CloseReturned, Serving, Registered, TypeOK, LifecycleTypeOK
  <1>8. ASSUME NEW c \in Conns, HandlerCheck(c) PROVE QuiescenceInv'
    <2>0. CloseReturned => closing
      BY <1>b DEF SignalledClosing, CloseReturned
    <2>1. CloseReturned => hpc'[c] = "exit"
      BY <1>0, <1>8, <2>0 DEF HandlerCheck, TypeOK, LifecycleTypeOK
    <2>2. QuiescentAfterClose'
      BY <1>0, <1>8, <1>b, <2>1 DEF HandlerCheck, QuiescentAfterClose, CloseReturned, Serving, TypeOK, LifecycleTypeOK
    <2>3. QED
      BY <1>0, <1>8, <1>b, <1>a, <2>2 DEF HandlerCheck, RegisteredInConns, SignalledClosing,
         Registered, TypeOK, LifecycleTypeOK
  <1>9. ASSUME NEW c \in Conns,
               ReadRequest(c) \/ ReadBad(c) \/ ReadEOF(c) \/ ReadTimeout(c)
                 \/ Serve(c) \/ TunnelReturn(c) \/ HandleResult(c)
        PROVE QuiescenceInv'
    <2> DEFINE Moves == /\ Serving(c) /\ hpc'[c] \in Registered
                        /\ UNCHANGED <<conns, cpc, closing>>
                        /\ \A d \in Conns \ {c} : hpc'[d] = hpc[d]
    <2>1. Moves
      <3>1. CASE ReadRequest(c)
        BY <1>0, <3>1 DEF ReadRequest, Serving, Registered, TypeOK, LifecycleTypeOK
      <3>2. CASE ReadBad(c) \/ ReadEOF(c) \/ ReadTimeout(c)
        BY <1>0, <3>2 DEF ReadBad, ReadEOF, ReadTimeout, ReadError, Serving, Registered, TypeOK, LifecycleTypeOK
      <3>3. CASE Serve(c)
        <4>0. hpc \in [Conns -> HPCs]
          BY <1>0 DEF TypeOK, LifecycleTypeOK
        <4>1. hpc'[c] \in {"result", "tunnel"} /\ \A d \in Conns \ {c} : hpc'[d] = hpc[d]
          BY <4>0, <3>3, ServeSteps
        <4>2. QED
          BY <3>3, <4>1 DEF Serve, Serving, Registered
      <3>4. CASE HandleResult(c)
        BY <1>0, <3>4 DEF HandleResult, Serving, Registered, TypeOK, LifecycleTypeOK
      <3>6. CASE TunnelReturn(c)
        BY <1>0, <3>6 DEF TunnelReturn, Returns, Serving, Registered, TypeOK, LifecycleTypeOK
      <3>5. QED
        BY <1>9, <3>1, <3>2, <3>3, <3>4, <3>6
    <2>2. ~CloseReturned
      BY <1>b, <2>1 DEF QuiescentAfterClose
    <2>3. QED
      BY <1>0, <1>a, <1>b, <2>1, <2>2 DEF RegisteredInConns, SignalledClosing,
         QuiescentAfterClose, CloseReturned, Serving, Registered, TypeOK, LifecycleTypeOK
  <1>10. ASSUME NEW c \in Conns, HandlerExit(c) PROVE QuiescenceInv'
    BY <1>0, <1>10, <1>b, <1>a DEF HandlerExit, RegisteredInConns, SignalledClosing,
       QuiescentAfterClose, CloseReturned, Serving, Registered, TypeOK, LifecycleTypeOK
  <1>11. CASE UNCHANGED vars
    BY <1>0, <1>11, QuiescenceFrame DEF vars
  <1>12. QED
    BY <1>1, <1>2, <1>3, <1>4, <1>5, <1>6, <1>7, <1>8, <1>9, <1>10, <1>11
    DEF Next, Environment, ServeLoop, Handler, Closer

(* handleLoop and Proxy.Close: every handler between conns.Add(1) and      *)
(* conns.Done() is counted by the wait group, every Close() caller past    *)
(* close(p.closing) sees the channel closed, and once Close() has returned *)
(* no handler is reading or serving: the invariant the two-connection run  *)
(* checks, for any number of connections and Close() callers.              *)
THEOREM QuiescenceInvariant == Spec => []QuiescenceInv
  BY InitQuiescence, NextQuiescence, PTL DEF Spec

(* Proxy.Close: once Close() has returned, no connection handler is        *)
(* reading, serving or about to read a request, for any number of         *)
(* connections and Close() callers.                                        *)
THEOREM QuiescentAfterCloseHolds == Spec => []QuiescentAfterClose
  <1>1. QuiescenceInv => QuiescentAfterClose
    BY DEF QuiescenceInv
  <1>2. QED
    BY <1>1, InitQuiescence, NextQuiescence, PTL DEF Spec

-----------------------------------------------------------------------------
(* Refinement: Proxy implements Shutdown under the mapping of module Proxy *)
(* (signalled <- closing, active <- ActiveHandlers, returned <-            *)
(* ReturnedClosers). Every step moves at most one handler, so it is an     *)
(* abstract Admit, Finish or stutter; CloseSignal is Signal, and CloseWait *)
(* is Return because QuiescenceInv puts every serving handler in conns.    *)

LEMMA InitRefines == Init => Abs!Init
  BY DEF Init, Abs!Init, ActiveHandlers, ReturnedClosers, Serving

(* A step that moves no handler, no Close() caller and leaves the closing  *)
(* channel alone is an abstract stutter.                                   *)
LEMMA AbsFrame ==
  ASSUME UNCHANGED <<hpc, cpc, closing>>
  PROVE  UNCHANGED Abs!vars
  BY DEF Abs!vars, ActiveHandlers, ReturnedClosers, Serving

(* A step of the handler of c alone: c entering the served states is      *)
(* Admit (which needs the channel open), c leaving them is Finish, and    *)
(* anything else is a stutter.                                             *)
LEMMA HandlerStepRefines ==
  ASSUME TypeOK, NEW c \in Conns,
         hpc' \in [Conns -> HPCs],
         \A d \in Conns \ {c} : hpc'[d] = hpc[d],
         UNCHANGED <<cpc, closing>>,
         Serving(c)' /\ ~Serving(c) => ~closing
  PROVE  [Abs!Next]_Abs!vars
  <1>1. ReturnedClosers' = ReturnedClosers
    BY DEF ReturnedClosers
  <1>2. \A d \in Conns \ {c} : d \in ActiveHandlers' <=> d \in ActiveHandlers
    BY DEF ActiveHandlers, Serving
  <1>3. c \in ActiveHandlers <=> Serving(c)
    BY DEF ActiveHandlers
  <1>4. c \in ActiveHandlers' <=> Serving(c)'
    BY DEF ActiveHandlers
  <1>5. ActiveHandlers \subseteq Conns /\ ActiveHandlers' \subseteq Conns
    BY DEF ActiveHandlers
  <1>6. CASE Serving(c)' <=> Serving(c)
    <2>1. ActiveHandlers' = ActiveHandlers
      BY <1>2, <1>3, <1>4, <1>5, <1>6
    <2>2. QED
      BY <1>1, <2>1 DEF Abs!vars
  <1>7. CASE Serving(c)' /\ ~Serving(c)
    <2>1. ActiveHandlers' = ActiveHandlers \cup {c}
      BY <1>2, <1>3, <1>4, <1>5, <1>7
    <2>2. Abs!Admit(c)
      BY <1>1, <1>3, <1>7, <2>1 DEF Abs!Admit
    <2>3. QED
      BY <2>2 DEF Abs!Next
  <1>8. CASE ~Serving(c)' /\ Serving(c)
    <2>1. ActiveHandlers' = ActiveHandlers \ {c}
      BY <1>2, <1>3, <1>4, <1>5, <1>8
    <2>2. Abs!Finish(c)
      BY <1>1, <1>3, <1>8, <2>1 DEF Abs!Finish
    <2>3. QED
      BY <2>2 DEF Abs!Next
  <1>9. QED
    BY <1>6, <1>7, <1>8, Zenon

LEMMA NextRefines == QuiescenceInv /\ [Next]_vars => [Abs!Next]_Abs!vars
  <1> SUFFICES ASSUME QuiescenceInv, [Next]_vars PROVE [Abs!Next]_Abs!vars
    OBVIOUS
  <1>0. TypeOK /\ TypeOK'
    BY NextTypeOK DEF QuiescenceInv
  <1>1. CASE \/ \E c \in Conns : Dial(c) \/ ClientClose(c) \/ \E m \in Msgs : Send(c, m)
             \/ CloseListener \/ ServeCheck \/ AcceptTemporary \/ AcceptFail
             \/ UNCHANGED vars
    <2>1. UNCHANGED <<hpc, cpc, closing>>
      <3>1. CASE \E c \in Conns : Dial(c) \/ ClientClose(c) \/ \E m \in Msgs : Send(c, m)
        BY <3>1 DEF Dial, ClientClose, Send
      <3>2. CASE CloseListener \/ ServeCheck \/ AcceptTemporary \/ AcceptFail
        BY <3>2 DEF CloseListener, ServeCheck, AcceptTemporary, AcceptFail
      <3>3. CASE UNCHANGED vars
        BY <3>3 DEF vars
      <3>4. QED
        BY <1>1, <3>1, <3>2, <3>3
    <2>2. QED
      BY <2>1, AbsFrame
  <1>6. ASSUME NEW k \in Closers, CloseLock(k) PROVE [Abs!Next]_Abs!vars
    <2>1. ReturnedClosers' = ReturnedClosers
      BY <1>0, <1>6 DEF CloseLock, ReturnedClosers, TypeOK, LifecycleTypeOK
    <2>2. QED
      BY <1>6, <2>1 DEF CloseLock, Abs!vars, ActiveHandlers, Serving
  <1>2. ASSUME NEW k \in Closers, CloseSignal(k) PROVE [Abs!Next]_Abs!vars
    <2>1. ActiveHandlers' = ActiveHandlers
      BY <1>2 DEF CloseSignal, ActiveHandlers, Serving
    <2>2. ReturnedClosers' = ReturnedClosers
      BY <1>0, <1>2 DEF CloseSignal, ReturnedClosers, TypeOK, LifecycleTypeOK
    <2>3. CASE closing
      BY <1>2, <2>1, <2>2, <2>3 DEF CloseSignal, Abs!vars
    <2>4. CASE ~closing
      BY <1>2, <2>1, <2>2, <2>4 DEF CloseSignal, Abs!Next, Abs!Signal
    <2>5. QED
      BY <2>3, <2>4
  <1>3. ASSUME NEW k \in Closers, CloseWait(k) PROVE [Abs!Next]_Abs!vars
    <2>1. ActiveHandlers = {}
      BY <1>3 DEF CloseWait, QuiescenceInv, ActiveHandlers, Serving, Registered
    <2>2. closing
      BY <1>3 DEF CloseWait, QuiescenceInv
    <2>3. k \notin ReturnedClosers /\ ReturnedClosers' = ReturnedClosers \cup {k}
      BY <1>0, <1>3 DEF CloseWait, ReturnedClosers, TypeOK, LifecycleTypeOK
    <2>4. ActiveHandlers' = ActiveHandlers
      BY <1>3 DEF CloseWait, ActiveHandlers, Serving
    <2>5. Abs!Return(k)
      BY <1>3, <2>1, <2>2, <2>3, <2>4 DEF CloseWait, Abs!Return
    <2>6. QED
      BY <2>5 DEF Abs!Next
  <1>4. ASSUME NEW c \in Conns,
               \/ Accept(c) \/ HandlerAdd(c) \/ HandlerCheck(c)
               \/ ReadRequest(c) \/ ReadBad(c) \/ ReadEOF(c) \/ ReadTimeout(c)
               \/ Serve(c) \/ TunnelReturn(c) \/ HandleResult(c) \/ HandlerExit(c)
        PROVE [Abs!Next]_Abs!vars
    <2>1. /\ \A d \in Conns \ {c} : hpc'[d] = hpc[d]
          /\ UNCHANGED <<cpc, closing>>
          /\ Serving(c)' /\ ~Serving(c) => ~closing
      <3>1. CASE Accept(c) \/ HandlerAdd(c) \/ HandlerExit(c)
        BY <1>0, <3>1 DEF Accept, HandlerAdd, HandlerExit, Serving, TypeOK, LifecycleTypeOK
      <3>2. CASE HandlerCheck(c)
        BY <1>0, <3>2 DEF HandlerCheck, Serving, TypeOK, LifecycleTypeOK
      <3>3. CASE ReadRequest(c)
        BY <1>0, <3>3 DEF ReadRequest, Serving, TypeOK, LifecycleTypeOK
      <3>4. CASE ReadBad(c) \/ ReadEOF(c) \/ ReadTimeout(c)
        BY <1>0, <3>4 DEF ReadBad, ReadEOF, ReadTimeout, ReadError, Serving, TypeOK, LifecycleTypeOK
      <3>5. CASE HandleResult(c) \/ TunnelReturn(c)
        BY <1>0, <3>5 DEF TunnelReturn, Returns, HandleResult, Serving, TypeOK, LifecycleTypeOK
      <3>7. CASE Serve(c)
        <4>0. hpc \in [Conns -> HPCs]
          BY <1>0 DEF TypeOK, LifecycleTypeOK
        <4>1. hpc'[c] \in {"result", "tunnel"} /\ \A d \in Conns \ {c} : hpc'[d] = hpc[d]
          BY <4>0, <3>7, ServeSteps
        <4>2. QED
          BY <3>7, <4>1 DEF Serve, Serving
      <3>6. QED
        BY <1>4, <3>1, <3>2, <3>3, <3>4, <3>5, <3>7
    <2>2. QED
      BY <1>0, <2>1, HandlerStepRefines DEF TypeOK, LifecycleTypeOK
  <1>5. QED
    BY <1>1, <1>2, <1>3, <1>4, <1>6 DEF Next, Environment, ServeLoop, Handler, Closer

(* Proxy.Close and handleLoop implement the shutdown promise of Shutdown.  *)
(* tla for any number of connections and Close() callers: a handler only   *)
(* starts serving before close(p.closing), and a Close() call returns only *)
(* when no handler is serving (ShutdownRefinement, checked by the          *)
(* two-connection run).                                                    *)
THEOREM Refinement == Spec => ShutdownRefinement
  <1>1. []QuiescenceInv /\ [][Next]_vars => [][Abs!Next]_Abs!vars
    BY NextRefines, PTL
  <1>2. QED
    BY <1>1, InitRefines, InitQuiescence, NextQuiescence, PTL
    DEF Spec, ShutdownRefinement, Abs!Spec


-----------------------------------------------------------------------------
(* The consecutive error limit of handleLoop. ErrorCountInv (module Proxy) *)
(* is the inductive form of ErrorLimitExact: errs is the length of the run *)
(* of errors that ends the history of handle()'s results.                  *)

(* Appending a result to a history whose trailing run of errors has       *)
(* length n: an error lengthens the run, anything else ends it.            *)
LEMMA TrailingAppend ==
  ASSUME NEW s \in Seq(Results), NEW n \in Nat, TrailingRun(s, n),
         NEW r \in Results
  PROVE  /\ r = "err" => TrailingRun(Append(s, r), n + 1)
         /\ r # "err" => TrailingRun(Append(s, r), 0)
  <1>1. Len(Append(s, r)) = Len(s) + 1
        /\ \A i \in 1..Len(s) : Append(s, r)[i] = s[i]
        /\ Append(s, r)[Len(s) + 1] = r
    BY AppendProperties
  <1>2. r = "err" => TrailingRun(Append(s, r), n + 1)
    BY <1>1 DEF TrailingRun, LastErrs
  <1>3. r # "err" => TrailingRun(Append(s, r), 0)
    BY <1>1 DEF TrailingRun, LastErrs
  <1>4. QED
    BY <1>2, <1>3

(* A trailing run shorter than the limit: the last five are not all errors. *)
LEMMA TrailingBelowLimit ==
  ASSUME NEW s \in Seq(Results), NEW n \in Nat, n < MaxConsecutiveErrors,
         TrailingRun(s, n)
  PROVE  ~LastErrs(s, MaxConsecutiveErrors)
  BY DEF TrailingRun, LastErrs, MaxConsecutiveErrors

LEMMA InitErrorCount == Init => ErrorCountInv
  <1> SUFFICES ASSUME Init, NEW c \in Conns
               PROVE  /\ cst[c] # "accepted" => hpc[c] = "none"
                      /\ hpc[c] \in Unread => hist[c] = <<>>
                      /\ hpc[c] \in InLoop => errs[c] < MaxConsecutiveErrors
                      /\ hpc[c] \in InLoop => TrailingRun(hist[c], errs[c])
                      /\ ExitOnError(c) => LastErrs(hist[c], MaxConsecutiveErrors)
    BY DEF ErrorCountInv
  <1>1. hpc[c] = "none" /\ errs[c] = 0 /\ hist[c] = <<>>
    BY DEF Init
  <1>2. QED
    BY <1>1 DEF MaxConsecutiveErrors, TrailingRun, LastErrs, ExitOnError

(* A step that moves no handler and leaves the counters, the histories    *)
(* and the hijacked flags alone keeps the invariant, if every connection  *)
(* that is not accepted still has no handler.                              *)
LEMMA ErrorCountStill ==
  ASSUME ErrorCountInv, UNCHANGED <<errs, hpc, hist, hijacked>>,
         \A c \in Conns : cst'[c] # "accepted" => hpc[c] = "none"
  PROVE  ErrorCountInv'
  BY DEF ErrorCountInv, ExitOnError

(* A handler step on c that keeps c inside the loop, moves it no earlier   *)
(* than it was, and leaves cst, errs and the histories alone.              *)
LEMMA HandlerMoveKeepsCount ==
  ASSUME ErrorCountInv, NEW c \in Conns,
         hpc[c] \in InLoop \ {"none"}, hpc'[c] \in InLoop,
         hpc'[c] \in Unread => hpc[c] \in Unread,
         \A d \in Conns \ {c} : hpc'[d] = hpc[d] /\ hijacked'[d] = hijacked[d],
         UNCHANGED <<errs, cst, hist>>
  PROVE  ErrorCountInv'
  <1>0. cst[c] = "accepted"
    BY DEF ErrorCountInv
  <1>1. ~ExitOnError(c)'
    BY DEF ExitOnError, InLoop
  <1>2. QED
    BY <1>0, <1>1 DEF ErrorCountInv, ExitOnError

(* HandleResult on c: the invariant holds for c after the step, and every  *)
(* other connection is untouched.                                          *)
LEMMA HandleResultOthers ==
  ASSUME ErrorCountInv, NEW c \in Conns,
         cst[c] = "accepted", hpc'[c] \notin Unread,
         hpc'[c] \in InLoop => /\ errs'[c] < MaxConsecutiveErrors
                              /\ TrailingRun(hist'[c], errs'[c]),
         ExitOnError(c)' => LastErrs(hist'[c], MaxConsecutiveErrors),
         \A d \in Conns \ {c} : /\ hpc'[d] = hpc[d] /\ errs'[d] = errs[d]
                               /\ hist'[d] = hist[d],
         UNCHANGED <<cst, hijacked>>
  PROVE  ErrorCountInv'
  <1> SUFFICES ASSUME NEW d \in Conns
               PROVE  /\ cst'[d] # "accepted" => hpc'[d] = "none"
                      /\ hpc'[d] \in Unread => hist'[d] = <<>>
                      /\ hpc'[d] \in InLoop => errs'[d] < MaxConsecutiveErrors
                      /\ hpc'[d] \in InLoop => TrailingRun(hist'[d], errs'[d])
                      /\ ExitOnError(d)' => LastErrs(hist'[d], MaxConsecutiveErrors)
    BY DEF ErrorCountInv
  <1>1. CASE d = c
    BY <1>1
  <1>2. CASE d # c
    BY <1>2 DEF ErrorCountInv, ExitOnError
  <1>3. QED
    BY <1>1, <1>2

LEMMA NextErrorCount == TypeOK /\ ErrorCountInv /\ [Next]_vars => ErrorCountInv'
  <1> SUFFICES ASSUME TypeOK, ErrorCountInv, [Next]_vars PROVE ErrorCountInv'
    OBVIOUS
  <1>1. CASE Environment \/ CloseListener \/ ServeCheck \/ AcceptTemporary \/ AcceptFail
              \/ \E k \in Closers : Closer(k)
    <2>1. UNCHANGED <<errs, hpc, hist, hijacked>>
      BY <1>1 DEF Environment, Dial, Send, ClientClose, CloseListener, CloseSignal,
         ServeCheck, AcceptTemporary, AcceptFail, Closer, CloseLock, CloseWait
    <2>2. CASE UNCHANGED cst
      BY <2>1, <2>2, ErrorCountStill DEF ErrorCountInv
    <2>3. CASE ~UNCHANGED cst
      <3>1. PICK c \in Conns : Dial(c)
        BY <1>1, <2>3 DEF Environment, Send, ClientClose, CloseListener, CloseSignal,
           ServeCheck, AcceptTemporary, AcceptFail, Closer, CloseLock, CloseWait
      <3>2. \A d \in Conns : cst'[d] # "accepted" => hpc[d] = "none"
        BY <3>1 DEF Dial, ErrorCountInv, TypeOK, LifecycleTypeOK
      <3>3. QED
        BY <2>1, <3>2, ErrorCountStill
    <2>4. QED
      BY <2>2, <2>3
  <1>2. ASSUME NEW c \in Conns, Accept(c) PROVE ErrorCountInv'
    <2>0. hpc[c] = "none" /\ hist[c] = <<>>
      BY <1>2 DEF Accept, ErrorCountInv, Unread
    <2>1. hpc[c] = "none" /\ hist[c] = <<>> /\ errs[c] = 0
      <3>0. errs[c] \in Nat
        BY DEF TypeOK, LifecycleTypeOK
      <3>1. TrailingRun(hist[c], errs[c]) /\ errs[c] \in Nat
        BY <2>0, <3>0 DEF ErrorCountInv, InLoop, HPCs
      <3>2. QED
        BY <2>0, <3>1 DEF TrailingRun, LastErrs
    <2>2. \A d \in Conns \ {c} : hpc'[d] = hpc[d] /\ cst'[d] = cst[d]
      BY <1>2 DEF Accept, TypeOK, LifecycleTypeOK
    <2>3. UNCHANGED <<errs, hist, hijacked>> /\ hpc'[c] = "add" /\ cst'[c] = "accepted"
      BY <1>2 DEF Accept, TypeOK, LifecycleTypeOK
    <2>4. QED
      <3> SUFFICES ASSUME NEW d \in Conns
                   PROVE  /\ cst'[d] # "accepted" => hpc'[d] = "none"
                          /\ hpc'[d] \in Unread => hist'[d] = <<>>
                          /\ hpc'[d] \in InLoop => errs'[d] < MaxConsecutiveErrors
                          /\ hpc'[d] \in InLoop => TrailingRun(hist'[d], errs'[d])
                          /\ ExitOnError(d)' => LastErrs(hist'[d], MaxConsecutiveErrors)
        BY DEF ErrorCountInv
      <3>1. CASE d = c
        <4>1. TrailingRun(<<>>, 0)
          BY DEF TrailingRun, LastErrs
        <4>2. QED
          BY <2>1, <2>3, <3>1, <4>1 DEF ExitOnError, MaxConsecutiveErrors
      <3>2. CASE d # c
        BY <2>2, <2>3, <3>2 DEF ErrorCountInv, ExitOnError
      <3>3. QED
        BY <3>1, <3>2
  <1>3. ASSUME NEW c \in Conns, HandlerAdd(c) PROVE ErrorCountInv'
    BY <1>3, HandlerMoveKeepsCount DEF HandlerAdd, InLoop, HPCs, Unread
  <1>4. ASSUME NEW c \in Conns, HandlerCheck(c) PROVE ErrorCountInv'
    <2>1. CASE ~closing
      BY <1>4, <2>1, HandlerMoveKeepsCount DEF HandlerCheck, InLoop, HPCs, Unread
    <2>2. CASE closing
      <3>1. hist[c] = <<>> /\ cst[c] = "accepted"
        BY <1>4 DEF HandlerCheck, ErrorCountInv, Unread
      <3>2. hpc'[c] = "exit" /\ \A d \in Conns \ {c} : hpc'[d] = hpc[d]
        BY <1>4, <2>2 DEF HandlerCheck, TypeOK, LifecycleTypeOK
      <3>3. UNCHANGED <<errs, cst, hist, hijacked>>
        BY <1>4 DEF HandlerCheck
      <3>4. QED
        BY <3>1, <3>2, <3>3 DEF ErrorCountInv, ExitOnError, InLoop, Unread
    <2>3. QED
      BY <2>1, <2>2
  <1>5. ASSUME NEW c \in Conns, ReadRequest(c) PROVE ErrorCountInv'
    <2>1. \A d \in Conns \ {c} : hpc'[d] = hpc[d]
      <3>1. CASE closing
        BY <1>5, <3>1 DEF ReadRequest, TypeOK, LifecycleTypeOK
      <3>2. CASE ~closing
        BY <1>5, <3>2 DEF ReadRequest, TypeOK, LifecycleTypeOK
      <3>3. QED
        BY <3>1, <3>2
    <2>2. hpc'[c] \in {"serve", "result"}
      BY <1>5 DEF ReadRequest, TypeOK, LifecycleTypeOK
    <2>3. QED
      BY <1>5, <2>1, <2>2, HandlerMoveKeepsCount DEF ReadRequest, InLoop, HPCs, Unread
  <1>6. ASSUME NEW c \in Conns, ReadBad(c) \/ ReadEOF(c) \/ ReadTimeout(c)
        PROVE  ErrorCountInv'
    <2>1. PICK r \in Results : ReadError(c, r)
      BY <1>6 DEF ReadBad, ReadEOF, ReadTimeout, Results
    <2>2. QED
      BY <2>1, <1>6, HandlerMoveKeepsCount DEF ReadError, ReadBad, InLoop, HPCs, Unread
  <1>7. ASSUME NEW c \in Conns, Serve(c) PROVE ErrorCountInv'
    <2>1. hpc'[c] \in {"result", "tunnel"} /\ \A d \in Conns \ {c} : hpc'[d] = hpc[d]
      BY <1>7, ServeSteps DEF TypeOK, LifecycleTypeOK
    <2>2. \A d \in Conns \ {c} : hijacked'[d] = hijacked[d]
      <3>1. hijacked \in [Conns -> BOOLEAN]
        BY DEF TypeOK, LifecycleTypeOK
      <3>2. QED
        BY <1>7, <3>1, ServeSteps
    <2>3. QED
      BY <1>7, <2>1, <2>2, HandlerMoveKeepsCount DEF Serve, InLoop, HPCs, Unread
  <1>8. ASSUME NEW c \in Conns, TunnelReturn(c) PROVE ErrorCountInv'
    BY <1>8, HandlerMoveKeepsCount DEF TunnelReturn, Returns, InLoop, HPCs, Unread
  <1>9. ASSUME NEW c \in Conns, HandlerExit(c) PROVE ErrorCountInv'
    <2>1. \A d \in Conns \ {c} : hpc'[d] = hpc[d]
      BY <1>9 DEF HandlerExit, TypeOK, LifecycleTypeOK
    <2>2. ExitOnError(c)' => ExitOnError(c)
      BY <1>9 DEF HandlerExit, ExitOnError
    <2>3. QED
      BY <1>9, <2>1, <2>2 DEF HandlerExit, ErrorCountInv, ExitOnError, InLoop, Unread
  <1>10. ASSUME NEW c \in Conns, HandleResult(c) PROVE ErrorCountInv'
    <2>0. /\ hist[c] \in Seq(Results) /\ errs[c] \in Nat /\ result[c] \in Results
          /\ hijacked[c] \in BOOLEAN
      BY DEF TypeOK, LifecycleTypeOK
    <2>a. hpc[c] = "result"
      BY <1>10 DEF HandleResult
    <2>b. TrailingRun(hist[c], errs[c]) /\ errs[c] < MaxConsecutiveErrors
          /\ cst[c] = "accepted"
      BY <2>a DEF ErrorCountInv, InLoop, HPCs
    <2>1. hist'[c] = Append(hist[c], result[c])
      BY <1>10 DEF HandleResult, TypeOK, LifecycleTypeOK
    <2>2. \A d \in Conns \ {c} : /\ hpc'[d] = hpc[d] /\ errs'[d] = errs[d]
                                 /\ hist'[d] = hist[d]
      BY <1>10 DEF HandleResult, TypeOK, LifecycleTypeOK
    <2>3. UNCHANGED <<cst, hijacked>>
      BY <1>10 DEF HandleResult
    <2>c. hpc'[c] \notin Unread
      BY <1>10 DEF HandleResult, TypeOK, LifecycleTypeOK, Unread
    <2>4. CASE result[c] = "close"
      <3>1. hpc'[c] = "exit"
        BY <1>10, <2>4 DEF HandleResult, TypeOK, LifecycleTypeOK
      <3>2. hist'[c][Len(hist'[c])] = "close"
        BY <2>0, <2>1, <2>4, AppendProperties
      <3>3. ~ExitOnError(c)'
        BY <3>2 DEF ExitOnError
      <3>4. QED
        BY <2>b, <2>c, <2>2, <2>3, <3>1, <3>3, HandleResultOthers DEF InLoop
    <2>5. CASE result[c] = "err"
      <3>1. TrailingRun(hist'[c], errs[c] + 1)
        <4>1. TrailingRun(Append(hist[c], result[c]), errs[c] + 1)
          BY <2>0, <2>b, <2>5, TrailingAppend
        <4>2. QED
          BY <4>1, <2>1
      <3>2. /\ errs'[c] = errs[c] + 1
            /\ hpc'[c] = IF errs[c] + 1 >= MaxConsecutiveErrors \/ hijacked[c]
                         THEN "exit" ELSE "read"
        BY <1>10, <2>5 DEF HandleResult, TypeOK, LifecycleTypeOK
      <3>3. hpc'[c] \in InLoop => /\ errs'[c] < MaxConsecutiveErrors
                                 /\ TrailingRun(hist'[c], errs'[c])
        <4>1. hpc'[c] \in InLoop => errs[c] + 1 < MaxConsecutiveErrors
          BY <2>0, <3>2 DEF InLoop, HPCs, MaxConsecutiveErrors
        <4>2. QED
          BY <4>1, <3>1, <3>2
      <3>4. ExitOnError(c)' => LastErrs(hist'[c], MaxConsecutiveErrors)
        <4>1. ExitOnError(c)' => errs[c] + 1 >= MaxConsecutiveErrors
          BY <2>0, <2>3, <3>2 DEF ExitOnError
        <4>2. ExitOnError(c)' => errs[c] + 1 = MaxConsecutiveErrors
          BY <4>1, <2>0, <2>b DEF MaxConsecutiveErrors
        <4>3. QED
          BY <4>2, <3>1 DEF TrailingRun
      <3>5. QED
        BY <2>b, <2>c, <2>2, <2>3, <3>3, <3>4, HandleResultOthers
    <2>6. CASE result[c] = "nil"
      <3>1. TrailingRun(hist'[c], 0)
        <4>1. TrailingRun(Append(hist[c], result[c]), 0)
          BY <2>0, <2>b, <2>6, TrailingAppend
        <4>2. QED
          BY <4>1, <2>1
      <3>2. errs'[c] = 0
        BY <1>10, <2>6 DEF HandleResult, TypeOK, LifecycleTypeOK
      <3>3. hist'[c][Len(hist'[c])] = "nil"
        BY <2>0, <2>1, <2>6, AppendProperties
      <3>4. ~ExitOnError(c)'
        BY <3>3 DEF ExitOnError
      <3>5. QED
        BY <2>b, <2>c, <2>2, <2>3, <3>1, <3>2, <3>4, HandleResultOthers
        DEF MaxConsecutiveErrors
    <2>7. QED
      BY <2>0, <2>4, <2>5, <2>6 DEF Results
  <1>11. CASE UNCHANGED vars
    BY <1>11, ErrorCountStill DEF vars, ErrorCountInv
  <1>12. QED
    BY <1>1, <1>2, <1>3, <1>4, <1>5, <1>6, <1>7, <1>8, <1>9, <1>10, <1>11
    DEF Next, ServeLoop, Handler

(* handleLoop's consecutive error limit, for every number of connections  *)
(* and messages: a handler whose last five handle() calls failed with      *)
(* errors that are not closeable never reads another request, and it      *)
(* leaves the loop on such an error only when the last five calls failed.  *)
THEOREM ErrorLimitHolds == Spec => []ErrorLimitExact
  <1>1. TypeOK /\ ErrorCountInv => ErrorLimitExact
    <2> SUFFICES ASSUME TypeOK, ErrorCountInv, NEW c \in Conns
                 PROVE  /\ hpc[c] = "read" => ~LastErrs(hist[c], MaxConsecutiveErrors)
                        /\ ExitOnError(c) => LastErrs(hist[c], MaxConsecutiveErrors)
      BY DEF ErrorLimitExact
    <2>1. hpc[c] = "read" => ~LastErrs(hist[c], MaxConsecutiveErrors)
      <3>1. hist[c] \in Seq(Results) /\ errs[c] \in Nat
        BY DEF TypeOK, LifecycleTypeOK
      <3>2. hpc[c] = "read" => TrailingRun(hist[c], errs[c]) /\ errs[c] < MaxConsecutiveErrors
        BY DEF ErrorCountInv, InLoop, HPCs
      <3>3. QED
        BY <3>1, <3>2, TrailingBelowLimit
    <2>2. QED
      BY <2>1 DEF ErrorCountInv
  <1>2. Init => TypeOK /\ ErrorCountInv
    BY InitTypeOK, InitErrorCount
  <1>3. TypeOK /\ ErrorCountInv /\ [Next]_vars => (TypeOK /\ ErrorCountInv)'
    BY NextTypeOK, NextErrorCount
  <1>4. QED
    BY <1>1, <1>2, <1>3, PTL DEF Spec


-----------------------------------------------------------------------------
(* conns.Add never races conns.Wait: a Close() caller inside Wait() holds  *)
(* p.connsMu, which handleLoop takes around conns.Add(1).                  *)

LEMMA InitWaitLock == Init => WaitHoldsLock
  BY ProxyAssumption DEF Init, WaitHoldsLock

(* Only the three steps of Close() move a caller or the mutex. *)
LEMMA WaitLockFrame ==
  ASSUME WaitHoldsLock, UNCHANGED <<cpc, mu>>
  PROVE  WaitHoldsLock'
  BY DEF WaitHoldsLock

LEMMA NextWaitLock == TypeOK /\ WaitHoldsLock /\ [Next]_vars => WaitHoldsLock'
  <1> SUFFICES ASSUME TypeOK, WaitHoldsLock, [Next]_vars PROVE WaitHoldsLock'
    OBVIOUS
  <1>1. ASSUME NEW k \in Closers, CloseSignal(k) PROVE WaitHoldsLock'
    <2>1. mu # k /\ cpc'[k] \in {"lock", "panicked"} /\ UNCHANGED mu
      BY <1>1 DEF CloseSignal, WaitHoldsLock, TypeOK, LifecycleTypeOK
    <2>2. \A j \in Closers \ {k} : cpc'[j] = cpc[j]
      BY <1>1 DEF CloseSignal, TypeOK, LifecycleTypeOK
    <2>3. QED
      BY <2>1, <2>2 DEF WaitHoldsLock
  <1>2. ASSUME NEW k \in Closers, CloseLock(k) PROVE WaitHoldsLock'
    <2>1. mu = NoOne /\ mu' = k /\ cpc'[k] = "wait"
      BY <1>2 DEF CloseLock, TypeOK, LifecycleTypeOK
    <2>2. \A j \in Closers \ {k} : cpc'[j] = cpc[j] /\ cpc[j] # "wait"
      BY <1>2, <2>1, ProxyAssumption DEF CloseLock, WaitHoldsLock, TypeOK, LifecycleTypeOK
    <2>3. QED
      BY <2>1, <2>2 DEF WaitHoldsLock
  <1>3. ASSUME NEW k \in Closers, CloseWait(k) PROVE WaitHoldsLock'
    <2>1. mu = k /\ mu' = NoOne /\ cpc'[k] = "returned"
      BY <1>3 DEF CloseWait, WaitHoldsLock, TypeOK, LifecycleTypeOK
    <2>2. \A j \in Closers \ {k} : cpc'[j] = cpc[j] /\ cpc[j] # "wait"
      BY <1>3, <2>1 DEF CloseWait, WaitHoldsLock, TypeOK, LifecycleTypeOK
    <2>3. QED
      BY <2>1, <2>2, ProxyAssumption DEF WaitHoldsLock
  <1>4. CASE UNCHANGED <<cpc, mu>>
    BY <1>4, WaitLockFrame
  <1>5. QED
    <2>1. CASE \/ \E c \in Conns : Dial(c) \/ ClientClose(c) \/ \E m \in Msgs : Send(c, m)
               \/ CloseListener \/ ServeLoop
      BY <2>1, <1>4 DEF Dial, ClientClose, Send, CloseListener, ServeLoop,
                        ServeCheck, AcceptTemporary, AcceptFail, Accept
    <2>2. CASE \E c \in Conns : Handler(c)
      BY <2>2, <1>4 DEF Handler, HandlerAdd, HandlerCheck, ReadRequest, ReadBad,
                        ReadEOF, ReadTimeout, ReadError, Serve, TunnelReturn, HandleResult,
                        HandlerExit
    <2>3. CASE UNCHANGED vars
      BY <2>3, <1>4 DEF vars, closeVars
    <2>4. QED
      BY <1>1, <1>2, <1>3, <2>1, <2>2, <2>3 DEF Next, Environment, Closer

(* A step taken while some Close() caller waits adds no handler to conns. *)
LEMMA NoAddStep ==
  ASSUME TypeOK, WaitHoldsLock, [Next]_vars, \E k \in Closers : cpc[k] = "wait"
  PROVE  conns' \subseteq conns
  <1>1. mu # NoOne
    BY ProxyAssumption DEF WaitHoldsLock
  <1>2. ASSUME NEW c \in Conns, HandlerAdd(c) PROVE FALSE
    BY <1>1, <1>2 DEF HandlerAdd
  <1>3. ASSUME NEW c \in Conns, HandlerExit(c) PROVE conns' \subseteq conns
    BY <1>3 DEF HandlerExit
  <1>4. CASE UNCHANGED conns
    BY <1>4
  <1>5. QED
    <2>1. CASE \E c \in Conns : Handler(c)
      BY <2>1, <1>2, <1>3, <1>4 DEF Handler, HandlerCheck, ReadRequest, ReadBad,
         ReadEOF, ReadTimeout, ReadError, Serve, TunnelReturn, HandleResult
    <2>2. CASE ~\E c \in Conns : Handler(c)
      BY <2>2, <1>4 DEF Next, Environment, ServeLoop, Closer, vars, Dial,
         ClientClose, Send, CloseListener, CloseSignal, ServeCheck,
         AcceptTemporary, AcceptFail, Accept, CloseLock, CloseWait
    <2>3. QED
      BY <2>1, <2>2

(* sync.WaitGroup's Add-before-Wait rule, for any number of connections   *)
(* and Close() callers: while a Close() caller is inside conns.Wait(), no *)
(* handler is added to the wait group.                                    *)
THEOREM NoAddDuringWaitHolds == Spec => NoAddDuringWait
  <1>1. Init => TypeOK /\ WaitHoldsLock
    BY InitTypeOK, InitWaitLock
  <1>2. TypeOK /\ WaitHoldsLock /\ [Next]_vars => (TypeOK /\ WaitHoldsLock)'
    BY NextTypeOK, NextWaitLock
  <1>3. TypeOK /\ WaitHoldsLock /\ [Next]_vars =>
          [(\E k \in Closers : cpc[k] = "wait") => conns' \subseteq conns]_vars
    BY NoAddStep
  <1>4. QED
    BY <1>1, <1>2, <1>3, PTL DEF Spec, NoAddDuringWait

=============================================================================
