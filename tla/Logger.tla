------------------------------- MODULE Logger -------------------------------
(***************************************************************************)
(* martianlog.Logger (src/martianlog/logger.go): a modifier that builds one *)
(* log entry per ModifyRequest / ModifyResponse call in a private buffer   *)
(* and hands it to its log function from a deferred call, after a deferred *)
(* logEnd. What an entry contains depends on l.mode and l.decode, read at  *)
(* each of the statements that test them, with no lock; the setters may    *)
(* run from another goroutine.                                             *)
(*                                                                         *)
(* An entry is the sequence of its sections: a URL banner of the request   *)
(* or the response, a message view (headers, with or without the body,    *)
(* decoded or not), the status line, the closing banner. Wording and the   *)
(* round-trip duration in the banner are left out.                         *)
(***************************************************************************)
EXTENDS Naturals, Sequences

CONSTANTS
    Modes,          \* the LoggerMode values SetMode is called with
    MaxCalls,       \* bound on ModifyRequest / ModifyResponse calls
    ConcurrentSet   \* the setters may run while a call is in progress

ASSUME LoggerAssumption ==
    /\ Modes \subseteq {"url", "header", "body", "error", "other"}
    /\ MaxCalls \in Nat
    /\ ConcurrentSet \in BOOLEAN

(* A call: which modifier method, ctx.SkippingLogging(), a status of 400   *)
(* or more, and whether the message view fails on its snapshot.           *)
Calls == [kind : {"req", "res"}, skip : BOOLEAN, failed : BOOLEAN, snapErr : BOOLEAN]

Url(of) == [s |-> "url", of |-> of]
Msg(of, body, dec) == [s |-> "msg", of |-> of, body |-> body, dec |-> dec]
Status == [s |-> "status"]
End == [s |-> "end"]

VARIABLES
    mode, decode,   \* l.mode, l.decode
    pc,             \* the call's next statement, "idle" between calls
    call,           \* the call in progress
    b,              \* its bytes.Buffer
    skipBody,       \* mv.SkipBody(...) of the call's message view
    log,            \* the entries given to l.log, with their calls
    ncalls          \* calls made

vars == <<mode, decode, pc, call, b, skipBody, log, ncalls>>

(* NewLogger (mode header, no decoding), or loggerFromJSON: NewLogger,     *)
(* SetHeadersOnly(msg.HeadersOnly), SetDecode(msg.Decode).                 *)
Init ==
    /\ mode \in {"header", "body"} /\ decode \in BOOLEAN
    /\ pc = "idle" /\ call = [kind |-> "req", skip |-> FALSE, failed |-> FALSE, snapErr |-> FALSE]
    /\ b = <<>> /\ skipBody = TRUE /\ log = <<>> /\ ncalls = 0

-----------------------------------------------------------------------------
(* The setters: plain field writes. *)
Setter == ConcurrentSet \/ pc = "idle"

SetMode(m) ==
    /\ Setter /\ mode' = m
    /\ UNCHANGED <<decode, pc, call, b, skipBody, log, ncalls>>

SetHeadersOnly(h) ==
    /\ Setter /\ mode' = IF h THEN "header" ELSE "body"
    /\ UNCHANGED <<decode, pc, call, b, skipBody, log, ncalls>>

SetDecode(d) ==
    /\ Setter /\ decode' = d
    /\ UNCHANGED <<mode, pc, call, b, skipBody, log, ncalls>>

-----------------------------------------------------------------------------
(* Mutant: the deferred calls in the other order, l.log before logEnd. *)
EmitBeforeEnd(buf) ==
    /\ log' = Append(log, [call |-> call, out |-> buf])
    /\ pc' = "idle"

(* The deferred logEnd(b), then the deferred l.log(b.String()). *)
Emit(buf) ==
    /\ log' = Append(log, [call |-> call, out |-> buf \o <<End>>])
    /\ pc' = "idle"

(* ModifyRequest / ModifyResponse: the skip-logging and error-mode checks. *)
Start(x) ==
    /\ pc = "idle" /\ ncalls < MaxCalls
    /\ call' = x /\ ncalls' = ncalls + 1
    /\ IF \/ x.skip
          \/ x.kind = "req" /\ mode = "error"
          \/ x.kind = "res" /\ mode = "error" /\ ~x.failed
         THEN UNCHANGED <<pc, b, log>>
       ELSE IF x.kind = "req"
         THEN b' = <<Url("req")>> /\ pc' = "reqUrlMode" /\ UNCHANGED log
         ELSE b' = <<>> /\ pc' = "resSkipBody" /\ UNCHANGED log
    /\ UNCHANGED <<mode, decode, skipBody>>

(* ModifyRequest: if l.mode == UrlLogMode { return nil }. *)
ReqUrlMode ==
    /\ pc = "reqUrlMode"
    /\ IF mode = "url" THEN Emit(b) ELSE pc' = "reqSkipBody" /\ UNCHANGED log
    /\ UNCHANGED <<mode, decode, call, b, skipBody, ncalls>>

(* mv.SkipBody(l.mode != BodyLogMode) *)
SetSkipBody(from, to) ==
    /\ pc = from
    /\ skipBody' = (mode # "body")
    /\ pc' = to
    /\ UNCHANGED <<mode, decode, call, b, log, ncalls>>

(* logRequest / logResponse: snapshot, reader with Decode() if l.decode,   *)
(* io.Copy into b; a snapshot error is returned.                           *)
LogMessage(of) ==
    IF call.snapErr THEN <<>> ELSE <<Msg(of, ~skipBody, decode)>>

ReqMessage ==
    /\ pc = "reqMessage"
    /\ Emit(b \o LogMessage("req"))
    /\ UNCHANGED <<mode, decode, call, b, skipBody, ncalls>>

(* ModifyResponse: if l.mode == ErrOnlyLogMode && res.StatusCode >= 400,   *)
(* log the request first; a snapshot error returns.                        *)
ResErrRequest ==
    /\ pc = "resErrCheck"
    /\ IF mode = "error" /\ call.failed
         THEN IF call.snapErr
                THEN Emit(<<Url("req")>>) /\ UNCHANGED b
                ELSE /\ b' = <<Url("req")>> \o LogMessage("req") \o <<End>>
                     /\ pc' = "resUrl" /\ UNCHANGED log
         ELSE pc' = "resUrl" /\ UNCHANGED <<b, log>>
    /\ UNCHANGED <<mode, decode, call, skipBody, ncalls>>

(* logUrl of the response; if l.mode == UrlLogMode, the status line. *)
ResUrl ==
    /\ pc = "resUrl"
    /\ IF mode = "url"
         THEN Emit(b \o <<Url("res"), Status>>) /\ UNCHANGED b
         ELSE b' = b \o <<Url("res")>> /\ pc' = "resMessage" /\ UNCHANGED log
    /\ UNCHANGED <<mode, decode, call, skipBody, ncalls>>

ResMessage ==
    /\ pc = "resMessage"
    /\ Emit(b \o LogMessage("res"))
    /\ UNCHANGED <<mode, decode, call, b, skipBody, ncalls>>

Next ==
    \/ \E m \in Modes : SetMode(m)
    \/ \E h \in BOOLEAN : SetHeadersOnly(h) \/ SetDecode(h)
    \/ \E x \in Calls : Start(x)
    \/ ReqUrlMode \/ SetSkipBody("reqSkipBody", "reqMessage") \/ ReqMessage
    \/ SetSkipBody("resSkipBody", "resErrCheck") \/ ResErrRequest \/ ResUrl \/ ResMessage

Spec == Init /\ [][Next]_vars

-----------------------------------------------------------------------------
TypeOK ==
    /\ mode \in Modes \cup {"header", "body"} /\ decode \in BOOLEAN
    /\ call \in Calls /\ skipBody \in BOOLEAN
    /\ ncalls \in 0..MaxCalls

(* The message view the doc comments describe under mode m and decoding  *)
(* d: none when the snapshot fails, the body only in the body mode.        *)
View(x, of, m, d) == IF x.snapErr THEN <<>> ELSE <<Msg(of, m = "body", d)>>

(* What ModifyResponse logs of the request first in the error mode. *)
ErrPrefix(x, m, d) ==
    IF m = "error" THEN <<Url("req")>> \o View(x, "req", m, d) \o <<End>> ELSE <<>>

(* The entry the doc comments of ModifyRequest and ModifyResponse describe *)
(* for a call under mode m and decoding d; <<>> when nothing is logged.    *)
Entry(x, m, d) ==
    IF x.skip \/ (m = "error" /\ (x.kind = "req" \/ ~x.failed)) THEN <<>>
    ELSE IF x.kind = "req"
      THEN <<Url("req")>> \o (IF m = "url" THEN <<>> ELSE View(x, "req", m, d)) \o <<End>>
    ELSE IF m = "error" /\ x.snapErr THEN <<Url("req"), End>>
    ELSE ErrPrefix(x, m, d) \o <<Url("res")>>
           \o (IF m = "url" THEN <<Status>> ELSE View(x, "res", m, d)) \o <<End>>

AllModes == Modes \cup {"header", "body"}

(* logger.go 161-251: each call the logger logs gives exactly one entry,   *)
(* closed by its banner, and that entry is the one the doc comments        *)
(* describe for the call under one mode and one decoding setting (an      *)
(* unknown mode, which SetMode accepts, logs like the header mode).        *)
EntryFromOneMode ==
    \A k \in DOMAIN log :
        \E m \in AllModes, d \in BOOLEAN : log[k].out = Entry(log[k].call, m, d)

(* Inductive strengthening of EntryFromOneMode with the setters confined  *)
(* to the time between calls: what a call in progress has written to b,   *)
(* and the skipBody it set, are the start of the entry its mode and       *)
(* decoding setting describe.                                             *)
CallInv ==
    /\ pc \in {"idle", "reqUrlMode", "reqSkipBody", "reqMessage",
               "resSkipBody", "resErrCheck", "resUrl", "resMessage"}
    /\ pc \in {"reqUrlMode", "reqSkipBody", "reqMessage"} =>
          /\ call.kind = "req" /\ ~call.skip /\ mode # "error"
          /\ b = <<Url("req")>>
    /\ pc \in {"reqSkipBody", "reqMessage"} => mode # "url"
    /\ pc \in {"resSkipBody", "resErrCheck", "resUrl", "resMessage"} =>
          /\ call.kind = "res" /\ ~call.skip
          /\ mode = "error" => call.failed
    /\ pc \in {"resSkipBody", "resErrCheck"} => b = <<>>
    /\ pc \in {"reqMessage", "resErrCheck", "resUrl", "resMessage"} =>
          skipBody = (mode # "body")
    /\ pc \in {"resUrl", "resMessage"} => ~(mode = "error" /\ call.snapErr)
    /\ pc = "resUrl" => b = ErrPrefix(call, mode, decode)
    /\ pc = "resMessage" =>
          mode # "url" /\ b = ErrPrefix(call, mode, decode) \o <<Url("res")>>

=============================================================================
