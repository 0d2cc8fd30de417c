---------------------------- MODULE LoggerProofs ----------------------------
(***************************************************************************)
(* Proofs about martianlog.Logger (module Logger): when the setters run    *)
(* only between calls, every entry the logger emits is the one its doc     *)
(* comments describe for the call under one mode and decoding setting,     *)
(* for every set of modes and every number of calls.                       *)
(***************************************************************************)
EXTENDS Logger, SequenceTheorems, TLAPS

(* The sections an entry is made of. *)
Section ==
    {Url("req"), Url("res"), Status, End}
        \cup {Msg(o, bd, dc) : o \in {"req", "res"}, bd \in BOOLEAN, dc \in BOOLEAN}

(* What l.log is given: an entry and the call it is for. *)
LogEntry == [call : Calls, out : Seq(Section)]

(* The inductive invariant. *)
LoggerInv ==
    /\ TypeOK /\ log \in Seq(LogEntry) /\ b \in Seq(Section)
    /\ CallInv /\ EntryFromOneMode

-----------------------------------------------------------------------------
(* Lemmas about entries. *)

(* One or two sections make a sequence of sections. *)
LEMMA Sections ==
  /\ <<>> \in Seq(Section)
  /\ \A s1 \in Section : <<s1>> \in Seq(Section)
  /\ \A s1, s2 \in Section : <<s1, s2>> \in Seq(Section)
  <1>1. <<>> \in Seq(Section)
    BY EmptySeq
  <1>2. ASSUME NEW s1 \in Section PROVE <<s1>> \in Seq(Section)
    BY <1>1, AppendProperties, AppendIsConcat, ConcatEmptySeq
  <1>3. ASSUME NEW s1 \in Section, NEW s2 \in Section PROVE <<s1, s2>> \in Seq(Section)
    <2>1. <<s1, s2>> = Append(<<s1>>, s2)
      OBVIOUS
    <2>2. QED
      BY <1>2, <2>1, AppendProperties
  <1>4. QED
    BY <1>1, <1>2, <1>3

LEMMA ViewType ==
  ASSUME NEW x \in Calls, NEW of \in {"req", "res"}, NEW m, NEW d \in BOOLEAN
  PROVE  View(x, of, m, d) \in Seq(Section)
  <1>1. Msg(of, m = "body", d) \in Section
    <2>1. (m = "body") \in BOOLEAN
      OBVIOUS
    <2>2. \E o \in {"req", "res"}, bd \in BOOLEAN, dc \in BOOLEAN :
            Msg(of, m = "body", d) = Msg(o, bd, dc)
      BY <2>1
    <2>3. QED
      BY <2>2 DEF Section
  <1>2. QED
    BY <1>1, Sections DEF View

LEMMA ErrPrefixType ==
  ASSUME NEW x \in Calls, NEW m, NEW d \in BOOLEAN
  PROVE  ErrPrefix(x, m, d) \in Seq(Section)
  <1>1. <<Url("req")>> \in Seq(Section) /\ <<End>> \in Seq(Section)
    BY Sections DEF Section
  <1>2. View(x, "req", m, d) \in Seq(Section)
    BY ViewType
  <1>3. QED
    BY <1>1, <1>2, Sections, ConcatProperties DEF ErrPrefix

(* Sequences of sections under concatenation. *)
LEMMA SectionStreams ==
  /\ \A s, t \in Seq(Section) : s \o t \in Seq(Section)
  /\ \A s \in Seq(Section) : s \o <<>> = s /\ <<>> \o s = s
  /\ \A s1, s2 \in Section : <<s1>> \o <<s2>> = <<s1, s2>>
  <1>1. \A s, t \in Seq(Section) : s \o t \in Seq(Section)
    BY ConcatProperties
  <1>2. \A s \in Seq(Section) : s \o <<>> = s /\ <<>> \o s = s
    BY ConcatEmptySeq
  <1>3. ASSUME NEW s1 \in Section, NEW s2 \in Section
        PROVE  <<s1>> \o <<s2>> = <<s1, s2>>
    <2>1. <<s1>> \in Seq(Section)
      BY Sections
    <2>2. Append(<<s1>>, s2) = <<s1>> \o <<s2>>
      BY <2>1, AppendIsConcat
    <2>3. <<s1, s2>> = Append(<<s1>>, s2)
      OBVIOUS
    <2>4. QED
      BY <2>2, <2>3
  <1>4. QED
    BY <1>1, <1>2, <1>3

(* The one-section sequences entries are built from. *)
LEMMA Banners ==
  /\ Url("req") \in Section /\ Url("res") \in Section
  /\ Status \in Section /\ End \in Section
  /\ <<Url("req")>> \in Seq(Section) /\ <<Url("res")>> \in Seq(Section)
  /\ <<Status>> \in Seq(Section) /\ <<End>> \in Seq(Section)
  <1>1. Url("req") \in Section /\ Url("res") \in Section
        /\ Status \in Section /\ End \in Section
    BY DEF Section
  <1>2. QED
    BY <1>1, Sections

(* Every entry is a sequence of sections. *)
LEMMA EntryType ==
  ASSUME NEW x \in Calls, NEW m, NEW d \in BOOLEAN
  PROVE  Entry(x, m, d) \in Seq(Section)
  <1>1. /\ View(x, "req", m, d) \in Seq(Section)
        /\ View(x, "res", m, d) \in Seq(Section)
        /\ ErrPrefix(x, m, d) \in Seq(Section)
    BY ViewType, ErrPrefixType
  <1>2. <<Url("req"), End>> \in Seq(Section) /\ <<>> \in Seq(Section)
    BY Banners, Sections
  <1>3. QED
    BY <1>1, <1>2, Banners, SectionStreams DEF Entry

(* Handing the entry a call's mode and decoding setting describe to l.log *)
(* keeps every entry one that a single mode describes.                    *)
LEMMA EmitEntry ==
  ASSUME TypeOK, log \in Seq(LogEntry), EntryFromOneMode, NEW out,
         out = Entry(call, mode, decode),
         log' = Append(log, [call |-> call, out |-> out])
  PROVE  log' \in Seq(LogEntry) /\ EntryFromOneMode'
  <1>1. [call |-> call, out |-> out] \in LogEntry
    BY EntryType DEF TypeOK, LogEntry
  <1>2. log' \in Seq(LogEntry) /\ Len(log') = Len(log) + 1
    BY <1>1, AppendProperties
  <1>3. ASSUME NEW k \in DOMAIN log'
        PROVE  \E m \in AllModes, d \in BOOLEAN : log'[k].out = Entry(log'[k].call, m, d)
    <2>1. CASE k \in DOMAIN log
      BY <1>1, <2>1, AppendProperties DEF EntryFromOneMode
    <2>2. CASE k \notin DOMAIN log
      <3>1. log'[k] = [call |-> call, out |-> out]
        BY <1>1, <1>2, <2>2, AppendProperties
      <3>2. mode \in AllModes /\ decode \in BOOLEAN
        BY DEF TypeOK, AllModes
      <3>3. QED
        BY <3>1, <3>2
    <2>3. QED
      BY <2>1, <2>2
  <1>4. QED
    BY <1>2, <1>3 DEF EntryFromOneMode

-----------------------------------------------------------------------------
(* The invariant holds initially. *)

LEMMA InitLogger == Init => LoggerInv
  <1> SUFFICES ASSUME Init PROVE LoggerInv
    OBVIOUS
  <1>1. TypeOK
    BY LoggerAssumption DEF Init, TypeOK, Calls
  <1>2. log \in Seq(LogEntry) /\ b \in Seq(Section)
    BY EmptySeq DEF Init
  <1>3. CallInv
    BY DEF Init, CallInv
  <1>4. EntryFromOneMode
    BY DEF Init, EntryFromOneMode
  <1>5. QED
    BY <1>1, <1>2, <1>3, <1>4 DEF LoggerInv

-----------------------------------------------------------------------------
(* Each step keeps it, when the setters run only between calls. *)

LEMMA SetterStep ==
  ASSUME LoggerInv, ~ConcurrentSet,
         \/ \E m \in Modes : SetMode(m)
         \/ \E h \in BOOLEAN : SetHeadersOnly(h) \/ SetDecode(h)
  PROVE  LoggerInv'
  <1>1. pc = "idle" /\ pc' = "idle"
    BY DEF Setter, SetMode, SetHeadersOnly, SetDecode
  <1>2. TypeOK'
    BY DEF LoggerInv, TypeOK, SetMode, SetHeadersOnly, SetDecode
  <1>3. UNCHANGED <<call, b, log>>
    BY DEF SetMode, SetHeadersOnly, SetDecode
  <1>4. CallInv'
    BY <1>1 DEF CallInv
  <1>5. QED
    BY <1>2, <1>3, <1>4 DEF LoggerInv, EntryFromOneMode

LEMMA StartStep ==
  ASSUME LoggerInv, NEW x \in Calls, Start(x)
  PROVE  LoggerInv'
  <1>1. TypeOK'
    BY LoggerAssumption DEF LoggerInv, TypeOK, Start
  <1>2. UNCHANGED log
    BY DEF Start
  <1>3. b' \in Seq(Section)
    BY Banners, Sections DEF LoggerInv, Start
  <1>4. CallInv'
    <2>1. pc = "idle" /\ call' = x
      BY DEF Start
    <2>2. CASE \/ x.skip
               \/ x.kind = "req" /\ mode = "error"
               \/ x.kind = "res" /\ mode = "error" /\ ~x.failed
      BY <2>1, <2>2 DEF CallInv, Start
    <2>3. CASE ~x.skip /\ x.kind = "req" /\ mode # "error"
      BY <2>1, <2>3 DEF CallInv, Start
    <2>4. CASE ~x.skip /\ x.kind = "res" /\ (mode = "error" => x.failed)
      <3>1. b' = <<>> /\ pc' = "resSkipBody" /\ mode' = mode
        BY <2>4 DEF Start
      <3>2. QED
        BY <2>1, <2>4, <3>1 DEF CallInv
    <2>5. QED
      BY <2>2, <2>3, <2>4 DEF Calls
  <1>5. QED
    BY <1>1, <1>2, <1>3, <1>4 DEF LoggerInv, EntryFromOneMode

LEMMA ReqUrlModeStep ==
  ASSUME LoggerInv, ReqUrlMode
  PROVE  LoggerInv'
  <1>1. call.kind = "req" /\ ~call.skip /\ mode # "error" /\ b = <<Url("req")>>
    BY DEF LoggerInv, CallInv, ReqUrlMode
  <1>2. TypeOK' /\ b' \in Seq(Section)
    BY DEF LoggerInv, TypeOK, ReqUrlMode
  <1>3. CASE mode = "url"
    <2>1. log' = Append(log, [call |-> call, out |-> b \o <<End>>]) /\ pc' = "idle"
      BY <1>3 DEF ReqUrlMode, Emit
    <2>2. b \o <<End>> = Entry(call, mode, decode)
      BY <1>1, <1>3, Banners, SectionStreams DEF Entry
    <2>3. log' \in Seq(LogEntry) /\ EntryFromOneMode'
      BY <2>1, <2>2, EmitEntry DEF LoggerInv
    <2>4. QED
      BY <1>2, <2>1, <2>3 DEF LoggerInv, CallInv
  <1>4. CASE mode # "url"
    <2>1. UNCHANGED log /\ pc' = "reqSkipBody"
      BY <1>4 DEF ReqUrlMode
    <2>2. QED
      BY <1>1, <1>2, <1>4, <2>1 DEF LoggerInv, CallInv, EntryFromOneMode, ReqUrlMode
  <1>5. QED
    BY <1>3, <1>4

LEMMA SetSkipBodyStep ==
  ASSUME LoggerInv,
         \/ SetSkipBody("reqSkipBody", "reqMessage")
         \/ SetSkipBody("resSkipBody", "resErrCheck")
  PROVE  LoggerInv'
  BY DEF LoggerInv, TypeOK, CallInv, EntryFromOneMode, SetSkipBody

LEMMA ReqMessageStep ==
  ASSUME LoggerInv, ReqMessage
  PROVE  LoggerInv'
  <1>1. /\ call.kind = "req" /\ ~call.skip /\ mode \notin {"error", "url"}
        /\ b = <<Url("req")>> /\ skipBody = (mode # "body")
    BY DEF LoggerInv, CallInv, ReqMessage
  <1>2. LogMessage("req") = View(call, "req", mode, decode)
    BY <1>1 DEF LogMessage, View
  <1>3. b \o LogMessage("req") \o <<End>> = Entry(call, mode, decode)
    BY <1>1, <1>2 DEF Entry
  <1>4. log' \in Seq(LogEntry) /\ EntryFromOneMode'
    BY <1>3, EmitEntry DEF LoggerInv, ReqMessage, Emit
  <1>5. QED
    BY <1>4 DEF LoggerInv, TypeOK, CallInv, ReqMessage, Emit

LEMMA ResErrRequestStep ==
  ASSUME LoggerInv, ResErrRequest
  PROVE  LoggerInv'
  <1>1. /\ call.kind = "res" /\ ~call.skip /\ (mode = "error" => call.failed)
        /\ b = <<>> /\ skipBody = (mode # "body")
    BY DEF LoggerInv, CallInv, ResErrRequest
  <1>2. TypeOK'
    BY DEF LoggerInv, TypeOK, ResErrRequest
  <1>3. CASE mode = "error" /\ call.snapErr
    <2>1. log' = Append(log, [call |-> call, out |-> <<Url("req")>> \o <<End>>])
          /\ pc' = "idle" /\ b' = b
      BY <1>1, <1>3 DEF ResErrRequest, Emit
    <2>2. <<Url("req")>> \o <<End>> = Entry(call, mode, decode)
      BY <1>1, <1>3, Banners, SectionStreams DEF Entry
    <2>3. log' \in Seq(LogEntry) /\ EntryFromOneMode'
      BY <2>1, <2>2, EmitEntry DEF LoggerInv
    <2>4. QED
      BY <1>2, <2>1, <2>3 DEF LoggerInv, CallInv
  <1>4. CASE mode = "error" /\ ~call.snapErr
    <2>1. LogMessage("req") = View(call, "req", mode, decode)
      BY <1>1, <1>4 DEF LogMessage, View
    <2>2. b' = ErrPrefix(call, mode, decode) /\ pc' = "resUrl" /\ UNCHANGED log
      BY <1>1, <1>4, <2>1 DEF ResErrRequest, ErrPrefix
    <2>3. b' \in Seq(Section)
      BY <2>2, ErrPrefixType DEF LoggerInv, TypeOK
    <2>4. QED
      BY <1>1, <1>2, <1>4, <2>2, <2>3
         DEF LoggerInv, CallInv, EntryFromOneMode, ResErrRequest
  <1>5. CASE mode # "error"
    <2>1. b' = b /\ pc' = "resUrl" /\ UNCHANGED log
      BY <1>5 DEF ResErrRequest
    <2>2. b = ErrPrefix(call, mode, decode)
      BY <1>1, <1>5 DEF ErrPrefix
    <2>3. QED
      BY <1>1, <1>2, <1>5, <2>1, <2>2
         DEF LoggerInv, CallInv, EntryFromOneMode, ResErrRequest
  <1>6. QED
    BY <1>3, <1>4, <1>5

LEMMA ResUrlStep ==
  ASSUME LoggerInv, ResUrl
  PROVE  LoggerInv'
  <1>1. /\ call.kind = "res" /\ ~call.skip /\ (mode = "error" => call.failed)
        /\ ~(mode = "error" /\ call.snapErr) /\ skipBody = (mode # "body")
        /\ b = ErrPrefix(call, mode, decode)
    BY DEF LoggerInv, CallInv, ResUrl
  <1>2. TypeOK'
    BY DEF LoggerInv, TypeOK, ResUrl
  <1>3. CASE mode = "url"
    <2>1. log' = Append(log, [call |-> call, out |-> b \o <<Url("res"), Status>> \o <<End>>])
          /\ pc' = "idle" /\ b' = b
      BY <1>3 DEF ResUrl, Emit
    <2>2. b = <<>>
      BY <1>1, <1>3 DEF ErrPrefix
    <2>3. b \o <<Url("res"), Status>> = b \o <<Url("res")>> \o <<Status>>
      BY <2>2, Banners, Sections, SectionStreams
    <2>4. b \o <<Url("res"), Status>> \o <<End>> = Entry(call, mode, decode)
      BY <1>1, <1>3, <2>3 DEF Entry
    <2>5. log' \in Seq(LogEntry) /\ EntryFromOneMode'
      BY <2>1, <2>4, EmitEntry DEF LoggerInv
    <2>6. QED
      BY <1>2, <2>1, <2>5 DEF LoggerInv, CallInv
  <1>4. CASE mode # "url"
    <2>1. b' = b \o <<Url("res")>> /\ pc' = "resMessage" /\ UNCHANGED log
      BY <1>4 DEF ResUrl
    <2>2. b' \in Seq(Section)
      BY <2>1, Banners, SectionStreams DEF LoggerInv
    <2>3. QED
      BY <1>1, <1>2, <1>4, <2>1, <2>2
         DEF LoggerInv, CallInv, EntryFromOneMode, ResUrl
  <1>5. QED
    BY <1>3, <1>4

LEMMA ResMessageStep ==
  ASSUME LoggerInv, ResMessage
  PROVE  LoggerInv'
  <1>1. /\ call.kind = "res" /\ ~call.skip /\ (mode = "error" => call.failed)
        /\ ~(mode = "error" /\ call.snapErr) /\ skipBody = (mode # "body")
        /\ mode # "url" /\ b = ErrPrefix(call, mode, decode) \o <<Url("res")>>
    BY DEF LoggerInv, CallInv, ResMessage
  <1>2. LogMessage("res") = View(call, "res", mode, decode)
    BY <1>1 DEF LogMessage, View
  <1>3. b \o LogMessage("res") \o <<End>> = Entry(call, mode, decode)
    BY <1>1, <1>2 DEF Entry
  <1>4. log' \in Seq(LogEntry) /\ EntryFromOneMode'
    BY <1>3, EmitEntry DEF LoggerInv, ResMessage, Emit
  <1>5. QED
    BY <1>4 DEF LoggerInv, TypeOK, CallInv, ResMessage, Emit

LEMMA NextLogger ==
  ASSUME ~ConcurrentSet
  PROVE  LoggerInv /\ [Next]_vars => LoggerInv'
  <1> SUFFICES ASSUME LoggerInv, [Next]_vars PROVE LoggerInv'
    OBVIOUS
  <1>1. CASE UNCHANGED vars
    BY <1>1 DEF vars, LoggerInv, TypeOK, CallInv, EntryFromOneMode
  <1>2. QED
    BY <1>1, SetterStep, StartStep, ReqUrlModeStep, SetSkipBodyStep,
       ReqMessageStep, ResErrRequestStep, ResUrlStep, ResMessageStep DEF Next

(* logger.go 161-251, with SetMode, SetHeadersOnly and SetDecode called   *)
(* only between calls, for every set of modes and every number of calls:   *)
(* each entry the deferred l.log receives is closed by its banner and is   *)
(* the one the doc comments describe for the call under one mode and one   *)
(* decoding setting. CallInv is needed because a call reads l.mode at     *)
(* several statements: it says that what the call wrote so far is the     *)
(* start of the entry for the mode it read first.                          *)
THEOREM EntryFromOneModeHolds ==
  ASSUME ~ConcurrentSet
  PROVE  Spec => []EntryFromOneMode
  <1>1. Init => LoggerInv
    BY InitLogger
  <1>2. LoggerInv /\ [Next]_vars => LoggerInv'
    BY NextLogger
  <1>3. LoggerInv => EntryFromOneMode
    BY DEF LoggerInv
  <1>4. QED
    BY <1>1, <1>2, <1>3, PTL DEF Spec

=============================================================================
