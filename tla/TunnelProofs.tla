---------------------------- MODULE TunnelProofs ----------------------------
(***************************************************************************)
(* Proofs about the tunnel of a CONNECT or 101 upgrade (module Tunnel),    *)
(* for every bound on the chunks each side sends and on the chunks         *)
(* buffered behind the request, every set of writers and deadlines.        *)
(***************************************************************************)
EXTENDS Tunnel, SequenceTheorems, TLAPS

(* The chunks either side can send. *)
Chunk == 1..MaxData

-----------------------------------------------------------------------------
(* Lemmas about the streams. *)

(* The first n chunks of a side, and how sending one more extends them. *)
LEMMA UptoProperties ==
  ASSUME NEW n \in Nat, n <= MaxData
  PROVE  /\ Upto(n) \in Seq(Chunk)
         /\ n < MaxData => Upto(n + 1) = Append(Upto(n), n + 1)
  <1>1. Upto(n) \in Seq(Chunk)
    <2>1. Upto(n) \in [1..n -> Chunk]
      BY TunnelAssumption DEF Upto, Chunk
    <2>2. QED
      BY <2>1, SeqDef
  <1>2. ASSUME n < MaxData PROVE Upto(n + 1) = Append(Upto(n), n + 1)
    <2>0. n + 1 \in Chunk
      BY <1>2, TunnelAssumption DEF Chunk
    <2>1. Append(Upto(n), n + 1) \in Seq(Chunk) /\ Len(Append(Upto(n), n + 1)) = n + 1
      <3>1. Len(Upto(n)) = n
        BY <1>1, LenProperties DEF Upto
      <3>2. QED
        BY <1>1, <2>0, <3>1, AppendProperties
    <2>2. \A i \in 1..n + 1 : Append(Upto(n), n + 1)[i] = i
      <3>1. Len(Upto(n)) = n
        BY <1>1, LenProperties DEF Upto
      <3>2. QED
        BY <1>1, <2>0, <3>1, AppendProperties DEF Upto
    <2>3. QED
      BY <2>1, <2>2 DEF Upto
  <1>3. QED
    BY <1>1, <1>2

(* Moving the head of a stream to the end of the one before it. *)
LEMMA MoveHead ==
  ASSUME NEW S, NEW s \in Seq(S), NEW t \in Seq(S), t # <<>>
  PROVE  Append(s, Head(t)) \o Tail(t) = s \o t
  <1>1. Head(t) \in S /\ Tail(t) \in Seq(S)
    BY HeadTailProperties
  <1>2. t = <<Head(t)>> \o Tail(t)
    BY <1>1, HeadTailProperties
  <1>3. Append(s, Head(t)) = s \o <<Head(t)>>
    BY <1>1, AppendIsConcat
  <1>4. QED
    BY <1>1, <1>2, <1>3, ConcatAssociative

(* Appending to the last of two streams. *)
LEMMA ConcatAppend ==
  ASSUME NEW S, NEW s \in Seq(S), NEW t \in Seq(S), NEW x \in S
  PROVE  s \o Append(t, x) = Append(s \o t, x)
  BY AppendIsConcat, ConcatAssociative, ConcatProperties

-----------------------------------------------------------------------------
(* Type correctness. *)

LEMMA InitTypeOK == Init => TypeOK
  <1> SUFFICES ASSUME Init PROVE TypeOK
    OBVIOUS
  <1>1. PICK pre \in 0..MaxPre : buf = Upto(pre) /\ csent = pre
    BY DEF Init
  <1>2. buf \in Seq(Chunk) /\ csent \in 0..MaxData
    BY <1>1, UptoProperties, TunnelAssumption
  <1>3. \A q \in {c2p, p2u, u2p, p2c, urecv, crecv} : q \in Seq(Chunk)
    BY EmptySeq DEF Init
  <1>4. \A q \in {buf, c2p, p2u, u2p, p2c, urecv, crecv} : q \in Seq(1..MaxData)
    BY <1>2, <1>3 DEF Chunk
  <1>5. \A q \in {cEOF, uEOF, pEOFu, pEOFc} : q \in BOOLEAN
    BY DEF Init
  <1>6. QED
    BY <1>2, <1>4, <1>5, TunnelAssumption DEF Init, TypeOK

(* The sequences of the tunnel, one by one. *)
LEMMA TypeOKSeqs ==
  TypeOK => /\ buf \in Seq(Chunk) /\ c2p \in Seq(Chunk) /\ p2u \in Seq(Chunk)
            /\ u2p \in Seq(Chunk) /\ p2c \in Seq(Chunk)
            /\ urecv \in Seq(Chunk) /\ crecv \in Seq(Chunk)
  BY DEF TypeOK, Chunk

(* Moving the head of one stream to the end of another keeps both typed. *)
LEMMA MoveTyped ==
  ASSUME NEW S, NEW s \in Seq(S), NEW t \in Seq(S), t # <<>>
  PROVE  Append(s, Head(t)) \in Seq(S) /\ Tail(t) \in Seq(S)
  BY HeadTailProperties, AppendProperties

LEMMA NextTypeOK == TypeOK /\ DoneCount /\ [Next]_vars => TypeOK'
  <1> SUFFICES ASSUME TypeOK, DoneCount, [Next]_vars PROVE TypeOK'
    OBVIOUS
  <1>0. /\ buf \in Seq(Chunk) /\ c2p \in Seq(Chunk) /\ p2u \in Seq(Chunk)
        /\ u2p \in Seq(Chunk) /\ p2c \in Seq(Chunk)
        /\ urecv \in Seq(Chunk) /\ crecv \in Seq(Chunk)
    BY TypeOKSeqs
  <1>1. CASE WriteHead \/ WriteHeadFail \/ Wait \/ OutEnd \/ InEnd
             \/ ClientClose \/ UpClose
    BY <1>1 DEF TypeOK, WriteHead, WriteHeadFail, Wait, OutEnd, InEnd,
                ClientClose, UpClose
  <1>2. CASE Drain
    <2>1. (p2u \o buf) \in Seq(Chunk) /\ <<>> \in Seq(Chunk)
      BY <1>0, ConcatProperties, EmptySeq
    <2>2. QED
      BY <1>2, <2>1 DEF TypeOK, Drain, Chunk
  <1>3. CASE OutCopy
    <2>1. Append(p2u, Head(c2p)) \in Seq(Chunk) /\ Tail(c2p) \in Seq(Chunk)
      BY <1>0, <1>3, MoveTyped DEF OutCopy
    <2>2. QED
      BY <1>3, <2>1 DEF TypeOK, OutCopy, Chunk
  <1>4. CASE InCopy
    <2>1. Append(p2c, Head(u2p)) \in Seq(Chunk) /\ Tail(u2p) \in Seq(Chunk)
      BY <1>0, <1>4, MoveTyped DEF InCopy
    <2>2. QED
      BY <1>4, <2>1 DEF TypeOK, InCopy, Chunk
  <1>5. CASE ClientRecv
    <2>1. Append(crecv, Head(p2c)) \in Seq(Chunk) /\ Tail(p2c) \in Seq(Chunk)
      BY <1>0, <1>5, MoveTyped DEF ClientRecv
    <2>2. QED
      BY <1>5, <2>1 DEF TypeOK, ClientRecv, Chunk
  <1>6. CASE UpRecv
    <2>1. Append(urecv, Head(p2u)) \in Seq(Chunk) /\ Tail(p2u) \in Seq(Chunk)
      BY <1>0, <1>6, MoveTyped DEF UpRecv
    <2>2. QED
      BY <1>6, <2>1 DEF TypeOK, UpRecv, Chunk
  <1>7. CASE ClientSend
    <2>1. csent + 1 \in Chunk
      BY <1>7, TunnelAssumption DEF ClientSend, TypeOK, Chunk
    <2>2. Append(c2p, csent + 1) \in Seq(Chunk)
      BY <1>0, <2>1, AppendProperties
    <2>3. QED
      BY <1>7, <2>2 DEF TypeOK, ClientSend, Chunk
  <1>8. CASE UpSend
    <2>1. usent + 1 \in Chunk
      BY <1>8, TunnelAssumption DEF UpSend, TypeOK, Chunk
    <2>2. Append(u2p, usent + 1) \in Seq(Chunk)
      BY <1>0, <2>1, AppendProperties
    <2>3. QED
      BY <1>8, <2>2 DEF TypeOK, UpSend, Chunk
  <1>9. CASE OutCloseWrite
    <2>1. donec + 1 \in 0..2
      BY <1>9 DEF OutCloseWrite, TypeOK, DoneCount
    <2>2. QED
      BY <1>9, <2>1 DEF TypeOK, OutCloseWrite
  <1>10. CASE InCloseWrite
    <2>1. donec + 1 \in 0..2
      BY <1>10 DEF InCloseWrite, TypeOK, DoneCount
    <2>2. QED
      BY <1>10, <2>1 DEF TypeOK, InCloseWrite
  <1>11. CASE UNCHANGED vars
    BY <1>11 DEF TypeOK, vars
  <1>12. QED
    BY <1>1, <1>2, <1>3, <1>4, <1>5, <1>6, <1>7, <1>8, <1>9, <1>10, <1>11
       DEF Next

LEMMA InitDoneCount == Init => DoneCount
  BY DEF Init, DoneCount

LEMMA NextDoneCount == TypeOK /\ DoneCount /\ [Next]_vars => DoneCount'
  <1> SUFFICES ASSUME TypeOK, DoneCount, [Next]_vars PROVE DoneCount'
    OBVIOUS
  <1>1. CASE OutCloseWrite \/ InCloseWrite
    <2>1. CASE OutCloseWrite
      BY <2>1 DEF TypeOK, DoneCount, OutCloseWrite
    <2>2. CASE InCloseWrite
      BY <2>2 DEF TypeOK, DoneCount, InCloseWrite
    <2>3. QED
      BY <1>1, <2>1, <2>2
  <1>2. CASE Drain
    BY <1>2 DEF TypeOK, DoneCount, Drain
  <1>3. CASE ~OutCloseWrite /\ ~InCloseWrite /\ ~Drain
    BY <1>3 DEF Next, vars, DoneCount, WriteHead, WriteHeadFail, Wait,
                OutCopy, OutEnd, InCopy, InEnd, ClientSend, ClientClose,
                ClientRecv, UpSend, UpRecv, UpClose
  <1>4. QED
    BY <1>1, <1>2, <1>3

(* Every reachable state of the tunnel is well typed: in particular donec *)
(* never exceeds 2, because it counts the copySync tasks that have ended.  *)
THEOREM TypeCorrect == Spec => []TypeOK
  <1>1. Init => TypeOK /\ DoneCount
    BY InitTypeOK, InitDoneCount
  <1>2. TypeOK /\ DoneCount /\ [Next]_vars => (TypeOK /\ DoneCount)'
    BY NextTypeOK, NextDoneCount
  <1>3. QED
    BY <1>1, <1>2, PTL DEF Spec

-----------------------------------------------------------------------------
(* No chunk is lost or reordered in the tunnel. *)

(* Streams of chunks under concatenation. *)
LEMMA ChunkStreams ==
  /\ \A s, t \in Seq(Chunk) : s \o t \in Seq(Chunk)
  /\ \A s, t, u \in Seq(Chunk) : (s \o t) \o u = s \o (t \o u)
  /\ \A s \in Seq(Chunk) : s \o <<>> = s
  /\ \A s, t \in Seq(Chunk), x \in Chunk : s \o Append(t, x) = Append(s \o t, x)
  <1>1. \A s, t \in Seq(Chunk) : s \o t \in Seq(Chunk)
    BY ConcatProperties
  <1>2. \A s, t, u \in Seq(Chunk) : (s \o t) \o u = s \o (t \o u)
    BY ConcatAssociative
  <1>3. \A s \in Seq(Chunk) : s \o <<>> = s
    BY ConcatEmptySeq
  <1>4. \A s, t \in Seq(Chunk), x \in Chunk : s \o Append(t, x) = Append(s \o t, x)
    BY ConcatAppend
  <1>5. QED
    BY <1>1, <1>2, <1>3, <1>4, SMTT(20)

LEMMA InitStream == Init => StreamInv
  <1> SUFFICES ASSUME Init PROVE StreamInv
    OBVIOUS
  <1>1. PICK pre \in 0..MaxPre : buf = Upto(pre) /\ csent = pre
    BY DEF Init
  <1>2. buf \in Seq(Chunk)
    BY <1>1, UptoProperties, TunnelAssumption
  <1>3. urecv \o p2u \o buf \o c2p = buf
    BY <1>2, EmptySeq, ConcatEmptySeq DEF Init
  <1>4. crecv \o p2c \o u2p = Upto(usent)
    BY EmptySeq, ConcatEmptySeq DEF Init, Upto
  <1>5. QED
    BY <1>1, <1>3, <1>4 DEF Init, StreamInv

(* drainBuffer moves brw.Reader's chunks to the end of the upstream stream. *)
LEMMA DrainKeepsStream ==
  ASSUME NEW r \in Seq(Chunk), NEW p \in Seq(Chunk), NEW b \in Seq(Chunk),
         NEW c \in Seq(Chunk)
  PROVE  r \o (p \o b) \o <<>> \o c = r \o p \o b \o c
  <1>1. p \o b \in Seq(Chunk) /\ r \o (p \o b) \in Seq(Chunk)
    BY ChunkStreams
  <1>2. r \o (p \o b) \o <<>> = r \o (p \o b)
    BY <1>1, ChunkStreams
  <1>3. r \o p \o b = r \o (p \o b)
    BY ConcatAssociative
  <1>4. r \o (p \o b) \o <<>> \o c = r \o (p \o b) \o c
    BY <1>2
  <1>5. QED
    BY <1>3, <1>4

(* A copy moves the head of the stream it reads to the end of the one it  *)
(* writes, behind what the reader of that one has already received.       *)
LEMMA CopyKeepsStream ==
  ASSUME NEW r \in Seq(Chunk), NEW p \in Seq(Chunk), NEW c \in Seq(Chunk),
         c # <<>>
  PROVE  r \o Append(p, Head(c)) \o Tail(c) = r \o p \o c
  <1>1. Head(c) \in Chunk /\ Tail(c) \in Seq(Chunk)
    BY HeadTailProperties
  <1>2. r \o Append(p, Head(c)) = Append(r \o p, Head(c))
    BY <1>1, ChunkStreams
  <1>3. r \o p \in Seq(Chunk)
    BY ChunkStreams
  <1>4. QED
    BY <1>1, <1>2, <1>3, MoveHead

(* A peer sends its next chunk at the end of its stream. *)
LEMMA SendKeepsStream ==
  ASSUME NEW x \in Seq(Chunk), NEW c \in Seq(Chunk), NEW n \in Nat,
         n < MaxData, x \o c = Upto(n)
  PROVE  x \o Append(c, n + 1) = Upto(n + 1)
  <1>1. n + 1 \in Chunk
    BY TunnelAssumption DEF Chunk
  <1>2. x \o Append(c, n + 1) = Append(x \o c, n + 1)
    BY <1>1, ChunkStreams
  <1>3. Upto(n + 1) = Append(Upto(n), n + 1)
    <2>1. n <= MaxData
      BY TunnelAssumption
    <2>2. QED
      BY <2>1, UptoProperties
  <1>4. QED
    BY <1>2, <1>3

(* The inductive invariant of the tunnel. *)
TunnelInv == TypeOK /\ DoneCount /\ StreamInv

(* The steps of the handler that move no chunk, and the peers' closes. *)
LEMMA ControlStream ==
  ASSUME StreamInv,
         \/ WriteHead \/ WriteHeadFail \/ Wait \/ OutEnd \/ OutCloseWrite
         \/ InEnd \/ InCloseWrite \/ ClientClose \/ UpClose
  PROVE  StreamInv'
  BY DEF StreamInv, WriteHead, WriteHeadFail, Wait, OutEnd, OutCloseWrite,
         InEnd, InCloseWrite, ClientClose, UpClose

LEMMA DrainStream ==
  ASSUME TypeOK, StreamInv, Drain
  PROVE  StreamInv'
  <1>0. urecv \in Seq(Chunk) /\ p2u \in Seq(Chunk) /\ buf \in Seq(Chunk) /\ c2p \in Seq(Chunk)
    BY TypeOKSeqs
  <1>1. urecv \o (p2u \o buf) \o <<>> \o c2p = urecv \o p2u \o buf \o c2p
    BY <1>0, DrainKeepsStream, SMTT(30)
  <1>2. urecv \o p2u' \o buf' \o c2p' = urecv \o p2u \o buf \o c2p
    BY <1>1 DEF Drain
  <1>3. QED
    BY <1>2 DEF StreamInv, Drain

LEMMA OutCopyStream ==
  ASSUME TypeOK, StreamInv, OutCopy
  PROVE  StreamInv'
  <1>0. urecv \in Seq(Chunk) /\ p2u \in Seq(Chunk) /\ c2p \in Seq(Chunk)
    BY TypeOKSeqs
  <1>1. buf = <<>> /\ c2p # <<>>
    BY DEF StreamInv, OutCopy
  <1>2. urecv \o p2u \in Seq(Chunk) /\ urecv \o Append(p2u, Head(c2p)) \in Seq(Chunk)
    BY <1>0, <1>1, HeadTailProperties, AppendProperties, ChunkStreams
  <1>3. urecv \o Append(p2u, Head(c2p)) \o Tail(c2p) = urecv \o p2u \o c2p
    BY <1>0, <1>1, CopyKeepsStream
  <1>4. /\ urecv \o Append(p2u, Head(c2p)) \o <<>> = urecv \o Append(p2u, Head(c2p))
        /\ urecv \o p2u \o <<>> = urecv \o p2u
    BY <1>2, ChunkStreams
  <1>5. urecv \o p2u' \o buf' \o c2p' = urecv \o p2u \o buf \o c2p
    BY <1>1, <1>3, <1>4 DEF OutCopy
  <1>6. QED
    BY <1>5 DEF StreamInv, OutCopy

LEMMA InCopyStream ==
  ASSUME TypeOK, StreamInv, InCopy
  PROVE  StreamInv'
  <1>0. crecv \in Seq(Chunk) /\ p2c \in Seq(Chunk) /\ u2p \in Seq(Chunk)
    BY TypeOKSeqs
  <1>1. crecv \o p2c' \o u2p' = crecv \o p2c \o u2p
    BY <1>0, CopyKeepsStream DEF InCopy
  <1>2. QED
    BY <1>1 DEF StreamInv, InCopy

LEMMA ClientRecvStream ==
  ASSUME TypeOK, StreamInv, ClientRecv
  PROVE  StreamInv'
  <1>0. crecv \in Seq(Chunk) /\ p2c \in Seq(Chunk)
    BY TypeOKSeqs
  <1>1. crecv' \o p2c' = crecv \o p2c
    BY <1>0, MoveHead DEF ClientRecv
  <1>2. QED
    BY <1>1 DEF StreamInv, ClientRecv

LEMMA UpRecvStream ==
  ASSUME TypeOK, StreamInv, UpRecv
  PROVE  StreamInv'
  <1>0. urecv \in Seq(Chunk) /\ p2u \in Seq(Chunk)
    BY TypeOKSeqs
  <1>1. urecv' \o p2u' = urecv \o p2u
    BY <1>0, MoveHead DEF UpRecv
  <1>2. QED
    BY <1>1 DEF StreamInv, UpRecv

LEMMA ClientSendStream ==
  ASSUME TypeOK, StreamInv, ClientSend
  PROVE  StreamInv'
  <1>0. urecv \in Seq(Chunk) /\ p2u \in Seq(Chunk) /\ buf \in Seq(Chunk) /\ c2p \in Seq(Chunk)
    BY TypeOKSeqs
  <1>1. urecv \o p2u \o buf \in Seq(Chunk) /\ c2p \in Seq(Chunk) /\ csent \in Nat
    BY <1>0, ChunkStreams DEF TypeOK
  <1>2. urecv \o p2u \o buf \o c2p' = Upto(csent')
    BY <1>1, SendKeepsStream DEF StreamInv, ClientSend
  <1>3. QED
    BY <1>2 DEF StreamInv, ClientSend

LEMMA UpSendStream ==
  ASSUME TypeOK, StreamInv, UpSend
  PROVE  StreamInv'
  <1>0. crecv \in Seq(Chunk) /\ p2c \in Seq(Chunk) /\ u2p \in Seq(Chunk)
    BY TypeOKSeqs
  <1>1. crecv \o p2c \in Seq(Chunk) /\ u2p \in Seq(Chunk) /\ usent \in Nat
    BY <1>0, ChunkStreams DEF TypeOK
  <1>2. crecv \o p2c \o u2p' = Upto(usent')
    BY <1>1, SendKeepsStream DEF StreamInv, UpSend
  <1>3. QED
    BY <1>2 DEF StreamInv, UpSend

LEMMA NextStream == TunnelInv /\ [Next]_vars => StreamInv'
  <1> SUFFICES ASSUME TypeOK, StreamInv, [Next]_vars PROVE StreamInv'
    BY DEF TunnelInv
  <1>1. CASE UNCHANGED vars
    BY <1>1, SMTT(20) DEF StreamInv, vars
  <1>2. QED
    BY <1>1, ControlStream, DrainStream, OutCopyStream, InCopyStream,
       ClientRecvStream, UpRecvStream, ClientSendStream, UpSendStream
       DEF Next

LEMMA InvLossless == TunnelInv => TunnelLossless
  <1> SUFFICES ASSUME TypeOK, StreamInv PROVE TunnelLossless
    BY DEF TunnelInv
  <1>0. urecv \o p2u \in Seq(Chunk) /\ crecv \o p2c \in Seq(Chunk)
    <2>1. urecv \in Seq(Chunk) /\ p2u \in Seq(Chunk) /\ crecv \in Seq(Chunk) /\ p2c \in Seq(Chunk)
      BY TypeOKSeqs
    <2>2. QED
      BY <2>1, ChunkStreams
  <1>1. ASSUME opc = "done", ~rdl PROVE cEOF /\ urecv \o p2u = Upto(csent)
    <2>1. cEOF /\ c2p = <<>> /\ buf = <<>>
      BY <1>1 DEF StreamInv
    <2>2. urecv \o p2u \o <<>> \o <<>> = urecv \o p2u
      BY <1>0, ChunkStreams
    <2>3. QED
      BY <2>1, <2>2 DEF StreamInv
  <1>2. ASSUME ipc = "done", ~wdl PROVE uEOF /\ crecv \o p2c = Upto(usent)
    <2>1. uEOF /\ u2p = <<>>
      BY <1>2 DEF StreamInv
    <2>2. crecv \o p2c \o <<>> = crecv \o p2c
      BY <1>0, ChunkStreams
    <2>3. QED
      BY <2>1, <2>2 DEF StreamInv
  <1>3. QED
    BY <1>1, <1>2 DEF TunnelLossless

(* No chunk is lost or reordered in any reachable state of the tunnel,    *)
(* and donec counts the finished copySync tasks.                          *)
THEOREM TunnelInvariant == Spec => []TunnelInv
  <1>1. Init => TunnelInv
    BY InitTypeOK, InitDoneCount, InitStream DEF TunnelInv
  <1>2. TunnelInv /\ [Next]_vars => TunnelInv'
    BY NextTypeOK, NextDoneCount, NextStream DEF TunnelInv
  <1>3. QED
    BY <1>1, <1>2, PTL DEF Spec

(* Spec "Tunnel splicing", for every bound and every writer: when a copy   *)
(* that no deadline can cut short has ended, its source had closed and     *)
(* the destination has been sent everything the source sent, in order;    *)
(* for the outbound copy this includes the chunks drainBuffer took from   *)
(* brw.Reader before the copy started.                                    *)
THEOREM TunnelLosslessHolds == Spec => []TunnelLossless
  BY TunnelInvariant, InvLossless, PTL

-----------------------------------------------------------------------------
(* tunnel() joins both copies. *)

LEMMA JoinStep ==
  ASSUME TypeOK, DoneCount, [Next]_vars
  PROVE  tpc' = "done" /\ tpc # "done" => tpc = "head" \/ (opc = "done" /\ ipc = "done")
  <1>1. CASE Wait
    BY <1>1 DEF Wait, DoneCount, TypeOK
  <1>2. CASE WriteHeadFail
    BY <1>2 DEF WriteHeadFail
  <1>3. CASE ~Wait /\ ~WriteHeadFail
    BY <1>3 DEF Next, vars, WriteHead, Drain, OutCopy, OutEnd, OutCloseWrite,
                InCopy, InEnd, InCloseWrite, ClientSend, ClientClose,
                ClientRecv, UpSend, UpRecv, UpClose
  <1>4. QED
    BY <1>1, <1>2, <1>3

(* Spec 5, for every bound: tunnel() returns only after the failed write  *)
(* of the response head, or once both copySync tasks have sent on donec;  *)
(* the two receives from donec are enough because each task sends once.   *)
THEOREM HandlerJoinsCopiesHolds == Spec => HandlerJoinsCopies
  <1>1. TunnelInv /\ [Next]_vars =>
          [tpc' = "done" /\ tpc # "done" => tpc = "head" \/ (opc = "done" /\ ipc = "done")]_vars
    BY JoinStep DEF TunnelInv
  <1>2. QED
    BY TunnelInvariant, <1>1, PTL DEF Spec, HandlerJoinsCopies


-----------------------------------------------------------------------------
(* The tunnel implements Splice: each peer reads the other's next chunk. *)

(* A stream that starts the first n chunks is itself the first chunks. *)
LEMMA PrefixUpto ==
  ASSUME NEW s \in Seq(Chunk), NEW x \in Seq(Chunk), NEW n \in Nat,
         s \o x = Upto(n)
  PROVE  s = Upto(Len(s)) /\ Len(s) <= n
  <1>1. Len(Upto(n)) = n /\ \A i \in 1..n : Upto(n)[i] = i
    BY DEF Upto
  <1>2. Len(s) + Len(x) = n
    BY <1>1, ConcatProperties
  <1>3. \A i \in 1..Len(s) : s[i] = i
    BY <1>1, <1>2, ConcatProperties
  <1>4. QED
    BY <1>2, <1>3 DEF Upto

(* The head of the stream after a prefix r of the first m chunks is the   *)
(* chunk numbered one past r.                                              *)
LEMMA HeadNext ==
  ASSUME NEW r \in Seq(Chunk), NEW p \in Seq(Chunk), NEW m \in Nat,
         r \o p = Upto(m), p # <<>>
  PROVE  Len(r) < m /\ Head(p) = Len(r) + 1
  <1>1. Len(Upto(m)) = m /\ \A i \in 1..m : Upto(m)[i] = i
    BY DEF Upto
  <1>2. Len(p) >= 1 /\ Len(r) + Len(p) = m
    BY <1>1, ConcatProperties, EmptySeq
  <1>3. (r \o p)[Len(r) + 1] = p[1]
    BY <1>2, ConcatProperties
  <1>4. QED
    BY <1>1, <1>2, <1>3 DEF Head

(* What the upstream reads next is the client's next chunk. *)
LEMMA NextChunkOut ==
  ASSUME TypeOK, StreamInv, p2u # <<>>
  PROVE  Len(urecv) < csent /\ Head(p2u) = Len(urecv) + 1
  <1>0. urecv \in Seq(Chunk) /\ p2u \in Seq(Chunk) /\ buf \in Seq(Chunk) /\ c2p \in Seq(Chunk)
    BY TypeOKSeqs
  <1>1. urecv \o p2u \in Seq(Chunk) /\ urecv \o p2u \o buf \in Seq(Chunk)
    BY <1>0, ChunkStreams
  <1>2. csent \in Nat /\ urecv \o p2u \o buf \o c2p = Upto(csent)
    BY DEF TypeOK, StreamInv
  <1>3. urecv \o p2u \o buf = Upto(Len(urecv \o p2u \o buf))
        /\ Len(urecv \o p2u \o buf) <= csent
    BY ONLY <1>0, <1>1, <1>2, PrefixUpto, ZenonT(30)
  <1>4. urecv \o p2u = Upto(Len(urecv \o p2u))
        /\ Len(urecv \o p2u) <= Len(urecv \o p2u \o buf)
    BY ONLY <1>0, <1>1, <1>3, PrefixUpto, LenProperties, ZenonT(30)
  <1>5. Len(urecv) < Len(urecv \o p2u) /\ Head(p2u) = Len(urecv) + 1
    BY ONLY <1>0, <1>1, <1>4, HeadNext, LenProperties, p2u # <<>>, ZenonT(30)
  <1>6. \A a, b, c, d \in Nat : a < b /\ b <= c /\ c <= d => a < d
    OBVIOUS
  <1>7. Len(urecv) < csent
    BY ONLY <1>0, <1>1, <1>2, <1>3, <1>4, <1>5, <1>6, LenProperties, ZenonT(30)
  <1>8. QED
    BY <1>5, <1>7

(* What the client reads next is the upstream's next chunk. *)
LEMMA NextChunkIn ==
  ASSUME TypeOK, StreamInv, p2c # <<>>
  PROVE  Len(crecv) < usent /\ Head(p2c) = Len(crecv) + 1
  <1>0. crecv \in Seq(Chunk) /\ p2c \in Seq(Chunk) /\ u2p \in Seq(Chunk)
    BY TypeOKSeqs
  <1>1. crecv \o p2c \in Seq(Chunk)
    BY <1>0, ChunkStreams
  <1>2. usent \in Nat /\ crecv \o p2c \o u2p = Upto(usent)
    BY DEF TypeOK, StreamInv
  <1>3. crecv \o p2c = Upto(Len(crecv \o p2c)) /\ Len(crecv \o p2c) <= usent
    BY ONLY <1>0, <1>1, <1>2, PrefixUpto, ZenonT(30)
  <1>4. Len(crecv) < Len(crecv \o p2c) /\ Head(p2c) = Len(crecv) + 1
    BY ONLY <1>0, <1>1, <1>3, HeadNext, LenProperties, p2c # <<>>, ZenonT(30)
  <1>5. \A a, b, c \in Nat : a < b /\ b <= c => a < c
    OBVIOUS
  <1>7. Len(crecv) < usent
    BY ONLY <1>0, <1>1, <1>2, <1>3, <1>4, <1>5, LenProperties, ZenonT(30)
  <1>8. QED
    BY <1>4, <1>7

LEMMA InitRefines == Init => Peers!Init
  <1> SUFFICES ASSUME Init PROVE Peers!Init
    OBVIOUS
  <1>1. csent \in 0..MaxData
    BY TunnelAssumption DEF Init
  <1>2. QED
    BY <1>1 DEF Init, Peers!Init

(* Each step of the tunnel is a step of Splice or leaves the peers' view  *)
(* unchanged.                                                              *)
LEMMA NextRefines == TunnelInv /\ [Next]_vars => [Peers!Next]_Peers!vars
  <1> SUFFICES ASSUME TypeOK, StreamInv, [Next]_vars PROVE [Peers!Next]_Peers!vars
    BY DEF TunnelInv
  <1>1. CASE UpRecv
    <2>1. Len(urecv) < csent /\ Head(p2u) = Len(urecv) + 1
      BY <1>1, NextChunkOut DEF UpRecv
    <2>2. Peers!UpRecv
      BY <1>1, <2>1 DEF UpRecv, Peers!UpRecv
    <2>3. QED
      BY <2>2 DEF Peers!Next
  <1>2. CASE ClientRecv
    <2>1. Len(crecv) < usent /\ Head(p2c) = Len(crecv) + 1
      BY <1>2, NextChunkIn DEF ClientRecv
    <2>2. Peers!ClientRecv
      BY <1>2, <2>1 DEF ClientRecv, Peers!ClientRecv
    <2>3. QED
      BY <2>2 DEF Peers!Next
  <1>3. CASE ClientSend \/ UpSend \/ ClientClose \/ UpClose
    BY <1>3 DEF ClientSend, UpSend, ClientClose, UpClose, Peers!Next,
                Peers!ClientSend, Peers!UpSend, Peers!ClientClose, Peers!UpClose
  <1>4. CASE \/ WriteHead \/ WriteHeadFail \/ Drain \/ Wait
             \/ OutCopy \/ OutEnd \/ OutCloseWrite
             \/ InCopy \/ InEnd \/ InCloseWrite
    BY <1>4 DEF WriteHead, WriteHeadFail, Drain, Wait, OutCopy, OutEnd,
                OutCloseWrite, InCopy, InEnd, InCloseWrite, Peers!vars
  <1>5. CASE UNCHANGED vars
    BY <1>5 DEF vars, Peers!vars
  <1>6. QED
    BY <1>1, <1>2, <1>3, <1>4, <1>5 DEF Next

(* Spec "Tunnel splicing", for every bound, writer and deadline: every     *)
(* behaviour of the tunnel, seen from its peers, is one of Splice's: each  *)
(* peer reads exactly the other's chunks in the order sent, drainBuffer's  *)
(* first, with none lost from the middle, repeated or invented.            *)
THEOREM SpliceRefinementHolds == Spec => SpliceRefinement
  <1>1. Init => Peers!Init
    BY InitRefines
  <1>2. TunnelInv /\ [Next]_vars => [Peers!Next]_Peers!vars
    BY NextRefines
  <1>3. QED
    BY TunnelInvariant, <1>1, <1>2, PTL DEF Spec, SpliceRefinement, Peers!Spec

=============================================================================
