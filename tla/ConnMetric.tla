------------------------------ MODULE ConnMetric ------------------------------
(***************************************************************************)
(* connmetric.InstrumentedConn (src/unnamed/part_000): a net.Conn wrapper  *)
(* that counts bytes read and written with atomic adds, keeps the first    *)
(* error in an atomic.Pointer[error], and on the first Close() (sync.Once) *)
(* closes the inner connection and sends one StatsEntry to the Tracker.    *)
(*                                                                         *)
(* Each task performs one call: Read, Write or Close. A Read or Write is   *)
(* two steps (the inner call, then the error check and the atomic add), a *)
(* Close is two steps (the inner Close, then the loads and RecordStats),   *)
(* so that other calls interleave between them as they can in Go.          *)
(***************************************************************************)
EXTENDS Naturals, Sequences

CONSTANTS
    Tasks,     \* goroutines using the connection
    Ops,       \* Ops[t] \in {"read", "write", "close"}: the call task t makes
    MaxN,      \* largest byte count one inner Read or Write returns
    Null       \* the nil *error that a zero atomic.Pointer[error] holds

(* Ops \in [Tasks -> {"read", "write", "close"}] and MaxN \in Nat.        *)

VARIABLES
    bytesIn, bytesOut,  \* *ic.bytesIn, *ic.bytesOut
    errp,               \* ic.error: Null, or a pointer to the stored error
    once,               \* ic.closeOnce: "todo", "running", "done"
    innerClosed,        \* ic.Conn.Close() has been called
    stats,              \* the StatsEntry values given to tracker.RecordStats
    pc,                 \* pc[t]: "start", "inner" (inner call returned), "done"
    got,                \* got[t]: [n, err] the inner Read/Write returned
    panicked            \* a goroutine dereferenced a nil pointer

vars == <<bytesIn, bytesOut, errp, once, innerClosed, stats, pc, got, panicked>>

Init ==
    /\ bytesIn = 0 /\ bytesOut = 0
    /\ errp = Null
    /\ once = "todo"
    /\ innerClosed = FALSE
    /\ stats = <<>>
    /\ pc = [t \in Tasks |-> "start"]
    /\ got = [t \in Tasks |-> [n |-> 0, err |-> FALSE]]
    /\ panicked = FALSE

(* n, err := ic.Conn.Read(b) / ic.Conn.Write(b): once the inner connection *)
(* is closed the call fails with nothing transferred.                      *)
InnerIO(t) ==
    /\ ~panicked
    /\ Ops[t] \in {"read", "write"}
    /\ pc[t] = "start"
    /\ \E n \in 0..MaxN, err \in BOOLEAN :
         /\ innerClosed => n = 0 /\ err
         /\ got' = [got EXCEPT ![t] = [n |-> n, err |-> err]]
    /\ pc' = [pc EXCEPT ![t] = "inner"]
    /\ UNCHANGED <<bytesIn, bytesOut, errp, once, innerClosed, stats, panicked>>

(* if err != nil && *ic.error.Load() == nil { ic.error.Store(&err) };      *)
(* atomic.AddUint64(counter, uint64(n)). Dereferencing a Null pointer      *)
(* panics. A stored pointer is never to a nil error, so nothing is stored  *)
(* once a pointer is there.                                                *)
Account(t) ==
    /\ ~panicked
    /\ pc[t] = "inner"
    /\ IF got[t].err /\ errp = Null
         THEN /\ panicked' = TRUE
              /\ UNCHANGED <<bytesIn, bytesOut, pc>>
         ELSE /\ IF Ops[t] = "read"
                   THEN bytesIn' = bytesIn + got[t].n /\ UNCHANGED bytesOut
                   ELSE bytesOut' = bytesOut + got[t].n /\ UNCHANGED bytesIn
              /\ pc' = [pc EXCEPT ![t] = "done"]
              /\ UNCHANGED panicked
    /\ UNCHANGED <<errp, once, innerClosed, stats, got>>

(* ic.closeOnce.Do(ic.close): the first caller runs close(); dur and       *)
(* ic.Conn.Close(). A later caller returns at once (after the first one,   *)
(* since Do waits for it).                                                 *)
CloseStart(t) ==
    /\ ~panicked
    /\ Ops[t] = "close"
    /\ pc[t] = "start"
    /\ once # "running"
    /\ IF once = "todo"
         THEN /\ once' = "running"
              /\ innerClosed' = TRUE
              /\ pc' = [pc EXCEPT ![t] = "inner"]
         ELSE /\ pc' = [pc EXCEPT ![t] = "done"]
              /\ UNCHANGED <<once, innerClosed>>
    /\ UNCHANGED <<bytesIn, bytesOut, errp, stats, got, panicked>>

(* ic.tracker.RecordStats(StatsEntry{..., BytesIn: atomic.LoadUint64(..),  *)
(* BytesOut: atomic.LoadUint64(..), Error: *ic.error.Load()})              *)
CloseRecord(t) ==
    /\ ~panicked
    /\ Ops[t] = "close"
    /\ pc[t] = "inner"
    /\ IF errp = Null
         THEN /\ panicked' = TRUE
              /\ UNCHANGED <<stats, once, pc>>
         ELSE /\ stats' = Append(stats, [in |-> bytesIn, out |-> bytesOut])
              /\ once' = "done"
              /\ pc' = [pc EXCEPT ![t] = "done"]
              /\ UNCHANGED panicked
    /\ UNCHANGED <<bytesIn, bytesOut, errp, innerClosed, got>>

Next == \E t \in Tasks : InnerIO(t) \/ Account(t) \/ CloseStart(t) \/ CloseRecord(t)

Spec == Init /\ [][Next]_vars

-----------------------------------------------------------------------------
TypeOK ==
    /\ bytesIn \in Nat /\ bytesOut \in Nat
    /\ once \in {"todo", "running", "done"}
    /\ innerClosed \in BOOLEAN
    /\ stats \in Seq([in : Nat, out : Nat])
    /\ pc \in [Tasks -> {"start", "inner", "done"}]
    /\ panicked \in BOOLEAN

(* Spec 4.3 and 5: reads, writes and closes from any goroutines are safe,  *)
(* and the first Close() emits exactly one stats entry: no call panics,    *)
(* and a Close() that has returned has recorded one entry.                 *)
CloseRecordsStats ==
    /\ ~panicked
    /\ (\E t \in Tasks : Ops[t] = "close" /\ pc[t] = "done") => Len(stats) = 1

=============================================================================
