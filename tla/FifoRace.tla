------------------------------ MODULE FifoRace ------------------------------
(***************************************************************************)
(* One fifo.Group's ModifyRequest running while another goroutine calls    *)
(* SetAggregateErrors (src/fifo/fifo_group.go). ModifyRequest holds        *)
(* g.reqmu.RLock and group.ModifyRequest reads g.aggregateErrors at every  *)
(* failing entry; SetAggregateErrors writes it with no lock at all. The    *)
(* loop is one step per entry so that the write can fall between two of   *)
(* them; a read racing the write sees the old or the new value.            *)
(***************************************************************************)
EXTENDS Naturals, Sequences

CONSTANTS
    Mods,   \* g.reqmods: a sequence of leaf modifiers (model values)
    Nil     \* the nil error

(* Nil is not one of the modifiers. *)

VARIABLES
    agg,    \* g.aggregateErrors
    fails,  \* the modifiers that return an error on this request
    i,      \* the loop's next index into g.reqmods
    merr,   \* the loop's merr: Nil, or the errors added to it
    done,   \* ModifyRequest has returned
    ret     \* the error it returned

vars == <<agg, fails, i, merr, done, ret>>

Multi(errs) == [multi |-> errs]

Init ==
    /\ agg \in BOOLEAN
    /\ fails \in SUBSET {Mods[k] : k \in DOMAIN Mods}
    /\ i = 1 /\ merr = Nil /\ done = FALSE /\ ret = Nil

(* for _, reqmod := range g.reqmods: one entry. An error is added to merr  *)
(* (created on the first one) if g.aggregateErrors, else returned.         *)
RunEntry ==
    /\ ~done /\ i <= Len(Mods)
    /\ IF Mods[i] \notin fails
         THEN i' = i + 1 /\ UNCHANGED <<merr, done, ret>>
       ELSE IF agg
         THEN /\ merr' = (IF merr = Nil THEN <<>> ELSE merr) \o <<Mods[i]>>
              /\ i' = i + 1 /\ UNCHANGED <<done, ret>>
         ELSE ret' = Mods[i] /\ done' = TRUE /\ UNCHANGED <<i, merr>>
    /\ UNCHANGED <<agg, fails>>

(* if merr == nil || merr.Empty() { return nil }; return merr *)
Return ==
    /\ ~done /\ i > Len(Mods)
    /\ ret' = IF merr = Nil \/ merr = <<>> THEN Nil ELSE Multi(merr)
    /\ done' = TRUE
    /\ UNCHANGED <<agg, fails, i, merr>>

(* g.aggregateErrors = aggerr, from another goroutine. *)
SetAggregateErrors(b) ==
    /\ ~done
    /\ agg' = b
    /\ UNCHANGED <<fails, i, merr, done, ret>>

Next == RunEntry \/ Return \/ \E b \in BOOLEAN : SetAggregateErrors(b)

Spec == Init /\ [][Next]_vars

-----------------------------------------------------------------------------
TypeOK ==
    /\ agg \in BOOLEAN /\ i \in 1..Len(Mods) + 1
    /\ merr = Nil \/ merr \in Seq(fails)
    /\ done \in BOOLEAN

(* The failing entries in order, and what the two policies return. *)
Failed == SelectSeq(Mods, LAMBDA m : m \in fails)
PolicyResult(b) ==
    IF Failed = <<>> THEN Nil ELSE IF b THEN Multi(Failed) ELSE Head(Failed)

(* SetAggregateErrors' comment and spec section 8: a group either stops at *)
(* the first error or returns all of them; whenever the flag is set, each  *)
(* ModifyRequest returns what one of the two policies prescribes.          *)
OnePolicyPerCall ==
    done => \E b \in BOOLEAN : ret = PolicyResult(b)

=============================================================================
