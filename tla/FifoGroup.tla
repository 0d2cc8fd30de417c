------------------------------ MODULE FifoGroup ------------------------------
(***************************************************************************)
(* fifo.Group (src/fifo/fifo_group.go): ordered lists of request and       *)
(* response modifiers with an aggregateErrors flag, nested groups, and the *)
(* ToImmutable snapshot that inlines a nested group whose flag matches.    *)
(*                                                                         *)
(* The state is the configuration the mutating operations build           *)
(* (SetAggregateErrors, AddRequestModifier, AddResponseModifier). Running  *)
(* the lists (ModifyRequest / ModifyResponse) and snapshotting them        *)
(* (ToImmutable) change no group, so they are operators evaluated on every *)
(* reachable configuration and compared with the specification's           *)
(* reference semantics. A leaf modifier is a model value; which leaves     *)
(* return an error on a call is the set F quantified over by a property.   *)
(*                                                                         *)
(* Groups are 1..NumGroups and a group only ever holds groups numbered     *)
(* above it: groupFromJSON builds a tree of fresh groups, and a cycle      *)
(* would make every ModifyRequest recurse forever.                         *)
(***************************************************************************)
EXTENDS Naturals, Sequences, SequencesExt

CONSTANTS
    NumGroups,   \* number of *Group values
    Leaves,      \* leaf modifiers (neither *Group nor *ImmutableGroup)
    MaxMods,     \* bound on the length of each list
    MaxEntries,  \* bound on the number of entries in all lists together
    Nil          \* the nil error

ASSUME FifoGroupAssumption ==
    /\ NumGroups \in Nat \ {0}
    /\ MaxMods \in Nat
    /\ MaxEntries \in Nat
    /\ Nil \notin Leaves

Groups == 1..NumGroups
Sides == {"req", "res"}

VARIABLES
    mods,       \* mods[g]["req"] = g.reqmods, mods[g]["res"] = g.resmods
    aggregate   \* aggregate[g] = g.aggregateErrors

vars == <<mods, aggregate>>

(***************************************************************************)
(* A list entry is a leaf, a *Group (the record [grp |-> h] for group h)   *)
(* or an *ImmutableGroup (the record [req, res, agg] of its lists and its  *)
(* flag).                                                                  *)
(***************************************************************************)
Ref(h) == [grp |-> h]
IsGroup(e) == e \notin Leaves /\ "grp" \in DOMAIN e

(* NewGroup(): both lists empty, aggregation off.                          *)
Init ==
    /\ mods = [g \in Groups |-> [s \in Sides |-> <<>>]]
    /\ aggregate = [g \in Groups |-> FALSE]

(* g.aggregateErrors = aggerr, written with no lock.                       *)
SetAggregateErrors(g, b) ==
    /\ aggregate' = [aggregate EXCEPT ![g] = b]
    /\ UNCHANGED mods

(* Under the side's write lock: g.reqmods = append(g.reqmods, reqmod).     *)
Entries == LET n[G \in SUBSET Groups] ==
                   IF G = {} THEN 0
                   ELSE LET h == CHOOSE x \in G : TRUE
                        IN  Len(mods[h]["req"]) + Len(mods[h]["res"]) + n[G \ {h}]
           IN n[Groups]

AddModifier(g, s, m) ==
    /\ Len(mods[g][s]) < MaxMods
    /\ Entries < MaxEntries
    /\ m \in Leaves \cup {Ref(h) : h \in {x \in Groups : x > g}}
    /\ mods' = [mods EXCEPT ![g][s] = Append(@, m)]
    /\ UNCHANGED aggregate

AddRequestModifier(g, m) == AddModifier(g, "req", m)
AddResponseModifier(g, m) == AddModifier(g, "res", m)

Next ==
    \E g \in Groups :
        \/ \E b \in BOOLEAN : SetAggregateErrors(g, b)
        \/ \E m \in Leaves \cup {Ref(h) : h \in Groups} :
              AddRequestModifier(g, m) \/ AddResponseModifier(g, m)

Spec == Init /\ [][Next]_vars

-----------------------------------------------------------------------------
(***************************************************************************)
(* Errors. A leaf's error is the leaf itself; a *martian.MultiError is a   *)
(* record holding the sequence of errors added to it. Its Error() string  *)
(* joins the members' strings, so what a caller can observe is the         *)
(* flattened sequence of leaf errors (Render).                             *)
(***************************************************************************)
Multi(errs) == [multi |-> errs]

RECURSIVE Render(_)
Render(e) ==
    IF e = Nil THEN <<>>
    ELSE IF e \in Leaves THEN <<e>>
    ELSE FlattenSeq([i \in 1..Len(e.multi) |-> Render(e.multi[i])])

(***************************************************************************)
(* group.ModifyRequest / group.ModifyResponse: run the entries in order.   *)
(* An entry that errors stops the run unless aggregating, in which case    *)
(* the error is added to merr (created on the first error) and the loop   *)
(* continues. The result is [trace: leaves run, in order; err].            *)
(* Exec runs one entry: a leaf, a *Group (its own list under its lock) or  *)
(* an *ImmutableGroup.                                                     *)
(***************************************************************************)
RECURSIVE Exec(_, _, _), RunFrom(_, _, _, _, _, _, _)

Exec(e, s, F) ==
    IF e \in Leaves THEN [trace |-> <<e>>, err |-> IF e \in F THEN e ELSE Nil]
    ELSE IF IsGroup(e) THEN RunFrom(mods[e.grp][s], aggregate[e.grp], s, F, 1, <<>>, Nil)
    ELSE RunFrom(e[s], e.agg, s, F, 1, <<>>, Nil)

(* Mutant: a new MultiError is made for every error (merr == nil test lost). *)
RunFromFreshMulti(list, agg, s, F, i, trace, merr) ==
    IF i > Len(list)
      THEN [trace |-> trace,
            err |-> IF merr = Nil \/ merr.multi = <<>> THEN Nil ELSE merr]
      ELSE LET r == Exec(list[i], s, F) IN
           IF r.err = Nil
             THEN RunFrom(list, agg, s, F, i + 1, trace \o r.trace, merr)
           ELSE IF agg
             THEN RunFrom(list, agg, s, F, i + 1, trace \o r.trace, Multi(<<r.err>>))
           ELSE [trace |-> trace \o r.trace, err |-> r.err]

RunFrom(list, agg, s, F, i, trace, merr) ==
    IF i > Len(list)
      THEN [trace |-> trace,
            err |-> IF merr = Nil \/ merr.multi = <<>> THEN Nil ELSE merr]
      ELSE LET r == Exec(list[i], s, F) IN
           IF r.err = Nil
             THEN RunFrom(list, agg, s, F, i + 1, trace \o r.trace, merr)
           ELSE IF agg
             THEN RunFrom(list, agg, s, F, i + 1, trace \o r.trace,
                          Multi((IF merr = Nil THEN <<>> ELSE merr.multi) \o <<r.err>>))
           ELSE [trace |-> trace \o r.trace, err |-> r.err]

(* Group.ModifyRequest(req) / Group.ModifyResponse(res). *)
ModifyRequest(g, F) == Exec(Ref(g), "req", F)
ModifyResponse(g, F) == Exec(Ref(g), "res", F)

(***************************************************************************)
(* Group.ToImmutable: under g's two locks, copy each list; a nested *Group *)
(* is snapshotted recursively and its list for that side is inlined when   *)
(* its flag equals g's, else kept as one *ImmutableGroup entry.            *)
(***************************************************************************)
RECURSIVE ToImmutable(_)

(* Mutant: a nested group is inlined whatever its flag. *)
ToImmutableAlwaysInline(g) ==
    LET Part(m, s) == IF IsGroup(m) THEN ToImmutable(m.grp)[s] ELSE <<m>>
        Snap(s) == FlattenSeq([i \in 1..Len(mods[g][s]) |-> Part(mods[g][s][i], s)])
    IN  [req |-> Snap("req"), res |-> Snap("res"), agg |-> aggregate[g]]

ToImmutable(g) ==
    LET Part(m, s) ==
            IF IsGroup(m)
              THEN LET im == ToImmutable(m.grp) IN
                   IF aggregate[g] = im.agg THEN im[s] ELSE <<im>>
              ELSE <<m>>
        Snap(s) == FlattenSeq([i \in 1..Len(mods[g][s]) |-> Part(mods[g][s][i], s)])
    IN  [req |-> Snap("req"), res |-> Snap("res"), agg |-> aggregate[g]]

-----------------------------------------------------------------------------
(***************************************************************************)
(* The specification's semantics (spec section 8): with aggregate = false, *)
(* entries after the first failing entry k do not run and the error is     *)
(* entry k's; with aggregate = true every entry runs and the error is      *)
(* success when none failed, else holds every entry's error in order.      *)
(***************************************************************************)
RECURSIVE RefExec(_, _, _)
RefExec(e, s, F) ==
    LET list == IF IsGroup(e) THEN mods[e.grp][s] ELSE e[s]
        agg  == IF IsGroup(e) THEN aggregate[e.grp] ELSE e.agg
        R    == [i \in 1..Len(list) |-> RefExec(list[i], s, F)]
        Fail == {i \in 1..Len(list) : R[i].err # Nil}
        Upto(k) == FlattenSeq([i \in 1..k |-> R[i].trace])
        k    == CHOOSE i \in Fail : \A j \in Fail : i <= j
        Errs == SelectSeq([i \in 1..Len(list) |-> R[i].err], LAMBDA x : x # Nil)
    IN  IF e \in Leaves THEN [trace |-> <<e>>, err |-> IF e \in F THEN e ELSE Nil]
        ELSE IF Fail = {} THEN [trace |-> Upto(Len(list)), err |-> Nil]
        ELSE IF agg THEN [trace |-> Upto(Len(list)), err |-> Multi(Errs)]
        ELSE [trace |-> Upto(k), err |-> R[k].err]

Observe(r) == [trace |-> r.trace, err |-> Render(r.err), failed |-> r.err # Nil]

TypeOK ==
    /\ \A g \in Groups, s \in Sides :
         /\ mods[g][s] \in BoundedSeq(Leaves \cup {Ref(h) : h \in Groups}, MaxMods)
         /\ \A i \in DOMAIN mods[g][s] : IsGroup(mods[g][s][i]) => mods[g][s][i].grp > g
    /\ mods \in [Groups -> [Sides -> Seq(Leaves \cup {Ref(h) : h \in Groups})]]
    /\ aggregate \in [Groups -> BOOLEAN]

(* fifo_group.go 39-64 and spec section 8: for every configuration the     *)
(* Add and SetAggregateErrors calls can build and every choice of failing  *)
(* leaves, a group's ModifyRequest and ModifyResponse run exactly the      *)
(* entries and return exactly the error the specification prescribes,     *)
(* nested groups included.                                                 *)
ModifySemantics ==
    \A g \in Groups, s \in Sides, F \in SUBSET Leaves :
        Exec(Ref(g), s, F) = RefExec(Ref(g), s, F)

(* fifo_group.go 287-329 and spec section 8: the ImmutableGroup that       *)
(* ToImmutable returns behaves as the group did: for every choice of       *)
(* failing leaves it runs the same leaves in the same order and returns an *)
(* error with the same rendering (inlining a child only when the flags     *)
(* match is what makes this hold).                                         *)
ImmutablePreservesSemantics ==
    \A g \in Groups, s \in Sides, F \in SUBSET Leaves :
        Observe(Exec(ToImmutable(g), s, F)) = Observe(Exec(Ref(g), s, F))

=============================================================================
