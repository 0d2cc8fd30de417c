------------------------------ MODULE Shutdown ------------------------------
(***************************************************************************)
(* What Proxy.Close promises, stated without the wait group, the mutex or  *)
(* the steps of a handler (spec 4.5 "Graceful shutdown" and proxy.go's     *)
(* comment on Close): once shutdown is signalled no connection starts      *)
(* being served, and a Close() call returns only when no connection is     *)
(* being served. Proxy implements this specification (Proxy.tla,           *)
(* ShutdownRefinement; ProxyProofs.tla, Refinement).                       *)
(***************************************************************************)
CONSTANTS
    Conns,     \* client connections
    Closers    \* callers of Close()

VARIABLES
    signalled, \* shutdown has been signalled
    active,    \* the connections being served
    returned   \* the Close() calls that have returned

vars == <<signalled, active, returned>>

Init ==
    /\ signalled = FALSE
    /\ active = {}
    /\ returned = {}

Signal ==
    /\ ~signalled
    /\ signalled' = TRUE
    /\ UNCHANGED <<active, returned>>

(* A connection starts being served only before shutdown is signalled.    *)
Admit(c) ==
    /\ ~signalled
    /\ c \notin active
    /\ active' = active \cup {c}
    /\ UNCHANGED <<signalled, returned>>

Finish(c) ==
    /\ c \in active
    /\ active' = active \ {c}
    /\ UNCHANGED <<signalled, returned>>

(* Close() returns once shutdown is signalled and nothing is served.      *)
Return(k) ==
    /\ signalled
    /\ active = {}
    /\ k \notin returned
    /\ returned' = returned \cup {k}
    /\ UNCHANGED <<signalled, active>>

Next ==
    \/ Signal
    \/ \E c \in Conns : Admit(c) \/ Finish(c)
    \/ \E k \in Closers : Return(k)

Spec == Init /\ [][Next]_vars

=============================================================================
