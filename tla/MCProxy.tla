------------------------------- MODULE MCProxy -------------------------------
(* Model-checking instance of Proxy: two client connections, message      *)
(* kinds and Close() callers are fixed per run by the .cfg files.          *)
EXTENDS Proxy, TLC

CONSTANTS c1, c2, k1, k2

MCConns == {c1, c2}
MCOneConn == {c1}
MCOneCloser == {k1}
MCTwoClosers == {k1, k2}
MCNoCloser == {}
MCNoBad == MsgKinds \ {"bad"}
MCBadOnly == {"keep", "bad"}
MCTwoKinds == {"keep", "connect"}

(* Connections are interchangeable: nothing in Proxy names one of them. *)
MCSymmetry == Permutations(MCConns)
=============================================================================
