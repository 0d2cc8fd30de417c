---------------------------- MODULE MCConnMetric ----------------------------
(* Model-checking instance of ConnMetric: a reader, a writer and a closer. *)
EXTENDS ConnMetric

CONSTANTS r1, w1, x1

MCTasks == {r1, w1, x1}
MCOps == [t \in MCTasks |-> IF t = r1 THEN "read" ELSE IF t = w1 THEN "write" ELSE "close"]
=============================================================================
