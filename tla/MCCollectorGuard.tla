--------------------------- MODULE MCCollectorGuard ---------------------------
(* Two events, flushes of one post, two faults; one task, a window of two *)
(* periods with one restart in it.                                         *)
EXTENDS CollectorGuard, TLC

CONSTANTS e1, e2, t1

MCEvents == {e1, e2}
MCCap    == [f \in Flush |-> IF f = "turn" THEN 2 ELSE 1]
MCTasks  == {t1}
=============================================================================
