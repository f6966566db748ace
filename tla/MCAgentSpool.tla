---------------------------- MODULE MCAgentSpool ----------------------------
(* Two envelopes whose enqueue runs read distinct clock stamps, two that   *)
(* start in the same millisecond, or two that do and one that does not.    *)
EXTENDS AgentSpool

CONSTANTS r1, r2, r3

MCTwo       == {r1, r2}
MCThree     == {r1, r2, r3}
MCNames     == 1..2
MCDistinct  == [r \in MCTwo |-> IF r = r1 THEN 2 ELSE 1]
MCColliding == [r \in MCTwo |-> 1]
MCMixed     == [r \in MCThree |-> IF r = r3 THEN 2 ELSE 1]

\* No action reads the history of posts, and LostOnlyFromRecovered and QueueDrains
\* ask of it only whether a record was received.
MCView == <<enq, spool, flusher, [r \in Records |-> Received(r)], cut, crashes>>
=============================================================================
