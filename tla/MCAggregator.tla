----------------------------- MODULE MCAggregator -----------------------------
(* Two events in one bucket with pages of one event; two runs that may     *)
(* overlap.                                                                *)
EXTENDS Aggregator, TLC

CONSTANTS r1, r2, b1

MCEvents   == 1..2
MCBuckets  == {b1}
MCBucketOf == [e \in MCEvents |-> b1]
MCRuns     == {r1, r2}

\* No step reads what a finished run knew.
MCView == <<now, posted, store, faults,
            [r \in Runs |-> IF pc[r] = "off" THEN None
                            ELSE <<pc[r], start[r], end[r], first[r], todo[r], got[r]>>]>>
=============================================================================
