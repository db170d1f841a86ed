---------------------------- MODULE SeqBoundary ----------------------------
(* TopicStore::seq_boundary_for_time as a function of the log: the seqs that have a *)
(* row, their publish times, and the seq counter.                                  *)
EXTENDS Naturals

\* Binary search over [1, tail].  A missing row counts as "before".
boundary(tail, log, publish_ts, time) ==
    LET before(seq) == seq \notin log \/ publish_ts[seq] < time
        search[lo \in Nat, hi \in Nat] ==
            IF lo < hi
            THEN LET mid == lo + ((hi - lo) \div 2)
                 IN IF before(mid) THEN search[mid + 1, hi] ELSE search[lo, mid]
            ELSE lo
    IN search[1, tail + 1]

=============================================================================
