------------------------------- MODULE Cursor -------------------------------
(***************************************************************************)
(* A subscription's ack position (store/codec.rs, CursorRecord) and the    *)
(* one operation that advances it (delivery/engine.rs, mark_done).         *)
(*                                                                         *)
(* Every seq up to acked_floor is done; acked_above_floor holds the seqs   *)
(* beyond it that were done out of order.  mark_done keeps the pair        *)
(* compact: a seq that closes the gap right above the floor absorbs the    *)
(* run of done seqs that follows it.                                       *)
(***************************************************************************)
EXTENDS Integers

\* CursorRecord over the seqs of S.
CursorRecord(S) ==
    [attach_seq: Nat, acked_floor: Nat, acked_above_floor: SUBSET S]

\* The cursor SubscriptionStore::create writes: everything up to the log tail
\* at creation time counts as done.
new_cursor(tail) ==
    [attach_seq |-> tail, acked_floor |-> tail, acked_above_floor |-> {}]

\* The test lease_next makes before it considers a message.
is_done(c, seq) == seq <= c.acked_floor \/ seq \in c.acked_above_floor

\* Where the `while remove(floor + 1)` loop of mark_done stops when it starts
\* from floor = seq: the end of the unbroken run of done seqs after seq.
run_end(done, seq) ==
    CHOOSE f \in {seq} \cup done :
        f >= seq /\ seq + 1 .. f \subseteq done /\ f + 1 \notin done

\* Mutant: the floor jumps to an out-of-order seq.
mark_done_over_gap(c, seq) ==
    IF seq <= c.acked_floor THEN c ELSE [c EXCEPT !.acked_floor = seq]

\* mark_done(cursor, seq): nothing below the floor; absorb the run right above
\* it; otherwise remember the seq out of order.
mark_done(c, seq) ==
    IF seq <= c.acked_floor THEN c
    ELSE IF seq = c.acked_floor + 1
    THEN LET f == run_end(c.acked_above_floor, seq)
         IN [c EXCEPT !.acked_floor = f, !.acked_above_floor = @ \ (seq + 1 .. f)]
    ELSE [c EXCEPT !.acked_above_floor = @ \cup {seq}]

=============================================================================
