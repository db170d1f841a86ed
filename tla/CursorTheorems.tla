--------------------------- MODULE CursorTheorems ---------------------------
(***************************************************************************)
(* What mark_done does to a cursor, for every cursor and every seq: it     *)
(* makes exactly that seq done and leaves every other one as it was.       *)
(***************************************************************************)
EXTENDS Cursor, WellFoundedInduction, TLAPS

\* The loop of mark_done stops: above any seq there is an end to the run of done
\* seqs, because only seqs up to a bound N can be done.
LEMMA RunEndExists ==
    ASSUME NEW N \in Nat, NEW done \in SUBSET (1 .. N), NEW seq \in 1 .. N
    PROVE  \E f \in {seq} \cup done :
              f >= seq /\ seq + 1 .. f \subseteq done /\ f + 1 \notin done
<1> DEFINE T == {n \in Nat : n >= seq /\ n + 1 \notin done}
           R == OpToRel(<, Nat)
<1>1. T # {} /\ T \subseteq Nat
  <2>1. N \in T
    OBVIOUS
  <2> QED BY <2>1
<1>2. PICK m \in T : \A n \in T : <<n, m>> \notin R
  <2> HIDE DEF T, R
  <2>1. IsWellFoundedOn(R, Nat)
    BY NatLessThanWellFounded DEF R
  <2> QED BY <1>1, <2>1, WFMin
<1>3. \A n \in T : ~(n < m)
  BY <1>2 DEF OpToRel
<1>4. seq + 1 .. m \subseteq done
  <2> SUFFICES ASSUME NEW x \in seq + 1 .. m PROVE x \in done
    OBVIOUS
  <2>1. x - 1 \in Nat /\ x - 1 >= seq /\ x - 1 < m /\ (x - 1) + 1 = x
    OBVIOUS
  <2> QED BY <1>3, <2>1
<1>5. m \in {seq} \cup done
  BY <1>4
<1> QED BY <1>4, <1>5

\* run_end, where the loop starts, has the properties its CHOOSE asks for.
LEMMA RunEndProperty ==
    ASSUME NEW N \in Nat, NEW done \in SUBSET (1 .. N), NEW seq \in 1 .. N
    PROVE  LET f == run_end(done, seq)
           IN f \in 1 .. N /\ f >= seq /\ seq + 1 .. f \subseteq done /\ f + 1 \notin done
<1>1. \E f \in {seq} \cup done :
          f >= seq /\ seq + 1 .. f \subseteq done /\ f + 1 \notin done
  BY RunEndExists
<1> QED BY <1>1 DEF run_end

\* mark_done makes exactly seq done: it forgets nothing that was done, and passes
\* over nothing that was not.
THEOREM MarkDoneExact ==
    ASSUME NEW N \in Nat, NEW c \in CursorRecord(1 .. N), NEW seq \in 1 .. N
    PROVE  /\ mark_done(c, seq) \in CursorRecord(1 .. N)
           /\ \A x \in 1 .. N : is_done(mark_done(c, seq), x) <=> is_done(c, x) \/ x = seq
<1>1. CASE seq <= c.acked_floor
  BY <1>1 DEF mark_done, is_done, CursorRecord
<1>2. CASE ~(seq <= c.acked_floor) /\ seq = c.acked_floor + 1
  <2> DEFINE f == run_end(c.acked_above_floor, seq)
  <2>1. f \in 1 .. N /\ f >= seq /\ seq + 1 .. f \subseteq c.acked_above_floor
    BY RunEndProperty DEF CursorRecord
  <2> HIDE DEF f
  <2>2. mark_done(c, seq) =
           [c EXCEPT !.acked_floor = f, !.acked_above_floor = @ \ (seq + 1 .. f)]
    BY <1>2 DEF mark_done, f
  <2>3. mark_done(c, seq) \in CursorRecord(1 .. N)
    <3>1. /\ f \in Nat
          /\ c.acked_above_floor \ (seq + 1 .. f) \in SUBSET (1 .. N)
      BY <2>1 DEF CursorRecord
    <3> QED BY <2>2, <3>1 DEF CursorRecord
  <2>4. ASSUME NEW x \in 1 .. N
        PROVE  is_done(mark_done(c, seq), x) <=> is_done(c, x) \/ x = seq
    <3>1. is_done(mark_done(c, seq), x)
             <=> x <= f \/ (x \in c.acked_above_floor /\ x \notin seq + 1 .. f)
      BY <2>2 DEF is_done, CursorRecord
    <3>2. x <= f <=> x <= c.acked_floor \/ x = seq \/ x \in seq + 1 .. f
      BY <1>2, <2>1 DEF CursorRecord
    <3> QED BY <2>1, <3>1, <3>2 DEF is_done
  <2> QED BY <2>3, <2>4
<1>3. CASE ~(seq <= c.acked_floor) /\ seq # c.acked_floor + 1
  BY <1>3 DEF mark_done, is_done, CursorRecord
<1> QED BY <1>1, <1>2, <1>3

=============================================================================
