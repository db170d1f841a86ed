----------------------------- MODULE LeaseTable -----------------------------
(***************************************************************************)
(* delivery/lease.rs: the lease table is two indexes over the same leases, *)
(* by_key for look-ups and by_deadline for expiry.  Every operation edits  *)
(* both; expire_up_to trusts by_deadline alone.                            *)
(***************************************************************************)
EXTENDS Integers

CONSTANTS Subs, Seqs, Deadlines, Generations, None

Keys == Subs \X Seqs
Lease == [deadline: Deadlines, attempts: Generations, generation: Generations]

ASSUME LeaseAssumption ==
    Deadlines \subseteq Int /\ Generations \subseteq Nat /\ None \notin Lease

VARIABLES
    by_key,         \* <<sub, seq>> -> Lease or None
    by_deadline,    \* set of <<deadline, <<sub, seq>>>>
    reported        \* what the last expire_up_to returned

vars == <<by_key, by_deadline, reported>>

\* The two indexes and the report are within their domains.
TypeOK ==
    /\ by_key \in [Keys -> Lease \cup {None}]
    /\ by_deadline \subseteq Deadlines \X Keys
    /\ reported \subseteq Keys

Init == by_key = [k \in Keys |-> None] /\ by_deadline = {} /\ reported = {}

\* The by_deadline entry of a lease.
entry(k, lease) == <<lease.deadline, k>>

\* Mutant: the replaced lease keeps its entry.
insert_only(k, lease) ==
    /\ by_key' = [by_key EXCEPT ![k] = lease]
    /\ by_deadline' = by_deadline \cup {entry(k, lease)}
    /\ UNCHANGED reported

\* insert: an existing lease goes first, with its own entry.
insert(k, lease) ==
    LET kept == IF by_key[k] = None THEN by_deadline
                ELSE by_deadline \ {entry(k, by_key[k])}
    IN /\ by_key' = [by_key EXCEPT ![k] = lease]
       /\ by_deadline' = kept \cup {entry(k, lease)}
       /\ UNCHANGED reported

remove(k) ==
    /\ by_key[k] # None
    /\ by_key' = [by_key EXCEPT ![k] = None]
    /\ by_deadline' = by_deadline \ {entry(k, by_key[k])}
    /\ UNCHANGED reported

\* ack: only an ack_id of the current generation applies; any other changes nothing.
ack(k, generation) ==
    /\ by_key[k] # None
    /\ by_key[k].generation = generation
    /\ remove(k)

\* The deadline moves in both indexes (extend, nack_now).
move(k, deadline) ==
    /\ by_key' = [by_key EXCEPT ![k].deadline = deadline]
    /\ by_deadline' = (by_deadline \ {entry(k, by_key[k])}) \cup {<<deadline, k>>}
    /\ UNCHANGED reported

\* Mutant: the extension counts from the old deadline.
extend_twice(k, generation, deadline) ==
    /\ by_key[k] # None
    /\ by_key[k].generation = generation
    /\ move(k, by_key[k].deadline + deadline)

extend(k, generation, deadline) ==
    /\ by_key[k] # None
    /\ by_key[k].generation = generation
    /\ move(k, deadline)

nack_now(k, at) == by_key[k] # None /\ move(k, at)

\* Mutant: a deadline that has just come is not expired.
expire_before(t) ==
    LET expired == {e \in by_deadline : e[1] < t}
        gone == {k \in Keys : by_key[k] # None /\ \E e \in expired : e[2] = k}
    IN /\ by_deadline' = by_deadline \ expired
       /\ by_key' = [k \in Keys |-> IF k \in gone THEN None ELSE by_key[k]]
       /\ reported' = gone

\* expire_up_to: the entries up to t leave by_deadline; whatever lease they point
\* at leaves by_key and is reported.
expire_up_to(t) ==
    LET expired == {e \in by_deadline : e[1] <= t}
        gone == {k \in Keys : by_key[k] # None /\ \E e \in expired : e[2] = k}
    IN /\ by_deadline' = by_deadline \ expired
       /\ by_key' = [k \in Keys |-> IF k \in gone THEN None ELSE by_key[k]]
       /\ reported' = gone

remove_all_for_subscription(s) ==
    LET gone == {k \in Keys : k[1] = s /\ by_key[k] # None}
    IN /\ by_key' = [k \in Keys |-> IF k \in gone THEN None ELSE by_key[k]]
       /\ by_deadline' = by_deadline \ {entry(k, by_key[k]) : k \in gone}
       /\ UNCHANGED reported

Next ==
    \/ \E k \in Keys :
          \/ \E lease \in Lease : insert(k, lease)
          \/ remove(k)
          \/ \E g \in Generations : ack(k, g)
          \/ \E g \in Generations, d \in Deadlines : extend(k, g, d)
          \/ \E at \in Deadlines : nack_now(k, at)
    \/ \E t \in Deadlines : expire_up_to(t)
    \/ \E s \in Subs : remove_all_for_subscription(s)

Spec == Init /\ [][Next]_vars

-----------------------------------------------------------------------------
\* The indexes agree: by_deadline holds exactly the entries of the leases in
\* by_key.  A leftover entry would expire a lease before its deadline, a missing
\* one would leave it uncollected for ever.
IndexesAgree ==
    by_deadline = {entry(k, by_key[k]) : k \in {x \in Keys : by_key[x] # None}}

Map == INSTANCE LeaseMap WITH leases <- by_key

\* The table behaves as the map its callers take it for: in particular
\* expire_up_to removes and reports exactly the leases whose deadline has come.
ImplementsMap == Map!Spec

=============================================================================
