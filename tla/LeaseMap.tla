------------------------------ MODULE LeaseMap ------------------------------
(***************************************************************************)
(* What the lease table promises its callers: a map from (sub, seq) to the *)
(* current lease.  DeliveryEngine's variable `leases` is such a map.       *)
(***************************************************************************)
EXTENDS Integers

CONSTANTS Subs, Seqs, Deadlines, Generations, None

Keys == Subs \X Seqs
Lease == [deadline: Deadlines, attempts: Generations, generation: Generations]

VARIABLES
    leases,     \* <<sub, seq>> -> Lease or None
    reported    \* what the last expire_up_to returned

vars == <<leases, reported>>

Init == leases = [k \in Keys |-> None] /\ reported = {}

Put(k, lease) == leases' = [leases EXCEPT ![k] = lease] /\ UNCHANGED reported

Drop(S) ==
    /\ leases' = [k \in Keys |-> IF k \in S THEN None ELSE leases[k]]
    /\ UNCHANGED reported

\* Expiry takes out, and reports, exactly the leases whose deadline has come.
ExpireUpTo(t) ==
    LET S == {k \in Keys : leases[k] # None /\ leases[k].deadline <= t}
    IN /\ leases' = [k \in Keys |-> IF k \in S THEN None ELSE leases[k]]
       /\ reported' = S

Next ==
    \/ \E k \in Keys, lease \in Lease : Put(k, lease)
    \/ \E S \in SUBSET Keys : Drop(S)
    \/ \E t \in Deadlines : ExpireUpTo(t)

Spec == Init /\ [][Next]_vars

=============================================================================
