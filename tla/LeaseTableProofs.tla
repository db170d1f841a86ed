-------------------------- MODULE LeaseTableProofs --------------------------
(***************************************************************************)
(* The two indexes of the lease table agree, and therefore the table is    *)
(* the map LeaseMap describes, for any sets of keys and deadlines.         *)
(***************************************************************************)
EXTENDS LeaseTable, TLAPS

\* IndexesAgree, entry by entry.
Entries ==
    \A d \in Deadlines : \A k \in Keys :
        <<d, k>> \in by_deadline <=> by_key[k] # None /\ by_key[k].deadline = d

TableInv == TypeOK /\ Entries

\* The element-wise form of IndexesAgree, which the provers handle better.
LEMMA EntriesAgree == TypeOK => (Entries <=> IndexesAgree)
<1> SUFFICES ASSUME TypeOK PROVE Entries <=> IndexesAgree
  OBVIOUS
<1> DEFINE E == {entry(k, by_key[k]) : k \in {x \in Keys : by_key[x] # None}}
<1>1. \A d \in Deadlines : \A k \in Keys :
         <<d, k>> \in E <=> by_key[k] # None /\ by_key[k].deadline = d
  BY DEF entry
<1>2. E \subseteq Deadlines \X Keys
  BY DEF TypeOK, entry, Lease
<1> HIDE DEF E
<1>3. Entries <=> \A d \in Deadlines : \A k \in Keys : <<d, k>> \in by_deadline <=> <<d, k>> \in E
  BY <1>1 DEF Entries
<1>4. (\A d \in Deadlines : \A k \in Keys : <<d, k>> \in by_deadline <=> <<d, k>> \in E)
         <=> by_deadline = E
  BY <1>2 DEF TypeOK
<1> QED BY <1>3, <1>4 DEF IndexesAgree, E

\* An empty table has empty indexes.
LEMMA TableInit == Init => TableInv
  BY DEF Init, TableInv, TypeOK, Entries

\* A key's lease is replaced, with its entry.
LEMMA ReplaceStep ==
    ASSUME TableInv, NEW k \in Keys, NEW lease \in Lease,
           by_key' = [by_key EXCEPT ![k] = lease],
           by_deadline' = (IF by_key[k] = None THEN by_deadline
                           ELSE by_deadline \ {entry(k, by_key[k])}) \cup {entry(k, lease)},
           UNCHANGED reported
    PROVE  TableInv'
<1>1. lease.deadline \in Deadlines /\ lease # None
  BY LeaseAssumption DEF Lease
<1>2. TypeOK'
  BY <1>1 DEF TableInv, TypeOK, entry
<1>3. ASSUME NEW d \in Deadlines, NEW j \in Keys
      PROVE  <<d, j>> \in by_deadline' <=> by_key'[j] # None /\ by_key'[j].deadline = d
  <2>1. CASE j = k
    BY <1>1, <2>1 DEF TableInv, TypeOK, Entries, entry
  <2>2. CASE j # k
    BY <2>2 DEF TableInv, TypeOK, Entries, entry
  <2> QED BY <2>1, <2>2
<1> QED BY <1>2, <1>3 DEF TableInv, Entries

\* The keys of G lose their leases, with their entries.
LEMMA DropStep ==
    ASSUME TableInv, NEW G \in SUBSET {k \in Keys : by_key[k] # None},
           by_key' = [k \in Keys |-> IF k \in G THEN None ELSE by_key[k]],
           by_deadline' = by_deadline \ {entry(k, by_key[k]) : k \in G},
           reported' \subseteq Keys
    PROVE  TableInv'
<1>1. TypeOK'
  BY DEF TableInv, TypeOK
<1>2. ASSUME NEW d \in Deadlines, NEW j \in Keys
      PROVE  <<d, j>> \in by_deadline' <=> by_key'[j] # None /\ by_key'[j].deadline = d
  <2>1. <<d, j>> \in {entry(k, by_key[k]) : k \in G} <=> j \in G /\ by_key[j].deadline = d
    BY DEF entry
  <2> QED BY <2>1 DEF TableInv, Entries
<1> QED BY <1>1, <1>2 DEF TableInv, Entries

\* What expire_up_to finds through by_deadline is what the map would expire.
LEMMA ExpiredAreDue ==
    ASSUME TableInv, NEW t \in Deadlines
    PROVE  LET expired == {e \in by_deadline : e[1] <= t}
               gone == {k \in Keys : by_key[k] # None /\ \E e \in expired : e[2] = k}
           IN /\ gone = {k \in Keys : by_key[k] # None /\ by_key[k].deadline <= t}
              /\ expired = {entry(k, by_key[k]) : k \in gone}
<1> DEFINE expired == {e \in by_deadline : e[1] <= t}
           gone == {k \in Keys : by_key[k] # None /\ \E e \in expired : e[2] = k}
           due == {k \in Keys : by_key[k] # None /\ by_key[k].deadline <= t}
<1>1. \A e \in by_deadline : e = <<e[1], e[2]>> /\ e[1] \in Deadlines /\ e[2] \in Keys
  BY DEF TableInv, TypeOK
<1>2. \A e \in by_deadline : by_key[e[2]] # None /\ by_key[e[2]].deadline = e[1]
  BY <1>1 DEF TableInv, Entries
<1>3. \A k \in Keys : by_key[k] # None => entry(k, by_key[k]) \in by_deadline
  <2> TAKE k \in Keys
  <2>1. by_key[k] # None => by_key[k].deadline \in Deadlines
    BY DEF TableInv, TypeOK, Lease
  <2> QED BY <2>1 DEF TableInv, Entries, entry
<1>4. gone = due
  BY <1>1, <1>2, <1>3 DEF entry
<1>5. expired = {entry(k, by_key[k]) : k \in due}
  BY <1>1, <1>2, <1>3 DEF entry
<1> QED BY <1>4, <1>5

\* Every operation of the lease table keeps types and the agreement of the indexes.
LEMMA TableNext == TableInv /\ [Next]_vars => TableInv'
<1> SUFFICES ASSUME TableInv, [Next]_vars PROVE TableInv'
  OBVIOUS
<1>1. ASSUME NEW k \in Keys, NEW lease \in Lease, insert(k, lease) PROVE TableInv'
  BY <1>1, ReplaceStep DEF insert
<1>2. ASSUME NEW k \in Keys, remove(k) PROVE TableInv'
  <2>1. by_key' = [j \in Keys |-> IF j \in {k} THEN None ELSE by_key[j]]
    BY <1>2 DEF remove, TableInv, TypeOK
  <2>2. by_deadline' = by_deadline \ {entry(j, by_key[j]) : j \in {k}}
    BY <1>2 DEF remove
  <2>3. {k} \in SUBSET {j \in Keys : by_key[j] # None} /\ reported' \subseteq Keys
    BY <1>2 DEF remove, TableInv, TypeOK
  <2> QED BY <2>1, <2>2, <2>3, DropStep
<1>3. ASSUME NEW k \in Keys, NEW d \in Deadlines, by_key[k] # None, move(k, d) PROVE TableInv'
  <2> DEFINE lease == [by_key[k] EXCEPT !.deadline = d]
  <2>1. by_key[k] \in Lease
    BY <1>3 DEF TableInv, TypeOK
  <2>2. lease \in Lease /\ lease.deadline = d
    BY <2>1 DEF Lease
  <2>3. by_key' = [by_key EXCEPT ![k] = lease]
    BY <1>3 DEF move
  <2>4. by_deadline' = (IF by_key[k] = None THEN by_deadline
                        ELSE by_deadline \ {entry(k, by_key[k])}) \cup {entry(k, lease)}
    BY <1>3, <2>2 DEF move, entry
  <2> HIDE DEF lease
  <2> QED BY <1>3, <2>2, <2>3, <2>4, ReplaceStep DEF move
<1>4. ASSUME NEW t \in Deadlines, expire_up_to(t) PROVE TableInv'
  <2> DEFINE gone == {k \in Keys : by_key[k] # None /\ by_key[k].deadline <= t}
  <2>1. /\ by_deadline' = by_deadline \ {entry(k, by_key[k]) : k \in gone}
        /\ by_key' = [k \in Keys |-> IF k \in gone THEN None ELSE by_key[k]]
        /\ reported' = gone
    BY <1>4, ExpiredAreDue DEF expire_up_to
  <2>2. gone \in SUBSET {k \in Keys : by_key[k] # None} /\ gone \subseteq Keys
    OBVIOUS
  <2> HIDE DEF gone
  <2> QED BY <2>1, <2>2, DropStep
<1>5. ASSUME NEW s \in Subs, remove_all_for_subscription(s) PROVE TableInv'
  <2> DEFINE gone == {k \in Keys : k[1] = s /\ by_key[k] # None}
  <2>1. /\ by_deadline' = by_deadline \ {entry(k, by_key[k]) : k \in gone}
        /\ by_key' = [k \in Keys |-> IF k \in gone THEN None ELSE by_key[k]]
        /\ reported' \subseteq Keys
    BY <1>5 DEF remove_all_for_subscription, TableInv, TypeOK
  <2>2. gone \in SUBSET {k \in Keys : by_key[k] # None}
    OBVIOUS
  <2> HIDE DEF gone
  <2> QED BY <2>1, <2>2, DropStep
<1>6. CASE UNCHANGED vars
  BY <1>6 DEF vars, TableInv, TypeOK, Entries
<1> QED BY <1>1, <1>2, <1>3, <1>4, <1>5, <1>6 DEF Next, ack, extend, nack_now

\* After any sequence of operations on the table, by_deadline holds exactly one
\* entry for every lease in by_key, at its deadline, and no other.
THEOREM IndexesAlwaysAgree == Spec => [](TypeOK /\ IndexesAgree)
<1>1. TableInv => TypeOK /\ IndexesAgree
  BY EntriesAgree DEF TableInv
<1> QED BY <1>1, TableInit, TableNext, PTL DEF Spec

\* Every operation of the table is an operation of the map: in particular
\* expire_up_to, which reads by_deadline only, expires what by_key says is due.
LEMMA MapStep == TableInv /\ [Next]_vars => [Map!Next]_(Map!vars)
<1> SUFFICES ASSUME TableInv, [Next]_vars PROVE Map!Next \/ UNCHANGED <<by_key, reported>>
  BY DEF Map!vars
<1> USE DEF Map!Keys, Keys, Map!Lease, Lease
<1>1. ASSUME NEW k \in Keys, NEW lease \in Lease, insert(k, lease) PROVE Map!Next
  <2>1. Map!Put(k, lease)
    BY <1>1 DEF insert, Map!Put
  <2> QED BY <2>1 DEF Map!Next
<1>2. ASSUME NEW k \in Keys, remove(k) PROVE Map!Next
  <2>1. Map!Drop({k})
    BY <1>2 DEF remove, Map!Drop, TableInv, TypeOK
  <2>2. {k} \in SUBSET Map!Keys
    OBVIOUS
  <2> QED BY <2>1, <2>2 DEF Map!Next
<1>3. ASSUME NEW k \in Keys, NEW d \in Deadlines, by_key[k] # None, move(k, d) PROVE Map!Next
  <2> DEFINE lease == [by_key[k] EXCEPT !.deadline = d]
  <2>1. lease \in Lease
    BY <1>3 DEF TableInv, TypeOK
  <2>2. Map!Put(k, lease)
    BY <1>3 DEF move, Map!Put
  <2> HIDE DEF lease
  <2> QED BY <2>1, <2>2 DEF Map!Next
<1>4. ASSUME NEW t \in Deadlines, expire_up_to(t) PROVE Map!Next
  <2>1. Map!ExpireUpTo(t)
    BY <1>4, ExpiredAreDue DEF expire_up_to, Map!ExpireUpTo
  <2> QED BY <2>1 DEF Map!Next
<1>5. ASSUME NEW s \in Subs, remove_all_for_subscription(s) PROVE Map!Next
  <2> DEFINE gone == {k \in Keys : k[1] = s /\ by_key[k] # None}
  <2>1. Map!Drop(gone)
    BY <1>5 DEF remove_all_for_subscription, Map!Drop
  <2>2. gone \in SUBSET Map!Keys
    OBVIOUS
  <2> HIDE DEF gone
  <2> QED BY <2>1, <2>2 DEF Map!Next
<1>6. CASE UNCHANGED vars
  BY <1>6 DEF vars
<1> QED BY <1>1, <1>2, <1>3, <1>4, <1>5, <1>6 DEF Next, ack, extend, nack_now

\* The lease table implements the map the delivery engine takes it for.
THEOREM TableImplementsMap == Spec => ImplementsMap
<1>1. Init => Map!Init
  BY DEF Init, Map!Init, Map!Keys, Keys
<1> QED BY <1>1, TableInit, TableNext, MapStep, PTL DEF Spec, ImplementsMap, Map!Spec

=============================================================================
