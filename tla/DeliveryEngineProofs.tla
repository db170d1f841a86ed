------------------------ MODULE DeliveryEngineProofs ------------------------
(***************************************************************************)
(* Proofs about DeliveryEngine, for any number of subscriptions, handlers, *)
(* messages and deliveries.                                                *)
(***************************************************************************)
EXTENDS DeliveryEngine, CursorTheorems

\* A handler that serves a request knows its subscription.
Busy == \A h \in Handlers : hs[h].pc # "idle" => hs[h].sub \in Subs

Types == TypeOK /\ Busy

\* A handler between requests is well typed.
LEMMA IdleType == Idle \in Handler /\ Idle.pc = "idle"
  BY ConstantsAssumption DEF Idle, Handler, PCs, new_cursor, CursorRecord

\* A step that only gives one handler a new, well-formed state keeps Types.
LEMMA HandlerStep ==
    ASSUME Types, NEW h \in Handlers, NEW r \in Handler,
           r.pc # "idle" => r.sub \in Subs, hs' = [hs EXCEPT ![h] = r]
    PROVE  hs' \in [Handlers -> Handler] /\ Busy'
  BY DEF Types, TypeOK, Busy

\* The bound on the log is a natural number.
LEMMA SeqsRange == MaxSeq \in Nat /\ Seqs = 1 .. MaxSeq
  BY ConstantsAssumption DEF Seqs

\* The attempts lease_next reads from a lease or a row are a natural number.
LEMMA PriorAttemptsType ==
    ASSUME Types, NEW k \in Keys
    PROVE  prior(k) \in Lease \cup {None} /\ prior_attempts(k) \in Nat
  BY DEF Types, TypeOK, prior, prior_attempts, Lease

\* A freshly started server is well typed.
LEMMA TypesInit == Init => Types
<1> SUFFICES ASSUME Init PROVE Types
  OBVIOUS
<1>1. hs \in [Handlers -> Handler] /\ Busy
  BY IdleType DEF Init, Busy
<1>2. new_cursor(0) \in CursorRecord(Seqs)
  BY DEF new_cursor, CursorRecord
<1> QED BY <1>1, <1>2 DEF Init, Types, TypeOK

\* lease_next preserves types: each of its steps changes one handler, and at most
\* one lease with its row.
LEMMA TypesLeaseNext ==
    ASSUME Types, NEW h \in Handlers, LeaseNext(h)
    PROVE  Types'
<1> USE DEF kv, history
<1>1. ASSUME NEW s \in Subs, LeaseNextLoad(h, s) PROVE Types'
  <2>1. PICK m \in 1 .. MaxPull :
          hs' = [hs EXCEPT ![h] = [Idle EXCEPT !.pc = "lease_load", !.sub = s, !.at = now,
                                               !.cur = cursor[s], !.room = m]]
    BY <1>1 DEF LeaseNextLoad
  <2> DEFINE r == [Idle EXCEPT !.pc = "lease_load", !.sub = s, !.at = now,
                               !.cur = cursor[s], !.room = m]
  <2>2. r \in Handler /\ r.sub = s
    <3>1. m \in Nat /\ cursor[s] \in CursorRecord(Seqs) /\ now \in Nat
      BY ConstantsAssumption DEF Types, TypeOK
    <3> QED BY <3>1 DEF Idle, Handler, PCs
  <2> HIDE DEF r
  <2>3. hs' \in [Handlers -> Handler] /\ Busy'
    BY <2>1, <2>2, HandlerStep DEF r
  <2> QED BY <1>1, <2>3 DEF LeaseNextLoad, Types, TypeOK
<1>2. ASSUME LeaseNextLock(h) PROVE Types'
  <2> DEFINE r == [hs[h] EXCEPT !.pc = "lease_scan",
                      !.todo = {seq \in log : prior_attempts(<<hs[h].sub, seq>>) < MaxAttempts}]
  <2>1. hs' = [hs EXCEPT ![h] = r] /\ hs[h].sub \in Subs
    BY <1>2 DEF LeaseNextLock, Types, TypeOK, Busy
  <2>2. r \in Handler /\ r.sub = hs[h].sub
    BY DEF Handler, PCs, Types, TypeOK
  <2> HIDE DEF r
  <2>3. hs' \in [Handlers -> Handler] /\ Busy'
    BY <2>1, <2>2, HandlerStep
  <2> QED BY <1>2, <2>3 DEF LeaseNextLock, Types, TypeOK
<1>3. ASSUME NEW seq \in Seqs, LeaseNextSkip(h, seq) PROVE Types'
  <2> DEFINE r == [hs[h] EXCEPT !.todo = @ \ {seq}]
  <2>1. hs' = [hs EXCEPT ![h] = r] /\ hs[h].sub \in Subs
    BY <1>3 DEF LeaseNextSkip, Visiting, Types, TypeOK, Busy
  <2>2. r \in Handler /\ r.sub = hs[h].sub
    BY DEF Handler, Types, TypeOK
  <2> HIDE DEF r
  <2>3. hs' \in [Handlers -> Handler] /\ Busy'
    BY <2>1, <2>2, HandlerStep
  <2> QED BY <1>3, <2>3 DEF LeaseNextSkip, Types, TypeOK
<1>4. ASSUME NEW seq \in Seqs, LeaseNextFilter(h, seq) PROVE Types'
  <2> DEFINE r == [hs[h] EXCEPT !.todo = @ \ {seq}, !.dirty = TRUE, !.cur = mark_done(@, seq)]
  <2>1. hs' = [hs EXCEPT ![h] = r] /\ hs[h].sub \in Subs
    BY <1>4 DEF LeaseNextFilter, Visiting, Types, TypeOK, Busy
  <2>2. mark_done(hs[h].cur, seq) \in CursorRecord(Seqs)
    BY SeqsRange, MarkDoneExact DEF Types, TypeOK, Handler
  <2>3. r \in Handler /\ r.sub = hs[h].sub
    BY <2>2 DEF Handler, Types, TypeOK
  <2> HIDE DEF r
  <2>4. hs' \in [Handlers -> Handler] /\ Busy'
    BY <2>1, <2>3, HandlerStep
  <2> QED BY <1>4, <2>4 DEF LeaseNextFilter, Types, TypeOK
<1>5. ASSUME NEW seq \in Seqs, LeaseNextForward(h, seq) PROVE Types'
  <2> DEFINE r == [hs[h] EXCEPT !.pc = "forwarded"]
  <2>1. hs' = [hs EXCEPT ![h] = r] /\ hs[h].sub \in Subs
    BY <1>5 DEF LeaseNextForward, Eligible, Visiting, Types, TypeOK, Busy
  <2>2. r \in Handler /\ r.sub = hs[h].sub
    BY DEF Handler, PCs, Types, TypeOK
  <2> HIDE DEF r
  <2>3. hs' \in [Handlers -> Handler] /\ Busy'
    BY <2>1, <2>2, HandlerStep
  <2>4. dlq' \subseteq Keys
    BY <1>5, <2>1 DEF LeaseNextForward, Types, TypeOK, Keys
  <2> QED BY <1>5, <2>3, <2>4 DEF LeaseNextForward, Types, TypeOK
<1>6. ASSUME NEW seq \in Seqs, LeaseNextForwarded(h, seq) PROVE Types'
  <2> DEFINE r == [hs[h] EXCEPT !.pc = "lease_scan", !.todo = @ \ {seq},
                                !.dirty = TRUE, !.cur = mark_done(@, seq)]
  <2>1. hs' = [hs EXCEPT ![h] = r] /\ hs[h].sub \in Subs
    BY <1>6 DEF LeaseNextForwarded, Types, TypeOK, Busy
  <2>2. mark_done(hs[h].cur, seq) \in CursorRecord(Seqs)
    BY SeqsRange, MarkDoneExact DEF Types, TypeOK, Handler
  <2>3. r \in Handler /\ r.sub = hs[h].sub
    BY <2>2 DEF Handler, PCs, Types, TypeOK
  <2> HIDE DEF r
  <2>4. hs' \in [Handlers -> Handler] /\ Busy'
    BY <2>1, <2>3, HandlerStep
  <2> QED BY <1>6, <2>4 DEF LeaseNextForwarded, Types, TypeOK
<1>7. ASSUME NEW seq \in Seqs, LeaseNextGrant(h, seq) PROVE Types'
  <2> DEFINE k == <<hs[h].sub, seq>>
             lease == new_lease(prior_attempts(k), hs[h].at)
             id == [sub |-> hs[h].sub, seq |-> seq, generation |-> lease.generation]
             r == [hs[h] EXCEPT !.todo = @ \ {seq}, !.room = @ - 1, !.out = @ \cup {id}]
  <2>1. hs' = [hs EXCEPT ![h] = r] /\ hs[h].sub \in Subs /\ hs[h].room > 0
    BY <1>7 DEF LeaseNextGrant, Eligible, Visiting, Types, TypeOK, Busy
  <2>2. lease \in Lease
    <3>1. prior_attempts(k) \in Nat /\ hs[h].at + ack_deadline \in Nat
      BY <2>1, PriorAttemptsType, ConstantsAssumption DEF Types, TypeOK, Handler, Keys
    <3> QED BY <3>1 DEF new_lease, Lease
  <2> HIDE DEF lease
  <2>3. id \in AckId
    BY <2>1, <2>2 DEF AckId, Lease
  <2> HIDE DEF id
  <2>4. r \in Handler /\ r.sub = hs[h].sub
    <3>1. hs[h].room - 1 \in Nat /\ hs[h].out \cup {id} \in SUBSET AckId
      BY <2>1, <2>3 DEF Handler, Types, TypeOK
    <3> QED BY <3>1 DEF Handler, Types, TypeOK
  <2> HIDE DEF r
  <2>5. hs' \in [Handlers -> Handler] /\ Busy'
    BY <2>1, <2>4, HandlerStep
  <2>6. /\ leases' = [leases EXCEPT ![k] = lease]
        /\ dlv' = [dlv EXCEPT ![k] = lease]
        /\ promised' = [promised EXCEPT ![k] = lease.deadline]
    BY <1>7 DEF LeaseNextGrant, lease
  <2>7. /\ leases' \in [Keys -> Lease \cup {None}] /\ dlv' \in [Keys -> Lease \cup {None}]
        /\ promised' \in [Keys -> Nat]
    BY <2>2, <2>6 DEF Types, TypeOK, Lease
  <2> QED BY <1>7, <2>5, <2>7 DEF LeaseNextGrant, Types, TypeOK
<1>8. ASSUME LeaseNextReturn(h) PROVE Types'
  <2>1. hs' \in [Handlers -> Handler] /\ Busy'
    BY <1>8, IdleType, HandlerStep DEF LeaseNextReturn, SaveAndUnlock
  <2>2. cursor' \in [Subs -> CursorRecord(Seqs)]
    BY <1>8 DEF LeaseNextReturn, SaveAndUnlock, Types, TypeOK, Handler
  <2>3. issued' \subseteq AckId
    BY <1>8 DEF LeaseNextReturn, Types, TypeOK, Handler
  <2> QED BY <1>8, <2>1, <2>2, <2>3 DEF LeaseNextReturn, SaveAndUnlock, Types, TypeOK
<1> QED BY <1>1, <1>2, <1>3, <1>4, <1>5, <1>6, <1>7, <1>8 DEF LeaseNext, LeaseNextScan

\* acknowledge preserves types.
LEMMA TypesAcknowledge ==
    ASSUME Types, NEW h \in Handlers, Acknowledge(h)
    PROVE  Types'
<1> USE DEF kv, history
<1>1. ASSUME NEW s \in Subs, AcknowledgeLoad(h, s) PROVE Types'
  <2>1. PICK ids \in SUBSET Presentable(s) :
          hs' = [hs EXCEPT ![h] = [Idle EXCEPT !.pc = "ack_load", !.sub = s,
                                               !.cur = cursor[s], !.ids = ids]]
    BY <1>1 DEF AcknowledgeLoad
  <2> DEFINE r == [Idle EXCEPT !.pc = "ack_load", !.sub = s, !.cur = cursor[s], !.ids = ids]
  <2>2. r \in Handler /\ r.sub = s
    <3>1. ids \subseteq AckId /\ cursor[s] \in CursorRecord(Seqs)
      BY DEF Types, TypeOK, Presentable
    <3> QED BY <3>1 DEF Idle, Handler, PCs
  <2> HIDE DEF r
  <2>3. hs' \in [Handlers -> Handler] /\ Busy'
    BY <2>1, <2>2, HandlerStep DEF r
  <2> QED BY <1>1, <2>3 DEF AcknowledgeLoad, Types, TypeOK
<1>2. ASSUME AcknowledgeLock(h) PROVE Types'
  <2> DEFINE r == [hs[h] EXCEPT !.pc = "ack_apply"]
  <2>1. hs' = [hs EXCEPT ![h] = r] /\ hs[h].sub \in Subs
    BY <1>2 DEF AcknowledgeLock, Types, TypeOK, Busy
  <2>2. r \in Handler /\ r.sub = hs[h].sub
    BY DEF Handler, PCs, Types, TypeOK
  <2> HIDE DEF r
  <2>3. hs' \in [Handlers -> Handler] /\ Busy'
    BY <2>1, <2>2, HandlerStep
  <2> QED BY <1>2, <2>3 DEF AcknowledgeLock, Types, TypeOK
<1>3. ASSUME NEW id \in hs[h].ids, AcknowledgeApply(h, id) PROVE Types'
  <2> DEFINE r == [hs[h] EXCEPT !.ids = @ \ {id}, !.out = @ \cup {id},
                                !.dirty = TRUE, !.cur = mark_done(@, id.seq)]
  <2>1. hs' = [hs EXCEPT ![h] = r] /\ hs[h].sub \in Subs
    BY <1>3 DEF AcknowledgeApply, Types, TypeOK, Busy
  <2>2. id \in AckId /\ id.sub \in Subs /\ id.seq \in Seqs
    BY DEF Types, TypeOK, Handler, AckId
  <2>3. mark_done(hs[h].cur, id.seq) \in CursorRecord(Seqs)
    BY <2>2, SeqsRange, MarkDoneExact DEF Types, TypeOK, Handler
  <2>4. r \in Handler /\ r.sub = hs[h].sub
    BY <2>2, <2>3 DEF Handler, Types, TypeOK
  <2> HIDE DEF r
  <2>5. hs' \in [Handlers -> Handler] /\ Busy'
    BY <2>1, <2>4, HandlerStep
  <2>6. acked' \subseteq Keys
    BY <1>3, <2>2 DEF AcknowledgeApply, Types, TypeOK, Keys
  <2> QED BY <1>3, <2>5, <2>6 DEF AcknowledgeApply, Types, TypeOK
<1>4. ASSUME NEW id \in hs[h].ids, AcknowledgeIgnore(h, id) PROVE Types'
  <2> DEFINE r == [hs[h] EXCEPT !.ids = @ \ {id}]
  <2>1. hs' = [hs EXCEPT ![h] = r] /\ hs[h].sub \in Subs
    BY <1>4 DEF AcknowledgeIgnore, Types, TypeOK, Busy
  <2>2. r \in Handler /\ r.sub = hs[h].sub
    BY DEF Handler, Types, TypeOK
  <2> HIDE DEF r
  <2>3. hs' \in [Handlers -> Handler] /\ Busy'
    BY <2>1, <2>2, HandlerStep
  <2> QED BY <1>4, <2>3 DEF AcknowledgeIgnore, Types, TypeOK
<1>5. ASSUME AcknowledgeReturn(h) PROVE Types'
  <2>1. hs' \in [Handlers -> Handler] /\ Busy'
    BY <1>5, IdleType, HandlerStep DEF AcknowledgeReturn, SaveAndUnlock
  <2>2. cursor' \in [Subs -> CursorRecord(Seqs)]
    BY <1>5 DEF AcknowledgeReturn, SaveAndUnlock, Types, TypeOK, Handler
  <2>3. confirmed' \subseteq Keys
    BY <1>5 DEF AcknowledgeReturn, Types, TypeOK, Handler, AckId, Keys
  <2> QED BY <1>5, <2>1, <2>2, <2>3 DEF AcknowledgeReturn, SaveAndUnlock, Types, TypeOK
<1> QED BY <1>1, <1>2, <1>3, <1>4, <1>5 DEF Acknowledge, AcknowledgeRest

\* modify_ack_deadline preserves types.
LEMMA TypesModifyAckDeadline ==
    ASSUME Types, NEW h \in Handlers, ModifyAckDeadline(h)
    PROVE  Types'
<1> USE DEF kv, history
<1>1. ASSUME NEW s \in Subs, ModifyAckDeadlineLoad(h, s) PROVE Types'
  <2>1. PICK id \in Presentable(s), seconds \in Extensions :
          hs' = [hs EXCEPT ![h] = [Idle EXCEPT !.pc = "modify", !.sub = s, !.at = now,
                                               !.ids = {id}, !.secs = seconds]]
    BY <1>1 DEF ModifyAckDeadlineLoad
  <2> DEFINE r == [Idle EXCEPT !.pc = "modify", !.sub = s, !.at = now,
                               !.ids = {id}, !.secs = seconds]
  <2>2. r \in Handler /\ r.sub = s
    <3>1. id \in AckId /\ now \in Nat /\ seconds \in Nat
      BY ConstantsAssumption DEF Types, TypeOK, Presentable
    <3>2. new_cursor(0) \in CursorRecord(Seqs)
      BY DEF new_cursor, CursorRecord
    <3> QED BY <3>1, <3>2 DEF Idle, Handler, PCs
  <2> HIDE DEF r
  <2>3. hs' \in [Handlers -> Handler] /\ Busy'
    BY <2>1, <2>2, HandlerStep DEF r
  <2> QED BY <1>1, <2>3 DEF ModifyAckDeadlineLoad, Types, TypeOK
<1>2. ASSUME NEW id \in hs[h].ids, ModifyAckDeadlineApply(h, id) PROVE Types'
  <2> DEFINE k == <<id.sub, id.seq>>
             lease == extended(k, hs[h].at, hs[h].secs)
  <2>1. hs' \in [Handlers -> Handler] /\ Busy'
    BY <1>2, IdleType, HandlerStep DEF ModifyAckDeadlineApply
  <2>2. k \in Keys
    BY DEF Types, TypeOK, Handler, AckId, Keys
  <2>3. CASE names_current_lease(id)
    <3>1. leases[k] \in Lease
      BY <2>2, <2>3 DEF names_current_lease, Types, TypeOK
    <3>2. hs[h].at + hs[h].secs \in Nat
      BY DEF Types, TypeOK, Handler
    <3>3. lease \in Lease /\ lease.deadline \in Nat
      BY <3>1, <3>2 DEF extended, Lease
    <3>4. /\ leases' = [leases EXCEPT ![k] = lease]
          /\ dlv' = [dlv EXCEPT ![<<hs[h].sub, id.seq>>] = lease]
          /\ promised' = [promised EXCEPT ![k] = IF hs[h].secs = 0 THEN 0 ELSE lease.deadline]
      BY <1>2, <2>3 DEF ModifyAckDeadlineApply
    <3> HIDE DEF lease
    <3>5. /\ leases' \in [Keys -> Lease \cup {None}] /\ dlv' \in [Keys -> Lease \cup {None}]
          /\ promised' \in [Keys -> Nat]
      BY <3>3, <3>4 DEF Types, TypeOK
    <3> QED BY <1>2, <2>1, <3>5 DEF ModifyAckDeadlineApply, Types, TypeOK
  <2>4. CASE ~names_current_lease(id)
    BY <1>2, <2>1, <2>4 DEF ModifyAckDeadlineApply, Types, TypeOK
  <2> QED BY <2>3, <2>4
<1> QED BY <1>1, <1>2 DEF ModifyAckDeadline, ModifyAckDeadlineRest

\* Every step of the engine preserves types.
LEMMA TypesNext == Types /\ [Next]_vars => Types'
<1> SUFFICES ASSUME Types, [Next]_vars PROVE Types'
  OBVIOUS
<1> USE DEF kv, history
<1>1. CASE Tick
  BY <1>1 DEF Tick, Types, TypeOK, Busy
<1>2. CASE Publish
  <2>1. tail' \in Nat /\ tail' \in Seqs
    BY <1>2, SeqsRange DEF Publish, Types, TypeOK
  <2> QED BY <1>2, <2>1 DEF Publish, Types, TypeOK, Busy
<1>3. CASE DeleteDlqTopic
  BY <1>3 DEF DeleteDlqTopic, Types, TypeOK, Busy
<1>4. CASE Crash
  <2>1. hs' \in [Handlers -> Handler] /\ Busy'
    BY <1>4, IdleType DEF Crash, Busy
  <2> QED BY <1>4, <2>1 DEF Crash, recover, Types, TypeOK
<1>5. ASSUME NEW s \in Subs, SweepExpired(s) PROVE Types'
  <2>1. ASSUME NEW lease \in Lease PROVE [lease EXCEPT !.deadline = now] \in Lease
    BY DEF Lease, Types, TypeOK
  <2>2. leases' \in [Keys -> Lease \cup {None}]
    BY <1>5, <2>1 DEF SweepExpired, Types, TypeOK
  <2> QED BY <1>5, <2>2 DEF SweepExpired, Types, TypeOK, Busy
<1>6. CASE UNCHANGED vars
  BY <1>6 DEF vars, Types, TypeOK, Busy
<1> QED BY <1>1, <1>2, <1>3, <1>4, <1>5, <1>6,
           TypesLeaseNext, TypesAcknowledge, TypesModifyAckDeadline DEF Next

\* Every variable stays within its domain, whatever the bounds: no request, sweep or
\* crash leaves a malformed cursor, lease or row behind.
THEOREM TypeCorrect == Spec => []TypeOK
<1>1. Types => TypeOK
  BY DEF Types
<1> QED BY <1>1, TypesInit, TypesNext, PTL DEF Spec

-----------------------------------------------------------------------------
(* NothingLost.  The persisted cursors alone are not inductive: what a     *)
(* handler will write back is the cursor it carries, so that one must be   *)
(* sound too; the message a handler has forwarded, but not yet marked      *)
(* done, must be in the dead-letter topic; and acknowledge marks done on   *)
(* its own subscription, so an ack_id must name that subscription.         *)

\* What a handler's state r promises.
Sound(r) ==
    /\ \A id \in r.ids : id.sub = r.sub
    /\ r.pc # "idle" => \A seq \in Seqs : is_done(r.cur, seq) => <<r.sub, seq>> \in Settled
    /\ r.pc = "forwarded" =>
          \A seq \in r.todo : (\A q \in r.todo : seq <= q) => <<r.sub, seq>> \in dlq

CursorInv == NothingLost /\ \A h \in Handlers : Sound(hs[h])

\* Among the seqs of the log, mark_done makes exactly the given one done.
LEMMA MarkDoneSeqs ==
    ASSUME NEW c \in CursorRecord(Seqs), NEW seq \in Seqs
    PROVE  \A x \in Seqs : is_done(mark_done(c, seq), x) <=> is_done(c, x) \/ x = seq
  BY SeqsRange, MarkDoneExact

\* Settled messages stay settled, so handlers a step does not touch stay sound.
LEMMA OthersSound ==
    ASSUME CursorInv, NEW h \in Handlers, NEW r, Types,
           hs' = [hs EXCEPT ![h] = r], Sound(hs[h])',
           acked \subseteq acked', dlq \subseteq dlq'
    PROVE  \A i \in Handlers : Sound(hs[i])'
<1> SUFFICES ASSUME NEW i \in Handlers, i # h PROVE Sound(hs[i])'
  OBVIOUS
<1>1. hs'[i] = hs[i] /\ Sound(hs[i])
  BY DEF Types, TypeOK, CursorInv
<1>2. Settled \subseteq Settled'
  BY DEF Settled
<1> QED BY <1>1, <1>2 DEF Sound

\* Nothing is done at the start.
LEMMA CursorInvInit == Init => CursorInv
<1> SUFFICES ASSUME Init PROVE CursorInv
  OBVIOUS
<1>1. \A seq \in Seqs : ~is_done(new_cursor(0), seq)
  BY SeqsRange DEF is_done, new_cursor
<1>2. NothingLost
  BY <1>1 DEF Init, NothingLost
<1>3. \A h \in Handlers : Sound(hs[h])
  BY DEF Init, Idle, Sound
<1> QED BY <1>2, <1>3 DEF CursorInv

\* Writing back a sound cursor loses nothing.
LEMMA CursorInvSave ==
    ASSUME Types, CursorInv, NEW h \in Handlers, SaveAndUnlock(h),
           hs[h].pc # "idle", dlq' = dlq, acked' = acked
    PROVE  CursorInv'
<1>1. Settled' = Settled
  BY DEF Settled
<1>2. NothingLost'
  <2> SUFFICES ASSUME NEW s \in Subs, NEW seq \in Seqs, is_done(cursor'[s], seq)
               PROVE  <<s, seq>> \in Settled
    BY <1>1 DEF NothingLost
  <2>1. cursor'[s] = cursor[s] \/ (s = hs[h].sub /\ cursor'[s] = hs[h].cur)
    BY DEF SaveAndUnlock, Types, TypeOK
  <2> QED BY <2>1 DEF CursorInv, NothingLost, Sound
<1>3. hs' = [hs EXCEPT ![h] = Idle] /\ Sound(hs[h])'
  BY DEF SaveAndUnlock, Types, TypeOK, Sound, Idle
<1>4. \A i \in Handlers : Sound(hs[i])'
  BY <1>3, OthersSound
<1> QED BY <1>2, <1>4 DEF CursorInv

\* lease_next marks done what the filter rejects and what it has forwarded, only.
LEMMA CursorInvLeaseNext ==
    ASSUME Types, CursorInv, NEW h \in Handlers, LeaseNext(h)
    PROVE  CursorInv'
<1> USE DEF kv, history
<1>1. ASSUME NEW s \in Subs, LeaseNextLoad(h, s) PROVE CursorInv'
  <2>1. PICK m \in 1 .. MaxPull :
          hs' = [hs EXCEPT ![h] = [Idle EXCEPT !.pc = "lease_load", !.sub = s, !.at = now,
                                               !.cur = cursor[s], !.room = m]]
    BY <1>1 DEF LeaseNextLoad
  <2>2. NothingLost /\ NothingLost' /\ Settled' = Settled /\ dlq' = dlq /\ acked' = acked
    BY <1>1 DEF LeaseNextLoad, CursorInv, NothingLost, Settled
  <2>3. hs'[h].ids = {} /\ hs'[h].pc = "lease_load" /\ hs'[h].sub = s /\ hs'[h].cur = cursor[s]
    BY <2>1 DEF Idle, Types, TypeOK
  <2>4. Sound(hs[h])'
    BY <2>2, <2>3 DEF Sound, NothingLost
  <2> QED BY <2>1, <2>2, <2>4, OthersSound DEF CursorInv
<1>2. ASSUME LeaseNextLock(h) PROVE CursorInv'
  <2> DEFINE r == [hs[h] EXCEPT !.pc = "lease_scan",
                      !.todo = {seq \in log : prior_attempts(<<hs[h].sub, seq>>) < MaxAttempts}]
  <2>1. hs' = [hs EXCEPT ![h] = r] /\ hs[h].pc # "idle"
    BY <1>2 DEF LeaseNextLock
  <2>2. NothingLost' /\ Settled' = Settled /\ dlq' = dlq /\ acked' = acked
    BY <1>2 DEF LeaseNextLock, CursorInv, NothingLost, Settled
  <2>3. /\ hs'[h].pc = "lease_scan" /\ hs'[h].ids = hs[h].ids
        /\ hs'[h].sub = hs[h].sub /\ hs'[h].cur = hs[h].cur
    BY <2>1 DEF Types, TypeOK, Handler
  <2>4. Sound(hs[h])'
    BY <2>1, <2>2, <2>3 DEF Sound, CursorInv
  <2> QED BY <2>1, <2>2, <2>4, OthersSound DEF CursorInv
<1>3. ASSUME NEW seq \in Seqs, LeaseNextSkip(h, seq) PROVE CursorInv'
  <2> DEFINE r == [hs[h] EXCEPT !.todo = @ \ {seq}]
  <2>1. hs' = [hs EXCEPT ![h] = r] /\ hs[h].pc = "lease_scan"
    BY <1>3 DEF LeaseNextSkip, Visiting
  <2>2. NothingLost' /\ Settled' = Settled /\ dlq' = dlq /\ acked' = acked
    BY <1>3 DEF LeaseNextSkip, CursorInv, NothingLost, Settled
  <2>3. /\ hs'[h].pc = "lease_scan" /\ hs'[h].ids = hs[h].ids
        /\ hs'[h].sub = hs[h].sub /\ hs'[h].cur = hs[h].cur
    BY <2>1 DEF Types, TypeOK, Handler
  <2>4. Sound(hs[h])'
    BY <2>1, <2>2, <2>3 DEF Sound, CursorInv
  <2> QED BY <2>1, <2>2, <2>4, OthersSound DEF CursorInv
<1>4. ASSUME NEW seq \in Seqs, LeaseNextFilter(h, seq) PROVE CursorInv'
  <2> DEFINE r == [hs[h] EXCEPT !.todo = @ \ {seq}, !.dirty = TRUE, !.cur = mark_done(@, seq)]
  <2>1. /\ hs' = [hs EXCEPT ![h] = r] /\ hs[h].pc = "lease_scan"
        /\ <<hs[h].sub, seq>> \in Settled
    BY <1>4 DEF LeaseNextFilter, Visiting, Settled
  <2>2. NothingLost' /\ Settled' = Settled /\ dlq' = dlq /\ acked' = acked
    BY <1>4 DEF LeaseNextFilter, CursorInv, NothingLost, Settled
  <2>3. /\ hs'[h].pc = "lease_scan" /\ hs'[h].ids = hs[h].ids
        /\ hs'[h].sub = hs[h].sub /\ hs'[h].cur = mark_done(hs[h].cur, seq)
    BY <2>1 DEF Types, TypeOK, Handler
  <2>4. \A x \in Seqs : is_done(hs'[h].cur, x) <=> is_done(hs[h].cur, x) \/ x = seq
    BY <2>3, MarkDoneSeqs DEF Types, TypeOK, Handler
  <2>5. Sound(hs[h])'
    BY <2>1, <2>2, <2>3, <2>4 DEF Sound, CursorInv
  <2> QED BY <2>1, <2>2, <2>5, OthersSound DEF CursorInv
<1>5. ASSUME NEW seq \in Seqs, LeaseNextForward(h, seq) PROVE CursorInv'
  <2> DEFINE r == [hs[h] EXCEPT !.pc = "forwarded"]
  <2>1. /\ hs' = [hs EXCEPT ![h] = r] /\ hs[h].pc = "lease_scan"
        /\ seq \in hs[h].todo /\ (\A q \in hs[h].todo : seq <= q)
        /\ dlq' = dlq \cup {<<hs[h].sub, seq>>}
    BY <1>5 DEF LeaseNextForward, Eligible, Visiting
  <2>2. NothingLost' /\ Settled \subseteq Settled' /\ acked' = acked
    BY <1>5 DEF LeaseNextForward, CursorInv, NothingLost, Settled
  <2>3. /\ hs'[h].pc = "forwarded" /\ hs'[h].ids = hs[h].ids /\ hs'[h].todo = hs[h].todo
        /\ hs'[h].sub = hs[h].sub /\ hs'[h].cur = hs[h].cur
    BY <2>1 DEF Types, TypeOK, Handler
  <2>4. \A q \in hs[h].todo : (\A x \in hs[h].todo : q <= x) => q = seq
    BY <2>1, SeqsRange DEF Types, TypeOK, Handler
  <2>5. Sound(hs[h])'
    BY <2>1, <2>2, <2>3, <2>4 DEF Sound, CursorInv
  <2> QED BY <2>1, <2>2, <2>5, OthersSound DEF CursorInv
<1>6. ASSUME NEW seq \in Seqs, LeaseNextForwarded(h, seq) PROVE CursorInv'
  <2> DEFINE r == [hs[h] EXCEPT !.pc = "lease_scan", !.todo = @ \ {seq},
                                !.dirty = TRUE, !.cur = mark_done(@, seq)]
  <2>1. /\ hs' = [hs EXCEPT ![h] = r] /\ hs[h].pc = "forwarded"
        /\ seq \in hs[h].todo /\ (\A q \in hs[h].todo : seq <= q)
    BY <1>6 DEF LeaseNextForwarded
  <2>2. NothingLost' /\ Settled' = Settled /\ dlq' = dlq /\ acked' = acked
    BY <1>6 DEF LeaseNextForwarded, CursorInv, NothingLost, Settled
  <2>3. /\ hs'[h].pc = "lease_scan" /\ hs'[h].ids = hs[h].ids
        /\ hs'[h].sub = hs[h].sub /\ hs'[h].cur = mark_done(hs[h].cur, seq)
    BY <2>1 DEF Types, TypeOK, Handler
  <2>4. \A x \in Seqs : is_done(hs'[h].cur, x) <=> is_done(hs[h].cur, x) \/ x = seq
    BY <2>3, MarkDoneSeqs DEF Types, TypeOK, Handler
  <2>5. <<hs[h].sub, seq>> \in Settled
    BY <2>1 DEF CursorInv, Sound, Settled
  <2>6. Sound(hs[h])'
    BY <2>1, <2>2, <2>3, <2>4, <2>5 DEF Sound, CursorInv
  <2> QED BY <2>1, <2>2, <2>6, OthersSound DEF CursorInv
<1>7. ASSUME NEW seq \in Seqs, LeaseNextGrant(h, seq) PROVE CursorInv'
  <2> DEFINE lease == new_lease(prior_attempts(<<hs[h].sub, seq>>), hs[h].at)
             id == [sub |-> hs[h].sub, seq |-> seq, generation |-> lease.generation]
             r == [hs[h] EXCEPT !.todo = @ \ {seq}, !.room = @ - 1, !.out = @ \cup {id}]
  <2>1. hs' = [hs EXCEPT ![h] = r] /\ hs[h].pc = "lease_scan"
    BY <1>7 DEF LeaseNextGrant, Eligible, Visiting
  <2>2. NothingLost' /\ Settled' = Settled /\ dlq' = dlq /\ acked' = acked
    BY <1>7 DEF LeaseNextGrant, CursorInv, NothingLost, Settled
  <2> HIDE DEF id
  <2>3. /\ hs'[h].pc = "lease_scan" /\ hs'[h].ids = hs[h].ids
        /\ hs'[h].sub = hs[h].sub /\ hs'[h].cur = hs[h].cur
    BY <2>1 DEF Types, TypeOK, Handler
  <2>4. Sound(hs[h])'
    BY <2>1, <2>2, <2>3 DEF Sound, CursorInv
  <2> QED BY <2>1, <2>2, <2>4, OthersSound DEF CursorInv
<1>8. ASSUME LeaseNextReturn(h) PROVE CursorInv'
  <2>1. SaveAndUnlock(h) /\ dlq' = dlq /\ acked' = acked /\ hs[h].pc # "idle"
    BY <1>8 DEF LeaseNextReturn, ScanDone
  <2> QED BY <2>1, CursorInvSave
<1> QED BY <1>1, <1>2, <1>3, <1>4, <1>5, <1>6, <1>7, <1>8 DEF LeaseNext, LeaseNextScan

\* acknowledge marks done what a client acked on this subscription, only.
LEMMA CursorInvAcknowledge ==
    ASSUME ~ForeignAckIds, Types, CursorInv, NEW h \in Handlers, Acknowledge(h)
    PROVE  CursorInv'
<1> USE DEF kv, history
<1>1. ASSUME NEW s \in Subs, AcknowledgeLoad(h, s) PROVE CursorInv'
  <2>1. PICK ids \in SUBSET Presentable(s) :
          hs' = [hs EXCEPT ![h] = [Idle EXCEPT !.pc = "ack_load", !.sub = s,
                                               !.cur = cursor[s], !.ids = ids]]
    BY <1>1 DEF AcknowledgeLoad
  <2>2. NothingLost /\ NothingLost' /\ Settled' = Settled /\ dlq' = dlq /\ acked' = acked
    BY <1>1 DEF AcknowledgeLoad, CursorInv, NothingLost, Settled
  <2>3. hs'[h].ids = ids /\ hs'[h].pc = "ack_load" /\ hs'[h].sub = s /\ hs'[h].cur = cursor[s]
    BY <2>1 DEF Idle, Types, TypeOK
  <2>4. \A id \in ids : id.sub = s
    BY DEF Presentable
  <2>5. Sound(hs[h])'
    BY <2>2, <2>3, <2>4 DEF Sound, NothingLost
  <2> QED BY <2>1, <2>2, <2>5, OthersSound DEF CursorInv
<1>2. ASSUME AcknowledgeLock(h) PROVE CursorInv'
  <2> DEFINE r == [hs[h] EXCEPT !.pc = "ack_apply"]
  <2>1. hs' = [hs EXCEPT ![h] = r] /\ hs[h].pc # "idle"
    BY <1>2 DEF AcknowledgeLock
  <2>2. NothingLost' /\ Settled' = Settled /\ dlq' = dlq /\ acked' = acked
    BY <1>2 DEF AcknowledgeLock, CursorInv, NothingLost, Settled
  <2>3. /\ hs'[h].pc = "ack_apply" /\ hs'[h].ids = hs[h].ids
        /\ hs'[h].sub = hs[h].sub /\ hs'[h].cur = hs[h].cur
    BY <2>1 DEF Types, TypeOK, Handler
  <2>4. Sound(hs[h])'
    BY <2>1, <2>2, <2>3 DEF Sound, CursorInv
  <2> QED BY <2>1, <2>2, <2>4, OthersSound DEF CursorInv
<1>3. ASSUME NEW id \in hs[h].ids, AcknowledgeApply(h, id) PROVE CursorInv'
  <2> DEFINE r == [hs[h] EXCEPT !.ids = @ \ {id}, !.out = @ \cup {id},
                                !.dirty = TRUE, !.cur = mark_done(@, id.seq)]
  <2>1. /\ hs' = [hs EXCEPT ![h] = r] /\ hs[h].pc = "ack_apply"
        /\ dlq' = dlq /\ acked' = acked \cup {<<id.sub, id.seq>>}
    BY <1>3 DEF AcknowledgeApply
  <2>2. id.sub = hs[h].sub /\ id.seq \in Seqs
    BY DEF CursorInv, Sound, Types, TypeOK, Handler, AckId
  <2>3. NothingLost' /\ Settled \subseteq Settled' /\ <<hs[h].sub, id.seq>> \in Settled'
    BY <1>3, <2>2 DEF AcknowledgeApply, CursorInv, NothingLost, Settled
  <2>4. /\ hs'[h].pc = "ack_apply" /\ hs'[h].ids = hs[h].ids \ {id}
        /\ hs'[h].sub = hs[h].sub /\ hs'[h].cur = mark_done(hs[h].cur, id.seq)
    BY <2>1 DEF Types, TypeOK, Handler
  <2>5. \A x \in Seqs : is_done(hs'[h].cur, x) <=> is_done(hs[h].cur, x) \/ x = id.seq
    BY <2>2, <2>4, MarkDoneSeqs DEF Types, TypeOK, Handler
  <2>6. Sound(hs[h])'
    BY <2>1, <2>3, <2>4, <2>5 DEF Sound, CursorInv
  <2> QED BY <2>1, <2>3, <2>6, OthersSound DEF CursorInv
<1>4. ASSUME NEW id \in hs[h].ids, AcknowledgeIgnore(h, id) PROVE CursorInv'
  <2> DEFINE r == [hs[h] EXCEPT !.ids = @ \ {id}]
  <2>1. hs' = [hs EXCEPT ![h] = r] /\ hs[h].pc = "ack_apply"
    BY <1>4 DEF AcknowledgeIgnore
  <2>2. NothingLost' /\ Settled' = Settled /\ dlq' = dlq /\ acked' = acked
    BY <1>4 DEF AcknowledgeIgnore, CursorInv, NothingLost, Settled
  <2>3. /\ hs'[h].pc = "ack_apply" /\ hs'[h].ids = hs[h].ids \ {id}
        /\ hs'[h].sub = hs[h].sub /\ hs'[h].cur = hs[h].cur
    BY <2>1 DEF Types, TypeOK, Handler
  <2>4. Sound(hs[h])'
    BY <2>1, <2>2, <2>3 DEF Sound, CursorInv
  <2> QED BY <2>1, <2>2, <2>4, OthersSound DEF CursorInv
<1>5. ASSUME AcknowledgeReturn(h) PROVE CursorInv'
  <2>1. SaveAndUnlock(h) /\ dlq' = dlq /\ acked' = acked /\ hs[h].pc # "idle"
    BY <1>5 DEF AcknowledgeReturn
  <2> QED BY <2>1, CursorInvSave
<1> QED BY <1>1, <1>2, <1>3, <1>4, <1>5 DEF Acknowledge, AcknowledgeRest

\* modify_ack_deadline leaves cursors and their copies alone.
LEMMA CursorInvModifyAckDeadline ==
    ASSUME ~ForeignAckIds, Types, CursorInv, NEW h \in Handlers, ModifyAckDeadline(h)
    PROVE  CursorInv'
<1> USE DEF kv, history
<1>1. ASSUME NEW s \in Subs, ModifyAckDeadlineLoad(h, s) PROVE CursorInv'
  <2>1. PICK id \in Presentable(s), seconds \in Extensions :
          hs' = [hs EXCEPT ![h] = [Idle EXCEPT !.pc = "modify", !.sub = s, !.at = now,
                                               !.ids = {id}, !.secs = seconds]]
    BY <1>1 DEF ModifyAckDeadlineLoad
  <2>2. NothingLost' /\ dlq' = dlq /\ acked' = acked
    BY <1>1 DEF ModifyAckDeadlineLoad, CursorInv, NothingLost, Settled
  <2>3. /\ hs'[h].ids = {id} /\ hs'[h].pc = "modify" /\ hs'[h].sub = s
        /\ hs'[h].cur = new_cursor(0) /\ id.sub = s
    BY <2>1 DEF Idle, Types, TypeOK, Presentable
  <2>4. \A seq \in Seqs : ~is_done(new_cursor(0), seq)
    BY SeqsRange DEF is_done, new_cursor
  <2>5. Sound(hs[h])'
    BY <2>3, <2>4 DEF Sound
  <2> QED BY <2>1, <2>2, <2>5, OthersSound DEF CursorInv
<1>2. ASSUME NEW id \in hs[h].ids, ModifyAckDeadlineApply(h, id) PROVE CursorInv'
  <2>1. hs' = [hs EXCEPT ![h] = Idle] /\ dlq' = dlq /\ acked' = acked
    BY <1>2 DEF ModifyAckDeadlineApply
  <2>2. NothingLost'
    BY <1>2 DEF ModifyAckDeadlineApply, CursorInv, NothingLost, Settled
  <2>3. Sound(hs[h])'
    BY <2>1 DEF Types, TypeOK, Sound, Idle
  <2> QED BY <2>1, <2>2, <2>3, OthersSound DEF CursorInv
<1> QED BY <1>1, <1>2 DEF ModifyAckDeadline, ModifyAckDeadlineRest

\* Every step keeps the persisted cursors and the loaded copies sound.
LEMMA CursorInvNext ==
    ASSUME ~ForeignAckIds, Types, CursorInv, [Next]_vars
    PROVE  CursorInv'
<1> USE DEF kv, history
<1>1. CASE Tick \/ Publish \/ DeleteDlqTopic \/ (\E s \in Subs : SweepExpired(s)) \/ UNCHANGED vars
  <2>1. cursor' = cursor /\ hs' = hs /\ dlq' = dlq /\ acked' = acked
    BY <1>1 DEF Tick, Publish, DeleteDlqTopic, SweepExpired, vars
  <2> QED BY <2>1 DEF CursorInv, NothingLost, Sound, Settled
<1>2. CASE Crash
  <2>1. NothingLost'
    BY <1>2 DEF Crash, CursorInv, NothingLost, Settled
  <2>2. \A h \in Handlers : Sound(hs[h])'
    BY <1>2 DEF Crash, Sound, Idle
  <2> QED BY <2>1, <2>2 DEF CursorInv
<1> QED BY <1>1, <1>2, CursorInvLeaseNext, CursorInvAcknowledge,
           CursorInvModifyAckDeadline DEF Next

\* No message is lost, for any number of concurrent lease_next, acknowledge and
\* modify_ack_deadline calls, sweeps and crashes, as long as clients present
\* ack_ids to the subscription that issued them.
THEOREM NothingIsLost ==
    ASSUME ~ForeignAckIds
    PROVE  Spec => []NothingLost
<1>1. Init => Types /\ CursorInv
  BY TypesInit, CursorInvInit
<1>2. Types /\ CursorInv /\ [Next]_vars => (Types /\ CursorInv)'
  BY TypesNext, CursorInvNext
<1>3. Types /\ CursorInv => NothingLost
  BY DEF CursorInv
<1> QED BY <1>1, <1>2, <1>3, PTL DEF Spec

=============================================================================
