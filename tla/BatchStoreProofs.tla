-------------------------- MODULE BatchStoreProofs --------------------------
(***************************************************************************)
(* Proofs that the safety properties of BatchStore hold for every number   *)
(* of nodes, batches, models and units, every lease duration and attempt   *)
(* limit, and every placement of canaries that PlantAssumption admits.     *)
(*                                                                         *)
(* None of the properties is inductive alone.  That a queued unit is never *)
(* lost when lease() drops entries needs that no unit of a cancelled batch *)
(* is still pending (BatchStateAgrees), which in turn needs that a unit is *)
(* listed by the batch it names (UnitsBelong).  IInv is their conjunction. *)
(***************************************************************************)
EXTENDS BatchStore, SubsequenceProofs

\* Each created unit is listed by the batch it names, once, as real or as a
\* canary; batches share no unit and list nothing that does not exist.
UnitsBelong ==
    /\ \A b \in BatchIds :
          /\ batches[b].state = "absent" =>
                batches[b].unit_ids = {} /\ batches[b].canary_unit_ids = {}
          /\ batches[b].unit_ids \cap batches[b].canary_unit_ids = {}
          /\ \A u \in batches[b].unit_ids \cup batches[b].canary_unit_ids :
                u \in Created /\ units[u].batch_id = b
    /\ \A u \in Created :
          \E b \in BatchIds : u \in batches[b].unit_ids \cup batches[b].canary_unit_ids

\* The inductive invariant.
IInv ==
    /\ TypeOK
    /\ NoUnitLost
    /\ BatchStateAgrees
    /\ FailedForCause
    /\ FieldsFitState
    /\ UnitsBelong

\* Init satisfies the invariant: there is nothing yet.
LEMMA InitEstablishes == Init => IInv
<1> SUFFICES ASSUME Init PROVE IInv
  OBVIOUS
<1> USE BoundsAssumption DEF Init, NoUnit, NewUnit, NoBatch, Created, Outstanding
<1>1. TypeOK
  <2>1. 0 \in 0 .. LeaseTicks /\ 0 \in Nat
    OBVIOUS
  <2>2. NoUnit \in WorkUnit /\ NoUnit.state = "absent"
    BY <2>1 DEF WorkUnit, UnitState
  <2>3. NoBatch \in Batch
    BY DEF Batch, BatchState
  <2> QED
    BY <2>2, <2>3 DEF TypeOK
<1>2. NoUnitLost
  BY DEF NoUnitLost
<1>3. BatchStateAgrees
  BY DEF BatchStateAgrees
<1>4. FailedForCause
  BY DEF FailedForCause
<1>5. FieldsFitState
  BY DEF FieldsFitState
<1>6. UnitsBelong
  BY DEF UnitsBelong
<1> QED
  BY <1>1, <1>2, <1>3, <1>4, <1>5, <1>6 DEF IInv
-----------------------------------------------------------------------------
\* Entries appended to the queue displace nobody.
LEMMA ExtendedQueue ==
    ASSUME pending \in Seq(UnitIds), NEW q \in Seq(UnitIds), pending' = pending \o q
    PROVE  /\ pending' \in Seq(UnitIds)
           /\ \A u : Queued(u) => Queued(u)'
           /\ \A k \in DOMAIN q : Queued(q[k])'
<1> DEFINE p == pending
<1>1. /\ p \o q \in Seq(UnitIds)
      /\ Len(p \o q) = Len(p) + Len(q)
      /\ \A i \in 1 .. Len(p) + Len(q) :
            (p \o q)[i] = IF i <= Len(p) THEN p[i] ELSE q[i - Len(p)]
  BY ConcatProperties
<1>2. /\ Len(p) \in Nat /\ DOMAIN p = 1 .. Len(p)
      /\ Len(q) \in Nat /\ DOMAIN q = 1 .. Len(q)
      /\ DOMAIN (p \o q) = 1 .. (Len(p) + Len(q))
  BY <1>1, LenProperties
<1>3. ASSUME NEW i \in DOMAIN p
      PROVE  i \in DOMAIN (p \o q) /\ (p \o q)[i] = p[i]
  BY <1>1, <1>2
<1>4. ASSUME NEW i \in DOMAIN q
      PROVE  Len(p) + i \in DOMAIN (p \o q) /\ (p \o q)[Len(p) + i] = q[i]
  BY <1>1, <1>2
<1>5. \A u : Queued(u) => Queued(u)'
  BY <1>3 DEF Queued
<1>6. \A k \in DOMAIN q : Queued(q[k])'
  BY <1>4 DEF Queued
<1> QED
  BY <1>1, <1>5, <1>6

\* A set of units is finite, and InOrder lists it as a queue.
LEMMA UnitsInOrder ==
    ASSUME NEW S \in SUBSET UnitIds
    PROVE  /\ InOrder(S) \in Seq(UnitIds)
           /\ \A u \in S : \E k \in DOMAIN InOrder(S) : InOrder(S)[k] = u
<1>1. IsFiniteSet(UnitIds)
  BY BoundsAssumption, FS_Interval DEF UnitIds
<1>2. IsFiniteSet(S) /\ S \in SUBSET Int
  <2>1. IsFiniteSet(S)
    BY <1>1, FS_Subset
  <2>2. UnitIds \subseteq Int
    BY BoundsAssumption DEF UnitIds
  <2> QED
    BY <2>1, <2>2
<1>3. /\ InOrder(S) \in Seq(S)
      /\ \A u \in S : \E k \in DOMAIN InOrder(S) : InOrder(S)[k] = u
  BY <1>2, InOrderProperties
<1> QED
  BY <1>3

\* What putting a unit back changes of it.
LEMMA RequeuedFields ==
    ASSUME NEW r \in WorkUnit
    PROVE  /\ Requeued(r) \in WorkUnit
           /\ Requeued(r).state = "pending"
           /\ Requeued(r).node_id = None
           /\ Requeued(r).left = 0
           /\ Requeued(r).batch_id = r.batch_id
           /\ Requeued(r).attempts = r.attempts
           /\ Requeued(r).text = r.text
           /\ Requeued(r).error = r.error
<1>1. 0 \in 0 .. LeaseTicks
  BY BoundsAssumption
<1>2. Requeued(r) \in WorkUnit
  BY <1>1 DEF Requeued, WorkUnit, UnitState
<1>3. Requeued(r).state = "pending" /\ Requeued(r).node_id = None /\ Requeued(r).left = 0
  BY DEF Requeued, WorkUnit
<1>4. Requeued(r).batch_id = r.batch_id /\ Requeued(r).attempts = r.attempts
  BY DEF Requeued, WorkUnit
<1>5. Requeued(r).text = r.text /\ Requeued(r).error = r.error
  BY DEF Requeued, WorkUnit
<1> QED
  BY <1>2, <1>3, <1>4, <1>5

\* Steps that move unsettled units between the queue and the nodes and leave
\* the batches alone: leases, requeues and the clock.
LEMMA QueueStep ==
    ASSUME IInv, batches' = batches,
           units' \in [UnitIds -> WorkUnit], pending' \in Seq(UnitIds),
           \A u \in UnitIds : /\ units'[u].batch_id = units[u].batch_id
                              /\ Outstanding(u) => Outstanding(u)'
                              /\ ~Outstanding(u) => units'[u] = units[u]
    PROVE  TypeOK' /\ BatchStateAgrees' /\ FailedForCause' /\ UnitsBelong'
<1> USE DEF IInv
<1>1. \A u \in UnitIds : Outstanding(u)' <=> Outstanding(u)
  BY DEF Outstanding
<1>2. Created' = Created
  BY <1>1 DEF Created, Outstanding
<1>3. TypeOK'
  BY <1>2 DEF TypeOK, Created
<1>4. BatchStateAgrees'
  BY <1>1 DEF BatchStateAgrees, TypeOK, Batch
<1>5. FailedForCause'
  <2> SUFFICES ASSUME NEW u \in UnitIds, units'[u].state = "failed"
               PROVE  \/ units'[u].error = "reported" /\ units'[u].attempts >= MaxUnitAttempts
                      \/ /\ units'[u].error = "batch cancelled"
                         /\ batches'[units'[u].batch_id].state = "cancelled"
    BY DEF FailedForCause
  <2>1. units'[u] = units[u]
    BY DEF Outstanding
  <2> QED
    BY <2>1 DEF FailedForCause
<1>6. UnitsBelong'
  BY <1>2 DEF UnitsBelong, TypeOK, Batch
<1> QED
  BY <1>3, <1>4, <1>5, <1>6

\* release_node and expire_leases: leased units go back to the queue.
LEMMA PutBackPreserves ==
    ASSUME NEW S \in SUBSET UnitIds, IInv, PutBack(S),
           \A u \in S : units[u].state = "leased"
    PROVE  IInv'
<1> USE DEF IInv
<1>1. /\ InOrder(S) \in Seq(UnitIds)
      /\ \A u \in S : \E k \in DOMAIN InOrder(S) : InOrder(S)[k] = u
  BY UnitsInOrder
<1>2. ASSUME NEW u \in UnitIds
      PROVE  /\ units'[u] \in WorkUnit
             /\ units'[u].batch_id = units[u].batch_id
             /\ units'[u].text = units[u].text
             /\ u \in S => /\ units'[u].state = "pending"
                           /\ units'[u].node_id = None
                           /\ units'[u].left = 0
             /\ u \notin S => units'[u] = units[u]
  <2>1. units[u] \in WorkUnit
    BY DEF TypeOK
  <2>2. units'[u] = IF u \in S THEN Requeued(units[u]) ELSE units[u]
    BY DEF PutBack
  <2> QED
    BY <2>1, <2>2, RequeuedFields
<1>3. /\ pending' \in Seq(UnitIds)
      /\ \A u : Queued(u) => Queued(u)'
      /\ \A k \in DOMAIN InOrder(S) : Queued(InOrder(S)[k])'
  <2>1. pending \in Seq(UnitIds) /\ pending' = pending \o InOrder(S)
    BY DEF TypeOK, PutBack
  <2> QED
    BY <2>1, <1>1, ExtendedQueue
<1>4. batches' = batches /\ units' \in [UnitIds -> WorkUnit]
  BY <1>2 DEF PutBack
<1>5. TypeOK' /\ BatchStateAgrees' /\ FailedForCause' /\ UnitsBelong'
  <2>1. \A u \in UnitIds : /\ Outstanding(u) => Outstanding(u)'
                           /\ ~Outstanding(u) => units'[u] = units[u]
    BY <1>2 DEF Outstanding
  <2> QED
    BY <1>2, <1>3, <1>4, <2>1, QueueStep
<1>6. NoUnitLost'
  BY <1>1, <1>2, <1>3 DEF NoUnitLost
<1>7. FieldsFitState'
  BY <1>2 DEF FieldsFitState
<1> QED
  BY <1>5, <1>6, <1>7

\* The clock touches nothing but the time that leases have left.
LEMMA TickPreserves == IInv /\ Tick => IInv'
<1> SUFFICES ASSUME IInv, Tick PROVE IInv'
  OBVIOUS
<1> USE DEF IInv
<1>1. ASSUME NEW u \in UnitIds
      PROVE  /\ units'[u] \in WorkUnit
             /\ units'[u].batch_id = units[u].batch_id
             /\ units'[u].state = units[u].state
             /\ units'[u].attempts = units[u].attempts
             /\ units'[u].node_id = units[u].node_id
             /\ units'[u].text = units[u].text
             /\ units[u].state # "leased" => units'[u] = units[u]
  <2>1. units[u] \in WorkUnit
    BY DEF TypeOK
  <2>2. CASE units[u].state = "leased" /\ units[u].left > 0
    <3>1. units'[u] = [units[u] EXCEPT !.left = @ - 1]
      BY <2>2 DEF Tick
    <3>2. units[u].left \in 0 .. LeaseTicks
      BY <2>1 DEF WorkUnit
    <3>3. units[u].left - 1 \in 0 .. LeaseTicks
      BY <2>2, <3>2, BoundsAssumption
    <3> QED
      BY <2>1, <2>2, <3>1, <3>3 DEF WorkUnit
  <2>3. CASE ~(units[u].state = "leased" /\ units[u].left > 0)
    BY <2>1, <2>3 DEF Tick
  <2> QED
    BY <2>2, <2>3
<1>2. /\ batches' = batches /\ pending' = pending /\ pending \in Seq(UnitIds)
      /\ units' \in [UnitIds -> WorkUnit]
  BY <1>1 DEF Tick, TypeOK
<1>3. TypeOK' /\ BatchStateAgrees' /\ FailedForCause' /\ UnitsBelong'
  <2>1. \A u \in UnitIds : /\ Outstanding(u) => Outstanding(u)'
                           /\ ~Outstanding(u) => units'[u] = units[u]
    BY <1>1 DEF Outstanding
  <2> QED
    BY <1>1, <1>2, <2>1, QueueStep
<1>4. NoUnitLost'
  BY <1>1, <1>2 DEF NoUnitLost, Queued
<1>5. FieldsFitState'
  BY <1>1 DEF FieldsFitState
<1> QED
  BY <1>3, <1>4, <1>5
-----------------------------------------------------------------------------
\* A pending unit is never one whose batch went away: lease() drops no entry
\* of a unit that still waits to run.
LEMMA PendingIsLive ==
    ASSUME IInv, NEW u \in UnitIds, units[u].state = "pending"
    PROVE  Live(u)
<1> USE DEF IInv
<1>1. u \in Created
  BY DEF Created
<1>2. PICK b \in BatchIds : u \in batches[b].unit_ids \cup batches[b].canary_unit_ids
  BY <1>1 DEF UnitsBelong
<1>3. units[u].batch_id = b
  BY <1>2 DEF UnitsBelong
<1>4. batches[b].state # "absent"
  BY <1>2 DEF UnitsBelong
<1>5. batches[b].state # "cancelled"
  BY <1>2 DEF BatchStateAgrees, Outstanding
<1> QED
  BY <1>3, <1>4, <1>5 DEF Live

\* A unit whose entry the scan reaches and that the node can serve is granted:
\* if not at this entry, then at an earlier one.
LEMMA ScannedIsGranted ==
    ASSUME pending \in Seq(UnitIds), NEW count \in Nat, NEW m,
           NEW i \in Scanned(count, m), Live(pending[i]), Suits(pending[i], m)
    PROVE  pending[i] \in Granted(count, m)
<1>1. Len(pending) \in Nat /\ DOMAIN pending = 1 .. Len(pending)
  BY LenProperties
<1>2. i \in 1 .. Len(pending)
  BY <1>1 DEF Scanned
<1> DEFINE K == {j \in 1 .. Len(pending) : pending[j] = pending[i]}
<1>3. IsFiniteSet(1 .. Len(pending))
  BY <1>1, FS_Interval
<1>4. IsFiniteSet(K) /\ K \in SUBSET Int /\ K # {}
  <2>1. K \in SUBSET (1 .. Len(pending)) /\ i \in K
    BY <1>2
  <2>2. IsFiniteSet(K)
    BY <1>3, <2>1, FS_Subset
  <2>3. \A j \in 1 .. Len(pending) : j \in Int
    BY <1>1
  <2> QED
    BY <2>1, <2>2, <2>3
<1>5. PICK f \in K : \A j \in K : f <= j
  BY <1>4, LeastMember
<1>6. f \in 1 .. Len(pending) /\ pending[f] = pending[i] /\ f <= i
  BY <1>2, <1>5
<1>7. f \in Takes(m)
  <2>1. ASSUME NEW j \in 1 .. (f - 1) PROVE pending[j] # pending[f]
    <3>1. j \in 1 .. Len(pending) /\ ~(f <= j)
      BY <1>1, <1>6
    <3> QED
      BY <1>5, <1>6, <3>1
  <2> QED
    BY <1>1, <1>6, <2>1 DEF Takes
<1>8. f \in Scanned(count, m)
  <2> DEFINE before(x) == {j \in Takes(m) : j < x}
  <2>1. before(i) \in SUBSET (1 .. Len(pending))
    BY <1>1 DEF Takes
  <2>2. IsFiniteSet(before(i))
    BY <1>3, <2>1, FS_Subset
  <2>3. before(f) \in SUBSET before(i)
    <3> SUFFICES ASSUME NEW j \in before(f) PROVE j \in before(i)
      OBVIOUS
    <3>1. j \in Takes(m) /\ j < f /\ j \in 1 .. Len(pending)
      BY <1>1 DEF Takes
    <3>2. j < i
      BY <1>1, <1>2, <1>6, <3>1
    <3> QED
      BY <3>1, <3>2
  <2>4. Cardinality(before(f)) <= Cardinality(before(i)) /\ IsFiniteSet(before(f))
    BY <2>2, <2>3, FS_Subset
  <2>5. Cardinality(before(f)) \in Nat /\ Cardinality(before(i)) \in Nat
    BY <2>2, <2>4, FS_CardinalityType
  <2>6. Cardinality(before(i)) < count
    BY DEF Scanned
  <2>7. Cardinality(before(f)) < count
    BY <2>4, <2>5, <2>6
  <2> QED
    BY <1>1, <1>6, <2>7 DEF Scanned
<1> QED
  BY <1>6, <1>7, <1>8 DEF Granted

\* What a lease changes of a unit.
LEMMA LeasedFields ==
    ASSUME NEW r \in WorkUnit, NEW n \in Nodes
    PROVE  /\ Leased(r, n) \in WorkUnit
           /\ Leased(r, n).state = "leased"
           /\ Leased(r, n).node_id = n
           /\ Leased(r, n).attempts = r.attempts + 1
           /\ Leased(r, n).batch_id = r.batch_id
           /\ Leased(r, n).text = r.text
<1>1. LeaseTicks \in 0 .. LeaseTicks
  BY BoundsAssumption
<1>2. r.attempts \in Nat /\ r.attempts + 1 \in Nat
  <2>1. r.attempts \in Nat
    BY DEF WorkUnit
  <2> QED
    BY <2>1
<1>3. Leased(r, n) \in WorkUnit
  BY <1>1, <1>2 DEF Leased, WorkUnit, UnitState
<1>4. /\ Leased(r, n).state = "leased" /\ Leased(r, n).node_id = n
      /\ Leased(r, n).attempts = r.attempts + 1
  BY DEF Leased, WorkUnit
<1>5. Leased(r, n).batch_id = r.batch_id /\ Leased(r, n).text = r.text
  BY DEF Leased, WorkUnit
<1> QED
  BY <1>3, <1>4, <1>5

\* lease: granted units leave the queue, stale entries with them, and every
\* unit that stays pending keeps an entry.
LEMMA LeasePreserves ==
    ASSUME IInv, NEW n \in Nodes, NEW count \in UnitIds, NEW m, Lease(n, count, m)
    PROVE  IInv'
<1> USE DEF IInv
<1> DEFINE G == Granted(count, m)
           K == StillPending(count, m)
<1>1. pending \in Seq(UnitIds) /\ count \in Nat
  BY BoundsAssumption DEF TypeOK, UnitIds
<1>2. DOMAIN pending = 1 .. Len(pending) /\ \A i \in DOMAIN pending : pending[i] \in UnitIds
  BY <1>1, LenProperties
<1>3. \A u \in G : u \in UnitIds /\ units[u].state = "pending"
  BY <1>2 DEF Granted, Takes, Live
<1>4. /\ Select(pending, K) \in Seq(UnitIds)
      /\ \A i \in K : \E k \in DOMAIN Select(pending, K) : Select(pending, K)[k] = pending[i]
  <2>1. K \in SUBSET DOMAIN pending
    BY DEF StillPending
  <2> QED
    BY <1>1, <2>1, SelectProperties
<1>5. ASSUME NEW u \in UnitIds
      PROVE  /\ units'[u] \in WorkUnit
             /\ units'[u].batch_id = units[u].batch_id
             /\ units'[u].text = units[u].text
             /\ u \in G => /\ units'[u].state = "leased"
                           /\ units'[u].node_id = n
                           /\ units'[u].attempts = units[u].attempts + 1
                           /\ units[u].attempts \in Nat
             /\ u \notin G => units'[u] = units[u]
  <2>1. units[u] \in WorkUnit /\ units[u].attempts \in Nat
    BY DEF TypeOK, WorkUnit
  <2>2. units'[u] = IF u \in G THEN Leased(units[u], n) ELSE units[u]
    BY DEF Lease
  <2> QED
    BY <2>1, <2>2, LeasedFields
<1>6. batches' = batches /\ units' \in [UnitIds -> WorkUnit] /\ pending' \in Seq(UnitIds)
  BY <1>4, <1>5 DEF Lease
<1>7. TypeOK' /\ BatchStateAgrees' /\ FailedForCause' /\ UnitsBelong'
  <2>1. \A u \in UnitIds : /\ Outstanding(u) => Outstanding(u)'
                           /\ ~Outstanding(u) => units'[u] = units[u]
    BY <1>3, <1>5 DEF Outstanding
  <2> QED
    BY <1>5, <1>6, <2>1, QueueStep
<1>8. NoUnitLost'
  <2> SUFFICES ASSUME NEW u \in UnitIds, units'[u].state = "pending"
               PROVE  Queued(u)'
    BY DEF NoUnitLost
  <2>1. u \notin G /\ units[u].state = "pending"
    BY <1>5
  <2>2. PICK i \in DOMAIN pending : pending[i] = u
    BY <2>1 DEF NoUnitLost, Queued
  <2>3. Live(u)
    BY <2>1, PendingIsLive
  <2>4. i \in Scanned(count, m) => ~Suits(u, m)
    BY <1>1, <2>1, <2>2, <2>3, ScannedIsGranted
  <2>5. i \in K
    BY <2>2, <2>3, <2>4 DEF StillPending
  <2>6. PICK k \in DOMAIN Select(pending, K) : Select(pending, K)[k] = u
    BY <1>4, <2>2, <2>5
  <2>7. pending' = Select(pending, K)
    BY DEF Lease
  <2> QED
    BY <2>6, <2>7 DEF Queued
<1>9. FieldsFitState'
  <2> SUFFICES ASSUME NEW u \in UnitIds
               PROVE  /\ units'[u].state = "leased" =>
                            units'[u].node_id \in Nodes /\ units'[u].attempts >= 1
                      /\ units'[u].state = "pending" =>
                            units'[u].node_id = None /\ units'[u].left = 0
                      /\ units'[u].text # None <=> units'[u].state = "complete"
    BY DEF FieldsFitState
  <2>1. CASE u \in G
    BY <1>3, <1>5, <2>1 DEF FieldsFitState
  <2>2. CASE u \notin G
    BY <1>5, <2>2 DEF FieldsFitState
  <2> QED
    BY <2>1, <2>2
<1> QED
  BY <1>7, <1>8, <1>9
-----------------------------------------------------------------------------
\* What _maybe_finish_batch changes: the state of that one batch, and only if
\* it was in progress and none of the client's units is left.
LEMMA FinishFields ==
    ASSUME batches \in [BatchIds -> Batch], NEW b \in BatchIds, NEW us,
           batches' = MaybeFinishBatch(b, us)
    PROVE  /\ batches' \in [BatchIds -> Batch]
           /\ \A a \in BatchIds :
                 /\ batches'[a].unit_ids = batches[a].unit_ids
                 /\ batches'[a].canary_unit_ids = batches[a].canary_unit_ids
                 /\ a # b => batches'[a] = batches[a]
                 /\ batches[a].state # "in_progress" => batches'[a] = batches[a]
           /\ batches[b].state = "in_progress" =>
                 batches'[b].state =
                    IF \E v \in batches[b].unit_ids : us[v].state \in {"pending", "leased"}
                    THEN "in_progress" ELSE "completed"
<1> DEFINE done == /\ batches[b].state = "in_progress"
                   /\ \A v \in batches[b].unit_ids : us[v].state \notin {"pending", "leased"}
           closed == [batches[b] EXCEPT !.state = "completed"]
<1>1. batches[b] \in Batch
  OBVIOUS
<1>2. /\ closed \in Batch /\ closed.state = "completed"
      /\ closed.unit_ids = batches[b].unit_ids
      /\ closed.canary_unit_ids = batches[b].canary_unit_ids
  BY <1>1 DEF Batch, BatchState
<1>3. CASE done
  <2>1. batches' = [batches EXCEPT ![b] = closed]
    BY <1>3 DEF MaybeFinishBatch
  <2> HIDE DEF closed
  <2> QED
    BY <1>2, <1>3, <2>1
<1>4. CASE ~done
  <2>1. batches' = batches
    BY <1>4 DEF MaybeFinishBatch
  <2> QED
    BY <1>4, <2>1
<1> QED
  BY <1>3, <1>4

\* Settling one unit, by an answer or by its dead letter, keeps the status of
\* its batch in step: the batch closes if and only if that was the last of the
\* client's units.
LEMMA SettleStep ==
    ASSUME IInv, NEW u \in Created, Outstanding(u), NEW r \in WorkUnit,
           units' = [units EXCEPT ![u] = r],
           batches' = MaybeFinishBatch(units[u].batch_id, units'),
           pending' = pending,
           r.batch_id = units[u].batch_id,
           r.state \in {"complete", "failed"},
           r.text # None <=> r.state = "complete",
           r.state = "failed" => r.error = "reported" /\ r.attempts >= MaxUnitAttempts
    PROVE  IInv'
<1> USE DEF IInv
<1> DEFINE b == units[u].batch_id
<1>1. u \in UnitIds /\ b \in BatchIds
  BY DEF Created, TypeOK
<1>2. /\ units' \in [UnitIds -> WorkUnit]
      /\ units'[u] = r
      /\ \A v \in UnitIds \ {u} : units'[v] = units[v]
  BY <1>1 DEF TypeOK
<1>3. /\ ~Outstanding(u)'
      /\ \A v \in UnitIds \ {u} : Outstanding(v)' <=> Outstanding(v)
      /\ \A v \in UnitIds : units'[v].batch_id = units[v].batch_id
  BY <1>1, <1>2 DEF Outstanding
<1>4. Created' = Created
  BY <1>1, <1>2 DEF Created, Outstanding
<1>5. /\ batches' \in [BatchIds -> Batch]
      /\ \A a \in BatchIds : /\ batches'[a].unit_ids = batches[a].unit_ids
                             /\ batches'[a].canary_unit_ids = batches[a].canary_unit_ids
                             /\ a # b => batches'[a] = batches[a]
                             /\ batches[a].state # "in_progress" => batches'[a] = batches[a]
  BY <1>1, FinishFields DEF TypeOK
<1>6. batches[b].state = "in_progress" =>
         batches'[b].state = IF \E v \in batches[b].unit_ids : Outstanding(v)'
                             THEN "in_progress" ELSE "completed"
  BY <1>1, FinishFields DEF TypeOK, Outstanding
<1>7. TypeOK'
  BY <1>2, <1>3, <1>4, <1>5 DEF TypeOK, Created
<1>8. NoUnitLost'
  BY <1>1, <1>2 DEF NoUnitLost, Queued
<1>9. BatchStateAgrees'
  <2> SUFFICES ASSUME NEW a \in BatchIds
               PROVE  /\ batches'[a].state = "in_progress" <=>
                             \E v \in batches'[a].unit_ids : Outstanding(v)'
                      /\ batches'[a].state = "cancelled" =>
                             \A v \in batches'[a].unit_ids \cup batches'[a].canary_unit_ids :
                                 ~Outstanding(v)'
    BY DEF BatchStateAgrees
  <2>1. batches[a].unit_ids \subseteq UnitIds /\ batches[a].canary_unit_ids \subseteq UnitIds
    BY DEF TypeOK, Batch
  <2>2. \A v \in UnitIds : Outstanding(v)' => Outstanding(v)
    BY <1>3
  <2>3. CASE a = b /\ batches[a].state = "in_progress"
    BY <1>5, <1>6, <2>3
  <2>4. CASE a = b /\ batches[a].state # "in_progress"
    BY <1>5, <2>1, <2>2, <2>4 DEF BatchStateAgrees
  <2>5. CASE a # b
    <3>1. u \notin batches[a].unit_ids
      BY <2>5 DEF UnitsBelong
    <3> QED
      BY <1>3, <1>5, <2>1, <2>2, <2>5, <3>1 DEF BatchStateAgrees
  <2> QED
    BY <2>3, <2>4, <2>5
<1>10. FailedForCause'
  <2> SUFFICES ASSUME NEW v \in UnitIds, units'[v].state = "failed"
               PROVE  \/ units'[v].error = "reported" /\ units'[v].attempts >= MaxUnitAttempts
                      \/ /\ units'[v].error = "batch cancelled"
                         /\ batches'[units'[v].batch_id].state = "cancelled"
    BY DEF FailedForCause
  <2>1. CASE v = u
    BY <1>2, <2>1
  <2>2. CASE v # u
    <3>1. units'[v] = units[v] /\ v \in Created
      BY <1>2, <2>2 DEF Created
    <3>2. units[v].batch_id \in BatchIds
      BY <3>1 DEF TypeOK
    <3>3. CASE units[v].error = "reported" /\ units[v].attempts >= MaxUnitAttempts
      BY <3>1, <3>3
    <3>4. CASE /\ units[v].error = "batch cancelled"
               /\ batches[units[v].batch_id].state = "cancelled"
      <4>1. batches'[units[v].batch_id] = batches[units[v].batch_id]
        BY <1>5, <3>2, <3>4
      <4> QED
        BY <3>1, <3>4, <4>1
    <3> QED
      BY <3>1, <3>3, <3>4 DEF FailedForCause
  <2> QED
    BY <2>1, <2>2
<1>11. FieldsFitState'
  <2> SUFFICES ASSUME NEW v \in UnitIds
               PROVE  /\ units'[v].state = "leased" =>
                            units'[v].node_id \in Nodes /\ units'[v].attempts >= 1
                      /\ units'[v].state = "pending" =>
                            units'[v].node_id = None /\ units'[v].left = 0
                      /\ units'[v].text # None <=> units'[v].state = "complete"
    BY DEF FieldsFitState
  <2>1. CASE v = u
    BY <1>2, <2>1
  <2>2. CASE v # u
    BY <1>2, <2>2 DEF FieldsFitState
  <2> QED
    BY <2>1, <2>2
<1>12. UnitsBelong'
  <2>1. \A a \in BatchIds : batches'[a].state = "absent" => batches[a].state = "absent"
    BY <1>5, <1>6
  <2>2. \A a \in BatchIds : batches[a].unit_ids \cup batches[a].canary_unit_ids \subseteq UnitIds
    BY DEF TypeOK, Batch
  <2>3. \A a \in BatchIds :
          /\ batches'[a].state = "absent" =>
                batches'[a].unit_ids = {} /\ batches'[a].canary_unit_ids = {}
          /\ batches'[a].unit_ids \cap batches'[a].canary_unit_ids = {}
    BY <1>5, <2>1 DEF UnitsBelong
  <2>4. ASSUME NEW a \in BatchIds,
               NEW v \in batches'[a].unit_ids \cup batches'[a].canary_unit_ids
        PROVE  v \in Created' /\ units'[v].batch_id = a
    <3>1. v \in batches[a].unit_ids \cup batches[a].canary_unit_ids /\ v \in UnitIds
      BY <1>5, <2>2
    <3>2. v \in Created /\ units[v].batch_id = a
      BY <3>1 DEF UnitsBelong
    <3> QED
      BY <1>3, <1>4, <3>1, <3>2
  <2>5. \A v \in Created' :
          \E a \in BatchIds : v \in batches'[a].unit_ids \cup batches'[a].canary_unit_ids
    <3> SUFFICES ASSUME NEW v \in Created
                 PROVE  \E a \in BatchIds : v \in batches'[a].unit_ids \cup batches'[a].canary_unit_ids
      BY <1>4
    <3>1. PICK a \in BatchIds : v \in batches[a].unit_ids \cup batches[a].canary_unit_ids
      BY DEF UnitsBelong
    <3> QED
      BY <1>5, <3>1
  <2> QED
    BY <2>3, <2>4, <2>5 DEF UnitsBelong
<1> QED
  BY <1>7, <1>8, <1>9, <1>10, <1>11, <1>12

\* A stuttering step preserves the invariant.
LEMMA StutterPreserves == IInv /\ UNCHANGED vars => IInv'
<1> SUFFICES ASSUME IInv, UNCHANGED vars PROVE IInv'
  OBVIOUS
<1> USE DEF vars, IInv, Created, Outstanding
<1>1. TypeOK'
  BY DEF TypeOK
<1>2. NoUnitLost'
  BY DEF NoUnitLost, Queued
<1>3. BatchStateAgrees'
  BY DEF BatchStateAgrees
<1>4. FailedForCause'
  BY DEF FailedForCause
<1>5. FieldsFitState'
  BY DEF FieldsFitState
<1>6. UnitsBelong'
  BY DEF UnitsBelong
<1> QED
  BY <1>1, <1>2, <1>3, <1>4, <1>5, <1>6

\* complete: the first result settles the unit, later ones change nothing.
LEMMA CompletePreserves ==
    ASSUME IInv, NEW u \in Created, NEW n \in Nodes, NEW t \in Texts, Complete(u, n, t)
    PROVE  IInv'
<1>1. CASE ~Outstanding(u) /\ UNCHANGED vars
  BY <1>1, StutterPreserves
<1>2. CASE Outstanding(u) /\ ~UNCHANGED vars
  <2> DEFINE r == [units[u] EXCEPT !.state = "complete", !.text = t, !.node_id = n, !.left = 0]
  <2>1. u \in UnitIds /\ units[u] \in WorkUnit
    BY DEF IInv, TypeOK, Created
  <2>2. 0 \in 0 .. LeaseTicks
    BY BoundsAssumption
  <2>3. r \in WorkUnit
    BY <2>1, <2>2 DEF WorkUnit, UnitState
  <2>4. r.batch_id = units[u].batch_id /\ r.state = "complete" /\ r.text = t
    BY <2>1 DEF WorkUnit
  <2>5. /\ units' = [units EXCEPT ![u] = r]
        /\ batches' = MaybeFinishBatch(units[u].batch_id, units')
        /\ pending' = pending
    BY <1>2, <2>1 DEF Complete, IInv, TypeOK
  <2>6. t # None
    BY NoneAssumption
  <2> HIDE DEF r
  <2> QED
    BY <1>2, <2>3, <2>4, <2>5, <2>6, SettleStep
<1> QED
  BY <1>1, <1>2, StutterPreserves DEF Complete

\* fail: dead-letter the unit or put it back once more.
LEMMA FailPreserves ==
    ASSUME IInv, NEW u \in Created, Fail(u)
    PROVE  IInv'
<1>1. u \in UnitIds /\ units[u] \in WorkUnit /\ units \in [UnitIds -> WorkUnit]
  BY DEF IInv, TypeOK, Created
<1>2. CASE ~Outstanding(u)
  BY <1>2, StutterPreserves DEF Fail, OutOfAttempts
<1>3. CASE Outstanding(u) /\ units[u].attempts >= MaxUnitAttempts
  <2> DEFINE r == [units[u] EXCEPT !.state = "failed", !.error = "reported"]
  <2>1. units[u].text = None
    BY <1>1, <1>3 DEF IInv, FieldsFitState, Outstanding
  <2>2. r \in WorkUnit
    BY <1>1 DEF WorkUnit, UnitState
  <2>3. /\ r.batch_id = units[u].batch_id /\ r.state = "failed" /\ r.text = None
        /\ r.error = "reported" /\ r.attempts = units[u].attempts
    BY <1>1, <2>1 DEF WorkUnit
  <2>4. units[u].attempts \in Nat
    BY <1>1 DEF WorkUnit
  <2>5. /\ units' = [units EXCEPT ![u] = r]
        /\ batches' = MaybeFinishBatch(units[u].batch_id, units')
        /\ pending' = pending
    <3>1. ~(units[u].attempts < MaxUnitAttempts)
      BY <1>3, <2>4, BoundsAssumption
    <3>2. /\ units' = [units EXCEPT ![u].state = "failed", ![u].error = "reported"]
          /\ batches' = MaybeFinishBatch(units[u].batch_id, units')
          /\ pending' = pending
      BY <1>3, <3>1 DEF Fail, OutOfAttempts
    <3> QED
      BY <1>1, <3>2
  <2> HIDE DEF r
  <2> QED
    BY <1>3, <2>2, <2>3, <2>5, SettleStep
<1>4. CASE Outstanding(u) /\ ~(units[u].attempts >= MaxUnitAttempts)
  <2> DEFINE r == [Requeued(units[u]) EXCEPT !.error = "reported"]
  <2>1. /\ units' = [units EXCEPT ![u] = r]
        /\ pending' = Append(pending, u)
        /\ batches' = batches
    BY <1>1, <1>4 DEF Fail, OutOfAttempts
  <2>2. /\ r \in WorkUnit
        /\ r.state = "pending" /\ r.node_id = None /\ r.left = 0
        /\ r.batch_id = units[u].batch_id /\ r.text = units[u].text
    <3>1. Requeued(units[u]) \in WorkUnit
      BY <1>1, RequeuedFields
    <3>2. /\ r \in WorkUnit
          /\ r.state = Requeued(units[u]).state /\ r.node_id = Requeued(units[u]).node_id
          /\ r.left = Requeued(units[u]).left /\ r.batch_id = Requeued(units[u]).batch_id
          /\ r.text = Requeued(units[u]).text
      BY <3>1 DEF WorkUnit
    <3> QED
      BY <1>1, <3>2, RequeuedFields
  <2> HIDE DEF r
  <2>3. /\ units' \in [UnitIds -> WorkUnit]
        /\ units'[u] = r
        /\ \A v \in UnitIds \ {u} : units'[v] = units[v]
    BY <1>1, <2>1, <2>2
  <2>4. /\ pending' \in Seq(UnitIds)
        /\ \A v : Queued(v) => Queued(v)'
        /\ Queued(u)'
    <3>1. pending \in Seq(UnitIds)
      BY DEF IInv, TypeOK
    <3>2. pending' = pending \o <<u>> /\ <<u>> \in Seq(UnitIds)
      BY <1>1, <2>1, <3>1, AppendIsConcat
    <3>3. DOMAIN <<u>> = {1} /\ <<u>>[1] = u
      OBVIOUS
    <3> QED
      BY <3>1, <3>2, <3>3, ExtendedQueue
  <2>5. TypeOK' /\ BatchStateAgrees' /\ FailedForCause' /\ UnitsBelong'
    <3>1. \A v \in UnitIds : /\ units'[v].batch_id = units[v].batch_id
                             /\ Outstanding(v) => Outstanding(v)'
                             /\ ~Outstanding(v) => units'[v] = units[v]
      BY <1>4, <2>2, <2>3 DEF Outstanding
    <3> QED
      BY <2>1, <2>3, <2>4, <3>1, QueueStep
  <2>6. NoUnitLost'
    BY <2>3, <2>4 DEF NoUnitLost, IInv
  <2>7. FieldsFitState'
    BY <1>1, <1>4, <2>2, <2>3 DEF FieldsFitState, IInv, Outstanding
  <2> QED
    BY <2>5, <2>6, <2>7 DEF IInv
<1> QED
  BY <1>2, <1>3, <1>4

\* cancel_batch: everything the batch still has out fails in the same step.
LEMMA CancelPreserves ==
    ASSUME IInv, NEW b \in BatchIds, CancelBatch(b)
    PROVE  IInv'
<1> USE DEF IInv
<1> DEFINE mine == batches[b].unit_ids \cup batches[b].canary_unit_ids
           hit  == {u \in mine : Outstanding(u)}
<1>1. batches \in [BatchIds -> Batch] /\ mine \subseteq UnitIds
  BY DEF TypeOK, Batch
<1>2. ASSUME NEW u \in UnitIds
      PROVE  /\ units'[u] \in WorkUnit
             /\ units'[u].batch_id = units[u].batch_id
             /\ units'[u].text = units[u].text
             /\ u \in hit => units'[u].state = "failed" /\ units'[u].error = "batch cancelled"
             /\ u \notin hit => units'[u] = units[u]
  <2>1. units[u] \in WorkUnit
    BY DEF TypeOK
  <2>2. CASE u \in hit
    <3>1. units'[u] = [units[u] EXCEPT !.state = "failed", !.error = "batch cancelled"]
      BY <2>2 DEF CancelBatch
    <3> QED
      BY <2>1, <2>2, <3>1 DEF WorkUnit, UnitState
  <2>3. CASE u \notin hit
    BY <2>1, <2>3 DEF CancelBatch
  <2> QED
    BY <2>2, <2>3
<1>3. /\ batches' \in [BatchIds -> Batch]
      /\ batches'[b].state = "cancelled" /\ batches[b].state = "in_progress"
      /\ \A a \in BatchIds : /\ batches'[a].unit_ids = batches[a].unit_ids
                             /\ batches'[a].canary_unit_ids = batches[a].canary_unit_ids
                             /\ a # b => batches'[a] = batches[a]
  <2>1. batches[b] \in Batch
    BY <1>1
  <2> DEFINE closed == [batches[b] EXCEPT !.state = "cancelled"]
  <2>2. /\ closed \in Batch /\ closed.state = "cancelled"
        /\ closed.unit_ids = batches[b].unit_ids
        /\ closed.canary_unit_ids = batches[b].canary_unit_ids
    BY <2>1 DEF Batch, BatchState
  <2>3. batches' = [batches EXCEPT ![b] = closed] /\ batches[b].state = "in_progress"
    BY DEF CancelBatch
  <2> HIDE DEF closed
  <2> QED
    BY <1>1, <2>2, <2>3
<1>4. /\ \A u \in UnitIds : Outstanding(u)' <=> Outstanding(u) /\ u \notin hit
      /\ \A u \in mine : ~Outstanding(u)'
  BY <1>1, <1>2 DEF Outstanding
<1>5. Created' = Created
  BY <1>2 DEF Created, Outstanding
<1>6. ASSUME NEW u \in hit
      PROVE  units[u].batch_id = b
  BY DEF UnitsBelong
<1>7. TypeOK'
  <2>1. units' \in [UnitIds -> WorkUnit] /\ pending' = pending
    BY <1>2 DEF CancelBatch
  <2> QED
    BY <1>2, <1>3, <1>5, <2>1 DEF TypeOK, Created
<1>8. NoUnitLost'
  <2>1. pending' = pending
    BY DEF CancelBatch
  <2> QED
    BY <1>2, <2>1 DEF NoUnitLost, Queued
<1> HIDE DEF hit
<1>9. BatchStateAgrees'
  <2> SUFFICES ASSUME NEW a \in BatchIds
               PROVE  /\ batches'[a].state = "in_progress" <=>
                             \E v \in batches'[a].unit_ids : Outstanding(v)'
                      /\ batches'[a].state = "cancelled" =>
                             \A v \in batches'[a].unit_ids \cup batches'[a].canary_unit_ids :
                                 ~Outstanding(v)'
    BY DEF BatchStateAgrees
  <2>1. CASE a = b
    BY <1>3, <1>4, <2>1
  <2>2. CASE a # b
    <3>1. \A v \in batches[a].unit_ids \cup batches[a].canary_unit_ids :
            v \in UnitIds /\ v \notin hit
      <4>1. \A v \in batches[a].unit_ids \cup batches[a].canary_unit_ids : units[v].batch_id = a
        BY DEF UnitsBelong
      <4>2. batches[a].unit_ids \cup batches[a].canary_unit_ids \subseteq UnitIds
        BY <1>1 DEF Batch
      <4> QED
        BY <1>6, <2>2, <4>1, <4>2
    <3> QED
      BY <1>3, <1>4, <2>2, <3>1 DEF BatchStateAgrees
  <2> QED
    BY <2>1, <2>2
<1>10. FailedForCause'
  <2> SUFFICES ASSUME NEW v \in UnitIds, units'[v].state = "failed"
               PROVE  \/ units'[v].error = "reported" /\ units'[v].attempts >= MaxUnitAttempts
                      \/ /\ units'[v].error = "batch cancelled"
                         /\ batches'[units'[v].batch_id].state = "cancelled"
    BY DEF FailedForCause
  <2>1. CASE v \in hit
    BY <1>2, <1>3, <1>6, <2>1
  <2>2. CASE v \notin hit
    <3>1. units'[v] = units[v] /\ v \in Created
      BY <1>2, <2>2 DEF Created
    <3>2. units[v].batch_id \in BatchIds
      BY <3>1 DEF TypeOK
    <3>3. batches[units[v].batch_id].state = "cancelled" =>
             batches'[units[v].batch_id].state = "cancelled"
      BY <1>3, <3>2
    <3> QED
      BY <3>1, <3>3 DEF FailedForCause
  <2> QED
    BY <2>1, <2>2
<1>11. FieldsFitState'
  <2>1. \A u \in hit : u \in UnitIds /\ Outstanding(u)
    BY <1>1 DEF hit
  <2>2. ASSUME NEW v \in UnitIds
        PROVE  /\ units'[v].state = "leased" =>
                      units'[v].node_id \in Nodes /\ units'[v].attempts >= 1
               /\ units'[v].state = "pending" => units'[v].node_id = None /\ units'[v].left = 0
               /\ units'[v].text # None <=> units'[v].state = "complete"
    <3>1. CASE v \in hit
      BY <1>2, <2>1, <3>1 DEF FieldsFitState, Outstanding
    <3>2. CASE v \notin hit
      BY <1>2, <3>2 DEF FieldsFitState
    <3> QED
      BY <3>1, <3>2
  <2> QED
    BY <2>2 DEF FieldsFitState
<1>12. UnitsBelong'
  <2>1. \A a \in BatchIds : batches'[a].state = "absent" => batches[a].state = "absent"
    BY <1>3
  <2>2. \A a \in BatchIds :
          /\ batches'[a].state = "absent" =>
                batches'[a].unit_ids = {} /\ batches'[a].canary_unit_ids = {}
          /\ batches'[a].unit_ids \cap batches'[a].canary_unit_ids = {}
    BY <1>3, <2>1 DEF UnitsBelong
  <2>3. ASSUME NEW a \in BatchIds,
               NEW v \in batches'[a].unit_ids \cup batches'[a].canary_unit_ids
        PROVE  v \in Created' /\ units'[v].batch_id = a
    <3>1. v \in batches[a].unit_ids \cup batches[a].canary_unit_ids /\ v \in UnitIds
      BY <1>1, <1>3 DEF Batch
    <3>2. v \in Created /\ units[v].batch_id = a
      BY <3>1 DEF UnitsBelong
    <3> QED
      BY <1>2, <1>5, <3>1, <3>2
  <2>4. \A v \in Created' :
          \E a \in BatchIds : v \in batches'[a].unit_ids \cup batches'[a].canary_unit_ids
    BY <1>3, <1>5 DEF UnitsBelong
  <2> QED
    BY <2>2, <2>3, <2>4 DEF UnitsBelong
<1> QED
  BY <1>7, <1>8, <1>9, <1>10, <1>11, <1>12

\* The entries that create_batch appends are those of the new units, all of them.
LEMMA PlantedEntries ==
    ASSUME NEW c \in Nat, NEW n \in UnitIds, NEW k \in 0 .. MaxCanaries, c + n + k <= MaxUnits
    PROVE  LET q == [i \in 1 .. (n + k) |-> c + Plant(n, k)[i]]
           IN  /\ q \in Seq(UnitIds)
               /\ \A u \in (c + 1) .. (c + n + k) : \E i \in DOMAIN q : q[i] = u
<1> DEFINE q == [i \in 1 .. (n + k) |-> c + Plant(n, k)[i]]
<1>1. n \in Nat /\ k \in Nat /\ n >= 1 /\ n + k <= MaxUnits
  BY BoundsAssumption DEF UnitIds
<1>2. /\ Plant(n, k) \in [1 .. (n + k) -> 1 .. (n + k)]
      /\ \A p \in 1 .. (n + k) : \E i \in 1 .. (n + k) : Plant(n, k)[i] = p
  BY <1>1, PlantAssumption
<1>3. ASSUME NEW i \in 1 .. (n + k)
      PROVE  q[i] \in UnitIds
  <2>1. Plant(n, k)[i] \in 1 .. (n + k) /\ q[i] = c + Plant(n, k)[i]
    BY <1>2
  <2>2. \A p \in 1 .. (n + k) : c + p \in 1 .. MaxUnits
    BY <1>1, BoundsAssumption
  <2> QED
    BY <2>1, <2>2 DEF UnitIds
<1>4. q \in Seq(UnitIds)
  BY <1>1, <1>3
<1>5. ASSUME NEW u \in (c + 1) .. (c + n + k)
      PROVE  \E i \in DOMAIN q : q[i] = u
  <2>1. u - c \in 1 .. (n + k)
    BY <1>1
  <2>2. PICK i \in 1 .. (n + k) : Plant(n, k)[i] = u - c
    BY <1>2, <2>1
  <2>3. q[i] = u
    BY <2>2
  <2> QED
    BY <2>3
<1> QED
  BY <1>4, <1>5

\* create_batch: a new batch with new units, all of them queued.
LEMMA CreatePreserves ==
    ASSUME IInv, NEW b \in BatchIds, NEW c \in 0 .. MaxUnits, NEW n \in UnitIds,
           NEW k \in 0 .. MaxCanaries, NEW model \in Models \cup {None},
           NEW asked \in [1 .. (n + k) -> Models \cup {None}],
           CreateBatch(b, c, n, k, model, asked)
    PROVE  IInv'
<1> USE DEF IInv
<1> DEFINE real     == (c + 1) .. (c + n)
           canaries == (c + n + 1) .. (c + n + k)
           new      == real \cup canaries
           q        == [i \in 1 .. (n + k) |-> c + Plant(n, k)[i]]
           ModelOf(u) == IF asked[u - c] # None THEN asked[u - c] ELSE model
<1>1. c \in Nat /\ n \in Nat /\ k \in Nat /\ n >= 1 /\ c + n + k <= MaxUnits
  BY BoundsAssumption DEF UnitIds, CreateBatch
<1>2. /\ new = (c + 1) .. (c + n + k) /\ new \subseteq UnitIds
      /\ real \cap canaries = {} /\ c + 1 \in real
  BY <1>1, BoundsAssumption DEF UnitIds
<1>3. \A u \in new : u \notin Created /\ units[u].state = "absent"
  <2>1. Created = 1 .. c
    BY DEF CreateBatch
  <2>2. \A u \in new : u \notin 1 .. c
    BY <1>1, <1>2
  <2> QED
    BY <1>2, <2>1, <2>2 DEF Created
<1>4. /\ batches' = [batches EXCEPT ![b] =
             [state |-> "in_progress", unit_ids |-> real, canary_unit_ids |-> canaries]]
      /\ units' = [u \in UnitIds |-> IF u \in new THEN NewUnit(b, ModelOf(u)) ELSE units[u]]
      /\ pending' = pending \o q
      /\ batches[b].state = "absent"
  BY DEF CreateBatch
<1>5. \A u \in new : ModelOf(u) \in Models \cup {None}
  <2>1. \A u \in new : u - c \in 1 .. (n + k)
    BY <1>1, <1>2
  <2> QED
    BY <2>1
<1>6. q \in Seq(UnitIds) /\ \A u \in new : \E i \in DOMAIN q : q[i] = u
  <2>1. q \in Seq(UnitIds)
    BY <1>1, PlantedEntries
  <2>2. \A u \in (c + 1) .. (c + n + k) : \E i \in DOMAIN q : q[i] = u
    BY <1>1, PlantedEntries
  <2> HIDE DEF q, new
  <2> QED
    BY <1>2, <2>1, <2>2
<1> HIDE DEF q, ModelOf
<1>7. ASSUME NEW u \in UnitIds
      PROVE  /\ units'[u] \in WorkUnit
             /\ u \notin new => units'[u] = units[u]
             /\ u \in new => /\ units'[u].batch_id = b /\ units'[u].state = "pending"
                             /\ units'[u].node_id = None /\ units'[u].left = 0
                             /\ units'[u].text = None
  <2>1. CASE u \in new
    <3>1. units'[u] = NewUnit(b, ModelOf(u))
      BY <1>4, <2>1
    <3>2. 0 \in 0 .. LeaseTicks /\ 0 \in Nat
      BY BoundsAssumption
    <3>3. ModelOf(u) \in Models \cup {None}
      BY <1>5, <2>1
    <3> QED
      BY <2>1, <3>1, <3>2, <3>3 DEF NewUnit, WorkUnit, UnitState
  <2>2. CASE u \notin new
    BY <1>4, <2>2 DEF TypeOK
  <2> QED
    BY <2>1, <2>2
<1>8. /\ pending' \in Seq(UnitIds)
      /\ \A u : Queued(u) => Queued(u)'
      /\ \A u \in new : Queued(u)'
  <2>1. pending \in Seq(UnitIds)
    BY DEF TypeOK
  <2>2. /\ pending' \in Seq(UnitIds)
        /\ \A u : Queued(u) => Queued(u)'
        /\ \A i \in DOMAIN q : Queued(q[i])'
    BY <1>4, <1>6, <2>1, ExtendedQueue
  <2> QED
    BY <1>6, <2>2
<1>9. /\ batches' \in [BatchIds -> Batch]
      /\ batches'[b].state = "in_progress"
      /\ batches'[b].unit_ids = real /\ batches'[b].canary_unit_ids = canaries
      /\ \A a \in BatchIds \ {b} : batches'[a] = batches[a]
  <2>1. batches \in [BatchIds -> Batch]
    BY DEF TypeOK
  <2>2. [state |-> "in_progress", unit_ids |-> real, canary_unit_ids |-> canaries] \in Batch
    BY <1>2 DEF Batch, BatchState
  <2> QED
    BY <1>4, <2>1, <2>2
<1> HIDE DEF real, canaries
<1>10. /\ \A u \in UnitIds \ new : Outstanding(u)' <=> Outstanding(u)
       /\ \A u \in new : Outstanding(u)'
       /\ Created' = Created \cup new
  BY <1>2, <1>7 DEF Outstanding, Created
<1>11. ASSUME NEW a \in BatchIds, NEW u \in batches[a].unit_ids \cup batches[a].canary_unit_ids
       PROVE  /\ u \in Created /\ u \in UnitIds /\ u \notin new /\ units[u].batch_id = a
              /\ a # b
  <2>1. u \in Created /\ units[u].batch_id = a /\ a # b
    BY <1>4 DEF UnitsBelong
  <2> QED
    BY <1>3, <2>1 DEF Created
<1>12. TypeOK'
  <2>1. units' \in [UnitIds -> WorkUnit]
    BY <1>4, <1>7
  <2>2. \A u \in Created' : units'[u].batch_id \in BatchIds
    BY <1>2, <1>7, <1>10 DEF TypeOK, Created
  <2> QED
    BY <1>8, <1>9, <2>1, <2>2 DEF TypeOK
<1>13. NoUnitLost'
  BY <1>7, <1>8 DEF NoUnitLost
<1>14. BatchStateAgrees'
  <2> SUFFICES ASSUME NEW a \in BatchIds
               PROVE  /\ batches'[a].state = "in_progress" <=>
                             \E v \in batches'[a].unit_ids : Outstanding(v)'
                      /\ batches'[a].state = "cancelled" =>
                             \A v \in batches'[a].unit_ids \cup batches'[a].canary_unit_ids :
                                 ~Outstanding(v)'
    BY DEF BatchStateAgrees
  <2>1. CASE a = b
    BY <1>2, <1>9, <1>10, <2>1
  <2>2. CASE a # b
    BY <1>9, <1>10, <1>11, <2>2 DEF BatchStateAgrees
  <2> QED
    BY <2>1, <2>2
<1>15. FailedForCause'
  <2> SUFFICES ASSUME NEW v \in UnitIds, units'[v].state = "failed"
               PROVE  \/ units'[v].error = "reported" /\ units'[v].attempts >= MaxUnitAttempts
                      \/ /\ units'[v].error = "batch cancelled"
                         /\ batches'[units'[v].batch_id].state = "cancelled"
    BY DEF FailedForCause
  <2>1. units'[v] = units[v] /\ v \in Created
    BY <1>7 DEF Created
  <2>2. units[v].batch_id \in BatchIds
    BY <2>1 DEF TypeOK
  <2>3. batches[units[v].batch_id].state = "cancelled" =>
             batches'[units[v].batch_id].state = "cancelled"
    BY <1>4, <1>9, <2>2
  <2> QED
    BY <2>1, <2>3 DEF FailedForCause
<1>16. FieldsFitState'
  BY <1>7 DEF FieldsFitState
<1>17. UnitsBelong'
  <2>1. \A a \in BatchIds :
          /\ batches'[a].state = "absent" =>
                batches'[a].unit_ids = {} /\ batches'[a].canary_unit_ids = {}
          /\ batches'[a].unit_ids \cap batches'[a].canary_unit_ids = {}
    BY <1>2, <1>9 DEF UnitsBelong
  <2>2. ASSUME NEW a \in BatchIds,
               NEW v \in batches'[a].unit_ids \cup batches'[a].canary_unit_ids
        PROVE  v \in Created' /\ units'[v].batch_id = a
    <3>1. CASE a = b
      BY <1>2, <1>7, <1>9, <1>10, <3>1
    <3>2. CASE a # b
      BY <1>7, <1>9, <1>10, <1>11, <3>2
    <3> QED
      BY <3>1, <3>2
  <2>3. ASSUME NEW v \in Created'
        PROVE  \E a \in BatchIds : v \in batches'[a].unit_ids \cup batches'[a].canary_unit_ids
    <3>1. CASE v \in new
      BY <1>9, <3>1
    <3>2. CASE v \notin new
      <4>1. v \in Created
        BY <1>10, <3>2
      <4>2. PICK a \in BatchIds : v \in batches[a].unit_ids \cup batches[a].canary_unit_ids
        BY <4>1 DEF UnitsBelong
      <4> QED
        BY <1>9, <1>11, <4>2
    <3> QED
      BY <3>1, <3>2
  <2> QED
    BY <2>1, <2>2, <2>3 DEF UnitsBelong
<1> QED
  BY <1>12, <1>13, <1>14, <1>15, <1>16, <1>17
-----------------------------------------------------------------------------
\* Every step of the store preserves the invariant.
LEMMA NextPreserves == IInv /\ [Next]_vars => IInv'
<1> SUFFICES ASSUME IInv, [Next]_vars PROVE IInv'
  OBVIOUS
<1>1. CASE Submit
  BY <1>1, CreatePreserves DEF Submit
<1>2. ASSUME NEW n \in Nodes, NEW count \in UnitIds, NEW m \in Models \cup {None},
             Lease(n, count, m)
      PROVE  IInv'
  BY <1>2, LeasePreserves
<1>3. ASSUME NEW u \in Created, NEW n \in Nodes, NEW t \in Texts, Complete(u, n, t)
      PROVE  IInv'
  BY <1>3, CompletePreserves
<1>4. ASSUME NEW u \in Created, Fail(u)
      PROVE  IInv'
  BY <1>4, FailPreserves
<1>5. ASSUME NEW n \in Nodes, ReleaseNode(n)
      PROVE  IInv'
  <2>1. HeldBy(n) \in SUBSET UnitIds /\ \A u \in HeldBy(n) : units[u].state = "leased"
    BY DEF HeldBy
  <2> QED
    BY <1>5, <2>1, PutBackPreserves DEF ReleaseNode
<1>6. CASE ExpireLeases
  <2>1. Overdue \in SUBSET UnitIds /\ \A u \in Overdue : units[u].state = "leased"
    BY DEF Overdue
  <2> QED
    BY <1>6, <2>1, PutBackPreserves DEF ExpireLeases
<1>7. ASSUME NEW b \in BatchIds, CancelBatch(b)
      PROVE  IInv'
  BY <1>7, CancelPreserves
<1>8. CASE Tick
  BY <1>8, TickPreserves
<1>9. CASE UNCHANGED vars
  BY <1>9, StutterPreserves
<1> QED
  BY <1>1, <1>2, <1>3, <1>4, <1>5, <1>6, <1>7, <1>8, <1>9 DEF Next

\* The conjunction of the safety invariants is an inductive invariant of the
\* store, whatever the fleet does to it.
THEOREM Invariance == Spec => []IInv
<1>1. Init => IInv
  BY InitEstablishes
<1>2. IInv /\ [Next]_vars => IInv'
  BY NextPreserves
<1> QED
  BY <1>1, <1>2, PTL DEF Spec

\* Every variable of the store keeps its type.
THEOREM TypeCorrect == Spec => []TypeOK
BY Invariance, PTL DEF IInv

\* A unit that waits to run is always in the queue: no interleaving of leases,
\* reports, departures, expiries and cancellations can strand it.
THEOREM NothingIsLost == Spec => []NoUnitLost
BY Invariance, PTL DEF IInv

\* A batch reports in_progress exactly while a unit of the client's is open.
THEOREM StatusIsExact == Spec => []BatchStateAgrees
BY Invariance, PTL DEF IInv

\* A unit fails only after its attempts are used up or with its batch.
THEOREM FailuresHaveCause == Spec => []FailedForCause
BY Invariance, PTL DEF IInv

\* The fields of a unit fit its state, whichever method came last: a leased unit
\* names its holder, a queued one nobody, and only a complete one has a text.
THEOREM FieldsAgree == Spec => []FieldsFitState
BY Invariance, PTL DEF IInv
-----------------------------------------------------------------------------
\* What one step may do to a unit: a settled unit is not touched at all, and a
\* unit that is leased before and after keeps its holder and its attempt count.
UnitStep(u) ==
    /\ u \in Created /\ ~Outstanding(u) => units'[u] = units[u]
    /\ units[u].state = "leased" /\ units'[u].state = "leased"
          => units'[u].node_id = units[u].node_id /\ units'[u].attempts = units[u].attempts

\* Every step of the store keeps to UnitStep.
LEMMA StepsKeepUnits ==
    ASSUME IInv, [Next]_vars, NEW u \in UnitIds
    PROVE  UnitStep(u)
<1> USE DEF UnitStep, Outstanding, Created
<1>0. units \in [UnitIds -> WorkUnit] /\ units[u] \in WorkUnit
  BY DEF IInv, TypeOK
<1>1. ASSUME NEW b \in BatchIds, NEW c \in 0 .. MaxUnits, NEW n \in UnitIds,
             NEW k \in 0 .. MaxCanaries, NEW model \in Models \cup {None},
             NEW asked \in [1 .. (n + k) -> Models \cup {None}],
             CreateBatch(b, c, n, k, model, asked)
      PROVE  UnitStep(u)
  <2> DEFINE new == (c + 1) .. (c + n) \cup (c + n + 1) .. (c + n + k)
  <2>1. Created = 1 .. c
    BY <1>1 DEF CreateBatch
  <2>2. c \in Nat /\ n \in Nat /\ k \in Nat
    BY BoundsAssumption DEF UnitIds
  <2>3. u \in 1 .. c => u \notin new
    BY <2>2
  <2>4. u \in Created => units'[u] = units[u]
    BY <1>1, <2>1, <2>3 DEF CreateBatch
  <2> QED
    BY <2>4
<1>2. ASSUME NEW n \in Nodes, NEW count \in UnitIds, NEW m \in Models \cup {None},
             Lease(n, count, m)
      PROVE  UnitStep(u)
  <2>1. u \in Granted(count, m) => units[u].state = "pending"
    BY DEF Granted, Takes, Live
  <2>2. u \notin Granted(count, m) => units'[u] = units[u]
    BY <1>2 DEF Lease
  <2> QED
    BY <2>1, <2>2
<1>3. ASSUME NEW v \in Created, NEW n \in Nodes, NEW t \in Texts, Complete(v, n, t)
      PROVE  UnitStep(u)
  <2>1. CASE u = v /\ Outstanding(u)
    <3> DEFINE r == [units[u] EXCEPT !.state = "complete", !.text = t, !.node_id = n, !.left = 0]
    <3>1. units' = [units EXCEPT ![u] = r]
      BY <1>0, <1>3, <2>1 DEF Complete
    <3>2. r.state = "complete"
      BY <1>0 DEF WorkUnit
    <3> HIDE DEF r
    <3>3. units'[u].state = "complete"
      BY <1>0, <3>1, <3>2
    <3> QED
      BY <2>1, <3>3
  <2>3. CASE u = v /\ ~Outstanding(u)
    BY <1>3, <2>3 DEF Complete, vars
  <2>2. CASE u # v
    BY <1>0, <1>3, <2>2 DEF Complete, vars
  <2> QED
    BY <2>1, <2>2, <2>3
<1>4. ASSUME NEW v \in Created, Fail(v)
      PROVE  UnitStep(u)
  <2>1. CASE u = v
    <3>1. Requeued(units[u]) \in WorkUnit /\ Requeued(units[u]).state = "pending"
      BY <1>0, RequeuedFields
    <3>2. [Requeued(units[u]) EXCEPT !.error = "reported"].state = "pending"
      BY <3>1 DEF WorkUnit
    <3>3. CASE ~Outstanding(u)
      BY <1>4, <2>1, <3>3 DEF Fail, OutOfAttempts, vars
    <3>4. CASE units' = [units EXCEPT ![u].state = "failed", ![u].error = "reported"]
                /\ Outstanding(u)
      <4>1. units'[u].state = "failed"
        BY <1>0, <3>4 DEF WorkUnit
      <4> QED
        BY <3>4, <4>1
    <3>5. CASE units' = [units EXCEPT ![u] = [Requeued(@) EXCEPT !.error = "reported"]]
                /\ Outstanding(u)
      <4>1. units'[u].state = "pending"
        BY <1>0, <3>2, <3>5
      <4> QED
        BY <3>5, <4>1
    <3> QED
      BY <1>4, <2>1, <3>3, <3>4, <3>5 DEF Fail, OutOfAttempts
  <2>2. CASE u # v
    BY <1>0, <1>4, <2>2 DEF Fail, OutOfAttempts, vars
  <2> QED
    BY <2>1, <2>2
<1>5. ASSUME NEW S \in SUBSET UnitIds, \A v \in S : units[v].state = "leased", PutBack(S)
      PROVE  UnitStep(u)
  BY <1>0, <1>5, RequeuedFields DEF PutBack
<1>6. ASSUME NEW n \in Nodes, ReleaseNode(n)
      PROVE  UnitStep(u)
  <2>1. HeldBy(n) \in SUBSET UnitIds /\ \A v \in HeldBy(n) : units[v].state = "leased"
    BY DEF HeldBy
  <2> QED
    BY <1>5, <1>6, <2>1 DEF ReleaseNode
<1>7. CASE ExpireLeases
  <2>1. Overdue \in SUBSET UnitIds /\ \A v \in Overdue : units[v].state = "leased"
    BY DEF Overdue
  <2> QED
    BY <1>5, <1>7, <2>1 DEF ExpireLeases
<1>8. ASSUME NEW b \in BatchIds, CancelBatch(b)
      PROVE  UnitStep(u)
  BY <1>0, <1>8 DEF CancelBatch, WorkUnit
<1>9. CASE Tick
  BY <1>0, <1>9 DEF Tick, WorkUnit
<1>10. CASE UNCHANGED vars
  BY <1>10 DEF vars
<1> QED
  BY <1>1, <1>2, <1>3, <1>4, <1>6, <1>7, <1>8, <1>9, <1>10 DEF Next, Submit

\* Results are final: once a unit is settled, no late, duplicate or stale
\* report changes what a client reads of it.
THEOREM FinalResults == Spec => ResultsAreFinal
<1> DEFINE A == \A u \in Created : ~Outstanding(u) => ResultRecord(u)' = ResultRecord(u)
<1>1. IInv /\ [Next]_vars => [A]_vars
  <2> SUFFICES ASSUME IInv, [Next]_vars, NEW u \in Created, ~Outstanding(u)
               PROVE  ResultRecord(u)' = ResultRecord(u)
    OBVIOUS
  <2>1. u \in UnitIds
    BY DEF Created
  <2>2. units'[u] = units[u]
    BY <2>1, StepsKeepUnits DEF UnitStep
  <2> QED
    BY <2>2 DEF ResultRecord
<1> QED
  BY <1>1, Invariance, PTL DEF Spec, ResultsAreFinal

\* No unit passes from one node to another without going through the queue.
THEOREM LeasesAreExclusive == Spec => NoLeaseStolen
<1> DEFINE A == \A u \in UnitIds :
                  units[u].state = "leased" /\ units'[u].state = "leased"
                      => units'[u].node_id = units[u].node_id
                         /\ units'[u].attempts = units[u].attempts
<1>1. IInv /\ [Next]_vars => [A]_vars
  BY StepsKeepUnits DEF UnitStep
<1> QED
  BY <1>1, Invariance, PTL DEF Spec, NoLeaseStolen
-----------------------------------------------------------------------------
(***************************************************************************)
(* The loop of lease() and the sets of the Lease action.                   *)
(***************************************************************************)
\* The positions the action grants from.
Given(count, m) == Takes(m) \cap Scanned(count, m)

\* The loop stops taking where Scanned ends: position i is scanned exactly while
\* fewer than `count` positions before it were granted.
LEMMA ScanEnds ==
    ASSUME pending \in Seq(UnitIds), NEW count \in Nat, NEW m, NEW i \in DOMAIN pending
    PROVE  /\ i \in Scanned(count, m) <=> Cardinality(Upto(Given(count, m), i - 1)) < count
           /\ \A j \in 1 .. i : i \in Scanned(count, m) => j \in Scanned(count, m)
<1> DEFINE T == Takes(m)
           Before(x) == {j \in T : j < x}
           full == {x \in 1 .. i : ~(Cardinality(Before(x)) < count)}
           G == Upto(Given(count, m), i - 1)
<1>1. Len(pending) \in Nat /\ DOMAIN pending = 1 .. Len(pending)
  BY LenProperties
<1>2. T \in SUBSET (1 .. Len(pending)) /\ IsFiniteSet(1 .. Len(pending))
  BY <1>1, FS_Interval DEF Takes
<1>3. i \in 1 .. Len(pending) /\ i \in Int /\ \A j \in 1 .. Len(pending) : j \in Int
  BY <1>1
<1>4. \A x \in 1 .. Len(pending) : x \in Scanned(count, m) <=> Cardinality(Before(x)) < count
  BY <1>1 DEF Scanned
<1> HIDE DEF T
<1>5. \A x : IsFiniteSet(Before(x)) /\ Cardinality(Before(x)) \in Nat
  <2> TAKE x
  <2>1. Before(x) \in SUBSET (1 .. Len(pending))
    BY <1>2
  <2>2. IsFiniteSet(Before(x))
    BY <1>2, <2>1, FS_Subset
  <2> QED
    BY <2>2, FS_CardinalityType
<1>6. \A x, y \in 1 .. Len(pending) : x <= y => Cardinality(Before(x)) <= Cardinality(Before(y))
  <2> TAKE x, y \in 1 .. Len(pending)
  <2> HAVE x <= y
  <2>1. Before(x) \in SUBSET Before(y)
    <3> SUFFICES ASSUME NEW j \in Before(x) PROVE j \in Before(y)
      OBVIOUS
    <3>1. j \in T /\ j < x /\ j \in Int /\ x \in Int /\ y \in Int
      BY <1>2, <1>3
    <3>2. j < y
      BY <3>1
    <3> QED
      BY <3>1, <3>2
  <2>2. IsFiniteSet(Before(y))
    BY <1>5
  <2> HIDE DEF Before
  <2> QED
    BY <2>1, <2>2, FS_Subset
<1>7. ASSUME i \in Scanned(count, m), NEW j \in 1 .. i
      PROVE  j \in Scanned(count, m)
  <2>1. j \in 1 .. Len(pending) /\ j <= i
    BY <1>1, <1>3
  <2>2. Cardinality(Before(j)) <= Cardinality(Before(i)) /\ Cardinality(Before(i)) < count
    BY <1>3, <1>4, <1>6, <1>7, <2>1
  <2>3. Cardinality(Before(j)) \in Nat /\ Cardinality(Before(i)) \in Nat
    BY <1>5
  <2> HIDE DEF Before
  <2>4. Cardinality(Before(j)) < count
    BY <2>2, <2>3
  <2> QED
    BY <1>4, <2>1, <2>4
<1>8. G \in SUBSET Before(i) /\ IsFiniteSet(G) /\ Cardinality(G) \in Nat
      /\ Cardinality(G) <= Cardinality(Before(i))
  <2>1. G \in SUBSET Before(i)
    <3> SUFFICES ASSUME NEW j \in G PROVE j \in Before(i)
      OBVIOUS
    <3>1. j \in T /\ j <= i - 1
      BY DEF Given, Upto, T
    <3>2. j \in Int
      BY <1>2, <1>3, <3>1
    <3> QED
      BY <1>3, <3>1, <3>2
  <2>2. IsFiniteSet(Before(i))
    BY <1>5
  <2> HIDE DEF Before, G
  <2>3. IsFiniteSet(G) /\ Cardinality(G) <= Cardinality(Before(i))
    BY <2>1, <2>2, FS_Subset
  <2> QED
    BY <2>1, <2>3, FS_CardinalityType
<1>9. CASE i \in Scanned(count, m)
  <2>1. Cardinality(Before(i)) < count
    BY <1>3, <1>4, <1>9
  <2>2. Cardinality(Before(i)) \in Nat
    BY <1>5
  <2> HIDE DEF Before, G
  <2>3. Cardinality(G) < count
    BY <1>8, <2>1, <2>2
  <2> QED
    BY <1>7, <1>9, <2>3 DEF G
<1>10. CASE i \notin Scanned(count, m)
  <2>1. i \in full
    BY <1>3, <1>4, <1>10
  <2>2. PICK f \in full : \A x \in full : f <= x
    <3>1. full \in SUBSET (1 .. i) /\ IsFiniteSet(1 .. i)
      BY <1>3, FS_Interval
    <3>2. full \in SUBSET Int /\ full # {}
      <4>1. \A x \in 1 .. i : x \in Int
        BY <1>3
      <4> HIDE DEF Before
      <4> QED
        BY <2>1, <4>1
    <3> HIDE DEF full
    <3>3. IsFiniteSet(full)
      BY <3>1, FS_Subset
    <3> QED
      BY <3>2, <3>3, LeastMember
  <2>3. f \in 1 .. i /\ f \in Int /\ ~(Cardinality(Before(f)) < count)
    BY <1>3
  <2>4. Before(f) \in SUBSET G
    <3> SUFFICES ASSUME NEW j \in Before(f) PROVE j \in G
      OBVIOUS
    <3>1. j \in T /\ j \in 1 .. Len(pending) /\ j < f
      BY <1>2
    <3>2. j \in 1 .. i /\ j <= i - 1 /\ ~(f <= j)
      BY <1>1, <1>3, <2>3, <3>1
    <3>3. Cardinality(Before(j)) < count
      BY <2>2, <3>2
    <3>4. j \in Scanned(count, m)
      BY <1>4, <3>1, <3>3
    <3> QED
      BY <3>1, <3>2, <3>4 DEF Given, Upto, T
  <2>5. Cardinality(Before(f)) \in Nat
    BY <1>5
  <2> HIDE DEF Before, G
  <2>6. Cardinality(Before(f)) <= Cardinality(G)
    BY <1>8, <2>4, FS_Subset
  <2>7. ~(Cardinality(G) < count)
    BY <1>8, <2>3, <2>5, <2>6
  <2> QED
    BY <1>7, <1>10, <2>7 DEF G
<1> QED
  BY <1>9, <1>10

\* What the loop has leased and kept after i entries, as the sets say it.
LoopState(count, m, i) ==
    [leased        |-> Select(pending, Upto(Given(count, m), i)),
     still_pending |-> Select(pending, Upto(StillPending(count, m), i))]

\* An entry of the queue is leased, kept or dropped by the loop as the sets say.
LEMMA TurnFollowsSets ==
    ASSUME IInv, NEW count \in UnitIds, NEW m \in Models \cup {None}, NEW i \in DOMAIN pending
    PROVE  LeaseTurn(count, m, LoopState(count, m, i - 1), pending[i]) = LoopState(count, m, i)
<1> DEFINE p == pending[i]
           G == Given(count, m)
           K == StillPending(count, m)
           acc == LoopState(count, m, i - 1)
           taken == \E k \in DOMAIN acc.leased : acc.leased[k] = p
           gone == batches[units[p].batch_id].state = "cancelled"
           other == units[p].model # None /\ m # None /\ units[p].model # m
           stale == units[p].state # "pending" \/ taken
           keep == [acc EXCEPT !.still_pending = Append(@, p)]
           take == [acc EXCEPT !.leased = Append(@, p)]
           next == LoopState(count, m, i)
<1>1. pending \in Seq(UnitIds) /\ Len(pending) \in Nat /\ DOMAIN pending = 1 .. Len(pending)
  BY LenProperties DEF IInv, TypeOK
<1>2. i \in 1 .. Len(pending) /\ i \in Nat /\ p \in UnitIds /\ count \in Nat
  BY <1>1, BoundsAssumption DEF UnitIds
<1>3. G \in SUBSET DOMAIN pending /\ K \in SUBSET DOMAIN pending
  BY DEF Given, Takes, StillPending
<1>4. /\ acc.leased = Select(pending, Upto(G, i - 1))
      /\ acc.still_pending = Select(pending, Upto(K, i - 1))
      /\ acc = [leased |-> acc.leased, still_pending |-> acc.still_pending]
  BY DEF LoopState
<1>5. /\ Len(acc.leased) = Cardinality(Upto(G, i - 1))
      /\ {acc.leased[k] : k \in DOMAIN acc.leased} = {pending[j] : j \in Upto(G, i - 1)}
  <2>1. Upto(G, i - 1) \in SUBSET DOMAIN pending
    BY <1>3 DEF Upto
  <2> HIDE DEF acc, G
  <2> DEFINE q == Select(pending, Upto(G, i - 1))
  <2>2. /\ Len(q) = Cardinality(Upto(G, i - 1))
        /\ {q[k] : k \in DOMAIN q} = {pending[j] : j \in Upto(G, i - 1)}
    BY <1>1, <2>1, SelectEntries
  <2>3. acc.leased = q
    BY <1>4
  <2> HIDE DEF q
  <2> QED
    BY <2>2, <2>3
<1>6. i \in Scanned(count, m) <=> ~(Len(acc.leased) >= count)
  <2>1. Cardinality(Upto(G, i - 1)) \in Nat
    <3>1. Upto(G, i - 1) \in SUBSET (1 .. Len(pending)) /\ IsFiniteSet(1 .. Len(pending))
      BY <1>1, <1>3, FS_Interval DEF Upto
    <3> QED
      BY <3>1, FS_Subset, FS_CardinalityType
  <2>2. i \in Scanned(count, m) <=> Cardinality(Upto(G, i - 1)) < count
    BY <1>1, <1>2, ScanEnds
  <2> QED
    BY <1>2, <1>5, <2>1, <2>2
<1>7. next = [leased |-> IF i \in G THEN Append(acc.leased, p) ELSE acc.leased,
              still_pending |-> IF i \in K THEN Append(acc.still_pending, p)
                                ELSE acc.still_pending]
  <2>1. Select(pending, Upto(G, i)) = IF i \in G THEN Append(acc.leased, p) ELSE acc.leased
    <3> HIDE DEF acc, G
    <3>1. /\ i \in G => Select(pending, Upto(G, i))
                            = Append(Select(pending, Upto(G, i - 1)), pending[i])
          /\ i \notin G => Select(pending, Upto(G, i)) = Select(pending, Upto(G, i - 1))
      <4>1. pending \in Seq(UnitIds) /\ G \in SUBSET DOMAIN pending /\ i \in DOMAIN pending
        BY <1>1, <1>3
      <4> QED
        BY <4>1, SelectExtends
    <3>2. acc.leased = Select(pending, Upto(G, i - 1))
      BY <1>4
    <3> QED
      BY <3>1, <3>2
  <2>2. Select(pending, Upto(K, i)) =
           IF i \in K THEN Append(acc.still_pending, p) ELSE acc.still_pending
    <3> HIDE DEF acc, K
    <3>1. /\ i \in K => Select(pending, Upto(K, i))
                            = Append(Select(pending, Upto(K, i - 1)), pending[i])
          /\ i \notin K => Select(pending, Upto(K, i)) = Select(pending, Upto(K, i - 1))
      <4>1. pending \in Seq(UnitIds) /\ K \in SUBSET DOMAIN pending /\ i \in DOMAIN pending
        BY <1>1, <1>3
      <4> QED
        BY <4>1, SelectExtends
    <3>2. acc.still_pending = Select(pending, Upto(K, i - 1))
      BY <1>4
    <3> QED
      BY <3>1, <3>2
  <2> QED
    BY <2>1, <2>2 DEF LoopState
<1>8. LeaseTurn(count, m, acc, p) =
         CASE Len(acc.leased) >= count -> keep
           [] OTHER ->
              CASE stale \/ gone -> acc
                [] ~(stale \/ gone) /\ other -> keep
                [] OTHER -> take
  BY DEF LeaseTurn
<1>9. /\ keep = [leased |-> acc.leased, still_pending |-> Append(acc.still_pending, p)]
      /\ take = [leased |-> Append(acc.leased, p), still_pending |-> acc.still_pending]
  <2> DEFINE l == acc.leased
             s == acc.still_pending
             l2 == Append(l, p)
             s2 == Append(s, p)
  <2>1. acc = [leased |-> l, still_pending |-> s]
    BY <1>4
  <2>2. keep = [acc EXCEPT !.still_pending = s2] /\ take = [acc EXCEPT !.leased = l2]
    OBVIOUS
  <2> HIDE DEF l, s, l2, s2, acc, keep, take
  <2>3. keep = [leased |-> l, still_pending |-> s2] /\ take = [leased |-> l2, still_pending |-> s]
    BY <2>1, <2>2
  <2> QED
    BY <2>3 DEF l, s, l2, s2
<1>10. i \in K <=> (i \in Scanned(count, m) => Live(p) /\ ~Suits(p, m))
  BY DEF StillPending
<1>11. i \in G => i \in Scanned(count, m) /\ Live(p) /\ Suits(p, m)
                  /\ \A j \in 1 .. (i - 1) : pending[j] # p
  BY DEF Given, Takes
<1>12. other <=> ~Suits(p, m)
  BY DEF Suits
<1>13. taken <=> \E j \in Upto(G, i - 1) : pending[j] = p
  BY <1>5
<1>14. ASSUME taken
       PROVE  Live(p) /\ Suits(p, m) /\ i \notin G
  <2>1. PICK j \in Upto(G, i - 1) : pending[j] = p
    BY <1>13, <1>14
  <2>2. j \in G /\ j \in 1 .. (i - 1)
    BY <1>1, <1>2, <1>3, <2>1 DEF Upto
  <2>3. Live(p) /\ Suits(p, m)
    BY <2>1, <2>2 DEF Given, Takes
  <2> QED
    BY <1>11, <2>1, <2>2, <2>3
<1>15. ASSUME i \in Scanned(count, m), Live(p), Suits(p, m), ~taken
       PROVE  i \in G
  <2>1. ASSUME NEW j \in 1 .. (i - 1), pending[j] = p
        PROVE  FALSE
    <3> DEFINE same == {x \in 1 .. (i - 1) : pending[x] = p}
    <3>1. PICK f \in same : \A x \in same : f <= x
      <4>1. same \in SUBSET (1 .. (i - 1)) /\ IsFiniteSet(1 .. (i - 1))
        BY <1>2, FS_Interval
      <4>2. same \in SUBSET Int /\ same # {}
        BY <1>2, <2>1
      <4> HIDE DEF same
      <4>3. IsFiniteSet(same)
        BY <4>1, FS_Subset
      <4> QED
        BY <4>2, <4>3, LeastMember
    <3>2. f \in 1 .. (i - 1) /\ f \in 1 .. i /\ f \in DOMAIN pending /\ pending[f] = p
      BY <1>1, <1>2
    <3>3. ASSUME NEW x \in 1 .. (f - 1) PROVE pending[x] # pending[f]
      <4>1. x \in 1 .. (i - 1) /\ ~(f <= x)
        BY <1>2, <3>2
      <4> QED
        BY <3>1, <3>2, <4>1
    <3>4. f \in Takes(m)
      BY <1>15, <3>2, <3>3 DEF Takes
    <3>5. f \in Scanned(count, m)
      BY <1>1, <1>2, <1>15, <3>2, ScanEnds
    <3>6. f \in Upto(G, i - 1)
      BY <3>2, <3>4, <3>5 DEF Upto, Given
    <3> QED
      BY <1>13, <1>15, <3>2, <3>6
  <2> QED
    BY <1>15, <2>1 DEF Given, Takes
<1>16. units[p].state = "pending" => Live(p)
  BY <1>2, PendingIsLive
<1>17. Live(p) => units[p].state = "pending" /\ ~gone
  BY DEF Live
<1> HIDE DEF p, G, K, acc, taken, gone, other, keep, take, next
<1>18. CASE Len(acc.leased) >= count
  <2>1. LeaseTurn(count, m, acc, p) = keep
    BY <1>8, <1>18
  <2>2. i \notin G /\ i \in K
    BY <1>6, <1>10, <1>11, <1>18
  <2> QED
    BY <1>7, <1>9, <2>1, <2>2 DEF p, acc, next
<1>19. CASE ~(Len(acc.leased) >= count) /\ (stale \/ gone)
  <2>1. LeaseTurn(count, m, acc, p) = acc
    BY <1>8, <1>19
  <2>2. i \notin G /\ i \notin K
    BY <1>6, <1>10, <1>11, <1>14, <1>17, <1>19
  <2> QED
    BY <1>4, <1>7, <2>1, <2>2 DEF p, acc, next
<1>20. CASE ~(Len(acc.leased) >= count) /\ ~(stale \/ gone) /\ other
  <2>1. LeaseTurn(count, m, acc, p) = keep
    BY <1>8, <1>20
  <2>2. i \notin G /\ i \in K
    BY <1>10, <1>11, <1>12, <1>16, <1>20
  <2> QED
    BY <1>7, <1>9, <2>1, <2>2 DEF p, acc, next
<1>21. CASE ~(Len(acc.leased) >= count) /\ ~(stale \/ gone) /\ ~other
  <2>1. LeaseTurn(count, m, acc, p) = take
    BY <1>8, <1>21
  <2>2. i \in G /\ i \notin K
    BY <1>6, <1>10, <1>12, <1>15, <1>16, <1>21
  <2> QED
    BY <1>7, <1>9, <2>1, <2>2 DEF p, acc, next
<1> QED
  BY <1>18, <1>19, <1>20, <1>21

\* The equation that the local function of LeaseLoop is chosen to satisfy.
TurnByTurn(count, m, after) ==
    after = [i \in 0 .. Len(pending) |->
                IF i = 0 THEN [leased |-> <<>>, still_pending |-> <<>>]
                ELSE LeaseTurn(count, m, after[i - 1], pending[i])]

\* The loop is well defined, and ends with what the sets say of the whole queue:
\* the first entry at which they differed would be one at which a turn differs.
LEMMA LoopFollowsSets ==
    ASSUME IInv, NEW count \in UnitIds, NEW m \in Models \cup {None}
    PROVE  LeaseLoop(count, m) = LoopState(count, m, Len(pending))
<1> DEFINE N == Len(pending)
           state == [i \in 0 .. N |-> LoopState(count, m, i)]
           After == CHOOSE after : TurnByTurn(count, m, after)
           wrong == {i \in 0 .. N : After[i] # state[i]}
<1>1. N \in Nat /\ DOMAIN pending = 1 .. N
  BY LenProperties DEF IInv, TypeOK
<1>2. LeaseLoop(count, m) = After[N]
  BY DEF LeaseLoop, TurnByTurn
<1>3. LoopState(count, m, 0) = [leased |-> <<>>, still_pending |-> <<>>]
  <2>1. ASSUME NEW K, K \in SUBSET (1 .. N)
        PROVE  Select(pending, Upto(K, 0)) = <<>>
    <3>1. Upto(K, 0) = {}
      <4>1. \A j \in K : ~(j <= 0)
        BY <1>1, <2>1
      <4> QED
        BY <4>1 DEF Upto
    <3>2. Cardinality(Upto(K, 0)) = 0
      BY <3>1, FS_EmptySet
    <3> QED
      BY <3>2 DEF Select
  <2>2. Given(count, m) \in SUBSET (1 .. N) /\ StillPending(count, m) \in SUBSET (1 .. N)
    BY <1>1 DEF Given, Takes, StillPending
  <2> QED
    BY <2>1, <2>2 DEF LoopState
<1>4. \A i \in 1 .. N :
         i - 1 \in 0 .. N /\ i \in 0 .. N
         /\ LoopState(count, m, i) = LeaseTurn(count, m, LoopState(count, m, i - 1), pending[i])
  <2> TAKE i \in 1 .. N
  <2>1. i - 1 \in 0 .. N /\ i \in 0 .. N
    BY <1>1
  <2>2. i \in DOMAIN pending
    BY <1>1
  <2> QED
    BY <2>1, <2>2, TurnFollowsSets
<1>5. TurnByTurn(count, m, state)
  <2> DEFINE F(i) == IF i = 0 THEN [leased |-> <<>>, still_pending |-> <<>>]
                     ELSE LeaseTurn(count, m, state[i - 1], pending[i])
  <2>1. ASSUME NEW i \in 0 .. N
        PROVE  state[i] = F(i)
    <3>1. CASE i = 0
      BY <1>1, <1>3, <3>1
    <3>2. CASE i \in 1 .. N
      BY <1>4, <3>2
    <3> QED
      BY <1>1, <3>1, <3>2
  <2>2. state = [i \in 0 .. N |-> state[i]]
    OBVIOUS
  <2> HIDE DEF state
  <2>3. state = [i \in 0 .. N |-> F(i)]
    BY <2>1, <2>2
  <2> QED
    BY <2>3 DEF TurnByTurn
<1>6. TurnByTurn(count, m, After)
  <2> HIDE DEF state
  <2> QED
    BY <1>5
<1> HIDE DEF After, state
<1>7. \A i \in 0 .. N : After[i] = IF i = 0 THEN [leased |-> <<>>, still_pending |-> <<>>]
                                   ELSE LeaseTurn(count, m, After[i - 1], pending[i])
  BY <1>6 DEF TurnByTurn
<1>8. \A i \in 0 .. N : state[i] = IF i = 0 THEN [leased |-> <<>>, still_pending |-> <<>>]
                                   ELSE LeaseTurn(count, m, state[i - 1], pending[i])
  BY <1>5 DEF TurnByTurn
<1>9. wrong = {}
  <2> SUFFICES ASSUME wrong # {} PROVE FALSE
    OBVIOUS
  <2>1. wrong \in SUBSET (0 .. N) /\ wrong \in SUBSET Int
    BY <1>1
  <2>2. PICK f \in wrong : \A x \in wrong : f <= x
    <3>1. IsFiniteSet(0 .. N)
      BY <1>1, FS_Interval
    <3> HIDE DEF wrong
    <3>2. IsFiniteSet(wrong)
      BY <2>1, <3>1, FS_Subset
    <3> QED
      BY <2>1, <3>2, LeastMember
  <2>3. f \in 0 .. N /\ f # 0 /\ After[f] # state[f]
    BY <1>1, <1>7, <1>8
  <2>4. f - 1 \in 0 .. N /\ ~(f <= f - 1)
    BY <1>1, <2>3
  <2>5. After[f - 1] = state[f - 1]
    BY <2>2, <2>4
  <2> QED
    BY <1>7, <1>8, <2>3, <2>5
<1>10. After[N] = state[N]
  BY <1>1, <1>9
<1> QED
  BY <1>1, <1>2, <1>10 DEF state

\* The Lease action is the loop of lease(): in every reachable queue, whatever is
\* in it twice or for nothing, it grants the same units in the same order and
\* keeps the same entries, for every capacity and every model.
THEOREM LeaseIsTheLoop == Spec => []LeaseFollowsLoop
<1>1. IInv => LeaseFollowsLoop
  <2> SUFFICES ASSUME IInv, NEW count \in UnitIds, NEW m \in Models \cup {None}
               PROVE  /\ LeaseLoop(count, m) =
                            [leased |-> Assigned(count, m),
                             still_pending |-> Select(pending, StillPending(count, m))]
                      /\ Granted(count, m) =
                            {Assigned(count, m)[k] : k \in DOMAIN Assigned(count, m)}
    BY DEF LeaseFollowsLoop
  <2>1. /\ pending \in Seq(UnitIds) /\ Len(pending) \in Nat
        /\ DOMAIN pending = 1 .. Len(pending)
    BY LenProperties DEF IInv, TypeOK
  <2>2. /\ Given(count, m) \in SUBSET (1 .. Len(pending))
        /\ StillPending(count, m) \in SUBSET (1 .. Len(pending))
    BY <2>1 DEF Given, Takes, StillPending
  <2>3. ASSUME NEW K \in SUBSET (1 .. Len(pending)) PROVE Upto(K, Len(pending)) = K
    <3>1. \A j \in K : j <= Len(pending)
      BY <2>1
    <3> QED
      BY <3>1 DEF Upto
  <2>4. /\ Upto(Given(count, m), Len(pending)) = Given(count, m)
        /\ Upto(StillPending(count, m), Len(pending)) = StillPending(count, m)
    BY <2>2, <2>3
  <2>5. LeaseLoop(count, m) =
           [leased |-> Select(pending, Given(count, m)),
            still_pending |-> Select(pending, StillPending(count, m))]
    BY <2>4, LoopFollowsSets DEF LoopState
  <2>6. {Select(pending, Given(count, m))[k] : k \in DOMAIN Select(pending, Given(count, m))}
           = {pending[i] : i \in Given(count, m)}
    BY <2>1, <2>2, SelectEntries
  <2> QED
    BY <2>5, <2>6 DEF Given, Assigned, Granted
<1> QED
  BY <1>1, Invariance, PTL
-----------------------------------------------------------------------------
(***************************************************************************)
(* BatchStore implements UnitLedger: what a client can read of its batches *)
(* behaves as a write-once ledger.                                         *)
(***************************************************************************)

\* The outcome of a unit, by its state.
LEMMA OutcomeCases ==
    ASSUME IInv, NEW u \in UnitIds
    PROVE  /\ u \notin Real => Outcome(u) = Ledger!Unasked
           /\ u \in Real /\ Outstanding(u) => Outcome(u) = Ledger!Open
           /\ u \in Real /\ units[u].state = "complete" =>
                 Outcome(u) = Ledger!Answer(units[u].text)
           /\ u \in Real /\ units[u].state = "failed" =>
                 Outcome(u) = IF units[u].error = "reported" THEN Ledger!DeadLetter
                                                             ELSE Ledger!Cancelled
<1>1. units[u].state # "complete" => units[u].text = None
  BY DEF IInv, FieldsFitState
<1>2. Outstanding(u) => OutcomeKind(units[u]) = "open"
  BY DEF Outstanding, OutcomeKind
<1>3. units[u].state = "complete" => OutcomeKind(units[u]) = "answered"
  BY DEF OutcomeKind
<1>4. units[u].state = "failed" =>
         OutcomeKind(units[u]) = IF units[u].error = "reported" THEN "failed" ELSE "cancelled"
  BY DEF OutcomeKind
<1>5. Outstanding(u) => units[u].state # "complete"
  BY DEF Outstanding
<1> QED
  BY <1>1, <1>2, <1>3, <1>4, <1>5
  DEF Outcome, Ledger!Unasked, Ledger!Open, Ledger!Answer, Ledger!DeadLetter, Ledger!Cancelled

\* The same, in the next state.
LEMMA OutcomeCasesNext ==
    ASSUME IInv', NEW u \in UnitIds
    PROVE  /\ u \notin Real' => Outcome(u)' = Ledger!Unasked
           /\ u \in Real' /\ Outstanding(u)' => Outcome(u)' = Ledger!Open
           /\ u \in Real' /\ units'[u].state = "complete" =>
                 Outcome(u)' = Ledger!Answer(units'[u].text)
           /\ u \in Real' /\ units'[u].state = "failed" =>
                 Outcome(u)' = IF units'[u].error = "reported" THEN Ledger!DeadLetter
                                                               ELSE Ledger!Cancelled
<1>1. units'[u].state # "complete" => units'[u].text = None
  BY DEF IInv, FieldsFitState
<1>2. Outstanding(u)' => OutcomeKind(units[u])' = "open"
  BY DEF Outstanding, OutcomeKind
<1>3. units'[u].state = "complete" => OutcomeKind(units[u])' = "answered"
  BY DEF OutcomeKind
<1>4. units'[u].state = "failed" =>
         OutcomeKind(units[u])' = IF units'[u].error = "reported" THEN "failed" ELSE "cancelled"
  BY DEF OutcomeKind
<1>5. Outstanding(u)' => units'[u].state # "complete"
  BY DEF Outstanding
<1> QED
  BY <1>1, <1>2, <1>3, <1>4, <1>5
  DEF Outcome, Ledger!Unasked, Ledger!Open, Ledger!Answer, Ledger!DeadLetter, Ledger!Cancelled

\* The client's units are created units of the batch that lists them.
LEMMA RealUnits ==
    ASSUME IInv, NEW u \in Real
    PROVE  /\ u \in Created /\ u \in UnitIds
           /\ units[u].batch_id \in BatchIds
           /\ u \in batches[units[u].batch_id].unit_ids
<1>1. PICK b \in BatchIds : u \in batches[b].unit_ids
  BY DEF Real
<1>2. u \in Created /\ units[u].batch_id = b
  BY <1>1 DEF IInv, UnitsBelong
<1> QED
  BY <1>1, <1>2 DEF Created

\* Initially the ledger is empty.
LEMMA InitRefines == Init => Ledger!Init
<1> SUFFICES ASSUME Init PROVE Ledger!Init
  OBVIOUS
<1>1. Real = {}
  BY DEF Init, NoBatch, Real
<1>2. \A u \in UnitIds : Outcome(u) = Ledger!Unasked
  BY <1>1, InitEstablishes, OutcomeCases
<1>3. \A b \in BatchIds : batches[b].state = "absent" /\ batches[b].unit_ids = {}
  BY DEF Init, NoBatch
<1> QED
  BY <1>2, <1>3 DEF Ledger!Init

\* Steps the client cannot see: no batch changes, no unit is settled.
LEMMA InvisibleStep ==
    ASSUME IInv, IInv', batches' = batches,
           \A u \in Real : /\ Outstanding(u) => Outstanding(u)'
                           /\ ~Outstanding(u) => units'[u] = units[u]
    PROVE  UNCHANGED Ledger!vars
<1>1. Real' = Real
  BY DEF Real
<1>2. ASSUME NEW u \in UnitIds
      PROVE  Outcome(u)' = Outcome(u)
  <2>1. CASE u \notin Real
    BY <1>1, <2>1, OutcomeCases, OutcomeCasesNext
  <2>2. CASE u \in Real /\ Outstanding(u)
    BY <1>1, <2>2, OutcomeCases, OutcomeCasesNext
  <2>3. CASE u \in Real /\ ~Outstanding(u)
    BY <1>1, <2>3 DEF Outcome
  <2> QED
    BY <2>1, <2>2, <2>3
<1> QED
  BY <1>2 DEF Ledger!vars

\* An unsettled real unit is open in the ledger and a settled one is not.
LEMMA OpenIffOutstanding ==
    ASSUME IInv, NEW u \in Real
    PROVE  Outcome(u) = Ledger!Open <=> Outstanding(u)
<1>1. u \in UnitIds /\ units[u] \in WorkUnit /\ units[u].state # "absent"
  BY RealUnits DEF IInv, TypeOK, Created
<1>2. units[u].state \in {"pending", "leased", "complete", "failed"}
  BY <1>1 DEF WorkUnit, UnitState
<1>3. Ledger!Open # Ledger!DeadLetter /\ Ledger!Open # Ledger!Cancelled
  BY DEF Ledger!Open, Ledger!DeadLetter, Ledger!Cancelled
<1>4. Ledger!Open # Ledger!Answer(units[u].text)
  BY DEF Ledger!Open, Ledger!Answer
<1> QED
  BY <1>1, <1>2, <1>3, <1>4, OutcomeCases DEF Outstanding

\* Settling a unit is a Settle step of the ledger if the unit is the client's,
\* and nothing at all if it is a canary.
LEMMA SettleRefines ==
    ASSUME IInv, IInv', NEW u \in Created, Outstanding(u),
           \A v \in UnitIds \ {u} : units'[v] = units[v],
           batches' = MaybeFinishBatch(units[u].batch_id, units'),
           \/ units'[u].state = "complete" /\ units'[u].text \in Texts
           \/ units'[u].state = "failed" /\ units'[u].error = "reported"
    PROVE  [Ledger!Next]_(Ledger!vars)
<1> DEFINE b == units[u].batch_id
<1>1. u \in UnitIds /\ b \in BatchIds /\ batches \in [BatchIds -> Batch]
  BY DEF IInv, TypeOK, Created
<1>2. /\ \A a \in BatchIds : /\ batches'[a].unit_ids = batches[a].unit_ids
                             /\ a # b => batches'[a] = batches[a]
                             /\ batches[a].state # "in_progress" => batches'[a] = batches[a]
      /\ batches[b].state = "in_progress" =>
            batches'[b].state =
               IF \E v \in batches[b].unit_ids : Outstanding(v)'
               THEN "in_progress" ELSE "completed"
      /\ batches' \in [BatchIds -> Batch]
  BY <1>1, FinishFields DEF Outstanding
<1>3. Real' = Real
  BY <1>2 DEF Real
<1>4. ~Outstanding(u)' /\ \A v \in UnitIds \ {u} : Outstanding(v)' <=> Outstanding(v)
  BY DEF Outstanding
<1>5. \A a \in BatchIds : batches[a].unit_ids \subseteq UnitIds
  BY <1>1 DEF Batch
<1>6. CASE u \notin Real
  <2>1. u \notin batches[b].unit_ids
    BY <1>1, <1>6 DEF Real
  <2>2. batches'[b].state = batches[b].state
    BY <1>1, <1>2, <1>4, <1>5, <2>1 DEF IInv, BatchStateAgrees
  <2>3. \A a \in BatchIds : batches'[a].state = batches[a].state
    BY <1>2, <2>2
  <2>4. ASSUME NEW v \in UnitIds
        PROVE  Outcome(v)' = Outcome(v)
    <3>1. CASE v = u
      BY <1>3, <1>6, <3>1 DEF Outcome
    <3>2. CASE v # u
      BY <1>3, <3>2 DEF Outcome
    <3> QED
      BY <3>1, <3>2
  <2> QED
    BY <1>2, <2>3, <2>4 DEF Ledger!vars
<1>7. CASE u \in Real
  <2>1. u \in batches[b].unit_ids
    BY <1>7, RealUnits
  <2>2. batches[b].state = "in_progress"
    BY <1>1, <2>1 DEF IInv, BatchStateAgrees
  <2>3. Outcome(u) = Ledger!Open
    BY <1>7, OpenIffOutstanding
  <2>4. Outcome(u)' \in {Ledger!Answer(t) : t \in Texts} \cup {Ledger!DeadLetter}
    BY <1>1, <1>3, <1>7, OutcomeCasesNext
  <2>5. \A v \in UnitIds \ {u} : Outcome(v)' = Outcome(v)
    BY <1>3 DEF Outcome
  <2>6. \A v \in batches[b].unit_ids : Outcome(v) = Ledger!Open <=> Outstanding(v)
    BY <1>1, OpenIffOutstanding DEF Real
  <2>7. (\E v \in batches[b].unit_ids : Outstanding(v)') <=>
            \E v \in batches[b].unit_ids \ {u} : Outcome(v) = Ledger!Open
    BY <1>1, <1>4, <1>5, <2>6
  <2>12. PICK x \in {Ledger!Answer(t) : t \in Texts} \cup {Ledger!DeadLetter} : x = Outcome(u)'
    BY <2>4
  <2>8. Ledger!Settle(b, u, x)
    <3>1. [v \in UnitIds |-> Outcome(v)]' =
             [[v \in UnitIds |-> Outcome(v)] EXCEPT ![u] = x]
      BY <1>1, <2>5, <2>12
    <3>2. [a \in BatchIds |-> batches[a].state]' =
             [[a \in BatchIds |-> batches[a].state] EXCEPT ![b] =
                IF \E v \in batches[b].unit_ids \ {u} : Outcome(v) = Ledger!Open
                THEN "in_progress" ELSE "completed"]
      BY <1>1, <1>2, <2>2, <2>7
    <3>3. [a \in BatchIds |-> batches[a].unit_ids]' = [a \in BatchIds |-> batches[a].unit_ids]
      BY <1>2
    <3>4. \A v \in batches[b].unit_ids : v \in UnitIds
      BY <1>1, <1>5
    <3>5. [a \in BatchIds |-> batches[a].unit_ids][b] = batches[b].unit_ids
      BY <1>1
    <3>6. (\E v \in batches[b].unit_ids \ {u} : Outcome(v) = Ledger!Open) <=>
             \E v \in [a \in BatchIds |-> batches[a].unit_ids][b] \ {u} :
                [w \in UnitIds |-> Outcome(w)][v] = Ledger!Open
      BY <3>4, <3>5
    <3> QED
      BY <1>1, <2>1, <2>2, <2>3, <3>1, <3>2, <3>3, <3>5, <3>6 DEF Ledger!Settle
  <2>9. \E v \in UnitIds, o \in {Ledger!Answer(t) : t \in Texts} \cup {Ledger!DeadLetter} :
           Ledger!Settle(b, v, o)
    BY <1>1, <2>8
  <2>10. Ledger!Next
    BY <1>1, <2>9, Zenon DEF Ledger!Next
  <2> QED
    BY <2>10
<1> QED
  BY <1>6, <1>7

\* Cancelling a batch is the ledger's Cancel.
LEMMA CancelRefines ==
    ASSUME IInv, IInv', NEW b \in BatchIds, CancelBatch(b)
    PROVE  Ledger!Cancel(b)
<1> DEFINE mine == batches[b].unit_ids \cup batches[b].canary_unit_ids
<1>1. batches \in [BatchIds -> Batch] /\ units \in [UnitIds -> WorkUnit]
  BY DEF IInv, TypeOK
<1>2. /\ \A a \in BatchIds : /\ batches'[a].unit_ids = batches[a].unit_ids
                             /\ batches'[a].state = IF a = b THEN "cancelled" ELSE batches[a].state
      /\ batches[b].state = "in_progress"
  BY <1>1 DEF CancelBatch, Batch
<1>3. Real' = Real
  BY <1>2 DEF Real
<1>4. ASSUME NEW u \in UnitIds
      PROVE  Outcome(u)' = IF u \in batches[b].unit_ids /\ Outcome(u) = Ledger!Open
                           THEN Ledger!Cancelled ELSE Outcome(u)
  <2>1. CASE u \notin Real
    <3>1. u \notin batches[b].unit_ids
      BY <2>1 DEF Real
    <3> QED
      BY <1>3, <2>1, <3>1 DEF Outcome
  <2>2. CASE u \in Real /\ u \in batches[b].unit_ids /\ Outstanding(u)
    <3>1. units'[u] = [units[u] EXCEPT !.state = "failed", !.error = "batch cancelled"]
      BY <2>2 DEF CancelBatch
    <3>2. units'[u].state = "failed" /\ units'[u].error = "batch cancelled"
      <4>1. units[u] \in WorkUnit
        BY <1>1
      <4> QED
        BY <3>1, <4>1 DEF WorkUnit
    <3>3. Outcome(u)' = Ledger!Cancelled
      BY <1>3, <2>2, <3>2, OutcomeCasesNext
    <3> QED
      BY <2>2, <3>3, OpenIffOutstanding
  <2>3. CASE u \in Real /\ ~(u \in batches[b].unit_ids /\ Outstanding(u))
    <3>1. u \in batches[b].canary_unit_ids => u \in batches[b].unit_ids
      <4>1. u \in batches[units[u].batch_id].unit_ids /\ units[u].batch_id \in BatchIds
        BY <2>3, RealUnits
      <4>2. u \in batches[b].canary_unit_ids => units[u].batch_id = b
        BY DEF IInv, UnitsBelong
      <4> QED
        BY <4>1, <4>2
    <3>2. units'[u] = units[u]
      BY <2>3, <3>1 DEF CancelBatch
    <3>3. Outcome(u)' = Outcome(u)
      BY <1>3, <3>2 DEF Outcome
    <3> QED
      BY <2>3, <3>3, OpenIffOutstanding
  <2> QED
    BY <2>1, <2>2, <2>3
<1>5. [a \in BatchIds |-> batches[a].state]' =
         [[a \in BatchIds |-> batches[a].state] EXCEPT ![b] = "cancelled"]
  BY <1>2
<1>6. [a \in BatchIds |-> batches[a].unit_ids]' = [a \in BatchIds |-> batches[a].unit_ids]
  BY <1>2
<1> QED
  BY <1>2, <1>4, <1>5, <1>6 DEF Ledger!Cancel

\* Creating a batch submits the client's units, and none of the canaries.
LEMMA CreateRefines ==
    ASSUME IInv, IInv', NEW b \in BatchIds, NEW c \in 0 .. MaxUnits, NEW n \in UnitIds,
           NEW k \in 0 .. MaxCanaries, NEW model, NEW asked,
           CreateBatch(b, c, n, k, model, asked)
    PROVE  Ledger!Submit(b, (c + 1) .. (c + n))
<1> DEFINE real     == (c + 1) .. (c + n)
           canaries == (c + n + 1) .. (c + n + k)
<1>1. c \in Nat /\ n \in Nat /\ k \in Nat /\ n >= 1 /\ c + n + k <= MaxUnits
  BY BoundsAssumption DEF UnitIds, CreateBatch
<1>2. /\ real \subseteq UnitIds /\ c + 1 \in real
      /\ \A u \in real : u \notin 1 .. c
      /\ \A u \in 1 .. c : u \notin real \cup canaries
  BY <1>1, BoundsAssumption DEF UnitIds
<1>3. /\ batches \in [BatchIds -> Batch]
      /\ batches' = [batches EXCEPT ![b] =
             [state |-> "in_progress", unit_ids |-> real, canary_unit_ids |-> canaries]]
      /\ batches[b].state = "absent"
      /\ Created = 1 .. c
  BY DEF CreateBatch, IInv, TypeOK
<1>4. \A u \in real : /\ units'[u].state = "pending"
                      /\ Outstanding(u)'
  BY <1>2 DEF CreateBatch, NewUnit, Outstanding
<1>5. \A u \in Created : units'[u] = units[u]
  BY <1>2, <1>3 DEF CreateBatch, Created
<1> HIDE DEF real, canaries
<1>6. Real' = Real \cup real /\ Real \cap real = {}
  <2>1. batches[b].unit_ids = {}
    BY <1>3 DEF IInv, UnitsBelong
  <2>2. \A a \in BatchIds : batches'[a].unit_ids = IF a = b THEN real ELSE batches[a].unit_ids
    BY <1>3
  <2>3. Real' = Real \cup real
    BY <2>1, <2>2 DEF Real
  <2>4. \A u \in Real : u \in Created
    BY RealUnits
  <2> QED
    BY <1>2, <1>3, <2>3, <2>4
<1>7. ASSUME NEW u \in UnitIds
      PROVE  /\ u \in real => Outcome(u) = Ledger!Unasked
             /\ Outcome(u)' = IF u \in real THEN Ledger!Open ELSE Outcome(u)
  <2>1. CASE u \in real
    BY <1>4, <1>6, <2>1, OutcomeCases, OutcomeCasesNext
  <2>2. CASE u \notin real /\ u \in Real
    <3>1. units'[u] = units[u]
      BY <1>5, <2>2, RealUnits
    <3> QED
      BY <1>6, <2>2, <3>1 DEF Outcome
  <2>3. CASE u \notin real /\ u \notin Real
    BY <1>6, <2>3 DEF Outcome
  <2> QED
    BY <2>1, <2>2, <2>3
<1>8. [a \in BatchIds |-> batches[a].state]' =
         [[a \in BatchIds |-> batches[a].state] EXCEPT ![b] = "in_progress"]
  BY <1>3
<1>9. [a \in BatchIds |-> batches[a].unit_ids]' =
         [[a \in BatchIds |-> batches[a].unit_ids] EXCEPT ![b] = real]
  BY <1>3
<1>10. Ledger!Submit(b, real)
  BY <1>2, <1>3, <1>7, <1>8, <1>9 DEF Ledger!Submit
<1> QED
  BY <1>10 DEF real
-----------------------------------------------------------------------------
\* Every step of the store is a step of the ledger or invisible to it.
LEMMA NextRefines ==
    ASSUME IInv, IInv', [Next]_vars
    PROVE  [Ledger!Next]_(Ledger!vars)
<1>0. units \in [UnitIds -> WorkUnit]
  BY DEF IInv, TypeOK
<1>1. ASSUME NEW b \in BatchIds, NEW c \in 0 .. MaxUnits, NEW n \in UnitIds,
             NEW k \in 0 .. MaxCanaries, NEW model \in Models \cup {None},
             NEW asked \in [1 .. (n + k) -> Models \cup {None}],
             CreateBatch(b, c, n, k, model, asked)
      PROVE  [Ledger!Next]_(Ledger!vars)
  <2>1. Ledger!Submit(b, (c + 1) .. (c + n))
    BY <1>1, CreateRefines
  <2>2. (c + 1) .. (c + n) \in SUBSET UnitIds
    BY <1>1, BoundsAssumption DEF CreateBatch, UnitIds
  <2>3. Ledger!Next
    BY <2>1, <2>2, Zenon DEF Ledger!Next
  <2> QED
    BY <2>3
<1>2. ASSUME NEW n \in Nodes, NEW count \in UnitIds, NEW m \in Models \cup {None},
             Lease(n, count, m)
      PROVE  [Ledger!Next]_(Ledger!vars)
  <2>1. \A u \in Granted(count, m) : units[u].state = "pending"
    BY DEF Granted, Takes, Live
  <2>2. \A u \in UnitIds : units'[u] = IF u \in Granted(count, m)
                                       THEN Leased(units[u], n) ELSE units[u]
    BY <1>2 DEF Lease
  <2>3. \A u \in UnitIds : u \in Granted(count, m) => units'[u].state = "leased"
    BY <1>0, <2>2, LeasedFields
  <2>4. batches' = batches
    BY <1>2 DEF Lease
  <2>5. \A u \in Real : u \in UnitIds
    BY RealUnits
  <2>6. \A u \in Real : /\ Outstanding(u) => Outstanding(u)'
                        /\ ~Outstanding(u) => units'[u] = units[u]
    BY <2>1, <2>2, <2>3, <2>5 DEF Outstanding
  <2> QED
    BY <2>4, <2>6, InvisibleStep
<1>3. ASSUME NEW u \in Created, NEW n \in Nodes, NEW t \in Texts, Complete(u, n, t)
      PROVE  [Ledger!Next]_(Ledger!vars)
  <2>1. CASE ~Outstanding(u)
    <3>1. batches' = batches /\ units' = units
      BY <1>3, <2>1 DEF Complete, vars
    <3> QED
      BY <3>1, InvisibleStep DEF Outstanding
  <2>2. CASE Outstanding(u)
    <3> DEFINE r == [units[u] EXCEPT !.state = "complete", !.text = t, !.node_id = n, !.left = 0]
    <3>1. u \in UnitIds /\ units[u] \in WorkUnit
      BY <1>0 DEF Created
    <3>2. /\ units' = [units EXCEPT ![u] = r]
          /\ batches' = MaybeFinishBatch(units[u].batch_id, units')
      BY <1>0, <1>3, <2>2, <3>1 DEF Complete
    <3>3. r.state = "complete" /\ r.text = t
      BY <3>1 DEF WorkUnit
    <3> HIDE DEF r
    <3>4. units'[u] = r /\ \A v \in UnitIds \ {u} : units'[v] = units[v]
      BY <1>0, <3>1, <3>2
    <3> QED
      BY <2>2, <3>2, <3>3, <3>4, SettleRefines
  <2> QED
    BY <2>1, <2>2
<1>4. ASSUME NEW u \in Created, Fail(u)
      PROVE  [Ledger!Next]_(Ledger!vars)
  <2>1. u \in UnitIds /\ units[u] \in WorkUnit
    BY <1>0 DEF Created
  <2>2. CASE ~Outstanding(u)
    <3>1. batches' = batches /\ units' = units
      BY <1>4, <2>2 DEF Fail, OutOfAttempts, vars
    <3> QED
      BY <3>1, InvisibleStep DEF Outstanding
  <2>3. CASE /\ Outstanding(u)
             /\ units' = [units EXCEPT ![u].state = "failed", ![u].error = "reported"]
             /\ batches' = MaybeFinishBatch(units[u].batch_id, units')
    <3>1. units'[u].state = "failed" /\ units'[u].error = "reported"
      BY <1>0, <2>1, <2>3 DEF WorkUnit
    <3>2. \A v \in UnitIds \ {u} : units'[v] = units[v]
      BY <1>0, <2>1, <2>3
    <3> QED
      BY <2>3, <3>1, <3>2, SettleRefines
  <2>4. CASE /\ Outstanding(u)
             /\ units' = [units EXCEPT ![u] = [Requeued(@) EXCEPT !.error = "reported"]]
             /\ batches' = batches
    <3>1. Requeued(units[u]) \in WorkUnit /\ Requeued(units[u]).state = "pending"
      BY <2>1, RequeuedFields
    <3>2. [Requeued(units[u]) EXCEPT !.error = "reported"].state = "pending"
      BY <3>1 DEF WorkUnit
    <3>3. units'[u].state = "pending"
      BY <1>0, <2>1, <2>4, <3>2
    <3>4. \A v \in UnitIds \ {u} : units'[v] = units[v]
      BY <1>0, <2>1, <2>4
    <3>5. \A v \in Real : v \in UnitIds
      BY RealUnits
    <3>6. \A v \in Real : /\ Outstanding(v) => Outstanding(v)'
                          /\ ~Outstanding(v) => units'[v] = units[v]
      BY <2>4, <3>3, <3>4, <3>5 DEF Outstanding
    <3> QED
      BY <2>4, <3>6, InvisibleStep
  <2> QED
    BY <1>4, <2>2, <2>3, <2>4 DEF Fail, OutOfAttempts
<1>5. ASSUME NEW S \in SUBSET UnitIds, \A v \in S : units[v].state = "leased", PutBack(S)
      PROVE  [Ledger!Next]_(Ledger!vars)
  <2>1. \A u \in UnitIds : units'[u] = IF u \in S THEN Requeued(units[u]) ELSE units[u]
    BY <1>5 DEF PutBack
  <2>2. \A u \in S : units'[u].state = "pending"
    BY <1>0, <2>1, RequeuedFields
  <2>3. batches' = batches
    BY <1>5 DEF PutBack
  <2>4. \A u \in Real : u \in UnitIds
    BY RealUnits
  <2>5. \A u \in Real : /\ Outstanding(u) => Outstanding(u)'
                        /\ ~Outstanding(u) => units'[u] = units[u]
    BY <1>5, <2>1, <2>2, <2>4 DEF Outstanding
  <2> QED
    BY <2>3, <2>5, InvisibleStep
<1>6. ASSUME NEW n \in Nodes, ReleaseNode(n)
      PROVE  [Ledger!Next]_(Ledger!vars)
  <2>1. HeldBy(n) \in SUBSET UnitIds /\ \A v \in HeldBy(n) : units[v].state = "leased"
    BY DEF HeldBy
  <2> QED
    BY <1>5, <1>6, <2>1 DEF ReleaseNode
<1>7. CASE ExpireLeases
  <2>1. Overdue \in SUBSET UnitIds /\ \A v \in Overdue : units[v].state = "leased"
    BY DEF Overdue
  <2> QED
    BY <1>5, <1>7, <2>1 DEF ExpireLeases
<1>8. ASSUME NEW b \in BatchIds, CancelBatch(b)
      PROVE  [Ledger!Next]_(Ledger!vars)
  <2>1. Ledger!Cancel(b)
    BY <1>8, CancelRefines
  <2>2. Ledger!Next
    BY <2>1, Zenon DEF Ledger!Next
  <2> QED
    BY <2>2
<1>9. CASE Tick
  <2>1. \A u \in UnitIds : /\ units[u].state # "leased" => units'[u] = units[u]
                           /\ units'[u].state = units[u].state
    BY <1>0, <1>9 DEF Tick, WorkUnit
  <2>2. batches' = batches
    BY <1>9 DEF Tick
  <2>3. \A u \in Real : u \in UnitIds
    BY RealUnits
  <2>4. \A u \in Real : /\ Outstanding(u) => Outstanding(u)'
                        /\ ~Outstanding(u) => units'[u] = units[u]
    BY <2>1, <2>3 DEF Outstanding
  <2> QED
    BY <2>2, <2>4, InvisibleStep
<1>10. CASE UNCHANGED vars
  <2>1. batches' = batches /\ units' = units
    BY <1>10 DEF vars
  <2> QED
    BY <2>1, InvisibleStep DEF Outstanding
<1> QED
  BY <1>1, <1>2, <1>3, <1>4, <1>6, <1>7, <1>8, <1>9, <1>10 DEF Next, Submit

\* The store implements the client's write-once ledger: through any history of
\* leases, losses, retries and duplicate reports, what a client reads of its
\* batches is what UnitLedger allows.
THEOREM Refinement == Spec => ImplementsLedger
<1>1. Init => Ledger!Init
  BY InitRefines
<1>2. IInv /\ IInv' /\ [Next]_vars => [Ledger!Next]_(Ledger!vars)
  BY NextRefines
<1> QED
  BY <1>1, <1>2, Invariance, PTL DEF Spec, ImplementsLedger, Ledger!Spec
=============================================================================
