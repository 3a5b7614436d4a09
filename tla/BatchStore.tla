----------------------------- MODULE BatchStore -----------------------------
(***************************************************************************)
(* The orchestrator's queue of batch work (src/orchestrator/batch.py).     *)
(*                                                                         *)
(* A client submits a batch; its requests become work units that nodes     *)
(* lease, run and report on.  A lease that runs out, or whose node leaves, *)
(* puts the unit back in the queue.  Verification may plant extra units,   *)
(* canaries, that the client never sees.                                   *)
(*                                                                         *)
(* Every method of the class takes the store's asyncio lock and suspends   *)
(* nowhere while it holds it, so one method call is one atomic step here.  *)
(* The store trusts no caller: a report is accepted from any node for any  *)
(* unit, so the Complete and Fail actions constrain neither.               *)
(***************************************************************************)
EXTENDS Integers, Sequences, FiniteSets, Subsequences

CONSTANTS
    Nodes,            \* node ids
    BatchIds,         \* batch ids (a uuid each in the code)
    Models,           \* model ids a unit may name and a node may serve
    Texts,            \* answers a node may return
    None,             \* Python's None
    MaxUnits,         \* bound: units ever created
    MaxCanaries,      \* bound: canaries planted in one batch
    LeaseTicks,       \* settings.lease_duration_sec, in ticks of the model clock
    MaxUnitAttempts,  \* settings.max_unit_attempts
    Plant(_, _)       \* where create_batch puts k canaries among n real units

VARIABLES
    batches,          \* BatchStore.batches
    units,            \* BatchStore.units
    pending           \* BatchStore._pending, the FIFO of unit ids

vars == <<batches, units, pending>>

\* Units are named in the order of their creation, so that numeric order is
\* the iteration order of the dict `units`.
UnitIds == 1 .. MaxUnits

ASSUME BoundsAssumption ==
    /\ MaxUnits \in Nat
    /\ MaxCanaries \in Nat
    /\ LeaseTicks \in Nat \ {0}
    /\ MaxUnitAttempts \in Nat \ {0}

ASSUME NoneAssumption == None \notin Nodes \cup BatchIds \cup Models \cup Texts

\* A placement is a sequence of the positions 1 .. n + k, of which the first
\* n stand for the real units in the client's order and the rest for canaries.
ASSUME PlantAssumption ==
    \A n \in UnitIds, k \in 0 .. MaxCanaries :
        n + k <= MaxUnits =>
            /\ Plant(n, k) \in [1 .. (n + k) -> 1 .. (n + k)]
            /\ \A p \in 1 .. (n + k) : \E i \in 1 .. (n + k) : Plant(n, k)[i] = p
            /\ \A i, j \in 1 .. (n + k) :
                  i < j /\ Plant(n, k)[i] <= n /\ Plant(n, k)[j] <= n
                      => Plant(n, k)[i] < Plant(n, k)[j]
-----------------------------------------------------------------------------
UnitState == {"absent", "pending", "leased", "complete", "failed"}

BatchState == {"absent", "in_progress", "completed", "cancelled"}

\* `left` is the time until `now > lease_expires_at`: a lease is overdue at 0.
WorkUnit ==
    [batch_id : BatchIds \cup {None},
     model    : Models \cup {None},
     state    : UnitState,
     attempts : Nat,
     node_id  : Nodes \cup {None},
     left     : 0 .. LeaseTicks,
     text     : Texts \cup {None},
     error    : {"none", "reported", "batch cancelled"}]

Batch ==
    [state           : BatchState,
     unit_ids        : SUBSET UnitIds,
     canary_unit_ids : SUBSET UnitIds]

NewUnit(b, m) ==
    [batch_id |-> b, model |-> m, state |-> "pending", attempts |-> 0,
     node_id |-> None, left |-> 0, text |-> None, error |-> "none"]

NoUnit == [NewUnit(None, None) EXCEPT !.state = "absent"]

NoBatch == [state |-> "absent", unit_ids |-> {}, canary_unit_ids |-> {}]

Init ==
    /\ batches = [b \in BatchIds |-> NoBatch]
    /\ units = [u \in UnitIds |-> NoUnit]
    /\ pending = <<>>
-----------------------------------------------------------------------------
Created == {u \in UnitIds : units[u].state # "absent"}

\* The unit may still be answered, failed or cancelled.
Outstanding(u) == units[u].state \in {"pending", "leased"}

(***************************************************************************)
(* create_batch: n requests, k canaries.  A request that names no model    *)
(* gets the batch's; so does a canary without one.                         *)
(***************************************************************************)
CreateBatch(b, c, n, k, model, asked) ==
    LET real     == (c + 1) .. (c + n)
        canaries == (c + n + 1) .. (c + n + k)
        ModelOf(u) == IF asked[u - c] # None THEN asked[u - c] ELSE model
    IN  /\ batches[b].state = "absent"
        /\ Created = 1 .. c
        /\ c + n + k <= MaxUnits
        /\ batches' = [batches EXCEPT ![b] =
              [state |-> "in_progress", unit_ids |-> real, canary_unit_ids |-> canaries]]
        /\ units' = [u \in UnitIds |->
              IF u \in real \cup canaries THEN NewUnit(b, ModelOf(u)) ELSE units[u]]
        /\ pending' = pending \o [i \in 1 .. (n + k) |-> c + Plant(n, k)[i]]

(***************************************************************************)
(* lease: walk the queue from its head until `count` units are taken.  On  *)
(* the way, entries of units that are no longer pending are dropped, and   *)
(* units for another model stay where they are.  A unit queued twice is    *)
(* taken at its first entry, which makes the second one stale.             *)
(***************************************************************************)
\* Mutant: the state of a queued unit is not looked at again.
LiveUnchecked(u) == batches[units[u].batch_id].state \notin {"absent", "cancelled"}

Live(u) ==
    /\ units[u].state = "pending"
    /\ batches[units[u].batch_id].state \notin {"absent", "cancelled"}

Suits(u, nodeModel) ==
    \/ units[u].model = None
    \/ nodeModel = None
    \/ units[u].model = nodeModel

\* Mutant: a unit queued twice counts twice against the node's capacity.
TakesTwice(nodeModel) ==
    {i \in DOMAIN pending : Live(pending[i]) /\ Suits(pending[i], nodeModel)}

Takes(nodeModel) ==
    {i \in DOMAIN pending :
        /\ Live(pending[i])
        /\ Suits(pending[i], nodeModel)
        /\ \A j \in 1 .. (i - 1) : pending[j] # pending[i]}

Scanned(count, nodeModel) ==
    {i \in DOMAIN pending : Cardinality({j \in Takes(nodeModel) : j < i}) < count}

Granted(count, nodeModel) ==
    {pending[i] : i \in Takes(nodeModel) \cap Scanned(count, nodeModel)}

\* What lease() returns: the granted units in the order of the queue.
Assigned(count, nodeModel) ==
    Select(pending, Takes(nodeModel) \cap Scanned(count, nodeModel))

StillPending(count, nodeModel) ==
    {i \in DOMAIN pending :
        i \in Scanned(count, nodeModel)
            => Live(pending[i]) /\ ~Suits(pending[i], nodeModel)}

\* Mutant: the lease runs one tick too long.
LeasedLonger(r, n) ==
    [r EXCEPT !.state = "leased", !.node_id = n,
              !.attempts = @ + 1, !.left = LeaseTicks + 1]

Leased(r, n) ==
    [r EXCEPT !.state = "leased", !.node_id = n,
              !.attempts = @ + 1, !.left = LeaseTicks]

Lease(n, count, nodeModel) ==
    /\ units' = [u \in UnitIds |->
          IF u \in Granted(count, nodeModel) THEN Leased(units[u], n) ELSE units[u]]
    /\ pending' = Select(pending, StillPending(count, nodeModel))
    /\ UNCHANGED batches

(***************************************************************************)
(* _maybe_finish_batch, given the units as the caller leaves them: only    *)
(* the client's own units hold a batch open.                               *)
(***************************************************************************)
\* Mutant: canaries hold the batch open too.
MaybeFinishBatchOfAll(b, us) ==
    IF /\ batches[b].state = "in_progress"
       /\ \A u \in batches[b].unit_ids \cup batches[b].canary_unit_ids :
             us[u].state \notin {"pending", "leased"}
    THEN [batches EXCEPT ![b].state = "completed"]
    ELSE batches

MaybeFinishBatch(b, us) ==
    IF /\ batches[b].state = "in_progress"
       /\ \A u \in batches[b].unit_ids : us[u].state \notin {"pending", "leased"}
    THEN [batches EXCEPT ![b].state = "completed"]
    ELSE batches

(***************************************************************************)
(* complete: the first result to arrive wins, whoever holds the lease by   *)
(* then.  A unit answered while it waits in the queue leaves a stale entry.*)
(***************************************************************************)
\* Mutant: the last result wins.
CompleteLastWins(u, n, t) ==
    /\ units' = [units EXCEPT ![u].state = "complete", ![u].text = t,
                              ![u].node_id = n, ![u].left = 0]
    /\ batches' = MaybeFinishBatch(units[u].batch_id, units')
    /\ UNCHANGED pending

Complete(u, n, t) ==
    \/ /\ Outstanding(u)
       /\ units' = [units EXCEPT ![u].state = "complete", ![u].text = t,
                                 ![u].node_id = n, ![u].left = 0]
       /\ batches' = MaybeFinishBatch(units[u].batch_id, units')
       /\ UNCHANGED pending
    \/ /\ ~Outstanding(u)
       /\ UNCHANGED vars

(***************************************************************************)
(* fail: dead-letter the unit if its leases are used up, requeue it if     *)
(* not, whether or not it is in the queue already.                         *)
(***************************************************************************)
\* Mutant: the unit keeps the name of its last holder.
RequeuedWithHolder(r) == [r EXCEPT !.state = "pending", !.left = 0]

Requeued(r) == [r EXCEPT !.state = "pending", !.node_id = None, !.left = 0]

\* Mutant: a unit may fail one time less.
OutOfAttemptsEarly(u) == units[u].attempts >= MaxUnitAttempts - 1

OutOfAttempts(u) == units[u].attempts >= MaxUnitAttempts

Fail(u) ==
    \/ /\ Outstanding(u)
       /\ OutOfAttempts(u)
       /\ units' = [units EXCEPT ![u].state = "failed", ![u].error = "reported"]
       /\ batches' = MaybeFinishBatch(units[u].batch_id, units')
       /\ UNCHANGED pending
    \/ /\ Outstanding(u)
       /\ ~OutOfAttempts(u)
       /\ units' = [units EXCEPT ![u] = [Requeued(@) EXCEPT !.error = "reported"]]
       /\ pending' = Append(pending, u)
       /\ UNCHANGED batches
    \/ /\ ~Outstanding(u)
       /\ UNCHANGED vars

(***************************************************************************)
(* release_node and expire_leases put a set of leased units back.          *)
(***************************************************************************)
\* Mutant: the state goes back to PENDING, but the unit is not queued.
PutBackUnqueued(S) ==
    /\ units' = [u \in UnitIds |-> IF u \in S THEN Requeued(units[u]) ELSE units[u]]
    /\ UNCHANGED <<batches, pending>>

PutBack(S) ==
    /\ units' = [u \in UnitIds |-> IF u \in S THEN Requeued(units[u]) ELSE units[u]]
    /\ pending' = pending \o InOrder(S)
    /\ UNCHANGED batches

HeldBy(n) == {u \in UnitIds : units[u].state = "leased" /\ units[u].node_id = n}

\* Mutant: the reaper leaves a unit alone once its attempts are used up.
OverdueWithAttempts ==
    {u \in UnitIds :
        /\ units[u].state = "leased"
        /\ units[u].left = 0
        /\ units[u].attempts < MaxUnitAttempts}

Overdue == {u \in UnitIds : units[u].state = "leased" /\ units[u].left = 0}

\* Mutant: a departed node's leases wait until they run out.
ReleaseOverdue(n) == PutBack(HeldBy(n) \cap Overdue)

ReleaseNode(n) == PutBack(HeldBy(n))

ExpireLeases == PutBack(Overdue)

(***************************************************************************)
(* cancel_batch: what is unsettled fails at once, canaries included.  The  *)
(* queue is left alone; lease drops the entries when it meets them.        *)
(***************************************************************************)
\* Mutant: only what waits in the queue is cancelled.
CancelQueued(b) ==
    LET mine == batches[b].unit_ids \cup batches[b].canary_unit_ids
    IN  /\ batches[b].state = "in_progress"
        /\ batches' = [batches EXCEPT ![b].state = "cancelled"]
        /\ units' = [u \in UnitIds |->
              IF u \in mine /\ units[u].state = "pending"
              THEN [units[u] EXCEPT !.state = "failed", !.error = "batch cancelled"]
              ELSE units[u]]
        /\ UNCHANGED pending

CancelBatch(b) ==
    LET mine == batches[b].unit_ids \cup batches[b].canary_unit_ids
    IN  /\ batches[b].state = "in_progress"
        /\ batches' = [batches EXCEPT ![b].state = "cancelled"]
        /\ units' = [u \in UnitIds |->
              IF u \in mine /\ Outstanding(u)
              THEN [units[u] EXCEPT !.state = "failed", !.error = "batch cancelled"]
              ELSE units[u]]
        /\ UNCHANGED pending

\* The clock advances; only leases that still run notice.
Tick ==
    /\ \E u \in UnitIds : units[u].state = "leased" /\ units[u].left > 0
    /\ units' = [u \in UnitIds |->
          IF units[u].state = "leased" /\ units[u].left > 0
          THEN [units[u] EXCEPT !.left = @ - 1]
          ELSE units[u]]
    /\ UNCHANGED <<batches, pending>>
-----------------------------------------------------------------------------
Submit ==
    \E b \in BatchIds, c \in 0 .. MaxUnits, n \in UnitIds, k \in 0 .. MaxCanaries,
       model \in Models \cup {None} :
        \E asked \in [1 .. (n + k) -> Models \cup {None}] :
            CreateBatch(b, c, n, k, model, asked)

Next ==
    \/ Submit
    \/ \E n \in Nodes, count \in UnitIds, m \in Models \cup {None} : Lease(n, count, m)
    \/ \E u \in Created, n \in Nodes, t \in Texts : Complete(u, n, t)
    \/ \E u \in Created : Fail(u)
    \/ \E n \in Nodes : ReleaseNode(n)
    \/ ExpireLeases
    \/ \E b \in BatchIds : CancelBatch(b)
    \/ Tick

Spec == Init /\ [][Next]_vars
-----------------------------------------------------------------------------
(***************************************************************************)
(* Properties.                                                             *)
(***************************************************************************)

\* Every variable keeps the shape of its attribute in class BatchStore, and a
\* created unit always names the batch it belongs to.
TypeOK ==
    /\ batches \in [BatchIds -> Batch]
    /\ units \in [UnitIds -> WorkUnit]
    /\ pending \in Seq(UnitIds)
    /\ \A u \in Created : units[u].batch_id \in BatchIds

\* The unit has an entry in _pending.
Queued(u) == \E i \in DOMAIN pending : pending[i] = u

\* No unit is lost: whatever order of failures, departures, expiries, late
\* answers and partial leases it went through, a unit in state PENDING still
\* has an entry in _pending, which is the only way a node can ever get it.
NoUnitLost ==
    \A u \in UnitIds : units[u].state = "pending" => Queued(u)

\* A batch is in progress exactly as long as one of the client's units is
\* unsettled.  So _maybe_finish_batch is called wherever the last unit can
\* settle, no canary holds a batch open, and a cancelled batch leaves nothing
\* behind for the fleet to run, canaries included.
BatchStateAgrees ==
    \A b \in BatchIds :
        /\ batches[b].state = "in_progress" <=> \E u \in batches[b].unit_ids : Outstanding(u)
        /\ batches[b].state = "cancelled" =>
              \A u \in batches[b].unit_ids \cup batches[b].canary_unit_ids : ~Outstanding(u)

\* A unit in FAILED got there by one of two doors only: fail() after at least
\* max_unit_attempts leases, or the cancellation of its own batch.
FailedForCause ==
    \A u \in UnitIds :
        units[u].state = "failed" =>
            \/ units[u].error = "reported" /\ units[u].attempts >= MaxUnitAttempts
            \/ /\ units[u].error = "batch cancelled"
               /\ batches[units[u].batch_id].state = "cancelled"

\* The fields of a unit fit its state, whichever of complete, fail, release,
\* expiry and lease came last.  A leased unit names its holder and a queued one
\* names nobody, so release_node, which matches on node_id, neither misses a
\* unit of the departed node nor takes one from another; a result text is there
\* exactly when the unit is COMPLETE.
FieldsFitState ==
    \A u \in UnitIds :
        /\ units[u].state = "leased" => units[u].node_id \in Nodes /\ units[u].attempts >= 1
        /\ units[u].state = "pending" => units[u].node_id = None /\ units[u].left = 0
        /\ units[u].text # None <=> units[u].state = "complete"

(***************************************************************************)
(* The for loop of lease() as the code writes it, to compare Assigned,     *)
(* Granted and StillPending with.  One turn, on the entry uid, with the    *)
(* locals `leased` and `still_pending`.  A unit in `leased` is LEASED and  *)
(* no longer PENDING.  Once `count` units are leased, the rest of the      *)
(* queue is kept as it is.  Units and batches are never deleted, so the    *)
(* cases in which one of them is None are left out.                        *)
(***************************************************************************)
LeaseTurn(count, nodeModel, acc, uid) ==
    LET stale == \/ units[uid].state # "pending"
                 \/ \E k \in DOMAIN acc.leased : acc.leased[k] = uid
        gone  == batches[units[uid].batch_id].state = "cancelled"
        other == /\ units[uid].model # None
                 /\ nodeModel # None
                 /\ units[uid].model # nodeModel
        keep  == [acc EXCEPT !.still_pending = Append(@, uid)]
    IN  CASE Len(acc.leased) >= count -> keep
          [] OTHER ->
             CASE stale \/ gone -> acc
               [] ~(stale \/ gone) /\ other -> keep
               [] OTHER -> [acc EXCEPT !.leased = Append(@, uid)]

LeaseLoop(count, nodeModel) ==
    LET After[i \in 0 .. Len(pending)] ==
          IF i = 0 THEN [leased |-> <<>>, still_pending |-> <<>>]
          ELSE LeaseTurn(count, nodeModel, After[i - 1], pending[i])
    IN  After[Len(pending)]

\* In every reachable queue, duplicates and stale entries included, the units
\* that the Lease action grants, their order and the queue it leaves behind are
\* those of the loop in lease(), for every capacity and every model a node can
\* report.
LeaseFollowsLoop ==
    \A count \in UnitIds, m \in Models \cup {None} :
        LET assigned == Assigned(count, m)
        IN  /\ LeaseLoop(count, m) =
                  [leased |-> assigned,
                   still_pending |-> Select(pending, StillPending(count, m))]
            /\ Granted(count, m) = {assigned[k] : k \in DOMAIN assigned}

\* What result_record shows the client of a unit.
ResultRecord(u) ==
    [status   |-> units[u].state,
     attempts |-> units[u].attempts,
     outcome  |-> IF units[u].state = "complete" THEN units[u].text ELSE units[u].error]

\* The results of a batch are final as soon as it is no longer in progress,
\* and so is each settled unit before that: late, duplicate and stale reports
\* change nothing a client may already have read.
ResultsAreFinal ==
    [][\A u \in Created : ~Outstanding(u) => ResultRecord(u)' = ResultRecord(u)]_vars

\* One holder at a time: a unit passes from one node to another only through
\* the queue, never straight from lease to lease.
NoLeaseStolen ==
    [][\A u \in UnitIds :
          units[u].state = "leased" /\ units'[u].state = "leased"
              => units'[u].node_id = units[u].node_id
                 /\ units'[u].attempts = units[u].attempts]_vars
-----------------------------------------------------------------------------
(***************************************************************************)
(* The store implements the client's ledger.  A canary is not in it.       *)
(***************************************************************************)
Real == UNION {batches[b].unit_ids : b \in BatchIds}

OutcomeKind(r) ==
    CASE r.state = "complete" -> "answered"
      [] r.state = "failed" /\ r.error = "reported" -> "failed"
      [] r.state = "failed" /\ r.error # "reported" -> "cancelled"
      [] OTHER -> "open"

Outcome(u) ==
    [kind |-> IF u \in Real THEN OutcomeKind(units[u]) ELSE "unasked",
     text |-> IF u \in Real THEN units[u].text ELSE None]

Ledger == INSTANCE UnitLedger WITH
    phase   <- [b \in BatchIds |-> batches[b].state],
    asked   <- [b \in BatchIds |-> batches[b].unit_ids],
    outcome <- [u \in UnitIds |-> Outcome(u)]

\* The whole store, seen through what a client can read of its batches, is the
\* write-once ledger of UnitLedger: leasing, requeueing, expiry and everything
\* that happens to canaries are invisible, each answer or dead-letter is one
\* Settle, and the batch's status changes in the step of its last unit.
ImplementsLedger == Ledger!Spec
=============================================================================
