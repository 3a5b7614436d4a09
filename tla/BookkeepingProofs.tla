------------------------- MODULE BookkeepingProofs --------------------------
(***************************************************************************)
(* The verifier and the metrics only watch: with them, the store behaves   *)
(* as it does alone, and all that is proved of BatchStore holds there.     *)
(* What they write down is right, for any nodes, prompts, canaries,        *)
(* answers and measure of agreement.                                       *)
(*                                                                         *)
(* That copies are noticed follows from what _seen holds: every long       *)
(* recorded answer is in it (RecordedIsSeen), with the prompt of a         *)
(* recorded result (SeenIsRecorded); so a replay has a witness, which is   *)
(* what clears an honest node.  Credit is exact because a node with one    *)
(* handler has a record exactly while it has the handler                   *)
(* (RecordsFollowHandlers).                                                *)
(*                                                                         *)
(* The totals are sums over units and nodes.  SumFunctionOnSet folds over  *)
(* a set in an order that is not known; a sum of natural numbers is        *)
(* therefore read as the size of a set of marks, one for each unit that a  *)
(* term contributes (SumIsTallies), and what a step adds to it as marks    *)
(* that it adds to the set.                                                *)
(***************************************************************************)
EXTENDS Bookkeeping, BatchStoreProofs

\* A recorded result names the node that sent it.
ResultsSigned ==
    \A u \in UnitIds : units[u].state = "complete" => units[u].node_id \in Nodes

\* A planted canary is a created unit that asks what the canary asks.
CanariesAsked ==
    \A u \in UnitIds :
        planted[u] # None => u \in Created /\ prompts[u] = planted[u].prompt

\* What _seen holds is the prompt of a recorded result.
SeenIsRecorded ==
    \A t \in Texts :
        seen[t] # None =>
            \E v \in UnitIds :
                units[v].state = "complete" /\ units[v].text = t /\ prompts[v] = seen[t]

\* A long recorded result is in _seen, and if it is there for another prompt,
\* the node that sent it is suspect.
RecordedIsSeen ==
    \A u \in UnitIds :
        units[u].state = "complete" /\ units[u].text \notin Short =>
            /\ seen[units[u].text] # None
            /\ seen[units[u].text] # prompts[u] => V!IsSuspect(units[u].node_id)

\* A node that never had two handlers has a record exactly while it has one.
RecordsFollowHandlers ==
    \A n \in Nodes \ overlapped :
        handlers[n] <= 1 /\ (nodes[n] = None <=> handlers[n] = 0)

\* Finitely many batches exist at a time.
BatchesFinite == IsFiniteSet({b \in BatchIds : batches[b].state # "absent"})

\* The inductive invariant.
BInv ==
    /\ IInv
    /\ BookTypeOK
    /\ ResultsSigned
    /\ CanariesAsked
    /\ SeenIsRecorded
    /\ RecordedIsSeen
    /\ HonestBlamedOnlyForCopies
    /\ VerdictsMatch
    /\ RecordsFollowHandlers
    /\ NoInflation
    /\ CreditExact
    /\ BatchesFinite
    /\ CountsMatch
-----------------------------------------------------------------------------
\* The smaller of two numbers.
LEMMA MinOfTwo ==
    ASSUME NEW x \in Nat, NEW y \in Nat
    PROVE  Min({x, y}) = IF x <= y THEN x ELSE y
<1> DEFINE P(m) == m \in {x, y} /\ \A z \in {x, y} : m <= z
           w == IF x <= y THEN x ELSE y
<1>1. P(w)
  OBVIOUS
<1>2. \A m : P(m) => m = w
  OBVIOUS
<1>3. Min({x, y}) = CHOOSE m \in {x, y} : \A z \in {x, y} : m <= z
  BY DEF Min
<1>4. Min({x, y}) = CHOOSE m : P(m)
  BY <1>3
<1> QED
  BY <1>1, <1>2, <1>4

\* Sets of units are finite, and a unit that joins one counts once.
LEMMA UnitSets ==
    ASSUME NEW S \in SUBSET UnitIds
    PROVE  /\ IsFiniteSet(S)
           /\ Cardinality(S) \in Nat
           /\ \A u \in UnitIds \ S : Cardinality(S \cup {u}) = Cardinality(S) + 1
<1>1. IsFiniteSet(UnitIds)
  BY BoundsAssumption, FS_Interval DEF UnitIds
<1>2. IsFiniteSet(S)
  BY <1>1, FS_Subset
<1>3. Cardinality(S) \in Nat
  BY <1>2, FS_CardinalityType
<1>4. \A u \in UnitIds \ S : Cardinality(S \cup {u}) = Cardinality(S) + 1
  BY <1>2, FS_AddElement
<1> QED
  BY <1>2, <1>3, <1>4

\* At the start nothing is recorded, planted or counted.
LEMMA BookInitEstablishes == BookInit => BInv
<1> SUFFICES ASSUME BookInit PROVE BInv
  OBVIOUS
<1>1. IInv
  BY InitEstablishes DEF BookInit
<1>2. \A u \in UnitIds : units[u].state = "absent"
  BY DEF BookInit, Init, NoUnit, NewUnit
<1>3. /\ prompts = [u \in UnitIds |-> None]
      /\ handlers = [n \in Nodes |-> 0]
      /\ overlapped = {}
      /\ trust = [n \in Nodes |-> [passed |-> 0, failed |-> 0]]
      /\ planted = [u \in UnitIds |-> None]
      /\ checks_run = 0 /\ checks_failed = 0 /\ replays_caught = 0
      /\ seen = [t \in Texts |-> None]
      /\ nodes = [n \in Nodes |-> None]
      /\ departed = [n \in Nodes |-> [units_completed |-> 0, units_failed |-> 0]]
      /\ batches_created = 0 /\ batches_completed = 0
      /\ leases_reclaimed = 0 /\ unit_retries = 0 /\ samples = 0
  BY DEF BookInit, V!VerifierInit, M!MetricsInit, M!NewRecord
<1>4. Cardinality({}) = 0 /\ IsFiniteSet({})
  BY FS_EmptySet
<1>5. \A n \in Nodes : AnsweredBy(n) = {}
  BY <1>2 DEF AnsweredBy
<1>6. BookTypeOK
  <2>1. V!VerifierTypeOK
    BY <1>3 DEF V!VerifierTypeOK, V!NodeTrust
  <2>2. M!MetricsTypeOK
    BY <1>3, BookkeepingAssumption DEF M!MetricsTypeOK, M!NodeMetrics
  <2>3. handlers \in [Nodes -> 0 .. MaxHandlers] /\ overlapped \subseteq Nodes
    BY <1>3, BookkeepingAssumption
  <2> QED
    BY <1>2, <1>3, <2>1, <2>2, <2>3 DEF BookTypeOK, Created
<1>7. ResultsSigned /\ CanariesAsked /\ SeenIsRecorded /\ RecordedIsSeen
  BY <1>2, <1>3 DEF ResultsSigned, CanariesAsked, SeenIsRecorded, RecordedIsSeen
<1>8. HonestBlamedOnlyForCopies
  <2>1. \A n \in Nodes : ~V!IsSuspect(n)
    BY <1>3 DEF V!IsSuspect
  <2> QED
    BY <2>1, BookkeepingAssumption DEF HonestBlamedOnlyForCopies
<1>9. VerdictsMatch
  <2>1. \A n \in Nodes : PassedCanaries(n) = {} /\ FailedCanaries(n) = {}
    BY <1>5 DEF PassedCanaries, FailedCanaries
  <2>2. /\ {u \in UnitIds : units[u].state = "complete" /\ Canary(u)} = {}
        /\ {u \in UnitIds : units[u].state = "complete" /\ Canary(u) /\ Wrong(u)} = {}
    BY <1>2
  <2>3. \A n \in Nodes : trust[n].passed = 0 /\ trust[n].failed = 0
    BY <1>3
  <2>4. \A n \in Nodes : /\ trust[n].passed = Cardinality(PassedCanaries(n))
                        /\ trust[n].failed >= Cardinality(FailedCanaries(n))
    BY <1>4, <2>1, <2>3
  <2>5. /\ checks_run = Cardinality({u \in UnitIds : units[u].state = "complete" /\ Canary(u)})
        /\ checks_failed = Cardinality(
              {u \in UnitIds : units[u].state = "complete" /\ Canary(u) /\ Wrong(u)})
    BY <1>3, <1>4, <2>2
  <2> QED
    BY <2>4, <2>5 DEF VerdictsMatch
<1>10. RecordsFollowHandlers
  BY <1>3 DEF RecordsFollowHandlers
<1>11. NoInflation /\ CreditExact
  <2>1. \A n \in Nodes : M!Credited(n) = 0
    BY <1>3 DEF M!Credited
  <2>2. \A n \in Nodes : Cardinality(AnsweredBy(n)) = 0
    BY <1>4, <1>5
  <2> QED
    BY <2>1, <2>2 DEF NoInflation, CreditExact
<1>12. {b \in BatchIds : batches[b].state # "absent"} = {}
       /\ {b \in BatchIds : batches[b].state = "completed"} = {}
  BY DEF BookInit, Init, NoBatch
<1>13. BatchesFinite
  BY <1>4, <1>12 DEF BatchesFinite
<1>14. CountsMatch
  <2>1. {u \in UnitIds : units[u].state = "complete"} = {}
    BY <1>2
  <2>2. Min({LatencySamples, 0}) = 0
    BY BookkeepingAssumption, MinOfTwo
  <2> QED
    BY <1>3, <1>4, <1>12, <2>1, <2>2 DEF CountsMatch
<1> QED
  BY <1>1, <1>6, <1>7, <1>8, <1>9, <1>10, <1>11, <1>13, <1>14 DEF BInv
-----------------------------------------------------------------------------
\* Nothing is recorded, and what was recorded stays.
AnswersKept ==
    \A u \in UnitIds :
        /\ units'[u].state = "complete" <=> units[u].state = "complete"
        /\ units[u].state = "complete" => units'[u] = units[u]

\* The steps of the store, other than a new batch and a recorded result.
LeasingStep ==
    \/ \E n \in Nodes, count \in UnitIds, m \in Models \cup {None} : Lease(n, count, m)
    \/ \E u \in Created : Fail(u)
    \/ \E n \in Nodes : ReleaseNode(n)
    \/ ExpireLeases
    \/ \E b \in BatchIds : CancelBatch(b)
    \/ Tick
    \/ UNCHANGED vars

\* Those record nothing, and create nothing.
LEMMA LeasingRecordsNothing ==
    ASSUME IInv, LeasingStep
    PROVE  AnswersKept /\ Created' = Created
<1>0. units \in [UnitIds -> WorkUnit]
  BY DEF IInv, TypeOK
<1>1. [Next]_vars
  BY DEF LeasingStep, Next
<1> DEFINE Moves(u) == /\ units'[u].state = "complete" => units[u].state = "complete"
                       /\ units'[u].state = "absent" <=> units[u].state = "absent"
<1>2. ASSUME NEW u \in UnitIds PROVE Moves(u)
  <2>0. units[u] \in WorkUnit
    BY <1>0
  <2>1. ASSUME NEW n \in Nodes, NEW count \in UnitIds, NEW m \in Models \cup {None},
               Lease(n, count, m)
        PROVE  Moves(u)
    <3>1. u \in Granted(count, m) => units[u].state = "pending"
      BY DEF Granted, Takes, Live
    <3>2. Leased(units[u], n).state = "leased"
      BY <2>0 DEF Leased, WorkUnit
    <3>3. units'[u] = IF u \in Granted(count, m) THEN Leased(units[u], n) ELSE units[u]
      BY <2>1 DEF Lease
    <3> QED
      BY <3>1, <3>2, <3>3
  <2>2. ASSUME NEW v \in Created, Fail(v)
        PROVE  Moves(u)
    <3>1. CASE u # v
      BY <1>0, <2>2, <3>1 DEF Fail, vars
    <3>2. CASE u = v /\ ~Outstanding(u)
      BY <2>2, <3>2 DEF Fail, vars
    <3>3. CASE u = v /\ Outstanding(u) /\ OutOfAttempts(u)
      <4>1. units'[u].state = "failed"
        BY <1>0, <2>0, <2>2, <3>3 DEF Fail, WorkUnit
      <4> QED
        BY <3>3, <4>1 DEF Outstanding
    <3>4. CASE u = v /\ Outstanding(u) /\ ~OutOfAttempts(u)
      <4>1. Requeued(units[u]) \in WorkUnit /\ Requeued(units[u]).state = "pending"
        BY <2>0, RequeuedFields
      <4>2. [Requeued(units[u]) EXCEPT !.error = "reported"].state = "pending"
        BY <4>1 DEF WorkUnit
      <4>3. units' = [units EXCEPT ![u] = [Requeued(@) EXCEPT !.error = "reported"]]
        BY <2>2, <3>4 DEF Fail
      <4>4. units'[u].state = "pending"
        BY <1>0, <4>2, <4>3
      <4> QED
        BY <3>4, <4>4 DEF Outstanding
    <3> QED
      BY <3>1, <3>2, <3>3, <3>4
  <2>3. ASSUME NEW S \in SUBSET UnitIds, \A v \in S : units[v].state = "leased", PutBack(S)
        PROVE  Moves(u)
    BY <2>0, <2>3, RequeuedFields DEF PutBack
  <2>4. ASSUME NEW n \in Nodes, ReleaseNode(n)
        PROVE  Moves(u)
    <3>1. HeldBy(n) \in SUBSET UnitIds /\ \A v \in HeldBy(n) : units[v].state = "leased"
      BY DEF HeldBy
    <3> QED
      BY <2>3, <2>4, <3>1 DEF ReleaseNode
  <2>5. CASE ExpireLeases
    <3>1. Overdue \in SUBSET UnitIds /\ \A v \in Overdue : units[v].state = "leased"
      BY DEF Overdue
    <3> QED
      BY <2>3, <2>5, <3>1 DEF ExpireLeases
  <2>6. ASSUME NEW b \in BatchIds, CancelBatch(b)
        PROVE  Moves(u)
    BY <2>0, <2>6 DEF CancelBatch, WorkUnit, Outstanding
  <2>7. CASE Tick
    BY <2>0, <2>7 DEF Tick, WorkUnit
  <2>8. CASE UNCHANGED vars
    BY <2>8 DEF vars
  <2> QED
    BY <2>1, <2>2, <2>4, <2>5, <2>6, <2>7, <2>8 DEF LeasingStep
<1>3. \A u \in UnitIds : units[u].state = "complete" => units'[u] = units[u]
  BY <1>1, StepsKeepUnits DEF UnitStep, Created, Outstanding
<1>4. AnswersKept
  BY <1>2, <1>3 DEF AnswersKept
<1>5. Created' = Created
  BY <1>2 DEF Created
<1> QED
  BY <1>4, <1>5

\* A new batch records nothing either.
LEMMA CreatingRecordsNothing ==
    ASSUME IInv, NEW b \in BatchIds, NEW c \in 0 .. MaxUnits, NEW n \in UnitIds,
           NEW k \in 0 .. MaxCanaries, NEW model \in Models \cup {None},
           NEW asked \in [1 .. (n + k) -> Models \cup {None}],
           CreateBatch(b, c, n, k, model, asked)
    PROVE  /\ AnswersKept
           /\ Created = 1 .. c
           /\ Created' = Created \cup (c + 1) .. (c + n) \cup (c + n + 1) .. (c + n + k)
           /\ (c + 1) .. (c + n) \cup (c + n + 1) .. (c + n + k) \subseteq UnitIds \ Created
           /\ c \in Nat /\ n \in Nat /\ k \in Nat
<1> DEFINE new == (c + 1) .. (c + n) \cup (c + n + 1) .. (c + n + k)
<1>1. Next
  BY DEF Next, Submit
<1>2. c \in Nat /\ n \in Nat /\ k \in Nat /\ MaxUnits \in Nat /\ c + n + k <= MaxUnits
  BY BoundsAssumption DEF UnitIds, CreateBatch
<1>3. Created = 1 .. c
  BY DEF CreateBatch
<1>4. new \subseteq UnitIds /\ new \cap 1 .. c = {}
  BY <1>2 DEF UnitIds
<1>5. ASSUME NEW u \in UnitIds
      PROVE  /\ u \in new => units'[u].state = "pending"
             /\ u \notin new => units'[u] = units[u]
  BY DEF CreateBatch, NewUnit
<1>6. Created' = Created \cup new
  <2>1. \A u \in UnitIds : u \in new => units'[u].state # "absent"
    BY <1>5
  <2>2. \A u \in UnitIds : u \notin new => (units'[u].state # "absent" <=> u \in Created)
    BY <1>5 DEF Created
  <2>3. Created' = {u \in UnitIds : units'[u].state # "absent"} /\ Created \subseteq UnitIds
    BY DEF Created
  <2> HIDE DEF new
  <2> QED
    BY <1>4, <2>1, <2>2, <2>3
<1>7. AnswersKept
  <2>1. \A u \in UnitIds : u \in new => units[u].state = "absent"
    BY <1>3, <1>4 DEF Created
  <2> HIDE DEF new
  <2> QED
    BY <1>5, <2>1 DEF AnswersKept
<1> QED
  BY <1>2, <1>3, <1>4, <1>6, <1>7

\* A result that is the first for its unit is recorded as it came.
LEMMA FirstResult ==
    ASSUME IInv, NEW u \in Created, NEW n \in Nodes, NEW t \in Texts,
           Complete(u, n, t), Outstanding(u)
    PROVE  /\ u \in UnitIds
           /\ units[u].state # "complete"
           /\ units'[u].state = "complete"
           /\ units'[u].node_id = n
           /\ units'[u].text = t
           /\ \A v \in UnitIds \ {u} : units'[v] = units[v]
           /\ Created' = Created
<1> DEFINE r == [units[u] EXCEPT !.state = "complete", !.text = t, !.node_id = n, !.left = 0]
<1>1. u \in UnitIds /\ units \in [UnitIds -> WorkUnit] /\ units[u] \in WorkUnit
  BY DEF IInv, TypeOK, Created
<1>2. units' = [units EXCEPT ![u] = r]
  BY <1>1 DEF Complete
<1>3. r.state = "complete" /\ r.text = t /\ r.node_id = n
  BY <1>1 DEF WorkUnit
<1> HIDE DEF r
<1>4. units'[u] = r /\ \A v \in UnitIds \ {u} : units'[v] = units[v]
  BY <1>1, <1>2
<1>5. units[u].state # "complete"
  BY DEF Outstanding
<1>6. Created' = Created
  BY <1>1, <1>3, <1>4 DEF Created
<1> QED
  BY <1>1, <1>3, <1>4, <1>5, <1>6
-----------------------------------------------------------------------------
\* As long as nothing is recorded and the created units keep what they ask, the
\* verifier's record goes on to fit the results.
LEMMA VerdictsStay ==
    ASSUME BInv, AnswersKept, Created \subseteq Created',
           \A u \in Created : prompts'[u] = prompts[u] /\ planted'[u] = planted[u],
           \A u \in UnitIds \ Created : planted'[u] # None =>
               u \in Created' /\ prompts'[u] = planted'[u].prompt,
           UNCHANGED <<trust, checks_run, checks_failed, seen>>
    PROVE  /\ ResultsSigned'
           /\ CanariesAsked'
           /\ SeenIsRecorded'
           /\ RecordedIsSeen'
           /\ HonestBlamedOnlyForCopies'
           /\ VerdictsMatch'
<1> DEFINE Done(u) == units[u].state = "complete"
<1>1. ASSUME NEW u \in UnitIds, Done(u) \/ Done(u)'
      PROVE  /\ Done(u) /\ Done(u)'
             /\ units'[u] = units[u] /\ prompts'[u] = prompts[u] /\ planted'[u] = planted[u]
  BY <1>1 DEF AnswersKept, Created
<1>2. CanariesAsked'
  BY DEF BInv, CanariesAsked
<1>3. SeenIsRecorded'
  <2> SUFFICES ASSUME NEW t \in Texts, seen[t] # None
               PROVE  \E v \in UnitIds : Done(v)' /\ units'[v].text = t /\ prompts'[v] = seen[t]
    BY DEF SeenIsRecorded
  <2>1. PICK v \in UnitIds : Done(v) /\ units[v].text = t /\ prompts[v] = seen[t]
    BY DEF BInv, SeenIsRecorded
  <2> QED
    BY <1>1, <2>1
<1>4. RecordedIsSeen'
  BY <1>1 DEF BInv, RecordedIsSeen, V!IsSuspect
<1>5. \A n \in Nodes : AnsweredBy(n)' = AnsweredBy(n)
  BY <1>1 DEF AnsweredBy
<1>6. HonestBlamedOnlyForCopies'
  <2> SUFFICES ASSUME NEW n \in Honest, V!IsSuspect(n)'
               PROVE  \E u \in AnsweredBy(n)' : CopiedElsewhere(u)'
    BY DEF HonestBlamedOnlyForCopies
  <2>1. n \in Nodes /\ V!IsSuspect(n)
    BY BookkeepingAssumption DEF V!IsSuspect
  <2>2. PICK u \in AnsweredBy(n) : CopiedElsewhere(u)
    BY <2>1 DEF BInv, HonestBlamedOnlyForCopies
  <2>3. PICK v \in UnitIds : /\ Done(v) /\ units[v].text = units[u].text
                             /\ units[v].text \notin Short \cup Replies[prompts[v]]
    BY <2>2 DEF CopiedElsewhere
  <2>4. u \in UnitIds /\ Done(u)
    BY DEF AnsweredBy
  <2>5. CopiedElsewhere(u)'
    BY <1>1, <2>3, <2>4 DEF CopiedElsewhere
  <2> QED
    BY <1>5, <2>1, <2>2, <2>5
<1>7. \A n \in Nodes : /\ PassedCanaries(n)' = PassedCanaries(n)
                       /\ FailedCanaries(n)' = FailedCanaries(n)
  BY <1>1 DEF PassedCanaries, FailedCanaries, AnsweredBy, Canary, Wrong
<1>8. /\ {u \in UnitIds : Done(u) /\ Canary(u)}' = {u \in UnitIds : Done(u) /\ Canary(u)}
      /\ {u \in UnitIds : Done(u) /\ Canary(u) /\ Wrong(u)}'
            = {u \in UnitIds : Done(u) /\ Canary(u) /\ Wrong(u)}
  BY <1>1 DEF Canary, Wrong
<1>9. VerdictsMatch'
  <2>1. \A n \in Nodes : /\ trust[n].passed = Cardinality(PassedCanaries(n))'
                         /\ trust[n].failed >= Cardinality(FailedCanaries(n))'
    BY <1>7 DEF BInv, VerdictsMatch
  <2>2. /\ checks_run = Cardinality({u \in UnitIds : Done(u) /\ Canary(u)})'
        /\ checks_failed = Cardinality({u \in UnitIds : Done(u) /\ Canary(u) /\ Wrong(u)})'
    BY <1>8 DEF BInv, VerdictsMatch
  <2> QED
    BY <2>1, <2>2 DEF VerdictsMatch
<1>10. ResultsSigned'
  BY <1>1 DEF BInv, ResultsSigned
<1> QED
  BY <1>2, <1>3, <1>4, <1>6, <1>9, <1>10

\* What the verdict on one result changes.
LEMMA JudgeFields ==
    ASSUME V!VerifierTypeOK, NEW u \in UnitIds, NEW n \in Nodes, NEW t \in Texts,
           NEW p \in Prompts, V!Judge(u, n, t, p)
    PROVE  /\ V!VerifierTypeOK'
           /\ planted' = planted
           /\ \A m \in Nodes \ {n} : trust'[m] = trust[m]
           /\ trust'[n].passed = trust[n].passed + V!Count(V!Passes(u, t))
           /\ trust'[n].failed =
                trust[n].failed + V!Count(V!Misses(u, t)) + V!Count(V!Replays(t, p))
           /\ checks_run' = checks_run + V!Count(V!IsCanary(u))
           /\ checks_failed' = checks_failed + V!Count(V!Misses(u, t))
           /\ \A s \in Texts : seen'[s] =
                IF s = t /\ t \notin Short /\ seen[t] = None THEN p ELSE seen[s]
<1> DEFINE passes == V!Count(V!Passes(u, t))
           misses == V!Count(V!Misses(u, t))
           replays == V!Count(V!Replays(t, p))
<1>1. passes \in Nat /\ misses \in Nat /\ replays \in Nat /\ V!Count(V!IsCanary(u)) \in Nat
  BY DEF V!Count
<1>2. /\ planted' = planted
      /\ trust' = [trust EXCEPT ![n].passed = @ + passes, ![n].failed = @ + misses + replays]
      /\ checks_run' = checks_run + V!Count(V!IsCanary(u))
      /\ checks_failed' = checks_failed + misses
      /\ replays_caught' = replays_caught + replays
      /\ V!Sees(t, p)
  BY DEF V!Judge
<1>3. /\ trust \in [Nodes -> [passed : Nat, failed : Nat]]
      /\ checks_run \in Nat /\ checks_failed \in Nat /\ replays_caught \in Nat
      /\ seen \in [Texts -> Prompts \cup {None}]
  BY DEF V!VerifierTypeOK, V!NodeTrust
<1> HIDE DEF passes, misses, replays
<1>4. trust[n] \in [passed : Nat, failed : Nat]
  BY <1>3
<1>5. /\ trust' \in [Nodes -> [passed : Nat, failed : Nat]]
      /\ \A m \in Nodes \ {n} : trust'[m] = trust[m]
      /\ trust'[n].passed = trust[n].passed + passes
      /\ trust'[n].failed = trust[n].failed + misses + replays
  <2> DEFINE x == trust[n].passed + passes
             y == trust[n].failed + misses + replays
             q == [trust[n] EXCEPT !.passed = x, !.failed = y]
  <2>1. trust' = [trust EXCEPT ![n] = q]
    BY <1>2, <1>3, <1>4
  <2>2. x \in Nat /\ y \in Nat
    BY <1>1, <1>4
  <2> HIDE DEF x, y
  <2>3. q \in [passed : Nat, failed : Nat] /\ q.passed = x /\ q.failed = y
    BY <1>4, <2>2
  <2> HIDE DEF q
  <2>4. /\ trust' \in [Nodes -> [passed : Nat, failed : Nat]]
        /\ \A m \in Nodes \ {n} : trust'[m] = trust[m]
        /\ trust'[n].passed = x
        /\ trust'[n].failed = y
    BY <1>3, <2>1, <2>3
  <2> QED
    BY <2>4 DEF x, y
<1>6. /\ seen' \in [Texts -> Prompts \cup {None}]
      /\ \A s \in Texts : seen'[s] =
            IF s = t /\ t \notin Short /\ seen[t] = None THEN p ELSE seen[s]
  BY <1>2, <1>3 DEF V!Sees
<1>7. checks_run' \in Nat /\ checks_failed' \in Nat /\ replays_caught' \in Nat
  BY <1>1, <1>2, <1>3
<1>8. V!VerifierTypeOK'
  BY <1>2, <1>5, <1>6, <1>7 DEF V!VerifierTypeOK, V!NodeTrust
<1> QED
  BY <1>2, <1>5, <1>6, <1>8 DEF passes, misses, replays
-----------------------------------------------------------------------------
\* A first result is judged in the step that records it: the canary, if it is
\* one, counts for or against its node, the answer is seen, and an honest node
\* fails no canary and repeats nothing that another node has not copied.
LEMMA VerdictsRecorded ==
    ASSUME BInv, NEW u \in Created, NEW n \in Nodes, NEW t \in Texts,
           n \in Honest => t \in Replies[prompts[u]],
           Complete(u, n, t), Outstanding(u), V!Judge(u, n, t, prompts[u]), prompts' = prompts
    PROVE  /\ V!VerifierTypeOK'
           /\ ResultsSigned'
           /\ CanariesAsked'
           /\ SeenIsRecorded'
           /\ RecordedIsSeen'
           /\ HonestBlamedOnlyForCopies'
           /\ VerdictsMatch'
<1> DEFINE Done(v) == units[v].state = "complete"
           p == prompts[u]
<1>1. /\ u \in UnitIds /\ ~Done(u)
      /\ units'[u].state = "complete" /\ units'[u].node_id = n /\ units'[u].text = t
      /\ \A v \in UnitIds \ {u} : units'[v] = units[v]
      /\ Created' = Created
  BY FirstResult DEF BInv
<1>2. /\ V!VerifierTypeOK /\ p \in Prompts
      /\ \A v \in UnitIds : Done(v) => prompts[v] \in Prompts
  BY <1>1 DEF BInv, BookTypeOK, Created
<1>3. /\ V!VerifierTypeOK'
      /\ planted' = planted
      /\ \A m \in Nodes \ {n} : trust'[m] = trust[m]
      /\ trust'[n].passed = trust[n].passed + V!Count(V!Passes(u, t))
      /\ trust'[n].failed =
            trust[n].failed + V!Count(V!Misses(u, t)) + V!Count(V!Replays(t, p))
      /\ checks_run' = checks_run + V!Count(V!IsCanary(u))
      /\ checks_failed' = checks_failed + V!Count(V!Misses(u, t))
      /\ \A s \in Texts : seen'[s] =
            IF s = t /\ t \notin Short /\ seen[t] = None THEN p ELSE seen[s]
  BY <1>1, <1>2, JudgeFields
<1>4. /\ \A m \in Nodes : trust[m].passed \in Nat /\ trust[m].failed \in Nat
      /\ checks_run \in Nat /\ checks_failed \in Nat
  BY <1>2 DEF V!VerifierTypeOK, V!NodeTrust
<1>5. \A v \in UnitIds : Done(v) => /\ v # u /\ units'[v] = units[v] /\ Done(v)'
                                    /\ units[v].node_id \in Nodes \cup {None}
                                    /\ units[v].text \in Texts
  <2>1. \A v \in UnitIds : units[v] \in WorkUnit /\ (Done(v) => units[v].text # None)
    BY DEF BInv, IInv, TypeOK, FieldsFitState
  <2>2. \A v \in UnitIds : /\ units[v].node_id \in Nodes \cup {None}
                           /\ Done(v) => units[v].text \in Texts
    BY <2>1 DEF WorkUnit
  <2> QED
    BY <1>1, <2>2
<1>6. \A v \in UnitIds : Done(v)' => v = u \/ Done(v)
  BY <1>1
<1>7. ASSUME NEW m \in Nodes, V!IsSuspect(m) PROVE V!IsSuspect(m)'
  <2>1. CASE m = n
    BY <1>3, <1>4, <1>7, <2>1 DEF V!IsSuspect, V!Count
  <2>2. CASE m # n
    BY <1>3, <1>7, <2>2 DEF V!IsSuspect
  <2> QED
    BY <2>1, <2>2
<1>8. ASSUME V!Replays(t, p) PROVE V!IsSuspect(n)'
  BY <1>3, <1>4, <1>8 DEF V!IsSuspect, V!Count
<1>9. CanariesAsked'
  BY <1>1, <1>3 DEF BInv, CanariesAsked
<1>10. SeenIsRecorded'
  <2> SUFFICES ASSUME NEW s \in Texts, seen'[s] # None
               PROVE  \E v \in UnitIds : Done(v)' /\ units'[v].text = s /\ prompts[v] = seen'[s]
    BY DEF SeenIsRecorded
  <2>1. CASE seen'[s] = seen[s]
    <3>1. PICK v \in UnitIds : Done(v) /\ units[v].text = s /\ prompts[v] = seen[s]
      BY <2>1 DEF BInv, SeenIsRecorded
    <3> QED
      BY <1>5, <2>1, <3>1
  <2>2. CASE seen'[s] # seen[s]
    BY <1>1, <1>3, <2>2
  <2> QED
    BY <2>1, <2>2
<1>11. RecordedIsSeen'
  <2> SUFFICES ASSUME NEW v \in UnitIds, Done(v)', units'[v].text \notin Short
               PROVE  /\ seen'[units'[v].text] # None
                      /\ seen'[units'[v].text] # prompts[v] =>
                            trust'[units'[v].node_id].failed > 0
    BY DEF RecordedIsSeen, V!IsSuspect
  <2>1. CASE v = u
    <3>1. units'[v].text = t /\ units'[v].node_id = n /\ t \notin Short
      BY <1>1, <2>1
    <3>2. seen'[t] = IF seen[t] = None THEN p ELSE seen[t]
      BY <1>3, <3>1
    <3>3. p # None
      BY <1>2, NothingAssumption
    <3>4. seen'[t] # p => V!Replays(t, p)
      BY <3>1, <3>2 DEF V!Replays
    <3>5. seen'[t] # None
      BY <3>2, <3>3
    <3> QED
      BY <1>8, <2>1, <3>1, <3>4, <3>5 DEF V!IsSuspect
  <2>2. CASE v # u
    <3>1. Done(v) /\ units'[v] = units[v] /\ units[v].text \in Texts
      BY <1>1, <1>5, <1>6, <2>2
    <3>2. /\ seen[units[v].text] # None
          /\ seen[units[v].text] # prompts[v] => V!IsSuspect(units[v].node_id)
      BY <3>1 DEF BInv, RecordedIsSeen
    <3>3. seen'[units[v].text] = seen[units[v].text]
      BY <1>3, <3>1, <3>2
    <3>4. units[v].node_id \in Nodes
      BY <3>1 DEF BInv, ResultsSigned
    <3> QED
      BY <1>7, <3>1, <3>2, <3>3, <3>4 DEF V!IsSuspect
  <2> QED
    BY <2>1, <2>2
<1>12. ResultsSigned'
  BY <1>1, <1>5, <1>6 DEF BInv, ResultsSigned
<1>13. ASSUME n \in Honest PROVE ~V!Misses(u, t)
  <2>1. SUFFICES ASSUME planted[u] # None PROVE Agree(planted[u].expected, t)
    BY DEF V!Misses, V!IsCanary
  <2>2. p = planted[u].prompt
    BY <1>1, <2>1 DEF BInv, CanariesAsked
  <2>3. PICK i \in DOMAIN Canaries : planted[u] = Canaries[i]
    BY <1>1, <1>2, <2>1 DEF V!VerifierTypeOK
  <2>4. t \in Replies[Canaries[i].prompt]
    BY <1>13, <2>2, <2>3
  <2> QED
    BY <2>3, <2>4, BookkeepingAssumption
<1>14. HonestBlamedOnlyForCopies'
  <2> SUFFICES ASSUME NEW m \in Honest, V!IsSuspect(m)'
               PROVE  \E v \in AnsweredBy(m)' : CopiedElsewhere(v)'
    BY DEF HonestBlamedOnlyForCopies
  <2>0. m \in Nodes
    BY BookkeepingAssumption
  <2>1. CASE V!IsSuspect(m)
    <3>1. PICK v \in AnsweredBy(m) : CopiedElsewhere(v)
      BY <2>1 DEF BInv, HonestBlamedOnlyForCopies
    <3>2. PICK w \in UnitIds : /\ Done(w) /\ units[w].text = units[v].text
                               /\ units[w].text \notin Short \cup Replies[prompts[w]]
      BY <3>1 DEF CopiedElsewhere
    <3>3. v \in UnitIds /\ Done(v) /\ units[v].node_id = m
      BY DEF AnsweredBy
    <3>4. CopiedElsewhere(v)'
      BY <1>5, <3>2, <3>3 DEF CopiedElsewhere
    <3>5. v \in AnsweredBy(m)'
      BY <1>5, <3>3 DEF AnsweredBy
    <3> QED
      BY <3>4, <3>5
  <2>2. CASE ~V!IsSuspect(m)
    <3>1. m = n
      BY <1>3, <2>0, <2>2 DEF V!IsSuspect
    <3>2. V!Replays(t, p)
      BY <1>3, <1>4, <1>13, <2>2, <3>1 DEF V!IsSuspect, V!Count
    <3>3. t \notin Short /\ seen[t] # None /\ seen[t] # p
      BY <3>2 DEF V!Replays
    <3>4. PICK v \in UnitIds : Done(v) /\ units[v].text = t /\ prompts[v] = seen[t]
      BY <3>3 DEF BInv, SeenIsRecorded
    <3>5. prompts[v] \in Prompts /\ prompts[v] # p /\ t \in Replies[p]
      BY <1>2, <3>1, <3>3, <3>4
    <3>6. t \notin Replies[prompts[v]]
      BY <1>2, <3>3, <3>5, BookkeepingAssumption
    <3>7. CopiedElsewhere(u)'
      BY <1>1, <1>5, <3>3, <3>4, <3>6 DEF CopiedElsewhere
    <3>8. u \in AnsweredBy(m)'
      BY <1>1, <3>1 DEF AnsweredBy
    <3> QED
      BY <3>7, <3>8
  <2> QED
    BY <2>1, <2>2
<1>15. ASSUME NEW S \in SUBSET UnitIds, u \notin S, NEW yes
       PROVE  /\ Cardinality(IF yes THEN S \cup {u} ELSE S) = Cardinality(S) + V!Count(yes)
              /\ Cardinality(S) \in Nat
  <2>1. Cardinality(S) \in Nat /\ Cardinality(S \cup {u}) = Cardinality(S) + 1
    BY <1>1, <1>15, UnitSets
  <2>2. CASE yes
    BY <2>1, <2>2 DEF V!Count
  <2>3. CASE ~yes
    BY <2>1, <2>3 DEF V!Count
  <2> QED
    BY <2>2, <2>3
<1>16. ASSUME NEW m \in Nodes
       PROVE  /\ trust'[m].passed = Cardinality(PassedCanaries(m))'
              /\ trust'[m].failed >= Cardinality(FailedCanaries(m))'
  <2>1. /\ trust[m].passed = Cardinality(PassedCanaries(m))
        /\ trust[m].failed >= Cardinality(FailedCanaries(m))
    BY DEF BInv, VerdictsMatch
  <2>2. CASE m # n
    <3>1. PassedCanaries(m)' = PassedCanaries(m) /\ FailedCanaries(m)' = FailedCanaries(m)
      BY <1>1, <1>3, <2>2 DEF PassedCanaries, FailedCanaries, AnsweredBy, Canary, Wrong
    <3> QED
      BY <1>3, <2>1, <2>2, <3>1
  <2>3. CASE m = n
    <3>1. /\ PassedCanaries(n)' =
                IF V!Passes(u, t) THEN PassedCanaries(n) \cup {u} ELSE PassedCanaries(n)
          /\ FailedCanaries(n)' =
                IF V!Misses(u, t) THEN FailedCanaries(n) \cup {u} ELSE FailedCanaries(n)
      BY <1>1, <1>3 DEF PassedCanaries, FailedCanaries, AnsweredBy, Canary, Wrong,
                        V!Passes, V!Misses, V!IsCanary
    <3>2. /\ PassedCanaries(n) \in SUBSET UnitIds /\ u \notin PassedCanaries(n)
          /\ FailedCanaries(n) \in SUBSET UnitIds /\ u \notin FailedCanaries(n)
      BY <1>1 DEF PassedCanaries, FailedCanaries, AnsweredBy
    <3>3. Cardinality(PassedCanaries(n))' = Cardinality(PassedCanaries(n)) + V!Count(V!Passes(u, t))
      BY <1>15, <3>1, <3>2
    <3>4. /\ Cardinality(FailedCanaries(n))' = Cardinality(FailedCanaries(n)) + V!Count(V!Misses(u, t))
          /\ Cardinality(FailedCanaries(n)) \in Nat
      BY <1>15, <3>1, <3>2
    <3>5. trust'[n].passed = Cardinality(PassedCanaries(n))'
      BY <1>3, <2>1, <2>3, <3>3
    <3>6. V!Count(V!Misses(u, t)) \in Nat /\ V!Count(V!Replays(t, p)) \in Nat
      BY DEF V!Count
    <3>7. trust'[n].failed >= Cardinality(FailedCanaries(n))'
      BY <1>3, <1>4, <2>1, <2>3, <3>4, <3>6
    <3> QED
      BY <2>3, <3>5, <3>7
  <2> QED
    BY <2>2, <2>3
<1>17. checks_run' = Cardinality({v \in UnitIds : Done(v) /\ Canary(v)})'
  <2> DEFINE S == {v \in UnitIds : Done(v) /\ Canary(v)}
  <2>1. S' = IF V!IsCanary(u) THEN S \cup {u} ELSE S
    BY <1>1, <1>3 DEF Canary, V!IsCanary
  <2>2. S \in SUBSET UnitIds /\ u \notin S
    BY <1>1
  <2>3. checks_run = Cardinality(S)
    BY DEF BInv, VerdictsMatch
  <2>4. Cardinality(S)' = Cardinality(IF V!IsCanary(u) THEN S \cup {u} ELSE S)
    BY <2>1
  <2> HIDE DEF S
  <2>5. Cardinality(S)' = Cardinality(S) + V!Count(V!IsCanary(u))
    BY <1>15, <2>2, <2>4
  <2> QED
    BY <1>3, <2>3, <2>5 DEF S
<1>18. checks_failed' = Cardinality({v \in UnitIds : Done(v) /\ Canary(v) /\ Wrong(v)})'
  <2> DEFINE S == {v \in UnitIds : Done(v) /\ Canary(v) /\ Wrong(v)}
  <2>1. S' = IF V!Misses(u, t) THEN S \cup {u} ELSE S
    BY <1>1, <1>3 DEF Canary, Wrong, V!Misses, V!IsCanary
  <2>2. S \in SUBSET UnitIds /\ u \notin S
    BY <1>1
  <2>3. checks_failed = Cardinality(S)
    BY DEF BInv, VerdictsMatch
  <2>4. Cardinality(S)' = Cardinality(IF V!Misses(u, t) THEN S \cup {u} ELSE S)
    BY <2>1
  <2> HIDE DEF S
  <2>5. Cardinality(S)' = Cardinality(S) + V!Count(V!Misses(u, t))
    BY <1>15, <2>2, <2>4
  <2> QED
    BY <1>3, <2>3, <2>5 DEF S
<1>19. VerdictsMatch'
  BY <1>16, <1>17, <1>18 DEF VerdictsMatch
<1> QED
  BY <1>3, <1>9, <1>10, <1>11, <1>12, <1>14, <1>19
-----------------------------------------------------------------------------
\* The three things that CountsMatch says.
CreatedCounted ==
    batches_created = Cardinality({b \in BatchIds : batches[b].state # "absent"})

CompletedCounted ==
    batches_completed = Cardinality({b \in BatchIds : batches[b].state = "completed"})

SamplesCounted ==
    samples = Min({LatencySamples, Cardinality({u \in UnitIds : units[u].state = "complete"})})

\* While no batch is created and none finishes, their counters fit.
LEMMA BatchCountsStay ==
    ASSUME BInv,
           \A b \in BatchIds :
               /\ batches'[b].state = "absent" <=> batches[b].state = "absent"
               /\ batches'[b].state = "completed" <=> batches[b].state = "completed",
           UNCHANGED <<batches_created, batches_completed>>
    PROVE  BatchesFinite' /\ CreatedCounted' /\ CompletedCounted'
<1> DEFINE there == {b \in BatchIds : batches[b].state # "absent"}
           closed == {b \in BatchIds : batches[b].state = "completed"}
<1>1. there' = there /\ closed' = closed
  OBVIOUS
<1>2. /\ IsFiniteSet(there)
      /\ batches_created = Cardinality(there)
      /\ batches_completed = Cardinality(closed)
  BY DEF BInv, BatchesFinite, CountsMatch
<1>3. /\ BatchesFinite' <=> IsFiniteSet(there')
      /\ CreatedCounted' <=> batches_created' = Cardinality(there')
      /\ CompletedCounted' <=> batches_completed' = Cardinality(closed')
  BY DEF BatchesFinite, CreatedCounted, CompletedCounted
<1> HIDE DEF there, closed
<1> QED
  BY <1>1, <1>2, <1>3

\* A new batch is counted once.
LEMMA BatchCountsCreate ==
    ASSUME BInv, NEW b \in BatchIds, batches[b].state = "absent",
           batches'[b].state = "in_progress",
           \A a \in BatchIds \ {b} : batches'[a] = batches[a],
           batches_created' = batches_created + 1, batches_completed' = batches_completed
    PROVE  BatchesFinite' /\ CreatedCounted' /\ CompletedCounted'
<1> DEFINE there == {a \in BatchIds : batches[a].state # "absent"}
           closed == {a \in BatchIds : batches[a].state = "completed"}
<1>1. there' = there \cup {b} /\ b \notin there
  OBVIOUS
<1>2. closed' = closed
  OBVIOUS
<1>3. /\ IsFiniteSet(there)
      /\ batches_created = Cardinality(there)
      /\ batches_completed = Cardinality(closed)
  BY DEF BInv, BatchesFinite, CountsMatch
<1>4. /\ BatchesFinite' <=> IsFiniteSet(there')
      /\ CreatedCounted' <=> batches_created' = Cardinality(there')
      /\ CompletedCounted' <=> batches_completed' = Cardinality(closed')
  BY DEF BatchesFinite, CreatedCounted, CompletedCounted
<1> HIDE DEF there, closed
<1>5. IsFiniteSet(there \cup {b}) /\ Cardinality(there \cup {b}) = Cardinality(there) + 1
  BY <1>1, <1>3, FS_AddElement
<1> QED
  BY <1>1, <1>2, <1>3, <1>4, <1>5

\* A batch that finishes is counted once, by the result or the dead-letter that
\* closes it.
LEMMA BatchCountsFinish ==
    ASSUME BInv, NEW a \in BatchIds, NEW us, batches' = MaybeFinishBatch(a, us),
           CountFinished, batches_created' = batches_created
    PROVE  BatchesFinite' /\ CreatedCounted' /\ CompletedCounted'
<1> DEFINE there == {b \in BatchIds : batches[b].state # "absent"}
           closed == {b \in BatchIds : batches[b].state = "completed"}
           closing == {b \in BatchIds :
                         batches[b].state = "in_progress" /\ batches'[b].state = "completed"}
<1>1. /\ \A b \in BatchIds : b # a => batches'[b] = batches[b]
      /\ \A b \in BatchIds : batches[b].state # "in_progress" => batches'[b] = batches[b]
      /\ batches[a].state = "in_progress" => batches'[a].state \in {"in_progress", "completed"}
  <2>1. batches \in [BatchIds -> Batch]
    BY DEF BInv, IInv, TypeOK
  <2> QED
    BY <2>1, FinishFields
<1>2. there' = there
  BY <1>1
<1>3. closed' = closed \cup closing /\ closed \cap closing = {} /\ closing \subseteq {a}
  BY <1>1
<1>4. /\ IsFiniteSet(there)
      /\ batches_created = Cardinality(there)
      /\ batches_completed = Cardinality(closed)
  BY DEF BInv, BatchesFinite, CountsMatch
<1>5. /\ BatchesFinite' <=> IsFiniteSet(there')
      /\ CreatedCounted' <=> batches_created' = Cardinality(there')
      /\ CompletedCounted' <=> batches_completed' = Cardinality(closed')
  BY DEF BatchesFinite, CreatedCounted, CompletedCounted
<1>6. batches_completed' = batches_completed + Cardinality(closing)
  BY DEF CountFinished
<1>7. closed \subseteq there
  OBVIOUS
<1> HIDE DEF there, closed, closing
<1>8. IsFiniteSet(closed) /\ Cardinality(closed) \in Nat
  BY <1>4, <1>7, FS_Subset, FS_CardinalityType
<1>9. Cardinality(closed \cup closing) = Cardinality(closed) + Cardinality(closing)
  <2>1. CASE closing = {}
    <3>1. closed \cup closing = closed
      BY <2>1
    <3>2. Cardinality(closing) = 0
      BY <2>1, FS_EmptySet
    <3>3. Cardinality(closed \cup closing) = Cardinality(closed)
      BY <3>1
    <3> QED
      BY <1>8, <3>2, <3>3
  <2>2. CASE closing = {a}
    <3>1. Cardinality(closing) = 1
      BY <2>2, FS_Singleton
    <3>2. a \notin closed
      BY <1>3, <2>2
    <3>3. Cardinality(closed \cup {a}) = Cardinality(closed) + 1
      BY <1>8, <3>2, FS_AddElement
    <3> QED
      BY <2>2, <3>1, <3>3
  <2> QED
    BY <1>3, <2>1, <2>2
<1>10. CompletedCounted'
  BY <1>3, <1>4, <1>5, <1>6, <1>9
<1> QED
  BY <1>2, <1>4, <1>5, <1>10

\* What CountFinished adds is a number: at most one batch finishes.
LEMMA FinishedIsCounted ==
    ASSUME BInv, NEW a \in BatchIds, NEW us, batches' = MaybeFinishBatch(a, us), CountFinished
    PROVE  batches_completed' \in Nat
<1> DEFINE closing == {b \in BatchIds :
                         batches[b].state = "in_progress" /\ batches'[b].state = "completed"}
<1>1. batches \in [BatchIds -> Batch]
  BY DEF BInv, IInv, TypeOK
<1>2. \A b \in BatchIds : b # a => batches'[b] = batches[b]
  BY <1>1, FinishFields
<1>3. closing \subseteq {a}
  BY <1>2
<1>4. batches_completed' = batches_completed + Cardinality(closing)
  BY DEF CountFinished
<1>5. batches_completed \in Nat
  BY DEF BInv, BookTypeOK, M!MetricsTypeOK
<1> HIDE DEF closing
<1>6. IsFiniteSet({a})
  BY FS_Singleton
<1>7. Cardinality(closing) \in Nat
  BY <1>3, <1>6, FS_Subset, FS_CardinalityType
<1> QED
  BY <1>4, <1>5, <1>7

\* The samples fit as long as nothing is recorded.
LEMMA SamplesStay ==
    ASSUME BInv, AnswersKept, samples' = samples
    PROVE  SamplesCounted'
<1> DEFINE done == {u \in UnitIds : units[u].state = "complete"}
<1>1. done' = done
  BY DEF AnswersKept
<1>2. samples = Min({LatencySamples, Cardinality(done)})
  BY DEF BInv, CountsMatch
<1>3. SamplesCounted' <=> samples' = Min({LatencySamples, Cardinality(done')})
  BY DEF SamplesCounted
<1> HIDE DEF done
<1> QED
  BY <1>1, <1>2, <1>3

\* One more result is one more sample, until the samples are full.
LEMMA SamplesRecorded ==
    ASSUME BInv, NEW u \in UnitIds,
           units[u].state # "complete", units'[u].state = "complete",
           \A v \in UnitIds \ {u} : units'[v] = units[v],
           samples' = IF samples < LatencySamples THEN samples + 1 ELSE samples
    PROVE  SamplesCounted'
<1> DEFINE done == {v \in UnitIds : units[v].state = "complete"}
<1>1. done' = done \cup {u} /\ u \notin done /\ done \in SUBSET UnitIds
  OBVIOUS
<1>2. samples = Min({LatencySamples, Cardinality(done)})
  BY DEF BInv, CountsMatch
<1>3. SamplesCounted' <=> samples' = Min({LatencySamples, Cardinality(done')})
  BY DEF SamplesCounted
<1> HIDE DEF done
<1>4. Cardinality(done) \in Nat /\ Cardinality(done') = Cardinality(done) + 1
  BY <1>1, UnitSets
<1>5. LatencySamples \in Nat
  BY BookkeepingAssumption
<1>6. PICK k \in Nat : k = Cardinality(done)
  BY <1>4
<1>7. /\ Min({LatencySamples, k}) = IF LatencySamples <= k THEN LatencySamples ELSE k
      /\ Min({LatencySamples, k + 1}) =
            IF LatencySamples <= k + 1 THEN LatencySamples ELSE k + 1
  BY <1>5, MinOfTwo
<1>8. samples' = Min({LatencySamples, k + 1})
  BY <1>2, <1>5, <1>6, <1>7
<1> QED
  BY <1>3, <1>4, <1>6, <1>8
-----------------------------------------------------------------------------
\* Credit stays within what is recorded as long as nothing is recorded and no
\* credit is given; where none is taken either, it stays exact.
LEMMA CreditStays ==
    ASSUME BInv, AnswersKept, overlapped \subseteq overlapped',
           \A n \in Nodes : M!Credited(n)' \in Int /\ M!Credited(n)' <= M!Credited(n),
           \A n \in Nodes \ overlapped' : M!Credited(n)' = M!Credited(n)
    PROVE  NoInflation' /\ CreditExact'
<1>1. ASSUME NEW n \in Nodes
      PROVE  /\ AnsweredBy(n)' = AnsweredBy(n)
             /\ Cardinality(AnsweredBy(n)) \in Nat
             /\ M!Credited(n) \in Int
             /\ M!Credited(n) <= Cardinality(AnsweredBy(n))
  <2>1. AnsweredBy(n)' = AnsweredBy(n) /\ AnsweredBy(n) \in SUBSET UnitIds
    BY DEF AnsweredBy, AnswersKept
  <2>2. M!Credited(n) <= Cardinality(AnsweredBy(n))
    BY DEF BInv, NoInflation
  <2>3. departed[n] \in M!NodeMetrics /\ nodes[n] \in M!NodeMetrics \cup {None}
    BY DEF BInv, BookTypeOK, M!MetricsTypeOK
  <2>4. M!Credited(n) \in Int
    BY <2>3 DEF M!Credited, M!NodeMetrics
  <2> QED
    BY <2>1, <2>2, <2>4, UnitSets
<1>2. NoInflation'
  <2> SUFFICES ASSUME NEW n \in Nodes
               PROVE  M!Credited(n)' <= Cardinality(AnsweredBy(n))'
    BY DEF NoInflation
  <2>1. /\ Cardinality(AnsweredBy(n))' = Cardinality(AnsweredBy(n))
        /\ M!Credited(n)' \in Int /\ M!Credited(n)' <= M!Credited(n)
    BY <1>1
  <2> QED
    BY <1>1, <2>1
<1>3. CreditExact'
  <2> SUFFICES ASSUME NEW n \in Nodes \ overlapped'
               PROVE  M!Credited(n)' = Cardinality(AnsweredBy(n))'
    BY DEF CreditExact
  <2>1. M!Credited(n) = Cardinality(AnsweredBy(n))
    BY DEF BInv, CreditExact
  <2>2. Cardinality(AnsweredBy(n))' = Cardinality(AnsweredBy(n))
    BY <1>1
  <2> QED
    BY <2>1, <2>2
<1> QED
  BY <1>2, <1>3

\* What unit_completed gives the node: one unit, if it has a record.
LEMMA CompletedFields ==
    ASSUME M!MetricsTypeOK, NEW n \in Nodes, NEW k \in Nat, M!UnitCompleted(n, k)
    PROVE  /\ nodes' \in [Nodes -> M!NodeMetrics \cup {None}]
           /\ samples' \in 0 .. LatencySamples
           /\ samples' = IF samples < LatencySamples THEN samples + 1 ELSE samples
           /\ unit_retries' \in Nat
           /\ \A m \in Nodes \ {n} : nodes'[m] = nodes[m]
           /\ nodes[n] = None => nodes'[n] = None
           /\ nodes[n] # None => /\ nodes'[n] # None
                                 /\ nodes'[n].units_completed = nodes[n].units_completed + 1
<1>1. /\ samples' = IF samples < LatencySamples THEN samples + 1 ELSE samples
      /\ unit_retries' = unit_retries + k
      /\ nodes' = IF nodes[n] = None THEN nodes
                  ELSE [nodes EXCEPT ![n].units_completed = @ + 1]
  BY DEF M!UnitCompleted
<1>2. /\ nodes \in [Nodes -> M!NodeMetrics \cup {None}]
      /\ samples \in 0 .. LatencySamples /\ unit_retries \in Nat
  BY DEF M!MetricsTypeOK
<1>3. samples' \in 0 .. LatencySamples /\ unit_retries' \in Nat
  BY <1>1, <1>2, BookkeepingAssumption
<1>4. CASE nodes[n] = None
  BY <1>1, <1>2, <1>3, <1>4
<1>5. CASE nodes[n] # None
  <2> DEFINE x == nodes[n].units_completed + 1
             q == [nodes[n] EXCEPT !.units_completed = x]
  <2>1. nodes[n] \in [units_completed : Nat, units_failed : Nat]
    BY <1>2, <1>5 DEF M!NodeMetrics
  <2>2. x \in Nat
    BY <2>1
  <2>3. nodes' = [nodes EXCEPT ![n] = q]
    BY <1>1, <1>2, <1>5
  <2> HIDE DEF x
  <2>4. q \in [units_completed : Nat, units_failed : Nat] /\ q.units_completed = x
    BY <2>1, <2>2
  <2>5. q # None
    BY <2>4, NothingAssumption
  <2> HIDE DEF q
  <2>6. /\ nodes' \in [Nodes -> M!NodeMetrics \cup {None}]
        /\ nodes'[n] = q
        /\ \A m \in Nodes \ {n} : nodes'[m] = nodes[m]
    BY <1>2, <2>3, <2>4 DEF M!NodeMetrics
  <2> QED
    BY <1>1, <1>3, <1>5, <2>4, <2>5, <2>6 DEF x
<1> QED
  BY <1>4, <1>5

\* unit_failed adds to another count of the record.
LEMMA FailedFields ==
    ASSUME M!MetricsTypeOK, NEW n \in Nodes, M!UnitFailed(n)
    PROVE  /\ nodes' \in [Nodes -> M!NodeMetrics \cup {None}]
           /\ \A m \in Nodes :
                 /\ nodes'[m] = None <=> nodes[m] = None
                 /\ nodes[m] # None => nodes'[m].units_completed = nodes[m].units_completed
<1>1. nodes' = IF nodes[n] = None THEN nodes ELSE [nodes EXCEPT ![n].units_failed = @ + 1]
  BY DEF M!UnitFailed
<1>2. nodes \in [Nodes -> M!NodeMetrics \cup {None}]
  BY DEF M!MetricsTypeOK
<1>3. CASE nodes[n] = None
  BY <1>1, <1>2, <1>3
<1>4. CASE nodes[n] # None
  <2> DEFINE x == nodes[n].units_failed + 1
             q == [nodes[n] EXCEPT !.units_failed = x]
  <2>1. nodes[n] \in [units_completed : Nat, units_failed : Nat]
    BY <1>2, <1>4 DEF M!NodeMetrics
  <2>2. x \in Nat
    BY <2>1
  <2>3. nodes' = [nodes EXCEPT ![n] = q]
    BY <1>1, <1>2, <1>4
  <2> HIDE DEF x
  <2>4. /\ q \in [units_completed : Nat, units_failed : Nat]
        /\ q.units_completed = nodes[n].units_completed
    BY <2>1, <2>2
  <2>5. q # None
    BY <2>4, NothingAssumption
  <2> HIDE DEF q
  <2> QED
    BY <1>2, <1>4, <2>3, <2>4, <2>5 DEF M!NodeMetrics
<1> QED
  BY <1>3, <1>4

\* node_left moves what the record holds to the snapshots.
LEMMA LeftFields ==
    ASSUME M!MetricsTypeOK, NEW n \in Nodes, M!NodeLeft(n)
    PROVE  /\ nodes' \in [Nodes -> M!NodeMetrics \cup {None}]
           /\ departed' \in [Nodes -> M!NodeMetrics]
           /\ nodes'[n] = None
           /\ \A m \in Nodes \ {n} : nodes'[m] = nodes[m]
           /\ \A m \in Nodes : M!Credited(m)' = M!Credited(m) /\ M!Credited(m) \in Nat
<1>1. /\ nodes' = [nodes EXCEPT ![n] = None]
      /\ departed' = IF nodes[n] = None THEN departed
                     ELSE [departed EXCEPT
                             ![n].units_completed = @ + nodes[n].units_completed,
                             ![n].units_failed = @ + nodes[n].units_failed]
  BY DEF M!NodeLeft
<1>2. /\ nodes \in [Nodes -> M!NodeMetrics \cup {None}]
      /\ departed \in [Nodes -> M!NodeMetrics]
  BY DEF M!MetricsTypeOK
<1>3. /\ nodes' \in [Nodes -> M!NodeMetrics \cup {None}]
      /\ nodes'[n] = None
      /\ \A m \in Nodes \ {n} : nodes'[m] = nodes[m]
  BY <1>1, <1>2
<1>4. \A m \in Nodes : M!Credited(m) \in Nat
  <2>1. \A m \in Nodes : departed[m] \in [units_completed : Nat, units_failed : Nat]
                         /\ (nodes[m] # None =>
                                nodes[m] \in [units_completed : Nat, units_failed : Nat])
    BY <1>2 DEF M!NodeMetrics
  <2> QED
    BY <2>1 DEF M!Credited
<1>5. CASE nodes[n] = None
  BY <1>1, <1>2, <1>3, <1>4, <1>5 DEF M!Credited
<1>6. CASE nodes[n] # None
  <2> DEFINE x == departed[n].units_completed + nodes[n].units_completed
             y == departed[n].units_failed + nodes[n].units_failed
             q == [departed[n] EXCEPT !.units_completed = x, !.units_failed = y]
  <2>1. /\ nodes[n] \in [units_completed : Nat, units_failed : Nat]
        /\ departed[n] \in [units_completed : Nat, units_failed : Nat]
    BY <1>2, <1>6 DEF M!NodeMetrics
  <2>2. x \in Nat /\ y \in Nat
    BY <2>1
  <2>3. departed' = [departed EXCEPT ![n] = q]
    BY <1>1, <1>2, <1>6, <2>1
  <2>4. M!Credited(n) = x
    BY <1>6 DEF M!Credited
  <2> HIDE DEF x, y
  <2>5. q \in [units_completed : Nat, units_failed : Nat] /\ q.units_completed = x
    BY <2>1, <2>2
  <2> HIDE DEF q
  <2>6. /\ departed' \in [Nodes -> M!NodeMetrics]
        /\ departed'[n].units_completed = x
        /\ \A m \in Nodes \ {n} : departed'[m] = departed[m]
    BY <1>2, <2>3, <2>5 DEF M!NodeMetrics
  <2>7. M!Credited(n)' = x
    BY <1>3, <2>2, <2>6 DEF M!Credited
  <2>8. \A m \in Nodes \ {n} : M!Credited(m)' = M!Credited(m)
    BY <1>3, <2>6 DEF M!Credited
  <2> QED
    BY <1>3, <1>4, <2>4, <2>6, <2>7, <2>8
<1> QED
  BY <1>5, <1>6
-----------------------------------------------------------------------------
\* Each action of Bookkeeping is an action of the store, or leaves it alone.
LEMMA StepOfTheStore ==
    ASSUME [BookNext]_bookVars
    PROVE  [Next]_vars
<1>1. CASE Asks
  <2>1. PICK b \in BatchIds, c \in 0 .. MaxUnits, n \in UnitIds, k \in 0 .. MaxCanaries,
             model \in Models \cup {None} :
               \E asked \in [1 .. (n + k) -> Models \cup {None}], wants \in [1 .. n -> Prompts] :
                   Create(b, c, n, k, model, asked, wants)
    BY <1>1 DEF Asks
  <2>2. PICK asked \in [1 .. (n + k) -> Models \cup {None}], wants \in [1 .. n -> Prompts] :
               Create(b, c, n, k, model, asked, wants)
    BY <2>1
  <2>3. CreateBatch(b, c, n, k, model, asked)
    BY <2>2 DEF Create
  <2> QED
    BY <2>3 DEF Next, Submit
<1>2. ASSUME NEW n \in Nodes, Join(n) \/ Leave(n)
      PROVE  [Next]_vars
  BY <1>2 DEF Join, Leave, Next
<1>3. ASSUME NEW n \in Nodes, NEW count \in UnitIds, NEW m \in Models \cup {None},
             Take(n, count, m)
      PROVE  Next
  BY <1>3 DEF Take, Next
<1>4. ASSUME NEW u \in Created, NEW n \in Nodes, NEW t \in Texts, Report(u, n, t)
      PROVE  Next
  BY <1>4 DEF Report, Result, Next
<1>5. ASSUME NEW u \in Created, NEW n \in Nodes, ReportFailure(u, n)
      PROVE  Next
  BY <1>5 DEF ReportFailure, Next
<1>6. CASE Expire
  BY <1>6 DEF Expire, Next
<1>7. ASSUME NEW b \in BatchIds, Cancel(b)
      PROVE  Next
  BY <1>7 DEF Cancel, Next
<1>8. CASE Clock
  BY <1>8 DEF Clock, Next
<1>9. CASE UNCHANGED bookVars
  BY <1>9 DEF bookVars
<1> QED
  BY <1>1, <1>2, <1>3, <1>4, <1>5, <1>6, <1>7, <1>8, <1>9 DEF BookNext

\* The verifier's half of the invariant.
VerifierHalf ==
    /\ V!VerifierTypeOK
    /\ prompts \in [UnitIds -> Prompts \cup {None}]
    /\ \A u \in Created : prompts[u] # None
    /\ ResultsSigned
    /\ CanariesAsked
    /\ SeenIsRecorded
    /\ RecordedIsSeen
    /\ HonestBlamedOnlyForCopies
    /\ VerdictsMatch

\* The metrics' half.
MetricsHalf ==
    /\ M!MetricsTypeOK
    /\ handlers \in [Nodes -> 0 .. MaxHandlers]
    /\ overlapped \subseteq Nodes
    /\ RecordsFollowHandlers
    /\ NoInflation
    /\ CreditExact
    /\ BatchesFinite
    /\ CreatedCounted
    /\ CompletedCounted
    /\ SamplesCounted

\* With the store's invariant they are all of it.
LEMMA Halves == BInv <=> IInv /\ VerifierHalf /\ MetricsHalf
<1>1. CountsMatch <=> CreatedCounted /\ CompletedCounted /\ SamplesCounted
  BY DEF CountsMatch, CreatedCounted, CompletedCounted, SamplesCounted
<1> QED
  BY <1>1 DEF BInv, BookTypeOK, VerifierHalf, MetricsHalf

\* No step of leasing concerns the verifier.
LEMMA LeasingKeepsVerifier ==
    ASSUME BInv, LeasingStep, UNCHANGED <<prompts, verifierVars>>
    PROVE  VerifierHalf' /\ AnswersKept
<1>1. AnswersKept /\ Created' = Created
  BY LeasingRecordsNothing DEF BInv
<1>2. /\ prompts' = prompts /\ planted' = planted
      /\ UNCHANGED <<trust, checks_run, checks_failed, replays_caught, seen>>
  BY DEF verifierVars
<1>3. \A u \in UnitIds \ Created : planted'[u] # None =>
          u \in Created' /\ prompts'[u] = planted'[u].prompt
  BY <1>1, <1>2 DEF BInv, CanariesAsked
<1>4. /\ ResultsSigned' /\ CanariesAsked' /\ SeenIsRecorded' /\ RecordedIsSeen'
      /\ HonestBlamedOnlyForCopies' /\ VerdictsMatch'
  BY <1>1, <1>2, <1>3, VerdictsStay
<1>5. V!VerifierTypeOK'
  BY <1>2 DEF BInv, BookTypeOK, V!VerifierTypeOK
<1>6. prompts' \in [UnitIds -> Prompts \cup {None}] /\ \A u \in Created' : prompts'[u] # None
  BY <1>1, <1>2 DEF BInv, BookTypeOK
<1> QED
  BY <1>1, <1>4, <1>5, <1>6 DEF VerifierHalf

\* Credit and records stay when neither the records nor the handlers change.
LEMMA RecordsStay ==
    ASSUME BInv, AnswersKept, UNCHANGED <<nodes, departed, handlers, overlapped>>
    PROVE  RecordsFollowHandlers' /\ NoInflation' /\ CreditExact'
<1>1. ASSUME NEW n \in Nodes
      PROVE  M!Credited(n)' = M!Credited(n) /\ M!Credited(n) \in Int
  <2>1. departed[n] \in M!NodeMetrics /\ nodes[n] \in M!NodeMetrics \cup {None}
    BY DEF BInv, BookTypeOK, M!MetricsTypeOK
  <2>2. M!Credited(n) \in Int
    BY <2>1 DEF M!Credited, M!NodeMetrics
  <2>3. M!Credited(n)' = M!Credited(n)
    BY DEF M!Credited
  <2> QED
    BY <2>2, <2>3
<1>2. \A n \in Nodes : M!Credited(n)' \in Int /\ M!Credited(n)' <= M!Credited(n)
  BY <1>1
<1>3. NoInflation' /\ CreditExact'
  BY <1>1, <1>2, CreditStays
<1>4. RecordsFollowHandlers'
  BY DEF BInv, RecordsFollowHandlers
<1> QED
  BY <1>3, <1>4

\* Leases, cancellations, the clock and the sweep, which counts what it takes
\* back, keep the metrics' half.
LEMMA LeasingKeepsMetrics ==
    ASSUME BInv, LeasingStep, AnswersKept,
           \A b \in BatchIds :
               /\ batches'[b].state = "absent" <=> batches[b].state = "absent"
               /\ batches'[b].state = "completed" <=> batches[b].state = "completed",
           UNCHANGED <<handlers, overlapped, nodes, departed, batches_created,
                       batches_completed, unit_retries, samples>>,
           leases_reclaimed' \in Nat
    PROVE  MetricsHalf'
<1>1. RecordsFollowHandlers' /\ NoInflation' /\ CreditExact'
  BY RecordsStay
<1>2. BatchesFinite' /\ CreatedCounted' /\ CompletedCounted' /\ SamplesCounted'
  BY BatchCountsStay, SamplesStay
<1>3. M!MetricsTypeOK'
  BY DEF BInv, BookTypeOK, M!MetricsTypeOK
<1>4. handlers' \in [Nodes -> 0 .. MaxHandlers] /\ overlapped' \subseteq Nodes
  BY DEF BInv, BookTypeOK
<1> QED
  BY <1>1, <1>2, <1>3, <1>4 DEF MetricsHalf

\* A lease, a cancellation, a tick and a stutter tell nobody anything.
LEMMA SilentPreserves ==
    ASSUME BInv, LeasingStep, IInv',
           \A b \in BatchIds :
               /\ batches'[b].state = "absent" <=> batches[b].state = "absent"
               /\ batches'[b].state = "completed" <=> batches[b].state = "completed",
           UNCHANGED <<prompts, handlers, overlapped, verifierVars, metricsVars>>
    PROVE  BInv'
<1>1. VerifierHalf' /\ AnswersKept
  BY LeasingKeepsVerifier
<1>2. /\ UNCHANGED <<nodes, departed, batches_created, batches_completed, unit_retries, samples>>
      /\ leases_reclaimed' \in Nat
  BY DEF metricsVars, BInv, BookTypeOK, M!MetricsTypeOK
<1>3. MetricsHalf'
  BY <1>1, <1>2, LeasingKeepsMetrics
<1>4. (IInv /\ VerifierHalf /\ MetricsHalf)'
  BY <1>1, <1>3
<1> QED
  BY <1>4, Halves, PTL

\* A sweep counts the leases it takes back.
LEMMA SweepPreserves ==
    ASSUME BInv, Expire, IInv'
    PROVE  BInv'
<1>1. LeasingStep /\ UNCHANGED <<prompts, verifierVars>> /\ batches' = batches
  BY DEF Expire, LeasingStep, ExpireLeases, PutBack
<1>2. VerifierHalf' /\ AnswersKept
  BY <1>1, LeasingKeepsVerifier
<1>3. leases_reclaimed' \in Nat
  <2>1. Overdue \in SUBSET UnitIds
    BY DEF Overdue
  <2>2. leases_reclaimed \in Nat /\ leases_reclaimed' = leases_reclaimed + Cardinality(Overdue)
    BY DEF BInv, BookTypeOK, M!MetricsTypeOK, Expire, M!LeasesReturned
  <2> QED
    BY <2>1, <2>2, UnitSets
<1>4. MetricsHalf'
  BY <1>1, <1>2, <1>3, LeasingKeepsMetrics DEF Expire
<1>5. (IInv /\ VerifierHalf /\ MetricsHalf)'
  BY <1>2, <1>4
<1> QED
  BY <1>5, Halves, PTL

\* A new handler gives the node a fresh record.  A node that had none before
\* had nothing in it to lose.
LEMMA JoinPreserves ==
    ASSUME BInv, NEW n \in Nodes, Join(n), IInv'
    PROVE  BInv'
<1>1. /\ handlers[n] < MaxHandlers
      /\ handlers' = [handlers EXCEPT ![n] = @ + 1]
      /\ overlapped' = IF handlers[n] > 0 THEN overlapped \cup {n} ELSE overlapped
      /\ nodes' = [nodes EXCEPT ![n] = M!NewRecord]
      /\ departed' = departed
      /\ UNCHANGED <<batches_created, batches_completed, leases_reclaimed, unit_retries, samples>>
      /\ UNCHANGED vars /\ UNCHANGED <<prompts, verifierVars>>
  BY DEF Join, M!NodeJoined, M!fleetWide
<1>2. LeasingStep
  BY <1>1 DEF LeasingStep
<1>3. VerifierHalf' /\ AnswersKept
  BY <1>1, <1>2, LeasingKeepsVerifier
<1>4. /\ M!MetricsTypeOK
      /\ handlers \in [Nodes -> 0 .. MaxHandlers] /\ MaxHandlers \in Nat
      /\ overlapped \subseteq Nodes
      /\ nodes \in [Nodes -> M!NodeMetrics \cup {None}]
      /\ departed \in [Nodes -> M!NodeMetrics]
  BY BookkeepingAssumption DEF BInv, BookTypeOK, M!MetricsTypeOK
<1>5. M!NewRecord \in M!NodeMetrics /\ M!NewRecord # None /\ M!NewRecord.units_completed = 0
  <2>1. M!NewRecord \in [units_completed : Nat, units_failed : Nat]
    BY DEF M!NewRecord
  <2> QED
    BY <2>1, NothingAssumption DEF M!NewRecord, M!NodeMetrics
<1>6. /\ handlers' \in [Nodes -> 0 .. MaxHandlers]
      /\ handlers'[n] = handlers[n] + 1
      /\ \A m \in Nodes \ {n} : handlers'[m] = handlers[m]
      /\ overlapped' \subseteq Nodes /\ overlapped \subseteq overlapped'
  BY <1>1, <1>4
<1>7. /\ nodes' \in [Nodes -> M!NodeMetrics \cup {None}]
      /\ nodes'[n] = M!NewRecord
      /\ \A m \in Nodes \ {n} : nodes'[m] = nodes[m]
  BY <1>1, <1>4, <1>5
<1>8. M!MetricsTypeOK'
  BY <1>1, <1>4, <1>7 DEF M!MetricsTypeOK
<1>9. n \notin overlapped' => n \notin overlapped /\ handlers[n] = 0 /\ nodes[n] = None
  BY <1>1, <1>4 DEF BInv, RecordsFollowHandlers
<1>10. RecordsFollowHandlers'
  <2> SUFFICES ASSUME NEW m \in Nodes \ overlapped'
               PROVE  handlers'[m] <= 1 /\ (nodes'[m] = None <=> handlers'[m] = 0)
    BY DEF RecordsFollowHandlers
  <2>1. CASE m = n
    BY <1>4, <1>5, <1>6, <1>7, <1>9, <2>1
  <2>2. CASE m # n
    BY <1>6, <1>7, <2>2 DEF BInv, RecordsFollowHandlers
  <2> QED
    BY <2>1, <2>2
<1>11. ASSUME NEW m \in Nodes
       PROVE  /\ M!Credited(m)' \in Int /\ M!Credited(m)' <= M!Credited(m)
              /\ m \notin overlapped' => M!Credited(m)' = M!Credited(m)
  <2>1. /\ departed[m].units_completed \in Nat
        /\ nodes[m] # None => nodes[m].units_completed \in Nat
    BY <1>4 DEF M!NodeMetrics
  <2>2. CASE m = n
    <3>1. M!Credited(n)' = departed[n].units_completed + 0
      BY <1>1, <1>5, <1>7 DEF M!Credited
    <3> QED
      BY <1>9, <2>1, <2>2, <3>1 DEF M!Credited
  <2>3. CASE m # n
    <3>1. M!Credited(m)' = M!Credited(m)
      BY <1>1, <1>7, <2>3 DEF M!Credited
    <3> QED
      BY <2>1, <3>1 DEF M!Credited
  <2> QED
    BY <2>2, <2>3
<1>12. NoInflation' /\ CreditExact'
  BY <1>3, <1>6, <1>11, CreditStays
<1>13. BatchesFinite' /\ CreatedCounted' /\ CompletedCounted' /\ SamplesCounted'
  BY <1>1, <1>3, BatchCountsStay, SamplesStay DEF vars
<1>14. (IInv /\ VerifierHalf /\ MetricsHalf)'
  BY <1>3, <1>6, <1>8, <1>10, <1>12, <1>13 DEF MetricsHalf
<1> QED
  BY <1>14, Halves, PTL

\* A handler that leaves takes the node's leases back and turns its record into
\* a snapshot; the node's credit is the same before and after.
LEMMA LeavePreserves ==
    ASSUME BInv, NEW n \in Nodes, Leave(n), IInv'
    PROVE  BInv'
<1>1. /\ handlers[n] > 0
      /\ handlers' = [handlers EXCEPT ![n] = @ - 1]
      /\ ReleaseNode(n) /\ batches' = batches
      /\ leases_reclaimed' = leases_reclaimed + Cardinality(HeldBy(n))
      /\ M!NodeLeft(n)
      /\ UNCHANGED <<batches_created, batches_completed, unit_retries, samples, overlapped>>
      /\ UNCHANGED <<prompts, verifierVars>>
  BY DEF Leave, M!LeasesReturned, ReleaseNode, PutBack
<1>2. LeasingStep
  BY <1>1 DEF LeasingStep
<1>3. VerifierHalf' /\ AnswersKept
  BY <1>1, <1>2, LeasingKeepsVerifier
<1>4. /\ M!MetricsTypeOK
      /\ handlers \in [Nodes -> 0 .. MaxHandlers] /\ MaxHandlers \in Nat
      /\ overlapped \subseteq Nodes
      /\ leases_reclaimed \in Nat
  BY BookkeepingAssumption DEF BInv, BookTypeOK, M!MetricsTypeOK
<1>5. /\ nodes' \in [Nodes -> M!NodeMetrics \cup {None}]
      /\ departed' \in [Nodes -> M!NodeMetrics]
      /\ nodes'[n] = None
      /\ \A m \in Nodes \ {n} : nodes'[m] = nodes[m]
      /\ \A m \in Nodes : M!Credited(m)' = M!Credited(m) /\ M!Credited(m) \in Nat
  BY <1>1, <1>4, LeftFields
<1>6. leases_reclaimed' \in Nat
  <2>1. HeldBy(n) \in SUBSET UnitIds
    BY DEF HeldBy
  <2> QED
    BY <1>1, <1>4, <2>1, UnitSets
<1>7. M!MetricsTypeOK'
  BY <1>1, <1>4, <1>5, <1>6 DEF M!MetricsTypeOK
<1>8. /\ handlers' \in [Nodes -> 0 .. MaxHandlers]
      /\ handlers'[n] = handlers[n] - 1
      /\ \A m \in Nodes \ {n} : handlers'[m] = handlers[m]
  BY <1>1, <1>4
<1>9. RecordsFollowHandlers'
  <2> SUFFICES ASSUME NEW m \in Nodes \ overlapped
               PROVE  handlers'[m] <= 1 /\ (nodes'[m] = None <=> handlers'[m] = 0)
    BY <1>1 DEF RecordsFollowHandlers
  <2>1. handlers[m] <= 1 /\ (nodes[m] = None <=> handlers[m] = 0)
    BY DEF BInv, RecordsFollowHandlers
  <2>2. CASE m = n
    BY <1>1, <1>4, <1>5, <1>8, <2>1, <2>2
  <2>3. CASE m # n
    BY <1>5, <1>8, <2>1, <2>3
  <2> QED
    BY <2>2, <2>3
<1>10. NoInflation' /\ CreditExact'
  <2>1. \A m \in Nodes : M!Credited(m)' \in Int /\ M!Credited(m)' <= M!Credited(m)
    BY <1>5
  <2> QED
    BY <1>1, <1>3, <1>5, <2>1, CreditStays
<1>11. BatchesFinite' /\ CreatedCounted' /\ CompletedCounted' /\ SamplesCounted'
  BY <1>1, <1>3, BatchCountsStay, SamplesStay
<1>12. (IInv /\ VerifierHalf /\ MetricsHalf)'
  BY <1>1, <1>3, <1>4, <1>7, <1>8, <1>9, <1>10, <1>11 DEF MetricsHalf
<1> QED
  BY <1>12, Halves, PTL

\* A failure is counted when it is the unit's last, and credits nobody.
LEMMA FailurePreserves ==
    ASSUME BInv, NEW u \in Created, NEW n \in Nodes, ReportFailure(u, n), IInv'
    PROVE  BInv'
<1>1. /\ Fail(u)
      /\ UNCHANGED <<prompts, verifierVars>>
      /\ UNCHANGED <<handlers, overlapped, departed, batches_created, leases_reclaimed,
                     unit_retries, samples>>
  BY DEF ReportFailure
<1>2. LeasingStep
  BY <1>1 DEF LeasingStep
<1>3. VerifierHalf' /\ AnswersKept
  BY <1>1, <1>2, LeasingKeepsVerifier
<1>4. M!MetricsTypeOK /\ leases_reclaimed \in Nat
  BY DEF BInv, BookTypeOK, M!MetricsTypeOK
<1>5. CASE Outstanding(u) /\ OutOfAttempts(u)
  <2>1. M!UnitFailed(n) /\ CountFinished
    BY <1>5 DEF ReportFailure
  <2>2. units[u].batch_id \in BatchIds
    BY DEF BInv, IInv, TypeOK
  <2>3. batches' = MaybeFinishBatch(units[u].batch_id, units')
    BY <1>1, <1>5 DEF Fail
  <2>4. /\ nodes' \in [Nodes -> M!NodeMetrics \cup {None}]
        /\ \A m \in Nodes :
              /\ nodes'[m] = None <=> nodes[m] = None
              /\ nodes[m] # None => nodes'[m].units_completed = nodes[m].units_completed
    BY <1>4, <2>1, FailedFields
  <2>5. M!MetricsTypeOK'
    <3>1. batches_completed' \in Nat
      BY <2>1, <2>2, <2>3, FinishedIsCounted
    <3> QED
      BY <1>1, <1>4, <2>4, <3>1 DEF M!MetricsTypeOK
  <2>6. ASSUME NEW m \in Nodes
        PROVE  M!Credited(m)' = M!Credited(m) /\ M!Credited(m) \in Int
    <3>1. departed[m] \in M!NodeMetrics /\ nodes[m] \in M!NodeMetrics \cup {None}
      BY <1>4 DEF M!MetricsTypeOK
    <3>2. M!Credited(m) \in Int
      BY <3>1 DEF M!Credited, M!NodeMetrics
    <3>3. M!Credited(m)' = M!Credited(m)
      BY <1>1, <2>4 DEF M!Credited
    <3> QED
      BY <3>2, <3>3
  <2>7. \A m \in Nodes : M!Credited(m)' \in Int /\ M!Credited(m)' <= M!Credited(m)
    BY <2>6
  <2>8. NoInflation' /\ CreditExact'
    BY <1>1, <1>3, <2>6, <2>7, CreditStays
  <2>9. RecordsFollowHandlers'
    BY <1>1, <2>4 DEF BInv, RecordsFollowHandlers
  <2>10. BatchesFinite' /\ CreatedCounted' /\ CompletedCounted'
    BY <1>1, <2>1, <2>2, <2>3, BatchCountsFinish
  <2>11. SamplesCounted'
    BY <1>1, <1>3, SamplesStay
  <2>12. handlers' \in [Nodes -> 0 .. MaxHandlers] /\ overlapped' \subseteq Nodes
    BY <1>1 DEF BInv, BookTypeOK
  <2>13. (IInv /\ VerifierHalf /\ MetricsHalf)'
    BY <1>3, <2>5, <2>8, <2>9, <2>10, <2>11, <2>12 DEF MetricsHalf
  <2> QED
    BY <2>13, Halves, PTL
<1>6. CASE ~(Outstanding(u) /\ OutOfAttempts(u))
  <2>1. UNCHANGED <<nodes, batches_completed>>
    BY <1>6 DEF ReportFailure
  <2>2. batches' = batches
    BY <1>1, <1>6 DEF Fail, vars
  <2>3. MetricsHalf'
    BY <1>1, <1>2, <1>3, <1>4, <2>1, <2>2, LeasingKeepsMetrics
  <2>4. (IInv /\ VerifierHalf /\ MetricsHalf)'
    BY <1>3, <2>3
  <2> QED
    BY <2>4, Halves, PTL
<1> QED
  BY <1>5, <1>6

\* A first result is credited to the node that sent it, in the record the node
\* has; with two handlers it may have none.
LEMMA CreditRecorded ==
    ASSUME BInv, NEW u \in Created, NEW n \in Nodes, NEW t \in Texts, handlers[n] > 0,
           Complete(u, n, t), Outstanding(u), NEW k \in Nat, M!UnitCompleted(n, k),
           UNCHANGED <<departed, handlers, overlapped>>
    PROVE  RecordsFollowHandlers' /\ NoInflation' /\ CreditExact'
<1>1. /\ u \in UnitIds /\ units[u].state # "complete"
      /\ units'[u].state = "complete" /\ units'[u].node_id = n /\ units'[u].text = t
      /\ \A v \in UnitIds \ {u} : units'[v] = units[v]
  BY FirstResult DEF BInv
<1>2. M!MetricsTypeOK
  BY DEF BInv, BookTypeOK
<1>3. /\ \A m \in Nodes \ {n} : nodes'[m] = nodes[m]
      /\ nodes[n] = None => nodes'[n] = None
      /\ nodes[n] # None => /\ nodes'[n] # None
                            /\ nodes'[n].units_completed = nodes[n].units_completed + 1
  BY <1>2, CompletedFields
<1>4. handlers[n] \in Nat
  BY BookkeepingAssumption DEF BInv, BookTypeOK
<1>5. RecordsFollowHandlers'
  <2> SUFFICES ASSUME NEW m \in Nodes \ overlapped
               PROVE  handlers[m] <= 1 /\ (nodes'[m] = None <=> handlers[m] = 0)
    BY DEF RecordsFollowHandlers
  <2>1. handlers[m] <= 1 /\ (nodes[m] = None <=> handlers[m] = 0)
    BY DEF BInv, RecordsFollowHandlers
  <2> QED
    BY <1>3, <2>1
<1>6. ASSUME NEW m \in Nodes
      PROVE  /\ M!Credited(m) \in Nat /\ Cardinality(AnsweredBy(m)) \in Nat
             /\ m # n => /\ M!Credited(m)' = M!Credited(m)
                         /\ Cardinality(AnsweredBy(m))' = Cardinality(AnsweredBy(m))
             /\ m = n => /\ M!Credited(m)' = IF nodes[m] = None THEN M!Credited(m)
                                             ELSE M!Credited(m) + 1
                         /\ Cardinality(AnsweredBy(m))' = Cardinality(AnsweredBy(m)) + 1
  <2>1. departed[m] \in M!NodeMetrics /\ nodes[m] \in M!NodeMetrics \cup {None}
    BY <1>2 DEF M!MetricsTypeOK
  <2>2. /\ departed[m].units_completed \in Nat
        /\ nodes[m] # None => nodes[m].units_completed \in Nat
    BY <2>1 DEF M!NodeMetrics
  <2>3. M!Credited(m) \in Nat
    BY <2>2 DEF M!Credited
  <2>4. AnsweredBy(m) \in SUBSET UnitIds /\ u \in UnitIds \ AnsweredBy(m)
    BY <1>1 DEF AnsweredBy
  <2>5. Cardinality(AnsweredBy(m)) \in Nat
        /\ Cardinality(AnsweredBy(m) \cup {u}) = Cardinality(AnsweredBy(m)) + 1
    BY <2>4, UnitSets
  <2>6. CASE m # n
    <3>1. AnsweredBy(m)' = AnsweredBy(m)
      BY <1>1, <2>6 DEF AnsweredBy
    <3>2. M!Credited(m)' = M!Credited(m)
      BY <1>3, <2>6 DEF M!Credited
    <3> QED
      BY <2>3, <2>5, <2>6, <3>1, <3>2
  <2>7. CASE m = n
    <3>1. AnsweredBy(n)' = AnsweredBy(n) \cup {u}
      BY <1>1 DEF AnsweredBy
    <3>2. M!Credited(n)' = IF nodes[n] = None THEN M!Credited(n) ELSE M!Credited(n) + 1
      BY <1>3, <2>2, <2>7 DEF M!Credited
    <3> QED
      BY <2>3, <2>5, <2>7, <3>1, <3>2
  <2> QED
    BY <2>6, <2>7
<1>7. NoInflation'
  <2> SUFFICES ASSUME NEW m \in Nodes
               PROVE  M!Credited(m)' <= Cardinality(AnsweredBy(m))'
    BY DEF NoInflation
  <2>1. M!Credited(m) <= Cardinality(AnsweredBy(m))
    BY DEF BInv, NoInflation
  <2> QED
    BY <1>6, <2>1
<1>8. CreditExact'
  <2> SUFFICES ASSUME NEW m \in Nodes \ overlapped
               PROVE  M!Credited(m)' = Cardinality(AnsweredBy(m))'
    BY DEF CreditExact
  <2>1. M!Credited(m) = Cardinality(AnsweredBy(m))
    BY DEF BInv, CreditExact
  <2>2. m = n => nodes[m] # None
    BY <1>4 DEF BInv, RecordsFollowHandlers
  <2> QED
    BY <1>6, <2>1, <2>2
<1> QED
  BY <1>5, <1>7, <1>8

\* A result is judged and counted in the step that records it, or not at all.
LEMMA ReportPreserves ==
    ASSUME BInv, NEW u \in Created, NEW n \in Nodes, NEW t \in Texts, Report(u, n, t), IInv'
    PROVE  BInv'
<1>1. /\ handlers[n] > 0
      /\ n \in Honest => t \in Replies[prompts[u]]
      /\ Complete(u, n, t)
      /\ UNCHANGED <<prompts, handlers, overlapped>>
  BY DEF Report, Result
<1>2. CASE ~Outstanding(u)
  <2>1. UNCHANGED vars /\ UNCHANGED <<verifierVars, metricsVars>>
    BY <1>1, <1>2 DEF Complete, Report, Result
  <2>2. LeasingStep /\ batches' = batches
    BY <2>1 DEF LeasingStep, vars
  <2> QED
    BY <1>1, <2>1, <2>2, SilentPreserves
<1>3. CASE Outstanding(u)
  <2>1. /\ V!Judge(u, n, t, prompts[u])
        /\ M!UnitCompleted(n, Retries(u))
        /\ CountFinished
        /\ UNCHANGED <<departed, batches_created, leases_reclaimed>>
    BY <1>3 DEF Report, Result
  <2>2. u \in UnitIds /\ units[u].batch_id \in BatchIds /\ units[u] \in WorkUnit
    BY DEF BInv, IInv, TypeOK, Created
  <2>3. Retries(u) \in Nat
    <3>1. units[u].attempts \in Nat
      BY <2>2 DEF WorkUnit
    <3> QED
      BY <3>1 DEF Retries
  <2>4. batches' = MaybeFinishBatch(units[u].batch_id, units')
    BY <1>1, <1>3 DEF Complete
  <2>5. /\ V!VerifierTypeOK' /\ ResultsSigned' /\ CanariesAsked' /\ SeenIsRecorded'
        /\ RecordedIsSeen' /\ HonestBlamedOnlyForCopies' /\ VerdictsMatch'
    BY <1>1, <1>3, <2>1, VerdictsRecorded
  <2>6. /\ units[u].state # "complete" /\ units'[u].state = "complete"
        /\ \A v \in UnitIds \ {u} : units'[v] = units[v]
        /\ Created' = Created
    BY <1>1, <1>3, FirstResult DEF BInv
  <2>7. VerifierHalf'
    <3>1. /\ prompts' \in [UnitIds -> Prompts \cup {None}]
          /\ \A v \in Created' : prompts'[v] # None
      BY <1>1, <2>6 DEF BInv, BookTypeOK
    <3> QED
      BY <2>5, <3>1 DEF VerifierHalf
  <2>8. M!MetricsTypeOK
    BY DEF BInv, BookTypeOK
  <2>9. /\ nodes' \in [Nodes -> M!NodeMetrics \cup {None}]
        /\ samples' \in 0 .. LatencySamples
        /\ samples' = IF samples < LatencySamples THEN samples + 1 ELSE samples
        /\ unit_retries' \in Nat
    BY <2>1, <2>3, <2>8, CompletedFields
  <2>10. M!MetricsTypeOK'
    <3>1. batches_completed' \in Nat
      BY <2>1, <2>2, <2>4, FinishedIsCounted
    <3> QED
      BY <2>1, <2>8, <2>9, <3>1 DEF M!MetricsTypeOK
  <2>11. RecordsFollowHandlers' /\ NoInflation' /\ CreditExact'
    BY <1>1, <1>3, <2>1, <2>3, CreditRecorded
  <2>12. BatchesFinite' /\ CreatedCounted' /\ CompletedCounted'
    BY <2>1, <2>2, <2>4, BatchCountsFinish
  <2>13. SamplesCounted'
    BY <2>2, <2>6, <2>9, SamplesRecorded
  <2>14. handlers' \in [Nodes -> 0 .. MaxHandlers] /\ overlapped' \subseteq Nodes
    BY <1>1 DEF BInv, BookTypeOK
  <2>15. (IInv /\ VerifierHalf /\ MetricsHalf)'
    BY <2>7, <2>10, <2>11, <2>12, <2>13, <2>14 DEF MetricsHalf
  <2> QED
    BY <2>15, Halves, PTL
<1> QED
  BY <1>2, <1>3

\* select returns one of the canaries, if there are any.
LEMMA SelectedIsCanary ==
    ASSUME Canaries # <<>>, NEW i \in Nat
    PROVE  /\ \E x \in DOMAIN Canaries : V!Selected(i) = Canaries[x]
           /\ V!Selected(i) # None
           /\ V!Selected(i).prompt \in Prompts
<1> DEFINE C == [prompt : Prompts, expected : Texts]
<1>1. Canaries \in Seq(C)
  BY BookkeepingAssumption
<1> HIDE DEF C
<1>2. Len(Canaries) \in Nat /\ Len(Canaries) # 0 /\ DOMAIN Canaries = 1 .. Len(Canaries)
  BY <1>1, EmptySeq, LenProperties
<1>3. (i % Len(Canaries)) + 1 \in 1 .. Len(Canaries)
  BY <1>2
<1>4. \E x \in DOMAIN Canaries : V!Selected(i) = Canaries[x]
  BY <1>2, <1>3 DEF V!Selected
<1>5. V!Selected(i) \in C
  BY <1>1, <1>4, ElementOfSeq, <1>2
<1> QED
  BY <1>4, <1>5, NothingAssumption DEF C

\* A new batch gives its units their prompts and registers its canaries.
LEMMA NewBatchPreserves ==
    ASSUME BInv, NEW b \in BatchIds, NEW c \in 0 .. MaxUnits, NEW n \in UnitIds,
           NEW k \in 0 .. MaxCanaries, NEW model \in Models \cup {None},
           NEW asked \in [1 .. (n + k) -> Models \cup {None}], NEW wants \in [1 .. n -> Prompts],
           Create(b, c, n, k, model, asked, wants), IInv'
    PROVE  BInv'
<1> DEFINE real == (c + 1) .. (c + n)
           extra == (c + n + 1) .. (c + n + k)
<1>1. /\ CreateBatch(b, c, n, k, model, asked)
      /\ k > 0 => Canaries # <<>>
      /\ V!Plants(c + n + 1, k)
      /\ batches_created' = batches_created + 1
      /\ UNCHANGED <<handlers, overlapped, nodes, departed, batches_completed,
                     leases_reclaimed, unit_retries, samples>>
  BY DEF Create
<1>2. /\ AnswersKept
      /\ Created = 1 .. c
      /\ Created' = Created \cup real \cup extra
      /\ real \cup extra \subseteq UnitIds \ Created
      /\ c \in Nat /\ n \in Nat /\ k \in Nat
  BY <1>1, CreatingRecordsNothing DEF BInv
<1>3. /\ prompts' = [u \in UnitIds |->
            CASE u \in real -> wants[u - c]
              [] u \in extra -> V!Selected(u - (c + n + 1)).prompt
              [] OTHER -> prompts[u]]
      /\ planted' = [u \in UnitIds |->
            IF u \in (c + n + 1) .. ((c + n + 1) + k - 1)
            THEN V!Selected(u - (c + n + 1)) ELSE planted[u]]
      /\ UNCHANGED <<trust, checks_run, checks_failed, replays_caught, seen>>
  BY <1>1 DEF Create, V!Plants
<1>4. (c + n + 1) .. ((c + n + 1) + k - 1) = extra
  BY <1>2
<1>5. ASSUME NEW u \in real
      PROVE  /\ u \in UnitIds /\ u \notin Created /\ u \notin extra
             /\ prompts'[u] \in Prompts /\ planted'[u] = planted[u]
  <2>1. u \in UnitIds /\ u \notin Created /\ u \notin extra /\ u - c \in 1 .. n
    BY <1>2
  <2>2. prompts'[u] = wants[u - c]
    BY <1>3, <1>5, <2>1
  <2>3. planted'[u] = planted[u]
    BY <1>3, <1>4, <2>1
  <2> QED
    BY <2>1, <2>2, <2>3
<1>6. ASSUME NEW u \in extra
      PROVE  /\ u \in UnitIds /\ u \notin Created
             /\ \E x \in DOMAIN Canaries : planted'[u] = Canaries[x]
             /\ prompts'[u] = planted'[u].prompt /\ prompts'[u] \in Prompts
  <2>1. u \in UnitIds /\ u \notin Created /\ u \notin real /\ u - (c + n + 1) \in Nat /\ k > 0
    BY <1>2
  <2>2. prompts'[u] = V!Selected(u - (c + n + 1)).prompt
    BY <1>3, <1>6, <2>1
  <2>3. planted'[u] = V!Selected(u - (c + n + 1))
    BY <1>3, <1>4, <1>6, <2>1
  <2>4. /\ \E x \in DOMAIN Canaries : V!Selected(u - (c + n + 1)) = Canaries[x]
        /\ V!Selected(u - (c + n + 1)).prompt \in Prompts
    BY <1>1, <2>1, SelectedIsCanary
  <2> QED
    BY <2>1, <2>2, <2>3, <2>4
<1>7. ASSUME NEW u \in UnitIds, u \notin real, u \notin extra
      PROVE  prompts'[u] = prompts[u] /\ planted'[u] = planted[u]
  <2>1. prompts'[u] = prompts[u]
    BY <1>3, <1>7
  <2>2. planted'[u] = planted[u]
    BY <1>3, <1>4, <1>7
  <2> QED
    BY <2>1, <2>2
<1>8. /\ prompts \in [UnitIds -> Prompts \cup {None}]
      /\ \A u \in Created : prompts[u] # None
      /\ planted \in [UnitIds -> {Canaries[i] : i \in DOMAIN Canaries} \cup {None}]
  BY DEF BInv, BookTypeOK, V!VerifierTypeOK
<1>9. \A u \in UnitIds : planted[u] # None => u \in Created
  BY DEF BInv, CanariesAsked
<1> HIDE DEF real, extra
<1>10. /\ prompts' \in [UnitIds -> Prompts \cup {None}]
       /\ \A u \in Created' : prompts'[u] # None
  <2>1. \A u \in UnitIds : prompts'[u] \in Prompts \cup {None}
    BY <1>5, <1>6, <1>7, <1>8
  <2>2. prompts' \in [UnitIds -> Prompts \cup {None}]
    BY <1>3, <2>1
  <2>3. \A u \in Created' : prompts'[u] # None
    <3> SUFFICES ASSUME NEW u \in Created' PROVE prompts'[u] # None
      OBVIOUS
    <3>1. CASE u \in real \cup extra
      BY <1>5, <1>6, <3>1, NothingAssumption
    <3>2. CASE u \notin real \cup extra
      <4>1. u \in Created /\ u \in UnitIds
        BY <1>2, <3>2 DEF Created
      <4> QED
        BY <1>7, <1>8, <3>2, <4>1
    <3> QED
      BY <3>1, <3>2
  <2> QED
    BY <2>2, <2>3
<1>11. planted' \in [UnitIds -> {Canaries[i] : i \in DOMAIN Canaries} \cup {None}]
  <2>1. \A u \in UnitIds : planted'[u] \in {Canaries[i] : i \in DOMAIN Canaries} \cup {None}
    BY <1>5, <1>6, <1>7, <1>8
  <2> QED
    BY <1>3, <2>1
<1>12. V!VerifierTypeOK'
  BY <1>3, <1>11 DEF BInv, BookTypeOK, V!VerifierTypeOK
<1>13. /\ ResultsSigned' /\ CanariesAsked' /\ SeenIsRecorded' /\ RecordedIsSeen'
       /\ HonestBlamedOnlyForCopies' /\ VerdictsMatch'
  <2>1. \A u \in Created : prompts'[u] = prompts[u] /\ planted'[u] = planted[u]
    <3> SUFFICES ASSUME NEW u \in Created
                 PROVE  prompts'[u] = prompts[u] /\ planted'[u] = planted[u]
      OBVIOUS
    <3>1. u \in UnitIds /\ u \notin real /\ u \notin extra
      BY <1>2 DEF Created
    <3> QED
      BY <1>7, <3>1
  <2>2. \A u \in UnitIds \ Created : planted'[u] # None =>
            u \in Created' /\ prompts'[u] = planted'[u].prompt
    <3> SUFFICES ASSUME NEW u \in UnitIds \ Created, planted'[u] # None
                 PROVE  u \in Created' /\ prompts'[u] = planted'[u].prompt
      OBVIOUS
    <3>1. u \in extra
      BY <1>5, <1>7, <1>9
    <3> QED
      BY <1>2, <1>6, <3>1
  <2>3. Created \subseteq Created'
    BY <1>2
  <2>4. UNCHANGED <<trust, checks_run, checks_failed, seen>>
    BY <1>3
  <2> QED
    BY <1>2, <2>1, <2>2, <2>3, <2>4, VerdictsStay
<1>14. VerifierHalf'
  BY <1>10, <1>12, <1>13 DEF VerifierHalf
<1>15. BatchesFinite' /\ CreatedCounted' /\ CompletedCounted'
  <2> DEFINE B == [state |-> "in_progress", unit_ids |-> real, canary_unit_ids |-> extra]
  <2>1. batches[b].state = "absent" /\ batches' = [batches EXCEPT ![b] = B]
    BY <1>1 DEF CreateBatch, real, extra
  <2>2. B.state = "in_progress"
    OBVIOUS
  <2>3. batches \in [BatchIds -> Batch]
    BY DEF BInv, IInv, TypeOK
  <2> HIDE DEF B
  <2>4. batches'[b].state = "in_progress" /\ \A a \in BatchIds \ {b} : batches'[a] = batches[a]
    BY <2>1, <2>2, <2>3
  <2> QED
    BY <1>1, <2>1, <2>4, BatchCountsCreate
<1>16. SamplesCounted' /\ RecordsFollowHandlers' /\ NoInflation' /\ CreditExact'
  BY <1>1, <1>2, SamplesStay, RecordsStay
<1>17. M!MetricsTypeOK'
  <2>1. batches_created' \in Nat
    BY <1>1 DEF BInv, BookTypeOK, M!MetricsTypeOK
  <2> QED
    BY <1>1, <2>1 DEF BInv, BookTypeOK, M!MetricsTypeOK
<1>18. handlers' \in [Nodes -> 0 .. MaxHandlers] /\ overlapped' \subseteq Nodes
  BY <1>1 DEF BInv, BookTypeOK
<1>19. (IInv /\ VerifierHalf /\ MetricsHalf)'
  BY <1>14, <1>15, <1>16, <1>17, <1>18 DEF MetricsHalf
<1> QED
  BY <1>19, Halves, PTL

\* Every step keeps the invariant.
LEMMA BookNextPreserves == BInv /\ [BookNext]_bookVars => BInv'
<1> SUFFICES ASSUME BInv, [BookNext]_bookVars PROVE BInv'
  OBVIOUS
<1>0. IInv'
  BY StepOfTheStore, NextPreserves DEF BInv
<1>1. CASE Asks
  <2>1. PICK b \in BatchIds, c \in 0 .. MaxUnits, n \in UnitIds, k \in 0 .. MaxCanaries,
             model \in Models \cup {None} :
               \E asked \in [1 .. (n + k) -> Models \cup {None}], wants \in [1 .. n -> Prompts] :
                   Create(b, c, n, k, model, asked, wants)
    BY <1>1 DEF Asks
  <2>2. PICK asked \in [1 .. (n + k) -> Models \cup {None}], wants \in [1 .. n -> Prompts] :
               Create(b, c, n, k, model, asked, wants)
    BY <2>1
  <2> QED
    BY <1>0, <2>2, NewBatchPreserves
<1>2. ASSUME NEW n \in Nodes, Join(n) PROVE BInv'
  BY <1>0, <1>2, JoinPreserves
<1>3. ASSUME NEW n \in Nodes, Leave(n) PROVE BInv'
  BY <1>0, <1>3, LeavePreserves
<1>4. ASSUME NEW n \in Nodes, NEW count \in UnitIds, NEW m \in Models \cup {None},
             Take(n, count, m)
      PROVE  BInv'
  <2>1. LeasingStep /\ batches' = batches
    BY <1>4 DEF Take, LeasingStep, Lease
  <2> QED
    BY <1>0, <1>4, <2>1, SilentPreserves DEF Take
<1>5. ASSUME NEW u \in Created, NEW n \in Nodes, NEW t \in Texts, Report(u, n, t)
      PROVE  BInv'
  BY <1>0, <1>5, ReportPreserves
<1>6. ASSUME NEW u \in Created, NEW n \in Nodes, ReportFailure(u, n)
      PROVE  BInv'
  BY <1>0, <1>6, FailurePreserves
<1>7. CASE Expire
  BY <1>0, <1>7, SweepPreserves
<1>8. ASSUME NEW b \in BatchIds, Cancel(b) PROVE BInv'
  <2>1. /\ LeasingStep
        /\ batches[b].state = "in_progress"
        /\ batches' = [batches EXCEPT ![b].state = "cancelled"]
    BY <1>8 DEF Cancel, LeasingStep, CancelBatch
  <2>2. batches \in [BatchIds -> Batch] /\ batches[b] \in Batch
    BY DEF BInv, IInv, TypeOK
  <2>3. batches'[b].state = "cancelled" /\ \A a \in BatchIds \ {b} : batches'[a] = batches[a]
    BY <2>1, <2>2 DEF Batch
  <2>4. \A a \in BatchIds :
            /\ batches'[a].state = "absent" <=> batches[a].state = "absent"
            /\ batches'[a].state = "completed" <=> batches[a].state = "completed"
    BY <2>1, <2>3
  <2> QED
    BY <1>0, <1>8, <2>1, <2>4, SilentPreserves DEF Cancel
<1>9. CASE Clock
  <2>1. LeasingStep /\ batches' = batches
    BY <1>9 DEF Clock, LeasingStep, Tick
  <2> QED
    BY <1>0, <1>9, <2>1, SilentPreserves DEF Clock
<1>10. CASE UNCHANGED bookVars
  <2>1. /\ LeasingStep /\ batches' = batches
        /\ UNCHANGED <<prompts, handlers, overlapped, verifierVars, metricsVars>>
    BY <1>10 DEF bookVars, vars, LeasingStep
  <2> QED
    BY <1>0, <2>1, SilentPreserves
<1> QED
  BY <1>1, <1>2, <1>3, <1>4, <1>5, <1>6, <1>7, <1>8, <1>9, <1>10 DEF BookNext

\* BInv holds in every reachable state of the store with its bookkeeping.
THEOREM BookInvariance == BookSpec => []BInv
<1> QED
  BY BookInitEstablishes, BookNextPreserves, PTL DEF BookSpec

\* The attributes of the verifier and of the metrics keep their shape, and every
\* created unit has a prompt.
THEOREM BookTypeCorrect == BookSpec => []BookTypeOK
<1>1. BInv => BookTypeOK
  BY DEF BInv
<1> QED
  BY <1>1, BookInvariance, PTL

\* Verifier.check judges each recorded canary once, for the node whose answer
\* was kept: the counts in trust, checks_run and checks_failed are those of the
\* recorded results, for any canaries and any measure of agreement.
THEOREM VerdictsAreRight == BookSpec => []VerdictsMatch
<1>1. BInv => VerdictsMatch
  BY DEF BInv
<1> QED
  BY <1>1, BookInvariance, PTL

\* note_replay leaves no copy unnoticed: of two nodes whose one long answer is
\* recorded for two prompts, one is suspect.
THEOREM CopiesAreNoticed == BookSpec => []CopiesNoticed
<1>1. BInv => CopiesNoticed
  <2> SUFFICES ASSUME BInv, NEW u \in UnitIds, NEW v \in UnitIds,
                      units[u].state = "complete", units[v].state = "complete",
                      units[u].text = units[v].text, units[u].text \notin Short,
                      prompts[u] # prompts[v]
               PROVE  V!IsSuspect(units[u].node_id) \/ V!IsSuspect(units[v].node_id)
    BY DEF CopiesNoticed
  <2>1. /\ seen[units[u].text] # prompts[u] => V!IsSuspect(units[u].node_id)
        /\ seen[units[u].text] # prompts[v] => V!IsSuspect(units[v].node_id)
    BY DEF BInv, RecordedIsSeen
  <2> QED
    BY <2>1
<1> QED
  BY <1>1, BookInvariance, PTL

\* A node that answers as the model does fails no check and is suspect only when
\* some node has put one of its long answers under another prompt.
THEOREM HonestNodesAreSafe == BookSpec => []HonestBlamedOnlyForCopies
<1>1. BInv => HonestBlamedOnlyForCopies
  BY DEF BInv
<1> QED
  BY <1>1, BookInvariance, PTL

\* No order of reports, reconnections and departures credits a node with more
\* units than the store has recorded from it.
THEOREM CreditIsEarned == BookSpec => []NoInflation
<1>1. BInv => NoInflation
  BY DEF BInv
<1> QED
  BY <1>1, BookInvariance, PTL

\* A node that never had two handlers at once is credited with all of them.
THEOREM CreditIsComplete == BookSpec => []CreditExact
<1>1. BInv => CreditExact
  BY DEF BInv
<1> QED
  BY <1>1, BookInvariance, PTL

\* batches_created, batches_completed and the number of latency samples are
\* those of the store, whatever happened to the nodes' records.
THEOREM CountsAreRight == BookSpec => []CountsMatch
<1>1. BInv => CountsMatch
  BY DEF BInv
<1> QED
  BY <1>1, BookInvariance, PTL

\* The calls that create_batch, complete, fail, release_node and expire_leases
\* make to the verifier and the metrics never change what the store does, for
\* any nodes, prompts, canaries and answers: every behaviour of the store with
\* its bookkeeping is a behaviour of the store.
THEOREM BooksOnlyWatch == BookSpec => Spec
<1>1. BookInit => Init
  BY DEF BookInit
<1> QED
  BY <1>1, StepOfTheStore, PTL DEF BookSpec, Spec

\* What is judged and credited is final: the store with its bookkeeping never
\* touches a unit it has settled, so no verdict is about an answer that changes.
THEOREM JudgedResultsAreFinal == BookSpec => ResultsAreFinal
BY BooksOnlyWatch, FinalResults, PTL
-----------------------------------------------------------------------------
\* One mark for each unit that each member of S contributes to the sum of f.
Tallies(f, S) == {p \in S \X Nat : 1 <= p[2] /\ p[2] <= f[p[1]]}

\* The marks of one more member.
LEMMA TalliesAdd ==
    ASSUME NEW S, NEW x, x \notin S, NEW f, f[x] \in Nat, IsFiniteSet(Tallies(f, S))
    PROVE  /\ IsFiniteSet(Tallies(f, S \cup {x}))
           /\ Cardinality(Tallies(f, S \cup {x})) = Cardinality(Tallies(f, S)) + f[x]
<1> DEFINE k == f[x]
           new == {x} \X (1 .. k)
<1>1. IsFiniteSet(1 .. k) /\ Cardinality(1 .. k) = k
  BY FS_Interval
<1>2. IsFiniteSet({x}) /\ Cardinality({x}) = 1
  BY FS_Singleton
<1>3. IsFiniteSet(new) /\ Cardinality(new) = 1 * k
  <2> DEFINE one == {x}
             marks == 1 .. k
  <2>1. /\ IsFiniteSet(one) /\ Cardinality(one) = 1
        /\ IsFiniteSet(marks) /\ Cardinality(marks) = k
        /\ new = one \X marks
    BY <1>1, <1>2
  <2> HIDE DEF k, one, marks, new
  <2>2. /\ IsFiniteSet(one \X marks)
        /\ Cardinality(one \X marks) = Cardinality(one) * Cardinality(marks)
    BY <2>1, FS_Product
  <2> QED
    BY <2>1, <2>2
<1>4. Tallies(f, S \cup {x}) = Tallies(f, S) \cup new
  BY DEF Tallies
<1>5. Tallies(f, S) \cap new = {}
  BY DEF Tallies
<1>6. Cardinality(Tallies(f, S)) \in Nat
  BY FS_CardinalityType
<1> HIDE DEF new
<1>7. /\ IsFiniteSet(Tallies(f, S) \cup new)
      /\ Cardinality(Tallies(f, S) \cup new) =
            Cardinality(Tallies(f, S)) + Cardinality(new) - Cardinality(Tallies(f, S) \cap new)
  BY <1>3, FS_Union
<1>8. Cardinality(Tallies(f, S) \cap new) = 0
  BY <1>5, FS_EmptySet
<1> HIDE DEF k
<1>9. k \in Nat /\ 1 * k = k
  BY DEF k
<1>10. Cardinality(Tallies(f, S) \cup new) = Cardinality(Tallies(f, S)) + k
  BY <1>3, <1>6, <1>7, <1>8, <1>9
<1> QED
  BY <1>4, <1>7, <1>10 DEF k

\* A finite set of natural numbers adds up to a finite number of marks.
LEMMA TalliesFinite ==
    ASSUME NEW S, IsFiniteSet(S), NEW f, \A x \in S : f[x] \in Nat
    PROVE  IsFiniteSet(Tallies(f, S))
<1> DEFINE own == [x \in S |-> {x} \X (1 .. f[x])]
           all == {own[x] : x \in S}
<1>1. own \in Surjection(S, all)
  BY DEF Surjection
<1>2. IsFiniteSet(all)
  BY <1>1, FS_Surjection
<1>3. ASSUME NEW T \in all
      PROVE  IsFiniteSet(T)
  <2>1. PICK x \in S : T = {x} \X (1 .. f[x])
    OBVIOUS
  <2>2. IsFiniteSet({x}) /\ IsFiniteSet(1 .. f[x])
    <3>1. f[x] \in Int /\ 1 \in Int
      OBVIOUS
    <3> QED
      BY <3>1, FS_Singleton, FS_Interval
  <2> QED
    BY <2>1, <2>2, FS_Product
<1>4. IsFiniteSet(UNION all)
  BY <1>2, <1>3, FS_UNION
<1>5. Tallies(f, S) \subseteq UNION all
  <2> SUFFICES ASSUME NEW p \in Tallies(f, S) PROVE p \in UNION all
    OBVIOUS
  <2>1. p[1] \in S /\ p = <<p[1], p[2]>> /\ p[2] \in 1 .. f[p[1]]
    BY DEF Tallies
  <2>2. p \in own[p[1]] /\ own[p[1]] \in all
    BY <2>1
  <2> QED
    BY <2>2
<1> QED
  BY <1>4, <1>5, FS_Subset

\* g is defined as the sums of f over the subsets of S are: by taking one member
\* out at a time.
SumsUp(f, S, g) ==
    g = [s \in SUBSET S |->
            IF s = {} THEN 0 ELSE LET x == CHOOSE x \in s : TRUE IN f[x] + g[s \ {x}]]

\* A sum of natural numbers is the number of its marks: both add up as SumsUp
\* says, and there is no smallest set for which they differ.
LEMMA SumIsTallies ==
    ASSUME NEW S, IsFiniteSet(S), NEW f, \A x \in S : f[x] \in Nat
    PROVE  SumFunctionOnSet(f, S) = Cardinality(Tallies(f, S))
<1> DEFINE tally == [s \in SUBSET S |-> Cardinality(Tallies(f, s))]
           iter == CHOOSE g : SumsUp(f, S, g)
           First(s) == CHOOSE x \in s : TRUE
<1>0. SumFunctionOnSet(f, S) = iter[S]
  BY DEF SumFunctionOnSet, FoldFunctionOnSet, MapThenFoldSet, SumsUp
<1>1. \A s \in SUBSET S : s # {} => First(s) \in s
  OBVIOUS
<1>2. ASSUME NEW s \in SUBSET S, s # {}
      PROVE  Cardinality(Tallies(f, s)) = f[First(s)] + Cardinality(Tallies(f, s \ {First(s)}))
  <2> DEFINE x == First(s)
             r == s \ {x}
  <2>1. x \in S /\ x \notin r /\ f[x] \in Nat /\ s = r \cup {x} /\ r \in SUBSET S
    BY <1>1, <1>2
  <2> HIDE DEF r, x
  <2>2. IsFiniteSet(r)
    BY <2>1, FS_Subset
  <2>3. \A y \in r : f[y] \in Nat
    BY <2>1
  <2>4. IsFiniteSet(Tallies(f, r))
    BY <2>2, <2>3, TalliesFinite
  <2>5. Cardinality(Tallies(f, r)) \in Nat
    BY <2>4, FS_CardinalityType
  <2>6. Cardinality(Tallies(f, r \cup {x})) = Cardinality(Tallies(f, r)) + f[x]
    BY <2>1, <2>4, TalliesAdd
  <2>7. Cardinality(Tallies(f, s)) = f[x] + Cardinality(Tallies(f, r))
    BY <2>1, <2>5, <2>6
  <2> QED
    BY <2>7 DEF r, x
<1>3. Cardinality(Tallies(f, {})) = 0
  <2>1. Tallies(f, {}) = {}
    BY DEF Tallies
  <2> QED
    BY <2>1, FS_EmptySet
<1>4. SumsUp(f, S, tally)
  <2>1. \A s \in SUBSET S : s \ {First(s)} \in SUBSET S
    OBVIOUS
  <2>2. ASSUME NEW s \in SUBSET S
        PROVE  tally[s] = IF s = {} THEN 0 ELSE f[First(s)] + tally[s \ {First(s)}]
    BY <1>2, <1>3, <2>1
  <2>3. tally = [s \in SUBSET S |-> tally[s]]
    OBVIOUS
  <2> HIDE DEF tally
  <2> QED
    BY <2>2, <2>3 DEF SumsUp
<1>5. SumsUp(f, S, iter)
  <2> HIDE DEF tally
  <2> QED
    BY <1>4
<1> HIDE DEF iter, tally
<1>6. \A s \in SUBSET S :
         iter[s] = IF s = {} THEN 0 ELSE f[First(s)] + iter[s \ {First(s)}]
  BY <1>5 DEF SumsUp
<1>7. \A s \in SUBSET S :
         tally[s] = IF s = {} THEN 0 ELSE f[First(s)] + tally[s \ {First(s)}]
  BY <1>4 DEF SumsUp
<1> HIDE DEF First
<1> DEFINE wrong == {s \in SUBSET S : iter[s] # tally[s]}
<1>8. wrong = {}
  <2> SUFFICES ASSUME wrong # {} PROVE FALSE
    OBVIOUS
  <2>1. IsWellFoundedOn(StrictSubsetOrdering(S), SUBSET S)
    BY FS_StrictSubsetOrderingWellFounded, FS_FiniteSubsetsOfFinite
  <2>2. wrong \subseteq SUBSET S
    OBVIOUS
  <2>3. PICK s \in wrong : \A r \in wrong : ~(<<r, s>> \in StrictSubsetOrdering(S))
    <3> HIDE DEF wrong
    <3> QED
      BY <2>1, <2>2, WFMin
  <2>4. s # {}
    BY <1>6, <1>7
  <2> DEFINE r == s \ {First(s)}
  <2>5. r \in SUBSET S /\ r \subseteq s /\ r # s
    BY <1>1, <2>4
  <2>6. <<r, s>> \in StrictSubsetOrdering(S)
    BY <2>5 DEF StrictSubsetOrdering
  <2>7. iter[r] = tally[r]
    BY <2>3, <2>5, <2>6
  <2>8. iter[s] = f[First(s)] + iter[r] /\ tally[s] = f[First(s)] + tally[r]
    BY <1>6, <1>7, <2>4
  <2> QED
    BY <2>7, <2>8
<1>9. iter[S] = tally[S]
  BY <1>8
<1> QED
  BY <1>0, <1>9 DEF tally

\* A sum of natural numbers is one, and depends on the terms alone.
LEMMA SumsAgree ==
    ASSUME NEW S, IsFiniteSet(S), NEW f, NEW g, \A x \in S : f[x] \in Nat /\ g[x] = f[x]
    PROVE  /\ SumFunctionOnSet(f, S) \in Nat
           /\ SumFunctionOnSet(g, S) = SumFunctionOnSet(f, S)
<1>1. IsFiniteSet(Tallies(f, S)) /\ SumFunctionOnSet(f, S) = Cardinality(Tallies(f, S))
  BY TalliesFinite, SumIsTallies
<1>2. SumFunctionOnSet(g, S) = Cardinality(Tallies(g, S))
  BY SumIsTallies
<1>3. Tallies(g, S) = Tallies(f, S)
  BY DEF Tallies
<1> QED
  BY <1>1, <1>2, <1>3, FS_CardinalityType

\* One more term.
LEMMA SumAdds ==
    ASSUME NEW S, IsFiniteSet(S), NEW x, x \notin S, NEW f, \A y \in S \cup {x} : f[y] \in Nat
    PROVE  SumFunctionOnSet(f, S \cup {x}) = SumFunctionOnSet(f, S) + f[x]
<1>1. IsFiniteSet(S \cup {x})
  BY FS_AddElement
<1>2. IsFiniteSet(Tallies(f, S))
  BY TalliesFinite
<1>3. /\ SumFunctionOnSet(f, S) = Cardinality(Tallies(f, S))
      /\ SumFunctionOnSet(f, S \cup {x}) = Cardinality(Tallies(f, S \cup {x}))
  BY <1>1, SumIsTallies
<1>4. f[x] \in Nat
  OBVIOUS
<1>5. Cardinality(Tallies(f, S \cup {x})) = Cardinality(Tallies(f, S)) + f[x]
  BY <1>2, <1>4, TalliesAdd
<1> QED
  BY <1>3, <1>5

\* Fewer and smaller terms add up to no more.
LEMMA SumsGrow ==
    ASSUME NEW S, IsFiniteSet(S), NEW R \in SUBSET S, NEW f, NEW g,
           \A x \in S : f[x] \in Nat, \A x \in R : g[x] \in Nat /\ g[x] <= f[x]
    PROVE  SumFunctionOnSet(g, R) <= SumFunctionOnSet(f, S)
<1>1. IsFiniteSet(R)
  BY FS_Subset
<1>2. /\ SumFunctionOnSet(g, R) = Cardinality(Tallies(g, R))
      /\ SumFunctionOnSet(f, S) = Cardinality(Tallies(f, S))
  BY <1>1, SumIsTallies
<1>3. IsFiniteSet(Tallies(f, S))
  BY TalliesFinite
<1>4. Tallies(g, R) \subseteq Tallies(f, S)
  <2> SUFFICES ASSUME NEW p \in Tallies(g, R) PROVE p \in Tallies(f, S)
    OBVIOUS
  <2>1. p \in R \X Nat /\ 1 <= p[2] /\ p[2] <= g[p[1]]
    BY DEF Tallies
  <2>2. p \in S \X Nat /\ p[1] \in R /\ p[2] \in Nat
    BY <2>1
  <2>3. g[p[1]] \in Nat /\ f[p[1]] \in Nat /\ g[p[1]] <= f[p[1]]
    BY <2>2
  <2>4. p[2] <= f[p[1]]
    BY <2>1, <2>2, <2>3
  <2> QED
    BY <2>1, <2>2, <2>4 DEF Tallies
<1> QED
  BY <1>2, <1>3, <1>4, FS_Subset

\* If some of the terms are raised by one, the sum grows by their number.
LEMMA SumRaised ==
    ASSUME NEW S, IsFiniteSet(S), NEW G \in SUBSET S, NEW f, NEW g,
           \A x \in S : f[x] \in Nat,
           \A x \in G : g[x] = f[x] + 1,
           \A x \in S \ G : g[x] = f[x]
    PROVE  SumFunctionOnSet(g, S) = SumFunctionOnSet(f, S) + Cardinality(G)
<1> DEFINE mark == [x \in G |-> <<x, f[x] + 1>>]
           new == {mark[x] : x \in G}
<1>1. \A x \in S : f[x] \in Nat /\ g[x] \in Nat
  <2> SUFFICES ASSUME NEW x \in S PROVE f[x] \in Nat /\ g[x] \in Nat
    OBVIOUS
  <2>1. f[x] \in Nat
    OBVIOUS
  <2>2. CASE x \in G
    BY <2>1, <2>2
  <2>3. CASE x \notin G
    BY <2>1, <2>3
  <2> QED
    BY <2>2, <2>3
<1>2. /\ SumFunctionOnSet(f, S) = Cardinality(Tallies(f, S))
      /\ SumFunctionOnSet(g, S) = Cardinality(Tallies(g, S))
      /\ IsFiniteSet(Tallies(f, S))
  BY <1>1, SumIsTallies, TalliesFinite
<1>3. IsFiniteSet(G)
  BY FS_Subset
<1>4. mark \in Bijection(G, new)
  <2>1. mark \in [G -> new] /\ \A y \in new : \E x \in G : mark[x] = y
    OBVIOUS
  <2>2. \A x, y \in G : mark[x] = mark[y] => x = y
    OBVIOUS
  <2>3. DOMAIN mark = G
    OBVIOUS
  <2> HIDE DEF mark, new
  <2> QED
    BY <2>1, <2>2, <2>3 DEF Bijection, Injection, Surjection, IsInjective
<1>5. IsFiniteSet(new) /\ Cardinality(new) = Cardinality(G)
  <2> HIDE DEF mark, new
  <2> QED
    BY <1>3, <1>4, FS_Bijection DEF ExistsBijection
<1>6. Tallies(g, S) = Tallies(f, S) \cup new
  <2>1. ASSUME NEW p \in Tallies(g, S) PROVE p \in Tallies(f, S) \cup new
    <3> DEFINE x == p[1]
               i == p[2]
    <3>1. x \in S /\ i \in Nat /\ p = <<x, i>> /\ 1 <= i /\ i <= g[x]
      BY <2>1 DEF Tallies
    <3>2. f[x] \in Nat
      BY <3>1
    <3>3. CASE i <= f[x]
      BY <2>1, <3>1, <3>3 DEF Tallies
    <3>4. CASE ~(i <= f[x])
      <4>1. x \in G
        BY <3>1, <3>2, <3>4
      <4>2. g[x] = f[x] + 1
        BY <4>1
      <4>3. i = f[x] + 1
        <5> HIDE DEF x, i
        <5> QED
          BY <3>1, <3>2, <3>4, <4>2
      <4>4. p = mark[x]
        BY <3>1, <4>1, <4>3
      <4> QED
        BY <4>1, <4>4
    <3> QED
      BY <3>3, <3>4
  <2>2. ASSUME NEW p \in Tallies(f, S) PROVE p \in Tallies(g, S)
    <3>1. p \in S \X Nat /\ 1 <= p[2] /\ p[2] <= f[p[1]]
      BY <2>2 DEF Tallies
    <3>2. p[1] \in S /\ p[2] \in Nat /\ f[p[1]] \in Nat
      BY <3>1
    <3>3. g[p[1]] = f[p[1]] \/ g[p[1]] = f[p[1]] + 1
      BY <3>2
    <3>4. p[2] <= g[p[1]]
      BY <3>1, <3>2, <3>3
    <3> QED
      BY <3>1, <3>4 DEF Tallies
  <2>3. ASSUME NEW x \in G PROVE mark[x] \in Tallies(g, S)
    <3>1. x \in S /\ f[x] \in Nat /\ g[x] = f[x] + 1
      OBVIOUS
    <3>2. f[x] + 1 \in Nat /\ 1 <= f[x] + 1 /\ f[x] + 1 <= g[x]
      BY <3>1
    <3>3. <<x, f[x] + 1>> \in Tallies(g, S)
      BY <3>1, <3>2 DEF Tallies
    <3> QED
      BY <3>3
  <2> QED
    BY <2>1, <2>2, <2>3
<1>7. Tallies(f, S) \cap new = {}
  <2> SUFFICES ASSUME NEW p \in Tallies(f, S), p \in new PROVE FALSE
    OBVIOUS
  <2>1. PICK x \in G : p = <<x, f[x] + 1>>
    OBVIOUS
  <2>2. f[x] + 1 <= f[x] /\ f[x] \in Nat
    BY <2>1 DEF Tallies
  <2> QED
    BY <2>2
<1> HIDE DEF new
<1>8. /\ Cardinality(Tallies(f, S)) \in Nat /\ Cardinality(new) \in Nat
      /\ Cardinality(Tallies(f, S) \cap new) = 0
  BY <1>2, <1>5, <1>7, FS_CardinalityType, FS_EmptySet
<1>9. Cardinality(Tallies(f, S) \cup new) =
         Cardinality(Tallies(f, S)) + Cardinality(new) - Cardinality(Tallies(f, S) \cap new)
  BY <1>2, <1>5, FS_Union
<1> QED
  BY <1>2, <1>5, <1>6, <1>8, <1>9

\* A total is the sum over any finite set that holds the positive terms.
LEMMA TotalOver ==
    ASSUME NEW N, NEW f \in [N -> Nat], NEW R \in SUBSET N, IsFiniteSet(R),
           \A x \in N : f[x] > 0 => x \in R
    PROVE  /\ IsFiniteSet({x \in DOMAIN f : f[x] > 0})
           /\ Total(f) = SumFunctionOnSet(f, R)
<1> DEFINE P == {x \in DOMAIN f : f[x] > 0}
<1>1. P \subseteq R
  OBVIOUS
<1>2. IsFiniteSet(P)
  <2> HIDE DEF P
  <2> QED
    BY <1>1, FS_Subset
<1>3. \A x \in R : f[x] \in Nat
  OBVIOUS
<1>4. \A x \in P : f[x] \in Nat
  OBVIOUS
<1>5. Tallies(f, P) = Tallies(f, R)
  <2>1. Tallies(f, P) \subseteq Tallies(f, R)
    BY <1>1 DEF Tallies
  <2>2. ASSUME NEW p \in Tallies(f, R) PROVE p \in Tallies(f, P)
    <3>1. p \in R \X Nat /\ 1 <= p[2] /\ p[2] <= f[p[1]]
      BY <2>2 DEF Tallies
    <3>2. f[p[1]] > 0 /\ p[1] \in DOMAIN f
      BY <1>3, <3>1
    <3>3. p \in P \X Nat
      BY <3>1, <3>2
    <3> QED
      BY <3>1, <3>3 DEF Tallies
  <2> QED
    BY <2>1, <2>2
<1> HIDE DEF P
<1>6. /\ SumFunctionOnSet(f, P) = Cardinality(Tallies(f, P))
      /\ SumFunctionOnSet(f, R) = Cardinality(Tallies(f, R))
  BY <1>2, <1>3, <1>4, SumIsTallies
<1>7. Total(f) = SumFunctionOnSet(f, P)
  BY DEF Total, P
<1> QED
  BY <1>2, <1>5, <1>6, <1>7 DEF P

\* If one term grows, so does the total.
LEMMA TotalRaised ==
    ASSUME NEW N, NEW f \in [N -> Nat], NEW g \in [N -> Nat],
           IsFiniteSet({x \in DOMAIN f : f[x] > 0}),
           NEW n \in N, NEW k \in Nat, g[n] = f[n] + k, \A x \in N \ {n} : g[x] = f[x]
    PROVE  /\ IsFiniteSet({x \in DOMAIN g : g[x] > 0})
           /\ Total(f) \in Nat
           /\ Total(g) = Total(f) + k
<1> DEFINE P == {x \in DOMAIN f : f[x] > 0}
           R == P \ {n}
           W == R \cup {n}
<1>1. R \subseteq P /\ n \notin R /\ W \subseteq N
  OBVIOUS
<1>2. \A x \in N : (f[x] > 0 => x \in W) /\ (g[x] > 0 => x \in W)
  OBVIOUS
<1>3. \A x \in R : f[x] \in Nat /\ g[x] = f[x]
  OBVIOUS
<1> HIDE DEF R, P
<1>4. IsFiniteSet(R)
  BY <1>1, FS_Subset DEF P
<1>5. IsFiniteSet(W)
  BY <1>4, FS_AddElement
<1>6. \A x \in W : f[x] \in Nat /\ g[x] \in Nat
  BY <1>1
<1>7. /\ SumFunctionOnSet(f, W) = SumFunctionOnSet(f, R) + f[n]
      /\ SumFunctionOnSet(g, W) = SumFunctionOnSet(g, R) + g[n]
  BY <1>1, <1>4, <1>6, SumAdds
<1>8. SumFunctionOnSet(f, R) \in Nat /\ SumFunctionOnSet(g, R) = SumFunctionOnSet(f, R)
  BY <1>3, <1>4, SumsAgree
<1> HIDE DEF W
<1>9. /\ Total(f) = SumFunctionOnSet(f, W)
      /\ Total(g) = SumFunctionOnSet(g, W)
      /\ IsFiniteSet({x \in DOMAIN g : g[x] > 0})
  BY <1>1, <1>2, <1>5, TotalOver
<1>10. f[n] \in Nat
  OBVIOUS
<1> QED
  BY <1>7, <1>8, <1>9, <1>10

\* If no term grows, the total does not.
LEMMA TotalFalls ==
    ASSUME NEW N, NEW f \in [N -> Nat], NEW g \in [N -> Nat],
           IsFiniteSet({x \in DOMAIN f : f[x] > 0}), \A x \in N : g[x] <= f[x]
    PROVE  /\ IsFiniteSet({x \in DOMAIN g : g[x] > 0})
           /\ Total(f) \in Nat /\ Total(g) \in Nat
           /\ Total(g) <= Total(f)
<1> DEFINE P == {x \in DOMAIN f : f[x] > 0}
<1>1. P \subseteq N /\ \A x \in N : (f[x] > 0 => x \in P)
  OBVIOUS
<1>2. \A x \in N : g[x] > 0 => x \in P
  OBVIOUS
<1>3. \A x \in P : f[x] \in Nat /\ g[x] \in Nat /\ g[x] <= f[x]
  BY <1>1
<1>4. IsFiniteSet(P)
  OBVIOUS
<1> HIDE DEF P
<1>5. /\ Total(f) = SumFunctionOnSet(f, P)
      /\ Total(g) = SumFunctionOnSet(g, P)
      /\ IsFiniteSet({x \in DOMAIN g : g[x] > 0})
  BY <1>1, <1>2, <1>4, TotalOver
<1>6. SumFunctionOnSet(f, P) \in Nat /\ SumFunctionOnSet(g, P) \in Nat
  BY <1>3, <1>4, SumsAgree
<1>7. SumFunctionOnSet(g, P) <= SumFunctionOnSet(f, P)
  BY <1>3, <1>4, SumsGrow
<1> QED
  BY <1>5, <1>6, <1>7
-----------------------------------------------------------------------------
\* The four parts of TotalsMatch.  However many nodes there are, finitely many
\* have a dead-letter or a failed check to their name.
RetriesSummed == unit_retries = SumFunctionOnSet(RetriesOf, Answered)

BlameBounded ==
    /\ IsFiniteSet({n \in DOMAIN BlameOf : BlameOf[n] > 0})
    /\ Total(BlameOf) <= Cardinality(DeadLetters)

LeasesAccounted ==
    leases_reclaimed + Cardinality(Held) <= SumFunctionOnSet(AttemptsOf, Created)

FailuresSplit ==
    /\ IsFiniteSet({n \in DOMAIN FailuresOf : FailuresOf[n] > 0})
    /\ checks_failed + replays_caught = Total(FailuresOf)

\* With BInv they are inductive.
TInv == RetriesSummed /\ BlameBounded /\ LeasesAccounted /\ FailuresSplit

\* The terms are natural numbers.
TermsFit ==
    /\ RetriesOf \in [UnitIds -> Nat]
    /\ AttemptsOf \in [UnitIds -> Nat]
    /\ BlameOf \in [Nodes -> Nat]
    /\ FailuresOf \in [Nodes -> Nat]

\* BInv gives them their types.
LEMMA TermsAreNumbers == BInv => TermsFit
<1> SUFFICES ASSUME BInv PROVE TermsFit
  OBVIOUS
<1>1. \A u \in UnitIds : units[u].attempts \in Nat
  BY DEF BInv, IInv, TypeOK, WorkUnit
<1>2. \A u \in UnitIds : Retries(u) \in Nat
  BY <1>1 DEF Retries
<1>3. \A n \in Nodes : trust[n].failed \in Nat
  BY DEF BInv, BookTypeOK, V!VerifierTypeOK, V!NodeTrust
<1>4. \A n \in Nodes : M!Blamed(n) \in Nat
  <2> SUFFICES ASSUME NEW n \in Nodes PROVE M!Blamed(n) \in Nat
    OBVIOUS
  <2>1. departed[n] \in M!NodeMetrics /\ nodes[n] \in M!NodeMetrics \cup {None}
    BY DEF BInv, BookTypeOK, M!MetricsTypeOK
  <2>2. /\ departed[n].units_failed \in Nat
        /\ nodes[n] # None => nodes[n].units_failed \in Nat
    BY <2>1 DEF M!NodeMetrics
  <2> QED
    BY <2>2 DEF M!Blamed
<1> QED
  BY <1>1, <1>2, <1>3, <1>4 DEF TermsFit, RetriesOf, AttemptsOf, BlameOf, FailuresOf

\* At the start there is nothing to add up.
LEMMA TotalsStart == BookInit => TInv
<1> SUFFICES ASSUME BookInit PROVE TInv
  OBVIOUS
<1>0. TermsFit
  BY BookInitEstablishes, TermsAreNumbers
<1>1. \A u \in UnitIds : units[u].state = "absent"
  BY DEF BookInit, Init, NoUnit, NewUnit
<1>2. /\ trust = [n \in Nodes |-> [passed |-> 0, failed |-> 0]]
      /\ checks_failed = 0 /\ replays_caught = 0
      /\ nodes = [n \in Nodes |-> None]
      /\ departed = [n \in Nodes |-> [units_completed |-> 0, units_failed |-> 0]]
      /\ leases_reclaimed = 0 /\ unit_retries = 0
  BY DEF BookInit, V!VerifierInit, M!MetricsInit, M!NewRecord
<1>3. Answered = {} /\ Held = {} /\ DeadLetters = {} /\ Created = {}
  BY <1>1 DEF Answered, Held, DeadLetters, Created
<1>4. IsFiniteSet({}) /\ Cardinality({}) = 0
  BY FS_EmptySet
<1>5. ASSUME NEW f PROVE SumFunctionOnSet(f, {}) = 0
  <2>1. Tallies(f, {}) = {}
    BY DEF Tallies
  <2>2. SumFunctionOnSet(f, {}) = Cardinality(Tallies(f, {}))
    BY <1>4, SumIsTallies
  <2> QED
    BY <1>4, <2>1, <2>2
<1>6. /\ \A n \in Nodes : BlameOf[n] = 0 /\ FailuresOf[n] = 0
      /\ DOMAIN BlameOf = Nodes /\ DOMAIN FailuresOf = Nodes
  <2>1. \A n \in Nodes : M!Blamed(n) = 0 /\ trust[n].failed = 0
    BY <1>2 DEF M!Blamed
  <2> QED
    BY <2>1 DEF BlameOf, FailuresOf
<1>7. /\ {n \in DOMAIN BlameOf : BlameOf[n] > 0} = {}
      /\ {n \in DOMAIN FailuresOf : FailuresOf[n] > 0} = {}
  BY <1>6
<1>8. Total(BlameOf) = 0 /\ Total(FailuresOf) = 0
  BY <1>5, <1>7 DEF Total
<1>9. /\ SumFunctionOnSet(RetriesOf, Answered) = 0
      /\ SumFunctionOnSet(AttemptsOf, Created) = 0
      /\ Cardinality(Held) = 0 /\ Cardinality(DeadLetters) = 0
  BY <1>3, <1>4, <1>5
<1> QED
  BY <1>2, <1>4, <1>7, <1>8, <1>9
     DEF TInv, RetriesSummed, BlameBounded, LeasesAccounted, FailuresSplit

\* As long as nothing is recorded, there are no new retries.
LEMMA RetriesStay ==
    ASSUME BInv, RetriesSummed, AnswersKept, unit_retries' = unit_retries
    PROVE  RetriesSummed'
<1>1. Answered' = Answered
  BY DEF AnswersKept, Answered
<1>2. Answered \in SUBSET UnitIds /\ IsFiniteSet(Answered)
  <2>1. Answered \in SUBSET UnitIds
    BY DEF Answered
  <2> QED
    BY <2>1, UnitSets
<1>3. TermsFit
  BY TermsAreNumbers
<1>4. \A u \in Answered : RetriesOf[u] \in Nat /\ RetriesOf'[u] = RetriesOf[u]
  <2>1. \A u \in Answered : units'[u] = units[u]
    BY DEF AnswersKept, Answered
  <2> QED
    BY <1>2, <1>3, <2>1 DEF TermsFit, RetriesOf, Retries
<1>5. SumFunctionOnSet(RetriesOf', Answered) = SumFunctionOnSet(RetriesOf, Answered)
  BY <1>2, <1>4, SumsAgree
<1> QED
  BY <1>1, <1>5 DEF RetriesSummed

\* The retries of a unit are added when its result is recorded.
LEMMA RetriesRecorded ==
    ASSUME BInv, RetriesSummed, NEW u \in Created, NEW n \in Nodes, NEW t \in Texts,
           Complete(u, n, t), Outstanding(u), unit_retries' = unit_retries + Retries(u)
    PROVE  RetriesSummed'
<1>1. /\ u \in UnitIds /\ units[u].state # "complete" /\ units'[u].state = "complete"
      /\ \A v \in UnitIds \ {u} : units'[v] = units[v]
  BY FirstResult DEF BInv
<1>2. units'[u].attempts = units[u].attempts
  <2>1. units \in [UnitIds -> WorkUnit] /\ units[u] \in WorkUnit
    BY <1>1 DEF BInv, IInv, TypeOK
  <2>2. units' = [units EXCEPT ![u].state = "complete", ![u].text = t,
                               ![u].node_id = n, ![u].left = 0]
    BY DEF Complete
  <2> QED
    BY <1>1, <2>1, <2>2 DEF WorkUnit
<1>3. TermsFit
  BY TermsAreNumbers
<1>4. Answered \in SUBSET UnitIds /\ u \notin Answered /\ Answered' = Answered \cup {u}
  BY <1>1 DEF Answered
<1>5. IsFiniteSet(Answered) /\ IsFiniteSet(Answered \cup {u})
  <2>1. Answered \cup {u} \in SUBSET UnitIds
    BY <1>1, <1>4
  <2> QED
    BY <1>4, <2>1, UnitSets
<1>6. \A v \in Answered \cup {u} : RetriesOf[v] \in Nat /\ RetriesOf'[v] = RetriesOf[v]
  <2>1. \A v \in UnitIds : units'[v].attempts = units[v].attempts
    BY <1>1, <1>2
  <2> QED
    BY <1>1, <1>3, <1>4, <2>1 DEF TermsFit, RetriesOf, Retries
<1>7. SumFunctionOnSet(RetriesOf', Answered \cup {u})
         = SumFunctionOnSet(RetriesOf, Answered \cup {u})
  BY <1>5, <1>6, SumsAgree
<1>8. SumFunctionOnSet(RetriesOf, Answered \cup {u})
         = SumFunctionOnSet(RetriesOf, Answered) + RetriesOf[u]
  BY <1>4, <1>5, <1>6, SumAdds
<1>9. RetriesOf[u] = Retries(u)
  BY <1>1 DEF RetriesOf
<1> QED
  BY <1>4, <1>7, <1>8, <1>9 DEF RetriesSummed

\* A dead-letter stays one.
LEMMA DeadStay ==
    ASSUME BInv, [Next]_vars
    PROVE  /\ DeadLetters \in SUBSET UnitIds
           /\ DeadLetters' \in SUBSET UnitIds
           /\ DeadLetters \subseteq DeadLetters'
           /\ Cardinality(DeadLetters) \in Nat
           /\ Cardinality(DeadLetters') \in Nat
           /\ Cardinality(DeadLetters) <= Cardinality(DeadLetters')
<1>1. DeadLetters \in SUBSET UnitIds /\ DeadLetters' \in SUBSET UnitIds
  BY DEF DeadLetters
<1>2. ASSUME NEW u \in DeadLetters PROVE u \in DeadLetters'
  <2>1. u \in UnitIds /\ units[u].state = "failed" /\ units[u].error = "reported"
    BY DEF DeadLetters
  <2>2. u \in Created /\ ~Outstanding(u)
    BY <2>1 DEF Created, Outstanding
  <2>3. units'[u] = units[u]
    BY <2>1, <2>2, StepsKeepUnits DEF BInv, UnitStep
  <2> QED
    BY <2>1, <2>3 DEF DeadLetters
<1>3. DeadLetters \subseteq DeadLetters'
  BY <1>2
<1>4. IsFiniteSet(DeadLetters')
  BY <1>1, UnitSets
<1> QED
  BY <1>1, <1>3, <1>4, FS_Subset, FS_CardinalityType

\* No step blames a node for what is no dead-letter: whoever is blamed no more
\* than before,
LEMMA BlameStays ==
    ASSUME BInv, BInv', BlameBounded, [Next]_vars,
           \A n \in Nodes : M!Blamed(n)' <= M!Blamed(n)
    PROVE  BlameBounded'
<1> DEFINE f == BlameOf
           g == BlameOf'
<1>1. TermsFit /\ TermsFit'
  BY TermsAreNumbers, PTL
<1>2. f \in [Nodes -> Nat] /\ g \in [Nodes -> Nat]
  BY <1>1 DEF TermsFit
<1>3. \A n \in Nodes : g[n] <= f[n]
  BY DEF BlameOf
<1>4. IsFiniteSet({n \in DOMAIN f : f[n] > 0}) /\ Total(f) <= Cardinality(DeadLetters)
  BY DEF BlameBounded
<1>5. /\ Cardinality(DeadLetters) \in Nat /\ Cardinality(DeadLetters') \in Nat
      /\ Cardinality(DeadLetters) <= Cardinality(DeadLetters')
  BY DeadStay
<1>6. BlameBounded' <=> /\ IsFiniteSet({n \in DOMAIN g : g[n] > 0})
                        /\ Total(g) <= Cardinality(DeadLetters')
  BY DEF BlameBounded
<1> HIDE DEF f, g
<1>7. /\ IsFiniteSet({n \in DOMAIN g : g[n] > 0})
      /\ Total(f) \in Nat /\ Total(g) \in Nat /\ Total(g) <= Total(f)
  BY <1>2, <1>3, <1>4, TotalFalls
<1>8. Total(g) <= Cardinality(DeadLetters')
  BY <1>4, <1>5, <1>7
<1> QED
  BY <1>6, <1>7, <1>8

\* or blamed for one more unit, which becomes a dead-letter in that step.
LEMMA BlameRecorded ==
    ASSUME BInv, BInv', BlameBounded, [Next]_vars,
           NEW u \in UnitIds, u \notin DeadLetters, u \in DeadLetters',
           NEW n \in Nodes, M!Blamed(n)' = M!Blamed(n) + 1,
           \A m \in Nodes \ {n} : M!Blamed(m)' = M!Blamed(m)
    PROVE  BlameBounded'
<1> DEFINE f == BlameOf
           g == BlameOf'
<1>1. TermsFit /\ TermsFit'
  BY TermsAreNumbers, PTL
<1>2. f \in [Nodes -> Nat] /\ g \in [Nodes -> Nat]
  BY <1>1 DEF TermsFit
<1>3. g[n] = f[n] + 1 /\ \A m \in Nodes \ {n} : g[m] = f[m]
  BY DEF BlameOf
<1>4. IsFiniteSet({m \in DOMAIN f : f[m] > 0}) /\ Total(f) <= Cardinality(DeadLetters)
  BY DEF BlameBounded
<1>5. BlameBounded' <=> /\ IsFiniteSet({m \in DOMAIN g : g[m] > 0})
                        /\ Total(g) <= Cardinality(DeadLetters')
  BY DEF BlameBounded
<1>6. Cardinality(DeadLetters) + 1 <= Cardinality(DeadLetters')
  <2>1. /\ DeadLetters \in SUBSET UnitIds /\ DeadLetters' \in SUBSET UnitIds
        /\ DeadLetters \subseteq DeadLetters'
    BY DeadStay
  <2>2. DeadLetters \cup {u} \subseteq DeadLetters' /\ IsFiniteSet(DeadLetters')
    BY <2>1, UnitSets
  <2>3. Cardinality(DeadLetters \cup {u}) = Cardinality(DeadLetters) + 1
    BY <2>1, UnitSets
  <2> QED
    BY <2>2, <2>3, FS_Subset
<1>7. Cardinality(DeadLetters) \in Nat /\ Cardinality(DeadLetters') \in Nat
  BY DeadStay
<1> HIDE DEF f, g
<1>8. /\ IsFiniteSet({m \in DOMAIN g : g[m] > 0})
      /\ Total(f) \in Nat /\ Total(g) = Total(f) + 1
  BY <1>2, <1>3, <1>4, TotalRaised
<1>9. Total(g) <= Cardinality(DeadLetters')
  BY <1>4, <1>6, <1>7, <1>8
<1> QED
  BY <1>5, <1>8, <1>9

\* What a step of the metrics makes of a node's blame: node_joined may forget
\* some, node_left and unit_completed keep it, and unit_failed adds one, if the
\* node has a record.
LEMMA JoinedBlame ==
    ASSUME BInv, NEW n \in Nodes, M!NodeJoined(n)
    PROVE  \A m \in Nodes : M!Blamed(m)' <= M!Blamed(m)
<1>1. /\ nodes' = [nodes EXCEPT ![n] = M!NewRecord] /\ departed' = departed
      /\ nodes \in [Nodes -> M!NodeMetrics \cup {None}]
      /\ departed \in [Nodes -> M!NodeMetrics]
  BY DEF M!NodeJoined, BInv, BookTypeOK, M!MetricsTypeOK
<1>2. M!NewRecord # None /\ M!NewRecord.units_failed = 0
  <2>1. M!NewRecord \in [units_completed : Nat, units_failed : Nat]
    BY DEF M!NewRecord
  <2> QED
    BY <2>1, NothingAssumption DEF M!NewRecord
<1> SUFFICES ASSUME NEW m \in Nodes PROVE M!Blamed(m)' <= M!Blamed(m)
  OBVIOUS
<1>3. /\ departed[m].units_failed \in Nat
      /\ nodes[m] # None => nodes[m].units_failed \in Nat
  BY <1>1 DEF M!NodeMetrics
<1>4. CASE m = n
  <2>1. nodes'[m] = M!NewRecord
    BY <1>1, <1>4
  <2>2. M!Blamed(m)' = departed[m].units_failed + 0
    BY <1>1, <1>2, <2>1 DEF M!Blamed
  <2> QED
    BY <1>3, <2>2 DEF M!Blamed
<1>5. CASE m # n
  <2>1. M!Blamed(m)' = M!Blamed(m)
    BY <1>1, <1>5 DEF M!Blamed
  <2> QED
    BY <1>3, <2>1 DEF M!Blamed
<1> QED
  BY <1>4, <1>5

\* node_left.
LEMMA LeftBlame ==
    ASSUME BInv, NEW n \in Nodes, M!NodeLeft(n)
    PROVE  \A m \in Nodes : M!Blamed(m)' <= M!Blamed(m)
<1>1. /\ nodes' = [nodes EXCEPT ![n] = None]
      /\ departed' = IF nodes[n] = None THEN departed
                     ELSE [departed EXCEPT
                             ![n].units_completed = @ + nodes[n].units_completed,
                             ![n].units_failed = @ + nodes[n].units_failed]
  BY DEF M!NodeLeft
<1>2. /\ nodes \in [Nodes -> M!NodeMetrics \cup {None}]
      /\ departed \in [Nodes -> M!NodeMetrics]
  BY DEF BInv, BookTypeOK, M!MetricsTypeOK
<1>3. nodes'[n] = None /\ \A m \in Nodes \ {n} : nodes'[m] = nodes[m]
  BY <1>1, <1>2
<1>4. \A m \in Nodes : departed[m].units_failed \in Nat
                       /\ (nodes[m] # None => nodes[m].units_failed \in Nat)
  BY <1>2 DEF M!NodeMetrics
<1>5. \A m \in Nodes : M!Blamed(m) \in Nat
  BY <1>4 DEF M!Blamed
<1>6. \A m \in Nodes : M!Blamed(m)' = M!Blamed(m)
  <2>1. CASE nodes[n] = None
    BY <1>1, <1>3, <2>1 DEF M!Blamed
  <2>2. CASE nodes[n] # None
    <3> DEFINE x == departed[n].units_completed + nodes[n].units_completed
               y == departed[n].units_failed + nodes[n].units_failed
               q == [departed[n] EXCEPT !.units_completed = x, !.units_failed = y]
    <3>1. departed[n] \in [units_completed : Nat, units_failed : Nat]
      BY <1>2 DEF M!NodeMetrics
    <3>2. departed' = [departed EXCEPT ![n] = q]
      BY <1>1, <1>2, <2>2, <3>1
    <3>3. M!Blamed(n) = y /\ y \in Nat
      BY <1>4, <2>2 DEF M!Blamed
    <3> HIDE DEF x, y
    <3>4. q.units_failed = y
      BY <3>1
    <3> HIDE DEF q
    <3>5. departed'[n].units_failed = y /\ \A m \in Nodes \ {n} : departed'[m] = departed[m]
      BY <1>2, <3>2, <3>4
    <3>6. M!Blamed(n)' = y
      BY <1>3, <3>3, <3>5 DEF M!Blamed
    <3>7. \A m \in Nodes \ {n} : M!Blamed(m)' = M!Blamed(m)
      BY <1>3, <3>5 DEF M!Blamed
    <3> QED
      BY <3>3, <3>6, <3>7
  <2> QED
    BY <2>1, <2>2
<1> QED
  BY <1>5, <1>6

\* unit_completed.
LEMMA CompletedBlame ==
    ASSUME BInv, NEW n \in Nodes, NEW k \in Nat, M!UnitCompleted(n, k), departed' = departed
    PROVE  \A m \in Nodes : M!Blamed(m)' <= M!Blamed(m)
<1>1. nodes' = IF nodes[n] = None THEN nodes ELSE [nodes EXCEPT ![n].units_completed = @ + 1]
  BY DEF M!UnitCompleted
<1>2. /\ nodes \in [Nodes -> M!NodeMetrics \cup {None}]
      /\ departed \in [Nodes -> M!NodeMetrics]
  BY DEF BInv, BookTypeOK, M!MetricsTypeOK
<1>3. \A m \in Nodes : M!Blamed(m) \in Nat
  BY <1>2 DEF M!Blamed, M!NodeMetrics
<1>4. \A m \in Nodes : M!Blamed(m)' = M!Blamed(m)
  <2>1. CASE nodes[n] = None
    BY <1>1, <2>1 DEF M!Blamed
  <2>2. CASE nodes[n] # None
    <3> DEFINE x == nodes[n].units_completed + 1
               q == [nodes[n] EXCEPT !.units_completed = x]
    <3>1. nodes[n] \in [units_completed : Nat, units_failed : Nat]
      BY <1>2, <2>2 DEF M!NodeMetrics
    <3>2. nodes' = [nodes EXCEPT ![n] = q]
      BY <1>1, <1>2, <2>2
    <3>3. x \in Nat
      BY <3>1
    <3> HIDE DEF x
    <3>4. /\ q \in [units_completed : Nat, units_failed : Nat]
          /\ q.units_failed = nodes[n].units_failed
      BY <3>1, <3>3
    <3>5. q # None
      BY <3>4, NothingAssumption
    <3> HIDE DEF q
    <3>6. nodes'[n] = q /\ \A m \in Nodes \ {n} : nodes'[m] = nodes[m]
      BY <1>2, <3>2
    <3> QED
      BY <2>2, <3>4, <3>5, <3>6 DEF M!Blamed
  <2> QED
    BY <2>1, <2>2
<1> QED
  BY <1>3, <1>4

\* unit_failed.
LEMMA FailedBlame ==
    ASSUME BInv, NEW n \in Nodes, M!UnitFailed(n), departed' = departed
    PROVE  /\ \A m \in Nodes \ {n} : M!Blamed(m)' = M!Blamed(m)
           /\ nodes[n] = None => M!Blamed(n)' = M!Blamed(n)
           /\ nodes[n] # None => M!Blamed(n)' = M!Blamed(n) + 1
<1>1. nodes' = IF nodes[n] = None THEN nodes ELSE [nodes EXCEPT ![n].units_failed = @ + 1]
  BY DEF M!UnitFailed
<1>2. /\ nodes \in [Nodes -> M!NodeMetrics \cup {None}]
      /\ departed \in [Nodes -> M!NodeMetrics]
  BY DEF BInv, BookTypeOK, M!MetricsTypeOK
<1>3. CASE nodes[n] = None
  BY <1>1, <1>3 DEF M!Blamed
<1>4. CASE nodes[n] # None
  <2> DEFINE x == nodes[n].units_failed + 1
             q == [nodes[n] EXCEPT !.units_failed = x]
  <2>1. nodes[n] \in [units_completed : Nat, units_failed : Nat]
    BY <1>2, <1>4 DEF M!NodeMetrics
  <2>2. nodes' = [nodes EXCEPT ![n] = q]
    BY <1>1, <1>2, <1>4
  <2>3. x \in Nat /\ nodes[n].units_failed \in Nat
    BY <2>1
  <2>4. departed[n].units_failed \in Nat
    BY <1>2 DEF M!NodeMetrics
  <2>5. departed[n].units_failed + x = departed[n].units_failed + nodes[n].units_failed + 1
    BY <2>3, <2>4
  <2> HIDE DEF x
  <2>6. q \in [units_completed : Nat, units_failed : Nat] /\ q.units_failed = x
    BY <2>1, <2>3
  <2>7. q # None
    BY <2>6, NothingAssumption
  <2> HIDE DEF q
  <2>8. nodes'[n] = q /\ \A m \in Nodes \ {n} : nodes'[m] = nodes[m]
    BY <1>2, <2>2
  <2>9. M!Blamed(n)' = departed[n].units_failed + x
    BY <2>6, <2>7, <2>8 DEF M!Blamed
  <2>10. M!Blamed(n) = departed[n].units_failed + nodes[n].units_failed
    BY <1>4 DEF M!Blamed
  <2>11. M!Blamed(n)' = M!Blamed(n) + 1
    BY <2>5, <2>9, <2>10
  <2>12. \A m \in Nodes \ {n} : M!Blamed(m)' = M!Blamed(m)
    BY <2>8 DEF M!Blamed
  <2> QED
    BY <1>4, <2>11, <2>12
<1> QED
  BY <1>3, <1>4

\* Leases that end, whether or not they are counted as reclaimed, leave the
\* account in order, as long as no attempt is taken back.
LEMMA LeasesStay ==
    ASSUME BInv, BInv', LeasesAccounted, NEW S \in SUBSET Held, Held' \subseteq Held \ S,
           Created \subseteq Created',
           \A u \in Created : units'[u].attempts = units[u].attempts,
           leases_reclaimed' = leases_reclaimed + Cardinality(S)
    PROVE  LeasesAccounted'
<1> DEFINE f == AttemptsOf
           g == AttemptsOf'
           before == SumFunctionOnSet(f, Created)
           after == SumFunctionOnSet(g, Created')
<1>1. TermsFit /\ TermsFit'
  BY TermsAreNumbers, PTL
<1>2. f \in [UnitIds -> Nat] /\ g \in [UnitIds -> Nat]
  BY <1>1 DEF TermsFit
<1>3. \A u \in Created : g[u] = f[u]
  BY DEF AttemptsOf, Created
<1>4. Created \in SUBSET UnitIds /\ Created' \in SUBSET UnitIds /\ Held \in SUBSET UnitIds
  BY DEF Created, Held
<1>5. IsFiniteSet(Created) /\ IsFiniteSet(Created') /\ IsFiniteSet(Held)
  BY <1>4, UnitSets
<1>6. LeasesAccounted <=> leases_reclaimed + Cardinality(Held) <= before
  BY DEF LeasesAccounted
<1>7. LeasesAccounted' <=> leases_reclaimed' + Cardinality(Held') <= after
  BY DEF LeasesAccounted
<1>8. before <= after /\ before \in Nat /\ after \in Nat
  <2>1. \A u \in Created : f[u] \in Nat /\ f[u] <= g[u]
    BY <1>2, <1>3, <1>4
  <2>2. \A u \in Created' : g[u] \in Nat
    BY <1>2, <1>4
  <2> HIDE DEF f, g
  <2>3. SumFunctionOnSet(f, Created) \in Nat
    BY <1>5, <2>1, SumsAgree
  <2>4. SumFunctionOnSet(g, Created') \in Nat
    BY <1>5, <2>2, SumsAgree
  <2>5. SumFunctionOnSet(f, Created) <= SumFunctionOnSet(g, Created')
    BY <1>5, <2>1, <2>2, SumsGrow
  <2> QED
    BY <2>3, <2>4, <2>5
<1> HIDE DEF before, after
<1>9. Cardinality(Held') + Cardinality(S) <= Cardinality(Held)
      /\ Cardinality(Held') \in Nat /\ Cardinality(S) \in Nat /\ Cardinality(Held) \in Nat
  <2>1. IsFiniteSet(S) /\ IsFiniteSet(Held') /\ Held' \cap S = {} /\ Held' \cup S \subseteq Held
    BY <1>5, FS_Subset
  <2>2. Cardinality(Held' \cup S) =
           Cardinality(Held') + Cardinality(S) - Cardinality(Held' \cap S)
    BY <2>1, FS_Union
  <2>3. Cardinality(Held' \cap S) = 0
    BY <2>1, FS_EmptySet
  <2>4. Cardinality(Held' \cup S) <= Cardinality(Held)
    BY <1>5, <2>1, FS_Subset
  <2>5. Cardinality(Held') \in Nat /\ Cardinality(S) \in Nat /\ Cardinality(Held) \in Nat
    BY <1>5, <2>1, FS_CardinalityType
  <2> QED
    BY <2>2, <2>3, <2>4, <2>5
<1>10. leases_reclaimed \in Nat
  BY DEF BInv, BookTypeOK, M!MetricsTypeOK
<1>11. leases_reclaimed' + Cardinality(Held') <= after
  BY <1>6, <1>8, <1>9, <1>10
<1> QED
  BY <1>7, <1>11

\* Every unit that a node takes is one attempt more.
LEMMA LeasesTaken ==
    ASSUME BInv, BInv', LeasesAccounted, NEW n \in Nodes, NEW count \in UnitIds,
           NEW m \in Models \cup {None}, Lease(n, count, m),
           leases_reclaimed' = leases_reclaimed
    PROVE  LeasesAccounted'
<1> DEFINE f == AttemptsOf
           g == AttemptsOf'
           G == Granted(count, m)
           before == SumFunctionOnSet(f, Created)
           after == SumFunctionOnSet(g, Created)
<1>1. TermsFit /\ TermsFit'
  BY TermsAreNumbers, PTL
<1>2. f \in [UnitIds -> Nat] /\ g \in [UnitIds -> Nat]
  BY <1>1 DEF TermsFit
<1>3. /\ pending \in Seq(UnitIds) /\ units \in [UnitIds -> WorkUnit]
      /\ \A u \in UnitIds : units'[u] = IF u \in G THEN Leased(units[u], n) ELSE units[u]
  BY DEF BInv, IInv, TypeOK, Lease
<1>4. \A u \in G : u \in UnitIds /\ units[u].state = "pending"
  <2>1. \A i \in DOMAIN pending : pending[i] \in UnitIds
    BY <1>3
  <2> QED
    BY <2>1 DEF Granted, Takes, Live
<1>5. \A u \in G : units'[u].state = "leased" /\ units'[u].attempts = units[u].attempts + 1
  BY <1>3, <1>4, LeasedFields
<1>6. \A u \in UnitIds \ G : units'[u] = units[u]
  BY <1>3
<1> HIDE DEF G
<1>7. Created' = Created /\ G \in SUBSET Created
  BY <1>4, <1>5, <1>6 DEF Created
<1>8. Held' = Held \cup G /\ Held \cap G = {}
  BY <1>4, <1>5, <1>6 DEF Held
<1>9. Created \in SUBSET UnitIds /\ Held \in SUBSET UnitIds
  BY DEF Created, Held
<1>10. IsFiniteSet(Created) /\ IsFiniteSet(Held) /\ IsFiniteSet(G)
  <2>1. G \in SUBSET UnitIds
    BY <1>4
  <2> QED
    BY <1>9, <2>1, UnitSets
<1>11. Cardinality(Held') = Cardinality(Held) + Cardinality(G)
       /\ Cardinality(Held) \in Nat /\ Cardinality(G) \in Nat
  <2>1. Cardinality(Held \cup G) = Cardinality(Held) + Cardinality(G) - Cardinality(Held \cap G)
    BY <1>10, FS_Union
  <2>2. Cardinality(Held \cap G) = 0
    BY <1>8, FS_EmptySet
  <2>3. Cardinality(Held) \in Nat /\ Cardinality(G) \in Nat
    BY <1>10, FS_CardinalityType
  <2> QED
    BY <1>8, <2>1, <2>2, <2>3
<1>12. /\ \A u \in G : g[u] = f[u] + 1
       /\ \A u \in Created \ G : g[u] = f[u]
  BY <1>4, <1>5, <1>6, <1>9 DEF AttemptsOf
<1>13. after = before + Cardinality(G) /\ before \in Nat
  <2>1. \A u \in Created : f[u] \in Nat
    BY <1>2, <1>9
  <2> HIDE DEF f, g
  <2> QED
    BY <1>7, <1>10, <1>12, <2>1, SumRaised, SumsAgree
<1>14. LeasesAccounted <=> leases_reclaimed + Cardinality(Held) <= before
  BY DEF LeasesAccounted
<1>15. LeasesAccounted' <=> leases_reclaimed' + Cardinality(Held') <= after
  BY <1>7 DEF LeasesAccounted
<1> HIDE DEF before, after
<1>16. leases_reclaimed \in Nat
  BY DEF BInv, BookTypeOK, M!MetricsTypeOK
<1>17. leases_reclaimed' + Cardinality(Held') <= after
  BY <1>11, <1>13, <1>14, <1>16
<1> QED
  BY <1>15, <1>17

\* What a verdict counts against a node is one failed check, one replay, or both.
LEMMA FailuresJudged ==
    ASSUME BInv, BInv', FailuresSplit, NEW u \in UnitIds, NEW n \in Nodes, NEW t \in Texts,
           NEW p \in Prompts, V!Judge(u, n, t, p)
    PROVE  FailuresSplit'
<1> DEFINE f == FailuresOf
           g == FailuresOf'
           misses == V!Count(V!Misses(u, t))
           replays == V!Count(V!Replays(t, p))
<1>1. TermsFit /\ TermsFit'
  BY TermsAreNumbers, PTL
<1>2. f \in [Nodes -> Nat] /\ g \in [Nodes -> Nat]
  BY <1>1 DEF TermsFit
<1>3. V!VerifierTypeOK
  BY DEF BInv, BookTypeOK
<1>4. /\ \A m \in Nodes \ {n} : trust'[m] = trust[m]
      /\ trust'[n].failed = trust[n].failed + misses + replays
      /\ checks_failed' = checks_failed + misses
  BY <1>3, JudgeFields
<1>5. replays_caught' = replays_caught + replays
  BY DEF V!Judge
<1>6. misses \in Nat /\ replays \in Nat
  BY DEF V!Count
<1>7. checks_failed \in Nat /\ replays_caught \in Nat /\ trust[n].failed \in Nat
  BY <1>3 DEF V!VerifierTypeOK, V!NodeTrust
<1> HIDE DEF misses, replays
<1>8. misses + replays \in Nat /\ trust'[n].failed = trust[n].failed + (misses + replays)
  BY <1>4, <1>6, <1>7
<1>9. g[n] = f[n] + (misses + replays) /\ \A m \in Nodes \ {n} : g[m] = f[m]
  BY <1>4, <1>8 DEF FailuresOf
<1>10. /\ IsFiniteSet({m \in DOMAIN f : f[m] > 0})
       /\ checks_failed + replays_caught = Total(f)
  BY DEF FailuresSplit
<1>11. FailuresSplit' <=> /\ IsFiniteSet({m \in DOMAIN g : g[m] > 0})
                          /\ checks_failed' + replays_caught' = Total(g)
  BY DEF FailuresSplit
<1> HIDE DEF f, g
<1>12. /\ IsFiniteSet({m \in DOMAIN g : g[m] > 0})
       /\ Total(g) = Total(f) + (misses + replays)
  <2> DEFINE d == misses + replays
  <2>1. d \in Nat /\ g[n] = f[n] + d
    BY <1>8, <1>9
  <2> HIDE DEF d
  <2>2. IsFiniteSet({m \in DOMAIN g : g[m] > 0}) /\ Total(g) = Total(f) + d
    BY <1>2, <1>9, <1>10, <2>1, TotalRaised
  <2> QED
    BY <2>2 DEF d
<1>13. checks_failed' + replays_caught' = Total(g)
  BY <1>4, <1>5, <1>6, <1>7, <1>10, <1>12
<1> QED
  BY <1>11, <1>12, <1>13

\* Without a verdict nothing is counted against anyone.
LEMMA FailuresStay ==
    ASSUME FailuresSplit, UNCHANGED verifierVars
    PROVE  FailuresSplit'
<1>1. FailuresOf' = FailuresOf /\ checks_failed' = checks_failed
      /\ replays_caught' = replays_caught
  BY DEF verifierVars, FailuresOf
<1> QED
  BY <1>1 DEF FailuresSplit

\* No unit is leased that was not, none of S stays leased, and no attempt of a
\* created unit changes.
LeasesEnd(S) ==
    /\ Held' \subseteq Held \ S
    /\ \A u \in Created : units'[u].attempts = units[u].attempts

\* A lease ends by a failure,
LEMMA FailEnds ==
    ASSUME IInv, NEW u \in Created, Fail(u)
    PROVE  /\ LeasesEnd({})
           /\ Outstanding(u) /\ OutOfAttempts(u)
                 => units'[u].state = "failed" /\ units'[u].error = "reported"
<1>1. u \in UnitIds /\ units \in [UnitIds -> WorkUnit] /\ units[u] \in WorkUnit
  BY DEF IInv, TypeOK, Created
<1>2. CASE Outstanding(u) /\ OutOfAttempts(u)
  <2> DEFINE q == [units[u] EXCEPT !.state = "failed", !.error = "reported"]
  <2>1. units' = [units EXCEPT ![u] = q]
    BY <1>1, <1>2 DEF Fail
  <2>2. q.state = "failed" /\ q.error = "reported" /\ q.attempts = units[u].attempts
    BY <1>1 DEF WorkUnit
  <2> HIDE DEF q
  <2>3. units'[u] = q /\ \A v \in UnitIds \ {u} : units'[v] = units[v]
    BY <1>1, <2>1
  <2> QED
    BY <2>2, <2>3 DEF LeasesEnd, Held, Created
<1>3. CASE Outstanding(u) /\ ~OutOfAttempts(u)
  <2> DEFINE r == Requeued(units[u])
             q == [r EXCEPT !.error = "reported"]
  <2>1. r \in WorkUnit /\ r.state = "pending" /\ r.attempts = units[u].attempts
    BY <1>1, RequeuedFields
  <2>2. units' = [units EXCEPT ![u] = q]
    BY <1>1, <1>3 DEF Fail
  <2> HIDE DEF r
  <2>3. q.state = "pending" /\ q.attempts = units[u].attempts
    BY <2>1 DEF WorkUnit
  <2> HIDE DEF q
  <2>4. units'[u] = q /\ \A v \in UnitIds \ {u} : units'[v] = units[v]
    BY <1>1, <2>2
  <2> QED
    BY <1>3, <2>3, <2>4 DEF LeasesEnd, Held, Created
<1>4. CASE ~Outstanding(u)
  BY <1>4 DEF Fail, vars, LeasesEnd, Held
<1> QED
  BY <1>2, <1>3, <1>4

\* by the return of the lease,
LEMMA PutBackEnds ==
    ASSUME IInv, NEW S \in SUBSET UnitIds, PutBack(S)
    PROVE  LeasesEnd(S) /\ Created' = Created \cup S
<1>1. units \in [UnitIds -> WorkUnit]
  BY DEF IInv, TypeOK
<1>2. ASSUME NEW u \in UnitIds
      PROVE  /\ u \in S => units'[u].state = "pending"
                           /\ units'[u].attempts = units[u].attempts
             /\ u \notin S => units'[u] = units[u]
  <2>1. units[u] \in WorkUnit
    BY <1>1
  <2>2. units'[u] = IF u \in S THEN Requeued(units[u]) ELSE units[u]
    BY DEF PutBack
  <2> QED
    BY <2>1, <2>2, RequeuedFields
<1>3. LeasesEnd(S)
  BY <1>2 DEF LeasesEnd, Held, Created
<1>4. Created' = Created \cup S
  BY <1>2 DEF Created
<1> QED
  BY <1>3, <1>4

\* by a cancellation,
LEMMA CancelEnds ==
    ASSUME IInv, NEW b \in BatchIds, CancelBatch(b)
    PROVE  LeasesEnd({})
<1> SUFFICES ASSUME NEW u \in UnitIds
             PROVE  /\ units'[u].state = "leased" => units[u].state = "leased"
                    /\ units'[u].attempts = units[u].attempts
  BY DEF LeasesEnd, Held, Created
<1>1. units[u] \in WorkUnit
  BY DEF IInv, TypeOK
<1>2. \/ units'[u] = [units[u] EXCEPT !.state = "failed", !.error = "batch cancelled"]
      \/ units'[u] = units[u]
  BY DEF CancelBatch
<1> QED
  BY <1>1, <1>2 DEF WorkUnit

\* or by a result, and never by the clock alone.
LEMMA ResultEnds ==
    ASSUME IInv, NEW u \in Created, NEW n \in Nodes, NEW t \in Texts,
           Complete(u, n, t), Outstanding(u)
    PROVE  LeasesEnd({})
<1>1. u \in UnitIds /\ units[u] \in WorkUnit /\ units \in [UnitIds -> WorkUnit]
  BY DEF IInv, TypeOK, Created
<1>2. /\ units'[u].state = "complete"
      /\ \A v \in UnitIds \ {u} : units'[v] = units[v]
  BY FirstResult
<1>3. units' = [units EXCEPT ![u].state = "complete", ![u].text = t,
                             ![u].node_id = n, ![u].left = 0]
  BY DEF Complete
<1>4. units'[u].attempts = units[u].attempts
  BY <1>1, <1>3 DEF WorkUnit
<1> QED
  BY <1>2, <1>4 DEF LeasesEnd, Held, Created

\* The clock.
LEMMA TickEnds ==
    ASSUME IInv, Tick
    PROVE  LeasesEnd({})
<1> SUFFICES ASSUME NEW u \in UnitIds
             PROVE  /\ units'[u].state = "leased" => units[u].state = "leased"
                    /\ units'[u].attempts = units[u].attempts
  BY DEF LeasesEnd, Held, Created
<1>1. units[u] \in WorkUnit
  BY DEF IInv, TypeOK
<1>2. \/ units'[u] = [units[u] EXCEPT !.left = @ - 1]
      \/ units'[u] = units[u]
  BY DEF Tick
<1> QED
  BY <1>1, <1>2 DEF WorkUnit

\* A step that records nothing, blames nobody and counts the leases that it
\* takes back, if it counts any, keeps the totals.
LEMMA QuietTotals ==
    ASSUME BInv, BInv', TInv, [Next]_vars, AnswersKept, Created \subseteq Created',
           NEW S \in SUBSET Held, LeasesEnd(S),
           leases_reclaimed' = leases_reclaimed + Cardinality(S),
           unit_retries' = unit_retries, FailuresSplit',
           \A n \in Nodes : M!Blamed(n)' <= M!Blamed(n)
    PROVE  TInv'
<1>1. RetriesSummed'
  BY RetriesStay DEF TInv
<1>2. BlameBounded'
  BY BlameStays DEF TInv
<1>3. LeasesAccounted'
  BY LeasesStay DEF TInv, LeasesEnd
<1> QED
  BY <1>1, <1>2, <1>3 DEF TInv

\* Nobody is blamed more as long as the records are left alone.
LEMMA BlameUnchanged ==
    ASSUME BInv, UNCHANGED <<nodes, departed>>
    PROVE  \A n \in Nodes : M!Blamed(n)' <= M!Blamed(n)
<1> SUFFICES ASSUME NEW n \in Nodes PROVE M!Blamed(n)' <= M!Blamed(n)
  OBVIOUS
<1>1. TermsFit
  BY TermsAreNumbers
<1>2. BlameOf[n] \in Nat /\ BlameOf[n] = M!Blamed(n)
  BY <1>1 DEF TermsFit, BlameOf
<1>3. M!Blamed(n)' = M!Blamed(n)
  BY DEF M!Blamed
<1> QED
  BY <1>2, <1>3

\* A new batch adds nothing to any total.
LEMMA CreateTotals ==
    ASSUME BInv, BInv', TInv, [Next]_vars, NEW b \in BatchIds, NEW c \in 0 .. MaxUnits,
           NEW n \in UnitIds, NEW k \in 0 .. MaxCanaries, NEW model \in Models \cup {None},
           NEW asked \in [1 .. (n + k) -> Models \cup {None}], NEW wants \in [1 .. n -> Prompts],
           Create(b, c, n, k, model, asked, wants)
    PROVE  TInv'
<1> DEFINE new == (c + 1) .. (c + n) \cup (c + n + 1) .. (c + n + k)
<1>1. /\ CreateBatch(b, c, n, k, model, asked)
      /\ UNCHANGED <<nodes, departed, leases_reclaimed, unit_retries>>
      /\ UNCHANGED <<trust, checks_failed, replays_caught>>
  BY DEF Create, V!Plants
<1>2. /\ AnswersKept /\ Created' = Created \cup new
      /\ new \subseteq UnitIds \ Created
  BY <1>1, CreatingRecordsNothing DEF BInv
<1>3. \A u \in UnitIds : /\ u \notin new => units'[u] = units[u]
                         /\ u \in new => units'[u].state = "pending"
  BY <1>1 DEF CreateBatch, NewUnit
<1> HIDE DEF new
<1>4. LeasesEnd({})
  <2>1. \A u \in UnitIds : units'[u].state = "leased" => units[u].state = "leased"
    BY <1>3
  <2>2. \A u \in Created : u \in UnitIds /\ u \notin new
    BY <1>2 DEF Created
  <2> QED
    BY <1>3, <2>1, <2>2 DEF LeasesEnd, Held
<1>5. leases_reclaimed' = leases_reclaimed + Cardinality({}) /\ {} \in SUBSET Held
  <2>1. leases_reclaimed \in Nat
    BY DEF BInv, BookTypeOK, M!MetricsTypeOK
  <2>2. Cardinality({}) = 0
    BY FS_EmptySet
  <2> QED
    BY <1>1, <2>1, <2>2
<1>6. FailuresSplit'
  <2>1. FailuresOf' = FailuresOf
    BY <1>1 DEF FailuresOf
  <2> QED
    BY <1>1, <2>1 DEF TInv, FailuresSplit
<1>7. Created \subseteq Created'
  BY <1>2
<1> QED
  BY <1>1, <1>2, <1>4, <1>5, <1>6, <1>7, QuietTotals, BlameUnchanged

\* A failed unit ends a lease; if it was its last, it becomes a dead-letter, and
\* the node that sent the failure is blamed for it if it has a record.
LEMMA FailureTotals ==
    ASSUME BInv, BInv', TInv, [Next]_vars,
           NEW u \in Created, NEW n \in Nodes, ReportFailure(u, n)
    PROVE  TInv'
<1>1. /\ Fail(u)
      /\ UNCHANGED <<verifierVars, departed, leases_reclaimed, unit_retries>>
      /\ IF Outstanding(u) /\ OutOfAttempts(u) THEN M!UnitFailed(n) ELSE UNCHANGED nodes
  BY DEF ReportFailure
<1>2. LeasingStep
  BY <1>1 DEF LeasingStep
<1>3. AnswersKept /\ Created' = Created
  BY <1>2, LeasingRecordsNothing DEF BInv
<1>4. /\ LeasesEnd({})
      /\ Outstanding(u) /\ OutOfAttempts(u)
            => units'[u].state = "failed" /\ units'[u].error = "reported"
  BY <1>1, FailEnds DEF BInv
<1>5. leases_reclaimed' = leases_reclaimed + Cardinality({}) /\ {} \in SUBSET Held
  <2>1. leases_reclaimed \in Nat
    BY DEF BInv, BookTypeOK, M!MetricsTypeOK
  <2>2. Cardinality({}) = 0
    BY FS_EmptySet
  <2> QED
    BY <1>1, <2>1, <2>2
<1>6. FailuresSplit'
  BY <1>1, FailuresStay DEF TInv
<1>7. CASE Outstanding(u) /\ OutOfAttempts(u) /\ nodes[n] # None
  <2>1. /\ \A m \in Nodes \ {n} : M!Blamed(m)' = M!Blamed(m)
        /\ M!Blamed(n)' = M!Blamed(n) + 1
    BY <1>1, <1>7, FailedBlame
  <2>2. u \in UnitIds /\ u \notin DeadLetters /\ u \in DeadLetters'
    BY <1>4, <1>7 DEF DeadLetters, Outstanding, Created
  <2>3. BlameBounded'
    BY <2>1, <2>2, BlameRecorded DEF TInv
  <2>4. RetriesSummed' /\ LeasesAccounted'
    BY <1>1, <1>3, <1>4, <1>5, RetriesStay, LeasesStay DEF TInv, LeasesEnd
  <2> QED
    BY <1>6, <2>3, <2>4 DEF TInv
<1>8. CASE ~(Outstanding(u) /\ OutOfAttempts(u) /\ nodes[n] # None)
  <2>1. nodes' = nodes
    BY <1>1, <1>8 DEF M!UnitFailed
  <2>2. \A m \in Nodes : M!Blamed(m)' <= M!Blamed(m)
    BY <1>1, <2>1, BlameUnchanged
  <2> QED
    BY <1>1, <1>3, <1>4, <1>5, <1>6, <2>2, QuietTotals
<1> QED
  BY <1>7, <1>8

\* A first result brings its retries, its verdict and the end of its lease.
LEMMA ReportTotals ==
    ASSUME BInv, BInv', TInv, [Next]_vars,
           NEW u \in Created, NEW n \in Nodes, NEW t \in Texts, Report(u, n, t), Outstanding(u)
    PROVE  TInv'
<1>1. /\ Complete(u, n, t)
      /\ V!Judge(u, n, t, prompts[u])
      /\ M!UnitCompleted(n, Retries(u))
      /\ departed' = departed /\ leases_reclaimed' = leases_reclaimed
  BY DEF Report, Result
<1>2. u \in UnitIds /\ prompts[u] \in Prompts /\ Retries(u) \in Nat
  <2>1. u \in UnitIds
    BY DEF Created
  <2>2. prompts[u] \in Prompts
    BY <2>1 DEF BInv, BookTypeOK
  <2>3. RetriesOf[u] \in Nat /\ RetriesOf[u] = Retries(u)
    BY <2>1, TermsAreNumbers DEF TermsFit, RetriesOf
  <2> QED
    BY <2>1, <2>2, <2>3
<1>3. RetriesSummed'
  <2>1. unit_retries' = unit_retries + Retries(u)
    BY <1>1 DEF M!UnitCompleted
  <2> QED
    BY <1>1, <2>1, RetriesRecorded DEF TInv
<1>4. BlameBounded'
  <2>1. \A m \in Nodes : M!Blamed(m)' <= M!Blamed(m)
    BY <1>1, <1>2, CompletedBlame
  <2> QED
    BY <2>1, BlameStays DEF TInv
<1>5. LeasesAccounted'
  <2>1. LeasesEnd({}) /\ Created' = Created
    BY <1>1, ResultEnds, FirstResult DEF BInv
  <2>2. leases_reclaimed' = leases_reclaimed + Cardinality({}) /\ {} \in SUBSET Held
    <3>1. leases_reclaimed \in Nat
      BY DEF BInv, BookTypeOK, M!MetricsTypeOK
    <3>2. Cardinality({}) = 0
      BY FS_EmptySet
    <3> QED
      BY <1>1, <3>1, <3>2
  <2> QED
    BY <2>1, <2>2, LeasesStay DEF TInv, LeasesEnd
<1>6. FailuresSplit'
  BY <1>1, <1>2, FailuresJudged DEF TInv
<1> QED
  BY <1>3, <1>4, <1>5, <1>6 DEF TInv

\* Every step keeps the totals.
LEMMA BookNextKeepsTotals == BInv /\ TInv /\ [BookNext]_bookVars => TInv'
<1> SUFFICES ASSUME BInv, TInv, [BookNext]_bookVars PROVE TInv'
  OBVIOUS
<1>0. BInv' /\ [Next]_vars
  BY BookNextPreserves, StepOfTheStore
<1>01. Cardinality({}) = 0 /\ leases_reclaimed \in Nat /\ {} \in SUBSET Held
  BY FS_EmptySet DEF BInv, BookTypeOK, M!MetricsTypeOK
<1>02. ASSUME LeasingStep, NEW S \in SUBSET Held, LeasesEnd(S),
              leases_reclaimed' = leases_reclaimed + Cardinality(S),
              unit_retries' = unit_retries, UNCHANGED verifierVars,
              \A n \in Nodes : M!Blamed(n)' <= M!Blamed(n)
       PROVE  TInv'
  <2>1. AnswersKept /\ Created' = Created
    BY <1>02, LeasingRecordsNothing DEF BInv
  <2>2. FailuresSplit'
    BY <1>02, FailuresStay DEF TInv
  <2> QED
    BY <1>0, <1>02, <2>1, <2>2, QuietTotals
<1>03. ASSUME LeasingStep, LeasesEnd({}), UNCHANGED <<verifierVars, metricsVars>>
       PROVE  TInv'
  <2>1. UNCHANGED <<nodes, departed, leases_reclaimed, unit_retries, verifierVars>>
    BY <1>03 DEF metricsVars
  <2>2. leases_reclaimed' = leases_reclaimed + Cardinality({})
    BY <1>01, <2>1
  <2> QED
    BY <1>01, <1>02, <1>03, <2>1, <2>2, BlameUnchanged
<1>1. CASE Asks
  <2>1. PICK b \in BatchIds, c \in 0 .. MaxUnits, n \in UnitIds, k \in 0 .. MaxCanaries,
             model \in Models \cup {None} :
               \E asked \in [1 .. (n + k) -> Models \cup {None}], wants \in [1 .. n -> Prompts] :
                   Create(b, c, n, k, model, asked, wants)
    BY <1>1 DEF Asks
  <2>2. PICK asked \in [1 .. (n + k) -> Models \cup {None}], wants \in [1 .. n -> Prompts] :
               Create(b, c, n, k, model, asked, wants)
    BY <2>1
  <2> QED
    BY <1>0, <2>2, CreateTotals
<1>2. ASSUME NEW n \in Nodes, Join(n) PROVE TInv'
  <2>1. /\ M!NodeJoined(n) /\ UNCHANGED <<vars, verifierVars>>
        /\ leases_reclaimed' = leases_reclaimed /\ unit_retries' = unit_retries
    BY <1>2 DEF Join, M!NodeJoined, M!fleetWide
  <2>2. LeasingStep /\ LeasesEnd({})
    BY <2>1 DEF LeasingStep, LeasesEnd, Held, vars
  <2>3. \A m \in Nodes : M!Blamed(m)' <= M!Blamed(m)
    BY <2>1, JoinedBlame
  <2> QED
    BY <1>01, <1>02, <2>1, <2>2, <2>3
<1>3. ASSUME NEW n \in Nodes, Leave(n) PROVE TInv'
  <2>1. /\ ReleaseNode(n) /\ M!NodeLeft(n) /\ UNCHANGED verifierVars
        /\ leases_reclaimed' = leases_reclaimed + Cardinality(HeldBy(n))
        /\ unit_retries' = unit_retries
    BY <1>3 DEF Leave, M!LeasesReturned
  <2>2. HeldBy(n) \in SUBSET Held /\ HeldBy(n) \in SUBSET UnitIds
    BY DEF HeldBy, Held
  <2>3. LeasesEnd(HeldBy(n)) /\ LeasingStep
    <3>1. PutBack(HeldBy(n))
      BY <2>1 DEF ReleaseNode
    <3> QED
      BY <2>1, <2>2, <3>1, PutBackEnds DEF BInv, LeasingStep
  <2>4. \A m \in Nodes : M!Blamed(m)' <= M!Blamed(m)
    BY <2>1, LeftBlame
  <2> QED
    BY <1>02, <2>1, <2>2, <2>3, <2>4
<1>4. ASSUME NEW n \in Nodes, NEW count \in UnitIds, NEW m \in Models \cup {None},
             Take(n, count, m)
      PROVE  TInv'
  <2>1. /\ Lease(n, count, m) /\ UNCHANGED verifierVars
        /\ UNCHANGED <<nodes, departed, leases_reclaimed, unit_retries>>
    BY <1>4 DEF Take, metricsVars
  <2>2. LeasingStep
    BY <2>1 DEF LeasingStep
  <2>3. AnswersKept
    BY <2>2, LeasingRecordsNothing DEF BInv
  <2>4. RetriesSummed'
    BY <2>1, <2>3, RetriesStay DEF TInv
  <2>5. BlameBounded'
    BY <1>0, <2>1, BlameUnchanged, BlameStays DEF TInv
  <2>6. LeasesAccounted'
    BY <1>0, <2>1, LeasesTaken DEF TInv
  <2>7. FailuresSplit'
    BY <2>1, FailuresStay DEF TInv
  <2> QED
    BY <2>4, <2>5, <2>6, <2>7 DEF TInv
<1>5. ASSUME NEW u \in Created, NEW n \in Nodes, NEW t \in Texts, Report(u, n, t)
      PROVE  TInv'
  <2>1. CASE Outstanding(u)
    BY <1>0, <1>5, <2>1, ReportTotals
  <2>2. CASE ~Outstanding(u)
    <3>1. UNCHANGED vars /\ UNCHANGED <<verifierVars, metricsVars>>
      BY <1>5, <2>2 DEF Complete, Report, Result
    <3>2. LeasingStep /\ LeasesEnd({})
      BY <3>1 DEF LeasingStep, LeasesEnd, Held, vars
    <3> QED
      BY <1>03, <3>1, <3>2
  <2> QED
    BY <2>1, <2>2
<1>6. ASSUME NEW u \in Created, NEW n \in Nodes, ReportFailure(u, n)
      PROVE  TInv'
  BY <1>0, <1>6, FailureTotals
<1>7. CASE Expire
  <2>1. /\ PutBack(Overdue) /\ UNCHANGED <<verifierVars, nodes, departed, unit_retries>>
        /\ leases_reclaimed' = leases_reclaimed + Cardinality(Overdue)
        /\ LeasingStep
    BY <1>7 DEF Expire, M!LeasesReturned, ExpireLeases, LeasingStep
  <2>2. Overdue \in SUBSET Held /\ Overdue \in SUBSET UnitIds
    BY DEF Overdue, Held
  <2>3. LeasesEnd(Overdue)
    BY <2>1, <2>2, PutBackEnds DEF BInv
  <2> QED
    BY <1>02, <2>1, <2>2, <2>3, BlameUnchanged
<1>8. ASSUME NEW b \in BatchIds, Cancel(b) PROVE TInv'
  <2>1. CancelBatch(b) /\ UNCHANGED <<verifierVars, metricsVars>>
    BY <1>8 DEF Cancel
  <2>2. LeasingStep /\ LeasesEnd({})
    BY <2>1, CancelEnds DEF BInv, LeasingStep
  <2> QED
    BY <1>03, <2>1, <2>2
<1>9. CASE Clock
  <2>1. Tick /\ UNCHANGED <<verifierVars, metricsVars>>
    BY <1>9 DEF Clock
  <2>2. LeasingStep /\ LeasesEnd({})
    BY <2>1, TickEnds DEF BInv, LeasingStep
  <2> QED
    BY <1>03, <2>1, <2>2
<1>10. CASE UNCHANGED bookVars
  <2>1. UNCHANGED vars /\ UNCHANGED <<verifierVars, metricsVars>>
    BY <1>10 DEF bookVars
  <2>2. LeasingStep /\ LeasesEnd({})
    BY <2>1 DEF LeasingStep, LeasesEnd, Held, vars
  <2> QED
    BY <1>03, <2>1, <2>2
<1> QED
  BY <1>1, <1>2, <1>3, <1>4, <1>5, <1>6, <1>7, <1>8, <1>9, <1>10 DEF BookNext

\* The fleet's totals are those of the store for any number of nodes and units:
\* every retry of a recorded result is counted once, no dead-letter is counted
\* twice however often nodes come and go, no lease is reclaimed that was not
\* granted, and what counts against nodes is failed canaries and replays only.
THEOREM TotalsAreRight == BookSpec => []TotalsMatch
<1>1. TInv => TotalsMatch
  BY DEF TInv, RetriesSummed, BlameBounded, LeasesAccounted, FailuresSplit, TotalsMatch
<1> QED
  BY <1>1, TotalsStart, BookNextKeepsTotals, BookInvariance, PTL DEF BookSpec
=============================================================================
