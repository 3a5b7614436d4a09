------------------------------ MODULE MCFleet -------------------------------
(***************************************************************************)
(* Finite instances of Fleet.  Every lease takes a place in some agent's   *)
(* backlog, and a place comes free only by a report or a lost connection,  *)
(* so with MaxConns connections and MaxUnitAttempts retries the attempts,  *)
(* queues and inboxes are bounded by themselves.                           *)
(***************************************************************************)
EXTENDS Fleet, Planting, TLC
LOCAL INSTANCE FiniteSetsExt

CONSTANTS
    m1,
    AttemptsBound,  \* bound: leases of one unit
    LeasesBound     \* bound: leases granted in all

\* Every node serves m1.
AllServeM1 == [n \in Nodes |-> m1]

\* Bound: the one batch takes all units, and they all name m1.
OneBatch ==
    Created' = {} \/ (Created' = UnitIds /\ \A u \in UnitIds : units'[u].model = m1)

MCFleetNext ==
    /\ FleetNext
    /\ OneBatch
    /\ \A u \in UnitIds : units'[u].attempts <= AttemptsBound
    /\ MapThenSumSet(LAMBDA u : units'[u].attempts, UnitIds) <= LeasesBound

\* For liveness nothing is cut off but what clients submit.
MCFairFleetSpec == FleetInit /\ [][FleetNext /\ OneBatch]_allVars /\ FleetFairness

MCFleetSpec == FleetInit /\ [][MCFleetNext]_allVars

Symmetric == Permutations(BatchIds) \cup Permutations(Texts)
=============================================================================
