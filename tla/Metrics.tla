------------------------------- MODULE Metrics -------------------------------
(***************************************************************************)
(* The fleet's counters (src/orchestrator/metrics.py).  A node has a       *)
(* record while it is connected; when it leaves, a snapshot of the record  *)
(* goes into `departed`, which is kept here as each node's totals over all *)
(* its snapshots.  Token counts, rates and times are left out; of the      *)
(* latency samples only their number is kept.                              *)
(***************************************************************************)
EXTENDS Integers

CONSTANTS
    Nodes,
    None,
    LatencySamples   \* LATENCY_SAMPLES, the length at which old samples drop out

VARIABLES
    nodes,             \* FleetMetrics.nodes: the record of a connected node
    departed,          \* FleetMetrics.departed, summed by node
    batches_created,
    batches_completed,
    leases_reclaimed,
    unit_retries,
    samples            \* the length of queue_times, and of service_times

fleetWide == <<batches_created, batches_completed, leases_reclaimed, unit_retries, samples>>

NodeMetrics == [units_completed : Nat, units_failed : Nat]

NewRecord == [units_completed |-> 0, units_failed |-> 0]

MetricsInit ==
    /\ nodes = [n \in Nodes |-> None]
    /\ departed = [n \in Nodes |-> NewRecord]
    /\ batches_created = 0
    /\ batches_completed = 0
    /\ leases_reclaimed = 0
    /\ unit_retries = 0
    /\ samples = 0

\* node_joined: a fresh record, whether or not the id has one already.
NodeJoined(n) ==
    /\ nodes' = [nodes EXCEPT ![n] = NewRecord]
    /\ UNCHANGED <<departed, fleetWide>>

\* Mutant: a node that leaves takes its counts with it.
NodeLeftForgotten(n) ==
    /\ nodes' = [nodes EXCEPT ![n] = None]
    /\ UNCHANGED departed

\* node_left: the record, if the id has one, becomes a snapshot.
NodeLeft(n) ==
    /\ nodes' = [nodes EXCEPT ![n] = None]
    /\ departed' =
          IF nodes[n] = None THEN departed
          ELSE [departed EXCEPT
                  ![n].units_completed = @ + nodes[n].units_completed,
                  ![n].units_failed = @ + nodes[n].units_failed]

\* Mutant: nothing is recorded for a node without a record.
UnitCompletedIfLive(n, retries) ==
    IF nodes[n] = None
    THEN UNCHANGED <<nodes, samples, unit_retries>>
    ELSE /\ samples' = IF samples < LatencySamples THEN samples + 1 ELSE samples
         /\ unit_retries' = unit_retries + retries
         /\ nodes' = [nodes EXCEPT ![n].units_completed = @ + 1]

\* Mutant: old samples never drop out.
UnitCompletedUnbounded(n, retries) ==
    /\ samples' = samples + 1
    /\ unit_retries' = unit_retries + retries
    /\ nodes' = IF nodes[n] = None THEN nodes
                ELSE [nodes EXCEPT ![n].units_completed = @ + 1]

\* unit_completed: the samples are the fleet's and always recorded; the node is
\* credited only if it has a record.
UnitCompleted(n, retries) ==
    /\ samples' = IF samples < LatencySamples THEN samples + 1 ELSE samples
    /\ unit_retries' = unit_retries + retries
    /\ nodes' = IF nodes[n] = None THEN nodes
                ELSE [nodes EXCEPT ![n].units_completed = @ + 1]

UnitFailed(n) ==
    nodes' = IF nodes[n] = None THEN nodes ELSE [nodes EXCEPT ![n].units_failed = @ + 1]

\* Mutant: a sweep that finds nothing is counted as well.
LeasesReturnedOnce(count) == leases_reclaimed' = leases_reclaimed + 1

LeasesReturned(count) == leases_reclaimed' = leases_reclaimed + count

\* What snapshot() reports of one node, live and departed together.
Credited(n) ==
    departed[n].units_completed + (IF nodes[n] = None THEN 0 ELSE nodes[n].units_completed)

Blamed(n) ==
    departed[n].units_failed + (IF nodes[n] = None THEN 0 ELSE nodes[n].units_failed)

MetricsTypeOK ==
    /\ nodes \in [Nodes -> NodeMetrics \cup {None}]
    /\ departed \in [Nodes -> NodeMetrics]
    /\ batches_created \in Nat /\ batches_completed \in Nat
    /\ leases_reclaimed \in Nat /\ unit_retries \in Nat
    /\ samples \in 0 .. LatencySamples
=============================================================================
