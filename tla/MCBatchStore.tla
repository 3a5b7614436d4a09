---------------------------- MODULE MCBatchStore ----------------------------
(***************************************************************************)
(* Finite instances of BatchStore, with create_batch's own placement of    *)
(* canaries.                                                               *)
(***************************************************************************)
EXTENDS BatchStore, Planting, TLC
LOCAL INSTANCE FiniteSetsExt

CONSTANTS
    LeasesBound,     \* bound: leases granted in all
    QueueBound       \* bound: entries in _pending, stale ones included

\* The rates at which planting is tried: the default 0.02 of config.py, those
\* that tests use, and everything.
Rates == {<<1, 50>>, <<1, 10>>, <<1, 4>>, <<1, 2>>, <<1, 1>>}

\* canary_count asks for the count nearest to rate times size, but for one at
\* least, and the loop of create_batch never puts a canary at either end.
ASSUME PlantingAssumption ==
    \A n \in 2 .. 24, rate \in Rates :
        LET k      == CanaryCount(n, rate[1], rate[2])
            off    == 2 * (k * rate[2] - n * rate[1])
            queued == Spread(n, k)
        IN  /\ k >= 1 /\ off >= 0 - rate[2] /\ (off > rate[2] => k = 1)
            /\ queued[1] <= n /\ queued[n + k] <= n

Bounded ==
    /\ MapThenSumSet(LAMBDA u : units'[u].attempts, UnitIds) <= LeasesBound
    /\ Len(pending') <= QueueBound

MCNext == Next /\ Bounded

Symmetric == Permutations(Nodes) \cup Permutations(BatchIds) \cup Permutations(Texts)
                 \cup Permutations(Models)

MCSpec == Init /\ [][MCNext]_vars
=============================================================================
