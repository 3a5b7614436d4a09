---------------------------- MODULE MCPlanting ------------------------------
(***************************************************************************)
(* The planting loop of create_batch, one canary at a time, for every size *)
(* of batch up to MaxReal and a choice of verification rates.              *)
(***************************************************************************)
EXTENDS Integers, Sequences, Planting
LOCAL INSTANCE SequencesExt

CONSTANT MaxReal   \* bound: requests in the batch

VARIABLES
    n,        \* len(requests)
    rate,     \* the verifier's rate, as a pair of numerator and denominator
    j,        \* canaries planted so far
    queued    \* the local `queued`, in the numbering of Planting

vars == <<n, rate, j, queued>>

\* The default 0.02 of config.py, rates that tests use, and everything.
Rates == {<<1, 50>>, <<1, 10>>, <<1, 4>>, <<1, 2>>, <<1, 1>>}

Init ==
    /\ n \in 1 .. MaxReal
    /\ rate \in Rates
    /\ j = 0
    /\ queued = [i \in 1 .. n |-> i]

PlantOne ==
    /\ j < CanaryCount(n, rate[1], rate[2])
    /\ j' = j + 1
    /\ queued' = InsertAt(queued, PlantIndex(Len(queued), j') + 1, n + j')
    /\ UNCHANGED <<n, rate>>

Done ==
    /\ j = CanaryCount(n, rate[1], rate[2])
    /\ UNCHANGED vars

Spec == Init /\ [][PlantOne \/ Done]_vars
-----------------------------------------------------------------------------
\* create_batch: "Spread through the batch": once there are two canaries, the
\* first of them comes before half of the client's requests have gone by.  It
\* does not hold: the stride is taken from the number planted so far, not from
\* the number to plant, so the j-th canary goes to j/(j+1) of the queue, the
\* first half of the batch runs unchecked and the canaries crowd to its end.
CanariesSpread ==
    j >= 2 /\ n >= 4 => \E i \in 1 .. (n \div 2) : queued[i] > n
=============================================================================
