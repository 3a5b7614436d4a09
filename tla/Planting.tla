------------------------------ MODULE Planting ------------------------------
(***************************************************************************)
(* Where create_batch puts a batch's canaries (src/orchestrator/batch.py,  *)
(* lines 152-172) and how many of them there are (canary_count in          *)
(* src/orchestrator/verification.py).  Pure operators: positions 1 .. n    *)
(* stand for the real units in the client's order, n + 1 .. n + k for the  *)
(* canaries in the order they are planted.                                 *)
(***************************************************************************)
EXTENDS Integers, SequencesExt

\* The zero-based index at which the j-th canary is inserted in a queue that
\* already holds `len` units.
PlantIndex(len, j) ==
    LET stride == Max({1, len \div (j + 1)})
    IN  Min({len, stride * j})

\* The queue after all k canaries are planted among n real units.
Spread(n, k) ==
    LET Planted[j \in 0 .. k] ==
          IF j = 0
          THEN [i \in 1 .. n |-> i]
          ELSE InsertAt(Planted[j - 1], PlantIndex(n + j - 1, j) + 1, n + j)
    IN  Planted[k]

\* round() of a non-negative fraction num/den: Python rounds a half to even.
Round(num, den) ==
    LET q == num \div den
        r == 2 * (num % den)
    IN  IF r > den \/ (r = den /\ q % 2 = 1) THEN q + 1 ELSE q

\* canary_count at rate num/den, for a verifier with at least one canary.
CanaryCount(n, num, den) ==
    IF num = 0 \/ n = 0 THEN 0 ELSE Max({1, Round(n * num, den)})
=============================================================================
