---------------------------- MODULE Verification ----------------------------
(***************************************************************************)
(* What the orchestrator learns about nodes from their results             *)
(* (src/orchestrator/verification.py): the answers to canaries, whose      *)
(* expected answer is known, and answers that were given before to another *)
(* question.  The verifier is called with one result at a time and never   *)
(* suspends.                                                               *)
(*                                                                         *)
(* A text stands for an answer after whitespace is normalised, and a       *)
(* prompt for its fingerprint.  Whether two texts agree well enough, and   *)
(* which texts are too short to be fingerprinted, are parameters.          *)
(***************************************************************************)
EXTENDS Integers, Sequences

CONSTANTS
    Nodes, UnitIds, Texts, Prompts, None,
    Canaries,      \* Verifier.canaries, a sequence of [prompt, expected]
    Agree(_, _),   \* agreement(expected, text) >= agreement_threshold
    Short          \* the texts of fewer than 40 characters

VARIABLES
    trust,            \* Verifier.trust: what was counted for and against each node
    planted,          \* Verifier.planted: the canary a unit stands for
    checks_run,
    checks_failed,
    replays_caught,
    seen              \* Verifier._seen: the first prompt a long answer was given for

\* A node without an entry in the dict has no checks: both counts are zero.
NodeTrust == [passed : Nat, failed : Nat]

VerifierInit ==
    /\ trust = [n \in Nodes |-> [passed |-> 0, failed |-> 0]]
    /\ planted = [u \in UnitIds |-> None]
    /\ checks_run = 0
    /\ checks_failed = 0
    /\ replays_caught = 0
    /\ seen = [t \in Texts |-> None]

\* select: the i-th canary of a batch, i from 0, cycled so that all get used.
Selected(i) == Canaries[(i % Len(Canaries)) + 1]

\* register, for the canaries of a new batch, given in the order of planting.
Plants(first, k) ==
    /\ planted' = [u \in UnitIds |->
          IF u \in first .. (first + k - 1) THEN Selected(u - first) ELSE planted[u]]
    /\ UNCHANGED <<trust, checks_run, checks_failed, replays_caught, seen>>

IsCanary(u) == planted[u] # None

\* The two verdicts of check.
Passes(u, t) == IsCanary(u) /\ Agree(planted[u].expected, t)

Misses(u, t) == IsCanary(u) /\ ~Agree(planted[u].expected, t)

\* Mutant: the check that takes any answer given before for a replay.
ReplaysAnything(t, p) == t \notin Short /\ seen[t] # None

\* note_replay: a long answer first seen for a different prompt.
Replays(t, p) == t \notin Short /\ seen[t] \notin {None, p}

\* _seen.setdefault: the first prompt stays.
Sees(t, p) ==
    seen' = IF t \notin Short /\ seen[t] = None THEN [seen EXCEPT ![t] = p] ELSE seen

Count(happened) == IF happened THEN 1 ELSE 0

\* Mutant: an answer is either checked or noted, not both.
JudgeEither(u, n, t, p) ==
    /\ trust' = [trust EXCEPT
          ![n].passed = @ + Count(Passes(u, t)),
          ![n].failed = @ + Count(Misses(u, t)) + Count(~IsCanary(u) /\ Replays(t, p))]
    /\ checks_run' = checks_run + Count(IsCanary(u))
    /\ checks_failed' = checks_failed + Count(Misses(u, t))
    /\ replays_caught' = replays_caught + Count(~IsCanary(u) /\ Replays(t, p))
    /\ IF IsCanary(u) THEN UNCHANGED seen ELSE Sees(t, p)
    /\ UNCHANGED planted

\* check, then note_replay, of one recorded result.  Both can count against the
\* node; only a failed check is in checks_failed.
Judge(u, n, t, p) ==
    /\ trust' = [trust EXCEPT
          ![n].passed = @ + Count(Passes(u, t)),
          ![n].failed = @ + Count(Misses(u, t)) + Count(Replays(t, p))]
    /\ checks_run' = checks_run + Count(IsCanary(u))
    /\ checks_failed' = checks_failed + Count(Misses(u, t))
    /\ replays_caught' = replays_caught + Count(Replays(t, p))
    /\ Sees(t, p)
    /\ UNCHANGED planted

IsSuspect(n) == trust[n].failed > 0

VerifierTypeOK ==
    /\ trust \in [Nodes -> NodeTrust]
    /\ planted \in [UnitIds -> {Canaries[i] : i \in DOMAIN Canaries} \cup {None}]
    /\ checks_run \in Nat /\ checks_failed \in Nat /\ replays_caught \in Nat
    /\ seen \in [Texts -> Prompts \cup {None}]
=============================================================================
