---------------------------- MODULE Bookkeeping -----------------------------
(***************************************************************************)
(* The batch store with the two components that it tells about results:    *)
(* the verifier and the fleet's metrics (the calls in                      *)
(* src/orchestrator/batch.py and src/orchestrator/api/nodes.py).  Both are *)
(* called in the same uninterrupted step as the change of the store.       *)
(*                                                                         *)
(* A node can have two handlers at once, the one of a connection that it   *)
(* has given up and the one of its next.  Metrics go by node id alone.     *)
(***************************************************************************)
EXTENDS BatchStore, FiniteSetsExt

CONSTANTS
    Prompts,         \* what a request can ask
    Canaries,        \* the verifier's canaries
    Agree(_, _),     \* two answers are alike enough
    Short,           \* answers of fewer than 40 characters (see the README)
    LatencySamples,  \* how many latency samples are kept
    Honest,          \* the nodes that run the model they should
    Replies,         \* Replies[p]: what such a node may answer to prompt p
    MaxHandlers      \* bound: handlers that one node has at a time

\* A canary's reference is an answer of the model itself, and the answers of a
\* faithful node agree with it.  Long answers to different prompts differ.
ASSUME BookkeepingAssumption ==
    /\ Canaries \in Seq([prompt : Prompts, expected : Texts])
    /\ Honest \subseteq Nodes
    /\ Replies \in [Prompts -> SUBSET Texts]
    /\ LatencySamples \in Nat
    /\ MaxHandlers \in Nat \ {0}
    /\ \A i \in DOMAIN Canaries : \A t \in Replies[Canaries[i].prompt] :
          Agree(Canaries[i].expected, t)
    /\ \A p, q \in Prompts : p # q => Replies[p] \cap Replies[q] \subseteq Short

\* None is no prompt, no canary and no record of a node.
ASSUME NothingAssumption ==
    /\ None \notin Prompts
    /\ None \notin [prompt : Prompts, expected : Texts]
    /\ None \notin [units_completed : Nat, units_failed : Nat]

VARIABLES
    prompts,      \* prompts[u]: what unit u asks, from WorkUnit.messages
    handlers,     \* handlers[n]: node n's registered handlers, before their finally
    overlapped    \* history: the nodes that ever had two handlers at once

VARIABLES trust, planted, checks_run, checks_failed, replays_caught, seen

VARIABLES
    nodes, departed, batches_created, batches_completed, leases_reclaimed,
    unit_retries, samples

V == INSTANCE Verification

M == INSTANCE Metrics

verifierVars == <<trust, planted, checks_run, checks_failed, replays_caught, seen>>

metricsVars ==
    <<nodes, departed, batches_created, batches_completed, leases_reclaimed,
      unit_retries, samples>>

bookVars == <<vars, prompts, handlers, overlapped, verifierVars, metricsVars>>

BookInit ==
    /\ Init
    /\ prompts = [u \in UnitIds |-> None]
    /\ handlers = [n \in Nodes |-> 0]
    /\ overlapped = {}
    /\ V!VerifierInit
    /\ M!MetricsInit
-----------------------------------------------------------------------------
\* create_batch: the k canaries are registered with the verifier.
Create(b, c, n, k, model, asked, wants) ==
    /\ CreateBatch(b, c, n, k, model, asked)
    /\ k > 0 => Canaries # <<>>
    /\ prompts' = [u \in UnitIds |->
          CASE u \in (c + 1) .. (c + n) -> wants[u - c]
            [] u \in (c + n + 1) .. (c + n + k) -> V!Selected(u - (c + n + 1)).prompt
            [] OTHER -> prompts[u]]
    /\ V!Plants(c + n + 1, k)
    /\ batches_created' = batches_created + 1
    /\ UNCHANGED <<handlers, overlapped, nodes, departed, batches_completed,
                   leases_reclaimed, unit_retries, samples>>

\* The registration of a node: metrics.node_joined.
Join(n) ==
    /\ handlers[n] < MaxHandlers
    /\ handlers' = [handlers EXCEPT ![n] = @ + 1]
    /\ overlapped' = IF handlers[n] > 0 THEN overlapped \cup {n} ELSE overlapped
    /\ M!NodeJoined(n)
    /\ UNCHANGED <<vars, prompts, verifierVars>>

\* The finally block of a handler: release_node, then metrics.node_left.
Leave(n) ==
    /\ handlers[n] > 0
    /\ handlers' = [handlers EXCEPT ![n] = @ - 1]
    /\ ReleaseNode(n)
    /\ M!LeasesReturned(Cardinality(HeldBy(n)))
    /\ M!NodeLeft(n)
    /\ UNCHANGED <<prompts, overlapped, verifierVars, batches_created, batches_completed,
                   unit_retries, samples>>

Take(n, count, nodeModel) ==
    /\ handlers[n] > 0
    /\ Lease(n, count, nodeModel)
    /\ UNCHANGED <<prompts, handlers, overlapped, verifierVars, metricsVars>>

\* Attempts beyond the first; a unit answered without a lease has none.
Retries(u) == IF units[u].attempts = 0 THEN 0 ELSE units[u].attempts - 1

\* _maybe_finish_batch counts the batch that it closes.
CountFinished ==
    batches_completed' = batches_completed
        + Cardinality({b \in BatchIds :
              batches[b].state = "in_progress" /\ batches'[b].state = "completed"})

\* Mutant: a result is judged before it is known to be the first.
ResultJudgedFirst(u, n, t) ==
    /\ Complete(u, n, t)
    /\ V!Judge(u, n, t, prompts[u])
    /\ IF Outstanding(u)
       THEN /\ M!UnitCompleted(n, Retries(u))
            /\ CountFinished
            /\ UNCHANGED <<departed, batches_created, leases_reclaimed>>
       ELSE UNCHANGED metricsVars

\* Mutant: a node is credited with every result it sends.
ResultCreditedAlways(u, n, t) ==
    /\ Complete(u, n, t)
    /\ IF Outstanding(u) THEN V!Judge(u, n, t, prompts[u]) ELSE UNCHANGED verifierVars
    /\ M!UnitCompleted(n, Retries(u))
    /\ CountFinished
    /\ UNCHANGED <<departed, batches_created, leases_reclaimed>>

\* complete: only the result that is recorded is judged and counted.
Result(u, n, t) ==
    /\ Complete(u, n, t)
    /\ IF Outstanding(u)
       THEN /\ V!Judge(u, n, t, prompts[u])
            /\ M!UnitCompleted(n, Retries(u))
            /\ CountFinished
            /\ UNCHANGED <<departed, batches_created, leases_reclaimed>>
       ELSE UNCHANGED <<verifierVars, metricsVars>>

\* WORK_RESULT from node n.  A node in Honest answers the prompt it was given.
Report(u, n, t) ==
    /\ handlers[n] > 0
    /\ n \in Honest => t \in Replies[prompts[u]]
    /\ Result(u, n, t)
    /\ UNCHANGED <<prompts, handlers, overlapped>>

\* WORK_FAILED from node n: a dead-letter is counted for the node that sent the
\* last failure, while it has a record.
ReportFailure(u, n) ==
    /\ handlers[n] > 0
    /\ Fail(u)
    /\ IF Outstanding(u) /\ OutOfAttempts(u)
       THEN M!UnitFailed(n) /\ CountFinished
       ELSE UNCHANGED <<nodes, batches_completed>>
    /\ UNCHANGED <<prompts, handlers, overlapped, verifierVars, departed, batches_created,
                   leases_reclaimed, unit_retries, samples>>

Expire ==
    /\ ExpireLeases
    /\ M!LeasesReturned(Cardinality(Overdue))
    /\ UNCHANGED <<prompts, handlers, overlapped, verifierVars, nodes, departed,
                   batches_created, batches_completed, unit_retries, samples>>

\* cancel_batch and the clock tell nobody.
Cancel(b) == CancelBatch(b) /\ UNCHANGED <<prompts, handlers, overlapped, verifierVars, metricsVars>>

Clock == Tick /\ UNCHANGED <<prompts, handlers, overlapped, verifierVars, metricsVars>>

Asks ==
    \E b \in BatchIds, c \in 0 .. MaxUnits, n \in UnitIds, k \in 0 .. MaxCanaries,
       model \in Models \cup {None} :
        \E asked \in [1 .. (n + k) -> Models \cup {None}], wants \in [1 .. n -> Prompts] :
            Create(b, c, n, k, model, asked, wants)

BookNext ==
    \/ Asks
    \/ \E n \in Nodes : Join(n) \/ Leave(n)
    \/ \E n \in Nodes, count \in UnitIds, m \in Models \cup {None} : Take(n, count, m)
    \/ \E u \in Created, n \in Nodes, t \in Texts : Report(u, n, t)
    \/ \E u \in Created, n \in Nodes : ReportFailure(u, n)
    \/ Expire
    \/ \E b \in BatchIds : Cancel(b)
    \/ Clock

BookSpec == BookInit /\ [][BookNext]_bookVars
-----------------------------------------------------------------------------
(***************************************************************************)
(* Properties.                                                             *)
(***************************************************************************)

\* The verifier's and the metrics' attributes keep their shape, and every
\* created unit has a prompt.
BookTypeOK ==
    /\ V!VerifierTypeOK
    /\ M!MetricsTypeOK
    /\ prompts \in [UnitIds -> Prompts \cup {None}]
    /\ \A u \in Created : prompts[u] # None
    /\ handlers \in [Nodes -> 0 .. MaxHandlers]
    /\ overlapped \subseteq Nodes

\* The units whose recorded result came from node n.
AnsweredBy(n) == {u \in UnitIds : units[u].state = "complete" /\ units[u].node_id = n}

Canary(u) == planted[u] # None

\* The recorded result of canary u is not the expected one.
Wrong(u) == ~Agree(planted[u].expected, units[u].text)

PassedCanaries(n) == {u \in AnsweredBy(n) : Canary(u) /\ ~Wrong(u)}

FailedCanaries(n) == {u \in AnsweredBy(n) : Canary(u) /\ Wrong(u)}

\* The record of each node says what its recorded results say: every canary it
\* answered, and no other, was judged once, and late and duplicate results and
\* results for cancelled batches were not.
VerdictsMatch ==
    /\ \A n \in Nodes :
          /\ trust[n].passed = Cardinality(PassedCanaries(n))
          /\ trust[n].failed >= Cardinality(FailedCanaries(n))
    /\ checks_run = Cardinality({u \in UnitIds : units[u].state = "complete" /\ Canary(u)})
    /\ checks_failed =
          Cardinality({u \in UnitIds : units[u].state = "complete" /\ Canary(u) /\ Wrong(u)})

\* note_replay leaves no copy unnoticed: when one long answer is recorded for
\* two different prompts, in whatever order and from whichever nodes, at least
\* one of the two nodes is suspect.
CopiesNoticed ==
    \A u, v \in UnitIds :
        /\ units[u].state = "complete" /\ units[v].state = "complete"
        /\ units[u].text = units[v].text
        /\ units[u].text \notin Short
        /\ prompts[u] # prompts[v]
        => V!IsSuspect(units[u].node_id) \/ V!IsSuspect(units[v].node_id)

\* Some node gave the answer of unit u, a long one, to a prompt that it does
\* not answer.
CopiedElsewhere(u) ==
    \E v \in UnitIds :
        /\ units[v].state = "complete"
        /\ units[v].text = units[u].text
        /\ units[v].text \notin Short \cup Replies[prompts[v]]

\* A node that answers every prompt as the model does is never held to have
\* failed a canary, and becomes suspect only when another node has put one of
\* its long answers under a prompt it does not belong to.  Repeated prompts,
\* repeated canaries and shared short answers never count against it.
HonestBlamedOnlyForCopies ==
    \A n \in Honest :
        V!IsSuspect(n) => \E u \in AnsweredBy(n) : CopiedElsewhere(u)

\* metrics.py: "a node cannot inflate its own contribution by reporting a
\* number": however often it reports, reconnects or leaves, a node is credited
\* with no more units than the store has recorded from it.
NoInflation ==
    \A n \in Nodes : M!Credited(n) <= Cardinality(AnsweredBy(n))

\* Nor is anything lost, as long as the node never had two handlers at once: the
\* live record and the snapshots together are exactly its recorded results.
CreditExact ==
    \A n \in Nodes \ overlapped : M!Credited(n) = Cardinality(AnsweredBy(n))

DeadLetters ==
    {u \in UnitIds : units[u].state = "failed" /\ units[u].error = "reported"}

\* The fleet's counters are those of the store, whatever happened to the nodes'
\* records: batches created, batches completed, each once and none of them
\* cancelled, and one latency sample for each recorded result, up to the limit.
CountsMatch ==
    /\ batches_created = Cardinality({b \in BatchIds : batches[b].state # "absent"})
    /\ batches_completed = Cardinality({b \in BatchIds : batches[b].state = "completed"})
    /\ samples = Min({LatencySamples, Cardinality({u \in UnitIds : units[u].state = "complete"})})

\* Terms of the fleet's sums, by unit and by node.
RetriesOf == [u \in UnitIds |-> Retries(u)]

AttemptsOf == [u \in UnitIds |-> units[u].attempts]

BlameOf == [n \in Nodes |-> M!Blamed(n)]

FailuresOf == [n \in Nodes |-> trust[n].failed]

\* What the values of f add up to, however large its domain is.
Total(f) == SumFunctionOnSet(f, {x \in DOMAIN f : f[x] > 0})

Answered == {u \in UnitIds : units[u].state = "complete"}

Held == {u \in UnitIds : units[u].state = "leased"}

\* So are its totals: the retries of the recorded results, no more dead-letters
\* than there are, and no more leases reclaimed than were granted and have
\* ended.  What counts against the nodes beyond failed canaries is replays.
TotalsMatch ==
    /\ unit_retries = SumFunctionOnSet(RetriesOf, Answered)
    /\ Total(BlameOf) <= Cardinality(DeadLetters)
    /\ leases_reclaimed + Cardinality(Held) <= SumFunctionOnSet(AttemptsOf, Created)
    /\ checks_failed + replays_caught = Total(FailuresOf)
=============================================================================
