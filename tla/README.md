# FleetLM in TLA+

FleetLM spreads batch inference over machines that come and go. An orchestrator
keeps a queue of work units in memory; node agents dial in over a WebSocket, ask
for units, decode them and report. This directory models the parts of it whose
correctness depends on the order of events, checks them with TLC and proves the
central ones with TLAPS for every number of nodes, batches and units.

## 1. The system

| Part | State it keeps | Operations |
|---|---|---|
| Batch store, `orchestrator/batch.py` | `batches`, `units`, the FIFO `_pending` | `create_batch`, `lease`, `complete`, `fail`, `release_node`, `expire_leases`, `cancel_batch`, `_maybe_finish_batch` |
| Verification, `orchestrator/verification.py` | planted canaries, trust records, answers seen | `canary_count`, `select`, `check`, `note_replay` |
| Node handler, `orchestrator/api/nodes.py` | one coroutine per connection | register, dispatch of one message at a time, the `finally` block |
| Registry and monitor, `orchestrator/fleet/` | `nodes` by node id | `add`, `remove`, `update_heartbeat`, `get_stale_nodes`; the monitor closes and removes stale nodes |
| Lease reaper, `orchestrator/main.py` | none | `expire_leases` every 30 s |
| Batches API, `orchestrator/api/batches.py` | none | submit (and nudge nodes), cancel, read results |
| Node agent, `node_agent/__main__.py` | outbox, backlog, batch in progress, the outstanding request | connect, load, request, decode, report, drain on disconnect |
| Sessions and routing, `orchestrator/session.py`, `api/completions.py`, `fleet/router.py` | sessions and their event queues, load per node | dispatch, stream, time out, fail with the node |
| Metrics, `orchestrator/metrics.py` | counters per node and in total | join, leave, unit and session events |
| Engines, `node_agent/engine.py` | a re-entrant lock, the token counts of the last generation | generate one, a batch in one pass, or fall back to one by one |
| `fleetlm batch`, `node_agent/cli.py` | the batch id, consecutive poll failures | submit, poll, fetch and write, cancel on Ctrl-C |
| Other commands, web pages, settings, wire types | processes, pages | I/O |

How they meet: a handler calls the store and the registry for its node; the
reaper calls the store; the monitor calls the registry and closes sockets under
the handlers; the API calls the store for clients. All of it runs on one asyncio
event loop, so what is between two `await`s that can suspend is atomic. No
method of the store suspends while it holds the store's lock, so the lock is
never contended and each method is one step. The same holds of the whole
`finally` block of a handler. What does suspend is the network: `receive`,
`send_json`, and `ws.close()`, which waits for the close handshake.

What is hard in it:

* every report can be late, repeated, or from a node that has lost the lease;
* the same unit can be in the queue twice or, answered meanwhile, for nothing;
* registry entries and leases carry the node's id and not its connection, and a
  node keeps its id when it reconnects, so an old handler and the monitor act on
  whatever connection the id has by then;
* assignments and reports die with their connection;
* an engine can hang while the node's heartbeats go on;
* a generation runs in a thread that does not end with its connection, so an
  answer can come in two parts, through two handlers, and an engine can have two
  batches and several generations on it at once;
* one result is told to the unit, the batch, the verifier and the metrics, and
  metrics too go by node id;
* the batch command reads a batch's status, its results and the answer to its
  cancellation at different times, from an orchestrator that forgets on restart.

What makes each part right: the store loses no unit, decides each one once and
closes a batch with its last unit; the handlers orphan no lease; the agent never
goes mute and never takes more than it can finish; together, batches finish. Of
an interactive request: it ends without waiting for a timeout when its node is
gone, and what is presented as an answer is one. Verdicts, credit and totals are
those of the results that were recorded, whatever else was reported. An engine
serves one thread at a time and a failing item costs no other its answer. The
file and the exit code of the batch command say what became of the batch.
`PROJECT.json` lists the hazards line by line with the properties that cover
them.

## 2. The modules

| Module | What it is |
|---|---|
| `BatchStore` | class `BatchStore`, one action per method |
| `UnitLedger` | what a client is promised: an abstract, write-once ledger of outcomes |
| `Subsequences` | picking entries of a sequence by position, without recursion |
| `Planting` | where canaries go in a batch, and how many: pure operators |
| `Fleet` | extends `BatchStore` with handlers, registry, monitor, reaper and agents |
| `Interactive` | interactive requests: sessions, routing, handlers and the agents' generations |
| `Verification` | class `Verifier`: operators that a composition calls |
| `Metrics` | class `FleetMetrics`, likewise |
| `Bookkeeping` | extends `BatchStore` with the verifier and the metrics it calls |
| `Engine` | the threads on a node's engine, its lock and its token counts |
| `BatchCommand` | `fleetlm batch` as a client of `UnitLedger` |
| `SubsequenceProofs`, `BatchStoreProofs` | lemmas about `Subsequences`; theorems about the store and its refinement of the ledger |
| `PlantingProofs` | theorems about `Planting`, for batches of any size |
| `FleetProofs`, `InteractiveProofs`, `BookkeepingProofs`, `EngineProofs`, `CommandProofs` | theorems about the modules so named (`CommandProofs`: about `BatchCommand`) |
| `MCBatchStore`, `MCPlanting`, `MCFleet`, `MCInteractive`, `MCBookkeeping`, `MCEngine` | instances and bounds for TLC |

Operators whose comment starts with "Mutant" are deliberate mistakes. No
specification uses them. Putting one in the place of the definition that follows
it must break a property, which shows that the property depends on that code;
`PROJECT.json` says which breaks which.

### BatchStore

`units[u]` is the `WorkUnit`, with an extra state `absent` for units not created
yet; numeric order stands for the insertion order of the dict `units`, which is
the order in which `release_node` and `expire_leases` requeue. Messages, token
counts and timestamps are dropped; a result is a member of `Texts`. A lease's
expiry time is the number of ticks it has `left`, and `Tick` is the clock.
`attempts` counts leases, as in the code. `lease()` is written with sets (which
positions are taken, which are kept) and not as a loop, so that it can be reasoned
about; `LeaseFollowsLoop` says that this is what the loop does, for any node, capacity
and queue, and is checked and proved. `Complete` and `Fail` take
any unit from any node, because the store checks neither.

The refinement mapping sends the store to `UnitLedger`: the status of each batch,
the units that stand for the client's requests, and per unit one of open,
answered, failed, cancelled. A canary is not in the ledger at all, so everything
that happens to it must be a stutter.

### Fleet

`conns[n][g]` is the handler of node n's g-th connection: `accepted` until it has
read the register message, `open` in its loop, `closing` after the orchestrator
closed the socket, `done` after `finally`. Its `inbox` is the FIFO from the agent's
outbox to `receive()`. `agents[n]` has the connection the agent believes in,
`model_loaded`, `work_request_inflight`, the backlog and the batch being decoded.
The registry entry remembers which connection it belongs to only so that
properties can speak of it; no action looks at it, except to close that socket.

`LoseConnection` is the node's side of a loss; the orchestrator's side is `Leave`,
any time later. In between the node may be back: that is the half-open connection
the code has to live with. `HandleRequest` leases first and answers afterwards, so
the answer may go nowhere; on a socket the orchestrator has closed, sending raises
and the handler is left with its `finally`. The monitor takes three steps (list,
start to close, remove), because `ws.close()` suspends.

Left out of `Fleet`: interactive messages and the READY status (they are in
`Interactive`), join tokens, and an agent that shuts down for good because its
model cannot be loaded.

### Interactive

Interactive requests share the connections of the fleet but none of the store's
state, so they have a specification of their own. `sessions[s]` is the
`InferenceSession` of request s with its event queue; `kept` says that the manager
still has it, and `gen` is the connection whose socket the request was sent on.
`clients[s]` is the coroutine of the request: `new`, `sending` (between picking a
node and `send_json`), `streaming`, and the four ways it ends. `jobs[s]` at an agent
is the next piece its generation thread will produce, 0 for none.

`Emit` sends to the outbox of the moment: over the current connection, into the
void if the orchestrator has left it, or into the fresh outbox that the next
connection will send. Nothing ties a generation to the connection it was asked on.
Messages name a session only, and `HandleGenerate` does not look at which node or
connection they come from. `Leave` fails the sessions of the node's id. Which ready
node is least loaded is left open, since heartbeats overwrite `active_sessions` at
any time; the figures themselves are not modelled, nor is an SSE response dropped
before its generator has started, nor the heartbeat monitor.

### Bookkeeping, Verification, Metrics

`Bookkeeping` adds to each action of the store the calls that the method makes:
`create_batch` registers its canaries, `complete` has the result it records (and no
other) judged and counted, `fail` counts a dead-letter for the node that sent the
last failure, `release_node` and `expire_leases` count what they return. `Join` and
`Leave` are the handler's `node_joined` and its `finally`; `handlers[n]` is how many
handlers a node has, two while it is back before the old one has left.

A text stands for an answer with its whitespace normalised, a prompt for its
fingerprint. When two answers agree (`Agree`, the library's similarity ratio) and
which are under 40 characters (`Short`) are parameters; the code measures an answer
before it normalises the whitespace inside it, so two forms of one text could fall on
either side of 40, which is left out. A node in `Honest` answers a
prompt with one of `Replies` to it, anyone else with anything; the assumption says
what the code relies on, that faithful answers agree with the reference and that
different prompts have no long answer in common. `departed` is summed by node,
which is what `snapshot()` does with it; of the latency samples their number is
kept. Sessions, token counts, rates and percentiles are left out.

### Engine

A thread is an interactive generation or a batch of units; a batch that was being
decoded when the connection was lost goes on next to the new one. mlx groups the
positions of a batch by temperature and decodes a group in one call inside the
lock; when that raises, the group is run again item by item, the lock taken a
second time by its owner. The other in-process engines, mlx without `batch_generate`
(`mlx_sequential`) and a single item run one by one. ollama sends its batch without
the lock. `last` stands for
`last_prompt_tokens` and `last_completion_tokens`; its value is the item they count,
so a wrong attribution is visible. `Read` is a step of its own because the code reads
the counts after `generate_stream` has released the lock. Loading a model and what a
runtime does inside are external: a generation ends, raises, or (mlx only, whose
loop over the responses may be empty) yields nothing and sets no counts. The history
variables `raised` and `silent` remember which items raised and yielded nothing,
`overtaken` whose counts another generation set before they were read; no action
looks at them. A missing text can so be told from one that was never asked for.

### BatchCommand

The service is an instance of `UnitLedger`, which the store is proved to implement,
so the client is checked against what it may rely on and not against the store's
details. Requests can be lost on the way there or back. `Restart` empties the
service. `SubmitAnswered` reads the status at the time of the answer, because the
API awaits the nodes it nudges after the batch exists. A 404 to a poll ends the
command with the `KeyError` it raises, a 404 to the fetch is written to the file as
if it were results. Reading the JSONL input and printing progress are left out.

## 3. What is checked

| Run | Instance | Shows |
|---|---|---|
| `store` | 2 nodes, 2 batches, 2 models, 2 units, canaries, 4 leases in all, queue up to 3 | the store's invariants and action properties, `ImplementsLedger`, and that the set definition of `Lease` is the code's loop on every reachable queue |
| `fleet` | 1 node, 2 connections, 3 units, batch size 1, 4 leases in all | registry and leases across reconnects; every lease of a healthy connection is accounted for at the node; the request flag is honest; at most two batches' worth of leases |
| `wedged_node` | 2 nodes, one may hang | leases end and the batch finishes |
| `churn` | 1 node, 2 connections | the batch finishes although the connection is lost at any point |
| `interactive` | 1 node, 3 connections, 1 request of 2 pieces | the end of a request whose connection is gone is already in its queue; no piece arrives twice; dispatched requests end, with no help from timeouts |
| `bookkeeping` | an honest and another node, 1 batch, 2 units, a canary, 2 handlers for the other node | `VerdictsMatch`: each recorded canary judged once, for its node; `CopiesNoticed`; `HonestBlamedOnlyForCopies`; `NoInflation` and `CreditExact` of a node's units; `CountsMatch` and `TotalsMatch` of the fleet's |
| `engine` | a chat, an orphaned batch of 2, a batch of 3 in two groups; each kind of engine, mlx also without `batch_generate` | `Exclusive` use of the model; `FailsAlone`: each item has the outcome of its own generation, none is skipped; `MiscountsExplained`; every job ends |
| `batch_command` | 1 batch, 1 or 2 units, 5 poll failures, 1 restart | `FileMatchesExit`, `CancelledMeansStopped`, and the command ends |

Four runs show where the code does something other than its comments say:

* `model_match`: "A unit that names a model is only handed to a node serving that
  model" (`batch.py`). After a reconnect, the old handler's `finally` removes the
  new registry entry; the open handler then leases without a model and gets any
  unit.
* `canary_spread`: "Spread through the batch" (`batch.py`). The stride is computed
  from the number of canaries planted so far, which puts the j-th at j/(j+1) of the
  queue; the first half of a batch has none however many are planted.
* `whole_answer`: `stream()` "raises SessionFailure on node error, node loss, or
  timeout" (`session.py`). A node loses its connection with pieces on the way, comes
  back, and sends the last piece and the completion over the new connection before
  the old handler's `finally` runs: the client gets a successful answer with a hole.
* `engine_counts`: "`generate_stream` still takes the lock, because it reports usage
  through `last_*_tokens` on the instance and concurrent streams would race on it"
  (`engine.py`). The counts are read after the lock is released, by `produce()` as by
  `_generate_one`; another generation in between overwrites them.

The passing properties are stated as exactly as the code allows, and what they leave
open is worth knowing:

* `FailedForCause` and not a limit on attempts: only `fail()` looks at
  `max_unit_attempts` ("then the unit is dead-lettered", `config.py`); a unit whose
  leases are only ever released or expired is leased again without end.
* `HonestBlamedOnlyForCopies` has its exception because `note_replay` counts against
  whoever's answer is recorded second: an honest node that answers after a copy of
  its answer was recorded for another prompt is the suspect one. The test
  `test_one_node_cheating_does_not_implicate_another` (`test_verification.py`) says
  the opposite in general and tries it with a wrong answer; copies are the exception.
* `CreditExact` excludes nodes that ever had two handlers: `node_joined` replaces the
  live record, and the old handler's `node_left` files the new one, so counts are
  lost, and nothing bounds how many. `NoInflation`, `CountsMatch` and `TotalsMatch`
  hold for them too, and see nothing of the loss.
* `MiscountsExplained` and not that counts are right: `generate_stream` is to "set
  last_*_tokens before finishing" (`engine.py`), but on mlx a generation without a
  response sets none, and the item is reported with the counts of the one before it,
  also inside a batch's fallback. And a batch that is run one by one reads each
  item's counts outside the lock, so it races as `engine_counts` shows for chats.
* `FileMatchesExit` has a case for a file that holds the body of a 404, written with
  the exit code of the last status: the orchestrator restarted between the last poll
  and the fetch.
* `CancelledMeansStopped` says nothing of a Ctrl-C before the id is known, a lost
  answer to the submission, or giving up after five failed polls; the fleet then works
  on for nobody.

### Bounds and why they are enough

The store's interesting cases need one unit queued twice while another node can
still report on it: two nodes, two units, two retries and a queue of three reach
that, with four leases in all so that one unit can be leased past its limit of two
attempts. The second batch is there for cancellation next to a batch that goes on,
the second model so that a node passes over an entry and takes a later one. Nodes,
batches, models and texts are interchangeable, hence the symmetry sets (used without
liveness). Where canaries go and how many there are is arithmetic without state:
`PlantingAssumption` in `MCBatchStore` evaluates it for up to 24 requests and rates
from 2% to 100% (never first, never last, the rounded share but at least one).

In `Fleet` every race is among the connections of one node, so one node with two
connections has them: old handler against new, monitor against new. The last
connection is never lost or closed, else the bound itself would stop the system.
One batch takes all units and all nodes serve the one model it names, except in
`model_match`. For safety, leases per unit and in all are capped; for liveness nothing is,
because each lease occupies a place at an agent that only a report or one of the
finitely many losses frees. `LeaseBudget` needs three units to be exceedable with
batch size one.

`Interactive` has the same half-open connections, with three of them, so that an old
handler can still be there when the node is lost again. Two pieces are what it takes
to lose one and still deliver another. One request is enough because a session is
touched only by messages that name it and by the departure of its node, neither of
which depends on other sessions. A request is made once, so a run ends when it has
ended, and deadlock is not checked there; the same goes for `Engine`, whose threads
end, and for `BatchCommand`.

In `Bookkeeping` a canary, a copy of its answer and a repeated prompt need two units
and two prompts with a long answer each; a short answer suits one of them. Only the
other node comes back early (`Flaky`), so that both halves of `CreditExact` occur. One
latency sample is kept, so that the bound is met. `Engine`'s threads are the ones the
agent can really have at once; the batch has two units that sample alike and one that
does not, so that one group falls back while another is still to come. In
`BatchCommand` the limit of five poll failures is the code's.

### Fairness

`FleetFairness` is weak fairness only: handlers with something to do, the monitor,
the reaper and the clock (the event loop starves nobody, and both tasks loop for
ever); for each node, connecting (`async for ws in connect`), noticing a closed
socket, loading, polling and starting a batch; and finishing a batch, except for
the nodes in `Wedged`. Nothing is assumed of clients, heartbeats or when a
connection breaks. A batch whose model no node serves waits for ever; that is what
the code does, and the instances for liveness have no such batch.

`Interactive`'s fairness is again weak: connecting, handlers, request coroutines, and
generations, which is where engines are assumed to answer. `TimeOut` gets none on
purpose: it would end every request by itself and the property would say nothing
about the disconnect path.

In `Engine` every thread that can move eventually does, and generations end; no order
is assumed in which the lock is handed over. In `BatchCommand` the client's next step
happens (a request is answered or times out) and the fleet settles units, which is what
`BatchesFinish` shows of it; nothing is assumed of the network, users or restarts.

## 4. What is proved

Every theorem holds for all values of the constants that satisfy the named
assumptions, so for any number of nodes, connections, batches, units, prompts,
threads and so on. TLC evaluates the assumptions on the instances.

| Specification | Assumptions | Inductive invariant | Theorems |
|---|---|---|---|
| `Spec` (store) | `BoundsAssumption`, `NoneAssumption`, `PlantAssumption` | `IInv` | `TypeCorrect`, `NothingIsLost`, `StatusIsExact`, `FailuresHaveCause`, `FieldsAgree`, `LeaseIsTheLoop`; the action properties `FinalResults`, `LeasesAreExclusive`; `Refinement` (the store implements `UnitLedger`) |
| none: operators of `Planting` | none | none | `PlacementIsSound`, `CanariesInside`, `CanaryCountIsNearest` |
| `FleetSpec` | those and `FleetAssumption` | `FInv` | `FleetUsesStore`, `FleetTypeCorrect`, `RegistryIsBacked`, `LeasesAreBacked`, `LeasesAreAccounted`, `LeasesStayInBudget`, `RequestsAreHonest`, and of the store inside it `NothingIsLostInFleet`, `FleetStealsNoLease`, `FleetKeepsLedger` |
| `Interactive`'s `Spec` | `InteractiveAssumption` | its `IInv` | `InteractiveTypeCorrect`, `NoRequestLeftHanging`, `NothingRepeats` |
| `BookSpec` | those of the store, `BookkeepingAssumption`, `NothingAssumption` | `BInv`, and `TInv` for the sums | `BooksOnlyWatch`, `JudgedResultsAreFinal`, `BookTypeCorrect`, `VerdictsAreRight`, `CopiesAreNoticed`, `HonestNodesAreSafe`, `CreditIsEarned`, `CreditIsComplete`, `CountsAreRight`, `TotalsAreRight` |
| `EngineSpec` | `EngineAssumption` | `EInv` | `EngineTypeCorrect`, `ModelIsExclusive`, `ItemsFailAlone`, `MiscountsAreExplained` |
| `CommandSpec` | `CommandAssumption` and the module's own `NoneAssumption` | `CInv` | `CommandTypeCorrect`, `FileIsFaithful`, `CancelIsFaithful` |

Hardly any of the properties is inductive by itself; what each invariant adds, and
why it is needed, is the content of the proofs. Each of these invariants was
model-checked before it was proved.

**The store.** `lease()` drops the entries of cancelled batches, so `NoUnitLost` needs
that a cancelled batch has no pending unit, which is in `BatchStateAgrees`; this needs
that the units a batch lists are those that name it (`UnitsBelong`), or settling one
could close the wrong batch. `FieldsFitState` ties a unit's holder and text to its
state, for the refinement and for the release of nodes. The proof has one lemma per
action; `release_node` and `expire_leases` share `PutBackPreserves`, and every action
that only moves units between lease and queue rests on `QueueStep`. The queue is the
hard part: `lease()` keeps a subsequence. `Subsequences` defines it by rank, and
`SubsequenceProofs` shows that the k-th smallest members of a finite set enumerate it,
hence that `Select` keeps exactly the chosen entries.

**The fleet.** `FleetUsesStore` (`FleetSpec => Spec`) comes first: each step of a
handler, the monitor, the reaper or an agent is a step of the store or leaves it
alone, so everything above holds inside the fleet. `LeaseBacked` needs that leases are
granted by a handler in its loop and that leaving releases them. `LeaseBudget` has no
direct proof: a handler that grants a request does not know what the node has
already. The bound follows from what the two ends know together. `LeaseAccounted`
says that each lease of a healthy connection is in the backlog, being decoded, or
has its report in the inbox. `OneRequest` says that at most one request is in the inbox,
and counts: its capacity fits into the backlog, and its capacity, the backlog, the
batch being decoded and the messages behind it are at most two batch sizes. The
count is kept through every message of the agent, because whatever leaves the
backlog is decoding or reported, in order, behind the request. `BacklogBounded` closes
the circle when the assignment arrives. `RequestHonest` is a consequence.

**Interactive requests.** `NoneLeftHanging` is not inductive, since a handler fails
sessions by their node and not by their connection, and not at all if it never got to
its loop. `Lives` adds that the connection of a request under way was in its loop when
the node was picked, which needs that a READY entry belongs to such a connection
(`EntriesOpen`), and that a session in state `complete` or `failed`, which `fail()`
leaves alone, has its end in the queue. `NoRepeats` is about where pieces are (`Flow`):
each is at most once, and in one place, of the outboxes, the inboxes, the queue of its
session and what the client has; a generation is ahead of all pieces there are of its
answer; it is the only one for its session; and there is nothing before the request is
sent. That the outbox is emptied when the connection is lost is what keeps a piece from
being in two places.

**The books.** `VerdictsMatch` needs that a planted canary is a created unit with the
canary's prompt (`CanariesAsked`) and that a recorded result names its node
(`ResultsSigned`). `CopiesNoticed` follows from `RecordedIsSeen`: every long recorded
answer is in `_seen`, and its node is suspect if it is there for another prompt. For
an honest node one needs the converse, that `_seen` holds nothing but recorded answers
(`SeenIsRecorded`): the other recorded answer is the copy that clears it.
`CreditExact` needs `RecordsFollowHandlers`, that a node which never had two handlers
has a live record exactly while it has a handler.

**The engines.** `Exclusive` follows from `LockSound`: the lock is held by the thread
whose place in the code says so, and as often as it says, twice inside the fallback of
a batch. `FailsAlone` needs that the groups and the items run one by one are disjoint
(`PlaceFits`), so that no item is dealt with twice, and of each item either what its
output is or that its generation has not been yet (`OutputsRight`): an item without
text must be one that raised or yielded nothing. `MiscountsExplained` needs the counts
between the end of a generation and the reading of them (`CountsWait`). A thread that
is decoding a group still holds the lock then, so nobody can overwrite them; for a
chat, or a batch run one by one, whoever does puts it down in `overtaken`, and
`engine_counts` is the counterexample to more.

**The command.** `FileMatchesExit` rests on the service (`ServiceSound`): a batch is in
progress exactly while one of its requests is open, so the status that ended the poll
loop stays right until the fetch, unless the orchestrator has forgotten the batch
since. `WayKnown` says what the locals tell about the way the command has come.

**Loops and sums.** The prover has no induction over data, so a fact about a recursive
function or a fold for every input needs another way in. A recursive function is
defined by `CHOOSE`: one shows that a function with the recursion equations exists, and
that any two agree, each by the least argument at which it would fail; after that the
equations can be used.

* `LeaseIsTheLoop`: the loop of `lease()` takes and keeps what the sets of `Lease` say.
  The state after k entries is given in closed form (the taken and the kept positions
  up to k, as in `Upto`), this satisfies the recursion because `Select` grows by one
  entry at a time (`SelectExtends`), and there is no other.
* `PlacementIsSound`: `Spread` grows by one insertion at a time; each leaves an
  arrangement (`PlantOneMore`), so a least number of canaries with a bad queue cannot
  exist. It makes `PlantAssumption` a fact about `create_batch` for batches of every
  size. `CanariesInside` adds that no canary is at either end of two requests or more.
  `CanaryCountIsNearest` is about exact fractions; the code multiplies a float.
* `TotalsAreRight`: a sum of natural numbers is the number of marks, one for each unit a
  term contributes (`SumIsTallies`), so that a sum changes by what one term does
  (`SumRaised`, `TotalRaised`), which is what an action needs. `TInv` says the same of
  retries, attempts, dead-letters and leases, and of the failures of nodes, and is
  inductive on top of `BInv`: each action moves one term, and the counter with it. For
  the leases an inequality is enough, since a lease is granted before it can end.

Only model-checked: liveness (`BatchesFinish`, `LeasesEnd`, `RequestsEnd`, `JobsEnd`,
`CommandEnds`), which is beyond the prover, and the four runs that find a violation.

## 5. Plan

1. Done: the store, its ledger, planting, and the fleet around it; interactive
   requests; the verifier and the metrics; the engines; the batch command. The
   theorems of section 4.
2. Done: every safety property of a passing run has a theorem, the invariants as
   well as the action properties and the refinement.
3. `Interactive`, the rest: the load figures and their drift, the monitor closing
   sockets, responses dropped before they start. `push_chunk` and `complete` do not
   look at the state, so a session that failed can become `GENERATING` again; the
   failure is already in its queue by then, and the client sees it first.

Not modelled and not planned: the other commands (they start processes and print
reports), the web pages, configuration and wire types, model loading, the
similarity measure of verification, and latency percentiles. They are sequential,
or I/O, or arithmetic on floating point numbers.
