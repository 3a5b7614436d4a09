------------------------------- MODULE Fleet --------------------------------
(***************************************************************************)
(* The batch store together with the nodes that work for it: the WebSocket *)
(* handler of each connection (src/orchestrator/api/nodes.py), the node    *)
(* registry and its heartbeat monitor (src/orchestrator/fleet/), the lease *)
(* reaper (src/orchestrator/main.py), and as much of the node agent        *)
(* (src/node_agent/__main__.py) as these can tell apart.                   *)
(*                                                                         *)
(* A node keeps its id when it reconnects, so the handler of an old        *)
(* connection may still run when the next one registers.  Registry entries *)
(* and leases are keyed by node id alone; which connection they belong to  *)
(* is recorded here only to state properties about it.                     *)
(***************************************************************************)
EXTENDS BatchStore

CONSTANTS
    NodeModel,           \* NodeModel[n]: the model node n registers with and serves
    BatchSize,           \* the agents' batch_size: units decoded together
    MaxLeasePerRequest,  \* MAX_LEASE_PER_REQUEST of api/nodes.py
    Wedged,              \* the nodes whose engine may hang in the middle of a batch
    MaxConns             \* bound: connections one node ever opens; the last stays up

\* More than MaxUnits units can never be asked for at once to any effect.
ASSUME FleetAssumption ==
    /\ NodeModel \in [Nodes -> Models]
    /\ BatchSize \in UnitIds
    /\ MaxLeasePerRequest \in Nat \ {0}
    /\ Wedged \subseteq Nodes
    /\ MaxConns \in Nat \ {0}

VARIABLES
    conns,      \* conns[n][g]: the orchestrator's handler of n's g-th connection
    registry,   \* NodeRegistry.nodes
    monitor,    \* where heartbeat_monitor is in its loop
    agents      \* the node agents

fleetVars == <<conns, registry, monitor, agents>>

allVars == <<batches, units, pending, conns, registry, monitor, agents>>

Gens == 1 .. MaxConns

NoEntry == [gen |-> 0, stale |-> FALSE]

Registered(n) == registry[n].gen # 0

WorkRequest(c)   == [type |-> "work_request", capacity |-> c]
WorkResult(u, t) == [type |-> "work_result", unit |-> u, text |-> t]
WorkFailed(u)    == [type |-> "work_failed", unit |-> u]

Message ==
    {WorkRequest(c) : c \in 1 .. BatchSize}
      \cup {WorkResult(u, t) : u \in UnitIds, t \in Texts}
      \cup {WorkFailed(u) : u \in UnitIds}

Conn ==
    [phase : {"unused", "accepted", "open", "closing", "done"}, inbox : Seq(Message)]

Agent ==
    [gen : 0 .. MaxConns, loaded : BOOLEAN, inflight : BOOLEAN,
     queue : Seq(UnitIds), running : Seq(UnitIds)]

FleetInit ==
    /\ Init
    /\ conns = [n \in Nodes |-> [g \in Gens |-> [phase |-> "unused", inbox |-> <<>>]]]
    /\ registry = [n \in Nodes |-> NoEntry]
    /\ monitor = [todo |-> {}, closing |-> None]
    /\ agents = [n \in Nodes |->
          [gen |-> 0, loaded |-> FALSE, inflight |-> FALSE, queue |-> <<>>, running |-> <<>>]]
-----------------------------------------------------------------------------
(***************************************************************************)
(* The node agent.  `inbox` is everything between the agent's outbox and   *)
(* the handler's receive(): one FIFO per connection.                       *)
(***************************************************************************)

\* The node uses this connection: it has not noticed a loss, if there is one.
Linked(n, g) == agents[n].gen = g

\* Mutant: the backlog is not looked at.
CanAskWhenFull(a) == a.loaded /\ ~a.inflight

\* Mutant: the outstanding request is not looked at.
CanAskAgain(a) == a.loaded /\ Len(a.queue) < BatchSize

\* _request_work: one request at a time, and only with room in the backlog.
\* What is being decoded does not count.
CanAsk(a) == a.loaded /\ ~a.inflight /\ Len(a.queue) < BatchSize

Asking(a) == IF CanAsk(a) THEN <<WorkRequest(BatchSize - Len(a.queue))>> ELSE <<>>

\* The agent becomes `a`, sends msgs and, as _request_work allows, a request.
\* Nobody reads any of it once the orchestrator has closed its end.
Sends(n, a, msgs) ==
    /\ agents[n].gen # 0
    /\ agents' = [agents EXCEPT ![n] = [a EXCEPT !.inflight = @ \/ CanAsk(a)]]
    /\ conns' = [conns EXCEPT ![n][agents[n].gen].inbox =
          IF conns[n][agents[n].gen].phase \in {"accepted", "open"}
          THEN @ \o msgs \o Asking(a)
          ELSE @]

\* Mutant: the outbox is replaced after the cancelled worker has asked.
CarriedNothing(a) == <<>>

\* What the outbox holds when a new connection starts: the request that a
\* worker, cancelled while it was decoding, made in its finally block.
Carried(a) == IF a.inflight THEN <<WorkRequest(BatchSize)>> ELSE <<>>

\* A node without a connection opens the next one and sends register first.
Connect(n) ==
    /\ agents[n].gen = 0
    /\ \E g \in Gens :
          /\ conns[n][g].phase = "unused"
          /\ \A h \in 1 .. (g - 1) : conns[n][h].phase # "unused"
          /\ conns' = [conns EXCEPT ![n][g] =
                [phase |-> "accepted", inbox |-> Carried(agents[n])]]
          /\ agents' = [agents EXCEPT ![n].gen = g]
    /\ UNCHANGED <<vars, registry, monitor>>

\* _drain_work_queue drops the backlog and forgets the outstanding request;
\* a worker cancelled while it decodes then asks again, in its finally.
Drained(a) ==
    [a EXCEPT !.gen = 0, !.inflight = a.running # <<>>, !.queue = <<>>, !.running = <<>>]

\* The connection ends for the node, and with it the tail of what it sent.
LoseConnection(n) ==
    /\ agents[n].gen \in 1 .. (MaxConns - 1)
    /\ \E k \in 0 .. Len(conns[n][agents[n].gen].inbox) :
          conns' = [conns EXCEPT ![n][agents[n].gen].inbox = SubSeq(@, 1, k)]
    /\ agents' = [agents EXCEPT ![n] = Drained(@)]
    /\ UNCHANGED <<vars, registry, monitor>>

\* _load_model, on the serve_model that answers register.  A model stays loaded
\* across reconnects, and then the agent only reports it again.
LoadModel(n) ==
    /\ agents[n].gen # 0
    /\ conns[n][agents[n].gen].phase # "accepted"
    /\ ~agents[n].loaded
    /\ Sends(n, [agents[n] EXCEPT !.loaded = TRUE], <<>>)
    /\ UNCHANGED <<vars, registry, monitor>>

\* _work_poll_loop and the work_available message.
RequestWork(n) ==
    /\ CanAsk(agents[n])
    /\ Sends(n, agents[n], <<>>)
    /\ UNCHANGED <<vars, registry, monitor>>

\* _message_loop: an assignment, even an empty one, ends the request.
Receives(a, us) == [a EXCEPT !.inflight = FALSE, !.queue = @ \o us]

\* _work_loop takes what is queued as one batch, and asks for the next.
StartBatch(n) ==
    LET a == agents[n]
        k == IF Len(a.queue) < BatchSize THEN Len(a.queue) ELSE BatchSize
    IN  /\ a.running = <<>>
        /\ a.queue # <<>>
        /\ Sends(n, [a EXCEPT !.running = SubSeq(a.queue, 1, k),
                              !.queue = SubSeq(a.queue, k + 1, Len(a.queue))], <<>>)
        /\ UNCHANGED <<vars, registry, monitor>>

\* Mutant: when a unit fails, nothing of its batch is reported.
ReportsOfSuccess(us, out) ==
    IF \E i \in DOMAIN us : out[i] = None
    THEN <<>>
    ELSE [i \in DOMAIN us |-> WorkResult(us[i], out[i])]

\* _report_units, and the except branch of _work_loop: no answer is a failure.
Reports(us, out) ==
    [i \in DOMAIN us |->
        IF out[i] = None THEN WorkFailed(us[i]) ELSE WorkResult(us[i], out[i])]

\* The engine returns: each unit is reported by itself, whether or not its
\* lease still runs, and the agent asks for more.
FinishBatch(n) ==
    LET a == agents[n]
    IN  /\ a.running # <<>>
        /\ \E out \in [DOMAIN a.running -> Texts \cup {None}] :
              Sends(n, [a EXCEPT !.running = <<>>], Reports(a.running, out))
        /\ UNCHANGED <<vars, registry, monitor>>
-----------------------------------------------------------------------------
(***************************************************************************)
(* node_websocket: registration, the receive loop, the finally block.      *)
(***************************************************************************)

\* Mutant: only a stale entry is removed.
RemoveIfStale(n) ==
    registry' = [registry EXCEPT ![n] = IF @.stale THEN NoEntry ELSE @]

\* NodeRegistry.remove: goes by node id, whichever connection the entry is for.
Unregister(n) == registry' = [registry EXCEPT ![n] = NoEntry]

\* NodeRegistry.add: the entry replaces whatever the id had before.
Add(n, g) == registry' = [registry EXCEPT ![n] = [gen |-> g, stale |-> FALSE]]

\* The register message.
Register(n, g) ==
    /\ conns[n][g].phase = "accepted"
    /\ conns' = [conns EXCEPT ![n][g].phase = "open"]
    /\ Add(n, g)
    /\ UNCHANGED <<vars, monitor, agents>>

Handling(n, g) == conns[n][g].phase \in {"open", "closing"} /\ conns[n][g].inbox # <<>>

Handled(n, g) == conns' = [conns EXCEPT ![n][g].inbox = Tail(@)]

\* The model the handler leases for: that of the entry under the node's id.
LeaseModel(n) == IF Registered(n) THEN NodeModel[n] ELSE None

\* The lease() a request leads to: its capacity, up to the limit per request.
LeaseCount(c) == IF c < MaxLeasePerRequest THEN c ELSE MaxLeasePerRequest

\* WORK_REQUEST: lease, then answer on this handler's own socket.  Sending on a
\* socket the orchestrator has closed raises, and the handler reads no more; if
\* the node has left the connection unnoticed, the assignment is lost.
HandleRequest(n, g) ==
    /\ Handling(n, g)
    /\ Head(conns[n][g].inbox).type = "work_request"
    /\ LET count == LeaseCount(Head(conns[n][g].inbox).capacity)
           m == LeaseModel(n)
       IN  /\ Lease(n, count, m)
           /\ agents' = IF conns[n][g].phase = "open" /\ Linked(n, g)
                        THEN [agents EXCEPT ![n] = Receives(@, Assigned(count, m))]
                        ELSE agents
    /\ conns' = [conns EXCEPT ![n][g].inbox =
          IF conns[n][g].phase = "open" THEN Tail(@) ELSE <<>>]
    /\ UNCHANGED <<registry, monitor>>

\* WORK_RESULT.
HandleResult(n, g) ==
    /\ Handling(n, g)
    /\ LET msg == Head(conns[n][g].inbox)
       IN  msg.type = "work_result" /\ Complete(msg.unit, n, msg.text)
    /\ Handled(n, g)
    /\ UNCHANGED <<registry, monitor, agents>>

\* WORK_FAILED.
HandleFailed(n, g) ==
    /\ Handling(n, g)
    /\ LET msg == Head(conns[n][g].inbox)
       IN  msg.type = "work_failed" /\ Fail(msg.unit)
    /\ Handled(n, g)
    /\ UNCHANGED <<registry, monitor, agents>>

\* HEARTBEAT: refreshes the entry under the node's id, whichever it is.
Heartbeat(n, g) ==
    /\ conns[n][g].phase = "open"
    /\ Linked(n, g)
    /\ Registered(n)
    /\ registry' = [registry EXCEPT ![n].stale = FALSE]
    /\ UNCHANGED <<vars, conns, monitor, agents>>

\* The finally block, after a disconnect or an exception.  Everything in it
\* goes by node id.  A handler that never got to register has nothing to undo.
Leave(n, g) ==
    /\ conns' = [conns EXCEPT ![n][g] = [phase |-> "done", inbox |-> <<>>]]
    /\ UNCHANGED <<monitor, agents>>
    /\ \/ /\ conns[n][g].phase = "accepted" /\ ~Linked(n, g)
          /\ UNCHANGED <<vars, registry>>
       \/ /\ \/ conns[n][g].phase = "open" /\ ~Linked(n, g)
             \/ conns[n][g].phase = "closing"
          /\ ReleaseNode(n)
          /\ Unregister(n)
-----------------------------------------------------------------------------
(***************************************************************************)
(* heartbeat_monitor: list the stale nodes, then for each of them close    *)
(* its socket, wait for that, and forget the node.                         *)
(***************************************************************************)

\* heartbeat_timeout_sec passes without a heartbeat.
GoStale(n) ==
    /\ Registered(n)
    /\ registry[n].gen < MaxConns
    /\ ~registry[n].stale
    /\ registry' = [registry EXCEPT ![n].stale = TRUE]
    /\ UNCHANGED <<vars, conns, monitor, agents>>

Scan ==
    /\ monitor = [todo |-> {}, closing |-> None]
    /\ \E n \in Nodes : registry[n].stale
    /\ monitor' = [monitor EXCEPT !.todo = {n \in Nodes : registry[n].stale}]
    /\ UNCHANGED <<vars, conns, registry, agents>>

\* The list may be out of date: what is closed is the socket of the entry that
\* is there now.
CloseStale(n) ==
    /\ monitor.closing = None
    /\ n \in monitor.todo
    /\ \/ /\ ~Registered(n)
          /\ monitor' = [monitor EXCEPT !.todo = @ \ {n}]
          /\ UNCHANGED conns
       \/ /\ Registered(n)
          /\ registry[n].gen < MaxConns
          /\ monitor' = [todo |-> monitor.todo \ {n}, closing |-> n]
          /\ conns' = [conns EXCEPT ![n][registry[n].gen].phase =
                          IF @ = "open" THEN "closing" ELSE @]
    /\ UNCHANGED <<vars, registry, agents>>

\* ws.close() has returned; by now the id may have a new entry.
RemoveStale ==
    /\ monitor.closing # None
    /\ Unregister(monitor.closing)
    /\ monitor' = [monitor EXCEPT !.closing = None]
    /\ UNCHANGED <<vars, conns, agents>>
-----------------------------------------------------------------------------
ClientSubmit == Submit /\ UNCHANGED fleetVars

ClientCancel == (\E b \in BatchIds : CancelBatch(b)) /\ UNCHANGED fleetVars

Reap == Overdue # {} /\ ExpireLeases /\ UNCHANGED fleetVars

ClockTick == Tick /\ UNCHANGED fleetVars

\* What the handlers of one node's connections do.
HandlerStep(n, g) ==
    \/ Register(n, g)
    \/ HandleRequest(n, g)
    \/ HandleResult(n, g)
    \/ HandleFailed(n, g)
    \/ Leave(n, g)

MonitorStep == Scan \/ (\E n \in Nodes : CloseStale(n)) \/ RemoveStale

FleetNext ==
    \/ ClientSubmit \/ ClientCancel \/ Reap \/ ClockTick
    \/ MonitorStep
    \/ \E n \in Nodes :
          \/ Connect(n) \/ LoseConnection(n) \/ GoStale(n)
          \/ LoadModel(n) \/ RequestWork(n) \/ StartBatch(n) \/ FinishBatch(n)
          \/ \E g \in Gens : HandlerStep(n, g) \/ Heartbeat(n, g)

FleetSpec == FleetInit /\ [][FleetNext]_allVars

(***************************************************************************)
(* Fairness.  The event loop runs every ready handler, the monitor and the *)
(* reaper; time passes; a node reconnects for ever (`async for ws in       *)
(* connect`), polls for work and, unless its engine hangs, reports what it *)
(* decodes; a node whose socket the orchestrator has closed notices.       *)
(* Nothing is assumed of clients, of heartbeats, of an engine in Wedged or *)
(* of when connections are lost.                                           *)
(***************************************************************************)
NoticesClose(n) ==
    /\ LoseConnection(n)
    /\ conns[n][agents[n].gen].phase \in {"closing", "done"}

FleetFairness ==
    /\ WF_allVars(Reap)
    /\ WF_allVars(ClockTick)
    /\ WF_allVars(MonitorStep)
    /\ \A n \in Nodes :
          /\ WF_allVars(Connect(n))
          /\ WF_allVars(NoticesClose(n))
          /\ WF_allVars(LoadModel(n))
          /\ WF_allVars(RequestWork(n))
          /\ WF_allVars(StartBatch(n))
          /\ n \notin Wedged => WF_allVars(FinishBatch(n))
          /\ \A g \in Gens : WF_allVars(HandlerStep(n, g))

FairFleetSpec == FleetSpec /\ FleetFairness
-----------------------------------------------------------------------------
(***************************************************************************)
(* Properties.                                                             *)
(***************************************************************************)

\* A handler is `accepted` until it has read the register message, `open` in
\* its receive loop, `closing` after the orchestrator itself closed the socket,
\* and `done` once its finally block has run.
FleetTypeOK ==
    /\ conns \in [Nodes -> [Gens -> Conn]]
    /\ registry \in [Nodes -> [gen : 0 .. MaxConns, stale : BOOLEAN]]
    /\ monitor \in [todo : SUBSET Nodes, closing : Nodes \cup {None}]
    /\ agents \in [Nodes -> Agent]

\* registry.py: "every node here is one that currently holds an open outbound
\* WebSocket": an entry never outlives the handler of the connection that made
\* it, even when an old handler, the monitor and a reconnect interleave.
RegistryBacked ==
    \A n \in Nodes :
        Registered(n) => conns[n][registry[n].gen].phase \in {"open", "closing"}

\* A lease is never orphaned: as long as a unit is leased to a node, some
\* handler of that node still has its finally block ahead of it, so the unit
\* comes back with the disconnect and need not wait for the reaper.
LeaseBacked ==
    \A u \in UnitIds :
        units[u].state = "leased" =>
            \E g \in Gens : conns[units[u].node_id][g].phase \in {"open", "closing"}

\* Connection g is the only one of node n that the orchestrator serves, and
\* neither side has given it up.
Healthy(n, g) ==
    /\ Linked(n, g)
    /\ conns[n][g].phase = "open"
    /\ \A h \in Gens \ {g} : conns[n][h].phase \notin {"open", "closing"}

\* A report of unit u is on its way on connection g.
Reporting(n, g, u) ==
    \E i \in DOMAIN conns[n][g].inbox :
        /\ conns[n][g].inbox[i].type # "work_request"
        /\ conns[n][g].inbox[i].unit = u

\* No lease leaks on a healthy connection: a unit leased to the node is in the
\* agent's backlog, is being decoded or has its report on the way, whatever
\* reconnects, late finally blocks, expiries and second leases came before.
LeaseAccounted ==
    \A n \in Nodes, g \in Gens :
        Healthy(n, g) =>
            \A u \in HeldBy(n) :
                \/ \E i \in DOMAIN agents[n].queue : agents[n].queue[i] = u
                \/ \E i \in DOMAIN agents[n].running : agents[n].running[i] = u
                \/ Reporting(n, g, u)

\* _request_work: "a node cannot stack requests and end up holding more leases
\* than it can work through": one batch decoding and one waiting, however the
\* requests, assignments, reports and reconnects interleave.
LeaseBudget ==
    \A n \in Nodes, g \in Gens :
        Healthy(n, g) => Cardinality(HeldBy(n)) <= 2 * BatchSize

\* _message_loop: "Every work_request gets exactly one assignment back": as long
\* as an open or opening connection is in use, work_request_inflight is set
\* exactly when one request is on its way, so a reconnect or a cancelled worker
\* leaves the node neither mute nor asking twice.
RequestHonest ==
    \A n \in Nodes, g \in Gens :
        Linked(n, g) /\ conns[n][g].phase \in {"accepted", "open"} =>
            Cardinality({i \in DOMAIN conns[n][g].inbox :
                            conns[n][g].inbox[i].type = "work_request"})
              = (IF agents[n].inflight THEN 1 ELSE 0)

\* batch.py, lease(): "A unit that names a model is only handed to a node
\* serving that model."
ServedByItsModel ==
    \A u \in UnitIds :
        units[u].state = "leased" => units[u].model \in {None, NodeModel[units[u].node_id]}

\* A batch that a client submitted is not in progress for ever, although
\* assignments and reports die with their connections and a wedged node keeps
\* its units: every lost lease is found by a finally block or by the reaper, and
\* the other nodes keep asking.
BatchesFinish ==
    \A b \in BatchIds :
        batches[b].state = "in_progress" ~> batches[b].state # "in_progress"

\* No unit stays leased for ever, even to a node that never answers.
LeasesEnd ==
    \A u \in UnitIds : units[u].state = "leased" ~> units[u].state # "leased"
=============================================================================
