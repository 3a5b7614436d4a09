----------------------------- MODULE Interactive ----------------------------
(***************************************************************************)
(* Interactive requests: chat_completions and its SSE generator            *)
(* (src/orchestrator/api/completions.py), the sessions they read from      *)
(* (src/orchestrator/session.py), the node handler that feeds these        *)
(* (src/orchestrator/api/nodes.py) and the agent's generations             *)
(* (src/node_agent/__main__.py).                                           *)
(*                                                                         *)
(* An answer is the pieces 1 .. Pieces followed by a completion.  A        *)
(* generation runs in a thread that knows nothing of connections: what it  *)
(* emits goes to whichever outbox the agent has at that moment.            *)
(*                                                                         *)
(* Which of the ready nodes is least loaded is left open: heartbeats       *)
(* overwrite active_sessions with the node's own figure at any time.       *)
(***************************************************************************)
EXTENDS Integers, Sequences, FiniteSets

CONSTANTS
    Nodes,       \* node ids
    Models,      \* model ids
    NodeModel,   \* NodeModel[n]: the model node n serves
    Requests,    \* client requests; each is also the id of its session
    Pieces,      \* pieces in an answer
    None,        \* Python's None
    MaxConns     \* bound: connections one node ever opens; the last stays up

ASSUME InteractiveAssumption ==
    /\ NodeModel \in [Nodes -> Models]
    /\ Pieces \in Nat \ {0}
    /\ MaxConns \in Nat \ {0}
    /\ None \notin Nodes \cup Models \cup Requests

VARIABLES
    conns,       \* conns[n][g]: the handler of n's g-th connection
    registry,    \* registry[n]: the connection of n's entry (0: none), and READY
    agents,      \* the node agents
    sessions,    \* SessionManager.sessions, and those it has let go
    clients      \* where each request's coroutine is, and what it has received

vars == <<conns, registry, agents, sessions, clients>>

Gens == 1 .. MaxConns

Chunk(s, p)     == [type |-> "generate_chunk", session |-> s, piece |-> p]
Completion(s)   == [type |-> "generate_complete", session |-> s]
ErrorOf(s)      == [type |-> "generate_error", session |-> s]
ModelLoaded     == [type |-> "model_loaded"]

Message ==
    {Chunk(s, p) : s \in Requests, p \in 1 .. Pieces}
      \cup {Completion(s) : s \in Requests} \cup {ErrorOf(s) : s \in Requests} \cup {ModelLoaded}

Event == [kind : {"chunk"}, piece : 1 .. Pieces] \cup [kind : {"done", "error"}, piece : {0}]

Conn == [phase : {"unused", "accepted", "open", "done"}, inbox : Seq(Message)]

Agent ==
    [gen : 0 .. MaxConns, told : BOOLEAN, outbox : Seq(Message),
     jobs : [Requests -> 0 .. (Pieces + 1)]]

Session ==
    [state : {"pending", "generating", "complete", "failed"}, node : Nodes \cup {None},
     gen : 0 .. MaxConns, kept : BOOLEAN, events : Seq(Event)]

Client ==
    [phase : {"new", "sending", "streaming", "answered", "failed", "abandoned", "refused"},
     got : Seq(1 .. Pieces)]

NoEntry == [gen |-> 0, ready |-> FALSE]

NoSession == [state |-> "pending", node |-> None, gen |-> 0, kept |-> FALSE, events |-> <<>>]

Init ==
    /\ conns = [n \in Nodes |-> [g \in Gens |-> [phase |-> "unused", inbox |-> <<>>]]]
    /\ registry = [n \in Nodes |-> NoEntry]
    /\ agents = [n \in Nodes |->
          [gen |-> 0, told |-> FALSE, outbox |-> <<>>, jobs |-> [s \in Requests |-> 0]]]
    /\ sessions = [s \in Requests |-> NoSession]
    /\ clients = [s \in Requests |-> [phase |-> "new", got |-> <<>>]]
-----------------------------------------------------------------------------
(***************************************************************************)
(* InferenceSession.                                                       *)
(***************************************************************************)
Put(r, kind, p) == [r EXCEPT !.events = Append(@, [kind |-> kind, piece |-> p])]

PushChunk(r, p) == [Put(r, "chunk", p) EXCEPT !.state = "generating"]

CompleteSession(r) == [Put(r, "done", 0) EXCEPT !.state = "complete"]

\* Mutant: a session that has produced nothing yet is not told.
FailGenerating(r) ==
    IF r.state = "generating" THEN [Put(r, "error", 0) EXCEPT !.state = "failed"] ELSE r

FailSession(r) ==
    IF r.state \in {"complete", "failed"} THEN r
    ELSE [Put(r, "error", 0) EXCEPT !.state = "failed"]
-----------------------------------------------------------------------------
(***************************************************************************)
(* The node agent.                                                         *)
(***************************************************************************)
Linked(n, g) == agents[n].gen = g

\* Put a message in the outbox of the moment.  With a connection, it is on its
\* way; once the orchestrator has closed its end, it is lost; without one, it
\* waits for the next.
Sends(n, a, msg) ==
    IF a.gen = 0
    THEN /\ agents' = [agents EXCEPT ![n] = [a EXCEPT !.outbox = Append(@, msg)]]
         /\ UNCHANGED conns
    ELSE /\ agents' = [agents EXCEPT ![n] = a]
         /\ conns' = [conns EXCEPT ![n][a.gen].inbox =
               IF conns[n][a.gen].phase \in {"accepted", "open"} THEN Append(@, msg) ELSE @]

Connect(n) ==
    /\ agents[n].gen = 0
    /\ \E g \in Gens :
          /\ conns[n][g].phase = "unused"
          /\ \A h \in 1 .. (g - 1) : conns[n][h].phase # "unused"
          /\ conns' = [conns EXCEPT ![n][g] =
                [phase |-> "accepted", inbox |-> agents[n].outbox]]
          /\ agents' = [agents EXCEPT ![n].gen = g, ![n].told = FALSE, ![n].outbox = <<>>]
    /\ UNCHANGED <<registry, sessions, clients>>

\* Mutant: the messages of the lost connection are kept and sent again.
KeptOutbox(q) == q

\* _drain_work_queue: the outbox is replaced by an empty one.
NewOutbox(q) == <<>>

\* The node loses its connection, and with it the tail of what it sent; its
\* generations go on.
LoseConnection(n) ==
    /\ agents[n].gen \in 1 .. (MaxConns - 1)
    /\ LET q == conns[n][agents[n].gen].inbox
       IN  /\ \E k \in 0 .. Len(q) :
                 conns' = [conns EXCEPT ![n][agents[n].gen].inbox = SubSeq(q, 1, k)]
           /\ agents' = [agents EXCEPT ![n].gen = 0, ![n].outbox = NewOutbox(q)]
    /\ UNCHANGED <<registry, sessions, clients>>

\* serve_model, which answers register, makes the node report its model.
Tell(n) ==
    /\ agents[n].gen # 0
    /\ ~agents[n].told
    /\ conns[n][agents[n].gen].phase = "open"
    /\ Sends(n, [agents[n] EXCEPT !.told = TRUE], ModelLoaded)
    /\ UNCHANGED <<registry, sessions, clients>>

\* Mutant: the loop of produce() runs once more.
MoreByOne(p) == p <= Pieces + 1

\* The engine's stream has a p-th piece.
More(p) == p <= Pieces

\* _generate: the next piece, the completion after the last, or an error.
Emit(n, s) ==
    LET p == agents[n].jobs[s]
    IN  /\ p # 0
        /\ \/ /\ More(p)
              /\ Sends(n, [agents[n] EXCEPT !.jobs[s] = p + 1], Chunk(s, p))
           \/ /\ ~More(p)
              /\ Sends(n, [agents[n] EXCEPT !.jobs[s] = 0], Completion(s))
           \/ /\ More(p)
              /\ Sends(n, [agents[n] EXCEPT !.jobs[s] = 0], ErrorOf(s))
        /\ UNCHANGED <<registry, sessions, clients>>
-----------------------------------------------------------------------------
(***************************************************************************)
(* node_websocket and _handle.                                             *)
(***************************************************************************)
Register(n, g) ==
    /\ conns[n][g].phase = "accepted"
    /\ conns' = [conns EXCEPT ![n][g].phase = "open"]
    /\ registry' = [registry EXCEPT ![n] = [gen |-> g, ready |-> FALSE]]
    /\ UNCHANGED <<agents, sessions, clients>>

Handling(n, g, type) ==
    /\ conns[n][g].phase = "open"
    /\ conns[n][g].inbox # <<>>
    /\ Head(conns[n][g].inbox).type = type
    /\ conns' = [conns EXCEPT ![n][g].inbox = Tail(@)]

\* MODEL_LOADED: whichever entry the id has by now becomes READY.
HandleLoaded(n, g) ==
    /\ Handling(n, g, "model_loaded")
    /\ registry' = [registry EXCEPT ![n].ready = registry[n].gen # 0]
    /\ UNCHANGED <<agents, sessions, clients>>

\* A message about a session the manager no longer has is ignored.
Deliver(s, r) == sessions' = IF sessions[s].kept THEN [sessions EXCEPT ![s] = r] ELSE sessions

HandleGenerate(n, g) ==
    /\ \/ /\ Handling(n, g, "generate_chunk")
          /\ LET msg == Head(conns[n][g].inbox)
             IN  Deliver(msg.session, PushChunk(sessions[msg.session], msg.piece))
       \/ /\ Handling(n, g, "generate_complete")
          /\ LET msg == Head(conns[n][g].inbox)
             IN  Deliver(msg.session, CompleteSession(sessions[msg.session]))
       \/ /\ Handling(n, g, "generate_error")
          /\ LET msg == Head(conns[n][g].inbox)
             IN  Deliver(msg.session, FailSession(sessions[msg.session]))
    /\ UNCHANGED <<registry, agents, clients>>

\* The finally block: fail_sessions_for_node, then registry.remove, by node id.
Leave(n, g) ==
    /\ ~Linked(n, g)
    /\ conns' = [conns EXCEPT ![n][g] = [phase |-> "done", inbox |-> <<>>]]
    /\ \/ /\ conns[n][g].phase = "accepted"
          /\ UNCHANGED <<registry, sessions>>
       \/ /\ conns[n][g].phase = "open"
          /\ sessions' = [s \in Requests |->
                IF sessions[s].kept /\ sessions[s].node = n
                THEN FailSession(sessions[s]) ELSE sessions[s]]
          /\ registry' = [registry EXCEPT ![n] = NoEntry]
    /\ UNCHANGED <<agents, clients>>
-----------------------------------------------------------------------------
(***************************************************************************)
(* chat_completions.                                                       *)
(***************************************************************************)

\* get_ready_nodes: strict about the model, if one is named.
Candidates(model) ==
    {n \in Nodes : registry[n].ready /\ (model = None \/ NodeModel[n] = model)}

\* The coroutine is over: the session is removed, whatever else happens to it.
Ends(s, r, phase) ==
    /\ sessions' = [sessions EXCEPT ![s] = [r EXCEPT !.kept = FALSE, !.events = <<>>]]
    /\ clients' = [clients EXCEPT ![s].phase = phase]

Refuse(s) ==
    /\ clients[s].phase = "new"
    /\ \E model \in Models \cup {None} : Candidates(model) = {}
    /\ clients' = [clients EXCEPT ![s].phase = "refused"]
    /\ UNCHANGED <<conns, registry, agents, sessions>>

Pick(s) ==
    /\ clients[s].phase = "new"
    /\ \E model \in Models \cup {None} : \E n \in Candidates(model) :
          sessions' = [sessions EXCEPT ![s] =
              [NoSession EXCEPT !.node = n, !.gen = registry[n].gen, !.kept = TRUE]]
    /\ clients' = [clients EXCEPT ![s].phase = "sending"]
    /\ UNCHANGED <<conns, registry, agents>>

\* send_json goes to the socket of the entry that was picked.  If the node has
\* left it, the request goes nowhere, with or without an exception.
Dispatch(s) ==
    LET n == sessions[s].node
        g == sessions[s].gen
    IN  /\ clients[s].phase = "sending"
        /\ \/ /\ agents' = IF Linked(n, g) THEN [agents EXCEPT ![n].jobs[s] = 1] ELSE agents
              /\ clients' = [clients EXCEPT ![s].phase = "streaming"]
              /\ UNCHANGED sessions
           \/ /\ ~Linked(n, g)
              /\ Ends(s, sessions[s], "failed")
              /\ UNCHANGED agents
        /\ UNCHANGED <<conns, registry>>

\* stream(): one event.
Consume(s) ==
    /\ clients[s].phase = "streaming"
    /\ sessions[s].events # <<>>
    /\ LET e == Head(sessions[s].events)
       IN  \/ /\ e.kind = "chunk"
              /\ sessions' = [sessions EXCEPT ![s].events = Tail(@)]
              /\ clients' = [clients EXCEPT ![s].got = Append(@, e.piece)]
           \/ e.kind = "done" /\ Ends(s, sessions[s], "answered")
           \/ e.kind = "error" /\ Ends(s, sessions[s], "failed")
    /\ UNCHANGED <<conns, registry, agents>>

\* chunk_timeout_sec without an event, or the end of generation_timeout_sec.
TimeOut(s) ==
    /\ clients[s].phase = "streaming"
    /\ Ends(s, FailSession(sessions[s]), "failed")
    /\ UNCHANGED <<conns, registry, agents>>

\* The client of an SSE response goes away, and the generator is closed.
Abandon(s) ==
    /\ clients[s].phase = "streaming"
    /\ Ends(s, sessions[s], "abandoned")
    /\ UNCHANGED <<conns, registry, agents>>
-----------------------------------------------------------------------------
HandlerStep(n, g) ==
    Register(n, g) \/ HandleLoaded(n, g) \/ HandleGenerate(n, g) \/ Leave(n, g)

Next ==
    \/ \E n \in Nodes :
          \/ Connect(n) \/ LoseConnection(n) \/ Tell(n)
          \/ \E s \in Requests : Emit(n, s)
          \/ \E g \in Gens : HandlerStep(n, g)
    \/ \E s \in Requests :
          Refuse(s) \/ Pick(s) \/ Dispatch(s) \/ Consume(s) \/ TimeOut(s) \/ Abandon(s)

Spec == Init /\ [][Next]_vars

(***************************************************************************)
(* Fairness: ready handlers and request coroutines run, generations make   *)
(* progress.  Timeouts are left out on purpose: no request may need one    *)
(* to end as long as engines answer.                                       *)
(***************************************************************************)
Fairness ==
    /\ \A n \in Nodes :
          /\ WF_vars(Connect(n))
          /\ \A s \in Requests : WF_vars(Emit(n, s))
          /\ \A g \in Gens : WF_vars(HandlerStep(n, g))
    /\ \A s \in Requests : WF_vars(Dispatch(s)) /\ WF_vars(Consume(s))

FairSpec == Spec /\ Fairness
-----------------------------------------------------------------------------
(***************************************************************************)
(* Properties.                                                             *)
(***************************************************************************)

\* Every variable keeps its shape.
TypeOK ==
    /\ conns \in [Nodes -> [Gens -> Conn]]
    /\ registry \in [Nodes -> [gen : 0 .. MaxConns, ready : BOOLEAN]]
    /\ agents \in [Nodes -> Agent]
    /\ sessions \in [Requests -> Session]
    /\ clients \in [Requests -> Client]

\* A request whose connection's handler is gone does not wait for its timeout:
\* the queue of its session already holds the event that ends it, whatever
\* chunks, completions and failures crossed with the disconnect, and although
\* the node may long be back on another connection.
NoneLeftHanging ==
    \A s \in Requests :
        clients[s].phase \in {"sending", "streaming"}
          /\ conns[sessions[s].node][sessions[s].gen].phase = "done" =>
            \E i \in DOMAIN sessions[s].events : sessions[s].events[i].kind # "chunk"

\* No piece reaches the client twice, although an answer may come over two
\* connections, through two handlers.
NoRepeats ==
    \A s \in Requests : \A i, j \in DOMAIN clients[s].got :
        clients[s].got[i] = clients[s].got[j] => i = j

\* A request that was dispatched ends, without the help of a timeout.
RequestsEnd ==
    \A s \in Requests :
        clients[s].phase \in {"sending", "streaming"}
            ~> clients[s].phase \in {"answered", "failed", "abandoned"}

\* session.py, stream(): "Raises SessionFailure on node error, node loss, or
\* timeout": what is answered without a failure is the whole answer.  It does
\* not hold: pieces are lost with a connection, the rest comes over the next
\* one, and the session completes before the old handler fails it.
WholeAnswer ==
    \A s \in Requests :
        clients[s].phase = "answered" => clients[s].got = [p \in 1 .. Pieces |-> p]
=============================================================================
