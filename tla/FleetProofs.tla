---------------------------- MODULE FleetProofs -----------------------------
(***************************************************************************)
(* Proofs about Fleet for every number of nodes, connections, units and    *)
(* batches, every batch size and every interleaving of handlers, monitor,  *)
(* reaper and agents.                                                      *)
(*                                                                         *)
(* The invariants lean on one another.  That the leases of a healthy       *)
(* connection are all at its node (LeaseAccounted) and that the node has   *)
(* one honest request out (OneRequest) bound the leases (LeaseBudget): the *)
(* request asks for no more than the backlog has room for, and what was    *)
(* leased before is in the backlog, decoding, or on its way back as a      *)
(* report.  OneRequest also counts those places, so that it can be kept    *)
(* through every message; that a closed connection's leases went with it   *)
(* (LeaseBacked) makes a new connection start from nothing.                *)
(***************************************************************************)
EXTENDS Fleet, BatchStoreProofs

\* A batch size is a positive number of units.
LEMMA BatchSizePositive ==
    BatchSize \in Nat /\ BatchSize >= 1 /\ \A c \in 1 .. BatchSize : c \in UnitIds
BY FleetAssumption, BoundsAssumption DEF UnitIds

\* The three kinds of message and what each carries.
LEMMA MessageForms ==
    ASSUME NEW msg \in Message
    PROVE  \/ msg.type = "work_request" /\ msg.capacity \in 1 .. BatchSize
           \/ msg.type = "work_result" /\ msg.unit \in UnitIds /\ msg.text \in Texts
           \/ msg.type = "work_failed" /\ msg.unit \in UnitIds
BY DEF Message, WorkRequest, WorkResult, WorkFailed

\* What a handler asks of lease() on a request is within lease()'s domain, and
\* never more than the request.
LEMMA LeaseArguments ==
    ASSUME NEW n \in Nodes, NEW c \in 1 .. BatchSize
    PROVE  /\ LeaseCount(c) \in UnitIds /\ LeaseCount(c) <= c
           /\ LeaseModel(n) \in Models \cup {None}
<1>1. LeaseCount(c) \in 1 .. BatchSize /\ LeaseCount(c) <= c
  BY FleetAssumption, BatchSizePositive DEF LeaseCount
<1>2. LeaseModel(n) \in Models \cup {None}
  BY FleetAssumption DEF LeaseModel
<1> QED
  BY <1>1, <1>2, BatchSizePositive

\* An assignment lists every granted unit, and at most `count` of them.
LEMMA AssignedUnits ==
    ASSUME pending \in Seq(UnitIds), NEW count \in UnitIds, NEW m
    PROVE  /\ Assigned(count, m) \in Seq(UnitIds)
           /\ Len(Assigned(count, m)) <= count
           /\ \A u \in Granted(count, m) :
                 \E k \in DOMAIN Assigned(count, m) : Assigned(count, m)[k] = u
<1> DEFINE T == Takes(m)
           K == T \cap Scanned(count, m)
<1>1. count \in Nat /\ count >= 1 /\ Len(pending) \in Nat /\ DOMAIN pending = 1 .. Len(pending)
  BY BoundsAssumption, LenProperties DEF UnitIds
<1>2. K \in SUBSET DOMAIN pending /\ T \in SUBSET DOMAIN pending
  BY DEF Takes, Scanned
<1>3. IsFiniteSet(K) /\ IsFiniteSet(T) /\ K \in SUBSET Int /\ T \in SUBSET Int
  <2>1. IsFiniteSet(1 .. Len(pending)) /\ 1 .. Len(pending) \in SUBSET Int
    BY <1>1, FS_Interval
  <2>2. K \in SUBSET (1 .. Len(pending)) /\ T \in SUBSET (1 .. Len(pending))
    BY <1>1, <1>2
  <2> HIDE DEF K, T
  <2> QED
    BY <2>1, <2>2, FS_Subset
<1>4. /\ Assigned(count, m) \in Seq(UnitIds)
      /\ \A i \in K : \E k \in DOMAIN Assigned(count, m) : Assigned(count, m)[k] = pending[i]
  BY <1>2, SelectProperties DEF Assigned
<1>5. Cardinality(K) \in Nat /\ Rank(K) \in Surjection(K, 1 .. Cardinality(K))
  BY <1>3, RankIsBijection
<1>6. Len(Assigned(count, m)) = Cardinality(K)
  BY <1>5 DEF Assigned, Select
<1>7. Cardinality(K) <= count
  <2>1. CASE Cardinality(K) = 0
    BY <1>1, <2>1
  <2>2. CASE Cardinality(K) # 0
    <3>1. Cardinality(K) \in 1 .. Cardinality(K)
      BY <1>5, <2>2
    <3>2. PICK i \in K : Rank(K)[i] = Cardinality(K)
      BY <1>5, <3>1 DEF Surjection
    <3> DEFINE upto == {j \in K : j <= i}
               before == {j \in T : j < i}
    <3>3. Cardinality(upto) = Cardinality(K)
      BY <3>2 DEF Rank
    <3>4. IsFiniteSet(before) /\ Cardinality(before) < count
      <4>1. before \in SUBSET T
        OBVIOUS
      <4>2. IsFiniteSet(before)
        BY <4>1, <1>3, FS_Subset
      <4>3. i \in Scanned(count, m)
        OBVIOUS
      <4> QED
        BY <4>2, <4>3 DEF Scanned
    <3>5. upto \in SUBSET (before \cup {i})
      <4> SUFFICES ASSUME NEW j \in upto, j # i PROVE j \in before
        OBVIOUS
      <4>1. i \in Int /\ j \in Int /\ j <= i /\ j \in T
        BY <1>3
      <4> QED
        BY <4>1
    <3>6. /\ IsFiniteSet(before \cup {i})
          /\ Cardinality(before \cup {i}) <= Cardinality(before) + 1
          /\ Cardinality(before) \in Nat /\ Cardinality(before \cup {i}) \in Nat
      <4> HIDE DEF before
      <4>1. Cardinality(before) \in Nat
        BY <3>4, FS_CardinalityType
      <4>2. /\ IsFiniteSet(before \cup {i})
            /\ Cardinality(before \cup {i}) \in {Cardinality(before), Cardinality(before) + 1}
        BY <3>4, FS_AddElement
      <4> QED
        BY <4>1, <4>2
    <3>7. Cardinality(upto) <= Cardinality(before \cup {i})
      BY <3>5, <3>6, FS_Subset
    <3> HIDE DEF upto, before
    <3> QED
      BY <1>1, <1>5, <3>3, <3>4, <3>6, <3>7
  <2> QED
    BY <2>1, <2>2
<1>8. ASSUME NEW u \in Granted(count, m)
      PROVE  \E k \in DOMAIN Assigned(count, m) : Assigned(count, m)[k] = u
  BY <1>4 DEF Granted
<1> QED
  BY <1>4, <1>6, <1>7, <1>8
-----------------------------------------------------------------------------
(***************************************************************************)
(* What the fleet's actions change, connection by connection and agent by  *)
(* agent.                                                                  *)
(***************************************************************************)
OnlyConn(n, g) ==
    \A x \in Nodes, h \in Gens : x # n \/ h # g => conns'[x][h] = conns[x][h]

OnlyAgent(n) == \A x \in Nodes : x # n => agents'[x] = agents[x]

Typed ==
    /\ conns \in [Nodes -> [Gens -> Conn]]
    /\ agents \in [Nodes -> Agent]

InboxBecomes(n, g, q) == conns' = [conns EXCEPT ![n][g].inbox = q]

PhaseBecomes(n, g, p) == conns' = [conns EXCEPT ![n][g].phase = p]

\* A connection that is replaced as a whole.
LEMMA ConnReplaced ==
    ASSUME Typed, NEW n \in Nodes, NEW g \in Gens, NEW c \in Conn,
           conns' = [conns EXCEPT ![n][g] = c]
    PROVE  /\ conns' \in [Nodes -> [Gens -> Conn]]
           /\ conns'[n][g] = c
           /\ OnlyConn(n, g)
BY DEF Typed, OnlyConn

\* A connection whose inbox changes.
LEMMA InboxReplaced ==
    ASSUME Typed, NEW n \in Nodes, NEW g \in Gens, NEW q \in Seq(Message),
           InboxBecomes(n, g, q)
    PROVE  /\ conns' \in [Nodes -> [Gens -> Conn]]
           /\ conns'[n][g].inbox = q
           /\ conns'[n][g].phase = conns[n][g].phase
           /\ OnlyConn(n, g)
<1> DEFINE c == [conns[n][g] EXCEPT !.inbox = q]
<1>1. conns[n][g] \in Conn
  BY DEF Typed
<1>2. c \in Conn /\ c.inbox = q /\ c.phase = conns[n][g].phase
  BY <1>1 DEF Conn
<1>3. conns' = [conns EXCEPT ![n][g] = c]
  BY DEF InboxBecomes
<1>4. conns' \in [Nodes -> [Gens -> Conn]] /\ conns'[n][g] = c /\ OnlyConn(n, g)
  <2> HIDE DEF c
  <2> QED
    BY <1>2, <1>3 DEF Typed, OnlyConn
<1> HIDE DEF c
<1> QED
  BY <1>2, <1>4

\* A connection whose phase changes.
LEMMA PhaseReplaced ==
    ASSUME Typed, NEW n \in Nodes, NEW g \in Gens,
           NEW p \in {"unused", "accepted", "open", "closing", "done"},
           PhaseBecomes(n, g, p)
    PROVE  /\ conns' \in [Nodes -> [Gens -> Conn]]
           /\ conns'[n][g].phase = p
           /\ conns'[n][g].inbox = conns[n][g].inbox
           /\ OnlyConn(n, g)
<1> DEFINE c == [conns[n][g] EXCEPT !.phase = p]
<1>1. conns[n][g] \in Conn
  BY DEF Typed
<1>2. c \in Conn /\ c.phase = p /\ c.inbox = conns[n][g].inbox
  BY <1>1 DEF Conn
<1>3. conns' = [conns EXCEPT ![n][g] = c]
  BY DEF PhaseBecomes
<1>4. conns' \in [Nodes -> [Gens -> Conn]] /\ conns'[n][g] = c /\ OnlyConn(n, g)
  <2> HIDE DEF c
  <2> QED
    BY <1>2, <1>3 DEF Typed, OnlyConn
<1> HIDE DEF c
<1> QED
  BY <1>2, <1>4

\* An agent that is replaced.
LEMMA AgentReplaced ==
    ASSUME Typed, NEW n \in Nodes, NEW a \in Agent, agents' = [agents EXCEPT ![n] = a]
    PROVE  agents' \in [Nodes -> Agent] /\ agents'[n] = a /\ OnlyAgent(n)
BY DEF Typed, OnlyAgent

\* An agent asks for what its backlog has room for, or not at all.
LEMMA AskingForms ==
    ASSUME NEW a \in Agent
    PROVE  /\ Asking(a) \in Seq(Message)
           /\ CanAsk(a) => /\ ~a.inflight /\ Len(a.queue) < BatchSize
                           /\ Asking(a) = <<WorkRequest(BatchSize - Len(a.queue))>>
                           /\ BatchSize - Len(a.queue) \in 1 .. BatchSize
           /\ ~CanAsk(a) => Asking(a) = <<>>
<1>1. Len(a.queue) \in Nat
  BY LenProperties DEF Agent
<1>2. CASE CanAsk(a)
  <2>1. BatchSize - Len(a.queue) \in 1 .. BatchSize
    BY <1>1, <1>2, BatchSizePositive DEF CanAsk
  <2>2. WorkRequest(BatchSize - Len(a.queue)) \in Message
    BY <2>1 DEF Message
  <2> QED
    BY <1>2, <2>1, <2>2 DEF CanAsk, Asking
<1>3. CASE ~CanAsk(a)
  BY <1>3 DEF Asking
<1> QED
  BY <1>2, <1>3

\* What Sends does.
LEMMA SendsEffect ==
    ASSUME Typed, NEW n \in Nodes, NEW a \in Agent, NEW msgs \in Seq(Message),
           a.gen = agents[n].gen, Sends(n, a, msgs)
    PROVE  LET g == agents[n].gen
               c == conns[n][g]
           IN  /\ Typed' /\ OnlyConn(n, g) /\ OnlyAgent(n)
               /\ g \in Gens
               /\ conns'[n][g].phase = c.phase
               /\ c.phase \in {"accepted", "open"} =>
                     conns'[n][g].inbox = c.inbox \o (msgs \o Asking(a))
               /\ agents'[n].gen = g
               /\ agents'[n].queue = a.queue
               /\ agents'[n].running = a.running
               /\ agents'[n].inflight = (a.inflight \/ CanAsk(a))
<1> DEFINE g == agents[n].gen
           q == IF conns[n][g].phase \in {"accepted", "open"}
                THEN conns[n][g].inbox \o msgs \o Asking(a)
                ELSE conns[n][g].inbox
           b == [a EXCEPT !.inflight = @ \/ CanAsk(a)]
<1>1. g \in Gens
  BY FleetAssumption DEF Typed, Agent, Sends, Gens
<1>2. Asking(a) \in Seq(Message)
  BY AskingForms
<1>3. conns[n][g] \in Conn /\ conns[n][g].inbox \in Seq(Message)
  BY <1>1 DEF Typed, Conn
<1>4. conns[n][g].inbox \o msgs \o Asking(a) = conns[n][g].inbox \o (msgs \o Asking(a))
  <2> DEFINE i == conns[n][g].inbox
             k == Asking(a)
  <2>1. i \in Seq(Message) /\ k \in Seq(Message)
    BY <1>2, <1>3
  <2> HIDE DEF i, k
  <2>2. (i \o msgs) \o k = i \o (msgs \o k)
    BY <2>1, ConcatAssociative
  <2> QED
    BY <2>2 DEF i, k
<1>5. q \in Seq(Message)
  BY <1>2, <1>3, ConcatProperties
<1>6. InboxBecomes(n, g, q)
  BY DEF Sends, InboxBecomes
<1>7. /\ b \in Agent /\ b.gen = g /\ b.queue = a.queue /\ b.running = a.running
      /\ b.inflight = (a.inflight \/ CanAsk(a))
  BY DEF Agent, CanAsk
<1>8. agents' = [agents EXCEPT ![n] = b]
  BY DEF Sends
<1>9. /\ conns' \in [Nodes -> [Gens -> Conn]]
      /\ conns'[n][g].inbox = q
      /\ conns'[n][g].phase = conns[n][g].phase
      /\ OnlyConn(n, g)
  <2> HIDE DEF q, g
  <2> QED
    BY <1>1, <1>5, <1>6, InboxReplaced
<1>10. agents' \in [Nodes -> Agent] /\ agents'[n] = b /\ OnlyAgent(n)
  <2> HIDE DEF b
  <2> QED
    BY <1>7, <1>8, AgentReplaced
<1>11. Typed'
  BY <1>9, <1>10 DEF Typed
<1> HIDE DEF b
<1> QED
  BY <1>1, <1>4, <1>7, <1>9, <1>10, <1>11

\* A node opens a connection.
LEMMA ConnectEffect ==
    ASSUME Typed, NEW n \in Nodes, Connect(n)
    PROVE  /\ Typed' /\ OnlyAgent(n)
           /\ agents[n].gen = 0
           /\ \E g \in Gens :
                 /\ OnlyConn(n, g)
                 /\ conns[n][g].phase = "unused"
                 /\ conns'[n][g].phase = "accepted"
                 /\ conns'[n][g].inbox = Carried(agents[n])
                 /\ agents'[n].gen = g
                 /\ agents'[n].queue = agents[n].queue
                 /\ agents'[n].running = agents[n].running
                 /\ agents'[n].inflight = agents[n].inflight
<1> DEFINE q == Carried(agents[n])
           c == [phase |-> "accepted", inbox |-> q]
<1>1. agents[n] \in Agent
  BY DEF Typed
<1>2. PICK g \in Gens : /\ conns[n][g].phase = "unused"
                        /\ conns' = [conns EXCEPT ![n][g] = c]
                        /\ agents' = [agents EXCEPT ![n].gen = g]
  BY DEF Connect
<1> DEFINE a == [agents[n] EXCEPT !.gen = g]
<1>3. q \in Seq(Message)
  <2>1. WorkRequest(BatchSize) \in Message
    BY BatchSizePositive DEF Message
  <2> QED
    BY <2>1 DEF Carried
<1>4. c \in Conn /\ c.phase = "accepted" /\ c.inbox = q
  BY <1>3 DEF Conn
<1>5. conns' \in [Nodes -> [Gens -> Conn]] /\ conns'[n][g] = c /\ OnlyConn(n, g)
  <2> HIDE DEF c
  <2> QED
    BY <1>2, <1>4, ConnReplaced
<1>6. /\ a \in Agent /\ a.gen = g /\ a.queue = agents[n].queue
      /\ a.running = agents[n].running /\ a.inflight = agents[n].inflight
  BY <1>1, FleetAssumption DEF Agent, Gens
<1>7. agents' \in [Nodes -> Agent] /\ agents'[n] = a /\ OnlyAgent(n)
  <2>1. agents' = [agents EXCEPT ![n] = a]
    BY <1>2
  <2> HIDE DEF a
  <2> QED
    BY <1>6, <2>1, AgentReplaced
<1>8. agents[n].gen = 0
  BY DEF Connect
<1>9. Typed'
  BY <1>5, <1>7 DEF Typed
<1> HIDE DEF a, c
<1> QED
  BY <1>2, <1>4, <1>5, <1>6, <1>7, <1>8, <1>9

\* A node loses its connection.
LEMMA LoseEffect ==
    ASSUME Typed, NEW n \in Nodes, LoseConnection(n)
    PROVE  /\ Typed' /\ OnlyAgent(n)
           /\ agents[n].gen \in Gens
           /\ OnlyConn(n, agents[n].gen)
           /\ conns'[n][agents[n].gen].phase = conns[n][agents[n].gen].phase
           /\ agents'[n].gen = 0
           /\ agents'[n].queue = <<>> /\ agents'[n].running = <<>>
<1> DEFINE g == agents[n].gen
           c == conns[n][g]
           a == Drained(agents[n])
<1>1. agents[n] \in Agent /\ g \in Gens
  BY FleetAssumption DEF Typed, LoseConnection, Gens
<1>2. c \in Conn /\ c.inbox \in Seq(Message)
  BY <1>1 DEF Typed, Conn
<1>3. PICK k \in 0 .. Len(c.inbox) : InboxBecomes(n, g, SubSeq(c.inbox, 1, k))
  BY DEF LoseConnection, InboxBecomes
<1>4. SubSeq(c.inbox, 1, k) \in Seq(Message)
  <2>1. /\ Len(c.inbox) \in Nat
        /\ \A i \in 1 .. k : i \in 1 .. Len(c.inbox) /\ c.inbox[i] \in Message
    BY <1>2, LenProperties
  <2> HIDE DEF c
  <2> QED
    BY <1>3, <2>1, SubSeqProperties
<1>5. /\ conns' \in [Nodes -> [Gens -> Conn]]
      /\ conns'[n][g].phase = c.phase
      /\ OnlyConn(n, g)
  <2> DEFINE q == SubSeq(c.inbox, 1, k)
  <2>1. q \in Seq(Message) /\ InboxBecomes(n, g, q)
    BY <1>3, <1>4
  <2> HIDE DEF q, g
  <2> QED
    BY <1>1, <2>1, InboxReplaced
<1>6. a \in Agent /\ a.gen = 0 /\ a.queue = <<>> /\ a.running = <<>>
  <2> DEFINE asks == agents[n].running # <<>>
  <2>1. a = [agents[n] EXCEPT !.gen = 0, !.inflight = asks, !.queue = <<>>, !.running = <<>>]
    BY DEF Drained
  <2>2. /\ asks \in BOOLEAN /\ 0 \in 0 .. MaxConns /\ <<>> \in Seq(UnitIds)
        /\ agents[n].loaded \in BOOLEAN
    BY <1>1, FleetAssumption DEF Agent
  <2>3. a = [gen |-> 0, loaded |-> agents[n].loaded, inflight |-> asks,
             queue |-> <<>>, running |-> <<>>]
    BY <1>1, <2>1 DEF Agent
  <2> HIDE DEF asks, a
  <2> QED
    BY <2>2, <2>3 DEF Agent
<1>7. agents' \in [Nodes -> Agent] /\ agents'[n] = a /\ OnlyAgent(n)
  <2>1. agents' = [agents EXCEPT ![n] = a]
    BY DEF LoseConnection
  <2> HIDE DEF a
  <2> QED
    BY <1>6, <2>1, AgentReplaced
<1>8. Typed'
  BY <1>5, <1>7 DEF Typed
<1> HIDE DEF a
<1> QED
  BY <1>1, <1>5, <1>6, <1>7, <1>8

\* A handler takes the first message of its inbox and no agent notices.
LEMMA HandledEffect ==
    ASSUME Typed, NEW n \in Nodes, NEW g \in Gens, Handling(n, g), Handled(n, g),
           UNCHANGED agents
    PROVE  /\ Typed' /\ OnlyConn(n, g)
           /\ conns'[n][g].phase = conns[n][g].phase
           /\ conns'[n][g].inbox = Tail(conns[n][g].inbox)
           /\ conns[n][g].inbox \in Seq(Message) /\ conns[n][g].inbox # <<>>
<1> DEFINE q == Tail(conns[n][g].inbox)
<1>1. conns[n][g] \in Conn /\ conns[n][g].inbox \in Seq(Message) /\ conns[n][g].inbox # <<>>
  BY DEF Typed, Conn, Handling
<1>2. q \in Seq(Message) /\ InboxBecomes(n, g, q)
  BY <1>1, HeadTailProperties DEF Handled, InboxBecomes
<1>3. /\ conns' \in [Nodes -> [Gens -> Conn]] /\ conns'[n][g].inbox = q
      /\ conns'[n][g].phase = conns[n][g].phase /\ OnlyConn(n, g)
  <2> HIDE DEF q
  <2> QED
    BY <1>2, InboxReplaced
<1>4. Typed'
  BY <1>3 DEF Typed
<1> QED
  BY <1>1, <1>3, <1>4

\* A handler leaves the receive loop.
LEMMA LeaveEffect ==
    ASSUME Typed, NEW n \in Nodes, NEW g \in Gens, Leave(n, g)
    PROVE  /\ Typed' /\ OnlyConn(n, g) /\ agents' = agents
           /\ conns'[n][g].phase = "done" /\ conns'[n][g].inbox = <<>>
<1> DEFINE c == [phase |-> "done", inbox |-> <<>>]
<1>1. c \in Conn /\ c.phase = "done" /\ c.inbox = <<>>
  BY DEF Conn
<1>2. conns' = [conns EXCEPT ![n][g] = c] /\ agents' = agents
  BY DEF Leave
<1> HIDE DEF c
<1>3. conns' \in [Nodes -> [Gens -> Conn]] /\ conns'[n][g] = c /\ OnlyConn(n, g)
  BY <1>1, <1>2, ConnReplaced
<1> QED
  BY <1>1, <1>2, <1>3 DEF Typed

\* A handler leases for a request; the node may or may not get the assignment.
LEMMA HandleRequestEffect ==
    ASSUME Typed, IInv, NEW n \in Nodes, NEW g \in Gens, HandleRequest(n, g)
    PROVE  LET a == agents[n]
               c == conns[n][g]
               capacity == Head(c.inbox).capacity
               as == Assigned(LeaseCount(capacity), LeaseModel(n))
           IN  /\ Typed' /\ OnlyConn(n, g) /\ OnlyAgent(n)
               /\ capacity \in 1 .. BatchSize
               /\ Head(c.inbox).type = "work_request"
               /\ LeaseCount(capacity) \in UnitIds /\ LeaseCount(capacity) <= capacity
               /\ LeaseModel(n) \in Models \cup {None}
               /\ Lease(n, LeaseCount(capacity), LeaseModel(n))
               /\ c.phase \in {"open", "closing"}
               /\ c.inbox \in Seq(Message) /\ c.inbox # <<>>
               /\ conns'[n][g].phase = c.phase
               /\ c.phase = "open" => conns'[n][g].inbox = Tail(c.inbox)
               /\ agents'[n].gen = a.gen
               /\ IF c.phase = "open" /\ Linked(n, g)
                  THEN /\ agents'[n].inflight = FALSE
                       /\ agents'[n].queue = a.queue \o as
                       /\ agents'[n].running = a.running
                  ELSE agents'[n] = a
<1> DEFINE c == conns[n][g]
           msg == Head(c.inbox)
           count == LeaseCount(msg.capacity)
           as == Assigned(count, LeaseModel(n))
           q == IF c.phase = "open" THEN Tail(c.inbox) ELSE <<>>
           b == Receives(agents[n], as)
<1>1. c \in Conn /\ c.inbox \in Seq(Message) /\ c.inbox # <<>> /\ agents[n] \in Agent
  BY DEF Typed, Conn, HandleRequest, Handling
<1>2. msg \in Message /\ Tail(c.inbox) \in Seq(Message)
  BY <1>1, HeadTailProperties
<1>3. msg.type = "work_request" /\ msg.capacity \in 1 .. BatchSize
  BY <1>2, MessageForms DEF HandleRequest
<1>4. count \in UnitIds /\ count <= msg.capacity /\ LeaseModel(n) \in Models \cup {None}
  BY <1>3, LeaseArguments
<1>5. as \in Seq(UnitIds)
  BY <1>4, AssignedUnits DEF IInv, TypeOK
<1>6. q \in Seq(Message) /\ InboxBecomes(n, g, q)
  BY <1>2 DEF HandleRequest, InboxBecomes
<1>7. /\ conns' \in [Nodes -> [Gens -> Conn]] /\ conns'[n][g].inbox = q
      /\ conns'[n][g].phase = c.phase /\ OnlyConn(n, g)
  <2> HIDE DEF q
  <2> QED
    BY <1>6, InboxReplaced
<1>8. /\ b \in Agent /\ b.gen = agents[n].gen /\ b.inflight = FALSE
      /\ b.queue = agents[n].queue \o as /\ b.running = agents[n].running
  <2> DEFINE w == agents[n].queue \o as
  <2>1. agents[n].queue \in Seq(UnitIds)
    BY <1>1 DEF Agent
  <2>2. w \in Seq(UnitIds)
    BY <1>5, <2>1, ConcatProperties
  <2>3. b = [agents[n] EXCEPT !.inflight = FALSE, !.queue = w]
    BY DEF Receives
  <2> HIDE DEF w, b
  <2>4. b \in Agent /\ b.queue = w
    BY <1>1, <2>2, <2>3 DEF Agent
  <2>5. b.gen = agents[n].gen /\ b.inflight = FALSE /\ b.running = agents[n].running
    BY <1>1, <2>3 DEF Agent
  <2> QED
    BY <2>4, <2>5 DEF w
<1>9. /\ agents' \in [Nodes -> Agent] /\ OnlyAgent(n)
      /\ agents'[n] = IF c.phase = "open" /\ Linked(n, g) THEN b ELSE agents[n]
  <2>1. CASE c.phase = "open" /\ Linked(n, g)
    <3>1. agents' = [agents EXCEPT ![n] = b]
      BY <2>1 DEF HandleRequest
    <3> HIDE DEF b
    <3> QED
      BY <1>8, <2>1, <3>1, AgentReplaced
  <2>2. CASE ~(c.phase = "open" /\ Linked(n, g))
    BY <2>2 DEF HandleRequest, Typed, OnlyAgent
  <2> QED
    BY <2>1, <2>2
<1>10. Lease(n, count, LeaseModel(n)) /\ c.phase \in {"open", "closing"}
  BY DEF HandleRequest, Handling
<1>11. Typed'
  BY <1>7, <1>9 DEF Typed
<1>12. c.phase = "open" => conns'[n][g].inbox = Tail(c.inbox)
  BY <1>7
<1> HIDE DEF b
<1> QED
  BY <1>1, <1>3, <1>4, <1>7, <1>8, <1>9, <1>10, <1>11, <1>12

\* The monitor's look at one stale node closes at most one socket.
LEMMA CloseStaleEffect ==
    ASSUME FleetTypeOK, NEW n \in Nodes, CloseStale(n)
    PROVE  /\ Typed' /\ agents' = agents
           /\ \A x \in Nodes, h \in Gens :
                 /\ conns'[x][h].inbox = conns[x][h].inbox
                 /\ \/ conns'[x][h].phase = conns[x][h].phase
                    \/ conns[x][h].phase = "open" /\ conns'[x][h].phase = "closing"
<1>1. Typed
  BY DEF FleetTypeOK, Typed
<1>2. CASE UNCHANGED conns
  BY <1>1, <1>2 DEF CloseStale, Typed
<1>3. ASSUME Registered(n),
             conns' = [conns EXCEPT ![n][registry[n].gen].phase =
                          IF @ = "open" THEN "closing" ELSE @]
      PROVE  /\ Typed' /\ agents' = agents
             /\ \A x \in Nodes, h \in Gens :
                   /\ conns'[x][h].inbox = conns[x][h].inbox
                   /\ \/ conns'[x][h].phase = conns[x][h].phase
                      \/ conns[x][h].phase = "open" /\ conns'[x][h].phase = "closing"
  <2> DEFINE g == registry[n].gen
             p == IF conns[n][g].phase = "open" THEN "closing" ELSE conns[n][g].phase
  <2>1. g \in Gens
    BY <1>3, FleetAssumption DEF FleetTypeOK, Registered, Gens
  <2>2. p \in {"unused", "accepted", "open", "closing", "done"}
    BY <1>1, <2>1 DEF Typed, Conn
  <2>3. PhaseBecomes(n, g, p)
    BY <1>3 DEF PhaseBecomes
  <2>4. /\ conns' \in [Nodes -> [Gens -> Conn]] /\ conns'[n][g].phase = p
        /\ conns'[n][g].inbox = conns[n][g].inbox /\ OnlyConn(n, g)
    <3> HIDE DEF p, g
    <3> QED
      BY <1>1, <2>1, <2>2, <2>3, PhaseReplaced
  <2>5. agents' = agents
    BY DEF CloseStale
  <2> QED
    BY <1>1, <2>4, <2>5 DEF Typed, OnlyConn
<1> QED
  BY <1>2, <1>3 DEF CloseStale
-----------------------------------------------------------------------------
(***************************************************************************)
(* What the fleet does to the store.                                       *)
(***************************************************************************)
\* A step after which no unit is leased that was not leased to the same node.
NoNewLease ==
    \A u \in UnitIds :
        units'[u].state = "leased" =>
            units[u].state = "leased" /\ units'[u].node_id = units[u].node_id

\* Putting units back ends their leases and no others.
LEMMA PutBackEndsLeases ==
    ASSUME IInv, NEW S \in SUBSET UnitIds, PutBack(S)
    PROVE  NoNewLease /\ \A u \in S : units'[u].state = "pending"
BY RequeuedFields DEF PutBack, IInv, TypeOK, NoNewLease

\* release_node leaves nothing leased to the node.
LEMMA ReleaseEndsAll ==
    ASSUME IInv, NEW n \in Nodes, ReleaseNode(n)
    PROVE  NoNewLease /\ HeldBy(n)' = {}
<1>1. HeldBy(n) \in SUBSET UnitIds /\ PutBack(HeldBy(n))
  BY DEF HeldBy, ReleaseNode
<1>2. NoNewLease /\ \A u \in HeldBy(n) : units'[u].state = "pending"
  <2> DEFINE S == HeldBy(n)
  <2>1. S \in SUBSET UnitIds /\ PutBack(S)
    BY <1>1
  <2> HIDE DEF S
  <2>2. NoNewLease /\ \A u \in S : units'[u].state = "pending"
    BY <2>1, PutBackEndsLeases
  <2> QED
    BY <2>2 DEF S
<1>3. ASSUME NEW u \in UnitIds, units'[u].state = "leased", units'[u].node_id = n
      PROVE  FALSE
  BY <1>2, <1>3 DEF NoNewLease, HeldBy
<1> QED
  BY <1>2, <1>3 DEF HeldBy

\* lease() leases what it grants, to the node that asked.
LEMMA LeaseStartsLeases ==
    ASSUME IInv, NEW n \in Nodes, NEW count \in UnitIds, NEW m, Lease(n, count, m),
           NEW u \in UnitIds, units'[u].state = "leased"
    PROVE  \/ units[u].state = "leased" /\ units'[u].node_id = units[u].node_id
           \/ u \in Granted(count, m) /\ units'[u].node_id = n
<1>1. CASE u \in Granted(count, m)
  <2>1. units'[u] = Leased(units[u], n) /\ units[u] \in WorkUnit
    BY <1>1 DEF Lease, IInv, TypeOK
  <2> QED
    BY <1>1, <2>1, LeasedFields
<1>2. CASE u \notin Granted(count, m)
  BY <1>2 DEF Lease
<1> QED
  BY <1>1, <1>2

\* A report, a submission, a cancellation or the clock starts no lease.
LEMMA SettlingStartsNoLease ==
    ASSUME IInv,
           \/ Submit
           \/ \E u \in UnitIds, n \in Nodes, t \in Texts : Complete(u, n, t)
           \/ \E u \in UnitIds : Fail(u)
           \/ \E b \in BatchIds : CancelBatch(b)
           \/ Tick
           \/ UNCHANGED vars
    PROVE  NoNewLease
<1>1. units \in [UnitIds -> WorkUnit] /\ \A u \in UnitIds : units[u] \in WorkUnit
  BY DEF IInv, TypeOK
<1>2. ASSUME NEW b \in BatchIds, NEW c \in 0 .. MaxUnits, NEW n \in UnitIds,
             NEW k \in 0 .. MaxCanaries, NEW model \in Models \cup {None},
             NEW asked \in [1 .. (n + k) -> Models \cup {None}],
             CreateBatch(b, c, n, k, model, asked)
      PROVE  NoNewLease
  BY <1>2 DEF CreateBatch, NewUnit, NoNewLease
<1>3. ASSUME NEW v \in UnitIds, NEW n \in Nodes, NEW t \in Texts, Complete(v, n, t)
      PROVE  NoNewLease
  <2>1. CASE UNCHANGED vars
    BY <2>1 DEF vars, NoNewLease
  <2>2. CASE units' = [units EXCEPT ![v].state = "complete", ![v].text = t,
                                    ![v].node_id = n, ![v].left = 0]
    <3> DEFINE r == [units[v] EXCEPT !.state = "complete", !.text = t, !.node_id = n, !.left = 0]
    <3>1. units' = [units EXCEPT ![v] = r]
      BY <1>1, <2>2
    <3>2. r.state = "complete"
      BY <1>1 DEF WorkUnit
    <3> HIDE DEF r
    <3>3. units'[v].state = "complete" /\ \A u \in UnitIds \ {v} : units'[u] = units[u]
      BY <1>1, <3>1, <3>2
    <3> QED
      BY <3>3 DEF NoNewLease
  <2> QED
    BY <1>3, <2>1, <2>2 DEF Complete
<1>4. ASSUME NEW v \in UnitIds, Fail(v)
      PROVE  NoNewLease
  <2>1. CASE UNCHANGED vars
    BY <2>1 DEF vars, NoNewLease
  <2>2. CASE units' = [units EXCEPT ![v].state = "failed", ![v].error = "reported"]
    <3>1. units'[v].state = "failed"
      BY <1>1, <2>2 DEF WorkUnit
    <3> QED
      BY <1>1, <2>2, <3>1 DEF NoNewLease
  <2>3. CASE units' = [units EXCEPT ![v] = [Requeued(@) EXCEPT !.error = "reported"]]
    <3>1. Requeued(units[v]) \in WorkUnit /\ Requeued(units[v]).state = "pending"
      BY <1>1, RequeuedFields
    <3>2. [Requeued(units[v]) EXCEPT !.error = "reported"].state = "pending"
      BY <3>1 DEF WorkUnit
    <3>3. units'[v].state = "pending"
      BY <1>1, <2>3, <3>2
    <3> QED
      BY <1>1, <2>3, <3>3 DEF NoNewLease
  <2> QED
    BY <1>4, <2>1, <2>2, <2>3 DEF Fail, OutOfAttempts
<1>5. ASSUME NEW b \in BatchIds, CancelBatch(b)
      PROVE  NoNewLease
  BY <1>1, <1>5 DEF CancelBatch, WorkUnit, NoNewLease
<1>6. CASE Tick
  BY <1>1, <1>6 DEF Tick, WorkUnit, NoNewLease
<1>7. CASE UNCHANGED vars
  BY <1>7 DEF vars, NoNewLease
<1> QED
  BY <1>2, <1>3, <1>4, <1>5, <1>6, <1>7 DEF Submit

\* After a report that counts, the unit is not leased any more.
LEMMA ReportEndsLease ==
    ASSUME IInv, NEW v \in UnitIds,
           Fail(v) \/ \E n \in Nodes, t \in Texts : Complete(v, n, t)
    PROVE  units'[v].state # "leased"
<1>1. units \in [UnitIds -> WorkUnit] /\ units[v] \in WorkUnit
  BY DEF IInv, TypeOK
<1>2. CASE Outstanding(v) /\ Fail(v)
  <2>1. /\ Requeued(units[v]) \in WorkUnit /\ Requeued(units[v]).state = "pending"
        /\ [Requeued(units[v]) EXCEPT !.error = "reported"].state = "pending"
    BY <1>1, RequeuedFields DEF WorkUnit
  <2>2. CASE OutOfAttempts(v)
    <3>1. units' = [units EXCEPT ![v].state = "failed", ![v].error = "reported"]
      BY <1>2, <2>2 DEF Fail
    <3> QED
      BY <1>1, <3>1 DEF WorkUnit
  <2>3. CASE ~OutOfAttempts(v)
    BY <1>1, <1>2, <2>1, <2>3 DEF Fail
  <2> QED
    BY <2>2, <2>3
<1>3. ASSUME NEW n \in Nodes, NEW t \in Texts, Complete(v, n, t), Outstanding(v)
      PROVE  units'[v].state # "leased"
  <2> DEFINE r == [units[v] EXCEPT !.state = "complete", !.text = t, !.node_id = n, !.left = 0]
  <2>1. units' = [units EXCEPT ![v] = r] /\ r.state = "complete"
    BY <1>1, <1>3 DEF Complete, WorkUnit
  <2> HIDE DEF r
  <2> QED
    BY <1>1, <2>1
<1>4. CASE ~Outstanding(v)
  BY <1>4 DEF Fail, Complete, Outstanding, vars
<1> QED
  BY <1>2, <1>3, <1>4
-----------------------------------------------------------------------------
(***************************************************************************)
(* The fleet uses the store only through its methods.                      *)
(***************************************************************************)
\* The reports in an inbox are about units.
LEMMA ReportsAreTyped ==
    ASSUME Typed, NEW n \in Nodes, NEW g \in Gens, Handling(n, g)
    PROVE  LET msg == Head(conns[n][g].inbox)
           IN  /\ msg \in Message
               /\ msg.type = "work_result" => msg.unit \in UnitIds /\ msg.text \in Texts
               /\ msg.type = "work_failed" => msg.unit \in UnitIds
<1>1. conns[n][g].inbox \in Seq(Message) /\ conns[n][g].inbox # <<>>
  BY DEF Typed, Conn, Handling
<1>2. Head(conns[n][g].inbox) \in Message
  BY <1>1, HeadTailProperties
<1> QED
  BY <1>2, MessageForms

\* A report is handled by one call of complete() or fail(), on a unit.
LEMMA ReportHandled ==
    ASSUME Typed, NEW n \in Nodes, NEW g \in Gens, HandleResult(n, g) \/ HandleFailed(n, g)
    PROVE  LET msg == Head(conns[n][g].inbox)
           IN  /\ Handling(n, g) /\ Handled(n, g) /\ UNCHANGED <<registry, monitor, agents>>
               /\ msg \in Message /\ msg.type # "work_request" /\ msg.unit \in UnitIds
               /\ Fail(msg.unit) \/ \E t \in Texts : Complete(msg.unit, n, t)
<1>1. Handling(n, g)
  BY DEF HandleResult, HandleFailed
<1> QED
  BY <1>1, ReportsAreTyped DEF HandleResult, HandleFailed

\* A report on a unit that was never created is ignored like a late one.
LEMMA ReportIsStoreStep ==
    ASSUME NEW u \in UnitIds, NEW n \in Nodes,
           Fail(u) \/ \E t \in Texts : Complete(u, n, t)
    PROVE  [Next]_vars
<1>1. CASE u \in Created
  BY <1>1 DEF Next
<1>2. CASE u \notin Created
  <2>1. ~Outstanding(u)
    BY <1>2 DEF Created, Outstanding
  <2> QED
    BY <2>1 DEF Fail, Complete
<1> QED
  BY <1>1, <1>2

\* Every step of the fleet is a step of the store or leaves it alone.
LEMMA StoreStepOfFleet ==
    ASSUME IInv, FleetTypeOK, [FleetNext]_allVars
    PROVE  [Next]_vars
<1>1. Typed
  BY DEF FleetTypeOK, Typed
<1>2. CASE ClientSubmit \/ ClientCancel \/ Reap \/ ClockTick
  BY <1>2 DEF ClientSubmit, ClientCancel, Reap, ClockTick, Next
<1>3. CASE MonitorStep
  BY <1>3 DEF MonitorStep, Scan, CloseStale, RemoveStale
<1>4. ASSUME NEW n \in Nodes,
             \/ Connect(n) \/ LoseConnection(n) \/ GoStale(n)
             \/ LoadModel(n) \/ RequestWork(n) \/ StartBatch(n) \/ FinishBatch(n)
      PROVE  [Next]_vars
  BY <1>4 DEF Connect, LoseConnection, GoStale, LoadModel, RequestWork, StartBatch, FinishBatch
<1>5. ASSUME NEW n \in Nodes, NEW g \in Gens, HandlerStep(n, g) \/ Heartbeat(n, g)
      PROVE  [Next]_vars
  <2>1. CASE Register(n, g) \/ Heartbeat(n, g)
    BY <2>1 DEF Register, Heartbeat
  <2>2. CASE HandleRequest(n, g)
    BY <1>1, <2>2, HandleRequestEffect DEF Next
  <2>3. CASE HandleResult(n, g) \/ HandleFailed(n, g)
    BY <1>1, <2>3, ReportHandled, ReportIsStoreStep
  <2>4. CASE Leave(n, g)
    BY <2>4 DEF Leave, Next
  <2> QED
    BY <1>5, <2>1, <2>2, <2>3, <2>4 DEF HandlerStep
<1>6. CASE UNCHANGED allVars
  BY <1>6 DEF allVars, vars
<1> QED
  BY <1>2, <1>3, <1>4, <1>5, <1>6 DEF FleetNext

\* Steps that leave connections and agents alone, start no lease and keep or
\* remove registry entries.
Quiet ==
    /\ UNCHANGED <<conns, agents>>
    /\ NoNewLease
    /\ \A n \in Nodes : registry'[n].gen \in {registry[n].gen, 0}

\* The kinds of step that matter to the invariants below.
LEMMA FleetCases ==
    ASSUME IInv, FleetTypeOK, [FleetNext]_allVars
    PROVE  \/ Quiet
           \/ \E n \in Nodes :
                 \/ Connect(n) \/ LoseConnection(n)
                 \/ LoadModel(n) \/ RequestWork(n) \/ StartBatch(n) \/ FinishBatch(n)
                 \/ CloseStale(n)
                 \/ \E g \in Gens : HandlerStep(n, g)
<1>1. ASSUME UNCHANGED vars PROVE NoNewLease
  BY <1>1, SettlingStartsNoLease
<1>2. CASE ClientSubmit \/ ClientCancel \/ ClockTick
  <2>1. NoNewLease
    BY <1>2, SettlingStartsNoLease DEF ClientSubmit, ClientCancel, ClockTick
  <2> QED
    BY <1>2, <2>1 DEF ClientSubmit, ClientCancel, ClockTick, fleetVars, Quiet
<1>3. CASE Reap
  <2>1. Overdue \in SUBSET UnitIds /\ PutBack(Overdue)
    BY <1>3 DEF Reap, ExpireLeases, Overdue
  <2>2. NoNewLease
    <3> DEFINE S == Overdue
    <3>1. S \in SUBSET UnitIds /\ PutBack(S)
      BY <2>1
    <3> HIDE DEF S
    <3> QED
      BY <3>1, PutBackEndsLeases
  <2> QED
    BY <1>3, <2>2 DEF Reap, fleetVars, Quiet
<1>4. CASE Scan \/ RemoveStale
  <2>1. NoNewLease
    BY <1>1, <1>4 DEF Scan, RemoveStale
  <2>2. \A n \in Nodes : registry'[n].gen \in {registry[n].gen, 0}
    BY <1>4 DEF Scan, RemoveStale, Unregister, NoEntry, FleetTypeOK
  <2> QED
    BY <1>4, <2>1, <2>2 DEF Scan, RemoveStale, Quiet
<1>5. ASSUME NEW x \in Nodes, GoStale(x) \/ \E g \in Gens : Heartbeat(x, g)
      PROVE  Quiet
  <2>1. NoNewLease
    BY <1>1, <1>5 DEF GoStale, Heartbeat
  <2>2. ASSUME NEW n \in Nodes PROVE registry'[n].gen = registry[n].gen
    BY <1>5 DEF GoStale, Heartbeat, FleetTypeOK
  <2> QED
    BY <1>5, <2>1, <2>2 DEF GoStale, Heartbeat, Quiet
<1>6. CASE UNCHANGED allVars
  BY <1>1, <1>6 DEF allVars, vars, Quiet
<1> QED
  BY <1>2, <1>3, <1>4, <1>5, <1>6 DEF FleetNext, MonitorStep
-----------------------------------------------------------------------------
(***************************************************************************)
(* What an agent does with its backlog.                                    *)
(***************************************************************************)
Lists(q, u) == \E i \in DOMAIN q : q[i] = u

\* The message reports on unit u.
ReportsOn(msg, u) == msg.type # "work_request" /\ msg.unit = u

CarriesReport(q, u) == \E i \in DOMAIN q : ReportsOn(q[i], u)

\* The agent turns into `a` and sends msgs, which are reports; no unit of its
\* backlog gets lost on the way, and nothing is counted twice.
KeepsBacklog(n, a, msgs) ==
    /\ a.gen = agents[n].gen
    /\ a.inflight = agents[n].inflight
    /\ Len(a.queue) <= Len(agents[n].queue)
    /\ Len(agents[n].running) <= BatchSize => Len(a.running) <= BatchSize
    /\ Len(a.queue) + Len(a.running) + Len(msgs)
          = Len(agents[n].queue) + Len(agents[n].running)
    /\ \A i \in DOMAIN msgs : msgs[i].type # "work_request"
    /\ \A u : Lists(agents[n].queue, u) \/ Lists(agents[n].running, u) =>
                 Lists(a.queue, u) \/ Lists(a.running, u) \/ CarriesReport(msgs, u)

\* _work_loop takes the head of the backlog as one batch.
LEMMA BatchTaken ==
    ASSUME Typed, NEW n \in Nodes, StartBatch(n)
    PROVE  \E a \in Agent : Sends(n, a, <<>>) /\ KeepsBacklog(n, a, <<>>)
<1> DEFINE q == agents[n].queue
           k == IF Len(q) < BatchSize THEN Len(q) ELSE BatchSize
           s == SubSeq(q, 1, k)
           t == SubSeq(q, k + 1, Len(q))
           a == [agents[n] EXCEPT !.running = s, !.queue = t]
<1>1. agents[n] \in Agent /\ q \in Seq(UnitIds)
  BY DEF Typed, Agent
<1>2. /\ Len(q) \in Nat /\ DOMAIN q = 1 .. Len(q) /\ \A i \in 1 .. Len(q) : q[i] \in UnitIds
      /\ BatchSize \in Nat
  BY <1>1, LenProperties, BatchSizePositive
<1>3. k \in Nat /\ k <= Len(q) /\ k <= BatchSize
  BY <1>2
<1>4. /\ s \in Seq(UnitIds) /\ Len(s) = k /\ DOMAIN s = 1 .. k
      /\ \A i \in 1 .. k : s[i] = q[i]
      /\ t \in Seq(UnitIds) /\ Len(t) = Len(q) - k /\ DOMAIN t = 1 .. (Len(q) - k)
      /\ \A i \in 1 .. (Len(q) - k) : t[i] = q[k + i]
  <2>1. k \in 0 .. Len(q)
    BY <1>2, <1>3
  <2> HIDE DEF q, k
  <2> QED
    BY <1>1, <2>1, SplitProperties
<1>5. k \in Nat /\ Len(q) \in Nat /\ Len(s) = k /\ Len(t) = Len(q) - k
  BY <1>2, <1>3, <1>4
<1>6. agents[n].running = <<>> /\ Sends(n, a, <<>>)
  BY DEF StartBatch
<1>7. ASSUME NEW u, Lists(q, u)
      PROVE  Lists(s, u) \/ Lists(t, u)
  <2> HIDE DEF q, k, s, t
  <2>1. PICK i \in 1 .. Len(q) : q[i] = u
    BY <1>2, <1>7 DEF Lists
  <2>2. CASE i <= k
    BY <1>3, <1>4, <2>1, <2>2 DEF Lists
  <2>3. CASE i > k
    <3>1. i - k \in 1 .. (Len(q) - k) /\ k + (i - k) = i
      BY <1>2, <1>3, <2>3
    <3>2. t[i - k] = u
      BY <1>4, <2>1, <3>1
    <3> QED
      BY <1>4, <3>1, <3>2 DEF Lists
  <2> QED
    BY <1>2, <1>3, <2>2, <2>3
<1> HIDE DEF k, s, t
<1>8. a \in Agent /\ a.running = s /\ a.queue = t /\ a.gen = agents[n].gen
      /\ a.inflight = agents[n].inflight
  BY <1>1, <1>4 DEF Agent
<1> HIDE DEF a
<1>9. KeepsBacklog(n, a, <<>>)
  <2>1. \A u : Lists(agents[n].running, u) => FALSE
    BY <1>6 DEF Lists
  <2>2. Len(a.queue) + Len(a.running) + Len(<<>>) = Len(q) + Len(agents[n].running)
    BY <1>2, <1>3, <1>5, <1>6, <1>8
  <2>3. Len(a.queue) <= Len(q) /\ Len(a.running) <= BatchSize
    BY <1>2, <1>3, <1>5, <1>8
  <2>4. \A i \in DOMAIN <<>> : <<>>[i].type # "work_request"
    OBVIOUS
  <2>5. \A u : Lists(agents[n].queue, u) \/ Lists(agents[n].running, u) =>
                 Lists(a.queue, u) \/ Lists(a.running, u) \/ CarriesReport(<<>>, u)
    BY <1>7, <1>8, <2>1
  <2> QED
    BY <1>8, <2>2, <2>3, <2>4, <2>5 DEF KeepsBacklog
<1> QED
  BY <1>6, <1>8, <1>9

\* The reports of a batch: one for each of its units.
LEMMA ReportsProperties ==
    ASSUME NEW us \in Seq(UnitIds), NEW out \in [DOMAIN us -> Texts \cup {None}]
    PROVE  /\ Reports(us, out) \in Seq(Message)
           /\ Len(Reports(us, out)) = Len(us)
           /\ DOMAIN Reports(us, out) = DOMAIN us
           /\ \A i \in DOMAIN us : ReportsOn(Reports(us, out)[i], us[i])
<1> DEFINE r == Reports(us, out)
<1>1. Len(us) \in Nat /\ DOMAIN us = 1 .. Len(us) /\ \A i \in DOMAIN us : us[i] \in UnitIds
  BY LenProperties
<1>2. r = [i \in 1 .. Len(us) |->
             IF out[i] = None THEN WorkFailed(us[i]) ELSE WorkResult(us[i], out[i])]
  BY <1>1 DEF Reports
<1>3. ASSUME NEW i \in 1 .. Len(us)
      PROVE  r[i] \in Message /\ ReportsOn(r[i], us[i])
  <2>1. us[i] \in UnitIds /\ out[i] \in Texts \cup {None}
    BY <1>1
  <2>2. CASE out[i] = None
    <3>1. r[i] = WorkFailed(us[i])
      BY <1>2, <2>2
    <3> QED
      BY <2>1, <3>1 DEF Message, WorkFailed, ReportsOn
  <2>3. CASE out[i] # None
    <3>1. r[i] = WorkResult(us[i], out[i]) /\ out[i] \in Texts
      BY <1>2, <2>1, <2>3
    <3> QED
      BY <2>1, <3>1 DEF Message, WorkResult, ReportsOn
  <2> QED
    BY <2>2, <2>3
<1>4. r \in [1 .. Len(us) -> Message]
  BY <1>2, <1>3
<1> HIDE DEF r
<1>5. r \in Seq(Message) /\ Len(r) = Len(us) /\ DOMAIN r = 1 .. Len(us)
  BY <1>1, <1>4
<1> QED
  BY <1>1, <1>3, <1>5 DEF r

\* The agent reports each unit it was decoding.
LEMMA BatchReported ==
    ASSUME Typed, NEW n \in Nodes, FinishBatch(n)
    PROVE  \E a \in Agent, msgs \in Seq(Message) :
              Sends(n, a, msgs) /\ KeepsBacklog(n, a, msgs)
<1> DEFINE us == agents[n].running
           a == [agents[n] EXCEPT !.running = <<>>]
<1>1. agents[n] \in Agent /\ us \in Seq(UnitIds) /\ agents[n].queue \in Seq(UnitIds)
  BY DEF Typed, Agent
<1>2. PICK out \in [DOMAIN us -> Texts \cup {None}] : Sends(n, a, Reports(us, out))
  BY DEF FinishBatch
<1> DEFINE msgs == Reports(us, out)
<1>3. /\ msgs \in Seq(Message) /\ Len(msgs) = Len(us) /\ DOMAIN msgs = DOMAIN us
      /\ \A i \in DOMAIN us : ReportsOn(msgs[i], us[i])
  <2> HIDE DEF us
  <2> QED
    BY <1>1, ReportsProperties
<1>4. /\ a \in Agent /\ a.running = <<>> /\ a.queue = agents[n].queue
      /\ a.gen = agents[n].gen /\ a.inflight = agents[n].inflight
  <2>1. <<>> \in Seq(UnitIds)
    OBVIOUS
  <2> QED
    BY <1>1, <2>1 DEF Agent
<1>5. Sends(n, a, msgs)
  BY <1>2
<1>6. Len(us) \in Nat /\ Len(agents[n].queue) \in Nat /\ Len(<<>>) = 0 /\ BatchSize \in Nat
  BY <1>1, LenProperties, BatchSizePositive
<1> HIDE DEF a, msgs
<1>7. \A i \in DOMAIN msgs : msgs[i].type # "work_request"
  BY <1>3 DEF ReportsOn
<1>8. \A u : Lists(us, u) => CarriesReport(msgs, u)
  BY <1>3 DEF Lists, CarriesReport
<1>9. /\ Len(a.queue) <= Len(agents[n].queue)
      /\ Len(a.running) <= BatchSize
      /\ Len(a.queue) + Len(a.running) + Len(msgs) = Len(agents[n].queue) + Len(us)
  BY <1>3, <1>4, <1>6, BatchSizePositive
<1>10. KeepsBacklog(n, a, msgs)
  BY <1>4, <1>7, <1>8, <1>9 DEF KeepsBacklog
<1> QED
  BY <1>3, <1>4, <1>5, <1>10

AgentStep(n) == LoadModel(n) \/ RequestWork(n) \/ StartBatch(n) \/ FinishBatch(n)

\* Whatever an agent with a connection does, it keeps its backlog.
LEMMA AgentKeepsBacklog ==
    ASSUME Typed, NEW n \in Nodes, AgentStep(n)
    PROVE  /\ UNCHANGED <<vars, registry, monitor>>
           /\ \E a \in Agent, msgs \in Seq(Message) :
                 Sends(n, a, msgs) /\ KeepsBacklog(n, a, msgs)
<1>1. UNCHANGED <<vars, registry, monitor>>
  BY DEF AgentStep, LoadModel, RequestWork, StartBatch, FinishBatch
<1>2. agents[n] \in Agent /\ <<>> \in Seq(Message)
  BY DEF Typed
<1>3. Len(agents[n].queue) \in Nat /\ Len(agents[n].running) \in Nat
  BY <1>2, LenProperties DEF Agent
<1>4. ASSUME NEW a \in Agent, a.gen = agents[n].gen, a.inflight = agents[n].inflight,
             a.queue = agents[n].queue, a.running = agents[n].running
      PROVE  KeepsBacklog(n, a, <<>>)
  BY <1>3, <1>4 DEF KeepsBacklog
<1>5. CASE LoadModel(n)
  <2> DEFINE a == [agents[n] EXCEPT !.loaded = TRUE]
  <2>1. /\ a \in Agent /\ a.gen = agents[n].gen /\ a.inflight = agents[n].inflight
        /\ a.queue = agents[n].queue /\ a.running = agents[n].running
    BY <1>2 DEF Agent
  <2>2. Sends(n, a, <<>>)
    BY <1>5 DEF LoadModel
  <2> HIDE DEF a
  <2> QED
    BY <1>1, <1>2, <1>4, <2>1, <2>2
<1>6. CASE RequestWork(n)
  BY <1>1, <1>2, <1>4, <1>6 DEF RequestWork
<1>7. CASE StartBatch(n)
  BY <1>1, <1>2, <1>7, BatchTaken
<1>8. CASE FinishBatch(n)
  BY <1>1, <1>8, BatchReported
<1> QED
  BY <1>5, <1>6, <1>7, <1>8 DEF AgentStep
-----------------------------------------------------------------------------
(***************************************************************************)
(* Typing, the registry and the leases of connections that are gone.       *)
(***************************************************************************)
\* What an agent's step changes of the connections: one inbox.
LEMMA AgentStepEffect ==
    ASSUME Typed, NEW n \in Nodes, AgentStep(n)
    PROVE  /\ Typed' /\ OnlyAgent(n) /\ agents'[n].gen = agents[n].gen
           /\ OnlyConn(n, agents[n].gen)
           /\ \A x \in Nodes, h \in Gens : conns'[x][h].phase = conns[x][h].phase
           /\ UNCHANGED <<vars, registry, monitor>>
<1>1. PICK a \in Agent, msgs \in Seq(Message) : Sends(n, a, msgs) /\ KeepsBacklog(n, a, msgs)
  BY AgentKeepsBacklog
<1>2. a.gen = agents[n].gen
  BY <1>1 DEF KeepsBacklog
<1>3. /\ Typed' /\ OnlyAgent(n) /\ agents'[n].gen = agents[n].gen
      /\ OnlyConn(n, agents[n].gen)
      /\ conns'[n][agents[n].gen].phase = conns[n][agents[n].gen].phase
  BY <1>1, <1>2, SendsEffect
<1>4. \A x \in Nodes, h \in Gens : conns'[x][h].phase = conns[x][h].phase
  BY <1>3 DEF OnlyConn
<1> QED
  BY <1>3, <1>4, AgentKeepsBacklog

\* The register message opens the connection and makes the entry.
LEMMA RegisterEffect ==
    ASSUME FleetTypeOK, NEW n \in Nodes, NEW g \in Gens, Register(n, g)
    PROVE  /\ Typed' /\ OnlyConn(n, g) /\ agents' = agents
           /\ conns[n][g].phase = "accepted" /\ conns'[n][g].phase = "open"
           /\ conns'[n][g].inbox = conns[n][g].inbox
           /\ registry'[n].gen = g
           /\ \A x \in Nodes : x # n => registry'[x] = registry[x]
           /\ UNCHANGED vars
<1>1. Typed
  BY DEF FleetTypeOK, Typed
<1>2. PhaseBecomes(n, g, "open")
  BY DEF Register, PhaseBecomes
<1>3. /\ conns' \in [Nodes -> [Gens -> Conn]] /\ conns'[n][g].phase = "open"
      /\ conns'[n][g].inbox = conns[n][g].inbox /\ OnlyConn(n, g)
  BY <1>1, <1>2, PhaseReplaced
<1>4. registry'[n].gen = g /\ \A x \in Nodes : x # n => registry'[x] = registry[x]
  BY DEF Register, Add, FleetTypeOK
<1> QED
  BY <1>1, <1>3, <1>4 DEF Register, Typed

\* Every variable of the fleet keeps its type.
LEMMA TypingPreserved ==
    ASSUME IInv, FleetTypeOK, [FleetNext]_allVars
    PROVE  FleetTypeOK'
<1>1. Typed
  BY DEF FleetTypeOK, Typed
<1>2. Typed'
  <2>1. CASE Quiet
    BY <1>1, <2>1 DEF Quiet, Typed
  <2>2. ASSUME NEW n \in Nodes, Connect(n) \/ LoseConnection(n) \/ AgentStep(n) \/ CloseStale(n)
        PROVE  Typed'
    BY <1>1, <2>2, ConnectEffect, LoseEffect, AgentStepEffect, CloseStaleEffect
  <2>3. ASSUME NEW n \in Nodes, NEW g \in Gens, HandlerStep(n, g)
        PROVE  Typed'
    <3>1. CASE HandleResult(n, g) \/ HandleFailed(n, g)
      BY <1>1, <3>1, ReportHandled, HandledEffect
    <3>2. CASE Register(n, g) \/ HandleRequest(n, g) \/ Leave(n, g)
      BY <1>1, <3>2, RegisterEffect, HandleRequestEffect, LeaveEffect
    <3> QED
      BY <2>3, <3>1, <3>2 DEF HandlerStep
  <2> QED
    BY <2>1, <2>2, <2>3, FleetCases DEF AgentStep
<1> DEFINE Entry == [gen : 0 .. MaxConns, stale : BOOLEAN]
           Loop == [todo : SUBSET Nodes, closing : Nodes \cup {None}]
<1>3. registry \in [Nodes -> Entry] /\ monitor \in Loop /\ NoEntry \in Entry
  BY FleetAssumption DEF FleetTypeOK, NoEntry
<1>4. ASSUME NEW n \in Nodes, Unregister(n) PROVE registry' \in [Nodes -> Entry]
  BY <1>3, <1>4 DEF Unregister
<1>5. ASSUME ClientSubmit \/ ClientCancel \/ Reap \/ ClockTick \/ UNCHANGED allVars
      PROVE  registry' \in [Nodes -> Entry] /\ monitor' \in Loop
  BY <1>3, <1>5 DEF ClientSubmit, ClientCancel, Reap, ClockTick, fleetVars, allVars
<1>6. ASSUME Scan
      PROVE  registry' \in [Nodes -> Entry] /\ monitor' \in Loop
  <2>1. registry' = registry /\ {n \in Nodes : registry[n].stale} \in SUBSET Nodes
    BY <1>6 DEF Scan
  <2>2. monitor' \in Loop
    BY <1>3, <1>6, <2>1 DEF Scan
  <2> QED
    BY <1>3, <2>1, <2>2
<1>7. ASSUME NEW n \in Nodes, CloseStale(n)
      PROVE  registry' \in [Nodes -> Entry] /\ monitor' \in Loop
  <2>1. monitor.todo \in SUBSET Nodes
    BY <1>3
  <2>2. monitor' = [monitor EXCEPT !.todo = @ \ {n}] => monitor' \in Loop
    BY <1>3, <2>1
  <2> QED
    BY <1>3, <1>7, <2>1, <2>2 DEF CloseStale
<1>8. ASSUME RemoveStale
      PROVE  registry' \in [Nodes -> Entry] /\ monitor' \in Loop
  <2>1. monitor.closing \in Nodes
    BY <1>3, <1>8 DEF RemoveStale
  <2>2. registry' \in [Nodes -> Entry]
    BY <1>4, <1>8, <2>1 DEF RemoveStale
  <2>3. monitor' \in Loop
    BY <1>3, <1>8 DEF RemoveStale
  <2> QED
    BY <2>2, <2>3
<1>9. ASSUME NEW n \in Nodes, Connect(n) \/ LoseConnection(n) \/ AgentStep(n)
      PROVE  registry' \in [Nodes -> Entry] /\ monitor' \in Loop
  BY <1>1, <1>3, <1>9, AgentStepEffect DEF Connect, LoseConnection
<1>10. ASSUME NEW n \in Nodes, GoStale(n) \/ \E g \in Gens : Heartbeat(n, g)
       PROVE  registry' \in [Nodes -> Entry] /\ monitor' \in Loop
  <2>1. monitor' = monitor /\ \E b \in BOOLEAN : registry' = [registry EXCEPT ![n].stale = b]
    BY <1>10 DEF GoStale, Heartbeat
  <2>2. PICK b \in BOOLEAN : registry' = [registry EXCEPT ![n].stale = b]
    BY <2>1
  <2> DEFINE e == [registry[n] EXCEPT !.stale = b]
  <2>3. registry' = [registry EXCEPT ![n] = e]
    BY <2>2
  <2>4. registry[n] \in Entry
    BY <1>3
  <2>5. e \in Entry
    BY <2>4
  <2> HIDE DEF e, Entry, Loop
  <2> QED
    BY <1>3, <2>1, <2>3, <2>5
<1>11. ASSUME NEW n \in Nodes, NEW g \in Gens, HandlerStep(n, g)
       PROVE  registry' \in [Nodes -> Entry] /\ monitor' \in Loop
  <2>1. CASE Register(n, g)
    <3>1. [gen |-> g, stale |-> FALSE] \in Entry
      BY FleetAssumption DEF Gens
    <3> QED
      BY <1>3, <2>1, <3>1 DEF Register, Add
  <2>2. CASE HandleRequest(n, g) \/ HandleResult(n, g) \/ HandleFailed(n, g)
    BY <1>3, <2>2 DEF HandleRequest, HandleResult, HandleFailed
  <2>3. CASE Leave(n, g)
    BY <1>3, <1>4, <2>3 DEF Leave
  <2> QED
    BY <1>11, <2>1, <2>2, <2>3 DEF HandlerStep
<1>12. registry' \in [Nodes -> Entry] /\ monitor' \in Loop
  BY <1>5, <1>6, <1>7, <1>8, <1>9, <1>10, <1>11 DEF FleetNext, MonitorStep, AgentStep
<1> QED
  BY <1>2, <1>12 DEF FleetTypeOK, Typed

\* An entry never outlives the handler of its connection.
LEMMA RegistryBackedPreserved ==
    ASSUME IInv, FleetTypeOK, RegistryBacked, [FleetNext]_allVars
    PROVE  RegistryBacked'
<1>1. Typed
  BY DEF FleetTypeOK, Typed
<1>2. ASSUME NEW n \in Nodes
      PROVE  registry[n].gen \in 0 .. MaxConns /\ (Registered(n) => registry[n].gen \in Gens)
  BY FleetAssumption DEF FleetTypeOK, Registered, Gens
<1>3. ASSUME \A n \in Nodes : registry'[n].gen \in {registry[n].gen, 0},
             \A n \in Nodes, g \in Gens :
                conns[n][g].phase \in {"open", "closing"} => conns'[n][g].phase \in {"open", "closing"}
      PROVE  RegistryBacked'
  BY <1>2, <1>3 DEF RegistryBacked, Registered
<1>4. CASE Quiet
  BY <1>3, <1>4 DEF Quiet
<1>5. ASSUME NEW x \in Nodes, Connect(x) \/ LoseConnection(x) \/ AgentStep(x) \/ CloseStale(x)
      PROVE  RegistryBacked'
  <2>1. registry' = registry
    BY <1>1, <1>5, AgentStepEffect DEF Connect, LoseConnection, CloseStale
  <2>2. CASE Connect(x)
    <3>1. PICK g \in Gens : OnlyConn(x, g) /\ conns[x][g].phase = "unused"
      BY <1>1, <2>2, ConnectEffect
    <3> QED
      BY <1>3, <2>1, <3>1 DEF OnlyConn
  <2>3. CASE LoseConnection(x)
    <3>1. /\ OnlyConn(x, agents[x].gen)
          /\ conns'[x][agents[x].gen].phase = conns[x][agents[x].gen].phase
      BY <1>1, <2>3, LoseEffect
    <3> QED
      BY <1>3, <2>1, <3>1 DEF OnlyConn
  <2>4. CASE AgentStep(x) \/ CloseStale(x)
    BY <1>1, <1>3, <2>1, <2>4, AgentStepEffect, CloseStaleEffect
  <2> QED
    BY <1>5, <2>2, <2>3, <2>4
<1>6. ASSUME NEW x \in Nodes, NEW g \in Gens, HandlerStep(x, g)
      PROVE  RegistryBacked'
  <2>1. CASE Register(x, g)
    <3>1. /\ OnlyConn(x, g) /\ conns'[x][g].phase = "open" /\ registry'[x].gen = g
          /\ \A n \in Nodes : n # x => registry'[n] = registry[n]
      BY <2>1, RegisterEffect
    <3> QED
      BY <1>2, <3>1 DEF RegistryBacked, Registered, OnlyConn
  <2>2. CASE HandleRequest(x, g)
    <3>1. OnlyConn(x, g) /\ conns'[x][g].phase = conns[x][g].phase /\ registry' = registry
      BY <1>1, <2>2, HandleRequestEffect DEF HandleRequest
    <3> QED
      BY <1>3, <3>1 DEF OnlyConn
  <2>3. CASE HandleResult(x, g) \/ HandleFailed(x, g)
    <3>1. OnlyConn(x, g) /\ conns'[x][g].phase = conns[x][g].phase /\ registry' = registry
      BY <1>1, <2>3, ReportHandled, HandledEffect
    <3> QED
      BY <1>3, <3>1 DEF OnlyConn
  <2>4. CASE Leave(x, g)
    <3>1. OnlyConn(x, g)
      BY <1>1, <2>4, LeaveEffect
    <3>2. CASE conns[x][g].phase = "accepted" /\ registry' = registry
      BY <1>3, <3>1, <3>2 DEF OnlyConn
    <3>3. CASE Unregister(x)
      <4>1. registry'[x].gen = 0 /\ \A n \in Nodes : n # x => registry'[n] = registry[n]
        BY <3>3 DEF Unregister, NoEntry, FleetTypeOK
      <4> QED
        BY <1>2, <3>1, <4>1 DEF RegistryBacked, Registered, OnlyConn
    <3> QED
      BY <2>4, <3>2, <3>3 DEF Leave
  <2> QED
    BY <1>6, <2>1, <2>2, <2>3, <2>4 DEF HandlerStep
<1> QED
  BY <1>4, <1>5, <1>6, FleetCases DEF AgentStep

\* A lease never outlives the last handler of its node.
LEMMA LeaseBackedPreserved ==
    ASSUME IInv, FleetTypeOK, LeaseBacked, [FleetNext]_allVars
    PROVE  LeaseBacked'
<1>1. Typed
  BY DEF FleetTypeOK, Typed
<1>2. ASSUME NEW u \in UnitIds, units[u].state = "leased" PROVE units[u].node_id \in Nodes
  BY <1>2 DEF IInv, FieldsFitState
<1>3. ASSUME NoNewLease,
             \A n \in Nodes, g \in Gens :
                conns[n][g].phase \in {"open", "closing"} => conns'[n][g].phase \in {"open", "closing"}
      PROVE  LeaseBacked'
  BY <1>2, <1>3 DEF LeaseBacked, NoNewLease
<1>4. ASSUME UNCHANGED vars PROVE NoNewLease
  BY <1>4, SettlingStartsNoLease
<1>5. CASE Quiet
  BY <1>3, <1>5 DEF Quiet
<1>6. ASSUME NEW x \in Nodes, Connect(x) \/ LoseConnection(x) \/ AgentStep(x) \/ CloseStale(x)
      PROVE  LeaseBacked'
  <2>1. NoNewLease
    BY <1>1, <1>4, <1>6, AgentStepEffect DEF Connect, LoseConnection, CloseStale
  <2>2. CASE Connect(x)
    <3>1. PICK g \in Gens : OnlyConn(x, g) /\ conns[x][g].phase = "unused"
      BY <1>1, <2>2, ConnectEffect
    <3> QED
      BY <1>3, <2>1, <3>1 DEF OnlyConn
  <2>3. CASE LoseConnection(x)
    <3>1. /\ OnlyConn(x, agents[x].gen)
          /\ conns'[x][agents[x].gen].phase = conns[x][agents[x].gen].phase
      BY <1>1, <2>3, LoseEffect
    <3> QED
      BY <1>3, <2>1, <3>1 DEF OnlyConn
  <2>4. CASE AgentStep(x) \/ CloseStale(x)
    BY <1>1, <1>3, <2>1, <2>4, AgentStepEffect, CloseStaleEffect
  <2> QED
    BY <1>6, <2>2, <2>3, <2>4
<1>7. ASSUME NEW x \in Nodes, NEW g \in Gens, HandlerStep(x, g)
      PROVE  LeaseBacked'
  <2>1. CASE Register(x, g)
    <3>1. /\ OnlyConn(x, g) /\ conns'[x][g].phase = "open" /\ NoNewLease
      BY <1>4, <2>1, RegisterEffect
    <3> QED
      BY <1>3, <3>1 DEF OnlyConn
  <2>2. CASE HandleRequest(x, g)
    <3> DEFINE count == LeaseCount(Head(conns[x][g].inbox).capacity)
               m == LeaseModel(x)
    <3>1. /\ OnlyConn(x, g) /\ conns'[x][g].phase = conns[x][g].phase
          /\ conns[x][g].phase \in {"open", "closing"}
          /\ count \in UnitIds /\ Lease(x, count, m)
      BY <1>1, <2>2, HandleRequestEffect
    <3> HIDE DEF count, m
    <3>2. ASSUME NEW u \in UnitIds, units'[u].state = "leased"
          PROVE  \/ units[u].state = "leased" /\ units'[u].node_id = units[u].node_id
                 \/ units'[u].node_id = x
      BY <3>1, <3>2, LeaseStartsLeases
    <3>3. \A n \in Nodes, h \in Gens : conns'[n][h].phase = conns[n][h].phase
      BY <3>1 DEF OnlyConn
    <3> QED
      BY <1>2, <3>1, <3>2, <3>3 DEF LeaseBacked
  <2>3. CASE HandleResult(x, g) \/ HandleFailed(x, g)
    <3>1. OnlyConn(x, g) /\ conns'[x][g].phase = conns[x][g].phase
      BY <1>1, <2>3, ReportHandled, HandledEffect
    <3>2. NoNewLease
      BY <1>1, <2>3, ReportHandled, SettlingStartsNoLease
    <3> QED
      BY <1>3, <3>1, <3>2 DEF OnlyConn
  <2>4. CASE Leave(x, g)
    <3>1. OnlyConn(x, g)
      BY <1>1, <2>4, LeaveEffect
    <3>2. CASE conns[x][g].phase = "accepted" /\ UNCHANGED vars
      BY <1>3, <1>4, <3>1, <3>2 DEF OnlyConn
    <3>3. CASE ReleaseNode(x)
      <4>1. NoNewLease /\ HeldBy(x)' = {}
        BY <3>3, ReleaseEndsAll
      <4>2. ASSUME NEW u \in UnitIds, units'[u].state = "leased"
            PROVE  /\ units[u].state = "leased" /\ units'[u].node_id = units[u].node_id
                   /\ units[u].node_id # x /\ units[u].node_id \in Nodes
        BY <1>2, <4>1, <4>2 DEF NoNewLease, HeldBy
      <4> QED
        BY <3>1, <4>2 DEF LeaseBacked, OnlyConn
    <3> QED
      BY <2>4, <3>2, <3>3 DEF Leave
  <2> QED
    BY <1>7, <2>1, <2>2, <2>3, <2>4 DEF HandlerStep
<1> QED
  BY <1>5, <1>6, <1>7, FleetCases DEF AgentStep
-----------------------------------------------------------------------------
(***************************************************************************)
(* The requests on a connection.  Backlog, batch, outstanding request and  *)
(* reports share one budget of two batches, and the position of the        *)
(* request among the reports decides what still counts: reports ahead of   *)
(* it will have been handled by the time it leases.                        *)
(***************************************************************************)
\* The connection carries messages that count: the node uses it, and the
\* orchestrator has not closed its end.
InUse(n, g) == Linked(n, g) /\ conns[n][g].phase \in {"accepted", "open"}

Honest(a, q) ==
    /\ a.inflight =>
          \E r \in DOMAIN q :
              /\ q[r].type = "work_request"
              /\ \A i \in DOMAIN q : i # r => q[i].type # "work_request"
              /\ Len(a.queue) + q[r].capacity <= BatchSize
              /\ Len(a.queue) + Len(a.running) + q[r].capacity + (Len(q) - r) <= 2 * BatchSize
    /\ ~a.inflight =>
          /\ \A i \in DOMAIN q : q[i].type # "work_request"
          /\ Len(a.queue) + Len(a.running) + Len(q) <= 2 * BatchSize

OneRequest ==
    \A n \in Nodes, g \in Gens : InUse(n, g) => Honest(agents[n], conns[n][g].inbox)

\* An agent holds at most one batch in each of its two places, and nothing
\* while it has no connection.
BacklogBounded ==
    \A n \in Nodes :
        /\ Len(agents[n].queue) <= BatchSize
        /\ Len(agents[n].running) <= BatchSize
        /\ agents[n].gen = 0 => agents[n].queue = <<>> /\ agents[n].running = <<>>

\* The agent sends reports and, if it may, asks for more.
LEMMA HonestAfterSend ==
    ASSUME NEW n \in Nodes, agents[n] \in Agent, NEW q \in Seq(Message), Honest(agents[n], q),
           Len(agents[n].running) <= BatchSize,
           NEW a \in Agent, NEW msgs \in Seq(Message), KeepsBacklog(n, a, msgs),
           NEW b \in Agent, b.queue = a.queue, b.running = a.running,
           b.inflight = (a.inflight \/ CanAsk(a))
    PROVE  Honest(b, q \o (msgs \o Asking(a)))
<1> DEFINE k == Asking(a)
           mk == msgs \o k
           Q == q \o mk
           ql == Len(agents[n].queue)
           rl == Len(agents[n].running)
           aq == Len(a.queue)
           ar == Len(a.running)
<1>1. /\ ql \in Nat /\ rl \in Nat /\ aq \in Nat /\ ar \in Nat
      /\ Len(q) \in Nat /\ DOMAIN q = 1 .. Len(q)
      /\ Len(msgs) \in Nat /\ DOMAIN msgs = 1 .. Len(msgs)
      /\ BatchSize \in Nat
  BY LenProperties, BatchSizePositive DEF Agent
<1>2. /\ a.inflight = agents[n].inflight /\ aq <= ql /\ ar <= BatchSize
      /\ aq + ar + Len(msgs) = ql + rl
      /\ \A i \in DOMAIN msgs : msgs[i].type # "work_request"
  BY DEF KeepsBacklog
<1>3. /\ k \in Seq(Message)
      /\ CanAsk(a) => /\ ~a.inflight /\ aq < BatchSize
                      /\ k = <<WorkRequest(BatchSize - aq)>>
      /\ ~CanAsk(a) => k = <<>>
  BY AskingForms
<1>4. Len(k) \in Nat /\ (CanAsk(a) => Len(k) = 1) /\ (~CanAsk(a) => Len(k) = 0)
  BY <1>3
<1> HIDE DEF k
<1>5. /\ mk \in Seq(Message) /\ Len(mk) = Len(msgs) + Len(k)
      /\ \A i \in 1 .. Len(msgs) + Len(k) :
            mk[i] = IF i <= Len(msgs) THEN msgs[i] ELSE k[i - Len(msgs)]
  BY <1>3, ConcatProperties
<1> HIDE DEF mk
<1>6. /\ Q \in Seq(Message) /\ Len(Q) = Len(q) + Len(mk)
      /\ \A i \in 1 .. Len(q) + Len(mk) : Q[i] = IF i <= Len(q) THEN q[i] ELSE mk[i - Len(q)]
  <2>1. mk \in Seq(Message)
    BY <1>5
  <2> QED
    BY <2>1, ConcatProperties
<1> DEFINE bq == Len(b.queue)
           br == Len(b.running)
<1>13. bq = aq /\ br = ar
  OBVIOUS
<1> HIDE DEF Q, ql, rl, aq, ar, bq, br
<1>14. /\ ql \in Nat /\ rl \in Nat /\ aq \in Nat /\ ar \in Nat /\ BatchSize \in Nat
       /\ aq <= ql /\ ar <= BatchSize
  BY <1>1, <1>2
<1>7. Len(Q) = Len(q) + Len(msgs) + Len(k) /\ DOMAIN Q = 1 .. (Len(q) + Len(msgs) + Len(k))
  <2>1. Len(Q) = Len(q) + Len(msgs) + Len(k)
    BY <1>1, <1>4, <1>5, <1>6
  <2> QED
    BY <1>6, <2>1, LenProperties
<1>8. ASSUME NEW i \in DOMAIN q PROVE i \in DOMAIN Q /\ Q[i] = q[i]
  BY <1>1, <1>4, <1>5, <1>6, <1>7
<1>9. ASSUME NEW i \in DOMAIN Q, i > Len(q), i <= Len(q) + Len(msgs)
      PROVE  Q[i].type # "work_request"
  <2>1. i - Len(q) \in 1 .. Len(msgs)
    BY <1>1, <1>4, <1>7, <1>9
  <2>2. Q[i] = mk[i - Len(q)] /\ mk[i - Len(q)] = msgs[i - Len(q)]
    BY <1>1, <1>4, <1>5, <1>6, <1>7, <1>9, <2>1
  <2> QED
    BY <1>1, <1>2, <2>1, <2>2
<1>10. CASE agents[n].inflight
  <2>1. ~CanAsk(a) /\ Len(k) = 0 /\ b.inflight
    BY <1>2, <1>3, <1>4, <1>10
  <2>2. PICK r \in DOMAIN q :
          /\ q[r].type = "work_request"
          /\ \A i \in DOMAIN q : i # r => q[i].type # "work_request"
          /\ ql + q[r].capacity <= BatchSize
          /\ ql + rl + q[r].capacity + (Len(q) - r) <= 2 * BatchSize
    BY <1>10 DEF Honest, ql, rl
  <2>3. q[r].capacity \in 1 .. BatchSize
    <3>1. q[r] \in Message
      BY <1>1, ElementOfSeq
    <3> QED
      BY <2>2, <3>1, MessageForms
  <2>4. r \in DOMAIN Q /\ Q[r] = q[r] /\ r \in Nat
    BY <1>1, <1>8
  <2>5. ASSUME NEW i \in DOMAIN Q, i # r PROVE Q[i].type # "work_request"
    <3>1. CASE i <= Len(q)
      <4>1. i \in DOMAIN q
        BY <1>1, <1>7, <3>1
      <4> QED
        BY <1>8, <2>2, <2>5, <4>1
    <3>2. CASE i > Len(q)
      <4>1. i <= Len(q) + Len(msgs)
        BY <1>1, <1>7, <2>1
      <4> QED
        BY <1>9, <3>2, <4>1
    <3> QED
      BY <1>1, <1>7, <3>1, <3>2
  <2> DEFINE c == q[r].capacity
             LQ == Len(Q)
             lq == Len(q)
             lm == Len(msgs)
  <2>6. /\ c \in Nat /\ Q[r].capacity = c /\ lq \in Nat /\ lm \in Nat /\ r \in Nat
        /\ ql + c <= BatchSize
        /\ ql + rl + c + (lq - r) <= 2 * BatchSize
        /\ LQ = lq + lm
        /\ aq + ar + lm = ql + rl
    BY <1>1, <1>2, <1>7, <2>1, <2>2, <2>3, <2>4
  <2> HIDE DEF c, LQ, lq, lm
  <2>7. bq + c <= BatchSize /\ bq + br + c + (LQ - r) <= 2 * BatchSize
    <3>1. bq <= ql /\ bq \in Nat /\ br \in Nat /\ bq + br + lm = ql + rl
      BY <1>13, <1>14, <2>6
    <3>2. bq + c <= BatchSize
      BY <1>14, <2>6, <3>1
    <3>3. /\ bq \in Nat /\ br \in Nat /\ c \in Nat /\ lq \in Nat /\ lm \in Nat /\ r \in Nat
          /\ ql \in Nat /\ rl \in Nat /\ BatchSize \in Nat
      BY <1>14, <2>6, <3>1
    <3>4. LQ = lq + lm /\ bq + br + lm = ql + rl
      BY <2>6, <3>1
    <3>5. ql + rl + c + (lq - r) <= 2 * BatchSize
      BY <2>6
    <3>6. bq + br + c + (LQ - r) <= 2 * BatchSize
      BY <3>3, <3>4, <3>5
    <3> QED
      BY <3>2, <3>6
  <2>8. Q[r].type = "work_request"
    BY <2>2, <2>4
  <2> QED
    BY <2>1, <2>4, <2>5, <2>6, <2>7, <2>8 DEF Honest, Q, mk, k, bq, br, LQ
<1>11. CASE ~agents[n].inflight /\ CanAsk(a)
  <2> DEFINE r == Len(q) + Len(msgs) + 1
             c == BatchSize - aq
             LQ == Len(Q)
  <2>1. /\ Len(k) = 1 /\ b.inflight /\ aq < BatchSize /\ k[1] = WorkRequest(c)
    <3>1. k = <<WorkRequest(c)>> /\ Len(k) = 1 /\ aq < BatchSize
      BY <1>3, <1>4, <1>11
    <3>2. k[1] = WorkRequest(c)
      BY <3>1
    <3> QED
      BY <1>11, <3>1, <3>2
  <2>2. r \in DOMAIN Q /\ Len(Q) = r /\ r \in Nat
    BY <1>1, <1>7, <2>1
  <2>3. Q[r] = WorkRequest(c)
    <3>1. r \in 1 .. Len(q) + Len(mk) /\ ~(r <= Len(q)) /\ r - Len(q) = Len(msgs) + 1
      BY <1>1, <1>5, <2>1
    <3>2. Q[r] = mk[Len(msgs) + 1]
      BY <1>6, <3>1
    <3>3. /\ Len(msgs) + 1 \in 1 .. Len(msgs) + Len(k) /\ ~(Len(msgs) + 1 <= Len(msgs))
          /\ (Len(msgs) + 1) - Len(msgs) = 1
      BY <1>1, <2>1
    <3>4. mk[Len(msgs) + 1] = k[1]
      BY <1>5, <3>3
    <3> QED
      BY <2>1, <3>2, <3>4
  <2>4. Q[r].type = "work_request" /\ Q[r].capacity = c
    BY <2>3 DEF WorkRequest
  <2>5. ASSUME NEW i \in DOMAIN Q, i # r PROVE Q[i].type # "work_request"
    <3>1. CASE i <= Len(q)
      <4>1. i \in DOMAIN q
        BY <1>1, <1>7, <3>1
      <4> QED
        BY <1>8, <1>11, <4>1 DEF Honest
    <3>2. CASE i > Len(q)
      <4>1. i <= Len(q) + Len(msgs)
        BY <1>1, <1>7, <2>1, <2>5
      <4> QED
        BY <1>9, <3>2, <4>1
    <3> QED
      BY <1>1, <1>7, <3>1, <3>2
  <2>6. bq + c <= BatchSize
    BY <1>1, <1>13
  <2>7. bq + br + c + (LQ - r) <= 2 * BatchSize
    <3>1. LQ = r /\ r \in Nat
      BY <2>2
    <3> HIDE DEF LQ, r
    <3> QED
      BY <1>1, <1>2, <1>13, <3>1
  <2> HIDE DEF r, c, LQ
  <2> QED
    BY <2>1, <2>2, <2>4, <2>5, <2>6, <2>7 DEF Honest, Q, mk, k, bq, br, LQ
<1>12. CASE ~agents[n].inflight /\ ~CanAsk(a)
  <2>1. Len(k) = 0 /\ ~b.inflight
    BY <1>2, <1>4, <1>12
  <2>2. ASSUME NEW i \in DOMAIN Q PROVE Q[i].type # "work_request"
    <3>1. CASE i <= Len(q)
      <4>1. i \in DOMAIN q
        BY <1>1, <1>7, <3>1
      <4> QED
        BY <1>8, <1>12, <4>1 DEF Honest
    <3>2. CASE i > Len(q)
      <4>1. i <= Len(q) + Len(msgs)
        BY <1>1, <1>7, <2>1
      <4> QED
        BY <1>9, <3>2, <4>1
    <3> QED
      BY <1>1, <1>7, <3>1, <3>2
  <2> DEFINE LQ == Len(Q)
             lq == Len(q)
             lm == Len(msgs)
  <2>3. lq \in Nat /\ lm \in Nat /\ LQ = lq + lm /\ aq + ar + lm = ql + rl
    BY <1>1, <1>2, <1>7, <2>1
  <2>4. ql + rl + lq <= 2 * BatchSize
    BY <1>12 DEF Honest, ql, rl
  <2> HIDE DEF LQ, lq, lm
  <2>5. bq + br + LQ <= 2 * BatchSize
    BY <1>13, <1>14, <2>3, <2>4
  <2> QED
    BY <2>1, <2>2, <2>5 DEF Honest, Q, mk, k, bq, br, LQ
<1> QED
  BY <1>10, <1>11, <1>12

\* The tail of an inbox.
LEMMA InboxTail ==
    ASSUME NEW q \in Seq(Message), q # <<>>
    PROVE  /\ Len(q) \in Nat /\ Len(q) >= 1 /\ DOMAIN q = 1 .. Len(q)
           /\ Head(q) = q[1] /\ 1 \in DOMAIN q
           /\ Tail(q) \in Seq(Message) /\ Len(Tail(q)) = Len(q) - 1
           /\ DOMAIN Tail(q) = 1 .. (Len(q) - 1)
           /\ \A i \in DOMAIN Tail(q) : i + 1 \in DOMAIN q /\ Tail(q)[i] = q[i + 1]
<1>1. Len(q) \in Nat /\ Len(q) >= 1 /\ DOMAIN q = 1 .. Len(q)
  BY LenProperties, EmptySeq
<1> DEFINE t == Tail(q)
<1>2. /\ t \in Seq(Message) /\ Len(t) = Len(q) - 1
      /\ \A i \in 1 .. Len(t) : t[i] = q[i + 1]
  BY HeadTailProperties
<1>3. Head(q) = q[1]
  OBVIOUS
<1> HIDE DEF t
<1>4. DOMAIN t = 1 .. (Len(q) - 1)
  BY <1>2, LenProperties
<1>5. \A i \in DOMAIN t : i + 1 \in DOMAIN q /\ t[i] = q[i + 1]
  BY <1>1, <1>2, <1>4
<1> QED
  BY <1>1, <1>2, <1>3, <1>4, <1>5 DEF t

\* The handler takes a report.
LEMMA HonestAfterReport ==
    ASSUME NEW a \in Agent, NEW q \in Seq(Message), q # <<>>, Honest(a, q),
           Head(q).type # "work_request"
    PROVE  Honest(a, Tail(q))
<1> DEFINE t == Tail(q)
           aq == Len(a.queue)
           ar == Len(a.running)
           lq == Len(q)
           lt == Len(t)
<1>1. /\ lq \in Nat /\ lq >= 1 /\ DOMAIN q = 1 .. lq /\ q[1].type # "work_request"
      /\ lt = lq - 1 /\ DOMAIN t = 1 .. (lq - 1)
      /\ \A i \in DOMAIN t : i + 1 \in DOMAIN q /\ t[i] = q[i + 1]
  BY InboxTail
<1>2. aq \in Nat /\ ar \in Nat /\ BatchSize \in Nat
  BY LenProperties, BatchSizePositive DEF Agent
<1>3. CASE a.inflight
  <2>1. PICK r \in DOMAIN q :
          /\ q[r].type = "work_request"
          /\ \A i \in DOMAIN q : i # r => q[i].type # "work_request"
          /\ aq + q[r].capacity <= BatchSize
          /\ aq + ar + q[r].capacity + (lq - r) <= 2 * BatchSize
    BY <1>3 DEF Honest
  <2> DEFINE c == q[r].capacity
  <2>2. r # 1 /\ r \in Nat /\ r - 1 \in 1 .. (lq - 1) /\ (r - 1) + 1 = r
    BY <1>1, <2>1
  <2>3. q[r] \in Message
    BY ElementOfSeq, <1>1
  <2>4. c \in Nat
    BY <2>1, <2>3, MessageForms
  <2>5. t[r - 1] = q[r] /\ r - 1 \in DOMAIN t
    BY <1>1, <2>2
  <2>6. ASSUME NEW i \in DOMAIN t, i # r - 1 PROVE t[i].type # "work_request"
    <3>1. i + 1 \in DOMAIN q /\ t[i] = q[i + 1] /\ i + 1 # r
      BY <1>1, <2>2, <2>6
    <3> QED
      BY <2>1, <3>1
  <2> HIDE DEF t, aq, ar, lq, lt
  <2>7. aq + c <= BatchSize /\ aq + ar + c + (lq - r) <= 2 * BatchSize
    BY <2>1
  <2> HIDE DEF c
  <2>8. aq + ar + c + (lt - (r - 1)) <= 2 * BatchSize
    BY <1>1, <1>2, <2>2, <2>4, <2>7
  <2>9. /\ t[r - 1].type = "work_request" /\ aq + t[r - 1].capacity <= BatchSize
        /\ aq + ar + t[r - 1].capacity + (lt - (r - 1)) <= 2 * BatchSize
    BY <2>1, <2>5, <2>7, <2>8 DEF c
  <2> QED
    BY <1>3, <2>5, <2>6, <2>9 DEF Honest, t, aq, ar, lt
<1>4. CASE ~a.inflight
  <2>1. aq + ar + lq <= 2 * BatchSize /\ \A i \in DOMAIN q : q[i].type # "work_request"
    BY <1>4 DEF Honest
  <2>2. \A i \in DOMAIN t : t[i].type # "work_request"
    BY <1>1, <2>1
  <2> HIDE DEF t, aq, ar, lq, lt
  <2>3. aq + ar + lt <= 2 * BatchSize
    BY <1>1, <1>2, <2>1
  <2> QED
    BY <1>4, <2>2, <2>3 DEF Honest, t, aq, ar, lt
<1> QED
  BY <1>3, <1>4

\* The handler takes the request, and the agent gets at most what it asked for.
LEMMA HonestAfterAssignment ==
    ASSUME NEW a \in Agent, NEW q \in Seq(Message), q # <<>>, Honest(a, q),
           Head(q).type = "work_request",
           NEW as \in Seq(UnitIds), Len(as) <= Head(q).capacity,
           NEW b \in Agent, ~b.inflight, b.queue = a.queue \o as, b.running = a.running
    PROVE  Honest(b, Tail(q)) /\ Len(b.queue) <= BatchSize
<1> DEFINE t == Tail(q)
           aq == Len(a.queue)
           bq == Len(b.queue)
           ar == Len(a.running)
           la == Len(as)
           lq == Len(q)
           lt == Len(t)
           c == q[1].capacity
<1>1. /\ lq \in Nat /\ lq >= 1 /\ DOMAIN q = 1 .. lq /\ Head(q) = q[1] /\ 1 \in DOMAIN q
      /\ lt = lq - 1 /\ DOMAIN t = 1 .. (lq - 1)
      /\ \A i \in DOMAIN t : i + 1 \in DOMAIN q /\ t[i] = q[i + 1]
  BY InboxTail
<1>2. /\ aq \in Nat /\ ar \in Nat /\ la \in Nat /\ BatchSize \in Nat
      /\ bq = aq + la
  <2>1. a.queue \in Seq(UnitIds)
    BY DEF Agent
  <2>2. Len(a.queue \o as) = aq + la
    BY <2>1, ConcatProperties
  <2> QED
    BY <2>2, LenProperties, BatchSizePositive DEF Agent
<1>3. q[1].type = "work_request" /\ c \in Nat /\ la <= c
  <2>1. q[1] \in Message
    BY ElementOfSeq, <1>1
  <2>2. q[1].type = "work_request" /\ la <= c
    BY <1>1
  <2>3. c \in 1 .. BatchSize
    BY <2>1, <2>2, MessageForms
  <2>4. c \in Nat
    BY <1>2, <2>3
  <2> QED
    BY <2>2, <2>4
<1>4. a.inflight
  BY <1>1, <1>3 DEF Honest
<1>5. PICK r \in DOMAIN q :
        /\ \A i \in DOMAIN q : i # r => q[i].type # "work_request"
        /\ aq + q[r].capacity <= BatchSize
        /\ aq + ar + q[r].capacity + (lq - r) <= 2 * BatchSize
  BY <1>4 DEF Honest
<1>6. r = 1
  BY <1>1, <1>3, <1>5
<1>7. ASSUME NEW i \in DOMAIN t PROVE t[i].type # "work_request"
  <2>1. i + 1 \in DOMAIN q /\ t[i] = q[i + 1] /\ i + 1 # 1
    BY <1>1
  <2> QED
    BY <1>5, <1>6, <2>1
<1>8. aq + c <= BatchSize /\ aq + ar + c + (lq - 1) <= 2 * BatchSize
  BY <1>5, <1>6
<1> HIDE DEF t, aq, bq, ar, la, lq, lt, c
<1>9. bq <= BatchSize /\ bq + ar + lt <= 2 * BatchSize
  BY <1>1, <1>2, <1>3, <1>8
<1> QED
  BY <1>7, <1>9 DEF Honest, t, bq, ar, lt

\* No step breaks the one request of a connection, nor the bounds of a backlog.
LEMMA OneRequestPreserved ==
    ASSUME IInv, FleetTypeOK, BacklogBounded, OneRequest, [FleetNext]_allVars
    PROVE  BacklogBounded' /\ OneRequest'
<1>1. Typed
  BY DEF FleetTypeOK, Typed
<1>2. ASSUME NEW n \in Nodes, NEW g \in Gens
      PROVE  /\ agents[n] \in Agent /\ conns[n][g].inbox \in Seq(Message)
             /\ agents[n].queue \in Seq(UnitIds) /\ agents[n].running \in Seq(UnitIds)
  BY <1>1 DEF Typed, Agent, Conn
<1>3. ASSUME UNCHANGED agents,
             \A n \in Nodes, g \in Gens :
                InUse(n, g)' => InUse(n, g) /\ conns'[n][g].inbox = conns[n][g].inbox
      PROVE  BacklogBounded' /\ OneRequest'
  BY <1>3 DEF BacklogBounded, OneRequest
\* A step of one node's connection: what must be shown of that node.
<1>4. ASSUME NEW x \in Nodes, NEW g \in Gens, OnlyConn(x, g), OnlyAgent(x),
             Len(agents'[x].queue) <= BatchSize, Len(agents'[x].running) <= BatchSize,
             agents'[x].gen = 0 => agents'[x].queue = <<>> /\ agents'[x].running = <<>>,
             agents'[x].gen \in {agents[x].gen, g, 0},
             agents'[x].gen # g => agents'[x] = agents[x] \/ agents'[x].gen = 0,
             InUse(x, g)' => Honest(agents'[x], conns'[x][g].inbox)
      PROVE  BacklogBounded' /\ OneRequest'
  <2>1. BacklogBounded'
    BY <1>4 DEF BacklogBounded, OnlyAgent
  <2>2. ASSUME NEW n \in Nodes, NEW h \in Gens, InUse(n, h)'
        PROVE  Honest(agents'[n], conns'[n][h].inbox)
    <3>1. CASE n # x
      BY <1>4, <2>2, <3>1 DEF OneRequest, InUse, Linked, OnlyAgent, OnlyConn
    <3>2. CASE n = x /\ h # g
      <4>1. agents'[x].gen = h /\ h # 0
        BY <2>2, <3>2, FleetAssumption DEF InUse, Linked, Gens
      <4>2. agents'[x] = agents[x]
        BY <1>4, <3>2, <4>1
      <4> QED
        BY <1>4, <2>2, <3>2, <4>2 DEF OneRequest, InUse, Linked, OnlyConn
    <3>3. CASE n = x /\ h = g
      BY <1>4, <2>2, <3>3
    <3> QED
      BY <3>1, <3>2, <3>3
  <2> QED
    BY <2>1, <2>2 DEF OneRequest, Honest
<1>5. CASE Quiet
  BY <1>3, <1>5 DEF Quiet, InUse, Linked
<1>6. ASSUME NEW x \in Nodes, CloseStale(x)
      PROVE  BacklogBounded' /\ OneRequest'
  BY <1>3, <1>6, CloseStaleEffect DEF InUse, Linked
<1>7. ASSUME NEW x \in Nodes, NEW g \in Gens, Register(x, g) \/ Leave(x, g)
      PROVE  BacklogBounded' /\ OneRequest'
  <2>1. CASE Register(x, g)
    BY <1>3, <2>1, RegisterEffect DEF InUse, Linked, OnlyConn
  <2>2. CASE Leave(x, g)
    BY <1>1, <1>3, <2>2, LeaveEffect DEF InUse, Linked, OnlyConn
  <2> QED
    BY <1>7, <2>1, <2>2
<1>8. ASSUME NEW x \in Nodes, Connect(x)
      PROVE  BacklogBounded' /\ OneRequest'
  <2>1. PICK g \in Gens : /\ OnlyConn(x, g) /\ conns'[x][g].inbox = Carried(agents[x])
                          /\ agents'[x].gen = g
                          /\ agents'[x].queue = agents[x].queue
                          /\ agents'[x].running = agents[x].running
                          /\ agents'[x].inflight = agents[x].inflight
    BY <1>1, <1>8, ConnectEffect
  <2>2. /\ OnlyAgent(x) /\ agents[x].queue = <<>> /\ agents[x].running = <<>>
        /\ Len(agents[x].queue) = 0 /\ Len(agents[x].running) = 0
    BY <1>1, <1>8, ConnectEffect DEF BacklogBounded
  <2>3. BatchSize \in Nat /\ g # 0
    BY BatchSizePositive, FleetAssumption DEF Gens
  <2>4. Honest(agents'[x], Carried(agents[x]))
    <3>1. CASE agents[x].inflight
      <4> DEFINE q == Carried(agents[x])
      <4>1. q = <<WorkRequest(BatchSize)>>
        BY <3>1 DEF Carried
      <4>2. /\ Len(q) = 1 /\ DOMAIN q = 1 .. 1
            /\ q[1].type = "work_request" /\ q[1].capacity = BatchSize
        BY <4>1 DEF WorkRequest
      <4> HIDE DEF q
      <4>3. /\ 1 \in DOMAIN q /\ \A i \in DOMAIN q : i # 1 => q[i].type # "work_request"
            /\ 0 + q[1].capacity <= BatchSize
            /\ 0 + 0 + q[1].capacity + (Len(q) - 1) <= 2 * BatchSize
        BY <2>3, <4>2
      <4> QED
        BY <2>1, <2>2, <3>1, <4>2, <4>3 DEF Honest, q
    <3>2. CASE ~agents[x].inflight
      <4>1. Carried(agents[x]) = <<>>
        BY <3>2 DEF Carried
      <4>2. Len(<<>>) = 0 /\ \A i \in DOMAIN <<>> : <<>>[i].type # "work_request"
        OBVIOUS
      <4>3. 0 + 0 + 0 <= 2 * BatchSize
        BY <2>3
      <4> QED
        BY <2>1, <2>2, <3>2, <4>1, <4>2, <4>3 DEF Honest
    <3> QED
      BY <3>1, <3>2
  <2>5. Len(agents'[x].queue) <= BatchSize /\ Len(agents'[x].running) <= BatchSize
    BY <2>1, <2>2, <2>3
  <2> QED
    BY <1>4, <2>1, <2>2, <2>3, <2>4, <2>5
<1>9. ASSUME NEW x \in Nodes, LoseConnection(x)
      PROVE  BacklogBounded' /\ OneRequest'
  <2>0. agents[x].gen \in Gens
    BY <1>1, <1>9, LoseEffect
  <2> PICK g \in Gens : g = agents[x].gen
    BY <2>0
  <2>1. /\ OnlyConn(x, g) /\ OnlyAgent(x)
        /\ agents'[x].gen = 0 /\ agents'[x].queue = <<>> /\ agents'[x].running = <<>>
    BY <1>1, <1>9, LoseEffect
  <2>2. Len(agents'[x].queue) <= BatchSize /\ Len(agents'[x].running) <= BatchSize /\ g # 0
    BY <2>1, BatchSizePositive, FleetAssumption DEF Gens
  <2>3. ~InUse(x, g)'
    BY <2>1, <2>2 DEF InUse, Linked
  <2> QED
    BY <1>4, <2>1, <2>2, <2>3
<1>10. ASSUME NEW x \in Nodes, AgentStep(x)
       PROVE  BacklogBounded' /\ OneRequest'
  <2>1. PICK a \in Agent, msgs \in Seq(Message) : Sends(x, a, msgs) /\ KeepsBacklog(x, a, msgs)
    BY <1>1, <1>10, AgentKeepsBacklog
  <2>0. agents[x].gen \in Gens
    BY <2>1, FleetAssumption, <1>1 DEF Sends, Typed, Agent, Gens
  <2> PICK g \in Gens : g = agents[x].gen
    BY <2>0
  <2> DEFINE q == conns[x][g].inbox
  <2>2. /\ a.gen = g /\ Len(a.queue) <= Len(agents[x].queue)
        /\ Len(agents[x].running) <= BatchSize => Len(a.running) <= BatchSize
    BY <2>1 DEF KeepsBacklog
  <2>3. /\ Typed' /\ OnlyConn(x, g) /\ OnlyAgent(x)
        /\ conns'[x][g].phase = conns[x][g].phase
        /\ conns[x][g].phase \in {"accepted", "open"} =>
              conns'[x][g].inbox = q \o (msgs \o Asking(a))
        /\ agents'[x].gen = g
        /\ agents'[x].queue = a.queue /\ agents'[x].running = a.running
        /\ agents'[x].inflight = (a.inflight \/ CanAsk(a))
    BY <1>1, <2>1, <2>2, SendsEffect
  <2>4. /\ Len(agents[x].queue) <= BatchSize /\ Len(agents[x].running) <= BatchSize
        /\ Len(agents[x].queue) \in Nat /\ Len(a.queue) \in Nat /\ BatchSize \in Nat
    BY <1>2, LenProperties, BatchSizePositive DEF BacklogBounded, Agent
  <2>5. Len(agents'[x].queue) <= BatchSize /\ Len(agents'[x].running) <= BatchSize /\ g # 0
    <3>1. Len(a.queue) <= BatchSize
      BY <2>2, <2>4
    <3>2. Len(a.running) <= BatchSize
      BY <2>2, <2>4
    <3>3. g # 0
      BY FleetAssumption DEF Gens
    <3> QED
      BY <2>3, <3>1, <3>2, <3>3
  <2>6. ASSUME InUse(x, g)' PROVE Honest(agents'[x], conns'[x][g].inbox)
    <3>1. InUse(x, g) /\ conns'[x][g].inbox = q \o (msgs \o Asking(a))
      BY <2>3, <2>6 DEF InUse, Linked
    <3>2. Honest(agents[x], q) /\ q \in Seq(Message) /\ agents[x] \in Agent
      BY <1>2, <2>3, <3>1 DEF OneRequest
    <3>3. agents'[x] \in Agent
      BY <2>3 DEF Typed
    <3> DEFINE b == agents'[x]
    <3>4. /\ b \in Agent /\ b.queue = a.queue /\ b.running = a.running
          /\ b.inflight = (a.inflight \/ CanAsk(a))
      BY <2>3, <3>3
    <3> HIDE DEF b, q
    <3>5. Honest(b, q \o (msgs \o Asking(a)))
      BY <2>1, <2>4, <3>2, <3>4, HonestAfterSend
    <3> QED
      BY <3>1, <3>5 DEF b
  <2> QED
    BY <1>4, <2>3, <2>5, <2>6
<1>11. ASSUME NEW x \in Nodes, NEW g \in Gens, HandleResult(x, g) \/ HandleFailed(x, g)
       PROVE  BacklogBounded' /\ OneRequest'
  <2> DEFINE q == conns[x][g].inbox
  <2>1. /\ Handling(x, g) /\ Handled(x, g) /\ agents' = agents
        /\ Head(q).type # "work_request"
    BY <1>1, <1>11, ReportHandled
  <2>2. /\ OnlyConn(x, g) /\ conns'[x][g].phase = conns[x][g].phase
        /\ conns'[x][g].inbox = Tail(q) /\ q \in Seq(Message) /\ q # <<>>
    BY <1>1, <2>1, HandledEffect
  <2>3. ASSUME InUse(x, g)' PROVE Honest(agents'[x], conns'[x][g].inbox)
    <3>1. InUse(x, g) /\ agents[x] \in Agent
      BY <1>2, <2>1, <2>2, <2>3 DEF InUse, Linked
    <3>2. Honest(agents[x], q)
      BY <3>1 DEF OneRequest
    <3> HIDE DEF q
    <3>3. Honest(agents[x], Tail(q))
      BY <2>1, <2>2, <3>1, <3>2, HonestAfterReport
    <3> QED
      BY <2>1, <2>2, <3>3
  <2>4. OnlyAgent(x)
    BY <2>1 DEF OnlyAgent
  <2>5. Len(agents'[x].queue) <= BatchSize /\ Len(agents'[x].running) <= BatchSize
        /\ (agents'[x].gen = 0 => agents'[x].queue = <<>> /\ agents'[x].running = <<>>)
    BY <2>1 DEF BacklogBounded
  <2> QED
    BY <1>4, <2>1, <2>2, <2>3, <2>4, <2>5
<1>12. ASSUME NEW x \in Nodes, NEW g \in Gens, HandleRequest(x, g)
       PROVE  BacklogBounded' /\ OneRequest'
  <2> DEFINE q == conns[x][g].inbox
             c == conns[x][g]
             capacity == Head(q).capacity
             count == LeaseCount(capacity)
             as == Assigned(count, LeaseModel(x))
  <2>1. /\ Typed' /\ OnlyConn(x, g) /\ OnlyAgent(x)
        /\ capacity \in 1 .. BatchSize /\ Head(q).type = "work_request"
        /\ count \in UnitIds /\ count <= capacity
        /\ c.phase \in {"open", "closing"}
        /\ q \in Seq(Message) /\ q # <<>>
        /\ conns'[x][g].phase = c.phase
        /\ c.phase = "open" => conns'[x][g].inbox = Tail(q)
        /\ agents'[x].gen = agents[x].gen
        /\ IF c.phase = "open" /\ Linked(x, g)
           THEN /\ agents'[x].inflight = FALSE
                /\ agents'[x].queue = agents[x].queue \o as
                /\ agents'[x].running = agents[x].running
           ELSE agents'[x] = agents[x]
    BY <1>1, <1>12, HandleRequestEffect
  <2>2. as \in Seq(UnitIds) /\ Len(as) <= count
    BY <2>1, AssignedUnits DEF IInv, TypeOK
  <2>3. Len(as) <= capacity
    <3> DEFINE la == Len(as)
    <3>1. la \in Nat /\ count \in Nat /\ capacity \in Nat
      <4>1. la \in Nat
        BY <2>2, LenProperties
      <4>2. count \in UnitIds /\ capacity \in 1 .. BatchSize
        BY <2>1
      <4> HIDE DEF la, count, capacity
      <4>3. count \in Nat /\ capacity \in Nat
        BY <4>2, BatchSizePositive, BoundsAssumption DEF UnitIds
      <4> QED
        BY <4>1, <4>3
    <3>2. la <= count /\ count <= capacity
      BY <2>1, <2>2
    <3> HIDE DEF la, count, capacity
    <3>3. la <= capacity
      BY <3>1, <3>2
    <3> QED
      BY <3>3 DEF la
  <2> HIDE DEF as
  <2>4. CASE c.phase = "open" /\ Linked(x, g)
    <3> DEFINE b == agents'[x]
    <3>1. /\ InUse(x, g) /\ agents[x] \in Agent /\ b \in Agent /\ ~b.inflight
          /\ b.queue = agents[x].queue \o as /\ b.running = agents[x].running
      BY <1>2, <2>1, <2>4 DEF InUse, Typed
    <3>2. Honest(agents[x], q)
      BY <3>1 DEF OneRequest
    <3>3. Honest(b, Tail(q)) /\ Len(b.queue) <= BatchSize
      <4> HIDE DEF b, q
      <4> QED
        BY <2>1, <2>2, <2>3, <3>1, <3>2, HonestAfterAssignment
    <3>4. /\ conns'[x][g].inbox = Tail(q) /\ agents'[x].gen = g /\ g # 0
          /\ Len(b.running) <= BatchSize
      BY <2>1, <2>4, <3>1, FleetAssumption DEF Linked, BacklogBounded, Gens
    <3> QED
      BY <1>4, <2>1, <3>3, <3>4
  <2>5. CASE ~(c.phase = "open" /\ Linked(x, g))
    <3>1. agents'[x] = agents[x] /\ ~InUse(x, g)'
      BY <2>1, <2>5 DEF InUse, Linked
    <3> QED
      BY <1>4, <2>1, <3>1 DEF BacklogBounded
  <2> QED
    BY <2>4, <2>5
<1> QED
  BY <1>5, <1>6, <1>7, <1>8, <1>9, <1>10, <1>11, <1>12, FleetCases DEF AgentStep, HandlerStep
-----------------------------------------------------------------------------
(***************************************************************************)
(* The leases of a healthy connection.                                     *)
(***************************************************************************)
\* The unit is in the agent's backlog, is being decoded or is reported on.
Accounted(n, g, u) ==
    \/ Lists(agents[n].queue, u)
    \/ Lists(agents[n].running, u)
    \/ CarriesReport(conns[n][g].inbox, u)

\* LeaseAccounted, with the operators of this module.
LEMMA AccountedForm ==
    LeaseAccounted <=>
        \A n \in Nodes, g \in Gens : Healthy(n, g) => \A u \in HeldBy(n) : Accounted(n, g, u)
BY DEF LeaseAccounted, Accounted, Lists, CarriesReport, Reporting, ReportsOn

\* What a queue lists, it lists when it is extended at either end.
LEMMA ListsConcat ==
    ASSUME NEW S, NEW p \in Seq(S), NEW q \in Seq(S), NEW u
    PROVE  /\ Lists(p, u) \/ Lists(q, u) => Lists(p \o q, u)
           /\ CarriesReport(p, u) \/ CarriesReport(q, u) => CarriesReport(p \o q, u)
<1> DEFINE w == p \o q
<1>1. /\ w \in Seq(S) /\ Len(w) = Len(p) + Len(q)
      /\ \A i \in 1 .. Len(p) + Len(q) : w[i] = IF i <= Len(p) THEN p[i] ELSE q[i - Len(p)]
  BY ConcatProperties
<1> HIDE DEF w
<1>2. /\ Len(p) \in Nat /\ Len(q) \in Nat
      /\ DOMAIN p = 1 .. Len(p) /\ DOMAIN q = 1 .. Len(q) /\ DOMAIN w = 1 .. (Len(p) + Len(q))
  BY <1>1, LenProperties
<1>3. \A i \in DOMAIN p : i \in DOMAIN w /\ w[i] = p[i]
  BY <1>1, <1>2
<1>4. ASSUME NEW i \in DOMAIN q
      PROVE  Len(p) + i \in DOMAIN w /\ w[Len(p) + i] = q[i]
  <2>1. Len(p) + i \in 1 .. Len(p) + Len(q) /\ ~(Len(p) + i <= Len(p)) /\ (Len(p) + i) - Len(p) = i
    BY <1>2
  <2> QED
    BY <1>1, <1>2, <2>1
<1> QED
  BY <1>3, <1>4 DEF Lists, CarriesReport, w

\* Taking the head of an inbox loses no other report.
LEMMA CarriesAfterTail ==
    ASSUME NEW q \in Seq(Message), q # <<>>, NEW u, CarriesReport(q, u), ~ReportsOn(Head(q), u)
    PROVE  CarriesReport(Tail(q), u)
<1> DEFINE t == Tail(q)
<1>1. /\ Len(q) \in Nat /\ Len(q) >= 1 /\ DOMAIN q = 1 .. Len(q) /\ Head(q) = q[1]
      /\ DOMAIN t = 1 .. (Len(q) - 1) /\ \A i \in DOMAIN t : t[i] = q[i + 1]
  BY InboxTail
<1> HIDE DEF t
<1>2. PICK i \in DOMAIN q : ReportsOn(q[i], u)
  BY DEF CarriesReport
<1>3. i - 1 \in DOMAIN t /\ (i - 1) + 1 = i
  BY <1>1, <1>2
<1> QED
  BY <1>1, <1>2, <1>3 DEF CarriesReport, t

\* A connection is healthy after a step only if it was before, or nothing is
\* leased to the node; leases are added only as the request is answered, and
\* none that remains drops out of account.
LEMMA HealthyStep ==
    ASSUME IInv, FleetTypeOK, LeaseBacked, [FleetNext]_allVars,
           NEW n \in Nodes, NEW g \in Gens, Healthy(n, g)'
    PROVE  \/ HeldBy(n)' = {}
           \/ /\ Healthy(n, g)
              /\ HeldBy(n)' \subseteq HeldBy(n) \/ ~agents'[n].inflight
              /\ \A u \in HeldBy(n)' :
                    (u \in HeldBy(n) => Accounted(n, g, u)) => Accounted(n, g, u)'
<1> DEFINE Goal ==
             \/ HeldBy(n)' = {}
             \/ /\ Healthy(n, g)
                /\ HeldBy(n)' \subseteq HeldBy(n) \/ ~agents'[n].inflight
                /\ \A u \in HeldBy(n)' :
                      (u \in HeldBy(n) => Accounted(n, g, u)) => Accounted(n, g, u)'
<1>1. Typed /\ g # 0
  BY FleetAssumption DEF FleetTypeOK, Typed, Gens
<1>2. /\ agents'[n].gen = g /\ conns'[n][g].phase = "open"
      /\ \A h \in Gens \ {g} : conns'[n][h].phase \notin {"open", "closing"}
  BY DEF Healthy, Linked
<1>3. ASSUME NoNewLease PROVE HeldBy(n)' \subseteq HeldBy(n)
  BY <1>3 DEF NoNewLease, HeldBy
<1>4. ASSUME UNCHANGED vars PROVE NoNewLease
  BY <1>4, SettlingStartsNoLease
\* A step that leaves the node's agent and its open connections as they are.
<1>5. ASSUME NoNewLease, agents'[n] = agents[n], conns'[n][g].inbox = conns[n][g].inbox,
             conns[n][g].phase = "open",
             \A h \in Gens \ {g} : conns[n][h].phase \notin {"open", "closing"}
      PROVE  Goal
  BY <1>2, <1>3, <1>5 DEF Healthy, Linked, Accounted
<1>6. ASSUME NEW x \in Nodes, x # n, NEW h \in Gens, OnlyConn(x, h), OnlyAgent(x), NoNewLease
      PROVE  Goal
  BY <1>2, <1>5, <1>6 DEF OnlyConn, OnlyAgent
<1>7. CASE Quiet
  BY <1>2, <1>5, <1>7 DEF Quiet
<1>8. ASSUME NEW x \in Nodes, CloseStale(x)
      PROVE  Goal
  <2>1. /\ agents' = agents
        /\ \A y \in Nodes, h \in Gens :
              /\ conns'[y][h].inbox = conns[y][h].inbox
              /\ \/ conns'[y][h].phase = conns[y][h].phase
                 \/ conns[y][h].phase = "open" /\ conns'[y][h].phase = "closing"
    BY <1>8, CloseStaleEffect
  <2>2. NoNewLease
    BY <1>4, <1>8 DEF CloseStale
  <2> QED
    BY <1>2, <1>5, <2>1, <2>2
<1>9. ASSUME NEW x \in Nodes, Connect(x) \/ LoseConnection(x)
      PROVE  Goal
  <2>1. NoNewLease
    BY <1>4, <1>9 DEF Connect, LoseConnection
  <2>2. CASE Connect(x)
    <3>1. PICK h \in Gens : OnlyConn(x, h) /\ conns'[x][h].phase = "accepted" /\ agents'[x].gen = h
      BY <1>1, <2>2, ConnectEffect
    <3>2. OnlyAgent(x)
      BY <1>1, <2>2, ConnectEffect
    <3>3. x # n
      BY <1>2, <3>1
    <3> QED
      BY <1>6, <2>1, <3>1, <3>2, <3>3
  <2>3. CASE LoseConnection(x)
    <3>1. PICK h \in Gens : OnlyConn(x, h)
      BY <1>1, <2>3, LoseEffect
    <3>2. OnlyAgent(x) /\ agents'[x].gen = 0
      BY <1>1, <2>3, LoseEffect
    <3>3. x # n
      BY <1>1, <1>2, <3>2
    <3> QED
      BY <1>6, <2>1, <3>1, <3>2, <3>3
  <2> QED
    BY <1>9, <2>2, <2>3
<1>10. ASSUME NEW x \in Nodes, AgentStep(x)
       PROVE  Goal
  <2>1. PICK a \in Agent, msgs \in Seq(Message) : Sends(x, a, msgs) /\ KeepsBacklog(x, a, msgs)
    BY <1>1, <1>10, AgentKeepsBacklog
  <2>2. UNCHANGED vars /\ OnlyAgent(x) /\ agents'[x].gen = agents[x].gen
        /\ OnlyConn(x, agents[x].gen)
        /\ \A y \in Nodes, h \in Gens : conns'[y][h].phase = conns[y][h].phase
    BY <1>1, <1>10, AgentStepEffect
  <2>3. NoNewLease /\ a.gen = agents[x].gen /\ agents[x].gen \in Gens
    BY <1>1, <1>4, <2>1, <2>2, FleetAssumption DEF KeepsBacklog, Sends, Typed, Agent, Gens
  <2>4. CASE x # n
    BY <1>6, <2>2, <2>3, <2>4
  <2>5. CASE x = n
    <3>1. agents[n].gen = g /\ conns[n][g].phase = "open"
      BY <1>2, <2>2, <2>5
    <3>2. /\ conns'[n][g].inbox = conns[n][g].inbox \o (msgs \o Asking(a))
          /\ agents'[n].queue = a.queue /\ agents'[n].running = a.running
      BY <1>1, <2>1, <2>3, <2>5, <3>1, SendsEffect
    <3>3. Healthy(n, g)
      BY <1>2, <2>2, <3>1 DEF Healthy, Linked
    <3>4. ASSUME NEW u, Accounted(n, g, u)
          PROVE  Accounted(n, g, u)'
      <4> DEFINE q == conns[n][g].inbox
                 k == Asking(a)
      <4>1. q \in Seq(Message) /\ k \in Seq(Message)
        BY <1>1, AskingForms DEF Typed, Conn
      <4>2. CASE CarriesReport(q, u)
        <5> HIDE DEF q, k
        <5>1. msgs \o k \in Seq(Message)
          BY <4>1, ConcatProperties
        <5>2. CarriesReport(q \o (msgs \o k), u)
          BY <4>1, <4>2, <5>1, ListsConcat
        <5> QED
          BY <3>2, <5>2 DEF Accounted, q, k
      <4>3. CASE Lists(agents[n].queue, u) \/ Lists(agents[n].running, u)
        <5>1. Lists(a.queue, u) \/ Lists(a.running, u) \/ CarriesReport(msgs, u)
          BY <2>1, <2>5, <4>3 DEF KeepsBacklog
        <5>2. CASE CarriesReport(msgs, u)
          <6> HIDE DEF q, k
          <6>1. msgs \o k \in Seq(Message) /\ CarriesReport(msgs \o k, u)
            BY <4>1, <5>2, ConcatProperties, ListsConcat
          <6>2. CarriesReport(q \o (msgs \o k), u)
            BY <4>1, <6>1, ListsConcat
          <6> QED
            BY <3>2, <6>2 DEF Accounted, q, k
        <5> QED
          BY <3>2, <5>1, <5>2 DEF Accounted
      <4> QED
        BY <3>4, <4>2, <4>3 DEF Accounted
    <3> QED
      BY <1>3, <2>3, <3>3, <3>4
  <2> QED
    BY <2>4, <2>5
<1>11. ASSUME NEW x \in Nodes, NEW h \in Gens, Register(x, h)
       PROVE  Goal
  <2>1. /\ OnlyConn(x, h) /\ agents' = agents /\ conns[x][h].phase = "accepted"
        /\ conns'[x][h].phase = "open" /\ conns'[x][h].inbox = conns[x][h].inbox
        /\ UNCHANGED vars
    BY <1>11, RegisterEffect
  <2>2. NoNewLease /\ OnlyAgent(x)
    BY <1>4, <2>1 DEF OnlyAgent
  <2>3. CASE x # n
    BY <1>6, <2>1, <2>2, <2>3
  <2>4. CASE x = n
    <3>1. h = g
      BY <1>2, <2>1, <2>4
    <3>2. \A k \in Gens : conns[n][k].phase \notin {"open", "closing"}
      BY <1>2, <2>1, <2>4, <3>1 DEF OnlyConn
    <3>3. HeldBy(n) = {}
      BY <3>2 DEF LeaseBacked, HeldBy
    <3> QED
      BY <1>3, <2>2, <3>3
  <2> QED
    BY <2>3, <2>4
<1>12. ASSUME NEW x \in Nodes, NEW h \in Gens, HandleResult(x, h) \/ HandleFailed(x, h)
       PROVE  Goal
  <2> DEFINE q == conns[x][h].inbox
             msg == Head(q)
  <2>1. /\ Handling(x, h) /\ Handled(x, h) /\ agents' = agents
        /\ msg \in Message /\ msg.type # "work_request" /\ msg.unit \in UnitIds
        /\ Fail(msg.unit) \/ \E t \in Texts : Complete(msg.unit, x, t)
    BY <1>1, <1>12, ReportHandled
  <2>2. /\ OnlyConn(x, h) /\ conns'[x][h].phase = conns[x][h].phase
        /\ conns'[x][h].inbox = Tail(q) /\ q \in Seq(Message) /\ q # <<>>
    BY <1>1, <2>1, HandledEffect
  <2>3. NoNewLease /\ OnlyAgent(x)
    BY <2>1, SettlingStartsNoLease DEF OnlyAgent
  <2>4. CASE x # n
    BY <1>6, <2>2, <2>3, <2>4
  <2>5. CASE x = n
    <3>1. conns[x][h].phase \in {"open", "closing"}
      BY <2>1 DEF Handling
    <3>2. h = g
      BY <1>2, <2>2, <2>5, <3>1
    <3>3. Healthy(n, g)
      BY <1>2, <2>1, <2>2, <2>5, <3>2 DEF Healthy, Linked, OnlyConn
    <3>4. ASSUME NEW u \in HeldBy(n)', Accounted(n, g, u)
          PROVE  Accounted(n, g, u)'
      <4>1. CASE Lists(agents[n].queue, u) \/ Lists(agents[n].running, u)
        BY <2>1, <4>1 DEF Accounted
      <4>2. CASE CarriesReport(q, u)
        <5> DEFINE v == msg.unit
        <5>1. v \in UnitIds /\ (Fail(v) \/ \E t \in Texts : Complete(v, x, t))
          BY <2>1
        <5> HIDE DEF v
        <5>2. units'[v].state # "leased"
          BY <5>1, ReportEndsLease
        <5>3. u # v
          BY <3>4, <5>2 DEF HeldBy
        <5>4. ~ReportsOn(msg, u)
          BY <5>3 DEF ReportsOn, v
        <5>5. CarriesReport(Tail(q), u)
          <6> HIDE DEF q
          <6> QED
            BY <2>2, <4>2, <5>4, CarriesAfterTail
        <5> QED
          BY <2>2, <2>5, <3>2, <5>5 DEF Accounted
      <4> QED
        BY <2>5, <3>2, <3>4, <4>1, <4>2 DEF Accounted
    <3> QED
      BY <1>3, <2>3, <3>3, <3>4
  <2> QED
    BY <2>4, <2>5
<1>13. ASSUME NEW x \in Nodes, NEW h \in Gens, Leave(x, h)
       PROVE  Goal
  <2>1. OnlyConn(x, h) /\ OnlyAgent(x) /\ agents' = agents /\ conns'[x][h].phase = "done"
    BY <1>1, <1>13, LeaveEffect DEF OnlyAgent
  <2>2. CASE conns[x][h].phase = "accepted" /\ UNCHANGED vars
    <3>1. CASE x # n
      BY <1>4, <1>6, <2>1, <2>2, <3>1
    <3>2. CASE x = n
      <4>1. h # g
        BY <1>2, <2>1, <3>2
      <4> QED
        BY <1>2, <1>4, <1>5, <2>1, <2>2, <3>2, <4>1 DEF OnlyConn
    <3> QED
      BY <3>1, <3>2
  <2>3. CASE ReleaseNode(x)
    <3>1. NoNewLease /\ HeldBy(x)' = {}
      BY <2>3, ReleaseEndsAll
    <3> QED
      BY <1>6, <2>1, <3>1
  <2> QED
    BY <1>13, <2>2, <2>3 DEF Leave
<1>14. ASSUME NEW x \in Nodes, NEW h \in Gens, HandleRequest(x, h)
       PROVE  Goal
  <2> DEFINE q == conns[x][h].inbox
             c == conns[x][h]
             count == LeaseCount(Head(q).capacity)
             m == LeaseModel(x)
             as == Assigned(count, m)
  <2>1. /\ OnlyConn(x, h) /\ OnlyAgent(x)
        /\ Head(q).type = "work_request"
        /\ count \in UnitIds
        /\ Lease(x, count, m)
        /\ c.phase \in {"open", "closing"}
        /\ q \in Seq(Message) /\ q # <<>>
        /\ conns'[x][h].phase = c.phase
        /\ c.phase = "open" => conns'[x][h].inbox = Tail(q)
        /\ agents'[x].gen = agents[x].gen
        /\ c.phase = "open" /\ Linked(x, h) =>
              /\ agents'[x].inflight = FALSE
              /\ agents'[x].queue = agents[x].queue \o as
              /\ agents'[x].running = agents[x].running
    BY <1>1, <1>14, HandleRequestEffect
  <2>2. ASSUME NEW u \in UnitIds, units'[u].state = "leased"
        PROVE  \/ units[u].state = "leased" /\ units'[u].node_id = units[u].node_id
               \/ u \in Granted(count, m) /\ units'[u].node_id = x
    <3> HIDE DEF count, m
    <3> QED
      BY <2>1, <2>2, LeaseStartsLeases
  <2>3. CASE x # n
    <3>1. HeldBy(n)' \subseteq HeldBy(n)
      BY <2>2, <2>3 DEF HeldBy
    <3> QED
      BY <1>2, <2>1, <2>3, <3>1 DEF Healthy, Linked, Accounted, OnlyConn, OnlyAgent
  <2>4. CASE x = n
    <3>1. h = g
      BY <1>2, <2>1, <2>4
    <3>2. c.phase = "open" /\ Linked(n, g) /\ Healthy(n, g)
      BY <1>2, <2>1, <2>4, <3>1 DEF Healthy, Linked, OnlyConn
    <3>3. /\ as \in Seq(UnitIds) /\ agents[n].queue \in Seq(UnitIds)
          /\ \A u \in Granted(count, m) : Lists(as, u)
      <4> HIDE DEF count, m
      <4>1. /\ as \in Seq(UnitIds)
            /\ \A u \in Granted(count, m) : \E k \in DOMAIN as : as[k] = u
        BY <2>1, AssignedUnits DEF IInv, TypeOK
      <4> QED
        BY <1>1, <4>1 DEF Typed, Agent, Lists
    <3> HIDE DEF as
    <3>4. ASSUME NEW u \in HeldBy(n)', u \in HeldBy(n) => Accounted(n, g, u)
          PROVE  Accounted(n, g, u)'
      <4>1. u \in HeldBy(n) \/ u \in Granted(count, m)
        <5>1. u \in UnitIds /\ units'[u].state = "leased" /\ units'[u].node_id = n
          BY <3>4 DEF HeldBy
        <5> QED
          BY <2>2, <5>1 DEF HeldBy
      <4>2. CASE Lists(as, u) \/ Lists(agents[n].queue, u)
        <5>1. Lists(agents[n].queue \o as, u)
          BY <3>3, <4>2, ListsConcat
        <5> QED
          BY <2>1, <2>4, <3>1, <3>2, <5>1 DEF Accounted
      <4>3. CASE Lists(agents[n].running, u)
        BY <2>1, <2>4, <3>1, <3>2, <4>3 DEF Accounted
      <4>4. CASE CarriesReport(q, u)
        <5>1. ~ReportsOn(Head(q), u)
          BY <2>1 DEF ReportsOn
        <5>2. CarriesReport(Tail(q), u)
          <6> HIDE DEF q
          <6> QED
            BY <2>1, <4>4, <5>1, CarriesAfterTail
        <5> QED
          BY <2>1, <2>4, <3>1, <3>2, <5>2 DEF Accounted
      <4> QED
        BY <2>4, <3>1, <3>3, <3>4, <4>1, <4>2, <4>3, <4>4 DEF Accounted
    <3>5. ~agents'[n].inflight
      BY <2>1, <2>4, <3>1, <3>2
    <3> QED
      BY <3>2, <3>4, <3>5
  <2> QED
    BY <2>3, <2>4
<1>15. Goal
  BY <1>7, <1>8, <1>9, <1>10, <1>11, <1>12, <1>13, <1>14, FleetCases DEF AgentStep, HandlerStep
<1> QED
  BY <1>15

\* Leases of a healthy connection stay accounted for.
LEMMA LeaseAccountedPreserved ==
    ASSUME IInv, FleetTypeOK, LeaseBacked, LeaseAccounted, [FleetNext]_allVars
    PROVE  \A n \in Nodes, g \in Gens :
              Healthy(n, g)' => \A u \in HeldBy(n)' : Accounted(n, g, u)'
<1> SUFFICES ASSUME NEW n \in Nodes, NEW g \in Gens, Healthy(n, g)', NEW u \in HeldBy(n)'
             PROVE  Accounted(n, g, u)'
  OBVIOUS
<1>1. CASE HeldBy(n)' = {}
  BY <1>1
<1>2. CASE /\ Healthy(n, g)
           /\ (u \in HeldBy(n) => Accounted(n, g, u)) => Accounted(n, g, u)'
  BY <1>2, AccountedForm
<1> QED
  BY <1>1, <1>2, HealthyStep

\* A set whose members are all found in three sequences is no larger than the
\* three together.
LEMMA FoundInThree ==
    ASSUME NEW H, NEW p \in Seq(UnitIds), NEW q \in Seq(UnitIds), NEW box \in Seq(Message),
           \A u \in H : Lists(p, u) \/ Lists(q, u) \/ CarriesReport(box, u)
    PROVE  IsFiniteSet(H) /\ Cardinality(H) <= Len(p) + Len(q) + Len(box)
<1> DEFINE P == {p[i] : i \in DOMAIN p}
           Q == {q[i] : i \in DOMAIN q}
           B == {box[i].unit : i \in DOMAIN box}
           lp == Len(p)
           lq == Len(q)
           lb == Len(box)
<1>1. /\ lp \in Nat /\ lq \in Nat /\ lb \in Nat
      /\ DOMAIN p = 1 .. lp /\ DOMAIN q = 1 .. lq /\ DOMAIN box = 1 .. lb
  BY LenProperties
<1>2. ASSUME NEW k \in Nat
      PROVE  IsFiniteSet(1 .. k) /\ Cardinality(1 .. k) = k
  BY FS_Interval
<1>3. IsFiniteSet(P) /\ Cardinality(P) <= lp
  <2> DEFINE f == [i \in DOMAIN p |-> p[i]]
  <2>1. f \in Surjection(1 .. lp, P)
    BY <1>1 DEF Surjection
  <2> HIDE DEF f, P, lp
  <2> QED
    BY <1>1, <1>2, <2>1, FS_Surjection
<1>4. IsFiniteSet(Q) /\ Cardinality(Q) <= lq
  <2> DEFINE f == [i \in DOMAIN q |-> q[i]]
  <2>1. f \in Surjection(1 .. lq, Q)
    BY <1>1 DEF Surjection
  <2> HIDE DEF f, Q, lq
  <2> QED
    BY <1>1, <1>2, <2>1, FS_Surjection
<1>5. IsFiniteSet(B) /\ Cardinality(B) <= lb
  <2> DEFINE f == [i \in DOMAIN box |-> box[i].unit]
  <2>1. f \in Surjection(1 .. lb, B)
    BY <1>1 DEF Surjection
  <2> HIDE DEF f, B, lb
  <2> QED
    BY <1>1, <1>2, <2>1, FS_Surjection
<1>6. H \subseteq (P \cup Q) \cup B
  BY DEF Lists, CarriesReport, ReportsOn
<1> HIDE DEF P, Q, B, lp, lq, lb
<1>7. /\ IsFiniteSet(P \cup Q) /\ Cardinality(P \cup Q) \in Nat
      /\ Cardinality(P \cup Q) <= lp + lq
  <2>1. /\ IsFiniteSet(P \cup Q) /\ IsFiniteSet(P \cap Q)
        /\ Cardinality(P \cup Q) = Cardinality(P) + Cardinality(Q) - Cardinality(P \cap Q)
    <3>1. P \cap Q \in SUBSET P
      OBVIOUS
    <3> QED
      BY <1>3, <1>4, <3>1, FS_Union, FS_Subset
  <2>2. /\ Cardinality(P) \in Nat /\ Cardinality(Q) \in Nat
        /\ Cardinality(P \cap Q) \in Nat /\ Cardinality(P \cup Q) \in Nat
    BY <1>3, <1>4, <2>1, FS_CardinalityType
  <2> QED
    BY <1>1, <1>3, <1>4, <2>1, <2>2
<1> DEFINE PQ == P \cup Q
<1>8. IsFiniteSet(PQ) /\ Cardinality(PQ) \in Nat /\ Cardinality(PQ) <= lp + lq
  BY <1>7
<1> HIDE DEF PQ
<1>9. /\ IsFiniteSet(PQ \cup B) /\ Cardinality(PQ \cup B) \in Nat
      /\ Cardinality(PQ \cup B) <= lp + lq + lb
  <2>1. /\ IsFiniteSet(PQ \cup B) /\ IsFiniteSet(PQ \cap B)
        /\ Cardinality(PQ \cup B) = Cardinality(PQ) + Cardinality(B) - Cardinality(PQ \cap B)
    <3>1. PQ \cap B \in SUBSET PQ
      OBVIOUS
    <3> QED
      BY <1>5, <1>8, <3>1, FS_Union, FS_Subset
  <2>2. /\ Cardinality(B) \in Nat
        /\ Cardinality(PQ \cap B) \in Nat /\ Cardinality(PQ \cup B) \in Nat
    BY <1>5, <2>1, FS_CardinalityType
  <2> QED
    BY <1>1, <1>5, <1>8, <2>1, <2>2
<1>10. H \in SUBSET (PQ \cup B)
  BY <1>6 DEF PQ
<1>11. IsFiniteSet(H) /\ Cardinality(H) <= Cardinality(PQ \cup B)
  BY <1>9, <1>10, FS_Subset
<1>12. Cardinality(H) \in Nat
  BY <1>11, FS_CardinalityType
<1>13. Cardinality(H) <= lp + lq + lb
  BY <1>1, <1>9, <1>11, <1>12
<1> QED
  BY <1>11, <1>13 DEF lp, lq, lb

\* A node on a healthy connection never holds more than two batches.
LEMMA LeaseBudgetPreserved ==
    ASSUME IInv, IInv', FleetTypeOK, FleetTypeOK', LeaseBacked, LeaseAccounted, LeaseBudget,
           OneRequest', [FleetNext]_allVars
    PROVE  LeaseBudget'
<1> SUFFICES ASSUME NEW n \in Nodes, NEW g \in Gens, Healthy(n, g)'
             PROVE  Cardinality(HeldBy(n)') <= 2 * BatchSize
  BY DEF LeaseBudget
<1>1. BatchSize \in Nat /\ IsFiniteSet(UnitIds)
  BY BatchSizePositive, BoundsAssumption, FS_Interval DEF UnitIds
<1> DEFINE H == HeldBy(n)'
           K == HeldBy(n)
<1>2. CASE H = {}
  <2>1. Cardinality(H) = 0
    BY <1>2, FS_EmptySet
  <2> HIDE DEF H
  <2>2. Cardinality(H) <= 2 * BatchSize
    BY <1>1, <2>1
  <2> QED
    BY <2>2 DEF H
<1>3. CASE Healthy(n, g) /\ H \subseteq K
  <2>1. Cardinality(K) <= 2 * BatchSize
    BY <1>3 DEF LeaseBudget
  <2>2. K \in SUBSET UnitIds
    BY DEF HeldBy
  <2> HIDE DEF H, K
  <2>3. IsFiniteSet(K) /\ H \in SUBSET K
    BY <1>1, <1>3, <2>2, FS_Subset
  <2>4. IsFiniteSet(H) /\ Cardinality(H) <= Cardinality(K)
    BY <2>3, FS_Subset
  <2>5. Cardinality(H) \in Nat /\ Cardinality(K) \in Nat
    BY <2>3, <2>4, FS_CardinalityType
  <2>6. Cardinality(H) <= 2 * BatchSize
    BY <1>1, <2>1, <2>4, <2>5
  <2> QED
    BY <2>6 DEF H
<1>4. CASE ~agents'[n].inflight
  <2> DEFINE a == agents'[n]
             box == conns'[n][g].inbox
  <2>1. /\ a \in Agent /\ conns'[n][g] \in Conn /\ box \in Seq(Message)
        /\ a.queue \in Seq(UnitIds) /\ a.running \in Seq(UnitIds)
    <3>1. a \in Agent /\ conns'[n][g] \in Conn
      BY DEF FleetTypeOK
    <3> QED
      BY <3>1 DEF Agent, Conn
  <2>2. Honest(a, box)
    BY DEF OneRequest, Healthy, InUse, Linked
  <2>3. \A u \in H : Lists(a.queue, u) \/ Lists(a.running, u) \/ CarriesReport(box, u)
    BY LeaseAccountedPreserved DEF Accounted
  <2> DEFINE lq == Len(a.queue)
             lr == Len(a.running)
             lb == Len(box)
  <2>4. lq + lr + lb <= 2 * BatchSize
    BY <1>4, <2>2 DEF Honest
  <2>5. lq \in Nat /\ lr \in Nat /\ lb \in Nat
    BY <2>1, LenProperties
  <2>6. IsFiniteSet(H) /\ Cardinality(H) <= lq + lr + lb
    <3> HIDE DEF a, box, H
    <3> QED
      BY <2>1, <2>3, FoundInThree
  <2>7. Cardinality(H) \in Nat
    BY <2>6, FS_CardinalityType
  <2> HIDE DEF lq, lr, lb, H
  <2>8. Cardinality(H) <= 2 * BatchSize
    BY <1>1, <2>4, <2>5, <2>6, <2>7
  <2> QED
    BY <2>8 DEF H
<1> QED
  BY <1>2, <1>3, <1>4, HealthyStep
-----------------------------------------------------------------------------
\* The inductive invariant.
FInv ==
    /\ IInv
    /\ FleetTypeOK
    /\ RegistryBacked
    /\ LeaseBacked
    /\ BacklogBounded
    /\ OneRequest
    /\ LeaseAccounted
    /\ LeaseBudget

\* With no connection and no unit there is nothing to account for.
LEMMA FleetInitEstablishes == FleetInit => FInv
<1> SUFFICES ASSUME FleetInit PROVE FInv
  OBVIOUS
<1>1. IInv
  BY InitEstablishes DEF FleetInit
<1>2. FleetTypeOK
  <2> DEFINE c == [phase |-> "unused", inbox |-> <<>>]
             a == [gen |-> 0, loaded |-> FALSE, inflight |-> FALSE,
                   queue |-> <<>>, running |-> <<>>]
  <2>1. <<>> \in Seq(Message) /\ <<>> \in Seq(UnitIds)
    OBVIOUS
  <2>2. c \in Conn
    BY <2>1 DEF Conn
  <2>3. 0 \in 0 .. MaxConns
    BY FleetAssumption
  <2>4. a \in Agent
    BY <2>1, <2>3 DEF Agent
  <2>5. NoEntry \in [gen : 0 .. MaxConns, stale : BOOLEAN]
    BY <2>3 DEF NoEntry
  <2>6. conns = [n \in Nodes |-> [g \in Gens |-> c]] /\ agents = [n \in Nodes |-> a]
    BY DEF FleetInit
  <2> HIDE DEF c, a
  <2>7. conns \in [Nodes -> [Gens -> Conn]] /\ agents \in [Nodes -> Agent]
    BY <2>2, <2>4, <2>6
  <2>8. registry \in [Nodes -> [gen : 0 .. MaxConns, stale : BOOLEAN]]
    BY <2>5 DEF FleetInit
  <2>9. monitor \in [todo : SUBSET Nodes, closing : Nodes \cup {None}]
    BY DEF FleetInit
  <2> QED
    BY <2>7, <2>8, <2>9 DEF FleetTypeOK
<1>3. RegistryBacked
  BY DEF FleetInit, RegistryBacked, Registered, NoEntry
<1>4. LeaseBacked
  BY DEF FleetInit, Init, NoUnit, NewUnit, LeaseBacked
<1>5. BacklogBounded
  <2>1. \A n \in Nodes : agents[n].queue = <<>> /\ agents[n].running = <<>>
    BY DEF FleetInit
  <2> QED
    BY <2>1, BatchSizePositive DEF BacklogBounded
<1>6. \A n \in Nodes, g \in Gens : ~InUse(n, g) /\ ~Healthy(n, g)
  BY DEF FleetInit, InUse, Healthy
<1> QED
  BY <1>1, <1>2, <1>3, <1>4, <1>5, <1>6 DEF FInv, OneRequest, LeaseAccounted, LeaseBudget

\* Every step of the fleet preserves the invariant.
LEMMA FleetNextPreserves == FInv /\ [FleetNext]_allVars => FInv'
<1> SUFFICES ASSUME FInv, [FleetNext]_allVars PROVE FInv'
  OBVIOUS
<1>1. /\ IInv /\ FleetTypeOK /\ RegistryBacked /\ LeaseBacked
      /\ BacklogBounded /\ OneRequest /\ LeaseAccounted /\ LeaseBudget
  BY DEF FInv
<1>2. IInv'
  BY <1>1, StoreStepOfFleet, NextPreserves
<1>3. FleetTypeOK'
  BY <1>1, TypingPreserved
<1>4. RegistryBacked'
  BY <1>1, RegistryBackedPreserved
<1>5. LeaseBacked'
  BY <1>1, LeaseBackedPreserved
<1>6. BacklogBounded' /\ OneRequest'
  BY <1>1, OneRequestPreserved
<1>7. LeaseAccounted'
  <2>1. \A n \in Nodes, g \in Gens :
            Healthy(n, g)' => \A u \in HeldBy(n)' : Accounted(n, g, u)'
    BY <1>1, LeaseAccountedPreserved
  <2> QED
    BY <2>1 DEF LeaseAccounted, Accounted, Lists, CarriesReport, Reporting, ReportsOn
<1>8. LeaseBudget'
  BY <1>1, <1>2, <1>3, <1>6, LeaseBudgetPreserved
<1> QED
  BY <1>2, <1>3, <1>4, <1>5, <1>6, <1>7, <1>8 DEF FInv

\* The conjunction is an inductive invariant of the store together with the
\* handlers, the monitor, the reaper and the agents of any number of nodes.
THEOREM FleetInvariance == FleetSpec => []FInv
<1>1. FleetInit => FInv
  BY FleetInitEstablishes
<1>2. FInv /\ [FleetNext]_allVars => FInv'
  BY FleetNextPreserves
<1> QED
  BY <1>1, <1>2, PTL DEF FleetSpec

\* The fleet uses the store as BatchStore allows: what handlers, monitor and
\* reaper do to it, a report for a unit nobody leased included, are steps of the
\* store's own specification.  Every theorem about Spec is one about FleetSpec.
THEOREM FleetUsesStore == FleetSpec => Spec
<1>1. FleetInit => Init
  BY DEF FleetInit
<1>2. FInv /\ [FleetNext]_allVars => [Next]_vars
  BY StoreStepOfFleet DEF FInv
<1> QED
  BY <1>1, <1>2, FleetInvariance, PTL DEF FleetSpec, Spec

\* Handlers, registry, monitor and agents keep their types.
THEOREM FleetTypeCorrect == FleetSpec => []FleetTypeOK
BY FleetInvariance, PTL DEF FInv

\* A registry entry never outlives the handler of the connection it is for,
\* however late finally blocks, the monitor and reconnects interleave.
THEOREM RegistryIsBacked == FleetSpec => []RegistryBacked
BY FleetInvariance, PTL DEF FInv

\* No lease is orphaned: some handler of its node still has its finally block,
\* and with it release_node, ahead of it.
THEOREM LeasesAreBacked == FleetSpec => []LeaseBacked
BY FleetInvariance, PTL DEF FInv

\* On a healthy connection every lease of the node is in its backlog, being
\* decoded or has its report on the way.
THEOREM LeasesAreAccounted == FleetSpec => []LeaseAccounted
BY FleetInvariance, PTL DEF FInv

\* A node on a healthy connection never holds more than two batches of leases.
THEOREM LeasesStayInBudget == FleetSpec => []LeaseBudget
BY FleetInvariance, PTL DEF FInv

\* work_request_inflight is set exactly while one request is on its way on the
\* connection in use, across reconnects and cancelled workers.
THEOREM RequestsAreHonest == FleetSpec => []RequestHonest
<1>1. OneRequest => RequestHonest
  <2> SUFFICES ASSUME OneRequest, NEW n \in Nodes, NEW g \in Gens, InUse(n, g)
               PROVE  Cardinality({i \in DOMAIN conns[n][g].inbox :
                                     conns[n][g].inbox[i].type = "work_request"})
                        = (IF agents[n].inflight THEN 1 ELSE 0)
    BY DEF RequestHonest, InUse
  <2> DEFINE q == conns[n][g].inbox
             R == {i \in DOMAIN q : q[i].type = "work_request"}
  <2>1. Honest(agents[n], q)
    BY DEF OneRequest
  <2>2. CASE agents[n].inflight
    <3>1. PICK r \in DOMAIN q :
              /\ q[r].type = "work_request"
              /\ \A i \in DOMAIN q : i # r => q[i].type # "work_request"
      BY <2>1, <2>2 DEF Honest
    <3>2. R = {r}
      BY <3>1
    <3>3. Cardinality(R) = 1
      BY <3>2, FS_Singleton
    <3> QED
      BY <2>2, <3>3
  <2>3. CASE ~agents[n].inflight
    <3>1. R = {}
      BY <2>1, <2>3 DEF Honest
    <3>2. Cardinality(R) = 0
      BY <3>1, FS_EmptySet
    <3> QED
      BY <2>3, <3>2
  <2> QED
    BY <2>2, <2>3
<1> QED
  BY <1>1, FleetInvariance, PTL DEF FInv

\* What the store promises holds with the whole fleet around it: no unit that
\* waits to run is ever missing from the queue.
THEOREM NothingIsLostInFleet == FleetSpec => []NoUnitLost
BY FleetUsesStore, NothingIsLost, PTL

\* With the whole fleet around it the store still is the write-once ledger that
\* a client sees: no lost connection, late report or returned lease changes an
\* answer that was given, or the status of a batch other than as its units say.
THEOREM FleetKeepsLedger == FleetSpec => ImplementsLedger
BY FleetUsesStore, Refinement, PTL

\* However handlers, monitor and reaper interleave, a unit that one node holds
\* comes to another only by way of the queue.
THEOREM FleetStealsNoLease == FleetSpec => NoLeaseStolen
BY FleetUsesStore, LeasesAreExclusive, PTL
=============================================================================
