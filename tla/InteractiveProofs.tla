-------------------------- MODULE InteractiveProofs -------------------------
(***************************************************************************)
(* Proofs about Interactive for any number of nodes, connections, requests *)
(* and pieces.                                                             *)
(*                                                                         *)
(* A request is not left hanging because its session cannot lose its       *)
(* handler silently (Lives): it is on a connection that was open, and the  *)
(* handler fails it on leaving, unless its end is in its queue already.    *)
(* That the client sees no piece twice is a matter of where pieces are     *)
(* (Flow): each is in one place at a time, be it an outbox, an inbox, the  *)
(* queue of the session or the hands of the client, and behind the one     *)
(* generation that produces them.                                          *)
(***************************************************************************)
EXTENDS Interactive, SequenceTheorems, TLAPS
-----------------------------------------------------------------------------
(***************************************************************************)
(* What is in a sequence, and that the elements of X are in it once.       *)
(***************************************************************************)
In(q, x) == \E i \in DOMAIN q : q[i] = x

Once(q, X) == \A i, j \in DOMAIN q : q[i] \in X /\ q[i] = q[j] => i = j

\* Nothing is in the empty sequence.
LEMMA InEmpty ==
    ASSUME NEW X
    PROVE  Once(<<>>, X) /\ \A x : ~In(<<>>, x)
BY DEF Once, In

\* Appending adds one element; it stays unique if it was not there.
LEMMA InAppend ==
    ASSUME NEW S, NEW q \in Seq(S), NEW x \in S
    PROVE  /\ Append(q, x) \in Seq(S)
           /\ \A y : In(Append(q, x), y) <=> In(q, y) \/ y = x
           /\ \A X : Once(q, X) /\ (x \in X => ~In(q, x)) => Once(Append(q, x), X)
<1> DEFINE r == Append(q, x)
           k == Len(q)
<1>1. /\ r \in Seq(S) /\ k \in Nat /\ DOMAIN q = 1 .. k /\ DOMAIN r = 1 .. (k + 1)
      /\ r[k + 1] = x /\ \A i \in 1 .. k : r[i] = q[i]
  BY AppendProperties, LenProperties
<1> HIDE DEF r, k
<1>2. ASSUME NEW i \in 1 .. (k + 1) PROVE i = k + 1 \/ i \in 1 .. k
  BY <1>1
<1>3. 1 .. k \subseteq 1 .. (k + 1) /\ k + 1 \in 1 .. (k + 1) /\ k + 1 \notin 1 .. k
  BY <1>1
<1>4. ASSUME NEW y PROVE In(r, y) <=> In(q, y) \/ y = x
  BY <1>1, <1>2, <1>3 DEF In
<1>5. ASSUME NEW X, Once(q, X), x \in X => ~In(q, x) PROVE Once(r, X)
  <2> SUFFICES ASSUME NEW i \in 1 .. (k + 1), NEW j \in 1 .. (k + 1), r[i] \in X, r[i] = r[j]
               PROVE  i = j
    BY <1>1 DEF Once
  <2>1. CASE i \in 1 .. k /\ j \in 1 .. k
    BY <1>1, <1>5, <2>1 DEF Once
  <2>2. CASE i = k + 1 /\ j \in 1 .. k
    BY <1>1, <1>5, <2>2 DEF In
  <2>3. CASE j = k + 1 /\ i \in 1 .. k
    BY <1>1, <1>5, <2>3 DEF In
  <2> QED
    BY <1>2, <2>1, <2>2, <2>3
<1> QED
  BY <1>1, <1>4, <1>5 DEF r

\* Taking the head removes that element, for good if it was unique.
LEMMA InTail ==
    ASSUME NEW S, NEW q \in Seq(S), q # <<>>
    PROVE  /\ Tail(q) \in Seq(S) /\ Head(q) \in S /\ In(q, Head(q))
           /\ \A y : In(q, y) <=> In(Tail(q), y) \/ y = Head(q)
           /\ \A X : Once(q, X) => /\ Once(Tail(q), X)
                                   /\ Head(q) \in X => ~In(Tail(q), Head(q))
<1> DEFINE t == Tail(q)
           k == Len(q) - 1
<1>1. /\ t \in Seq(S) /\ k \in Nat /\ DOMAIN q = 1 .. (k + 1) /\ DOMAIN t = 1 .. k
      /\ Head(q) = q[1] /\ q[1] \in S /\ \A i \in 1 .. k : t[i] = q[i + 1]
  BY EmptySeq, LenProperties, HeadTailProperties, ElementOfSeq
<1> HIDE DEF t, k
<1>2. ASSUME NEW i \in 1 .. (k + 1) PROVE i = 1 \/ (i - 1 \in 1 .. k /\ i = (i - 1) + 1)
  BY <1>1
<1>3. 1 \in 1 .. (k + 1) /\ \A i \in 1 .. k : i + 1 \in 1 .. (k + 1) /\ i + 1 # 1
  BY <1>1
<1>4. In(q, Head(q))
  BY <1>1, <1>3 DEF In
<1>5. ASSUME NEW y PROVE In(q, y) <=> In(t, y) \/ y = Head(q)
  <2>1. ASSUME In(q, y), y # Head(q) PROVE In(t, y)
    <3>1. PICK i \in 1 .. (k + 1) : q[i] = y
      BY <1>1, <2>1 DEF In
    <3>2. i - 1 \in 1 .. k /\ q[(i - 1) + 1] = y
      BY <1>1, <1>2, <2>1, <3>1
    <3>3. t[i - 1] = y
      BY <1>1, <3>2
    <3> QED
      BY <1>1, <3>2, <3>3 DEF In
  <2>2. ASSUME In(t, y) PROVE In(q, y)
    BY <1>1, <1>3, <2>2 DEF In
  <2> QED
    BY <1>4, <2>1, <2>2
<1>6. ASSUME NEW X, Once(q, X) PROVE Once(t, X)
  <2> SUFFICES ASSUME NEW i \in 1 .. k, NEW j \in 1 .. k, t[i] \in X, t[i] = t[j]
               PROVE  i = j
    BY <1>1 DEF Once
  <2>1. i + 1 = j + 1
    BY <1>1, <1>3, <1>6 DEF Once
  <2> QED
    BY <1>1, <2>1
<1>7. ASSUME NEW X, Once(q, X), Head(q) \in X PROVE ~In(t, Head(q))
  <2> SUFFICES ASSUME NEW i \in 1 .. k, t[i] = Head(q) PROVE FALSE
    BY <1>1 DEF In
  <2>1. i + 1 \in 1 .. (k + 1) /\ q[1] = q[i + 1] /\ i + 1 # 1
    BY <1>1, <1>3
  <2>2. 1 = i + 1
    BY <1>1, <1>3, <1>7, <2>1 DEF Once
  <2> QED
    BY <2>1, <2>2
<1> QED
  BY <1>1, <1>4, <1>5, <1>6, <1>7 DEF t

\* A prefix has nothing that the whole has not.
LEMMA InPrefix ==
    ASSUME NEW S, NEW q \in Seq(S), NEW k \in 0 .. Len(q)
    PROVE  /\ SubSeq(q, 1, k) \in Seq(S)
           /\ \A y : In(SubSeq(q, 1, k), y) => In(q, y)
           /\ \A X : Once(q, X) => Once(SubSeq(q, 1, k), X)
<1> DEFINE r == SubSeq(q, 1, k)
<1>1. Len(q) \in Nat /\ k \in Nat /\ DOMAIN q = 1 .. Len(q) /\ 1 .. k \subseteq 1 .. Len(q)
  BY LenProperties
<1>2. r \in Seq(S) /\ DOMAIN r = 1 .. k /\ \A i \in 1 .. k : r[i] = q[i]
  <2>1. \A i \in 1 .. k : q[i] \in S
    BY <1>1, ElementOfSeq
  <2>2. r \in Seq(S) /\ Len(r) = k /\ \A i \in 1 .. k : r[i] = q[1 + i - 1]
    BY <1>1, <2>1, SubSeqProperties
  <2>3. \A i \in 1 .. k : 1 + i - 1 = i
    BY <1>1
  <2> QED
    BY <1>1, <2>2, <2>3, LenProperties
<1> HIDE DEF r
<1> QED
  BY <1>1, <1>2 DEF In, Once, r
-----------------------------------------------------------------------------
(***************************************************************************)
(* Places.                                                                 *)
(***************************************************************************)
\* Connection 0 stands for the outbox of a node that has none.
Channel(n, g) == IF g = 0 THEN agents[n].outbox ELSE conns[n][g].inbox

Chunks == {Chunk(s, p) : s \in Requests, p \in 1 .. Pieces}

Fragment(p) == [kind |-> "chunk", piece |-> p]

Fragments == [kind : {"chunk"}, piece : 1 .. Pieces]

At(n, g, s, p) == In(Channel(n, g), Chunk(s, p))

Queued(s, p) == In(sessions[s].events, Fragment(p))

Got(s, p) == In(clients[s].got, p)

Places == 0 .. MaxConns

\* A piece has been produced and is still somewhere.
Out(s, p) == Queued(s, p) \/ Got(s, p) \/ \E n \in Nodes, g \in Places : At(n, g, s, p)

Begun(s) == clients[s].phase \notin {"new", "sending", "refused"}

Live(s) == clients[s].phase \in {"sending", "streaming"}

\* The queue of the session holds the event that ends it.
Ended(q) == \E i \in DOMAIN q : q[i].kind # "chunk"
-----------------------------------------------------------------------------
(***************************************************************************)
(* The inductive invariant.                                                *)
(***************************************************************************)

\* A READY entry is one that exists, and an entry's connection is in its loop.
EntriesOpen ==
    \A n \in Nodes :
        /\ registry[n].ready => registry[n].gen # 0
        /\ registry[n].gen # 0 => conns[n][registry[n].gen].phase = "open"

\* The session of a request under way is kept, on a connection that was in its
\* loop; if that is over, or the session, the end is in the queue.
Lives ==
    \A s \in Requests : Live(s) =>
        LET r == sessions[s]
        IN  /\ r.kept /\ r.node \in Nodes /\ r.gen \in Gens
            /\ conns[r.node][r.gen].phase \in {"open", "done"}
            /\ conns[r.node][r.gen].phase = "done" \/ r.state \in {"complete", "failed"}
                  => Ended(r.events)

\* A piece is at most once in any place.
OnceEach ==
    /\ \A n \in Nodes, g \in Places : Once(Channel(n, g), Chunks)
    /\ \A s \in Requests : Once(sessions[s].events, Fragments)
    /\ \A s \in Requests : Once(clients[s].got, 1 .. Pieces)

\* A piece is in at most one place.
OnePlace ==
    \A s \in Requests, p \in 1 .. Pieces :
        /\ ~(Queued(s, p) /\ Got(s, p))
        /\ \A n \in Nodes, g \in Places :
              At(n, g, s, p) => /\ ~Queued(s, p) /\ ~Got(s, p)
                                /\ \A m \in Nodes, h \in Places :
                                      At(m, h, s, p) => m = n /\ h = g

\* A generation is ahead of the pieces there are, and it is the only one.
Ahead ==
    \A s \in Requests, n \in Nodes : agents[n].jobs[s] # 0 =>
        /\ \A p \in 1 .. Pieces : Out(s, p) => p < agents[n].jobs[s]
        /\ \A m \in Nodes : agents[m].jobs[s] # 0 => m = n

\* Before a request is sent there is nothing of its answer.
NothingEarly ==
    \A s \in Requests : ~Begun(s) =>
        /\ \A p \in 1 .. Pieces : ~Out(s, p)
        /\ \A n \in Nodes : agents[n].jobs[s] = 0

Flow == OnceEach /\ OnePlace /\ Ahead /\ NothingEarly

IInv == TypeOK /\ EntriesOpen /\ Lives /\ Flow
-----------------------------------------------------------------------------
(***************************************************************************)
(* What messages, events and places are.                                   *)
(***************************************************************************)
LEMMA MessageForms ==
    /\ \A s \in Requests, p \in 1 .. Pieces : Chunk(s, p) \in Message /\ Chunk(s, p) \in Chunks
    /\ \A s \in Requests : /\ Completion(s) \in Message /\ Completion(s) \notin Chunks
                           /\ ErrorOf(s) \in Message /\ ErrorOf(s) \notin Chunks
    /\ ModelLoaded \in Message /\ ModelLoaded \notin Chunks
    /\ \A s, t \in Requests, p, q \in 1 .. Pieces :
          Chunk(s, p) = Chunk(t, q) => s = t /\ p = q
<1>0. \A c \in Chunks : c.type = "generate_chunk"
  BY DEF Chunks, Chunk
<1>1. \A s \in Requests : Completion(s) \notin Chunks /\ ErrorOf(s) \notin Chunks
  <2>1. \A s \in Requests : /\ Completion(s).type = "generate_complete"
                            /\ ErrorOf(s).type = "generate_error"
    BY DEF Completion, ErrorOf
  <2> QED
    BY <1>0, <2>1
<1>2. ModelLoaded \notin Chunks
  <2>1. ModelLoaded.type = "model_loaded"
    BY DEF ModelLoaded
  <2> QED
    BY <1>0, <2>1
<1>3. \A s, t \in Requests, p, q \in 1 .. Pieces : Chunk(s, p) = Chunk(t, q) => s = t /\ p = q
  BY DEF Chunk
<1> QED
  BY <1>1, <1>2, <1>3 DEF Message, Chunks

\* A message that is handled is one of four.
LEMMA MessageTypes ==
    ASSUME NEW msg \in Message
    PROVE  \/ \E s \in Requests, p \in 1 .. Pieces :
                 /\ msg = Chunk(s, p) /\ msg.type = "generate_chunk"
                 /\ msg.session = s /\ msg.piece = p
           \/ \E s \in Requests :
                 /\ msg \in {Completion(s), ErrorOf(s)} /\ msg.session = s
                 /\ msg.type \in {"generate_complete", "generate_error"}
           \/ msg = ModelLoaded /\ msg.type = "model_loaded"
BY DEF Message, Chunk, Completion, ErrorOf, ModelLoaded

\* Chunk events are the fragments; the others end a session.
LEMMA EventForms ==
    /\ \A p \in 1 .. Pieces : Fragment(p) \in Event /\ Fragment(p) \in Fragments
    /\ \A p, q \in 1 .. Pieces : Fragment(p) = Fragment(q) => p = q
    /\ \A e \in Event : e.kind = "chunk" => e.piece \in 1 .. Pieces /\ e = Fragment(e.piece)
    /\ \A e \in Event : e.kind # "chunk" => e \notin Fragments
    /\ \A p \in 1 .. Pieces, e \in Event : e.kind # "chunk" => e # Fragment(p)
    /\ \A k \in {"done", "error"} : [kind |-> k, piece |-> 0] \in Event
BY DEF Fragment, Fragments, Event

\* Places are the connections and 0, the outbox.
LEMMA PlaceNumbers ==
    /\ MaxConns \in Nat /\ Pieces \in Nat /\ 0 \in Places /\ 0 \notin Gens
    /\ Gens \subseteq Places
    /\ \A g \in Places : g # 0 <=> g \in Gens
BY InteractiveAssumption DEF Places, Gens

\* Every place holds messages.
LEMMA ChannelsTyped ==
    ASSUME TypeOK, NEW n \in Nodes, NEW g \in Places
    PROVE  Channel(n, g) \in Seq(Message)
BY PlaceNumbers DEF TypeOK, Channel, Conn, Agent

\* The handler's record of one connection is replaced.
SetsConn(n, g, c) == conns' = [conns EXCEPT ![n][g] = c]

\* Changing one connection changes no other.
LEMMA ConnChange ==
    ASSUME TypeOK, NEW n \in Nodes, NEW g \in Gens, NEW c \in Conn, SetsConn(n, g, c)
    PROVE  /\ conns' \in [Nodes -> [Gens -> Conn]]
           /\ conns'[n][g] = c
           /\ \A m \in Nodes, h \in Gens : m # n \/ h # g => conns'[m][h] = conns[m][h]
BY DEF TypeOK, SetsConn

\* The same for agents.
LEMMA AgentChange ==
    ASSUME TypeOK, NEW n \in Nodes, NEW a \in Agent, agents' = [agents EXCEPT ![n] = a]
    PROVE  /\ agents' \in [Nodes -> Agent]
           /\ agents'[n] = a
           /\ \A m \in Nodes : m # n => agents'[m] = agents[m]
BY DEF TypeOK

-----------------------------------------------------------------------------
(***************************************************************************)
(* What the actions do to connections, agents and places.                  *)
(***************************************************************************)

\* The handlers' places in the code stay.
PhasesStay == \A n \in Nodes, g \in Gens : conns'[n][g].phase = conns[n][g].phase

\* All places but one keep what they hold.
OthersStay(n, g) ==
    \A m \in Nodes, h \in Places : m # n \/ h # g => Channel(m, h)' = Channel(m, h)

NetTyped == conns \in [Nodes -> [Gens -> Conn]] /\ agents \in [Nodes -> Agent]

\* A message that an agent sends is put in one place, or lost.
LEMMA SendsEffect ==
    ASSUME TypeOK, NEW n \in Nodes, NEW a \in Agent, NEW msg \in Message,
           a.gen = agents[n].gen, a.outbox = agents[n].outbox, Sends(n, a, msg)
    PROVE  /\ NetTyped' /\ PhasesStay
           /\ agents'[n].jobs = a.jobs
           /\ \A m \in Nodes : m # n => agents'[m] = agents[m]
           /\ \E g \in Places :
                 /\ OthersStay(n, g)
                 /\ Channel(n, g)' \in {Channel(n, g), Append(Channel(n, g), msg)}
<1> DEFINE g == a.gen
<1>1. /\ agents \in [Nodes -> Agent] /\ conns \in [Nodes -> [Gens -> Conn]]
      /\ g \in Places /\ a.outbox \in Seq(Message)
  BY DEF TypeOK, Agent, Places
<1>2. CASE g = 0
  <2> DEFINE b == [a EXCEPT !.outbox = Append(a.outbox, msg)]
  <2>1. Append(a.outbox, msg) \in Seq(Message)
    BY <1>1, AppendProperties
  <2>2. /\ b \in Agent /\ b.outbox = Append(a.outbox, msg) /\ b.jobs = a.jobs
        /\ agents' = [agents EXCEPT ![n] = b] /\ conns' = conns
    BY <1>2, <2>1 DEF Sends, Agent
  <2> HIDE DEF b
  <2>3. /\ agents' \in [Nodes -> Agent] /\ agents'[n] = b
        /\ \A m \in Nodes : m # n => agents'[m] = agents[m]
    BY <2>2, AgentChange
  <2>4. OthersStay(n, 0) /\ Channel(n, 0)' = Append(Channel(n, 0), msg) /\ 0 \in Places
    BY <2>2, <2>3, PlaceNumbers DEF OthersStay, Channel
  <2> QED
    BY <1>1, <2>2, <2>3, <2>4 DEF NetTyped, PhasesStay
<1>3. CASE g # 0
  <2>1. g \in Gens
    BY <1>1, <1>3, PlaceNumbers
  <2> DEFINE c == conns[n][g]
             q == IF c.phase \in {"accepted", "open"} THEN Append(c.inbox, msg) ELSE c.inbox
             d == [c EXCEPT !.inbox = q]
  <2>2. c \in Conn /\ c.inbox \in Seq(Message)
    BY <1>1, <2>1 DEF Conn
  <2>3. q \in Seq(Message) /\ q \in {c.inbox, Append(c.inbox, msg)}
    BY <2>2, AppendProperties
  <2>4. conns' = [conns EXCEPT ![n][g] = d] /\ agents' = [agents EXCEPT ![n] = a]
    BY <1>1, <1>3, <2>1 DEF Sends
  <2> HIDE DEF q
  <2>5. d \in Conn /\ d.inbox = q /\ d.phase = c.phase
    BY <2>2, <2>3 DEF Conn
  <2> HIDE DEF d
  <2>6. /\ conns' \in [Nodes -> [Gens -> Conn]] /\ conns'[n][g] = d
        /\ \A m \in Nodes, h \in Gens : m # n \/ h # g => conns'[m][h] = conns[m][h]
    <3>1. SetsConn(n, g, d)
      BY <2>4 DEF SetsConn
    <3> QED
      BY <2>1, <2>5, <3>1, ConnChange
  <2>7. /\ agents' \in [Nodes -> Agent] /\ agents'[n] = a
        /\ \A m \in Nodes : m # n => agents'[m] = agents[m]
    BY <2>4, AgentChange
  <2>8. PhasesStay
    BY <2>5, <2>6 DEF PhasesStay
  <2>9. OthersStay(n, g)
    BY <1>3, <2>6, <2>7, PlaceNumbers DEF OthersStay, Channel
  <2>10. Channel(n, g)' \in {Channel(n, g), Append(Channel(n, g), msg)}
    BY <1>3, <2>3, <2>5, <2>6 DEF Channel
  <2> QED
    BY <1>1, <2>6, <2>7, <2>8, <2>9, <2>10 DEF NetTyped
<1> QED
  BY <1>2, <1>3

\* A connection takes over the outbox.
LEMMA ConnectEffect ==
    ASSUME TypeOK, NEW n \in Nodes, Connect(n)
    PROVE  \E g \in Gens :
              /\ NetTyped' /\ conns[n][g].phase = "unused" /\ conns'[n][g].phase = "accepted"
              /\ \A m \in Nodes, h \in Gens : m # n \/ h # g => conns'[m][h] = conns[m][h]
              /\ \A m \in Nodes : agents'[m].jobs = agents[m].jobs
              /\ Channel(n, g)' = Channel(n, 0) /\ Channel(n, 0)' = <<>>
              /\ \A m \in Nodes, h \in Places :
                    m # n \/ h \notin {0, g} => Channel(m, h)' = Channel(m, h)
<1>1. agents \in [Nodes -> Agent] /\ conns \in [Nodes -> [Gens -> Conn]]
  BY DEF TypeOK
<1>2. PICK g \in Gens :
          /\ conns[n][g].phase = "unused"
          /\ conns' = [conns EXCEPT ![n][g] = [phase |-> "accepted", inbox |-> agents[n].outbox]]
          /\ agents' = [agents EXCEPT ![n].gen = g, ![n].told = FALSE, ![n].outbox = <<>>]
  BY DEF Connect
<1> DEFINE a == [agents[n] EXCEPT !.gen = g, !.told = FALSE, !.outbox = <<>>]
           c == [phase |-> "accepted", inbox |-> agents[n].outbox]
<1>3. agents' = [agents EXCEPT ![n] = a]
  BY <1>1, <1>2
<1>4. a \in Agent /\ a.outbox = <<>> /\ a.jobs = agents[n].jobs
  <2>1. agents[n] \in Agent /\ g \in 0 .. MaxConns /\ FALSE \in BOOLEAN /\ <<>> \in Seq(Message)
    BY <1>1, PlaceNumbers, EmptySeq DEF Places
  <2> QED
    BY <2>1 DEF Agent
<1>5. c \in Conn /\ c.phase = "accepted" /\ c.inbox = agents[n].outbox
  BY <1>1 DEF Agent, Conn
<1>10. conns' = [conns EXCEPT ![n][g] = c]
  BY <1>2
<1> HIDE DEF a, c
<1>6. /\ conns' \in [Nodes -> [Gens -> Conn]] /\ conns'[n][g] = c
      /\ \A m \in Nodes, h \in Gens : m # n \/ h # g => conns'[m][h] = conns[m][h]
  <2>1. SetsConn(n, g, c)
    BY <1>10 DEF SetsConn
  <2> QED
    BY <1>5, <2>1, ConnChange
<1>7. /\ agents' \in [Nodes -> Agent] /\ agents'[n] = a
      /\ \A m \in Nodes : m # n => agents'[m] = agents[m]
  BY <1>3, <1>4, AgentChange
<1>8. Channel(n, g)' = Channel(n, 0) /\ Channel(n, 0)' = <<>>
  BY <1>4, <1>5, <1>6, <1>7, PlaceNumbers DEF Channel
<1>9. \A m \in Nodes, h \in Places : m # n \/ h \notin {0, g} => Channel(m, h)' = Channel(m, h)
  BY <1>6, <1>7, PlaceNumbers DEF Channel
<1> QED
  BY <1>2, <1>4, <1>5, <1>6, <1>7, <1>8, <1>9 DEF NetTyped

\* A lost connection keeps a beginning of its inbox; the outbox is empty.
LEMMA LoseEffect ==
    ASSUME TypeOK, NEW n \in Nodes, LoseConnection(n)
    PROVE  \E g \in Gens :
              /\ NetTyped' /\ PhasesStay
              /\ \A m \in Nodes : agents'[m].jobs = agents[m].jobs
              /\ \E k \in 0 .. Len(Channel(n, g)) :
                    Channel(n, g)' = SubSeq(Channel(n, g), 1, k)
              /\ Channel(n, 0)' = <<>>
              /\ \A m \in Nodes, h \in Places :
                    m # n \/ h \notin {0, g} => Channel(m, h)' = Channel(m, h)
<1>1. agents \in [Nodes -> Agent] /\ conns \in [Nodes -> [Gens -> Conn]]
  BY DEF TypeOK
<1>2. PICK g \in Gens : g = agents[n].gen /\ g \in Places
  BY InteractiveAssumption DEF LoseConnection, Gens, Places
<1> DEFINE q == conns[n][g].inbox
<1>3. PICK k \in 0 .. Len(q) :
          /\ conns' = [conns EXCEPT ![n][g].inbox = SubSeq(q, 1, k)]
          /\ agents' = [agents EXCEPT ![n].gen = 0, ![n].outbox = <<>>]
  BY <1>2 DEF LoseConnection, NewOutbox
<1> DEFINE a == [agents[n] EXCEPT !.gen = 0, !.outbox = <<>>]
           r == SubSeq(q, 1, k)
           c == [conns[n][g] EXCEPT !.inbox = r]
<1>4. agents' = [agents EXCEPT ![n] = a] /\ conns' = [conns EXCEPT ![n][g] = c]
  BY <1>1, <1>2, <1>3
<1>5. a \in Agent /\ a.outbox = <<>> /\ a.jobs = agents[n].jobs
  <2>1. agents[n] \in Agent /\ 0 \in 0 .. MaxConns /\ <<>> \in Seq(Message)
    BY <1>1, PlaceNumbers, EmptySeq DEF Places
  <2> QED
    BY <2>1 DEF Agent
<1>6. q \in Seq(Message) /\ conns[n][g] \in Conn
  BY <1>1, <1>2 DEF Conn
<1>7. r \in Seq(Message)
  <2> HIDE DEF q
  <2> QED
    BY <1>3, <1>6, InPrefix
<1> HIDE DEF r
<1>8. c \in Conn /\ c.phase = conns[n][g].phase /\ c.inbox = r
  BY <1>6, <1>7 DEF Conn
<1> HIDE DEF a, c
<1>9. /\ conns' \in [Nodes -> [Gens -> Conn]] /\ conns'[n][g] = c
      /\ \A m \in Nodes, h \in Gens : m # n \/ h # g => conns'[m][h] = conns[m][h]
  <2>1. SetsConn(n, g, c)
    BY <1>4 DEF SetsConn
  <2> QED
    BY <1>8, <2>1, ConnChange
<1>10. /\ agents' \in [Nodes -> Agent] /\ agents'[n] = a
       /\ \A m \in Nodes : m # n => agents'[m] = agents[m]
  BY <1>4, <1>5, AgentChange
<1>11. Channel(n, g) = q /\ Channel(n, g)' = r /\ Channel(n, 0)' = <<>>
  <2>1. g # 0
    BY <1>2, PlaceNumbers
  <2>2. Channel(n, g) = q
    BY <2>1 DEF Channel
  <2>3. Channel(n, g)' = r /\ Channel(n, 0)' = <<>>
    BY <1>5, <1>8, <1>9, <1>10, <2>1 DEF Channel
  <2> QED
    BY <2>2, <2>3
<1>12. \A m \in Nodes, h \in Places : m # n \/ h \notin {0, g} => Channel(m, h)' = Channel(m, h)
  BY <1>9, <1>10, PlaceNumbers DEF Channel
<1>13. PhasesStay
  BY <1>8, <1>9 DEF PhasesStay
<1>14. \A m \in Nodes : agents'[m].jobs = agents[m].jobs
  BY <1>5, <1>10
<1> HIDE DEF q
<1>15. \E j \in 0 .. Len(Channel(n, g)) : Channel(n, g)' = SubSeq(Channel(n, g), 1, j)
  BY <1>3, <1>11 DEF r
<1> QED
  BY <1>2, <1>9, <1>10, <1>11, <1>12, <1>13, <1>14, <1>15 DEF NetTyped

\* A handler that takes the next message changes only its own inbox.
LEMMA HandlingEffect ==
    ASSUME TypeOK, NEW n \in Nodes, NEW g \in Gens, NEW type, Handling(n, g, type),
           agents' = agents
    PROVE  /\ NetTyped' /\ PhasesStay /\ conns[n][g].phase = "open"
           /\ conns[n][g].inbox = Channel(n, g) /\ Channel(n, g) # <<>>
           /\ Head(Channel(n, g)).type = type /\ Head(Channel(n, g)) \in Message
           /\ Channel(n, g)' = Tail(Channel(n, g)) /\ OthersStay(n, g)
<1> DEFINE q == conns[n][g].inbox
           r == Tail(q)
           c == [conns[n][g] EXCEPT !.inbox = r]
<1>1. /\ agents \in [Nodes -> Agent] /\ conns \in [Nodes -> [Gens -> Conn]]
      /\ conns[n][g] \in Conn /\ q \in Seq(Message)
  BY DEF TypeOK, Conn
<1>2. /\ conns[n][g].phase = "open" /\ q # <<>> /\ Head(q).type = type
      /\ conns' = [conns EXCEPT ![n][g] = c]
  BY <1>1 DEF Handling
<1>3. r \in Seq(Message) /\ Head(q) \in Message
  <2> HIDE DEF q
  <2> QED
    BY <1>1, <1>2, InTail
<1>4. Channel(n, g) = q /\ g # 0
  BY PlaceNumbers DEF Channel
<1> HIDE DEF r
<1>5. c \in Conn /\ c.phase = conns[n][g].phase /\ c.inbox = r
  BY <1>1, <1>3 DEF Conn
<1> HIDE DEF c
<1>6. /\ conns' \in [Nodes -> [Gens -> Conn]] /\ conns'[n][g] = c
      /\ \A m \in Nodes, h \in Gens : m # n \/ h # g => conns'[m][h] = conns[m][h]
  <2>1. SetsConn(n, g, c)
    BY <1>2 DEF SetsConn
  <2> QED
    BY <1>5, <2>1, ConnChange
<1>7. Channel(n, g)' = r
  BY <1>4, <1>5, <1>6 DEF Channel
<1>8. OthersStay(n, g)
  BY <1>4, <1>6, PlaceNumbers DEF OthersStay, Channel
<1>9. PhasesStay
  BY <1>5, <1>6 DEF PhasesStay
<1> QED
  BY <1>1, <1>2, <1>3, <1>4, <1>6, <1>7, <1>8, <1>9 DEF NetTyped, r

\* A handler that registers its node touches no message.
LEMMA RegisterEffect ==
    ASSUME TypeOK, NEW n \in Nodes, NEW g \in Gens, Register(n, g)
    PROVE  /\ NetTyped' /\ conns[n][g].phase = "accepted" /\ conns'[n][g].phase = "open"
           /\ \A m \in Nodes, h \in Gens : m # n \/ h # g => conns'[m][h] = conns[m][h]
           /\ \A m \in Nodes, h \in Places : Channel(m, h)' = Channel(m, h)
<1> DEFINE c == [conns[n][g] EXCEPT !.phase = "open"]
<1>1. agents \in [Nodes -> Agent] /\ conns \in [Nodes -> [Gens -> Conn]] /\ conns[n][g] \in Conn
  BY DEF TypeOK
<1>2. /\ conns[n][g].phase = "accepted" /\ agents' = agents
      /\ conns' = [conns EXCEPT ![n][g] = c]
  BY <1>1 DEF Register
<1>3. c \in Conn /\ c.phase = "open" /\ c.inbox = conns[n][g].inbox
  BY <1>1 DEF Conn
<1> HIDE DEF c
<1>4. /\ conns' \in [Nodes -> [Gens -> Conn]] /\ conns'[n][g] = c
      /\ \A m \in Nodes, h \in Gens : m # n \/ h # g => conns'[m][h] = conns[m][h]
  <2>1. SetsConn(n, g, c)
    BY <1>2 DEF SetsConn
  <2> QED
    BY <1>3, <2>1, ConnChange
<1>5. \A m \in Nodes, h \in Places : Channel(m, h)' = Channel(m, h)
  BY <1>2, <1>3, <1>4, PlaceNumbers DEF Channel
<1> QED
  BY <1>1, <1>2, <1>3, <1>4, <1>5 DEF NetTyped

\* A handler that leaves drops its inbox.
LEMMA LeaveEffect ==
    ASSUME TypeOK, NEW n \in Nodes, NEW g \in Gens, Leave(n, g)
    PROVE  /\ NetTyped' /\ conns[n][g].phase \in {"accepted", "open"}
           /\ conns'[n][g].phase = "done"
           /\ \A m \in Nodes, h \in Gens : m # n \/ h # g => conns'[m][h] = conns[m][h]
           /\ Channel(n, g)' = <<>> /\ OthersStay(n, g)
<1> DEFINE c == [phase |-> "done", inbox |-> <<>>]
<1>1. agents \in [Nodes -> Agent] /\ conns \in [Nodes -> [Gens -> Conn]]
  BY DEF TypeOK
<1>2. /\ conns[n][g].phase \in {"accepted", "open"} /\ agents' = agents
      /\ conns' = [conns EXCEPT ![n][g] = c]
  BY DEF Leave
<1>3. c \in Conn /\ c.phase = "done" /\ c.inbox = <<>>
  BY EmptySeq DEF Conn
<1> HIDE DEF c
<1>4. /\ conns' \in [Nodes -> [Gens -> Conn]] /\ conns'[n][g] = c
      /\ \A m \in Nodes, h \in Gens : m # n \/ h # g => conns'[m][h] = conns[m][h]
  <2>1. SetsConn(n, g, c)
    BY <1>2 DEF SetsConn
  <2> QED
    BY <1>3, <2>1, ConnChange
<1>5. Channel(n, g)' = <<>> /\ OthersStay(n, g)
  BY <1>2, <1>3, <1>4, PlaceNumbers DEF Channel, OthersStay
<1> QED
  BY <1>1, <1>2, <1>3, <1>4, <1>5 DEF NetTyped
-----------------------------------------------------------------------------
(***************************************************************************)
(* What happens to sessions.                                               *)
(***************************************************************************)

\* Events are only added to a session, and what ends it is among them.
Extends(r, q) ==
    /\ r.node = q.node /\ r.gen = q.gen /\ r.kept = q.kept
    /\ \/ r.events = q.events /\ r.state = q.state
       \/ \E e \in Event : r.events = Append(q.events, e)
    /\ Ended(q.events) => Ended(r.events)
    /\ r.state \in {"complete", "failed"} => r.state = q.state \/ Ended(r.events)

Added(r, e, state) == [[r EXCEPT !.events = Append(@, e)] EXCEPT !.state = state]

\* Putting an event in the queue extends the session; an end stays an end.
LEMMA AddedEffect ==
    ASSUME NEW r \in Session, NEW e \in Event,
           NEW state \in {"generating", "complete", "failed"},
           state # "generating" <=> e.kind # "chunk"
    PROVE  /\ Added(r, e, state) \in Session /\ Extends(Added(r, e, state), r)
           /\ Added(r, e, state).events = Append(r.events, e)
           /\ e.kind # "chunk" => Ended(Added(r, e, state).events)
<1> DEFINE q == Added(r, e, state)
           es == Append(r.events, e)
           k == Len(r.events)
<1>1. /\ es \in Seq(Event) /\ k \in Nat /\ DOMAIN r.events = 1 .. k
      /\ DOMAIN es = 1 .. (k + 1) /\ es[k + 1] = e /\ \A i \in 1 .. k : es[i] = r.events[i]
  BY AppendProperties, LenProperties DEF Session
<1>2. 1 .. k \subseteq 1 .. (k + 1) /\ k + 1 \in 1 .. (k + 1)
  BY <1>1
<1> HIDE DEF k
<1>3. Ended(r.events) \/ e.kind # "chunk" => Ended(es)
  BY <1>1, <1>2 DEF Ended
<1>4. q = [[r EXCEPT !.events = es] EXCEPT !.state = state]
  BY DEF Added
<1> HIDE DEF es, q
<1>5. /\ q \in Session /\ q.events = es /\ q.state = state
      /\ q.node = r.node /\ q.gen = r.gen /\ q.kept = r.kept
  BY <1>1, <1>4 DEF Session
<1> QED
  BY <1>3, <1>5 DEF Extends, es, q

\* push_chunk puts one fragment in the queue.
LEMMA SessionSteps ==
    ASSUME NEW r \in Session, NEW p \in 1 .. Pieces
    PROVE  /\ PushChunk(r, p) \in Session /\ Extends(PushChunk(r, p), r)
           /\ PushChunk(r, p).events = Append(r.events, Fragment(p))
<1>1. Fragment(p) \in Event /\ Fragment(p).kind = "chunk"
  BY EventForms DEF Fragment
<1>2. PushChunk(r, p) = Added(r, Fragment(p), "generating")
  BY DEF PushChunk, Put, Fragment, Added
<1> QED
  BY <1>1, <1>2, AddedEffect

\* Completing and failing put an end into the queue, unless it is there.
LEMMA SessionEnds ==
    ASSUME NEW r \in Session, NEW q \in {CompleteSession(r), FailSession(r)}
    PROVE  /\ q \in Session /\ Extends(q, r)
           /\ q.events = r.events \/ \E e \in Event \ Fragments : q.events = Append(r.events, e)
           /\ Ended(q.events) \/ r.state \in {"complete", "failed"}
<1> DEFINE d == [kind |-> "done", piece |-> 0]
           x == [kind |-> "error", piece |-> 0]
<1>1. /\ d \in Event /\ x \in Event /\ d.kind # "chunk" /\ x.kind # "chunk"
      /\ d \notin Fragments /\ x \notin Fragments
  BY EventForms
<1>2. CASE q = CompleteSession(r)
  <2>1. q = Added(r, d, "complete")
    BY <1>2 DEF CompleteSession, Put, Added
  <2> HIDE DEF d
  <2> QED
    BY <1>1, <2>1, AddedEffect
<1>3. CASE q = FailSession(r) /\ r.state \in {"complete", "failed"}
  BY <1>3 DEF FailSession, Extends
<1>4. CASE q = FailSession(r) /\ r.state \notin {"complete", "failed"}
  <2>1. q = Added(r, x, "failed")
    BY <1>4 DEF FailSession, Put, Added
  <2> HIDE DEF x
  <2> QED
    BY <1>1, <2>1, AddedEffect
<1> QED
  BY <1>2, <1>3, <1>4
-----------------------------------------------------------------------------
(***************************************************************************)
(* Steps that produce no piece.                                            *)
(***************************************************************************)

\* Generations go on or end, and a request that was sent stays sent.
NothingBegins ==
    /\ \A n \in Nodes, s \in Requests : agents'[n].jobs[s] \in {0, agents[n].jobs[s]}
    /\ \A s \in Requests : Begun(s) => Begun(s)'

\* Where no generation begins and no piece appears, generations stay ahead.
LEMMA NothingNew ==
    ASSUME Ahead, NothingEarly, NothingBegins,
           \A s \in Requests, p \in 1 .. Pieces : Out(s, p)' => Out(s, p)
    PROVE  Ahead' /\ NothingEarly'
<1>1. Ahead'
  <2> SUFFICES ASSUME NEW s \in Requests, NEW n \in Nodes, agents'[n].jobs[s] # 0
               PROVE  /\ \A p \in 1 .. Pieces : Out(s, p)' => p < agents'[n].jobs[s]
                      /\ \A m \in Nodes : agents'[m].jobs[s] # 0 => m = n
    BY DEF Ahead
  <2>1. agents'[n].jobs[s] = agents[n].jobs[s] /\ agents[n].jobs[s] # 0
    BY DEF NothingBegins
  <2>2. \A m \in Nodes : agents'[m].jobs[s] # 0 => agents[m].jobs[s] # 0
    BY DEF NothingBegins
  <2> QED
    BY <2>1, <2>2 DEF Ahead
<1>2. NothingEarly'
  <2> SUFFICES ASSUME NEW s \in Requests, ~Begun(s)'
               PROVE  /\ \A p \in 1 .. Pieces : ~Out(s, p)'
                      /\ \A n \in Nodes : agents'[n].jobs[s] = 0
    BY DEF NothingEarly
  <2>1. ~Begun(s)
    BY DEF NothingBegins
  <2> QED
    BY <2>1 DEF NothingEarly, NothingBegins
<1> QED
  BY <1>1, <1>2

\* A step in which pieces at most disappear keeps each in one place.
LEMMA FlowShrinks ==
    ASSUME Flow, OnceEach', NothingBegins,
           \A s \in Requests, p \in 1 .. Pieces :
              /\ Queued(s, p)' => Queued(s, p)
              /\ Got(s, p)' => Got(s, p)
              /\ \A n \in Nodes, g \in Places : At(n, g, s, p)' => At(n, g, s, p)
    PROVE  Flow'
<1>1. OnePlace'
  <2> SUFFICES ASSUME NEW s \in Requests, NEW p \in 1 .. Pieces
               PROVE  /\ ~(Queued(s, p)' /\ Got(s, p)')
                      /\ \A n \in Nodes, g \in Places :
                            At(n, g, s, p)' => /\ ~Queued(s, p)' /\ ~Got(s, p)'
                                               /\ \A m \in Nodes, h \in Places :
                                                     At(m, h, s, p)' => m = n /\ h = g
    BY DEF OnePlace
  <2> QED
    BY DEF Flow, OnePlace
<1>2. \A s \in Requests, p \in 1 .. Pieces : Out(s, p)' => Out(s, p)
  BY DEF Out
<1>3. Ahead' /\ NothingEarly'
  BY <1>2, NothingNew DEF Flow
<1> QED
  BY <1>1, <1>3 DEF Flow

\* Sessions get no piece, though they may get their end.
QuietSessions ==
    \A s \in Requests :
        \/ sessions'[s].events = sessions[s].events
        \/ \E e \in Event \ Fragments : sessions'[s].events = Append(sessions[s].events, e)

\* A session that gets no piece has no new one in its queue.
LEMMA QuietQueues ==
    ASSUME TypeOK, QuietSessions, NEW s \in Requests
    PROVE  /\ Once(sessions[s].events, Fragments) => Once(sessions'[s].events, Fragments)
           /\ \A p \in 1 .. Pieces : Queued(s, p)' => Queued(s, p)
<1>1. sessions[s].events \in Seq(Event)
  BY DEF TypeOK, Session
<1>2. CASE sessions'[s].events = sessions[s].events
  BY <1>2 DEF Queued
<1>3. ASSUME NEW e \in Event \ Fragments,
             sessions'[s].events = Append(sessions[s].events, e)
      PROVE  /\ Once(sessions[s].events, Fragments) => Once(sessions'[s].events, Fragments)
             /\ \A p \in 1 .. Pieces : Queued(s, p)' => Queued(s, p)
  <2>1. /\ \A y : In(sessions'[s].events, y) <=> In(sessions[s].events, y) \/ y = e
        /\ Once(sessions[s].events, Fragments) => Once(sessions'[s].events, Fragments)
    BY <1>1, <1>3, InAppend
  <2>2. \A p \in 1 .. Pieces : Fragment(p) # e
    BY EventForms
  <2> QED
    BY <2>1, <2>2 DEF Queued
<1> QED
  BY <1>2, <1>3 DEF QuietSessions

\* In one place, at most pieces disappear.
LEMMA PlaceShrinks ==
    ASSUME TypeOK, Flow, NothingBegins, NEW n \in Nodes, NEW g \in Places, OthersStay(n, g),
           QuietSessions, UNCHANGED clients,
           Once(Channel(n, g), Chunks) => Once(Channel(n, g)', Chunks),
           \A s \in Requests, p \in 1 .. Pieces :
              In(Channel(n, g)', Chunk(s, p)) => In(Channel(n, g), Chunk(s, p))
    PROVE  Flow'
<1>1. \A s \in Requests, p \in 1 .. Pieces, m \in Nodes, h \in Places :
         At(m, h, s, p)' => At(m, h, s, p)
  <2> SUFFICES ASSUME NEW s \in Requests, NEW p \in 1 .. Pieces, NEW m \in Nodes,
                      NEW h \in Places, At(m, h, s, p)'
               PROVE  At(m, h, s, p)
    OBVIOUS
  <2>1. CASE m = n /\ h = g
    BY <2>1 DEF At
  <2>2. CASE m # n \/ h # g
    BY <2>2 DEF At, OthersStay
  <2> QED
    BY <2>1, <2>2
<1>2. OnceEach'
  <2>1. \A m \in Nodes, h \in Places : Once(Channel(m, h)', Chunks)
    BY DEF Flow, OnceEach, OthersStay
  <2>2. \A s \in Requests : Once(sessions'[s].events, Fragments)
    BY QuietQueues DEF Flow, OnceEach
  <2> QED
    BY <2>1, <2>2 DEF Flow, OnceEach
<1>3. \A s \in Requests, p \in 1 .. Pieces :
         (Queued(s, p)' => Queued(s, p)) /\ (Got(s, p)' => Got(s, p))
  BY QuietQueues DEF Got
<1> QED
  BY <1>1, <1>2, <1>3, FlowShrinks

\* While entries, sessions and clients stay and no handler leaves, registers or
\* has a session before it is in its loop, both stay as they should be.
LEMMA NetKeepsLives ==
    ASSUME EntriesOpen, Lives, UNCHANGED <<registry, sessions, clients>>,
           \A n \in Nodes, g \in Gens :
              conns[n][g].phase = "unused" \/ conns'[n][g].phase = conns[n][g].phase,
           TypeOK
    PROVE  EntriesOpen' /\ Lives'
<1>1. EntriesOpen'
  <2> SUFFICES ASSUME NEW n \in Nodes
               PROVE  /\ registry[n].ready => registry[n].gen # 0
                      /\ registry[n].gen # 0 => conns'[n][registry[n].gen].phase = "open"
    BY DEF EntriesOpen
  <2>1. registry[n].gen # 0 => registry[n].gen \in Gens
    BY PlaceNumbers DEF TypeOK, Places
  <2> QED
    BY <2>1 DEF EntriesOpen
<1>2. Lives'
  <2> SUFFICES ASSUME NEW s \in Requests, Live(s)
               PROVE  /\ sessions[s].kept /\ sessions[s].node \in Nodes /\ sessions[s].gen \in Gens
                      /\ conns'[sessions[s].node][sessions[s].gen].phase \in {"open", "done"}
                      /\ \/ conns'[sessions[s].node][sessions[s].gen].phase = "done"
                         \/ sessions[s].state \in {"complete", "failed"}
                         => Ended(sessions[s].events)
    BY DEF Lives, Live
  <2> QED
    BY DEF Lives
<1> QED
  BY <1>1, <1>2
-----------------------------------------------------------------------------
(***************************************************************************)
(* The steps of an agent.                                                  *)
(***************************************************************************)
LEMMA NetTypes ==
    ASSUME TypeOK, NetTyped', UNCHANGED <<registry, sessions, clients>>
    PROVE  TypeOK'
BY DEF TypeOK, NetTyped

\* Losing a connection loses pieces and the outbox, and doubles nothing.
LEMMA LoseKeeps ==
    ASSUME IInv, NEW n \in Nodes, LoseConnection(n)
    PROVE  IInv'
<1>1. PICK g \in Gens :
          /\ NetTyped' /\ PhasesStay
          /\ \A m \in Nodes : agents'[m].jobs = agents[m].jobs
          /\ \E k \in 0 .. Len(Channel(n, g)) : Channel(n, g)' = SubSeq(Channel(n, g), 1, k)
          /\ Channel(n, 0)' = <<>>
          /\ \A m \in Nodes, h \in Places :
                m # n \/ h \notin {0, g} => Channel(m, h)' = Channel(m, h)
  BY LoseEffect DEF IInv
<1>2. UNCHANGED <<registry, sessions, clients>>
  BY DEF LoseConnection
<1>3. TypeOK' /\ EntriesOpen' /\ Lives'
  BY <1>1, <1>2, NetTypes, NetKeepsLives DEF IInv, PhasesStay
<1>4. NothingBegins
  BY <1>1, <1>2 DEF NothingBegins, Begun
<1>5. /\ \A y : In(Channel(n, g)', y) => In(Channel(n, g), y)
      /\ Once(Channel(n, g), Chunks) => Once(Channel(n, g)', Chunks)
  <2>1. Channel(n, g) \in Seq(Message)
    BY PlaceNumbers, ChannelsTyped DEF IInv
  <2> QED
    BY <1>1, <2>1, InPrefix
<1>6. ASSUME NEW m \in Nodes, NEW h \in Places
      PROVE  /\ Once(Channel(m, h)', Chunks)
             /\ \A y : In(Channel(m, h)', y) => In(Channel(m, h), y)
  <2>1. Once(Channel(m, h), Chunks)
    BY DEF IInv, Flow, OnceEach
  <2>2. CASE m = n /\ h = g
    BY <1>5, <2>1, <2>2
  <2>3. CASE m = n /\ h = 0
    BY <1>1, <2>3, InEmpty
  <2>4. CASE m # n \/ h \notin {0, g}
    BY <1>1, <2>1, <2>4
  <2> QED
    BY <2>2, <2>3, <2>4
<1>7. \A s \in Requests, p \in 1 .. Pieces :
         /\ Queued(s, p)' => Queued(s, p)
         /\ Got(s, p)' => Got(s, p)
         /\ \A m \in Nodes, h \in Places : At(m, h, s, p)' => At(m, h, s, p)
  BY <1>2, <1>6 DEF Queued, Got, At
<1>8. OnceEach'
  BY <1>2, <1>6 DEF OnceEach, IInv, Flow
<1> QED
  BY <1>3, <1>4, <1>7, <1>8, FlowShrinks DEF IInv

\* What waited in the outbox is in the new connection's inbox, and nowhere else.
LEMMA ConnectKeeps ==
    ASSUME IInv, NEW n \in Nodes, Connect(n)
    PROVE  IInv'
<1>1. PICK g \in Gens :
          /\ NetTyped' /\ conns[n][g].phase = "unused" /\ conns'[n][g].phase = "accepted"
          /\ \A m \in Nodes, h \in Gens : m # n \/ h # g => conns'[m][h] = conns[m][h]
          /\ \A m \in Nodes : agents'[m].jobs = agents[m].jobs
          /\ Channel(n, g)' = Channel(n, 0) /\ Channel(n, 0)' = <<>>
          /\ \A m \in Nodes, h \in Places :
                m # n \/ h \notin {0, g} => Channel(m, h)' = Channel(m, h)
  BY ConnectEffect DEF IInv
<1>2. UNCHANGED <<registry, sessions, clients>>
  BY DEF Connect
<1>3. TypeOK' /\ EntriesOpen' /\ Lives'
  BY <1>1, <1>2, NetTypes, NetKeepsLives DEF IInv
<1>4. NothingBegins
  BY <1>1, <1>2 DEF NothingBegins, Begun
<1>5. g \in Places /\ 0 \in Places /\ g # 0
  BY PlaceNumbers
<1> DEFINE Source(m, h) == IF m = n /\ h = g THEN 0 ELSE h
<1>6. ASSUME NEW m \in Nodes, NEW h \in Places
      PROVE  /\ Source(m, h) \in Places
             /\ \/ Channel(m, h)' = <<>> /\ m = n /\ h = 0
                \/ Channel(m, h)' = Channel(m, Source(m, h)) /\ ~(m = n /\ h = 0)
  BY <1>1, <1>5
<1>7. \A m \in Nodes, h \in Places, s \in Requests, p \in 1 .. Pieces :
         At(m, h, s, p)' => At(m, Source(m, h), s, p) /\ ~(m = n /\ h = 0)
  BY <1>6, InEmpty DEF At
<1>8. OnceEach'
  <2>1. \A m \in Nodes, h \in Places : Once(Channel(m, h)', Chunks)
    BY <1>6, InEmpty DEF IInv, Flow, OnceEach
  <2> QED
    BY <1>2, <2>1 DEF IInv, Flow, OnceEach
<1>9. \A s \in Requests, p \in 1 .. Pieces :
         (Queued(s, p)' <=> Queued(s, p)) /\ (Got(s, p)' <=> Got(s, p))
  BY <1>2 DEF Queued, Got
<1>10. OnePlace'
  <2> SUFFICES ASSUME NEW s \in Requests, NEW p \in 1 .. Pieces
               PROVE  /\ ~(Queued(s, p)' /\ Got(s, p)')
                      /\ \A m \in Nodes, h \in Places :
                            At(m, h, s, p)' => /\ ~Queued(s, p)' /\ ~Got(s, p)'
                                               /\ \A k \in Nodes, l \in Places :
                                                     At(k, l, s, p)' => k = m /\ l = h
    BY DEF OnePlace
  <2>1. ~(Queued(s, p)' /\ Got(s, p)')
    BY <1>9 DEF IInv, Flow, OnePlace
  <2>2. ASSUME NEW m \in Nodes, NEW h \in Places, At(m, h, s, p)'
        PROVE  /\ ~Queued(s, p)' /\ ~Got(s, p)'
               /\ \A k \in Nodes, l \in Places : At(k, l, s, p)' => k = m /\ l = h
    <3>1. At(m, Source(m, h), s, p) /\ ~(m = n /\ h = 0) /\ Source(m, h) \in Places
      BY <1>6, <1>7, <2>2
    <3>2. ASSUME NEW k \in Nodes, NEW l \in Places, At(k, l, s, p)'
          PROVE  k = m /\ l = h
      <4>1. At(k, Source(k, l), s, p) /\ ~(k = n /\ l = 0) /\ Source(k, l) \in Places
        BY <1>6, <1>7, <3>2
      <4>2. k = m /\ Source(k, l) = Source(m, h)
        BY <3>1, <4>1 DEF IInv, Flow, OnePlace
      <4> QED
        BY <3>1, <4>1, <4>2
    <3> QED
      BY <1>9, <3>1, <3>2 DEF IInv, Flow, OnePlace
  <2> QED
    BY <2>1, <2>2
<1>11. \A s \in Requests, p \in 1 .. Pieces : Out(s, p)' => Out(s, p)
  <2> SUFFICES ASSUME NEW s \in Requests, NEW p \in 1 .. Pieces, Out(s, p)'
               PROVE  Out(s, p)
    OBVIOUS
  <2>1. CASE Queued(s, p)' \/ Got(s, p)'
    BY <1>9, <2>1 DEF Out
  <2>2. CASE \E m \in Nodes, h \in Places : At(m, h, s, p)'
    BY <1>6, <1>7, <2>2 DEF Out
  <2> QED
    BY <2>1, <2>2 DEF Out
<1>12. Ahead' /\ NothingEarly'
  BY <1>4, <1>11, NothingNew DEF IInv, Flow
<1> QED
  BY <1>3, <1>8, <1>10, <1>12 DEF IInv, Flow

\* An agent that sends anything but a piece.
LEMMA PlainSendKeeps ==
    ASSUME IInv, NEW n \in Nodes, NEW a \in Agent, NEW msg \in Message, msg \notin Chunks,
           a.gen = agents[n].gen, a.outbox = agents[n].outbox, Sends(n, a, msg),
           \A s \in Requests : a.jobs[s] \in {0, agents[n].jobs[s]},
           UNCHANGED <<registry, sessions, clients>>
    PROVE  IInv'
<1>1. /\ NetTyped' /\ PhasesStay
      /\ agents'[n].jobs = a.jobs
      /\ \A m \in Nodes : m # n => agents'[m] = agents[m]
  BY SendsEffect DEF IInv
<1>2. PICK g \in Places :
          /\ OthersStay(n, g)
          /\ Channel(n, g)' \in {Channel(n, g), Append(Channel(n, g), msg)}
  BY SendsEffect DEF IInv
<1>3. TypeOK' /\ EntriesOpen' /\ Lives'
  BY <1>1, NetTypes, NetKeepsLives DEF IInv, PhasesStay
<1>4. NothingBegins
  BY <1>1 DEF NothingBegins, Begun
<1>5. Channel(n, g) \in Seq(Message)
  BY ChannelsTyped DEF IInv
<1>6. \A s \in Requests, p \in 1 .. Pieces : msg # Chunk(s, p)
  BY DEF Chunks
<1>7. /\ Once(Channel(n, g), Chunks) => Once(Channel(n, g)', Chunks)
      /\ \A s \in Requests, p \in 1 .. Pieces :
            In(Channel(n, g)', Chunk(s, p)) => In(Channel(n, g), Chunk(s, p))
  <2>1. CASE Channel(n, g)' = Channel(n, g)
    BY <2>1
  <2>2. CASE Channel(n, g)' = Append(Channel(n, g), msg)
    <3>1. /\ \A y : In(Channel(n, g)', y) <=> In(Channel(n, g), y) \/ y = msg
          /\ Once(Channel(n, g), Chunks) => Once(Channel(n, g)', Chunks)
      BY <1>5, <2>2, InAppend
    <3> QED
      BY <1>6, <3>1
  <2> QED
    BY <1>2, <2>1, <2>2
<1> QED
  BY <1>2, <1>3, <1>4, <1>7, PlaceShrinks DEF IInv, QuietSessions

\* Reporting the model sends no piece.
LEMMA TellKeeps ==
    ASSUME IInv, NEW n \in Nodes, Tell(n)
    PROVE  IInv'
<1> DEFINE a == [agents[n] EXCEPT !.told = TRUE]
<1>1. /\ a \in Agent /\ a.gen = agents[n].gen /\ a.outbox = agents[n].outbox
      /\ a.jobs = agents[n].jobs
  BY DEF IInv, TypeOK, Agent
<1>2. Sends(n, a, ModelLoaded) /\ UNCHANGED <<registry, sessions, clients>>
  BY DEF Tell
<1> HIDE DEF a
<1> QED
  BY <1>1, <1>2, MessageForms, PlainSendKeeps

\* The next piece is one that is nowhere yet.
LEMMA PieceSendKeeps ==
    ASSUME IInv, NEW n \in Nodes, NEW s \in Requests, NEW p \in 1 .. Pieces,
           agents[n].jobs[s] = p, NEW a \in Agent,
           a.gen = agents[n].gen, a.outbox = agents[n].outbox, Sends(n, a, Chunk(s, p)),
           a.jobs[s] = p + 1, \A t \in Requests : t # s => a.jobs[t] = agents[n].jobs[t],
           UNCHANGED <<registry, sessions, clients>>
    PROVE  IInv'
<1>0. Chunk(s, p) \in Message
  BY MessageForms
<1>1. /\ NetTyped' /\ PhasesStay
      /\ agents'[n].jobs = a.jobs
      /\ \A m \in Nodes : m # n => agents'[m] = agents[m]
  BY <1>0, SendsEffect DEF IInv
<1>2. PICK g \in Places :
          /\ OthersStay(n, g)
          /\ Channel(n, g)' \in {Channel(n, g), Append(Channel(n, g), Chunk(s, p))}
  BY <1>0, SendsEffect DEF IInv
<1>3. TypeOK' /\ EntriesOpen' /\ Lives'
  BY <1>1, NetTypes, NetKeepsLives DEF IInv, PhasesStay
<1>4. p # 0 /\ p \in Nat /\ ~(p < p)
  OBVIOUS
<1>5. ~Out(s, p) /\ (\A m \in Nodes : agents[m].jobs[s] # 0 => m = n) /\ Begun(s)
  BY <1>4 DEF IInv, Flow, Ahead, NothingEarly
<1>6. /\ \A m \in Nodes, h \in Places : ~At(m, h, s, p)
      /\ ~Queued(s, p) /\ ~Got(s, p)
  BY <1>5 DEF Out
<1>7. /\ Once(Channel(n, g)', Chunks)
      /\ \A y : In(Channel(n, g)', y) => In(Channel(n, g), y) \/ y = Chunk(s, p)
  <2>1. Channel(n, g) \in Seq(Message) /\ Once(Channel(n, g), Chunks)
    BY ChannelsTyped DEF IInv, Flow, OnceEach
  <2>2. CASE Channel(n, g)' = Channel(n, g)
    BY <2>1, <2>2
  <2>3. CASE Channel(n, g)' = Append(Channel(n, g), Chunk(s, p))
    <3>1. ~In(Channel(n, g), Chunk(s, p))
      BY <1>6 DEF At
    <3> QED
      BY <1>0, <2>1, <2>3, <3>1, InAppend
  <2> QED
    BY <1>2, <2>2, <2>3
<1>8. ASSUME NEW t \in Requests, NEW k \in 1 .. Pieces, t # s \/ k # p,
             NEW m \in Nodes, NEW h \in Places, At(m, h, t, k)'
      PROVE  At(m, h, t, k)
  <2>1. CASE m = n /\ h = g
    <3>1. Chunk(t, k) # Chunk(s, p)
      BY <1>8, MessageForms
    <3> QED
      BY <1>7, <1>8, <2>1, <3>1 DEF At
  <2>2. CASE m # n \/ h # g
    BY <1>2, <1>8, <2>2 DEF At, OthersStay
  <2> QED
    BY <2>1, <2>2
<1>9. ASSUME NEW m \in Nodes, NEW h \in Places, At(m, h, s, p)'
      PROVE  m = n /\ h = g
  BY <1>2, <1>6, <1>9 DEF At, OthersStay
<1>10. \A t \in Requests, k \in 1 .. Pieces :
          (Queued(t, k)' <=> Queued(t, k)) /\ (Got(t, k)' <=> Got(t, k))
  BY DEF Queued, Got
<1>11. OnceEach'
  <2>1. \A m \in Nodes, h \in Places : Once(Channel(m, h)', Chunks)
    BY <1>2, <1>7 DEF IInv, Flow, OnceEach, OthersStay
  <2> QED
    BY <2>1 DEF IInv, Flow, OnceEach
<1>12. OnePlace'
  <2> SUFFICES ASSUME NEW t \in Requests, NEW k \in 1 .. Pieces
               PROVE  /\ ~(Queued(t, k)' /\ Got(t, k)')
                      /\ \A m \in Nodes, h \in Places :
                            At(m, h, t, k)' => /\ ~Queued(t, k)' /\ ~Got(t, k)'
                                               /\ \A i \in Nodes, l \in Places :
                                                     At(i, l, t, k)' => i = m /\ l = h
    BY DEF OnePlace
  <2>1. CASE t = s /\ k = p
    BY <1>6, <1>9, <1>10, <2>1
  <2>2. CASE t # s \/ k # p
    BY <1>8, <1>10, <2>2 DEF IInv, Flow, OnePlace
  <2> QED
    BY <2>1, <2>2
<1>13. ASSUME NEW t \in Requests, NEW k \in 1 .. Pieces, t # s \/ k # p, Out(t, k)'
       PROVE  Out(t, k)
  BY <1>8, <1>10, <1>13 DEF Out
<1>14. Ahead'
  <2> SUFFICES ASSUME NEW t \in Requests, NEW m \in Nodes, agents'[m].jobs[t] # 0
               PROVE  /\ \A k \in 1 .. Pieces : Out(t, k)' => k < agents'[m].jobs[t]
                      /\ \A i \in Nodes : agents'[i].jobs[t] # 0 => i = m
    BY DEF Ahead
  <2>1. CASE t = s
    <3>1. \A i \in Nodes : agents'[i].jobs[s] # 0 => i = n
      BY <1>1, <1>5
    <3>2. m = n /\ agents'[m].jobs[t] = p + 1
      BY <1>1, <2>1, <3>1
    <3>3. ASSUME NEW k \in 1 .. Pieces, Out(s, k)' PROVE k < p + 1
      <4>1. CASE k = p
        BY <4>1
      <4>2. CASE k # p
        <5>1. Out(s, k)
          BY <1>13, <3>3, <4>2
        <5>2. k < p
          BY <1>4, <5>1 DEF IInv, Flow, Ahead
        <5> QED
          BY <5>2
      <4> QED
        BY <4>1, <4>2
    <3> QED
      BY <2>1, <3>1, <3>2, <3>3
  <2>2. CASE t # s
    <3>1. \A i \in Nodes : agents'[i].jobs[t] = agents[i].jobs[t]
      BY <1>1, <2>2
    <3>2. \A k \in 1 .. Pieces : Out(t, k)' => Out(t, k)
      BY <1>13, <2>2
    <3> QED
      BY <3>1, <3>2 DEF IInv, Flow, Ahead
  <2> QED
    BY <2>1, <2>2
<1>15. NothingEarly'
  <2> SUFFICES ASSUME NEW t \in Requests, ~Begun(t)'
               PROVE  /\ \A k \in 1 .. Pieces : ~Out(t, k)'
                      /\ \A m \in Nodes : agents'[m].jobs[t] = 0
    BY DEF NothingEarly
  <2>1. ~Begun(t) /\ t # s
    BY <1>5 DEF Begun
  <2>2. \A m \in Nodes : agents'[m].jobs[t] = agents[m].jobs[t]
    BY <1>1, <2>1
  <2> QED
    BY <1>13, <2>1, <2>2 DEF IInv, Flow, NothingEarly
<1> QED
  BY <1>3, <1>11, <1>12, <1>14, <1>15 DEF IInv, Flow

\* A generation sends its next piece, its completion or its error.
LEMMA EmitKeeps ==
    ASSUME IInv, NEW n \in Nodes, NEW s \in Requests, Emit(n, s)
    PROVE  IInv'
<1>1. PICK p \in 0 .. (Pieces + 1) : p = agents[n].jobs[s]
  BY DEF IInv, TypeOK, Agent
<1>2. /\ UNCHANGED <<registry, sessions, clients>>
      /\ p # 0
      /\ \/ /\ More(p)
            /\ Sends(n, [agents[n] EXCEPT !.jobs[s] = p + 1], Chunk(s, p))
         \/ /\ ~More(p)
            /\ Sends(n, [agents[n] EXCEPT !.jobs[s] = 0], Completion(s))
         \/ /\ More(p)
            /\ Sends(n, [agents[n] EXCEPT !.jobs[s] = 0], ErrorOf(s))
  BY <1>1 DEF Emit
<1>3. ASSUME NEW k \in 0 .. (Pieces + 1)
      PROVE  LET a == [agents[n] EXCEPT !.jobs[s] = k]
             IN  /\ a \in Agent /\ a.gen = agents[n].gen /\ a.outbox = agents[n].outbox
                 /\ a.jobs[s] = k
                 /\ \A t \in Requests : t # s => a.jobs[t] = agents[n].jobs[t]
  BY DEF IInv, TypeOK, Agent
<1>4. CASE More(p) /\ Sends(n, [agents[n] EXCEPT !.jobs[s] = p + 1], Chunk(s, p))
  <2>1. p \in 1 .. Pieces /\ p + 1 \in 0 .. (Pieces + 1)
    BY <1>2, <1>4, InteractiveAssumption DEF More
  <2> DEFINE a == [agents[n] EXCEPT !.jobs[s] = p + 1]
  <2>2. /\ a \in Agent /\ a.gen = agents[n].gen /\ a.outbox = agents[n].outbox
        /\ a.jobs[s] = p + 1
        /\ \A t \in Requests : t # s => a.jobs[t] = agents[n].jobs[t]
    BY <1>3, <2>1
  <2>3. Sends(n, a, Chunk(s, p))
    BY <1>4
  <2> HIDE DEF a
  <2> QED
    BY <1>1, <1>2, <2>1, <2>2, <2>3, PieceSendKeeps
<1>5. ASSUME NEW msg \in {Completion(s), ErrorOf(s)},
             Sends(n, [agents[n] EXCEPT !.jobs[s] = 0], msg)
      PROVE  IInv'
  <2> DEFINE a == [agents[n] EXCEPT !.jobs[s] = 0]
  <2>1. 0 \in 0 .. (Pieces + 1)
    BY PlaceNumbers
  <2>2. /\ a \in Agent /\ a.gen = agents[n].gen /\ a.outbox = agents[n].outbox
        /\ a.jobs[s] = 0
        /\ \A t \in Requests : t # s => a.jobs[t] = agents[n].jobs[t]
    BY <1>3, <2>1
  <2>3. Sends(n, a, msg)
    BY <1>5
  <2>4. \A t \in Requests : a.jobs[t] \in {0, agents[n].jobs[t]}
    BY <2>2
  <2>5. msg \in Message /\ msg \notin Chunks
    BY <1>5, MessageForms
  <2> HIDE DEF a
  <2> QED
    BY <1>2, <2>2, <2>3, <2>4, <2>5, PlainSendKeeps
<1> QED
  BY <1>2, <1>4, <1>5
-----------------------------------------------------------------------------
(***************************************************************************)
(* The steps of a handler.                                                 *)
(***************************************************************************)

\* Events that reach sessions over connections leave them as they should be.
LEMMA EventsKeepLives ==
    ASSUME Lives, PhasesStay, UNCHANGED clients,
           \A s \in Requests : sessions'[s] = sessions[s] \/ Extends(sessions'[s], sessions[s])
    PROVE  Lives'
<1> SUFFICES ASSUME NEW s \in Requests, Live(s)
             PROVE  /\ sessions'[s].kept /\ sessions'[s].node \in Nodes
                    /\ sessions'[s].gen \in Gens
                    /\ conns'[sessions'[s].node][sessions'[s].gen].phase \in {"open", "done"}
                    /\ \/ conns'[sessions'[s].node][sessions'[s].gen].phase = "done"
                       \/ sessions'[s].state \in {"complete", "failed"}
                       => Ended(sessions'[s].events)
  BY DEF Lives, Live
<1>1. /\ sessions[s].kept /\ sessions[s].node \in Nodes /\ sessions[s].gen \in Gens
      /\ conns[sessions[s].node][sessions[s].gen].phase \in {"open", "done"}
      /\ \/ conns[sessions[s].node][sessions[s].gen].phase = "done"
         \/ sessions[s].state \in {"complete", "failed"}
         => Ended(sessions[s].events)
  BY DEF Lives
<1>2. conns'[sessions[s].node][sessions[s].gen].phase = conns[sessions[s].node][sessions[s].gen].phase
  BY <1>1 DEF PhasesStay
<1> QED
  BY <1>1, <1>2 DEF Extends

\* A new entry's connection is in its loop.
LEMMA RegisterKeeps ==
    ASSUME IInv, NEW n \in Nodes, NEW g \in Gens, Register(n, g)
    PROVE  IInv'
<1>1. /\ NetTyped' /\ conns[n][g].phase = "accepted" /\ conns'[n][g].phase = "open"
      /\ \A m \in Nodes, h \in Gens : m # n \/ h # g => conns'[m][h] = conns[m][h]
      /\ \A m \in Nodes, h \in Places : Channel(m, h)' = Channel(m, h)
  BY RegisterEffect DEF IInv
<1>2. /\ registry' = [registry EXCEPT ![n] = [gen |-> g, ready |-> FALSE]]
      /\ UNCHANGED <<agents, sessions, clients>>
  BY DEF Register
<1>3. /\ registry \in [Nodes -> [gen : Places, ready : BOOLEAN]]
      /\ registry' \in [Nodes -> [gen : Places, ready : BOOLEAN]]
      /\ registry'[n].gen = g /\ ~registry'[n].ready
      /\ \A m \in Nodes : m # n => registry'[m] = registry[m]
  BY <1>2, PlaceNumbers DEF IInv, TypeOK, Places
<1>4. TypeOK'
  BY <1>1, <1>2, <1>3 DEF IInv, TypeOK, NetTyped, Places
<1>5. EntriesOpen'
  <2> SUFFICES ASSUME NEW m \in Nodes
               PROVE  /\ registry'[m].ready => registry'[m].gen # 0
                      /\ registry'[m].gen # 0 => conns'[m][registry'[m].gen].phase = "open"
    BY DEF EntriesOpen
  <2>1. CASE m = n
    BY <1>1, <1>3, <2>1
  <2>2. CASE m # n
    <3>1. registry[m].gen # 0 => registry[m].gen \in Gens
      BY <1>3, PlaceNumbers
    <3> QED
      BY <1>1, <1>3, <2>2, <3>1 DEF IInv, EntriesOpen
  <2> QED
    BY <2>1, <2>2
<1>6. Lives'
  <2> SUFFICES ASSUME NEW s \in Requests, Live(s)
               PROVE  /\ sessions[s].kept /\ sessions[s].node \in Nodes /\ sessions[s].gen \in Gens
                      /\ conns'[sessions[s].node][sessions[s].gen].phase \in {"open", "done"}
                      /\ \/ conns'[sessions[s].node][sessions[s].gen].phase = "done"
                         \/ sessions[s].state \in {"complete", "failed"}
                         => Ended(sessions[s].events)
    BY <1>2 DEF Lives, Live
  <2> QED
    BY <1>1 DEF IInv, Lives
<1>7. NothingBegins /\ QuietSessions
  BY <1>2 DEF NothingBegins, QuietSessions, Begun
<1>8. g \in Places /\ OthersStay(n, g) /\ Channel(n, g)' = Channel(n, g)
  BY <1>1, PlaceNumbers DEF OthersStay
<1>9. Flow'
  BY <1>2, <1>7, <1>8, PlaceShrinks DEF IInv
<1> QED
  BY <1>4, <1>5, <1>6, <1>9 DEF IInv

\* A handled message that is no piece for a session.
LEMMA PlainHandlingKeepsFlow ==
    ASSUME IInv, NEW n \in Nodes, NEW g \in Gens, NEW type, Handling(n, g, type),
           UNCHANGED <<agents, clients>>, QuietSessions
    PROVE  Flow'
<1>1. /\ Channel(n, g) # <<>> /\ Channel(n, g)' = Tail(Channel(n, g)) /\ OthersStay(n, g)
  BY HandlingEffect DEF IInv
<1>2. NothingBegins
  BY DEF NothingBegins, Begun
<1>3. g \in Places /\ Channel(n, g) \in Seq(Message)
  BY PlaceNumbers, ChannelsTyped DEF IInv
<1>4. /\ Once(Channel(n, g), Chunks) => Once(Channel(n, g)', Chunks)
      /\ \A y : In(Channel(n, g)', y) => In(Channel(n, g), y)
  BY <1>1, <1>3, InTail
<1> QED
  BY <1>1, <1>2, <1>3, <1>4, PlaceShrinks DEF IInv

\* Only an entry that exists becomes READY.
LEMMA HandleLoadedKeeps ==
    ASSUME IInv, NEW n \in Nodes, NEW g \in Gens, HandleLoaded(n, g)
    PROVE  IInv'
<1>1. /\ Handling(n, g, "model_loaded") /\ UNCHANGED <<agents, sessions, clients>>
      /\ registry' = [registry EXCEPT ![n].ready = registry[n].gen # 0]
  BY DEF HandleLoaded
<1>2. NetTyped' /\ PhasesStay
  BY <1>1, HandlingEffect DEF IInv
<1>3. /\ registry \in [Nodes -> [gen : Places, ready : BOOLEAN]]
      /\ registry' \in [Nodes -> [gen : Places, ready : BOOLEAN]]
      /\ \A m \in Nodes : /\ registry'[m].gen = registry[m].gen
                          /\ registry'[m].ready => registry[m].ready \/ registry[m].gen # 0
  BY <1>1 DEF IInv, TypeOK, Places
<1>4. TypeOK'
  BY <1>1, <1>2, <1>3 DEF IInv, TypeOK, NetTyped, Places
<1>5. EntriesOpen'
  <2> SUFFICES ASSUME NEW m \in Nodes
               PROVE  /\ registry'[m].ready => registry'[m].gen # 0
                      /\ registry'[m].gen # 0 => conns'[m][registry'[m].gen].phase = "open"
    BY DEF EntriesOpen
  <2>1. registry[m].gen # 0 => registry[m].gen \in Gens
    BY <1>3, PlaceNumbers
  <2> QED
    BY <1>2, <1>3, <2>1 DEF IInv, EntriesOpen, PhasesStay
<1>6. Lives'
  BY <1>1, <1>2, EventsKeepLives DEF IInv
<1>7. Flow'
  BY <1>1, PlainHandlingKeepsFlow DEF QuietSessions
<1> QED
  BY <1>4, <1>5, <1>6, <1>7 DEF IInv

\* A piece that is delivered leaves the inbox for the queue of its session.
LEMMA DeliveryKeepsFlow ==
    ASSUME IInv, NEW n \in Nodes, NEW g \in Gens, NEW type, Handling(n, g, type),
           UNCHANGED <<agents, clients>>,
           NEW s \in Requests, NEW p \in 1 .. Pieces, Head(Channel(n, g)) = Chunk(s, p),
           sessions'[s].events = Append(sessions[s].events, Fragment(p)),
           \A t \in Requests : t # s => sessions'[t] = sessions[t]
    PROVE  Flow'
<1>1. Channel(n, g) # <<>> /\ Channel(n, g)' = Tail(Channel(n, g)) /\ OthersStay(n, g)
  BY HandlingEffect DEF IInv
<1>2. g \in Places /\ Channel(n, g) \in Seq(Message) /\ Chunk(s, p) \in Chunks
  BY PlaceNumbers, ChannelsTyped, MessageForms DEF IInv
<1>3. /\ Once(Channel(n, g)', Chunks) /\ ~In(Channel(n, g)', Chunk(s, p))
      /\ In(Channel(n, g), Chunk(s, p))
      /\ \A y : In(Channel(n, g)', y) => In(Channel(n, g), y)
  <2>1. Once(Channel(n, g), Chunks)
    BY <1>2 DEF IInv, Flow, OnceEach
  <2> QED
    BY <1>1, <1>2, <2>1, InTail
<1>4. At(n, g, s, p)
  BY <1>3 DEF At
<1>5. ~Queued(s, p) /\ ~Got(s, p) /\ \A m \in Nodes, h \in Places : At(m, h, s, p) => m = n /\ h = g
  BY <1>2, <1>4 DEF IInv, Flow, OnePlace
<1>6. ASSUME NEW t \in Requests, NEW k \in 1 .. Pieces, NEW m \in Nodes, NEW h \in Places,
             At(m, h, t, k)'
      PROVE  At(m, h, t, k) /\ ~(t = s /\ k = p)
  <2>1. CASE m = n /\ h = g
    BY <1>3, <1>6, <2>1 DEF At
  <2>2. CASE m # n \/ h # g
    <3>1. At(m, h, t, k)
      BY <1>1, <1>6, <2>2 DEF At, OthersStay
    <3> QED
      BY <1>5, <2>2, <3>1
  <2> QED
    BY <2>1, <2>2
<1>7. /\ Once(sessions'[s].events, Fragments)
      /\ \A y : In(sessions'[s].events, y) <=> In(sessions[s].events, y) \/ y = Fragment(p)
  <2>1. sessions[s].events \in Seq(Event) /\ Once(sessions[s].events, Fragments)
    BY DEF IInv, TypeOK, Session, Flow, OnceEach
  <2>2. Fragment(p) \in Event /\ ~In(sessions[s].events, Fragment(p))
    BY <1>5, EventForms DEF Queued
  <2> QED
    BY <2>1, <2>2, InAppend
<1>8. ASSUME NEW t \in Requests, NEW k \in 1 .. Pieces
      PROVE  Queued(t, k)' <=> Queued(t, k) \/ (t = s /\ k = p)
  <2>1. CASE t = s
    BY <1>7, <2>1, EventForms DEF Queued
  <2>2. CASE t # s
    BY <2>2 DEF Queued
  <2> QED
    BY <2>1, <2>2
<1>9. \A t \in Requests, k \in 1 .. Pieces : Got(t, k)' <=> Got(t, k)
  BY DEF Got
<1>10. OnceEach'
  <2>1. \A m \in Nodes, h \in Places : Once(Channel(m, h)', Chunks)
    BY <1>1, <1>3 DEF IInv, Flow, OnceEach, OthersStay
  <2>2. \A t \in Requests : Once(sessions'[t].events, Fragments)
    BY <1>7 DEF IInv, Flow, OnceEach
  <2> QED
    BY <2>1, <2>2 DEF IInv, Flow, OnceEach
<1>11. OnePlace'
  <2> SUFFICES ASSUME NEW t \in Requests, NEW k \in 1 .. Pieces
               PROVE  /\ ~(Queued(t, k)' /\ Got(t, k)')
                      /\ \A m \in Nodes, h \in Places :
                            At(m, h, t, k)' => /\ ~Queued(t, k)' /\ ~Got(t, k)'
                                               /\ \A i \in Nodes, l \in Places :
                                                     At(i, l, t, k)' => i = m /\ l = h
    BY DEF OnePlace
  <2>1. CASE t = s /\ k = p
    BY <1>5, <1>6, <1>9, <2>1
  <2>2. CASE t # s \/ k # p
    BY <1>6, <1>8, <1>9, <2>2 DEF IInv, Flow, OnePlace
  <2> QED
    BY <2>1, <2>2
<1>12. \A t \in Requests, k \in 1 .. Pieces : Out(t, k)' => Out(t, k)
  BY <1>2, <1>4, <1>6, <1>8, <1>9 DEF Out
<1>13. NothingBegins
  BY DEF NothingBegins, Begun
<1>14. Ahead' /\ NothingEarly'
  BY <1>12, <1>13, NothingNew DEF IInv, Flow
<1> QED
  BY <1>10, <1>11, <1>14 DEF Flow

\* A message for a session is delivered, or dropped when the session is gone.
LEMMA HandleGenerateKeeps ==
    ASSUME IInv, NEW n \in Nodes, NEW g \in Gens, HandleGenerate(n, g)
    PROVE  IInv'
<1> DEFINE msg == Head(conns[n][g].inbox)
<1>1. UNCHANGED <<registry, agents, clients>>
  BY DEF HandleGenerate
<1>2. PICK type \in {"generate_chunk", "generate_complete", "generate_error"} :
          /\ Handling(n, g, type)
          /\ type = "generate_chunk" =>
                Deliver(msg.session, PushChunk(sessions[msg.session], msg.piece))
          /\ type = "generate_complete" =>
                Deliver(msg.session, CompleteSession(sessions[msg.session]))
          /\ type = "generate_error" =>
                Deliver(msg.session, FailSession(sessions[msg.session]))
  BY DEF HandleGenerate
<1>3. /\ NetTyped' /\ PhasesStay /\ msg = Head(Channel(n, g)) /\ msg \in Message
      /\ msg.type = type
  BY <1>1, <1>2, HandlingEffect DEF IInv
<1> HIDE DEF msg
<1>4. PICK s \in Requests :
          /\ msg.session = s
          /\ type = "generate_chunk" => msg.piece \in 1 .. Pieces /\ msg = Chunk(s, msg.piece)
  BY <1>3, MessageTypes
<1>5. sessions \in [Requests -> Session] /\ sessions[s] \in Session
  BY DEF IInv, TypeOK
<1>6. ASSUME sessions' \in [Requests -> Session],
             \A t \in Requests : sessions'[t] = sessions[t] \/ Extends(sessions'[t], sessions[t])
      PROVE  TypeOK' /\ EntriesOpen' /\ Lives'
  <2>1. TypeOK'
    BY <1>1, <1>3, <1>6 DEF IInv, TypeOK, NetTyped
  <2>2. Lives'
    BY <1>1, <1>3, <1>6, EventsKeepLives DEF IInv
  <2>3. EntriesOpen'
    <3> SUFFICES ASSUME NEW m \in Nodes
                 PROVE  /\ registry[m].ready => registry[m].gen # 0
                        /\ registry[m].gen # 0 => conns'[m][registry[m].gen].phase = "open"
      BY <1>1 DEF EntriesOpen
    <3>1. registry[m].gen # 0 => registry[m].gen \in Gens
      BY PlaceNumbers DEF IInv, TypeOK, Places
    <3> QED
      BY <1>3, <3>1 DEF IInv, EntriesOpen, PhasesStay
  <2> QED
    BY <2>1, <2>2, <2>3
<1>7. CASE ~sessions[s].kept
  <2>1. sessions' = sessions
    BY <1>2, <1>4, <1>7 DEF Deliver
  <2>2. TypeOK' /\ EntriesOpen' /\ Lives'
    BY <1>5, <1>6, <2>1
  <2>3. Flow'
    BY <1>1, <1>2, <2>1, PlainHandlingKeepsFlow DEF QuietSessions
  <2> QED
    BY <2>2, <2>3 DEF IInv
<1>8. CASE sessions[s].kept /\ type = "generate_chunk"
  <2> DEFINE p == msg.piece
             r == PushChunk(sessions[s], p)
  <2>1. sessions' = [sessions EXCEPT ![s] = r] /\ p \in 1 .. Pieces
    BY <1>2, <1>4, <1>8 DEF Deliver
  <2>2. /\ r \in Session /\ Extends(r, sessions[s])
        /\ r.events = Append(sessions[s].events, Fragment(p))
    BY <1>5, <2>1, SessionSteps
  <2> HIDE DEF r
  <2>3. /\ sessions' \in [Requests -> Session] /\ sessions'[s] = r
        /\ \A t \in Requests : t # s => sessions'[t] = sessions[t]
    BY <1>5, <2>1, <2>2
  <2>4. TypeOK' /\ EntriesOpen' /\ Lives'
    BY <1>6, <2>2, <2>3
  <2>5. Head(Channel(n, g)) = Chunk(s, p)
    BY <1>3, <1>4, <1>8
  <2> HIDE DEF p
  <2>6. Flow'
    BY <1>1, <1>2, <2>1, <2>2, <2>3, <2>5, DeliveryKeepsFlow
  <2> QED
    BY <2>4, <2>6 DEF IInv
<1>9. CASE sessions[s].kept /\ type # "generate_chunk"
  <2>1. PICK r \in {CompleteSession(sessions[s]), FailSession(sessions[s])} :
            sessions' = [sessions EXCEPT ![s] = r]
    BY <1>2, <1>4, <1>9 DEF Deliver
  <2>2. /\ r \in Session /\ Extends(r, sessions[s])
        /\ \/ r.events = sessions[s].events
           \/ \E e \in Event \ Fragments : r.events = Append(sessions[s].events, e)
    BY <1>5, SessionEnds
  <2>3. /\ sessions' \in [Requests -> Session] /\ sessions'[s] = r
        /\ \A t \in Requests : t # s => sessions'[t] = sessions[t]
    BY <1>5, <2>1, <2>2
  <2>4. TypeOK' /\ EntriesOpen' /\ Lives'
    BY <1>6, <2>2, <2>3
  <2>5. QuietSessions
    BY <2>2, <2>3 DEF QuietSessions
  <2>6. Flow'
    BY <1>1, <1>2, <2>5, PlainHandlingKeepsFlow
  <2> QED
    BY <2>4, <2>6 DEF IInv
<1> QED
  BY <1>7, <1>8, <1>9

\* A handler that leaves fails the sessions of its node first.
LEMMA LeaveKeeps ==
    ASSUME IInv, NEW n \in Nodes, NEW g \in Gens, Leave(n, g)
    PROVE  IInv'
<1>1. /\ NetTyped' /\ conns'[n][g].phase = "done"
      /\ \A m \in Nodes, h \in Gens : m # n \/ h # g => conns'[m][h] = conns[m][h]
      /\ Channel(n, g)' = <<>> /\ OthersStay(n, g)
  BY LeaveEffect DEF IInv
<1>2. /\ UNCHANGED <<agents, clients>>
      /\ \/ conns[n][g].phase = "accepted" /\ UNCHANGED <<registry, sessions>>
         \/ /\ conns[n][g].phase = "open"
            /\ sessions' = [s \in Requests |->
                  IF sessions[s].kept /\ sessions[s].node = n
                  THEN FailSession(sessions[s]) ELSE sessions[s]]
            /\ registry' = [registry EXCEPT ![n] = NoEntry]
  BY DEF Leave
<1>3. /\ sessions \in [Requests -> Session]
      /\ registry \in [Nodes -> [gen : Places, ready : BOOLEAN]]
  BY DEF IInv, TypeOK, Places
<1>4. ASSUME NEW s \in Requests
      PROVE  /\ sessions'[s] = sessions[s] \/ Extends(sessions'[s], sessions[s])
             /\ sessions'[s] \in Session
             /\ \/ sessions'[s].events = sessions[s].events
                \/ \E e \in Event \ Fragments : sessions'[s].events = Append(sessions[s].events, e)
             /\ conns[n][g].phase = "open" /\ sessions[s].kept /\ sessions[s].node = n =>
                   Ended(sessions'[s].events) \/ sessions[s].state \in {"complete", "failed"}
  <2>1. CASE sessions'[s] = FailSession(sessions[s])
    <3>1. FailSession(sessions[s]) \in {CompleteSession(sessions[s]), FailSession(sessions[s])}
      OBVIOUS
    <3> QED
      BY <1>3, <2>1, <3>1, SessionEnds
  <2>2. CASE sessions'[s] = sessions[s] /\ ~(conns[n][g].phase = "open" /\ sessions[s].kept
                                             /\ sessions[s].node = n)
    BY <1>3, <2>2
  <2> QED
    BY <1>2, <2>1, <2>2
<1>5. /\ registry' \in [Nodes -> [gen : Places, ready : BOOLEAN]]
      /\ \A m \in Nodes : registry'[m] = registry[m] \/ registry'[m] = NoEntry
      /\ conns[n][g].phase = "open" => registry'[n] = NoEntry
  <2>1. NoEntry \in [gen : Places, ready : BOOLEAN]
    BY PlaceNumbers DEF NoEntry
  <2> QED
    BY <1>2, <1>3, <2>1
<1>6. TypeOK'
  <2>1. sessions' \in [Requests -> Session]
    BY <1>2, <1>3, <1>4
  <2> QED
    BY <1>1, <1>2, <1>5, <2>1 DEF IInv, TypeOK, NetTyped, Places
<1>7. EntriesOpen'
  <2> SUFFICES ASSUME NEW m \in Nodes
               PROVE  /\ registry'[m].ready => registry'[m].gen # 0
                      /\ registry'[m].gen # 0 => conns'[m][registry'[m].gen].phase = "open"
    BY DEF EntriesOpen
  <2>1. CASE registry'[m] = NoEntry
    BY <2>1 DEF NoEntry
  <2>2. CASE registry'[m] = registry[m] /\ registry'[m] # NoEntry
    <3>1. registry[m].gen # 0 => registry[m].gen \in Gens
      BY <1>3, PlaceNumbers
    <3>2. registry[m].gen # 0 => m # n \/ registry[m].gen # g
      BY <1>2, <1>5, <2>2, <3>1 DEF IInv, EntriesOpen
    <3> QED
      BY <1>1, <2>2, <3>1, <3>2 DEF IInv, EntriesOpen
  <2> QED
    BY <1>5, <2>1, <2>2
<1>8. Lives'
  <2> SUFFICES ASSUME NEW s \in Requests, Live(s)
               PROVE  /\ sessions'[s].kept /\ sessions'[s].node \in Nodes
                      /\ sessions'[s].gen \in Gens
                      /\ conns'[sessions'[s].node][sessions'[s].gen].phase \in {"open", "done"}
                      /\ \/ conns'[sessions'[s].node][sessions'[s].gen].phase = "done"
                         \/ sessions'[s].state \in {"complete", "failed"}
                         => Ended(sessions'[s].events)
    BY <1>2 DEF Lives, Live
  <2>1. PICK m \in Nodes, h \in Gens :
            /\ m = sessions[s].node /\ h = sessions[s].gen /\ sessions[s].kept
            /\ conns[m][h].phase \in {"open", "done"}
            /\ conns[m][h].phase = "done" \/ sessions[s].state \in {"complete", "failed"}
                  => Ended(sessions[s].events)
    BY DEF IInv, Lives
  <2>2. /\ sessions'[s].kept /\ sessions'[s].node = m /\ sessions'[s].gen = h
        /\ Ended(sessions[s].events) => Ended(sessions'[s].events)
        /\ sessions'[s].state \in {"complete", "failed"} =>
              sessions'[s].state = sessions[s].state \/ Ended(sessions'[s].events)
    BY <1>4, <2>1 DEF Extends
  <2>3. conns'[m][h].phase \in {"open", "done"}
    BY <1>1, <2>1
  <2>4. ASSUME conns'[m][h].phase = "done" PROVE Ended(sessions'[s].events)
    <3>1. CASE m = n /\ h = g
      BY <1>2, <1>4, <2>1, <2>2, <3>1
    <3>2. CASE m # n \/ h # g
      BY <1>1, <2>1, <2>2, <2>4, <3>2
    <3> QED
      BY <3>1, <3>2
  <2> QED
    BY <2>1, <2>2, <2>3, <2>4
<1>9. NothingBegins /\ QuietSessions
  BY <1>2, <1>4 DEF NothingBegins, QuietSessions, Begun
<1>10. /\ Once(Channel(n, g)', Chunks)
       /\ \A y : ~In(Channel(n, g)', y)
  BY <1>1, InEmpty
<1>11. Flow'
  BY <1>1, <1>2, <1>9, <1>10, PlaceNumbers, PlaceShrinks DEF IInv
<1> QED
  BY <1>6, <1>7, <1>8, <1>11 DEF IInv
-----------------------------------------------------------------------------
(***************************************************************************)
(* The steps of a request.                                                 *)
(***************************************************************************)

\* Session and client of s become r and c; nothing else changes.
Becomes(s, r, c) ==
    /\ sessions' = [sessions EXCEPT ![s] = r]
    /\ clients' = [clients EXCEPT ![s] = c]
    /\ UNCHANGED <<conns, registry, agents>>

\* What follows for the rest of the invariant from what r and c are.
LEMMA BecomesKeeps ==
    ASSUME IInv, NEW s \in Requests, NEW r \in Session, NEW c \in Client, Becomes(s, r, c),
           c.phase \in {"sending", "streaming"} =>
              /\ r.kept /\ r.node \in Nodes /\ r.gen \in Gens
              /\ conns[r.node][r.gen].phase \in {"open", "done"}
              /\ conns[r.node][r.gen].phase = "done" \/ r.state \in {"complete", "failed"}
                    => Ended(r.events)
    PROVE  /\ TypeOK' /\ EntriesOpen' /\ Lives'
           /\ sessions'[s] = r /\ clients'[s] = c
           /\ \A t \in Requests : t # s => sessions'[t] = sessions[t] /\ clients'[t] = clients[t]
           /\ \A n \in Nodes, g \in Places : Channel(n, g)' = Channel(n, g)
<1>1. /\ sessions' \in [Requests -> Session] /\ clients' \in [Requests -> Client]
      /\ sessions'[s] = r /\ clients'[s] = c
      /\ \A t \in Requests : t # s => sessions'[t] = sessions[t] /\ clients'[t] = clients[t]
      /\ UNCHANGED <<conns, registry, agents>>
  BY DEF IInv, TypeOK, Becomes
<1>2. TypeOK' /\ EntriesOpen'
  BY <1>1 DEF IInv, TypeOK, EntriesOpen
<1>3. Lives'
  <2> SUFFICES ASSUME NEW t \in Requests, clients'[t].phase \in {"sending", "streaming"}
               PROVE  /\ sessions'[t].kept /\ sessions'[t].node \in Nodes
                      /\ sessions'[t].gen \in Gens
                      /\ conns[sessions'[t].node][sessions'[t].gen].phase \in {"open", "done"}
                      /\ \/ conns[sessions'[t].node][sessions'[t].gen].phase = "done"
                         \/ sessions'[t].state \in {"complete", "failed"}
                         => Ended(sessions'[t].events)
    BY <1>1 DEF Lives, Live
  <2>1. CASE t = s
    BY <1>1, <2>1
  <2>2. CASE t # s
    BY <1>1, <2>2 DEF IInv, Lives, Live
  <2> QED
    BY <2>1, <2>2
<1>4. \A n \in Nodes, g \in Places : Channel(n, g)' = Channel(n, g)
  BY <1>1 DEF Channel
<1> QED
  BY <1>1, <1>2, <1>3, <1>4

\* A step of a request that takes nothing in.
LEMMA PlainStepKeeps ==
    ASSUME IInv, NEW s \in Requests, NEW r \in Session, NEW c \in Client, Becomes(s, r, c),
           c.phase \in {"sending", "streaming"} =>
              /\ r.kept /\ r.node \in Nodes /\ r.gen \in Gens
              /\ conns[r.node][r.gen].phase \in {"open", "done"}
              /\ conns[r.node][r.gen].phase = "done" \/ r.state \in {"complete", "failed"}
                    => Ended(r.events),
           r.events \in {sessions[s].events, <<>>}, c.got = clients[s].got,
           Begun(s) => c.phase \notin {"new", "sending", "refused"}
    PROVE  IInv'
<1>1. /\ TypeOK' /\ EntriesOpen' /\ Lives'
      /\ sessions'[s] = r /\ clients'[s] = c
      /\ \A t \in Requests : t # s => sessions'[t] = sessions[t] /\ clients'[t] = clients[t]
      /\ \A n \in Nodes, g \in Places : Channel(n, g)' = Channel(n, g)
  BY BecomesKeeps
<1>2. NothingBegins
  <2>1. agents' = agents
    BY DEF Becomes
  <2>2. \A t \in Requests : Begun(t) => Begun(t)'
    BY <1>1 DEF Begun
  <2> QED
    BY <2>1, <2>2 DEF NothingBegins
<1>3. ASSUME NEW t \in Requests
      PROVE  /\ Once(sessions'[t].events, Fragments)
             /\ \A p \in 1 .. Pieces : Queued(t, p)' => Queued(t, p)
             /\ clients'[t].got = clients[t].got
  <2>1. sessions'[t].events \in {sessions[t].events, <<>>} /\ clients'[t].got = clients[t].got
    BY <1>1
  <2> QED
    BY <2>1, InEmpty DEF Queued, IInv, Flow, OnceEach
<1>4. OnceEach'
  BY <1>1, <1>3 DEF IInv, Flow, OnceEach
<1>5. \A t \in Requests, p \in 1 .. Pieces :
         /\ Queued(t, p)' => Queued(t, p)
         /\ Got(t, p)' => Got(t, p)
         /\ \A n \in Nodes, g \in Places : At(n, g, t, p)' => At(n, g, t, p)
  BY <1>1, <1>3 DEF Got, At
<1>6. Flow'
  BY <1>2, <1>4, <1>5, FlowShrinks DEF IInv
<1> QED
  BY <1>1, <1>6 DEF IInv

\* A request that is over waits for nothing, and its queue is gone.
LEMMA EndsKeeps ==
    ASSUME IInv, NEW s \in Requests, NEW r \in Session,
           NEW phase \in {"answered", "failed", "abandoned"}, Ends(s, r, phase),
           UNCHANGED <<conns, registry, agents>>
    PROVE  IInv'
<1> DEFINE q == [r EXCEPT !.kept = FALSE, !.events = <<>>]
           c == [clients[s] EXCEPT !.phase = phase]
<1>1. clients[s] \in Client /\ clients \in [Requests -> Client]
  BY DEF IInv, TypeOK
<1>2. q \in Session /\ q.events = <<>>
  <2>1. <<>> \in Seq(Event) /\ FALSE \in BOOLEAN
    BY EmptySeq
  <2> QED
    BY <2>1 DEF Session
<1>3. c \in Client /\ c.phase = phase /\ c.got = clients[s].got
  BY <1>1 DEF Client
<1>4. Becomes(s, q, c)
  BY <1>1 DEF Ends, Becomes
<1> HIDE DEF q, c
<1> QED
  BY <1>2, <1>3, <1>4, PlainStepKeeps

\* A refused request was never sent.
LEMMA RefuseKeeps ==
    ASSUME IInv, NEW s \in Requests, Refuse(s)
    PROVE  IInv'
<1> DEFINE c == [clients[s] EXCEPT !.phase = "refused"]
<1>1. /\ clients[s] \in Client /\ clients \in [Requests -> Client]
      /\ sessions[s] \in Session /\ sessions \in [Requests -> Session]
  BY DEF IInv, TypeOK
<1>2. c \in Client /\ c.phase = "refused" /\ c.got = clients[s].got
  BY <1>1 DEF Client
<1>3. clients[s].phase = "new" /\ Becomes(s, sessions[s], c)
  BY <1>1 DEF Refuse, Becomes
<1> HIDE DEF c
<1>4. ~Begun(s)
  BY <1>3 DEF Begun
<1> QED
  BY <1>1, <1>2, <1>3, <1>4, PlainStepKeeps

\* The node that is picked is READY, so its entry's connection is in its loop.
LEMMA PickKeeps ==
    ASSUME IInv, NEW s \in Requests, Pick(s)
    PROVE  IInv'
<1>1. /\ clients[s] \in Client /\ clients \in [Requests -> Client]
      /\ registry \in [Nodes -> [gen : Places, ready : BOOLEAN]]
  BY DEF IInv, TypeOK, Places
<1>2. PICK n \in Nodes :
          /\ registry[n].ready
          /\ sessions' = [sessions EXCEPT ![s] =
                [NoSession EXCEPT !.node = n, !.gen = registry[n].gen, !.kept = TRUE]]
  BY DEF Pick, Candidates
<1> DEFINE g == registry[n].gen
           r == [NoSession EXCEPT !.node = n, !.gen = g, !.kept = TRUE]
           c == [clients[s] EXCEPT !.phase = "sending"]
<1>3. g \in Gens /\ g \in Places /\ conns[n][g].phase = "open"
  BY <1>1, <1>2, PlaceNumbers DEF IInv, EntriesOpen
<1>4. /\ r \in Session /\ r.events = <<>> /\ r.state = "pending"
      /\ r.node = n /\ r.gen = g /\ r.kept
  <2>1. <<>> \in Seq(Event) /\ n \in Nodes \cup {None} /\ g \in 0 .. MaxConns
    BY <1>3, EmptySeq DEF Places
  <2> HIDE DEF g
  <2> QED
    BY <2>1 DEF NoSession, Session
<1>5. c \in Client /\ c.phase = "sending" /\ c.got = clients[s].got
  BY <1>1 DEF Client
<1>6. clients[s].phase = "new" /\ Becomes(s, r, c)
  BY <1>1, <1>2 DEF Pick, Becomes
<1> HIDE DEF r, c
<1>7. ~Begun(s)
  BY <1>6 DEF Begun
<1> QED
  BY <1>3, <1>4, <1>5, <1>6, <1>7, PlainStepKeeps

\* A piece that the client takes leaves the queue; the end stays in it.
LEMMA TakeKeeps ==
    ASSUME IInv, NEW s \in Requests, clients[s].phase = "streaming",
           sessions[s].events # <<>>, Head(sessions[s].events).kind = "chunk",
           sessions' = [sessions EXCEPT ![s].events = Tail(@)],
           clients' = [clients EXCEPT ![s].got = Append(@, Head(sessions[s].events).piece)],
           UNCHANGED <<conns, registry, agents>>
    PROVE  IInv'
<1> DEFINE q == sessions[s].events
           t == Tail(q)
           got == clients[s].got
           e == Head(q)
<1>1. /\ clients[s] \in Client /\ clients \in [Requests -> Client] /\ got \in Seq(1 .. Pieces)
      /\ sessions[s] \in Session /\ sessions \in [Requests -> Session] /\ q \in Seq(Event)
  BY DEF IInv, TypeOK, Session, Client
<1>2. /\ Once(q, Fragments) /\ Once(got, 1 .. Pieces)
  BY DEF IInv, Flow, OnceEach
<1>3. /\ t \in Seq(Event) /\ e \in Event /\ In(q, e)
      /\ \A y : In(q, y) <=> In(t, y) \/ y = e
      /\ Once(t, Fragments)
      /\ e \in Fragments => ~In(t, e)
  <2>1. q # <<>>
    OBVIOUS
  <2> HIDE DEF q
  <2> QED
    BY <1>1, <1>2, <2>1, InTail
<1>4. PICK p \in 1 .. Pieces : p = e.piece /\ e = Fragment(p) /\ e \in Fragments
  BY <1>3, EventForms
<1>5. Queued(s, p) /\ ~Got(s, p) /\ \A n \in Nodes, g \in Places : ~At(n, g, s, p)
  <2>1. Queued(s, p)
    BY <1>3, <1>4 DEF Queued
  <2> QED
    BY <2>1 DEF IInv, Flow, OnePlace
<1>6. /\ Append(got, p) \in Seq(1 .. Pieces) /\ Once(Append(got, p), 1 .. Pieces)
      /\ \A y : In(Append(got, p), y) <=> In(got, y) \/ y = p
  <2>1. ~In(got, p)
    BY <1>5 DEF Got
  <2>2. p \in 1 .. Pieces /\ got \in Seq(1 .. Pieces) /\ Once(got, 1 .. Pieces)
    BY <1>1, <1>2
  <2> HIDE DEF got
  <2>3. /\ Append(got, p) \in Seq(1 .. Pieces)
        /\ \A y : In(Append(got, p), y) <=> In(got, y) \/ y = p
    BY <2>2, InAppend
  <2>4. Once(Append(got, p), 1 .. Pieces)
    BY <2>1, <2>2, InAppend
  <2> QED
    BY <2>3, <2>4
<1>7. Ended(q) => Ended(t)
  <2> SUFFICES ASSUME NEW i \in DOMAIN q, q[i].kind # "chunk"
               PROVE  \E j \in DOMAIN t : t[j].kind # "chunk"
    BY DEF Ended
  <2>1. In(q, q[i]) /\ q[i] # e
    BY DEF In
  <2>2. In(t, q[i])
    BY <1>3, <2>1
  <2> QED
    BY <2>2 DEF In
<1> DEFINE more == Append(got, p)
           r == [sessions[s] EXCEPT !.events = t]
           c == [clients[s] EXCEPT !.got = more]
<1>8. Becomes(s, r, c)
  BY <1>1, <1>4 DEF Becomes
<1> HIDE DEF t, more
<1>9. /\ r \in Session /\ r.events = t /\ r.kept = sessions[s].kept /\ r.state = sessions[s].state
      /\ r.node = sessions[s].node /\ r.gen = sessions[s].gen
  BY <1>1, <1>3 DEF Session
<1>10. c \in Client /\ c.got = more /\ c.phase = clients[s].phase
  BY <1>1, <1>6 DEF Client, more
<1> HIDE DEF r, c
<1>11. /\ r.kept /\ r.node \in Nodes /\ r.gen \in Gens
       /\ conns[r.node][r.gen].phase \in {"open", "done"}
       /\ conns[r.node][r.gen].phase = "done" \/ r.state \in {"complete", "failed"}
             => Ended(r.events)
  BY <1>7, <1>9 DEF IInv, Lives, Live
<1>12. /\ TypeOK' /\ EntriesOpen' /\ Lives'
       /\ sessions'[s] = r /\ clients'[s] = c
       /\ \A u \in Requests : u # s => sessions'[u] = sessions[u] /\ clients'[u] = clients[u]
       /\ \A n \in Nodes, g \in Places : Channel(n, g)' = Channel(n, g)
  BY <1>8, <1>9, <1>10, <1>11, BecomesKeeps
<1>13. ASSUME NEW u \in Requests, NEW k \in 1 .. Pieces
       PROVE  /\ Queued(u, k)' <=> Queued(u, k) /\ ~(u = s /\ k = p)
              /\ Got(u, k)' <=> Got(u, k) \/ (u = s /\ k = p)
              /\ \A n \in Nodes, g \in Places : At(n, g, u, k)' <=> At(n, g, u, k)
  <2>1. CASE u = s
    <3>1. Queued(s, k)' <=> In(t, Fragment(k))
      BY <1>9, <1>12 DEF Queued
    <3>2. Got(s, k)' <=> In(more, k)
      BY <1>10, <1>12 DEF Got
    <3>3. Fragment(k) = e <=> k = p
      BY <1>4, EventForms
    <3>4. In(t, Fragment(k)) <=> Queued(s, k) /\ k # p
      <4>1. Queued(s, k) <=> In(q, Fragment(k))
        BY DEF Queued
      <4> HIDE DEF q, e
      <4>2. In(q, Fragment(k)) <=> In(t, Fragment(k)) \/ k = p
        BY <1>3, <3>3
      <4>3. ~In(t, Fragment(p))
        BY <1>3, <1>4
      <4> QED
        BY <4>1, <4>2, <4>3
    <3>5. In(more, k) <=> Got(s, k) \/ k = p
      BY <1>6 DEF more, Got
    <3> QED
      BY <1>12, <2>1, <3>1, <3>2, <3>4, <3>5 DEF At
  <2>2. CASE u # s
    BY <1>12, <2>2 DEF Queued, Got, At
  <2> QED
    BY <2>1, <2>2
<1>14. OnceEach'
  <2>1. \A u \in Requests : Once(sessions'[u].events, Fragments) /\ Once(clients'[u].got, 1 .. Pieces)
    <3> SUFFICES ASSUME NEW u \in Requests
                 PROVE  Once(sessions'[u].events, Fragments) /\ Once(clients'[u].got, 1 .. Pieces)
      OBVIOUS
    <3>1. CASE u = s
      <4>1. sessions'[s].events = t /\ clients'[s].got = more
        BY <1>9, <1>10, <1>12
      <4>2. Once(more, 1 .. Pieces)
        BY <1>6 DEF more
      <4> QED
        BY <1>3, <3>1, <4>1, <4>2
    <3>2. CASE u # s
      BY <1>12, <3>2 DEF IInv, Flow, OnceEach
    <3> QED
      BY <3>1, <3>2
  <2> QED
    BY <1>12, <2>1 DEF IInv, Flow, OnceEach
<1>15. OnePlace'
  <2> SUFFICES ASSUME NEW u \in Requests, NEW k \in 1 .. Pieces
               PROVE  /\ ~(Queued(u, k)' /\ Got(u, k)')
                      /\ \A n \in Nodes, g \in Places :
                            At(n, g, u, k)' => /\ ~Queued(u, k)' /\ ~Got(u, k)'
                                               /\ \A m \in Nodes, h \in Places :
                                                     At(m, h, u, k)' => m = n /\ h = g
    BY DEF OnePlace
  <2>1. CASE u = s /\ k = p
    BY <1>5, <1>13, <2>1
  <2>2. CASE u # s \/ k # p
    BY <1>13, <2>2 DEF IInv, Flow, OnePlace
  <2> QED
    BY <2>1, <2>2
<1>16. \A u \in Requests, k \in 1 .. Pieces : Out(u, k)' => Out(u, k)
  BY <1>5, <1>13 DEF Out
<1>17. NothingBegins
  <2>1. \A u \in Requests : clients'[u].phase = clients[u].phase
    BY <1>10, <1>12
  <2> QED
    BY <2>1 DEF NothingBegins, Begun
<1>18. Ahead' /\ NothingEarly'
  BY <1>16, <1>17, NothingNew DEF IInv, Flow
<1> QED
  BY <1>12, <1>14, <1>15, <1>18 DEF IInv, Flow

\* The client takes a piece, or the end.
LEMMA ConsumeKeeps ==
    ASSUME IInv, NEW s \in Requests, Consume(s)
    PROVE  IInv'
<1>1. sessions[s] \in Session
  BY DEF IInv, TypeOK
<1>2. UNCHANGED <<conns, registry, agents>>
  BY DEF Consume
<1>3. CASE Ends(s, sessions[s], "answered") \/ Ends(s, sessions[s], "failed")
  BY <1>1, <1>2, <1>3, EndsKeeps
<1>4. CASE ~(Ends(s, sessions[s], "answered") \/ Ends(s, sessions[s], "failed"))
  <2>1. /\ clients[s].phase = "streaming"
        /\ sessions[s].events # <<>> /\ Head(sessions[s].events).kind = "chunk"
        /\ sessions' = [sessions EXCEPT ![s].events = Tail(@)]
        /\ clients' = [clients EXCEPT ![s].got = Append(@, Head(sessions[s].events).piece)]
    BY <1>4 DEF Consume
  <2> QED
    BY <1>2, <2>1, TakeKeeps
<1> QED
  BY <1>3, <1>4

\* Timing out and going away end the request.
LEMMA TimeOutKeeps ==
    ASSUME IInv, NEW s \in Requests, TimeOut(s) \/ Abandon(s)
    PROVE  IInv'
<1>1. sessions[s] \in Session
  BY DEF IInv, TypeOK
<1>2. FailSession(sessions[s]) \in Session
  <2>1. FailSession(sessions[s]) \in {CompleteSession(sessions[s]), FailSession(sessions[s])}
    OBVIOUS
  <2> QED
    BY <1>1, <2>1, SessionEnds
<1>3. CASE TimeOut(s)
  BY <1>2, <1>3, EndsKeeps DEF TimeOut
<1>4. CASE Abandon(s)
  BY <1>1, <1>4, EndsKeeps DEF Abandon
<1> QED
  BY <1>3, <1>4

\* A generation begins when there is nothing of the answer anywhere.
LEMMA DispatchKeeps ==
    ASSUME IInv, NEW s \in Requests, Dispatch(s)
    PROVE  IInv'
<1>1. /\ clients[s] \in Client /\ clients \in [Requests -> Client]
      /\ sessions[s] \in Session /\ agents \in [Nodes -> Agent]
  BY DEF IInv, TypeOK
<1>2. UNCHANGED <<conns, registry>> /\ clients[s].phase = "sending" /\ ~Begun(s) /\ Live(s)
  BY DEF Dispatch, Begun, Live
<1>3. CASE Ends(s, sessions[s], "failed") /\ UNCHANGED agents
  BY <1>1, <1>2, <1>3, EndsKeeps
<1>4. CASE ~(Ends(s, sessions[s], "failed") /\ UNCHANGED agents)
  <2> DEFINE c == [clients[s] EXCEPT !.phase = "streaming"]
  <2>1. PICK n \in Nodes, g \in Gens : n = sessions[s].node /\ g = sessions[s].gen
    BY <1>2 DEF IInv, Lives
  <2>2. /\ agents' = IF Linked(n, g) THEN [agents EXCEPT ![n].jobs[s] = 1] ELSE agents
        /\ clients' = [clients EXCEPT ![s] = c] /\ sessions' = sessions
    BY <1>1, <1>4, <2>1 DEF Dispatch
  <2>3. c \in Client /\ c.phase = "streaming" /\ c.got = clients[s].got
    BY <1>1 DEF Client
  <2> HIDE DEF c
  <2>4. /\ clients' \in [Requests -> Client] /\ clients'[s] = c
        /\ \A t \in Requests : t # s => clients'[t] = clients[t]
    BY <1>1, <2>2, <2>3
  <2>5. /\ agents' \in [Nodes -> Agent]
        /\ \A m \in Nodes : /\ agents'[m].outbox = agents[m].outbox
                            /\ \A t \in Requests : t # s => agents'[m].jobs[t] = agents[m].jobs[t]
                            /\ m # n => agents'[m].jobs[s] = agents[m].jobs[s]
    <3>1. CASE Linked(n, g)
      <4> DEFINE js == [agents[n].jobs EXCEPT ![s] = 1]
                 a == [agents[n] EXCEPT !.jobs = js]
      <4>1. agents' = [agents EXCEPT ![n] = a]
        BY <1>1, <2>2, <3>1
      <4>2. 1 \in 0 .. (Pieces + 1) /\ agents[n].jobs \in [Requests -> 0 .. (Pieces + 1)]
        BY <1>1, PlaceNumbers DEF Agent
      <4>3. js \in [Requests -> 0 .. (Pieces + 1)] /\ \A t \in Requests : t # s => js[t] = agents[n].jobs[t]
        BY <4>2
      <4> HIDE DEF js
      <4>4. a \in Agent /\ a.jobs = js /\ a.outbox = agents[n].outbox
        BY <1>1, <4>3 DEF Agent
      <4> HIDE DEF a
      <4>5. agents' \in [Nodes -> Agent] /\ agents'[n] = a /\ \A m \in Nodes : m # n => agents'[m] = agents[m]
        BY <1>1, <4>1, <4>4
      <4> QED
        BY <4>3, <4>4, <4>5
    <3>2. CASE ~Linked(n, g)
      BY <1>1, <2>2, <3>2
    <3> QED
      BY <3>1, <3>2
  <2>6. TypeOK'
    BY <1>2, <2>2, <2>4, <2>5 DEF IInv, TypeOK
  <2>7. EntriesOpen'
    BY <1>2 DEF IInv, EntriesOpen
  <2>8. \A t \in Requests : clients'[t].got = clients[t].got /\ (Live(t)' <=> Live(t))
    BY <1>2, <2>3, <2>4 DEF Live
  <2>9. Lives'
    BY <1>2, <2>2, <2>8 DEF IInv, Lives
  <2>10. \A m \in Nodes, h \in Places : Channel(m, h)' = Channel(m, h)
    BY <1>2, <2>5 DEF Channel
  <2>11. \A t \in Requests, p \in 1 .. Pieces :
            /\ Queued(t, p)' <=> Queued(t, p)
            /\ Got(t, p)' <=> Got(t, p)
            /\ \A m \in Nodes, h \in Places : At(m, h, t, p)' <=> At(m, h, t, p)
    BY <2>2, <2>8, <2>10 DEF Queued, Got, At
  <2>12. OnceEach' /\ OnePlace'
    <3>1. OnceEach'
      BY <2>2, <2>8, <2>10 DEF IInv, Flow, OnceEach
    <3>2. OnePlace'
      BY <2>11 DEF IInv, Flow, OnePlace
    <3> QED
      BY <3>1, <3>2
  <2>13. \A t \in Requests, p \in 1 .. Pieces : Out(t, p)' <=> Out(t, p)
    BY <2>11 DEF Out
  <2>14. /\ \A p \in 1 .. Pieces : ~Out(s, p)
         /\ \A m \in Nodes : m # n => agents'[m].jobs[s] = 0
    BY <1>2, <2>5 DEF IInv, Flow, NothingEarly
  <2>15. Ahead'
    <3> SUFFICES ASSUME NEW t \in Requests, NEW m \in Nodes, agents'[m].jobs[t] # 0
                 PROVE  /\ \A p \in 1 .. Pieces : Out(t, p)' => p < agents'[m].jobs[t]
                        /\ \A i \in Nodes : agents'[i].jobs[t] # 0 => i = m
      BY DEF Ahead
    <3>1. CASE t = s
      BY <2>13, <2>14, <3>1
    <3>2. CASE t # s
      BY <2>5, <2>13, <3>2 DEF IInv, Flow, Ahead
    <3> QED
      BY <3>1, <3>2
  <2>16. NothingEarly'
    <3> SUFFICES ASSUME NEW t \in Requests, ~Begun(t)'
                 PROVE  /\ \A p \in 1 .. Pieces : ~Out(t, p)'
                        /\ \A m \in Nodes : agents'[m].jobs[t] = 0
      BY DEF NothingEarly
    <3>1. t # s /\ ~Begun(t)
      BY <2>3, <2>4 DEF Begun
    <3> QED
      BY <2>5, <2>13, <3>1 DEF IInv, Flow, NothingEarly
  <2> QED
    BY <2>6, <2>7, <2>9, <2>12, <2>15, <2>16 DEF IInv, Flow
<1> QED
  BY <1>3, <1>4
-----------------------------------------------------------------------------
(***************************************************************************)
(* The theorems.                                                           *)
(***************************************************************************)
LEMMA InitHolds == Init => IInv
<1> SUFFICES ASSUME Init PROVE IInv
  OBVIOUS
<1>0. /\ <<>> \in Seq(Message) /\ <<>> \in Seq(Event) /\ <<>> \in Seq(1 .. Pieces)
      /\ 0 \in 0 .. MaxConns /\ 0 \in 0 .. (Pieces + 1)
  BY PlaceNumbers, EmptySeq DEF Places
<1>1. conns \in [Nodes -> [Gens -> Conn]]
  BY <1>0 DEF Init, Conn
<1>2. agents \in [Nodes -> Agent]
  BY <1>0 DEF Init, Agent
<1>3. sessions \in [Requests -> Session] /\ \A s \in Requests : sessions[s].events = <<>>
  <2>1. NoSession \in Session /\ NoSession.events = <<>>
    BY <1>0 DEF NoSession, Session
  <2> QED
    BY <2>1 DEF Init
<1>4. /\ clients \in [Requests -> Client]
      /\ \A s \in Requests : clients[s].got = <<>> /\ clients[s].phase = "new"
  BY <1>0 DEF Init, Client
<1>5. /\ registry \in [Nodes -> [gen : 0 .. MaxConns, ready : BOOLEAN]]
      /\ \A n \in Nodes : registry[n].gen = 0 /\ ~registry[n].ready
  BY <1>0 DEF Init, NoEntry
<1>6. TypeOK /\ EntriesOpen /\ Lives
  BY <1>1, <1>2, <1>3, <1>4, <1>5 DEF TypeOK, EntriesOpen, Lives, Live
<1>7. \A n \in Nodes, g \in Places : Channel(n, g) = <<>>
  BY PlaceNumbers DEF Init, Channel
<1>8. \A s \in Requests, p \in 1 .. Pieces :
         /\ ~Queued(s, p) /\ ~Got(s, p)
         /\ \A n \in Nodes, g \in Places : ~At(n, g, s, p)
  BY <1>3, <1>4, <1>7, InEmpty DEF Queued, Got, At
<1>9. OnceEach
  BY <1>3, <1>4, <1>7, InEmpty DEF OnceEach
<1>10. \A n \in Nodes, s \in Requests : agents[n].jobs[s] = 0
  BY DEF Init
<1>11. OnePlace /\ Ahead /\ NothingEarly
  BY <1>8, <1>10 DEF OnePlace, Ahead, NothingEarly, Out
<1> QED
  BY <1>6, <1>9, <1>11 DEF IInv, Flow

\* Nothing changes in a stuttering step.
LEMMA StutterKeeps == IInv /\ UNCHANGED vars => IInv'
<1> SUFFICES ASSUME IInv, UNCHANGED vars PROVE IInv'
  OBVIOUS
<1>1. UNCHANGED <<conns, registry, agents, sessions, clients>>
  BY DEF vars
<1>2. TypeOK' /\ EntriesOpen' /\ Lives'
  BY <1>1 DEF IInv, TypeOK, EntriesOpen, Lives, Live
<1>3. \A n \in Nodes, g \in Places : Channel(n, g)' = Channel(n, g)
  BY <1>1 DEF Channel
<1>4. \A s \in Requests, p \in 1 .. Pieces :
         /\ Queued(s, p)' => Queued(s, p)
         /\ Got(s, p)' => Got(s, p)
         /\ \A n \in Nodes, g \in Places : At(n, g, s, p)' => At(n, g, s, p)
  BY <1>1, <1>3 DEF Queued, Got, At
<1>5. OnceEach' /\ NothingBegins
  BY <1>1, <1>3 DEF IInv, Flow, OnceEach, NothingBegins, Begun
<1> QED
  BY <1>2, <1>4, <1>5, FlowShrinks DEF IInv

\* Every step keeps the invariant: one lemma per action.
LEMMA NextKeeps == IInv /\ [Next]_vars => IInv'
<1> SUFFICES ASSUME IInv, [Next]_vars PROVE IInv'
  OBVIOUS
<1>1. ASSUME NEW n \in Nodes, Connect(n) \/ LoseConnection(n) \/ Tell(n)
      PROVE  IInv'
  BY <1>1, ConnectKeeps, LoseKeeps, TellKeeps
<1>2. ASSUME NEW n \in Nodes, NEW s \in Requests, Emit(n, s)
      PROVE  IInv'
  BY <1>2, EmitKeeps
<1>3. ASSUME NEW n \in Nodes, NEW g \in Gens, HandlerStep(n, g)
      PROVE  IInv'
  BY <1>3, RegisterKeeps, HandleLoadedKeeps, HandleGenerateKeeps, LeaveKeeps DEF HandlerStep
<1>4. ASSUME NEW s \in Requests, Refuse(s) \/ Pick(s) \/ Dispatch(s)
      PROVE  IInv'
  BY <1>4, RefuseKeeps, PickKeeps, DispatchKeeps
<1>5. ASSUME NEW s \in Requests, Consume(s) \/ TimeOut(s) \/ Abandon(s)
      PROVE  IInv'
  BY <1>5, ConsumeKeeps, TimeOutKeeps
<1>6. CASE UNCHANGED vars
  BY <1>6, StutterKeeps
<1> QED
  BY <1>1, <1>2, <1>3, <1>4, <1>5, <1>6 DEF Next

\* The inductive invariant holds in every reachable state of the interactive
\* side, whatever connections, handlers, generations and requests do.
THEOREM InteractiveInvariance == Spec => []IInv
<1>1. Init => IInv
  BY InitHolds
<1>2. IInv /\ [Next]_vars => IInv'
  BY NextKeeps
<1> QED
  BY <1>1, <1>2, PTL DEF Spec

\* Connections, registry, agents, sessions and requests keep their shape
\* (session.py, nodes.py and the agent's generations).
THEOREM InteractiveTypeCorrect == Spec => []TypeOK
<1>1. IInv => TypeOK
  BY DEF IInv
<1> QED
  BY <1>1, InteractiveInvariance, PTL

\* A request whose connection's handler has left (the finally block of
\* node_websocket) has the event that ends it in its queue already, for any
\* number of reconnections and whatever crossed with the disconnect.
THEOREM NoRequestLeftHanging == Spec => []NoneLeftHanging
<1>1. IInv => NoneLeftHanging
  BY DEF IInv, Lives, Live, NoneLeftHanging, Ended
<1> QED
  BY <1>1, InteractiveInvariance, PTL

\* No piece of an answer reaches the client twice, however many connections and
\* handlers the answer (_generate, which outlives them) comes through.
THEOREM NothingRepeats == Spec => []NoRepeats
<1>1. IInv => NoRepeats
  <2> SUFFICES ASSUME IInv, NEW s \in Requests, NEW i \in DOMAIN clients[s].got,
                      NEW j \in DOMAIN clients[s].got, clients[s].got[i] = clients[s].got[j]
               PROVE  i = j
    BY DEF NoRepeats
  <2>1. clients[s].got \in Seq(1 .. Pieces) /\ Once(clients[s].got, 1 .. Pieces)
    BY DEF IInv, TypeOK, Client, Flow, OnceEach
  <2>2. clients[s].got[i] \in 1 .. Pieces
    BY <2>1, ElementOfSeq, LenProperties
  <2> QED
    BY <2>1, <2>2 DEF Once
<1> QED
  BY <1>1, InteractiveInvariance, PTL
=============================================================================
