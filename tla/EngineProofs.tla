---------------------------- MODULE EngineProofs -----------------------------
(***************************************************************************)
(* Proofs about Engine for any number of threads, items and groups and     *)
(* every engine class.                                                     *)
(*                                                                         *)
(* That no two threads are in the model follows from LockSound: the lock   *)
(* is held by exactly the threads whose place in the code says so, as      *)
(* often as it says.  That counts are overwritten before they are read     *)
(* only outside batched decodes follows from the same: the fallback of a   *)
(* decode holds the lock from the generation to the read.                  *)
(***************************************************************************)
EXTENDS Engine, SequenceTheorems, WellFoundedInduction, TLAPS

Output == [text : Items \cup {None}, counts : Items \cup {None}, error : BOOLEAN]

Thread(t) ==
    [pc     : {"start", "one", "in", "read", "group", "pool", "done"},
     left   : SUBSET Positions(t),
     groups : SUBSET SUBSET Positions(t),
     out    : [Positions(t) -> Output]]

ThreadsTyped ==
    /\ threads = [t \in Threads |-> threads[t]]
    /\ \A t \in Threads : threads[t] \in Thread(t)

\* How often thread t holds the lock, by where it is: once around the groups,
\* once around each generation of a single item.
Holds(t) ==
    (IF threads[t].pc = "in" THEN 1 ELSE 0)
      + (IF Decodes(t) /\ threads[t].pc \in {"group", "one", "in", "read"} THEN 1 ELSE 0)

LockSound ==
    \A t \in Threads :
        IF Holds(t) > 0 THEN lock.owner = t /\ lock.depth = Holds(t) ELSE lock.owner # t

\* What a thread has in hand fits where it is; no item is in two groups, or in a
\* group and among those being run one by one.
PlaceFits(t, r) ==
    /\ r.pc \in {"one", "in", "read", "pool"} => r.left # {}
    /\ r.pc \in {"start", "group", "done"} => r.left = {}
    /\ r.pc \in {"start", "done"} => r.groups = {}
    /\ r.pc = "group" => Decodes(t)
    /\ r.pc = "pool" => Pools(t)
    /\ r.pc \in {"one", "in", "read"} => ~Pools(t)
    /\ ~Decodes(t) => r.groups = {}
    /\ \A g \in r.groups : g # {} /\ g \cap r.left = {}
    /\ \A g, h \in r.groups : g # h => g \cap h = {}

PlacesFit == \A t \in Threads : PlaceFits(t, threads[t])

\* The item at p has been dealt with.
Settled(r, p) ==
    /\ r.pc # "start"
    /\ p \notin r.left
    /\ \A g \in r.groups : p \notin g

\* The output o of an item that has been dealt with.
OutputRight(t, p, o) ==
    /\ o.error <=> <<t, p>> \in raised
    /\ <<t, p>> \in raised \cup silent => o.text = None
    /\ <<t, p>> \notin raised \cup silent => o.text = Work[t][p]
    /\ <<t, p>> \notin raised /\ o.counts # Work[t][p] =>
          \/ <<t, p>> \in silent
          \/ <<t, p>> \in overtaken /\ ~Decodes(t) /\ ~Pools(t)

\* The item at p has no outcome yet, unless it is the one whose generation yielded
\* nothing a moment ago.
Unresolved(t, p) ==
    /\ <<t, p>> \notin raised
    /\ <<t, p>> \in silent => threads[t].pc = "read" /\ p = Current(t)

\* Items that have been dealt with have the output of their own generation; the
\* others have had none.
OutputsRight ==
    \A t \in Threads : \A p \in Positions(t) :
        IF Settled(threads[t], p)
        THEN OutputRight(t, p, threads[t].out[p])
        ELSE Unresolved(t, p)

\* Between the end of a generation and the reading of its counts they are still
\* there, unless there were none or another generation has overwritten them; that
\* does not happen while the thread is decoding a group.
CountsWait(t, o) ==
    LET p == Current(t)
    IN  /\ ~o.error
        /\ <<t, p>> \in silent => o.text = None
        /\ <<t, p>> \notin silent => o.text = Work[t][p]
        /\ <<t, p>> \notin silent /\ last # Work[t][p] =>
              <<t, p>> \in overtaken /\ ~Decodes(t)

CountsThere ==
    \A t \in Threads :
        threads[t].pc = "read" => CountsWait(t, threads[t].out[Current(t)])

\* The inductive invariant.
EInv ==
    /\ EngineTypeOK
    /\ ThreadsTyped
    /\ LockSound
    /\ PlacesFit
    /\ OutputsRight
    /\ CountsThere

\* The least of some positions is one of them.
LEMMA LeastIsMember ==
    ASSUME NEW S \in SUBSET Nat, S # {}
    PROVE  Min(S) \in S
<1> DEFINE R == OpToRel(<, Nat)
<1>1. IsWellFoundedOn(R, Nat)
  BY NatLessThanWellFounded
<1>2. \A x, y \in Nat : <<y, x>> \in R <=> y < x
  BY DEF OpToRel
<1> HIDE DEF R
<1>3. PICK x \in S : \A y \in S : <<y, x>> \notin R
  BY <1>1, WFMin
<1>4. \A y \in S : x <= y
  <2>1. \A y \in S : ~(y < x)
    BY <1>2, <1>3
  <2>2. x \in Nat /\ \A y \in S : y \in Nat
    OBVIOUS
  <2> QED
    BY <2>1, <2>2
<1> QED
  BY <1>4 DEF Min
-----------------------------------------------------------------------------
\* Only thread t moves, and these are its fields afterwards.
Becomes(t, pc, left, groups, out) ==
    /\ threads' = [s \in Threads |-> threads'[s]]
    /\ \A s \in Threads : s # t => threads'[s] = threads[s]
    /\ threads'[t] \in Thread(t)
    /\ threads'[t].pc = pc
    /\ threads'[t].left = left
    /\ threads'[t].groups = groups
    /\ threads'[t].out = out

\* The fields of a thread.
LEMMA ThreadFields ==
    ASSUME ThreadsTyped, NEW t \in Threads
    PROVE  /\ threads[t].pc \in {"start", "one", "in", "read", "group", "pool", "done"}
           /\ threads[t].left \in SUBSET Positions(t)
           /\ threads[t].groups \in SUBSET SUBSET Positions(t)
           /\ threads[t].out \in [Positions(t) -> Output]
<1>1. threads[t] \in Thread(t)
  BY DEF ThreadsTyped
<1> QED
  BY <1>1 DEF Thread

\* A thread replaced as a whole.
LEMMA ThreadReplaced ==
    ASSUME ThreadsTyped, NEW t \in Threads, NEW r \in Thread(t),
           threads' = [threads EXCEPT ![t] = r]
    PROVE  Becomes(t, r.pc, r.left, r.groups, r.out)
<1>1. threads = [s \in Threads |-> threads[s]]
  BY DEF ThreadsTyped
<1> DEFINE f == [s \in Threads |-> IF s = t THEN r ELSE threads[s]]
<1>2. threads' = f
  BY <1>1
<1>3. f = [s \in Threads |-> f[s]]
  OBVIOUS
<1>4. threads' = [s \in Threads |-> threads'[s]]
  BY <1>2, <1>3
<1> QED
  BY <1>2, <1>4 DEF Becomes

\* Positions are positive numbers, and there is at least one.
LEMMA PositionsProperties ==
    ASSUME NEW t \in Threads
    PROVE  /\ Positions(t) \in SUBSET Nat /\ Positions(t) # {}
           /\ \A p \in Positions(t) : Work[t][p] \in Items
<1>1. Work[t] \in Seq(Items) /\ Work[t] # <<>>
  BY EngineAssumption
<1>2. Len(Work[t]) \in Nat /\ Positions(t) = 1 .. Len(Work[t])
  BY <1>1, LenProperties DEF Positions
<1>3. Len(Work[t]) # 0
  BY <1>1, EmptySeq
<1>4. 1 \in Positions(t)
  BY <1>2, <1>3
<1> QED
  BY <1>1, <1>2, <1>4, ElementOfSeq

\* The current item of a thread that has some left is one of them.
LEMMA CurrentIsLeft ==
    ASSUME ThreadsTyped, NEW t \in Threads, threads[t].left # {}
    PROVE  Current(t) \in threads[t].left /\ Current(t) \in Positions(t)
<1>1. threads[t].left \in SUBSET Nat /\ threads[t].left \in SUBSET Positions(t)
  BY ThreadFields, PositionsProperties
<1> QED
  BY <1>1, LeastIsMember DEF Current

\* Outputs have their shape.
LEMMA OutputForms ==
    /\ Empty \in Output /\ Failed \in Output
    /\ Empty.text = None /\ ~Empty.error /\ Failed.text = None /\ Failed.error
    /\ \A i \in Items :
          /\ [Empty EXCEPT !.text = i] \in Output
          /\ [Empty EXCEPT !.text = i].text = i
          /\ ~[Empty EXCEPT !.text = i].error
    /\ \A t \in Threads : \A p \in Positions(t) :
          /\ OwnOutput(t, p) \in Output
          /\ OwnOutput(t, p).text = Work[t][p]
          /\ OwnOutput(t, p).counts = Work[t][p]
          /\ ~OwnOutput(t, p).error
BY PositionsProperties DEF Output, Empty, Failed, OwnOutput
-----------------------------------------------------------------------------
\* What thread t may do to the lock: nothing, take it, or give it back; each
\* time its place in the code changes with it.
LockMoves(t) ==
    \/ lock' = lock /\ Holds(t)' = Holds(t)
    \/ CanEnter(t) /\ lock' = Entered(t) /\ Holds(t)' = Holds(t) + 1
    \/ Holds(t) >= 1 /\ lock' = Exited(t) /\ Holds(t)' = Holds(t) - 1

LockTyped ==
    /\ lock \in [owner : Threads \cup {None}, depth : 0 .. 2]
    /\ lock.owner = None <=> lock.depth = 0

\* Taken and given back that way, the lock agrees with the places.
LEMMA LockStep ==
    ASSUME EInv, NEW t \in Threads, LockMoves(t), kind' = kind,
           \A s \in Threads : s # t => threads'[s] = threads[s]
    PROVE  LockSound' /\ LockTyped'
<1>1. LockTyped /\ LockSound
  BY DEF EInv, EngineTypeOK, LockTyped
<1>2. lock.owner \in Threads \cup {None} /\ lock.depth \in 0 .. 2
      /\ lock = [owner |-> lock.owner, depth |-> lock.depth]
  BY <1>1 DEF LockTyped
<1>3. \A s \in Threads : Holds(s) \in 0 .. 2 /\ Holds(s)' \in 0 .. 2
  BY DEF Holds
<1>4. \A s \in Threads : s # t => Holds(s)' = Holds(s)
  BY DEF Holds, Decodes
<1>5. None \notin Threads
  BY EngineAssumption
<1>6. CASE lock' = lock /\ Holds(t)' = Holds(t)
  <2>1. \A s \in Threads : Holds(s)' = Holds(s)
    BY <1>4, <1>6
  <2> QED
    BY <1>1, <1>6, <2>1 DEF LockSound, LockTyped
<1>7. CASE CanEnter(t) /\ lock' = Entered(t) /\ Holds(t)' = Holds(t) + 1
  <2>1. lock.owner \in {None, t}
    BY <1>7 DEF CanEnter
  <2>2. lock.depth = Holds(t)
    BY <1>1, <1>2, <1>3, <1>5, <2>1 DEF LockSound, LockTyped
  <2>3. \A s \in Threads : s # t => Holds(s) = 0
    BY <1>1, <1>3, <1>5, <2>1 DEF LockSound
  <2>4. lock' = [owner |-> t, depth |-> Holds(t)'] /\ Holds(t)' \in 1 .. 2
    BY <1>3, <1>7, <2>2 DEF Entered
  <2> QED
    BY <1>4, <1>5, <2>3, <2>4 DEF LockSound, LockTyped
<1>8. CASE Holds(t) >= 1 /\ lock' = Exited(t) /\ Holds(t)' = Holds(t) - 1
  <2>1. lock.owner = t /\ lock.depth = Holds(t)
    BY <1>1, <1>3, <1>8 DEF LockSound
  <2>2. \A s \in Threads : s # t => Holds(s) = 0
    BY <1>1, <1>3, <2>1 DEF LockSound
  <2>3. lock' = [owner |-> IF Holds(t)' = 0 THEN None ELSE t, depth |-> Holds(t)']
    BY <1>3, <1>8, <2>1 DEF Exited
  <2> QED
    BY <1>3, <1>4, <1>5, <2>2, <2>3 DEF LockSound, LockTyped
<1> QED
  BY <1>6, <1>7, <1>8 DEF LockMoves

\* The items of t have the outputs they should.
OutputsOf(t) ==
    \A p \in Positions(t) :
        IF Settled(threads[t], p)
        THEN OutputRight(t, p, threads[t].out[p])
        ELSE Unresolved(t, p)

CountsOf(t) == threads[t].pc = "read" => CountsWait(t, threads[t].out[Current(t)])

\* A generation of t leaves its counts behind over those other threads wait for.
Overtakes(t) ==
    /\ threads[t].pc = "in"
    /\ \A s \in Threads :
          s # t /\ threads[s].pc = "read" => <<s, Current(s)>> \in overtaken'

\* A step of one thread preserves the invariant if what it says of that thread
\* holds afterwards, and if it is put down which other threads find their counts
\* overwritten.  One that is decoding a group does not, since it holds the lock.
LEMMA ThreadStep ==
    ASSUME EInv, NEW t \in Threads, NEW pc, NEW left, NEW groups, NEW out,
           Becomes(t, pc, left, groups, out),
           kind' = kind, LockMoves(t),
           last' \in Items \cup {None}, last' = last \/ Overtakes(t),
           \A s \in Threads : s # t => \A p : /\ <<s, p>> \in raised' <=> <<s, p>> \in raised
                                              /\ <<s, p>> \in silent' <=> <<s, p>> \in silent,
           overtaken \subseteq overtaken',
           PlaceFits(t, threads[t])', OutputsOf(t)', CountsOf(t)'
    PROVE  EInv'
<1>1. /\ \A s \in Threads : s # t => threads'[s] = threads[s]
      /\ threads' = [s \in Threads |-> threads'[s]] /\ threads'[t] \in Thread(t)
  BY DEF Becomes
<1>2. ThreadsTyped'
  BY <1>1 DEF EInv, ThreadsTyped
<1>3. LockSound' /\ LockTyped'
  BY <1>1, LockStep
<1>4. EngineTypeOK'
  <2>1. kind' \in Kinds
    BY DEF EInv, EngineTypeOK
  <2>2. ASSUME NEW s \in Threads
        PROVE  /\ threads'[s].pc \in {"start", "one", "in", "read", "group", "pool", "done"}
               /\ threads'[s].left \subseteq Positions(s)
               /\ threads'[s].groups \subseteq SUBSET Positions(s)
               /\ threads'[s].out \in [Positions(s) -> Output]
    <3>1. threads'[s] \in Thread(s)
      BY <1>2 DEF ThreadsTyped
    <3> QED
      BY <3>1 DEF Thread
  <2> QED
    BY <1>3, <2>1, <2>2 DEF EngineTypeOK, LockTyped, Output
<1>5. \A s \in Threads : (Decodes(s)' <=> Decodes(s)) /\ (Pools(s)' <=> Pools(s))
  BY DEF Decodes, Pools
<1>6. PlacesFit'
  BY <1>1, <1>5 DEF EInv, PlacesFit, PlaceFits
<1>7. OutputsRight'
  <2>1. ASSUME NEW s \in Threads, s # t, NEW p \in Positions(s)
        PROVE  IF Settled(threads[s], p)' THEN OutputRight(s, p, threads[s].out[p])'
                                          ELSE Unresolved(s, p)'
    <3>1. threads'[s] = threads[s] /\ Current(s)' = Current(s)
      BY <1>1, <2>1 DEF Current
    <3>2. /\ <<s, p>> \in raised' <=> <<s, p>> \in raised
          /\ <<s, p>> \in silent' <=> <<s, p>> \in silent
          /\ <<s, p>> \in overtaken => <<s, p>> \in overtaken'
      BY <2>1
    <3>3. Settled(threads[s], p)' <=> Settled(threads[s], p)
      BY <3>1 DEF Settled
    <3>4. CASE Settled(threads[s], p)
      <4>1. OutputRight(s, p, threads[s].out[p])
        BY <3>4 DEF EInv, OutputsRight
      <4>2. OutputRight(s, p, threads[s].out[p])'
        BY <1>5, <3>1, <3>2, <4>1 DEF OutputRight
      <4> QED
        BY <3>3, <3>4, <4>2
    <3>5. CASE ~Settled(threads[s], p)
      <4>1. Unresolved(s, p)
        BY <3>5 DEF EInv, OutputsRight
      <4>2. Unresolved(s, p)'
        BY <3>1, <3>2, <4>1 DEF Unresolved
      <4> QED
        BY <3>3, <3>5, <4>2
    <3> QED
      BY <3>4, <3>5
  <2> QED
    BY <2>1 DEF OutputsRight, OutputsOf
<1>8. CountsThere'
  <2>1. ASSUME NEW s \in Threads, s # t, threads[s].pc = "read"
        PROVE  CountsWait(s, threads[s].out[Current(s)])'
    <3>1. CountsWait(s, threads[s].out[Current(s)])
      BY <2>1 DEF EInv, CountsThere
    <3>2. Current(s)' = Current(s) /\ threads'[s] = threads[s]
      BY <1>1, <2>1 DEF Current
    <3>3. Decodes(s) => last' = last
      <4>1. Decodes(s) => Holds(s) > 0
        BY <2>1 DEF Holds
      <4>2. threads[t].pc = "in" => Holds(t) > 0
        BY DEF Holds
      <4> QED
        BY <2>1, <4>1, <4>2 DEF EInv, LockSound, Overtakes
    <3>4. last' # last => <<s, Current(s)>> \in overtaken'
      BY <2>1 DEF Overtakes
    <3>5. <<s, Current(s)>> \in silent' <=> <<s, Current(s)>> \in silent
      BY <2>1
    <3>6. <<s, Current(s)>> \in overtaken => <<s, Current(s)>> \in overtaken'
      OBVIOUS
    <3>7. Decodes(s)' <=> Decodes(s)
      BY <1>5
    <3> DEFINE c == Current(s)
    <3>8. c' = c /\ threads'[s].out[c'] = threads[s].out[c]
      BY <3>2
    <3>9. <<s, c>> \notin silent' /\ last' # Work[s][c] => <<s, c>> \in overtaken' /\ ~Decodes(s)'
      BY <3>1, <3>3, <3>4, <3>5, <3>6, <3>7 DEF CountsWait
    <3>10. /\ ~threads[s].out[c].error
           /\ <<s, c>> \in silent' => threads[s].out[c].text = None
           /\ <<s, c>> \notin silent' => threads[s].out[c].text = Work[s][c]
      BY <3>1, <3>5 DEF CountsWait
    <3> QED
      BY <3>8, <3>9, <3>10 DEF CountsWait
  <2> QED
    BY <1>1, <2>1 DEF CountsThere, CountsOf
<1> QED
  BY <1>2, <1>3, <1>4, <1>6, <1>7, <1>8 DEF EInv
-----------------------------------------------------------------------------
\* The groups that sample alike partition the positions.
LEMMA GroupsPartition ==
    ASSUME NEW t \in Threads
    PROVE  /\ Groups(t) \in SUBSET SUBSET Positions(t)
           /\ \A g \in Groups(t) : g # {}
           /\ \A g, h \in Groups(t) : g # h => g \cap h = {}
           /\ \A p \in Positions(t) : \E g \in Groups(t) : p \in g
<1> DEFINE P == Positions(t)
           T(p) == Temperature[Work[t][p]]
           Class(p) == {q \in P : T(q) = T(p)}
<1>1. Groups(t) = {Class(p) : p \in P}
  BY DEF Groups
<1>2. \A p \in P : p \in Class(p) /\ Class(p) \in SUBSET P
  OBVIOUS
<1>3. ASSUME NEW p \in P, NEW q \in P, NEW x \in Class(p), x \in Class(q)
      PROVE  Class(p) = Class(q)
  <2>1. T(x) = T(p) /\ T(x) = T(q)
    BY <1>3
  <2> QED
    BY <2>1
<1> HIDE DEF P, Class
<1>4. ASSUME NEW g \in Groups(t), NEW h \in Groups(t), g # h
      PROVE  g \cap h = {}
  <2>1. PICK p \in P : g = Class(p)
    BY <1>1
  <2>2. PICK q \in P : h = Class(q)
    BY <1>1
  <2> QED
    BY <1>3, <1>4, <2>1, <2>2
<1>5. \A g \in Groups(t) : g # {} /\ g \in SUBSET P
  BY <1>1, <1>2
<1>6. \A p \in P : \E g \in Groups(t) : p \in g
  BY <1>1, <1>2
<1> QED
  BY <1>4, <1>5, <1>6 DEF P

\* No item has been dealt with before the thread begins.
LEMMA BeginPreserves ==
    ASSUME EInv, NEW t \in Threads, Begin(t)
    PROVE  EInv'
<1> DEFINE r == threads[t]
           P == Positions(t)
<1>1. ThreadsTyped /\ r \in Thread(t)
  BY DEF EInv, ThreadsTyped
<1>2. r.pc = "start" /\ UNCHANGED <<kind, last, raised, silent, overtaken>>
  BY DEF Begin
<1>3. r.left = {} /\ r.groups = {}
  BY <1>2 DEF EInv, PlacesFit, PlaceFits
<1>4. \A p \in P : <<t, p>> \notin raised /\ <<t, p>> \notin silent
  BY <1>2 DEF EInv, OutputsRight, Settled, Unresolved
<1>5. P # {} /\ P \in SUBSET P
  BY PositionsProperties
<1>6. last \in Items \cup {None}
  BY DEF EInv, EngineTypeOK
<1>7. CASE BeginOneByOne(t)
  <2> DEFINE q == [r EXCEPT !.pc = "one", !.left = P]
  <2>1. /\ q \in Thread(t) /\ q.pc = "one" /\ q.left = P /\ q.groups = r.groups /\ q.out = r.out
    BY <1>1, <1>5 DEF Thread
  <2>2. ~Decodes(t) /\ ~Pools(t) /\ lock' = lock /\ threads' = [threads EXCEPT ![t] = q]
    BY <1>7 DEF BeginOneByOne
  <2> HIDE DEF q
  <2>3. Becomes(t, "one", P, {}, r.out)
    BY <1>1, <1>3, <2>1, <2>2, ThreadReplaced
  <2>4. LockMoves(t)
    BY <1>2, <2>2, <2>3 DEF Becomes, LockMoves, Holds, Decodes
  <2>5. PlaceFits(t, threads[t])'
    BY <1>2, <1>5, <2>2, <2>3 DEF Becomes, PlaceFits, Decodes, Pools
  <2>6. OutputsOf(t)' /\ CountsOf(t)'
    BY <1>2, <1>4, <2>3 DEF Becomes, OutputsOf, CountsOf, Settled, Unresolved
  <2> QED
    BY <1>2, <1>6, <2>3, <2>4, <2>5, <2>6, ThreadStep
<1>8. CASE BeginPool(t)
  <2> DEFINE q == [r EXCEPT !.pc = "pool", !.left = P]
  <2>1. /\ q \in Thread(t) /\ q.pc = "pool" /\ q.left = P /\ q.groups = r.groups /\ q.out = r.out
    BY <1>1, <1>5 DEF Thread
  <2>2. Pools(t) /\ lock' = lock /\ threads' = [threads EXCEPT ![t] = q]
    BY <1>8 DEF BeginPool
  <2> HIDE DEF q
  <2>3. Becomes(t, "pool", P, {}, r.out)
    BY <1>1, <1>3, <2>1, <2>2, ThreadReplaced
  <2>4. LockMoves(t)
    BY <1>2, <2>2, <2>3 DEF Becomes, LockMoves, Holds, Decodes
  <2>5. PlaceFits(t, threads[t])'
    BY <1>2, <1>5, <2>2, <2>3 DEF Becomes, PlaceFits, Decodes, Pools
  <2>6. OutputsOf(t)' /\ CountsOf(t)'
    BY <1>2, <1>4, <2>3 DEF Becomes, OutputsOf, CountsOf, Settled, Unresolved
  <2> QED
    BY <1>2, <1>6, <2>3, <2>4, <2>5, <2>6, ThreadStep
<1>9. CASE BeginDecode(t)
  <2> DEFINE G == Groups(t)
             q == [r EXCEPT !.pc = "group", !.groups = G]
  <2>1. /\ G \in SUBSET SUBSET P
        /\ \A g \in G : g # {}
        /\ \A g, h \in G : g # h => g \cap h = {}
        /\ \A p \in P : \E g \in G : p \in g
    BY GroupsPartition
  <2>2. /\ q \in Thread(t) /\ q.pc = "group" /\ q.left = r.left /\ q.groups = G /\ q.out = r.out
    <3> HIDE DEF G
    <3> QED
      BY <1>1, <2>1 DEF Thread
  <2>3. /\ Decodes(t) /\ CanEnter(t) /\ lock' = Entered(t)
        /\ threads' = [threads EXCEPT ![t] = q]
    BY <1>9 DEF BeginDecode
  <2> HIDE DEF q, G
  <2>4. Becomes(t, "group", {}, G, r.out)
    BY <1>1, <1>3, <2>2, <2>3, ThreadReplaced
  <2>5. Decodes(t)'
    BY <1>2, <2>3 DEF Decodes
  <2>6. Holds(t) = 0 /\ Holds(t)' = 1
    BY <1>2, <2>4, <2>5 DEF Becomes, Holds
  <2>7. LockMoves(t)
    BY <2>3, <2>6 DEF LockMoves
  <2>8. PlaceFits(t, threads[t])'
    BY <2>1, <2>4, <2>5 DEF Becomes, PlaceFits
  <2>9. OutputsOf(t)' /\ CountsOf(t)'
    BY <1>2, <1>4, <2>1, <2>4 DEF Becomes, OutputsOf, CountsOf, Settled, Unresolved
  <2> QED
    BY <1>2, <1>6, <2>4, <2>7, <2>8, <2>9, ThreadStep
<1> QED
  BY <1>7, <1>8, <1>9 DEF Begin

\* Taking the lock for one item changes no output.
LEMMA EnterPreserves ==
    ASSUME EInv, NEW t \in Threads, Enter(t)
    PROVE  EInv'
<1> DEFINE r == threads[t]
           q == [r EXCEPT !.pc = "in"]
<1>1. ThreadsTyped /\ r \in Thread(t)
  BY DEF EInv, ThreadsTyped
<1>2. /\ r.pc = "one" /\ CanEnter(t) /\ lock' = Entered(t) /\ UNCHANGED <<kind, last, raised, silent, overtaken>>
      /\ threads' = [threads EXCEPT ![t] = q]
  BY DEF Enter
<1>3. /\ q \in Thread(t) /\ q.pc = "in" /\ q.left = r.left /\ q.groups = r.groups /\ q.out = r.out
  BY <1>1 DEF Thread
<1> HIDE DEF q
<1>4. Becomes(t, "in", r.left, r.groups, r.out)
  BY <1>1, <1>2, <1>3, ThreadReplaced
<1>5. (Decodes(t)' <=> Decodes(t)) /\ (Pools(t)' <=> Pools(t))
  BY <1>2 DEF Decodes, Pools
<1>6. Holds(t)' = Holds(t) + 1
  BY <1>2, <1>4, <1>5 DEF Becomes, Holds
<1>7. LockMoves(t)
  BY <1>2, <1>6 DEF LockMoves
<1>8. PlaceFits(t, threads[t])'
  BY <1>2, <1>4, <1>5 DEF EInv, PlacesFit, Becomes, PlaceFits
<1>9. OutputsOf(t)'
  <2>1. \A p \in Positions(t) : Settled(threads[t], p)' <=> Settled(r, p)
    BY <1>2, <1>4 DEF Becomes, Settled
  <2>2. \A p \in Positions(t) : ~Settled(r, p) => Unresolved(t, p)'
    BY <1>2 DEF EInv, OutputsRight, Unresolved
  <2>3. \A p \in Positions(t) : Settled(r, p) => OutputRight(t, p, threads[t].out[p])'
    BY <1>2, <1>4, <1>5 DEF EInv, OutputsRight, OutputRight, Becomes
  <2> QED
    BY <2>1, <2>2, <2>3 DEF OutputsOf
<1>10. CountsOf(t)'
  BY <1>4 DEF Becomes, CountsOf
<1>11. last \in Items \cup {None}
  BY DEF EInv, EngineTypeOK
<1> QED
  BY <1>2, <1>4, <1>7, <1>8, <1>9, <1>10, <1>11, ThreadStep

\* One item is dealt with, with output o, and the thread goes on to the next.
LEMMA ItemDone ==
    ASSUME EInv, NEW t \in Threads, NEW p \in threads[t].left, NEW o \in Output, NEW pc,
           threads[t].pc # "start", pc # "start", pc # "read", kind' = kind,
           Becomes(t, pc, threads[t].left \ {p}, threads[t].groups,
                   [threads[t].out EXCEPT ![p] = o]),
           \A s \in Threads : \A q : <<s, q>> # <<t, p>> =>
               (<<s, q>> \in raised' <=> <<s, q>> \in raised),
           silent' = silent, overtaken' = overtaken,
           threads[t].pc = "read" => p = Current(t),
           OutputRight(t, p, o)'
    PROVE  OutputsOf(t)' /\ CountsOf(t)'
<1>1. /\ p \in Positions(t) /\ threads[t].out \in [Positions(t) -> Output]
      /\ \A g \in threads[t].groups : p \notin g
  BY ThreadFields DEF EInv, PlacesFit, PlaceFits
<1>2. /\ threads'[t].pc = pc /\ threads'[t].left = threads[t].left \ {p}
      /\ threads'[t].groups = threads[t].groups
      /\ threads'[t].out = [threads[t].out EXCEPT ![p] = o]
  BY DEF Becomes
<1>3. CountsOf(t)'
  BY <1>2 DEF CountsOf
<1>4. ASSUME NEW x \in Positions(t)
      PROVE  IF Settled(threads[t], x)' THEN OutputRight(t, x, threads[t].out[x])'
                                        ELSE Unresolved(t, x)'
  <2>1. CASE x = p
    <3>1. Settled(threads[t], x)'
      BY <1>1, <1>2, <2>1 DEF Settled
    <3>2. threads'[t].out[p] = o
      BY <1>1, <1>2
    <3> QED
      BY <2>1, <3>1, <3>2 DEF OutputRight
  <2>2. CASE x # p
    <3>1. Settled(threads[t], x)' <=> Settled(threads[t], x)
      BY <1>2, <2>2 DEF Settled
    <3>2. threads'[t].out[x] = threads[t].out[x]
      BY <1>1, <1>2, <2>2
    <3>3. <<t, x>> \in raised' <=> <<t, x>> \in raised
      BY <2>2
    <3>4. (Decodes(t)' <=> Decodes(t)) /\ (Pools(t)' <=> Pools(t))
      BY DEF Decodes, Pools
    <3>5. CASE Settled(threads[t], x)
      BY <3>1, <3>2, <3>3, <3>4, <3>5 DEF EInv, OutputsRight, OutputRight
    <3>6. CASE ~Settled(threads[t], x)
      BY <2>2, <3>1, <3>3, <3>6 DEF EInv, OutputsRight, Unresolved
    <3> QED
      BY <3>5, <3>6
  <2> QED
    BY <2>1, <2>2
<1> QED
  BY <1>3, <1>4 DEF OutputsOf

\* Where a thread goes after an item fits what it has left, and it keeps or
\* gives back the lock accordingly.
LEMMA AdvancedFits ==
    ASSUME EInv, NEW t \in Threads, threads[t].pc \in {"in", "read"},
           NEW p \in threads[t].left, NEW o \in Output, kind' = kind,
           threads' = [threads EXCEPT ![t] = Advanced(t, [threads[t] EXCEPT !.out[p] = o], p)]
    PROVE  \E pc \in {"one", "group", "done"} :
              /\ Becomes(t, pc, threads[t].left \ {p}, threads[t].groups,
                         [threads[t].out EXCEPT ![p] = o])
              /\ PlaceFits(t, threads[t])'
              /\ Holds(t)' = Holds(t) - (IF threads[t].pc = "in" THEN 1 ELSE 0)
<1> DEFINE r == threads[t]
           q == Advanced(t, [r EXCEPT !.out[p] = o], p)
           pc == IF r.left # {p} THEN "one" ELSE IF Decodes(t) THEN "group" ELSE "done"
<1>1. ThreadsTyped /\ r \in Thread(t)
  BY DEF EInv, ThreadsTyped
<1>2. /\ q \in Thread(t) /\ q.pc = pc /\ q.left = r.left \ {p} /\ q.groups = r.groups
      /\ q.out = [r.out EXCEPT ![p] = o]
  BY <1>1 DEF Thread, Advanced
<1> HIDE DEF q
<1>3. Becomes(t, pc, r.left \ {p}, r.groups, [r.out EXCEPT ![p] = o])
  <2>1. threads' = [threads EXCEPT ![t] = q]
    BY DEF q
  <2>2. Becomes(t, q.pc, q.left, q.groups, q.out)
    BY <1>1, <1>2, <2>1, ThreadReplaced
  <2> QED
    BY <1>2, <2>2
<1>4. (Decodes(t)' <=> Decodes(t)) /\ (Pools(t)' <=> Pools(t))
  BY DEF Decodes, Pools
<1>5. PlaceFits(t, r) /\ r.left # {}
  BY DEF EInv, PlacesFit
<1>6. PlaceFits(t, threads[t])'
  <2>1. /\ threads'[t].pc = pc /\ threads'[t].left = r.left \ {p} /\ threads'[t].groups = r.groups
    BY <1>3 DEF Becomes
  <2>2. /\ ~Pools(t) /\ (~Decodes(t) => r.groups = {})
        /\ \A g \in r.groups : g # {} /\ g \cap r.left = {}
        /\ \A g, h \in r.groups : g # h => g \cap h = {}
    BY <1>5 DEF PlaceFits
  <2>3. pc = "one" <=> r.left \ {p} # {}
    OBVIOUS
  <2>4. pc \in {"one", "group", "done"} /\ (pc = "group" => Decodes(t)) /\ (pc = "done" => ~Decodes(t))
    OBVIOUS
  <2> HIDE DEF pc
  <2> QED
    BY <1>4, <2>1, <2>2, <2>3, <2>4 DEF PlaceFits
<1>7. Holds(t)' = Holds(t) - (IF threads[t].pc = "in" THEN 1 ELSE 0)
  BY <1>3, <1>4 DEF Becomes, Holds
<1> QED
  BY <1>3, <1>6, <1>7

\* A generation ends, yields nothing, or raises.
LEMMA GeneratePreserves ==
    ASSUME EInv, NEW t \in Threads, Generate(t)
    PROVE  EInv'
<1> DEFINE r == threads[t]
<1>1. /\ r.pc = "in" /\ lock' = Exited(t) /\ kind' = kind
      /\ LET p == Current(t) IN Finishes(t, p) \/ YieldsNothing(t, p) \/ Raises(t, p)
  BY DEF Generate
<1>2. ThreadsTyped /\ r \in Thread(t) /\ PlaceFits(t, r) /\ r.left # {}
  BY <1>1 DEF EInv, ThreadsTyped, PlacesFit, PlaceFits
<1>3. PICK p \in r.left : p = Current(t) /\ p \in Positions(t) /\ Work[t][p] \in Items
  BY <1>2, CurrentIsLeft, PositionsProperties
<1>4. (Decodes(t)' <=> Decodes(t)) /\ (Pools(t)' <=> Pools(t)) /\ ~Pools(t)
  BY <1>1, <1>2 DEF Decodes, Pools, PlaceFits
<1>5. Holds(t) >= 1 /\ Holds(t) \in Nat
  BY <1>1 DEF Holds
<1>6. last \in Items \cup {None}
  BY DEF EInv, EngineTypeOK
<1>7. <<t, p>> \notin silent
  <2>1. p \in Positions(t) /\ ~Settled(r, p)
    BY <1>3 DEF Settled
  <2> QED
    BY <1>1, <2>1 DEF EInv, OutputsRight, Unresolved
<1>8. ASSUME NEW o \in Output, ~o.error,
             threads' = [threads EXCEPT ![t] = [r EXCEPT !.pc = "read", !.out[p] = o]],
             raised' = raised, silent' \in {silent, silent \cup {<<t, p>>}},
             <<t, p>> \in silent' => o.text = None,
             <<t, p>> \notin silent' => o.text = Work[t][p] /\ last' = Work[t][p],
             last' \in Items \cup {None}, last' = last \/ Overtakes(t),
             overtaken \subseteq overtaken'
      PROVE  EInv'
  <2> DEFINE q == [r EXCEPT !.pc = "read", !.out[p] = o]
  <2>1. /\ q \in Thread(t) /\ q.pc = "read" /\ q.left = r.left /\ q.groups = r.groups
        /\ q.out = [r.out EXCEPT ![p] = o]
    BY <1>2, <1>8 DEF Thread
  <2> HIDE DEF q
  <2>2. Becomes(t, "read", r.left, r.groups, [r.out EXCEPT ![p] = o])
    BY <1>2, <1>8, <2>1, ThreadReplaced DEF q
  <2>3. LockMoves(t)
    <3>1. Holds(t)' = Holds(t) - 1
      BY <1>1, <1>4, <2>2 DEF Becomes, Holds
    <3> QED
      BY <1>1, <1>5, <3>1 DEF LockMoves
  <2>4. PlaceFits(t, threads[t])'
    BY <1>1, <1>2, <1>4, <2>2 DEF Becomes, PlaceFits
  <2>5. r.out \in [Positions(t) -> Output]
    BY <1>2, ThreadFields
  <2>6. Current(t)' = p
    BY <1>3, <2>2 DEF Becomes, Current
  <2>7. threads'[t].out[p] = o
    BY <1>3, <2>2, <2>5 DEF Becomes
  <2>8. CountsOf(t)'
    BY <1>8, <2>6, <2>7 DEF CountsOf, CountsWait
  <2>9. OutputsOf(t)'
    <3> SUFFICES ASSUME NEW x \in Positions(t)
                 PROVE  IF Settled(threads[t], x)' THEN OutputRight(t, x, threads[t].out[x])'
                                                   ELSE Unresolved(t, x)'
      BY DEF OutputsOf
    <3>1. Settled(threads[t], x)' <=> Settled(r, x)
      BY <1>1, <2>2 DEF Settled, Becomes
    <3>2. CASE Settled(r, x)
      <4>1. x # p
        BY <1>3, <3>2 DEF Settled
      <4>2. threads'[t].out[x] = r.out[x]
        BY <2>2, <2>5, <4>1 DEF Becomes
      <4>3. <<t, x>> \in silent' <=> <<t, x>> \in silent
        BY <1>8, <4>1
      <4> QED
        BY <1>4, <1>8, <3>1, <3>2, <4>2, <4>3 DEF EInv, OutputsRight, OutputRight
    <3>3. CASE ~Settled(r, x)
      <4>1. <<t, x>> \notin raised /\ <<t, x>> \notin silent
        BY <1>1, <3>3 DEF EInv, OutputsRight, Unresolved
      <4>2. <<t, x>> \notin raised' /\ (<<t, x>> \in silent' => x = p)
        BY <1>8, <4>1
      <4>3. Unresolved(t, x)'
        BY <2>2, <2>6, <4>2 DEF Unresolved, Becomes
      <4> QED
        BY <3>1, <3>3, <4>3
    <3> QED
      BY <3>2, <3>3
  <2>10. \A s \in Threads : s # t => \A x : /\ <<s, x>> \in raised' <=> <<s, x>> \in raised
                                            /\ <<s, x>> \in silent' <=> <<s, x>> \in silent
    BY <1>8
  <2> QED
    BY <1>1, <1>8, <2>2, <2>3, <2>4, <2>8, <2>9, <2>10, ThreadStep
<1>9. CASE Finishes(t, p)
  <2>1. [Empty EXCEPT !.text = Work[t][p]] \in Output
        /\ ~[Empty EXCEPT !.text = Work[t][p]].error
        /\ [Empty EXCEPT !.text = Work[t][p]].text = Work[t][p]
    BY <1>3, OutputForms
  <2>2. /\ last' = Work[t][p] /\ raised' = raised /\ silent' = silent
        /\ overtaken' = overtaken \cup
              {<<s, Current(s)>> : s \in {s \in Threads \ {t} : threads[s].pc = "read"}}
        /\ threads' = [threads EXCEPT ![t] =
              [r EXCEPT !.pc = "read", !.out[p] = [Empty EXCEPT !.text = Work[t][p]]]]
    BY <1>9 DEF Finishes
  <2>3. overtaken \subseteq overtaken' /\ Overtakes(t)
    BY <1>1, <2>2 DEF Overtakes
  <2>4. last' \in Items \cup {None}
    BY <1>3, <2>2
  <2> QED
    BY <1>7, <1>8, <2>1, <2>2, <2>3, <2>4
<1>10. CASE YieldsNothing(t, p)
  <2>1. /\ last' = last /\ raised' = raised /\ silent' = silent \cup {<<t, p>>}
        /\ overtaken' = overtaken
        /\ threads' = [threads EXCEPT ![t] = [r EXCEPT !.pc = "read", !.out[p] = Empty]]
    BY <1>10 DEF YieldsNothing
  <2> QED
    BY <1>6, <1>8, <2>1, OutputForms
<1>11. CASE Raises(t, p)
  <2>1. /\ threads' = [threads EXCEPT ![t] = Advanced(t, [threads[t] EXCEPT !.out[p] = Failed], p)]
        /\ raised' = raised \cup {<<t, p>>} /\ UNCHANGED <<last, silent, overtaken>>
    BY <1>11 DEF Raises
  <2>2. Failed \in Output /\ Failed.error /\ Failed.text = None
    BY OutputForms
  <2>3. PICK pc \in {"one", "group", "done"} :
            /\ Becomes(t, pc, r.left \ {p}, r.groups, [r.out EXCEPT ![p] = Failed])
            /\ PlaceFits(t, threads[t])'
            /\ Holds(t)' = Holds(t) - (IF threads[t].pc = "in" THEN 1 ELSE 0)
    BY <1>1, <1>3, <2>1, <2>2, AdvancedFits
  <2>4. LockMoves(t)
    BY <1>1, <1>5, <2>3 DEF LockMoves
  <2>5. OutputRight(t, p, Failed)'
    <3>1. <<t, p>> \in raised'
      BY <2>1
    <3> QED
      BY <1>4, <2>2, <3>1 DEF OutputRight
  <2>6. OutputsOf(t)' /\ CountsOf(t)'
    BY <1>1, <1>3, <2>1, <2>2, <2>3, <2>5, ItemDone
  <2> QED
    BY <1>1, <1>6, <2>1, <2>3, <2>4, <2>6, ThreadStep
<1> QED
  BY <1>1, <1>3, <1>9, <1>10, <1>11

\* The counts are read, its own or those of another generation.
LEMMA ReadPreserves ==
    ASSUME EInv, NEW t \in Threads, Read(t)
    PROVE  EInv'
<1> DEFINE r == threads[t]
<1>1. ThreadsTyped /\ r \in Thread(t) /\ PlaceFits(t, r)
  BY DEF EInv, ThreadsTyped, PlacesFit
<1>2. r.pc = "read" /\ UNCHANGED <<kind, lock, last, raised, silent, overtaken>>
  BY DEF Read
<1>3. r.left # {} /\ ~Pools(t)
  BY <1>1, <1>2 DEF PlaceFits
<1>4. PICK p \in r.left : p = Current(t) /\ p \in Positions(t)
  BY <1>1, <1>3, CurrentIsLeft
<1>5. threads' = [threads EXCEPT ![t] = Advanced(t, [threads[t] EXCEPT !.out[p].counts = last], p)]
  BY <1>4 DEF Read
<1>6. r.out \in [Positions(t) -> Output] /\ r.out[p] \in Output
  BY <1>1, <1>4, ThreadFields
<1>7. last \in Items \cup {None}
  BY DEF EInv, EngineTypeOK
<1> DEFINE o == [r.out[p] EXCEPT !.counts = last]
<1>8. o \in Output /\ o.error = r.out[p].error /\ o.text = r.out[p].text /\ o.counts = last
  BY <1>6, <1>7 DEF Output
<1>9. [threads[t] EXCEPT !.out[p].counts = last] = [threads[t] EXCEPT !.out[p] = o]
  OBVIOUS
<1>10. PICK e \in Output : e = o
  BY <1>8
<1> HIDE DEF o
<1>11. PICK pc \in {"one", "group", "done"} :
            /\ Becomes(t, pc, r.left \ {p}, r.groups, [r.out EXCEPT ![p] = e])
            /\ PlaceFits(t, threads[t])'
            /\ Holds(t)' = Holds(t) - (IF threads[t].pc = "in" THEN 1 ELSE 0)
  BY <1>2, <1>5, <1>9, <1>10, AdvancedFits
<1>12. LockMoves(t)
  <2>1. Holds(t) \in Nat
    BY DEF Holds
  <2> QED
    BY <1>2, <1>11, <2>1 DEF LockMoves
<1>13. OutputRight(t, p, e)'
  <2>1. CountsWait(t, r.out[p])
    BY <1>2, <1>4 DEF EInv, CountsThere
  <2>2. /\ ~e.error /\ e.counts = last
        /\ <<t, p>> \in silent => e.text = None
        /\ <<t, p>> \notin silent => e.text = Work[t][p]
        /\ <<t, p>> \notin silent /\ last # Work[t][p] => <<t, p>> \in overtaken /\ ~Decodes(t)
    BY <1>4, <1>8, <1>10, <2>1 DEF CountsWait
  <2>3. <<t, p>> \notin raised' /\ silent' = silent /\ overtaken' = overtaken
    BY <1>2, <1>4 DEF EInv, OutputsRight, Settled, Unresolved
  <2>4. (Decodes(t)' <=> Decodes(t)) /\ ~Pools(t)'
    BY <1>2, <1>3 DEF Decodes, Pools
  <2> QED
    BY <2>2, <2>3, <2>4 DEF OutputRight
<1>14. OutputsOf(t)' /\ CountsOf(t)'
  BY <1>2, <1>4, <1>11, <1>13, ItemDone
<1> QED
  BY <1>2, <1>7, <1>11, <1>12, <1>14, ThreadStep

\* A group is decoded, or its decode fails part of the way through and it is
\* run again one by one.
LEMMA DecodeGroupPreserves ==
    ASSUME EInv, NEW t \in Threads, DecodeGroup(t)
    PROVE  EInv'
<1> DEFINE r == threads[t]
           P == Positions(t)
<1>1. ThreadsTyped /\ r \in Thread(t) /\ PlaceFits(t, r)
  BY DEF EInv, ThreadsTyped, PlacesFit
<1>2. r.pc = "group" /\ UNCHANGED <<kind, lock, last, raised, silent, overtaken>>
  BY DEF DecodeGroup
<1>3. PICK g \in r.groups : Decode(t, g) \/ DecodeFails(t, g)
  BY DEF DecodeGroup
<1>4. /\ r.left = {} /\ Decodes(t) /\ ~Pools(t)
      /\ \A h \in r.groups : h # {}
      /\ \A h, i \in r.groups : h # i => h \cap i = {}
  BY <1>1, <1>2 DEF PlaceFits, Decodes, Pools
<1>5. /\ r.out \in [P -> Output] /\ r.groups \in SUBSET SUBSET P
      /\ r.groups \ {g} \in SUBSET SUBSET P /\ g \in SUBSET P
  BY <1>1, ThreadFields
<1>6. last \in Items \cup {None}
  BY DEF EInv, EngineTypeOK
<1>7. Decodes(t)' /\ ~Pools(t)'
  BY <1>2, <1>4 DEF Decodes, Pools
<1>8. \A p \in g : <<t, p>> \notin raised /\ <<t, p>> \notin silent
  BY <1>2, <1>5 DEF EInv, OutputsRight, Settled, Unresolved
<1>9. Holds(t) = 1
  BY <1>2, <1>4 DEF Holds
<1>10. CASE Decode(t, g)
  <2> DEFINE out == [p \in P |-> IF p \in g THEN OwnOutput(t, p) ELSE r.out[p]]
             q == [r EXCEPT !.out = out, !.groups = r.groups \ {g}]
  <2>1. threads' = [threads EXCEPT ![t] = q]
    BY <1>10 DEF Decode
  <2>2. out \in [P -> Output]
    BY <1>5, OutputForms
  <2>3. \A p \in P : out[p] = IF p \in g THEN OwnOutput(t, p) ELSE r.out[p]
    OBVIOUS
  <2> HIDE DEF out
  <2>4. /\ q \in Thread(t) /\ q.pc = "group" /\ q.left = {} /\ q.groups = r.groups \ {g}
        /\ q.out = out
    BY <1>1, <1>2, <1>4, <1>5, <2>2 DEF Thread
  <2> HIDE DEF q
  <2>5. Becomes(t, "group", {}, r.groups \ {g}, out)
    BY <1>1, <2>1, <2>4, ThreadReplaced
  <2>6. LockMoves(t)
    BY <1>2, <1>7, <1>9, <2>5 DEF LockMoves, Holds, Becomes
  <2>7. PlaceFits(t, threads[t])'
    BY <1>4, <1>7, <2>5 DEF PlaceFits, Becomes
  <2>8. CountsOf(t)'
    BY <2>5 DEF CountsOf, Becomes
  <2>9. OutputsOf(t)'
    <3> SUFFICES ASSUME NEW x \in P
                 PROVE  IF Settled(threads[t], x)' THEN OutputRight(t, x, threads[t].out[x])'
                                                   ELSE Unresolved(t, x)'
      BY DEF OutputsOf
    <3>1. threads'[t].out[x] = out[x]
      BY <2>5 DEF Becomes
    <3>2. CASE x \in g
      <4>1. <<t, x>> \notin raised' /\ <<t, x>> \notin silent'
        BY <1>2, <1>8, <3>2
      <4>2. OutputRight(t, x, threads[t].out[x])'
        BY <1>7, <2>3, <3>1, <3>2, <4>1, OutputForms DEF OutputRight
      <4> QED
        BY <4>1, <4>2 DEF Unresolved
    <3>3. CASE x \notin g
      <4>1. Settled(threads[t], x)' <=> Settled(r, x)
        BY <1>2, <1>4, <2>5, <3>3 DEF Settled, Becomes
      <4>2. threads'[t].out[x] = r.out[x]
        BY <2>3, <3>1, <3>3
      <4>3. IF Settled(r, x) THEN OutputRight(t, x, r.out[x]) ELSE Unresolved(t, x)
        BY DEF EInv, OutputsRight
      <4> QED
        BY <1>2, <1>4, <1>7, <4>1, <4>2, <4>3 DEF OutputRight, Unresolved
    <3> QED
      BY <3>2, <3>3
  <2> QED
    BY <1>2, <1>6, <2>5, <2>6, <2>7, <2>8, <2>9, ThreadStep
<1>11. CASE DecodeFails(t, g)
  <2>1. PICK k \in 0 .. Len(Work[t]) :
            threads' = [threads EXCEPT ![t] =
                [r EXCEPT !.out = [p \in P |-> IF p \in g /\ p <= k THEN OwnOutput(t, p)
                                                                    ELSE r.out[p]],
                          !.left = g,
                          !.groups = r.groups \ {g},
                          !.pc = "one"]]
    BY <1>11 DEF DecodeFails
  <2> DEFINE out == [p \in P |-> IF p \in g /\ p <= k THEN OwnOutput(t, p) ELSE r.out[p]]
             q == [r EXCEPT !.out = out, !.left = g, !.groups = r.groups \ {g}, !.pc = "one"]
  <2>2. threads' = [threads EXCEPT ![t] = q]
    BY <2>1
  <2>3. out \in [P -> Output]
    BY <1>5, OutputForms
  <2>4. \A p \in P : p \notin g => out[p] = r.out[p]
    OBVIOUS
  <2> HIDE DEF out
  <2>5. /\ q \in Thread(t) /\ q.pc = "one" /\ q.left = g /\ q.groups = r.groups \ {g}
        /\ q.out = out
    BY <1>1, <1>5, <2>3 DEF Thread
  <2> HIDE DEF q
  <2>6. Becomes(t, "one", g, r.groups \ {g}, out)
    BY <1>1, <2>2, <2>5, ThreadReplaced
  <2>7. LockMoves(t)
    BY <1>2, <1>7, <1>9, <2>6 DEF LockMoves, Holds, Becomes
  <2>8. PlaceFits(t, threads[t])'
    BY <1>4, <1>7, <2>6 DEF PlaceFits, Becomes
  <2>9. CountsOf(t)'
    BY <2>6 DEF CountsOf, Becomes
  <2>10. OutputsOf(t)'
    <3> SUFFICES ASSUME NEW x \in P
                 PROVE  IF Settled(threads[t], x)' THEN OutputRight(t, x, threads[t].out[x])'
                                                   ELSE Unresolved(t, x)'
      BY DEF OutputsOf
    <3>1. Settled(threads[t], x)' <=> Settled(r, x)
      BY <1>2, <1>4, <2>6 DEF Settled, Becomes
    <3>2. Settled(r, x) => x \notin g
      BY DEF Settled
    <3>3. x \notin g => threads'[t].out[x] = r.out[x]
      BY <2>4, <2>6 DEF Becomes
    <3>4. IF Settled(r, x) THEN OutputRight(t, x, r.out[x]) ELSE Unresolved(t, x)
      BY DEF EInv, OutputsRight
    <3> QED
      BY <1>2, <1>4, <1>7, <3>1, <3>2, <3>3, <3>4 DEF OutputRight, Unresolved
  <2> QED
    BY <1>2, <1>6, <2>6, <2>7, <2>8, <2>9, <2>10, ThreadStep
<1> QED
  BY <1>3, <1>10, <1>11

\* With no group left the thread gives the lock back.
LEMMA LeaveGroupsPreserves ==
    ASSUME EInv, NEW t \in Threads, LeaveGroups(t)
    PROVE  EInv'
<1> DEFINE r == threads[t]
           q == [r EXCEPT !.pc = "done"]
<1>1. ThreadsTyped /\ r \in Thread(t) /\ PlaceFits(t, r)
  BY DEF EInv, ThreadsTyped, PlacesFit
<1>2. /\ r.pc = "group" /\ r.groups = {} /\ lock' = Exited(t) /\ UNCHANGED <<kind, last, raised, silent, overtaken>>
      /\ threads' = [threads EXCEPT ![t] = q]
  BY DEF LeaveGroups
<1>3. r.left = {} /\ Decodes(t)
  BY <1>1, <1>2 DEF PlaceFits
<1>4. /\ q \in Thread(t) /\ q.pc = "done" /\ q.left = {} /\ q.groups = {} /\ q.out = r.out
  BY <1>1, <1>2, <1>3 DEF Thread
<1> HIDE DEF q
<1>5. Becomes(t, "done", {}, {}, r.out)
  BY <1>1, <1>2, <1>4, ThreadReplaced
<1>6. Holds(t) = 1 /\ Holds(t)' = 0
  BY <1>2, <1>3, <1>5 DEF Becomes, Holds
<1>7. LockMoves(t)
  BY <1>2, <1>6 DEF LockMoves
<1>8. PlaceFits(t, threads[t])' /\ CountsOf(t)'
  BY <1>5 DEF Becomes, PlaceFits, CountsOf
<1>9. OutputsOf(t)'
  <2>1. (Decodes(t)' <=> Decodes(t)) /\ (Pools(t)' <=> Pools(t))
    BY <1>2 DEF Decodes, Pools
  <2> QED
    BY <1>2, <1>3, <1>5, <2>1 DEF EInv, OutputsRight, OutputRight, Unresolved, Becomes, OutputsOf,
                                  Settled
<1>10. last \in Items \cup {None}
  BY DEF EInv, EngineTypeOK
<1> QED
  BY <1>2, <1>5, <1>7, <1>8, <1>9, <1>10, ThreadStep

\* A request to the daemon comes back, or raises.
LEMMA CompletePooledPreserves ==
    ASSUME EInv, NEW t \in Threads, CompletePooled(t)
    PROVE  EInv'
<1> DEFINE r == threads[t]
<1>1. ThreadsTyped /\ r \in Thread(t) /\ PlaceFits(t, r)
  BY DEF EInv, ThreadsTyped, PlacesFit
<1>2. r.pc = "pool" /\ UNCHANGED <<kind, lock, last, silent, overtaken>>
  BY DEF CompletePooled
<1>3. Pools(t) /\ ~Decodes(t) /\ Pools(t)' /\ ~Decodes(t)' /\ r.groups = {}
  BY <1>1, <1>2 DEF PlaceFits, Pools, Decodes
<1>4. PICK p \in r.left, o \in Output :
          /\ Completed(t, p, o)
          /\ \/ o = OwnOutput(t, p) /\ raised' = raised
             \/ o = Failed /\ raised' = raised \cup {<<t, p>>}
  <2>1. \A p \in r.left : OwnOutput(t, p) \in Output /\ Failed \in Output
    BY <1>1, ThreadFields, OutputForms
  <2> QED
    BY <2>1 DEF CompletePooled
<1>5. p \in Positions(t) /\ <<t, p>> \notin raised /\ <<t, p>> \notin silent
  <2>1. p \in Positions(t)
    BY <1>1, ThreadFields
  <2> QED
    BY <1>2, <2>1 DEF EInv, OutputsRight, Settled, Unresolved
<1> DEFINE pc == IF r.left = {p} THEN "done" ELSE "pool"
           q == [r EXCEPT !.out[p] = o, !.left = r.left \ {p},
                          !.pc = IF r.left = {p} THEN "done" ELSE r.pc]
<1>6. threads' = [threads EXCEPT ![t] = q]
  BY <1>4 DEF Completed
<1>7. /\ q \in Thread(t) /\ q.pc = pc /\ q.left = r.left \ {p} /\ q.groups = r.groups
      /\ q.out = [r.out EXCEPT ![p] = o]
  BY <1>1, <1>2 DEF Thread
<1> HIDE DEF q
<1>8. Becomes(t, pc, r.left \ {p}, r.groups, [r.out EXCEPT ![p] = o])
  <2>1. Becomes(t, q.pc, q.left, q.groups, q.out)
    BY <1>1, <1>6, <1>7, ThreadReplaced
  <2> QED
    BY <1>7, <2>1
<1>9. LockMoves(t)
  BY <1>2, <1>3, <1>8 DEF LockMoves, Becomes, Holds
<1>10. PlaceFits(t, threads[t])'
  BY <1>3, <1>8 DEF PlaceFits, Becomes
<1>11. OutputRight(t, p, o)'
  <2>1. CASE o = OwnOutput(t, p) /\ raised' = raised
    BY <1>2, <1>3, <1>5, <2>1, OutputForms DEF OutputRight
  <2>2. CASE o = Failed /\ raised' = raised \cup {<<t, p>>}
    BY <1>3, <2>2, OutputForms DEF OutputRight
  <2> QED
    BY <1>4, <2>1, <2>2
<1>12. \A s \in Threads : \A x : <<s, x>> # <<t, p>> =>
           (<<s, x>> \in raised' <=> <<s, x>> \in raised)
  BY <1>4
<1>13. pc # "start" /\ pc # "read"
  OBVIOUS
<1>14. last \in Items \cup {None}
  BY DEF EInv, EngineTypeOK
<1> HIDE DEF pc
<1>15. OutputsOf(t)' /\ CountsOf(t)'
  BY <1>2, <1>8, <1>11, <1>12, <1>13, ItemDone
<1> QED
  BY <1>2, <1>8, <1>9, <1>10, <1>12, <1>14, <1>15, ThreadStep

\* At the start the lock is free and nothing has run.
LEMMA EngineInitEstablishes == EngineInit => EInv
<1> SUFFICES ASSUME EngineInit PROVE EInv
  OBVIOUS
<1> DEFINE r(t) == [pc |-> "start", left |-> {}, groups |-> {},
                    out |-> [p \in Positions(t) |-> Empty]]
<1>1. /\ kind \in Kinds /\ lock = [owner |-> None, depth |-> 0] /\ last = None
      /\ raised = {} /\ silent = {}
      /\ threads = [t \in Threads |-> r(t)]
  BY DEF EngineInit
<1>2. \A t \in Threads : /\ r(t).pc = "start" /\ r(t).left = {} /\ r(t).groups = {}
                         /\ r(t).out = [p \in Positions(t) |-> Empty]
                         /\ r(t) \in Thread(t)
  BY OutputForms DEF Thread
<1>3. \A t \in Threads : threads[t] = r(t)
  BY <1>1
<1> HIDE DEF r
<1>4. threads = [t \in Threads |-> threads[t]]
  <2> DEFINE f == [t \in Threads |-> r(t)]
  <2>1. f = [t \in Threads |-> f[t]]
    OBVIOUS
  <2> QED
    BY <1>1, <2>1
<1>5. ThreadsTyped
  BY <1>2, <1>3, <1>4 DEF ThreadsTyped
<1>6. \A t \in Threads : threads[t].pc = "start" /\ threads[t].left = {} /\ threads[t].groups = {}
  BY <1>2, <1>3
<1>7. LockSound
  BY <1>1, <1>6, EngineAssumption DEF LockSound, Holds
<1>8. PlacesFit
  BY <1>6 DEF PlacesFit, PlaceFits
<1>9. OutputsRight /\ CountsThere
  BY <1>1, <1>6 DEF OutputsRight, Settled, Unresolved, CountsThere
<1>10. EngineTypeOK
  <2>1. lock \in [owner : Threads \cup {None}, depth : 0 .. 2] /\ (lock.owner = None <=> lock.depth = 0)
    BY <1>1
  <2> QED
    BY <1>1, <1>5, <2>1, ThreadFields DEF EngineTypeOK, Output
<1> QED
  BY <1>5, <1>7, <1>8, <1>9, <1>10 DEF EInv

\* Nothing changes in a stuttering step.
LEMMA EngineStutter == EInv /\ UNCHANGED vars => EInv'
BY DEF vars, EInv, EngineTypeOK, ThreadsTyped, LockSound, Holds, PlacesFit, PlaceFits,
       OutputsRight, Settled, OutputRight, Unresolved, CountsThere, CountsWait, Current,
       Decodes, Pools

\* Every step of every thread preserves the invariant.
LEMMA EngineNextPreserves == EInv /\ [EngineNext]_vars => EInv'
<1> SUFFICES ASSUME EInv, [EngineNext]_vars PROVE EInv'
  OBVIOUS
<1>1. ASSUME NEW t \in Threads, Step(t)
      PROVE  EInv'
  BY <1>1, BeginPreserves, EnterPreserves, GeneratePreserves, ReadPreserves,
     DecodeGroupPreserves, LeaveGroupsPreserves, CompletePooledPreserves DEF Step
<1> QED
  BY <1>1, EngineStutter DEF EngineNext

\* The conjunction is an inductive invariant of the engine and its threads.
THEOREM EngineInvariance == EngineSpec => []EInv
<1>1. EngineInit => EInv
  BY EngineInitEstablishes
<1>2. EInv /\ [EngineNext]_vars => EInv'
  BY EngineNextPreserves
<1> QED
  BY <1>1, <1>2, PTL DEF EngineSpec

\* The lock is taken at most twice, by one thread, and free when nobody has it;
\* outputs have the shape of BatchOutput.
THEOREM EngineTypeCorrect == EngineSpec => []EngineTypeOK
BY EngineInvariance, PTL DEF EInv

\* No two threads are in the model at once, whichever engine it is and however
\* streams, batches, orphaned batches and fallbacks interleave.
THEOREM ModelIsExclusive == EngineSpec => []Exclusive
<1>1. EInv => Exclusive
  <2> SUFFICES ASSUME EInv, NEW s \in Threads, threads[s].pc \in {"in", "group"}
               PROVE  lock.owner = s
    BY DEF Exclusive
  <2>1. threads[s].pc = "group" => Decodes(s)
    BY DEF EInv, PlacesFit, PlaceFits
  <2>2. Holds(s) > 0
    BY <2>1 DEF Holds
  <2> QED
    BY <2>2 DEF EInv, LockSound
<1> QED
  BY <1>1, EngineInvariance, PTL

\* When a thread is done each item has the outcome of its own generation: it has
\* failed exactly if that raised, has no text exactly if that raised or yielded
\* nothing, and has its own answer otherwise.  None is skipped, also after a batched
\* decode that blew up half way through.
THEOREM ItemsFailAlone == EngineSpec => []FailsAlone
<1>1. EInv => FailsAlone
  <2> SUFFICES ASSUME EInv, NEW t \in Threads, threads[t].pc = "done", NEW p \in Positions(t)
               PROVE  /\ threads[t].out[p].error <=> <<t, p>> \in raised
                      /\ <<t, p>> \in raised \cup silent => threads[t].out[p].text = None
                      /\ <<t, p>> \notin raised \cup silent => threads[t].out[p].text = Work[t][p]
    BY DEF FailsAlone
  <2>1. Settled(threads[t], p)
    BY DEF EInv, PlacesFit, PlaceFits, Settled
  <2> QED
    BY <2>1 DEF EInv, OutputsRight, OutputRight
<1> QED
  BY <1>1, EngineInvariance, PTL

\* An item that has not failed is reported with token counts other than its own
\* only if its generation on mlx yielded nothing, or if another generation set
\* its counts before they were read, outside batched decodes and their fallback.
THEOREM MiscountsAreExplained == EngineSpec => []MiscountsExplained
<1>1. EInv => MiscountsExplained
  <2> SUFFICES ASSUME EInv, NEW t \in Threads, threads[t].pc = "done", NEW p \in Positions(t),
                      <<t, p>> \notin raised, threads[t].out[p].counts # Work[t][p]
               PROVE  \/ <<t, p>> \in silent
                      \/ <<t, p>> \in overtaken /\ ~Decodes(t) /\ ~Pools(t)
    BY DEF MiscountsExplained
  <2>1. Settled(threads[t], p)
    BY DEF EInv, PlacesFit, PlaceFits, Settled
  <2> QED
    BY <2>1 DEF EInv, OutputsRight, OutputRight
<1> QED
  BY <1>1, EngineInvariance, PTL
=============================================================================
