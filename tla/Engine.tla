------------------------------- MODULE Engine -------------------------------
(***************************************************************************)
(* One node's inference engine and the threads that use it                 *)
(* (src/node_agent/engine.py, called from src/node_agent/__main__.py).     *)
(* An interactive generation runs in a thread of its own; so does every    *)
(* batch of units, and a batch that was running when the connection was    *)
(* lost goes on next to those of the next connection.                      *)
(*                                                                         *)
(* The in-process engines hold a re-entrant lock while they generate.      *)
(* Token counts of a generation are left in attributes of the engine and   *)
(* read from there afterwards; the pair of them is one variable here, and  *)
(* its value is the item they are the counts of.  llama_cpp stands for     *)
(* mock too, and mlx_sequential is mlx without batch_generate: they run    *)
(* batches by BaseEngine's code.  What a model answers to an item is the   *)
(* item itself, be it an empty string; None is the text of an output that  *)
(* nothing was put into.                                                   *)
(***************************************************************************)
EXTENDS Integers, Sequences, FiniteSets, FiniteSetsExt

CONSTANTS
    Kinds,         \* the engine classes a node may be running
    Threads,
    Work,          \* Work[t]: the items thread t is to run
    Streams,       \* the threads that run one interactive generation
    Temperature,   \* Temperature[i]: the sampling temperature of item i
    Items,
    None

ASSUME EngineAssumption ==
    /\ Kinds \subseteq {"mlx", "mlx_sequential", "llama_cpp", "ollama"}
    /\ Streams \subseteq Threads
    /\ Work \in [Threads -> Seq(Items) \ {<<>>}]
    /\ \A t \in Streams : Len(Work[t]) = 1
    /\ None \notin Threads \cup Items

VARIABLES
    kind,      \* the engine's class
    lock,      \* BaseEngine._lock, an RLock
    last,      \* last_prompt_tokens and last_completion_tokens
    threads,   \* where each thread is, and its outputs so far
    raised,    \* history: the items whose own generation raised
    silent,    \* history: those whose own generation yielded nothing at all
    overtaken  \* history: those whose counts were overwritten before they were read

vars == <<kind, lock, last, threads, raised, silent, overtaken>>

\* BatchOutput; `counts` is the item whose token counts it carries.
Empty == [text |-> None, counts |-> None, error |-> FALSE]

Failed == [Empty EXCEPT !.error = TRUE]

Positions(t) == DOMAIN Work[t]

EngineInit ==
    /\ kind \in Kinds
    /\ lock = [owner |-> None, depth |-> 0]
    /\ last = None
    /\ threads = [t \in Threads |->
          [pc |-> "start", left |-> {}, groups |-> {}, out |-> [p \in Positions(t) |-> Empty]]]
    /\ raised = {} /\ silent = {} /\ overtaken = {}
-----------------------------------------------------------------------------
\* Mutant: no lock at all.
CanEnterAlways(t) == TRUE

\* Mutant: an ordinary lock, which its owner cannot take again.
CanEnterOnce(t) == lock.owner = None

\* A re-entrant lock: its owner may take it again.
CanEnter(t) == lock.owner \in {None, t}

Entered(t) == [owner |-> t, depth |-> lock.depth + 1]

\* Mutant: the owner stays when it has left.
ExitedStillOwned(t) == [owner |-> t, depth |-> lock.depth - 1]

Exited(t) == [owner |-> IF lock.depth = 1 THEN None ELSE t, depth |-> lock.depth - 1]

\* mlx: the positions that sample alike and can ride in one batch_generate call.
Groups(t) ==
    {{q \in Positions(t) : Temperature[Work[t][q]] = Temperature[Work[t][p]]} :
        p \in Positions(t)}

\* Thread t decodes in groups: a batch of several units on mlx.
Decodes(t) == kind = "mlx" /\ t \notin Streams /\ Len(Work[t]) >= 2

\* Every unit of t is a request of its own to the daemon.
Pools(t) == kind = "ollama" /\ t \notin Streams

(***************************************************************************)
(* generate_batch, by engine, or the generate_stream of produce(), which   *)
(* is a batch of one that always goes through the lock.                    *)
(***************************************************************************)
BeginOneByOne(t) ==
    /\ ~Decodes(t) /\ ~Pools(t)
    /\ threads' = [threads EXCEPT ![t] = [@ EXCEPT !.pc = "one", !.left = Positions(t)]]
    /\ UNCHANGED lock

BeginDecode(t) ==
    /\ Decodes(t)
    /\ CanEnter(t)
    /\ lock' = Entered(t)
    /\ threads' = [threads EXCEPT ![t] = [@ EXCEPT !.pc = "group", !.groups = Groups(t)]]

BeginPool(t) ==
    /\ Pools(t)
    /\ threads' = [threads EXCEPT ![t] = [@ EXCEPT !.pc = "pool", !.left = Positions(t)]]
    /\ UNCHANGED lock

Begin(t) ==
    /\ threads[t].pc = "start"
    /\ BeginOneByOne(t) \/ BeginDecode(t) \/ BeginPool(t)
    /\ UNCHANGED <<kind, last, raised, silent, overtaken>>
-----------------------------------------------------------------------------
(***************************************************************************)
(* _generate_one: run generate_stream to its end inside the lock, then,    *)
(* outside, read the counts it left behind.                                *)
(***************************************************************************)
Current(t) == Min(threads[t].left)

Enter(t) ==
    /\ threads[t].pc = "one"
    /\ CanEnter(t)
    /\ lock' = Entered(t)
    /\ threads' = [threads EXCEPT ![t].pc = "in"]
    /\ UNCHANGED <<kind, last, raised, silent, overtaken>>

\* The thread with the current item out of the way: on to the next one, back
\* to the groups if it came from there, or at its end.
Advanced(t, r, p) ==
    [r EXCEPT !.left = @ \ {p},
              !.pc = IF r.left # {p} THEN "one" ELSE IF Decodes(t) THEN "group" ELSE "done"]

\* The generation runs to its end and leaves its counts behind, over those that
\* other threads have not read yet.  The daemon's stream is taken to end with the
\* chunk that has them.
Finishes(t, p) ==
    /\ last' = Work[t][p]
    /\ overtaken' = overtaken \cup
          {<<s, Current(s)>> : s \in {s \in Threads \ {t} : threads[s].pc = "read"}}
    /\ threads' = [threads EXCEPT ![t] =
          [@ EXCEPT !.pc = "read", !.out[p] = [Empty EXCEPT !.text = Work[t][p]]]]
    /\ UNCHANGED <<raised, silent>>

\* mlx: no response at all, and then no counts are set.
YieldsNothing(t, p) ==
    /\ kind \in {"mlx", "mlx_sequential"}
    /\ threads' = [threads EXCEPT ![t] = [@ EXCEPT !.pc = "read", !.out[p] = Empty]]
    /\ silent' = silent \cup {<<t, p>>}
    /\ UNCHANGED <<last, raised, overtaken>>

\* It raises, and the item alone has failed.
Raises(t, p) ==
    /\ threads' = [threads EXCEPT ![t] = Advanced(t, [@ EXCEPT !.out[p] = Failed], p)]
    /\ raised' = raised \cup {<<t, p>>}
    /\ UNCHANGED <<last, silent, overtaken>>

Generate(t) ==
    /\ threads[t].pc = "in"
    /\ LET p == Current(t) IN Finishes(t, p) \/ YieldsNothing(t, p) \/ Raises(t, p)
    /\ lock' = Exited(t)
    /\ UNCHANGED kind

\* BatchOutput(...), or the completion message of an interactive generation.
Read(t) ==
    LET p == Current(t)
    IN  /\ threads[t].pc = "read"
        /\ threads' = [threads EXCEPT ![t] = Advanced(t, [@ EXCEPT !.out[p].counts = last], p)]
        /\ UNCHANGED <<kind, lock, last, raised, silent, overtaken>>
-----------------------------------------------------------------------------
(***************************************************************************)
(* mlx: _decode_group for each group, all under one hold of the lock.      *)
(***************************************************************************)

\* Mutant: the counts are taken from the engine's attributes.
OwnOutputShared(t, p) == [text |-> Work[t][p], counts |-> last, error |-> FALSE]

\* What a call that carries its own counts returns for position p.
OwnOutput(t, p) == [text |-> Work[t][p], counts |-> Work[t][p], error |-> FALSE]

Decode(t, g) ==
    threads' = [threads EXCEPT ![t] =
          [threads[t] EXCEPT !.out = [p \in Positions(t) |-> IF p \in g THEN OwnOutput(t, p) ELSE @[p]],
                             !.groups = @ \ {g}]]

\* Mutant: it is only logged that a batched decode raised.
DecodeFailsLogged(t, g) ==
    \E k \in 0 .. Len(Work[t]) :
        threads' = [threads EXCEPT ![t] =
          [threads[t] EXCEPT !.out = [p \in Positions(t) |->
                                         IF p \in g /\ p <= k THEN OwnOutput(t, p) ELSE @[p]],
                             !.groups = @ \ {g}]]

\* The decode raises, with some of the outputs written already: the whole
\* group is run again one by one, the lock still held.
DecodeFails(t, g) ==
    \E k \in 0 .. Len(Work[t]) :
        threads' = [threads EXCEPT ![t] =
          [threads[t] EXCEPT !.out = [p \in Positions(t) |->
                                         IF p \in g /\ p <= k THEN OwnOutput(t, p) ELSE @[p]],
                             !.left = g,
                             !.groups = @ \ {g},
                             !.pc = "one"]]

DecodeGroup(t) ==
    /\ threads[t].pc = "group"
    /\ \E g \in threads[t].groups : Decode(t, g) \/ DecodeFails(t, g)
    /\ UNCHANGED <<kind, lock, last, raised, silent, overtaken>>

LeaveGroups(t) ==
    /\ threads[t].pc = "group"
    /\ threads[t].groups = {}
    /\ lock' = Exited(t)
    /\ threads' = [threads EXCEPT ![t].pc = "done"]
    /\ UNCHANGED <<kind, last, raised, silent, overtaken>>

(***************************************************************************)
(* ollama: _complete for every unit at once, in any order, without a lock. *)
(***************************************************************************)
Completed(t, p, o) ==
    threads' = [threads EXCEPT ![t] =
          [threads[t] EXCEPT !.out[p] = o,
                             !.left = @ \ {p},
                             !.pc = IF threads[t].left = {p} THEN "done" ELSE @]]

CompletePooled(t) ==
    /\ threads[t].pc = "pool"
    /\ \E p \in threads[t].left :
          \/ Completed(t, p, OwnOutput(t, p)) /\ UNCHANGED raised
          \/ Completed(t, p, Failed) /\ raised' = raised \cup {<<t, p>>}
    /\ UNCHANGED <<kind, lock, last, silent, overtaken>>
-----------------------------------------------------------------------------
Step(t) ==
    \/ Begin(t)
    \/ Enter(t) \/ Generate(t) \/ Read(t)
    \/ DecodeGroup(t) \/ LeaveGroups(t)
    \/ CompletePooled(t)

EngineNext == \E t \in Threads : Step(t)

\* Threads are scheduled and generations end; how an RLock is handed over is not
\* assumed, since every thread takes it finitely often.
EngineSpec ==
    EngineInit /\ [][EngineNext]_vars /\ \A t \in Threads : WF_vars(Step(t))
-----------------------------------------------------------------------------
(***************************************************************************)
(* Properties.                                                             *)
(***************************************************************************)

\* The lock is free exactly when nobody holds it, and is taken at most twice,
\* by the same thread; outputs have the shape of BatchOutput.
EngineTypeOK ==
    /\ kind \in Kinds
    /\ lock \in [owner : Threads \cup {None}, depth : 0 .. 2]
    /\ lock.owner = None <=> lock.depth = 0
    /\ last \in Items \cup {None}
    /\ \A t \in Threads :
          /\ threads[t].pc \in {"start", "one", "in", "read", "group", "pool", "done"}
          /\ threads[t].left \subseteq Positions(t)
          /\ threads[t].groups \subseteq SUBSET Positions(t)
          /\ threads[t].out \in [Positions(t) ->
                [text : Items \cup {None}, counts : Items \cup {None}, error : BOOLEAN]]

\* BaseEngine: the lock "serializes access to the model": no two threads are
\* ever in the model at once, single generations and batched decodes alike, and
\* a daemon sees at most one stream at a time.
Exclusive ==
    \A s, t \in Threads :
        threads[s].pc \in {"in", "group"} /\ threads[t].pc \in {"in", "group"} => s = t

\* BatchOutput: "`error` set means that item alone failed", and "a batched decode
\* that blows up must not lose the units": when a thread is done, each item has the
\* outcome of its own generation, in its place.  It has failed exactly if that
\* raised, its text is missing exactly if that raised or yielded nothing, and
\* otherwise it is what the model answered to this item.  An item that was never
\* run has no outcome to show, so none is skipped, by a decode that raises half
\* way through, a failed neighbour or an orphaned batch next to it.
FailsAlone ==
    \A t \in Threads : threads[t].pc = "done" =>
        \A p \in Positions(t) :
            /\ threads[t].out[p].error <=> <<t, p>> \in raised
            /\ threads[t].out[p].text =
                  IF <<t, p>> \in raised \cup silent THEN None ELSE Work[t][p]

\* The items of t that have not failed carry their own token counts.
CountsOwn(t) ==
    threads[t].pc = "done" =>
        \A p \in Positions(t) :
            <<t, p>> \notin raised => threads[t].out[p].counts = Work[t][p]

\* Wherever an item is reported with the counts of another one, in a batch or an
\* interactive generation and on any engine, it is for one of two reasons: mlx
\* yielded nothing and set no counts, so those of the generation before are read;
\* or another generation set its counts in between.  The second happens to streams
\* and to batches run one by one, but never to the units of a batched decode, not
\* even in the one-by-one run it falls back to, nor to requests to the daemon.
MiscountsExplained ==
    \A t \in Threads : threads[t].pc = "done" =>
        \A p \in Positions(t) :
            <<t, p>> \notin raised /\ threads[t].out[p].counts # Work[t][p] =>
                \/ <<t, p>> \in silent
                \/ <<t, p>> \in overtaken /\ ~Decodes(t) /\ ~Pools(t)

\* OllamaEngine: "`generate_stream` still takes the lock, because it reports
\* usage through `last_*_tokens` on the instance and concurrent streams would
\* race on it."  The lock does not prevent the race: the counts are read after
\* it is released, by the agent's produce() as by _generate_one.
StreamCountsOwn == \A t \in Streams : CountsOwn(t)

\* Every generation and every batch comes to its end: the fallback takes the
\* lock again that its thread already holds, and nobody waits for ever.
JobsEnd == \A t \in Threads : <>(threads[t].pc = "done")
=============================================================================
