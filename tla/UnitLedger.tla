----------------------------- MODULE UnitLedger -----------------------------
(***************************************************************************)
(* What the batch service promises a client, without queues, leases,       *)
(* nodes, retries or canaries: every request of a submitted batch gets one *)
(* outcome, written once; the batch closes with the step that writes the   *)
(* last of them; cancelling closes it and decides everything still open.   *)
(***************************************************************************)
CONSTANTS BatchIds, UnitIds, Texts, None

VARIABLES
    phase,     \* phase[b]: what the client reads as the batch's status
    asked,     \* asked[b]: the units that stand for the client's requests
    outcome    \* outcome[u]: what the client reads as the unit's result

vars == <<phase, asked, outcome>>

Unasked     == [kind |-> "unasked", text |-> None]
Open        == [kind |-> "open", text |-> None]
DeadLetter  == [kind |-> "failed", text |-> None]
Cancelled   == [kind |-> "cancelled", text |-> None]
Answer(t)   == [kind |-> "answered", text |-> t]

Init ==
    /\ phase = [b \in BatchIds |-> "absent"]
    /\ asked = [b \in BatchIds |-> {}]
    /\ outcome = [u \in UnitIds |-> Unasked]

Submit(b, S) ==
    /\ phase[b] = "absent"
    /\ S # {}
    /\ \A u \in S : outcome[u] = Unasked
    /\ phase' = [phase EXCEPT ![b] = "in_progress"]
    /\ asked' = [asked EXCEPT ![b] = S]
    /\ outcome' = [u \in UnitIds |-> IF u \in S THEN Open ELSE outcome[u]]

Settle(b, u, o) ==
    /\ phase[b] = "in_progress"
    /\ u \in asked[b]
    /\ outcome[u] = Open
    /\ outcome' = [outcome EXCEPT ![u] = o]
    /\ phase' = [phase EXCEPT ![b] =
          IF \E v \in asked[b] \ {u} : outcome[v] = Open THEN "in_progress" ELSE "completed"]
    /\ UNCHANGED asked

Cancel(b) ==
    /\ phase[b] = "in_progress"
    /\ phase' = [phase EXCEPT ![b] = "cancelled"]
    /\ outcome' = [u \in UnitIds |->
          IF u \in asked[b] /\ outcome[u] = Open THEN Cancelled ELSE outcome[u]]
    /\ UNCHANGED asked

Next ==
    \E b \in BatchIds :
        \/ \E S \in SUBSET UnitIds : Submit(b, S)
        \/ \E u \in UnitIds, o \in {Answer(t) : t \in Texts} \cup {DeadLetter} : Settle(b, u, o)
        \/ Cancel(b)

Spec == Init /\ [][Next]_vars
=============================================================================
