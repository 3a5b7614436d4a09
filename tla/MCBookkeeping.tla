--------------------------- MODULE MCBookkeeping ----------------------------
(***************************************************************************)
(* A finite instance of Bookkeeping: two prompts, with one long answer     *)
(* each and the short answer that suits both.                              *)
(***************************************************************************)
EXTENDS Bookkeeping, Planting, TLC

CONSTANTS
    p1, p2,        \* prompts
    long1, long2,  \* their long answers
    yes,           \* the short answer
    Flaky,         \* bound: the nodes that are ever back before they have left
    LeasesBound,   \* bound: leases granted in all
    QueueBound     \* bound: entries in _pending

MCPrompts == {p1, p2}

MCTexts == {long1, long2, yes}

MCShort == {yes}

\* One canary, asked with p1.
MCCanaries == <<[prompt |-> p1, expected |-> long1]>>

\* Only the canary itself agrees with its reference.
SameText(s, t) == s = t

\* The canary's prompt is not one that is answered in a word.
MCReplies == p1 :> {long1} @@ p2 :> {long2, yes}

MCBookNext ==
    /\ BookNext
    /\ MapThenSumSet(LAMBDA u : units'[u].attempts, UnitIds) <= LeasesBound
    /\ Len(pending') <= QueueBound
    /\ overlapped' \subseteq Flaky

MCBookSpec == BookInit /\ [][MCBookNext]_bookVars
=============================================================================
