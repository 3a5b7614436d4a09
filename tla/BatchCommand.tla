---------------------------- MODULE BatchCommand ----------------------------
(***************************************************************************)
(* The command `fleetlm batch` (cmd_batch in src/node_agent/cli.py) as a   *)
(* client of the batch service, over HTTP requests that may be lost on     *)
(* their way there or back.  The service is the ledger that the store      *)
(* implements, read and changed through src/orchestrator/api/batches.py;   *)
(* it is in memory, so an orchestrator that restarts knows no batch.       *)
(***************************************************************************)
EXTENDS Integers, FiniteSets

CONSTANTS
    BatchIds, UnitIds, Texts, None,
    MaxFailures,   \* consecutive poll failures at which the command gives up
    MaxRestarts    \* bound: restarts of the orchestrator

\* A batch has finitely many requests.
ASSUME CommandAssumption ==
    /\ IsFiniteSet(UnitIds)
    /\ MaxFailures \in Nat \ {0}
    /\ MaxRestarts \in Nat

\* None is nothing else a local of cmd_batch is ever set to.
ASSUME NoneAssumption ==
    /\ None \notin BatchIds
    /\ None \notin {0, 1, 130}
    /\ None \notin {"cancelled", "could not cancel"}
    /\ None \notin [status : {"in_progress", "completed", "cancelled"}, failed : Nat]

VARIABLES
    phase, asked, outcome,   \* the service: see UnitLedger
    restarts,                \* how often the orchestrator has restarted
    pc,                      \* where cmd_batch is
    batch_id,                \* the id it was told
    failures,                \* consecutive poll failures
    status,                  \* the last status it read, with the number of failed units
    file,                    \* what it wrote to args.output
    exit,                    \* its exit code
    told                     \* what Ctrl-C printed about the batch

serviceVars == <<phase, asked, outcome>>

vars == <<phase, asked, outcome, restarts, pc, batch_id, failures, status, file, exit, told>>

Service == INSTANCE UnitLedger

\* The body of an answer to the request for results, or that of its 404.
Results(rs) == [found |-> TRUE, results |-> rs]

NotFound == [found |-> FALSE, results |-> <<>>]

CommandInit ==
    /\ Service!Init
    /\ restarts = 0
    /\ pc = "submit"
    /\ batch_id = None
    /\ failures = 0
    /\ status = None
    /\ file = None
    /\ exit = None
    /\ told = None

\* The command ends with exit code x.
Exits(x) == pc' = "done" /\ exit' = x

-----------------------------------------------------------------------------
(***************************************************************************)
(* What the service answers.                                               *)
(***************************************************************************)

Known(b) == phase[b] # "absent"

\* _batch_status: the state and the counts of one moment.
StatusOf(b) ==
    [status |-> phase[b],
     failed |-> Cardinality({u \in asked[b] : outcome[u].kind \in {"failed", "cancelled"}})]

\* get_results: one record per request.
ResultsOf(b) == [u \in asked[b] |-> outcome[u]]

(***************************************************************************)
(* POST /v1/batches.                                                       *)
(***************************************************************************)

\* The request arrives and the batch is created; the answer is on its way.
SubmitArrives(b, S) ==
    /\ pc = "submit"
    /\ Service!Submit(b, S)
    /\ pc' = "submitting"
    /\ UNCHANGED <<restarts, batch_id, failures, status, file, exit, told>>

\* It does not arrive, or is refused.
SubmitFails ==
    /\ pc = "submit"
    /\ Exits(1)
    /\ UNCHANGED <<serviceVars, restarts, batch_id, failures, status, file, told>>

\* Mutant: the loop ends only with a completed batch.
PollsUnlessCompleted(s) == s # "completed"

\* The condition of the while loop.
Polls(s) == s = "in_progress"

\* The 201, with the status of the moment it is written: nodes may have been at
\* work already while they were told of the batch.
SubmitAnswered(b) ==
    /\ pc = "submitting"
    /\ Known(b)
    /\ batch_id' = b
    /\ status' = StatusOf(b)
    /\ pc' = IF Polls(phase[b]) THEN "poll" ELSE "fetch"
    /\ UNCHANGED <<serviceVars, restarts, failures, file, exit, told>>

\* The answer is lost: nobody will ever know the id of the batch.
SubmitAnswerLost ==
    /\ pc = "submitting"
    /\ Exits(1)
    /\ UNCHANGED <<serviceVars, restarts, batch_id, failures, status, file, told>>

(***************************************************************************)
(* The poll loop.                                                          *)
(***************************************************************************)
PollAnswered ==
    /\ pc = "poll"
    /\ Known(batch_id)
    /\ status' = StatusOf(batch_id)
    /\ failures' = 0
    /\ pc' = IF Polls(phase[batch_id]) THEN "poll" ELSE "fetch"
    /\ UNCHANGED <<serviceVars, restarts, batch_id, file, exit, told>>

\* A 404 has no request_counts: the KeyError ends the command.
PollUnknown ==
    /\ pc = "poll"
    /\ ~Known(batch_id)
    /\ Exits(1)
    /\ UNCHANGED <<serviceVars, restarts, batch_id, failures, status, file, told>>

\* Mutant: one failure more than allowed.
PollFailsLate ==
    /\ pc = "poll"
    /\ failures' = failures + 1
    /\ IF failures + 1 > MaxFailures THEN Exits(1) ELSE UNCHANGED <<pc, exit>>
    /\ UNCHANGED <<serviceVars, restarts, batch_id, status, file, told>>

PollFails ==
    /\ pc = "poll"
    /\ failures' = failures + 1
    /\ IF failures + 1 >= MaxFailures THEN Exits(1) ELSE UNCHANGED <<pc, exit>>
    /\ UNCHANGED <<serviceVars, restarts, batch_id, status, file, told>>

(***************************************************************************)
(* GET /v1/batches/{batch_id}/results: the body is written whatever its    *)
(* status code, and the exit code follows from the status read before.     *)
(***************************************************************************)
\* Mutant: failed units do not matter.
ExitCodeAlways(s) == 0

ExitCode(s) == IF s.failed > 0 THEN 1 ELSE 0

Fetch ==
    /\ pc = "fetch"
    /\ file' = IF Known(batch_id) THEN Results(ResultsOf(batch_id)) ELSE NotFound
    /\ Exits(ExitCode(status))
    /\ UNCHANGED <<serviceVars, restarts, batch_id, failures, status, told>>

FetchFails ==
    /\ pc = "fetch"
    /\ Exits(1)
    /\ UNCHANGED <<serviceVars, restarts, batch_id, failures, status, file, told>>

(***************************************************************************)
(* Ctrl-C, anywhere before the results are there.                          *)
(***************************************************************************)
Interrupt ==
    /\ pc \in {"submit", "submitting", "poll", "fetch"}
    /\ IF batch_id = None THEN Exits(130) ELSE pc' = "cancel" /\ UNCHANGED exit
    /\ UNCHANGED <<serviceVars, restarts, batch_id, failures, status, file, told>>

\* The service takes the cancellation, or refuses it with a 409, which is not
\* looked at.
CancelAnswered ==
    /\ pc = "cancel"
    /\ IF phase[batch_id] = "in_progress" THEN Service!Cancel(batch_id) ELSE UNCHANGED serviceVars
    /\ told' = "cancelled"
    /\ Exits(130)
    /\ UNCHANGED <<restarts, batch_id, failures, status, file>>

\* Mutant: any end of the request is taken for an answer.
CancelFailsUnnoticed ==
    /\ pc = "cancel"
    /\ told' = "cancelled"
    /\ Exits(130)
    /\ UNCHANGED <<serviceVars, restarts, batch_id, failures, status, file>>

\* The request is lost, or is carried out and its answer lost.
CancelFails ==
    /\ pc = "cancel"
    /\ \/ UNCHANGED serviceVars
       \/ phase[batch_id] = "in_progress" /\ Service!Cancel(batch_id)
    /\ told' = "could not cancel"
    /\ Exits(130)
    /\ UNCHANGED <<restarts, batch_id, failures, status, file>>
-----------------------------------------------------------------------------
clientVars == <<pc, batch_id, failures, status, file, exit, told>>

\* The fleet settles a unit.
FleetSettles ==
    /\ \E b \in BatchIds, u \in UnitIds :
          \E o \in {Service!Answer(t) : t \in Texts} \cup {Service!DeadLetter} :
              Service!Settle(b, u, o)
    /\ UNCHANGED <<restarts, clientVars>>

\* Somebody else cancels the batch.
OthersCancel ==
    /\ \E b \in BatchIds : Service!Cancel(b)
    /\ UNCHANGED <<restarts, clientVars>>

\* The orchestrator restarts with an empty store.
Restart ==
    /\ restarts < MaxRestarts
    /\ restarts' = restarts + 1
    /\ phase' = [b \in BatchIds |-> "absent"]
    /\ asked' = [b \in BatchIds |-> {}]
    /\ outcome' = [u \in UnitIds |-> Service!Unasked]
    /\ UNCHANGED clientVars

ClientStep ==
    \/ \E b \in BatchIds, S \in SUBSET UnitIds : SubmitArrives(b, S)
    \/ SubmitFails \/ SubmitAnswerLost
    \/ \E b \in BatchIds : SubmitAnswered(b)
    \/ PollAnswered \/ PollUnknown \/ PollFails
    \/ Fetch \/ FetchFails
    \/ CancelAnswered \/ CancelFails

CommandNext == ClientStep \/ Interrupt \/ FleetSettles \/ OthersCancel \/ Restart

\* The command keeps going by itself, and the fleet finishes batches; nothing is
\* assumed of the network, of the user, or of restarts.
CommandSpec ==
    CommandInit /\ [][CommandNext]_vars /\ WF_vars(ClientStep) /\ WF_vars(FleetSettles)
-----------------------------------------------------------------------------
(***************************************************************************)
(* Properties.                                                             *)
(***************************************************************************)

\* The locals of cmd_batch have their shape; it has an id whenever it polls,
\* fetches or cancels, and an exit code exactly when it has ended.
CommandTypeOK ==
    /\ pc \in {"submit", "submitting", "poll", "fetch", "cancel", "done"}
    /\ pc \in {"poll", "fetch", "cancel"} => batch_id \in BatchIds /\ status # None
    /\ failures \in 0 .. MaxFailures
    /\ pc = "poll" => failures < MaxFailures
    /\ exit \in {0, 1, 130, None}
    /\ exit # None <=> pc = "done"
    /\ told \in {"cancelled", "could not cancel", None}

Answered(rs) == \A u \in DOMAIN rs : rs[u].kind = "answered"

\* cmd_batch: "Submit a JSONL file as one batch and write the results back out."
\* The status that decides the exit code and the results in the file are read at
\* different times, with answers and cancellations by others in between; still,
\* what is written is decided for every request and stays what the service has,
\* and the exit code is 0 exactly when all of them were answered.  The one case
\* that goes unnoticed is an orchestrator that forgot the batch after the last
\* poll: the body of its 404 is written, with the exit code of success.
FileMatchesExit ==
    file # None =>
        IF file.found
        THEN /\ exit = 0 <=> Answered(file.results)
             /\ \A u \in DOMAIN file.results : file.results[u].kind # "open"
             /\ restarts = 0 => file.results = ResultsOf(batch_id)
        ELSE restarts > 0

\* "cancelled" is printed only when the fleet no longer works on the batch: it
\* was cancelled, had ended before, or is unknown to the orchestrator.
CancelledMeansStopped == told = "cancelled" => phase[batch_id] # "in_progress"

\* The command ends, whatever is lost on the network and whoever cancels the
\* batch, as long as the fleet finishes what it was given.
CommandEnds == <>(pc = "done")
=============================================================================
