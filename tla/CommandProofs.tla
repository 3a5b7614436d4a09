---------------------------- MODULE CommandProofs ----------------------------
(***************************************************************************)
(* Proofs about BatchCommand for every number of batches and requests, of  *)
(* poll failures and of restarts.                                          *)
(*                                                                         *)
(* That the file agrees with the exit code rests on the service: a batch   *)
(* is in progress exactly while one of its requests is open, so the status *)
(* that ended the poll loop was the last one the batch ever had, unless    *)
(* the orchestrator has forgotten the batch since.                         *)
(***************************************************************************)
EXTENDS BatchCommand, FiniteSetTheorems, TLAPS

Outcomes ==
    {Service!Unasked, Service!Open, Service!DeadLetter, Service!Cancelled}
      \cup {Service!Answer(t) : t \in Texts}

ServiceTypeOK ==
    /\ phase \in [BatchIds -> {"absent", "in_progress", "completed", "cancelled"}]
    /\ asked \in [BatchIds -> SUBSET UnitIds]
    /\ outcome \in [UnitIds -> Outcomes]
    /\ restarts \in Nat

\* A batch is in progress exactly while one of its requests is open; batches
\* share no request and list only what was asked.
ServiceSound ==
    /\ \A b \in BatchIds :
          phase[b] = "in_progress" <=> \E u \in asked[b] : outcome[u] = Service!Open
    /\ \A b, c \in BatchIds : b # c => asked[b] \cap asked[c] = {}
    /\ \A b \in BatchIds : \A u \in asked[b] : outcome[u].kind # "unasked"

\* What the locals say about the way the command has come.
WayKnown ==
    /\ pc \in {"submit", "submitting"} => batch_id = None /\ failures = 0
    /\ batch_id # None => batch_id \in BatchIds
                          /\ status \in [status : {"in_progress", "completed", "cancelled"},
                                         failed : Nat]
    /\ batch_id # None /\ ~Known(batch_id) => restarts > 0
    /\ file # None => pc = "done" /\ batch_id # None
    /\ told = "cancelled" => pc = "done" /\ batch_id # None

\* When the results are about to be fetched, the status that ended the loop is
\* still the batch's, unless the orchestrator knows no batch.
StatusIsLast ==
    pc = "fetch" /\ Known(batch_id) =>
        phase[batch_id] # "in_progress" /\ status.failed = StatusOf(batch_id).failed

\* The inductive invariant.
CInv ==
    /\ CommandTypeOK
    /\ ServiceTypeOK
    /\ ServiceSound
    /\ WayKnown
    /\ StatusIsLast
    /\ FileMatchesExit
    /\ CancelledMeansStopped
-----------------------------------------------------------------------------
\* What is decided stays, and no batch appears or disappears.
Frozen ==
    \A b \in BatchIds :
        /\ Known(b)' <=> Known(b)
        /\ Known(b) /\ phase[b] # "in_progress" =>
              /\ phase'[b] # "in_progress"
              /\ asked'[b] = asked[b]
              /\ \A u \in asked[b] : outcome'[u] = outcome[u]

\* The outcomes the service writes are all different from "open".
LEMMA OutcomeForms ==
    /\ Service!Unasked \in Outcomes /\ Service!Unasked.kind = "unasked"
    /\ Service!Open \in Outcomes /\ Service!Open.kind = "open"
    /\ Service!Cancelled \in Outcomes /\ Service!Cancelled.kind = "cancelled"
    /\ \A o \in {Service!Answer(t) : t \in Texts} \cup {Service!DeadLetter} :
          o \in Outcomes /\ o.kind \notin {"unasked", "open"}
BY DEF Outcomes, Service!Unasked, Service!Open, Service!Cancelled, Service!Answer, Service!DeadLetter

\* Settling a request keeps the service sound and touches no closed batch.
LEMMA SettleEffect ==
    ASSUME ServiceTypeOK, ServiceSound, NEW b \in BatchIds, NEW u \in UnitIds,
           NEW o \in {Service!Answer(t) : t \in Texts} \cup {Service!DeadLetter},
           Service!Settle(b, u, o), restarts' = restarts
    PROVE  ServiceTypeOK' /\ ServiceSound' /\ Frozen
<1>1. o \in Outcomes /\ o.kind \notin {"unasked", "open"} /\ o # Service!Open
  BY OutcomeForms
<1>2. /\ outcome[u] = Service!Open /\ u \in asked[b] /\ asked' = asked
      /\ phase[b] = "in_progress"
      /\ outcome' = [outcome EXCEPT ![u] = o]
      /\ phase' = [phase EXCEPT ![b] =
            IF \E v \in asked[b] \ {u} : outcome[v] = Service!Open
            THEN "in_progress" ELSE "completed"]
  BY DEF Service!Settle
<1>3. ServiceTypeOK'
  BY <1>1, <1>2 DEF ServiceTypeOK
<1>4. \A c \in BatchIds : c # b => u \notin asked[c] /\ phase'[c] = phase[c]
  BY <1>2 DEF ServiceSound, ServiceTypeOK
<1>5. \A v \in UnitIds : v # u => outcome'[v] = outcome[v]
  BY <1>2 DEF ServiceTypeOK
<1>6. outcome'[u] = o
  BY <1>2 DEF ServiceTypeOK
<1>7. \A c \in BatchIds : asked[c] \subseteq UnitIds
  BY DEF ServiceTypeOK
<1>8. ASSUME NEW c \in BatchIds
      PROVE  phase'[c] = "in_progress" <=> \E v \in asked[c] : outcome'[v] = Service!Open
  <2>1. CASE c = b
    <3>1. phase'[b] = IF \E v \in asked[b] \ {u} : outcome[v] = Service!Open
                      THEN "in_progress" ELSE "completed"
      BY <1>2 DEF ServiceTypeOK
    <3> QED
      BY <2>1, <3>1, <1>1, <1>5, <1>6, <1>7
  <2>2. CASE c # b
    BY <2>2, <1>4, <1>5, <1>7 DEF ServiceSound
  <2> QED
    BY <2>1, <2>2
<1>9. ServiceSound'
  BY <1>1, <1>2, <1>5, <1>6, <1>7, <1>8 DEF ServiceSound
<1>10. phase'[b] # "absent"
  BY <1>2 DEF ServiceTypeOK
<1>11. Frozen
  BY <1>2, <1>4, <1>5, <1>7, <1>10 DEF Frozen, Known
<1> QED
  BY <1>3, <1>9, <1>11

\* So does a cancellation.
LEMMA CancelEffect ==
    ASSUME ServiceTypeOK, ServiceSound, NEW b \in BatchIds, Service!Cancel(b),
           restarts' = restarts
    PROVE  ServiceTypeOK' /\ ServiceSound' /\ Frozen /\ phase'[b] # "in_progress"
<1>1. /\ Service!Cancelled \in Outcomes /\ Service!Cancelled.kind = "cancelled"
      /\ Service!Cancelled # Service!Open
  BY OutcomeForms
<1>2. /\ phase[b] = "in_progress" /\ asked' = asked
      /\ phase' = [phase EXCEPT ![b] = "cancelled"]
      /\ outcome' = [u \in UnitIds |->
            IF u \in asked[b] /\ outcome[u] = Service!Open THEN Service!Cancelled ELSE outcome[u]]
  BY DEF Service!Cancel
<1>3. ServiceTypeOK'
  BY <1>1, <1>2 DEF ServiceTypeOK
<1>4. phase'[b] = "cancelled" /\ \A c \in BatchIds : c # b => phase'[c] = phase[c]
  BY <1>2 DEF ServiceTypeOK
<1>5. \A c \in BatchIds : asked[c] \subseteq UnitIds
  BY DEF ServiceTypeOK
<1>6. \A c \in BatchIds : c # b => \A u \in asked[c] : outcome'[u] = outcome[u]
  BY <1>2, <1>5 DEF ServiceSound
<1>7. \A u \in asked[b] : outcome'[u] # Service!Open /\ outcome'[u].kind # "unasked"
  BY <1>1, <1>2, <1>5 DEF ServiceSound
<1>8. ServiceSound'
  <2>1. ASSUME NEW c \in BatchIds
        PROVE  /\ phase'[c] = "in_progress" <=> \E u \in asked[c] : outcome'[u] = Service!Open
               /\ \A u \in asked[c] : outcome'[u].kind # "unasked"
    <3>1. CASE c = b
      BY <3>1, <1>4, <1>7
    <3>2. CASE c # b
      BY <3>2, <1>4, <1>6 DEF ServiceSound
    <3> QED
      BY <3>1, <3>2
  <2> QED
    BY <1>2, <2>1 DEF ServiceSound
<1>9. Frozen
  BY <1>2, <1>4, <1>6 DEF Frozen, Known
<1> QED
  BY <1>3, <1>4, <1>8, <1>9

\* A closed batch has no open request.
LEMMA ClosedIsDecided ==
    ASSUME ServiceTypeOK, ServiceSound, NEW b \in BatchIds, phase[b] # "in_progress",
           NEW u \in asked[b]
    PROVE  outcome[u].kind \in {"failed", "cancelled", "answered"}
<1>1. u \in UnitIds /\ outcome[u] \in Outcomes /\ outcome[u] # Service!Open
  BY DEF ServiceTypeOK, ServiceSound
<1>2. outcome[u].kind # "unasked"
  BY DEF ServiceSound
<1> QED
  BY <1>1, <1>2
  DEF Outcomes, Service!Unasked, Service!Cancelled, Service!Answer, Service!DeadLetter

\* A client reads the same of a closed batch before and after such a step.
LEMMA FrozenViews ==
    ASSUME Frozen, NEW b \in BatchIds, Known(b), phase[b] # "in_progress"
    PROVE  /\ Known(b)' /\ phase'[b] # "in_progress"
           /\ StatusOf(b).failed' = StatusOf(b).failed
           /\ ResultsOf(b)' = ResultsOf(b)
<1>1. /\ Known(b)' /\ phase'[b] # "in_progress" /\ asked'[b] = asked[b]
      /\ \A u \in asked[b] : outcome'[u] = outcome[u]
  BY DEF Frozen
<1>2. {u \in asked'[b] : outcome'[u].kind \in {"failed", "cancelled"}}
        = {u \in asked[b] : outcome[u].kind \in {"failed", "cancelled"}}
  BY <1>1
<1>3. StatusOf(b).failed' = StatusOf(b).failed
  BY <1>2 DEF StatusOf
<1>4. ResultsOf(b)' = ResultsOf(b)
  BY <1>1 DEF ResultsOf
<1> QED
  BY <1>1, <1>3, <1>4

\* The status of a batch the service knows.
LEMMA StatusTyped ==
    ASSUME ServiceTypeOK, NEW b \in BatchIds, Known(b)
    PROVE  /\ StatusOf(b) \in [status : {"in_progress", "completed", "cancelled"}, failed : Nat]
           /\ StatusOf(b) # None
           /\ StatusOf(b).failed = 0 <=>
                 \A u \in asked[b] : outcome[u].kind \notin {"failed", "cancelled"}
<1> DEFINE F == {u \in asked[b] : outcome[u].kind \in {"failed", "cancelled"}}
<1>1. F \in SUBSET UnitIds
  BY DEF ServiceTypeOK
<1>2. IsFiniteSet(F)
  BY <1>1, CommandAssumption, FS_Subset
<1>3. Cardinality(F) \in Nat /\ (Cardinality(F) = 0 <=> F = {})
  BY <1>2, FS_CardinalityType, FS_EmptySet
<1>4. phase[b] \in {"in_progress", "completed", "cancelled"}
  BY DEF ServiceTypeOK, Known
<1>5. StatusOf(b) = [status |-> phase[b], failed |-> Cardinality(F)]
  BY DEF StatusOf
<1>6. F = {} <=> \A u \in asked[b] : outcome[u].kind \notin {"failed", "cancelled"}
  OBVIOUS
<1> HIDE DEF F
<1>7. StatusOf(b) \in [status : {"in_progress", "completed", "cancelled"}, failed : Nat]
  BY <1>3, <1>4, <1>5
<1>8. StatusOf(b) # None
  BY <1>7, NoneAssumption
<1>9. StatusOf(b).failed = Cardinality(F)
  BY <1>5
<1> QED
  BY <1>3, <1>6, <1>7, <1>8, <1>9

\* The service without a step.
LEMMA ServiceIdle ==
    ASSUME ServiceTypeOK, ServiceSound, UNCHANGED <<serviceVars, restarts>>
    PROVE  ServiceTypeOK' /\ ServiceSound' /\ Frozen
BY DEF serviceVars, ServiceTypeOK, ServiceSound, Frozen, Known

\* The command does not see what others do to the service.
LEMMA OthersPreserve ==
    ASSUME CInv, ServiceTypeOK', ServiceSound', Frozen, restarts' = restarts,
           UNCHANGED clientVars
    PROVE  CInv'
<1>1. CommandTypeOK'
  BY DEF CInv, CommandTypeOK, clientVars
<1>2. WayKnown'
  <2>1. \A b \in BatchIds : Known(b)' <=> Known(b)
    BY DEF Frozen
  <2>2. batch_id # None => batch_id \in BatchIds
    BY DEF CInv, WayKnown
  <2>3. batch_id' = batch_id
    BY DEF clientVars
  <2>4. batch_id # None => (Known(batch_id)' <=> Known(batch_id))
    BY <2>1, <2>2, <2>3 DEF Known
  <2> QED
    BY <2>3, <2>4 DEF CInv, WayKnown, clientVars
<1>3. pc = "fetch" => batch_id \in BatchIds
  BY DEF CInv, CommandTypeOK
<1>4. UNCHANGED <<pc, batch_id, status, file, exit, told>>
  BY DEF clientVars
<1>5. StatusIsLast'
  <2> SUFFICES ASSUME pc = "fetch", Known(batch_id)'
               PROVE  phase'[batch_id] # "in_progress" /\ status.failed = StatusOf(batch_id).failed'
    BY <1>4 DEF StatusIsLast, StatusOf
  <2>1. batch_id \in BatchIds /\ Known(batch_id)
    BY <1>3, <1>4 DEF Frozen, Known
  <2>2. phase[batch_id] # "in_progress" /\ status.failed = StatusOf(batch_id).failed
    BY <2>1 DEF CInv, StatusIsLast
  <2>3. PICK b \in BatchIds : b = batch_id
    BY <2>1
  <2>4. phase'[b] # "in_progress" /\ StatusOf(b).failed' = StatusOf(b).failed
    BY <2>1, <2>2, <2>3, FrozenViews
  <2> QED
    BY <1>4, <2>2, <2>3, <2>4 DEF StatusOf
<1>6. FileMatchesExit'
  <2>1. CASE file # None /\ file.found /\ restarts = 0
    <3>1. batch_id \in BatchIds /\ Known(batch_id)
      BY <2>1 DEF CInv, WayKnown, ServiceTypeOK
    <3>2. /\ \A u \in DOMAIN file.results : file.results[u].kind # "open"
          /\ file.results = ResultsOf(batch_id)
      BY <2>1 DEF CInv, FileMatchesExit
    <3>3. \A u \in asked[batch_id] : outcome[u] # Service!Open
      BY <3>2, OutcomeForms DEF ResultsOf
    <3>4. phase[batch_id] # "in_progress"
      BY <3>1, <3>3 DEF CInv, ServiceSound
    <3>5. PICK b \in BatchIds : b = batch_id
      BY <3>1
    <3>6. ResultsOf(b)' = ResultsOf(b)
      BY <3>1, <3>4, <3>5, FrozenViews
    <3>7. ResultsOf(batch_id)' = ResultsOf(batch_id)
      BY <1>4, <3>5, <3>6 DEF ResultsOf
    <3> QED
      BY <1>4, <3>7 DEF CInv, FileMatchesExit
  <2>2. CASE ~(file # None /\ file.found /\ restarts = 0)
    BY <1>4, <2>2 DEF CInv, FileMatchesExit
  <2> QED
    BY <2>1, <2>2
<1>7. CancelledMeansStopped'
  <2> SUFFICES ASSUME told = "cancelled" PROVE phase'[batch_id] # "in_progress"
    BY <1>4 DEF CancelledMeansStopped
  <2>1. batch_id \in BatchIds /\ phase[batch_id] # "in_progress"
    BY DEF CInv, WayKnown, CancelledMeansStopped
  <2> QED
    BY <2>1 DEF Frozen, Known, ServiceTypeOK
<1> QED
  BY <1>1, <1>2, <1>5, <1>6, <1>7 DEF CInv
-----------------------------------------------------------------------------
\* The batch is created while the command waits for the answer.
LEMMA SubmitArrivesPreserves ==
    ASSUME CInv, NEW b \in BatchIds, NEW S \in SUBSET UnitIds, SubmitArrives(b, S)
    PROVE  CInv'
<1>1. /\ phase[b] = "absent" /\ S # {} /\ \A u \in S : outcome[u] = Service!Unasked
      /\ phase' = [phase EXCEPT ![b] = "in_progress"]
      /\ asked' = [asked EXCEPT ![b] = S]
      /\ outcome' = [u \in UnitIds |-> IF u \in S THEN Service!Open ELSE outcome[u]]
  BY DEF SubmitArrives, Service!Submit
<1>2. /\ pc = "submit" /\ pc' = "submitting"
      /\ UNCHANGED <<restarts, batch_id, failures, status, file, exit, told>>
  BY DEF SubmitArrives
<1>3. ServiceTypeOK /\ ServiceSound
  BY DEF CInv
<1>4. ServiceTypeOK'
  BY <1>1, <1>2, <1>3, OutcomeForms DEF ServiceTypeOK
<1>5. /\ phase'[b] = "in_progress" /\ asked'[b] = S
      /\ \A c \in BatchIds : c # b => phase'[c] = phase[c] /\ asked'[c] = asked[c]
  BY <1>1, <1>3 DEF ServiceTypeOK
<1>6. \A c \in BatchIds : asked[c] \cap S = {}
  BY <1>1, <1>3, OutcomeForms DEF ServiceSound
<1>7. \A u \in S : outcome'[u] = Service!Open
  BY <1>1
<1>8. \A c \in BatchIds : c # b => \A u \in asked[c] : outcome'[u] = outcome[u]
  BY <1>1, <1>3, <1>6 DEF ServiceTypeOK
<1>9. ServiceSound'
  <2>1. ASSUME NEW c \in BatchIds
        PROVE  /\ phase'[c] = "in_progress" <=> \E u \in asked'[c] : outcome'[u] = Service!Open
               /\ \A u \in asked'[c] : outcome'[u].kind # "unasked"
    <3>1. CASE c = b
      BY <3>1, <1>1, <1>5, <1>7, OutcomeForms
    <3>2. CASE c # b
      BY <3>2, <1>3, <1>5, <1>8 DEF ServiceSound
    <3> QED
      BY <3>1, <3>2
  <2>2. \A c, d \in BatchIds : c # d => asked'[c] \cap asked'[d] = {}
    BY <1>3, <1>5, <1>6 DEF ServiceSound
  <2> QED
    BY <2>1, <2>2 DEF ServiceSound
<1>10. CommandTypeOK'
  BY <1>2, NoneAssumption DEF CInv, CommandTypeOK
<1>11. batch_id = None /\ file = None /\ told # "cancelled"
  BY <1>2 DEF CInv, WayKnown
<1>12. WayKnown' /\ StatusIsLast' /\ FileMatchesExit' /\ CancelledMeansStopped'
  BY <1>2, <1>11 DEF CInv, WayKnown, StatusIsLast, FileMatchesExit, CancelledMeansStopped
<1> QED
  BY <1>4, <1>9, <1>10, <1>12 DEF CInv

\* The command reads the status of a batch, at the end of the submission or in
\* the loop.
LEMMA StatusReadPreserves ==
    ASSUME CInv, NEW b \in BatchIds, Known(b), pc \in {"submitting", "poll"},
           batch_id' = b, status' = StatusOf(b), failures' \in {0, failures},
           pc' = IF Polls(phase[b]) THEN "poll" ELSE "fetch",
           UNCHANGED <<serviceVars, restarts, file, exit, told>>
    PROVE  CInv'
<1>1. ServiceTypeOK' /\ ServiceSound'
  BY ServiceIdle DEF CInv
<1>2. /\ StatusOf(b) \in [status : {"in_progress", "completed", "cancelled"}, failed : Nat]
      /\ StatusOf(b) # None
  BY StatusTyped DEF CInv
<1>3. exit = None /\ file = None /\ told # "cancelled" /\ failures \in 0 .. MaxFailures
  BY DEF CInv, WayKnown, CommandTypeOK
<1>4. failures' \in 0 .. MaxFailures /\ failures' < MaxFailures
  <2>1. MaxFailures \in Nat /\ 0 < MaxFailures
    BY CommandAssumption
  <2>2. failures = 0 \/ failures < MaxFailures
    BY DEF CInv, WayKnown, CommandTypeOK
  <2>3. CASE failures' = 0
    BY <2>1, <2>3
  <2>4. CASE failures' = failures
    BY <1>3, <2>1, <2>2, <2>4
  <2> QED
    BY <2>3, <2>4
<1>5. pc' \in {"poll", "fetch"}
  OBVIOUS
<1>6. CommandTypeOK'
  BY <1>2, <1>3, <1>4, <1>5 DEF CInv, CommandTypeOK
<1>7. phase'[b] = phase[b] /\ Known(b)' /\ StatusOf(b)' = StatusOf(b)
  BY DEF serviceVars, Known, StatusOf
<1>8. WayKnown'
  BY <1>2, <1>3, <1>5, <1>7 DEF WayKnown, Known
<1>9. StatusIsLast'
  BY <1>7 DEF StatusIsLast, Polls, StatusOf
<1> QED
  BY <1>1, <1>3, <1>6, <1>8, <1>9 DEF CInv, FileMatchesExit, CancelledMeansStopped

\* A step that gives up, or that Ctrl-C turns to the cancellation, leaves the
\* service and what was read of it alone.
LEMMA GivingUpPreserves ==
    ASSUME CInv, pc # "done", pc' \in {"done", "cancel"}, exit' \in {1, 130, None},
           exit' # None <=> pc' = "done",
           pc' = "cancel" => batch_id # None,
           failures' \in 0 .. MaxFailures,
           UNCHANGED <<serviceVars, restarts, batch_id, status, file, told>>
    PROVE  CInv'
<1>1. ServiceTypeOK' /\ ServiceSound'
  BY ServiceIdle DEF CInv
<1>2. file = None /\ told # "cancelled"
  BY DEF CInv, WayKnown
<1>3. batch_id # None => batch_id \in BatchIds /\ status # None
  BY NoneAssumption DEF CInv, WayKnown
<1>4. CommandTypeOK'
  BY <1>3 DEF CInv, CommandTypeOK
<1>5. WayKnown'
  BY <1>2 DEF CInv, WayKnown, Known, serviceVars
<1> QED
  BY <1>1, <1>2, <1>4, <1>5 DEF CInv, StatusIsLast, FileMatchesExit, CancelledMeansStopped

\* The file is written: its results are decided, and the exit code is 0 exactly
\* when all of them are answers.
LEMMA FetchPreserves == ASSUME CInv, Fetch PROVE CInv'
<1>1. /\ pc = "fetch" /\ pc' = "done" /\ exit' = ExitCode(status)
      /\ file' = IF Known(batch_id) THEN Results(ResultsOf(batch_id)) ELSE NotFound
      /\ UNCHANGED <<serviceVars, restarts, batch_id, failures, status, told>>
  BY DEF Fetch, Exits
<1>2. ServiceTypeOK' /\ ServiceSound'
  BY <1>1, ServiceIdle DEF CInv
<1>3. batch_id \in BatchIds /\ status # None /\ told # "cancelled"
  BY <1>1 DEF CInv, CommandTypeOK, WayKnown
<1>4. batch_id # None => status \in [status : {"in_progress", "completed", "cancelled"}, failed : Nat]
  BY DEF CInv, WayKnown
<1>5. exit' \in {0, 1} /\ exit' # None
  BY <1>1, NoneAssumption DEF ExitCode
<1>6. CommandTypeOK'
  BY <1>1, <1>3, <1>5 DEF CInv, CommandTypeOK
<1>7. batch_id # None
  BY <1>3, NoneAssumption
<1>8. WayKnown'
  BY <1>1, <1>3, <1>7 DEF CInv, WayKnown, Known, serviceVars
<1>9. FileMatchesExit'
  <2>1. CASE Known(batch_id)
    <3>1. PICK b \in BatchIds : b = batch_id
      BY <1>3
    <3>2. phase[b] # "in_progress" /\ status.failed = StatusOf(b).failed
      BY <1>1, <2>1, <3>1 DEF CInv, StatusIsLast
    <3>3. \A u \in asked[b] : outcome[u].kind \in {"failed", "cancelled", "answered"}
      BY <3>2, ClosedIsDecided DEF CInv
    <3>4. StatusOf(b).failed \in Nat
          /\ (StatusOf(b).failed = 0 <=>
                 \A u \in asked[b] : outcome[u].kind \notin {"failed", "cancelled"})
      BY <2>1, <3>1, StatusTyped DEF CInv
    <3>5. exit' = 0 <=> \A u \in asked[b] : outcome[u].kind = "answered"
      <4>1. exit' = 0 <=> status.failed = 0
        BY <1>1, <3>2, <3>4 DEF ExitCode
      <4> QED
        BY <4>1, <3>2, <3>3, <3>4
    <3>6. file'.found /\ file'.results = [u \in asked[b] |-> outcome[u]]
      BY <1>1, <2>1, <3>1 DEF Results, ResultsOf
    <3>7. ResultsOf(batch_id)' = [u \in asked[b] |-> outcome[u]]
      BY <1>1, <3>1 DEF ResultsOf, serviceVars
    <3>8. exit' = 0 <=> Answered(file'.results)
      BY <3>5, <3>6 DEF Answered
    <3>9. \A u \in DOMAIN file'.results : file'.results[u].kind # "open"
      BY <3>3, <3>6
    <3> QED
      BY <3>6, <3>7, <3>8, <3>9 DEF FileMatchesExit, Answered
  <2>2. CASE ~Known(batch_id)
    <3>1. restarts > 0
      BY <1>7, <2>2 DEF CInv, WayKnown
    <3>2. ~file'.found
      BY <1>1, <2>2 DEF NotFound
    <3> QED
      BY <1>1, <3>1, <3>2 DEF FileMatchesExit
  <2> QED
    BY <2>1, <2>2
<1> QED
  BY <1>1, <1>2, <1>3, <1>6, <1>8, <1>9 DEF CInv, StatusIsLast, CancelledMeansStopped

\* The command leaves with the cancellation sent: if it says "cancelled", the
\* service has answered, and the batch is not in progress.
LEMMA CancelPreserves ==
    ASSUME CInv, CancelAnswered \/ CancelFails
    PROVE  CInv'
<1>1. /\ pc = "cancel" /\ pc' = "done" /\ exit' = 130
      /\ told' \in {"cancelled", "could not cancel"}
      /\ UNCHANGED <<restarts, batch_id, failures, status, file>>
  BY DEF CancelAnswered, CancelFails, Exits
<1>2. batch_id \in BatchIds /\ status # None /\ file = None
  BY <1>1 DEF CInv, CommandTypeOK, WayKnown
<1>3. /\ ServiceTypeOK' /\ ServiceSound' /\ Frozen
      /\ told' = "cancelled" => phase'[batch_id] # "in_progress"
  <2>1. CASE Service!Cancel(batch_id)
    BY <1>1, <1>2, <2>1, CancelEffect DEF CInv
  <2>2. CASE UNCHANGED serviceVars /\ (CancelAnswered => phase[batch_id] # "in_progress")
    <3>1. ServiceTypeOK' /\ ServiceSound' /\ Frozen
      BY <1>1, <2>2, ServiceIdle DEF CInv
    <3>2. told' = "cancelled" => CancelAnswered
      BY DEF CancelFails
    <3> QED
      BY <2>2, <3>1, <3>2 DEF serviceVars
  <2> QED
    BY <2>1, <2>2 DEF CancelAnswered, CancelFails
<1>4. exit' # None
  BY <1>1, NoneAssumption
<1>5. CommandTypeOK'
  BY <1>1, <1>2, <1>4 DEF CInv, CommandTypeOK
<1>6. WayKnown'
  <2>1. Known(batch_id)' <=> Known(batch_id)
    BY <1>1, <1>2, <1>3 DEF Frozen, Known
  <2> QED
    BY <1>1, <1>2, <2>1, NoneAssumption DEF CInv, WayKnown
<1>7. StatusIsLast' /\ FileMatchesExit'
  BY <1>1, <1>2 DEF StatusIsLast, FileMatchesExit
<1>8. CancelledMeansStopped'
  BY <1>1, <1>3 DEF CancelledMeansStopped
<1> QED
  BY <1>3, <1>5, <1>6, <1>7, <1>8 DEF CInv

\* After a restart the service knows no batch.
LEMMA RestartPreserves == ASSUME CInv, Restart PROVE CInv'
<1>1. /\ restarts' = restarts + 1
      /\ phase' = [b \in BatchIds |-> "absent"]
      /\ asked' = [b \in BatchIds |-> {}]
      /\ outcome' = [u \in UnitIds |-> Service!Unasked]
      /\ UNCHANGED <<pc, batch_id, failures, status, file, exit, told>>
  BY DEF Restart, clientVars
<1>2. restarts \in Nat /\ restarts' \in Nat /\ restarts' > 0
  BY <1>1 DEF CInv, ServiceTypeOK
<1>3. ServiceTypeOK' /\ ServiceSound'
  BY <1>1, <1>2, OutcomeForms DEF ServiceTypeOK, ServiceSound
<1>4. CommandTypeOK'
  BY <1>1 DEF CInv, CommandTypeOK
<1>5. WayKnown'
  BY <1>1, <1>2 DEF CInv, WayKnown
<1>6. StatusIsLast'
  BY <1>1 DEF CInv, CommandTypeOK, StatusIsLast, Known
<1>7. FileMatchesExit'
  BY <1>1, <1>2 DEF CInv, FileMatchesExit
<1>8. CancelledMeansStopped'
  BY <1>1 DEF CInv, WayKnown, CancelledMeansStopped
<1> QED
  BY <1>3, <1>4, <1>5, <1>6, <1>7, <1>8 DEF CInv

\* At the start nothing is submitted.
LEMMA CommandInitEstablishes == CommandInit => CInv
<1> SUFFICES ASSUME CommandInit PROVE CInv
  OBVIOUS
<1>1. /\ restarts = 0 /\ pc = "submit" /\ batch_id = None /\ failures = 0
      /\ status = None /\ file = None /\ exit = None /\ told = None
      /\ phase = [b \in BatchIds |-> "absent"]
      /\ asked = [b \in BatchIds |-> {}]
      /\ outcome = [u \in UnitIds |-> Service!Unasked]
  BY DEF CommandInit, Service!Init
<1>2. ServiceTypeOK /\ ServiceSound
  BY <1>1, OutcomeForms DEF ServiceTypeOK, ServiceSound
<1>3. CommandTypeOK
  <2>1. failures \in 0 .. MaxFailures
    BY <1>1, CommandAssumption
  <2> QED
    BY <1>1, <2>1, NoneAssumption DEF CommandTypeOK
<1> QED
  BY <1>1, <1>2, <1>3, NoneAssumption
  DEF CInv, WayKnown, StatusIsLast, FileMatchesExit, CancelledMeansStopped

\* Every step preserves the invariant.
LEMMA CommandNextPreserves == CInv /\ [CommandNext]_vars => CInv'
<1> SUFFICES ASSUME CInv, [CommandNext]_vars PROVE CInv'
  OBVIOUS
<1> USE DEF Exits
<1>1. ASSUME NEW b \in BatchIds, NEW S \in SUBSET UnitIds, SubmitArrives(b, S)
      PROVE  CInv'
  BY <1>1, SubmitArrivesPreserves
<1>2. ASSUME NEW b \in BatchIds, SubmitAnswered(b)
      PROVE  CInv'
  BY <1>2, StatusReadPreserves DEF SubmitAnswered
<1>3. CASE PollAnswered
  <2>1. batch_id \in BatchIds
    BY <1>3 DEF PollAnswered, CInv, CommandTypeOK
  <2> QED
    BY <1>3, <2>1, StatusReadPreserves DEF PollAnswered
<1>4. CASE SubmitFails \/ SubmitAnswerLost \/ PollUnknown \/ FetchFails \/ Interrupt
  <2>1. failures \in 0 .. MaxFailures /\ (pc # "done" => exit = None)
    BY DEF CInv, CommandTypeOK
  <2>2. 1 # None /\ 130 # None
    BY NoneAssumption
  <2>3. /\ pc # "done" /\ failures' = failures
        /\ UNCHANGED <<serviceVars, restarts, batch_id, status, file, told>>
    BY <1>4 DEF SubmitFails, SubmitAnswerLost, PollUnknown, FetchFails, Interrupt
  <2>4. \/ pc' = "done" /\ exit' \in {1, 130}
        \/ pc' = "cancel" /\ exit' = None /\ batch_id # None
    BY <1>4, <2>1, <2>3 DEF SubmitFails, SubmitAnswerLost, PollUnknown, FetchFails, Interrupt
  <2> QED
    BY <2>1, <2>2, <2>3, <2>4, GivingUpPreserves
<1>5. CASE PollFails
  <2>1. /\ pc = "poll" /\ failures' = failures + 1
        /\ UNCHANGED <<serviceVars, restarts, batch_id, status, file, told>>
    BY <1>5 DEF PollFails
  <2>2. /\ failures \in 0 .. MaxFailures /\ failures < MaxFailures
        /\ exit = None /\ file = None /\ told # "cancelled"
    BY <2>1 DEF CInv, CommandTypeOK, WayKnown
  <2>3. failures' \in 0 .. MaxFailures
    BY <2>1, <2>2, CommandAssumption
  <2>4. CASE failures + 1 >= MaxFailures
    <3>1. pc' = "done" /\ exit' = 1 /\ exit' # None
      BY <1>5, <2>4, NoneAssumption DEF PollFails
    <3> QED
      BY <2>1, <2>3, <3>1, GivingUpPreserves
  <2>5. CASE ~(failures + 1 >= MaxFailures)
    <3>1. UNCHANGED <<pc, exit>>
      BY <1>5, <2>5 DEF PollFails
    <3>2. failures' < MaxFailures
      BY <2>1, <2>2, <2>5, CommandAssumption
    <3>3. CommandTypeOK'
      BY <2>1, <2>3, <3>1, <3>2 DEF CInv, CommandTypeOK
    <3>4. ServiceTypeOK' /\ ServiceSound'
      BY <2>1, ServiceIdle DEF CInv
    <3>5. WayKnown'
      BY <2>1, <2>2, <3>1 DEF CInv, WayKnown, Known, serviceVars
    <3> QED
      BY <2>1, <2>2, <3>1, <3>3, <3>4, <3>5
      DEF CInv, StatusIsLast, FileMatchesExit, CancelledMeansStopped
  <2> QED
    BY <2>4, <2>5
<1>6. CASE Fetch
  BY <1>6, FetchPreserves
<1>7. CASE CancelAnswered \/ CancelFails
  BY <1>7, CancelPreserves
<1>8. CASE FleetSettles
  <2>1. PICK b \in BatchIds, u \in UnitIds,
             o \in {Service!Answer(t) : t \in Texts} \cup {Service!DeadLetter} :
                 Service!Settle(b, u, o)
    BY <1>8 DEF FleetSettles
  <2> QED
    BY <1>8, <2>1, SettleEffect, OthersPreserve DEF FleetSettles, CInv
<1>9. CASE OthersCancel
  <2>1. PICK b \in BatchIds : Service!Cancel(b)
    BY <1>9 DEF OthersCancel
  <2> QED
    BY <1>9, <2>1, CancelEffect, OthersPreserve DEF OthersCancel, CInv
<1>10. CASE Restart
  BY <1>10, RestartPreserves
<1>11. CASE UNCHANGED vars
  <2>1. UNCHANGED <<serviceVars, restarts>> /\ UNCHANGED clientVars
    BY <1>11 DEF vars, serviceVars, clientVars
  <2>2. ServiceTypeOK' /\ ServiceSound' /\ Frozen
    BY <2>1, ServiceIdle DEF CInv
  <2> QED
    BY <2>1, <2>2, OthersPreserve
<1> QED
  BY <1>1, <1>2, <1>3, <1>4, <1>5, <1>6, <1>7, <1>8, <1>9, <1>10, <1>11
  DEF CommandNext, ClientStep

\* The conjunction is an inductive invariant of the command and the service it
\* talks to, whatever is lost on the network and whenever the service restarts.
THEOREM CommandInvariance == CommandSpec => []CInv
<1>1. CommandInit => CInv
  BY CommandInitEstablishes
<1>2. CInv /\ [CommandNext]_vars => CInv'
  BY CommandNextPreserves
<1> QED
  BY <1>1, <1>2, PTL DEF CommandSpec

\* The locals of cmd_batch keep their shape: an id whenever it polls, fetches or
\* cancels, an exit code exactly at the end, no poll after the last failure allowed.
THEOREM CommandTypeCorrect == CommandSpec => []CommandTypeOK
BY CommandInvariance, PTL DEF CInv

\* The file agrees with the exit code: what is written is decided and stays what
\* the service has, and the exit code is 0 exactly when all of it was answered,
\* although status and results are read at different times.
THEOREM FileIsFaithful == CommandSpec => []FileMatchesExit
BY CommandInvariance, PTL DEF CInv

\* "cancelled" is printed only when the fleet has stopped working on the batch.
THEOREM CancelIsFaithful == CommandSpec => []CancelledMeansStopped
BY CommandInvariance, PTL DEF CInv
=============================================================================
