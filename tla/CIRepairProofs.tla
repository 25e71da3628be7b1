--------------------------- MODULE CIRepairProofs ---------------------------
(***************************************************************************)
(* Theorems about CIRepair for any policy, number of pushes, waits and     *)
(* crashes: the attempt rows and the task agree, charges are counted once, *)
(* and the tables implement CILifecycle.  The inductive invariant orders   *)
(* the attempt rows by the number of charged attempts and says what the    *)
(* worker holds between its calls.                                         *)
(***************************************************************************)
EXTENDS CIRepair, FiniteSetTheorems, TLAPS

\* A pending escalation has a try left.
TriesLeft == esc.st = "pending" => esc.tries < ReportRetryMax

\* Charged attempts come first, at most one row follows them, and only the last
\* row can be ready or running, in the state of the task that says so.
Ordered ==
    LET a == task.attempts
    IN  /\ \A n \in Numbers : atts[n].charged <=> n <= a
        /\ \A n \in Numbers : n <= a => atts[n].st # "none"
        /\ \A n \in Numbers : atts[n].st # "none" => n <= a + 1
        /\ \A n \in Numbers : atts[n].st = "ready" => task.st = "repair_ready" /\ n = a + 1
        /\ \A n \in Numbers : atts[n].st = "running" =>
              /\ task.st = "repair_running"
              /\ n = a + 1 \/ (n = a /\ \A m \in Numbers : m > n => atts[m].st = "none")
        /\ task.st = "repair_ready" => \E n \in Numbers : atts[n].st = "ready"
        /\ task.st = "repair_running" => \E n \in Numbers : atts[n].st = "running"
        /\ task.st = "waiting_ci" => \A n \in Numbers : atts[n].st # "none" => n <= a

Polling == {"status", "answered", "look", "resume", "resumed", "terminal", "charge", "deliver"}

\* What the worker claimed is still there when it writes: nobody else moves the task.
WorkerHolds ==
    /\ pc \in {"observe", "observed"} => cur \in Heads /\ task.st = "waiting_ci"
    /\ pc \in {"launch", "launched"} =>
          cur \in Numbers /\ task.st = "repair_ready" /\ atts[cur].st = "ready"
    /\ pc \in Polling =>
          cur \in Numbers /\ task.st = "repair_running" /\ atts[cur].st = "running"

IInv == TypeOK /\ TriesLeft /\ Ordered /\ WorkerHolds

-----------------------------------------------------------------------------
(* Type correctness, one lemma per group of actions. *)

\* Rows the code writes are rows.
LEMMA Rows ==
    /\ 0 \in Heads
    /\ NoAttempt \in Attempts
    /\ NoRun \in Runs
    /\ \A h \in Heads : Ready(h) \in Attempts
    /\ \A st \in {"queued", "running", "completed"}, due \in BOOLEAN : Row(st, due) \in Reconciliations
  <1>1. 0 \in Heads /\ 0 \in 0..MaxGeneration
    BY CIConstants DEF Heads
  <1>2. NoAttempt \in Attempts
    BY <1>1, Zenon DEF NoAttempt, Attempts
  <1>3. NoRun \in Runs
    BY <1>1, Zenon DEF NoRun, Runs
  <1>4. ASSUME NEW h \in Heads PROVE Ready(h) \in Attempts
    BY <1>2, Zenon DEF Ready, Attempts
  <1>5. ASSUME NEW st \in {"queued", "running", "completed"}, NEW due \in BOOLEAN
        PROVE  Row(st, due) \in Reconciliations
    BY Zenon DEF Row, Reconciliations
  <1> QED
    BY <1>1, <1>2, <1>3, <1>4, <1>5, Zenon

\* Numbers and heads are numbers.
LEMMA Indices == Numbers \subseteq Nat /\ Heads \subseteq Nat
  BY CIConstants DEF Numbers, Heads

\* There is a reporter or there is none.
LEMMA ReporterType == \A r \in Reporters : r \in BOOLEAN
  <1>1. Reporters = {TRUE} \/ Reporters = {FALSE} \/ Reporters = BOOLEAN
    BY CIConstants, Zenon
  <1> QED
    BY <1>1, Zenon

\* The changes the code makes to a task give a task.
LEMMA TaskEdits ==
    ASSUME NEW t \in Tasks
    PROVE  /\ \A st \in TaskStates : [t EXCEPT !.st = st] \in Tasks
           /\ \A wake \in BOOLEAN : [t EXCEPT !.wake = wake] \in Tasks
           /\ \A st \in TaskStates : [t EXCEPT !.st = st, !.wake = FALSE] \in Tasks
           /\ \A h \in Heads : [t EXCEPT !.head = h, !.wake = FALSE] \in Tasks
           /\ \A st \in TaskStates, h \in Heads : [t EXCEPT !.st = st, !.head = h, !.wake = FALSE] \in Tasks
           /\ \A n \in 0..MaxAttempts : [t EXCEPT !.attempts = n] \in Tasks
  BY Zenon DEF Tasks

\* The changes the code makes to an attempt give an attempt.
LEMMA AttemptEdits ==
    ASSUME NEW x \in Attempts
    PROVE  /\ \A due \in BOOLEAN : [x EXCEPT !.due = due] \in Attempts
           /\ \A st \in {"running", "delivered"} : [x EXCEPT !.st = st, !.due = FALSE] \in Attempts
           /\ \A started \in BOOLEAN :
                 [x EXCEPT !.st = "failed", !.charged = @ \/ started, !.due = FALSE] \in Attempts
           /\ [x EXCEPT !.charged = TRUE] \in Attempts
           /\ \A g \in 0..MaxGeneration : [x EXCEPT !.gen = g] \in Attempts
           /\ \A g \in 0..MaxGeneration : [x EXCEPT !.resumed = g] \in Attempts
           /\ \A g \in 0..MaxGeneration : [x EXCEPT !.resumed = g, !.due = FALSE] \in Attempts
  BY Zenon DEF Attempts

\* The same for the table.
LEMMA AttemptsEdits ==
    ASSUME NEW f \in [Numbers -> Attempts], NEW n \in Numbers
    PROVE  /\ \A due \in BOOLEAN : [f EXCEPT ![n].due = due] \in [Numbers -> Attempts]
           /\ \A st \in {"running", "delivered"} :
                 [f EXCEPT ![n].st = st, ![n].due = FALSE] \in [Numbers -> Attempts]
           /\ \A started \in BOOLEAN :
                 [f EXCEPT ![n].st = "failed", ![n].charged = @ \/ started, ![n].due = FALSE]
                   \in [Numbers -> Attempts]
           /\ [f EXCEPT ![n].charged = TRUE] \in [Numbers -> Attempts]
           /\ \A g \in 0..MaxGeneration : [f EXCEPT ![n].gen = g] \in [Numbers -> Attempts]
           /\ \A g \in 0..MaxGeneration : [f EXCEPT ![n].resumed = g] \in [Numbers -> Attempts]
           /\ \A g \in 0..MaxGeneration :
                 [f EXCEPT ![n].resumed = g, ![n].due = FALSE] \in [Numbers -> Attempts]
  BY AttemptEdits, Zenon

\* A deadline that passed keeps the reconciliation rows well typed.
LEMMA WokenType ==
    ASSUME TypeOK
    PROVE  Woken \in [Heads -> Reconciliations]
  BY Zenon DEF TypeOK, Woken, Reconciliations, Tasks

\* The first state is well typed.
LEMMA InitType == Init => TypeOK /\ TriesLeft
  <1> SUFFICES ASSUME Init PROVE TypeOK /\ TriesLeft
    BY Zenon
  <1> USE DEF Init
  <1>1. task \in Tasks
    BY Rows, CIConstants DEF Tasks, TaskStates
  <1>2. recs \in [Heads -> Reconciliations]
    BY Zenon DEF Reconciliations
  <1>3. esc \in Escalations
    BY CIConstants DEF Escalations
  <1>4. atts \in [Numbers -> Attempts] /\ runs \in [Numbers -> Runs]
    BY Rows, Zenon
  <1>5. ci \in [Heads -> CIResults]
    BY Zenon DEF CIResults
  <1>6. reporter \in BOOLEAN
    BY ReporterType, Zenon
  <1>7. crashes \in 0..MaxCrashes /\ cur \in Nat
    BY CIConstants
  <1> QED
    BY <1>1, <1>2, <1>3, <1>4, <1>5, <1>6, <1>7, Rows, Zenon DEF TypeOK, TriesLeft, Steps, Answers

\* queueCIEscalation keeps the task and its escalation well typed, with a try left.
LEMMA QueueEscalationType ==
    ASSUME TypeOK, TriesLeft, NEW t \in Tasks, QueueEscalation(t)
    PROVE  task' \in Tasks /\ esc' \in Escalations /\ TriesLeft'
  <1>1. task' \in Tasks
    BY TaskEdits, Zenon DEF QueueEscalation, TaskStates
  <1>2. esc' \in Escalations /\ TriesLeft'
    BY CIConstants DEF QueueEscalation, TypeOK, TriesLeft, Escalations
  <1> QED
    BY <1>1, <1>2, Zenon

\* FinishCIRepairFailure keeps the rows it writes well typed.
LEMMA FinishType ==
    ASSUME TypeOK, TriesLeft, NEW n \in Numbers, NEW class, NEW started \in BOOLEAN,
           FinishCIRepairFailure(n, class, started)
    PROVE  task' \in Tasks /\ esc' \in Escalations /\ TriesLeft'
           /\ atts' \in [Numbers -> Attempts] /\ recs' = recs
  <1> DEFINE charge == started /\ ~atts[n].charged
             paid == IF charge THEN [task EXCEPT !.attempts = @ + 1] ELSE task
             closed == [atts EXCEPT ![n].st = "failed", ![n].charged = @ \/ started, ![n].due = FALSE]
  <1>1. paid \in Tasks
    BY CIConstants DEF TypeOK, Tasks, FinishCIRepairFailure
  <1>2. closed \in [Numbers -> Attempts]
    BY AttemptsEdits, Zenon DEF TypeOK
  <1>3. CASE RepairStops(n, class, started, paid.attempts)
    <2>1. QueueEscalation(paid) /\ atts' = closed /\ recs' = recs
      BY <1>3, Zenon DEF FinishCIRepairFailure
    <2> QED
      BY <2>1, <1>1, <1>2, QueueEscalationType, Zenon
  <1>4. CASE ~RepairStops(n, class, started, paid.attempts)
    <2>1. /\ task' = [paid EXCEPT !.st = "repair_ready"]
          /\ atts' = [closed EXCEPT ![n + 1] = Ready(task.head)]
          /\ esc' = esc /\ recs' = recs
      BY <1>4, Zenon DEF FinishCIRepairFailure
    <2>2. Ready(task.head) \in Attempts
      BY Rows, Zenon DEF TypeOK, Tasks
    <2>3. task' \in Tasks
      BY <2>1, <1>1, TaskEdits, Zenon DEF TaskStates
    <2>4. atts' \in [Numbers -> Attempts]
      BY <2>1, <2>2, <1>2, Zenon
    <2> QED
      BY <2>1, <2>3, <2>4, Zenon DEF TypeOK, TriesLeft
  <1> QED
    BY <1>3, <1>4, Zenon

\* What every step of the type proof expands.
Types == TypeOK /\ TriesLeft

\* The claims of RunOne and the ticks.
LEMMA ClaimType ==
    ASSUME Types, Tick \/ TickEnds \/ Crash \/ ClaimCIEscalation \/ ClaimCIReconciliation
                  \/ ClaimCIRepair \/ ClaimCIRepairStatus
    PROVE  Types'
  <1> USE CIConstants DEF Types, TriesLeft, store, world, worker
  <1>0. CASE Crash
    <2>1. reporter' \in BOOLEAN
      BY <1>0, ReporterType, Zenon DEF Crash
    <2>2. crashes' \in 0..MaxCrashes
      BY <1>0 DEF Crash, TypeOK
    <2>3. cur' \in Nat
      BY <1>0 DEF Crash, WorkerStops
    <2> QED
      BY <1>0, <2>1, <2>2, <2>3, Zenon DEF Crash, WorkerStops, TypeOK, Steps, Answers
  <1>1. CASE Tick \/ TickEnds \/ ClaimCIEscalation
    BY <1>1 DEF Tick, TickEnds, ClaimCIEscalation, WorkerStops, TypeOK, Steps, Answers
  <1>2. CASE ClaimCIReconciliation
    <2>1. PICK h \in DueReconciliations : recs' = [Woken EXCEPT ![h] = Row("running", FALSE)] /\ cur' = h
      BY <1>2, Zenon DEF ClaimCIReconciliation
    <2>2. h \in Heads /\ h \in Nat
      BY Indices, Zenon DEF DueReconciliations
    <2>3. recs' \in [Heads -> Reconciliations]
      BY <2>1, <2>2, WokenType, Rows, Zenon
    <2> QED
      BY <1>2, <2>1, <2>2, <2>3, Zenon DEF ClaimCIReconciliation, TypeOK, Steps, Answers
  <1>3. CASE ClaimCIRepair
    BY <1>3, Indices, Zenon DEF ClaimCIRepair, DueLaunches, TypeOK, Steps, Answers
  <1>4. CASE ClaimCIRepairStatus
    <2>1. cur' \in Numbers /\ cur' \in Nat
      BY <1>4, Indices, Zenon DEF ClaimCIRepairStatus, DuePolls
    <2>2. atts' \in [Numbers -> Attempts]
      BY <1>4, <2>1, AttemptsEdits, Zenon DEF ClaimCIRepairStatus, TypeOK
    <2> QED
      BY <1>4, <2>1, <2>2, Zenon DEF ClaimCIRepairStatus, TypeOK, Steps, Answers
  <1> QED
    BY <1>0, <1>1, <1>2, <1>3, <1>4, Zenon

\* The observation and what is made of it.
LEMMA ReconcileType ==
    ASSUME Types, WorkerHolds, ObserveCI \/ ObserveFails \/ FailCIReconciliation \/ ApplyCIObservation
    PROVE  Types'
  <1> USE CIConstants DEF Types, store, world, worker
  <1>1. CASE ObserveCI \/ ObserveFails
    <2>1. cur \in Heads
      BY <1>1, Zenon DEF ObserveCI, ObserveFails, WorkerHolds
    <2>2. saw' \in Answers
      <3>1. ci[cur] \in CIResults
        BY <2>1, Zenon DEF TypeOK
      <3> QED
        BY <1>1, <3>1, Zenon DEF ObserveCI, ObserveFails, Answers
    <2> QED
      BY <1>1, <2>2, Zenon DEF ObserveCI, ObserveFails, TypeOK, TriesLeft, Steps
  <1>2. CASE FailCIReconciliation
    <2>1. cur \in Heads
      BY <1>2, Zenon DEF FailCIReconciliation, WorkerHolds
    <2>2. recs' \in [Heads -> Reconciliations]
      BY <1>2, <2>1, Rows, Zenon DEF FailCIReconciliation, TypeOK
    <2>3. task' \in Tasks /\ esc' \in Escalations /\ TriesLeft'
      <3>1. CASE saw = "invalid"
        BY <1>2, <3>1, QueueEscalationType, Zenon DEF FailCIReconciliation, TypeOK
      <3>2. CASE saw # "invalid"
        <4>1. (task.wake /\ saw = "retry") \in BOOLEAN
          BY Zenon
        <4> QED
          BY <1>2, <3>2, <4>1, TaskEdits, Zenon DEF FailCIReconciliation, TypeOK, TriesLeft
      <3> QED
        BY <3>1, <3>2, Zenon
    <2>4. pc' \in Steps /\ cur' \in Nat /\ saw' \in Answers
      BY <1>2, Zenon DEF FailCIReconciliation, Goto, Done, TypeOK, Steps, Answers
    <2> QED
      BY <1>2, <2>2, <2>3, <2>4, Zenon DEF FailCIReconciliation, TypeOK
  <1>3. CASE ApplyCIObservation
    <2>1. cur \in Heads /\ Followed
      BY <1>3, Zenon DEF ApplyCIObservation, WorkerHolds, Followed
    <2>2. Seen \in Tasks
      BY <2>1, TaskEdits, Zenon DEF Seen, TypeOK
    <2>3. recs' \in [Heads -> Reconciliations]
      <3>1. recs' = [recs EXCEPT ![cur] = Row(IF WakeAgain THEN "queued" ELSE "completed", WakeAgain)]
        BY <1>3, <2>1, Zenon DEF ApplyCIObservation
      <3>2. WakeAgain \in BOOLEAN
        BY <2>1, Zenon DEF WakeAgain, TypeOK, Reconciliations
      <3> QED
        BY <3>1, <3>2, Rows, Zenon DEF TypeOK
    <2>4. task' \in Tasks /\ esc' \in Escalations /\ TriesLeft' /\ atts' \in [Numbers -> Attempts]
      <3>1. CASE ObservationStops
        BY <1>3, <2>1, <2>2, <3>1, QueueEscalationType DEF ApplyCIObservation, TypeOK
      <3>2. CASE ~ObservationStops
        <4>1. esc' = esc /\ TriesLeft'
          BY <1>3, <2>1, <3>2, Zenon DEF ApplyCIObservation, TriesLeft
        <4>2. task' \in Tasks
          BY <1>3, <2>1, <2>2, <3>2, TaskEdits, Zenon DEF ApplyCIObservation, TaskStates, ObservationStops
        <4>3. atts' \in [Numbers -> Attempts]
          BY <1>3, <2>1, <3>2, Rows, Zenon DEF ApplyCIObservation, TypeOK, ObservationStops
        <4> QED
          BY <4>1, <4>2, <4>3, Zenon DEF TypeOK
      <3> QED
        BY <3>1, <3>2, Zenon
    <2> QED
      BY <1>3, <2>3, <2>4, Zenon DEF ApplyCIObservation, Done, TypeOK, Steps, Answers
  <1> QED
    BY <1>1, <1>2, <1>3, Zenon

\* A step that ends the pass with a failed repair.
LEMMA FailedType ==
    ASSUME Types, NEW n \in Numbers, NEW class, NEW started \in BOOLEAN,
           FinishCIRepairFailure(n, class, started), Done, UNCHANGED <<world, reporter, crashes>>
    PROVE  Types'
  <1>1. task' \in Tasks /\ esc' \in Escalations /\ TriesLeft'
        /\ atts' \in [Numbers -> Attempts] /\ recs' = recs
    BY FinishType, Zenon DEF Types
  <1> QED
    BY <1>1, Zenon DEF Types, TypeOK, Done, Steps, Answers, world

\* A step of the worker that changes attempt rows only.
LEMMA AttemptStepType ==
    ASSUME Types, atts' \in [Numbers -> Attempts], UNCHANGED <<task, recs, esc, world, reporter, crashes>>,
           pc' \in Steps, cur' \in Nat, saw' \in Answers
    PROVE  Types'
  BY Zenon DEF Types, TypeOK, TriesLeft, world

\* The state of a run changes.
LEMMA RunStateType ==
    ASSUME TypeOK, NEW n \in Numbers, NEW st \in {"running", "waiting", "none"} \cup Outcomes
    PROVE  [runs EXCEPT ![n].st = st] \in [Numbers -> Runs]
  BY DEF TypeOK, Runs, Live

\* The launch of a repair.
LEMMA LaunchType ==
    ASSUME Types, WorkerHolds, LaunchRepair \/ LaunchFails \/ BindCIRepairRun
                               \/ DeferCIRepairLaunch \/ LaunchRefused
    PROVE  Types'
  <1>0. cur \in Numbers
    BY Zenon DEF WorkerHolds, LaunchRepair, LaunchFails, BindCIRepairRun, DeferCIRepairLaunch, LaunchRefused
  <1>1. CASE LaunchRepair \/ LaunchFails
    <2>1. runs[cur] \in Runs /\ runs[cur].st \in {"running", "waiting", "none"} \cup Outcomes
      BY <1>0, Zenon DEF Types, TypeOK, Runs, Live
    <2>2. Created \in [Numbers -> Runs]
      BY <1>0, <2>1, RunStateType, Zenon DEF Created, Types
    <2>3. runs' \in [Numbers -> Runs]
      BY <1>1, <2>2, Zenon DEF LaunchRepair, LaunchFails, Types, TypeOK
    <2> QED
      BY <1>1, <2>3, Zenon DEF LaunchRepair, LaunchFails, Types, TypeOK, TriesLeft, Steps, Answers, store
  <1>2. CASE BindCIRepairRun
    <2>1. atts' \in [Numbers -> Attempts]
      BY <1>0, <1>2, AttemptEdits, Zenon DEF BindCIRepairRun, Types, TypeOK
    <2>2. task' \in Tasks
      BY <1>2, TaskEdits, Zenon DEF BindCIRepairRun, Types, TypeOK, TaskStates
    <2> QED
      BY <1>2, <2>1, <2>2, Zenon DEF BindCIRepairRun, Types, TypeOK, TriesLeft, Done, Steps, Answers, world
  <1>3. CASE DeferCIRepairLaunch
    <2>1. atts' \in [Numbers -> Attempts]
      BY <1>0, <1>3, AttemptsEdits, Zenon DEF DeferCIRepairLaunch, Types, TypeOK
    <2> QED
      BY <1>3, <2>1, AttemptStepType, Zenon DEF DeferCIRepairLaunch, Done, Steps, Answers
  <1>4. CASE LaunchRefused
    BY <1>0, <1>4, FailedType, Zenon DEF LaunchRefused
  <1> QED
    BY <1>1, <1>2, <1>3, <1>4, Zenon

\* The polls of a repair.
LEMMA PollType ==
    ASSUME Types, WorkerHolds,
           PollFails \/ PollWaiting \/ PollAnswers \/ ScheduleCIRepairStatus \/ LookOutside
           \/ ResumeRun \/ ResumeFails \/ MarkCIRepairExternalResumed
    PROVE  Types'
  <1>0. cur \in Numbers
    BY Zenon DEF WorkerHolds, Polling, PollFails, PollWaiting, PollAnswers, ScheduleCIRepairStatus,
           LookOutside, ResumeRun, ResumeFails, MarkCIRepairExternalResumed
  <1>a. atts[cur] \in Attempts /\ atts[cur].gen \in 0..MaxGeneration /\ atts[cur].resumed \in 0..MaxGeneration
    BY <1>0, Zenon DEF Types, TypeOK, Attempts
  <1>b. runs[cur] \in Runs /\ runs[cur].gen \in 0..MaxGeneration
    BY <1>0, Zenon DEF Types, TypeOK, Runs
  <1>c. cur \in Nat /\ saw \in Answers /\ atts \in [Numbers -> Attempts]
    BY Zenon DEF Types, TypeOK
  <1>d. [atts EXCEPT ![cur].due = FALSE] \in [Numbers -> Attempts]
    BY <1>0, <1>c, AttemptsEdits, Zenon
  <1>e. Resumed \in [Numbers -> Runs]
    <2>1. runs[cur].st \in {"running", "waiting", "none"} \cup Outcomes
      BY <1>b, Zenon DEF Runs, Live
    <2> QED
      BY <1>0, <2>1, RunStateType, Zenon DEF Resumed, Types
  <1>1. CASE PollFails
    <2>1. CASE FinishCIRepairFailure(cur, "failure", FALSE)
      BY <1>0, <1>1, <2>1, FailedType, Zenon DEF PollFails
    <2>2. CASE atts' = [atts EXCEPT ![cur].due = FALSE] /\ UNCHANGED <<task, recs, esc>>
      BY <1>1, <1>d, <2>2, AttemptStepType, Zenon DEF PollFails, Done, Steps, Answers
    <2> QED
      BY <1>1, <2>1, <2>2, Zenon DEF PollFails
  <1>2. CASE PollWaiting
    <2>1. atts' \in [Numbers -> Attempts]
      BY <1>0, <1>2, <1>b, <1>c, AttemptsEdits DEF PollWaiting
    <2>2. pc' \in Steps /\ cur' \in Nat /\ saw' \in Answers
      BY <1>2, <1>c DEF PollWaiting, WorkerStops, Goto, Steps, Answers
    <2> QED
      BY <1>2, <2>1, <2>2, AttemptStepType, Zenon DEF PollWaiting
  <1>3. CASE PollAnswers
    <2>1. atts' \in [Numbers -> Attempts]
      BY <1>0, <1>3, <1>a, <1>c, AttemptsEdits DEF PollAnswers
    <2>2. pc' \in Steps /\ cur' \in Nat /\ saw' \in Answers
      BY <1>3, <1>c, Zenon DEF PollAnswers, Steps, Answers
    <2> QED
      BY <1>3, <2>1, <2>2, AttemptStepType, Zenon DEF PollAnswers
  <1>4. CASE ScheduleCIRepairStatus
    <2>1. CASE saw = "unknown"
      BY <1>0, <1>4, <2>1, FailedType, Zenon DEF ScheduleCIRepairStatus
    <2>2. CASE saw = "running"
      <3>1. /\ atts' = [atts EXCEPT ![cur].due = FALSE]
            /\ UNCHANGED <<task, recs, esc, world, reporter, crashes>> /\ Done
        BY <1>4, <2>2, Zenon DEF ScheduleCIRepairStatus
      <3> QED
        BY <1>d, <3>1, AttemptStepType, Zenon DEF Done, Steps, Answers
    <2>3. CASE saw \notin {"unknown", "running"}
      <3>1. UNCHANGED <<store, world, reporter, crashes>> /\ Goto("terminal")
        BY <1>4, <2>3, Zenon DEF ScheduleCIRepairStatus
      <3> QED
        BY <1>c, <3>1, AttemptStepType, Zenon DEF Goto, Steps, store
    <2> QED
      BY <2>1, <2>2, <2>3, Zenon
  <1>5. CASE LookOutside
    BY <1>5, <1>c, AttemptStepType, Zenon DEF LookOutside, Goto, Steps, store
  <1>6. CASE ResumeRun \/ ResumeFails
    <2>1. runs' \in [Numbers -> Runs]
      <3>1. runs' \in {runs, Resumed}
        BY <1>6, Zenon DEF ResumeRun, ResumeFails
      <3> QED
        BY <3>1, <1>e, Zenon DEF Types, TypeOK
    <2>2. atts' \in [Numbers -> Attempts]
      BY <1>6, <1>c, <1>d, Zenon DEF ResumeRun, ResumeFails, store
    <2>3. pc' \in Steps /\ cur' \in Nat /\ saw' \in Answers
      <3>1. CASE ResumeRun
        BY <3>1, <1>c, Zenon DEF ResumeRun, Goto, Steps
      <3>2. CASE ResumeFails
        BY <3>2, Zenon DEF ResumeFails, Done, Steps, Answers
      <3> QED
        BY <1>6, <3>1, <3>2, Zenon
    <2>4. UNCHANGED <<task, recs, esc, pr, ci, news, reporter, crashes>>
      BY <1>6, Zenon DEF ResumeRun, ResumeFails, store
    <2> QED
      BY <2>1, <2>2, <2>3, <2>4, Zenon DEF Types, TypeOK, TriesLeft
  <1>7. CASE MarkCIRepairExternalResumed
    <2>1. atts' \in [Numbers -> Attempts]
      BY <1>0, <1>7, <1>a, <1>c, AttemptsEdits, Zenon DEF MarkCIRepairExternalResumed
    <2> QED
      BY <1>7, <2>1, AttemptStepType, Zenon DEF MarkCIRepairExternalResumed, Done, Steps, Answers
  <1> QED
    BY <1>1, <1>2, <1>3, <1>4, <1>5, <1>6, <1>7, Zenon

\* The end of a repair.
LEMMA EndType ==
    ASSUME Types, WorkerHolds, TerminalResult \/ ChargeCIRepairAttempt \/ CompleteCIRepairDelivery
    PROVE  Types'
  <1>0. cur \in Numbers /\ cur \in 1..MaxAttempts
    BY Zenon DEF WorkerHolds, Polling, TerminalResult, ChargeCIRepairAttempt, CompleteCIRepairDelivery, Numbers
  <1>a. runs[cur].started \in BOOLEAN /\ runs[cur].head \in Heads
    BY <1>0, Zenon DEF Types, TypeOK, Runs
  <1>b. cur \in Nat /\ saw \in Answers /\ atts \in [Numbers -> Attempts] /\ task \in Tasks
    BY Zenon DEF Types, TypeOK
  <1>1. CASE TerminalResult
    <2>1. CASE runs[cur].st = "delivered" /\ runs[cur].started
      BY <1>1, <1>b, <2>1, AttemptStepType, Zenon DEF TerminalResult, Goto, Steps, store
    <2>2. CASE ~(runs[cur].st = "delivered" /\ runs[cur].started)
      BY <1>0, <1>1, <1>a, <2>2, FailedType, Zenon DEF TerminalResult
    <2> QED
      BY <2>1, <2>2, Zenon
  <1>2. CASE ChargeCIRepairAttempt
    <2>1. atts' \in [Numbers -> Attempts]
      <3>1. [atts EXCEPT ![cur].charged = TRUE] \in [Numbers -> Attempts]
        BY <1>0, <1>b, AttemptsEdits, Zenon
      <3>2. atts' = atts \/ atts' = [atts EXCEPT ![cur].charged = TRUE]
        BY <1>2, Zenon DEF ChargeCIRepairAttempt
      <3> QED
        BY <1>b, <3>1, <3>2, Zenon
    <2>2. task' \in Tasks
      <3>1. CASE atts[cur].charged
        BY <1>2, <1>b, <3>1, Zenon DEF ChargeCIRepairAttempt
      <3>2. CASE ~atts[cur].charged
        <4>1. task.attempts + 1 \in 0..MaxAttempts
          BY <1>0, <1>2, <1>b, <3>2, CIConstants DEF ChargeCIRepairAttempt, Tasks
        <4> QED
          BY <1>2, <1>b, <3>2, <4>1, TaskEdits, Zenon DEF ChargeCIRepairAttempt
      <3> QED
        BY <3>1, <3>2, Zenon
    <2>3. /\ pc' \in Steps /\ cur' \in Nat /\ saw' \in Answers
          /\ UNCHANGED <<recs, esc, pr, ci, news, runs, reporter, crashes>>
      BY <1>2, <1>b, Zenon DEF ChargeCIRepairAttempt, Goto, Steps, world
    <2> QED
      BY <2>1, <2>2, <2>3, Zenon DEF Types, TypeOK, TriesLeft
  <1>3. CASE CompleteCIRepairDelivery
    <2>1. atts' \in [Numbers -> Attempts]
      BY <1>0, <1>3, <1>b, AttemptsEdits, Zenon DEF CompleteCIRepairDelivery
    <2>2. task' \in Tasks
      BY <1>3, <1>a, <1>b, TaskEdits, Zenon DEF CompleteCIRepairDelivery, TaskStates
    <2> QED
      BY <1>3, <2>1, <2>2, Zenon DEF CompleteCIRepairDelivery, Types, TypeOK, TriesLeft, Done, Steps, Answers, world
  <1> QED
    BY <1>1, <1>2, <1>3, Zenon

\* The escalation comment.
LEMMA EscalationType ==
    ASSUME Types, MarkCIEscalationDelivered \/ MarkCIEscalationFailure
    PROVE  Types'
  <1>0. esc.st = "pending" /\ esc.tries < ReportRetryMax /\ esc.tries \in 0..ReportRetryMax
    BY Zenon DEF Types, TypeOK, TriesLeft, Escalations, MarkCIEscalationDelivered, MarkCIEscalationFailure
  <1>a. esc.tries + 1 \in 0..ReportRetryMax
    BY <1>0, CIConstants
  <1>1. CASE MarkCIEscalationDelivered
    <2>1. esc' \in Escalations /\ TriesLeft'
      BY <1>1, <1>a, Zenon DEF MarkCIEscalationDelivered, Types, TypeOK, TriesLeft, Escalations
    <2>2. task' \in Tasks
      BY <1>1, TaskEdits, Zenon DEF MarkCIEscalationDelivered, Types, TypeOK, TaskStates
    <2> QED
      BY <1>1, <2>1, <2>2, Zenon DEF MarkCIEscalationDelivered, Types, TypeOK, Done, Steps, Answers, world
  <1>2. CASE MarkCIEscalationFailure
    <2>0. PICK retry \in BOOLEAN :
            LET blocked == ~(retry /\ esc.tries + 1 < ReportRetryMax)
            IN  /\ esc' = [st |-> IF blocked THEN "blocked" ELSE "pending",
                           tries |-> esc.tries + 1, due |-> FALSE]
                /\ task' = IF blocked /\ task.st = "escalation_pending"
                           THEN [task EXCEPT !.st = "escalation_blocked"] ELSE task
      BY <1>2, Zenon DEF MarkCIEscalationFailure
    <2>1. esc' \in Escalations /\ TriesLeft'
      BY <2>0, <1>a, Zenon DEF TriesLeft, Escalations
    <2>2. task' \in Tasks
      BY <2>0, TaskEdits, Zenon DEF Types, TypeOK, TaskStates
    <2> QED
      BY <1>2, <2>1, <2>2, Zenon DEF MarkCIEscalationFailure, Types, TypeOK, Done, Steps, Answers, world
  <1> QED
    BY <1>1, <1>2, Zenon

\* Time, webhooks, GitHub and the broker.
LEMMA WorldType ==
    ASSUME Types,
           \/ EscalationDue \/ DeadlinePasses \/ Push
           \/ \E h \in Heads : RecordCIEvent(h) \/ EventLost(h) \/ ReconciliationDue(h) \/ CIDecides(h)
           \/ \E n \in Numbers : AttemptDue(n) \/ RunWaits(n) \/ RunEnds(n)
    PROVE  Types'
  <1> USE DEF Types, store, worker, world
  <1>1. CASE EscalationDue
    BY <1>1, Zenon DEF EscalationDue, TypeOK, TriesLeft, Escalations
  <1>2. CASE DeadlinePasses
    <2>1. task' \in Tasks
      BY <1>2, TaskEdits, Zenon DEF DeadlinePasses, TypeOK
    <2> QED
      BY <1>2, <2>1, Zenon DEF DeadlinePasses, TypeOK, TriesLeft
  <1>a. pr < MaxPushes /\ TypeOK => pr + 1 \in Heads
    BY CIConstants DEF TypeOK, Heads
  <1>3. CASE Push
    BY <1>3, <1>a, Zenon DEF Push, TypeOK, TriesLeft
  <1>4. ASSUME NEW h \in Heads, RecordCIEvent(h) PROVE Types'
    <2>1. PICK byPull \in BOOLEAN, now \in BOOLEAN :
         LET found == byPull \/ task.head = h
             waits(n) == atts[n].st = "running" /\ atts[n].gen > atts[n].resumed
         IN  /\ recs' = IF found /\ task.st = "waiting_ci"
                        THEN [recs EXCEPT ![h] =
                                IF @.st = "running" THEN [@ EXCEPT !.dirty = TRUE, !.due = now]
                                                    ELSE Row("queued", now)]
                        ELSE recs
             /\ atts' = IF found /\ task.st = "repair_running"
                        THEN [n \in Numbers |-> IF waits(n) THEN [atts[n] EXCEPT !.due = @ \/ now]
                                                            ELSE atts[n]]
                        ELSE atts
      BY <1>4, Zenon DEF RecordCIEvent
    <2>2. recs' \in [Heads -> Reconciliations]
      <3>1. recs[h] \in Reconciliations
        BY Zenon DEF TypeOK
      <3>2. [recs[h] EXCEPT !.dirty = TRUE, !.due = now] \in Reconciliations
        BY <3>1, Zenon DEF Reconciliations
      <3> QED
        BY <2>1, <3>2, Rows, Zenon DEF TypeOK
    <2>3. atts' \in [Numbers -> Attempts]
      <3>1. ASSUME NEW n \in Numbers PROVE [atts[n] EXCEPT !.due = @ \/ now] \in Attempts
        <4>1. (atts[n].due \/ now) \in BOOLEAN
          BY Zenon
        <4> QED
          BY <4>1, AttemptEdits, Zenon DEF TypeOK
      <3> QED
        BY <2>1, <3>1, Zenon DEF TypeOK
    <2> QED
      BY <1>4, <2>2, <2>3, Zenon DEF RecordCIEvent, TypeOK, TriesLeft
  <1>5. ASSUME NEW h \in Heads, EventLost(h) PROVE Types'
    BY <1>5, Zenon DEF EventLost, TypeOK, TriesLeft
  <1>6. ASSUME NEW h \in Heads, ReconciliationDue(h) PROVE Types'
    <2>1. recs' \in [Heads -> Reconciliations]
      BY <1>6 DEF ReconciliationDue, TypeOK, Reconciliations
    <2> QED
      BY <1>6, <2>1, Zenon DEF ReconciliationDue, TypeOK, TriesLeft
  <1>7. ASSUME NEW h \in Heads, CIDecides(h) PROVE Types'
    BY <1>7, Zenon DEF CIDecides, TypeOK, TriesLeft, CIResults
  <1>8. ASSUME NEW n \in Numbers, AttemptDue(n) PROVE Types'
    <2>1. atts' \in [Numbers -> Attempts]
      BY <1>8, AttemptsEdits, Zenon DEF AttemptDue, TypeOK
    <2> QED
      BY <1>8, <2>1, Zenon DEF AttemptDue, TypeOK, TriesLeft
  <1>9. ASSUME NEW n \in Numbers, RunWaits(n) PROVE Types'
    <2>1. runs[n] \in Runs /\ runs[n].gen + 1 \in 0..MaxGeneration
      BY <1>9, CIConstants DEF RunWaits, TypeOK, Runs
    <2>2. runs' \in [Numbers -> Runs]
      BY <1>9, <2>1, Zenon DEF RunWaits, TypeOK, Runs, Live
    <2> QED
      BY <1>9, <2>2, Zenon DEF RunWaits, TypeOK, TriesLeft
  <1>10. ASSUME NEW n \in Numbers, RunEnds(n) PROVE Types'
    <2>1. PICK out \in Outcomes, started \in BOOLEAN :
         /\ out = "delivered" => pr < MaxPushes
         /\ LET pushed == out = "delivered"
                head == IF pushed THEN pr + 1 ELSE pr
            IN  /\ runs' = [runs EXCEPT ![n].st = out, ![n].started = started,
                                        ![n].head = IF pushed THEN head ELSE @]
                /\ pr' = head
                /\ news' = IF pushed THEN news \cup {head} ELSE news
      BY <1>10, Zenon DEF RunEnds
    <2>2. pr' \in Heads /\ news' \subseteq Heads
      BY <2>1, <1>a, Zenon DEF TypeOK
    <2>3. runs' \in [Numbers -> Runs]
      <3>1. runs[n] \in Runs /\ runs[n].head \in Heads
        BY Zenon DEF TypeOK, Runs
      <3>2. \A h \in Heads : [runs[n] EXCEPT !.st = out, !.started = started, !.head = h] \in Runs
        BY <3>1, Zenon DEF Runs
      <3>3. pr \in Heads /\ (out = "delivered" => pr + 1 \in Heads)
        BY <2>1, <1>a, Zenon DEF TypeOK
      <3>4. \E h \in Heads : runs' = [runs EXCEPT ![n] =
               [runs[n] EXCEPT !.st = out, !.started = started, !.head = h]]
        BY <2>1, <3>1, <3>3, Zenon
      <3> QED
        BY <3>2, <3>4, Zenon DEF TypeOK
    <2> QED
      BY <1>10, <2>2, <2>3, Zenon DEF RunEnds, TypeOK, TriesLeft
  <1> QED
    BY <1>1, <1>2, <1>3, <1>4, <1>5, <1>6, <1>7, <1>8, <1>9, <1>10

-----------------------------------------------------------------------------
(* The order of the attempt rows. *)

\* The states, the charges and the heads stay as they are.
SameRow(n) ==
    /\ atts'[n].st = atts[n].st /\ atts'[n].charged = atts[n].charged
    /\ atts'[n].head = atts[n].head
SameOrder ==
    /\ task'.st = task.st /\ task'.attempts = task.attempts /\ task'.head = task.head
    /\ \A n \in Numbers : SameRow(n)

\* A step that leaves it alone keeps the order.
LEMMA SameOrderKeeps ==
    ASSUME Ordered, SameOrder
    PROVE  Ordered'
  BY DEF Ordered, SameOrder, SameRow

\* The claims, the calls, and the writes to other columns leave it alone.
LEMMA QuietSteps ==
    ASSUME TypeOK,
           \/ Tick \/ TickEnds \/ Crash \/ ClaimCIEscalation \/ ClaimCIReconciliation
           \/ ClaimCIRepair \/ ClaimCIRepairStatus \/ ObserveCI \/ ObserveFails
           \/ LaunchRepair \/ LaunchFails \/ DeferCIRepairLaunch
           \/ PollWaiting \/ PollAnswers \/ LookOutside \/ ResumeRun \/ ResumeFails
           \/ MarkCIRepairExternalResumed \/ EscalationDue \/ DeadlinePasses \/ Push
           \/ \E h \in Heads : RecordCIEvent(h) \/ EventLost(h) \/ ReconciliationDue(h) \/ CIDecides(h)
           \/ \E n \in Numbers : AttemptDue(n) \/ RunWaits(n) \/ RunEnds(n)
    PROVE  SameOrder
  <1> USE DEF SameOrder, SameRow, store, world, worker
  <1>0. task \in Tasks /\ atts \in [Numbers -> Attempts]
    BY Zenon DEF TypeOK
  <1>1. CASE UNCHANGED <<task, atts>>
    BY <1>1, Zenon
  <1>2. CASE \/ Tick \/ TickEnds \/ Crash \/ ClaimCIEscalation \/ ClaimCIReconciliation
             \/ ClaimCIRepair \/ ObserveCI \/ ObserveFails \/ LaunchRepair \/ LaunchFails
             \/ LookOutside \/ ResumeRun \/ EscalationDue \/ Push
             \/ \E h \in Heads : EventLost(h) \/ ReconciliationDue(h) \/ CIDecides(h)
             \/ \E n \in Numbers : RunWaits(n) \/ RunEnds(n)
    BY <1>1, <1>2, Zenon DEF Tick, TickEnds, Crash, ClaimCIEscalation, ClaimCIReconciliation, ClaimCIRepair,
       ObserveCI, ObserveFails, LaunchRepair, LaunchFails, LookOutside, ResumeRun, EscalationDue,
       Push, EventLost, ReconciliationDue, CIDecides, RunWaits, RunEnds
  <1>3. CASE ClaimCIRepairStatus \/ DeferCIRepairLaunch \/ ResumeFails
    <2>1. task' = task /\ \E n : atts' = [atts EXCEPT ![n].due = FALSE]
      BY <1>3, Zenon DEF ClaimCIRepairStatus, DeferCIRepairLaunch, ResumeFails
    <2> QED
      BY <1>0, <2>1 DEF Attempts
  <1>4. CASE PollWaiting \/ PollAnswers \/ MarkCIRepairExternalResumed
    <2>1. task' = task
      BY <1>4, Zenon DEF PollWaiting, PollAnswers, MarkCIRepairExternalResumed
    <2>2. \/ atts' = atts
          \/ \E g : atts' = [atts EXCEPT ![cur].gen = g]
          \/ \E g : atts' = [atts EXCEPT ![cur].resumed = g]
          \/ \E g : atts' = [atts EXCEPT ![cur].resumed = g, ![cur].due = FALSE]
      BY <1>4, Zenon DEF PollWaiting, PollAnswers, MarkCIRepairExternalResumed
    <2>3. ASSUME NEW n \in Numbers
          PROVE  SameRow(n)
      <3>1. ASSUME NEW g, atts' = [atts EXCEPT ![cur].gen = g]
            PROVE  SameRow(n)
        BY <1>0, <3>1 DEF Attempts
      <3>2. ASSUME NEW g, atts' = [atts EXCEPT ![cur].resumed = g]
            PROVE  SameRow(n)
        BY <1>0, <3>2, Zenon DEF Attempts
      <3>3. ASSUME NEW g, atts' = [atts EXCEPT ![cur].resumed = g, ![cur].due = FALSE]
            PROVE  SameRow(n)
        BY <1>0, <3>3 DEF Attempts
      <3> QED
        BY <2>2, <3>1, <3>2, <3>3, Zenon
    <2> QED
      BY <2>1, <2>3, Zenon
  <1>5. CASE DeadlinePasses
    BY <1>0, <1>5, Zenon DEF DeadlinePasses, Tasks
  <1>6. ASSUME NEW h \in Heads, RecordCIEvent(h) PROVE SameOrder
    <2>1. task' = task
      BY <1>6, Zenon DEF RecordCIEvent
    <2> DEFINE waits(n) == atts[n].st = "running" /\ atts[n].gen > atts[n].resumed
    <2>2. \/ atts' = atts
          \/ \E now \in BOOLEAN :
                atts' = [n \in Numbers |-> IF waits(n) THEN [atts[n] EXCEPT !.due = @ \/ now]
                                                      ELSE atts[n]]
      BY <1>6, Zenon DEF RecordCIEvent
    <2>3. ASSUME NEW now \in BOOLEAN, NEW n \in Numbers,
                 atts' = [k \in Numbers |-> IF waits(k) THEN [atts[k] EXCEPT !.due = @ \/ now]
                                                       ELSE atts[k]]
          PROVE  SameRow(n)
      <3>1. atts'[n] = atts[n] \/ atts'[n] = [atts[n] EXCEPT !.due = @ \/ now]
        BY <2>3, Zenon
      <3>2. atts[n] \in Attempts
        BY <1>0, Zenon
      <3> QED
        BY <3>1, <3>2, Zenon DEF Attempts
    <2> QED
      BY <2>1, <2>2, <2>3, Zenon
  <1>7. ASSUME NEW n \in Numbers, AttemptDue(n) PROVE SameOrder
    BY <1>0, <1>7, Zenon DEF AttemptDue, Attempts
  <1> QED
    BY <1>2, <1>3, <1>4, <1>5, <1>6, <1>7, Zenon

\* A waiting task that is decided without a repair keeps the order.
LEMMA DecidedOrder ==
    ASSUME Ordered, task.st = "waiting_ci", task'.attempts = task.attempts, atts' = atts,
           task'.st \notin {"repair_ready", "repair_running"}
    PROVE  Ordered'
  BY Zenon DEF Ordered

\* FailCIReconciliation keeps the order.
LEMMA FailReconciliationOrder ==
    ASSUME IInv, FailCIReconciliation
    PROVE  Ordered'
  <1>1. task.st = "waiting_ci" /\ task \in Tasks /\ atts' = atts
    BY Zenon DEF IInv, TypeOK, WorkerHolds, FailCIReconciliation
  <1>2. task'.attempts = task.attempts /\ task'.st \in {"waiting_ci", "escalation_pending"}
    BY <1>1, Zenon DEF FailCIReconciliation, QueueEscalation, Tasks
  <1> QED
    BY <1>1, <1>2, DecidedOrder, Zenon DEF IInv

\* A code failure with an attempt left adds the next row.
LEMMA NextAttempt ==
    ASSUME IInv, ApplyCIObservation, saw = "code_failure", ~ObservationStops
    PROVE  /\ task.attempts + 1 \in Numbers /\ atts[task.attempts + 1].st = "none"
           /\ task'.st = "repair_ready" /\ task'.attempts = task.attempts
           /\ atts' = [atts EXCEPT ![task.attempts + 1] = Ready(cur)]
  <1>1. task.st = "waiting_ci" /\ task \in Tasks /\ Followed
    BY Zenon DEF IInv, TypeOK, WorkerHolds, ApplyCIObservation, Followed
  <1>2. task.attempts + 1 \in Numbers /\ ~(task.attempts + 1 <= task.attempts)
    BY <1>1, CIConstants DEF ObservationStops, Tasks, Numbers
  <1>3. atts[task.attempts + 1].st = "none"
    BY <1>1, <1>2, Zenon DEF IInv, Ordered
  <1> QED
    BY <1>1, <1>2, <1>3, Zenon DEF ApplyCIObservation, Seen, Tasks

\* Any other observation adds none.
LEMMA ApplyDecides ==
    ASSUME IInv, ApplyCIObservation, ObservationStops \/ saw # "code_failure"
    PROVE  /\ atts' = atts /\ task'.attempts = task.attempts
           /\ task'.st \in {"escalation_pending", "completed", "waiting_ci"}
  <1>1. task.st = "waiting_ci" /\ task \in Tasks /\ Followed
    BY Zenon DEF IInv, TypeOK, WorkerHolds, ApplyCIObservation, Followed
  <1>2. CASE ObservationStops
    BY <1>1, <1>2, Zenon DEF ApplyCIObservation, QueueEscalation, Seen, Tasks
  <1>3. CASE ~ObservationStops /\ saw = "success"
    BY <1>1, <1>3 DEF ApplyCIObservation, Seen, Tasks
  <1>4. CASE ~ObservationStops /\ saw = "pending"
    BY <1>1, <1>4 DEF ApplyCIObservation, Seen, Tasks
  <1> QED
    BY <1>2, <1>3, <1>4, Zenon DEF ApplyCIObservation, ObservationStops

\* ApplyCIObservation keeps the order.
LEMMA ApplyOrder ==
    ASSUME IInv, ApplyCIObservation
    PROVE  Ordered'
  <1>1. task.st = "waiting_ci" /\ task \in Tasks /\ Followed /\ atts \in [Numbers -> Attempts]
    BY Zenon DEF IInv, TypeOK, WorkerHolds, ApplyCIObservation, Followed
  <1>2. CASE ObservationStops \/ saw # "code_failure"
    BY <1>1, <1>2, ApplyDecides, DecidedOrder, Zenon DEF IInv
  <1>3. CASE ~ObservationStops /\ saw = "code_failure"
    <2> DEFINE k == task.attempts + 1
    <2>1. /\ k \in Numbers /\ atts[k].st = "none"
          /\ task'.st = "repair_ready" /\ task'.attempts = task.attempts
          /\ atts' = [atts EXCEPT ![k] = Ready(cur)]
      BY <1>3, NextAttempt, Zenon
    <2>2. atts'[k].st = "ready" /\ atts'[k].charged = FALSE
      BY <1>1, <2>1, Zenon DEF Ready, NoAttempt
    <2>3. \A n \in Numbers : n # k => atts'[n] = atts[n]
      BY <1>1, <2>1, Zenon
    <2>4. \A n \in Numbers : n \in Nat
      BY Indices, Zenon
    <2>5. task.attempts \in Nat
      BY <1>1, CIConstants DEF Tasks
    <2> HIDE DEF k
    <2> QED
      BY <1>1, <2>1, <2>2, <2>3, <2>4, <2>5 DEF IInv, Ordered, k
  <1> QED
    BY <1>2, <1>3, Zenon

\* BindCIRepairRun keeps the order.
LEMMA BindOrder ==
    ASSUME IInv, BindCIRepairRun
    PROVE  Ordered'
  <1>1. /\ cur \in Numbers /\ task.st = "repair_ready" /\ atts[cur].st = "ready"
        /\ task \in Tasks /\ atts \in [Numbers -> Attempts] /\ task.attempts \in Nat
    BY CIConstants DEF IInv, TypeOK, WorkerHolds, BindCIRepairRun, Tasks
  <1>2. task'.st = "repair_running" /\ task'.attempts = task.attempts
    BY <1>1, Zenon DEF BindCIRepairRun, Tasks
  <1>3. atts'[cur].st = "running" /\ atts'[cur].charged = atts[cur].charged
    BY <1>1, Zenon DEF BindCIRepairRun, Attempts
  <1>4. \A n \in Numbers : n # cur => atts'[n] = atts[n]
    BY <1>1, Zenon DEF BindCIRepairRun
  <1> QED
    BY <1>1, <1>2, <1>3, <1>4, Indices DEF IInv, Ordered

\* ChargeCIRepairAttempt keeps the order.
LEMMA ChargeOrder ==
    ASSUME IInv, ChargeCIRepairAttempt
    PROVE  Ordered' /\ task'.st = task.st /\ \A n \in Numbers : atts'[n].st = atts[n].st
  <1>1. /\ cur \in Numbers /\ task.st = "repair_running" /\ atts[cur].st = "running"
        /\ task \in Tasks /\ atts \in [Numbers -> Attempts] /\ task.attempts \in Nat
    BY CIConstants DEF IInv, TypeOK, WorkerHolds, Polling, ChargeCIRepairAttempt, Tasks
  <1>2. CASE atts[cur].charged
    BY <1>2, SameOrderKeeps, Zenon DEF ChargeCIRepairAttempt, SameOrder, SameRow, IInv
  <1>3. CASE ~atts[cur].charged
    <2>1. cur = task.attempts + 1
      BY <1>1, <1>3, Indices DEF IInv, Ordered
    <2>2. task'.st = task.st /\ task'.attempts = task.attempts + 1
      BY <1>1, <1>3, Zenon DEF ChargeCIRepairAttempt, Tasks
    <2>3. atts'[cur].st = atts[cur].st /\ atts'[cur].charged = TRUE
      BY <1>1, <1>3 DEF ChargeCIRepairAttempt, Attempts
    <2>4. \A n \in Numbers : n # cur => atts'[n] = atts[n]
      BY <1>1, <1>3, Zenon DEF ChargeCIRepairAttempt
    <2>5. Ordered'
      BY <1>1, <2>1, <2>2, <2>3, <2>4, Indices DEF IInv, Ordered
    <2> QED
      BY <2>2, <2>3, <2>4, <2>5, Zenon
  <1> QED
    BY <1>2, <1>3, Zenon

\* CompleteCIRepairDelivery keeps the order.
LEMMA CompleteOrder ==
    ASSUME IInv, CompleteCIRepairDelivery
    PROVE  Ordered'
  <1>1. /\ cur \in Numbers /\ task.st = "repair_running" /\ atts[cur].st = "running" /\ atts[cur].charged
        /\ task \in Tasks /\ atts \in [Numbers -> Attempts] /\ task.attempts \in Nat
    BY CIConstants DEF IInv, TypeOK, WorkerHolds, Polling, CompleteCIRepairDelivery, Tasks
  <1>2. cur = task.attempts /\ \A m \in Numbers : m > cur => atts[m].st = "none"
    BY <1>1, Indices DEF IInv, Ordered
  <1>3. task'.st = "waiting_ci" /\ task'.attempts = task.attempts
    BY <1>1, Zenon DEF CompleteCIRepairDelivery, Tasks
  <1>4. atts'[cur].st = "delivered" /\ atts'[cur].charged
    BY <1>1, Zenon DEF CompleteCIRepairDelivery, Attempts
  <1>5. \A n \in Numbers : n # cur => atts'[n] = atts[n]
    BY <1>1, Zenon DEF CompleteCIRepairDelivery
  <1>6. ASSUME NEW n \in Numbers
        PROVE  /\ atts'[n].st \notin {"ready", "running"}
               /\ atts'[n].charged <=> n <= task.attempts
               /\ atts'[n].st # "none" <=> n <= task.attempts
    <2>1. CASE n = cur
      BY <1>1, <1>2, <1>4, <2>1
    <2>2. CASE n # cur
      <3>1. atts'[n] = atts[n] /\ n \in Nat
        BY <1>5, <2>2, Indices, Zenon
      <3>2. atts[n].st \notin {"ready", "running"}
        <4>1. atts[n].st # "ready"
          BY <1>1, Zenon DEF IInv, Ordered
        <4>2. atts[n].st = "running" => n = task.attempts + 1 \/ n = task.attempts
          BY <1>1, Zenon DEF IInv, Ordered
        <4>3. n = task.attempts + 1 => atts[n].st = "none"
          BY <1>1, <1>2, <3>1
        <4> QED
          BY <1>2, <2>2, <4>1, <4>2, <4>3, Zenon
      <3>3. (atts[n].charged <=> n <= task.attempts) /\ (n <= task.attempts => atts[n].st # "none")
        BY <1>1, Zenon DEF IInv, Ordered
      <3>4. atts[n].st # "none" => n <= task.attempts
        BY <1>1, <1>2, <3>1
      <3> QED
        BY <3>1, <3>2, <3>3, <3>4, Zenon
    <2> QED
      BY <2>1, <2>2, Zenon
  <1>7. \A n \in Numbers : n <= task.attempts => n <= task.attempts + 1
    BY <1>1, Indices
  <1> QED
    BY <1>3, <1>6, <1>7, Zenon DEF Ordered

\* FinishCIRepairFailure, without and with a next attempt, on the row the worker holds.
LEMMA FinishShape ==
    ASSUME TypeOK, NEW n \in Numbers, NEW class, NEW started \in BOOLEAN,
           FinishCIRepairFailure(n, class, started)
    PROVE  /\ task'.attempts = (IF started /\ ~atts[n].charged THEN task.attempts + 1 ELSE task.attempts)
           /\ atts'[n].st = "failed" /\ (atts'[n].charged <=> atts[n].charged \/ started)
           /\ task'.head = task.head /\ atts'[n].head = atts[n].head
           /\ \/ /\ task'.st = "escalation_pending"
                 /\ \A m \in Numbers : m # n => atts'[m] = atts[m]
              \/ /\ task'.st = "repair_ready" /\ started
                 /\ n + 1 \in Numbers /\ atts'[n + 1] = Ready(task.head)
                 /\ \A m \in Numbers : m # n /\ m # n + 1 => atts'[m] = atts[m]
  <1> DEFINE charge == started /\ ~atts[n].charged
             paid == IF charge THEN [task EXCEPT !.attempts = @ + 1] ELSE task
             closed == [atts EXCEPT ![n].st = "failed", ![n].charged = @ \/ started, ![n].due = FALSE]
  <1>1. task \in Tasks /\ atts \in [Numbers -> Attempts] /\ n \in Nat
    BY Indices, Zenon DEF TypeOK
  <1>2. /\ paid.attempts = (IF charge THEN task.attempts + 1 ELSE task.attempts)
        /\ [paid EXCEPT !.st = "repair_ready"].attempts = paid.attempts
        /\ [paid EXCEPT !.st = "repair_ready"].st = "repair_ready"
        /\ [paid EXCEPT !.st = "escalation_pending", !.wake = FALSE].attempts = paid.attempts
        /\ [paid EXCEPT !.st = "escalation_pending", !.wake = FALSE].st = "escalation_pending"
        /\ [paid EXCEPT !.st = "repair_ready"].head = task.head
        /\ [paid EXCEPT !.st = "escalation_pending", !.wake = FALSE].head = task.head
    BY <1>1, Zenon DEF Tasks
  <1>3. /\ closed[n].st = "failed" /\ closed[n].head = atts[n].head /\ (closed[n].charged <=> atts[n].charged \/ started)
        /\ \A m \in Numbers : m # n => closed[m] = atts[m]
        /\ DOMAIN closed = Numbers
    BY <1>1 DEF Attempts
  <1>4. \/ /\ task' = [paid EXCEPT !.st = "escalation_pending", !.wake = FALSE] /\ atts' = closed
        \/ /\ ~RepairStops(n, class, started, paid.attempts)
           /\ task' = [paid EXCEPT !.st = "repair_ready"]
           /\ atts' = [closed EXCEPT ![n + 1] = Ready(task.head)]
    BY Zenon DEF FinishCIRepairFailure, QueueEscalation
  <1> HIDE DEF paid, closed
  <1>5. CASE atts' = closed /\ task' = [paid EXCEPT !.st = "escalation_pending", !.wake = FALSE]
    BY <1>2, <1>3, <1>5, Zenon
  <1>6. CASE /\ ~RepairStops(n, class, started, paid.attempts)
             /\ task' = [paid EXCEPT !.st = "repair_ready"]
             /\ atts' = [closed EXCEPT ![n + 1] = Ready(task.head)]
    <2>1. started /\ n + 1 \in Numbers /\ n + 1 # n
      BY <1>1, <1>6, CIConstants DEF RepairStops, Numbers
    <2>2. /\ atts'[n] = closed[n] /\ atts'[n + 1] = Ready(task.head)
          /\ \A m \in Numbers : m # n /\ m # n + 1 => atts'[m] = closed[m]
      BY <1>3, <1>6, <2>1, Zenon
    <2> QED
      BY <1>2, <1>3, <1>6, <2>1, <2>2, Zenon
  <1> QED
    BY <1>4, <1>5, <1>6, Zenon

\* FinishCIRepairFailure keeps the order.
LEMMA FinishOrder ==
    ASSUME TypeOK, Ordered, NEW n \in Numbers, NEW class, NEW started \in BOOLEAN,
           FinishCIRepairFailure(n, class, started)
    PROVE  Ordered'
  <1> DEFINE a == task.attempts
             b == task'.attempts
  <1>1. a \in Nat /\ n \in Nat /\ Numbers \subseteq Nat
    BY Indices, CIConstants DEF TypeOK, Tasks
  <1>2. atts[n].st \in {"ready", "running"} /\ (atts[n].st = "ready" => ~started)
    BY Zenon DEF FinishCIRepairFailure
  <1>3. /\ b = (IF started /\ ~atts[n].charged THEN a + 1 ELSE a)
        /\ atts'[n].st = "failed" /\ (atts'[n].charged <=> atts[n].charged \/ started)
        /\ \/ /\ task'.st = "escalation_pending"
              /\ \A m \in Numbers : m # n => atts'[m] = atts[m]
           \/ /\ task'.st = "repair_ready" /\ started
              /\ n + 1 \in Numbers /\ atts'[n + 1] = Ready(task.head)
              /\ \A m \in Numbers : m # n /\ m # n + 1 => atts'[m] = atts[m]
    BY FinishShape
  <1>4. n = a + 1 \/ (n = a /\ \A m \in Numbers : m > n => atts[m].st = "none")
    BY <1>2, Zenon DEF Ordered
  <1>5. /\ \A m \in Numbers : atts[m].charged <=> m <= a
        /\ \A m \in Numbers : m <= a => atts[m].st # "none"
        /\ \A m \in Numbers : atts[m].st # "none" => m <= a + 1
    BY Zenon DEF Ordered
  <1>6. \A m \in Numbers : m # n => atts[m].st \notin {"ready", "running"}
    <2> SUFFICES ASSUME NEW m \in Numbers, m # n, atts[m].st \in {"ready", "running"} PROVE FALSE
      BY Zenon
    <2>1. m = a + 1 \/ (m = a /\ \A i \in Numbers : i > m => atts[i].st = "none")
      BY Zenon DEF Ordered
    <2> QED
      BY <1>1, <1>2, <1>4, <2>1
  <1>7. started => n = b /\ \A m \in Numbers : m > n => atts[m].st = "none"
    BY <1>1, <1>3, <1>4, <1>5
  <1>8. ~started => b = a
    BY <1>3, Zenon
  <1> HIDE DEF a, b
  <1>9. CASE task'.st = "escalation_pending" /\ \A m \in Numbers : m # n => atts'[m] = atts[m]
    <2>1. ASSUME NEW m \in Numbers
          PROVE  /\ atts'[m].charged <=> m <= b
                 /\ m <= b => atts'[m].st # "none"
                 /\ atts'[m].st # "none" => m <= b + 1
                 /\ atts'[m].st \notin {"ready", "running"}
      <3>1. CASE m = n
        BY <1>1, <1>3, <1>4, <1>5, <1>7, <1>8, <3>1
      <3>2. CASE m # n
        <4>1. atts'[m] = atts[m] /\ m \in Nat
          BY <1>1, <1>9, <3>2, Zenon
        <4> QED
          BY <1>1, <1>3, <1>4, <1>5, <1>6, <3>2, <4>1
      <3> QED
        BY <3>1, <3>2, Zenon
    <2> QED
      BY <1>9, <2>1, Zenon DEF Ordered, b
  <1>10. CASE /\ task'.st = "repair_ready" /\ started
              /\ n + 1 \in Numbers /\ atts'[n + 1] = Ready(task.head)
              /\ \A m \in Numbers : m # n /\ m # n + 1 => atts'[m] = atts[m]
    <2>1. atts'[n + 1].st = "ready" /\ atts'[n + 1].charged = FALSE /\ n = b
      BY <1>7, <1>10, Zenon DEF Ready, NoAttempt
    <2>2. ASSUME NEW m \in Numbers
          PROVE  /\ atts'[m].charged <=> m <= b
                 /\ m <= b => atts'[m].st # "none"
                 /\ atts'[m].st # "none" => m <= b + 1
                 /\ atts'[m].st = "ready" => m = b + 1
                 /\ atts'[m].st # "running"
      <3>1. CASE m = n
        BY <1>1, <1>3, <1>10, <2>1, <3>1
      <3>2. CASE m = n + 1
        BY <1>1, <2>1, <3>2
      <3>3. CASE m # n /\ m # n + 1
        <4>1. atts'[m] = atts[m] /\ m \in Nat
          BY <1>1, <1>10, <3>3, Zenon
        <4>2. m <= b <=> m <= a
          BY <1>1, <1>4, <2>1, <3>3, <4>1
        <4>3. atts[m].st # "none" => m <= b + 1
          BY <1>1, <1>7, <1>10, <2>1, <4>1
        <4> QED
          BY <1>5, <1>6, <3>3, <4>1, <4>2, <4>3, Zenon
      <3> QED
        BY <3>1, <3>2, <3>3, Zenon
    <2> QED
      BY <1>10, <2>1, <2>2, Zenon DEF Ordered, b
  <1> QED
    BY <1>3, <1>9, <1>10, Zenon

-----------------------------------------------------------------------------
(* What the worker holds. *)

\* Between claims the worker holds nothing.
LEMMA HoldsNothing ==
    ASSUME pc' \in {"asleep", "idle", "escalate"}
    PROVE  WorkerHolds'
  BY Zenon DEF WorkerHolds, Polling

\* A step that leaves the task and the rows in their state keeps what is held.
LEMMA HoldsSame ==
    ASSUME WorkerHolds, task'.st = task.st, \A n \in Numbers : atts'[n].st = atts[n].st,
           cur' = cur,
           \/ pc' = pc
           \/ pc \in {"observe", "observed"} /\ pc' \in {"observe", "observed"}
           \/ pc \in {"launch", "launched"} /\ pc' \in {"launch", "launched"}
           \/ pc \in Polling /\ pc' \in Polling
    PROVE  WorkerHolds'
  BY Zenon DEF WorkerHolds, Polling

\* Every step keeps what is held.
LEMMA HoldsStep ==
    ASSUME IInv, Next
    PROVE  WorkerHolds'
  <1> USE DEF worker
  <1>1. CASE pc' \in {"asleep", "idle", "escalate"}
    BY <1>1, HoldsNothing, Zenon
  <1>2. CASE \/ EscalationDue \/ DeadlinePasses \/ Push
             \/ \E h \in Heads : RecordCIEvent(h) \/ EventLost(h) \/ ReconciliationDue(h) \/ CIDecides(h)
             \/ \E n \in Numbers : AttemptDue(n) \/ RunWaits(n) \/ RunEnds(n)
    <2>1. SameOrder
      BY <1>2, QuietSteps, Zenon DEF IInv
    <2>2. pc' = pc /\ cur' = cur
      BY <1>2, Zenon DEF EscalationDue, DeadlinePasses, Push, RecordCIEvent, EventLost, ReconciliationDue,
         CIDecides, AttemptDue, RunWaits, RunEnds
    <2> QED
      BY <2>1, <2>2, HoldsSame, Zenon DEF IInv, SameOrder, SameRow
  <1>3. CASE \/ ObserveCI \/ ObserveFails \/ LaunchRepair \/ LaunchFails \/ PollAnswers
             \/ LookOutside \/ ResumeRun
    <2>1. SameOrder
      BY <1>3, QuietSteps, Zenon DEF IInv
    <2>2. /\ cur' = cur
          /\ \/ pc \in {"observe", "observed"} /\ pc' \in {"observe", "observed"}
             \/ pc \in {"launch", "launched"} /\ pc' \in {"launch", "launched"}
             \/ pc \in Polling /\ pc' \in Polling
      BY <1>3, Zenon DEF ObserveCI, ObserveFails, LaunchRepair, LaunchFails, PollAnswers, LookOutside,
         ResumeRun, Goto, Polling
    <2> QED
      BY <2>1, <2>2, HoldsSame, Zenon DEF IInv, SameOrder, SameRow
  <1>4. CASE PollWaiting
    <2>1. SameOrder
      BY <1>4, QuietSteps, Zenon DEF IInv
    <2>2. pc' = "asleep" \/ (cur' = cur /\ pc \in Polling /\ pc' \in Polling)
      BY <1>4, Zenon DEF PollWaiting, WorkerStops, Goto, Polling
    <2> QED
      BY <2>1, <2>2, HoldsSame, HoldsNothing, Zenon DEF IInv, SameOrder, SameRow
  <1>5. CASE ScheduleCIRepairStatus \/ TerminalResult
    <2>1. pc' = "idle" \/ (UNCHANGED store /\ cur' = cur /\ pc \in Polling /\ pc' \in Polling)
      BY <1>5, Zenon DEF ScheduleCIRepairStatus, TerminalResult, Done, Goto, Polling
    <2> QED
      BY <2>1, HoldsSame, HoldsNothing, Zenon DEF IInv, store
  <1>6. CASE ChargeCIRepairAttempt
    <2>1. cur' = cur /\ pc \in Polling /\ pc' \in Polling
      BY <1>6, Zenon DEF ChargeCIRepairAttempt, Goto, Polling
    <2> QED
      BY <1>6, <2>1, ChargeOrder, HoldsSame, Zenon DEF IInv
  <1>7. CASE ClaimCIReconciliation
    BY <1>7, Zenon DEF ClaimCIReconciliation, DueReconciliations, WorkerHolds, Polling
  <1>8. CASE ClaimCIRepair
    BY <1>8, Zenon DEF ClaimCIRepair, DueLaunches, WorkerHolds, Polling, store
  <1>9. CASE ClaimCIRepairStatus
    <2>1. SameOrder
      BY <1>9, QuietSteps, Zenon DEF IInv
    <2> QED
      BY <1>9, <2>1, Zenon DEF ClaimCIRepairStatus, DuePolls, WorkerHolds, Polling, SameOrder, SameRow
  <1>10. CASE \/ Tick \/ TickEnds \/ Crash \/ Escalate \/ FailCIReconciliation \/ ApplyCIObservation
              \/ BindCIRepairRun \/ DeferCIRepairLaunch \/ LaunchRefused \/ PollFails \/ ResumeFails
              \/ MarkCIRepairExternalResumed \/ CompleteCIRepairDelivery
    <2>1. pc' \in {"asleep", "idle", "escalate"}
      BY <1>10, Zenon DEF Tick, TickEnds, Crash, Escalate, FailCIReconciliation, ApplyCIObservation,
         BindCIRepairRun, DeferCIRepairLaunch, LaunchRefused, PollFails, ResumeFails,
         MarkCIRepairExternalResumed, CompleteCIRepairDelivery, ClaimCIEscalation,
         MarkCIEscalationDelivered, MarkCIEscalationFailure, WorkerStops, Done, Goto
    <2> QED
      BY <2>1, HoldsNothing, Zenon
  <1> QED
    BY <1>2, <1>3, <1>4, <1>5, <1>6, <1>7, <1>8, <1>9, <1>10 DEF Next, Reconcile, Launch, Poll

\* Every step keeps the order.
LEMMA OrderStep ==
    ASSUME IInv, Next
    PROVE  Ordered'
  <1>1. CASE SameOrder
    BY <1>1, SameOrderKeeps, Zenon DEF IInv
  <1>2. CASE LaunchRefused \/ PollFails \/ ScheduleCIRepairStatus \/ TerminalResult
    <2>2. cur \in Numbers /\ runs[cur].started \in BOOLEAN
      BY <1>2, Zenon DEF IInv, TypeOK, Runs, WorkerHolds, Polling, LaunchRefused, PollFails,
         ScheduleCIRepairStatus, TerminalResult
    <2>3. CASE UNCHANGED store
      BY <1>1, <2>3, Zenon DEF SameOrder, SameRow, store
    <2>4. CASE atts' = [atts EXCEPT ![cur].due = FALSE] /\ task' = task
      <3>1. atts \in [Numbers -> Attempts]
        BY Zenon DEF IInv, TypeOK
      <3>2. SameOrder
        BY <2>4, <3>1, Zenon DEF SameOrder, SameRow, Attempts
      <3> QED
        BY <1>1, <3>2, Zenon
    <2>5. CASE LaunchRefused
      BY <2>2, <2>5, FinishOrder, Zenon DEF LaunchRefused, IInv
    <2>6. CASE PollFails
      <3>1. CASE FinishCIRepairFailure(cur, "failure", FALSE)
        BY <2>2, <3>1, FinishOrder, Zenon DEF IInv
      <3> QED
        BY <2>4, <2>6, <3>1, Zenon DEF PollFails
    <2>7. CASE ScheduleCIRepairStatus
      <3>1. CASE saw = "unknown"
        BY <2>2, <2>7, <3>1, FinishOrder, Zenon DEF IInv, ScheduleCIRepairStatus
      <3>2. CASE saw # "unknown"
        BY <2>3, <2>4, <2>7, <3>2, Zenon DEF ScheduleCIRepairStatus
      <3> QED
        BY <3>1, <3>2, Zenon
    <2>8. CASE TerminalResult
      <3>1. CASE runs[cur].st = "delivered" /\ runs[cur].started
        BY <2>3, <2>8, <3>1, Zenon DEF TerminalResult
      <3>2. CASE ~(runs[cur].st = "delivered" /\ runs[cur].started)
        BY <2>2, <2>8, <3>2, FinishOrder, Zenon DEF IInv, TerminalResult
      <3> QED
        BY <3>1, <3>2, Zenon
    <2> QED
      BY <1>2, <2>5, <2>6, <2>7, <2>8, Zenon
  <1>3. CASE MarkCIEscalationDelivered \/ MarkCIEscalationFailure
    <2>1. task \in Tasks
      BY Zenon DEF IInv, TypeOK
    <2>2. /\ atts' = atts /\ task'.attempts = task.attempts
          /\ \/ task'.st = task.st
             \/ task.st = "escalation_pending" /\ task'.st \in {"escalated", "escalation_blocked"}
      BY <1>3, <2>1, Zenon DEF MarkCIEscalationDelivered, MarkCIEscalationFailure, Tasks
    <2> QED
      BY <2>2 DEF IInv, Ordered
  <1> QED
    BY <1>1, <1>2, <1>3, QuietSteps, FailReconciliationOrder, ApplyOrder, BindOrder, ChargeOrder,
       CompleteOrder DEF IInv, Next, Escalate, Reconcile, Launch, Poll

\* Every step keeps the types.
LEMMA TypeStep ==
    ASSUME IInv, Next
    PROVE  TypeOK' /\ TriesLeft'
  <1>1. Types
    BY Zenon DEF IInv, Types
  <1>2. Types'
    BY <1>1, ClaimType, ReconcileType, LaunchType, PollType, EndType, EscalationType, WorldType
       DEF IInv, Next, Escalate, Reconcile, Launch, Poll
  <1> QED
    BY <1>2, Zenon DEF Types

-----------------------------------------------------------------------------
(* The theorems. *)

\* The inductive invariant holds in every reachable state, whatever the policy, the
\* number of pushes, external waits, retries and crashes.
THEOREM Invariant == Spec => []IInv
  <1>1. Init => IInv
    <2> SUFFICES ASSUME Init PROVE IInv
      BY Zenon
    <2>1. TypeOK /\ TriesLeft
      BY InitType, Zenon
    <2>2. \A n \in Numbers : atts[n].st = "none" /\ atts[n].charged = FALSE /\ n \in Nat /\ n > 0
      BY CIConstants DEF Init, NoAttempt, Numbers
    <2>3. task.st = "waiting_ci" /\ task.attempts = 0 /\ pc = "asleep"
      BY Zenon DEF Init
    <2>4. Ordered
      BY <2>2, <2>3 DEF Ordered
    <2>5. WorkerHolds
      BY <2>3, Zenon DEF WorkerHolds, Polling
    <2> QED
      BY <2>1, <2>4, <2>5, Zenon DEF IInv
  <1>2. IInv /\ [Next]_vars => IInv'
    <2> SUFFICES ASSUME IInv, [Next]_vars PROVE IInv'
      BY Zenon
    <2>1. CASE Next
      BY <2>1, TypeStep, OrderStep, HoldsStep, Zenon DEF IInv
    <2>2. CASE UNCHANGED vars
      BY <2>2 DEF vars, store, worker, world, IInv, TypeOK, TriesLeft, Ordered, WorkerHolds
    <2> QED
      BY <2>1, <2>2, Zenon
  <1> QED
    BY <1>1, <1>2, PTL DEF Spec

\* The tables, the worker's registers and the broker's rows keep their types: no counter of
\* attempts or escalation tries passes its limit.
THEOREM TypeCorrect == Spec => []TypeOK
  <1>1. IInv => TypeOK
    BY Zenon DEF IInv
  <1> QED
    BY <1>1, Invariant, PTL

\* The task's state and its attempt rows agree: exactly one attempt to launch or to poll
\* when the task says so, none otherwise.
THEOREM AttemptsMatch == Spec => []AttemptMatchesTask
  <1>1. IInv => AttemptMatchesTask
    <2> SUFFICES ASSUME IInv PROVE AttemptMatchesTask
      BY Zenon
    <2> DEFINE ready == {n \in Numbers : atts[n].st = "ready"}
               running == {n \in Numbers : atts[n].st = "running"}
    <2>1. task.attempts \in Nat /\ Numbers \subseteq Nat
      BY Indices, CIConstants DEF IInv, TypeOK, Tasks
    <2>2. CASE task.st = "repair_ready"
      <3>1. PICK n \in Numbers : atts[n].st = "ready"
        BY <2>2, Zenon DEF IInv, Ordered
      <3>2. \A m \in Numbers : atts[m].st = "ready" => m = n
        BY <3>1, Zenon DEF IInv, Ordered
      <3>3. running = {} /\ ready = {n}
        BY <2>2, <3>1, <3>2, Zenon DEF IInv, Ordered
      <3> QED
        BY <2>2, <3>3, Zenon DEF AttemptMatchesTask
    <2>3. CASE task.st = "repair_running"
      <3>1. PICK n \in Numbers : atts[n].st = "running"
        BY <2>3, Zenon DEF IInv, Ordered
      <3>2. \A m \in Numbers : atts[m].st = "running" =>
                m = task.attempts + 1
                  \/ (m = task.attempts /\ \A i \in Numbers : i > m => atts[i].st = "none")
        BY Zenon DEF IInv, Ordered
      <3>3. \A m \in Numbers : atts[m].st = "running" => m = n
        BY <2>1, <3>1, <3>2
      <3>4. ready = {} /\ running = {n}
        BY <2>3, <3>1, <3>3 DEF IInv, Ordered
      <3> QED
        BY <2>3, <3>4, Zenon DEF AttemptMatchesTask
    <2>4. CASE task.st \notin {"repair_ready", "repair_running"}
      <3>1. ready = {} /\ running = {}
        BY <2>4, Zenon DEF IInv, Ordered
      <3> QED
        BY <2>4, <3>1, Zenon DEF AttemptMatchesTask
    <2> QED
      BY <2>2, <2>3, <2>4, Zenon
  <1> QED
    BY <1>1, Invariant, PTL

\* repair_attempts counts every charged attempt exactly once.
THEOREM ChargesCounted == Spec => []ChargedInOrder
  <1>1. IInv => ChargedInOrder
    BY Zenon DEF IInv, Ordered, ChargedInOrder
  <1> QED
    BY <1>1, Invariant, PTL

-----------------------------------------------------------------------------
(* Refinement: the tables implement CILifecycle. *)

\* Attempt rows that exist.
Used == {n \in Numbers : atts[n].st # "none"}

\* The phases of the states.
LEMMA Phase ==
    /\ PhaseOf["waiting_ci"] = "waiting" /\ PhaseOf["completed"] = "completed"
    /\ PhaseOf["repair_ready"] = "repair" /\ PhaseOf["repair_running"] = "repair"
    /\ PhaseOf["escalation_pending"] = "escalation"
    /\ PhaseOf["escalated"] = "escalated" /\ PhaseOf["escalation_blocked"] = "blocked"
  BY Zenon DEF PhaseOf

\* One more row is one more repair, and there is room for it.
LEMMA OneMore ==
    ASSUME NEW S \in SUBSET Numbers, NEW x \in Numbers, x \notin S
    PROVE  /\ Cardinality(S) < MaxAttempts
           /\ Cardinality(S \cup {x}) = Cardinality(S) + 1
  <1>1. IsFiniteSet(Numbers) /\ Cardinality(Numbers) = MaxAttempts
    BY FS_Interval, CIConstants DEF Numbers
  <1>2. IsFiniteSet(S) /\ Cardinality(S) <= MaxAttempts /\ Cardinality(S) # MaxAttempts
    BY <1>1, FS_Subset, Zenon
  <1>3. Cardinality(S) \in Nat
    BY <1>2, FS_CardinalityType, Zenon
  <1>4. Cardinality(S \cup {x}) = Cardinality(S) + 1
    BY <1>2, FS_AddElement, Zenon
  <1> QED
    BY <1>2, <1>3, <1>4, CIConstants

\* Steps of the lifecycle by what they do to the task and the rows.
LEMMA LifecycleSteps ==
    LET from == PhaseOf[task.st]
        to == PhaseOf[task'.st]
    IN  /\ Used' = Used /\ to = from => UNCHANGED Lifecycle!lvars
        /\ Used' = Used /\ from = "waiting" /\ to = "completed" => Lifecycle!Next
        /\ Used' = Used /\ from \in {"waiting", "repair"} /\ to = "escalation" => Lifecycle!Next
        /\ Used' = Used /\ from = "repair" /\ to = "waiting" => Lifecycle!Next
        /\ Used' = Used /\ from = "escalation" /\ to \in {"escalated", "blocked"} => Lifecycle!Next
        /\ (\E n \in Numbers \ Used : Used' = Used \cup {n})
             /\ from \in {"waiting", "repair"} /\ to = "repair" => Lifecycle!Next
  <1>1. ASSUME NEW n \in Numbers \ Used, Used' = Used \cup {n}
        PROVE  Cardinality(Used) < MaxAttempts /\ Cardinality(Used') = Cardinality(Used) + 1
    <2>1. Used \in SUBSET Numbers
      BY Zenon DEF Used
    <2> QED
      BY <1>1, <2>1, OneMore, Zenon
  <1> QED
    BY <1>1, Zenon DEF Used, Lifecycle!Next, Lifecycle!lvars, Lifecycle!Succeed, Lifecycle!Repair,
       Lifecycle!Deliver, Lifecycle!Escalate, Lifecycle!Tell

\* A failed repair is followed by the next one or by an escalation.
LEMMA FinishRefines ==
    ASSUME TypeOK, Ordered, NEW n \in Numbers, NEW class, NEW started \in BOOLEAN,
           task.st \in {"repair_ready", "repair_running"},
           FinishCIRepairFailure(n, class, started)
    PROVE  Lifecycle!Next
  <1>1. atts[n].st \in {"ready", "running"} /\ (started => atts[n].st = "running")
    BY Zenon DEF FinishCIRepairFailure
  <1>2. PhaseOf[task.st] = "repair"
    BY Phase, Zenon
  <1>3. atts'[n].st = "failed"
    BY FinishShape, Zenon
  <1>4. CASE task'.st = "escalation_pending" /\ \A m \in Numbers : m # n => atts'[m] = atts[m]
    <2>1. Used' = Used
      BY <1>1, <1>3, <1>4, Zenon DEF Used
    <2> QED
      BY <1>2, <1>4, <2>1, Phase, LifecycleSteps, Zenon
  <1>5. CASE /\ task'.st = "repair_ready" /\ started
             /\ n + 1 \in Numbers /\ atts'[n + 1] = Ready(task.head)
             /\ \A m \in Numbers : m # n /\ m # n + 1 => atts'[m] = atts[m]
    <2>1. task.attempts \in Nat /\ n \in Nat
      BY Indices, CIConstants DEF TypeOK, Tasks
    <2>2. n = task.attempts + 1 \/ (\A m \in Numbers : m > n => atts[m].st = "none")
      BY <1>1, <1>5, Zenon DEF Ordered
    <2>3. atts[n + 1].st # "none" => n + 1 <= task.attempts + 1
      BY <1>5, Zenon DEF Ordered
    <2>4. n + 1 \in Numbers \ Used
      BY <1>5, <2>1, <2>2, <2>3 DEF Used
    <2>5. atts'[n + 1].st = "ready"
      BY <1>5, Zenon DEF Ready, NoAttempt
    <2>6. Used' = Used \cup {n + 1}
      BY <1>1, <1>3, <1>5, <2>4, <2>5 DEF Used
    <2> QED
      BY <1>2, <1>5, <2>4, <2>6, Phase, LifecycleSteps
  <1>6. \/ /\ task'.st = "escalation_pending"
           /\ \A m \in Numbers : m # n => atts'[m] = atts[m]
        \/ /\ task'.st = "repair_ready" /\ started
           /\ n + 1 \in Numbers /\ atts'[n + 1] = Ready(task.head)
           /\ \A m \in Numbers : m # n /\ m # n + 1 => atts'[m] = atts[m]
    BY FinishShape
  <1> QED
    BY <1>4, <1>5, <1>6, Zenon

\* Every step of the worker, its callers and the outside is a step of the lifecycle or none.
LEMMA StepRefines ==
    ASSUME IInv, Next
    PROVE  [Lifecycle!Next]_(Lifecycle!lvars)
  <1>0. task \in Tasks /\ atts \in [Numbers -> Attempts] /\ TypeOK /\ Ordered
    BY Zenon DEF IInv, TypeOK
  <1>1. CASE SameOrder
    <2>1. Used' = Used /\ task'.st = task.st
      BY <1>1, Zenon DEF SameOrder, SameRow, Used
    <2> QED
      BY <2>1, LifecycleSteps, Zenon
  <1>2. CASE UNCHANGED store
    BY <1>1, <1>2, Zenon DEF store, SameOrder, SameRow
  <1>3. CASE atts' = [atts EXCEPT ![cur].due = FALSE] /\ task' = task
    <2>1. SameOrder
      BY <1>0, <1>3 DEF SameOrder, SameRow, Attempts
    <2> QED
      BY <1>1, <2>1, Zenon
  <1>4. CASE LaunchRefused \/ PollFails \/ ScheduleCIRepairStatus \/ TerminalResult
    <2>1. /\ cur \in Numbers /\ runs[cur].started \in BOOLEAN
          /\ task.st \in {"repair_ready", "repair_running"}
      BY <1>4, Zenon DEF IInv, TypeOK, Runs, WorkerHolds, Polling, LaunchRefused, PollFails,
         ScheduleCIRepairStatus, TerminalResult
    <2>2. CASE LaunchRefused
      BY <1>0, <2>1, <2>2, FinishRefines, Zenon DEF LaunchRefused
    <2>3. CASE PollFails
      <3>1. CASE FinishCIRepairFailure(cur, "failure", FALSE)
        BY <1>0, <2>1, <3>1, FinishRefines, Zenon
      <3> QED
        BY <1>3, <2>3, <3>1, Zenon DEF PollFails
    <2>4. CASE ScheduleCIRepairStatus
      <3>1. CASE saw = "unknown"
        BY <1>0, <2>1, <2>4, <3>1, FinishRefines DEF ScheduleCIRepairStatus
      <3>2. CASE saw # "unknown"
        BY <1>2, <1>3, <2>4, <3>2, Zenon DEF ScheduleCIRepairStatus
      <3> QED
        BY <3>1, <3>2, Zenon
    <2>5. CASE TerminalResult
      <3>1. CASE runs[cur].st = "delivered" /\ runs[cur].started
        BY <1>2, <2>5, <3>1, Zenon DEF TerminalResult
      <3>2. CASE ~(runs[cur].st = "delivered" /\ runs[cur].started)
        BY <1>0, <2>1, <2>5, <3>2, FinishRefines, Zenon DEF TerminalResult
      <3> QED
        BY <3>1, <3>2, Zenon
    <2> QED
      BY <1>4, <2>2, <2>3, <2>4, <2>5, Zenon
  <1>5. CASE MarkCIEscalationDelivered \/ MarkCIEscalationFailure
    <2>1. /\ atts' = atts
          /\ \/ task'.st = task.st
             \/ task.st = "escalation_pending" /\ task'.st \in {"escalated", "escalation_blocked"}
      BY <1>0, <1>5, Zenon DEF MarkCIEscalationDelivered, MarkCIEscalationFailure, Tasks
    <2>2. Used' = Used
      BY <2>1, Zenon DEF Used
    <2> QED
      BY <2>1, <2>2, Phase, LifecycleSteps, Zenon
  <1>6. CASE FailCIReconciliation
    <2>1. task.st = "waiting_ci" /\ atts' = atts
      BY <1>6, Zenon DEF IInv, WorkerHolds, FailCIReconciliation
    <2>2. task'.st \in {"waiting_ci", "escalation_pending"}
      BY <1>0, <1>6, <2>1 DEF FailCIReconciliation, QueueEscalation, Tasks
    <2>3. Used' = Used
      BY <2>1, Zenon DEF Used
    <2> QED
      BY <2>1, <2>2, <2>3, Phase, LifecycleSteps, Zenon
  <1>7. CASE ApplyCIObservation
    <2>1. task.st = "waiting_ci"
      BY <1>7, Zenon DEF IInv, WorkerHolds, ApplyCIObservation
    <2>2. CASE ObservationStops \/ saw # "code_failure"
      <3>1. atts' = atts /\ task'.st \in {"escalation_pending", "completed", "waiting_ci"}
        BY <1>7, <2>2, ApplyDecides, Zenon
      <3>2. Used' = Used
        BY <3>1, Zenon DEF Used
      <3> QED
        BY <2>1, <3>1, <3>2, Phase, LifecycleSteps, Zenon
    <2>3. CASE ~ObservationStops /\ saw = "code_failure"
      <3> DEFINE k == task.attempts + 1
      <3>1. /\ k \in Numbers /\ atts[k].st = "none" /\ task'.st = "repair_ready"
            /\ atts' = [atts EXCEPT ![k] = Ready(cur)]
        BY <1>7, <2>3, NextAttempt, Zenon
      <3> HIDE DEF k
      <3>2. k \in Numbers \ Used
        BY <3>1, Zenon DEF Used
      <3>3. Ready(cur).st = "ready"
        BY Zenon DEF Ready, NoAttempt
      <3>4. Used' = Used \cup {k}
        BY <1>0, <3>1, <3>3, Zenon DEF Used
      <3> QED
        BY <2>1, <3>1, <3>2, <3>4, Phase, LifecycleSteps, Zenon
    <2> QED
      BY <2>2, <2>3, Zenon
  <1>8. CASE BindCIRepairRun
    <2>1. cur \in Numbers /\ task.st = "repair_ready" /\ atts[cur].st = "ready"
      BY <1>8, Zenon DEF IInv, WorkerHolds, BindCIRepairRun
    <2>2. task'.st = "repair_running"
      BY <1>0, <1>8, <2>1, Zenon DEF BindCIRepairRun, Tasks
    <2>3. atts'[cur].st = "running" /\ \A n \in Numbers : n # cur => atts'[n] = atts[n]
      BY <1>0, <1>8, <2>1, Zenon DEF BindCIRepairRun, Attempts
    <2>4. Used' = Used
      BY <2>1, <2>3, Zenon DEF Used
    <2> QED
      BY <2>1, <2>2, <2>4, Phase, LifecycleSteps, Zenon
  <1>9. CASE ChargeCIRepairAttempt
    <2>1. task'.st = task.st /\ \A n \in Numbers : atts'[n].st = atts[n].st
      BY <1>9, ChargeOrder, Zenon
    <2>2. Used' = Used
      BY <2>1, Zenon DEF Used
    <2> QED
      BY <2>1, <2>2, LifecycleSteps, Zenon
  <1>10. CASE CompleteCIRepairDelivery
    <2>1. cur \in Numbers /\ task.st = "repair_running" /\ atts[cur].st = "running"
      BY <1>10, Zenon DEF IInv, WorkerHolds, Polling, CompleteCIRepairDelivery
    <2>2. task'.st = "waiting_ci"
      BY <1>0, <1>10, Zenon DEF CompleteCIRepairDelivery, Tasks
    <2>3. atts'[cur].st = "delivered" /\ \A n \in Numbers : n # cur => atts'[n] = atts[n]
      BY <1>0, <1>10, <2>1 DEF CompleteCIRepairDelivery, Attempts
    <2>4. Used' = Used
      BY <2>1, <2>3, Zenon DEF Used
    <2> QED
      BY <2>1, <2>2, <2>4, Phase, LifecycleSteps
  <1> QED
    BY <1>0, <1>1, <1>4, <1>5, <1>6, <1>7, <1>8, <1>9, <1>10, QuietSteps, Zenon
       DEF Next, Escalate, Reconcile, Launch, Poll

\* The tables and the worker implement the CI lifecycle: at most MaxAttempts repairs are
\* authorised, and what has ended stays ended, whatever fails, is lost or crashes.
THEOREM LifecycleImplemented == Spec => ImplementsLifecycle
  <1>1. Init => Lifecycle!Init
    <2> SUFFICES ASSUME Init PROVE Lifecycle!Init
      OBVIOUS
    <2>1. task.st = "waiting_ci" /\ \A n \in Numbers : atts[n].st = "none"
      BY Zenon DEF Init, NoAttempt
    <2>2. {n \in Numbers : atts[n].st # "none"} = {}
      BY <2>1, Zenon
    <2> QED
      BY <2>1, <2>2, Phase, FS_EmptySet DEF Lifecycle!Init
  <1>2. IInv /\ [Next]_vars => [Lifecycle!Next]_(Lifecycle!lvars)
    <2> SUFFICES ASSUME IInv, [Next]_vars PROVE [Lifecycle!Next]_(Lifecycle!lvars)
      BY Zenon
    <2>1. CASE Next
      BY <2>1, StepRefines, Zenon
    <2>2. CASE UNCHANGED vars
      BY <2>2, Zenon DEF vars, store, Lifecycle!lvars
    <2> QED
      BY <2>1, <2>2, Zenon
  <1> QED
    BY <1>1, <1>2, Invariant, PTL DEF Spec, ImplementsLifecycle, Lifecycle!Spec

=============================================================================
