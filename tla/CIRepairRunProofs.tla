------------------------- MODULE CIRepairRunProofs -------------------------
(***************************************************************************)
(* Theorems about CIRepair for any policy, number of pushes, waits and     *)
(* crashes: the repair runs at the broker, the heads they are started for  *)
(* and the events that come in while CI is observed.                       *)
(***************************************************************************)
EXTENDS CIRepairProofs

(* The inductive invariant, beside IInv. *)

\* A run belongs to an attempt; while the task is followed a run still at work
\* belongs to the attempt that is ready or running; and the worker fetches a
\* terminal result only of a run that has ended.
RunInv ==
    /\ \A n \in Numbers : runs[n].st # "none" => atts[n].st # "none"
    /\ \A n \in Numbers : runs[n].started => runs[n].st \in Outcomes
    /\ Followed => \A n \in Numbers : runs[n].st \in Live => atts[n].st \in {"ready", "running"}
    /\ pc = "answered" => saw \in {"running", "ended", "unknown"}
    /\ pc = "terminal" \/ (pc = "answered" /\ saw = "ended") => runs[cur].st \notin Live
    /\ pc \in {"charge", "deliver"} => runs[cur].started
    /\ ChargedOnlyIfStarted
    /\ OneRepairRun

\* An attempt is for a head whose CI failed in the code, and what the worker saw
\* of a head that is decided is still so.
HeadInv ==
    /\ \A n \in Numbers : atts[n].st # "none" => ci[atts[n].head] = "code_failure"
    /\ task.st \in {"repair_ready", "repair_running"} => ci[task.head] = "code_failure"
    /\ task.st = "completed" => ci[task.head] = "success"
    /\ pc = "observed" /\ saw \in CIResults \ {"pending"} => ci[cur] = saw

\* Nothing is known of a head before it is pushed; a head found stale stays so.
PushInv ==
    /\ task.head <= pr
    /\ \A h \in news : h <= pr
    /\ \A h \in Heads : recs[h].st # "none" => h <= pr
    /\ \A n \in Numbers : runs[n].head <= pr
    /\ pc \in {"observe", "observed"} => cur <= pr
    /\ pc = "observed" /\ saw = "stale" => cur < pr
-----------------------------------------------------------------------------
(* What one step may do to a run, to an attempt and to the worker. *)

\* A run stays as it is, is created for the attempt that is launched, goes on, or ends.
RunMove(n) ==
    \/ runs'[n] = runs[n]
    \/ /\ SameOrder /\ pc = "launch" /\ cur = n /\ runs[n].st = "none"
       /\ runs'[n].st = "running" /\ runs'[n].started = runs[n].started
       /\ runs'[n].head = runs[n].head
    \/ /\ SameOrder /\ runs[n].st \in Live
       /\ \/ /\ runs'[n].st \in Live /\ runs'[n].started = runs[n].started
             /\ runs'[n].head = runs[n].head
          \/ runs'[n].st \in Outcomes /\ runs'[n].head \in {runs[n].head, pr'}

\* Which steps write the runs.
LEMMA RunWrites ==
    ASSUME Next
    PROVE  \/ runs' = runs
           \/ LaunchRepair \/ LaunchFails \/ ResumeRun \/ ResumeFails
           \/ \E n \in Numbers : RunWaits(n) \/ RunEnds(n)
  <1>1. CASE Tick \/ TickEnds \/ Crash \/ Escalate \/ Reconcile
    BY <1>1, Zenon DEF Tick, TickEnds, Crash, Escalate, ClaimCIEscalation, MarkCIEscalationDelivered,
       MarkCIEscalationFailure, Reconcile, ClaimCIReconciliation, FailCIReconciliation,
       ApplyCIObservation, world
  <1>2. CASE Launch \/ Poll \/ ObserveCI \/ ObserveFails
    BY <1>2, Zenon DEF Launch, ClaimCIRepair, BindCIRepairRun, DeferCIRepairLaunch, LaunchRefused, Poll,
       ClaimCIRepairStatus, PollWaiting, ScheduleCIRepairStatus, MarkCIRepairExternalResumed,
       ChargeCIRepairAttempt, CompleteCIRepairDelivery, ObserveCI, ObserveFails, world
  <1>3. CASE PollFails \/ PollAnswers \/ LookOutside \/ TerminalResult
             \/ EscalationDue \/ DeadlinePasses \/ Push
    BY <1>3, Zenon DEF PollFails, PollAnswers, LookOutside, TerminalResult, EscalationDue, DeadlinePasses,
       Push, world
  <1>4. ASSUME NEW h \in Heads,
               RecordCIEvent(h) \/ EventLost(h) \/ ReconciliationDue(h) \/ CIDecides(h)
        PROVE  runs' = runs
    BY <1>4, Zenon DEF RecordCIEvent, EventLost, ReconciliationDue, CIDecides, world
  <1>5. ASSUME NEW n \in Numbers, AttemptDue(n)
        PROVE  runs' = runs
    BY <1>5, Zenon DEF AttemptDue, world
  <1> QED
    BY <1>1, <1>2, <1>3, <1>4, <1>5 DEF Next

\* Every step moves every run in one of these ways.
LEMMA RunMoves ==
    ASSUME IInv, Next
    PROVE  \A n \in Numbers : RunMove(n)
  <1>0. runs \in [Numbers -> Runs]
    BY Zenon DEF IInv, TypeOK
  <1>1. CASE runs' = runs
    BY <1>1, Zenon DEF RunMove
  <1>2. CASE (LaunchRepair \/ LaunchFails) /\ runs' # runs
    <2>1. SameOrder /\ pc = "launch" /\ cur \in Numbers
      BY <1>2, QuietSteps, Zenon DEF IInv, WorkerHolds, LaunchRepair, LaunchFails
    <2>2. runs' = [runs EXCEPT ![cur].st = IF @ = "none" THEN "running" ELSE @]
      BY <1>2, Zenon DEF LaunchRepair, LaunchFails, Created
    <2>3. \A n \in Numbers \ {cur} : runs'[n] = runs[n]
      BY <1>0, <2>2, Zenon
    <2>4. runs[cur] \in Runs
      BY <1>0, <2>1, Zenon
    <2>5. /\ runs'[cur].st = IF runs[cur].st = "none" THEN "running" ELSE runs[cur].st
          /\ runs'[cur].started = runs[cur].started /\ runs'[cur].head = runs[cur].head
          /\ runs[cur].st # "none" => runs'[cur] = runs[cur]
      BY <1>0, <2>1, <2>2, <2>4 DEF Runs
    <2> QED
      BY <2>1, <2>3, <2>5 DEF RunMove
  <1>3. CASE (ResumeRun \/ ResumeFails) /\ runs' # runs
    <2>1. SameOrder /\ cur \in Numbers
      BY <1>3, QuietSteps, Zenon DEF IInv, WorkerHolds, Polling, ResumeRun, ResumeFails
    <2>2. runs' = [runs EXCEPT ![cur].st = IF @ = "waiting" /\ runs[cur].gen = atts[cur].gen
                                           THEN "running" ELSE @]
      BY <1>3, Zenon DEF ResumeRun, ResumeFails, Resumed
    <2>3. \A n \in Numbers \ {cur} : runs'[n] = runs[n]
      BY <1>0, <2>2, Zenon
    <2>4. runs[cur] \in Runs
      BY <1>0, <2>1, Zenon
    <2>5. \/ runs'[cur] = runs[cur]
          \/ /\ runs[cur].st = "waiting" /\ runs'[cur].st = "running"
             /\ runs'[cur].started = runs[cur].started /\ runs'[cur].head = runs[cur].head
      BY <1>0, <2>1, <2>2, <2>4, Zenon DEF Runs
    <2> QED
      BY <2>1, <2>3, <2>5, Zenon DEF RunMove, Live
  <1>4. ASSUME NEW n \in Numbers, RunWaits(n)
        PROVE  \A m \in Numbers : RunMove(m)
    <2>1. SameOrder
      BY <1>4, QuietSteps, Zenon DEF IInv
    <2>2. \A m \in Numbers \ {n} : runs'[m] = runs[m]
      BY <1>0, <1>4, Zenon DEF RunWaits
    <2>3. runs'[n] = [runs[n] EXCEPT !.st = "waiting", !.gen = @ + 1] /\ runs[n].st = "running"
      BY <1>0, <1>4, Zenon DEF RunWaits
    <2>4. runs[n] \in Runs
      BY <1>0, Zenon
    <2>5. runs'[n].st = "waiting" /\ runs'[n].started = runs[n].started /\ runs'[n].head = runs[n].head
      BY <2>3, <2>4, Zenon DEF Runs
    <2> QED
      BY <2>1, <2>2, <2>3, <2>5, Zenon DEF RunMove, Live
  <1>5. ASSUME NEW n \in Numbers, RunEnds(n)
        PROVE  \A m \in Numbers : RunMove(m)
    <2>1. SameOrder
      BY <1>5, QuietSteps, Zenon DEF IInv
    <2>2. PICK out \in Outcomes, started \in BOOLEAN :
             LET head == IF out = "delivered" THEN pr + 1 ELSE pr
             IN  /\ runs' = [runs EXCEPT ![n].st = out, ![n].started = started,
                                         ![n].head = IF out = "delivered" THEN head ELSE @]
                 /\ pr' = head
      BY <1>5, Zenon DEF RunEnds
    <2>3. \A m \in Numbers \ {n} : runs'[m] = runs[m]
      BY <1>0, <2>2, Zenon
    <2>4. runs[n] \in Runs
      BY <1>0, Zenon
    <2>5. runs'[n] = [runs[n] EXCEPT !.st = out, !.started = started,
                                     !.head = IF out = "delivered" THEN pr' ELSE @]
      BY <1>0, <2>2, Zenon
    <2>6. runs'[n].st = out /\ runs'[n].head \in {runs[n].head, pr'}
      BY <2>4, <2>5, Zenon DEF Runs
    <2> QED
      BY <1>5, <2>1, <2>3, <2>6, Zenon DEF RunMove, RunEnds
  <1> QED
    BY <1>1, <1>2, <1>3, <1>4, <1>5, RunWrites

\* What the store does to an attempt, as far as its run is concerned.
AttemptMove(n) ==
    /\ atts[n].st # "none" => atts'[n].st # "none"
    /\ atts'[n].charged => atts[n].charged \/ runs[n].started
    /\ Followed' /\ runs[n].st \in Live /\ atts[n].st \in {"ready", "running"}
          => atts'[n].st \in {"ready", "running"}

\* A failure that ends an attempt whose run is known to have ended, or that ends the task.
LEMMA FinishMoves ==
    ASSUME IInv, NEW class, NEW started \in BOOLEAN, cur \in Numbers,
           task.st \in {"repair_ready", "repair_running"},
           FinishCIRepairFailure(cur, class, started),
           started => runs[cur].started /\ runs[cur].st \notin Live
    PROVE  (Followed' => Followed) /\ \A n \in Numbers : AttemptMove(n)
  <1>1. /\ atts'[cur].st = "failed" /\ (atts'[cur].charged => atts[cur].charged \/ started)
        /\ \/ /\ task'.st = "escalation_pending"
              /\ \A m \in Numbers : m # cur => atts'[m] = atts[m]
           \/ /\ task'.st = "repair_ready" /\ started
              /\ cur + 1 \in Numbers /\ atts'[cur + 1] = Ready(task.head)
              /\ \A m \in Numbers : m # cur /\ m # cur + 1 => atts'[m] = atts[m]
    BY FinishShape DEF IInv
  <1>2. AttemptMove(cur)
    BY <1>1, Zenon DEF AttemptMove, Followed
  <1>3. Ready(task.head).st = "ready" /\ ~Ready(task.head).charged
    BY Zenon DEF Ready, NoAttempt
  <1>4. ASSUME NEW m \in Numbers, m # cur
        PROVE  AttemptMove(m)
    BY <1>1, <1>3, <1>4, Zenon DEF AttemptMove
  <1> QED
    BY <1>2, <1>4, Zenon DEF Followed

\* Every step treats every attempt in one of these ways, and a task that is no
\* longer followed stays so.
LEMMA AttemptMoves ==
    ASSUME IInv, RunInv, Next
    PROVE  (Followed' => Followed) /\ \A n \in Numbers : AttemptMove(n)
  <1>0. task \in Tasks /\ atts \in [Numbers -> Attempts]
    BY Zenon DEF IInv, TypeOK
  <1>1. CASE SameOrder
    BY <1>1, Zenon DEF SameOrder, SameRow, AttemptMove, Followed
  <1>2. CASE atts' = atts /\ (task'.st = task.st \/ task.st = "waiting_ci"
                                \/ task'.st \in {"escalated", "escalation_blocked"})
    BY <1>2, Zenon DEF AttemptMove, Followed
  <1>3. CASE FailCIReconciliation
    BY <1>2, <1>3, Zenon DEF FailCIReconciliation, IInv, WorkerHolds
  <1>4. CASE ApplyCIObservation
    <2>1. task.st = "waiting_ci"
      BY <1>4, Zenon DEF ApplyCIObservation, IInv, WorkerHolds
    <2>2. CASE saw = "code_failure" /\ ~ObservationStops
      <3> DEFINE a == task.attempts + 1
      <3>1. a \in Numbers /\ atts[a].st = "none" /\ atts' = [atts EXCEPT ![a] = Ready(cur)]
        BY <1>4, <2>2, NextAttempt, Zenon
      <3> HIDE DEF a
      <3>2. Ready(cur).st = "ready" /\ ~Ready(cur).charged
        BY Zenon DEF Ready, NoAttempt
      <3>3. \A n \in Numbers : atts'[n] = IF n = a THEN Ready(cur) ELSE atts[n]
        BY <1>0, <3>1, Zenon
      <3> QED
        BY <2>1, <3>1, <3>2, <3>3 DEF AttemptMove, Followed
    <2>3. CASE saw # "code_failure" \/ ObservationStops
      BY <1>2, <1>4, <2>1, <2>3, ApplyDecides
    <2> QED
      BY <2>2, <2>3, Zenon
  <1>5. CASE BindCIRepairRun
    <2>1. cur \in Numbers /\ task.st = "repair_ready" /\ atts[cur].st = "ready"
      BY <1>5, Zenon DEF BindCIRepairRun, IInv, WorkerHolds
    <2>2. atts' = [atts EXCEPT ![cur] = [@ EXCEPT !.st = "running", !.due = FALSE]]
      BY <1>5, <2>1, Zenon DEF BindCIRepairRun
    <2>3. atts'[cur].st = "running" /\ atts'[cur].charged = atts[cur].charged
      BY <1>0, <2>1, <2>2 DEF Attempts
    <2>4. \A n \in Numbers \ {cur} : atts'[n] = atts[n]
      BY <1>0, <2>2, Zenon
    <2>5. \A n \in Numbers : AttemptMove(n)
      BY <2>3, <2>4, Zenon DEF AttemptMove
    <2> QED
      BY <2>1, <2>5, Zenon DEF Followed
  <1>6. CASE LaunchRefused \/ PollFails \/ ScheduleCIRepairStatus \/ TerminalResult
    <2>1. /\ cur \in Numbers /\ runs[cur].started \in BOOLEAN
          /\ task.st \in {"repair_ready", "repair_running"}
      BY <1>6, Zenon DEF IInv, TypeOK, Runs, WorkerHolds, Polling, LaunchRefused, PollFails,
         ScheduleCIRepairStatus, TerminalResult
    <2>2. CASE FinishCIRepairFailure(cur, "failure", FALSE)
      BY <2>1, <2>2, FinishMoves, Zenon
    <2>3. CASE TerminalResult /\ FinishCIRepairFailure(cur, runs[cur].st, runs[cur].started)
      <3>1. runs[cur].st \notin Live
        BY <2>3, Zenon DEF RunInv, TerminalResult
      <3> QED
        BY <2>1, <2>3, <3>1, FinishMoves
    <2>4. CASE UNCHANGED store
      BY <1>2, <2>4, Zenon DEF store
    <2>5. CASE atts' = [atts EXCEPT ![cur].due = FALSE] /\ task' = task
      <3>1. SameOrder
        BY <1>0, <2>5 DEF SameOrder, SameRow, Attempts
      <3> QED
        BY <1>1, <3>1, Zenon
    <2> QED
      BY <1>6, <2>2, <2>3, <2>4, <2>5 DEF LaunchRefused, PollFails, ScheduleCIRepairStatus,
         TerminalResult
  <1>7. CASE ChargeCIRepairAttempt
    <2>1. cur \in Numbers /\ runs[cur].started
      BY <1>7, Zenon DEF ChargeCIRepairAttempt, IInv, WorkerHolds, Polling, RunInv
    <2>2. task'.st = task.st /\ \A n \in Numbers : atts'[n].st = atts[n].st
      BY <1>7, ChargeOrder, Zenon
    <2>3. \A n \in Numbers \ {cur} : atts'[n] = atts[n]
      BY <1>0, <1>7, Zenon DEF ChargeCIRepairAttempt
    <2> QED
      BY <2>1, <2>2, <2>3, Zenon DEF AttemptMove, Followed
  <1>8. CASE CompleteCIRepairDelivery
    <2>1. /\ cur \in Numbers /\ runs[cur].st \notin Live /\ task.st = "repair_running"
      BY <1>8, Zenon DEF CompleteCIRepairDelivery, IInv, WorkerHolds, Polling, RunInv, Live, Outcomes
    <2>2. atts' = [atts EXCEPT ![cur].st = "delivered", ![cur].due = FALSE]
      BY <1>8, Zenon DEF CompleteCIRepairDelivery
    <2>3. atts'[cur] = [atts[cur] EXCEPT !.st = "delivered", !.due = FALSE]
      BY <1>0, <2>1, <2>2, Zenon
    <2>4. atts'[cur].st = "delivered" /\ atts'[cur].charged = atts[cur].charged
      BY <1>0, <2>1, <2>3 DEF Attempts
    <2>5. \A n \in Numbers \ {cur} : atts'[n] = atts[n]
      BY <1>0, <2>2, Zenon
    <2>6. \A n \in Numbers : AttemptMove(n)
      BY <2>1, <2>4, <2>5, Zenon DEF AttemptMove
    <2> QED
      BY <2>1, <2>6, Zenon DEF Followed
  <1>9. CASE MarkCIEscalationDelivered \/ MarkCIEscalationFailure
    <2>1. atts' = atts /\ (task'.st = task.st \/ task'.st \in {"escalated", "escalation_blocked"})
      BY <1>0, <1>9, Zenon DEF MarkCIEscalationDelivered, MarkCIEscalationFailure, Tasks
    <2> QED
      BY <1>2, <2>1, Zenon
  <1> QED
    BY <1>1, <1>3, <1>4, <1>5, <1>6, <1>7, <1>8, <1>9, QuietSteps
       DEF IInv, Next, Escalate, Reconcile, Launch, Poll
\* How the worker comes to the answer of a run that has ended, and on to its charge.
LEMMA WorkerMoves ==
    ASSUME Next, pc' \in {"answered", "terminal", "charge", "deliver"}
    PROVE  \/ UNCHANGED <<pc, cur, saw>>
           \/ /\ cur' = cur /\ runs' = runs
              /\ \/ PollAnswers /\ pc' = "answered"
                 \/ pc = "answered" /\ saw \notin {"unknown", "running"} /\ pc' = "terminal"
                 \/ pc = "terminal" /\ runs[cur].started /\ pc' = "charge"
                 \/ pc = "charge" /\ pc' = "deliver"
  <1> USE DEF world, worker
  <1>1. CASE Tick \/ TickEnds \/ Crash \/ Escalate \/ Reconcile
    BY <1>1, Zenon DEF Tick, TickEnds, Crash, Escalate, ClaimCIEscalation, MarkCIEscalationDelivered,
       MarkCIEscalationFailure, Reconcile, ClaimCIReconciliation, FailCIReconciliation,
       ApplyCIObservation, Done, WorkerStops
  <1>2. CASE Launch \/ ClaimCIRepairStatus \/ PollWaiting \/ MarkCIRepairExternalResumed
             \/ CompleteCIRepairDelivery \/ ObserveCI \/ ObserveFails
    BY <1>2, Zenon DEF Launch, ClaimCIRepair, BindCIRepairRun, DeferCIRepairLaunch, LaunchRefused,
       ClaimCIRepairStatus, PollWaiting, MarkCIRepairExternalResumed,
       CompleteCIRepairDelivery, ObserveCI, ObserveFails, Done, WorkerStops, Goto
  <1>3. CASE ScheduleCIRepairStatus
    BY <1>3, Zenon DEF ScheduleCIRepairStatus, Done, Goto
  <1>4. CASE TerminalResult
    BY <1>4, Zenon DEF TerminalResult, Done, Goto
  <1>5. CASE ChargeCIRepairAttempt \/ PollAnswers
    BY <1>5 DEF ChargeCIRepairAttempt, PollAnswers, Goto
  <1>6. CASE \/ LaunchRepair \/ LaunchFails \/ PollFails \/ LookOutside \/ ResumeRun \/ ResumeFails
             \/ EscalationDue \/ DeadlinePasses \/ Push
    BY <1>6 DEF LaunchRepair, LaunchFails, PollFails, LookOutside, ResumeRun, ResumeFails,
       EscalationDue, DeadlinePasses, Push, Done, Goto
  <1>7. ASSUME NEW h \in Heads,
               RecordCIEvent(h) \/ EventLost(h) \/ ReconciliationDue(h) \/ CIDecides(h)
        PROVE  UNCHANGED <<pc, cur, saw>>
    BY <1>7, Zenon DEF RecordCIEvent, EventLost, ReconciliationDue, CIDecides
  <1>8. ASSUME NEW n \in Numbers, AttemptDue(n) \/ RunWaits(n) \/ RunEnds(n)
        PROVE  UNCHANGED <<pc, cur, saw>>
    BY <1>8, Zenon DEF AttemptDue, RunWaits, RunEnds
  <1> QED
    BY <1>1, <1>2, <1>3, <1>4, <1>5, <1>6, <1>7, <1>8 DEF Next, Poll

-----------------------------------------------------------------------------
(* Every step keeps the invariant. *)

\* The runs and the attempts they belong to.
LEMMA RunStep ==
    ASSUME IInv, IInv', RunInv, Next
    PROVE  RunInv'
  <1>1. \A n \in Numbers : RunMove(n) /\ AttemptMove(n)
    BY RunMoves, AttemptMoves, Zenon
  <1>2. Followed' => Followed
    BY AttemptMoves, Zenon
  <1>3. pc = "launch" => cur \in Numbers /\ task.st = "repair_ready" /\ atts[cur].st = "ready"
    BY Zenon DEF IInv, WorkerHolds
  <1>4. ASSUME NEW n \in Numbers
        PROVE  /\ runs[n].st \in Outcomes => runs'[n] = runs[n]
               /\ runs[n].started => runs'[n] = runs[n]
               /\ runs'[n].st \in Live =>
                     runs[n].st \in Live \/ (SameOrder /\ pc = "launch" /\ cur = n)
    <2>1. runs[n].st \in Outcomes => runs'[n] = runs[n]
      BY <1>1, Zenon DEF RunMove, Live, Outcomes
    <2>2. runs[n].started => runs[n].st \in Outcomes
      BY Zenon DEF RunInv
    <2>3. runs'[n].st \in Live => runs[n].st \in Live \/ (SameOrder /\ pc = "launch" /\ cur = n)
      BY <1>1, Zenon DEF RunMove
    <2> QED
      BY <2>1, <2>2, <2>3, Zenon
  <1>5. ASSUME NEW n \in Numbers, runs'[n].st # "none"
        PROVE  atts'[n].st # "none"
    <2>1. atts[n].st # "none"
      BY <1>1, <1>3, <1>5 DEF RunMove, RunInv, Live
    <2> QED
      BY <1>1, <2>1, Zenon DEF AttemptMove
  <1>6. ASSUME NEW n \in Numbers, runs'[n].started
        PROVE  runs'[n].st \in Outcomes
    BY <1>1, <1>6, Zenon DEF RunMove, RunInv, Live, Outcomes
  <1>7. ASSUME NEW n \in Numbers, Followed', runs'[n].st \in Live
        PROVE  atts'[n].st \in {"ready", "running"}
    <2>1. CASE runs[n].st \in Live
      BY <1>1, <1>2, <1>7, <2>1 DEF AttemptMove, RunInv
    <2>2. CASE SameOrder /\ pc = "launch" /\ cur = n
      BY <1>3, <2>2, Zenon DEF SameOrder, SameRow
    <2> QED
      BY <1>4, <1>7, <2>1, <2>2
  <1>8. ASSUME NEW n \in Numbers, atts'[n].charged
        PROVE  runs'[n].started
    BY <1>1, <1>4, <1>8, Zenon DEF AttemptMove, RunInv, ChargedOnlyIfStarted
  <1>9. ASSUME NEW m \in Numbers, NEW n \in Numbers, runs'[m].st \in Live, runs'[n].st \in Live
        PROVE  m = n
    <2>1. ASSUME NEW k \in Numbers, NEW l \in Numbers, pc = "launch", cur = k, runs[l].st \in Live
          PROVE  k = l
      <3>1. task.st = "repair_ready" /\ Followed /\ atts[k].st = "ready"
        BY <1>3, <2>1, Zenon DEF Followed
      <3>2. atts[l].st \in {"ready", "running"}
        BY <2>1, <3>1, Zenon DEF RunInv
      <3> QED
        BY <3>1, <3>2, Zenon DEF IInv, Ordered
    <2> QED
      BY <1>4, <1>9, <2>1, Zenon DEF RunInv, OneRepairRun
  <1>10. pc' = "terminal" \/ (pc' = "answered" /\ saw' = "ended") => runs'[cur'].st \notin Live
    <2> SUFFICES ASSUME pc' = "terminal" \/ (pc' = "answered" /\ saw' = "ended")
                 PROVE  runs'[cur'].st \notin Live
      BY Zenon
    <2>1. CASE UNCHANGED <<pc, cur, saw>>
      <3>1. cur \in Numbers /\ runs[cur].st \notin Live /\ pc # "launch"
        BY <2>1, Zenon DEF IInv, WorkerHolds, Polling, RunInv
      <3> QED
        BY <1>4, <2>1, <3>1
    <2>2. CASE PollAnswers
      BY <2>2, Zenon DEF PollAnswers, Live, world
    <2>3. CASE /\ cur' = cur /\ runs' = runs
               /\ pc = "answered" /\ saw \notin {"unknown", "running"} /\ pc' = "terminal"
      BY <2>3, Zenon DEF RunInv
    <2> QED
      BY <2>1, <2>2, <2>3, WorkerMoves
  <1>11. pc' \in {"charge", "deliver"} => runs'[cur'].started
    <2> SUFFICES ASSUME pc' \in {"charge", "deliver"}
                 PROVE  runs'[cur'].started
      BY Zenon
    <2>1. CASE UNCHANGED <<pc, cur, saw>>
      <3>1. cur \in Numbers /\ runs[cur].started
        BY <2>1, Zenon DEF IInv, WorkerHolds, Polling, RunInv
      <3> QED
        BY <1>4, <2>1, <3>1, Zenon
    <2>2. CASE cur' = cur /\ runs' = runs /\ (pc = "charge" \/ runs[cur].started)
      BY <2>2, Zenon DEF RunInv
    <2> QED
      BY <2>1, <2>2, WorkerMoves, Zenon
  <1>12. ChargedOnlyIfStarted' /\ OneRepairRun'
    BY <1>8, <1>9, Zenon DEF ChargedOnlyIfStarted, OneRepairRun
  <1>13. pc' = "answered" => saw' \in {"running", "ended", "unknown"}
    BY WorkerMoves, Zenon DEF RunInv, PollAnswers
  <1> QED
    BY <1>5, <1>6, <1>7, <1>10, <1>11, <1>12, <1>13 DEF RunInv

\* Which steps write what GitHub shows and the reconciliations.
LEMMA WorldWrites ==
    ASSUME Next
    PROVE  /\ ci' = ci \/ \E h \in Heads : CIDecides(h)
           /\ pr' = pr \/ Push \/ \E n \in Numbers : RunEnds(n)
           /\ \/ news' \subseteq news \/ Push \/ \E n \in Numbers : RunEnds(n)
              \/ \E h \in Heads : CIDecides(h)
           /\ \/ recs' = recs \/ ClaimCIReconciliation \/ FailCIReconciliation \/ ApplyCIObservation
              \/ \E h \in Heads : RecordCIEvent(h) \/ ReconciliationDue(h)
  <1> USE DEF store, world
  <1>1. CASE Tick \/ TickEnds \/ Crash \/ Escalate \/ Reconcile
    BY <1>1 DEF Tick, TickEnds, Crash, Escalate, ClaimCIEscalation, MarkCIEscalationDelivered,
       MarkCIEscalationFailure, Reconcile, ClaimCIReconciliation, FailCIReconciliation,
       ApplyCIObservation
  <1>2. CASE LaunchRefused \/ ScheduleCIRepairStatus \/ PollFails \/ TerminalResult
    <2>1. recs' = recs
      BY <1>2, Zenon DEF LaunchRefused, ScheduleCIRepairStatus, PollFails, TerminalResult,
         FinishCIRepairFailure
    <2> QED
      BY <1>2, <2>1, Zenon DEF LaunchRefused, ScheduleCIRepairStatus, PollFails, TerminalResult
  <1>3. CASE \/ ClaimCIRepair \/ BindCIRepairRun \/ DeferCIRepairLaunch \/ ClaimCIRepairStatus
             \/ PollWaiting \/ MarkCIRepairExternalResumed \/ ChargeCIRepairAttempt
             \/ CompleteCIRepairDelivery \/ ObserveCI \/ ObserveFails
    BY <1>3, Zenon DEF ClaimCIRepair, BindCIRepairRun, DeferCIRepairLaunch, ClaimCIRepairStatus,
       PollWaiting, MarkCIRepairExternalResumed, ChargeCIRepairAttempt, CompleteCIRepairDelivery,
       ObserveCI, ObserveFails
  <1>4. CASE \/ LaunchRepair \/ LaunchFails \/ PollAnswers \/ LookOutside \/ ResumeRun \/ ResumeFails
             \/ EscalationDue \/ DeadlinePasses \/ Push
    BY <1>4, Zenon DEF LaunchRepair, LaunchFails, PollAnswers, LookOutside, ResumeRun, ResumeFails,
       EscalationDue, DeadlinePasses, Push
  <1>5. ASSUME NEW h \in Heads,
               RecordCIEvent(h) \/ EventLost(h) \/ ReconciliationDue(h) \/ CIDecides(h)
        PROVE  /\ ci' = ci \/ CIDecides(h)
               /\ pr' = pr
               /\ news' \subseteq news \/ CIDecides(h)
               /\ recs' = recs \/ RecordCIEvent(h) \/ ReconciliationDue(h)
    BY <1>5, Zenon DEF RecordCIEvent, EventLost, ReconciliationDue, CIDecides
  <1>6. ASSUME NEW n \in Numbers, AttemptDue(n) \/ RunWaits(n) \/ RunEnds(n)
        PROVE  /\ ci' = ci /\ recs' = recs
               /\ (pr' = pr /\ news' = news) \/ RunEnds(n)
    BY <1>6, Zenon DEF AttemptDue, RunWaits, RunEnds
  <1> QED
    BY <1>1, <1>2, <1>3, <1>4, <1>5, <1>6 DEF Next, Launch, Poll

\* How the worker comes to hold a head.
LEMMA ObserverMoves ==
    ASSUME Next, pc' \in {"observe", "observed"}
    PROVE  \/ UNCHANGED <<pc, cur, saw>>
           \/ ClaimCIReconciliation /\ pc' = "observe"
           \/ (ObserveCI \/ ObserveFails) /\ pc' = "observed"
  <1> USE DEF worker
  <1>1. CASE Tick \/ TickEnds \/ Crash \/ Escalate \/ Reconcile
    BY <1>1, Zenon DEF Tick, TickEnds, Crash, Escalate, ClaimCIEscalation, MarkCIEscalationDelivered,
       MarkCIEscalationFailure, Reconcile, ClaimCIReconciliation, FailCIReconciliation,
       ApplyCIObservation, Done, WorkerStops
  <1>2. CASE Launch \/ Poll \/ ObserveCI \/ ObserveFails
    BY <1>2, Zenon DEF Launch, ClaimCIRepair, BindCIRepairRun, DeferCIRepairLaunch, LaunchRefused, Poll,
       ClaimCIRepairStatus, PollWaiting, ScheduleCIRepairStatus, MarkCIRepairExternalResumed,
       ChargeCIRepairAttempt, CompleteCIRepairDelivery, ObserveCI, ObserveFails, Done,
       WorkerStops, Goto
  <1>3. CASE \/ LaunchRepair \/ LaunchFails \/ PollFails \/ PollAnswers \/ LookOutside \/ ResumeRun
             \/ ResumeFails \/ TerminalResult \/ EscalationDue \/ DeadlinePasses \/ Push
    BY <1>3, Zenon DEF LaunchRepair, LaunchFails, PollFails, PollAnswers, LookOutside, ResumeRun,
       ResumeFails, TerminalResult, EscalationDue, DeadlinePasses, Push, Done, Goto
  <1>4. ASSUME NEW h \in Heads,
               RecordCIEvent(h) \/ EventLost(h) \/ ReconciliationDue(h) \/ CIDecides(h)
        PROVE  UNCHANGED <<pc, cur, saw>>
    BY <1>4, Zenon DEF RecordCIEvent, EventLost, ReconciliationDue, CIDecides
  <1>5. ASSUME NEW n \in Numbers, AttemptDue(n) \/ RunWaits(n) \/ RunEnds(n)
        PROVE  UNCHANGED <<pc, cur, saw>>
    BY <1>5, Zenon DEF AttemptDue, RunWaits, RunEnds
  <1> QED
    BY <1>1, <1>2, <1>3, <1>4, <1>5 DEF Next

\* What applying an observation makes of the task, whatever was observed.
LEMMA ObservedTask ==
    ASSUME task \in Tasks, task.st = "waiting_ci", Followed, ApplyCIObservation
    PROVE  /\ task'.head = cur
           /\ task'.st = "completed" => saw = "success"
           /\ task'.st = "waiting_ci" => saw = "pending"
  <1>1. /\ Seen.head = cur /\ Seen.st = "waiting_ci"
        /\ [Seen EXCEPT !.st = "completed"].head = cur
        /\ [Seen EXCEPT !.st = "completed"].st = "completed"
        /\ [Seen EXCEPT !.st = "repair_ready"].head = cur
        /\ [Seen EXCEPT !.st = "repair_ready"].st = "repair_ready"
        /\ [Seen EXCEPT !.st = "escalation_pending", !.wake = FALSE].head = cur
        /\ [Seen EXCEPT !.st = "escalation_pending", !.wake = FALSE].st = "escalation_pending"
    BY Zenon DEF Seen, Tasks
  <1>2. CASE ObservationStops
    BY <1>1, <1>2, Zenon DEF ApplyCIObservation, QueueEscalation
  <1>3. CASE ~ObservationStops
    <2>1. saw \in {"pending", "success", "code_failure"}
      BY <1>3, Zenon DEF ApplyCIObservation, ObservationStops
    <2>2. \/ saw = "success" /\ task' = [Seen EXCEPT !.st = "completed"]
          \/ saw = "pending" /\ task' = Seen
          \/ saw = "code_failure" /\ task' = [Seen EXCEPT !.st = "repair_ready"]
      BY <1>3, <2>1, Zenon DEF ApplyCIObservation
    <2> QED
      BY <1>1, <2>2, Zenon
  <1> QED
    BY <1>2, <1>3, Zenon

\* What the store says of a head agrees with what CI said of it before the step.
HeadMove ==
    /\ \A n \in Numbers : atts'[n].st # "none" => ci[atts'[n].head] = "code_failure"
    /\ task'.st \in {"repair_ready", "repair_running"} => ci[task'.head] = "code_failure"
    /\ task'.st = "completed" => ci[task'.head] = "success"

LEMMA HeadMoves ==
    ASSUME IInv, HeadInv, Next
    PROVE  HeadMove
  <1> USE DEF HeadMove
  <1>0. task \in Tasks /\ atts \in [Numbers -> Attempts]
    BY DEF IInv, TypeOK
  <1>1. CASE SameOrder
    BY <1>1, Zenon DEF SameOrder, SameRow, HeadInv
  <1>2. CASE FailCIReconciliation
    <2>1. atts' = atts /\ task'.st \in {"waiting_ci", "escalation_pending"}
      BY <1>0, <1>2, Zenon DEF FailCIReconciliation, IInv, WorkerHolds, QueueEscalation, Tasks
    <2> QED
      BY <2>1, Zenon DEF HeadInv
  <1>3. CASE ApplyCIObservation
    <2>1. Followed /\ task.st = "waiting_ci"
      BY <1>3, Zenon DEF ApplyCIObservation, IInv, WorkerHolds, Followed
    <2>2. CASE saw = "code_failure" /\ ~ObservationStops
      <3> DEFINE a == task.attempts + 1
      <3>1. /\ a \in Numbers /\ atts' = [atts EXCEPT ![a] = Ready(cur)]
            /\ task'.st = "repair_ready"
        BY <1>3, <2>2, NextAttempt, Zenon
      <3> HIDE DEF a
      <3>2. task'.head = cur
        BY <1>0, <1>3, <2>1, <2>2, Zenon DEF ApplyCIObservation, Seen, Tasks
      <3>3. ci[cur] = "code_failure"
        BY <1>3, <2>2, Zenon DEF ApplyCIObservation, HeadInv, CIResults
      <3>4. Ready(cur).head = cur
        BY Zenon DEF Ready, NoAttempt
      <3>5. \A n \in Numbers : atts'[n] = IF n = a THEN Ready(cur) ELSE atts[n]
        BY <1>0, <3>1
      <3> QED
        BY <3>1, <3>2, <3>3, <3>4, <3>5 DEF HeadInv
    <2>3. CASE saw # "code_failure" \/ ObservationStops
      <3>1. atts' = atts /\ task'.st \in {"escalation_pending", "completed", "waiting_ci"}
        BY <1>3, <2>3, ApplyDecides, Zenon
      <3>2. CASE task'.st = "completed"
        <4>1. task'.head = cur /\ saw = "success"
          BY <1>0, <1>3, <2>1, <3>2, ObservedTask
        <4>2. ci[cur] = "success"
          BY <1>3, <4>1, Zenon DEF ApplyCIObservation, HeadInv, CIResults
        <4> QED
          BY <3>1, <4>1, <4>2, Zenon DEF HeadInv
      <3> QED
        BY <3>1, <3>2, Zenon DEF HeadInv
    <2> QED
      BY <2>2, <2>3, Zenon
  <1>4. CASE BindCIRepairRun
    <2>1. cur \in Numbers /\ task.st = "repair_ready" /\ atts[cur].st = "ready"
      BY <1>4 DEF BindCIRepairRun, IInv, WorkerHolds
    <2>2. /\ atts' = [atts EXCEPT ![cur] = [@ EXCEPT !.st = "running", !.due = FALSE]]
          /\ task' = [task EXCEPT !.st = "repair_running"]
      BY <1>4, <2>1 DEF BindCIRepairRun
    <2>3. atts'[cur].head = atts[cur].head /\ task'.head = task.head /\ task'.st = "repair_running"
      BY <1>0, <2>1, <2>2, Zenon DEF Attempts, Tasks
    <2>4. \A n \in Numbers \ {cur} : atts'[n] = atts[n]
      BY <1>0, <2>2, Zenon
    <2> QED
      BY <2>1, <2>3, <2>4 DEF HeadInv
  <1>5. ASSUME NEW class, NEW started \in BOOLEAN, cur \in Numbers, atts[cur].st # "none",
               task.st \in {"repair_ready", "repair_running"},
               FinishCIRepairFailure(cur, class, started)
        PROVE  HeadMove
    <2>1. /\ task'.head = task.head /\ atts'[cur].head = atts[cur].head
          /\ \/ /\ task'.st = "escalation_pending"
                /\ \A m \in Numbers : m # cur => atts'[m] = atts[m]
             \/ /\ task'.st = "repair_ready"
                /\ cur + 1 \in Numbers /\ atts'[cur + 1] = Ready(task.head)
                /\ \A m \in Numbers : m # cur /\ m # cur + 1 => atts'[m] = atts[m]
      BY <1>5, FinishShape DEF IInv
    <2>2. Ready(task.head).head = task.head
      BY Zenon DEF Ready, NoAttempt
    <2> QED
      BY <1>5, <2>1, <2>2 DEF HeadInv
  <1>6. CASE LaunchRefused \/ PollFails \/ ScheduleCIRepairStatus \/ TerminalResult
    <2>1. /\ cur \in Numbers /\ runs[cur].started \in BOOLEAN /\ atts[cur].st # "none"
          /\ task.st \in {"repair_ready", "repair_running"}
      BY <1>6, Zenon DEF IInv, TypeOK, Runs, WorkerHolds, Polling, LaunchRefused, PollFails,
         ScheduleCIRepairStatus, TerminalResult
    <2>2. CASE FinishCIRepairFailure(cur, "failure", FALSE)
      BY <1>5, <2>1, <2>2, Zenon
    <2>3. CASE FinishCIRepairFailure(cur, runs[cur].st, runs[cur].started)
      BY <1>5, <2>1, <2>3, Zenon
    <2>4. CASE UNCHANGED store
      BY <2>4, Zenon DEF store, HeadInv
    <2>5. CASE atts' = [atts EXCEPT ![cur].due = FALSE] /\ task' = task
      <3>1. SameOrder
        BY <1>0, <2>5 DEF SameOrder, SameRow, Attempts
      <3> QED
        BY <1>1, <3>1
    <2> QED
      BY <1>6, <2>2, <2>3, <2>4, <2>5, Zenon DEF LaunchRefused, PollFails, ScheduleCIRepairStatus,
         TerminalResult
  <1>7. CASE ChargeCIRepairAttempt
    <2>1. task'.st = task.st /\ \A n \in Numbers : atts'[n].st = atts[n].st
      BY <1>7, ChargeOrder
    <2>2. task'.head = task.head /\ \A n \in Numbers : atts'[n].head = atts[n].head
      BY <1>0, <1>7 DEF ChargeCIRepairAttempt, Tasks, Attempts
    <2> QED
      BY <2>1, <2>2 DEF HeadInv
  <1>8. CASE CompleteCIRepairDelivery
    <2>1. cur \in Numbers /\ atts[cur].st # "none"
      BY <1>8, Zenon DEF CompleteCIRepairDelivery, IInv, WorkerHolds, Polling
    <2>2. /\ atts' = [atts EXCEPT ![cur].st = "delivered", ![cur].due = FALSE]
          /\ task'.st = "waiting_ci"
      BY <1>0, <1>8, Zenon DEF CompleteCIRepairDelivery, Tasks
    <2>3. atts'[cur] = [atts[cur] EXCEPT !.st = "delivered", !.due = FALSE]
      BY <1>0, <2>1, <2>2
    <2>4. atts'[cur].head = atts[cur].head
      BY <1>0, <2>1, <2>3 DEF Attempts
    <2>5. \A n \in Numbers \ {cur} : atts'[n] = atts[n]
      BY <1>0, <2>2, Zenon
    <2> QED
      BY <2>1, <2>2, <2>4, <2>5 DEF HeadInv
  <1>9. CASE MarkCIEscalationDelivered \/ MarkCIEscalationFailure
    <2>1. atts' = atts /\ (task' = task \/ task'.st \in {"escalated", "escalation_blocked"})
      BY <1>0, <1>9, Zenon DEF MarkCIEscalationDelivered, MarkCIEscalationFailure, Tasks
    <2> QED
      BY <2>1, Zenon DEF HeadInv
  <1> QED
    BY <1>1, <1>2, <1>3, <1>4, <1>6, <1>7, <1>8, <1>9, QuietSteps
       DEF IInv, Next, Escalate, Reconcile, Launch, Poll

\* The heads that are repaired and the head a task is completed on.
LEMMA HeadStep ==
    ASSUME IInv, IInv', HeadInv, Next
    PROVE  HeadInv'
  <1>0. ci \in [Heads -> CIResults]
    BY Zenon DEF IInv, TypeOK
  <1>1. \A h \in Heads : ci[h] # "pending" => ci'[h] = ci[h]
    BY <1>0, WorldWrites, Zenon DEF CIDecides
  <1>2. /\ task' \in Tasks /\ task'.head \in Heads
        /\ \A n \in Numbers : atts'[n] \in Attempts /\ atts'[n].head \in Heads
    BY Zenon DEF IInv, TypeOK, Tasks, Attempts
  <1>3. pc' = "observed" /\ saw' \in CIResults \ {"pending"} => ci'[cur'] = saw'
    <2> SUFFICES ASSUME pc' = "observed", saw' \in CIResults \ {"pending"}
                 PROVE  ci'[cur'] = saw'
      BY Zenon
    <2>1. CASE UNCHANGED <<pc, cur, saw>>
      <3>1. cur \in Heads /\ ci[cur] = saw
        BY <2>1, Zenon DEF IInv, WorkerHolds, HeadInv
      <3> QED
        BY <1>1, <2>1, <3>1, Zenon
    <2>2. CASE ObserveCI
      BY <2>2, Zenon DEF ObserveCI, world, CIResults
    <2>3. CASE ObserveFails
      BY <2>3, Zenon DEF ObserveFails, CIResults
    <2> QED
      BY <2>1, <2>2, <2>3, ObserverMoves
  <1>4. HeadMove
    BY HeadMoves, Zenon
  <1> QED
    BY <1>1, <1>2, <1>3, <1>4 DEF HeadMove, HeadInv

\* What one step may do to the head of the task and to a reconciliation.
LEMMA TaskHeads ==
    ASSUME IInv, Next
    PROVE  \/ task'.head = task.head
           \/ pc = "observed" /\ task'.head = cur
           \/ cur \in Numbers /\ task'.head = runs[cur].head
  <1>0. task \in Tasks
    BY Zenon DEF IInv, TypeOK
  <1>1. CASE SameOrder
    BY <1>1, Zenon DEF SameOrder
  <1>2. CASE FailCIReconciliation
    BY <1>0, <1>2, Zenon DEF FailCIReconciliation, QueueEscalation, Tasks
  <1>3. CASE ApplyCIObservation
    <2>1. Followed
      BY <1>3, Zenon DEF ApplyCIObservation, IInv, WorkerHolds, Followed
    <2>2. task.st = "waiting_ci"
      BY <1>3, <2>1, Zenon DEF ApplyCIObservation, IInv, WorkerHolds, Followed
    <2>4. task'.head = cur
      BY <1>0, <1>3, <2>1, <2>2, ObservedTask
    <2> QED
      BY <1>3, <2>4, Zenon DEF ApplyCIObservation
  <1>4. CASE LaunchRefused \/ PollFails \/ ScheduleCIRepairStatus \/ TerminalResult
    <2>1. cur \in Numbers /\ runs[cur].started \in BOOLEAN
      BY <1>4, Zenon DEF IInv, TypeOK, Runs, WorkerHolds, Polling, LaunchRefused, PollFails,
         ScheduleCIRepairStatus, TerminalResult
    <2>2. CASE FinishCIRepairFailure(cur, "failure", FALSE)
      BY <2>1, <2>2, FinishShape, Zenon DEF IInv
    <2>3. CASE FinishCIRepairFailure(cur, runs[cur].st, runs[cur].started)
      BY <2>1, <2>3, FinishShape, Zenon DEF IInv
    <2> QED
      BY <1>4, <2>2, <2>3, Zenon DEF LaunchRefused, PollFails, ScheduleCIRepairStatus, TerminalResult, store
  <1>5. CASE BindCIRepairRun \/ ChargeCIRepairAttempt
    BY <1>0, <1>5, Zenon DEF BindCIRepairRun, ChargeCIRepairAttempt, Tasks
  <1>6. CASE CompleteCIRepairDelivery
    <2>1. cur \in Numbers
      BY <1>6, Zenon DEF CompleteCIRepairDelivery, IInv, WorkerHolds, Polling
    <2> QED
      BY <1>0, <1>6, <2>1, Zenon DEF CompleteCIRepairDelivery, Tasks
  <1>7. CASE MarkCIEscalationDelivered \/ MarkCIEscalationFailure
    BY <1>0, <1>7, Zenon DEF MarkCIEscalationDelivered, MarkCIEscalationFailure, Tasks
  <1> QED
    BY <1>1, <1>2, <1>3, <1>4, <1>5, <1>6, <1>7, QuietSteps
       DEF IInv, Next, Escalate, Reconcile, Launch, Poll

\* A claim sees rows that are there, and the one the deadline of the task adds.
LEMMA WokenRows ==
    ASSUME IInv, NEW h \in Heads, Woken[h].st # "none"
    PROVE  recs[h].st # "none" \/ h = task.head
  BY Zenon DEF IInv, TypeOK, Woken

\* A reconciliation appears for a head an event is about or that the task waits for,
\* and is completed only by the observation of its head.
LEMMA RowMoves ==
    ASSUME IInv, Next, NEW h \in Heads
    PROVE  /\ recs'[h].st # "none" =>
                 recs[h].st # "none" \/ h \in news \/ h = task.head \/ (pc = "observed" /\ h = cur)
           /\ recs'[h].st = "completed" /\ recs[h].st # "completed" =>
                 h = cur /\ (FailCIReconciliation \/ ApplyCIObservation)
  <1>0. recs \in [Heads -> Reconciliations] /\ Woken \in [Heads -> Reconciliations]
    BY WokenType, Zenon DEF IInv, TypeOK
  <1>1. CASE recs' = recs
    BY <1>1, Zenon
  <1>2. CASE ClaimCIReconciliation
    <2>1. PICK g \in DueReconciliations : recs' = [Woken EXCEPT ![g] = Row("running", FALSE)]
      BY <1>2, Zenon DEF ClaimCIReconciliation
    <2>2. g \in Heads /\ Woken[g].st \in {"queued", "running"}
      BY <2>1, Zenon DEF DueReconciliations
    <2>3. h = g => recs'[h].st = "running"
      BY <1>0, <2>1, Zenon DEF Row
    <2>4. h # g => recs'[h].st = Woken[h].st
      BY <1>0, <2>1, Zenon
    <2>5. Woken[h].st = "completed" => recs[h].st = "completed"
      BY <1>0, Zenon DEF Woken
    <2> QED
      BY <2>2, <2>3, <2>4, <2>5, WokenRows
  <1>3. CASE FailCIReconciliation \/ ApplyCIObservation
    <2>1. cur \in Heads /\ pc = "observed"
      BY <1>3, Zenon DEF FailCIReconciliation, ApplyCIObservation, IInv, WorkerHolds
    <2>2. h # cur => recs'[h] = recs[h]
      BY <1>0, <1>3, Zenon DEF FailCIReconciliation, ApplyCIObservation, store
    <2> QED
      BY <1>3, <2>1, <2>2, Zenon
  <1>4. ASSUME NEW g \in Heads, RecordCIEvent(g)
        PROVE  /\ h # g => recs'[h] = recs[h]
               /\ g \in news
               /\ recs'[g].st # recs[g].st => recs'[g].st = "queued"
    <2>1. g \in news
      BY <1>4, Zenon DEF RecordCIEvent
    <2>2. PICK now \in BOOLEAN :
             \/ recs' = recs
             \/ recs' = [recs EXCEPT ![g] = IF @.st = "running" THEN [@ EXCEPT !.dirty = TRUE, !.due = now]
                                                              ELSE Row("queued", now)]
      BY <1>4 DEF RecordCIEvent
    <2>3. h # g => recs'[h] = recs[h]
      BY <1>0, <2>2, Zenon
    <2>4. recs[g] \in Reconciliations
      BY <1>0, Zenon
    <2>5. recs'[g].st # recs[g].st => recs'[g].st = "queued"
      <3>1. CASE recs[g].st = "running"
        <4>1. \/ recs' = recs
              \/ recs' = [recs EXCEPT ![g] = [@ EXCEPT !.dirty = TRUE, !.due = now]]
          BY <2>2, <3>1, Zenon
        <4>2. [recs[g] EXCEPT !.dirty = TRUE, !.due = now].st = recs[g].st
          BY <2>4, Zenon DEF Reconciliations
        <4>3. recs' = recs \/ recs'[g] = [recs[g] EXCEPT !.dirty = TRUE, !.due = now]
          BY <1>0, <4>1, Zenon
        <4> QED
          BY <4>2, <4>3, Zenon
      <3>2. CASE recs[g].st # "running"
        <4>1. recs' = recs \/ recs'[g] = Row("queued", now)
          BY <1>0, <2>2, <3>2
        <4> QED
          BY <4>1 DEF Row
      <3> QED
        BY <3>1, <3>2, Zenon
    <2> QED
      BY <2>1, <2>3, <2>5
  <1>5. ASSUME NEW g \in Heads, ReconciliationDue(g)
        PROVE  recs'[h].st = recs[h].st
    BY <1>0, <1>5 DEF ReconciliationDue, Reconciliations
  <1> QED
    BY <1>1, <1>2, <1>3, <1>4, <1>5, WorldWrites

\* The pull request's head only moves on.
LEMMA HeadGrows ==
    ASSUME IInv, Next
    PROVE  pr \in Nat /\ pr' \in Nat /\ pr <= pr'
  <1>0. pr \in Nat
    BY Indices DEF IInv, TypeOK
  <1>1. ASSUME NEW n \in Numbers, RunEnds(n)
        PROVE  pr' \in {pr, pr + 1}
    BY <1>1, Zenon DEF RunEnds
  <1>2. pr' \in {pr, pr + 1}
    BY <1>1, WorldWrites, Zenon DEF Push
  <1> QED
    BY <1>0, <1>2

LEMMA PushStep ==
    ASSUME IInv, IInv', PushInv, Next
    PROVE  PushInv'
  <1>0. /\ pr \in Nat /\ pr' \in Nat /\ pr <= pr'
        /\ Heads \subseteq Nat /\ Numbers \subseteq Nat /\ news \subseteq Heads
        /\ task.head \in Heads /\ task'.head \in Heads
        /\ \A n \in Numbers : runs[n].head \in Heads /\ runs'[n].head \in Heads
    BY HeadGrows, Indices DEF IInv, TypeOK, Tasks, Runs
  <1>a. \A h \in Heads : h \in Nat /\ (h <= pr => h <= pr')
    BY <1>0
  <1>1. task'.head <= pr'
    <2>1. pc = "observed" => cur \in Heads /\ cur <= pr
      BY Zenon DEF IInv, WorkerHolds, PushInv
    <2>2. task'.head <= pr
      BY <2>1, TaskHeads, Zenon DEF PushInv
    <2> QED
      BY <1>0, <1>a, <2>2
  <1>2. \A h \in news' : h <= pr'
    <2>1. CASE news' \subseteq news
      BY <1>0, <2>1 DEF PushInv
    <2>2. CASE Push
      <3>1. news' = news \cup {pr'} /\ pr' <= pr'
        BY <1>0, <2>2 DEF Push
      <3>2. \A h \in news : h \in Heads /\ h <= pr
        BY <1>0, Zenon DEF PushInv
      <3> QED
        BY <1>a, <3>1, <3>2
    <2>3. ASSUME NEW n \in Numbers, RunEnds(n)
          PROVE  \A h \in news' : h <= pr'
      <3>1. news' \subseteq news \cup {pr'}
        BY <2>3, Zenon DEF RunEnds
      <3> QED
        BY <1>0, <3>1 DEF PushInv
    <2>4. ASSUME NEW h \in Heads, CIDecides(h)
          PROVE  news' \subseteq news \cup {h} /\ h <= pr
      <3>1. h = pr /\ news' = news \cup {h}
        BY <2>4, Zenon DEF CIDecides
      <3> QED
        BY <1>0, <3>1
    <2> QED
      BY <1>0, <1>a, <2>1, <2>2, <2>3, <2>4, WorldWrites DEF PushInv
  <1>3. \A h \in Heads : recs'[h].st # "none" => h <= pr'
    <2> SUFFICES ASSUME NEW h \in Heads, recs'[h].st # "none"
                 PROVE  h <= pr'
      BY Zenon
    <2>1. recs[h].st # "none" \/ h \in news \/ h = task.head \/ (pc = "observed" /\ h = cur)
      BY RowMoves, Zenon
    <2>2. h <= pr
      BY <2>1, Zenon DEF PushInv
    <2> QED
      BY <1>0, <2>2
  <1>4. ASSUME NEW n \in Numbers
        PROVE  runs'[n].head <= pr'
    <2>1. runs'[n].head = runs[n].head \/ runs'[n].head = pr'
      BY RunMoves, Zenon DEF RunMove
    <2>2. runs[n].head <= pr
      BY Zenon DEF PushInv
    <2>3. pr' <= pr'
      BY <1>0
    <2> QED
      BY <1>0, <1>a, <2>1, <2>2, <2>3
  <1>5. /\ pc' \in {"observe", "observed"} => cur' <= pr'
        /\ pc' = "observed" /\ saw' = "stale" => cur' < pr'
    <2> SUFFICES ASSUME pc' \in {"observe", "observed"}
                 PROVE  cur' <= pr' /\ (pc' = "observed" /\ saw' = "stale" => cur' < pr')
      BY Zenon
    <2>0. cur' \in Heads
      BY Zenon DEF IInv, WorkerHolds
    <2>1. CASE UNCHANGED <<pc, cur, saw>>
      BY <1>0, <2>0, <2>1 DEF PushInv
    <2>2. CASE ClaimCIReconciliation /\ pc' = "observe"
      <3>1. Woken[cur'].st # "none"
        BY <2>2, Zenon DEF ClaimCIReconciliation, DueReconciliations
      <3>2. recs[cur'].st # "none" \/ cur' = task.head
        BY <2>0, <3>1, WokenRows, Zenon
      <3>3. cur' <= pr
        BY <2>0, <3>2, Zenon DEF PushInv
      <3> QED
        BY <1>0, <2>0, <2>2, <3>3
    <2>3. CASE ObserveCI
      <3>1. cur' = cur /\ pr' = pr /\ cur <= pr
        BY <2>3, Zenon DEF ObserveCI, world, PushInv
      <3>2. saw' = "stale" => pr # cur
        <4>1. pr = cur => saw' \in {ci[cur], "invalid"}
          BY <2>3, Zenon DEF ObserveCI
        <4>2. ci[cur] \in CIResults
          BY <2>0, <3>1 DEF IInv, TypeOK
        <4> QED
          BY <4>1, <4>2, Zenon DEF CIResults
      <3> QED
        BY <1>0, <1>a, <2>0, <3>1, <3>2
    <2>4. CASE ObserveFails
      BY <2>4, Zenon DEF ObserveFails, world, PushInv
    <2> QED
      BY <2>1, <2>2, <2>3, <2>4, ObserverMoves
  <1> QED
    BY <1>1, <1>2, <1>3, <1>4, <1>5 DEF PushInv
-----------------------------------------------------------------------------
(* The theorems. *)

\* The runs, the heads and the pushes stay as the invariants say.
RunsInv == IInv /\ RunInv /\ HeadInv /\ PushInv

LEMMA RunsInit ==
    ASSUME Init
    PROVE  RunInv /\ HeadInv /\ PushInv
  <1>1. /\ \A n \in Numbers : /\ atts[n].st = "none" /\ atts[n].charged = FALSE
                              /\ runs[n].st = "none" /\ runs[n].started = FALSE /\ runs[n].head = 0
        /\ pc = "asleep" /\ task.st = "waiting_ci" /\ task.head = 0 /\ pr = 0 /\ news = {}
    BY Zenon DEF Init, NoAttempt, NoRun
  <1>2. \A h \in Heads : recs[h].st # "none" => h = 0
    BY Zenon DEF Init
  <1>3. RunInv
    BY <1>1, Zenon DEF RunInv, ChargedOnlyIfStarted, OneRepairRun, Live
  <1>4. HeadInv
    BY <1>1, Zenon DEF HeadInv
  <1>5. PushInv
    BY <1>1, <1>2 DEF PushInv
  <1> QED
    BY <1>3, <1>4, <1>5, Zenon

\* The inductive invariant of the runs holds in every reachable state.
THEOREM RunsInvariant == Spec => []RunsInv
  <1>1. Init => RunInv /\ HeadInv /\ PushInv
    BY RunsInit, Zenon
  <1>2. IInv /\ IInv' /\ RunInv /\ HeadInv /\ PushInv /\ [Next]_vars
          => RunInv' /\ HeadInv' /\ PushInv'
    <2> SUFFICES ASSUME IInv, IInv', RunInv, HeadInv, PushInv, [Next]_vars
                 PROVE  RunInv' /\ HeadInv' /\ PushInv'
      BY Zenon
    <2>1. CASE Next
      BY <2>1, RunStep, HeadStep, PushStep, Zenon
    <2>2. CASE UNCHANGED vars
      BY <2>2 DEF vars, store, worker, world, RunInv, HeadInv, PushInv, Followed,
         ChargedOnlyIfStarted, OneRepairRun
    <2> QED
      BY <2>1, <2>2, Zenon
  <1> QED
    BY <1>1, <1>2, Invariant, PTL DEF Spec, RunsInv

\* An attempt is charged to the policy's budget only for a run whose model execution
\* started, however often ChargeCIRepairAttempt and FinishCIRepairFailure are repeated.
THEOREM ChargedOnlyIfStartedHolds == Spec => []ChargedOnlyIfStarted
  <1>1. RunsInv => ChargedOnlyIfStarted
    BY Zenon DEF RunsInv, RunInv
  <1> QED
    BY <1>1, RunsInvariant, PTL

\* Two repair runs never work on the branch at the same time, whatever answers of
\* LaunchRepair were lost or refused and whatever the worker forgot in a crash.
THEOREM OneRepairRunHolds == Spec => []OneRepairRun
  <1>1. RunsInv => OneRepairRun
    BY Zenon DEF RunsInv, RunInv
  <1> QED
    BY <1>1, RunsInvariant, PTL

\* A repair run exists only for a head whose CI failed in the code, and ApplyCIObservation
\* completes a task only on a head whose CI is green, however old the observation was.
THEOREM RepairOnlyOnFailureHolds == Spec => []RepairOnlyOnFailure
  <1>1. RunsInv => RepairOnlyOnFailure
    BY Zenon DEF RunsInv, RunInv, HeadInv, RepairOnlyOnFailure
  <1> QED
    BY <1>1, RunsInvariant, PTL

\* An event noted while an observation of the pull request's head was in flight survives
\* it: the reconciliation is queued again unless the observation settles the task.
THEOREM WakeKeptHolds == Spec => WakeKept
  <1>1. RunsInv /\ [Next]_vars =>
          [\A h \in Heads :
             recs[h].st = "running" /\ recs[h].dirty /\ pr = h /\ task.st = "waiting_ci"
               => recs'[h].st # "completed" \/ task'.st # "waiting_ci"]_vars
    <2> SUFFICES ASSUME RunsInv, Next, NEW h \in Heads,
                        recs[h].st = "running", recs[h].dirty, pr = h, task.st = "waiting_ci",
                        recs'[h].st = "completed", task'.st = "waiting_ci"
                 PROVE  FALSE
      BY Zenon
    <2>0. IInv /\ PushInv /\ task \in Tasks /\ recs \in [Heads -> Reconciliations] /\ pr \in Nat
      BY HeadGrows, Zenon DEF RunsInv, IInv, TypeOK
    <2>1. h = cur /\ (FailCIReconciliation \/ ApplyCIObservation)
      BY <2>0, RowMoves, Zenon
    <2>2. CASE FailCIReconciliation
      <3>1. saw # "stale"
        BY <2>0, <2>1, <2>2, Indices DEF FailCIReconciliation, PushInv
      <3>2. saw # "invalid"
        BY <2>0, <2>2, Zenon DEF FailCIReconciliation, QueueEscalation, Tasks
      <3>3. recs'[h] = Row("queued", FALSE)
        BY <2>0, <2>1, <2>2, <3>1, <3>2, Zenon DEF FailCIReconciliation
      <3> QED
        BY <3>3 DEF Row
    <2>3. CASE ApplyCIObservation
      <3>1. Followed
        BY Zenon DEF Followed
      <3>2. saw = "pending"
        BY <2>0, <2>3, <3>1, ObservedTask, Zenon
      <3>3. recs'[h] = Row("queued", TRUE)
        BY <2>0, <2>1, <2>3, <3>1, <3>2, Zenon DEF ApplyCIObservation, WakeAgain
      <3> QED
        BY <3>3 DEF Row
    <2> QED
      BY <2>1, <2>2, <2>3
  <1> QED
    BY <1>1, RunsInvariant, PTL DEF Spec, WakeKept
=============================================================================
