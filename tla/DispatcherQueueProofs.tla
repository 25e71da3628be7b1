----------------------- MODULE DispatcherQueueProofs -----------------------
(* Theorems about the queue of jobs, the runs they started and the waits of *)
(* those runs, for any set of keys and any bounds.                          *)
EXTENDS DispatcherProofs

-----------------------------------------------------------------------------
(* The inductive invariant. *)

Fallbacks == {"launch_failure", "projection_failure"}
LaunchSteps == {"launch", "launched", "launch_retry", "launch_failed"}
Working == pc \notin ReportSteps \cup {"asleep", "idle"}
Active(k) == runs[k].st \in {"running", "waiting"}

\* The job's launch has been attempted: what LaunchOrder forbids a younger job.
Tried(k) == job[k].status # "pending_launch" \/ job[k].first \/ runs[k] # NoRun

\* An older job was recorded before, and has no status of an earlier version.
OlderKnown ==
    \A k \in Keys : \A j \in job[k].older : job[j].status \notin {"none"} \cup LegacyStates

\* Of two recorded jobs one is older.
Comparable ==
    \A j, k \in Keys : {j, k} \subseteq Present /\ j # k => j \in job[k].older \/ k \in job[j].older

\* A run still at work belongs to a job in the queue, or to one given up.
ActiveIsQueued == \A k \in Keys : Active(k) => Claimable(k) \/ result[k] \in Fallbacks

QueueInv ==
    /\ \A k \in Keys : job[k].status = "none" => runs[k] = NoRun
    /\ \A k \in Keys : task[k] # "none" => runs[k].st \in BrokerOutcomes
    /\ up => \A k \in Keys : job[k].status \notin LegacyStates
    /\ Working => Tried(cur) /\ job[cur].status \notin {"none"} \cup LegacyStates
    /\ pc \in LaunchSteps => job[cur].status \in LaunchStates
    /\ OlderKnown
    /\ Comparable
    /\ ActiveIsQueued
    /\ LaunchOrder
    /\ OneRunAtATime

\* Without a result and without a CI lifecycle, only old rows look finished.
FinishedIsOld ==
    \A k \in Keys :
        result[k] = "none" /\ task[k] = "none" =>
            /\ job[k].status \notin {"stopped", "cancelled"}
            /\ job[k].status \in {"completed", "timed_out"} => job[k].bound

\* A run is being resumed while it waits, after the wake of its generation.
ResumeInv ==
    /\ \A k \in Keys :
          runs[k].resuming => /\ runs[k].st = "waiting"
                              /\ wait[k].gen = runs[k].gen
                              /\ wait[k].st \in {"resume_ready", "resumed"}
    /\ pc = "resume" => wait[cur].st = "resume_ready"

-----------------------------------------------------------------------------
(* What one step may do to the job row and to the run of one key. *)

Keeps(k) == job'[k].older = job[k].older /\ job'[k].first = job[k].first

\* Nothing the queue depends on; ...
Same(k) ==
    /\ Keeps(k) /\ result'[k] = result[k]
    /\ job'[k].status = job[k].status /\ job'[k].bound = job[k].bound

\* ... the row is normalised by a process that opens the store; ...
Normal(k) == job'[k] = NormalisedJob(k) /\ result'[k] = result[k] /\ runs' = runs

\* ... the worker, which holds the job, writes it: the job stays in the queue,
\* or is given up, or its run has ended; ...
Held(k) ==
    /\ Working /\ cur = k /\ Keeps(k) /\ runs' = runs
    /\ pc \in LaunchSteps => pc' \in {"asleep", "idle"}
    /\ job'[k].status \in LaunchStates =>
          job[k].status \in LaunchStates /\ job'[k].status # "pending_launch"
    /\ job'[k].status \in LifecycleStates \ TerminalStates
    /\ \/ job'[k].status \in LaunchStates \cup {"launched", "external_waiting"}
       \/ job'[k].status = "report_pending" /\ result'[k] = "none"
       \/ result'[k] \in Fallbacks
       \/ runs[k].st \in BrokerOutcomes

\* ... the CI lifecycle moves it; ...
CIMove(k) ==
    /\ Keeps(k) /\ runs' = runs /\ result'[k] = result[k]
    /\ task[k] # "none" /\ task'[k] # "none" /\ pc = "idle"
    /\ job'[k].status \in CIStates \cup {"completed", "failed", "report_blocked"}

\* ... its report gets an outcome, or is requeued; ...
ReportMove(k) ==
    /\ Keeps(k) /\ runs' = runs /\ result'[k] = result[k] /\ result[k] # "none"
    /\ job[k].status \in {"report_pending", "report_retry", "report_blocked"}
    /\ job'[k].status \in TerminalStates \cup {"report_retry", "report_blocked"}

\* ... or an operator binds the run of a failed launch.
Rebound(k) ==
    /\ Keeps(k) /\ runs' = runs /\ result'[k] = result[k]
    /\ job[k].status \notin LaunchStates \cup {"none"}
    /\ runs[k].st \in BrokerOutcomes
    /\ job'[k].status = "launched"

QueueMove(k) ==
    \/ Same(k) \/ Normal(k) \/ Record(k) \/ ClaimLaunch(k)
    \/ Held(k) \/ CIMove(k) \/ ReportMove(k) \/ Rebound(k)

\* A step that leaves the job and its result alone.
LEMMA OthersSame ==
    ASSUME NEW k \in Keys, result' = result, job'[k] = job[k]
    PROVE  QueueMove(k)
  BY Zenon DEF QueueMove, Same, Keeps

\* A step of the worker that writes the held job while it has no result.
LEMMA HeldMoves ==
    ASSUME TypeOK, EvidenceInv, HeldJobWrites
    PROVE  QueueMove(cur)
  <1>1. cur \in Keys /\ result[cur] = "none" /\ result' = result
    BY HeldJobWritesFact, Zenon DEF EvidenceInv
  <1>2. job[cur] \in Jobs
    BY <1>1, Zenon DEF TypeOK, JobsOK
  <1>3. Working /\ runs' = runs /\ (pc \in LaunchSteps => pc' \in {"asleep", "idle"})
    BY Zenon DEF HeldJobWrites, MarkLaunched, MarkLaunchFailure, DeferReportPending, PollFails,
       PollAnswered, PollUnknown, MarkMalformed, MarkStatus,
       RecordRepositoryRunExternalWait, MarkRepositoryRunExternalResumed, ResumeFails,
       ProjectionFails, Working, ReportSteps, LaunchSteps, Continue, Abort, Release
  <1>4. ASSUME NEW s \in {"launched", "report_pending", "external_waiting", "launch_retry"},
               s = "launch_retry" => job[cur].status \in LaunchStates,
               job'[cur].status = s, Keeps(cur)
        PROVE  QueueMove(cur)
    <2>1. s \in LaunchStates => job[cur].status \in LaunchStates /\ s # "pending_launch"
      BY <1>4, Zenon DEF LaunchStates
    <2>2. s \in LifecycleStates \ TerminalStates
      BY Zenon DEF LifecycleStates, LaunchStates, TerminalStates
    <2>3. \/ s \in LaunchStates \cup {"launched", "external_waiting"}
          \/ s = "report_pending" /\ result'[cur] = "none"
      BY <1>1, Zenon DEF LaunchStates
    <2> QED
      BY <1>3, <1>4, <2>1, <2>2, <2>3, Zenon DEF Held, QueueMove
  <1>5. CASE job'[cur].status = job[cur].status /\ job'[cur].bound = job[cur].bound /\ Keeps(cur)
    BY <1>1, <1>5, Zenon DEF QueueMove, Same
  <1>6. CASE MarkLaunched \/ MarkLaunchFailure \/ MarkStatus
    <2>1. CASE job' = job
      BY <1>5, <2>1, Zenon DEF Keeps
    <2>2. CASE job' # job
      <3>1. \/ job'[cur].status = "launched" /\ Keeps(cur)
            \/ job'[cur].status = "launch_retry" /\ Keeps(cur) /\ job[cur].status \in LaunchStates
        BY <1>1, <1>2, <1>6, <2>2 DEF MarkLaunched, MarkLaunchFailure, MarkStatus, Abort, durable,
           TypeOK, JobsOK, Jobs, Keeps
      <3> QED
        BY <1>4, <3>1, Zenon
    <2> QED
      BY <2>1, <2>2, Zenon
  <1>7. CASE DeferReportPending \/ ResumeFails
    <2>1. Keeps(cur) /\ job'[cur].status = job[cur].status /\ job'[cur].bound = job[cur].bound
      BY <1>1, <1>2, <1>7 DEF DeferReportPending, ResumeFails, DeferRepositoryRunExternalResume,
         Abort, durable, TypeOK, JobsOK, Jobs, Keeps
    <2> QED
      BY <1>5, <2>1, Zenon
  <1>8. CASE PollFails \/ MarkMalformed \/ ProjectionFails
    <2>1. \/ Keeps(cur) /\ job'[cur].status = job[cur].status /\ job'[cur].bound = job[cur].bound
          \/ job'[cur].status \in {"launched", "report_pending"} /\ Keeps(cur)
      <3>1. \/ job' = job
            \/ \E p : job' = [job EXCEPT ![cur].due = FALSE, ![cur].pre = p]
            \/ \E s \in {"launched", "report_pending"} : \E p :
                  job' = [job EXCEPT ![cur].status = s, ![cur].pre = p, ![cur].due = FALSE]
        BY <1>8, Zenon DEF PollFails, MarkMalformed, ProjectionFails, MarkPreOutboxFailure,
           DeferRepositoryRunExternalResume, Abort, durable
      <3>2. CASE job' = job
        BY <3>2, Zenon DEF Keeps
      <3>3. ASSUME NEW p, job' = [job EXCEPT ![cur].due = FALSE, ![cur].pre = p]
            PROVE  Keeps(cur) /\ job'[cur].status = job[cur].status /\ job'[cur].bound = job[cur].bound
        BY <1>1, <1>2, <3>3, Zenon DEF TypeOK, JobsOK, Jobs, Keeps
      <3>4. ASSUME NEW s \in {"launched", "report_pending"}, NEW p,
                   job' = [job EXCEPT ![cur].status = s, ![cur].pre = p, ![cur].due = FALSE]
            PROVE  job'[cur].status = s /\ Keeps(cur)
        <4> DEFINE row == [job[cur] EXCEPT !.status = s, !.pre = p, !.due = FALSE]
        <4>1. job'[cur] = row
          BY <1>1, <3>4, Zenon DEF TypeOK, JobsOK
        <4>2. row.status = s /\ row.older = job[cur].older /\ row.first = job[cur].first
          BY <1>2, Zenon DEF Jobs
        <4> QED
          BY <4>1, <4>2, Zenon DEF Keeps
      <3> QED
        BY <3>1, <3>2, <3>3, <3>4, Zenon
    <2> QED
      BY <1>4, <1>5, <2>1, Zenon
  <1>9. CASE \/ PollAnswered \/ PollUnknown \/ RecordRepositoryRunExternalWait
             \/ MarkRepositoryRunExternalResumed
    <2>1. \/ Keeps(cur) /\ job'[cur].status = job[cur].status /\ job'[cur].bound = job[cur].bound
          \/ job'[cur].status \in {"launched", "external_waiting"} /\ Keeps(cur)
      <3>1. \/ job' = job
            \/ job' = [job EXCEPT ![cur].status = "external_waiting", ![cur].due = FALSE]
            \/ \E due \in BOOLEAN :
                  job' = [job EXCEPT ![cur].status = "launched", ![cur].due = due, ![cur].pre = 0]
        BY <1>9, Zenon DEF PollAnswered, PollUnknown, RecordRepositoryRunExternalWait,
           MarkRepositoryRunExternalResumed, ReconcileRepositoryRunExternalResume,
           Abort, durable
      <3>2. CASE job' = job
        BY <3>2, Zenon DEF Keeps
      <3>3. CASE job' = [job EXCEPT ![cur].status = "external_waiting", ![cur].due = FALSE]
        BY <1>1, <1>2, <3>3, Zenon DEF TypeOK, JobsOK, Jobs, Keeps
      <3>4. ASSUME NEW due \in BOOLEAN,
                   job' = [job EXCEPT ![cur].status = "launched", ![cur].due = due, ![cur].pre = 0]
            PROVE  job'[cur].status = "launched" /\ Keeps(cur)
        BY <1>1, <1>2, <3>4, Zenon DEF TypeOK, JobsOK, Jobs, Keeps
      <3> QED
        BY <3>1, <3>2, <3>3, <3>4, Zenon
    <2> QED
      BY <1>4, <1>5, <2>1, Zenon
  <1> QED
    BY <1>6, <1>7, <1>8, <1>9, Zenon DEF HeldJobWrites

\* Every step moves every job in one of these ways.
LEMMA QueueMoves ==
    ASSUME TypeOK, ProjectsFinishedRun, EvidenceInv, Next
    PROVE  \A k \in Keys : QueueMove(k)
  <1>1. CASE Quiet \/ \E k \in Keys : QuietKey(k)
    <2>1. UNCHANGED <<job, result>>
      BY <1>1, Zenon DEF Quiet, QuietKey, ReportBecomesDue, Broker, FinishRun, SuspendRun,
         ContinueRun, ClaimReportDue, ClaimStatus, CIError, Crash, Tick, NoWork,
         CallComment, CallLaunch, CallResumeRun, PollMiscorrelated,
         PollMalformedWait, Abort, durable
    <2> QED
      BY <2>1, Zenon DEF QueueMove, Same, Keeps
  <1>2. CASE Start \/ OperatorOpensStore
    BY <1>2, Zenon DEF Start, OperatorOpensStore, OpenStore, QueueMove, Normal
  <1>3. ASSUME NEW k \in Keys,
               JobBecomesDue(k) \/ WindowCloses(k) \/ RecordRepositoryRunExternalWake(k)
        PROVE  \A j \in Keys : QueueMove(j)
    <2>1. result' = result
      BY <1>3, Zenon DEF JobBecomesDue, WindowCloses, RecordRepositoryRunExternalWake
    <2>2. \A j \in Keys : /\ job'[j].status = job[j].status /\ job'[j].bound = job[j].bound
                          /\ Keeps(j)
      BY <1>3 DEF JobBecomesDue, WindowCloses, RecordRepositoryRunExternalWake, TypeOK, JobsOK,
         Jobs, Keeps
    <2> QED
      BY <2>1, <2>2, Zenon DEF QueueMove, Same
  <1>4. ASSUME NEW k \in Keys, Record(k) \/ ClaimLaunch(k)
        PROVE  \A j \in Keys : QueueMove(j)
    <2>1. result' = result /\ \A j \in Keys \ {k} : job'[j] = job[j]
      BY <1>4, Zenon DEF Record, ClaimLaunch, TypeOK, JobsOK
    <2> QED
      BY <1>4, <2>1, OthersSame, Zenon DEF QueueMove
  <1>5. CASE HeldJobWrites
    BY <1>5, HeldJobWritesFact, HeldMoves, OthersSame, Zenon DEF EvidenceInv
  <1>6. CASE BeginCIWait
    <2>1. cur \in Keys /\ runs[cur].st = "ready_for_review" /\ Working /\ pc \notin LaunchSteps
      BY <1>6, HeldKey, Zenon DEF BeginCIWait, TypeOK, Working, ReportSteps, LaunchSteps
    <2>2. result' = result /\ runs' = runs
      BY <1>6, Zenon DEF BeginCIWait, Abort, durable
    <2>3. \A k \in Keys \ {cur} : job'[k] = job[k]
      BY <1>6, <2>1, Zenon DEF BeginCIWait, Abort, durable, TypeOK, JobsOK
    <2>4. QueueMove(cur)
      <3>1. CASE job' = job
        BY <2>1, <2>2, <3>1, Zenon DEF QueueMove, Same, Keeps
      <3>2. CASE job' # job
        <4>1. job'[cur].status = "ci_waiting" /\ Keeps(cur)
          BY <1>6, <2>1, <3>2 DEF BeginCIWait, Abort, durable, TypeOK, JobsOK, Jobs, Keeps
        <4>2. /\ "ci_waiting" \in LifecycleStates \ TerminalStates
              /\ "ci_waiting" \notin LaunchStates /\ runs[cur].st \in BrokerOutcomes
          BY <2>1, Zenon DEF LifecycleStates, TerminalStates, LaunchStates, CIStates, BrokerOutcomes
        <4> QED
          BY <2>1, <2>2, <4>1, <4>2, Zenon DEF QueueMove, Held
      <3> QED
        BY <3>1, <3>2, Zenon
    <2> QED
      BY <2>1, <2>2, <2>3, <2>4, OthersSame, Zenon
  <1>7. ASSUME NEW k \in Keys, CIAction(k), ~CIError(k)
        PROVE  \A j \in Keys : QueueMove(j)
    <2>1. ASSUME NEW from \in OpenTask, NEW to \in TaskPhases \ {"none"},
                 NEW s \in CIStates \cup {"completed", "failed", "report_blocked"},
                 CIStep(k, from, to, s)
          PROVE  \A j \in Keys : QueueMove(j)
      <3>1. UNCHANGED <<result, runs>> /\ task[k] # "none" /\ pc = "idle"
        BY <2>1, Zenon DEF CIStep, OpenTask
      <3>2. job'[k].status = s /\ task'[k] = to /\ Keeps(k)
        BY <2>1 DEF CIStep, TypeOK, JobsOK, Jobs, TasksOK, Keeps
      <3>3. \A j \in Keys \ {k} : job'[j] = job[j]
        BY <2>1, Zenon DEF CIStep, TypeOK, JobsOK
      <3>4. QueueMove(k)
        BY <3>1, <3>2, Zenon DEF QueueMove, CIMove
      <3> QED
        BY <3>1, <3>3, <3>4, OthersSame, Zenon
    <2> QED
      BY <1>7, <2>1, Zenon DEF CIAction, CIPending, CISucceeds, CICodeFailure, CIEscalates,
         CIRepairAgain, CIRepairDelivered, CIEscalationDelivered, CIEscalationBlocked,
         OpenTask, TaskPhases, CIStates
  <1>8. CASE Queueing
    <2>1. cur \in Keys /\ Working /\ runs' = runs /\ pc' \in {"asleep", "idle"}
      BY <1>8, HeldKey, Zenon DEF Queueing, QueueLaunchFailure, QueuePreOutboxFailure,
         ProjectTerminalResult, TypeOK, Working, ReportSteps, QueueTerminalResult, Continue,
         Abort, Release
    <2>2. PICK r \in Results : /\ QueueTerminalResult(cur, r)
                               /\ r \in Fallbacks \/ runs[cur].st \in BrokerOutcomes
      BY <1>8, Zenon DEF Queueing, QueueLaunchFailure, QueuePreOutboxFailure,
         ProjectTerminalResult, ProjectsFinishedRun, Results, Fallbacks
    <2>3. CASE ~Queueable(cur, r)
      BY <2>2, <2>3, Zenon DEF QueueTerminalResult, Abort, durable, QueueMove, Same, Keeps
    <2>4. CASE Queueable(cur, r)
      <3>1. result'[cur] = r /\ job'[cur].status = "report_pending" /\ Keeps(cur)
        BY <2>1, <2>2, <2>4 DEF QueueTerminalResult, TypeOK, JobsOK, Jobs, ResultsOK, Keeps
      <3>2. \A k \in Keys \ {cur} : job'[k] = job[k] /\ result'[k] = result[k]
        BY <2>2, <2>4, Zenon DEF QueueTerminalResult, TypeOK, JobsOK, ResultsOK
      <3>3. "report_pending" \in LifecycleStates \ TerminalStates /\ "report_pending" \notin LaunchStates
        BY Zenon DEF LifecycleStates, TerminalStates, LaunchStates
      <3>4. Held(cur)
        BY <2>1, <2>2, <3>1, <3>3, Zenon DEF Held
      <3> QED
        BY <3>2, <3>4, Zenon DEF QueueMove, Same, Keeps
    <2> QED
      BY <2>3, <2>4, Zenon
  <1>9. CASE Marking
    <2>1. cur \in Keys /\ result[cur] # "none" /\ runs' = runs
      BY <1>9, HeldKey, Zenon DEF Marking, MarkReportDelivered, MarkReportFailure, ReportSteps,
         TypeOK, EvidenceInv, WorkerEvidence
    <2>2. ASSUME NEW st, NEW status \in TerminalStates \cup {"report_retry", "report_blocked"},
                 NEW due, NEW jobDue, RecordOutcome(st, status, due, jobDue)
          PROVE  \A k \in Keys : QueueMove(k)
      <3>1. CASE ~ReportOpen(cur)
        BY <2>2, <3>1, Zenon DEF RecordOutcome, Abort, durable, QueueMove, Same, Keeps
      <3>2. CASE ReportOpen(cur)
        <4>1. result' = result /\ \A k \in Keys \ {cur} : job'[k] = job[k]
          BY <2>1, <2>2, <3>2, Zenon DEF RecordOutcome, TypeOK, JobsOK
        <4>2. job'[cur].status = status /\ Keeps(cur)
          BY <2>1, <2>2, <3>2 DEF RecordOutcome, TypeOK, JobsOK, Jobs, Keeps
        <4>3. QueueMove(cur)
          BY <2>1, <3>2, <4>1, <4>2, Zenon DEF QueueMove, ReportMove, ReportOpen
        <4> QED
          BY <2>1, <4>1, <4>3, OthersSame, Zenon
      <3> QED
        BY <3>1, <3>2, Zenon
    <2>3. TerminalStatus(result[cur]) \in TerminalStates
      BY <2>1, TerminalStatusFact, Zenon DEF TypeOK, ResultsOK
    <2> QED
      BY <1>9, <2>2, <2>3, Zenon DEF Marking, MarkReportDelivered, MarkReportFailure
  <1>10. ASSUME NEW k \in Keys, Operator(k)
        PROVE  \A j \in Keys : QueueMove(j)
    <2>1. UNCHANGED <<result, runs>> /\ \A j \in Keys \ {k} : job'[j] = NormalisedJob(j)
      BY <1>10, Zenon DEF Operator, ReconcileBlockedReport, ReconcileFailedLaunch
    <2>2. CASE ReconcileBlockedReport(k)
      <3>1. job'[k].status = "report_retry" /\ Keeps(k)
        BY <2>2, Zenon DEF ReconcileBlockedReport, TypeOK, JobsOK, Jobs, Keeps
      <3> QED
        BY <2>1, <2>2, <3>1, Zenon DEF ReconcileBlockedReport, QueueMove, Normal, ReportMove
    <2>3. CASE ReconcileFailedLaunch(k)
      <3>1. job'[k].status = "launched" /\ Keeps(k) /\ runs[k].st \in BrokerOutcomes
        <4>1. job'[k] = [job[k] EXCEPT !.status = "launched", !.bound = TRUE, !.due = FALSE]
          BY <2>3, Zenon DEF ReconcileFailedLaunch
        <4>2. job[k] \in Jobs
          BY Zenon DEF TypeOK, JobsOK
        <4>3. job'[k].status = "launched" /\ Keeps(k)
          BY <4>1, <4>2, Zenon DEF Jobs, Keeps
        <4> QED
          BY <2>3, <4>3, Zenon DEF ReconcileFailedLaunch
      <3>2. job[k].status \notin LaunchStates \cup {"none"}
        <4>1. ASSUME job[k].status \in LaunchStates \cup {"none"}
              PROVE  NormalisedJob(k) = [job[k] EXCEPT !.status = job[k].status]
          BY <4>1, Zenon DEF NormalisedJob, NeedsReport, Migrated, LaunchStates
        <4> QED
          BY <2>3, <4>1, Zenon DEF ReconcileFailedLaunch, TypeOK, JobsOK, Jobs, LaunchStates
      <3> QED
        BY <2>1, <3>1, <3>2, Zenon DEF QueueMove, Normal, Rebound
    <2> QED
      BY <1>10, <2>2, <2>3, Zenon DEF Operator
  <1> QED
    BY <1>1, <1>2, <1>3, <1>4, <1>5, <1>6, <1>7, <1>8, <1>9, <1>10, Zenon
       DEF Next, Worker, Reporting, Launching, Polling, Clock, Fetch, Claim, Quiet,
           QuietKey, HeldJobWrites, Queueing, Marking

\* What opening the store leaves of a job.
LEMMA NormalFacts ==
    ASSUME JobsOK, NEW k \in Keys
    PROVE  /\ NormalisedJob(k).older = job[k].older /\ NormalisedJob(k).first = job[k].first
           /\ NormalisedJob(k).bound = job[k].bound
           /\ NormalisedJob(k).status \notin LegacyStates
           /\ \/ NormalisedJob(k).status = job[k].status
              \/ job[k].status \in LegacyStates \cup TerminalStates \cup {"report_blocked"}
           /\ NormalisedJob(k).status # job[k].status =>
                 /\ NormalisedJob(k).status # "none"
                 /\ NormalisedJob(k).status \in LaunchStates => job[k].status \in LegacyStates
                 /\ NormalisedJob(k).status \in TerminalStates => NormalisedJob(k).status = "failed"
           /\ NormalisedJob(k).status \in {"completed", "failed", "timed_out"} =>
                 ~(job[k].bound /\ result[k] = "none")
  <1> DEFINE s == job[k].status
             m == Migrated(s, job[k].bound)
             n == IF NeedsReport(k, m) THEN "report_pending" ELSE m
  <1>1. job[k] \in Jobs
    BY Zenon DEF JobsOK
  <1>2. /\ NormalisedJob(k).older = job[k].older /\ NormalisedJob(k).first = job[k].first
        /\ NormalisedJob(k).bound = job[k].bound /\ NormalisedJob(k).status = n
    BY <1>1, Zenon DEF NormalisedJob, Jobs
  <1>3. s \notin LegacyStates => m = s
    BY Zenon DEF Migrated, LegacyStates
  <1>4. s \in LegacyStates => m \in {"pending_launch", "launch_retry", "launched", "failed"}
    BY <1>1, Zenon DEF Migrated, LegacyStates, Jobs
  <1>5. NeedsReport(k, m) => m \in {"completed", "failed", "timed_out", "report_blocked"}
    BY Zenon DEF NeedsReport
  <1>6. m \in {"completed", "failed", "timed_out"} /\ job[k].bound /\ result[k] = "none"
           => NeedsReport(k, m)
    BY Zenon DEF NeedsReport
  <1> HIDE DEF m, s
  <1>7. n \notin LegacyStates
    BY <1>3, <1>4, Zenon DEF LegacyStates
  <1>8. n = s \/ s \in LegacyStates \cup TerminalStates \cup {"report_blocked"}
    BY <1>3, <1>5, Zenon DEF TerminalStates
  <1>9. n # s => /\ n # "none"
                 /\ n \in LaunchStates => s \in LegacyStates
                 /\ n \in TerminalStates => n = "failed"
    BY <1>3, <1>4, Zenon DEF LaunchStates, TerminalStates
  <1>10. n \in {"completed", "failed", "timed_out"} => ~(job[k].bound /\ result[k] = "none")
    BY <1>6, Zenon
  <1> QED
    BY <1>2, <1>7, <1>8, <1>9, <1>10, Zenon DEF s

-----------------------------------------------------------------------------
(* What one step may do to the run of one key. *)

RunMove(k) ==
    \/ runs'[k] = runs[k]
    \/ /\ Active(k) /\ UNCHANGED <<job, result, task>>
       /\ runs'[k] # NoRun
    \/ /\ pc = "launch" /\ cur = k /\ pc' # "launch" /\ UNCHANGED <<job, result, task>>
       /\ runs[k].st = "none" /\ runs'[k].st = "running"

\* Every step moves every run in one of these ways.
LEMMA RunMoves ==
    ASSUME TypeOK, Next
    PROVE  \A k \in Keys : RunMove(k)
  <1>1. CASE runs' = runs
    BY <1>1, Zenon DEF RunMove
  <1>2. CASE CallLaunch
    <2>1. cur \in Keys /\ pc = "launch" /\ pc' # "launch" /\ UNCHANGED <<job, result, task>>
      BY <1>2, HeldKey, Zenon DEF CallLaunch, TypeOK, Goto, durable
    <2>2. \A k \in Keys \ {cur} : runs'[k] = runs[k]
      BY <1>2, <2>1, Zenon DEF CallLaunch, TypeOK, RunsOK
    <2>3. runs[cur] \in Runs
      BY <2>1, Zenon DEF TypeOK, RunsOK
    <2>4. \/ runs'[cur] = runs[cur]
          \/ runs[cur].st = "none" /\ runs'[cur].st = "running"
      BY <1>2, <2>1, <2>3 DEF CallLaunch, Runs, TypeOK, RunsOK
    <2> QED
      BY <2>1, <2>2, <2>4, Zenon DEF RunMove
  <1>3. CASE CallResumeRun
    <2>1. cur \in Keys /\ UNCHANGED <<job, result, task>>
      BY <1>3, HeldKey, Zenon DEF CallResumeRun, TypeOK, durable
    <2>2. \A k \in Keys \ {cur} : runs'[k] = runs[k]
      BY <1>3, <2>1, Zenon DEF CallResumeRun, TypeOK, RunsOK
    <2>3. runs[cur] \in Runs
      BY <2>1, Zenon DEF TypeOK, RunsOK
    <2>4. CASE runs[cur].st = "waiting"
      BY <1>3, <2>1, <2>3, <2>4 DEF RunMove, CallResumeRun, Active, NoRun, Runs, TypeOK, RunsOK
    <2>5. CASE runs[cur].st # "waiting"
      BY <1>3, <2>1, <2>3, <2>5 DEF RunMove, CallResumeRun, Runs, TypeOK, RunsOK
    <2> QED
      BY <2>2, <2>4, <2>5, Zenon DEF RunMove
  <1>4. ASSUME NEW k \in Keys, Broker(k)
        PROVE  \A j \in Keys : RunMove(j)
    <2>1. Active(k) /\ UNCHANGED <<job, result, task>>
      BY <1>4, Zenon DEF Broker, FinishRun, SuspendRun, ContinueRun, Active, durable
    <2>2. \A j \in Keys \ {k} : runs'[j] = runs[j]
      BY <1>4, Zenon DEF Broker, FinishRun, SuspendRun, ContinueRun, TypeOK, RunsOK
    <2>3. runs'[k].st # "none"
      <3>1. runs[k] \in Runs /\ "none" \notin Outcomes
        BY ConstantsAssumption, Zenon DEF TypeOK, RunsOK, BrokerOutcomes
      <3>2. CASE FinishRun(k)
        BY <3>1, <3>2 DEF FinishRun, TypeOK, RunsOK, Runs
      <3>3. CASE SuspendRun(k) \/ ContinueRun(k)
        BY <3>1, <3>3 DEF SuspendRun, ContinueRun, TypeOK, RunsOK, Runs
      <3> QED
        BY <1>4, <3>2, <3>3, Zenon DEF Broker
    <2> QED
      BY <2>1, <2>2, <2>3 DEF RunMove, NoRun
  <1> QED
    BY <1>1, <1>2, <1>3, <1>4, Writes, Zenon

-----------------------------------------------------------------------------
(* Every step keeps the inductive invariant. *)

\* The row record inserts.
LEMMA RecordRow ==
    ASSUME TypeOK, NEW k \in Keys, Record(k)
    PROVE  /\ up /\ job[k].status = "none" /\ runs' = runs /\ result' = result
           /\ UNCHANGED <<pc, cur, up>>
           /\ job'[k].status = "pending_launch" /\ job'[k].older = Present
           /\ job'[k].first = FALSE /\ job'[k].bound = FALSE
           /\ \A j \in Keys \ {k} : job'[j] = job[j]
  <1>1. PICK due \in BOOLEAN :
          job' = [job EXCEPT ![k] = [AbsentJob EXCEPT !.status = "pending_launch",
                                                      !.older = Present, !.due = due]]
    BY Zenon DEF Record
  <1> DEFINE r == [AbsentJob EXCEPT !.status = "pending_launch", !.older = Present, !.due = due]
  <1>2. /\ r.status = "pending_launch" /\ r.older = Present /\ r.first = FALSE /\ r.bound = FALSE
    BY Zenon DEF AbsentJob
  <1>3. job'[k] = r /\ \A j \in Keys \ {k} : job'[j] = job[j]
    BY <1>1, Zenon DEF TypeOK, JobsOK
  <1> HIDE DEF r
  <1> QED
    BY <1>2, <1>3, Zenon DEF Record, process

\* What the moves leave of the status of one job.
LEMMA StatusMoves ==
    ASSUME TypeOK, QueueInv, NEW k \in Keys, QueueMove(k)
    PROVE  /\ job'[k].older = job[k].older \/ Record(k)
           /\ job'[k].status \in LegacyStates => job[k].status = job'[k].status
           /\ job'[k].status = "none" => job[k].status = "none"
           /\ job[k].status = "none" => job'[k].status = "none" \/ Record(k)
           /\ job'[k].status \in LaunchStates =>
                 job[k].status \in LaunchStates \cup LegacyStates \/ Record(k)
           /\ job'[k].status = "pending_launch" /\ job[k].status # "pending_launch" =>
                 job[k].status \in LegacyStates \/ Record(k)
           /\ job[k].first => job'[k].first \/ Record(k)
  <1>1. CASE Same(k)
    BY <1>1, Zenon DEF Same, Keeps
  <1>2. CASE Normal(k)
    <2> DEFINE n == NormalisedJob(k)
    <2>1. /\ n.older = job[k].older /\ n.first = job[k].first /\ n.status \notin LegacyStates
          /\ n.status = job[k].status
             \/ job[k].status \in LegacyStates \cup TerminalStates \cup {"report_blocked"}
          /\ n.status # job[k].status =>
                 /\ n.status # "none"
                 /\ n.status \in LaunchStates => job[k].status \in LegacyStates
      BY NormalFacts, Zenon DEF TypeOK
    <2>2. job'[k] = n
      BY <1>2, Zenon DEF Normal
    <2> HIDE DEF n
    <2> QED
      BY <2>1, <2>2, Zenon DEF LaunchStates, TerminalStates, LegacyStates
  <1>3. CASE Record(k)
    BY <1>3, RecordRow, Zenon DEF LegacyStates
  <1>4. CASE ClaimLaunch(k)
    BY <1>4, Zenon DEF ClaimLaunch, TypeOK, JobsOK, Jobs, LaunchStates
  <1>5. CASE Held(k)
    BY <1>5, Zenon DEF Held, Keeps, QueueInv, LifecycleStates, LegacyStates, LaunchStates, TerminalStates,
       CIStates, Record
  <1>6. CASE CIMove(k)
    BY <1>6 DEF CIMove, Keeps, QueueInv, LegacyStates, LaunchStates, CIStates, NoRun, BrokerOutcomes
  <1>7. CASE ReportMove(k)
    BY <1>7, Zenon DEF ReportMove, Keeps, LegacyStates, LaunchStates, TerminalStates
  <1>8. CASE Rebound(k)
    BY <1>8, Zenon DEF Rebound, Keeps, LegacyStates, LaunchStates
  <1> QED
    BY <1>1, <1>2, <1>3, <1>4, <1>5, <1>6, <1>7, <1>8, Zenon DEF QueueMove

\* Results are permanent, and a CI lifecycle is not forgotten.
LEMMA ResultStays ==
    ASSUME EvidenceInv, NEW k \in Keys, RowStep(k)
    PROVE  /\ result[k] # "none" => result'[k] = result[k]
           /\ task[k] # "none" => task'[k] # "none"
  BY Zenon DEF RowStep, Undisturbed, Queued, Marked, Requeued, EvidenceInv, ReportEvidence

\* A job not tried is tried only by the claim of its launch.
LEMMA TriedMoves ==
    ASSUME TypeOK, QueueInv, NEW k \in Keys, QueueMove(k), RunMove(k), ~Tried(k)
    PROVE  ClaimLaunch(k) \/ ~Tried(k)'
  <1>1. job[k].status = "pending_launch" /\ ~job[k].first /\ runs[k] = NoRun /\ runs[k].st = "none"
    BY DEF Tried, NoRun
  <1>2. ~(Working /\ cur = k)
    BY Zenon DEF QueueInv
  <1>3. runs'[k] = NoRun
    BY <1>1, <1>2, Zenon DEF RunMove, Active, Working, ReportSteps
  <1>4. task[k] = "none"
    BY <1>1, Zenon DEF QueueInv, BrokerOutcomes
  <1>5. CASE Normal(k)
    <2>1. /\ NormalisedJob(k).status = job[k].status /\ NormalisedJob(k).first = job[k].first
      BY <1>1, NormalFacts, Zenon DEF TypeOK, LegacyStates, TerminalStates
    <2> QED
      BY <1>1, <1>3, <1>5, <2>1, Zenon DEF Normal, Tried
  <1>6. CASE Same(k)
    BY <1>1, <1>3, <1>6, Zenon DEF Same, Keeps, Tried
  <1>7. ~Record(k) /\ ~Held(k) /\ ~CIMove(k) /\ ~ReportMove(k) /\ ~Rebound(k)
    BY <1>1, <1>2, <1>4, Zenon DEF Record, Held, CIMove, ReportMove, Rebound, LaunchStates
  <1> QED
    BY <1>5, <1>6, <1>7, Zenon DEF QueueMove

\* A job that was tried, and is no old row, stays tried.
LEMMA TriedStays ==
    ASSUME TypeOK, QueueInv, NEW k \in Keys, QueueMove(k), RunMove(k), Tried(k),
           job[k].status \notin {"none"} \cup LegacyStates
    PROVE  Tried(k)' /\ job'[k].status \notin {"none"} \cup LegacyStates
  <1>1. ~Record(k)
    BY Zenon DEF Record
  <1>2. runs[k] # NoRun => runs'[k] # NoRun
    BY DEF RunMove, NoRun
  <1> QED
    BY <1>1, <1>2, StatusMoves, Zenon DEF Tried

\* The worker's registers: kept, cleared, set by a claim, or advanced.
LEMMA WorkerMoves ==
    ASSUME TypeOK, Next, pc' \notin {"asleep", "idle"}
    PROVE  \/ UNCHANGED <<pc, cur>>
           \/ \E k \in Keys : Claim(k)
           \/ /\ cur' = cur
              /\ pc' \in ReportSteps <=> pc \in ReportSteps
              /\ pc' \in LaunchSteps => pc = "launch" /\ job' = job
              /\ pc \notin {"asleep", "idle"} /\ pc' # "launch"
  <1>1. CASE Advancing /\ cur' = cur
    <2>1. CASE CallComment
      BY <2>1, <1>1, Zenon DEF CallComment, Goto, ReportSteps, LaunchSteps
    <2>2. CASE CallLaunch
      BY <2>2, <1>1, Zenon DEF CallLaunch, Goto, ReportSteps, LaunchSteps, durable
    <2>3. CASE ~CallComment /\ ~CallLaunch
      <3>1. pc \in {"resume", "status", "malformed", "project"}
        BY <1>1, <2>3, Zenon DEF Advancing, CallResumeRun, PollFails, MarkMalformed,
           ProjectionFails, PollAnswered, PollUnknown, PollMalformedWait,
           RecordRepositoryRunExternalWait
      <3>2. pc' \in {"resumed", "resume_failed", "fallback", "project", "mark_status",
                     "malformed", "resume"}
        BY <1>1, <2>3, Zenon DEF Advancing, CallResumeRun, PollFails, MarkMalformed,
           ProjectionFails, PollAnswered, PollUnknown, PollMalformedWait,
           RecordRepositoryRunExternalWait, MarkPreOutboxFailure,
           DeferRepositoryRunExternalResume, ReconcileRepositoryRunExternalResume,
           Goto, Continue, Abort, Release
      <3> QED
        BY <1>1, <3>1, <3>2, Zenon DEF ReportSteps, LaunchSteps
    <2> QED
      BY <2>1, <2>2, <2>3, Zenon
  <1> QED
    BY <1>1, Control, Zenon

\* What a claim knows of the job it takes.
LEMMA ClaimFacts ==
    ASSUME TypeOK, NEW k \in Keys, Claim(k)
    PROVE  /\ cur' = k /\ UNCHANGED <<result, runs, task, up>>
           /\ \/ pc' \in ReportSteps
              \/ /\ ClaimLaunch(k) /\ pc' \in LaunchSteps /\ Head(k)
                 /\ job'[k].status = job[k].status /\ job[k].status \in LaunchStates
                 /\ job'[k].first
              \/ /\ pc' \in {"status", "defer"} /\ job' = job /\ Claimable(k)
                 /\ job[k].status \notin LaunchStates
  <1>1. CASE ClaimReportDue(k)
    BY <1>1, Zenon DEF ClaimReportDue, Hold, ReportSteps, durable
  <1>2. CASE ClaimLaunch(k)
    <2>1. job'[k].status = job[k].status /\ job'[k].first
      BY <1>2, Zenon DEF ClaimLaunch, TypeOK, JobsOK, Jobs
    <2> QED
      BY <1>2, <2>1, Zenon DEF ClaimLaunch, Hold, LaunchSteps
  <1>3. CASE ClaimStatus(k)
    BY <1>3, Zenon DEF ClaimStatus, Hold, Head, durable
  <1> QED
    BY <1>1, <1>2, <1>3, Zenon DEF Claim

\* The queue: the order of the jobs and of their launches.
LEMMA OrderStep ==
    ASSUME TypeOK, TypeOK', QueueInv,
           \A k \in Keys : QueueMove(k) /\ RunMove(k)
    PROVE  OlderKnown' /\ Comparable' /\ LaunchOrder'
  <1>1. ASSUME NEW k \in Keys
        PROVE  /\ job[k].older \subseteq Keys /\ job'[k].older \subseteq Keys
               /\ \A j \in job[k].older : job[j].status \notin {"none"} \cup LegacyStates
    BY Zenon DEF TypeOK, JobsOK, Jobs, QueueInv, OlderKnown
  <1>2. ASSUME NEW k \in Keys, job[k].status \notin {"none"} \cup LegacyStates
        PROVE  job'[k].status \notin {"none"} \cup LegacyStates
    BY <1>2, StatusMoves, Zenon DEF Record
  <1>3. ASSUME NEW k \in Keys, ~Record(k)
        PROVE  job'[k].older = job[k].older
    BY <1>3, StatusMoves, Zenon
  <1>4. ASSUME NEW k \in Keys, Record(k)
        PROVE  /\ job'[k].older = Present /\ job[k].status = "none" /\ ~Tried(k)'
               /\ \A j \in Present : job[j].status \notin {"none"} \cup LegacyStates
               /\ \A j \in Keys \ {k} : job'[j] = job[j]
    <2>1. job[k].status = "none" /\ runs[k] = NoRun
      BY <1>4, RecordRow, Zenon DEF QueueInv
    <2>2. /\ job'[k].older = Present /\ job'[k].status = "pending_launch" /\ job'[k].first = FALSE
          /\ up /\ runs' = runs /\ \A j \in Keys \ {k} : job'[j] = job[j]
      BY <1>4, RecordRow, Zenon
    <2>3. \A j \in Keys : job[j].status \notin LegacyStates
      BY <2>2, Zenon DEF QueueInv
    <2> QED
      BY <2>1, <2>2, <2>3, Zenon DEF Tried, Present
  <1>5. OlderKnown'
    <2> SUFFICES ASSUME NEW k \in Keys, NEW j \in job'[k].older
                 PROVE  job'[j].status \notin {"none"} \cup LegacyStates
      BY Zenon DEF OlderKnown
    <2>1. j \in Keys
      BY <1>1, Zenon
    <2>2. job[j].status \notin {"none"} \cup LegacyStates
      BY <1>1, <1>3, <1>4, Zenon
    <2> QED
      BY <1>2, <2>1, <2>2, Zenon
  <1>6. Comparable'
    <2> SUFFICES ASSUME NEW j \in Keys, NEW k \in Keys, j # k,
                        job'[j].status # "none", job'[k].status # "none"
                 PROVE  j \in job'[k].older \/ k \in job'[j].older
      BY Zenon DEF Comparable, Present
    <2>1. CASE Record(k)
      <3>1. job[j].status # "none"
        BY <1>4, <2>1, Zenon
      <3> QED
        BY <1>4, <2>1, <3>1, Zenon DEF Present
    <2>2. CASE Record(j)
      <3>1. job[k].status # "none"
        BY <1>4, <2>2, Zenon
      <3> QED
        BY <1>4, <2>2, <3>1, Zenon DEF Present
    <2>3. CASE ~Record(k) /\ ~Record(j)
      <3>1. job[j].status # "none" /\ job[k].status # "none"
        BY <2>3, StatusMoves, Zenon
      <3>2. j \in job[k].older \/ k \in job[j].older
        BY <3>1, Zenon DEF QueueInv, Comparable, Present
      <3> QED
        BY <1>3, <2>3, <3>2, Zenon
    <2> QED
      BY <2>1, <2>2, <2>3, Zenon
  <1>7. LaunchOrder'
    <2> SUFFICES ASSUME NEW k \in Keys, NEW j \in job'[k].older, job'[j].status \in LaunchStates
                 PROVE  ~Tried(k)'
      BY Zenon DEF LaunchOrder, Tried
    <2>1. CASE Record(k)
      BY <1>4, <2>1, Zenon
    <2>2. CASE ~Record(k)
      <3>1. j \in job[k].older /\ j \in Keys
        BY <1>1, <1>3, <2>2, Zenon
      <3>2. job[j].status \notin {"none"} \cup LegacyStates
        BY <1>1, <3>1, Zenon
      <3>3. job[j].status \in LaunchStates
        BY <3>1, <3>2, StatusMoves, Zenon DEF Record
      <3>4. ~Tried(k)
        BY <3>1, <3>3, Zenon DEF QueueInv, LaunchOrder, Tried
      <3>5. ~ClaimLaunch(k)
        BY <3>1, <3>3, Zenon DEF ClaimLaunch, Head, Claimable
      <3> QED
        BY <3>4, <3>5, TriedMoves, Zenon
    <2> QED
      BY <2>1, <2>2, Zenon
  <1> QED
    BY <1>5, <1>6, <1>7, Zenon

\* The worker works on a job whose launch was attempted.
LEMMA WorkingStep ==
    ASSUME TypeOK, TypeOK', QueueInv, Next,
           \A k \in Keys : QueueMove(k) /\ RunMove(k)
    PROVE  /\ Working' => Tried(cur)' /\ job'[cur'].status \notin {"none"} \cup LegacyStates
           /\ pc' \in LaunchSteps => job'[cur'].status \in LaunchStates
  <1> USE DEF Working
  <1>1. CASE pc' \in ReportSteps \cup {"asleep", "idle"}
    BY <1>1, Zenon DEF ReportSteps, LaunchSteps
  <1>2. ASSUME NEW k \in Keys, Claim(k), pc' \notin ReportSteps
        PROVE  /\ Tried(cur)' /\ job'[cur'].status \notin {"none"} \cup LegacyStates
               /\ pc' \in LaunchSteps => job'[cur'].status \in LaunchStates
    BY <1>2, ClaimFacts, Zenon DEF Tried, Claimable, LaunchStates, LegacyStates, LaunchSteps
  <1>3. ASSUME cur' = cur, pc \notin ReportSteps \cup {"asleep", "idle"}
        PROVE  Tried(cur)' /\ job'[cur'].status \notin {"none"} \cup LegacyStates
    <2>1. PICK k \in Keys : k = cur
      BY <1>3, HeldKey, Zenon DEF TypeOK
    <2>2. Tried(k) /\ job[k].status \notin {"none"} \cup LegacyStates
      BY <1>3, <2>1, Zenon DEF QueueInv
    <2>3. Tried(k)' /\ job'[k].status \notin {"none"} \cup LegacyStates
      BY <2>2, TriedStays, Zenon
    <2> QED
      BY <1>3, <2>1, <2>3, Zenon DEF Tried
  <1>4. ASSUME UNCHANGED <<pc, cur>>, pc \in LaunchSteps
        PROVE  job'[cur'].status \in LaunchStates
    <2>1. PICK k \in Keys : k = cur
      BY <1>4, HeldKey, Zenon DEF TypeOK, LaunchSteps
    <2>2. job[k].status \in LaunchStates
      BY <1>4, <2>1, Zenon DEF QueueInv
    <2>3. /\ ~Record(k) /\ ~ClaimLaunch(k) /\ ~Held(k) /\ ~CIMove(k) /\ ~ReportMove(k)
          /\ ~Rebound(k)
      BY <1>4, <2>2, Zenon DEF Record, ClaimLaunch, Held, CIMove, ReportMove, Rebound, LaunchStates,
         LaunchSteps
    <2>4. job'[k].status = job[k].status
      BY <2>2, <2>3, NormalFacts, Zenon DEF QueueMove, Same, Normal, TypeOK, LaunchStates, LegacyStates,
         TerminalStates
    <2> QED
      BY <1>4, <2>1, <2>2, <2>4, Zenon
  <1>5. CASE UNCHANGED <<pc, cur>> /\ pc' \notin ReportSteps \cup {"asleep", "idle"}
    BY <1>3, <1>4, <1>5, Zenon
  <1>6. CASE /\ cur' = cur /\ pc \notin ReportSteps \cup {"asleep", "idle"}
             /\ pc' \in LaunchSteps => pc = "launch" /\ job' = job
    BY <1>3, <1>6, Zenon DEF QueueInv, LaunchSteps
  <1> QED
    BY <1>1, <1>2, <1>5, <1>6, WorkerMoves, Zenon

\* Runs still at work, and the one run at a time.
LEMMA ActiveStep ==
    ASSUME TypeOK, TypeOK', EvidenceInv, QueueInv, Next,
           \A k \in Keys : QueueMove(k) /\ RunMove(k) /\ RowStep(k)
    PROVE  ActiveIsQueued' /\ OneRunAtATime'
  <1>1. ASSUME NEW k \in Keys, Active(k)'
        PROVE  (Claimable(k) \/ result[k] \in Fallbacks)'
    <2>1. result[k] \in Fallbacks => result'[k] \in Fallbacks
      BY ResultStays, Zenon DEF Fallbacks
    <2>2. CASE runs'[k] = runs[k]
      <3>1. Active(k) /\ runs[k].st \notin BrokerOutcomes /\ task[k] = "none"
        BY <1>1, <2>2, Zenon DEF Active, BrokerOutcomes, QueueInv
      <3>2. Claimable(k) \/ result[k] \in Fallbacks
        BY <3>1, Zenon DEF QueueInv, ActiveIsQueued
      <3>3. ASSUME Claimable(k), Same(k) \/ ClaimLaunch(k) \/ Normal(k)
            PROVE  Claimable(k)'
        <4>1. CASE Normal(k)
          BY <3>3, <4>1, NormalFacts DEF Normal, TypeOK, Claimable, LaunchStates, LegacyStates,
             TerminalStates
        <4>2. CASE Same(k)
          BY <3>3, <4>2, Zenon DEF Same, Claimable
        <4>3. CASE ClaimLaunch(k)
          BY <4>3 DEF ClaimLaunch, Claimable, TypeOK, JobsOK, Jobs
        <4> QED
          BY <3>3, <4>1, <4>2, <4>3, Zenon
      <3>4. ASSUME Claimable(k), Held(k)
            PROVE  (Claimable(k) \/ result[k] \in Fallbacks)'
        BY <3>1, <3>4, Zenon DEF Held, Claimable
      <3>5. Claimable(k) => ~Record(k) /\ ~CIMove(k) /\ ~ReportMove(k) /\ ~Rebound(k)
        BY <3>1, Zenon DEF Record, CIMove, ReportMove, Rebound, Claimable, LaunchStates
      <3> QED
        BY <2>1, <3>2, <3>3, <3>4, <3>5, Zenon DEF QueueMove
    <2>3. CASE Active(k) /\ UNCHANGED <<job, result>>
      BY <2>1, <2>3, Zenon DEF QueueInv, ActiveIsQueued, Claimable
    <2>4. CASE pc = "launch" /\ cur = k /\ UNCHANGED <<job, result>>
      BY <2>4, Zenon DEF QueueInv, LaunchSteps, Claimable
    <2> QED
      BY <2>2, <2>3, <2>4, Zenon DEF RunMove
  <1>2. ASSUME pc' = "launch", NEW j \in Keys, j # cur', Active(j)'
        PROVE  result'[j] \in Fallbacks
    <2>1. CASE UNCHANGED <<pc, cur>>
      <3>1. Active(j)
        BY <1>2, <2>1, Zenon DEF RunMove, Active
      <3>2. result[j] \in Fallbacks
        BY <1>2, <2>1, <3>1, Zenon DEF QueueInv, OneRunAtATime, Active, Fallbacks
      <3> QED
        BY <3>2, ResultStays, Zenon DEF Fallbacks
    <2>2. ASSUME NEW k \in Keys, Claim(k)
          PROVE  result'[j] \in Fallbacks
      <3>1. /\ cur' = k /\ UNCHANGED <<result, runs>> /\ Head(k) /\ job[k].status \in LaunchStates
        BY <1>2, <2>2, ClaimFacts, Zenon DEF ReportSteps
      <3>2. Active(j) /\ runs[j] # NoRun /\ j # k
        BY <1>2, <3>1 DEF Active, NoRun
      <3>3. j \in Present /\ k \in Present
        BY <3>1, <3>2, Zenon DEF QueueInv, Present, LaunchStates
      <3>4. k \notin job[j].older
        BY <3>1, <3>2, Zenon DEF QueueInv, LaunchOrder
      <3>5. j \in job[k].older
        BY <3>2, <3>3, <3>4, Zenon DEF QueueInv, Comparable
      <3>6. ~Claimable(j)
        BY <3>1, <3>5, Zenon DEF Head
      <3> QED
        BY <3>1, <3>2, <3>6, Zenon DEF QueueInv, ActiveIsQueued
    <2> QED
      BY <1>2, <2>1, <2>2, WorkerMoves, Zenon DEF LaunchSteps
  <1>3. ActiveIsQueued'
    BY <1>1, Zenon DEF ActiveIsQueued
  <1>4. OneRunAtATime'
    BY <1>2, Zenon DEF OneRunAtATime, Active, Fallbacks
  <1> QED
    BY <1>3, <1>4, Zenon

\* The process runs if it ran, or if it has just started.
LEMMA UpMoves ==
    ASSUME Next, up'
    PROVE  up \/ Start
  <1>1. CASE Start \/ Crash \/ OperatorOpensStore \/ Tick \/ NoWork
    BY <1>1, Zenon DEF Crash, OperatorOpensStore, Tick, NoWork, process
  <1>2. CASE Reporting \/ Launching \/ Polling
    BY <1>2, Zenon DEF Reporting, CallComment, MarkReportDelivered, MarkReportFailure, RecordOutcome,
       Launching, CallLaunch, MarkLaunched, MarkLaunchFailure, QueueLaunchFailure, Polling,
       DeferReportPending, PollFails, PollMiscorrelated, PollAnswered, PollUnknown,
       PollMalformedWait, MarkMalformed, MarkStatus, QueuePreOutboxFailure,
       RecordRepositoryRunExternalWait, CallResumeRun, MarkRepositoryRunExternalResumed,
       ResumeFails, ProjectionFails, ProjectTerminalResult, BeginCIWait
  <1>3. ASSUME NEW k \in Keys,
               Clock(k) \/ Broker(k) \/ Fetch(k) \/ Operator(k) \/ Claim(k) \/ CIAction(k)
        PROVE  up
    BY <1>3, Zenon DEF Clock, JobBecomesDue, ReportBecomesDue, WindowCloses, Broker, FinishRun,
       SuspendRun, ContinueRun, Fetch, Record, RecordRepositoryRunExternalWake, Operator,
       ReconcileBlockedReport, ReconcileFailedLaunch, Claim, ClaimReportDue, ClaimLaunch,
       ClaimStatus, CIAction, CIPending, CISucceeds, CICodeFailure, CIEscalates, CIRepairAgain,
       CIRepairDelivered, CIEscalationDelivered, CIEscalationBlocked, CIError, CIStep, process
  <1> QED
    BY <1>1, <1>2, <1>3, Zenon DEF Next, Worker

\* The rows, the runs and the process.
LEMMA RowsStep ==
    ASSUME TypeOK, QueueInv, Next,
           \A k \in Keys : QueueMove(k) /\ RunMove(k)
    PROVE  /\ \A k \in Keys : job'[k].status = "none" => runs'[k] = NoRun
           /\ \A k \in Keys : task'[k] # "none" => runs'[k].st \in BrokerOutcomes
           /\ up' => \A k \in Keys : job'[k].status \notin LegacyStates
  <1>1. ASSUME NEW k \in Keys, job'[k].status = "none"
        PROVE  runs'[k] = NoRun
    <2>1. job[k].status = "none" /\ runs[k] = NoRun
      BY <1>1, StatusMoves, Zenon DEF QueueInv
    <2>2. ~(pc = "launch" /\ cur = k) /\ ~Active(k)
      BY <2>1 DEF QueueInv, LaunchSteps, LaunchStates, NoRun, Active
    <2> QED
      BY <2>1, <2>2, Zenon DEF RunMove
  <1>2. ASSUME NEW k \in Keys, task'[k] # "none"
        PROVE  runs'[k].st \in BrokerOutcomes
    <2>1. CASE task[k] # "none"
      <3>1. runs[k].st \in BrokerOutcomes /\ runs[k].st \notin {"none", "running", "waiting"}
        BY <2>1, Zenon DEF QueueInv, BrokerOutcomes
      <3> QED
        BY <3>1, Zenon DEF RunMove, Active
    <2>2. CASE task[k] = "none"
      <3>1. ~CIAction(k) /\ \A j \in Keys \ {k} : CIAction(j) => task'[k] = task[k]
        BY <2>2 DEF CIAction, CIPending, CISucceeds, CICodeFailure, CIEscalates, CIRepairAgain,
           CIRepairDelivered, CIEscalationDelivered, CIEscalationBlocked, CIError, CIStep, OpenTask,
           TypeOK, TasksOK, durable
      <3>2. BeginCIWait
        BY <1>2, <2>2, <3>1, Writes, Zenon
      <3>3. cur \in Keys /\ runs' = runs /\ runs[cur].st = "ready_for_review"
        BY <3>2, HeldKey, Zenon DEF BeginCIWait, TypeOK
      <3>4. k = cur
        BY <1>2, <2>2, <3>2, <3>3, Zenon DEF BeginCIWait, TypeOK, TasksOK, Abort, durable
      <3> QED
        BY <3>3, <3>4, Zenon DEF BrokerOutcomes
    <2> QED
      BY <2>1, <2>2, Zenon
  <1>3. ASSUME NEW k \in Keys, up'
        PROVE  job'[k].status \notin LegacyStates
    <2>1. CASE Start
      <3>1. job'[k] = NormalisedJob(k)
        BY <2>1, Zenon DEF Start, OpenStore
      <3> QED
        BY <3>1, NormalFacts, Zenon DEF TypeOK
    <2>2. CASE up
      <3>1. job[k].status \notin LegacyStates
        BY <2>2, Zenon DEF QueueInv
      <3> QED
        BY <3>1, StatusMoves, Zenon
    <2> QED
      BY <1>3, <2>1, <2>2, UpMoves, Zenon
  <1> QED
    BY <1>1, <1>2, <1>3, Zenon

\* Every step keeps the queue's invariant.
LEMMA QueueStep ==
    ASSUME TypeOK, TypeOK', ProjectsFinishedRun, EvidenceInv, QueueInv, [Next]_vars
    PROVE  QueueInv'
  <1>1. CASE Next
    <2>1. \A k \in Keys : QueueMove(k) /\ RunMove(k) /\ RowStep(k)
      BY <1>1, QueueMoves, RunMoves, RowSteps, Zenon
    <2>2. OlderKnown' /\ Comparable' /\ LaunchOrder'
      BY <2>1, OrderStep, Zenon
    <2>3. /\ Working' => Tried(cur)' /\ job'[cur'].status \notin {"none"} \cup LegacyStates
          /\ pc' \in LaunchSteps => job'[cur'].status \in LaunchStates
      BY <1>1, <2>1, WorkingStep, Zenon
    <2>4. ActiveIsQueued' /\ OneRunAtATime'
      BY <1>1, <2>1, ActiveStep, Zenon
    <2>5. /\ \A k \in Keys : job'[k].status = "none" => runs'[k] = NoRun
          /\ \A k \in Keys : task'[k] # "none" => runs'[k].st \in BrokerOutcomes
          /\ up' => \A k \in Keys : job'[k].status \notin LegacyStates
      BY <1>1, <2>1, RowsStep, Zenon
    <2> QED
      BY <2>2, <2>3, <2>4, <2>5, Zenon DEF QueueInv
  <1>2. CASE UNCHANGED vars
    BY <1>2 DEF vars, QueueInv, Working, Tried, OlderKnown, Comparable, Present, ActiveIsQueued,
       Active, Claimable, LaunchOrder, OneRunAtATime
  <1> QED
    BY <1>1, <1>2, Zenon

LEMMA QueueInit == Init => QueueInv /\ FinishedIsOld /\ NoSilentTerminal /\ ResumeInv
  <1> SUFFICES ASSUME Init PROVE QueueInv /\ FinishedIsOld /\ NoSilentTerminal /\ ResumeInv
    BY Zenon
  <1>1. ASSUME NEW k \in Keys
        PROVE  /\ job[k].older = {} /\ job[k].status \notin {"stopped", "cancelled"}
               /\ job[k].status \in {"completed", "timed_out"} => job[k].bound
               /\ job[k].status = "none" => ~job[k].bound
    <2>1. CASE job[k] = AbsentJob
      BY <2>1 DEF AbsentJob
    <2>2. ASSUME NEW row \in OldRows, job[k] = Upgraded(row)
          PROVE  /\ job[k].older = {} /\ job[k].status \notin {"none", "stopped", "cancelled"}
                 /\ job[k].status \in {"completed", "timed_out"} => job[k].bound
      <3>1. /\ job[k].older = {} /\ job[k].status = row[1] /\ job[k].bound = row[2]
        BY <2>2, Zenon DEF Upgraded, AbsentJob
      <3> QED
        BY <3>1, ConstantsAssumption, Zenon
    <2> QED
      BY <2>1, <2>2 DEF Init
  <1>2. \A k \in Keys : runs[k].st \in {"none"} \cup Outcomes /\ ~runs[k].resuming
    <2> SUFFICES ASSUME NEW k \in Keys
                 PROVE  runs[k].st \in {"none"} \cup Outcomes /\ ~runs[k].resuming
      BY Zenon
    <2>1. CASE runs[k] = NoRun
      BY <2>1 DEF NoRun
    <2>2. ASSUME NEW o \in Outcomes, runs[k] = [NoRun EXCEPT !.st = o]
          PROVE  runs[k].st = o /\ ~runs[k].resuming
      BY <2>2, Zenon DEF NoRun
    <2> QED
      BY <2>1, <2>2 DEF Init
  <1>3. \A k \in Keys : ~Active(k)
    BY <1>2, ConstantsAssumption, Zenon DEF Active, BrokerOutcomes
  <1>4. \A k \in Keys : job[k].status = "none" => runs[k] = NoRun
    BY <1>1, Zenon DEF Init
  <1>5. Comparable /\ OlderKnown /\ LaunchOrder
    BY <1>1, Zenon DEF Init, Comparable, OlderKnown, LaunchOrder
  <1>6. QueueInv
    BY <1>3, <1>4, <1>5, Zenon DEF Init, QueueInv, Working, LaunchSteps, ActiveIsQueued, OneRunAtATime
  <1>7. FinishedIsOld /\ NoSilentTerminal
    BY <1>1, Zenon DEF Init, FinishedIsOld, NoSilentTerminal
  <1>8. ResumeInv
    BY <1>2, Zenon DEF Init, ResumeInv
  <1> QED
    BY <1>6, <1>7, <1>8, Zenon

-----------------------------------------------------------------------------
(* Jobs shown as finished. *)

LEMMA FinishedStep ==
    ASSUME TypeOK, TypeOK', ProjectsFinishedRun, EvidenceInv, QueueInv,
           FinishedIsOld, NoSilentTerminal, [Next]_vars
    PROVE  FinishedIsOld' /\ NoSilentTerminal'
  <1>1. CASE Next
    <2> SUFFICES ASSUME NEW k \in Keys, result'[k] = "none", task'[k] = "none"
                 PROVE  /\ job'[k].status \notin {"stopped", "cancelled"}
                        /\ job'[k].status \in {"completed", "timed_out"} => job'[k].bound
                        /\ up' /\ job'[k].status \in TerminalStates
                              => job'[k].status = "failed" /\ ~job'[k].bound
      BY Zenon DEF FinishedIsOld, NoSilentTerminal
    <2>1. QueueMove(k) /\ RowStep(k)
      BY <1>1, QueueMoves, RowSteps, Zenon
    <2>2. result[k] = "none" /\ task[k] = "none"
      BY <2>1, ResultStays, Zenon
    <2>3. /\ job[k].status \notin {"stopped", "cancelled"}
          /\ job[k].status \in {"completed", "timed_out"} => job[k].bound
          /\ up /\ job[k].status \in TerminalStates => job[k].status = "failed" /\ ~job[k].bound
      BY <2>2, Zenon DEF FinishedIsOld, NoSilentTerminal
    <2>4. CASE job'[k] = NormalisedJob(k)
      <3> DEFINE n == NormalisedJob(k)
      <3>1. /\ n.bound = job[k].bound
            /\ n.status # job[k].status => (n.status \in TerminalStates => n.status = "failed")
            /\ n.status \in {"completed", "failed", "timed_out"} => ~(n.bound /\ result[k] = "none")
        BY NormalFacts, Zenon DEF TypeOK
      <3>2. job'[k] = n
        BY <2>4, Zenon
      <3> HIDE DEF n
      <3> QED
        BY <2>2, <2>3, <3>1, <3>2, Zenon DEF TerminalStates
    <2>5. CASE Same(k) /\ ~Start
      <3>1. up' => up
        BY <1>1, <2>5, UpMoves, Zenon
      <3> QED
        BY <2>3, <2>5, <3>1, Zenon DEF Same
    <2>6. CASE Record(k) \/ ClaimLaunch(k) \/ Held(k) \/ Rebound(k)
      <3>1. job'[k].status \notin TerminalStates
        <4>1. CASE Record(k)
          BY <4>1, RecordRow, Zenon DEF TerminalStates
        <4>2. CASE ClaimLaunch(k)
          BY <4>2 DEF ClaimLaunch, TypeOK, JobsOK, Jobs, LaunchStates, TerminalStates
        <4>3. CASE Held(k) \/ Rebound(k)
          BY <4>3, Zenon DEF Held, Rebound, TerminalStates
        <4> QED
          BY <2>6, <4>1, <4>2, <4>3, Zenon
      <3> QED
        BY <3>1, Zenon DEF TerminalStates
    <2>7. ~CIMove(k) /\ ~ReportMove(k)
      BY <2>2, Zenon DEF CIMove, ReportMove
    <2>8. Start => job'[k] = NormalisedJob(k)
      BY Zenon DEF Start, OpenStore
    <2> QED
      BY <2>1, <2>4, <2>5, <2>6, <2>7, <2>8, Zenon DEF QueueMove, Normal
  <1>2. CASE UNCHANGED vars
    BY <1>2, Zenon DEF vars, FinishedIsOld, NoSilentTerminal
  <1> QED
    BY <1>1, <1>2, Zenon

-----------------------------------------------------------------------------
(* The waits of the runs. *)

\* What one step may do to the wait of one key.
WaitMove(k) ==
    \/ wait'[k] = wait[k]
    \/ /\ wait[k].st \in {"waiting", "resume_ready"} /\ wait'[k].st = "resume_ready"
       /\ wait'[k].gen = wait[k].gen
    \/ /\ pc \in {"status", "resumed"} /\ wait[k].st = "resume_ready"
       /\ wait'[k].st = "resumed" /\ wait'[k].gen = wait[k].gen
    \/ /\ pc = "status" /\ wait'[k] = [st |-> "waiting", gen |-> runs[k].gen]
       /\ wait[k].st = "none" \/ runs[k].gen # wait[k].gen
       /\ runs[k].gen >= wait[k].gen

LEMMA WaitMoves ==
    ASSUME TypeOK, Next
    PROVE  /\ \A k \in Keys : WaitMove(k)
           /\ wait' = wait \/ runs' = runs
  <1>1. CASE wait' = wait
    BY <1>1, Zenon DEF WaitMove
  <1>2. ASSUME NEW k \in Keys, RecordRepositoryRunExternalWake(k)
        PROVE  runs' = runs /\ \A j \in Keys : WaitMove(j)
    <2>1. wait[k] \in Waits
      BY Zenon DEF TypeOK, WaitsOK
    <2>2. wait'[k].st = "resume_ready" /\ wait'[k].gen = wait[k].gen
      BY <1>2, <2>1, Zenon DEF RecordRepositoryRunExternalWake, TypeOK, WaitsOK, Waits
    <2>3. \A j \in Keys \ {k} : wait'[j] = wait[j]
      BY <1>2, Zenon DEF RecordRepositoryRunExternalWake, TypeOK, WaitsOK
    <2> QED
      BY <1>2, <2>2, <2>3, Zenon DEF RecordRepositoryRunExternalWake, WaitMove
  <1>3. CASE (PollAnswered \/ PollUnknown \/ MarkRepositoryRunExternalResumed) /\ wait' # wait
    <2>1. /\ wait' = [wait EXCEPT ![cur].st = "resumed"] /\ wait[cur].st = "resume_ready"
          /\ pc \in {"status", "resumed"} /\ runs' = runs
      BY <1>3, Zenon DEF PollAnswered, PollUnknown, MarkRepositoryRunExternalResumed,
         ReconcileRepositoryRunExternalResume, Abort, durable
    <2>2. cur \in Keys
      BY <2>1, HeldKey, Zenon DEF TypeOK
    <2>3. wait[cur] \in Waits
      BY <2>2, Zenon DEF TypeOK, WaitsOK
    <2>4. wait'[cur].st = "resumed" /\ wait'[cur].gen = wait[cur].gen
      BY <2>1, <2>2, <2>3, Zenon DEF TypeOK, WaitsOK, Waits
    <2>5. \A j \in Keys \ {cur} : wait'[j] = wait[j]
      BY <2>1, Zenon DEF TypeOK, WaitsOK
    <2> QED
      BY <2>1, <2>2, <2>4, <2>5, Zenon DEF WaitMove
  <1>4. CASE RecordRepositoryRunExternalWait /\ wait' # wait
    <2>1. cur \in Keys /\ pc = "status" /\ runs' = runs
      BY <1>4, HeldKey, Zenon DEF RecordRepositoryRunExternalWait, TypeOK
    <2>2. wait[cur] \in Waits /\ runs[cur] \in Runs
      BY <2>1, Zenon DEF TypeOK, WaitsOK, RunsOK
    <2>3. wait[cur].gen \in Nat /\ runs[cur].gen \in Nat
      BY <2>2, ConstantsAssumption DEF Waits, Runs
    <2> DEFINE row == IF wait[cur].st # "none" /\ wait[cur].gen = runs[cur].gen THEN wait[cur]
                      ELSE [st |-> "waiting", gen |-> runs[cur].gen]
    <2>4. wait' = [wait EXCEPT ![cur] = row] /\ ~(runs[cur].gen < wait[cur].gen)
      BY <1>4, Zenon DEF RecordRepositoryRunExternalWait, Abort, durable
    <2>5. \A j \in Keys \ {cur} : wait'[j] = wait[j]
      BY <2>4, Zenon DEF TypeOK, WaitsOK
    <2>6. wait'[cur] = row
      BY <2>1, <2>4, Zenon DEF TypeOK, WaitsOK
    <2>7. WaitMove(cur)
      BY <2>1, <2>3, <2>4, <2>6 DEF WaitMove
    <2> QED
      BY <2>1, <2>5, <2>7, Zenon DEF WaitMove
  <1> QED
    BY <1>1, <1>2, <1>3, <1>4, Writes, Zenon DEF Waiting

\* Every step keeps what a resume rests on.
LEMMA ResumeStep ==
    ASSUME TypeOK, TypeOK', ResumeInv, [Next]_vars
    PROVE  ResumeInv'
  <1>1. CASE Next
    <2>1. \A k \in Keys : WaitMove(k)
      BY <1>1, WaitMoves, Zenon
    <2>2. ASSUME NEW k \in Keys
          PROVE  wait[k] \in Waits /\ runs[k] \in Runs
      BY Zenon DEF TypeOK, WaitsOK, RunsOK
    <2>3. ASSUME NEW k \in Keys, runs'[k].resuming
          PROVE  /\ runs'[k].st = "waiting" /\ wait'[k].gen = runs'[k].gen
                 /\ wait'[k].st \in {"resume_ready", "resumed"}
      <3>1. CASE runs'[k] = runs[k]
        <4>1. /\ runs[k].st = "waiting" /\ wait[k].gen = runs[k].gen
              /\ wait[k].st \in {"resume_ready", "resumed"}
          BY <2>3, <3>1, Zenon DEF ResumeInv
        <4> QED
          BY <2>1, <3>1, <4>1, Zenon DEF WaitMove
      <3>2. CASE runs'[k] # runs[k]
        <4>1. wait' = wait
          BY <1>1, <3>2, WaitMoves, Zenon
        <4>2. ~CallLaunch
          <5> SUFFICES ASSUME CallLaunch PROVE FALSE
            BY Zenon
          <5>1. cur \in Keys
            BY HeldKey, Zenon DEF CallLaunch, TypeOK
          <5>2. runs' = [runs EXCEPT ![cur].st = IF runs[cur].st = "none" THEN "running"
                                                 ELSE runs[cur].st]
            BY <3>2, Zenon DEF CallLaunch
          <5>3. k = cur
            BY <3>2, <5>2, Zenon DEF TypeOK, RunsOK
          <5>4. runs[k].st = "none" /\ runs'[k].resuming = runs[k].resuming
            BY <2>2, <3>2, <5>1, <5>2, <5>3, Zenon DEF TypeOK, RunsOK, Runs
          <5> QED
            BY <2>3, <5>4, Zenon DEF ResumeInv
        <4>3. ~Broker(k)
          <5>1. FinishRun(k) \/ ContinueRun(k) => ~runs'[k].resuming
            <6>1. ASSUME NEW o, runs' = [runs EXCEPT ![k].st = o, ![k].resuming = FALSE]
                  PROVE  ~runs'[k].resuming
              <7>1. runs'[k] = [runs[k] EXCEPT !.st = o, !.resuming = FALSE]
                BY <6>1, Zenon DEF TypeOK, RunsOK
              <7> QED
                BY <2>2, <7>1, Zenon DEF Runs
            <6> QED
              BY <6>1, Zenon DEF FinishRun, ContinueRun
          <5>2. CASE SuspendRun(k)
            <6>1. runs'[k].resuming = runs[k].resuming /\ runs[k].st = "running"
              BY <2>2, <5>2, Zenon DEF SuspendRun, TypeOK, RunsOK, Runs
            <6> QED
              BY <2>3, <6>1, Zenon DEF ResumeInv
          <5> QED
            BY <2>3, <5>1, <5>2, Zenon DEF Broker
        <4>4. \A j \in Keys \ {k} : ~Broker(j)
          BY <3>2, Zenon DEF Broker, FinishRun, SuspendRun, ContinueRun, TypeOK, RunsOK
        <4>5. CallResumeRun /\ runs' # runs
          BY <1>1, <3>2, <4>2, <4>3, <4>4, Writes, Zenon
        <4>6. cur \in Keys /\ pc = "resume"
          BY <4>5, HeldKey, Zenon DEF CallResumeRun, TypeOK
        <4>7. runs' = [runs EXCEPT ![cur].resuming =
                          @ \/ (runs[cur].st = "waiting" /\ runs[cur].gen = wait[cur].gen)]
          BY <4>5, Zenon DEF CallResumeRun
        <4>8. k = cur
          BY <3>2, <4>7, Zenon DEF TypeOK, RunsOK
        <4>9. /\ runs'[k].st = runs[k].st /\ runs'[k].gen = runs[k].gen
              /\ runs'[k].resuming = (runs[k].resuming \/
                     (runs[k].st = "waiting" /\ runs[k].gen = wait[k].gen))
          BY <2>2, <4>6, <4>7, <4>8, Zenon DEF TypeOK, RunsOK, Runs
        <4>10. wait[k].st = "resume_ready"
          BY <4>6, <4>8, Zenon DEF ResumeInv
        <4> QED
          BY <2>3, <4>1, <4>9, <4>10, Zenon DEF ResumeInv
      <3> QED
        BY <3>1, <3>2, Zenon
    <2>4. ASSUME pc' = "resume"
          PROVE  wait'[cur'].st = "resume_ready"
      <3>1. CASE UNCHANGED <<pc, cur>>
        <4>1. cur \in Keys
          BY <2>4, <3>1, HeldKey, Zenon DEF TypeOK
        <4>2. WaitMove(cur) /\ wait[cur].st = "resume_ready"
          BY <2>1, <2>4, <3>1, <4>1, Zenon DEF ResumeInv
        <4> QED
          BY <2>4, <3>1, <4>2, Zenon DEF WaitMove
      <3>2. ~\E k \in Keys : Claim(k)
        BY <2>4, Zenon DEF Claim, ClaimReportDue, ClaimLaunch, ClaimStatus, Hold
      <3>3. CASE Advancing /\ cur' = cur
        <4>1. RecordRepositoryRunExternalWait
          BY <2>4, <3>3, Zenon DEF Advancing, CallComment, CallLaunch, CallResumeRun, PollFails,
             MarkMalformed, ProjectionFails, PollAnswered, PollUnknown, PollMalformedWait,
             MarkPreOutboxFailure, DeferRepositoryRunExternalResume,
             ReconcileRepositoryRunExternalResume, Goto, Continue, Abort, Release
        <4>2. cur \in Keys
          BY <4>1, HeldKey, Zenon DEF RecordRepositoryRunExternalWait, TypeOK
        <4> DEFINE row == IF wait[cur].st # "none" /\ wait[cur].gen = runs[cur].gen THEN wait[cur]
                          ELSE [st |-> "waiting", gen |-> runs[cur].gen]
        <4>3. wait' = [wait EXCEPT ![cur] = row] /\ row.st = "resume_ready"
          BY <2>4, <4>1, Zenon DEF RecordRepositoryRunExternalWait, Continue, Abort, Release
        <4> HIDE DEF row
        <4> QED
          BY <3>3, <4>2, <4>3, Zenon DEF TypeOK, WaitsOK
      <3> QED
        BY <1>1, <2>4, <3>1, <3>2, <3>3, Control, Zenon
    <2> QED
      BY <2>3, <2>4, Zenon DEF ResumeInv
  <1>2. CASE UNCHANGED vars
    BY <1>2, Zenon DEF vars, ResumeInv
  <1> QED
    BY <1>1, <1>2, Zenon

-----------------------------------------------------------------------------
(* The theorems. *)

\* Used by the theorems below.
LEMMA QueueInvariant == Spec => []QueueInv
  <1>1. TypeOK /\ TypeOK' /\ ProjectsFinishedRun /\ EvidenceInv /\ QueueInv /\ [Next]_vars
           => QueueInv'
    BY QueueStep, Zenon
  <1> QED
    BY <1>1, QueueInit, TypeInvariant, EvidenceInvariant, PTL DEF Spec

\* ClaimDue launches jobs in the order in which they were recorded: while an
\* older job waits for its launch a younger one has not been attempted.
THEOREM LaunchOrderHolds == Spec => []LaunchOrder
  <1>1. QueueInv => LaunchOrder
    BY Zenon DEF QueueInv
  <1> QED
    BY <1>1, QueueInvariant, PTL

\* When the worker calls the broker's launch, every run still at work for
\* another job is one the dispatcher has given up with a fallback result.
THEOREM OneRunAtATimeHolds == Spec => []OneRunAtATime
  <1>1. QueueInv => OneRunAtATime
    BY Zenon DEF QueueInv
  <1> QED
    BY <1>1, QueueInvariant, PTL

\* A running dispatcher shows no job as finished without a terminal result,
\* except an old launch that never had a run, or a CI lifecycle that ended:
\* what OpenStore rewrites on every start leaves no other.
THEOREM NoSilentTerminalHolds == Spec => []NoSilentTerminal
  <1>1. TypeOK /\ TypeOK' /\ ProjectsFinishedRun /\ EvidenceInv /\ QueueInv
        /\ (FinishedIsOld /\ NoSilentTerminal) /\ [Next]_vars
           => (FinishedIsOld /\ NoSilentTerminal)'
    BY FinishedStep, Zenon
  <1> QED
    BY <1>1, QueueInit, TypeInvariant, EvidenceInvariant, QueueInvariant, PTL DEF Spec

\* ResumeRun is accepted only under the generation whose wake was recorded.
THEOREM ResumeNeedsWakeHolds == Spec => []ResumeNeedsWake
  <1>1. TypeOK /\ TypeOK' /\ ResumeInv /\ [Next]_vars => ResumeInv'
    BY ResumeStep, Zenon
  <1>2. ResumeInv => ResumeNeedsWake
    BY Zenon DEF ResumeInv, ResumeNeedsWake
  <1> QED
    BY <1>1, <1>2, QueueInit, TypeInvariant, PTL DEF Spec

\* A recorded wake is used up by a resume or made obsolete by a later
\* generation; replaying RecordRepositoryRunExternalWait does not erase it.
THEOREM WakeKeptHolds == Spec => WakeKept
  <1> DEFINE Kept(k) == wait[k].st = "resume_ready" =>
                \/ wait'[k].st \in {"resume_ready", "resumed"} /\ wait'[k].gen = wait[k].gen
                \/ wait'[k].gen > wait[k].gen
  <1>1. ASSUME TypeOK, [Next]_vars
        PROVE  [\A k \in Keys : Kept(k)]_vars
    <2>1. CASE Next
      <3>1. ASSUME NEW k \in Keys
            PROVE  Kept(k)
        <4>1. wait[k].gen \in Nat /\ runs[k].gen \in Nat
          <5>1. wait[k] \in Waits /\ runs[k] \in Runs
            BY <1>1, Zenon DEF TypeOK, WaitsOK, RunsOK
          <5> QED
            BY <5>1, ConstantsAssumption DEF Waits, Runs
        <4>2. WaitMove(k)
          BY <2>1, <1>1, WaitMoves, Zenon
        <4> QED
          BY <4>1, <4>2 DEF WaitMove
      <3> QED
        BY <3>1, Zenon
    <2> QED
      BY <1>1, <2>1, Zenon
  <1> QED
    BY <1>1, TypeInvariant, PTL DEF Spec, WakeKept
=============================================================================
