-------------------------- MODULE DispatcherProofs --------------------------
(* Theorems about Dispatcher, for any set of keys and any bounds. *)
EXTENDS Dispatcher, TLAPS

-----------------------------------------------------------------------------
(* Vocabulary facts, so that the large enumerations stay folded. *)

\* The statuses the code writes are statuses.
LEMMA StatusFacts ==
    /\ \A s \in {"none", "pending_launch", "launch_retry", "launched",
                 "external_waiting", "report_pending", "report_retry",
                 "report_blocked", "ci_waiting", "ci_repair", "ci_escalation",
                 "completed", "failed", "timed_out", "stopped", "cancelled"} :
          s \in Statuses
    /\ \A s \in {"pending", "retry", "running", "succeeded", "terminal"} : s \in Statuses
  BY Zenon DEF Statuses, LifecycleStates, LegacyStates, LaunchStates, TerminalStates, CIStates

\* A delivered report closes the job with a terminal status.
LEMMA TerminalStatusFact ==
    ASSUME NEW r \in {"none"} \cup Results
    PROVE  TerminalStatus(r) \in TerminalStates
  BY Zenon DEF TerminalStatus, Results, BrokerOutcomes, TerminalStates

\* Terminal statuses are statuses.
LEMMA TerminalStatusesFact == TerminalStates \subseteq Statuses
  BY Zenon DEF Statuses, LifecycleStates

\* Counters stay within their limit.
LEMMA BumpFact ==
    ASSUME NEW limit \in Nat, NEW n \in 0..limit
    PROVE  Bump(n, limit) \in 0..limit
  BY DEF Bump

\* The worker holds a key whenever it is inside a pass.
LEMMA HeldKey ==
    ASSUME WorkerOK, pc \notin {"asleep", "idle"}
    PROVE  cur \in Keys
  BY Zenon DEF WorkerOK

-----------------------------------------------------------------------------
(* Type correctness: the transactions on the jobs table. *)

\* The row that record inserts is a job.
LEMMA NewJob ==
    ASSUME NEW S \in SUBSET Keys, NEW due \in BOOLEAN
    PROVE  [AbsentJob EXCEPT !.status = "pending_launch", !.older = S, !.due = due] \in Jobs
  <1>1. AbsentJob \in Jobs
    BY StatusFacts, ConstantsAssumption DEF AbsentJob, Jobs
  <1> QED
    BY <1>1, StatusFacts, Zenon DEF Jobs

\* The row that reconcile-failed-launch writes is a job.
LEMMA BoundJob ==
    ASSUME NEW r \in Jobs
    PROVE  [r EXCEPT !.status = "launched", !.bound = TRUE, !.due = FALSE] \in Jobs
  BY StatusFacts, Zenon DEF Jobs

\* The row OpenStore writes is a job.
LEMMA NormaliseJobs ==
    ASSUME JobsOK
    PROVE  \A k \in Keys : NormalisedJob(k) \in Jobs
  <1> TAKE k \in Keys
  <1>1. job[k] \in Jobs /\ job[k].status \in Statuses
    BY Zenon DEF JobsOK, Jobs
  <1>2. Migrated(job[k].status, job[k].bound) \in Statuses
    BY <1>1, StatusFacts, Zenon DEF Migrated
  <1> QED
    BY <1>1, <1>2, StatusFacts, Zenon DEF NormalisedJob, Jobs

\* OpenStore keeps the jobs table well typed.
LEMMA OpenStoreJobs ==
    ASSUME JobsOK, OpenStore
    PROVE  JobsOK'
  BY NormaliseJobs, Zenon DEF OpenStore, JobsOK

\* MarkReportDelivered and MarkReportFailure keep the jobs table well typed.
LEMMA RecordOutcomeJobs ==
    ASSUME JobsOK, cur \in Keys, NEW st, NEW status \in Statuses, NEW due,
           NEW jobDue \in BOOLEAN, RecordOutcome(st, status, due, jobDue)
    PROVE  JobsOK'
  BY DEF JobsOK, Jobs, RecordOutcome, Abort, durable

\* QueueTerminalResult keeps the jobs table well typed.
LEMMA QueueJobs ==
    ASSUME JobsOK, NEW k \in Keys, NEW r, QueueTerminalResult(k, r)
    PROVE  JobsOK'
  BY StatusFacts, ConstantsAssumption DEF JobsOK, Jobs, QueueTerminalResult, Abort, durable

\* MarkPreOutboxFailure keeps the jobs table well typed: the counter is capped.
LEMMA PreOutboxJobs ==
    ASSUME JobsOK, cur \in Keys, NEW s \in Statuses, NEW retryable \in BOOLEAN,
           MarkPreOutboxFailure(s, retryable)
    PROVE  JobsOK'
  <1>1. Bump(job[cur].pre, PreOutboxMaxAttempts) \in 0..PreOutboxMaxAttempts
    BY BumpFact, ConstantsAssumption, Zenon DEF JobsOK, Jobs
  <1>2. \/ job' = job
        \/ job' = [job EXCEPT ![cur].status = s, ![cur].due = FALSE,
                       ![cur].pre = Bump(job[cur].pre, PreOutboxMaxAttempts)]
    BY DEF MarkPreOutboxFailure, Abort, durable
  <1> QED
    BY <1>1, <1>2 DEF JobsOK, Jobs

\* DeferRepositoryRunExternalResume keeps the jobs table well typed.
LEMMA DeferResumeJobs ==
    ASSUME JobsOK, cur \in Keys, DeferRepositoryRunExternalResume
    PROVE  JobsOK'
  <1>1. Bump(job[cur].pre, PreOutboxMaxAttempts) \in 0..PreOutboxMaxAttempts
    BY BumpFact, ConstantsAssumption, Zenon DEF JobsOK, Jobs
  <1>2. CASE job' = job
    BY <1>2, Zenon DEF JobsOK
  <1>3. CASE job' = [job EXCEPT ![cur].due = FALSE,
                         ![cur].pre = Bump(job[cur].pre, PreOutboxMaxAttempts)]
    <2> DEFINE n == Bump(job[cur].pre, PreOutboxMaxAttempts)
               row == [job[cur] EXCEPT !.due = FALSE, !.pre = n]
    <2>1. job[cur] \in Jobs /\ job \in [Keys -> Jobs]
      BY Zenon DEF JobsOK
    <2>2. job' = [job EXCEPT ![cur] = row]
      BY <1>3, <2>1, Zenon
    <2>3. n \in 0..PreOutboxMaxAttempts
      BY <1>1, Zenon
    <2> HIDE DEF n
    <2>4. row \in Jobs
      BY <2>1, <2>3, Zenon DEF Jobs
    <2> QED
      BY <2>1, <2>2, <2>4, Zenon DEF JobsOK
  <1> QED
    BY <1>2, <1>3, Zenon DEF DeferRepositoryRunExternalResume, Abort, durable

\* ReconcileRepositoryRunExternalResume keeps the jobs table well typed.
LEMMA ReconcileResumeJobs ==
    ASSUME JobsOK, cur \in Keys, NEW step, ReconcileRepositoryRunExternalResume(step)
    PROVE  JobsOK'
  BY StatusFacts, ConstantsAssumption
     DEF JobsOK, Jobs, ReconcileRepositoryRunExternalResume, Abort, durable

\* Steps that write no table.
QuietKey(k) ==
    \/ ReportBecomesDue(k) \/ Broker(k) \/ ClaimReportDue(k) \/ ClaimStatus(k) \/ CIError(k)
Quiet ==
    \/ Crash \/ Tick \/ NoWork \/ CallComment \/ CallLaunch \/ CallResumeRun
    \/ PollMiscorrelated \/ PollMalformedWait

\* Every step keeps the jobs table well typed.
LEMMA JobsStep ==
    ASSUME JobsOK, ResultsOK, WorkerOK, Next
    PROVE  JobsOK'
  <1>1. CASE Quiet \/ \E k \in Keys : QuietKey(k)
    <2>1. job' = job
      BY <1>1, Zenon DEF Quiet, QuietKey, ReportBecomesDue, Broker, FinishRun, SuspendRun,
         ContinueRun, ClaimReportDue, ClaimStatus, CIError, Crash, Tick, NoWork,
         CallComment, CallLaunch, CallResumeRun, PollMiscorrelated,
         PollMalformedWait, Abort, durable
    <2> QED
      BY <2>1, Zenon DEF JobsOK
  <1>2. CASE Start \/ OperatorOpensStore
    BY <1>2, OpenStoreJobs, Zenon DEF Start, OperatorOpensStore
  <1>3. ASSUME NEW k \in Keys, JobBecomesDue(k) \/ WindowCloses(k)
        PROVE  JobsOK'
    <2>1. CASE JobBecomesDue(k)
      <3>1. job[k] \in Jobs /\ job \in [Keys -> Jobs]
        BY Zenon DEF JobsOK
      <3>2. [job[k] EXCEPT !.due = TRUE] \in Jobs
        BY <3>1, Zenon DEF Jobs
      <3>3. job' = [job EXCEPT ![k] = [job[k] EXCEPT !.due = TRUE]]
        BY <2>1, <3>1, Zenon DEF JobBecomesDue
      <3> QED
        BY <3>1, <3>2, <3>3, Zenon DEF JobsOK
    <2>2. CASE WindowCloses(k)
      <3>1. job[k] \in Jobs /\ job \in [Keys -> Jobs]
        BY Zenon DEF JobsOK
      <3>2. [job[k] EXCEPT !.closed = TRUE, !.due = TRUE] \in Jobs
        BY <3>1, Zenon DEF Jobs
      <3>3. job' = [job EXCEPT ![k] = [job[k] EXCEPT !.closed = TRUE, !.due = TRUE]]
        BY <2>2, <3>1, Zenon DEF WindowCloses
      <3> QED
        BY <3>1, <3>2, <3>3, Zenon DEF JobsOK
    <2> QED
      BY <1>3, <2>1, <2>2, Zenon
  <1>4. ASSUME NEW k \in Keys, Fetch(k)
        PROVE  JobsOK'
    <2>1. CASE Record(k)
      <3>1. PICK due \in BOOLEAN :
              job' = [job EXCEPT ![k] = [AbsentJob EXCEPT !.status = "pending_launch",
                                                          !.older = Present, !.due = due]]
        BY <2>1, Zenon DEF Record
      <3>2. Present \in SUBSET Keys
        BY Zenon DEF Present
      <3> QED
        BY <3>1, <3>2, NewJob, Zenon DEF JobsOK
    <2>2. CASE RecordRepositoryRunExternalWake(k)
      BY <2>2 DEF RecordRepositoryRunExternalWake, JobsOK, Jobs
    <2> QED
      BY <1>4, <2>1, <2>2, Zenon DEF Fetch
  <1>5. ASSUME NEW k \in Keys, Operator(k)
        PROVE  JobsOK'
    <2>1. CASE ReconcileBlockedReport(k)
      BY <2>1, NormaliseJobs, StatusFacts DEF ReconcileBlockedReport, JobsOK, Jobs
    <2>2. CASE ReconcileFailedLaunch(k)
      <3>1. [job[k] EXCEPT !.status = "launched", !.bound = TRUE, !.due = FALSE] \in Jobs
        BY BoundJob, Zenon DEF JobsOK
      <3> QED
        BY <2>2, <3>1, NormaliseJobs, Zenon DEF ReconcileFailedLaunch, JobsOK
    <2> QED
      BY <1>5, <2>1, <2>2 DEF Operator
  <1>6. ASSUME NEW k \in Keys, ClaimLaunch(k)
        PROVE  JobsOK'
    BY <1>6 DEF ClaimLaunch, JobsOK, Jobs
  <1>7. ASSUME NEW k \in Keys, CIAction(k), ~CIError(k)
        PROVE  JobsOK'
    <2>1. ASSUME NEW from, NEW to, NEW s \in Statuses, CIStep(k, from, to, s)
          PROVE  JobsOK'
      BY <2>1 DEF CIStep, JobsOK, Jobs
    <2> QED
      BY <1>7, <2>1, StatusFacts, Zenon DEF CIAction, CIPending, CISucceeds, CICodeFailure,
         CIEscalates, CIRepairAgain, CIRepairDelivered, CIEscalationDelivered,
         CIEscalationBlocked
  <1>8. CASE MarkReportDelivered \/ MarkReportFailure
    <2>1. cur \in Keys /\ job[cur].due \in BOOLEAN
      BY <1>8, HeldKey, Zenon DEF MarkReportDelivered, MarkReportFailure, JobsOK, Jobs
    <2>2. TerminalStatus(result[cur]) \in Statuses
      BY <2>1, TerminalStatusFact, TerminalStatusesFact, Zenon DEF ResultsOK
    <2> QED
      BY <1>8, <2>1, <2>2, RecordOutcomeJobs, StatusFacts, Zenon
         DEF MarkReportDelivered, MarkReportFailure
  <1>9. CASE QueueLaunchFailure \/ QueuePreOutboxFailure \/ ProjectTerminalResult
    BY <1>9, HeldKey, QueueJobs, Zenon
       DEF QueueLaunchFailure, QueuePreOutboxFailure, ProjectTerminalResult
  <1>10. CASE MarkLaunched \/ MarkLaunchFailure \/ MarkStatus \/ DeferReportPending
    <2>1. cur \in Keys
      BY <1>10, HeldKey, Zenon DEF MarkLaunched, MarkLaunchFailure, MarkStatus, DeferReportPending
    <2>2. CASE MarkLaunched
      BY <2>1, <2>2, StatusFacts DEF MarkLaunched, Abort, durable, JobsOK, Jobs
    <2>3. CASE MarkLaunchFailure
      BY <2>1, <2>3, StatusFacts DEF MarkLaunchFailure, Abort, durable, JobsOK, Jobs
    <2>4. CASE MarkStatus
      BY <2>1, <2>4, StatusFacts, ConstantsAssumption
         DEF MarkStatus, Abort, durable, JobsOK, Jobs
    <2>5. CASE DeferReportPending
      <3>1. CASE job' = job
        BY <3>1, Zenon DEF JobsOK
      <3>2. CASE job' = [job EXCEPT ![cur].due = FALSE]
        BY <2>1, <3>2 DEF JobsOK, Jobs
      <3> QED
        BY <2>5, <3>1, <3>2, Zenon DEF DeferReportPending, Abort, durable
    <2> QED
      BY <1>10, <2>2, <2>3, <2>4, <2>5, Zenon
  <1>11. CASE PollFails \/ MarkMalformed \/ ProjectionFails \/ ResumeFails
    <2>1. cur \in Keys
      BY <1>11, HeldKey, Zenon DEF PollFails, MarkMalformed, ProjectionFails, ResumeFails
    <2> QED
      BY <1>11, <2>1, PreOutboxJobs, DeferResumeJobs, StatusFacts, Zenon
         DEF PollFails, MarkMalformed, ProjectionFails, ResumeFails
  <1>12. CASE PollAnswered \/ PollUnknown
    BY <1>12, HeldKey, ReconcileResumeJobs, Zenon DEF PollAnswered, PollUnknown
  <1>13. CASE RecordRepositoryRunExternalWait
    BY <1>13, HeldKey, StatusFacts DEF RecordRepositoryRunExternalWait, Abort, durable,
       JobsOK, Jobs
  <1>14. CASE MarkRepositoryRunExternalResumed
    BY <1>14, HeldKey, StatusFacts, ConstantsAssumption
       DEF MarkRepositoryRunExternalResumed, Abort, durable, JobsOK, Jobs
  <1>15. CASE BeginCIWait
    BY <1>15, HeldKey, StatusFacts DEF BeginCIWait, Abort, durable, JobsOK, Jobs
  <1> QED
    BY <1>1, <1>2, <1>3, <1>4, <1>5, <1>6, <1>7, <1>8, <1>9, <1>10, <1>11, <1>12,
       <1>13, <1>14, <1>15, Zenon
       DEF Next, Worker, Reporting, Launching, Polling, Clock, Claim, Quiet, QuietKey

-----------------------------------------------------------------------------
(* Type correctness: the other tables, the broker and the reporter.  For   *)
(* each, a lemma names the few steps that write it.                        *)

\* The steps that write the outbox, or the result with it, beside the clock.
Queueing == QueueLaunchFailure \/ QueuePreOutboxFailure \/ ProjectTerminalResult
Marking == MarkReportDelivered \/ MarkReportFailure

\* The steps that write the external waits.
Waiting ==
    \/ \E k \in Keys : RecordRepositoryRunExternalWake(k)
    \/ PollAnswered \/ PollUnknown \/ RecordRepositoryRunExternalWait
    \/ MarkRepositoryRunExternalResumed

\* Which step writes which table.
LEMMA Writes ==
    ASSUME Next
    PROVE  /\ result' = result \/ Queueing
           /\ \/ outbox' = outbox \/ Queueing \/ Marking
              \/ \E k \in Keys : ReportBecomesDue(k) \/ ReconcileBlockedReport(k)
           /\ wait' = wait \/ Waiting
           /\ task' = task \/ BeginCIWait \/ \E k \in Keys : CIAction(k)
           /\ runs' = runs \/ CallLaunch \/ CallResumeRun \/ \E k \in Keys : Broker(k)
           /\ comment' = comment \/ CallComment
  <1>1. CASE Start \/ Crash \/ OperatorOpensStore \/ Tick \/ NoWork
    BY <1>1, Zenon DEF Start, Crash, OperatorOpensStore, Tick, NoWork, durable
  <1>2. CASE Reporting
    BY <1>2, Zenon DEF Reporting, Marking, CallComment, MarkReportDelivered, MarkReportFailure,
       RecordOutcome, Abort, durable
  <1>3. CASE Launching
    BY <1>3, Zenon DEF Launching, Queueing, CallLaunch, MarkLaunched, MarkLaunchFailure,
       QueueLaunchFailure, QueueTerminalResult, Abort, durable
  <1>4. CASE QueuePreOutboxFailure \/ ProjectTerminalResult
    BY <1>4, Zenon DEF Queueing, QueuePreOutboxFailure, ProjectTerminalResult,
       QueueTerminalResult, Abort, durable
  <1>5. CASE DeferReportPending \/ PollFails \/ PollMiscorrelated \/ PollMalformedWait
             \/ MarkMalformed \/ MarkStatus \/ CallResumeRun \/ ResumeFails
             \/ ProjectionFails \/ BeginCIWait
    BY <1>5, Zenon DEF DeferReportPending, PollFails, PollMiscorrelated, PollMalformedWait,
       MarkMalformed, MarkStatus, CallResumeRun, ResumeFails, ProjectionFails,
       BeginCIWait, DeferRepositoryRunExternalResume, MarkPreOutboxFailure, Abort, durable
  <1>6. CASE Waiting
    <2>1. UNCHANGED <<result, outbox, task, runs, comment>>
      BY <1>6, Zenon DEF Waiting, RecordRepositoryRunExternalWake, PollAnswered, PollUnknown,
         RecordRepositoryRunExternalWait, MarkRepositoryRunExternalResumed,
         ReconcileRepositoryRunExternalResume, Abort, durable
    <2> QED
      BY <1>6, <2>1, Zenon
  <1>7. ASSUME NEW k \in Keys,
               Clock(k) \/ Record(k) \/ Operator(k) \/ Claim(k)
        PROVE  /\ outbox' = outbox \/ ReportBecomesDue(k) \/ ReconcileBlockedReport(k)
               /\ UNCHANGED <<result, wait, task, runs, comment>>
    BY <1>7, Zenon DEF Clock, JobBecomesDue, ReportBecomesDue, WindowCloses, Record, Operator,
       ReconcileBlockedReport, ReconcileFailedLaunch, Claim, ClaimReportDue, ClaimLaunch,
       ClaimStatus, durable
  <1>8. ASSUME NEW k \in Keys, Broker(k)
        PROVE  UNCHANGED <<result, outbox, wait, task, comment>>
    BY <1>8, Zenon DEF Broker, FinishRun, SuspendRun, ContinueRun, durable
  <1>9. ASSUME NEW k \in Keys, CIAction(k)
        PROVE  UNCHANGED <<result, outbox, wait, runs, comment>>
    BY <1>9, Zenon DEF CIAction, CIPending, CISucceeds, CICodeFailure, CIEscalates,
       CIRepairAgain, CIRepairDelivered, CIEscalationDelivered, CIEscalationBlocked,
       CIStep, CIError, durable
  <1>10. CASE Start \/ Crash \/ OperatorOpensStore \/ Worker
    BY <1>1, <1>2, <1>3, <1>4, <1>5, <1>6, <1>10, Zenon DEF Worker, Polling, Waiting
  <1>11. CASE \E k \in Keys : Clock(k) \/ Broker(k) \/ Fetch(k) \/ Operator(k)
                               \/ Claim(k) \/ CIAction(k)
    BY <1>6, <1>7, <1>8, <1>9, <1>11, Zenon DEF Fetch, Waiting
  <1> QED
    BY <1>10, <1>11, Zenon DEF Next

\* A run whose projection is being fetched has an outcome, which is what makes
\* the row written from it a result.
ProjectsFinishedRun == pc = "project" => runs[cur].st \in BrokerOutcomes

\* The state QueueTerminalResult is called in.
LEMMA QueueingFact ==
    ASSUME Queueing, WorkerOK, ProjectsFinishedRun
    PROVE  cur \in Keys /\ \E r \in Results : QueueTerminalResult(cur, r)
  BY HeldKey, Zenon DEF Queueing, QueueLaunchFailure, QueuePreOutboxFailure,
     ProjectTerminalResult, ProjectsFinishedRun, Results

\* Every step keeps terminal_results well typed.
LEMMA ResultsStep ==
    ASSUME ResultsOK, WorkerOK, ProjectsFinishedRun, Next
    PROVE  ResultsOK'
  <1>1. CASE Queueing
    <2>1. PICK r \in Results : QueueTerminalResult(cur, r)
      BY <1>1, QueueingFact, Zenon
    <2> QED
      BY <2>1, Zenon DEF QueueTerminalResult, Abort, durable, ResultsOK
  <1> QED
    BY <1>1, Writes, Zenon DEF ResultsOK

\* Updates of an outbox row.
LEMMA ReportUpdates ==
    ASSUME NEW r \in Reports, NEW st \in {"retry", "blocked", "delivered"},
           NEW due \in BOOLEAN, NEW n \in 0..ReportRetryMaxAttempts
    PROVE  [r EXCEPT !.st = st, !.due = due, !.attempts = n] \in Reports
  BY Zenon DEF Reports

\* A report that becomes due is a report.
LEMMA DueReport ==
    ASSUME NEW r \in Reports
    PROVE  [r EXCEPT !.due = TRUE] \in Reports
  BY Zenon DEF Reports

\* Recording an outcome keeps the outbox well typed.
LEMMA RecordOutcomeOutbox ==
    ASSUME OutboxOK, cur \in Keys, NEW st \in {"retry", "blocked", "delivered"}, NEW status,
           NEW due \in BOOLEAN, NEW jobDue, RecordOutcome(st, status, due, jobDue)
    PROVE  OutboxOK'
  <1>1. Bump(outbox[cur].attempts, ReportRetryMaxAttempts) \in 0..ReportRetryMaxAttempts
    BY BumpFact, ConstantsAssumption, Zenon DEF OutboxOK, Reports
  <1>2. CASE outbox' = outbox
    BY <1>2, Zenon DEF OutboxOK
  <1>3. ASSUME NEW n \in 0..ReportRetryMaxAttempts,
               outbox' = [outbox EXCEPT ![cur].st = st, ![cur].due = due,
                                        ![cur].attempts = n]
        PROVE  OutboxOK'
    <2>1. [outbox[cur] EXCEPT !.st = st, !.due = due, !.attempts = n] \in Reports
      BY ReportUpdates, Zenon DEF OutboxOK
    <2> QED
      BY <1>3, <2>1, Zenon DEF OutboxOK
  <1> QED
    BY <1>1, <1>2, <1>3, Zenon DEF RecordOutcome, Abort, durable

\* Every step keeps the outbox well typed.
LEMMA OutboxStep ==
    ASSUME OutboxOK, WorkerOK, ProjectsFinishedRun, Next
    PROVE  OutboxOK'
  <1>1. CASE Queueing
    <2>1. PICK r \in Results : QueueTerminalResult(cur, r)
      BY <1>1, QueueingFact
    <2>2. [st |-> "pending", attempts |-> 0, due |-> TRUE, ahead |-> Reported] \in Reports
      BY ConstantsAssumption DEF Reports, Reported
    <2>3. \/ outbox' = outbox
          \/ outbox' = [outbox EXCEPT ![cur] =
                [st |-> "pending", attempts |-> 0, due |-> TRUE, ahead |-> Reported]]
      BY <2>1, Zenon DEF QueueTerminalResult, Abort, durable
    <2> QED
      BY <2>2, <2>3, Zenon DEF OutboxOK
  <1>2. CASE Marking
    <2>1. cur \in Keys
      BY <1>2, HeldKey, Zenon DEF Marking, MarkReportDelivered, MarkReportFailure
    <2> QED
      BY <1>2, <2>1, RecordOutcomeOutbox, Zenon DEF Marking, MarkReportDelivered, MarkReportFailure
  <1>3. ASSUME NEW k \in Keys, ReportBecomesDue(k)
        PROVE  OutboxOK'
    <2>1. [outbox[k] EXCEPT !.due = TRUE] \in Reports
      BY DueReport, Zenon DEF OutboxOK
    <2> QED
      BY <1>3, <2>1, Zenon DEF ReportBecomesDue, OutboxOK
  <1>4. ASSUME NEW k \in Keys, ReconcileBlockedReport(k)
        PROVE  OutboxOK'
    <2>1. outbox[k] \in Reports /\ outbox \in [Keys -> Reports]
      BY Zenon DEF OutboxOK
    <2>2. [outbox[k] EXCEPT !.st = "retry", !.due = FALSE] \in Reports
      BY <2>1, Zenon DEF Reports
    <2>3. outbox' = [outbox EXCEPT ![k] = [outbox[k] EXCEPT !.st = "retry", !.due = FALSE]]
      BY <1>4, <2>1, Zenon DEF ReconcileBlockedReport
    <2> QED
      BY <2>1, <2>2, <2>3, Zenon DEF OutboxOK
  <1> QED
    BY <1>1, <1>2, <1>3, <1>4, Writes, Zenon DEF OutboxOK

\* Every step keeps the external waits well typed.
LEMMA WaitsStep ==
    ASSUME WaitsOK, RunsOK, WorkerOK, Next
    PROVE  WaitsOK'
  <1>1. ASSUME NEW k \in Keys, RecordRepositoryRunExternalWake(k)
        PROVE  WaitsOK'
    BY <1>1, Zenon DEF RecordRepositoryRunExternalWake, WaitsOK, Waits
  <1>2. CASE PollAnswered \/ PollUnknown \/ MarkRepositoryRunExternalResumed
    <2>1. wait' = wait \/ wait' = [wait EXCEPT ![cur].st = "resumed"]
      BY <1>2, Zenon DEF PollAnswered, PollUnknown, MarkRepositoryRunExternalResumed,
         ReconcileRepositoryRunExternalResume, Abort, durable
    <2> QED
      BY <2>1 DEF WaitsOK, Waits
  <1>3. CASE RecordRepositoryRunExternalWait
    <2>1. cur \in Keys
      BY <1>3, HeldKey, Zenon DEF RecordRepositoryRunExternalWait
    <2>2. /\ wait[cur] \in Waits
          /\ [st |-> "waiting", gen |-> runs[cur].gen] \in Waits
      BY <2>1, Zenon DEF WaitsOK, RunsOK, Waits, Runs
    <2>3. \/ wait' = wait
          \/ wait' = [wait EXCEPT ![cur] = wait[cur]]
          \/ wait' = [wait EXCEPT ![cur] = [st |-> "waiting", gen |-> runs[cur].gen]]
      BY <1>3, Zenon DEF RecordRepositoryRunExternalWait, Abort, durable
    <2> QED
      BY <2>1, <2>2, <2>3, Zenon DEF WaitsOK
  <1> QED
    BY <1>1, <1>2, <1>3, Writes, Zenon DEF WaitsOK, Waiting

\* Every step keeps the CI tasks well typed.
LEMMA TasksStep ==
    ASSUME TasksOK, Next
    PROVE  TasksOK'
  <1>1. CASE BeginCIWait
    BY <1>1, Zenon DEF BeginCIWait, Abort, durable, TasksOK, TaskPhases
  <1>2. ASSUME NEW k \in Keys, CIAction(k)
        PROVE  TasksOK'
    BY <1>2, Zenon DEF CIAction, CIPending, CISucceeds, CICodeFailure, CIEscalates,
       CIRepairAgain, CIRepairDelivered, CIEscalationDelivered, CIEscalationBlocked,
       CIStep, CIError, durable, TasksOK, TaskPhases
  <1> QED
    BY <1>1, <1>2, Writes, Zenon DEF TasksOK

\* Every step keeps the broker's runs well typed.
LEMMA RunsStep ==
    ASSUME RunsOK, WorkerOK, Next
    PROVE  RunsOK'
  <1>1. ASSUME NEW k \in Keys, NEW r \in Runs, runs' = [runs EXCEPT ![k] = r]
        PROVE  RunsOK'
    BY <1>1, Zenon DEF RunsOK
  <1>2. CASE CallLaunch
    <2>1. cur \in Keys
      BY <1>2, HeldKey, Zenon DEF CallLaunch
    <2>2. \/ runs' = runs
          \/ runs' = [runs EXCEPT ![cur] = [runs[cur] EXCEPT !.st = "running"]]
          \/ runs' = [runs EXCEPT ![cur] = [runs[cur] EXCEPT !.st = runs[cur].st]]
      BY <1>2, Zenon DEF CallLaunch
    <2>3. ASSUME NEW r \in Runs
          PROVE  [r EXCEPT !.st = "running"] \in Runs /\ [r EXCEPT !.st = r.st] \in Runs
      BY Zenon DEF Runs, RunStates
    <2> QED
      BY <1>1, <2>1, <2>2, <2>3, Zenon DEF RunsOK
  <1>3. CASE CallResumeRun
    <2>1. cur \in Keys
      BY <1>3, HeldKey, Zenon DEF CallResumeRun
    <2>2. ASSUME NEW r \in Runs, NEW b
          PROVE  [r EXCEPT !.resuming = r.resuming \/ b] \in Runs
      BY Zenon DEF Runs
    <2> QED
      BY <1>1, <1>3, <2>1, <2>2, Zenon DEF CallResumeRun, RunsOK
  <1>4. ASSUME NEW k \in Keys, Broker(k)
        PROVE  RunsOK'
    <2>1. ASSUME NEW r \in Runs, NEW s \in RunStates
          PROVE  [r EXCEPT !.st = s, !.resuming = FALSE] \in Runs
      BY Zenon DEF Runs
    <2>2. ASSUME NEW r \in Runs, r.gen < MaxGeneration
          PROVE  [r EXCEPT !.st = "waiting", !.gen = r.gen + 1] \in Runs
      <3>1. r.gen + 1 \in 0..MaxGeneration
        BY <2>2, ConstantsAssumption DEF Runs
      <3>2. ASSUME NEW g \in 0..MaxGeneration
            PROVE  [r EXCEPT !.st = "waiting", !.gen = g] \in Runs
        BY Zenon DEF Runs, RunStates
      <3> QED
        BY <3>1, <3>2, Zenon
    <2>3. Outcomes \subseteq RunStates /\ "running" \in RunStates
      BY ConstantsAssumption, Zenon DEF RunStates
    <2>4. CASE FinishRun(k) \/ ContinueRun(k)
      <3>1. PICK s \in RunStates :
              runs' = [runs EXCEPT ![k].st = s, ![k].resuming = FALSE]
        BY <2>3, <2>4, Zenon DEF FinishRun, ContinueRun
      <3>2. runs[k] \in Runs
        BY Zenon DEF RunsOK
      <3>3. [runs[k] EXCEPT !.st = s, !.resuming = FALSE] \in Runs
        BY <2>1, <3>2, Zenon
      <3> QED
        BY <3>1, <3>3, Zenon DEF RunsOK
    <2>5. CASE SuspendRun(k)
      <3>1. [runs[k] EXCEPT !.st = "waiting", !.gen = runs[k].gen + 1] \in Runs
        BY <2>2, <2>5, Zenon DEF SuspendRun, RunsOK
      <3> QED
        BY <2>5, <3>1, Zenon DEF SuspendRun, RunsOK
    <2> QED
      BY <1>4, <2>4, <2>5, Zenon DEF Broker
  <1> QED
    BY <1>2, <1>3, <1>4, Writes, Zenon DEF RunsOK

\* Every step keeps the posted comments well typed.
LEMMA CommentsStep ==
    ASSUME CommentsOK, ResultsOK, WorkerOK, Next
    PROVE  CommentsOK'
  <1>1. CASE CallComment
    BY <1>1, HeldKey, Zenon DEF CallComment, CommentsOK, ResultsOK
  <1> QED
    BY <1>1, Writes, Zenon DEF CommentsOK

\* Every step leaves the worker inside a pass with a job, or outside without.
LEMMA WorkerStep ==
    ASSUME JobsOK, WorkerOK, Next
    PROVE  WorkerOK'
  <1> USE ConstantsAssumption
  <1>1. ASSUME NEW step \in WorkerSteps \ {"asleep", "idle"}, NEW k \in Keys, Hold(k, step),
               UNCHANGED <<up, reporter, crashes>>
        PROVE  WorkerOK'
    <2>1. job[k].status \in Statuses
      BY Zenon DEF JobsOK, Jobs
    <2> QED
      BY <1>1, <2>1, Zenon DEF Hold, WorkerOK
  <1>2. ASSUME NEW step \in WorkerSteps \ {"asleep", "idle"}, Goto(step), cur \in Keys,
               UNCHANGED <<up, reporter, crashes>>
        PROVE  WorkerOK'
    BY <1>2, Zenon DEF Goto, WorkerOK
  <1>3. ASSUME NEW step \in {"asleep", "idle"}, Release(step),
               UNCHANGED <<up, reporter, crashes>>
        PROVE  WorkerOK'
    BY <1>3, StatusFacts, Zenon DEF Release, WorkerOK, WorkerSteps
  <1>4. ASSUME UNCHANGED process, UNCHANGED crashes
        PROVE  WorkerOK'
    BY <1>4, Zenon DEF process, WorkerOK
  <1>5. CASE Start \/ Crash
    <2>1. CASE Start
      BY <2>1, Zenon DEF Start, WorkerOK
    <2>2. CASE Crash
      <3>1. crashes' \in 0..MaxCrashes
        BY <2>2 DEF Crash, WorkerOK
      <3> QED
        BY <2>2, <3>1, StatusFacts, Zenon DEF Crash, WorkerOK, WorkerSteps
    <2> QED
      BY <1>5, <2>1, <2>2, Zenon
  <1>6. CASE Tick \/ NoWork \/ \E k \in Keys : CIError(k)
    BY <1>6, Zenon DEF Tick, NoWork, CIError, WorkerOK, WorkerSteps
  <1>7. CASE OperatorOpensStore \/ \E k \in Keys : Clock(k) \/ Broker(k) \/ Fetch(k) \/ Operator(k)
    BY <1>4, <1>7 DEF OperatorOpensStore, Clock, JobBecomesDue, ReportBecomesDue,
       WindowCloses, Broker, FinishRun, SuspendRun, ContinueRun, Fetch, Record,
       RecordRepositoryRunExternalWake, Operator, ReconcileBlockedReport,
       ReconcileFailedLaunch
  <1>8. ASSUME NEW k \in Keys, CIAction(k), ~CIError(k)
        PROVE  WorkerOK'
    <2>1. UNCHANGED <<process, crashes>>
      BY <1>8, Zenon DEF CIAction, CIPending, CISucceeds, CICodeFailure, CIEscalates,
         CIRepairAgain, CIRepairDelivered, CIEscalationDelivered, CIEscalationBlocked, CIStep
    <2> QED
      BY <1>4, <2>1, Zenon
  <1>9. ASSUME NEW k \in Keys, Claim(k)
        PROVE  WorkerOK'
    <2>1. UNCHANGED <<up, reporter, crashes>>
      BY <1>9, Zenon DEF Claim, ClaimReportDue, ClaimLaunch, ClaimStatus
    <2>2. \E step \in {"report", "launch", "launch_failed", "status", "defer"} : Hold(k, step)
      BY <1>9, Zenon DEF Claim, ClaimReportDue, ClaimLaunch, ClaimStatus
    <2> QED
      BY <1>1, <2>1, <2>2, Zenon DEF WorkerSteps
  <1>10. CASE Reporting \/ Launching \/ Polling
    <2>1. cur \in Keys
      BY <1>10, HeldKey, Zenon DEF Reporting, Launching, Polling, CallComment,
         MarkReportDelivered, MarkReportFailure, CallLaunch, MarkLaunched,
         MarkLaunchFailure, QueueLaunchFailure, DeferReportPending, PollFails,
         PollMiscorrelated, PollAnswered, PollUnknown, PollMalformedWait, MarkMalformed,
         MarkStatus, QueuePreOutboxFailure, RecordRepositoryRunExternalWait, CallResumeRun,
         MarkRepositoryRunExternalResumed, ResumeFails, ProjectionFails,
         ProjectTerminalResult, BeginCIWait
    <2>2. CASE Reporting
      BY <1>2, <1>3, <2>1, <2>2, Zenon DEF Reporting, CallComment, MarkReportDelivered,
         MarkReportFailure, RecordOutcome, Continue, Abort, WorkerSteps
    <2>3. CASE Launching
      BY <1>2, <1>3, <2>1, <2>3, Zenon DEF Launching, CallLaunch, MarkLaunched,
         MarkLaunchFailure, QueueLaunchFailure, QueueTerminalResult, Continue, Abort,
         WorkerSteps
    <2>4. CASE Polling
      BY <1>2, <1>3, <2>1, <2>4, Zenon DEF Polling, DeferReportPending, PollFails,
         PollMiscorrelated, PollAnswered, PollUnknown, PollMalformedWait, MarkMalformed,
         MarkStatus, QueuePreOutboxFailure, RecordRepositoryRunExternalWait, CallResumeRun,
         MarkRepositoryRunExternalResumed, ResumeFails, ProjectionFails,
         ProjectTerminalResult, BeginCIWait, QueueTerminalResult, MarkPreOutboxFailure,
         DeferRepositoryRunExternalResume, ReconcileRepositoryRunExternalResume,
         Continue, Abort, WorkerSteps
    <2> QED
      BY <1>10, <2>2, <2>3, <2>4, Zenon
  <1> QED
    BY <1>5, <1>6, <1>7, <1>8, <1>9, <1>10, Zenon DEF Next, Worker

\* The steps that keep the worker inside its pass.
Advancing ==
    \/ CallComment \/ CallLaunch \/ CallResumeRun
    \/ PollFails \/ MarkMalformed \/ ProjectionFails
    \/ PollAnswered \/ PollUnknown \/ PollMalformedWait
    \/ RecordRepositoryRunExternalWait

\* Where the worker may go: nowhere, out of the pass, into a new one, or on.
LEMMA Control ==
    ASSUME Next
    PROVE  \/ UNCHANGED <<pc, cur, seen>>
           \/ pc' \in {"asleep", "idle"}
           \/ \E k \in Keys : Claim(k)
           \/ Advancing /\ UNCHANGED <<cur, seen>>
  <1>1. CASE Start \/ Crash \/ OperatorOpensStore \/ Tick \/ NoWork
    BY <1>1, Zenon DEF Start, Crash, OperatorOpensStore, Tick, NoWork, process
  <1>2. CASE Reporting \/ Launching
    BY <1>2, Zenon DEF Reporting, Launching, Advancing, CallComment, MarkReportDelivered,
       MarkReportFailure, RecordOutcome, CallLaunch, MarkLaunched, MarkLaunchFailure,
       QueueLaunchFailure, QueueTerminalResult, Goto, Continue, Abort, Release
  <1>3. CASE DeferReportPending \/ PollMiscorrelated \/ MarkStatus \/ QueuePreOutboxFailure
             \/ MarkRepositoryRunExternalResumed \/ ResumeFails \/ ProjectTerminalResult
             \/ BeginCIWait
    BY <1>3, Zenon DEF DeferReportPending, PollMiscorrelated, MarkStatus, QueuePreOutboxFailure,
       MarkRepositoryRunExternalResumed, ResumeFails, ProjectTerminalResult, BeginCIWait,
       QueueTerminalResult, DeferRepositoryRunExternalResume, Continue, Abort, Release
  <1>4. CASE Advancing
    BY <1>4, Zenon DEF Advancing, CallComment, CallLaunch, CallResumeRun, PollFails,
       MarkMalformed, ProjectionFails, PollAnswered, PollUnknown, PollMalformedWait,
       RecordRepositoryRunExternalWait, MarkPreOutboxFailure,
       DeferRepositoryRunExternalResume, ReconcileRepositoryRunExternalResume,
       Goto, Continue, Abort, Release
  <1>5. ASSUME NEW k \in Keys,
               Clock(k) \/ Broker(k) \/ Fetch(k) \/ Operator(k) \/ CIAction(k)
        PROVE  UNCHANGED <<pc, cur, seen>> \/ pc' = "asleep"
    BY <1>5, Zenon DEF Clock, JobBecomesDue, ReportBecomesDue, WindowCloses, Broker, FinishRun,
       SuspendRun, ContinueRun, Fetch, Record, RecordRepositoryRunExternalWake, Operator,
       ReconcileBlockedReport, ReconcileFailedLaunch, CIAction, CIPending, CISucceeds,
       CICodeFailure, CIEscalates, CIRepairAgain, CIRepairDelivered,
       CIEscalationDelivered, CIEscalationBlocked, CIStep, CIError, process
  <1> QED
    BY <1>1, <1>2, <1>3, <1>4, <1>5, Zenon DEF Next, Worker, Polling, Advancing

\* The worker fetches a projection only of a run that has an outcome, and an
\* outcome does not change.
LEMMA ProjectStep ==
    ASSUME WorkerOK, RunsOK, ProjectsFinishedRun, Next
    PROVE  ProjectsFinishedRun'
  <1>1. CASE pc' # "project"
    BY <1>1, Zenon DEF ProjectsFinishedRun
  <1>2. CASE pc' = "project" /\ PollAnswered
    BY <1>2, Zenon DEF PollAnswered, ReconcileRepositoryRunExternalResume, Goto, Abort, Release,
       ProjectsFinishedRun
  <1>3. CASE pc' = "project" /\ ~PollAnswered
    <2>1. pc = "project" /\ cur' = cur
      BY <1>3, Control, Zenon DEF Claim, ClaimReportDue, ClaimLaunch, ClaimStatus, Hold,
         Advancing, CallComment, CallLaunch, CallResumeRun, PollFails, MarkMalformed,
         ProjectionFails, PollUnknown, PollMalformedWait, RecordRepositoryRunExternalWait,
         MarkPreOutboxFailure, DeferRepositoryRunExternalResume,
         ReconcileRepositoryRunExternalResume, Goto, Continue, Abort, Release
    <2>2. runs' = runs \/ \E k \in Keys : Broker(k)
      BY <2>1, Writes, Zenon DEF CallLaunch, CallResumeRun
    <2>3. ASSUME NEW k \in Keys, Broker(k)
          PROVE  runs'[cur].st = runs[cur].st
      <3>1. runs[cur].st \in BrokerOutcomes /\ cur \in Keys
        BY <2>1, HeldKey, Zenon DEF ProjectsFinishedRun
      <3>2. runs[k].st \notin BrokerOutcomes
        BY <2>3, Zenon DEF Broker, FinishRun, SuspendRun, ContinueRun, BrokerOutcomes
      <3> QED
        BY <2>3, <3>1, <3>2, Zenon DEF Broker, FinishRun, SuspendRun, ContinueRun, RunsOK
    <2> QED
      BY <1>3, <2>1, <2>2, <2>3, Zenon DEF ProjectsFinishedRun
  <1> QED
    BY <1>1, <1>2, <1>3, Zenon

-----------------------------------------------------------------------------
(* Type correctness. *)

\* Initial states are well typed.
LEMMA TypeInit == Init => TypeOK /\ ProjectsFinishedRun
  <1> SUFFICES ASSUME Init PROVE TypeOK /\ ProjectsFinishedRun
    BY Zenon
  <1> USE ConstantsAssumption
  <1>1. JobsOK
    <2>1. AbsentJob \in Jobs
      BY StatusFacts DEF AbsentJob, Jobs
    <2>2. ASSUME NEW row \in OldRows
          PROVE  Upgraded(row) \in Jobs
      <3>1. row[1] \in Statuses /\ row[2] \in BOOLEAN /\ (row[1] # "pending") \in BOOLEAN
        BY StatusFacts, Zenon
      <3>2. ASSUME NEW s \in Statuses, NEW b \in BOOLEAN, NEW f \in BOOLEAN
            PROVE  [AbsentJob EXCEPT !.status = s, !.bound = b, !.first = f, !.due = TRUE] \in Jobs
        BY <2>1, Zenon DEF Jobs
      <3> QED
        BY <3>1, <3>2, Zenon DEF Upgraded
    <2> QED
      BY <2>1, <2>2 DEF Init, JobsOK
  <1>2. ResultsOK /\ TasksOK /\ CommentsOK
    BY Zenon DEF Init, ResultsOK, TasksOK, TaskPhases, CommentsOK
  <1>3. OutboxOK /\ WaitsOK
    BY DEF Init, OutboxOK, NoReport, Reports, WaitsOK, NoWait, Waits
  <1>4. RunsOK
    <2>1. NoRun \in Runs
      BY DEF NoRun, Runs, RunStates
    <2>2. ASSUME NEW o \in Outcomes
          PROVE  [NoRun EXCEPT !.st = o] \in Runs
      BY <2>1, Zenon DEF Runs, RunStates
    <2> QED
      BY <2>1, <2>2 DEF Init, RunsOK
  <1>5. WorkerOK
    <2>1. crashes \in 0..MaxCrashes /\ seen \in Statuses /\ cur = NoKey
      BY StatusFacts DEF Init
    <2> QED
      BY <2>1, Zenon DEF Init, WorkerOK, WorkerSteps
  <1> QED
    BY <1>1, <1>2, <1>3, <1>4, <1>5, Zenon DEF TypeOK, ProjectsFinishedRun, Init

\* Every step, and every stuttering step, keeps the types.
LEMMA TypeStep ==
    ASSUME TypeOK, ProjectsFinishedRun, [Next]_vars
    PROVE  TypeOK' /\ ProjectsFinishedRun'
  <1>1. CASE Next
    BY <1>1, JobsStep, ResultsStep, OutboxStep, WaitsStep, TasksStep, RunsStep,
       CommentsStep, WorkerStep, ProjectStep, Zenon DEF TypeOK
  <1>2. CASE UNCHANGED vars
    BY <1>2, Zenon DEF vars, TypeOK, JobsOK, ResultsOK, OutboxOK, WaitsOK, TasksOK, RunsOK,
       CommentsOK, WorkerOK, ProjectsFinishedRun
  <1> QED
    BY <1>1, <1>2, Zenon

\* Type correctness: in every reachable state the tables hold only values the
\* code writes, the attempt counters respect PreOutboxMaxAttempts and
\* ReportRetryMaxAttempts, and the worker holds a job exactly inside RunOne.
THEOREM TypeCorrect == Spec => []TypeOK
  <1>1. TypeOK /\ ProjectsFinishedRun /\ [Next]_vars => (TypeOK /\ ProjectsFinishedRun)'
    BY TypeStep, Zenon
  <1> QED
    BY <1>1, TypeInit, PTL DEF Spec

\* Used by the theorems below.
LEMMA TypeInvariant == Spec => [](TypeOK /\ ProjectsFinishedRun)
  <1>1. TypeOK /\ ProjectsFinishedRun /\ [Next]_vars => (TypeOK /\ ProjectsFinishedRun)'
    BY TypeStep
  <1> QED
    BY <1>1, TypeInit, PTL DEF Spec

-----------------------------------------------------------------------------
(* Evidence: the inductive invariant. *)

ReportSteps == {"report", "reported", "report_retry", "report_blocked"}

\* Statuses a job with a terminal result may have.
ReportedStates == TerminalStates \cup CIStates \cup
                  {"report_pending", "report_retry", "report_blocked"}

\* A job with a result has left the launch queue for good.
ResultLeavesQueue == \A k \in Keys : result[k] # "none" => job[k].status \in ReportedStates

\* A job that has not been recorded has an empty row.
AbsentIsEmpty == \A k \in Keys : job[k].status = "none" => job[k] = AbsentJob

\* What the worker knows of the job it holds: one being reported has a result,
\* any other has none, and a call that succeeded left its comment.
WorkerEvidence ==
    /\ pc \in ReportSteps => result[cur] # "none"
    /\ pc \notin ReportSteps \cup {"asleep", "idle"} => result[cur] = "none"
    /\ pc = "reported" => comment[cur] # "none"

EvidenceInv ==
    /\ ReportEvidence
    /\ DeliveredMeansPosted
    /\ ResultLeavesQueue
    /\ AbsentIsEmpty
    /\ WorkerEvidence

\* What one step may do to the rows of one job.  Its result and outbox row
\* stay as they are, and the job's status changes only while there is no result
\* or through the CI lifecycle; ...
Undisturbed(k) ==
    /\ result'[k] = result[k]
    /\ outbox'[k].st = outbox[k].st
    /\ task[k] # "none" => task'[k] # "none"
    /\ \/ job'[k].status = job[k].status
       \/ result[k] = "none"
       \/ /\ task[k] # "none"
          /\ job'[k].status \in CIStates \cup {"completed", "failed", "report_blocked"}

\* ... or the result is written together with its outbox row; ...
Queued(k) ==
    /\ result[k] = "none"
    /\ result'[k] # "none"
    /\ outbox'[k].st = "pending"
    /\ job'[k].status = "report_pending"
    /\ task'[k] = task[k]

\* ... or an open report gets its outcome; ...
Marked(k) ==
    /\ outbox[k].st \in {"pending", "retry"}
    /\ result'[k] = result[k]
    /\ task'[k] = task[k]
    /\ \/ /\ outbox'[k].st = "delivered"
          /\ job'[k].status = TerminalStatus(result[k])
          /\ comment[k] # "none"
       \/ outbox'[k].st = "retry" /\ job'[k].status = "report_retry"
       \/ outbox'[k].st = "blocked" /\ job'[k].status = "report_blocked"

\* ... or an operator reopens a blocked one.
Requeued(k) ==
    /\ outbox[k].st = "blocked"
    /\ result'[k] = result[k]
    /\ task'[k] = task[k]
    /\ outbox'[k].st = "retry"
    /\ job'[k].status = "report_retry"

RowStep(k) == Undisturbed(k) \/ Queued(k) \/ Marked(k) \/ Requeued(k)

\* Opening the store changes the status only of jobs without a result.
LEMMA NormalisedRow ==
    ASSUME JobsOK, ResultLeavesQueue, NEW k \in Keys
    PROVE  NormalisedJob(k).status = job[k].status \/ result[k] = "none"
  <1>1. CASE result[k] # "none"
    <2>1. job[k].status \in ReportedStates
      BY <1>1, Zenon DEF ResultLeavesQueue
    <2>2. Migrated(job[k].status, job[k].bound) = job[k].status
      BY <2>1, Zenon DEF Migrated, ReportedStates, TerminalStates, CIStates
    <2>3. NormalisedJob(k) = [job[k] EXCEPT !.status = job[k].status]
      BY <1>1, <2>2, Zenon DEF NormalisedJob, NeedsReport
    <2> QED
      BY <2>3, Zenon DEF JobsOK, Jobs
  <1> QED
    BY <1>1, Zenon

\* A step that changes the status only of jobs without a result, and leaves the
\* results, the outbox and the tasks alone, disturbs no row.
LEMMA UndisturbedRows ==
    ASSUME UNCHANGED <<result, outbox, task>>,
           \A k \in Keys : job'[k].status = job[k].status \/ result[k] = "none"
    PROVE  \A k \in Keys : RowStep(k)
  BY Zenon DEF RowStep, Undisturbed

\* Opening the store disturbs no row.
LEMMA RowStepNormal ==
    ASSUME TypeOK, EvidenceInv, OpenStore, UNCHANGED <<result, outbox, task>>
    PROVE  \A k \in Keys : RowStep(k)
  <1>1. \A k \in Keys : job'[k].status = job[k].status \/ result[k] = "none"
    BY NormalisedRow, Zenon DEF OpenStore, TypeOK, EvidenceInv
  <1> QED
    BY <1>1, UndisturbedRows, Zenon

\* The steps of the worker that write the held job before it has a result.
HeldJobWrites ==
    \/ MarkLaunched \/ MarkLaunchFailure \/ DeferReportPending \/ PollFails
    \/ PollAnswered \/ PollUnknown \/ MarkMalformed \/ MarkStatus
    \/ RecordRepositoryRunExternalWait \/ MarkRepositoryRunExternalResumed
    \/ ResumeFails \/ ProjectionFails

\* They write no other job, no result, no outbox row and no task.
LEMMA HeldJobWritesFact ==
    ASSUME TypeOK, WorkerEvidence, HeldJobWrites
    PROVE  /\ cur \in Keys /\ result[cur] = "none"
           /\ UNCHANGED <<result, outbox, task>>
           /\ \A k \in Keys \ {cur} : job'[k] = job[k]
  <1>1. pc \in {"launched", "launch_retry", "defer", "status", "malformed", "mark_status",
                "resumed", "resume_failed", "project"}
    BY Zenon DEF HeldJobWrites, MarkLaunched, MarkLaunchFailure, DeferReportPending, PollFails,
       PollAnswered, PollUnknown, MarkMalformed, MarkStatus,
       RecordRepositoryRunExternalWait, MarkRepositoryRunExternalResumed, ResumeFails,
       ProjectionFails
  <1>2. cur \in Keys /\ result[cur] = "none"
    BY <1>1, HeldKey, Zenon DEF TypeOK, WorkerEvidence, ReportSteps
  <1>3. UNCHANGED <<result, outbox, task>>
    BY Zenon DEF HeldJobWrites, MarkLaunched, MarkLaunchFailure, DeferReportPending, PollFails,
       PollAnswered, PollUnknown, MarkMalformed, MarkStatus,
       RecordRepositoryRunExternalWait, MarkRepositoryRunExternalResumed, ResumeFails,
       ProjectionFails, MarkPreOutboxFailure, DeferRepositoryRunExternalResume,
       ReconcileRepositoryRunExternalResume, Abort, durable
  <1>4. \A k \in Keys \ {cur} : job'[k] = job[k]
    <2>1. CASE MarkLaunched \/ MarkLaunchFailure \/ DeferReportPending \/ MarkStatus
               \/ RecordRepositoryRunExternalWait \/ MarkRepositoryRunExternalResumed
      BY <1>2, <2>1, Zenon DEF MarkLaunched, MarkLaunchFailure, DeferReportPending, MarkStatus,
         RecordRepositoryRunExternalWait, MarkRepositoryRunExternalResumed, Abort, durable,
         TypeOK, JobsOK
    <2>2. CASE PollFails \/ MarkMalformed \/ ResumeFails \/ ProjectionFails
      BY <1>2, <2>2, Zenon DEF PollFails, MarkMalformed, ResumeFails, ProjectionFails,
         MarkPreOutboxFailure, DeferRepositoryRunExternalResume, Abort, durable,
         TypeOK, JobsOK
    <2>3. CASE PollAnswered \/ PollUnknown
      BY <1>2, <2>3, Zenon DEF PollAnswered, PollUnknown, ReconcileRepositoryRunExternalResume,
         Abort, durable, TypeOK, JobsOK
    <2> QED
      BY <2>1, <2>2, <2>3, Zenon DEF HeldJobWrites
  <1> QED
    BY <1>2, <1>3, <1>4, Zenon

\* The rows of every job, under every step.
LEMMA RowSteps ==
    ASSUME TypeOK, ProjectsFinishedRun, EvidenceInv, Next
    PROVE  \A k \in Keys : RowStep(k)
  <1>1. CASE Quiet \/ \E k \in Keys : QuietKey(k)
    <2>1. UNCHANGED <<job, result, task>>
      BY <1>1, Zenon DEF Quiet, QuietKey, ReportBecomesDue, Broker, FinishRun, SuspendRun,
         ContinueRun, ClaimReportDue, ClaimStatus, CIError, Crash, Tick, NoWork,
         CallComment, CallLaunch, CallResumeRun, PollMiscorrelated,
         PollMalformedWait, Abort, durable
    <2>2. outbox' = outbox \/ \E k \in Keys : outbox' = [outbox EXCEPT ![k].due = TRUE]
      BY <1>1, Zenon DEF Quiet, QuietKey, ReportBecomesDue, Broker, FinishRun, SuspendRun,
         ContinueRun, ClaimReportDue, ClaimStatus, CIError, Crash, Tick, NoWork,
         CallComment, CallLaunch, CallResumeRun, PollMiscorrelated,
         PollMalformedWait, Abort, durable
    <2>3. \A k \in Keys : outbox'[k].st = outbox[k].st
      BY <2>2 DEF TypeOK, OutboxOK, Reports
    <2> QED
      BY <2>1, <2>3, Zenon DEF RowStep, Undisturbed
  <1>2. CASE Start \/ OperatorOpensStore
    BY <1>2, RowStepNormal, Zenon DEF Start, OperatorOpensStore
  <1>3. ASSUME NEW k \in Keys,
               JobBecomesDue(k) \/ WindowCloses(k) \/ Fetch(k) \/ ClaimLaunch(k)
        PROVE  \A j \in Keys : RowStep(j)
    <2>1. UNCHANGED <<result, outbox, task>>
      BY <1>3, Zenon DEF JobBecomesDue, WindowCloses, Fetch, Record,
         RecordRepositoryRunExternalWake, ClaimLaunch
    <2>2. CASE Record(k)
      <3>1. result[k] = "none"
        BY <2>2, Zenon DEF Record, EvidenceInv, ResultLeavesQueue, ReportedStates,
           TerminalStates, CIStates
      <3>2. \A j \in Keys \ {k} : job'[j] = job[j]
        BY <2>2, Zenon DEF Record, TypeOK, JobsOK
      <3> QED
        BY <2>1, <3>1, <3>2, UndisturbedRows, Zenon
    <2>3. CASE ~Record(k)
      <3>1. \A j \in Keys : job'[j].status = job[j].status
        BY <1>3, <2>3 DEF JobBecomesDue, WindowCloses, Fetch,
           RecordRepositoryRunExternalWake, ClaimLaunch, TypeOK, JobsOK, Jobs
      <3> QED
        BY <2>1, <3>1, UndisturbedRows, Zenon
    <2> QED
      BY <2>2, <2>3, Zenon
  <1>4. CASE HeldJobWrites
    BY <1>4, HeldJobWritesFact, UndisturbedRows, Zenon DEF EvidenceInv
  <1>5. CASE BeginCIWait
    <2>1. cur \in Keys /\ result[cur] = "none"
      BY <1>5, HeldKey, Zenon DEF BeginCIWait, TypeOK, EvidenceInv, WorkerEvidence, ReportSteps
    <2>2. UNCHANGED <<result, outbox>>
      BY <1>5, Zenon DEF BeginCIWait, Abort, durable
    <2>3. \A k \in Keys : k # cur => job'[k] = job[k]
      BY <1>5, <2>1, Zenon DEF BeginCIWait, Abort, durable, TypeOK, JobsOK
    <2>4. \A k \in Keys : task[k] # "none" => task'[k] # "none"
      BY <1>5, <2>1, Zenon DEF BeginCIWait, Abort, durable, TypeOK, TasksOK
    <2> QED
      BY <2>1, <2>2, <2>3, <2>4, Zenon DEF RowStep, Undisturbed
  <1>6. ASSUME NEW k \in Keys, CIAction(k), ~CIError(k)
        PROVE  \A j \in Keys : RowStep(j)
    <2>1. ASSUME NEW from \in OpenTask, NEW to \in TaskPhases \ {"none"},
                 NEW s \in CIStates \cup {"completed", "failed", "report_blocked"},
                 CIStep(k, from, to, s)
          PROVE  \A j \in Keys : RowStep(j)
      <3>1. UNCHANGED <<result, outbox>> /\ task[k] # "none"
        BY <2>1, Zenon DEF CIStep, OpenTask
      <3>2. job'[k].status = s /\ task'[k] = to
        BY <2>1 DEF CIStep, TypeOK, JobsOK, Jobs, TasksOK
      <3>3. \A j \in Keys \ {k} : job'[j] = job[j] /\ task'[j] = task[j]
        BY <2>1, Zenon DEF CIStep, TypeOK, JobsOK, TasksOK
      <3> QED
        BY <3>1, <3>2, <3>3, Zenon DEF RowStep, Undisturbed
    <2> QED
      BY <1>6, <2>1, Zenon DEF CIAction, CIPending, CISucceeds, CICodeFailure, CIEscalates,
         CIRepairAgain, CIRepairDelivered, CIEscalationDelivered, CIEscalationBlocked,
         OpenTask, TaskPhases, CIStates
  <1>7. CASE Queueing
    <2>1. PICK r \in Results : QueueTerminalResult(cur, r)
      BY <1>7, QueueingFact, Zenon DEF TypeOK
    <2>2. cur \in Keys /\ result[cur] = "none"
      BY <1>7, HeldKey, Zenon DEF Queueing, QueueLaunchFailure, QueuePreOutboxFailure,
         ProjectTerminalResult, TypeOK, EvidenceInv, WorkerEvidence, ReportSteps
    <2>3. CASE ~Queueable(cur, r)
      BY <2>1, <2>3, UndisturbedRows, Zenon DEF QueueTerminalResult, Abort, durable
    <2>4. CASE Queueable(cur, r)
      <3>1. outbox[cur].st = "none"
        BY <2>2, Zenon DEF EvidenceInv, ReportEvidence
      <3>2. outbox' = [outbox EXCEPT ![cur] = [st |-> "pending", attempts |-> 0,
                                               due |-> TRUE, ahead |-> Reported]]
        BY <2>1, <2>4, <3>1, Zenon DEF QueueTerminalResult
      <3>3. task' = task /\ result' = [result EXCEPT ![cur] = r]
        BY <2>1, <2>4, Zenon DEF QueueTerminalResult
      <3>4. job'[cur].status = "report_pending"
        BY <2>1, <2>2, <2>4 DEF QueueTerminalResult, TypeOK, JobsOK, Jobs
      <3>5. \A k \in Keys \ {cur} : job'[k] = job[k]
        BY <2>1, <2>4, Zenon DEF QueueTerminalResult, TypeOK, JobsOK
      <3>6. Queued(cur)
        BY <2>2, <3>2, <3>3, <3>4, Zenon DEF Queued, TypeOK, OutboxOK, ResultsOK, Results,
           BrokerOutcomes
      <3>7. \A k \in Keys \ {cur} : Undisturbed(k)
        BY <2>2, <3>2, <3>3, <3>5, Zenon DEF Undisturbed, TypeOK, OutboxOK, ResultsOK
      <3> QED
        BY <3>6, <3>7, Zenon DEF RowStep
    <2> QED
      BY <2>3, <2>4, Zenon
  <1>8. CASE Marking
    <2>1. pc \in ReportSteps \ {"report"} /\ cur \in Keys /\ result[cur] # "none"
      BY <1>8, HeldKey, Zenon DEF Marking, MarkReportDelivered, MarkReportFailure, ReportSteps,
         TypeOK, EvidenceInv, WorkerEvidence
    <2>2. ASSUME NEW st, NEW status, NEW due, NEW jobDue,
                 RecordOutcome(st, status, due, jobDue),
                 \/ st = "delivered" /\ status = TerminalStatus(result[cur])
                    /\ comment[cur] # "none"
                 \/ st = "retry" /\ status = "report_retry"
                 \/ st = "blocked" /\ status = "report_blocked"
          PROVE  \A k \in Keys : RowStep(k)
      <3>1. CASE ~ReportOpen(cur)
        BY <2>2, <3>1, UndisturbedRows, Zenon DEF RecordOutcome, Abort, durable
      <3>2. CASE ReportOpen(cur)
        <4>1. UNCHANGED <<result, task>>
          BY <2>2, <3>2, Zenon DEF RecordOutcome
        <4>2. job'[cur].status = status /\ \A k \in Keys \ {cur} : job'[k] = job[k]
          BY <2>1, <2>2, <3>2 DEF RecordOutcome, TypeOK, JobsOK, Jobs
        <4>3. outbox'[cur].st = st /\ \A k \in Keys \ {cur} : outbox'[k] = outbox[k]
          BY <2>1, <2>2, <3>2 DEF RecordOutcome, TypeOK, OutboxOK, Reports
        <4>4. Marked(cur)
          BY <2>2, <3>2, <4>1, <4>2, <4>3, Zenon DEF Marked, ReportOpen
        <4>5. \A k \in Keys \ {cur} : Undisturbed(k)
          BY <4>1, <4>2, <4>3, Zenon DEF Undisturbed
        <4> QED
          BY <4>4, <4>5, Zenon DEF RowStep
      <3> QED
        BY <3>1, <3>2, Zenon
    <2>3. CASE MarkReportDelivered
      BY <2>2, <2>3, Zenon DEF MarkReportDelivered, EvidenceInv, WorkerEvidence
    <2>4. CASE MarkReportFailure
      BY <2>2, <2>4, Zenon DEF MarkReportFailure
    <2> QED
      BY <1>8, <2>3, <2>4, Zenon DEF Marking
  <1>9. ASSUME NEW k \in Keys, Operator(k)
        PROVE  \A j \in Keys : RowStep(j)
    <2>1. UNCHANGED <<result, task>> /\ \A j \in Keys \ {k} : outbox'[j] = outbox[j]
      BY <1>9, Zenon DEF Operator, ReconcileBlockedReport, ReconcileFailedLaunch, TypeOK, OutboxOK
    <2>2. ASSUME NEW j \in Keys \ {k}
          PROVE  RowStep(j)
      <3>1. job'[j] = NormalisedJob(j)
        BY <1>9, Zenon DEF Operator, ReconcileBlockedReport, ReconcileFailedLaunch
      <3> QED
        BY <2>1, <3>1, NormalisedRow, Zenon DEF RowStep, Undisturbed, TypeOK, EvidenceInv
    <2>3. CASE ReconcileBlockedReport(k)
      <3>1. job'[k].status = "report_retry"
        BY <2>3, Zenon DEF ReconcileBlockedReport, TypeOK, JobsOK, Jobs
      <3>2. outbox[k].st = "blocked" /\ outbox'[k].st = "retry"
        BY <2>3, Zenon DEF ReconcileBlockedReport, TypeOK, OutboxOK, Reports
      <3> QED
        BY <2>1, <2>2, <3>1, <3>2, Zenon DEF RowStep, Requeued
    <2>4. CASE ReconcileFailedLaunch(k)
      BY <2>1, <2>2, <2>4, Zenon DEF ReconcileFailedLaunch, RowStep, Undisturbed
    <2> QED
      BY <1>9, <2>3, <2>4, Zenon DEF Operator
  <1> QED
    BY <1>1, <1>2, <1>3, <1>4, <1>5, <1>6, <1>7, <1>8, <1>9, Zenon
       DEF Next, Worker, Reporting, Launching, Polling, Clock, Claim, Quiet, QuietKey,
           HeldJobWrites, Queueing, Marking

\* The comment of a job changes only from nothing to what its result says.
LEMMA CommentStep ==
    ASSUME TypeOK, Next
    PROVE  \A k \in Keys : \/ comment'[k] = comment[k]
                           \/ comment[k] = "none" /\ comment'[k] = result[k]
  <1>1. CASE CallComment
    <2>1. cur \in Keys
      BY <1>1, HeldKey, Zenon DEF CallComment, TypeOK
    <2> QED
      BY <1>1, <2>1, Zenon DEF CallComment, TypeOK, CommentsOK
  <1> QED
    BY <1>1, Writes, Zenon

\* The conjuncts about the tables follow from the rows.
LEMMA EvidenceTables ==
    ASSUME TypeOK, TypeOK', EvidenceInv,
           \A k \in Keys : RowStep(k),
           \A k \in Keys : \/ comment'[k] = comment[k]
                           \/ comment[k] = "none" /\ comment'[k] = result[k]
    PROVE  ReportEvidence' /\ DeliveredMeansPosted' /\ ResultLeavesQueue'
  <1> SUFFICES ASSUME NEW k \in Keys
               PROVE  /\ (result[k] # "none" <=> outbox[k].st # "none")'
                      /\ (result[k] # "none" /\ task[k] = "none"
                           => job[k].status = JobStatusOfReport(k))'
                      /\ (outbox[k].st = "delivered" => comment[k] # "none")'
                      /\ (comment[k] # "none" => comment[k] = result[k])'
                      /\ (result[k] # "none" => job[k].status \in ReportedStates)'
    BY Zenon DEF ReportEvidence, DeliveredMeansPosted, ResultLeavesQueue
  <1>1. /\ result[k] # "none" <=> outbox[k].st # "none"
        /\ result[k] # "none" /\ task[k] = "none" => job[k].status = JobStatusOfReport(k)
        /\ outbox[k].st = "delivered" => comment[k] # "none"
        /\ comment[k] # "none" => comment[k] = result[k]
        /\ result[k] # "none" => job[k].status \in ReportedStates
    BY Zenon DEF EvidenceInv, ReportEvidence, DeliveredMeansPosted, ResultLeavesQueue
  <1>2. TerminalStatus(result[k]) \in TerminalStates
    BY TerminalStatusFact, Zenon DEF TypeOK, ResultsOK
  <1>3. \/ comment'[k] = comment[k]
        \/ comment[k] = "none" /\ comment'[k] = result[k]
    BY Zenon
  <1>4. CASE Undisturbed(k)
    BY <1>1, <1>3, <1>4, Zenon DEF Undisturbed, JobStatusOfReport, ReportedStates, CIStates,
       TerminalStates
  <1>5. CASE Queued(k)
    BY <1>1, <1>3, <1>5, Zenon DEF Queued, JobStatusOfReport, ReportedStates
  <1>6. CASE Marked(k)
    BY <1>1, <1>2, <1>3, <1>6, Zenon DEF Marked, JobStatusOfReport, ReportedStates
  <1>7. CASE Requeued(k)
    BY <1>1, <1>3, <1>7, Zenon DEF Requeued, JobStatusOfReport, ReportedStates
  <1> QED
    BY <1>4, <1>5, <1>6, <1>7, Zenon DEF RowStep

\* What the worker knows stays true until it lets the job go.
LEMMA EvidenceWorker ==
    ASSUME TypeOK, ProjectsFinishedRun, EvidenceInv, Next
    PROVE  WorkerEvidence'
  <1>1. CASE pc' \in {"asleep", "idle"}
    BY <1>1, Zenon DEF WorkerEvidence, ReportSteps
  <1>2. ASSUME NEW k \in Keys, Claim(k)
        PROVE  WorkerEvidence'
    <2>1. UNCHANGED <<result, comment>> /\ cur' = k
      BY <1>2, Zenon DEF Claim, ClaimReportDue, ClaimLaunch, ClaimStatus, Hold, durable
    <2>2. CASE ClaimReportDue(k)
      BY <2>1, <2>2, Zenon DEF ClaimReportDue, Hold, NextReport, Undelivered, EvidenceInv,
         ReportEvidence, WorkerEvidence, ReportSteps
    <2>3. CASE ClaimLaunch(k) \/ ClaimStatus(k)
      <3>1. result[k] = "none"
        BY <2>3, Zenon DEF ClaimLaunch, ClaimStatus, Head, Claimable, EvidenceInv,
           ResultLeavesQueue, ReportedStates, TerminalStates, CIStates, LaunchStates
      <3>2. pc' \in {"launch", "launch_failed", "status", "defer"}
        BY <2>3, Zenon DEF ClaimLaunch, ClaimStatus, Hold
      <3> QED
        BY <2>1, <3>1, <3>2, Zenon DEF WorkerEvidence, ReportSteps
    <2> QED
      BY <1>2, <2>2, <2>3, Zenon DEF Claim
  <1>3. ASSUME pc' \notin {"asleep", "idle"}
        PROVE  result' = result
    BY <1>3, Writes, Zenon DEF Queueing, QueueLaunchFailure, QueuePreOutboxFailure,
       ProjectTerminalResult, QueueTerminalResult, Continue, Abort, Release
  <1>4. CASE UNCHANGED <<pc, cur, seen>> /\ pc' \notin {"asleep", "idle"}
    <2>1. comment' = comment
      BY <1>4, Writes, Zenon DEF CallComment, Goto
    <2> QED
      BY <1>3, <1>4, <2>1, Zenon DEF EvidenceInv, WorkerEvidence
  <1>5. CASE CallComment
    <2>1. cur \in Keys /\ result[cur] # "none"
      BY <1>5, HeldKey, Zenon DEF CallComment, TypeOK, EvidenceInv, WorkerEvidence, ReportSteps
    <2>2. cur' = cur /\ result' = result /\ pc' \in ReportSteps
      BY <1>5, Zenon DEF CallComment, Goto, durable, ReportSteps
    <2>3. pc' = "reported" => comment'[cur] # "none"
      BY <1>5, <2>1, Zenon DEF CallComment, Goto, TypeOK, CommentsOK
    <2> QED
      BY <2>1, <2>2, <2>3, Zenon DEF WorkerEvidence
  <1>6. CASE Advancing /\ ~CallComment /\ cur' = cur /\ pc' \notin {"asleep", "idle"}
    <2>1. pc \notin ReportSteps \cup {"asleep", "idle"}
      BY <1>6, Zenon DEF Advancing, CallLaunch, CallResumeRun, PollFails, MarkMalformed,
         ProjectionFails, PollAnswered, PollUnknown, PollMalformedWait,
         RecordRepositoryRunExternalWait, ReportSteps
    <2>2. pc' \notin ReportSteps
      BY <1>6, Zenon DEF Advancing, CallLaunch, CallResumeRun, PollFails, MarkMalformed,
         ProjectionFails, PollAnswered, PollUnknown, PollMalformedWait,
         RecordRepositoryRunExternalWait, MarkPreOutboxFailure,
         DeferRepositoryRunExternalResume, ReconcileRepositoryRunExternalResume,
         Goto, Continue, Abort, Release, ReportSteps
    <2> QED
      BY <1>3, <1>6, <2>1, <2>2, Zenon DEF EvidenceInv, WorkerEvidence, ReportSteps
  <1> QED
    BY <1>1, <1>2, <1>4, <1>5, <1>6, Control, Zenon

\* A job row is empty until it is recorded, and a bound run stays bound.
JobRowStep(k) ==
    \/ job'[k] = job[k]
    \/ job'[k].status # "none" /\ (job[k].bound => job'[k].bound)

\* Opening the store neither records a job nor touches the binding of a run.
LEMMA NormalisedJobRow ==
    ASSUME JobsOK, NEW k \in Keys
    PROVE  \/ NormalisedJob(k) = job[k]
           \/ /\ NormalisedJob(k).status # "none"
              /\ NormalisedJob(k).bound = job[k].bound
  <1>1. CASE job[k].status = "none"
    <2>1. NormalisedJob(k) = [job[k] EXCEPT !.status = job[k].status]
      BY <1>1, Zenon DEF NormalisedJob, NeedsReport, Migrated
    <2> QED
      BY <2>1, Zenon DEF JobsOK, Jobs
  <1>2. CASE job[k].status # "none"
    <2>1. Migrated(job[k].status, job[k].bound) # "none"
      BY <1>2, Zenon DEF Migrated
    <2> QED
      BY <2>1 DEF NormalisedJob, JobsOK, Jobs
  <1> QED
    BY <1>1, <1>2, Zenon

\* The held job, while the worker works on it, has been recorded.
LEMMA HeldJobStays ==
    ASSUME TypeOK, HeldJobWrites
    PROVE  JobRowStep(cur)
  <1>1. cur \in Keys
    BY HeldKey, Zenon DEF HeldJobWrites, MarkLaunched, MarkLaunchFailure, DeferReportPending,
       PollFails, PollAnswered, PollUnknown, MarkMalformed, MarkStatus,
       RecordRepositoryRunExternalWait, MarkRepositoryRunExternalResumed, ResumeFails,
       ProjectionFails, TypeOK
  <1>2. job[cur] \in Jobs
    BY <1>1, Zenon DEF TypeOK, JobsOK
  <1>3. ASSUME NEW s, s # "none",
               job' = [job EXCEPT ![cur].status = s, ![cur].bound = TRUE, ![cur].due = FALSE]
        PROVE  JobRowStep(cur)
    <2> DEFINE row == [job[cur] EXCEPT !.status = s, !.bound = TRUE, !.due = FALSE]
    <2>1. job'[cur] = row
      BY <1>1, <1>3, Zenon DEF TypeOK, JobsOK
    <2>2. row.status = s /\ row.bound = TRUE
      BY <1>2, Zenon DEF Jobs
    <2> QED
      BY <1>3, <2>1, <2>2, Zenon DEF JobRowStep
  <1>4. ASSUME NEW s, s # "none",
               job' = [job EXCEPT ![cur].status = s, ![cur].due = FALSE]
        PROVE  JobRowStep(cur)
    <2> DEFINE row == [job[cur] EXCEPT !.status = s, !.due = FALSE]
    <2>1. job'[cur] = row
      BY <1>1, <1>4, Zenon DEF TypeOK, JobsOK
    <2>2. row.status = s /\ row.bound = job[cur].bound
      BY <1>2, Zenon DEF Jobs
    <2> QED
      BY <1>4, <2>1, <2>2, Zenon DEF JobRowStep
  <1>5. ASSUME job[cur].status # "none",
               job' = [job EXCEPT ![cur].due = FALSE]
        PROVE  JobRowStep(cur)
    <2> DEFINE row == [job[cur] EXCEPT !.due = FALSE]
    <2>1. job'[cur] = row
      BY <1>1, <1>5, Zenon DEF TypeOK, JobsOK
    <2>2. row.status = job[cur].status /\ row.bound = job[cur].bound
      BY <1>2, Zenon DEF Jobs
    <2> QED
      BY <1>5, <2>1, <2>2, Zenon DEF JobRowStep
  <1>6. ASSUME NEW s, NEW b, s # "none",
               job' = [job EXCEPT ![cur].status = s, ![cur].due = b, ![cur].pre = 0]
        PROVE  JobRowStep(cur)
    <2> DEFINE row == [job[cur] EXCEPT !.status = s, !.due = b, !.pre = 0]
    <2>1. job'[cur] = row
      BY <1>1, <1>6, Zenon DEF TypeOK, JobsOK
    <2>2. row.status = s /\ row.bound = job[cur].bound
      BY <1>2, Zenon DEF Jobs
    <2> QED
      BY <1>6, <2>1, <2>2, Zenon DEF JobRowStep
  <1>7. ASSUME NEW s, NEW p, s # "none",
               job' = [job EXCEPT ![cur].status = s, ![cur].pre = p, ![cur].due = FALSE]
        PROVE  JobRowStep(cur)
    <2> DEFINE row == [job[cur] EXCEPT !.status = s, !.pre = p, !.due = FALSE]
    <2>1. job'[cur] = row
      BY <1>1, <1>7, Zenon DEF TypeOK, JobsOK
    <2>2. row.status = s /\ row.bound = job[cur].bound
      BY <1>2, Zenon DEF Jobs
    <2> QED
      BY <1>7, <2>1, <2>2, Zenon DEF JobRowStep
  <1>8. ASSUME NEW p, job[cur].status # "none",
               job' = [job EXCEPT ![cur].due = FALSE, ![cur].pre = p]
        PROVE  JobRowStep(cur)
    <2> DEFINE row == [job[cur] EXCEPT !.due = FALSE, !.pre = p]
    <2>1. job'[cur] = row
      BY <1>1, <1>8, Zenon DEF TypeOK, JobsOK
    <2>2. row.status = job[cur].status /\ row.bound = job[cur].bound
      BY <1>2, Zenon DEF Jobs
    <2> QED
      BY <1>8, <2>1, <2>2, Zenon DEF JobRowStep
  <1>9. CASE job' = job
    BY <1>9, Zenon DEF JobRowStep
  <1>10. CASE MarkLaunched \/ MarkLaunchFailure \/ MarkStatus \/ DeferReportPending
    BY <1>3, <1>4, <1>5, <1>6, <1>9, <1>10, Zenon DEF MarkLaunched, MarkLaunchFailure, MarkStatus,
       DeferReportPending, Abort, durable
  <1>11. CASE RecordRepositoryRunExternalWait \/ MarkRepositoryRunExternalResumed
    <2>1. \/ job' = job
          \/ job' = [job EXCEPT ![cur].status = "external_waiting", ![cur].due = FALSE]
          \/ job' = [job EXCEPT ![cur].status = "launched", ![cur].due = FALSE, ![cur].pre = 0]
      BY <1>11, Zenon DEF RecordRepositoryRunExternalWait, MarkRepositoryRunExternalResumed,
         Abort, durable
    <2> QED
      BY <1>4, <1>6, <1>9, <2>1, Zenon
  <1>12. CASE PollFails \/ MarkMalformed \/ ResumeFails \/ ProjectionFails
    <2>1. \/ job' = job
          \/ /\ job[cur].status # "none"
             /\ \E p : job' = [job EXCEPT ![cur].due = FALSE, ![cur].pre = p]
          \/ \E s \in {"launched", "report_pending"} : \E p :
                job' = [job EXCEPT ![cur].status = s, ![cur].pre = p, ![cur].due = FALSE]
      BY <1>12, Zenon DEF PollFails, MarkMalformed, ResumeFails, ProjectionFails,
         MarkPreOutboxFailure, DeferRepositoryRunExternalResume, Abort, durable
    <2> QED
      BY <1>7, <1>8, <1>9, <2>1, Zenon
  <1>13. CASE PollAnswered \/ PollUnknown
    <2>1. \/ job' = job
          \/ job' = [job EXCEPT ![cur].status = "launched", ![cur].due = TRUE, ![cur].pre = 0]
      BY <1>13, Zenon DEF PollAnswered, PollUnknown, ReconcileRepositoryRunExternalResume,
         Abort, durable
    <2> QED
      BY <1>6, <1>9, <2>1, Zenon
  <1> QED
    BY <1>10, <1>11, <1>12, <1>13, Zenon DEF HeldJobWrites

\* No step empties a job row or unbinds a run.
LEMMA JobRowSteps ==
    ASSUME TypeOK, ProjectsFinishedRun, EvidenceInv, Next
    PROVE  \A k \in Keys : JobRowStep(k)
  <1> USE DEF JobRowStep
  <1>1. CASE Quiet \/ \E k \in Keys : QuietKey(k)
    BY <1>1, Zenon DEF Quiet, QuietKey, ReportBecomesDue, Broker, FinishRun, SuspendRun,
       ContinueRun, ClaimReportDue, ClaimStatus, CIError, Crash, Tick, NoWork,
       CallComment, CallLaunch, CallResumeRun, PollMiscorrelated,
       PollMalformedWait, Abort, durable
  <1>2. CASE Start \/ OperatorOpensStore
    BY <1>2, NormalisedJobRow, Zenon DEF Start, OperatorOpensStore, OpenStore, TypeOK
  <1>3. ASSUME NEW k \in Keys,
               JobBecomesDue(k) \/ WindowCloses(k) \/ ClaimLaunch(k)
               \/ RecordRepositoryRunExternalWake(k)
        PROVE  \A j \in Keys : JobRowStep(j)
    <2>1. job[k].status # "none"
      BY <1>3, Zenon DEF JobBecomesDue, WindowCloses, RecordRepositoryRunExternalWake,
         ClaimLaunch, Claimable, LaunchStates
    <2>2. \A j \in Keys : job'[j].status = job[j].status /\ job'[j].bound = job[j].bound
      BY <1>3 DEF JobBecomesDue, WindowCloses, RecordRepositoryRunExternalWake,
         ClaimLaunch, TypeOK, JobsOK, Jobs
    <2>3. \A j \in Keys \ {k} : job'[j] = job[j]
      BY <1>3, Zenon DEF JobBecomesDue, WindowCloses, RecordRepositoryRunExternalWake,
         ClaimLaunch, TypeOK, JobsOK
    <2> QED
      BY <2>1, <2>2, <2>3, Zenon
  <1>4. ASSUME NEW k \in Keys, Record(k)
        PROVE  \A j \in Keys : JobRowStep(j)
    <2>1. ~job[k].bound
      BY <1>4 DEF Record, EvidenceInv, AbsentIsEmpty, AbsentJob
    <2> QED
      BY <1>4, <2>1, Zenon DEF Record, AbsentJob, TypeOK, JobsOK
  <1>5. CASE HeldJobWrites
    BY <1>5, HeldJobWritesFact, HeldJobStays, Zenon DEF EvidenceInv
  <1>6. CASE BeginCIWait
    BY <1>6, HeldKey DEF BeginCIWait, Abort, durable, TypeOK, JobsOK, Jobs
  <1>7. ASSUME NEW k \in Keys, CIAction(k), ~CIError(k)
        PROVE  \A j \in Keys : JobRowStep(j)
    <2>1. ASSUME NEW from, NEW to, NEW s, s # "none", CIStep(k, from, to, s)
          PROVE  \A j \in Keys : JobRowStep(j)
      BY <2>1, Zenon DEF CIStep, TypeOK, JobsOK, Jobs
    <2> QED
      BY <1>7, <2>1, Zenon DEF CIAction, CIPending, CISucceeds, CICodeFailure, CIEscalates,
         CIRepairAgain, CIRepairDelivered, CIEscalationDelivered, CIEscalationBlocked
  <1>8. CASE Queueing
    <2>1. PICK r \in Results : QueueTerminalResult(cur, r)
      BY <1>8, QueueingFact DEF TypeOK
    <2> QED
      BY <2>1 DEF QueueTerminalResult, Abort, durable, TypeOK, JobsOK, Jobs
  <1>9. CASE Marking
    <2>1. cur \in Keys
      BY <1>9, HeldKey, Zenon DEF Marking, MarkReportDelivered, MarkReportFailure, TypeOK
    <2>2. ASSUME NEW st, NEW status, NEW due, NEW jobDue, status # "none",
                 RecordOutcome(st, status, due, jobDue)
          PROVE  \A k \in Keys : JobRowStep(k)
      BY <2>1, <2>2 DEF RecordOutcome, Abort, durable, TypeOK, JobsOK, Jobs
    <2>3. TerminalStatus(result[cur]) # "none"
      BY <2>1, TerminalStatusFact, Zenon DEF TerminalStates, TypeOK, ResultsOK
    <2> QED
      BY <1>9, <2>2, <2>3, Zenon DEF Marking, MarkReportDelivered, MarkReportFailure
  <1>10. ASSUME NEW k \in Keys, Operator(k)
        PROVE  \A j \in Keys : JobRowStep(j)
    <2>1. \A j \in Keys \ {k} : job'[j] = NormalisedJob(j)
      BY <1>10, Zenon DEF Operator, ReconcileBlockedReport, ReconcileFailedLaunch
    <2>2. job'[k].status # "none" /\ (job[k].bound => job'[k].bound)
      BY <1>10, Zenon DEF Operator, ReconcileBlockedReport, ReconcileFailedLaunch, TypeOK,
         JobsOK, Jobs
    <2> QED
      BY <2>1, <2>2, NormalisedJobRow, Zenon DEF TypeOK
  <1> QED
    BY <1>1, <1>2, <1>3, <1>4, <1>5, <1>6, <1>7, <1>8, <1>9, <1>10, Zenon
       DEF Next, Worker, Reporting, Launching, Polling, Clock, Fetch, Claim, Quiet,
           QuietKey, HeldJobWrites, Queueing, Marking

-----------------------------------------------------------------------------
(* Evidence: the theorems. *)

\* The inductive invariant holds initially.
LEMMA EvidenceInit == Init => EvidenceInv
  <1> SUFFICES ASSUME Init PROVE EvidenceInv
    BY Zenon
  <1>1. ReportEvidence /\ DeliveredMeansPosted /\ ResultLeavesQueue
    BY Zenon DEF Init, ReportEvidence, DeliveredMeansPosted, ResultLeavesQueue, NoReport
  <1>2. AbsentIsEmpty
    <2>1. ASSUME NEW row \in OldRows
          PROVE  Upgraded(row).status # "none"
      BY ConstantsAssumption, Zenon DEF Upgraded, AbsentJob
    <2> QED
      BY <2>1 DEF Init, AbsentIsEmpty
  <1>3. WorkerEvidence
    BY Zenon DEF Init, WorkerEvidence, ReportSteps
  <1> QED
    BY <1>1, <1>2, <1>3, Zenon DEF EvidenceInv

\* Every step keeps the inductive invariant.
LEMMA EvidenceStep ==
    ASSUME TypeOK, TypeOK', ProjectsFinishedRun, EvidenceInv, [Next]_vars
    PROVE  EvidenceInv'
  <1>1. CASE Next
    <2>1. AbsentIsEmpty'
      BY <1>1, JobRowSteps, Zenon DEF JobRowStep, EvidenceInv, AbsentIsEmpty
    <2>2. ReportEvidence' /\ DeliveredMeansPosted' /\ ResultLeavesQueue'
      BY <1>1, RowSteps, CommentStep, EvidenceTables, Zenon
    <2> QED
      BY <1>1, <2>1, <2>2, EvidenceWorker, Zenon DEF EvidenceInv
  <1>2. CASE UNCHANGED vars
    BY <1>2, Zenon DEF vars, EvidenceInv, ReportEvidence, JobStatusOfReport,
       DeliveredMeansPosted, ResultLeavesQueue, AbsentIsEmpty, WorkerEvidence
  <1> QED
    BY <1>1, <1>2, Zenon

\* The inductive invariant holds in every reachable state.
LEMMA EvidenceInvariant == Spec => []EvidenceInv
  <1>1. TypeOK /\ TypeOK' /\ ProjectsFinishedRun /\ EvidenceInv /\ [Next]_vars => EvidenceInv'
    BY EvidenceStep, Zenon
  <1> QED
    BY <1>1, EvidenceInit, TypeInvariant, PTL DEF Spec

\* A terminal result and its outbox row always exist together, and outside the
\* CI lifecycle the job's status is the one its outbox row calls for.
THEOREM ReportEvidenceHolds == Spec => []ReportEvidence
  <1>1. EvidenceInv => ReportEvidence
    BY Zenon DEF EvidenceInv
  <1> QED
    BY <1>1, EvidenceInvariant, PTL

\* MarkReportDelivered is reached only once the comment is on the issue, and
\* the comment says what the recorded result says.
THEOREM DeliveredMeansPostedHolds == Spec => []DeliveredMeansPosted
  <1>1. EvidenceInv => DeliveredMeansPosted
    BY Zenon DEF EvidenceInv
  <1> QED
    BY <1>1, EvidenceInvariant, PTL

\* No step replaces a result, unbinds a run, reopens a delivered report or
\* changes a posted comment.
THEOREM EvidenceKeptHolds == Spec => EvidenceKept
  <1> DEFINE Kept(k) == /\ result[k] # "none" => result'[k] = result[k]
                        /\ job[k].bound => job'[k].bound
                        /\ outbox[k].st = "delivered" => outbox'[k].st = "delivered"
                        /\ comment[k] # "none" => comment'[k] = comment[k]
  <1>1. ASSUME TypeOK, ProjectsFinishedRun, EvidenceInv, [Next]_vars
        PROVE  [\A k \in Keys : Kept(k)]_vars
    <2>1. CASE Next
      <3>1. ASSUME NEW k \in Keys
            PROVE  Kept(k)
        <4>1. /\ RowStep(k) /\ JobRowStep(k)
              /\ \/ comment'[k] = comment[k]
                 \/ comment[k] = "none" /\ comment'[k] = result[k]
          BY <1>1, <2>1, RowSteps, JobRowSteps, CommentStep, Zenon
        <4>2. /\ result[k] # "none" => result'[k] = result[k]
              /\ outbox[k].st = "delivered" => outbox'[k].st = "delivered"
          <5>1. result[k] # "none" <=> outbox[k].st # "none"
            BY <1>1, Zenon DEF EvidenceInv, ReportEvidence
          <5> QED
            BY <4>1, <5>1, Zenon DEF RowStep, Undisturbed, Queued, Marked, Requeued
        <4> QED
          BY <4>1, <4>2, Zenon DEF JobRowStep
      <3> QED
        BY <3>1, Zenon
    <2> QED
      BY <1>1, <2>1, Zenon
  <1> QED
    BY <1>1, TypeInvariant, EvidenceInvariant, PTL DEF Spec, EvidenceKept
=============================================================================
