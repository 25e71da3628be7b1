----------------------------- MODULE Dispatcher -----------------------------
(***************************************************************************)
(* The lifecycle of a repository task in github-task-dispatcher: a row of  *)
(* the jobs table from its first delivery to the delivered (or blocked)    *)
(* report, with the single worker that launches, polls and reports, the    *)
(* fetch loop and the operator commands that write the same SQLite file,   *)
(* crashes between any two transactions, and the start-up normalisation.   *)
(*                                                                         *)
(* A job is identified by its semantic key.  Every store transaction is    *)
(* one atomic step; a broker call is a step of its own, so everything that *)
(* can happen between a read, the call and the write that follows it does. *)
(* Wall-clock times are abstracted to the three facts the code derives     *)
(* from them: a job is due, a report is due, the launch window is closed.  *)
(***************************************************************************)
EXTENDS Naturals

CONSTANTS
    Keys,                    \* semantic job keys
    NoKey,                   \* "the worker holds no job"
    Outcomes,                \* terminal outcomes the broker may give a run
    PreOutboxMaxAttempts,    \* PreOutboxMaxAttempts (10 in the code)
    ReportRetryMaxAttempts,  \* ReportRetryMaxAttempts (24 in the code)
    MaxGeneration,           \* bound: external-wait generations of one run
    MaxCrashes,              \* bound: crashes of the dispatcher process
    Reporters,               \* reporter configurations a start may find
    OldRows                  \* rows an upgraded database may hold

BrokerOutcomes == {"no_change_required", "ready_for_review", "failed",
                   "timed_out", "stopped", "cancelled"}

ASSUME ConstantsAssumption ==
    /\ NoKey \notin Keys
    /\ Outcomes \subseteq BrokerOutcomes
    /\ PreOutboxMaxAttempts \in Nat \ {0}
    /\ ReportRetryMaxAttempts \in Nat \ {0}
    /\ MaxGeneration \in Nat
    /\ MaxCrashes \in Nat
    /\ Reporters \subseteq BOOLEAN
    /\ OldRows \subseteq {"pending", "retry", "running", "succeeded", "terminal",
                          "failed", "completed", "timed_out"} \X BOOLEAN
    /\ \A row \in OldRows : row[1] \in {"completed", "timed_out"} => row[2]

VARIABLES
    job,       \* jobs table
    result,    \* terminal_results table
    outbox,    \* notification_outbox table
    wait,      \* repository_run_external_waits table
    task,      \* repository_ci_tasks, abstracted to the phase of the task
    up,        \* the dispatcher process is running
    reporter,  \* a reporter broker URL is configured
    pc,        \* where the worker is inside RunOne
    cur,       \* the job the worker holds
    seen,      \* that job's status when the worker read it
    runs,      \* the sandbox broker: the run of each job's idempotency key
    comment,   \* the reporter: the comment posted under each report key
    crashes    \* crashes so far

durable == <<job, result, outbox, wait, task>>
process == <<up, reporter, pc, cur, seen>>
vars == <<job, result, outbox, wait, task, up, reporter, pc, cur, seen,
          runs, comment, crashes>>

-----------------------------------------------------------------------------
(* Vocabulary. *)

LaunchStates == {"pending_launch", "launch_retry"}
TerminalStates == {"completed", "failed", "timed_out", "stopped", "cancelled"}
CIStates == {"ci_waiting", "ci_repair", "ci_escalation"}
LifecycleStates ==
    LaunchStates \cup TerminalStates \cup CIStates \cup
    {"launched", "external_waiting", "report_pending", "report_retry",
     "report_blocked"}

\* Statuses written by earlier versions, rewritten by OpenStore.
LegacyStates == {"pending", "retry", "running", "succeeded", "terminal"}

\* What a terminal_results row says: the broker's projection, the fallback of
\* a launch that never acknowledged a run, or the fallback of a run whose
\* status or projection could not be obtained.
Results == BrokerOutcomes \cup {"launch_failure", "projection_failure"}

TaskPhases == {"none", "waiting", "repair", "escalation", "completed",
               "escalated", "blocked"}
OpenTask == {"waiting", "repair", "escalation"}

RunStates == {"none", "running", "waiting"} \cup BrokerOutcomes

WorkerSteps == {"asleep", "idle", "report", "reported", "report_retry",
                "report_blocked", "launch", "launched", "launch_retry",
                "launch_failed", "defer", "status", "malformed",
                "mark_status", "project", "fallback", "resume", "resumed",
                "resume_failed"}

AbsentJob == [status |-> "none", bound |-> FALSE, older |-> {},
              first |-> FALSE, closed |-> FALSE, due |-> FALSE, pre |-> 0]
NoReport == [st |-> "none", attempts |-> 0, due |-> FALSE, ahead |-> {}]
NoWait == [st |-> "none", gen |-> 0]
NoRun == [st |-> "none", gen |-> 0, resuming |-> FALSE]

Statuses == {"none"} \cup LifecycleStates \cup LegacyStates
Jobs == [status : Statuses, bound : BOOLEAN, older : SUBSET Keys, first : BOOLEAN,
         closed : BOOLEAN, due : BOOLEAN, pre : 0..PreOutboxMaxAttempts]
Reports == [st : {"none", "pending", "retry", "blocked", "delivered"},
            attempts : 0..ReportRetryMaxAttempts, due : BOOLEAN, ahead : SUBSET Keys]
Waits == [st : {"none", "waiting", "resume_ready", "resumed"}, gen : 0..MaxGeneration]
Runs == [st : RunStates, gen : 0..MaxGeneration, resuming : BOOLEAN]

Present == {k \in Keys : job[k].status # "none"}
Reported == {k \in Keys : outbox[k].st # "none"}

\* Mutant: a launched job no longer holds its place in the queue.
ClaimableUnlaunched(k) ==
    \/ job[k].status \in LaunchStates \cup {"external_waiting"}
    \/ job[k].status = "report_pending" /\ result[k] = "none"

\* ClaimDue considers these rows, oldest first.
Claimable(k) ==
    \/ job[k].status \in LaunchStates \cup {"launched", "external_waiting"}
    \/ job[k].status = "report_pending" /\ result[k] = "none"

\* Mutant: an older job blocks a younger one only while it is due.
HeadIfDue(k) == Claimable(k) /\ \A j \in job[k].older : ~(Claimable(j) /\ job[j].due)

Head(k) == Claimable(k) /\ \A j \in job[k].older : ~Claimable(j)

\* ClaimReportDue considers these rows, in order of creation.
Undelivered(k) == outbox[k].st \in {"pending", "retry"} /\ outbox[k].due
NextReport(k) == Undelivered(k) /\ \A j \in outbox[k].ahead : ~Undelivered(j)

\* RunOne looks for other work only when no report can be delivered.
ReportsFirst == reporter => \A k \in Keys : ~Undelivered(k)

\* Attempt counters matter only up to their limit.
Bump(n, limit) == IF n < limit THEN n + 1 ELSE n

\* Mutant: the outcome is written to the job as it is.
TerminalStatusVerbatim(r) ==
    IF r \in {"no_change_required", "ready_for_review"} THEN "completed" ELSE r

\* MarkReportDelivered: the job status a delivered report closes with.
TerminalStatus(r) ==
    CASE r \in {"no_change_required", "ready_for_review"} -> "completed"
      [] r \in {"timed_out", "stopped", "cancelled"}      -> r
      [] OTHER                                            -> "failed"

-----------------------------------------------------------------------------
(* Initial states: a fresh database, or one upgraded from an earlier       *)
(* version that holds one old row, with no process running yet.            *)

\* A row of an earlier version: its status, and whether a run is bound to it.
Upgraded(row) ==
    [AbsentJob EXCEPT !.status = row[1], !.bound = row[2],
                      !.first = (row[1] # "pending"), !.due = TRUE]

Init ==
    /\ job \in [Keys -> {AbsentJob} \cup {Upgraded(row) : row \in OldRows}]
    /\ \A j, k \in Keys : {j, k} \subseteq Present => j = k
    /\ runs \in [Keys -> {NoRun} \cup {[NoRun EXCEPT !.st = o] : o \in Outcomes}]
    /\ \A k \in Keys :
         /\ job[k].bound => runs[k] # NoRun
         /\ runs[k] # NoRun => job[k].bound \/ job[k].status = "failed"
    /\ result = [k \in Keys |-> "none"]
    /\ outbox = [k \in Keys |-> NoReport]
    /\ wait = [k \in Keys |-> NoWait]
    /\ task = [k \in Keys |-> "none"]
    /\ comment = [k \in Keys |-> "none"]
    /\ up = FALSE
    /\ reporter = FALSE
    /\ pc = "asleep"
    /\ cur = NoKey
    /\ seen = "none"
    /\ crashes = 0

-----------------------------------------------------------------------------
(* Opening the store: OpenStore rewrites rows on every start, and again    *)
(* whenever an operator command opens the database for writing.            *)

\* Mutant: an old success is taken for a reported completion.
MigratedAsCompleted(status, bound) ==
    CASE status = "pending"              -> "pending_launch"
      [] status \in {"retry", "running"} -> "launch_retry"
      [] status = "succeeded"            -> "completed"
      [] status = "terminal"             -> "failed"
      [] OTHER                           -> status

\* The statuses of earlier versions.
Migrated(status, bound) ==
    CASE status = "pending"              -> "pending_launch"
      [] status \in {"retry", "running"} -> "launch_retry"
      [] status = "succeeded" /\ bound   -> "launched"
      [] status = "terminal" \/ (status = "succeeded" /\ ~bound) -> "failed"
      [] OTHER                           -> status

\* Mutant: rows are sent back to report_pending whether or not a result exists.
NeedsReportAlways(k, status) ==
    job[k].bound /\ status \in {"completed", "failed", "timed_out"}

\* A bound job that looks finished, or blocked, without the terminal result
\* that reporting requires goes back to report_pending.
NeedsReport(k, status) ==
    /\ job[k].bound
    /\ result[k] = "none"
    /\ \/ status \in {"completed", "failed", "timed_out"}
       \/ status = "report_blocked" /\ outbox[k].st = "none"

NormalisedJob(k) ==
    LET status == Migrated(job[k].status, job[k].bound)
    IN  IF NeedsReport(k, status)
        THEN [job[k] EXCEPT !.status = "report_pending", !.due = TRUE]
        ELSE [job[k] EXCEPT !.status = status]

OpenStore == job' = [k \in Keys |-> NormalisedJob(k)]

\* The dispatcher starts: it opens the store and reads its configuration.
Start ==
    /\ ~up
    /\ OpenStore
    /\ up' = TRUE
    /\ reporter' \in Reporters
    /\ UNCHANGED <<result, outbox, wait, task, pc, cur, seen, runs, comment, crashes>>

\* The process dies between two steps; what it held in memory is gone.
Crash ==
    /\ up
    /\ crashes < MaxCrashes
    /\ up' = FALSE
    /\ pc' = "asleep"
    /\ cur' = NoKey
    /\ seen' = "none"
    /\ crashes' = crashes + 1
    /\ UNCHANGED <<durable, reporter, runs, comment>>

-----------------------------------------------------------------------------
(* The clock.  The worker runs one tick with the time of that tick, so     *)
(* something becomes due only between two ticks.                           *)

JobBecomesDue(k) ==
    /\ pc = "asleep"
    /\ Claimable(k)
    /\ ~job[k].due
    /\ job' = [job EXCEPT ![k].due = TRUE]
    /\ UNCHANGED <<result, outbox, wait, task, process, runs, comment, crashes>>

ReportBecomesDue(k) ==
    /\ pc = "asleep"
    /\ outbox[k].st = "retry"
    /\ ~outbox[k].due
    /\ outbox' = [outbox EXCEPT ![k].due = TRUE]
    /\ UNCHANGED <<job, result, wait, task, process, runs, comment, crashes>>

\* LaunchRetryWindow has passed since the first attempt; a retry is never
\* scheduled beyond that instant, so the job is due then.
WindowCloses(k) ==
    /\ pc = "asleep"
    /\ job[k].status \in LaunchStates
    /\ job[k].first
    /\ ~job[k].closed
    /\ job' = [job EXCEPT ![k].closed = TRUE, ![k].due = TRUE]
    /\ UNCHANGED <<result, outbox, wait, task, process, runs, comment, crashes>>

-----------------------------------------------------------------------------
(* The sandbox broker, external to this repository.                        *)

FinishRun(k) ==
    /\ runs[k].st \in {"running", "waiting"}
    /\ \E o \in Outcomes :
         runs' = [runs EXCEPT ![k].st = o, ![k].resuming = FALSE]
    /\ UNCHANGED <<durable, process, comment, crashes>>

\* GitHub is unavailable to the run: it waits under the next generation.
SuspendRun(k) ==
    /\ runs[k].st = "running"
    /\ runs[k].gen < MaxGeneration
    /\ runs' = [runs EXCEPT ![k].st = "waiting", ![k].gen = @ + 1]
    /\ UNCHANGED <<durable, process, comment, crashes>>

\* An accepted resume takes effect.
ContinueRun(k) ==
    /\ runs[k].st = "waiting"
    /\ runs[k].resuming
    /\ runs' = [runs EXCEPT ![k].st = "running", ![k].resuming = FALSE]
    /\ UNCHANGED <<durable, process, comment, crashes>>

-----------------------------------------------------------------------------
(* The fetch loop. *)

\* record: a selected delivery inserts the job, once per semantic key.  It is
\* due from the time the delivery was read, before or after the worker's tick.
Record(k) ==
    /\ up
    /\ job[k].status = "none"
    /\ \E due \in BOOLEAN :
         job' = [job EXCEPT ![k] = [AbsentJob EXCEPT !.status = "pending_launch",
                                                     !.older = Present, !.due = due]]
    /\ UNCHANGED <<result, outbox, wait, task, process, runs, comment, crashes>>

\* An authenticated issue event wakes the waiting run of that issue.
RecordRepositoryRunExternalWake(k) ==
    /\ up
    /\ job[k].status = "external_waiting"
    /\ wait[k].st \in {"waiting", "resume_ready"}
    /\ wait' = [wait EXCEPT ![k].st = "resume_ready"]
    /\ \E due \in BOOLEAN : job' = [job EXCEPT ![k].due = due]
    /\ UNCHANGED <<result, outbox, task, process, runs, comment, crashes>>

-----------------------------------------------------------------------------
(* The worker.  Hold and Release bracket one pass of RunOne; a pass that   *)
(* ends in an error ends the tick, any other is followed by another pass.  *)

Hold(k, step) == pc' = step /\ cur' = k /\ seen' = job[k].status
Goto(step) == pc' = step /\ UNCHANGED <<cur, seen>>
Release(step) == pc' = step /\ cur' = NoKey /\ seen' = "none"
Continue == Release("idle")
Abort == UNCHANGED durable /\ Release("asleep")

Tick ==
    /\ up
    /\ pc = "asleep"
    /\ pc' = "idle"
    /\ UNCHANGED <<durable, up, reporter, cur, seen, runs, comment, crashes>>

\* RunOne finds nothing due and the tick ends.
NoWork ==
    /\ pc = "idle"
    /\ ReportsFirst
    /\ \A k \in Keys : Head(k) => ~job[k].due
    /\ pc' = "asleep"
    /\ UNCHANGED <<durable, up, reporter, cur, seen, runs, comment, crashes>>

-----------------------------------------------------------------------------
(* Reporting: one outbox row is read, posted, and its outcome recorded. *)

ClaimReportDue(k) ==
    /\ pc = "idle"
    /\ reporter
    /\ NextReport(k)
    /\ Hold(k, "report")
    /\ UNCHANGED <<durable, up, reporter, runs, comment, crashes>>

\* Mutant: a failed call is taken for a delivery.
CallCommentOptimistic ==
    /\ pc = "report"
    /\ \/ comment' = [comment EXCEPT ![cur] = IF @ = "none" THEN result[cur] ELSE @]
       \/ UNCHANGED comment
    /\ Goto("reported")
    /\ UNCHANGED <<durable, up, reporter, runs, crashes>>

\* The reporter posts at most one comment under an idempotency key.  A lost
\* answer leaves the comment posted and the call failed.
CallComment ==
    /\ pc = "report"
    /\ \/ /\ comment' = [comment EXCEPT ![cur] = IF @ = "none" THEN result[cur] ELSE @]
          /\ \E step \in {"reported", "report_retry", "report_blocked"} : Goto(step)
       \/ /\ UNCHANGED comment
          /\ \E step \in {"report_retry", "report_blocked"} : Goto(step)
    /\ UNCHANGED <<durable, up, reporter, runs, crashes>>

ReportOpen(k) ==
    /\ outbox[k].st \in {"pending", "retry"}
    /\ job[k].status \in {"report_pending", "report_retry"}

RecordOutcome(st, status, due, jobDue) ==
    IF ReportOpen(cur)
    THEN /\ outbox' = [outbox EXCEPT ![cur].st = st, ![cur].due = due,
                          ![cur].attempts = Bump(@, ReportRetryMaxAttempts)]
         /\ job' = [job EXCEPT ![cur].status = status, ![cur].due = jobDue]
         /\ UNCHANGED <<result, wait, task>>
         /\ Continue
    ELSE Abort

MarkReportDelivered ==
    /\ pc = "reported"
    /\ RecordOutcome("delivered", TerminalStatus(result[cur]), TRUE, job[cur].due)
    /\ UNCHANGED <<up, reporter, runs, comment, crashes>>

MarkReportFailure ==
    /\ pc \in {"report_retry", "report_blocked"}
    /\ IF pc = "report_retry" /\ outbox[cur].attempts + 1 < ReportRetryMaxAttempts
       THEN RecordOutcome("retry", "report_retry", FALSE, FALSE)
       ELSE RecordOutcome("blocked", "report_blocked", TRUE, TRUE)
    /\ UNCHANGED <<up, reporter, runs, comment, crashes>>

-----------------------------------------------------------------------------
(* QueueTerminalResult: result row, outbox row and job move in one         *)
(* transaction, or none of them does.                                      *)

Queueable(k, r) ==
    /\ result[k] \in {"none", r}
    /\ job[k].status \in LaunchStates \cup {"launched", "report_pending",
                                           "report_retry", "failed"}

QueueTerminalResult(k, r) ==
    IF Queueable(k, r)
    THEN /\ result' = [result EXCEPT ![k] = r]
         /\ outbox' = IF outbox[k].st # "none" THEN outbox
                      ELSE [outbox EXCEPT ![k] = [st |-> "pending", attempts |-> 0,
                                                  due |-> TRUE, ahead |-> Reported]]
         /\ job' = [job EXCEPT ![k].status = "report_pending", ![k].due = TRUE,
                               ![k].pre = 0]
         /\ UNCHANGED <<wait, task>>
         /\ Continue
    ELSE Abort

-----------------------------------------------------------------------------
(* Launching. *)

\* Mutant: the launch is retried without regard to the window.
ClaimLaunchForever(k) ==
    /\ pc = "idle"
    /\ ReportsFirst
    /\ Head(k)
    /\ job[k].due
    /\ job[k].status \in LaunchStates
    /\ job' = [job EXCEPT ![k].first = TRUE]
    /\ Hold(k, "launch")
    /\ UNCHANGED <<result, outbox, wait, task, up, reporter, runs, comment, crashes>>

\* The claim of a job to launch.  A job whose retry window has closed is not
\* launched again; it gets the fallback result instead.
ClaimLaunch(k) ==
    /\ pc = "idle"
    /\ ReportsFirst
    /\ Head(k)
    /\ job[k].due
    /\ job[k].status \in LaunchStates
    /\ job' = [job EXCEPT ![k].first = TRUE]
    /\ Hold(k, IF job[k].first /\ job[k].closed THEN "launch_failed" ELSE "launch")
    /\ UNCHANGED <<result, outbox, wait, task, up, reporter, runs, comment, crashes>>

\* The broker keeps one run per idempotency key.  A failed call may have
\* created it: the answer was lost, or was malformed.
CallLaunch ==
    /\ pc = "launch"
    /\ \/ /\ runs' = [runs EXCEPT ![cur].st = IF @ = "none" THEN "running" ELSE @]
          /\ \E step \in {"launched", "launch_retry", "launch_failed"} : Goto(step)
       \/ /\ UNCHANGED runs
          /\ \E step \in {"launch_retry", "launch_failed"} : Goto(step)
    /\ UNCHANGED <<durable, up, reporter, comment, crashes>>

MarkLaunched ==
    /\ pc = "launched"
    /\ IF job[cur].status \in LaunchStates
       THEN /\ job' = [job EXCEPT ![cur].status = "launched", ![cur].bound = TRUE,
                                  ![cur].due = FALSE]
            /\ UNCHANGED <<result, outbox, wait, task>>
            /\ Continue
       ELSE Abort
    /\ UNCHANGED <<up, reporter, runs, comment, crashes>>

\* MarkLaunchFailure, which RunOne calls only for a retry.
MarkLaunchFailure ==
    /\ pc = "launch_retry"
    /\ IF job[cur].status \in LaunchStates
       THEN /\ job' = [job EXCEPT ![cur].status = "launch_retry", ![cur].due = FALSE]
            /\ UNCHANGED <<result, outbox, wait, task>>
            /\ Continue
       ELSE Abort
    /\ UNCHANGED <<up, reporter, runs, comment, crashes>>

QueueLaunchFailure ==
    /\ pc = "launch_failed"
    /\ QueueTerminalResult(cur, "launch_failure")
    /\ UNCHANGED <<up, reporter, runs, comment, crashes>>

-----------------------------------------------------------------------------
(* Polling a launched run (runStatus). *)

ClaimStatus(k) ==
    /\ pc = "idle"
    /\ ReportsFirst
    /\ Head(k)
    /\ job[k].due
    /\ job[k].status \notin LaunchStates
    /\ Hold(k, IF job[k].status = "report_pending" /\ ~reporter THEN "defer" ELSE "status")
    /\ UNCHANGED <<durable, up, reporter, runs, comment, crashes>>

DeferReportPending ==
    /\ pc = "defer"
    /\ IF job[cur].status = "report_pending" /\ result[cur] = "none"
       THEN /\ job' = [job EXCEPT ![cur].due = FALSE]
            /\ UNCHANGED <<result, outbox, wait, task>>
            /\ Continue
       ELSE Abort
    /\ UNCHANGED <<up, reporter, runs, comment, crashes>>

\* reconcilePreOutboxFailure up to its first commit: the attempt is counted,
\* and a failure that will not be retried goes on to the fallback result.
MarkPreOutboxFailure(recoverable, retryable) ==
    LET attempts == Bump(job[cur].pre, PreOutboxMaxAttempts)
    IN  IF job[cur].status \in {"launched", "report_pending"} /\ result[cur] = "none"
        THEN /\ job' = [job EXCEPT ![cur].status = recoverable, ![cur].pre = attempts,
                                   ![cur].due = FALSE]
             /\ UNCHANGED <<result, outbox, wait, task>>
             /\ IF retryable /\ attempts < PreOutboxMaxAttempts
                THEN Continue
                ELSE Goto("fallback")
        ELSE Abort

QueuePreOutboxFailure ==
    /\ pc = "fallback"
    /\ QueueTerminalResult(cur, "projection_failure")
    /\ UNCHANGED <<up, reporter, runs, comment, crashes>>

DeferRepositoryRunExternalResume ==
    IF job[cur].status = "external_waiting"
    THEN /\ job' = [job EXCEPT ![cur].due = FALSE,
                               ![cur].pre = Bump(@, PreOutboxMaxAttempts)]
         /\ UNCHANGED <<result, outbox, wait, task>>
         /\ Continue
    ELSE Abort

\* The status request fails.
PollFails ==
    /\ pc = "status"
    /\ IF seen = "external_waiting"
       THEN DeferRepositoryRunExternalResume
       ELSE \E retryable \in BOOLEAN : MarkPreOutboxFailure("launched", retryable)
    /\ UNCHANGED <<up, reporter, runs, comment, crashes>>

\* The answer names another run: an error, and nothing is recorded.
PollMiscorrelated ==
    /\ pc = "status"
    /\ Abort
    /\ UNCHANGED <<up, reporter, runs, comment, crashes>>

\* The run is not waiting.  A job that was waiting is first restored, which
\* needs a wake to have been recorded.
ReconcileRepositoryRunExternalResume(step) ==
    IF seen # "external_waiting"
    THEN UNCHANGED durable /\ Goto(step)
    ELSE IF wait[cur].st = "resume_ready" /\ job[cur].status = "external_waiting"
         THEN /\ wait' = [wait EXCEPT ![cur].st = "resumed"]
              /\ job' = [job EXCEPT ![cur].status = "launched", ![cur].due = TRUE,
                                    ![cur].pre = 0]
              /\ UNCHANGED <<result, outbox, task>>
              /\ Goto(step)
         ELSE Abort

PollAnswered ==
    /\ pc = "status"
    /\ runs[cur].st # "waiting"
    /\ ReconcileRepositoryRunExternalResume(
           IF runs[cur].st \in BrokerOutcomes THEN "project" ELSE "mark_status")
    /\ UNCHANGED <<up, reporter, runs, comment, crashes>>

\* ReconciledStatus does not know the status.
PollUnknown ==
    /\ pc = "status"
    /\ ReconcileRepositoryRunExternalResume("malformed")
    /\ UNCHANGED <<up, reporter, runs, comment, crashes>>

\* waiting_external without a valid wait description.
PollMalformedWait ==
    /\ pc = "status"
    /\ runs[cur].st = "waiting"
    /\ UNCHANGED durable
    /\ Goto("malformed")
    /\ UNCHANGED <<up, reporter, runs, comment, crashes>>

MarkMalformed ==
    /\ pc = "malformed"
    /\ MarkPreOutboxFailure("report_pending", FALSE)
    /\ UNCHANGED <<up, reporter, runs, comment, crashes>>

MarkStatus ==
    /\ pc = "mark_status"
    /\ IF job[cur].status \in {"launched", "report_pending"}
       THEN /\ job' = [job EXCEPT ![cur].status = "launched", ![cur].due = FALSE,
                                  ![cur].pre = 0]
            /\ UNCHANGED <<result, outbox, wait, task>>
            /\ Continue
       ELSE Abort
    /\ UNCHANGED <<up, reporter, runs, comment, crashes>>

-----------------------------------------------------------------------------
(* External waits. *)

\* Mutants: a replayed status overwrites the row; every wait is resumed.
RecordWaitAfresh ==
    /\ pc = "status"
    /\ runs[cur].st = "waiting"
    /\ wait' = [wait EXCEPT ![cur] = [st |-> "waiting", gen |-> runs[cur].gen]]
    /\ job' = [job EXCEPT ![cur].status = "external_waiting", ![cur].due = FALSE]
    /\ Continue
    /\ UNCHANGED <<result, outbox, task, up, reporter, runs, comment, crashes>>

RecordWaitAndResume ==
    /\ pc = "status"
    /\ runs[cur].st = "waiting"
    /\ wait' = [wait EXCEPT ![cur] = [st |-> "waiting", gen |-> runs[cur].gen]]
    /\ job' = [job EXCEPT ![cur].status = "external_waiting", ![cur].due = FALSE]
    /\ Goto("resume")
    /\ UNCHANGED <<result, outbox, task, up, reporter, runs, comment, crashes>>

\* A new generation starts waiting; a replay of the recorded one keeps what
\* the row says, so a wake already recorded leads to a resume.
RecordRepositoryRunExternalWait ==
    /\ pc = "status"
    /\ runs[cur].st = "waiting"
    /\ LET row == IF wait[cur].st # "none" /\ wait[cur].gen = runs[cur].gen
                  THEN wait[cur]
                  ELSE [st |-> "waiting", gen |-> runs[cur].gen]
       IN  IF runs[cur].gen < wait[cur].gen
           THEN Abort
           ELSE /\ wait' = [wait EXCEPT ![cur] = row]
                /\ job' = [job EXCEPT ![cur].status = "external_waiting",
                                      ![cur].due = FALSE]
                /\ UNCHANGED <<result, outbox, task>>
                /\ IF row.st = "resume_ready" THEN Goto("resume") ELSE Continue
    /\ UNCHANGED <<up, reporter, runs, comment, crashes>>

\* The resume key names the generation, so the broker resumes only that one.
\* The answer may be lost after the resume was accepted.
CallResumeRun ==
    /\ pc = "resume"
    /\ \/ /\ runs' = [runs EXCEPT ![cur].resuming =
                          @ \/ (runs[cur].st = "waiting" /\ runs[cur].gen = wait[cur].gen)]
          /\ \E step \in {"resumed", "resume_failed"} : Goto(step)
       \/ UNCHANGED runs /\ Goto("resume_failed")
    /\ UNCHANGED <<durable, up, reporter, comment, crashes>>

MarkRepositoryRunExternalResumed ==
    /\ pc = "resumed"
    /\ IF wait[cur].st = "resume_ready" /\ job[cur].status = "external_waiting"
       THEN /\ wait' = [wait EXCEPT ![cur].st = "resumed"]
            /\ job' = [job EXCEPT ![cur].status = "launched", ![cur].due = FALSE,
                                  ![cur].pre = 0]
            /\ UNCHANGED <<result, outbox, task>>
            /\ Continue
       ELSE Abort
    /\ UNCHANGED <<up, reporter, runs, comment, crashes>>

ResumeFails ==
    /\ pc = "resume_failed"
    /\ DeferRepositoryRunExternalResume
    /\ UNCHANGED <<up, reporter, runs, comment, crashes>>

-----------------------------------------------------------------------------
(* The terminal projection of a finished run. *)

\* The projection cannot be fetched, or does not validate.
ProjectionFails ==
    /\ pc = "project"
    /\ \E retryable \in BOOLEAN : MarkPreOutboxFailure("report_pending", retryable)
    /\ UNCHANGED <<up, reporter, runs, comment, crashes>>

ProjectTerminalResult ==
    /\ pc = "project"
    /\ runs[cur].st # "ready_for_review"
    /\ QueueTerminalResult(cur, runs[cur].st)
    /\ UNCHANGED <<up, reporter, runs, comment, crashes>>

\* BeginCIWait: a delivered pull request is not terminal.  The job moves only
\* from launched (or ci_waiting); the task row is inserted in any case.  A
\* replay is accepted when it computes the recorded deadline, which is the
\* case within one tick, and is otherwise a conflict.
BeginCIWait ==
    /\ pc = "project"
    /\ runs[cur].st = "ready_for_review"
    /\ \/ /\ task' = [task EXCEPT ![cur] = IF @ = "none" THEN "waiting" ELSE @]
          /\ job' = IF job[cur].status \in {"launched", "ci_waiting"}
                    THEN [job EXCEPT ![cur].status = "ci_waiting", ![cur].due = FALSE]
                    ELSE job
          /\ UNCHANGED <<result, outbox, wait>>
          /\ Continue
       \/ task[cur] # "none" /\ Abort
    /\ UNCHANGED <<up, reporter, runs, comment, crashes>>

-----------------------------------------------------------------------------
(* The CI lifecycle after BeginCIWait, one step per pass of RunOne that    *)
(* works on it: the phase of the task and what each write does to the job. *)
(* Every one of these writes names the job by id only.                     *)

CIStep(k, from, to, status) ==
    /\ pc = "idle"
    /\ task[k] = from
    /\ task' = [task EXCEPT ![k] = to]
    /\ job' = [job EXCEPT ![k].status = status]
    /\ UNCHANGED <<result, outbox, wait, process, runs, comment, crashes>>

\* ApplyCIObservation, by the state observed.  Only a reporter can be asked for it.
CIPending(k)     == reporter /\ CIStep(k, "waiting", "waiting", "ci_waiting")
CISucceeds(k)    == reporter /\ CIStep(k, "waiting", "completed", "completed")
CICodeFailure(k) == reporter /\ CIStep(k, "waiting", "repair", "ci_repair")

\* queueCIEscalation, from an observation or from a finished repair.
CIEscalates(k) ==
    \E from \in {"waiting", "repair"} : CIStep(k, from, "escalation", "ci_escalation")

\* FinishCIRepairFailure with another attempt, CompleteCIRepairDelivery.
CIRepairAgain(k)     == CIStep(k, "repair", "repair", "ci_repair")
CIRepairDelivered(k) == CIStep(k, "repair", "waiting", "ci_waiting")

\* MarkCIEscalationDelivered, MarkCIEscalationFailure when it blocks.
CIEscalationDelivered(k) == reporter /\ CIStep(k, "escalation", "escalated", "failed")
CIEscalationBlocked(k) == reporter /\ CIStep(k, "escalation", "blocked", "report_blocked")

\* A CI pass that records an error: nothing of the job moves, the tick ends.
CIError(k) ==
    /\ pc = "idle"
    /\ task[k] \in OpenTask
    /\ pc' = "asleep"
    /\ UNCHANGED <<durable, up, reporter, cur, seen, runs, comment, crashes>>

CIAction(k) ==
    \/ CIPending(k) \/ CISucceeds(k) \/ CICodeFailure(k) \/ CIEscalates(k)
    \/ CIRepairAgain(k) \/ CIRepairDelivered(k)
    \/ CIEscalationDelivered(k) \/ CIEscalationBlocked(k)
    \/ CIError(k)

-----------------------------------------------------------------------------
(* Operator commands: separate processes on the same database. *)

\* recovery-metadata, and an --execute command that refuses its target, change
\* nothing themselves, but they open the store for writing.
OperatorOpensStore ==
    /\ OpenStore
    /\ UNCHANGED <<result, outbox, wait, task, process, runs, comment, crashes>>

\* Mutant: any report of the run is requeued, blocked or not.
ReconcileAnyReport(k) ==
    /\ job[k].bound
    /\ result[k] \notin {"none", "launch_failure"}
    /\ outbox' = [outbox EXCEPT ![k].st = "retry", ![k].due = FALSE]
    /\ job' = [j \in Keys |-> IF j = k THEN [job[k] EXCEPT !.status = "report_retry"]
                              ELSE NormalisedJob(j)]
    /\ UNCHANGED <<result, wait, task, process, runs, comment, crashes>>

\* reconcile-report --execute, for a report of an acknowledged run.
ReconcileBlockedReport(k) ==
    /\ job[k].bound
    /\ result[k] \notin {"none", "launch_failure"}
    /\ job[k].status = "report_blocked"
    /\ outbox[k].st = "blocked"
    /\ outbox' = [outbox EXCEPT ![k].st = "retry", ![k].due = FALSE]
    /\ job' = [j \in Keys |-> IF j = k THEN [job[k] EXCEPT !.status = "report_retry"]
                              ELSE NormalisedJob(j)]
    /\ UNCHANGED <<result, wait, task, process, runs, comment, crashes>>

\* reconcile-failed-launch --execute binds the run the broker really has.
ReconcileFailedLaunch(k) ==
    /\ NormalisedJob(k).status = "failed"
    /\ ~job[k].bound
    /\ result[k] = "none"
    /\ outbox[k].st = "none"
    /\ runs[k].st \in BrokerOutcomes
    /\ job' = [j \in Keys |->
                 IF j = k THEN [job[k] EXCEPT !.status = "launched", !.bound = TRUE,
                                              !.due = FALSE]
                 ELSE NormalisedJob(j)]
    /\ UNCHANGED <<result, outbox, wait, task, process, runs, comment, crashes>>

-----------------------------------------------------------------------------
(* The specification. *)

Clock(k) == JobBecomesDue(k) \/ ReportBecomesDue(k) \/ WindowCloses(k)
Broker(k) == FinishRun(k) \/ SuspendRun(k) \/ ContinueRun(k)
Fetch(k) == Record(k) \/ RecordRepositoryRunExternalWake(k)
Operator(k) == ReconcileBlockedReport(k) \/ ReconcileFailedLaunch(k)
Claim(k) == ClaimReportDue(k) \/ ClaimLaunch(k) \/ ClaimStatus(k)

Reporting == CallComment \/ MarkReportDelivered \/ MarkReportFailure
Launching ==
    CallLaunch \/ MarkLaunched \/ MarkLaunchFailure \/ QueueLaunchFailure
Polling ==
    \/ DeferReportPending
    \/ PollFails \/ PollMiscorrelated \/ PollAnswered \/ PollUnknown \/ PollMalformedWait
    \/ MarkMalformed \/ MarkStatus \/ QueuePreOutboxFailure
    \/ RecordRepositoryRunExternalWait \/ CallResumeRun
    \/ MarkRepositoryRunExternalResumed \/ ResumeFails
    \/ ProjectionFails \/ ProjectTerminalResult \/ BeginCIWait

Worker == Tick \/ NoWork \/ Reporting \/ Launching \/ Polling

Next ==
    \/ Start \/ Crash \/ Worker \/ OperatorOpensStore
    \/ \E k \in Keys : Clock(k) \/ Broker(k) \/ Fetch(k) \/ Operator(k)
                       \/ Claim(k) \/ CIAction(k)

Spec == Init /\ [][Next]_vars

-----------------------------------------------------------------------------
(* Safety. *)

\* The parts of TypeOK.
JobsOK == job \in [Keys -> Jobs]
ResultsOK == result \in [Keys -> {"none"} \cup Results]
OutboxOK == outbox \in [Keys -> Reports]
WaitsOK == wait \in [Keys -> Waits]
TasksOK == task \in [Keys -> TaskPhases]
RunsOK == runs \in [Keys -> Runs]
CommentsOK == comment \in [Keys -> {"none"} \cup Results]
WorkerOK ==
    /\ up \in BOOLEAN
    /\ reporter \in BOOLEAN
    /\ pc \in WorkerSteps
    /\ cur \in Keys \cup {NoKey}
    /\ (pc \in {"asleep", "idle"}) <=> (cur = NoKey)
    /\ seen \in Statuses
    /\ crashes \in 0..MaxCrashes

\* The tables, the worker's registers and the environment hold the values the
\* code can write, attempt counters stay within their limits, and the worker
\* holds a job exactly while it is inside a pass of RunOne.
TypeOK ==
    /\ JobsOK
    /\ ResultsOK
    /\ OutboxOK
    /\ WaitsOK
    /\ TasksOK
    /\ RunsOK
    /\ CommentsOK
    /\ WorkerOK

\* A terminal result and its outbox row exist together, and outside the CI
\* lifecycle the job says exactly what the outbox row says: nobody ever sees
\* a job as finished, retrying or blocked while its report is something else.
\* (QueueTerminalResult, MarkReportDelivered, MarkReportFailure, OpenStore.)
JobStatusOfReport(k) ==
    CASE outbox[k].st = "pending"   -> "report_pending"
      [] outbox[k].st = "retry"     -> "report_retry"
      [] outbox[k].st = "blocked"   -> "report_blocked"
      [] outbox[k].st = "delivered" -> TerminalStatus(result[k])

ReportEvidence ==
    \A k \in Keys :
        /\ result[k] # "none" <=> outbox[k].st # "none"
        /\ result[k] # "none" /\ task[k] = "none" => job[k].status = JobStatusOfReport(k)

\* A running dispatcher shows no job as finished without a terminal result,
\* except an old launch that never had a run, or a CI lifecycle that ended.
NoSilentTerminal ==
    \A k \in Keys :
        up /\ job[k].status \in TerminalStates /\ task[k] = "none" /\ result[k] = "none"
            => job[k].status = "failed" /\ ~job[k].bound

\* A report counts as delivered only once the comment is on the issue, and a
\* comment that is there says what the recorded result says, whichever calls
\* failed, were repeated or were cut off by a crash.
DeliveredMeansPosted ==
    \A k \in Keys :
        /\ outbox[k].st = "delivered" => comment[k] # "none"
        /\ comment[k] # "none" => comment[k] = result[k]

\* Jobs are launched in the order in which they were recorded: while an older
\* job waits for its launch, also between two retries, a younger one has not
\* been attempted.  (ClaimDue.)
LaunchOrder ==
    \A k \in Keys : \A j \in job[k].older :
        job[j].status \in LaunchStates
            => job[k].status = "pending_launch" /\ ~job[k].first /\ runs[k] = NoRun

\* While the worker launches one job, every run the broker still works on for
\* another job is one the dispatcher has given up on with a fallback result.
OneRunAtATime ==
    pc = "launch" =>
        \A j \in Keys \ {cur} :
            runs[j].st \in {"running", "waiting"}
                => result[j] \in {"launch_failure", "projection_failure"}

\* A run is being resumed only under the generation whose wake was recorded.
ResumeNeedsWake ==
    \A k \in Keys :
        runs[k].resuming => /\ wait[k].gen = runs[k].gen
                            /\ wait[k].st \in {"resume_ready", "resumed"}

-----------------------------------------------------------------------------
(* What a step may never do. *)

\* A recorded wake is only ever used up by a resume, or made obsolete by a
\* later generation: replaying the status does not erase it.
WakeKept ==
    [][\A k \in Keys :
         wait[k].st = "resume_ready" =>
            \/ wait'[k].st \in {"resume_ready", "resumed"} /\ wait'[k].gen = wait[k].gen
            \/ wait'[k].gen > wait[k].gen]_vars

\* Evidence is permanent: a result is never replaced, a run never unbound, a
\* delivered report never reopened and a posted comment never changed, by the
\* worker, a restart or an operator.
EvidenceKept ==
    [][\A k \in Keys :
         /\ result[k] # "none" => result'[k] = result[k]
         /\ job[k].bound => job'[k].bound
         /\ outbox[k].st = "delivered" => outbox'[k].st = "delivered"
         /\ comment[k] # "none" => comment'[k] = comment[k]]_vars

-----------------------------------------------------------------------------
(* Liveness. *)

\* A crashed process is restarted and the worker keeps running; time passes;
\* runs end; and the broker does not answer every status request, for ever,
\* with another run's status.
Fairness ==
    /\ WF_vars(Start)
    /\ WF_vars(Worker \/ \E k \in Keys : Claim(k))
    /\ SF_vars(PollAnswered)
    /\ SF_vars(\E k \in Keys : JobBecomesDue(k))
    /\ \A k \in Keys : SF_vars(ReportBecomesDue(k))
    /\ SF_vars(\E k \in Keys : WindowCloses(k))
    /\ WF_vars(\E k \in Keys : FinishRun(k))

FairSpec == Spec /\ Fairness

\* Every recorded job ends with its report delivered or explicitly blocked:
\* no mixture of broker failures, retries and crashes leaves it in between.
JobSettles ==
    \A k \in Keys :
        up /\ job[k].status \in LifecycleStates /\ (job[k].status = "failed" => job[k].bound)
            ~> outbox[k].st \in {"blocked", "delivered"}

-----------------------------------------------------------------------------
(* What the repository's documentation says and the code does not do. *)

\* docs/repository-ci-repair.md:31: "An authoritative success completes
\* silently."  OpenStore puts a job completed by its CI back into
\* report_pending, because it has no terminal result; a poll that fails then
\* posts the comment of a failure.
CISuccessIsSilent ==
    \A k \in Keys : task[k] = "completed" => comment[k] = "none"
=============================================================================
