# A TLA+ verification of the signal plane

The signal plane turns GitHub webhooks into work: a gateway publishes each
admitted webhook to NATS JetStream, and consumers act on it. The consumer with
the most at stake is `github-task-dispatcher`, which launches one coding run per
labelled issue at a sandbox broker, follows it to its end, guards the pull
request it delivers through CI, and reports the result on the issue, over
crashes, lost answers and operator interventions. The same process works on a
ledger of routed work items, and a second consumer scans pushes for leaked
credentials.

These modules model that system from its Go source, model-check it with TLC on
small instances, and prove the main results for every instance with TLAPS.

Paths below are relative to `src/`; file names without a directory are in
`internal/dispatcher`.

## 1. The system

| part | source | durable state | modelled in |
|---|---|---|---|
| signal gateway | `internal/gateway` | none; publishes with the delivery id as message id | `Gateway`, `Intake` |
| event bus | `internal/eventbus`, `internal/envelope` | the stream and its durable consumers | `Intake` |
| dispatcher, intake | `dispatcher.go` (`process`), `predicate.go`, `store.go` (`record`) | `deliveries`, `jobs`, the checkpoint | `Gateway`, `Intake` |
| recovery | `internal/recovery`, `store.go` | `recovery_*` tables | `Intake` |
| dispatcher, job lifecycle | `dispatcher.go` (`RunOne`, `runStatus`), `store.go`, `terminal.go` | `jobs`, `terminal_results`, `notification_outbox` | `Dispatcher` |
| dispatcher, external waits | `external_wait.go` | `repository_run_external_waits` | `Dispatcher` |
| dispatcher, CI wait and repair | `ci_repair.go`, `dispatcher.go` (`runCIRepairStatus`) | five `repository_ci_*` tables | `CIRepair`, `CILifecycle`; its writes to `jobs` in `Dispatcher` |
| broker client | `broker.go` | none; the broker keeps one run per idempotency key, the reporter one comment per key | the call steps of `Dispatcher` and `CIRepair` |
| dispatcher process | `cmd/github-task-dispatcher/main.go` | none | start, tick, crash and operator steps of all four |
| work ledger | `internal/workledger` | `work_items`, `executor_attempts`, `serialization_leases`, routes, events | `WorkLedger` |
| release upload, work item launch, shadow ingress, route activation | `internal/resumeupload`, `workitemlaunch`, `shadowingress*`, `routeresolver`, `routeactivatecmd` | the work ledger | `WorkRouter` |
| push security scanner | `internal/pushscan`, `cmd/push-security-scanner` | receipts, results, events, fingerprints | `PushScan` |
| observer | `internal/observer` | none | not modelled (section 6) |

How they interact. The gateway publishes before it answers, so an accepted
webhook is in the stream. The dispatcher's fetch loop takes one message at a
time, commits it to SQLite in three transactions (CI event, external wake,
delivery with job and checkpoint) and acknowledges after the last. The worker, a
goroutine of the same process, repeats `RunOne` until nothing is due, all with
the clock reading of the tick. One pass of `RunOne` does one thing, in this
order of preference: deliver a CI escalation, reconcile CI, launch a repair,
follow a repair, deliver a report, and last the oldest active job (launch it, or
poll its run). Every database write is one transaction on a single connection;
every broker call happens between two transactions. Operator commands are other
processes on the same file, and those that open it for writing run the start-up
normalisation of `OpenStore` while the dispatcher may be at work.

What is hard, in one line each; the full list with source lines and the
properties aimed at each is under `hazards` in `PROJECT.json`:

* a call has its effect and loses its answer, or the process dies before it
  records the answer, so everything is retried under idempotency keys and
  bounded by windows, counters and deadlines;
* one queue in order, whose head must progress or leave;
* `OpenStore` rewrites rows by what is missing elsewhere, on databases of any
  earlier version and beside a live worker;
* webhooks, polls, deadlines and operators write the same rows in any order;
* acknowledgement, checkpoint, replay evidence and stored work must agree at
  every point where a process can stop;
* leases, attempts and items of the ledger are written by an executor loop, a
  consumer, a socket and a recovery that knows none of them.

## 2. The modules

| module | what it is |
|---|---|
| `Dispatcher` | jobs, reports, external waits, and the CI lifecycle by its effect on a job |
| `MCDispatcher` | its instances: symmetry of the keys, the rows an upgraded database may hold |
| `DispatcherProofs`, `DispatcherQueueProofs` | theorems about `Dispatcher`: types and evidence; the queue, finished jobs and resumes |
| `CILifecycle` | abstract: what the CI lifecycle of one pull request promises |
| `CIRepair` | the CI tables, the worker, GitHub and the broker; implements `CILifecycle` |
| `CIRepairProofs` | inductive invariant of `CIRepair`, and the theorems, the refinement among them |
| `CIRepairRunProofs` | theorems about the repair runs and the heads they rest on |
| `Gateway` | pure decisions: admission, the published signal, task selection |
| `Intake` | composition of gateway, stream, fetch loop, backup and recovery |
| `MCIntake` | its instance: eight webhooks and their routes |
| `IntakeProofs` | theorems about `Intake` |
| `WorkLedger` | the ledger's transactions as operators on its tables |
| `WorkRouter` | composition: start-up, socket, release consumer, executor loop over one ledger |
| `MCWorkRouter` | its instances: three routes, facts, messages |
| `WorkLedgerProofs`, `WorkRouterProofs` | what every transaction of the ledger keeps and the inductive invariant of `WorkRouter`; the theorems |
| `PushScan`, `MCPushScan` | the scanner loop beside the fingerprint registry, and its instance |
| `PushScanProofs` | theorems about `PushScan` |

Conventions that all share. A transaction is one action with the name of the Go
function, and whatever the function calls inside it is part of the action. A
call to another service is a step of its own, with three outcomes: effect and
answer, effect without an answer, neither. Services outside the repository
(broker, reporter, GitHub, JetStream, YouKnowMe) are modelled from how the code
uses them and marked external in the map. Time is abstracted to what the code
derives from it: a flag says that something is due, that a window has closed or
that a deadline has passed. Here and there a definition is the operator after it
with a plausible mistake; its comment says which, no specification uses it, and
`PROJECT.json` lists these (`mutants`) with the property each one breaks.

### 2.1 `Dispatcher`

A job is named by its semantic key. `job[k]`, `result[k]`, `outbox[k]`,
`wait[k]` are the rows of the tables, `task[k]` the phase of the CI task (`repair` is
`repair_ready` and `repair_running`), `pc`, `cur`, `seen` the worker inside
`RunOne`, `runs[k]` the broker's run under the job's key, `comment[k]` the
comment under the report's key. Clock actions run only between ticks, because
the worker uses one reading per tick; the fetch loop has its own clock.

* `Start`, `Crash`, `OperatorOpensStore`: `OpenStore` migrates old statuses
  (`Migrated`) and sends bound rows that look finished without a terminal result
  back to `report_pending` (`NeedsReport`).
* `Record`, `RecordRepositoryRunExternalWake`: the fetch loop.
* `ClaimReportDue`, `CallComment`, `MarkReportDelivered`, `MarkReportFailure`;
  `ClaimLaunch`, `CallLaunch`, `MarkLaunched`, `MarkLaunchFailure`,
  `QueueLaunchFailure`; `ClaimStatus`, the answers to a poll, and what follows
  them (`MarkStatus`, `ProjectTerminalResult`, `BeginCIWait`,
  `QueuePreOutboxFailure`, the resume of a wait).
* `CIAction`: the CI lifecycle by its effect on the job and the task's phase;
  `CIRepair` has the inside of it.
* `ReconcileBlockedReport`, `ReconcileFailedLaunch`: operator commands,
  including the normalisation they run first.

A transaction whose guarded UPDATE matches no row fails as a whole and ends the
tick (`Abort`).

| property | says |
|---|---|
| `ReportEvidence` | result and outbox row exist together, and outside CI the job says what the outbox row says |
| `NoSilentTerminal` | a running dispatcher shows no job finished without a result, except an old unbound launch failure or an ended CI lifecycle |
| `DeliveredMeansPosted` | delivered implies posted, and what is posted is the recorded result |
| `LaunchOrder` | while an older job waits for its launch, also between retries, no younger one was attempted |
| `OneRunAtATime` | during a launch every other live run is one already given up with a fallback result |
| `ResumeNeedsWake` | a run is being resumed only under the generation whose wake is recorded |
| `WakeKept` | a recorded wake is only used up by a resume or made obsolete by a later generation |
| `EvidenceKept` | no step replaces a result, unbinds a run, reopens a delivered report or changes a comment |
| `JobSettles` | where a reporter is configured, every job ends with its report delivered or blocked |

### 2.2 `CIRepair` and `CILifecycle`

The tables are keyed by job and no statement joins two, so one task stands for
each. `task`, `recs` (reconciliations by head), `atts` (attempts by number) and
`esc` (the escalation outbox row) are the store; `pc`, `cur`, `saw` the worker;
`pr`, `ci`, `news`, `runs` are the pull request's head, the CI of each head, the
webhooks under way and the repair runs. Heads are numbered in the order they are
pushed. The actions are those of the CI part of `RunOne` and
`runCIRepairStatus`: claim, call, record, with a crash, a lost webhook, a foreign
push and a timer between any two. A flag that no query reads in a row's state is
kept FALSE, and the world stands still once the task is decided.

`reporter` says whether the running process has a reporter, which is optional
(`internal/config/config.go:435`) and may differ from start to start. Without one
`RunOne` looks at no escalation (`dispatcher.go:281`) and an observation fails
for good (`broker.go:168`), which queues one. The task then stays in
`ci_escalation` until a start finds a reporter.

`CILifecycle` has two variables, the phase and the number of authorised repairs,
and five actions: succeed, repair (at most `MaxAttempts` times), deliver,
escalate, tell. `CIRepair` implements it under the mapping `phase <-
PhaseOf[task.st]`, `repairs <-` the number of attempt rows.

| property | says |
|---|---|
| `AttemptMatchesTask` | a task ready for repair has exactly one attempt to launch, one under repair exactly one to poll, any other none |
| `ChargedInOrder` | `repair_attempts` counts each charged attempt once |
| `ChargedOnlyIfStarted` | only runs whose model execution started are charged |
| `OneRepairRun` | two repair runs never work on the branch at the same time |
| `RepairOnlyOnFailure` | a repair run rests on a code failure of its head, a completion on a green head, however late the observation is applied |
| `WakeKept` | an event noted while an observation of the current head is in flight leaves the reconciliation open while the task waits |
| `ImplementsLifecycle` | every step is one of `CILifecycle` or leaves it alone |
| `EndsAsPromised` | the task follows `CILifecycle` and, if from some point on a reporter is configured, ends, as the fair `CILifecycle` does; an escalation queued while there was none is delivered or blocked once there is |

### 2.3 `Gateway` and `Intake`

`Gateway` has `Admit` (source, signature, push refs, tuples or lists, ping),
`Signal` (what is published, with the object it is about) and `Select` (the
semantic key, or none). A request is a record of the fields these functions tell
apart; body limits, JSON and signatures are one Boolean each.

`Intake` composes them with the stream. `durable` is the consumer with
redelivery, `MaxDeliver` and `MaxAckPending`; `hand` the message the fetch loop
holds and the transaction it is at; `db` the dispatcher's database (checkpoint,
deliveries, CI events, wakes, jobs, recovery runs); `saved` a backup; `cmd` the
running `recover` command. `process` is four steps (`RecordCIEvent`,
`RecordExternalWake`, `Record`, `AckSync`), each of which may fail. `Backup` and
`Restore` are the operator's; recovery is `BeginRecovery`,
`PrepareRecoveryJobs`, `ResetConsumer`, the replay through the same `process`
steps, `ReconcileStatus`, `RecordReconciliation`, `CompleteRecovery`, cut off
anywhere by `RecoveryFails`. A job is reduced to the statuses recovery tells
apart; `unprojected` is a `report_pending` job whose result could not be read, so
that it has neither a terminal result nor an outbox row.

| property | says |
|---|---|
| `WorkKept` | while the dispatcher serves, every signal in the stream is in its database or still to come, but for exhausted deliveries and what the last restore passed over (`PassedOver`) |
| `EvidenceMatchesCheckpoint` | what an incomplete recovery replayed is exactly the range up to the checkpoint; a completed one replayed a gap-free range the database holds |
| `JobsAreRequested` | every job stems from a verified webhook that put the label of the job's route on the job's issue, an open one in the repository of the route (`AsksFor`) |
| `AcceptedIsStored` | an accepted webhook ends up in the database, unless its deliveries are exhausted or recovery can no longer be completed |

Things the model shows that a reader of the code may not expect. `BeginRecovery`
inserts its row before it looks at other incomplete recoveries, so a second
recovery ID leaves two that block each other. Recovery refuses a database whose
jobs wait for their launch or outside. A restored job whose run is ready for
review goes to `ci_waiting`, and one whose result cannot be read to
`report_pending` without a result; `RecordReconciliation` refuses both
(`store.go:451`, `store.go:470`), and a rerun reads the missing result again. A
message that cannot be stored is dropped by the service and ends every recovery.
`Stuck` names the states that no rerun leaves; in all of them the dispatcher fails
closed. One case does not: the fence of `AssertRecoveryComplete` asks for one completed recovery whose manifest is the
configured checkpoint (`store.go:537`). A backup taken after such a recovery and
before the next message carries its evidence. When that backup is restored, the
fence is open at once, and the dispatcher starts without a replay, on the
consumer as it stands; `PassedOver` counts what the database lacks then. If the
operator does run a second recovery for the same start, two are completed, and
`completed != 1` refuses every later start (`store.go:540`).

### 2.4 `WorkLedger` and `WorkRouter`

`WorkLedger` gives each transaction as an operator from the ledger before it to
the ledger after it: `saveRoute`, `Admitted` (with supersession), `Claimed`,
`Completed`, `Recovered` and the helpers they are made of. Times are the order
they induce: `due` holds the due items, each with the due items ahead of it in
`next_attempt_at` order, and a claim takes one with nothing claimable ahead
(`FirstClaimable`).

`WorkRouter` runs them from the places the dispatcher process does. `proc` is the
start-up (activate each route or refuse, serve the socket, activate the release
route, recover), `exec` the executor loop, `ing` the release consumer; `asset`,
`uploads`, `runs` and `msgs` are GitHub, YouKnowMe, the broker and JetStream. The
three executors are the upload executor, the launch executor, and one that
polls: no wired executor answers `waiting` today, and it stands for the
`Executor` interface, which allows it and which `Complete` handles. Two refusals of
`Complete`, of a waiting answer without a valid schedule and of an unknown outcome
(`internal/workledger/store.go:502`), answer results that no executor gives.
`RouterConstants` assumes that the release route is not one of the socket's
routes. The configuration compares only their paths
(`internal/config/config.go:565`), so this is an assumption about what is deployed;
`BoundIsActive` rests on it.

| property | says |
|---|---|
| `LeasesHeld` | an item is active exactly while one of its attempts runs and holds its key's only lease |
| `NewKeyAfterFailure` | the broker sees another key for an item only once the attempt before was recorded as failed and retryable |
| `UploadsFaithful` | what is held under a content key is that content, and an upload item completes only with its result recorded |
| `AckedIsRecorded` | an acknowledged release is in the ledger, a terminated one left a failure record |
| `BoundIsActive` | while the socket serves, the snapshot bound to a route is its only active one |
| `TerminalIsFinal` | a finished item stays as it finished |
| `NoAttemptAfterDeadline` | no attempt starts once the deadline of the item's first wait has passed |
| `ItemsSettle` | every admitted item ends, unless the deployed build refuses to start |

### 2.5 `PushScan`

One loop (`proc`) that maintains, fetches and processes, beside a registry that
changes token fingerprints at any time. `receipts`, `results`, `events`,
`marked` are the tables, `order` the pending responses as
`PendingResponseDeliveryIDs` lists them, `sent` and `halted` the bus and the
broker, `late` the deliveries whose SLO deadline has passed. What a push carries
is a constant. `ProcessFails` also stands for a receipt with another identity.
Pruning is invisible: `MatchCandidate` already ignores what may be pruned.

| property | says |
|---|---|
| `AckedHasResult` | a push is acknowledged only once its result is durable |
| `HaltsMatchFindings` | the broker halts only for a recorded live finding, and a response completes only once it has |
| `SLOTruthful` | a completed response's SLO state says whether alert and halt were in time, whatever was marked while it was pending |
| `PendingResolved` | every response the broker can answer completes, although others fill the page |
| `AlertsSent` | every alert reaches the bus without another push |

### 2.6 Behaviour to know that no property rules out

The models take these steps. No document promises otherwise, so they are facts
about the code and not failures of a property.

* A wake that arrives before its wait is recorded is dropped
  (`external_wait.go:94`); a run that ended by itself while its job waits is
  polled to its end only after a wake (`external_wait.go:134`).
* A job that comes to CI from `report_pending` stays claimable, and is polled
  again within the same tick (`ci_repair.go:207`).
* A launch of a work item whose answer is lost is a retryable failure, and the
  next attempt has another key (`internal/workitemlaunch/executor.go:54`).
* Attempts that only waited count towards `MaxAttempts`
  (`internal/workledger/store.go:485`).
* An item admitted under an earlier executor version fails for good
  (`internal/resumeupload/router.go:146`); a release whose admission fails on
  every delivery is dropped without a record (`router.go:95`).
* A push scanned before its token's fingerprint is registered stays clean
  (`internal/pushscan/store.go:105`).
* Without a reporter a CI task is escalated at its first observation, and the
  escalation waits for a start that finds one (`dispatcher.go:281`).
* `flushEvents` stops at the first event that cannot be published
  (`internal/pushscan/scanner.go:480`). An event that never can be would hold back
  those after it; the run bounds the failures and does not contain this case.

## 3. The runs

| run | instance | checks |
|---|---|---|
| `launch_and_report` | 2 keys, one crash, one row of any earlier version or none, reporter present or absent at each start | `TypeOK`, `NoSilentTerminal`, `ReportEvidence`, `DeliveredMeansPosted`, `LaunchOrder`, `EvidenceKept` |
| `external_wait` | 2 keys, 2 wait generations, one crash | `ResumeNeedsWake`, `OneRunAtATime`, `WakeKept` |
| `ci_phases` | 2 keys, runs that deliver a pull request, one crash | `OneRunAtATime`; the evidence is proved (section 4) |
| `settles` | 2 keys, one old row or none, one crash, a reporter at every start, fair | `JobSettles` |
| `ci_repair` | 2 attempts, 2 heads, 1 external wait, 1 restart, reporter present or absent at each start, foreign pushes | `TypeOK`, `AttemptMatchesTask`, `ChargedInOrder`, `ChargedOnlyIfStarted`, `OneRepairRun`, `RepairOnlyOnFailure`, `WakeKept`, `ImplementsLifecycle` |
| `ci_ends` | the same without foreign pushes, fair | `EndsAsPromised` |
| `intake` | 8 webhooks (one with another label, one that takes the label off), 2 stream positions, 2 deliveries each, 1 fault, 1 restore, 2 recovery IDs, fair | `TypeOK`, `WorkKept`, `EvidenceMatchesCheckpoint`, `JobsAreRequested`, `AcceptedIsStored` |
| `releases` | 3 messages, of which 2 arrive, 2 contents, 2 builds, 1 replaced asset, 1 fault | `TypeOK`, `UploadsFaithful`, `AckedIsRecorded`, `BoundIsActive` |
| `work_items` | 3 facts, of which 2 arrive, on a superseding and a polling route, 2 faults, fair | `LeasesHeld`, `NewKeyAfterFailure`, `TerminalIsFinal`, `NoAttemptAfterDeadline`, `ItemsSettle` |
| `push_scan` | 3 pushes (a canary the broker never answers for, an issued token, one not scanned), 1 fault, pages and batches of 1, fair | `TypeOK`, `AckedHasResult`, `HaltsMatchFindings`, `SLOTruthful`, `PendingResolved`, `AlertsSent` |
| `doc_silent`, `doc_rerun` | 1 key; 2 stream positions | one sentence of the documentation each, expected to fail: section 5 |

**Bounds.** *Jobs*: two keys give every pairwise order the queue can be in;
nothing in the code relates three. Limits of two attempts
(`PreOutboxMaxAttempts` is 10, `ReportRetryMaxAttempts` 24) have a retry, a last
try and an exhausted try; where a limit is 1 the retry of a report is covered by
`launch_and_report`. Two generations have a stale, a current and a next one.
`Outcomes` holds one outcome per run: `MarkReportDelivered` and `BeginCIWait` are
the only code that tells outcomes apart, and `timed_out`, `stopped` and
`ready_for_review` are each used. *Crashes*: one reaches every point between two
steps, and the state after a restart is again one a crash can hit. *CI*: policy
allows one or two attempts, so two is all there is; one push gives a delivered
head and a foreign one, though not both in one behaviour (the theorems of
section 4 hold for any number). *Intake*: two messages suffice for
one to overtake another, and two deliveries for a redelivery and an exhausted
one; with one restore, a backup can be taken before, during or after any message
(the theorem holds for any number of restores). *Ledger*: two items of one object supersede each other, a third kind shares
nothing with them; two faults are a failed completion and a failed or crashed
recovery after it. *Scanner*: a page of 1 with two pending responses is a full
page, a batch of 1 with two events a full batch; messages of another kind,
malformed ones and a third delivery are in the model and not in this instance.

**Symmetry** of the keys is used in the safety runs of `Dispatcher` only; no
definition names a particular key, and the order of jobs is part of the state.

**Deadlock** is checked in the runs of `Dispatcher`. The other instances stop
when their bounded supply of webhooks, facts or pushes is used up and everything
is settled, or where the code itself waits for an operator.

**Fairness.** A process that stops is restarted by its supervisor, and its loops
run: each is a goroutine on a ticker or a fetch with a timeout, and each call has
a timeout. Beyond that:

* `settles`: the broker bounds a run by its maximum runtime (`FinishRun`); clock
  actions are strongly fair because they are enabled only between ticks, which
  recur; `PollAnswered` is strongly fair, that is, the broker does not answer
  every poll for ever with another run's status (section 5 says why the code
  relies on it). Checked without external waits, which end by an issue event
  nobody owes, and without delivered pull requests, which `ci_ends` follows. It
  is checked only with a reporter configured at every start: without one no report
  is ever sent (`dispatcher.go:329`), and `JobSettles` does not hold.
* `ci_ends`: timers fire, CI of every head is decided, runs that do not wait end,
  and a call that is made again and again is answered in the end (strong fairness
  on the answers, since the code retries observations without a limit). Nothing
  is assumed of webhooks, nor that a reporter is configured: that is the premise
  under which `EndsAsPromised` asks for an end. CI of a head is decided once; a
  re-run of a decided head is outside the model.
* `intake`: a message is fetched and processed, and the operator runs a recovery
  the service waits for. Nothing is assumed of senders, and the worker owes
  nothing.
* `work_items`: `AckWait` passes and backoffs elapse. Deadlines, faults,
  deployments, replaced assets and new facts need not come. A polling executor
  says `waiting` at most `MaxPolls` times, so that `ItemsSettle` does not rest on
  deadlines; what a passed deadline does is `NoAttemptAfterDeadline`.
* `push_scan`: the loop, and the timer that reconciles (`ReconcileDue`).
  Redelivery is not assumed.

## 4. The proofs

`DispatcherProofs` proves, for every set of keys, every limit, any number of
generations and crashes, and any old row:

* `TypeCorrect`: `Spec => []TypeOK`. The inductive invariant adds
  `ProjectsFinishedRun`: while the worker projects a result, the run has an
  outcome. Without it `ProjectTerminalResult` could write a run state that is no
  result.
* `ReportEvidenceHolds` and `DeliveredMeansPostedHolds`, from one inductive
  invariant `EvidenceInv`. It adds three facts: a job with a result is never in a
  status the queue or a poll works on, outside CI (`ResultLeavesQueue`), a key
  that was never recorded has empty rows (`AbsentIsEmpty`), and while the worker
  reports, the row it holds has a result and, after a successful call, its
  comment (`WorkerEvidence`).
* `EvidenceKeptHolds`: the action property, from the same invariant.

Three lemmas keep the leaves small. `Writes` says which tables each action can
change, `Control` how it moves the worker, and `RowSteps` that what any step does
to the result, outbox row and job of one key is one of four things: nothing that
matters, queueing a report, marking its outcome, or requeueing a blocked one. The
invariants are preserved by each of the four, rather than by each action.

`DispatcherQueueProofs` proves about the same module:

* `LaunchOrderHolds` and `OneRunAtATimeHolds`, from `QueueInv`. What makes them
  inductive is that a run still at work belongs to a job the queue can claim or
  to one that was given up with a fallback result (`ActiveIsQueued`), that of two
  jobs one is known to be older (`OlderKnown`, `Comparable`), and that the job the
  worker holds has been tried and is in a status its step works on. `RunOne` takes
  the oldest claimable job, so a launch finds no other live run.
* `NoSilentTerminalHolds`, from `FinishedIsOld`: without a result and outside CI,
  only rows of an earlier version look finished, and those are bound to a run.
* `ResumeNeedsWakeHolds`, from `ResumeInv`: a run that is being resumed still
  waits, under the generation of its wait row, which is `resume_ready` or
  `resumed`; and the worker that is about to resume holds a ready one.
* `WakeKeptHolds`: an action property, from the same invariants.

`CIRepairProofs` proves, for any number of heads, generations, retries and
restarts, with or without a reporter and foreign pushes:

* `Invariant`: `Spec => []IInv`, where `IInv` is `TypeOK` with three
  strengthenings. `TriesLeft`: a pending escalation has a try left, or its
  counter would leave its type. `Ordered`: the charged attempts are the first
  `repair_attempts` of them, at most one row follows, and only the last row is
  ready or running, in the task state that says so. `WorkerHolds`: what the worker
  claimed is still in the state it was claimed in when the worker writes, since
  events and timers change neither a task's state nor an attempt's.
  `AttemptMatchesTask` and `ChargedInOrder` are not inductive without each other:
  that the next attempt's row is free rests on the charges being in order, and
  that a charge is in order on the running attempt being the last.
* `TypeCorrect`, `AttemptsMatch`, `ChargesCounted`: its consequences.
* `LifecycleImplemented`: `Spec => ImplementsLifecycle`. `StepRefines` maps every
  action to a step of `CILifecycle` or a stutter. The bound on repairs comes from
  `Ordered`: a repair is authorised as attempt `repair_attempts + 1`, whose row is
  still free and within `MaxAttempts`, so the number of rows, a cardinality, grows
  by exactly one (`OneMore`, from the library's facts on finite sets).

`CIRepairRunProofs` builds on `IInv` and proves `RunsInvariant`, with

* `RunInv`: a run belongs to an attempt; while the task is followed, a live run
  belongs to the attempt that is ready or running, of which `Ordered` allows one;
  and the worker charges only what it saw started. From it
  `ChargedOnlyIfStartedHolds` and `OneRepairRunHolds`;
* `HeadInv`: attempts are for heads whose CI failed in the code, and what the
  worker saw of a decided head is still so when it writes. From it
  `RepairOnlyOnFailureHolds`. An observation can be old when it is applied; that a
  decided result of a head does not change is what carries the proof;
* `PushInv`: nothing is recorded of a head that has not been pushed, and a head
  found stale stays stale. `WakeKeptHolds`, an action property, needs it.

`PushScanProofs` proves, for any messages, tokens, page and batch sizes and
number of faults, `TypeCorrect`, `AckedHasResultHolds`, `HaltsMatchFindingsHolds`
and `SLOTruthfulHolds` from one inductive invariant `IInv`. Beside the three
properties it says how the tables go together (a result has a receipt, what was
sent is in the outbox), that `order` lists exactly the pending responses, each
once, and in `LoopOK` what the loop may rely on at each of its steps: its page
holds pending responses without repetition, the response it completes is not on
the rest of the page and has its halt, and a push it acknowledges has a result.
The page matters: a response listed twice could be completed a second time.

`IntakeProofs` proves, for any webhooks and routes, any length of the stream, any
number of deliveries, faults, restores and recoveries:

* `Invariant`: `Spec => []IndInv`. `Consistent` is about one database and the
  stream, and holds of the live one and of the backup, so that `Restore` keeps it:
  the checkpoint is within the stream, every job is requested by a message, every
  recorded delivery has its job, and the evidence of every recovery is gap-free.
  `InHand`: the message the fetch loop holds is in the stream, and what the
  earlier of the three transactions stored of it is in the database.
  `Replaying`: while a recovery runs it is the only unfinished one, its consumer
  starts right after its manifest, and whatever was delivered to it is at or below
  the checkpoint or in hand; this is why the checkpoint passes no message during a
  replay. `Fenced`: either no message is lost, or the dispatcher does not serve,
  its fence is closed, and the recovery has not yet reset the consumer.
* `TypeCorrect`, `WorkKeptHolds`, `EvidenceHolds`, `JobsRequestedHolds`: its
  consequences. For the last, a job is the key of a selected message, `Select`
  takes it from the one route whose repository, label and action match
  (`SelectedRoute`), and the gateway publishes no issue event of GitHub without a
  verified signature. `WorkKept` by itself speaks of a serving dispatcher only; after a
  restore it is the fence that keeps a dispatcher with a gap from serving, and the
  two have to be carried together. `WorkKept` would fail without the clause on
  `AssertRecoveryComplete` in `PassedOver` (section 2.3).

`WorkLedgerProofs` and `WorkRouterProofs` prove, for any routes, facts, release
messages, contents, executor versions and bounds:

* `Invariant`: `Spec => []IndInv`. Its first part, `LedgerInv`, is about the
  ledger alone, and there is one lemma for each transaction that says it keeps it
  (`SaveRouteKeeps`, `AdmittedKeeps`, `ClaimedKeeps`, `CompletedKeeps`,
  `RecoveredKeeps`, ...). It says that a route has at most one active snapshot;
  that only the last attempt of an item is undecided, in a state its item's state
  allows (`AttemptsFit`); that the leases are exactly those of the active items,
  one for a key (`LeaseInv`); that due items are admitted or waiting; that an item
  has a delivery of its own (`EventsKept`); and that completed uploads have
  results. `Later` is what no transaction takes back, `Quiet` that it starts no
  attempt and no wait; the other parts survive whatever is `Later` or `Quiet`, so
  that each action only needs a proof of what it changes itself. `Executing`: the
  loop's attempt is its item's last one, and what an earlier call established
  (the bytes it downloaded, the upload it made, the result it recorded) still
  holds. `Consuming`: the delivery about to be acknowledged is recorded. `Bound`:
  a route bound during start-up keeps its snapshot. `Waits`: the deadline is that
  of the first wait. `Sent`: the broker's runs are attempts of the ledger.
* `TypeCorrect`, `LeasesHeldHolds`, `NewKeyHolds`, `UploadsFaithfulHolds`,
  `AckedIsRecordedHolds`, `BoundIsActiveHolds`: its consequences. That items stay
  within `Items` is a cardinality argument: their deliveries are distinct.
* `TerminalIsFinalHolds` and `NoAttemptAfterDeadlineHolds`: action properties.
  The first is part of `Later`. For the second, a claim fails the overdue items
  before it selects one, and `Waits` ties the deadline it compares to the first
  wait.

Each of these invariants was checked by TLC on the instance of the module's run
before it was proved.

The assumptions are `ConstantsAssumption`, `CIConstants`, `ScanConstants`,
`IntakeConstants`, `RoutesValid` and `RouterConstants`, which the runs evaluate:
limits are positive, bounds natural numbers, `NoKey` and `Nobody` name nothing
else, outcomes and old rows are ones the code knows (an old row that is finished
has a run), `MaxAttempts` is 1 or 2 as the policy demands, the messages and
contents of pushes are about known deliveries, routes are ones the gateway's
configuration and `RouteDefinition.Validate` accept, facts and release messages
are finitely many, a fact kind resolves to a deployment route, and requests with
the same non-empty delivery ID carry the same signal, as GitHub's redeliveries
do.
The last one is needed: the dispatcher recognises a delivery by its ID alone, and
would drop a second signal under the ID of the first.

Every safety property and the refinement that the passing runs check are thus
proved. Model-checked only are the liveness properties (`JobSettles`,
`EndsAsPromised`, `AcceptedIsStored`, `ItemsSettle`, `PendingResolved`,
`AlertsSent`), since liveness under fairness is outside what the prover does.

## 5. Where the code and its documentation differ

Two are runs whose property states the sentence, and whose counterexample is the
code doing otherwise.

* `doc_silent`. `docs/repository-ci-repair.md:31`: "An authoritative success
  completes silently." A job completed by its CI has no terminal result, so
  `OpenStore` (`store.go:183`) puts it back to `report_pending` at the next
  start; it is polled again, and if that poll fails for good, a failure comment
  is posted.
* `doc_rerun`. `docs/dispatcher-recovery.md:74`: "An interrupted execution may be
  rerun with exactly the same recovery ID and parameters." `Run` first demands
  that checkpoint and manifest agree (`internal/recovery/recovery.go:68`), but
  each replayed message raises the checkpoint. A recovery cut off after its first
  replayed message is refused for ever, and the dispatcher does not start.

The others were met while modelling and have no run of their own; the models
take the steps.

* `README.md:137-139`: `report_blocked` "never exists without
  terminal-result/outbox evidence". `MarkCIEscalationFailure`
  (`ci_repair.go:851`) writes it to a job that has neither.
* `README.md:119-120`: the worker "does not launch another issue until the run
  reaches `completed`, `failed`, or `timed_out`". A launch whose answer was lost
  or malformed ends in a fallback result, and the queue moves on while the run
  lives (`dispatcher.go:393`). `OneRunAtATime` states what does hold.
* `README.md:134-135`: status-fetch failures "are durably visible and bounded to
  10 attempts". A status answer that names another run is an error that records
  nothing (`dispatcher.go:562`).
* `external_wait.go:79-80`: a false-positive wake "safely returns to
  waiting_external with the next generation". A poll that still sees the
  generation just resumed leaves the job waiting under a row already marked
  `resumed`, which no wake makes ready again (`external_wait.go:71`).
* `docs/repository-ci-repair.md:8`: the reconciliation wake "covers missing
  events". A lost webhook about a foreign push is not covered: the old head is
  answered with `stale_pull_head` at every wake, and the task moves to the new
  head only by an event (`ci_repair.go:349`). `EndsAsPromised` is therefore about
  branches nobody else pushes to.
* `ci_repair.go:302`: "A deadline is a one-shot durable wake." The deadline stays
  in the past until an observation is applied, so that `ClaimCIReconciliation`
  makes the row due again right after a retryable failure.
* `store.go:239-241`: the checkpoint allows a replay "without losing accepted
  work". It is the highest recorded sequence (`store.go:313`): a message that
  failed to be stored is passed by a later one. `WorkKept` names these messages
  (`skipped`, by `PassedOver`).

## 6. What is not modelled

* Text: comment bodies, error messages, logging, metrics.
* Validation of requests and answers, except that it can fail: an answer is
  usable, an error that may be retried, or one that may not. Signatures, digests
  and patterns are Booleans or equality.
* Wall-clock arithmetic, except as in section 2. A clock that steps backwards,
  which could reorder `created_at`, is outside the model; so are the lengths of
  backoffs.
* The statements of `OpenStore` run one by one; the model takes them together.
  They touch a row independently of other rows, and a start that is cut off
  between them runs them all again.
* Work ledger: `WakeWaiting`, `ResolveRelease`, `RecordAuthoritativePRCorrelation`
  and `WorkItemByAuthoritativePR` have no caller outside tests; agent bindings
  are data copied into an item.
* Shadow ingress: envelope parsing and the check of peer credentials.
* Scanner: fetching a push's contents and matching patterns in them; the fence
  part of a broker answer, which the code checks and records.
* The observer (it logs and acknowledges), the `resume-release-router` binary (a
  health-only standby), parsing of the configuration file, build information.
* Upgrades of the schemas, except for the statuses in section 2.1.
