------------------------------ MODULE CIRepair ------------------------------
(***************************************************************************)
(* The CI wait and repair of one pull request in internal/dispatcher:      *)
(* the tables of ci_repair.go, the CI part of RunOne, the events recorded  *)
(* beside it, and the broker and GitHub as the code meets them.            *)
(*                                                                         *)
(* A transaction of the store is one step.  A call to the broker is a step *)
(* of its own wherever something may happen between its answer and the     *)
(* write that follows.  The tables are keyed by job and their statements   *)
(* never join two jobs, so one task stands for each.  Time is the flags    *)
(* `due` and `wake`: they are set while the worker sleeps, because RunOne  *)
(* is repeated within a tick with the same `now`.  A flag that no query    *)
(* reads in the row's state is kept FALSE.  Heads are numbered in the      *)
(* order they are pushed: a branch is not set back to an old head.         *)
(***************************************************************************)
EXTENDS Naturals, FiniteSets

CONSTANTS MaxAttempts,      \* CIRepairPolicy.MaxAttempts, 1 or 2
          MaxPushes,        \* bound: pushes after the first head
          MaxGeneration,    \* bound: external waits of a repair run
          ReportRetryMax,   \* ReportRetryMaxAttempts
          MaxCrashes,       \* bound: restarts of the dispatcher
          Reporters,        \* may a start find a reporter configured, or none?
          OthersPush        \* may others push to the branch?

ASSUME CIConstants == /\ MaxAttempts \in 1..2
                      /\ MaxPushes \in Nat
                      /\ MaxGeneration \in Nat
                      /\ ReportRetryMax \in Nat \ {0}
                      /\ MaxCrashes \in Nat
                      /\ Reporters \in {{TRUE}, {FALSE}, BOOLEAN}
                      /\ OthersPush \in BOOLEAN

VARIABLES task,      \* the row of repository_ci_tasks
          recs,      \* repository_ci_reconciliations, by head
          atts,      \* repository_ci_attempts, by attempt number
          esc,       \* the row of repository_ci_escalation_outbox
          pc,        \* where the worker goroutine is
          cur,       \* the head or the attempt it holds
          saw,       \* the answer of its last call
          pr,        \* GitHub: the pull request's head
          ci,        \* GitHub: the state of CI, by head
          news,      \* heads an undelivered webhook is about
          runs,      \* broker: the repair runs, by attempt number
          reporter,  \* the configuration has a reporter: BrokerClient.ReporterURL
          crashes

store == <<task, recs, atts, esc>>
worker == <<pc, cur, saw>>
world == <<pr, ci, news, runs>>
vars == <<store, worker, world, reporter, crashes>>

Heads == 0..MaxPushes
Numbers == 1..MaxAttempts

TaskStates == {"waiting_ci", "repair_ready", "repair_running", "completed",
               "escalation_pending", "escalated", "escalation_blocked"}
\* How a run ends: ready_for_review, a failure of class delivery_or_lease, or any other
\* failure (infrastructure, model_or_code, no_change_required), which are treated alike.
Outcomes == {"delivered", "delivery_or_lease", "failure"}
Live == {"running", "waiting"}

Tasks == [st : TaskStates, head : Heads, attempts : 0..MaxAttempts, wake : BOOLEAN]
Reconciliations == [st : {"none", "queued", "running", "completed"}, dirty : BOOLEAN, due : BOOLEAN]
Attempts == [st : {"none", "ready", "running", "delivered", "failed"}, head : Heads,
             charged : BOOLEAN, due : BOOLEAN, gen : 0..MaxGeneration, resumed : 0..MaxGeneration]
Escalations == [st : {"none", "pending", "delivered", "blocked"}, tries : 0..ReportRetryMax,
                due : BOOLEAN]
Runs == [st : {"none"} \cup Live \cup Outcomes, started : BOOLEAN, gen : 0..MaxGeneration,
         head : Heads]
CIResults == {"pending", "success", "code_failure", "infrastructure"}
Steps == {"asleep", "idle", "observe", "observed", "launch", "launched", "status", "answered",
          "look", "resume", "resumed", "terminal", "charge", "deliver", "escalate"}
Answers == CIResults \cup {"none", "retry", "stale", "invalid", "ok", "running", "ended", "unknown"}

TypeOK ==
    /\ task \in Tasks
    /\ recs \in [Heads -> Reconciliations]
    /\ atts \in [Numbers -> Attempts]
    /\ esc \in Escalations
    /\ pc \in Steps /\ cur \in Nat /\ saw \in Answers
    /\ pr \in Heads
    /\ ci \in [Heads -> CIResults]
    /\ news \subseteq Heads
    /\ runs \in [Numbers -> Runs]
    /\ reporter \in BOOLEAN
    /\ crashes \in 0..MaxCrashes

\* A task that has not been decided.
Followed == task.st \in {"waiting_ci", "repair_ready", "repair_running"}

NoAttempt == [st |-> "none", head |-> 0, charged |-> FALSE, due |-> FALSE, gen |-> 0, resumed |-> 0]
NoRun == [st |-> "none", started |-> FALSE, gen |-> 0, head |-> 0]

\* BeginCIWait has just committed: the first head waits, its reconciliation is queued.
Init ==
    /\ task = [st |-> "waiting_ci", head |-> 0, attempts |-> 0, wake |-> FALSE]
    /\ recs = [h \in Heads |-> [st |-> IF h = 0 THEN "queued" ELSE "none",
                                dirty |-> FALSE, due |-> h = 0]]
    /\ atts = [n \in Numbers |-> NoAttempt]
    /\ esc = [st |-> "none", tries |-> 0, due |-> FALSE]
    /\ pc = "asleep" /\ cur = 0 /\ saw = "none"
    /\ pr = 0
    /\ ci = [h \in Heads |-> "pending"]
    /\ news = {}
    /\ runs = [n \in Numbers |-> NoRun]
    /\ reporter \in Reporters
    /\ crashes = 0

(***************************************************************************)
(* The store.                                                              *)
(***************************************************************************)
\* Mutant: the task counts as escalated before anybody was told.
QueueEscalationAsDone(t) ==
    /\ esc' = IF esc.st = "none" THEN [st |-> "pending", tries |-> 0, due |-> TRUE] ELSE esc
    /\ task' = [t EXCEPT !.st = "escalated", !.wake = FALSE]

\* queueCIEscalation, inside the transactions that call it.
QueueEscalation(t) ==
    /\ esc' = IF esc.st = "none" THEN [st |-> "pending", tries |-> 0, due |-> TRUE] ELSE esc
    /\ task' = [t EXCEPT !.st = "escalation_pending", !.wake = FALSE]

Row(st, due) == [st |-> st, dirty |-> FALSE, due |-> due]
Ready(h) == [NoAttempt EXCEPT !.st = "ready", !.head = h, !.due = TRUE]

\* RecordCIEvent: a webhook about head h; by pull number it finds the task whatever its
\* head, a status event only by the current head.  A task under repair is woken only out
\* of an external wait.  The event's clock may be ahead of the tick's.
RecordCIEvent(h) ==
    /\ Followed /\ h \in news
    /\ news' = news \ {h}
    /\ \E byPull, now \in BOOLEAN :
         LET found == byPull \/ task.head = h
             waits(n) == atts[n].st = "running" /\ atts[n].gen > atts[n].resumed
         IN  /\ recs' = IF found /\ task.st = "waiting_ci"
                        THEN [recs EXCEPT ![h] =
                                IF @.st = "running" THEN [@ EXCEPT !.dirty = TRUE, !.due = now]
                                                    ELSE Row("queued", now)]
                        ELSE recs
             /\ atts' = IF found /\ task.st = "repair_running"
                        THEN [n \in Numbers |-> IF waits(n) THEN [atts[n] EXCEPT !.due = @ \/ now]
                                                            ELSE atts[n]]
                        ELSE atts
    /\ UNCHANGED <<task, esc, worker, pr, ci, runs, reporter, crashes>>

\* The first statement of ClaimCIReconciliation: a deadline that has passed.
Woken ==
    IF task.st = "waiting_ci" /\ task.wake
    THEN [recs EXCEPT ![task.head] =
            [st |-> IF @.st \in {"none", "completed"} THEN "queued" ELSE @.st,
             dirty |-> @.st = "running",
             due |-> TRUE]]
    ELSE recs

\* Mutant: a reconciliation left running by a crash is not claimed again.
QueuedReconciliations == {h \in Heads : task.st = "waiting_ci" /\ Woken[h].st = "queued" /\ Woken[h].due}

DueReconciliations ==
    {h \in Heads : task.st = "waiting_ci" /\ Woken[h].st \in {"queued", "running"} /\ Woken[h].due}
DueLaunches == {n \in Numbers : task.st = "repair_ready" /\ atts[n].st = "ready" /\ atts[n].due}
DuePolls == {n \in Numbers : task.st = "repair_running" /\ atts[n].st = "running" /\ atts[n].due}
\* Without a reporter RunOne does not look at the escalations.
DueEscalation == reporter /\ esc.st = "pending" /\ esc.due

ClaimCIEscalation ==
    /\ pc = "idle" /\ DueEscalation
    /\ pc' = "escalate" /\ saw' = "none"
    /\ UNCHANGED <<store, cur, world, reporter, crashes>>

ClaimCIReconciliation ==
    /\ pc = "idle" /\ ~DueEscalation
    /\ \E h \in DueReconciliations :
         /\ recs' = [Woken EXCEPT ![h] = Row("running", FALSE)]
         /\ cur' = h
    /\ pc' = "observe" /\ saw' = "none"
    /\ UNCHANGED <<task, atts, esc, world, reporter, crashes>>

ClaimCIRepair ==
    /\ pc = "idle" /\ ~DueEscalation /\ DueReconciliations = {}
    /\ cur' \in DueLaunches
    /\ pc' = "launch" /\ saw' = "none"
    /\ UNCHANGED <<store, world, reporter, crashes>>

ClaimCIRepairStatus ==
    /\ pc = "idle" /\ ~DueEscalation /\ DueReconciliations = {} /\ DueLaunches = {}
    /\ cur' \in DuePolls
    /\ atts' = [atts EXCEPT ![cur'].due = FALSE]
    /\ pc' = "status" /\ saw' = "none"
    /\ UNCHANGED <<task, recs, esc, world, reporter, crashes>>

SomethingDue == DueEscalation \/ DueReconciliations # {} \/ DueLaunches # {} \/ DuePolls # {}

\* The worker goes on in the same pass; is done with it; sleeps until the next tick.
Goto(l) == pc' = l /\ UNCHANGED <<cur, saw>>
WorkerStops == pc' = "asleep" /\ cur' = 0 /\ saw' = "none"
Done == pc' = "idle" /\ cur' = 0 /\ saw' = "none"

\* The ticker fires; and the inner loop ends when RunOne has nothing to do.
Tick == pc = "asleep" /\ SomethingDue /\ pc' = "idle" /\ UNCHANGED <<store, cur, saw, world, reporter, crashes>>
TickEnds == pc = "idle" /\ ~SomethingDue /\ WorkerStops /\ UNCHANGED <<store, world, reporter, crashes>>

(***************************************************************************)
(* Reconciliation: ObserveCI, then FailCIReconciliation or                 *)
(* ApplyCIObservation.                                                     *)
(***************************************************************************)
\* The reporter answers for the head that was asked for, or says that the pull request has
\* another one; a malformed answer is an error that is not retried, and so is the answer
\* of a broker that has no reporter to ask.
ObserveCI ==
    /\ pc = "observe"
    /\ saw' \in {"invalid"} \cup
                (IF reporter THEN {IF pr = cur THEN ci[cur] ELSE "stale"} ELSE {})
    /\ pc' = "observed"
    /\ UNCHANGED <<store, cur, world, reporter, crashes>>

ObserveFails ==
    /\ pc = "observe" /\ reporter
    /\ saw' = "retry" /\ pc' = "observed"
    /\ UNCHANGED <<store, cur, world, reporter, crashes>>

FailCIReconciliation ==
    /\ pc = "observed" /\ saw \in {"retry", "stale", "invalid"} /\ recs[cur].st = "running"
    /\ recs' = [recs EXCEPT ![cur] = Row(IF saw = "retry" THEN "queued" ELSE "completed", FALSE)]
    /\ IF saw = "invalid" THEN QueueEscalation(task)
       ELSE task' = [task EXCEPT !.wake = @ /\ saw = "retry"] /\ UNCHANGED esc
    /\ Done
    /\ UNCHANGED <<atts, world, reporter, crashes>>

\* Mutants: the wake is dropped; the head is not moved.
WakeForgotten == FALSE
SeenAtOldHead == [task EXCEPT !.wake = FALSE]

\* An observation is escalated: nothing to repair, or no attempt left.
ObservationStops == saw = "infrastructure" \/ (saw = "code_failure" /\ task.attempts >= MaxAttempts)
\* An event came in while the observation was made, and it decided nothing.
WakeAgain == recs[cur].dirty /\ saw = "pending"
\* The task moves to the head that was observed.
Seen == [task EXCEPT !.head = cur, !.wake = FALSE]

\* A code failure while attempts are left inserts the next attempt, ON CONFLICT DO NOTHING.
ApplyCIObservation ==
    /\ pc = "observed" /\ saw \in {"pending", "success", "code_failure", "infrastructure"}
    /\ LET number == task.attempts + 1
       IN  IF ~Followed THEN UNCHANGED store
           ELSE /\ recs' = [recs EXCEPT ![cur] = Row(IF WakeAgain THEN "queued" ELSE "completed", WakeAgain)]
                /\ IF ObservationStops THEN QueueEscalation(Seen) /\ UNCHANGED atts
                   ELSE /\ UNCHANGED esc
                        /\ CASE saw = "success" ->
                                  task' = [Seen EXCEPT !.st = "completed"] /\ UNCHANGED atts
                             [] saw = "pending" ->
                                  task' = Seen /\ UNCHANGED atts
                             [] saw = "code_failure" ->
                                  /\ task' = [Seen EXCEPT !.st = "repair_ready"]
                                  /\ atts' = [atts EXCEPT ![number] = IF @.st = "none" THEN Ready(cur) ELSE @]
    /\ Done
    /\ UNCHANGED <<world, reporter, crashes>>

(***************************************************************************)
(* Launch: LaunchRepair, then BindCIRepairRun, DeferCIRepairLaunch or      *)
(* FinishCIRepairFailure.                                                  *)
(***************************************************************************)
\* Mutants: one attempt too many; a run that never started a model is tried again.
RepairStopsLate(n, class, started, attempts) ==
    \/ ~started \/ class = "delivery_or_lease"
    \/ attempts > MaxAttempts \/ n > MaxAttempts
RepairStopsIfStarted(n, class, started, attempts) ==
    \/ class = "delivery_or_lease"
    \/ attempts >= MaxAttempts \/ n >= MaxAttempts

\* No further attempt after this failure.
RepairStops(n, class, started, attempts) ==
    \/ ~started \/ class = "delivery_or_lease"
    \/ attempts >= MaxAttempts \/ n >= MaxAttempts

FinishCIRepairFailure(n, class, started) ==
    LET charge == started /\ ~atts[n].charged
        paid == IF charge THEN [task EXCEPT !.attempts = @ + 1] ELSE task
        closed == [atts EXCEPT ![n].st = "failed", ![n].charged = @ \/ started, ![n].due = FALSE]
    IN  /\ atts[n].st = "running" \/ (atts[n].st = "ready" /\ ~started)
        /\ paid.attempts <= MaxAttempts
        /\ IF RepairStops(n, class, started, paid.attempts) THEN QueueEscalation(paid) /\ atts' = closed
           ELSE /\ task' = [paid EXCEPT !.st = "repair_ready"]
                /\ atts' = [closed EXCEPT ![n + 1] = Ready(task.head)]
                /\ UNCHANGED esc
        /\ UNCHANGED recs

\* The run is created once per attempt key.
Created == [runs EXCEPT ![cur].st = IF @ = "none" THEN "running" ELSE @]

LaunchRepair ==
    /\ pc = "launch"
    /\ runs' = Created
    /\ saw' = "ok" /\ pc' = "launched"
    /\ UNCHANGED <<store, cur, pr, ci, news, reporter, crashes>>

\* The call fails, perhaps after the run was created, and is worth a retry or not.
LaunchFails ==
    /\ pc = "launch"
    /\ runs' \in {runs, Created}
    /\ saw' \in {"retry", "invalid"} /\ pc' = "launched"
    /\ UNCHANGED <<store, cur, pr, ci, news, reporter, crashes>>

BindCIRepairRun ==
    /\ pc = "launched" /\ saw = "ok"
    /\ atts' = [atts EXCEPT ![cur] = IF @.st \in {"ready", "running"}
                                     THEN [@ EXCEPT !.st = "running", !.due = FALSE] ELSE @]
    /\ task' = IF task.st \in {"repair_ready", "repair_running"}
               THEN [task EXCEPT !.st = "repair_running"] ELSE task
    /\ Done
    /\ UNCHANGED <<recs, esc, world, reporter, crashes>>

DeferCIRepairLaunch ==
    /\ pc = "launched" /\ saw = "retry"
    /\ atts' = [atts EXCEPT ![cur].due = FALSE]
    /\ Done
    /\ UNCHANGED <<task, recs, esc, world, reporter, crashes>>

LaunchRefused ==
    /\ pc = "launched" /\ saw = "invalid"
    /\ FinishCIRepairFailure(cur, "failure", FALSE)
    /\ Done
    /\ UNCHANGED <<world, reporter, crashes>>

(***************************************************************************)
(* runCIRepairStatus.                                                      *)
(***************************************************************************)
\* A call that fails: retried later, or, when that is no use, the end of the attempt.
PollFails ==
    /\ pc \in {"status", "terminal"}
    /\ \/ atts' = [atts EXCEPT ![cur].due = FALSE] /\ UNCHANGED <<task, recs, esc>>
       \/ FinishCIRepairFailure(cur, "failure", FALSE)
    /\ Done
    /\ UNCHANGED <<world, reporter, crashes>>

\* The run waits: RecordCIRepairExternalWait.  A generation already resumed is an error,
\* which ends the tick and leaves the row to its lease.
PollWaiting ==
    /\ pc = "status" /\ runs[cur].st = "waiting"
    /\ LET gen == runs[cur].gen
           stale == gen < atts[cur].gen \/ gen <= atts[cur].resumed
       IN  /\ atts' = IF stale THEN atts ELSE [atts EXCEPT ![cur].gen = gen]
           /\ IF stale THEN WorkerStops ELSE Goto("look")
    /\ UNCHANGED <<task, recs, esc, world, reporter, crashes>>

\* Not waiting: an outstanding wait was resumed by a call whose answer was lost.
PollAnswers ==
    /\ pc = "status" /\ runs[cur].st # "waiting"
    /\ atts' = [atts EXCEPT ![cur].resumed = IF atts[cur].gen > @ THEN atts[cur].gen ELSE @]
    /\ saw' \in {IF runs[cur].st = "running" THEN "running" ELSE "ended", "unknown"}
    /\ pc' = "answered"
    /\ UNCHANGED <<task, recs, esc, cur, world, reporter, crashes>>

ScheduleCIRepairStatus ==
    /\ pc = "answered"
    /\ CASE saw = "unknown" -> FinishCIRepairFailure(cur, "failure", FALSE) /\ Done
         [] saw = "running" -> /\ atts' = [atts EXCEPT ![cur].due = FALSE]
                               /\ UNCHANGED <<task, recs, esc>> /\ Done
         [] OTHER           -> UNCHANGED store /\ Goto("terminal")
    /\ UNCHANGED <<world, reporter, crashes>>

\* The reporter is asked whether the outside answers again; a pull request that moved is
\* an answer.
LookOutside ==
    /\ pc = "look" /\ reporter /\ Goto("resume")
    /\ UNCHANGED <<store, world, reporter, crashes>>

\* ResumeRun under the key of the recorded generation, which the broker accepts once.
Resumed ==
    [runs EXCEPT ![cur].st = IF @ = "waiting" /\ runs[cur].gen = atts[cur].gen THEN "running" ELSE @]

ResumeRun ==
    /\ pc = "resume" /\ Goto("resumed")
    /\ runs' = Resumed
    /\ UNCHANGED <<store, pr, ci, news, reporter, crashes>>

\* Either call fails, the second perhaps after it has arrived: DeferCIRepairStatus.
ResumeFails ==
    /\ pc \in {"look", "resume"}
    /\ runs' \in {runs} \cup (IF pc = "resume" THEN {Resumed} ELSE {})
    /\ atts' = [atts EXCEPT ![cur].due = FALSE]
    /\ Done
    /\ UNCHANGED <<task, recs, esc, pr, ci, news, reporter, crashes>>

MarkCIRepairExternalResumed ==
    /\ pc = "resumed"
    /\ atts' = [atts EXCEPT ![cur].resumed = atts[cur].gen, ![cur].due = FALSE]
    /\ Done
    /\ UNCHANGED <<task, recs, esc, world, reporter, crashes>>

\* Mutant: a delivery needs no proof of a model execution.
TerminalResultUnproved ==
    /\ pc = "terminal"
    /\ IF runs[cur].st = "delivered" THEN UNCHANGED store /\ Goto("charge")
       ELSE FinishCIRepairFailure(cur, runs[cur].st, runs[cur].started) /\ Done
    /\ UNCHANGED <<world, reporter, crashes>>

\* TerminalResult and validateCIRepairTerminal.
TerminalResult ==
    /\ pc = "terminal"
    /\ LET out == runs[cur].st
           started == runs[cur].started
       IN  IF out = "delivered" /\ started THEN UNCHANGED store /\ Goto("charge")
           ELSE FinishCIRepairFailure(cur, out, started) /\ Done
    /\ UNCHANGED <<world, reporter, crashes>>

\* Mutant: the same terminal result is charged whenever it is seen.
ChargeEveryTime ==
    /\ pc = "charge"
    /\ atts' = [atts EXCEPT ![cur].charged = TRUE]
    /\ task' = [task EXCEPT !.attempts = @ + 1]
    /\ Goto("deliver")
    /\ UNCHANGED <<recs, esc, world, reporter, crashes>>

ChargeCIRepairAttempt ==
    /\ pc = "charge"
    /\ IF atts[cur].charged THEN UNCHANGED <<atts, task>>
       ELSE /\ task.attempts < cur
            /\ atts' = [atts EXCEPT ![cur].charged = TRUE]
            /\ task' = [task EXCEPT !.attempts = @ + 1]
    /\ Goto("deliver")
    /\ UNCHANGED <<recs, esc, world, reporter, crashes>>

\* The pushed head is waited for; nothing is queued for it, only the deadline is renewed.
CompleteCIRepairDelivery ==
    /\ pc = "deliver" /\ atts[cur].charged /\ atts[cur].st = "running"
    /\ atts' = [atts EXCEPT ![cur].st = "delivered", ![cur].due = FALSE]
    /\ task' = [task EXCEPT !.st = "waiting_ci", !.head = runs[cur].head, !.wake = FALSE]
    /\ Done
    /\ UNCHANGED <<recs, esc, world, reporter, crashes>>

(***************************************************************************)
(* Escalation: Comment, then MarkCIEscalationDelivered or                  *)
(* MarkCIEscalationFailure.  The operation key makes the comment one.      *)
(***************************************************************************)
MarkCIEscalationDelivered ==
    /\ pc = "escalate" /\ esc.st = "pending"
    /\ esc' = [esc EXCEPT !.st = "delivered", !.tries = @ + 1, !.due = FALSE]
    /\ task' = IF task.st = "escalation_pending" THEN [task EXCEPT !.st = "escalated"] ELSE task
    /\ Done
    /\ UNCHANGED <<recs, atts, world, reporter, crashes>>

\* Mutant: one retry too many.
MarkEscalationFailureLate ==
    /\ pc = "escalate" /\ esc.st = "pending"
    /\ esc' = [st |-> IF esc.tries <= ReportRetryMax THEN "pending" ELSE "blocked",
               tries |-> esc.tries + 1, due |-> FALSE]
    /\ Done
    /\ UNCHANGED <<task, recs, atts, world, reporter, crashes>>

MarkCIEscalationFailure ==
    /\ pc = "escalate" /\ esc.st = "pending"
    /\ \E retry \in BOOLEAN :
         LET blocked == ~(retry /\ esc.tries + 1 < ReportRetryMax)
         IN  /\ esc' = [st |-> IF blocked THEN "blocked" ELSE "pending",
                        tries |-> esc.tries + 1, due |-> FALSE]
             /\ task' = IF blocked /\ task.st = "escalation_pending"
                        THEN [task EXCEPT !.st = "escalation_blocked"] ELSE task
    /\ Done
    /\ UNCHANGED <<recs, atts, world, reporter, crashes>>

(***************************************************************************)
(* Time and faults.  A crash, or a restart, keeps the store, loses the     *)
(* worker and reads the configuration again.                               *)
(***************************************************************************)
ReconciliationDue(h) ==
    /\ pc = "asleep" /\ task.st = "waiting_ci"
    /\ recs[h].st \in {"queued", "running"} /\ ~recs[h].due
    /\ recs' = [recs EXCEPT ![h].due = TRUE]
    /\ UNCHANGED <<task, atts, esc, worker, world, reporter, crashes>>

AttemptDue(n) ==
    /\ pc = "asleep" /\ atts[n].st \in {"ready", "running"} /\ ~atts[n].due
    /\ atts' = [atts EXCEPT ![n].due = TRUE]
    /\ UNCHANGED <<task, recs, esc, worker, world, reporter, crashes>>

EscalationDue ==
    /\ pc = "asleep" /\ esc.st = "pending" /\ ~esc.due
    /\ esc' = [esc EXCEPT !.due = TRUE]
    /\ UNCHANGED <<task, recs, atts, worker, world, reporter, crashes>>

DeadlinePasses ==
    /\ pc = "asleep" /\ task.st = "waiting_ci" /\ ~task.wake
    /\ task' = [task EXCEPT !.wake = TRUE]
    /\ UNCHANGED <<recs, atts, esc, worker, world, reporter, crashes>>

\* A restart after the task has ended finds nothing to do and is left out.
Crash ==
    /\ Followed \/ esc.st = "pending"
    /\ crashes < MaxCrashes
    /\ crashes' = crashes + 1
    /\ WorkerStops
    /\ reporter' \in Reporters
    /\ UNCHANGED <<store, world>>

(***************************************************************************)
(* GitHub and the broker, as the code meets them, for as long as the store *)
(* looks at them.                                                          *)
(***************************************************************************)
\* A push cancels the CI of the head it replaces.
CIDecides(h) ==
    /\ Followed /\ h = pr /\ ci[h] = "pending"
    /\ \E s \in {"success", "code_failure", "infrastructure"} : ci' = [ci EXCEPT ![h] = s]
    /\ news' = news \cup {h}
    /\ UNCHANGED <<store, worker, pr, runs, reporter, crashes>>

\* Somebody else pushes to the branch.
Push ==
    /\ Followed /\ OthersPush /\ pr < MaxPushes
    /\ pr' = pr + 1 /\ news' = news \cup {pr + 1}
    /\ UNCHANGED <<store, worker, ci, runs, reporter, crashes>>

\* A webhook never arrives.
EventLost(h) ==
    /\ Followed /\ h \in news /\ news' = news \ {h}
    /\ UNCHANGED <<store, worker, pr, ci, runs, reporter, crashes>>

RunWaits(n) ==
    /\ Followed /\ runs[n].st = "running" /\ runs[n].gen < MaxGeneration
    /\ runs' = [runs EXCEPT ![n].st = "waiting", ![n].gen = @ + 1]
    /\ UNCHANGED <<store, worker, pr, ci, news, reporter, crashes>>

\* A run ends; a delivered candidate is pushed.
RunEnds(n) ==
    /\ Followed /\ runs[n].st \in Live
    /\ \E out \in Outcomes, started \in BOOLEAN :
         /\ out = "delivered" => pr < MaxPushes
         /\ LET pushed == out = "delivered"
                head == IF pushed THEN pr + 1 ELSE pr
            IN  /\ runs' = [runs EXCEPT ![n].st = out, ![n].started = started,
                                        ![n].head = IF pushed THEN head ELSE @]
                /\ pr' = head
                /\ news' = IF pushed THEN news \cup {head} ELSE news
    /\ UNCHANGED <<store, worker, ci, reporter, crashes>>
-----------------------------------------------------------------------------
Escalate == ClaimCIEscalation \/ MarkCIEscalationDelivered \/ MarkCIEscalationFailure

Reconcile == ClaimCIReconciliation \/ FailCIReconciliation \/ ApplyCIObservation

Launch == ClaimCIRepair \/ BindCIRepairRun \/ DeferCIRepairLaunch \/ LaunchRefused

Poll == \/ ClaimCIRepairStatus \/ PollWaiting \/ ScheduleCIRepairStatus
        \/ MarkCIRepairExternalResumed \/ ChargeCIRepairAttempt \/ CompleteCIRepairDelivery

Next ==
    \/ Tick \/ TickEnds \/ Crash
    \/ Escalate \/ Reconcile \/ Launch \/ Poll
    \/ ObserveCI \/ ObserveFails \/ LaunchRepair \/ LaunchFails
    \/ PollFails \/ PollAnswers \/ LookOutside \/ ResumeRun \/ ResumeFails \/ TerminalResult
    \/ EscalationDue \/ DeadlinePasses \/ Push
    \/ \E h \in Heads : RecordCIEvent(h) \/ EventLost(h) \/ ReconciliationDue(h) \/ CIDecides(h)
    \/ \E n \in Numbers : AttemptDue(n) \/ RunWaits(n) \/ RunEnds(n)

Spec == Init /\ [][Next]_vars

\* The worker goroutine runs, timers fire, a call that is made again and again is answered
\* in the end, CI of every head is decided and every run that is not waiting ends.  Nothing is assumed of
\* webhooks: the reconciliation deadline is there for the ones that never come.
FairSpec ==
    /\ Spec
    /\ WF_vars(Tick) /\ WF_vars(TickEnds)
    /\ WF_vars(Escalate) /\ WF_vars(Reconcile) /\ WF_vars(Launch) /\ WF_vars(Poll)
    /\ WF_vars(ObserveCI \/ ObserveFails) /\ SF_vars(ObserveCI)
    /\ WF_vars(LaunchRepair \/ LaunchFails) /\ SF_vars(LaunchRepair)
    /\ WF_vars(PollFails \/ PollAnswers) /\ SF_vars(PollWaiting \/ PollAnswers)
    /\ WF_vars(PollFails \/ TerminalResult) /\ SF_vars(TerminalResult)
    /\ WF_vars(LookOutside \/ ResumeRun \/ ResumeFails) /\ SF_vars(LookOutside) /\ SF_vars(ResumeRun)
    /\ WF_vars(EscalationDue) /\ WF_vars(DeadlinePasses)
    /\ \A h \in Heads : WF_vars(ReconciliationDue(h)) /\ WF_vars(CIDecides(h))
    /\ \A n \in Numbers : WF_vars(AttemptDue(n)) /\ WF_vars(runs[n].st = "running" /\ RunEnds(n))
-----------------------------------------------------------------------------
\* AttemptMatchesTask: the state of the task and the attempt rows, written by seven
\* transactions, agree.  A task in repair_ready has exactly one attempt to launch, a task
\* in repair_running exactly one to poll, and any other task has neither, so that no task
\* is stuck and no stale attempt is launched later.
AttemptMatchesTask ==
    LET ready == {n \in Numbers : atts[n].st = "ready"}
        running == {n \in Numbers : atts[n].st = "running"}
    IN  CASE task.st = "repair_ready"   -> running = {} /\ \E n \in Numbers : ready = {n}
          [] task.st = "repair_running" -> ready = {} /\ \E n \in Numbers : running = {n}
          [] OTHER                      -> ready = {} /\ running = {}

\* ChargedInOrder: repair_attempts counts every charged attempt exactly once, although
\* ChargeCIRepairAttempt and FinishCIRepairFailure both charge and a crash may come
\* between the charge and the delivery.
ChargedInOrder == \A n \in Numbers : atts[n].charged <=> n <= task.attempts

\* ChargedOnlyIfStarted: an attempt is charged only for a run whose model execution
\* started.
ChargedOnlyIfStarted == \A n \in Numbers : atts[n].charged => runs[n].started

\* OneRepairRun: two repair runs never work on the branch at the same time, whatever
\* answers were lost or refused on the way.
OneRepairRun == \A m, n \in Numbers : runs[m].st \in Live /\ runs[n].st \in Live => m = n

\* RepairOnlyOnFailure: a repair run exists only for a head whose CI really failed for a
\* reason in the code, and a task is completed only on a head whose CI is green, however
\* old the observation was when it was applied.
RepairOnlyOnFailure ==
    /\ \A n \in Numbers : runs[n].st # "none" => ci[atts[n].head] = "code_failure"
    /\ task.st = "completed" => ci[task.head] = "success"

\* WakeKept: an event that RecordCIEvent noted while an observation of the pull request's
\* head was in flight is not thrown away by what that observation says: while the task
\* still waits, the reconciliation is left running or queued again.
WakeKept ==
    [][\A h \in Heads :
         recs[h].st = "running" /\ recs[h].dirty /\ pr = h /\ task.st = "waiting_ci"
           => recs'[h].st # "completed" \/ task'.st # "waiting_ci"]_vars

\* The lifecycle as the tables show it.
PhaseOf == [waiting_ci |-> "waiting", repair_ready |-> "repair", repair_running |-> "repair",
            completed |-> "completed", escalation_pending |-> "escalation",
            escalated |-> "escalated", escalation_blocked |-> "blocked"]

Lifecycle == INSTANCE CILifecycle
    WITH phase <- PhaseOf[task.st],
         repairs <- Cardinality({n \in Numbers : atts[n].st # "none"})

\* ImplementsLifecycle: the tables and the worker implement the CI lifecycle: at most
\* MaxAttempts repairs are authorised, a repair ends in a new wait, another repair or an
\* escalation, and what has ended stays ended.
ImplementsLifecycle == Lifecycle!Spec

\* EndsAsPromised: they implement it with its liveness too, once a reporter stays
\* configured: every task then ends completed, escalated or blocked, whichever webhooks
\* are lost, whichever calls fail and whatever was left undone while there was no
\* reporter, as long as nobody but the repair runs pushes to the branch.  Without a
\* reporter RunOne leaves a queued escalation pending and a waiting run waiting.
EndsAsPromised == Lifecycle!Spec /\ (<>[]reporter => Lifecycle!Progress)
=============================================================================
