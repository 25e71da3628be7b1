------------------------------- MODULE Intake -------------------------------
(***************************************************************************)
(* From the webhook to the stored job, and back after a restore: the       *)
(* gateway publishes to the JetStream stream, the dispatcher's fetch loop  *)
(* stores each message in three transactions before it acknowledges it     *)
(* (dispatcher.go, store.go, eventbus.go), and the `recover` command       *)
(* (internal/recovery) replays the stream into a restored database.        *)
(*                                                                         *)
(* A transaction, a publish, a fetch and an acknowledgement are one step   *)
(* each.  The worker is reduced to the moves of a job that recovery tells  *)
(* apart; Dispatcher.tla has the rest.  JetStream is modelled from the     *)
(* options eventbus.go sets: a first delivery in stream order, redelivery  *)
(* of what is not acknowledged, MaxDeliver, MaxAckPending, and a MsgId     *)
(* that is forgotten after a while.  Recovery runs while the service is    *)
(* stopped, as docs/dispatcher-recovery.md asks of the operator.           *)
(***************************************************************************)
EXTENDS Gateway, Sequences

CONSTANTS Requests,          \* the webhooks that may be sent
          RecoveryIds,
          MaxStream,         \* bound: messages in the stream
          MaxDeliver,        \* deliveries of a message
          MaxAckPending,     \* unacknowledged messages
          MaxFaults,         \* bound: failed calls and crashes
          MaxRestores        \* bound: restores of a backup

ASSUME IntakeConstants ==
    /\ {MaxStream, MaxDeliver, MaxAckPending} \subseteq Nat \ {0}
    /\ {MaxFaults, MaxRestores} \subseteq Nat
    /\ \A r \in Requests : ValidRoute(r.route)
    /\ \A q, r \in Requests : q.delivery = r.delivery /\ q.delivery # EmptyString => Signal(q) = Signal(r)

VARIABLES stream,     \* the stream; the sequence of a message is its index
          received,   \* requests the gateway answered "accepted"
          durable,    \* the dispatcher's durable consumer
          hand,       \* the message the fetch loop holds and its next step
          db,         \* the dispatcher's database
          saved,      \* the backup of it
          mode,       \* "serving", "stopped" or "recovering"
          start,      \* recovery_start_sequence of the configuration
          cmd,        \* the running recover command
          skipped,    \* history: messages a restore neither holds nor replays
          faults, restores

bus == <<stream, received>>
bounds == <<faults, restores>>
vars == <<bus, durable, hand, db, saved, mode, start, cmd, skipped, bounds>>

Malformed == [source |-> "malformed"]
Published == {Signal(r) : r \in {q \in Requests : Admit(q) = "publish"}}
Keys == {Select(g) : g \in Published} \ {NoTask}
Positions == 1..MaxStream

NoMessage == [seq |-> 0, at |-> "fetch"]
NoCommand == [id |-> "none", at |-> "none", left |-> 0, jobs |-> {}, result |-> <<>>]
NotFrozen == {NoTask}
NoRun == [status |-> "none", manifest |-> 0, frozen |-> NotFrozen, replayed |-> {},
          reconciled |-> {}]
EmptyDB == [checkpoint |-> 0, seen |-> {}, events |-> {}, ready |-> {},
            jobs |-> [k \in Keys |-> "none"], runs |-> [i \in RecoveryIds |-> NoRun]]
NoBackup == [EmptyDB EXCEPT !.checkpoint = MaxStream + 1]

Fresh(first) == [on |-> TRUE, first |-> first, tries |-> [s \in Positions |-> 0], done |-> {}]

JobStates == {"none", "pending_launch", "launched", "external_waiting", "ci_waiting",
              "unprojected", "report_pending"}

TypeOK ==
    /\ \A s \in DOMAIN stream : stream[s] \in Published \cup {Malformed}
    /\ Len(stream) <= MaxStream /\ received \subseteq Requests
    /\ durable.first \in 1..(MaxStream + 1) /\ durable.done \subseteq Positions
    /\ durable.tries \in [Positions -> 0..MaxDeliver]
    /\ hand \in {NoMessage} \cup [seq : Positions, at : {"event", "wake", "record", "ack"}]
    /\ db.checkpoint \in 0..MaxStream /\ db.jobs \in [Keys -> JobStates]
    /\ db.ready \subseteq Keys
    /\ mode \in {"serving", "stopped", "recovering"} /\ start \in 0..(MaxStream + 1)
    /\ (mode = "recovering") <=> (cmd # NoCommand)
    /\ skipped \subseteq Positions /\ faults \in 0..MaxFaults /\ restores \in 0..MaxRestores

Init ==
    /\ stream = <<>> /\ received = {}
    /\ durable = Fresh(1) /\ hand = NoMessage
    /\ db = EmptyDB /\ saved = NoBackup
    /\ mode = "serving" /\ start = 0 /\ cmd = NoCommand
    /\ skipped = {} /\ faults = 0 /\ restores = 0

Fault == faults < MaxFaults /\ faults' = faults + 1 /\ UNCHANGED restores
-----------------------------------------------------------------------------
(***************************************************************************)
(* The gateway and the stream.  A message whose MsgId the stream still     *)
(* remembers is accepted and not stored again.  The answer to the sender,  *)
(* or to the gateway, may be lost after the message was stored.            *)
(***************************************************************************)
Publish(g) ==
    \/ Len(stream) < MaxStream /\ stream' = Append(stream, g)
    \/ /\ g.delivery # EmptyString /\ UNCHANGED stream
       /\ \E s \in DOMAIN stream : stream[s] # Malformed /\ stream[s].delivery = g.delivery

HandleRoute(r) ==
    /\ Admit(r) = "publish"
    /\ Publish(Signal(r))
    /\ \/ received' = received \cup {r} /\ UNCHANGED bounds
       \/ Fault /\ UNCHANGED received
    /\ UNCHANGED <<durable, hand, db, saved, mode, start, cmd, skipped>>

\* Something else publishes a message to the stream's subjects that is no signal.
OtherPublisher ==
    /\ Len(stream) < MaxStream /\ \A s \in DOMAIN stream : stream[s] # Malformed
    /\ stream' = Append(stream, Malformed)
    /\ UNCHANGED <<received, durable, hand, db, saved, mode, start, cmd, skipped, bounds>>

(***************************************************************************)
(* The durable consumer: explicit acknowledgements, AckWait, MaxDeliver,   *)
(* MaxAckPending.  What is unacknowledged is delivered again once AckWait  *)
(* has passed; meanwhile later messages may be delivered.                  *)
(***************************************************************************)
Unacknowledged == {s \in DOMAIN stream : s \notin durable.done /\ durable.tries[s] \in 1..(MaxDeliver - 1)}

Deliverable(s) ==
    /\ durable.on /\ s \in durable.first..Len(stream) /\ s \notin durable.done
    /\ durable.tries[s] < MaxDeliver
    /\ durable.tries[s] = 0 => /\ \A t \in durable.first..(s - 1) : durable.tries[t] > 0
                               /\ Cardinality(Unacknowledged) < MaxAckPending

\* The fetch loop takes one message at a time; recovery takes as many as were pending.
Fetch(s) ==
    /\ hand = NoMessage /\ Deliverable(s)
    /\ mode = "serving" \/ (cmd.at = "replay" /\ cmd.left > 0)
    /\ hand' = [seq |-> s, at |-> "event"]
    /\ durable' = [durable EXCEPT !.tries[s] = @ + 1]
    /\ UNCHANGED <<bus, db, saved, mode, start, cmd, skipped, bounds>>

Settled(s) == [durable EXCEPT !.done = @ \cup {s}]

(***************************************************************************)
(* process: what is done with the message in hand.                         *)
(***************************************************************************)
Message == stream[hand.seq]
At(step) == hand.at = step /\ Message # Malformed
GoTo(step) == hand' = [hand EXCEPT !.at = step]

\* Mutant: the command ends without saying so.
GiveUpQuietly == /\ hand' = NoMessage /\ cmd' = NoCommand
                 /\ UNCHANGED <<bus, db, saved, start, skipped, mode>>

\* An error drops the message unacknowledged; in a recover command it also ends it.
GiveUp == /\ hand' = NoMessage /\ cmd' = NoCommand
          /\ mode' = IF mode = "recovering" THEN "stopped" ELSE mode
          /\ UNCHANGED <<bus, db, saved, start, skipped>>

ProcessMalformed ==
    /\ hand.at = "event" /\ Message = Malformed
    /\ durable' = IF mode = "serving" THEN Settled(hand.seq) ELSE durable
    /\ GiveUp /\ UNCHANGED bounds

IsWake(g) == isCIWakeEvent(g.event) /\ routeOwnsRepository(g.namespace)
Recordable(g) == g.source = "github" /\ g.delivery # EmptyString /\ g.sha # EmptyString

RecordCIEvent ==
    /\ At("event") /\ (IsWake(Message) => Recordable(Message))
    /\ db' = IF IsWake(Message) THEN [db EXCEPT !.events = @ \cup {Message.delivery}] ELSE db
    /\ GoTo("wake")
    /\ UNCHANGED <<bus, durable, saved, mode, start, cmd, skipped, bounds>>

RefuseCIEvent ==
    /\ At("event") /\ IsWake(Message) /\ ~Recordable(Message)
    /\ GiveUp /\ UNCHANGED <<durable, bounds>>

RecordExternalWake ==
    LET woken == {k \in Keys : /\ db.jobs[k] = "external_waiting"
                               /\ k[2] = Message.namespace /\ k[3] = Message.payload.number}
    IN  /\ At("wake")
        /\ db' = IF Message.kind = "issue" /\ Message.verified /\ routeOwnsRepository(Message.namespace)
                 THEN [db EXCEPT !.ready = @ \cup woken] ELSE db
        /\ GoTo("record")
        /\ UNCHANGED <<bus, durable, saved, mode, start, cmd, skipped, bounds>>

\* What record writes: the delivery, its job and the checkpoint, once per delivery ID.
WithJob(d, g) ==
    LET k == Select(g)
    IN  IF k # NoTask /\ g.delivery \notin d.seen /\ d.jobs[k] = "none"
        THEN [d EXCEPT !.jobs[k] = "pending_launch"] ELSE d

Recorded(d, s) ==
    LET g == stream[s]
    IN  [WithJob(d, g) EXCEPT !.seen = IF g.delivery = EmptyString THEN @ ELSE @ \cup {g.delivery},
                              !.checkpoint = IF s > @ THEN s ELSE @]

\* Mutant: evidence only of the messages that select a task.
EvidenceOfTasks(d, s) ==
    IF mode = "recovering" /\ Select(stream[s]) # NoTask
    THEN [d EXCEPT !.runs[cmd.id].replayed = @ \cup {s}] ELSE d

\* The replay evidence is part of the same transaction.
WithEvidence(d, s) ==
    IF mode = "recovering" THEN [d EXCEPT !.runs[cmd.id].replayed = @ \cup {s}] ELSE d

Record ==
    /\ At("record")
    /\ db' = Recorded(WithEvidence(db, hand.seq), hand.seq)
    /\ GoTo("ack")
    /\ UNCHANGED <<bus, durable, saved, mode, start, cmd, skipped, bounds>>

AckSync ==
    /\ At("ack")
    /\ durable' = Settled(hand.seq) /\ hand' = NoMessage
    /\ cmd' = IF mode = "recovering" THEN [cmd EXCEPT !.left = @ - 1] ELSE cmd
    /\ UNCHANGED <<bus, db, saved, mode, start, skipped, bounds>>

\* Mutant: the message is acknowledged on every return.
ProcessFailsAcked ==
    /\ hand # NoMessage /\ Message # Malformed
    /\ durable' = Settled(hand.seq)
    /\ Fault /\ GiveUp

\* The store fails, or the answer to the acknowledgement is lost.
ProcessFails ==
    /\ hand # NoMessage /\ Message # Malformed
    /\ \/ UNCHANGED durable
       \/ hand.at = "ack" /\ durable' = Settled(hand.seq)
    /\ Fault /\ GiveUp
-----------------------------------------------------------------------------
(***************************************************************************)
(* The service and its worker, backup and restore.                         *)
(***************************************************************************)
\* A job is "unprojected" when recovery found its run ended and could not read its result:
\* its status is report_pending already, but no result and no report are stored.
Moves == [none |-> {}, pending_launch |-> {"launched"},
          launched |-> {"external_waiting", "ci_waiting", "report_pending"},
          external_waiting |-> {"launched"}, ci_waiting |-> {}, report_pending |-> {},
          unprojected |-> {"ci_waiting", "report_pending"}]

WorkerStep(k) ==
    /\ mode = "serving"
    /\ db.jobs[k] = "external_waiting" => k \in db.ready
    /\ \E to \in Moves[db.jobs[k]] :
           db' = [db EXCEPT !.jobs[k] = to, !.ready = @ \ {k}]
    /\ UNCHANGED <<bus, durable, hand, saved, mode, start, cmd, skipped, bounds>>

Crash ==
    /\ mode = "serving" /\ mode' = "stopped" /\ hand' = NoMessage
    /\ Fault /\ UNCHANGED <<bus, durable, db, saved, start, cmd, skipped>>

Incomplete(d) == {i \in RecoveryIds : d.runs[i].status = "incomplete"}
Completed(d, first) == {i \in RecoveryIds : d.runs[i].status = "completed" /\ d.runs[i].manifest + 1 = first}

\* The fence at start-up: no recovery is unfinished, and one is recorded for the start.
AssertRecoveryComplete(d, first) ==
    /\ Incomplete(d) = {}
    /\ first > 0 => Cardinality(Completed(d, first)) = 1

\* Mutant: a configuration without a start sequence accepts no existing durable.
ensureConsumerStarts ==
    /\ durable.on => start = durable.first
    /\ durable' = IF durable.on THEN durable ELSE Fresh(IF start = 0 THEN 1 ELSE start)

\* An existing durable is kept if it starts where the configuration says.
ensureConsumer ==
    /\ durable.on => start \in {0, durable.first}
    /\ durable' = IF durable.on THEN durable ELSE Fresh(IF start = 0 THEN 1 ELSE start)

Serve ==
    /\ mode = "stopped" /\ AssertRecoveryComplete(db, start) /\ ensureConsumer
    /\ mode' = "serving"
    /\ UNCHANGED <<bus, hand, db, saved, start, cmd, skipped, bounds>>

\* A copy of the database, with its checkpoint as the manifest's sequence.
Backup ==
    /\ mode = "serving" /\ restores < MaxRestores /\ saved # db
    /\ saved' = db
    /\ UNCHANGED <<bus, durable, hand, db, mode, start, cmd, skipped, bounds>>

Holds(d, g) ==
    /\ g.delivery # EmptyString => g.delivery \in d.seen
    /\ IsWake(g) => g.delivery \in d.events
    /\ Select(g) # NoTask => d.jobs[Select(g)] # "none"

\* What a restored database lacks and no recovery brings back: what lies below its
\* checkpoint, and everything when the fence is open already, because the backup was taken
\* after a recovery from the same checkpoint.
PassedOver(d) ==
    {s \in DOMAIN stream : /\ stream[s] # Malformed /\ ~Holds(d, stream[s])
                           /\ s <= d.checkpoint \/ AssertRecoveryComplete(d, d.checkpoint + 1)}

\* The operator restores the backup and configures recovery from its manifest.
Restore ==
    /\ saved # NoBackup /\ restores < MaxRestores
    /\ db' = saved /\ start' = saved.checkpoint + 1
    /\ mode' = "stopped" /\ hand' = NoMessage /\ cmd' = NoCommand
    /\ skipped' = PassedOver(saved)
    /\ restores' = restores + 1
    /\ saved' = IF restores' = MaxRestores THEN NoBackup ELSE saved
    /\ UNCHANGED <<bus, durable, faults>>

(***************************************************************************)
(* The recover command: Runner.Run and the store's recovery operations.    *)
(***************************************************************************)
RecoveryJobs == {k \in Keys : db.jobs[k] \in {"pending_launch", "launched", "external_waiting"}}

\* The checks of runRecovery and Run before anything is written.
Validated ==
    /\ start > 0 /\ db.checkpoint = start - 1
    /\ \A k \in RecoveryJobs : db.jobs[k] = "launched"

Resumable(i) == db.runs[i].status = "incomplete" /\ db.runs[i].manifest = start - 1

\* The row is inserted before the other recoveries are looked at.
BeginRecovery(i) ==
    /\ mode = "stopped" /\ Validated
    /\ db.runs[i] = NoRun \/ Resumable(i)
    /\ db' = IF db.runs[i] # NoRun THEN db
             ELSE [db EXCEPT !.runs[i].status = "incomplete", !.runs[i].manifest = start - 1]
    /\ IF Incomplete(db) \ {i} # {} THEN UNCHANGED <<mode, cmd>>
       ELSE mode' = "recovering" /\ cmd' = [NoCommand EXCEPT !.id = i, !.at = "freeze"]
    /\ UNCHANGED <<bus, durable, hand, saved, start, skipped, bounds>>

PrepareRecoveryJobs ==
    /\ cmd.at = "freeze"
    /\ db' = IF db.runs[cmd.id].frozen = NotFrozen
             THEN [db EXCEPT !.runs[cmd.id].frozen = RecoveryJobs] ELSE db
    /\ cmd' = [cmd EXCEPT !.at = "reset", !.jobs = db'.runs[cmd.id].frozen]
    /\ UNCHANGED <<bus, durable, hand, saved, mode, start, skipped, bounds>>

ResetConsumer ==
    /\ cmd.at = "reset"
    /\ durable' = Fresh(start)
    /\ cmd' = [cmd EXCEPT !.at = "replay", !.left = Len(stream) + 1 - start]
    /\ UNCHANGED <<bus, hand, db, saved, mode, start, skipped, bounds>>

\* The restored jobs are settled once the backlog is replayed.
Settling == cmd.at = "replay" /\ cmd.left = 0 /\ hand = NoMessage

\* Where they may leave a job: a run that has not ended leaves it launched, and so does a
\* failed call for its status; a failed call for its result leaves it unprojected.
ReconciledFrom(st) ==
    IF st \in {"launched", "unprojected"} THEN Moves[st] \cup {"launched", "unprojected"} ELSE {st}

CallFailed(st, to) == to = "unprojected" \/ (st = "unprojected" /\ to = "launched")

\* ReconcileStatusResult or ReconcileStatusFailure for one frozen job.
ReconcileStatus(k) ==
    /\ Settling /\ k \in cmd.jobs
    /\ \E to \in ReconciledFrom(db.jobs[k]) :
           /\ db' = [db EXCEPT !.jobs[k] = to]
           /\ cmd' = [cmd EXCEPT !.at = "evidence", !.jobs = @ \ {k}, !.result = <<k, to>>]
           /\ IF CallFailed(db.jobs[k], to) THEN Fault ELSE UNCHANGED bounds
    /\ UNCHANGED <<bus, durable, hand, saved, mode, start, skipped>>

RecordReconciliation ==
    /\ cmd.at = "evidence"
    /\ cmd.result[2] \in {"launched", "external_waiting", "report_pending"}
    /\ db' = [db EXCEPT !.runs[cmd.id].reconciled = @ \cup {cmd.result[1]}]
    /\ cmd' = [cmd EXCEPT !.at = "replay", !.result = <<>>]
    /\ UNCHANGED <<bus, durable, hand, saved, mode, start, skipped, bounds>>

\* A job that went on to wait for CI has no status that can be recorded, and report_pending
\* is recorded only with the result and the report that go with it.
RefuseReconciliation ==
    /\ cmd.at = "evidence" /\ cmd.result[2] \in {"ci_waiting", "unprojected"}
    /\ GiveUp /\ UNCHANGED <<durable, bounds>>

CompleteRecovery ==
    /\ Settling /\ cmd.jobs = {}
    /\ Cardinality(db.runs[cmd.id].reconciled) = Cardinality(db.runs[cmd.id].frozen)
    /\ db' = [db EXCEPT !.runs[cmd.id].status = "completed"]
    /\ mode' = "stopped" /\ cmd' = NoCommand
    /\ UNCHANGED <<bus, durable, hand, saved, start, skipped, bounds>>

\* A crash, or any error; a failed reset may have deleted the durable.
RecoveryFails ==
    /\ mode = "recovering"
    /\ \/ UNCHANGED durable
       \/ cmd.at = "reset" /\ durable' = [Fresh(1) EXCEPT !.on = FALSE]
    /\ Fault /\ GiveUp
-----------------------------------------------------------------------------
Process == \/ ProcessMalformed \/ RecordCIEvent \/ RefuseCIEvent \/ RecordExternalWake
           \/ Record \/ AckSync

Recover == \/ PrepareRecoveryJobs \/ ResetConsumer
           \/ \E k \in Keys : ReconcileStatus(k)
           \/ RecordReconciliation \/ RefuseReconciliation \/ CompleteRecovery

Next == \/ \E r \in Requests : HandleRoute(r)
        \/ OtherPublisher
        \/ \E s \in DOMAIN stream : Fetch(s)
        \/ Process \/ ProcessFails
        \/ \E k \in Keys : WorkerStep(k)
        \/ Crash \/ Serve \/ Backup \/ Restore
        \/ \E i \in RecoveryIds : BeginRecovery(i)
        \/ Recover \/ RecoveryFails

Spec == Init /\ [][Next]_vars

\* The fetch loop and the worker run until the process stops, it is restarted, and the
\* operator runs the recovery they configured.  Faults are bounded, sending is not fair.
FairSpec ==
    /\ Spec
    /\ WF_vars(\E s \in DOMAIN stream : Fetch(s)) /\ WF_vars(Process)
    /\ WF_vars(Serve) /\ WF_vars(Recover)
    /\ WF_vars(\E i \in RecoveryIds : BeginRecovery(i))

-----------------------------------------------------------------------------
Exhausted(s) == durable.tries[s] = MaxDeliver

\* The message will be delivered again, or is being stored.
Pending(s) == /\ s \in durable.first..Len(stream) /\ s \notin durable.done
              /\ durable.tries[s] < MaxDeliver \/ hand.seq = s

\* While the dispatcher serves, every signal in the stream is in its database or still to
\* come: process acknowledges nothing it has not stored, whatever step fails, and recovery
\* replays what the restored database lacks.  The exceptions are a message given up after
\* MaxDeliver deliveries and one below a restored checkpoint that the backup did not hold.
WorkKept ==
    mode = "serving" =>
        \A s \in DOMAIN stream :
            stream[s] = Malformed \/ Holds(db, stream[s]) \/ Pending(s) \/ Exhausted(s) \/ s \in skipped

\* The replay evidence and the checkpoint never disagree, wherever recovery was cut off:
\* what an incomplete recovery replayed is exactly what lies between its manifest and the
\* checkpoint, and a completed one replayed a gap-free range that the database holds.
EvidenceMatchesCheckpoint ==
    \A i \in RecoveryIds :
        LET run == db.runs[i]
            Range(last) == (run.manifest + 1)..last
        IN  /\ run.status = "incomplete" => run.replayed = Range(db.checkpoint)
            /\ run.status = "completed" =>
                   /\ \E last \in run.manifest..db.checkpoint : run.replayed = Range(last)
                   /\ \A s \in run.replayed : Holds(db, stream[s])

\* The webhook r asks for the job k: it was sent by GitHub, its signature was verified, and
\* it says that the label of the job's route was put on the job's issue, an open one, in the
\* repository of the route.
AsksFor(r, k) ==
    /\ r.route.source = "github" /\ r.proof
    /\ r.event = "issues" /\ r.action = "labeled" /\ r.open
    /\ r.repo = k[2] /\ r.number = k[3]
    /\ \E t \in TaskRoutes : t.id = k[1] /\ t.repo = r.repo /\ t.label = r.label

\* Every job stems from a webhook that asks for it and is in the stream: nothing else the
\* gateway lets through, not the same issue with another label or with the label taken off,
\* is selected.
JobsAreRequested ==
    \A k \in Keys : db.jobs[k] # "none" =>
        \E r \in Requests : AsksFor(r, k) /\ \E s \in DOMAIN stream : stream[s] = Signal(r)

\* The dispatcher waits for a recovery that cannot be completed: neither it nor a recovery
\* can be started, two recoveries are recorded for the start, or every run fails at a
\* message that cannot be stored or at a job that went on to wait for CI.
Stuck ==
    /\ mode # "serving" /\ ~AssertRecoveryComplete(db, start)
    /\ \/ mode = "stopped" /\ ~\E i \in RecoveryIds : /\ Validated /\ Incomplete(db) \subseteq {i}
                                                      /\ db.runs[i] = NoRun \/ Resumable(i)
       \/ Cardinality(Completed(db, start)) > 1
       \/ \E s \in start..Len(stream) :
              stream[s] = Malformed \/ (IsWake(stream[s]) /\ ~Recordable(stream[s]))
       \/ \E i \in Incomplete(db) : \E k \in db.runs[i].frozen \ {NoTask} : db.jobs[k] = "ci_waiting"

\* A webhook the gateway answered with "accepted" ends up in the database: as its job, or
\* as the CI wake it is.  The fetch loop tries again until it is stored or MaxDeliver is
\* reached; after a restore it is replayed, unless recovery can no longer be completed.
AcceptedIsStored ==
    \A r \in {q \in Requests : Admit(q) = "publish"} :
        r \in received ~> \/ Holds(db, Signal(r))
                          \/ Stuck
                          \/ \E s \in DOMAIN stream :
                                 stream[s] = Signal(r) /\ (Exhausted(s) \/ s \in skipped)

\* "An interrupted execution may be rerun with exactly the same recovery ID and
\* parameters" (docs/dispatcher-recovery.md:74).
RerunAccepted ==
    mode = "stopped" => \A i \in Incomplete(db) : Validated /\ Resumable(i) /\ Incomplete(db) = {i}
=============================================================================
