---------------------------- MODULE IntakeProofs ----------------------------
(***************************************************************************)
(* Theorems about Intake for any webhooks, routes, stream length, limits   *)
(* of the consumer, failures, restores and recoveries: nothing accepted is *)
(* lost, recovery's evidence is exact, and jobs stem from verified         *)
(* webhooks.                                                               *)
(***************************************************************************)
EXTENDS Intake, FiniteSetTheorems, TLAPS

(* The inductive invariant. *)

Deliveries == {g.delivery : g \in Published}
Runs == [status : {"none", "incomplete", "completed"}, manifest : 0..MaxStream,
         frozen : (SUBSET Keys) \cup {NotFrozen}, replayed : SUBSET Positions,
         reconciled : SUBSET Keys]
Databases == [checkpoint : 0..MaxStream, seen : SUBSET Deliveries, events : SUBSET Deliveries,
              ready : SUBSET Keys, jobs : [Keys -> JobStates], runs : [RecoveryIds -> Runs]]
Durables == [on : BOOLEAN, first : 1..(MaxStream + 1), tries : [Positions -> 0..MaxDeliver],
             done : SUBSET Positions]
Hands == [seq : Positions, at : {"event", "wake", "record", "ack"}]
Commands == [id : RecoveryIds, at : {"freeze", "reset", "replay", "evidence"}, left : 0..MaxStream,
             jobs : SUBSET Keys, result : (Keys \X JobStates) \cup {<<>>}]

Types ==
    /\ stream \in Seq(Published \cup {Malformed}) /\ Len(stream) <= MaxStream
    /\ received \subseteq Requests
    /\ durable \in Durables /\ hand \in Hands \cup {NoMessage}
    /\ db \in Databases /\ saved \in Databases \cup {NoBackup}
    /\ mode \in {"serving", "stopped", "recovering"} /\ start \in 0..(MaxStream + 1)
    /\ cmd \in Commands \cup {NoCommand}
    /\ (mode = "recovering") <=> (cmd # NoCommand)
    /\ cmd.at = "evidence" => cmd.result # <<>>
    /\ skipped \subseteq Positions /\ faults \in 0..MaxFaults /\ restores \in 0..MaxRestores

\* A log goes on where another one ends.
Extends(log, new) ==
    Len(log) <= Len(new) /\ \A s \in DOMAIN log : s \in DOMAIN new /\ new[s] = log[s]

\* Every job of a database was asked for by a message of the log.
Requested(d, log) ==
    \A k \in Keys : d.jobs[k] # "none" =>
        \E s \in DOMAIN log : log[s] # Malformed /\ Select(log[s]) = k

\* Every delivery a database has seen has its job.
SeenHasJob(d) ==
    \A g \in Published : g.delivery \in d.seen /\ Select(g) # NoTask => d.jobs[Select(g)] # "none"

\* A recovery holds what it replayed, and replayed it without a gap.
Evidence(d, log, i) ==
    /\ d.runs[i].manifest <= d.checkpoint
    /\ \A s \in d.runs[i].replayed :
          s \in DOMAIN log /\ log[s] # Malformed /\ Holds(d, log[s])
    /\ d.runs[i].status = "none" => d.runs[i].replayed = {}
    /\ d.runs[i].status = "incomplete" =>
          d.runs[i].replayed = (d.runs[i].manifest + 1)..d.checkpoint
    /\ d.runs[i].status = "completed" =>
          \E last \in d.runs[i].manifest..d.checkpoint :
              d.runs[i].replayed = (d.runs[i].manifest + 1)..last

Consistent(d, log) ==
    /\ d.checkpoint <= Len(log)
    /\ Requested(d, log) /\ SeenHasJob(d)
    /\ \A i \in RecoveryIds : Evidence(d, log, i)

\* The consumer starts within the stream and has settled only what is there; the message in
\* hand is there, and what was stored of it so far is in the database.
InHand ==
    /\ durable.first <= Len(stream) + 1 /\ durable.done \subseteq DOMAIN stream
    /\ start <= Len(stream) + 1
    /\ hand # NoMessage => hand.seq \in DOMAIN stream /\ mode # "stopped"
    /\ hand.at \in {"wake", "record", "ack"} =>
          Message # Malformed /\ (IsWake(Message) => Message.delivery \in db.events)
    /\ hand.at = "ack" => Holds(db, Message)

\* While a recovery runs it is the only unfinished one, its consumer starts after its
\* manifest, and what was delivered to it is recorded, except the message in hand.
Replaying ==
    /\ mode = "serving" => Incomplete(db) = {}
    /\ saved # NoBackup => Incomplete(saved) = {}
    /\ mode = "recovering" => Incomplete(db) = {cmd.id} /\ start = db.runs[cmd.id].manifest + 1
    /\ cmd.at \in {"freeze", "reset", "evidence"} => hand = NoMessage
    /\ cmd.at \in {"replay", "evidence"} =>
          /\ durable.first = start
          /\ \A s \in Positions : s >= start /\ durable.tries[s] > 0 =>
                s <= db.checkpoint \/ s = hand.seq
    /\ cmd.at = "replay" /\ hand # NoMessage =>
          /\ cmd.left > 0 /\ hand.seq >= start /\ hand.seq <= db.checkpoint + 1
          /\ hand.at = "ack" => hand.seq <= db.checkpoint

\* What WorkKept says of a message, whatever the mode.
KeptAt(s) ==
    \/ stream[s] = Malformed \/ Holds(db, stream[s]) \/ s \in skipped \/ Exhausted(s)
    \/ s >= durable.first /\ s \notin durable.done

Kept == \A s \in DOMAIN stream : KeptAt(s)

\* The restored database lacks nothing below the start but what was passed over; and the
\* fence is closed from the restore until the consumer starts there.
Fenced ==
    /\ \A s \in DOMAIN stream : s < start =>
          stream[s] = Malformed \/ Holds(db, stream[s]) \/ s \in skipped
    /\ Kept \/ (mode # "serving" /\ ~AssertRecoveryComplete(db, start)
                /\ cmd.at \in {"none", "freeze", "reset"})

IndInv == /\ Types
          /\ Consistent(db, stream) /\ (saved # NoBackup => Consistent(saved, stream))
          /\ InHand /\ Replaying /\ Fenced
-----------------------------------------------------------------------------
(* Signals, databases and the stream. *)

\* What is published has a delivery, and what it selects is a key.
LEMMA Signals ==
    ASSUME NEW g \in Published
    PROVE  /\ g.delivery \in Deliveries
           /\ Select(g) # NoTask => Select(g) \in Keys /\ g.delivery # EmptyString
  <1>1. g.delivery \in Deliveries
    BY Zenon DEF Deliveries
  <1>2. Select(g) # NoTask => g.delivery # EmptyString
    BY Zenon DEF Select
  <1>3. Select(g) # NoTask => Select(g) \in Keys
    BY Zenon DEF Keys
  <1> QED
    BY <1>1, <1>2, <1>3, Zenon

\* The task that is selected is the task of a route that matches.
LEMMA SelectedRoute ==
    ASSUME NEW g, Select(g) # NoTask
    PROVE  \E t \in Matching(g) : Select(g) = <<t.id, g.payload.repo, g.payload.number>>
  <1> DEFINE t == CHOOSE t \in Matching(g) : TRUE
  <1>1. Cardinality(Matching(g)) = 1 /\ Select(g) = <<t.id, g.payload.repo, g.payload.number>>
    BY Zenon DEF Select
  <1>2. Matching(g) # {}
    BY <1>1, FS_EmptySet
  <1>3. t \in Matching(g)
    BY <1>2, Zenon
  <1> QED
    BY <1>1, <1>3, Zenon

\* A delivery ID names one signal.
LEMMA OneSignal ==
    ASSUME NEW g \in Published, NEW h \in Published, g.delivery = h.delivery,
           g.delivery # EmptyString
    PROVE  g = h
  <1>1. PICK q \in Requests : g = Signal(q)
    BY Zenon DEF Published
  <1>2. PICK r \in Requests : h = Signal(r)
    BY Zenon DEF Published
  <1>3. g.delivery = q.delivery /\ h.delivery = r.delivery
    BY <1>1, <1>2, Zenon DEF Signal
  <1> QED
    BY <1>1, <1>2, <1>3, IntakeConstants, Zenon

\* What a database holds, one that knows no less holds too.
LEMMA HoldsGrows ==
    ASSUME NEW d, NEW e, NEW g \in Published, Holds(d, g),
           d.seen \subseteq e.seen, d.events \subseteq e.events,
           \A k \in Keys : d.jobs[k] # "none" => e.jobs[k] # "none"
    PROVE  Holds(e, g)
  BY Signals, Zenon DEF Holds

\* The bounds are numbers.
LEMMA Limits ==
    /\ MaxStream \in Nat \ {0} /\ MaxDeliver \in Nat \ {0}
    /\ MaxFaults \in Nat /\ MaxRestores \in Nat
  BY IntakeConstants, Zenon

\* The sizes of the stream and of the positions.
LEMMA Lengths ==
    ASSUME Types
    PROVE  /\ Len(stream) \in Nat /\ DOMAIN stream = 1..Len(stream)
           /\ DOMAIN stream \subseteq Positions
           /\ MaxStream \in Nat \ {0} /\ MaxDeliver \in Nat \ {0}
           /\ \A s \in DOMAIN stream : stream[s] # Malformed => stream[s] \in Published
  <1>1. Len(stream) \in Nat /\ DOMAIN stream = 1..Len(stream)
    BY DEF Types
  <1>2. MaxStream \in Nat \ {0} /\ MaxDeliver \in Nat \ {0}
    BY Limits, Zenon
  <1>3. DOMAIN stream \subseteq Positions
    BY <1>1, <1>2 DEF Types, Positions
  <1>4. \A s \in DOMAIN stream : stream[s] \in Published \cup {Malformed}
    BY <1>1 DEF Types
  <1> QED
    BY <1>1, <1>2, <1>3, <1>4, Zenon

\* What is a number in a state.
LEMMA Numbers ==
    ASSUME Types
    PROVE  /\ start \in Nat /\ start \in 0..(MaxStream + 1)
           /\ db.checkpoint \in Nat /\ durable.first \in Nat
           /\ \A i \in RecoveryIds : db.runs[i].manifest \in Nat
           /\ saved # NoBackup => saved.checkpoint \in Nat
           /\ \A s \in Positions : s \in Nat /\ s # 0 /\ durable.tries[s] \in Nat
  <1>1. start \in Nat /\ start \in 0..(MaxStream + 1)
    BY Limits DEF Types
  <1>2. db \in Databases /\ durable \in Durables /\ saved \in Databases \cup {NoBackup}
    BY Zenon DEF Types
  <1>3. db.checkpoint \in Nat /\ durable.first \in Nat /\ (saved # NoBackup => saved.checkpoint \in Nat)
    BY <1>2, Limits DEF Databases, Durables
  <1>4. ASSUME NEW i \in RecoveryIds
        PROVE  db.runs[i].manifest \in Nat
    BY <1>2, Limits DEF Databases, Runs
  <1>5. ASSUME NEW s \in Positions
        PROVE  s \in Nat /\ s # 0 /\ durable.tries[s] \in Nat
    <2>1. durable.tries[s] \in 0..MaxDeliver
      BY <1>2, Zenon DEF Durables
    <2> QED
      BY <2>1, Limits DEF Positions
  <1> QED
    BY <1>1, <1>3, <1>4, <1>5, Zenon

\* The start of a running recovery.
LEMMA StartOfRun ==
    ASSUME IndInv, mode = "recovering"
    PROVE  /\ cmd.id \in RecoveryIds /\ start = db.runs[cmd.id].manifest + 1
           /\ start \in 1..(MaxStream + 1) /\ start >= 1 /\ start <= db.checkpoint + 1
  <1>1. Types /\ cmd.id \in RecoveryIds
    BY Zenon DEF IndInv, Types, Commands
  <1>2. start = db.runs[cmd.id].manifest + 1
    BY Zenon DEF IndInv, Replaying
  <1>3. db.runs[cmd.id].manifest <= db.checkpoint
    BY <1>1, Zenon DEF IndInv, Consistent, Evidence
  <1>4. /\ db.runs[cmd.id].manifest \in Nat /\ db.checkpoint \in Nat
        /\ start \in 0..(MaxStream + 1) /\ MaxStream \in Nat
    BY <1>1, Numbers, Limits, Zenon
  <1> QED
    BY <1>1, <1>2, <1>3, <1>4

\* The stream only grows.
LEMMA StreamGrows ==
    ASSUME Types, Next
    PROVE  Extends(stream, stream')
  <1>1. CASE stream' = stream
    <2>1. Len(stream) \in Nat
      BY Lengths, Zenon
    <2> QED
      BY <1>1, <2>1 DEF Extends
  <1>2. ASSUME NEW m, stream' = Append(stream, m)
        PROVE  Extends(stream, stream')
    <2>1. /\ Len(stream') = Len(stream) + 1 /\ DOMAIN stream' = 1..(Len(stream) + 1)
          /\ \A s \in 1..Len(stream) : stream'[s] = stream[s]
      <3>1. stream \in Seq(Published \cup {Malformed} \cup {m})
        <4>1. stream \in Seq(Published \cup {Malformed})
          BY Zenon DEF Types
        <4> QED
          BY <4>1, Lengths
      <3> QED
        BY <1>2, <3>1
    <2> QED
      BY <2>1, Lengths DEF Extends
  <1>3. stream' = stream \/ \E m : stream' = Append(stream, m)
    <2> USE DEF bus
    <2>1. ASSUME NEW r \in Requests, HandleRoute(r)
          PROVE  stream' = stream \/ \E m : stream' = Append(stream, m)
      BY <2>1, Zenon DEF HandleRoute, Publish
    <2>2. CASE OtherPublisher \/ ProcessFails \/ Crash \/ Serve \/ Backup \/ Restore \/ RecoveryFails
      BY <2>2, Zenon DEF OtherPublisher, ProcessFails, GiveUp, Crash, Serve, Backup, Restore, RecoveryFails
    <2>3. ASSUME NEW s \in DOMAIN stream, Fetch(s)
          PROVE  stream' = stream
      BY <2>3, Zenon DEF Fetch
    <2>4. CASE Process
      BY <2>4, Zenon DEF Process, ProcessMalformed, RecordCIEvent, RefuseCIEvent, RecordExternalWake,
         Record, AckSync, GiveUp
    <2>5. ASSUME NEW k \in Keys, WorkerStep(k) \/ ReconcileStatus(k)
          PROVE  stream' = stream
      BY <2>5, Zenon DEF WorkerStep, ReconcileStatus
    <2>6. ASSUME NEW i \in RecoveryIds, BeginRecovery(i)
          PROVE  stream' = stream
      BY <2>6, Zenon DEF BeginRecovery
    <2>7. CASE \/ PrepareRecoveryJobs \/ ResetConsumer \/ RecordReconciliation
               \/ RefuseReconciliation \/ CompleteRecovery
      BY <2>7, Zenon DEF PrepareRecoveryJobs, ResetConsumer, RecordReconciliation, RefuseReconciliation,
         CompleteRecovery, GiveUp
    <2> QED
      BY <2>1, <2>2, <2>3, <2>4, <2>5, <2>6, <2>7, Zenon DEF Next, Recover
  <1> QED
    BY <1>1, <1>2, <1>3, Zenon
-----------------------------------------------------------------------------
(* What one step may do to the database. *)

\* A database that knows no less, with the same deliveries, checkpoint and evidence.
Alike(d, e) ==
    /\ e.seen = d.seen /\ d.events \subseteq e.events /\ e.checkpoint = d.checkpoint
    /\ \A k \in Keys : (e.jobs[k] = "none") <=> (d.jobs[k] = "none")
    /\ \A i \in RecoveryIds : /\ e.runs[i].status = d.runs[i].status
                              /\ e.runs[i].manifest = d.runs[i].manifest
                              /\ e.runs[i].replayed = d.runs[i].replayed

\* The row of one recovery is written.
LEMMA RunEdit ==
    ASSUME NEW d \in Databases, NEW i \in RecoveryIds, NEW row \in Runs,
           NEW e, e = [d EXCEPT !.runs[i] = row]
    PROVE  /\ e \in Databases
           /\ e.checkpoint = d.checkpoint /\ e.seen = d.seen /\ e.events = d.events
           /\ e.jobs = d.jobs /\ e.ready = d.ready
           /\ e.runs[i] = row /\ \A j \in RecoveryIds : j # i => e.runs[j] = d.runs[j]
  <1>1. d.runs \in [RecoveryIds -> Runs]
    BY Zenon DEF Databases
  <1>2. e = [d EXCEPT !.runs = [d.runs EXCEPT ![i] = row]]
    BY Zenon DEF Databases
  <1>3. /\ [d.runs EXCEPT ![i] = row] \in [RecoveryIds -> Runs]
        /\ [d.runs EXCEPT ![i] = row][i] = row
        /\ \A j \in RecoveryIds : j # i => [d.runs EXCEPT ![i] = row][j] = d.runs[j]
    BY <1>1, Zenon
  <1>4. /\ e.checkpoint = d.checkpoint /\ e.seen = d.seen /\ e.events = d.events
        /\ e.jobs = d.jobs /\ e.ready = d.ready /\ e.runs = [d.runs EXCEPT ![i] = row]
    BY <1>2, Zenon DEF Databases
  <1>5. e \in Databases
    BY <1>2, <1>3, Zenon DEF Databases
  <1> QED
    BY <1>3, <1>4, <1>5, Zenon

\* The states a job may move to are states, and none of them is "none".
LEMMA JobMoves ==
    ASSUME NEW st \in JobStates, NEW to \in Moves[st]
    PROVE  to \in JobStates /\ to # "none" /\ st # "none"
  BY DEF JobStates, Moves

\* And a job that is reconciled after a restore.
LEMMA ReconciledMoves ==
    ASSUME NEW st \in JobStates, NEW to \in ReconciledFrom(st)
    PROVE  to \in JobStates /\ ((to = "none") <=> (st = "none"))
  <1>1. CASE st \in {"launched", "unprojected"}
    BY <1>1, JobMoves, Zenon DEF ReconciledFrom, JobStates
  <1>2. CASE st \notin {"launched", "unprojected"}
    BY <1>2, Zenon DEF ReconciledFrom
  <1> QED
    BY <1>1, <1>2, Zenon

\* Who the running command is.
LEMMA Running ==
    ASSUME Types
    PROVE  /\ cmd.at \in {"freeze", "reset", "replay", "evidence"} => mode = "recovering"
           /\ mode = "recovering" => cmd \in Commands /\ cmd.id \in RecoveryIds
           /\ mode # "recovering" => cmd = NoCommand /\ cmd.at = "none" /\ cmd.left = 0
  BY DEF Types, Commands, NoCommand

LEMMA AlikeSame ==
    ASSUME NEW d, NEW e, e = d
    PROVE  Alike(d, e)
  BY Zenon DEF Alike

\* The steps of process that note what a message is about.
LEMMA NoteMoves ==
    ASSUME IndInv, RecordCIEvent \/ RecordExternalWake
    PROVE  db' \in Databases /\ Alike(db, db')
  <1>0. db \in Databases
    BY Zenon DEF IndInv, Types
  <1>1. CASE db' = db
    BY <1>0, <1>1, AlikeSame, Zenon
  <1>2. CASE RecordCIEvent /\ db' # db
    <2>1. hand.seq \in DOMAIN stream /\ Message # Malformed
      BY <1>2 DEF RecordCIEvent, At, IndInv, InHand, NoMessage
    <2>2. Message \in Published
      BY <2>1, Lengths, Zenon DEF IndInv, Message
    <2>3. Message.delivery \in Deliveries
      BY <2>2, Signals, Zenon
    <2> DEFINE x == Message.delivery
    <2>4. db' = [db EXCEPT !.events = db.events \cup {x}]
      BY <1>0, <1>2, Zenon DEF RecordCIEvent, Databases
    <2>5. x \in Deliveries
      BY <2>3, Zenon
    <2> HIDE DEF x
    <2>6. db' \in Databases
      BY <1>0, <2>4, <2>5, Zenon DEF Databases
    <2>7. /\ db'.seen = db.seen /\ db'.events = db.events \cup {x} /\ db'.checkpoint = db.checkpoint
          /\ db'.jobs = db.jobs /\ db'.runs = db.runs
      BY <1>0, <2>4, Zenon DEF Databases
    <2> QED
      BY <2>6, <2>7, Zenon DEF Alike
  <1>3. CASE RecordExternalWake /\ db' # db
    <2>1. PICK woken \in SUBSET Keys : db' = [db EXCEPT !.ready = db.ready \cup woken]
      <3> DEFINE w == {k \in Keys : /\ db.jobs[k] = "external_waiting"
                                    /\ k[2] = Message.namespace /\ k[3] = Message.payload.number}
      <3>1. db' = [db EXCEPT !.ready = db.ready \cup w]
        BY <1>0, <1>3, Zenon DEF RecordExternalWake, Databases
      <3>2. w \in SUBSET Keys
        BY Zenon
      <3> HIDE DEF w
      <3> QED
        BY <3>1, <3>2, Zenon
    <2>6. db' \in Databases
      BY <1>0, <2>1, Zenon DEF Databases
    <2>7. /\ db'.seen = db.seen /\ db'.events = db.events /\ db'.checkpoint = db.checkpoint
          /\ db'.jobs = db.jobs /\ db'.runs = db.runs
      BY <1>0, <2>1, Zenon DEF Databases
    <2> QED
      BY <2>6, <2>7, Zenon DEF Alike
  <1> QED
    BY <1>1, <1>2, <1>3, Zenon

\* The steps that move a job.
LEMMA WorkMoves ==
    ASSUME IndInv, NEW k \in Keys, WorkerStep(k) \/ ReconcileStatus(k)
    PROVE  db' \in Databases /\ Alike(db, db')
  <1>0. db \in Databases /\ db.jobs[k] \in JobStates /\ db.ready \in SUBSET Keys
    BY Zenon DEF IndInv, Types, Databases
  <1>1. \E to \in JobStates, ready \in SUBSET Keys :
          /\ db' = [db EXCEPT !.jobs[k] = to, !.ready = ready]
          /\ (to = "none") <=> (db.jobs[k] = "none")
    <2>1. CASE WorkerStep(k)
      <3>1. PICK to \in Moves[db.jobs[k]] : db' = [db EXCEPT !.jobs[k] = to, !.ready = @ \ {k}]
        BY <2>1, Zenon DEF WorkerStep
      <3>2. to \in JobStates /\ to # "none" /\ db.jobs[k] # "none"
        BY <1>0, JobMoves, Zenon
      <3>3. db.ready \ {k} \in SUBSET Keys
        BY <1>0, Zenon
      <3>4. db' = [db EXCEPT !.jobs[k] = to, !.ready = db.ready \ {k}]
        BY <1>0, <3>1, Zenon DEF Databases
      <3> QED
        BY <3>2, <3>3, <3>4, Zenon
    <2>2. CASE ReconcileStatus(k)
      <3>1. PICK to \in ReconciledFrom(db.jobs[k]) : db' = [db EXCEPT !.jobs[k] = to]
        BY <2>2, Zenon DEF ReconcileStatus
      <3>2. to \in JobStates /\ ((to = "none") <=> (db.jobs[k] = "none"))
        BY <1>0, <3>1, ReconciledMoves, Zenon
      <3>3. db' = [db EXCEPT !.jobs[k] = to, !.ready = db.ready]
        BY <1>0, <3>1, Zenon DEF Databases
      <3> QED
        BY <1>0, <3>2, <3>3, Zenon
    <2> QED
      BY <2>1, <2>2, Zenon
  <1>2. PICK to \in JobStates, ready \in SUBSET Keys :
          /\ db' = [db EXCEPT !.jobs[k] = to, !.ready = ready]
          /\ (to = "none") <=> (db.jobs[k] = "none")
    BY <1>1, Zenon
  <1>3. /\ db' \in Databases
        /\ db'.checkpoint = db.checkpoint /\ db'.seen = db.seen /\ db'.events = db.events
        /\ db'.runs = db.runs
        /\ db'.jobs[k] = to /\ \A j \in Keys : j # k => db'.jobs[j] = db.jobs[j]
    <2>1. db.jobs \in [Keys -> JobStates]
      BY <1>0, Zenon DEF Databases
    <2>2. db' = [db EXCEPT !.jobs = [db.jobs EXCEPT ![k] = to], !.ready = ready]
      BY <1>0, <1>2, Zenon DEF Databases
    <2>3. /\ [db.jobs EXCEPT ![k] = to] \in [Keys -> JobStates]
          /\ [db.jobs EXCEPT ![k] = to][k] = to
          /\ \A j \in Keys : j # k => [db.jobs EXCEPT ![k] = to][j] = db.jobs[j]
      BY <2>1, Zenon
    <2>4. /\ db'.checkpoint = db.checkpoint /\ db'.seen = db.seen /\ db'.events = db.events
          /\ db'.runs = db.runs /\ db'.jobs = [db.jobs EXCEPT ![k] = to]
      BY <1>0, <2>2, Zenon DEF Databases
    <2>5. db' \in Databases
      BY <1>0, <2>2, <2>3, Zenon DEF Databases
    <2> QED
      BY <2>3, <2>4, <2>5, Zenon
  <1> QED
    BY <1>2, <1>3, Zenon DEF Alike

\* The steps of a recovery that write its row, but for its start and its end.
LEMMA RecoveryMoves ==
    ASSUME IndInv, PrepareRecoveryJobs \/ RecordReconciliation
    PROVE  db' \in Databases /\ Alike(db, db')
  <1>0. /\ db \in Databases /\ cmd \in Commands /\ cmd.id \in RecoveryIds
        /\ db.runs[cmd.id] \in Runs
    <2>1. mode = "recovering"
      BY Running, Zenon DEF IndInv, PrepareRecoveryJobs, RecordReconciliation
    <2> QED
      BY <2>1, Running, Zenon DEF IndInv, Types, Databases
  <1>1. CASE db' = db
    BY <1>0, <1>1, AlikeSame, Zenon
  <1>2. CASE db' # db
    <2>1. \E row \in Runs :
             /\ db' = [db EXCEPT !.runs[cmd.id] = row]
             /\ row.status = db.runs[cmd.id].status /\ row.manifest = db.runs[cmd.id].manifest
             /\ row.replayed = db.runs[cmd.id].replayed
      <3>1. CASE PrepareRecoveryJobs
        <4> DEFINE row == [db.runs[cmd.id] EXCEPT !.frozen = RecoveryJobs]
        <4>1. db' = [db EXCEPT !.runs[cmd.id] = row]
          BY <1>0, <1>2, <3>1, Zenon DEF PrepareRecoveryJobs, Databases
        <4>2. RecoveryJobs \in SUBSET Keys
          BY Zenon DEF RecoveryJobs
        <4>3. /\ row \in Runs
              /\ row.status = db.runs[cmd.id].status /\ row.manifest = db.runs[cmd.id].manifest
              /\ row.replayed = db.runs[cmd.id].replayed
          BY <1>0, <4>2, Zenon DEF Runs
        <4> HIDE DEF row
        <4> QED
          BY <4>1, <4>3, Zenon
      <3>2. CASE RecordReconciliation
        <4>1. cmd.result[1] \in Keys
          BY <1>0, <3>2, Zenon DEF RecordReconciliation, IndInv, Types, Commands
        <4> DEFINE row == [db.runs[cmd.id] EXCEPT !.reconciled = db.runs[cmd.id].reconciled \cup {cmd.result[1]}]
        <4>2. db' = [db EXCEPT !.runs[cmd.id] = row]
          BY <1>0, <3>2, Zenon DEF RecordReconciliation, Databases, Runs
        <4>3. /\ row \in Runs
              /\ row.status = db.runs[cmd.id].status /\ row.manifest = db.runs[cmd.id].manifest
              /\ row.replayed = db.runs[cmd.id].replayed
          BY <1>0, <4>1, Zenon DEF Runs
        <4> HIDE DEF row
        <4> QED
          BY <4>2, <4>3
      <3> QED
        BY <3>1, <3>2, Zenon
    <2>2. PICK row \in Runs :
             /\ db' = [db EXCEPT !.runs[cmd.id] = row]
             /\ row.status = db.runs[cmd.id].status /\ row.manifest = db.runs[cmd.id].manifest
             /\ row.replayed = db.runs[cmd.id].replayed
      BY <2>1, Zenon
    <2>3. /\ db' \in Databases
          /\ db'.checkpoint = db.checkpoint /\ db'.seen = db.seen /\ db'.events = db.events
          /\ db'.jobs = db.jobs
          /\ db'.runs[cmd.id] = row /\ \A j \in RecoveryIds : j # cmd.id => db'.runs[j] = db.runs[j]
      BY <1>0, <2>2, RunEdit
    <2> QED
      BY <2>2, <2>3, Zenon DEF Alike
  <1> QED
    BY <1>1, <1>2, Zenon

\* A recovery begins or ends: its row alone changes.
LEMMA BeginMoves ==
    ASSUME IndInv, NEW i \in RecoveryIds, BeginRecovery(i)
    PROVE  /\ db' \in Databases
           /\ \/ db' = db /\ db.runs[i].status = "incomplete" /\ db.runs[i].manifest = start - 1
              \/ /\ db'.checkpoint = db.checkpoint /\ db'.seen = db.seen /\ db'.events = db.events
                 /\ db'.jobs = db.jobs
                 /\ db'.runs[i].status = "incomplete" /\ db'.runs[i].manifest = start - 1
                 /\ db'.runs[i].replayed = {} /\ db.runs[i].replayed = {}
                 /\ db.runs[i].status = "none"
                 /\ \A j \in RecoveryIds : j # i => db'.runs[j] = db.runs[j]
  <1>0. db \in Databases /\ db.runs[i] \in Runs /\ start \in 0..(MaxStream + 1)
    BY Zenon DEF IndInv, Types, Databases
  <1>1. CASE db.runs[i] # NoRun
    BY <1>0, <1>1, Zenon DEF BeginRecovery, Resumable
  <1>2. CASE db.runs[i] = NoRun
    <2> DEFINE row == [NoRun EXCEPT !.status = "incomplete", !.manifest = start - 1]
    <2>1. db' = [db EXCEPT !.runs[i] = row]
      BY <1>0, <1>2, Zenon DEF BeginRecovery, Databases, NoRun
    <2>2. start - 1 \in 0..MaxStream
      BY <1>0, Limits DEF BeginRecovery, Validated
    <2>3. /\ row \in Runs
          /\ row.status = "incomplete" /\ row.manifest = start - 1 /\ row.replayed = {}
      BY <1>0, <1>2, <2>2, Zenon DEF Runs, NoRun
    <2>4. NoRun.status = "none" /\ NoRun.replayed = {}
      BY Zenon DEF NoRun
    <2> HIDE DEF row
    <2>5. /\ db' \in Databases
          /\ db'.checkpoint = db.checkpoint /\ db'.seen = db.seen /\ db'.events = db.events
          /\ db'.jobs = db.jobs
          /\ db'.runs[i] = row /\ \A j \in RecoveryIds : j # i => db'.runs[j] = db.runs[j]
      BY <1>0, <2>1, <2>3, RunEdit
    <2> QED
      BY <1>2, <2>3, <2>4, <2>5, Zenon
  <1> QED
    BY <1>1, <1>2, Zenon

LEMMA CompleteMoves ==
    ASSUME IndInv, CompleteRecovery
    PROVE  /\ db' \in Databases /\ cmd.id \in RecoveryIds
           /\ db'.checkpoint = db.checkpoint /\ db'.seen = db.seen /\ db'.events = db.events
           /\ db'.jobs = db.jobs
           /\ db'.runs[cmd.id].status = "completed"
           /\ db'.runs[cmd.id].manifest = db.runs[cmd.id].manifest
           /\ db'.runs[cmd.id].replayed = db.runs[cmd.id].replayed
           /\ \A j \in RecoveryIds : j # cmd.id => db'.runs[j] = db.runs[j]
  <1>0. db \in Databases /\ cmd.id \in RecoveryIds /\ db.runs[cmd.id] \in Runs
    <2>1. mode = "recovering"
      BY Running, Zenon DEF IndInv, CompleteRecovery, Settling
    <2> QED
      BY <2>1, Running, Zenon DEF IndInv, Types, Databases
  <1> DEFINE row == [db.runs[cmd.id] EXCEPT !.status = "completed"]
  <1>1. db' = [db EXCEPT !.runs[cmd.id] = row]
    BY <1>0, Zenon DEF CompleteRecovery, Databases
  <1>2. /\ row \in Runs
        /\ row.status = "completed" /\ row.manifest = db.runs[cmd.id].manifest
        /\ row.replayed = db.runs[cmd.id].replayed
    BY <1>0, Zenon DEF Runs
  <1> HIDE DEF row
  <1>3. /\ db' \in Databases
        /\ db'.checkpoint = db.checkpoint /\ db'.seen = db.seen /\ db'.events = db.events
        /\ db'.jobs = db.jobs
        /\ db'.runs[cmd.id] = row /\ \A j \in RecoveryIds : j # cmd.id => db'.runs[j] = db.runs[j]
    BY <1>0, <1>1, <1>2, RunEdit
  <1> QED
    BY <1>0, <1>2, <1>3, Zenon

\* What the transaction of record leaves behind.
LEMMA RecordMoves ==
    ASSUME IndInv, Record
    PROVE  /\ hand.seq \in DOMAIN stream /\ Message \in Published
           /\ db' \in Databases
           /\ db'.events = db.events
           /\ db'.checkpoint = IF hand.seq > db.checkpoint THEN hand.seq ELSE db.checkpoint
           /\ db'.seen = IF Message.delivery = EmptyString THEN db.seen
                         ELSE db.seen \cup {Message.delivery}
           /\ \A k \in Keys : db'.jobs[k] =
                 IF k = Select(Message) /\ Message.delivery \notin db.seen /\ db.jobs[k] = "none"
                 THEN "pending_launch" ELSE db.jobs[k]
           /\ \A i \in RecoveryIds :
                 /\ db'.runs[i].status = db.runs[i].status
                 /\ db'.runs[i].manifest = db.runs[i].manifest
                 /\ db'.runs[i].replayed = IF mode = "recovering" /\ i = cmd.id
                                           THEN db.runs[i].replayed \cup {hand.seq}
                                           ELSE db.runs[i].replayed
  <1> DEFINE s == hand.seq
             g == Message
             d == WithEvidence(db, s)
             e == WithJob(d, g)
  <1>0. db \in Databases /\ s \in DOMAIN stream /\ s \in Positions /\ g # Malformed /\ g = stream[s]
    <2>1. db \in Databases /\ s \in DOMAIN stream /\ g # Malformed
      BY DEF Record, At, IndInv, Types, InHand, NoMessage
    <2> QED
      BY <2>1, Lengths, Zenon DEF IndInv, Message
  <1>1. g \in Published
    BY <1>0, Lengths, Zenon DEF IndInv
  <1>2. g.delivery \in Deliveries /\ (Select(g) # NoTask => Select(g) \in Keys)
    BY <1>1, Signals, Zenon
  <1>3. db' = [e EXCEPT !.seen = IF g.delivery = EmptyString THEN @ ELSE @ \cup {g.delivery},
                        !.checkpoint = IF s > @ THEN s ELSE @]
    BY <1>0, Zenon DEF Record, Recorded
  <1>4. /\ d \in Databases
        /\ d.checkpoint = db.checkpoint /\ d.seen = db.seen /\ d.events = db.events
        /\ d.jobs = db.jobs
        /\ \A i \in RecoveryIds :
              /\ d.runs[i].status = db.runs[i].status
              /\ d.runs[i].manifest = db.runs[i].manifest
              /\ d.runs[i].replayed = IF mode = "recovering" /\ i = cmd.id
                                      THEN db.runs[i].replayed \cup {s} ELSE db.runs[i].replayed
    <2>1. CASE mode # "recovering"
      BY <1>0, <2>1, Zenon DEF WithEvidence
    <2>2. CASE mode = "recovering"
      <3>1. cmd.id \in RecoveryIds /\ db.runs[cmd.id] \in Runs
        BY <1>0, <2>2, Running, Zenon DEF IndInv, Databases
      <3> DEFINE row == [db.runs[cmd.id] EXCEPT !.replayed = db.runs[cmd.id].replayed \cup {s}]
      <3>2. d = [db EXCEPT !.runs[cmd.id] = row]
        BY <1>0, <2>2, <3>1, Zenon DEF WithEvidence, Databases, Runs
      <3>3. /\ row \in Runs
            /\ row.status = db.runs[cmd.id].status /\ row.manifest = db.runs[cmd.id].manifest
            /\ row.replayed = db.runs[cmd.id].replayed \cup {s}
        BY <1>0, <3>1, Zenon DEF Runs
      <3> HIDE DEF row, d, s
      <3>4. /\ d \in Databases
            /\ d.checkpoint = db.checkpoint /\ d.seen = db.seen /\ d.events = db.events
            /\ d.jobs = db.jobs
            /\ d.runs[cmd.id] = row /\ \A j \in RecoveryIds : j # cmd.id => d.runs[j] = db.runs[j]
        BY <1>0, <3>1, <3>2, <3>3, RunEdit
      <3> QED
        BY <2>2, <3>3, <3>4, Zenon
    <2> QED
      BY <2>1, <2>2, Zenon
  <1> HIDE DEF d
  <1>5. /\ e \in Databases
        /\ e.checkpoint = d.checkpoint /\ e.seen = d.seen /\ e.events = d.events /\ e.runs = d.runs
        /\ \A k \in Keys : e.jobs[k] =
              IF k = Select(g) /\ g.delivery \notin d.seen /\ d.jobs[k] = "none"
              THEN "pending_launch" ELSE d.jobs[k]
    <2> DEFINE new == Select(g) # NoTask /\ g.delivery \notin d.seen /\ d.jobs[Select(g)] = "none"
               k0 == Select(g)
    <2>1. CASE ~new
      <3>1. e = d
        BY <2>1, Zenon DEF WithJob
      <3>2. NoTask \notin Keys
        BY Zenon DEF Keys
      <3> QED
        BY <1>4, <2>1, <3>1, <3>2
    <2>2. CASE new
      <3>1. k0 \in Keys /\ d.jobs \in [Keys -> JobStates] /\ "pending_launch" \in JobStates
        BY <1>2, <1>4, <2>2, Zenon DEF Databases, JobStates
      <3>2. e = [d EXCEPT !.jobs[k0] = "pending_launch"]
        BY <2>2, Zenon DEF WithJob
      <3> HIDE DEF k0, e
      <3>3. e = [d EXCEPT !.jobs = [d.jobs EXCEPT ![k0] = "pending_launch"]]
        BY <1>4, <3>2, Zenon DEF Databases
      <3>4. /\ [d.jobs EXCEPT ![k0] = "pending_launch"] \in [Keys -> JobStates]
            /\ \A k \in Keys : [d.jobs EXCEPT ![k0] = "pending_launch"][k] =
                                 IF k = k0 THEN "pending_launch" ELSE d.jobs[k]
        BY <3>1, Zenon
      <3>5. /\ e.checkpoint = d.checkpoint /\ e.seen = d.seen /\ e.events = d.events /\ e.runs = d.runs
            /\ e.jobs = [d.jobs EXCEPT ![k0] = "pending_launch"]
        BY <1>4, <3>3, Zenon DEF Databases
      <3>6. e \in Databases
        BY <1>4, <3>3, <3>4, Zenon DEF Databases
      <3>7. \A k \in Keys : e.jobs[k] = IF k = k0 THEN "pending_launch" ELSE d.jobs[k]
        BY <3>4, <3>5, Zenon
      <3> QED
        BY <2>2, <3>5, <3>6, <3>7, Zenon DEF k0
    <2> QED
      BY <2>1, <2>2, Zenon
  <1> HIDE DEF e, s, g
  <1>6. /\ db'.events = e.events /\ db'.jobs = e.jobs /\ db'.runs = e.runs
        /\ db'.checkpoint = IF s > e.checkpoint THEN s ELSE e.checkpoint
        /\ db'.seen = IF g.delivery = EmptyString THEN e.seen ELSE e.seen \cup {g.delivery}
    BY <1>3, <1>5, Zenon DEF Databases
  <1>7. db' \in Databases
    <2> DEFINE seen == IF g.delivery = EmptyString THEN e.seen ELSE e.seen \cup {g.delivery}
               check == IF s > e.checkpoint THEN s ELSE e.checkpoint
    <2>1. db' = [e EXCEPT !.seen = seen, !.checkpoint = check]
      BY <1>3, <1>5, Zenon DEF Databases
    <2>2. seen \in SUBSET Deliveries
      BY <1>2, <1>5, Zenon DEF Databases
    <2>3. check \in 0..MaxStream
      BY <1>0, <1>5, Limits DEF Databases, Positions
    <2> HIDE DEF seen, check
    <2> QED
      BY <1>5, <2>1, <2>2, <2>3, Zenon DEF Databases
  <1>8. \A k \in Keys : db'.jobs[k] =
              IF k = Select(g) /\ g.delivery \notin db.seen /\ db.jobs[k] = "none"
              THEN "pending_launch" ELSE db.jobs[k]
    BY <1>4, <1>5, <1>6
  <1>9. /\ db'.checkpoint = IF s > db.checkpoint THEN s ELSE db.checkpoint
        /\ db'.seen = IF g.delivery = EmptyString THEN db.seen ELSE db.seen \cup {g.delivery}
        /\ db'.events = db.events
    BY <1>4, <1>5, <1>6
  <1>10. \A i \in RecoveryIds :
              /\ db'.runs[i].status = db.runs[i].status
              /\ db'.runs[i].manifest = db.runs[i].manifest
              /\ db'.runs[i].replayed = IF mode = "recovering" /\ i = cmd.id
                                        THEN db.runs[i].replayed \cup {s} ELSE db.runs[i].replayed
    BY <1>4, <1>5, <1>6
  <1> QED
    BY <1>0, <1>1, <1>7, <1>8, <1>9, <1>10, Zenon DEF s, g

\* Which of these a step does.
LEMMA DatabaseMoves ==
    ASSUME IndInv, Next
    PROVE  \/ db' \in Databases /\ Alike(db, db')
           \/ Record \/ Restore \/ CompleteRecovery \/ \E i \in RecoveryIds : BeginRecovery(i)
  <1>0. db \in Databases
    BY Zenon DEF IndInv, Types
  <1>1. CASE db' = db
    BY <1>0, <1>1, AlikeSame, Zenon
  <1>2. ASSUME NEW r \in Requests, HandleRoute(r)
        PROVE  db' = db
    BY <1>2, Zenon DEF HandleRoute
  <1>3. CASE OtherPublisher \/ ProcessFails \/ Crash \/ Serve \/ Backup \/ RecoveryFails
    BY <1>1, <1>3, Zenon DEF OtherPublisher, ProcessFails, GiveUp, Crash, Serve, Backup, RecoveryFails
  <1>4. ASSUME NEW s \in DOMAIN stream, Fetch(s)
        PROVE  db' = db
    BY <1>4, Zenon DEF Fetch
  <1>5. CASE ProcessMalformed \/ RefuseCIEvent \/ AckSync \/ ResetConsumer \/ RefuseReconciliation
    BY <1>1, <1>5, Zenon DEF ProcessMalformed, RefuseCIEvent, AckSync, ResetConsumer,
       RefuseReconciliation, GiveUp
  <1>6. CASE RecordCIEvent \/ RecordExternalWake
    BY <1>6, NoteMoves, Zenon
  <1>7. ASSUME NEW k \in Keys, WorkerStep(k) \/ ReconcileStatus(k)
        PROVE  db' \in Databases /\ Alike(db, db')
    BY <1>7, WorkMoves, Zenon
  <1>8. CASE PrepareRecoveryJobs \/ RecordReconciliation
    BY <1>8, RecoveryMoves, Zenon
  <1> QED
    BY <1>1, <1>2, <1>3, <1>4, <1>5, <1>6, <1>7, <1>8, Zenon DEF Next, Process, Recover
-----------------------------------------------------------------------------
(* The databases stay consistent. *)

\* Messages of a log.
Log(log) == \A s \in DOMAIN log : log[s] # Malformed => log[s] \in Published

LEMMA EvidenceGrows ==
    ASSUME NEW d, NEW e, NEW log, NEW new, NEW i, Log(log), Extends(log, new),
           d.seen \subseteq e.seen, d.events \subseteq e.events,
           \A k \in Keys : d.jobs[k] # "none" => e.jobs[k] # "none",
           e.runs[i].replayed = d.runs[i].replayed,
           \A s \in d.runs[i].replayed : s \in DOMAIN log /\ log[s] # Malformed /\ Holds(d, log[s])
    PROVE  \A s \in e.runs[i].replayed : s \in DOMAIN new /\ new[s] # Malformed /\ Holds(e, new[s])
  <1> SUFFICES ASSUME NEW s \in d.runs[i].replayed
               PROVE  s \in DOMAIN new /\ new[s] # Malformed /\ Holds(e, new[s])
    BY Zenon
  <1>1. s \in DOMAIN log /\ log[s] # Malformed /\ Holds(d, log[s]) /\ log[s] \in Published
    BY Zenon DEF Log
  <1>2. s \in DOMAIN new /\ new[s] = log[s]
    BY <1>1, Zenon DEF Extends
  <1>3. Holds(e, log[s])
    BY <1>1, HoldsGrows
  <1> QED
    BY <1>1, <1>2, <1>3, Zenon

LEMMA RequestedGrows ==
    ASSUME NEW d, NEW e, NEW log, NEW new, Requested(d, log), Extends(log, new),
           \A k \in Keys : e.jobs[k] # "none" => d.jobs[k] # "none"
    PROVE  Requested(e, new)
  BY Zenon DEF Requested, Extends

\* A consistent database stays so when no more than notes and moves are added.
LEMMA ConsistentAlike ==
    ASSUME NEW d \in Databases, NEW e \in Databases, NEW log, NEW new, Log(log),
           Extends(log, new), Len(log) \in Nat, Len(new) \in Nat,
           Alike(d, e), Consistent(d, log)
    PROVE  Consistent(e, new)
  <1>1. e.checkpoint <= Len(new)
    BY DEF Consistent, Alike, Extends, Databases
  <1>2. Requested(e, new)
    BY RequestedGrows DEF Consistent, Alike
  <1>3. SeenHasJob(e)
    BY Signals, Zenon DEF Consistent, Alike, SeenHasJob
  <1>4. ASSUME NEW i \in RecoveryIds
        PROVE  Evidence(e, new, i)
    <2>1. Evidence(d, log, i)
      BY Zenon DEF Consistent
    <2>2. \A s \in e.runs[i].replayed : s \in DOMAIN new /\ new[s] # Malformed /\ Holds(e, new[s])
      <3>1. \A s \in d.runs[i].replayed : s \in DOMAIN log /\ log[s] # Malformed /\ Holds(d, log[s])
        BY <2>1, Zenon DEF Evidence
      <3>2. /\ d.seen \subseteq e.seen /\ d.events \subseteq e.events
            /\ \A k \in Keys : d.jobs[k] # "none" => e.jobs[k] # "none"
            /\ e.runs[i].replayed = d.runs[i].replayed
        BY Zenon DEF Alike
      <3> QED
        BY <3>1, <3>2, EvidenceGrows, Zenon
    <2>3. /\ e.runs[i].status = d.runs[i].status /\ e.runs[i].manifest = d.runs[i].manifest
          /\ e.runs[i].replayed = d.runs[i].replayed /\ e.checkpoint = d.checkpoint
      BY Zenon DEF Alike
    <2> QED
      BY <2>1, <2>2, <2>3, Zenon DEF Evidence
  <1> QED
    BY <1>1, <1>2, <1>3, <1>4, Zenon DEF Consistent

LEMMA RecordConsistent ==
    ASSUME IndInv, Types', Record
    PROVE  Consistent(db', stream')
  <1> DEFINE s == hand.seq
             g == Message
             c == db.checkpoint
  <1>1. /\ s \in DOMAIN stream /\ g \in Published /\ g = stream[s] /\ stream' = stream
        /\ g # Malformed
    BY RecordMoves, Zenon DEF Message, Record, bus, At
  <1>2. /\ s \in Nat /\ c \in Nat /\ Len(stream) \in Nat /\ s <= Len(stream) /\ s >= 1
    <2>1. Types
      BY Zenon DEF IndInv
    <2> QED
      BY <1>1, <2>1, Lengths, Numbers
  <1>3. /\ db'.checkpoint = IF s > c THEN s ELSE c
        /\ db'.events = db.events
        /\ db'.seen = IF g.delivery = EmptyString THEN db.seen ELSE db.seen \cup {g.delivery}
    BY RecordMoves, Zenon
  <1>4. \A k \in Keys : db'.jobs[k] =
              IF k = Select(g) /\ g.delivery \notin db.seen /\ db.jobs[k] = "none"
              THEN "pending_launch" ELSE db.jobs[k]
    BY RecordMoves, Zenon
  <1>5. \A i \in RecoveryIds :
              /\ db'.runs[i].status = db.runs[i].status
              /\ db'.runs[i].manifest = db.runs[i].manifest
              /\ db'.runs[i].replayed = IF mode = "recovering" /\ i = cmd.id
                                        THEN db.runs[i].replayed \cup {s} ELSE db.runs[i].replayed
    BY RecordMoves, Zenon
  <1>6. Consistent(db, stream) /\ Log(stream) /\ Extends(stream, stream)
    BY <1>2, Lengths DEF IndInv, Log, Extends
  <1>7. IsWake(g) => g.delivery \in db.events
    BY Zenon DEF IndInv, InHand, Record, At
  <1>8. /\ mode # "stopped"
        /\ mode = "serving" => Incomplete(db) = {}
        /\ mode = "recovering" =>
              /\ Incomplete(db) = {cmd.id} /\ cmd.id \in RecoveryIds
              /\ s >= db.runs[cmd.id].manifest + 1 /\ s <= c + 1
    <2>1. hand # NoMessage
      BY DEF Record, At, NoMessage
    <2>2. mode # "stopped" /\ (mode = "serving" => Incomplete(db) = {})
      BY <2>1, Zenon DEF IndInv, InHand, Replaying
    <2>3. ASSUME mode = "recovering"
          PROVE  /\ Incomplete(db) = {cmd.id} /\ cmd.id \in RecoveryIds
                 /\ s >= db.runs[cmd.id].manifest + 1 /\ s <= c + 1
      <3>1. cmd.at = "replay" /\ cmd.id \in RecoveryIds
        <4>1. cmd \in Commands /\ cmd.id \in RecoveryIds
          BY <2>3, Running, Zenon DEF IndInv
        <4> QED
          BY <2>1, <4>1, Zenon DEF IndInv, Replaying, Commands
      <3> QED
        BY <2>1, <2>3, <3>1, Zenon DEF IndInv, Replaying
    <2> QED
      BY <2>2, <2>3, Zenon
  <1> HIDE DEF s, g, c
  <1>9. /\ db.seen \subseteq db'.seen /\ db.events \subseteq db'.events
        /\ \A k \in Keys : db.jobs[k] # "none" => db'.jobs[k] # "none"
    BY <1>3, <1>4, Zenon
  <1>10. Select(g) # NoTask => /\ Select(g) \in Keys /\ g.delivery # EmptyString
                               /\ db'.jobs[Select(g)] # "none"
    <2> SUFFICES ASSUME Select(g) # NoTask
                 PROVE  /\ Select(g) \in Keys /\ g.delivery # EmptyString
                        /\ db'.jobs[Select(g)] # "none"
      BY Zenon
    <2>1. Select(g) \in Keys /\ g.delivery # EmptyString
      BY <1>1, Signals, Zenon
    <2>2. g.delivery \in db.seen => db.jobs[Select(g)] # "none"
      BY <1>1, <1>6, Zenon DEF Consistent, SeenHasJob
    <2> QED
      BY <1>4, <2>1, <2>2, Zenon
  <1>11. Holds(db', g)
    BY <1>3, <1>7, <1>10, Zenon DEF Holds
  <1>12. db'.checkpoint <= Len(stream)
    BY <1>2, <1>3, <1>6, Zenon DEF Consistent, c
  <1>13. Requested(db', stream)
    BY <1>1, <1>4, <1>6, Zenon DEF Consistent, Requested
  <1>14. SeenHasJob(db')
    <2> SUFFICES ASSUME NEW h \in Published, h.delivery \in db'.seen, Select(h) # NoTask
                 PROVE  db'.jobs[Select(h)] # "none"
      BY Zenon DEF SeenHasJob
    <2>1. Select(h) \in Keys /\ h.delivery # EmptyString
      BY Signals, Zenon
    <2>2. CASE h.delivery \in db.seen
      BY <1>6, <1>9, <2>1, <2>2, Zenon DEF Consistent, SeenHasJob
    <2>3. CASE h.delivery \notin db.seen
      <3>1. h.delivery = g.delivery
        BY <1>3, <2>3, Zenon
      <3>2. h = g
        BY <1>1, <2>1, <3>1, OneSignal, Zenon
      <3> QED
        BY <1>10, <3>2, Zenon
    <2> QED
      BY <2>2, <2>3, Zenon
  <1>15. ASSUME NEW i \in RecoveryIds
         PROVE  Evidence(db', stream, i)
    <2>0. Evidence(db, stream, i) /\ db.runs[i].manifest \in Nat /\ db.runs[i].status \in {"none", "incomplete", "completed"}
      <3>1. Types /\ Consistent(db, stream)
        BY Zenon DEF IndInv
      <3>2. db.runs[i].status \in {"none", "incomplete", "completed"}
        BY <3>1, Zenon DEF Types, Databases, Runs
      <3> QED
        BY <3>1, <3>2, Numbers, Zenon DEF Consistent
    <2>1. db'.runs[i].manifest <= db'.checkpoint
      <3>1. db.runs[i].manifest <= c /\ db'.runs[i].manifest = db.runs[i].manifest
        BY <1>5, <2>0, Zenon DEF Evidence, c
      <3> QED
        BY <1>2, <1>3, <2>0, <3>1
    <2>2. CASE mode = "recovering" /\ i = cmd.id
      <3>1. db.runs[i].status = "incomplete"
        BY <1>8, <2>2, Zenon DEF Incomplete
      <3>2. db'.runs[i].replayed = (db.runs[i].manifest + 1)..c \cup {s}
        BY <1>5, <2>0, <2>2, <3>1, Zenon DEF Evidence, c
      <3>3. (db.runs[i].manifest + 1)..c \cup {s} = (db.runs[i].manifest + 1)..(IF s > c THEN s ELSE c)
        <4> DEFINE m == db.runs[i].manifest
        <4>1. m \in Nat /\ s >= m + 1 /\ s <= c + 1
          BY <1>8, <2>0, <2>2, Zenon
        <4> HIDE DEF m
        <4>2. (m + 1)..c \cup {s} = (m + 1)..(IF s > c THEN s ELSE c)
          BY <1>2, <4>1
        <4> QED
          BY <4>2, Zenon DEF m
      <3>4. \A t \in db'.runs[i].replayed :
               t \in DOMAIN stream /\ stream[t] # Malformed /\ Holds(db', stream[t])
        <4> SUFFICES ASSUME NEW t \in db'.runs[i].replayed
                     PROVE  t \in DOMAIN stream /\ stream[t] # Malformed /\ Holds(db', stream[t])
          BY Zenon
        <4>1. CASE t = s
          BY <1>1, <1>11, <4>1, Zenon
        <4>2. CASE t # s
          <5>1. t \in db.runs[i].replayed
            <6>1. db'.runs[i].replayed \subseteq db.runs[i].replayed \cup {s}
              BY <1>5, Zenon
            <6> QED
              BY <4>2, <6>1, Zenon
          <5>2. t \in DOMAIN stream /\ stream[t] # Malformed /\ Holds(db, stream[t])
            BY <2>0, <5>1, Zenon DEF Evidence
          <5>3. stream[t] \in Published
            BY <1>6, <5>2, Zenon DEF Log
          <5> QED
            BY <1>9, <5>2, <5>3, HoldsGrows, Zenon
        <4> QED
          BY <4>1, <4>2, Zenon
      <3> QED
        BY <1>3, <1>5, <2>1, <3>1, <3>2, <3>3, <3>4, Zenon DEF Evidence
    <2>3. CASE ~(mode = "recovering" /\ i = cmd.id)
      <3>1. /\ db'.runs[i].replayed = db.runs[i].replayed /\ db'.runs[i].status = db.runs[i].status
            /\ db'.runs[i].manifest = db.runs[i].manifest
        BY <1>5, <2>3, Zenon
      <3>2. db.runs[i].status # "incomplete"
        <4>1. mode \in {"serving", "stopped", "recovering"}
          BY Zenon DEF IndInv, Types
        <4> QED
          BY <1>8, <2>3, <4>1, Zenon DEF Incomplete
      <3>3. \A t \in db'.runs[i].replayed :
               t \in DOMAIN stream /\ stream[t] # Malformed /\ Holds(db', stream[t])
        BY <1>6, <1>9, <2>0, <3>1, EvidenceGrows, Zenon DEF Evidence
      <3>4. \A last \in db.runs[i].manifest..c : last \in db.runs[i].manifest..db'.checkpoint
        BY <1>2, <1>3, <2>0
      <3> QED
        BY <2>0, <2>1, <3>1, <3>2, <3>3, <3>4, Zenon DEF Evidence, c
    <2> QED
      BY <2>2, <2>3, Zenon
  <1> QED
    BY <1>1, <1>12, <1>13, <1>14, <1>15, Zenon DEF Consistent

LEMMA BeginConsistent ==
    ASSUME IndInv, NEW i \in RecoveryIds, BeginRecovery(i)
    PROVE  Consistent(db', stream')
  <1>1. stream' = stream /\ start > 0 /\ db.checkpoint = start - 1
    BY Zenon DEF BeginRecovery, bus, Validated
  <1>2. Consistent(db, stream) /\ Log(stream) /\ Extends(stream, stream) /\ start \in Nat
    BY Lengths, Limits DEF IndInv, Log, Extends, Types
  <1>3. CASE db' = db
    BY <1>1, <1>2, <1>3, Zenon
  <1>4. CASE db' # db
    <2>1. /\ db'.checkpoint = db.checkpoint /\ db'.seen = db.seen /\ db'.events = db.events
          /\ db'.jobs = db.jobs
          /\ db'.runs[i].status = "incomplete" /\ db'.runs[i].manifest = start - 1
          /\ db'.runs[i].replayed = {} /\ db.runs[i].replayed = {}
          /\ \A j \in RecoveryIds : j # i => db'.runs[j] = db.runs[j]
      BY <1>4, BeginMoves, Zenon
    <2>2. db'.checkpoint <= Len(stream) /\ Requested(db', stream) /\ SeenHasJob(db')
      BY <1>2, <2>1, Zenon DEF Consistent, Requested, SeenHasJob
    <2>3. ASSUME NEW j \in RecoveryIds
          PROVE  Evidence(db', stream, j)
      <3>1. \A s \in db'.runs[j].replayed :
               s \in DOMAIN stream /\ stream[s] # Malformed /\ Holds(db', stream[s])
        <4>1. \A s \in db.runs[j].replayed :
                 s \in DOMAIN stream /\ stream[s] # Malformed /\ Holds(db, stream[s])
          BY <1>2, Zenon DEF Consistent, Evidence
        <4>2. db'.runs[j].replayed = db.runs[j].replayed
          BY <2>1, Zenon
        <4> QED
          BY <2>1, <4>1, <4>2, Zenon DEF Holds
      <3>2. CASE j = i
        <4>1. (start - 1) + 1..(start - 1) = {}
          BY <1>2
        <4>2. db'.runs[j].manifest = start - 1 /\ db'.checkpoint = start - 1 /\ start - 1 <= start - 1
          BY <1>1, <1>2, <2>1, <3>2
        <4>3. db'.runs[j].status = "incomplete" /\ db'.runs[j].replayed = {}
          BY <2>1, <3>2, Zenon
        <4> QED
          BY <4>1, <4>2, <4>3, Zenon DEF Evidence
      <3>3. CASE j # i
        BY <1>2, <2>1, <3>1, <3>3 DEF Consistent, Evidence
      <3> QED
        BY <3>2, <3>3, Zenon
    <2> QED
      BY <1>1, <2>2, <2>3, Zenon DEF Consistent
  <1> QED
    BY <1>3, <1>4, Zenon

LEMMA CompleteConsistent ==
    ASSUME IndInv, CompleteRecovery
    PROVE  Consistent(db', stream')
  <1>1. stream' = stream
    BY Zenon DEF CompleteRecovery, bus
  <1>2. Consistent(db, stream) /\ db \in Databases
    BY Zenon DEF IndInv, Types
  <1>3. /\ db'.checkpoint = db.checkpoint /\ db'.seen = db.seen /\ db'.events = db.events
        /\ db'.jobs = db.jobs
        /\ db'.runs[cmd.id].status = "completed"
        /\ db'.runs[cmd.id].manifest = db.runs[cmd.id].manifest
        /\ db'.runs[cmd.id].replayed = db.runs[cmd.id].replayed
        /\ cmd.id \in RecoveryIds
        /\ \A j \in RecoveryIds : j # cmd.id => db'.runs[j] = db.runs[j]
    BY CompleteMoves, Zenon
  <1>4. db'.checkpoint <= Len(stream) /\ Requested(db', stream) /\ SeenHasJob(db')
    BY <1>2, <1>3, Zenon DEF Consistent, Requested, SeenHasJob
  <1>5. ASSUME NEW j \in RecoveryIds
        PROVE  Evidence(db', stream, j)
    <2>0. Evidence(db, stream, j)
      BY <1>2, Zenon DEF Consistent
    <2>1. \A s \in db'.runs[j].replayed :
             s \in DOMAIN stream /\ stream[s] # Malformed /\ Holds(db', stream[s])
      <3>1. \A s \in db.runs[j].replayed :
               s \in DOMAIN stream /\ stream[s] # Malformed /\ Holds(db, stream[s])
        BY <2>0, Zenon DEF Evidence
      <3>2. db'.runs[j].replayed = db.runs[j].replayed
        BY <1>3, Zenon
      <3> QED
        BY <1>3, <3>1, <3>2, Zenon DEF Holds
    <2>2. CASE j = cmd.id
      <3>1. db.runs[j].status = "incomplete"
        <4>1. mode = "recovering"
          BY Running, Zenon DEF IndInv, CompleteRecovery, Settling
        <4> QED
          BY <2>2, <4>1, Zenon DEF IndInv, Replaying, Incomplete
      <3>2. /\ db.runs[j].replayed = (db.runs[j].manifest + 1)..db.checkpoint
            /\ db.runs[j].manifest <= db.checkpoint
        BY <2>0, <3>1, Zenon DEF Evidence
      <3>3. db.checkpoint \in db.runs[j].manifest..db.checkpoint
        BY <1>2, <3>2 DEF Databases, Runs
      <3> QED
        BY <1>3, <2>1, <2>2, <3>2, <3>3, Zenon DEF Evidence
    <2>3. CASE j # cmd.id
      BY <1>3, <2>0, <2>1, <2>3, Zenon DEF Evidence
    <2> QED
      BY <2>2, <2>3, Zenon
  <1> QED
    BY <1>1, <1>4, <1>5, Zenon DEF Consistent

\* What becomes of the backup.
LEMMA SavedMoves ==
    ASSUME Next
    PROVE  \/ saved' = saved \/ saved' = NoBackup
           \/ Backup /\ saved' = db /\ mode = "serving" /\ db' = db
  <1>1. ASSUME NEW r \in Requests, HandleRoute(r)
        PROVE  saved' = saved
    BY <1>1, Zenon DEF HandleRoute
  <1>2. CASE OtherPublisher \/ ProcessFails \/ Crash \/ Serve \/ RecoveryFails \/ Restore \/ Backup
    BY <1>2, Zenon DEF OtherPublisher, ProcessFails, GiveUp, Crash, Serve, Backup, Restore, RecoveryFails
  <1>3. ASSUME NEW s \in DOMAIN stream, Fetch(s)
        PROVE  saved' = saved
    BY <1>3, Zenon DEF Fetch
  <1>4. CASE Process
    BY <1>4, Zenon DEF Process, ProcessMalformed, RecordCIEvent, RefuseCIEvent, RecordExternalWake,
       Record, AckSync, GiveUp
  <1>5. ASSUME NEW k \in Keys, WorkerStep(k) \/ ReconcileStatus(k)
        PROVE  saved' = saved
    BY <1>5, Zenon DEF WorkerStep, ReconcileStatus
  <1>6. ASSUME NEW i \in RecoveryIds, BeginRecovery(i)
        PROVE  saved' = saved
    BY <1>6, Zenon DEF BeginRecovery
  <1>7. CASE \/ PrepareRecoveryJobs \/ ResetConsumer \/ RecordReconciliation
             \/ RefuseReconciliation \/ CompleteRecovery
    BY <1>7, Zenon DEF PrepareRecoveryJobs, ResetConsumer, RecordReconciliation, RefuseReconciliation,
       CompleteRecovery, GiveUp
  <1> QED
    BY <1>1, <1>2, <1>3, <1>4, <1>5, <1>6, <1>7, Zenon DEF Next, Recover

LEMMA ConsistentStep ==
    ASSUME IndInv, Types', Next
    PROVE  Consistent(db', stream') /\ (saved' # NoBackup => Consistent(saved', stream'))
  <1>0. /\ Consistent(db, stream) /\ (saved # NoBackup => Consistent(saved, stream))
        /\ db \in Databases /\ db' \in Databases /\ saved \in Databases \cup {NoBackup}
        /\ Log(stream) /\ Extends(stream, stream')
        /\ Len(stream) \in Nat /\ Len(stream') \in Nat
    <2>1. Types /\ Types'
      BY Zenon DEF IndInv
    <2>2. Consistent(db, stream) /\ (saved # NoBackup => Consistent(saved, stream))
      BY Zenon DEF IndInv
    <2>3. db \in Databases /\ db' \in Databases /\ saved \in Databases \cup {NoBackup}
      BY <2>1, Zenon DEF Types
    <2>4. Len(stream) \in Nat /\ Log(stream)
      BY <2>1, Lengths, Zenon DEF Log
    <2>5. Len(stream') \in Nat
      BY <2>1 DEF Types
    <2> QED
      BY <2>1, <2>2, <2>3, <2>4, <2>5, StreamGrows, Zenon
  <1>1. Consistent(db', stream')
    <2>1. CASE Alike(db, db')
      BY <1>0, <2>1, ConsistentAlike, Zenon
    <2>2. CASE Restore
      BY <1>0, <2>2, Zenon DEF Restore, bus
    <2> QED
      BY <2>1, <2>2, DatabaseMoves, RecordConsistent, BeginConsistent, CompleteConsistent, Zenon
  <1>2. ASSUME NEW d \in Databases, Consistent(d, stream)
        PROVE  Consistent(d, stream')
    BY <1>0, <1>2, AlikeSame, ConsistentAlike, Zenon
  <1> QED
    BY <1>0, <1>1, <1>2, SavedMoves, Zenon
-----------------------------------------------------------------------------
(* What one step may do to the consumer, the message in hand and the command. *)

LEMMA DurableMoves ==
    ASSUME Next
    PROVE  \/ durable' = durable
           \/ \E s \in DOMAIN stream : Fetch(s)
           \/ ProcessMalformed \/ AckSync
           \/ ProcessFails /\ hand.at = "ack" /\ Message # Malformed /\ durable' = Settled(hand.seq)
           \/ ResetConsumer
           \/ Serve /\ durable' = Fresh(IF start = 0 THEN 1 ELSE start)
           \/ RecoveryFails /\ cmd.at = "reset" /\ durable' = [Fresh(1) EXCEPT !.on = FALSE]
  <1>1. ASSUME NEW r \in Requests, HandleRoute(r)
        PROVE  durable' = durable
    BY <1>1, Zenon DEF HandleRoute
  <1>2. CASE OtherPublisher \/ ProcessFails \/ Crash \/ Serve \/ Backup \/ Restore \/ RecoveryFails
    BY <1>2 DEF OtherPublisher, ProcessFails, Crash, Serve, ensureConsumer, Backup, Restore,
       RecoveryFails
  <1>4. CASE RecordCIEvent \/ RefuseCIEvent \/ RecordExternalWake \/ Record
    BY <1>4, Zenon DEF RecordCIEvent, RefuseCIEvent, RecordExternalWake, Record
  <1>5. ASSUME NEW k \in Keys, WorkerStep(k) \/ ReconcileStatus(k)
        PROVE  durable' = durable
    BY <1>5, Zenon DEF WorkerStep, ReconcileStatus
  <1>6. ASSUME NEW i \in RecoveryIds, BeginRecovery(i)
        PROVE  durable' = durable
    BY <1>6, Zenon DEF BeginRecovery
  <1>7. CASE PrepareRecoveryJobs \/ RecordReconciliation \/ RefuseReconciliation \/ CompleteRecovery
    BY <1>7, Zenon DEF PrepareRecoveryJobs, RecordReconciliation, RefuseReconciliation, CompleteRecovery
  <1> QED
    BY <1>1, <1>2, <1>4, <1>5, <1>6, <1>7, Zenon DEF Next, Process, Recover

LEMMA HandMoves ==
    ASSUME Next
    PROVE  \/ hand' = hand \/ hand' = NoMessage
           \/ \E s \in DOMAIN stream : Fetch(s)
           \/ RecordCIEvent \/ RecordExternalWake \/ Record
  <1>1. ASSUME NEW r \in Requests, HandleRoute(r)
        PROVE  hand' = hand
    BY <1>1, Zenon DEF HandleRoute
  <1>2. CASE OtherPublisher \/ ProcessFails \/ Crash \/ Serve \/ Backup \/ Restore \/ RecoveryFails
    BY <1>2, Zenon DEF OtherPublisher, ProcessFails, GiveUp, Crash, Serve, Backup, Restore, RecoveryFails
  <1>4. CASE ProcessMalformed \/ RefuseCIEvent \/ AckSync
    BY <1>4, Zenon DEF ProcessMalformed, RefuseCIEvent, AckSync, GiveUp
  <1>5. ASSUME NEW k \in Keys, WorkerStep(k) \/ ReconcileStatus(k)
        PROVE  hand' = hand
    BY <1>5, Zenon DEF WorkerStep, ReconcileStatus
  <1>6. ASSUME NEW i \in RecoveryIds, BeginRecovery(i)
        PROVE  hand' = hand
    BY <1>6, Zenon DEF BeginRecovery
  <1>7. CASE \/ PrepareRecoveryJobs \/ ResetConsumer \/ RecordReconciliation
             \/ RefuseReconciliation \/ CompleteRecovery
    BY <1>7, Zenon DEF PrepareRecoveryJobs, ResetConsumer, RecordReconciliation, RefuseReconciliation,
       CompleteRecovery, GiveUp
  <1> QED
    BY <1>1, <1>2, <1>4, <1>5, <1>6, <1>7, Zenon DEF Next, Process, Recover

\* The command and the mode, and the start that only a restore changes.
LEMMA CommandMoves ==
    ASSUME Types, Next
    PROVE  /\ (start' = start /\ skipped' = skipped) \/ Restore
           /\ \/ cmd' = cmd /\ mode' = mode
              \/ cmd' = NoCommand /\ hand' = NoMessage /\ mode' = "stopped"
              \/ Serve
              \/ AckSync /\ mode' = mode
              \/ mode' = mode
                    /\ \/ PrepareRecoveryJobs \/ ResetConsumer \/ RecordReconciliation
                       \/ \E k \in Keys : ReconcileStatus(k)
              \/ CompleteRecovery
              \/ \E i \in RecoveryIds : BeginRecovery(i)
  <1>0. mode # "recovering" => cmd = NoCommand
    BY Zenon DEF Types
  <1>1. ASSUME NEW r \in Requests, HandleRoute(r)
        PROVE  cmd' = cmd /\ mode' = mode /\ start' = start /\ skipped' = skipped
    BY <1>1, Zenon DEF HandleRoute
  <1>2. CASE OtherPublisher \/ Backup
    BY <1>2, Zenon DEF OtherPublisher, Backup
  <1>3. CASE Crash \/ Serve \/ Restore
    BY <1>0, <1>3, Zenon DEF Crash, Serve, Restore
  <1>4. ASSUME GiveUp
        PROVE  /\ start' = start /\ skipped' = skipped
               /\ \/ cmd' = cmd /\ mode' = mode
                  \/ cmd' = NoCommand /\ hand' = NoMessage /\ mode' = "stopped"
    BY <1>0, <1>4, Zenon DEF GiveUp
  <1>5. CASE ProcessMalformed \/ RefuseCIEvent \/ ProcessFails \/ RecoveryFails \/ RefuseReconciliation
    BY <1>4, <1>5, Zenon DEF ProcessMalformed, RefuseCIEvent, ProcessFails, RecoveryFails,
       RefuseReconciliation
  <1>6. ASSUME NEW s \in DOMAIN stream, Fetch(s)
        PROVE  cmd' = cmd /\ mode' = mode /\ start' = start /\ skipped' = skipped
    BY <1>6, Zenon DEF Fetch
  <1>7. CASE RecordCIEvent \/ RecordExternalWake \/ Record \/ AckSync
    BY <1>7, Zenon DEF RecordCIEvent, RecordExternalWake, Record, AckSync
  <1>8. ASSUME NEW k \in Keys, WorkerStep(k)
        PROVE  cmd' = cmd /\ mode' = mode /\ start' = start /\ skipped' = skipped
    BY <1>8, Zenon DEF WorkerStep
  <1>9. ASSUME NEW k \in Keys, ReconcileStatus(k)
        PROVE  mode' = mode /\ start' = start /\ skipped' = skipped
    BY <1>9, Zenon DEF ReconcileStatus
  <1>10. ASSUME NEW i \in RecoveryIds, BeginRecovery(i)
        PROVE  start' = start /\ skipped' = skipped
    BY <1>10, Zenon DEF BeginRecovery
  <1>11. CASE PrepareRecoveryJobs \/ ResetConsumer \/ RecordReconciliation \/ CompleteRecovery
    BY <1>11, Zenon DEF PrepareRecoveryJobs, ResetConsumer, RecordReconciliation, CompleteRecovery
  <1> QED
    BY <1>1, <1>2, <1>3, <1>5, <1>6, <1>7, <1>8, <1>9, <1>10, <1>11, Zenon DEF Next, Process, Recover
-----------------------------------------------------------------------------
(* Type correctness. *)

LEMMA StreamType ==
    ASSUME Types, Next
    PROVE  /\ stream' \in Seq(Published \cup {Malformed}) /\ Len(stream') <= MaxStream
           /\ received' \subseteq Requests
  <1> USE DEF bus
  <1>0. stream \in Seq(Published \cup {Malformed}) /\ Len(stream) <= MaxStream /\ received \subseteq Requests
    BY Zenon DEF Types
  <1>a. ASSUME NEW m \in Published \cup {Malformed}, Len(stream) < MaxStream,
               stream' = Append(stream, m)
        PROVE  stream' \in Seq(Published \cup {Malformed}) /\ Len(stream') <= MaxStream
    BY <1>0, <1>a, Limits
  <1>1. ASSUME NEW r \in Requests, HandleRoute(r)
        PROVE  /\ stream' \in Seq(Published \cup {Malformed}) /\ Len(stream') <= MaxStream
               /\ received' \subseteq Requests
    <2>1. Signal(r) \in Published /\ received' \subseteq Requests
      BY <1>0, <1>1, Zenon DEF HandleRoute, Published
    <2>2. \/ stream' = stream
          \/ Len(stream) < MaxStream /\ stream' = Append(stream, Signal(r))
      BY <1>1, Zenon DEF HandleRoute, Publish
    <2> QED
      BY <1>0, <1>a, <2>1, <2>2, Zenon
  <1>2. CASE OtherPublisher
    BY <1>0, <1>a, <1>2, Zenon DEF OtherPublisher
  <1>3. CASE ProcessFails \/ Crash \/ Serve \/ Backup \/ Restore \/ RecoveryFails
    BY <1>0, <1>3, Zenon DEF ProcessFails, GiveUp, Crash, Serve, Backup, Restore, RecoveryFails
  <1>4. ASSUME NEW s \in DOMAIN stream, Fetch(s)
        PROVE  UNCHANGED bus
    BY <1>4, Zenon DEF Fetch
  <1>5. CASE Process
    BY <1>0, <1>5, Zenon DEF Process, ProcessMalformed, RecordCIEvent, RefuseCIEvent, RecordExternalWake,
       Record, AckSync, GiveUp
  <1>6. ASSUME NEW k \in Keys, WorkerStep(k) \/ ReconcileStatus(k)
        PROVE  UNCHANGED bus
    BY <1>6, Zenon DEF WorkerStep, ReconcileStatus
  <1>7. ASSUME NEW i \in RecoveryIds, BeginRecovery(i)
        PROVE  UNCHANGED bus
    BY <1>7, Zenon DEF BeginRecovery
  <1>8. CASE \/ PrepareRecoveryJobs \/ ResetConsumer \/ RecordReconciliation
             \/ RefuseReconciliation \/ CompleteRecovery
    BY <1>0, <1>8, Zenon DEF PrepareRecoveryJobs, ResetConsumer, RecordReconciliation,
       RefuseReconciliation, CompleteRecovery, GiveUp
  <1> QED
    BY <1>0, <1>1, <1>2, <1>3, <1>4, <1>5, <1>6, <1>7, <1>8, Zenon DEF Next, Recover

LEMMA FreshType ==
    ASSUME NEW first \in 1..(MaxStream + 1)
    PROVE  /\ Fresh(first) \in Durables /\ [Fresh(first) EXCEPT !.on = FALSE] \in Durables
           /\ Fresh(first).first = first /\ Fresh(first).done = {}
           /\ \A s \in Positions : Fresh(first).tries[s] = 0
           /\ [Fresh(first) EXCEPT !.on = FALSE].first = first
           /\ [Fresh(first) EXCEPT !.on = FALSE].done = {}
  <1>1. [s \in Positions |-> 0] \in [Positions -> 0..MaxDeliver]
    BY Limits
  <1> QED
    BY <1>1, Zenon DEF Fresh, Durables

LEMMA SettledType ==
    ASSUME durable \in Durables, NEW s \in Positions
    PROVE  /\ Settled(s) \in Durables /\ Settled(s).first = durable.first
           /\ Settled(s).done = durable.done \cup {s} /\ Settled(s).tries = durable.tries
  BY Zenon DEF Settled, Durables

\* What a delivery changes.
LEMMA FetchType ==
    ASSUME Types, NEW s \in DOMAIN stream, Fetch(s)
    PROVE  /\ durable' \in Durables
           /\ durable'.first = durable.first /\ durable'.done = durable.done
           /\ \A t \in Positions : durable'.tries[t] =
                 IF t = s THEN durable.tries[s] + 1 ELSE durable.tries[t]
  <1>0. durable \in Durables /\ durable.tries \in [Positions -> 0..MaxDeliver] /\ s \in Positions
    BY Lengths, Zenon DEF Types, Durables
  <1>1. durable' = [durable EXCEPT !.tries = [durable.tries EXCEPT ![s] = durable.tries[s] + 1]]
    BY <1>0, Zenon DEF Fetch, Durables
  <1>2. durable.tries[s] + 1 \in 0..MaxDeliver
    BY <1>0, Limits DEF Fetch, Deliverable
  <1>3. /\ [durable.tries EXCEPT ![s] = durable.tries[s] + 1] \in [Positions -> 0..MaxDeliver]
        /\ \A t \in Positions : [durable.tries EXCEPT ![s] = durable.tries[s] + 1][t] =
                 IF t = s THEN durable.tries[s] + 1 ELSE durable.tries[t]
    BY <1>0, <1>2, Zenon
  <1>4. /\ durable'.first = durable.first /\ durable'.done = durable.done
        /\ durable'.tries = [durable.tries EXCEPT ![s] = durable.tries[s] + 1]
    BY <1>0, <1>1, Zenon DEF Durables
  <1>5. durable' \in Durables
    BY <1>0, <1>1, <1>3, Zenon DEF Durables
  <1> QED
    BY <1>3, <1>4, <1>5, Zenon

\* A message that is being processed is in the stream.
LEMMA Held ==
    ASSUME IndInv, hand # NoMessage
    PROVE  hand.seq \in DOMAIN stream /\ hand.seq \in Positions /\ hand \in Hands
  BY Lengths, Zenon DEF IndInv, InHand, Types

LEMMA DurableType ==
    ASSUME IndInv, Next
    PROVE  durable' \in Durables
  <1>0. durable \in Durables /\ start \in 0..(MaxStream + 1)
    BY Zenon DEF IndInv, Types
  <1>1. ASSUME NEW s \in DOMAIN stream, Fetch(s)
        PROVE  durable' \in Durables
    BY <1>1, FetchType, Zenon DEF IndInv
  <1>2. CASE ProcessMalformed \/ AckSync \/ (ProcessFails /\ durable' = Settled(hand.seq))
    <2>1. hand.seq \in Positions
      BY <1>2, Held DEF ProcessMalformed, AckSync, At, ProcessFails, NoMessage
    <2> QED
      BY <1>0, <1>2, <2>1, SettledType, Zenon DEF ProcessMalformed, AckSync
  <1>3. CASE ResetConsumer
    <2>1. start \in 1..(MaxStream + 1)
      <3>1. mode = "recovering"
        BY <1>3, Running, Zenon DEF IndInv, ResetConsumer
      <3> QED
        BY <3>1, StartOfRun, Zenon
    <2> QED
      BY <1>3, <2>1, FreshType, Zenon DEF ResetConsumer
  <1>4. CASE durable' = Fresh(IF start = 0 THEN 1 ELSE start)
    <2>1. (IF start = 0 THEN 1 ELSE start) \in 1..(MaxStream + 1)
      BY <1>0, Limits
    <2> QED
      BY <1>4, <2>1, FreshType, Zenon
  <1>5. CASE durable' = [Fresh(1) EXCEPT !.on = FALSE]
    <2>1. 1 \in 1..(MaxStream + 1)
      BY Limits
    <2> QED
      BY <1>5, <2>1, FreshType, Zenon
  <1> QED
    BY <1>0, <1>1, <1>2, <1>3, <1>4, <1>5, DurableMoves, Zenon
LEMMA HandType ==
    ASSUME IndInv, Next
    PROVE  hand' \in Hands \cup {NoMessage}
  <1>0. hand \in Hands \cup {NoMessage}
    BY Zenon DEF IndInv, Types
  <1>1. ASSUME NEW s \in DOMAIN stream, Fetch(s)
        PROVE  hand' \in Hands
    <2>1. s \in Positions
      BY Lengths, Zenon DEF IndInv
    <2> QED
      BY <1>1, <2>1, Zenon DEF Fetch, Hands
  <1>2. CASE RecordCIEvent \/ RecordExternalWake \/ Record
    <2>1. hand # NoMessage
      BY <1>2 DEF RecordCIEvent, RecordExternalWake, Record, At, NoMessage
    <2>2. hand \in Hands
      BY <2>1, Held, Zenon
    <2> QED
      BY <1>2, <2>2, Zenon DEF RecordCIEvent, RecordExternalWake, Record, GoTo, Hands
  <1> QED
    BY <1>0, <1>1, <1>2, HandMoves, Zenon

\* While a message is in the hand of a recovery it is replaying, and has some left.
LEMMA InReplay ==
    ASSUME IndInv, hand # NoMessage, mode = "recovering"
    PROVE  cmd.at = "replay" /\ cmd.left > 0 /\ cmd \in Commands
  <1>1. cmd \in Commands
    BY Running, Zenon DEF IndInv
  <1> QED
    BY <1>1, Zenon DEF IndInv, Replaying, Commands

LEMMA CommandType ==
    ASSUME IndInv, Next
    PROVE  /\ mode' \in {"serving", "stopped", "recovering"} /\ start' \in 0..(MaxStream + 1)
           /\ cmd' \in Commands \cup {NoCommand}
           /\ (mode' = "recovering") <=> (cmd' # NoCommand)
           /\ cmd'.at = "evidence" => cmd'.result # <<>>
  <1>0. /\ mode \in {"serving", "stopped", "recovering"} /\ start \in 0..(MaxStream + 1)
        /\ cmd \in Commands \cup {NoCommand} /\ ((mode = "recovering") <=> (cmd # NoCommand))
        /\ (cmd.at = "evidence" => cmd.result # <<>>) /\ MaxStream \in Nat
    BY Limits, Zenon DEF IndInv, Types
  <1>1. start' \in 0..(MaxStream + 1)
    <2>1. CASE Restore
      <3>1. saved \in Databases
        BY <2>1, Zenon DEF Restore, IndInv, Types
      <3>2. saved.checkpoint \in 0..MaxStream
        BY <3>1, Zenon DEF Databases
      <3> QED
        BY <1>0, <2>1, <3>2 DEF Restore
    <2> QED
      BY <1>0, <2>1, CommandMoves, Zenon DEF IndInv
  <1>2. NoCommand \notin Commands /\ NoCommand.at # "evidence"
    BY Zenon DEF NoCommand, Commands
  <1>3. ASSUME cmd' \in Commands, mode' = "recovering", cmd'.at = "evidence" => cmd'.result # <<>>
        PROVE  /\ mode' \in {"serving", "stopped", "recovering"}
               /\ cmd' \in Commands \cup {NoCommand}
               /\ (mode' = "recovering") <=> (cmd' # NoCommand)
               /\ cmd'.at = "evidence" => cmd'.result # <<>>
    BY <1>2, <1>3, Zenon
  <1>4. ASSUME cmd' = NoCommand, mode' \in {"serving", "stopped"}
        PROVE  /\ mode' \in {"serving", "stopped", "recovering"}
               /\ cmd' \in Commands \cup {NoCommand}
               /\ (mode' = "recovering") <=> (cmd' # NoCommand)
               /\ cmd'.at = "evidence" => cmd'.result # <<>>
    BY <1>2, <1>4, Zenon
  <1>5. CASE cmd' = cmd /\ mode' = mode
    BY <1>0, <1>1, <1>5, Zenon
  <1>6. CASE cmd' = NoCommand /\ mode' = "stopped"
    BY <1>1, <1>4, <1>6, Zenon
  <1>7. CASE Serve \/ CompleteRecovery
    BY <1>0, <1>1, <1>4, <1>7, Zenon DEF Serve, CompleteRecovery
  <1>8. CASE AckSync /\ mode' = mode
    <2>1. CASE mode = "recovering"
      <3>1. cmd \in Commands /\ cmd.left > 0 /\ cmd.at = "replay"
        BY <1>8, <2>1, InReplay DEF AckSync, At, NoMessage
      <3>2. cmd.left - 1 \in 0..MaxStream
        BY <1>0, <3>1 DEF Commands
      <3>3. cmd' = [cmd EXCEPT !.left = cmd.left - 1]
        BY <1>8, <2>1, Zenon DEF AckSync
      <3>4. cmd' \in Commands /\ cmd'.at = "replay"
        BY <3>1, <3>2, <3>3, Zenon DEF Commands
      <3> QED
        BY <1>1, <1>3, <1>8, <2>1, <3>4, Zenon
    <2>2. CASE mode # "recovering"
      BY <1>0, <1>1, <1>8, <2>2, Zenon DEF AckSync
    <2> QED
      BY <2>1, <2>2, Zenon
  <1>9. CASE PrepareRecoveryJobs /\ mode' = mode
    <2>1. mode = "recovering" /\ cmd \in Commands /\ cmd.id \in RecoveryIds /\ db \in Databases
      BY <1>9, Running, Zenon DEF PrepareRecoveryJobs, IndInv, Types
    <2>2. db'.runs[cmd.id].frozen \in SUBSET Keys
      <3>1. CASE db.runs[cmd.id].frozen # NotFrozen
        BY <1>9, <2>1, <3>1, Zenon DEF PrepareRecoveryJobs, Databases, Runs
      <3>2. CASE db.runs[cmd.id].frozen = NotFrozen
        BY <1>9, <2>1, <3>2 DEF PrepareRecoveryJobs, Databases, Runs, RecoveryJobs
      <3> QED
        BY <3>1, <3>2, Zenon
    <2>3. cmd' = [cmd EXCEPT !.at = "reset", !.jobs = db'.runs[cmd.id].frozen]
      BY <1>9, Zenon DEF PrepareRecoveryJobs
    <2>4. cmd' \in Commands /\ cmd'.at = "reset"
      BY <2>1, <2>2, <2>3, Zenon DEF Commands
    <2> QED
      BY <1>1, <1>3, <1>9, <2>1, <2>4, Zenon
  <1>10. CASE ResetConsumer /\ mode' = mode
    <2>1. mode = "recovering" /\ cmd \in Commands /\ cmd.id \in RecoveryIds /\ db \in Databases
      BY <1>10, Running, Zenon DEF ResetConsumer, IndInv, Types
    <2>2. db.runs[cmd.id].manifest \in Nat /\ start = db.runs[cmd.id].manifest + 1
      BY <2>1, Limits DEF Databases, Runs, IndInv, Replaying
    <2>3. Len(stream) + 1 - start \in 0..MaxStream
      <3>1. Len(stream) \in Nat /\ Len(stream) <= MaxStream /\ start <= Len(stream) + 1
        BY Lengths, Zenon DEF IndInv, Types, InHand
      <3>2. start \in Nat /\ start >= 1
        BY <2>2
      <3> QED
        BY <1>0, <3>1, <3>2
    <2>4. cmd' = [cmd EXCEPT !.at = "replay", !.left = Len(stream) + 1 - start]
      BY <1>10, Zenon DEF ResetConsumer
    <2>5. cmd' \in Commands /\ cmd'.at = "replay"
      BY <2>1, <2>3, <2>4, Zenon DEF Commands
    <2> QED
      BY <1>1, <1>3, <1>10, <2>1, <2>5, Zenon
  <1>11. CASE RecordReconciliation /\ mode' = mode
    <2>1. mode = "recovering" /\ cmd \in Commands
      BY <1>11, Running, Zenon DEF RecordReconciliation, IndInv
    <2>2. cmd' = [cmd EXCEPT !.at = "replay", !.result = <<>>]
      BY <1>11, Zenon DEF RecordReconciliation
    <2>3. cmd' \in Commands /\ cmd'.at = "replay"
      BY <2>1, <2>2, Zenon DEF Commands
    <2> QED
      BY <1>1, <1>3, <1>11, <2>1, <2>3, Zenon
  <1>12. ASSUME NEW k \in Keys, ReconcileStatus(k), mode' = mode
         PROVE  /\ cmd' \in Commands /\ mode' = "recovering"
                /\ cmd'.at = "evidence" => cmd'.result # <<>>
    <2>1. mode = "recovering" /\ cmd \in Commands /\ db.jobs[k] \in JobStates
      BY <1>12, Running, Zenon DEF ReconcileStatus, Settling, IndInv, Types, Databases
    <2>2. PICK to \in ReconciledFrom(db.jobs[k]) :
             cmd' = [cmd EXCEPT !.at = "evidence", !.jobs = @ \ {k}, !.result = <<k, to>>]
      BY <1>12, Zenon DEF ReconcileStatus
    <2>3. to \in JobStates
      BY <2>1, <2>2, ReconciledMoves, Zenon
    <2>4. <<k, to>> \in Keys \X JobStates /\ <<k, to>> # <<>> /\ cmd.jobs \ {k} \in SUBSET Keys
      BY <2>1, <2>3, Zenon DEF Commands
    <2>5. cmd' \in Commands /\ cmd'.result = <<k, to>>
      BY <2>1, <2>2, <2>4, Zenon DEF Commands
    <2> QED
      BY <1>12, <2>1, <2>4, <2>5, Zenon
  <1>13. ASSUME NEW i \in RecoveryIds, BeginRecovery(i)
         PROVE  \/ cmd' = cmd /\ mode' = mode
                \/ cmd' \in Commands /\ mode' = "recovering" /\ cmd'.at # "evidence"
    <2>1. [NoCommand EXCEPT !.id = i, !.at = "freeze"] \in Commands
      <3> DEFINE Wide == [id : RecoveryIds \cup {"none"},
                          at : {"none", "freeze", "reset", "replay", "evidence"}, left : 0..MaxStream,
                          jobs : SUBSET Keys, result : (Keys \X JobStates) \cup {<<>>}]
      <3>1. NoCommand \in Wide
        BY <1>0 DEF NoCommand
      <3>2. ASSUME NEW c \in Wide
            PROVE  [c EXCEPT !.id = i, !.at = "freeze"] \in Commands
        BY Zenon DEF Commands
      <3> QED
        BY <3>1, <3>2, Zenon
    <2>2. [NoCommand EXCEPT !.id = i, !.at = "freeze"].at = "freeze"
      BY Zenon DEF NoCommand
    <2> QED
      BY <1>13, <2>1, <2>2, Zenon DEF BeginRecovery
  <1> QED
    BY <1>1, <1>3, <1>5, <1>6, <1>7, <1>8, <1>9, <1>10, <1>11, <1>12, <1>13, CommandMoves DEF IndInv

LEMMA BoundsType ==
    ASSUME IndInv, Next
    PROVE  skipped' \subseteq Positions /\ faults' \in 0..MaxFaults /\ restores' \in 0..MaxRestores
  <1>0. /\ skipped \subseteq Positions /\ faults \in 0..MaxFaults /\ restores \in 0..MaxRestores
        /\ MaxFaults \in Nat /\ MaxRestores \in Nat
    BY Limits, Zenon DEF IndInv, Types
  <1>1. skipped' \subseteq Positions
    <2>1. CASE Restore
      BY <2>1, Lengths, Zenon DEF Restore, PassedOver, IndInv
    <2> QED
      BY <1>0, <2>1, CommandMoves, Zenon DEF IndInv
  <1>2. \/ UNCHANGED bounds \/ Fault
        \/ restores < MaxRestores /\ restores' = restores + 1 /\ faults' = faults
    <2>1. ASSUME NEW r \in Requests, HandleRoute(r)
          PROVE  UNCHANGED bounds \/ Fault
      BY <2>1, Zenon DEF HandleRoute
    <2>2. CASE OtherPublisher \/ ProcessFails \/ Crash \/ Serve \/ Backup \/ Restore \/ RecoveryFails
      BY <2>2, Zenon DEF OtherPublisher, ProcessFails, Crash, Serve, Backup, Restore, RecoveryFails
    <2>3. ASSUME NEW s \in DOMAIN stream, Fetch(s)
          PROVE  UNCHANGED bounds
      BY <2>3, Zenon DEF Fetch
    <2>4. CASE Process
      BY <2>4, Zenon DEF Process, ProcessMalformed, RecordCIEvent, RefuseCIEvent, RecordExternalWake,
         Record, AckSync
    <2>5. ASSUME NEW k \in Keys, WorkerStep(k) \/ ReconcileStatus(k)
          PROVE  UNCHANGED bounds \/ Fault
      BY <2>5, Zenon DEF WorkerStep, ReconcileStatus
    <2>6. ASSUME NEW i \in RecoveryIds, BeginRecovery(i)
          PROVE  UNCHANGED bounds
      BY <2>6, Zenon DEF BeginRecovery
    <2>7. CASE \/ PrepareRecoveryJobs \/ ResetConsumer \/ RecordReconciliation
               \/ RefuseReconciliation \/ CompleteRecovery
      BY <2>7, Zenon DEF PrepareRecoveryJobs, ResetConsumer, RecordReconciliation, RefuseReconciliation,
         CompleteRecovery
    <2> QED
      BY <2>1, <2>2, <2>3, <2>4, <2>5, <2>6, <2>7, Zenon DEF Next, Recover
  <1>3. faults' \in 0..MaxFaults /\ restores' \in 0..MaxRestores
    BY <1>0, <1>2 DEF bounds, Fault
  <1> QED
    BY <1>1, <1>3, Zenon

LEMMA TypesStep ==
    ASSUME IndInv, Next
    PROVE  Types'
  <1>0. db \in Databases /\ saved \in Databases \cup {NoBackup}
    BY Zenon DEF IndInv, Types
  <1>1. db' \in Databases
    <2>1. CASE Restore
      BY <1>0, <2>1, Zenon DEF Restore
    <2> QED
      BY <2>1, DatabaseMoves, RecordMoves, BeginMoves, CompleteMoves, Zenon
  <1>2. saved' \in Databases \cup {NoBackup}
    BY <1>0, SavedMoves, Zenon
  <1>3. Types
    BY Zenon DEF IndInv
  <1> QED
    BY <1>1, <1>2, <1>3, StreamType, DurableType, HandType, CommandType, BoundsType, Zenon DEF Types
-----------------------------------------------------------------------------
(* The message in hand. *)

\* Only a restore makes the database forget.
LEMMA Grows ==
    ASSUME IndInv, Next, ~Restore
    PROVE  /\ db.seen \subseteq db'.seen /\ db.events \subseteq db'.events
           /\ \A k \in Keys : db.jobs[k] # "none" => db'.jobs[k] # "none"
           /\ db.checkpoint \in Nat /\ db'.checkpoint \in Nat /\ db.checkpoint <= db'.checkpoint
  <1>0. Types'
    BY TypesStep, Zenon
  <1>1. db.checkpoint \in Nat /\ db'.checkpoint \in Nat
    <2>1. Types /\ db' \in Databases
      BY <1>0, Zenon DEF IndInv, Types
    <2>2. db'.checkpoint \in Nat
      BY <2>1, Limits DEF Databases
    <2> QED
      BY <2>1, <2>2, Numbers, Zenon
  <1>2. CASE Alike(db, db')
    BY <1>1, <1>2 DEF Alike
  <1>3. CASE Record
    <2>1. hand.seq \in Nat
      <3>1. hand.seq \in DOMAIN stream
        BY <1>3, RecordMoves, Zenon
      <3> QED
        BY <3>1, Lengths DEF IndInv
    <2> QED
      BY <1>1, <1>3, <2>1, RecordMoves
  <1>4. CASE CompleteRecovery
    BY <1>1, <1>4, CompleteMoves
  <1>5. ASSUME NEW i \in RecoveryIds, BeginRecovery(i)
        PROVE  /\ db.seen = db'.seen /\ db.events = db'.events
               /\ db.jobs = db'.jobs /\ db.checkpoint = db'.checkpoint
    BY <1>5, BeginMoves, Zenon
  <1> QED
    BY <1>1, <1>2, <1>3, <1>4, <1>5, DatabaseMoves

\* What the database holds it keeps, unless it is replaced.
LEMMA StillHolds ==
    ASSUME IndInv, Next, ~Restore, NEW s \in DOMAIN stream, stream[s] # Malformed,
           Holds(db, stream[s])
    PROVE  Holds(db', stream'[s])
  <1>1. stream[s] \in Published /\ stream'[s] = stream[s]
    BY Lengths, StreamGrows, Zenon DEF IndInv, Extends
  <1> QED
    BY <1>1, Grows, HoldsGrows

\* What is recorded is held.
LEMMA RecordHolds ==
    ASSUME IndInv, Record
    PROVE  Holds(db', Message)
  <1>1. /\ Message \in Published /\ hand.at = "record"
        /\ (IsWake(Message) => Message.delivery \in db'.events)
    BY RecordMoves, Zenon DEF Record, At, IndInv, InHand
  <1>2. Message.delivery # EmptyString => Message.delivery \in db'.seen
    BY RecordMoves, Zenon
  <1>3. ASSUME Select(Message) # NoTask
        PROVE  db'.jobs[Select(Message)] # "none"
    <2>1. Select(Message) \in Keys
      BY <1>1, <1>3, Signals, Zenon
    <2>2. Message.delivery \in db.seen => db.jobs[Select(Message)] # "none"
      BY <1>1, <1>3, Zenon DEF IndInv, Consistent, SeenHasJob
    <2> QED
      BY <2>1, <2>2, RecordMoves, Zenon
  <1> QED
    BY <1>1, <1>2, <1>3, Zenon DEF Holds

\* The consumer starts no later than behind the last message and has settled only what is there.
LEMMA DurableWithin ==
    ASSUME IndInv, Next
    PROVE  durable'.first <= Len(stream) + 1 /\ durable'.done \subseteq DOMAIN stream
  <1>a. Len(stream) \in Nat /\ durable \in Durables /\ start \in Nat /\ Types
    <2>1. Types /\ durable \in Durables
      BY Zenon DEF IndInv, Types
    <2> QED
      BY <2>1, Lengths, Numbers, Zenon
  <1>b. /\ durable.first \in Nat /\ durable.first <= Len(stream) + 1
        /\ durable.done \subseteq DOMAIN stream /\ start <= Len(stream) + 1
    BY <1>a, Numbers, Zenon DEF IndInv, InHand
  <1>1. CASE durable' = durable
    BY <1>a, <1>b, <1>1, Zenon
  <1>2. ASSUME NEW s \in DOMAIN stream, Fetch(s)
        PROVE  durable'.first = durable.first /\ durable'.done = durable.done
    BY <1>a, <1>2, FetchType, Zenon
  <1>3. CASE ProcessMalformed \/ AckSync \/ (ProcessFails /\ durable' = Settled(hand.seq))
    <2>1. hand.seq \in Positions /\ hand.seq \in DOMAIN stream
      BY <1>3, Held DEF ProcessMalformed, AckSync, At, ProcessFails, NoMessage
    <2>2. durable' = durable \/ durable' = Settled(hand.seq)
      BY <1>3, Zenon DEF ProcessMalformed, AckSync
    <2> QED
      BY <1>a, <1>b, <1>1, <2>1, <2>2, SettledType, Zenon
  <1>4. ASSUME NEW first \in 1..(MaxStream + 1), first <= Len(stream) + 1,
               durable' = Fresh(first) \/ durable' = [Fresh(first) EXCEPT !.on = FALSE]
        PROVE  durable'.first <= Len(stream) + 1 /\ durable'.done \subseteq DOMAIN stream
    <2>1. durable'.first = first /\ durable'.done = {} /\ first \in Nat
      <3>1. first \in Nat
        BY Limits
      <3>2. /\ Fresh(first).first = first /\ Fresh(first).done = {}
            /\ [Fresh(first) EXCEPT !.on = FALSE].first = first
            /\ [Fresh(first) EXCEPT !.on = FALSE].done = {}
        BY Zenon DEF Fresh
      <3> QED
        BY <1>4, <3>1, <3>2, Zenon
    <2> QED
      BY <1>a, <1>4, <2>1, Zenon
  <1>5. CASE ResetConsumer
    <2>1. start \in 1..(MaxStream + 1)
      <3>1. mode = "recovering"
        BY <1>5, Running DEF IndInv, ResetConsumer
      <3> QED
        BY <3>1, StartOfRun
    <2> QED
      BY <1>b, <1>4, <1>5, <2>1, Zenon DEF ResetConsumer
  <1>6. CASE durable' = Fresh(IF start = 0 THEN 1 ELSE start)
    <2>1. start \in 0..(MaxStream + 1)
      BY Zenon DEF IndInv, Types
    <2>2. /\ (IF start = 0 THEN 1 ELSE start) \in 1..(MaxStream + 1)
          /\ (IF start = 0 THEN 1 ELSE start) <= Len(stream) + 1
      BY <1>a, <1>b, <2>1, Limits
    <2> QED
      BY <1>4, <1>6, <2>2, Zenon
  <1>7. CASE durable' = [Fresh(1) EXCEPT !.on = FALSE]
    BY <1>a, <1>4, <1>7, Limits
  <1> QED
    BY <1>a, <1>b, <1>1, <1>2, <1>3, <1>5, <1>6, <1>7, DurableMoves, Zenon

LEMMA InHandStep ==
    ASSUME IndInv, Next
    PROVE  InHand'
  <1>0. /\ Len(stream) \in Nat /\ Len(stream') \in Nat /\ Len(stream) <= Len(stream')
        /\ DOMAIN stream = 1..Len(stream) /\ DOMAIN stream \subseteq DOMAIN stream'
        /\ \A s \in DOMAIN stream : stream'[s] = stream[s]
        /\ durable \in Durables /\ start \in Nat /\ Types
    <2>1. Types /\ Types'
      BY TypesStep, Zenon DEF IndInv
    <2>2. Len(stream') \in Nat
      BY <2>1 DEF Types
    <2>3. Extends(stream, stream')
      BY <2>1, StreamGrows, Zenon
    <2>4. start \in Nat /\ durable \in Durables
      BY <2>1, Numbers, Zenon DEF Types
    <2> QED
      BY <2>1, <2>2, <2>3, <2>4, Lengths, Zenon DEF Extends
  <1>1. durable'.first <= Len(stream') + 1 /\ durable'.done \subseteq DOMAIN stream'
    <2>1. durable'.first \in Nat
      BY DurableType, Limits DEF Durables
    <2> QED
      BY <1>0, <2>1, DurableWithin
  <1>2. start' <= Len(stream') + 1
    <2>1. CASE Restore
      <3>1. saved.checkpoint <= Len(stream) /\ saved.checkpoint \in Nat
        <4>1. saved # NoBackup
          BY <2>1, Zenon DEF Restore
        <4>2. Consistent(saved, stream) /\ Types
          BY <4>1, Zenon DEF IndInv
        <4> QED
          BY <4>1, <4>2, Numbers, Zenon DEF Consistent
      <3> QED
        BY <1>0, <2>1, <3>1 DEF Restore
    <2>2. start <= Len(stream) + 1
      BY Zenon DEF IndInv, InHand
    <2> QED
      BY <1>0, <2>1, <2>2, CommandMoves
  <1>3. hand' # NoMessage => ~Restore
    BY Zenon DEF Restore
  <1>4. ASSUME hand' # NoMessage
        PROVE  hand'.seq \in DOMAIN stream' /\ mode' # "stopped"
    <2>1. hand' = hand \/ hand'.seq \in DOMAIN stream
      <3>1. ASSUME NEW s \in DOMAIN stream, Fetch(s)
            PROVE  hand'.seq \in DOMAIN stream
        BY <3>1, Zenon DEF Fetch
      <3>2. CASE RecordCIEvent \/ RecordExternalWake \/ Record
        <4>1. hand # NoMessage
          BY <3>2 DEF RecordCIEvent, RecordExternalWake, Record, At, NoMessage
        <4>2. hand'.seq = hand.seq
          BY <3>2, <4>1, Held, Zenon DEF RecordCIEvent, RecordExternalWake, Record, GoTo, Hands
        <4> QED
          BY <4>1, <4>2, Held, Zenon
      <3> QED
        BY <1>4, <3>1, <3>2, HandMoves, Zenon
    <2>2. hand'.seq \in DOMAIN stream'
      BY <1>0, <1>4, <2>1, Held, Zenon
    <2>3. mode = "stopped" => hand = NoMessage
      BY Zenon DEF IndInv, InHand
    <2>4. mode' # "stopped"
      <3>1. CASE mode = "stopped" /\ mode' = "stopped"
        <4>1. cmd = NoCommand
          BY <3>1, Zenon DEF IndInv, Types
        <4>2. ASSUME NEW s \in DOMAIN stream, Fetch(s)
              PROVE  FALSE
          BY <3>1, <4>1, <4>2, Zenon DEF Fetch, NoCommand
        <4>3. CASE RecordCIEvent \/ RecordExternalWake \/ Record
          BY <2>3, <3>1, <4>3 DEF RecordCIEvent, RecordExternalWake, Record, At, NoMessage
        <4> QED
          BY <1>4, <2>3, <3>1, <4>2, <4>3, HandMoves, Zenon
      <3>2. CASE CompleteRecovery
        BY <1>4, <3>2, Zenon DEF CompleteRecovery, Settling
      <3>3. ASSUME NEW i \in RecoveryIds, BeginRecovery(i)
            PROVE  mode' = mode \/ mode' = "recovering"
        BY <3>3, Zenon DEF BeginRecovery
      <3>4. CASE Serve
        BY <3>4, Zenon DEF Serve
      <3> QED
        BY <1>0, <1>4, <3>1, <3>2, <3>3, <3>4, CommandMoves, Zenon
    <2> QED
      BY <2>2, <2>4, Zenon
  <1>5. ASSUME hand'.at \in {"wake", "record", "ack"}
        PROVE  /\ Message' # Malformed /\ (IsWake(Message') => Message'.delivery \in db'.events)
               /\ hand'.at = "ack" => Holds(db', Message')
    <2>0. hand' # NoMessage /\ ~Restore
      BY <1>3, <1>5 DEF NoMessage
    <2>1. CASE hand' = hand
      <3>1. hand.seq \in DOMAIN stream /\ Message' = stream'[hand.seq] /\ Message' = Message
        BY <1>0, <2>0, <2>1, Held, Zenon DEF Message
      <3>2. /\ Message # Malformed /\ (IsWake(Message) => Message.delivery \in db.events)
            /\ hand.at = "ack" => Holds(db, Message)
        BY <1>5, <2>1, Zenon DEF IndInv, InHand
      <3>3. hand.at = "ack" => Holds(db', Message')
        BY <2>0, <3>1, <3>2, StillHolds, Zenon DEF Message
      <3> QED
        BY <2>0, <2>1, <3>1, <3>2, <3>3, Grows, Zenon
    <2>2. CASE RecordCIEvent \/ RecordExternalWake \/ Record
      <3>1. hand # NoMessage /\ Message # Malformed
        BY <2>2 DEF RecordCIEvent, RecordExternalWake, Record, At, NoMessage
      <3>2. hand'.seq = hand.seq /\ hand.seq \in DOMAIN stream
        BY <2>2, <3>1, Held, Zenon DEF RecordCIEvent, RecordExternalWake, Record, GoTo, Hands
      <3>3. Message' = Message
        BY <1>0, <3>2 DEF Message
      <3>4. CASE RecordCIEvent
        <4>1. IsWake(Message) => Message.delivery \in db'.events
          <5>1. db \in Databases
            BY DEF IndInv, Types
          <5> QED
            BY <3>4, <5>1, Zenon DEF RecordCIEvent, Databases
        <4>2. hand'.at = "wake"
          BY <3>1, <3>4, Held, Zenon DEF RecordCIEvent, GoTo, Hands
        <4> QED
          BY <3>1, <3>3, <4>1, <4>2, Zenon
      <3>5. CASE RecordExternalWake
        <4>1. IsWake(Message) => Message.delivery \in db'.events
          BY <2>0, <3>5, Grows, Zenon DEF RecordExternalWake, At, IndInv, InHand
        <4>2. hand'.at = "record"
          BY <3>1, <3>5, Held, Zenon DEF RecordExternalWake, GoTo, Hands
        <4> QED
          BY <3>1, <3>3, <4>1, <4>2, Zenon
      <3>6. CASE Record
        <4>1. IsWake(Message) => Message.delivery \in db'.events
          BY <2>0, <3>6, Grows, Zenon DEF Record, At, IndInv, InHand
        <4> QED
          BY <3>1, <3>3, <3>6, <4>1, RecordHolds, Zenon
      <3> QED
        BY <2>2, <3>4, <3>5, <3>6, Zenon
    <2>3. ASSUME NEW s \in DOMAIN stream, Fetch(s)
          PROVE  FALSE
      BY <1>5, <2>3, Zenon DEF Fetch
    <2> QED
      BY <2>0, <2>1, <2>2, <2>3, HandMoves, Zenon
  <1> QED
    BY <1>1, <1>2, <1>4, <1>5, Zenon DEF InHand
-----------------------------------------------------------------------------
(* The running recovery. *)

\* The steps of a recovery that stays running.
LEMMA GoesOn ==
    ASSUME IndInv, Next, mode = "recovering", mode' = "recovering"
    PROVE  /\ start' = start
           /\ \/ UNCHANGED <<hand, durable, db, cmd>>
              \/ \E s \in DOMAIN stream : Fetch(s)
              \/ RecordCIEvent \/ RecordExternalWake \/ Record \/ AckSync
              \/ PrepareRecoveryJobs \/ ResetConsumer \/ RecordReconciliation
              \/ \E k \in Keys : ReconcileStatus(k)
  <1>1. start' = start
    BY CommandMoves, Zenon DEF Restore, IndInv
  <1>2. ASSUME NEW r \in Requests, HandleRoute(r)
        PROVE  UNCHANGED <<hand, durable, db, cmd>>
    BY <1>2, Zenon DEF HandleRoute
  <1>3. CASE OtherPublisher
    BY <1>1, <1>3, Zenon DEF OtherPublisher
  <1>4. CASE Crash \/ Serve \/ Backup \/ Restore \/ CompleteRecovery
    BY <1>4, Zenon DEF Crash, Serve, Backup, Restore, CompleteRecovery
  <1>5. CASE ProcessMalformed \/ RefuseCIEvent \/ ProcessFails \/ RecoveryFails \/ RefuseReconciliation
    BY <1>5, Zenon DEF ProcessMalformed, RefuseCIEvent, ProcessFails, RecoveryFails, RefuseReconciliation,
       GiveUp
  <1>6. ASSUME NEW k \in Keys, WorkerStep(k)
        PROVE  FALSE
    BY <1>6, Zenon DEF WorkerStep
  <1>7. ASSUME NEW i \in RecoveryIds, BeginRecovery(i)
        PROVE  FALSE
    BY <1>7, Zenon DEF BeginRecovery
  <1> QED
    BY <1>1, <1>2, <1>3, <1>4, <1>5, <1>6, <1>7, Zenon DEF Next, Process, Recover

\* Which recoveries are unfinished changes only when one begins, ends or is restored.
LEMMA SameRuns ==
    ASSUME IndInv, Alike(db, db') \/ Record
    PROVE  /\ Incomplete(db') = Incomplete(db)
           /\ \A i \in RecoveryIds : /\ db'.runs[i].status = db.runs[i].status
                                     /\ db'.runs[i].manifest = db.runs[i].manifest
  <1>1. \A i \in RecoveryIds : /\ db'.runs[i].status = db.runs[i].status
                               /\ db'.runs[i].manifest = db.runs[i].manifest
    BY RecordMoves, Zenon DEF Alike
  <1> QED
    BY <1>1, Zenon DEF Incomplete

\* What BeginRecovery leaves unfinished.
LEMMA BeginRuns ==
    ASSUME IndInv, NEW i \in RecoveryIds, BeginRecovery(i)
    PROVE  /\ i \in Incomplete(db') /\ db'.runs[i].manifest = start - 1
           /\ Incomplete(db) \ {i} = {} => Incomplete(db') = {i}
  BY BeginMoves DEF Incomplete

LEMMA CompleteRuns ==
    ASSUME IndInv, CompleteRecovery
    PROVE  Incomplete(db') = {}
  <1>1. mode = "recovering"
    BY Running DEF CompleteRecovery, Settling, IndInv
  <1>2. Incomplete(db) = {cmd.id}
    BY <1>1, Zenon DEF IndInv, Replaying
  <1>3. \A j \in RecoveryIds : j # cmd.id => db.runs[j].status # "incomplete"
    BY <1>2, Zenon DEF Incomplete
  <1> QED
    BY <1>3, CompleteMoves, Zenon DEF Incomplete

\* How far the consumer of a recovery is ahead of the checkpoint.
Ahead(c, dur, h, st, d) ==
    /\ c.at \in {"freeze", "reset", "evidence"} => h = NoMessage
    /\ c.at \in {"replay", "evidence"} =>
          /\ dur.first = st
          /\ \A s \in Positions : s >= st /\ dur.tries[s] > 0 => s <= d.checkpoint \/ s = h.seq
    /\ c.at = "replay" /\ h # NoMessage =>
          /\ c.left > 0 /\ h.seq >= st /\ h.seq <= d.checkpoint + 1
          /\ h.at = "ack" => h.seq <= d.checkpoint

\* The next message delivered to a recovery is the one after its checkpoint, or an earlier one.
LEMMA FetchAhead ==
    ASSUME IndInv, mode = "recovering", NEW s \in DOMAIN stream, Fetch(s)
    PROVE  Ahead(cmd', durable', hand', start, db')
  <1>1. /\ cmd.at = "replay" /\ cmd.left > 0 /\ hand = NoMessage /\ cmd' = cmd /\ db' = db
        /\ hand' = [seq |-> s, at |-> "event"]
        /\ cmd \in Commands /\ cmd.id \in RecoveryIds /\ Types
    BY Running, Zenon DEF Fetch, IndInv
  <1>2. /\ durable.first = start
        /\ \A t \in Positions : t >= start /\ durable.tries[t] > 0 => t <= db.checkpoint
    <2>1. \A t \in Positions : t # 0
      BY Limits DEF Positions
    <2>2. hand.seq = 0
      BY <1>1, Zenon DEF NoMessage
    <2> QED
      BY <1>1, <2>1, <2>2, Zenon DEF IndInv, Replaying
  <1>3. /\ durable'.first = durable.first
        /\ \A t \in Positions : durable'.tries[t] =
              IF t = s THEN durable.tries[s] + 1 ELSE durable.tries[t]
    BY <1>1, FetchType, Zenon
  <1>4. /\ s \in Positions /\ s \in Nat /\ start \in Nat /\ db.checkpoint \in Nat
        /\ Positions = 1..MaxStream /\ MaxStream \in Nat
    BY <1>1, Lengths, Numbers, Limits, Zenon DEF Positions
  <1>5. s >= start
    <2>1. durable.first \in Nat /\ Len(stream) \in Nat /\ s \in durable.first..Len(stream)
      BY <1>1, Lengths, Numbers, Zenon DEF Fetch, Deliverable
    <2> QED
      BY <1>2, <1>4, <2>1
  <1>6. start <= db.checkpoint + 1 /\ start >= 1
    BY StartOfRun, Zenon
  <1>7. s <= db.checkpoint + 1
    <2>1. CASE durable.tries[s] > 0
      BY <1>2, <1>4, <1>5, <2>1
    <2>2. CASE durable.tries[s] = 0 /\ s > start
      <3>1. s - 1 \in durable.first..(s - 1) /\ s - 1 \in Positions /\ s - 1 >= start
        BY <1>2, <1>4, <1>6, <2>2
      <3>2. durable.tries[s - 1] > 0
        BY <2>2, <3>1, Zenon DEF Fetch, Deliverable
      <3>3. s - 1 <= db.checkpoint
        BY <1>2, <3>1, <3>2, Zenon
      <3> QED
        BY <1>4, <3>3
    <2>3. CASE s = start
      BY <1>6, <2>3, Zenon
    <2>4. durable.tries[s] \in Nat
      BY <1>1, <1>4, Numbers, Zenon
    <2> QED
      BY <1>4, <1>5, <2>1, <2>2, <2>3, <2>4
  <1> QED
    BY <1>1, <1>2, <1>3, <1>5, <1>7, Zenon DEF Ahead

LEMMA AheadStep ==
    ASSUME IndInv, Next, mode = "recovering", mode' = "recovering"
    PROVE  Ahead(cmd', durable', hand', start', db') /\ cmd'.id = cmd.id /\ start' = start
  <1>0. /\ Ahead(cmd, durable, hand, start, db) /\ start' = start /\ cmd \in Commands
        /\ db.checkpoint \in Nat /\ durable \in Durables /\ ~Restore
        /\ \A s \in Positions : s \in Nat /\ s # 0
    <2>1. Ahead(cmd, durable, hand, start, db)
      BY Zenon DEF IndInv, Replaying, Ahead
    <2>2. cmd \in Commands /\ ~Restore
      BY Running, Zenon DEF IndInv, Restore
    <2>3. db.checkpoint \in Nat /\ durable \in Durables
      BY Limits DEF IndInv, Types, Databases
    <2>4. \A s \in Positions : s \in Nat /\ s # 0
      BY Limits DEF Positions
    <2> QED
      BY <2>1, <2>2, <2>3, <2>4, GoesOn, Zenon
  <1>1. CASE UNCHANGED <<hand, durable, db, cmd>>
    BY <1>0, <1>1, Zenon
  <1>2. ASSUME NEW s \in DOMAIN stream, Fetch(s)
        PROVE  Ahead(cmd', durable', hand', start, db') /\ cmd'.id = cmd.id
    BY <1>2, FetchAhead, Zenon DEF Fetch
  <1>3. CASE RecordCIEvent \/ RecordExternalWake
    <2>1. hand # NoMessage /\ durable' = durable /\ cmd' = cmd
      BY <1>3 DEF RecordCIEvent, RecordExternalWake, At, NoMessage
    <2>2. hand'.seq = hand.seq /\ hand'.at \in {"wake", "record"}
      BY <1>3, <2>1, Held, Zenon DEF RecordCIEvent, RecordExternalWake, GoTo, Hands
    <2>3. cmd.at = "replay" /\ db'.checkpoint = db.checkpoint
      BY <1>3, <2>1, InReplay, NoteMoves, Zenon DEF Alike
    <2> QED
      BY <1>0, <2>1, <2>2, <2>3, Zenon DEF Ahead
  <1>4. CASE Record
    <2>1. hand # NoMessage /\ durable' = durable /\ cmd' = cmd
      BY <1>4 DEF Record, At, NoMessage
    <2>2. hand'.seq = hand.seq /\ hand.seq \in Nat
      BY <1>0, <1>4, <2>1, Held, Zenon DEF Record, GoTo, Hands
    <2>3. cmd.at = "replay"
      BY <2>1, InReplay, Zenon
    <2>4. /\ db'.checkpoint \in Nat /\ hand.seq <= db'.checkpoint
          /\ hand.seq <= db'.checkpoint + 1 /\ db.checkpoint <= db'.checkpoint
      <3>1. db'.checkpoint = IF hand.seq > db.checkpoint THEN hand.seq ELSE db.checkpoint
        BY <1>4, RecordMoves, Zenon
      <3> QED
        BY <1>0, <2>2, <3>1
    <2>5. ASSUME NEW s \in Positions, s <= db.checkpoint
          PROVE  s <= db'.checkpoint
      BY <1>0, <2>4, <2>5
    <2> QED
      BY <1>0, <2>1, <2>2, <2>3, <2>4, <2>5, Zenon DEF Ahead
  <1>5. CASE AckSync
    <2>1. hand # NoMessage /\ hand.at = "ack" /\ hand' = NoMessage /\ db' = db
      BY <1>5 DEF AckSync, At, NoMessage
    <2>2. cmd.at = "replay" /\ cmd'.at = "replay" /\ cmd'.id = cmd.id
      BY <1>0, <1>5, <2>1, InReplay, Zenon DEF AckSync, Commands
    <2>3. durable'.first = durable.first /\ durable'.tries = durable.tries
      BY <1>0, <1>5, <2>1, Held, SettledType, Zenon DEF AckSync
    <2>4. hand.seq <= db.checkpoint
      BY <1>0, <2>1, <2>2, Zenon DEF Ahead
    <2> QED
      BY <1>0, <2>1, <2>2, <2>3, <2>4, Zenon DEF Ahead
  <1>6. CASE PrepareRecoveryJobs
    <2>1. cmd'.at = "reset" /\ cmd'.id = cmd.id /\ hand' = NoMessage
      BY <1>0, <1>6, Zenon DEF PrepareRecoveryJobs, Commands, Ahead
    <2> QED
      BY <1>0, <2>1, Zenon DEF Ahead
  <1>7. CASE ResetConsumer
    <2>1. cmd'.at = "replay" /\ cmd'.id = cmd.id /\ hand' = NoMessage
      BY <1>0, <1>7, Zenon DEF ResetConsumer, Commands, Ahead
    <2>2. durable'.first = start /\ \A s \in Positions : durable'.tries[s] = 0
      BY <1>7, Zenon DEF ResetConsumer, Fresh
    <2> QED
      BY <1>0, <2>1, <2>2 DEF Ahead
  <1>8. ASSUME RecordReconciliation \/ \E k \in Keys : ReconcileStatus(k)
        PROVE  Ahead(cmd', durable', hand', start', db') /\ cmd'.id = cmd.id
    <2>1. /\ cmd.at \in {"replay", "evidence"} /\ hand = NoMessage /\ hand' = hand
          /\ durable' = durable
      BY <1>0, <1>8, Zenon DEF RecordReconciliation, ReconcileStatus, Settling, Ahead
    <2>2. cmd'.at \in {"replay", "evidence"} /\ cmd'.id = cmd.id
      BY <1>0, <1>8 DEF RecordReconciliation, ReconcileStatus, Commands
    <2>3. db'.checkpoint = db.checkpoint
      BY <1>8, RecoveryMoves, WorkMoves, Zenon DEF Alike
    <2> QED
      BY <1>0, <2>1, <2>2, <2>3, Zenon DEF Ahead
  <1> QED
    BY <1>0, <1>1, <1>2, <1>3, <1>4, <1>5, <1>6, <1>7, <1>8, GoesOn, Zenon

LEMMA ReplayingStep ==
    ASSUME IndInv, Next
    PROVE  Replaying'
  <1>0. /\ Types /\ Types' /\ (mode = "serving" => Incomplete(db) = {})
        /\ (saved # NoBackup => Incomplete(saved) = {})
        /\ (mode = "recovering" => Incomplete(db) = {cmd.id} /\ start = db.runs[cmd.id].manifest + 1)
    BY TypesStep, Zenon DEF IndInv, Replaying
  <1>1. mode' = "serving" => Incomplete(db') = {}
    <2>1. CASE Serve
      BY <2>1, Zenon DEF Serve, AssertRecoveryComplete
    <2>2. ASSUME mode' = "serving", ~Serve
          PROVE  mode = "serving"
      <3>1. ASSUME NEW i \in RecoveryIds, BeginRecovery(i)
            PROVE  FALSE
        BY <2>2, <3>1, Zenon DEF BeginRecovery
      <3> QED
        BY <1>0, <2>2, <3>1, CommandMoves, Zenon DEF CompleteRecovery
    <2>3. ASSUME mode' = "serving", mode = "serving"
          PROVE  Alike(db, db') \/ Record
      BY <2>3, DatabaseMoves, Zenon DEF Restore, CompleteRecovery, BeginRecovery
    <2> QED
      BY <1>0, <2>1, <2>2, <2>3, SameRuns, Zenon
  <1>2. saved' # NoBackup => Incomplete(saved') = {}
    BY <1>0, SavedMoves, Zenon
  <1>3. mode' = "recovering" =>
          /\ Incomplete(db') = {cmd'.id} /\ start' = db'.runs[cmd'.id].manifest + 1
          /\ Ahead(cmd', durable', hand', start', db')
    <2>1. CASE mode = "recovering" /\ mode' = "recovering"
      <3>1. cmd'.id = cmd.id /\ start' = start /\ Ahead(cmd', durable', hand', start', db')
        BY <2>1, AheadStep, Zenon
      <3>2. Alike(db, db') \/ Record
        BY <2>1, DatabaseMoves, Zenon DEF Restore, CompleteRecovery, BeginRecovery
      <3>3. cmd.id \in RecoveryIds
        BY <1>0, <2>1, Running, Zenon
      <3> QED
        BY <1>0, <2>1, <3>1, <3>2, <3>3, SameRuns, Zenon
    <2>2. ASSUME NEW i \in RecoveryIds, BeginRecovery(i), mode' = "recovering"
          PROVE  /\ Incomplete(db') = {cmd'.id} /\ start' = db'.runs[cmd'.id].manifest + 1
                 /\ Ahead(cmd', durable', hand', start', db')
      <3>1. /\ mode = "stopped" /\ hand' = hand /\ start' = start /\ start \in Nat
            /\ Incomplete(db) \ {i} = {} /\ cmd' = [NoCommand EXCEPT !.id = i, !.at = "freeze"]
        BY <1>0, <2>2, Limits DEF BeginRecovery, Types
      <3>2. cmd'.id = i /\ cmd'.at = "freeze" /\ hand = NoMessage
        BY <3>1, Zenon DEF NoCommand, IndInv, InHand
      <3>3. Incomplete(db') = {i} /\ db'.runs[i].manifest = start - 1
        BY <2>2, <3>1, BeginRuns, Zenon
      <3>4. Ahead(cmd', durable', hand', start', db')
        BY <3>1, <3>2, Zenon DEF Ahead
      <3> QED
        BY <3>1, <3>2, <3>3, <3>4
    <2>3. CASE mode # "recovering" /\ mode' = "recovering"
      <3>1. \E i \in RecoveryIds : BeginRecovery(i)
        <4>1. cmd.at = "none"
          BY <1>0, <2>3, Running, Zenon
        <4>2. ASSUME NEW k \in Keys, ReconcileStatus(k)
              PROVE  FALSE
          BY <4>1, <4>2, Zenon DEF ReconcileStatus, Settling
        <4> QED
          BY <1>0, <2>3, <4>1, <4>2, CommandMoves, Zenon DEF Serve, CompleteRecovery, AckSync,
             PrepareRecoveryJobs, ResetConsumer, RecordReconciliation
      <3> QED
        BY <2>2, <2>3, <3>1, Zenon
    <2> QED
      BY <2>1, <2>3, Zenon
  <1>4. mode' # "recovering" => Ahead(cmd', durable', hand', start', db')
    <2>1. mode' # "recovering" => cmd'.at = "none"
      BY CommandType DEF NoCommand
    <2> QED
      BY <2>1, Zenon DEF Ahead
  <1>5. Ahead(cmd', durable', hand', start', db')
    BY <1>3, <1>4, Zenon
  <1> QED
    BY <1>1, <1>2, <1>3, <1>5, Zenon DEF Replaying, Ahead
-----------------------------------------------------------------------------
(* The fence. *)

\* The fence depends on the recoveries that are recorded.
LEMMA SameFence ==
    ASSUME IndInv, Alike(db, db') \/ Record
    PROVE  AssertRecoveryComplete(db', start) <=> AssertRecoveryComplete(db, start)
  <1>1. Completed(db', start) = Completed(db, start)
    BY SameRuns, Zenon DEF Completed
  <1> QED
    BY <1>1, SameRuns, Zenon DEF AssertRecoveryComplete

\* What lies below the start is held or was passed over.
LEMMA BelowStart ==
    ASSUME IndInv, Next, NEW s \in DOMAIN stream', s < start'
    PROVE  stream'[s] = Malformed \/ Holds(db', stream'[s]) \/ s \in skipped'
  <1>1. CASE Restore
    <2>1. /\ stream' = stream /\ db' = saved /\ skipped' = PassedOver(saved)
          /\ start' = saved.checkpoint + 1 /\ saved.checkpoint \in Nat
      <3>1. saved # NoBackup /\ Types
        BY <1>1, Zenon DEF Restore, IndInv
      <3> QED
        BY <1>1, <3>1, Numbers, Zenon DEF Restore, bus
    <2>2. s \in Nat
      BY <2>1, Lengths DEF IndInv
    <2>3. s <= saved.checkpoint
      BY <2>1, <2>2
    <2> QED
      BY <2>1, <2>3, Zenon DEF PassedOver
  <1>2. CASE ~Restore
    <2>1. start' = start /\ skipped' = skipped
      BY <1>2, CommandMoves, Zenon DEF IndInv
    <2>2. s \in DOMAIN stream
      <3>1. start \in Nat /\ start <= Len(stream) + 1 /\ Len(stream) \in Nat
        BY Lengths, Numbers, Zenon DEF IndInv, InHand
      <3>2. s \in Nat /\ s >= 1 /\ DOMAIN stream = 1..Len(stream)
        <4>1. DOMAIN stream' = 1..Len(stream') /\ Len(stream') \in Nat
          BY StreamType DEF IndInv
        <4> QED
          BY <4>1, Lengths DEF IndInv
      <3> QED
        BY <2>1, <3>1, <3>2
    <2>3. stream[s] = Malformed \/ Holds(db, stream[s]) \/ s \in skipped
      BY <2>1, <2>2, Zenon DEF IndInv, Fenced
    <2>4. stream'[s] = stream[s]
      BY <2>2, StreamGrows, Zenon DEF IndInv, Extends
    <2> QED
      BY <1>2, <2>1, <2>2, <2>3, <2>4, StillHolds, Zenon
  <1> QED
    BY <1>1, <1>2, Zenon

\* A message that was kept is kept by a step that leaves the consumer or settles in it.
LEMMA KeptGrows ==
    ASSUME IndInv, Next, ~Restore, NEW s \in DOMAIN stream, KeptAt(s),
           \/ durable' = durable
           \/ \E t \in DOMAIN stream : Fetch(t)
           \/ ProcessMalformed \/ AckSync
           \/ ProcessFails /\ hand.at = "ack" /\ Message # Malformed /\ durable' = Settled(hand.seq)
    PROVE  KeptAt(s)'
  <1>0. /\ stream'[s] = stream[s] /\ skipped' = skipped /\ s \in Positions /\ Types
        /\ durable \in Durables
    BY StreamGrows, CommandMoves, Lengths, Zenon DEF IndInv, Extends, Types
  <1>1. CASE stream[s] = Malformed \/ Holds(db, stream[s]) \/ s \in skipped
    <2>1. stream'[s] = Malformed \/ Holds(db', stream'[s]) \/ s \in skipped'
      BY <1>0, <1>1, StillHolds, Zenon
    <2> QED
      BY <2>1, Zenon DEF KeptAt
  <1>2. ASSUME Exhausted(s) \/ (s >= durable.first /\ s \notin durable.done),
               stream[s] # Malformed, ~Holds(db, stream[s])
        PROVE  Exhausted(s)' \/ (s >= durable'.first /\ s \notin durable'.done)
    <2>1. CASE durable' = durable
      BY <1>2, <2>1, Zenon DEF Exhausted
    <2>2. ASSUME NEW t \in DOMAIN stream, Fetch(t)
          PROVE  Exhausted(s)' \/ (s >= durable'.first /\ s \notin durable'.done)
      <3>1. /\ durable'.first = durable.first /\ durable'.done = durable.done
            /\ durable'.tries[s] = IF s = t THEN durable.tries[t] + 1 ELSE durable.tries[s]
        BY <1>0, <2>2, FetchType, Zenon
      <3>2. durable.tries[t] < MaxDeliver /\ MaxDeliver \in Nat
        BY <2>2, Limits, Zenon DEF Fetch, Deliverable
      <3>3. Exhausted(s) => s # t
        BY <3>2 DEF Exhausted
      <3> QED
        BY <1>2, <3>1, <3>3, Zenon DEF Exhausted
    <2>3. CASE durable' # durable /\ ~\E t \in DOMAIN stream : Fetch(t)
      <3>1. hand # NoMessage /\ durable' = Settled(hand.seq)
        BY <2>3 DEF ProcessMalformed, AckSync, ProcessFails, At, NoMessage
      <3>2. s # hand.seq
        <4>1. Message = Malformed \/ Holds(db, Message)
          BY <2>3, Zenon DEF ProcessMalformed, AckSync, At, IndInv, InHand
        <4> QED
          BY <1>2, <4>1, Zenon DEF Message
      <3>3. /\ durable'.first = durable.first /\ durable'.done = durable.done \cup {hand.seq}
            /\ durable'.tries = durable.tries
        BY <1>0, <3>1, Held, SettledType, Zenon
      <3> QED
        BY <1>2, <3>2, <3>3, Zenon DEF Exhausted
    <2> QED
      BY <2>1, <2>2, <2>3, Zenon
  <1> QED
    BY <1>1, <1>2, Zenon DEF KeptAt

\* A consumer that starts at the start or before it comes to everything the database lacks.
LEMMA KeptFresh ==
    ASSUME IndInv, Next, NEW first \in 1..(MaxStream + 1), first <= start' \/ first = 1,
           durable' = Fresh(first) \/ durable' = [Fresh(first) EXCEPT !.on = FALSE],
           NEW s \in DOMAIN stream'
    PROVE  KeptAt(s)'
  <1>1. durable'.first = first /\ durable'.done = {}
    <2>1. /\ Fresh(first).first = first /\ Fresh(first).done = {}
          /\ [Fresh(first) EXCEPT !.on = FALSE].first = first
          /\ [Fresh(first) EXCEPT !.on = FALSE].done = {}
      BY Zenon DEF Fresh
    <2> QED
      BY <2>1, Zenon
  <1>2. s \in Nat /\ s >= 1 /\ first \in Nat /\ start' \in Nat
    <2>1. DOMAIN stream' = 1..Len(stream') /\ Len(stream') \in Nat
      BY StreamType DEF IndInv
    <2> QED
      BY <2>1, CommandType, Limits
  <1>3. s >= first \/ s < start'
    BY <1>2
  <1>4. s >= first => KeptAt(s)'
    BY <1>1, Zenon DEF KeptAt
  <1>5. s < start' => KeptAt(s)'
    BY BelowStart, Zenon DEF KeptAt
  <1> QED
    BY <1>3, <1>4, <1>5, Zenon

LEMMA FencedStep ==
    ASSUME IndInv, Next
    PROVE  Fenced'
  <1>0. Types /\ Types'
    BY TypesStep DEF IndInv
  <1>1. \A s \in DOMAIN stream' : s < start' =>
            stream'[s] = Malformed \/ Holds(db', stream'[s]) \/ s \in skipped'
    BY BelowStart, Zenon
  <1>2. ASSUME Restore
        PROVE  \/ Kept'
               \/ /\ mode' # "serving" /\ ~AssertRecoveryComplete(db', start')
                  /\ cmd'.at \in {"none", "freeze", "reset"}
    <2>1. /\ stream' = stream /\ db' = saved /\ start' = saved.checkpoint + 1
          /\ mode' = "stopped" /\ cmd' = NoCommand /\ skipped' = PassedOver(saved)
      BY <1>2, Zenon DEF Restore, bus
    <2>2. ASSUME AssertRecoveryComplete(saved, saved.checkpoint + 1)
          PROVE  Kept'
      BY <2>1, <2>2, Zenon DEF Kept, KeptAt, PassedOver
    <2> QED
      BY <2>1, <2>2, Zenon DEF NoCommand
  <1>3. ASSUME NEW first \in 1..(MaxStream + 1), first <= start' \/ first = 1,
               durable' = Fresh(first) \/ durable' = [Fresh(first) EXCEPT !.on = FALSE]
        PROVE  Kept'
    BY <1>3, KeptFresh, Zenon DEF Kept
  <1>4. CASE ResetConsumer
    <2>1. start' = start /\ start \in Nat /\ start \in 0..(MaxStream + 1)
      BY <1>0, <1>4, Numbers, Zenon DEF ResetConsumer
    <2>2. start >= 1
      <3>1. mode = "recovering"
        BY <1>0, <1>4, Running, Zenon DEF ResetConsumer
      <3> QED
        BY <3>1, StartOfRun, Zenon
    <2>3. start \in 1..(MaxStream + 1) /\ start <= start'
      BY <2>1, <2>2
    <2>4. Kept'
      BY <1>3, <1>4, <2>3, Zenon DEF ResetConsumer
    <2> QED
      BY <1>1, <2>4, Zenon DEF Fenced
  <1>5. CASE durable' = Fresh(IF start = 0 THEN 1 ELSE start) /\ start' = start
    <2>1. start \in Nat /\ start \in 0..(MaxStream + 1) /\ MaxStream \in Nat
      BY <1>0, Limits DEF Types
    <2>2. CASE start = 0
      <3>1. 1 \in 1..(MaxStream + 1)
        BY <2>1
      <3> QED
        BY <1>1, <1>3, <1>5, <2>2, <3>1, Zenon DEF Fenced
    <2>3. CASE start # 0
      <3>1. start \in 1..(MaxStream + 1) /\ start <= start'
        BY <1>5, <2>1, <2>3
      <3> QED
        BY <1>1, <1>3, <1>5, <2>3, <3>1, Zenon DEF Fenced
    <2> QED
      BY <2>2, <2>3, Zenon
  <1>6. CASE durable' = [Fresh(1) EXCEPT !.on = FALSE]
    <2>1. 1 \in 1..(MaxStream + 1)
      BY Limits
    <2> QED
      BY <1>1, <1>3, <1>6, <2>1, Zenon DEF Fenced
  <1>7. ASSUME ~Restore, Kept,
               \/ durable' = durable
               \/ \E t \in DOMAIN stream : Fetch(t)
               \/ ProcessMalformed \/ AckSync
               \/ ProcessFails /\ hand.at = "ack" /\ Message # Malformed /\ durable' = Settled(hand.seq)
        PROVE  Kept'
    <2>1. ASSUME NEW s \in DOMAIN stream', s \notin DOMAIN stream
          PROVE  KeptAt(s)'
      <3>1. durable'.first <= Len(stream) + 1 /\ durable'.done \subseteq DOMAIN stream
        BY DurableWithin, Zenon
      <3>2. s \in Nat /\ s > Len(stream) /\ Len(stream) \in Nat /\ durable'.first \in Nat
        <4>1. DOMAIN stream' = 1..Len(stream') /\ Len(stream') \in Nat
          BY StreamType DEF IndInv
        <4>2. DOMAIN stream = 1..Len(stream) /\ Len(stream) \in Nat
          BY <1>0, Lengths, Zenon
        <4>3. durable'.first \in Nat
          BY DurableType, Limits DEF Durables
        <4> QED
          BY <2>1, <4>1, <4>2, <4>3
      <3>3. s >= durable'.first
        BY <3>1, <3>2
      <3> QED
        BY <2>1, <3>1, <3>3, Zenon DEF KeptAt
    <2>2. ASSUME NEW s \in DOMAIN stream
          PROVE  KeptAt(s)'
      <3>1. KeptAt(s)
        BY <1>7, Zenon DEF Kept
      <3> QED
        BY <1>7, <3>1, KeptGrows, Zenon
    <2> QED
      BY <2>1, <2>2, Zenon DEF Kept
  <1>8. ASSUME ~Restore, ~ResetConsumer, mode # "serving", ~AssertRecoveryComplete(db, start),
               cmd.at \in {"none", "freeze", "reset"}
        PROVE  /\ mode' # "serving" /\ ~AssertRecoveryComplete(db', start')
               /\ cmd'.at \in {"none", "freeze", "reset"}
    <2>1. start' = start /\ ~Serve /\ ~CompleteRecovery /\ ~RecordReconciliation
      BY <1>0, <1>8, CommandMoves, Zenon DEF Serve, CompleteRecovery, Settling, RecordReconciliation
    <2>2. ASSUME NEW k \in Keys, ReconcileStatus(k)
          PROVE  FALSE
      BY <1>8, <2>2, Zenon DEF ReconcileStatus, Settling
    <2>3. ASSUME NEW i \in RecoveryIds, BeginRecovery(i)
          PROVE  /\ mode' # "serving" /\ ~AssertRecoveryComplete(db', start')
                 /\ cmd'.at \in {"none", "freeze", "reset"}
      <3>1. mode' \in {"stopped", "recovering"}
        BY <2>3, Zenon DEF BeginRecovery
      <3>2. ~AssertRecoveryComplete(db', start')
        BY <2>3, BeginRuns, Zenon DEF AssertRecoveryComplete
      <3>3. cmd' = cmd \/ cmd'.at = "freeze"
        BY <2>3, Zenon DEF BeginRecovery, NoCommand
      <3> QED
        BY <1>8, <3>1, <3>2, <3>3, Zenon
    <2>4. ASSUME ~\E i \in RecoveryIds : BeginRecovery(i)
          PROVE  ~AssertRecoveryComplete(db', start')
      BY <1>8, <2>1, <2>4, DatabaseMoves, SameFence, Zenon
    <2>5. ASSUME AckSync \/ PrepareRecoveryJobs
          PROVE  cmd'.at \in {"none", "freeze", "reset"}
      <3>1. mode = "recovering" => cmd \in Commands
        BY <1>0, Running, Zenon
      <3>2. cmd.at = "freeze" => mode = "recovering"
        BY <1>0, Running, Zenon
      <3>3. CASE AckSync
        BY <1>8, <3>1, <3>3, Zenon DEF AckSync, Commands
      <3>4. CASE PrepareRecoveryJobs
        BY <3>1, <3>2, <3>4, Zenon DEF PrepareRecoveryJobs, Commands
      <3> QED
        BY <2>5, <3>3, <3>4, Zenon
    <2>6. NoCommand.at = "none"
      BY Zenon DEF NoCommand
    <2> QED
      BY <1>0, <1>8, <2>1, <2>2, <2>3, <2>4, <2>5, <2>6, CommandMoves, Zenon
  <1>9. CASE /\ ~Restore /\ ~ResetConsumer
             /\ \/ durable' = durable
                \/ \E t \in DOMAIN stream : Fetch(t)
                \/ ProcessMalformed \/ AckSync
                \/ ProcessFails /\ hand.at = "ack" /\ Message # Malformed /\ durable' = Settled(hand.seq)
    <2>1. Kept \/ (mode # "serving" /\ ~AssertRecoveryComplete(db, start)
                   /\ cmd.at \in {"none", "freeze", "reset"})
      BY Zenon DEF IndInv, Fenced
    <2> QED
      BY <1>1, <1>7, <1>8, <1>9, <2>1, Zenon DEF Fenced
  <1>10. Serve => start' = start
    BY Zenon DEF Serve
  <1>11. CASE Restore
    BY <1>1, <1>2, <1>11, Zenon DEF Fenced
  <1> QED
    BY <1>4, <1>5, <1>6, <1>9, <1>10, <1>11, DurableMoves, Zenon
-----------------------------------------------------------------------------
(* The theorems. *)

LEMMA Initially ==
    ASSUME Init
    PROVE  IndInv
  <1>0. MaxStream \in Nat \ {0} /\ MaxFaults \in Nat /\ MaxRestores \in Nat
    BY Limits, Zenon
  <1>1. NoRun \in Runs
    BY <1>0 DEF NoRun, Runs
  <1>2. db \in Databases
    <2>1. [k \in Keys |-> "none"] \in [Keys -> JobStates]
      BY Zenon DEF JobStates
    <2>2. [i \in RecoveryIds |-> NoRun] \in [RecoveryIds -> Runs]
      BY <1>1, Zenon
    <2>3. 0 \in 0..MaxStream
      BY <1>0
    <2>4. EmptyDB \in Databases
      BY <2>1, <2>2, <2>3, Zenon DEF EmptyDB, Databases
    <2> QED
      BY <2>4, Zenon DEF Init
  <1>3. /\ db.checkpoint = 0 /\ db.seen = {} /\ \A k \in Keys : db.jobs[k] = "none"
        /\ \A i \in RecoveryIds : /\ db.runs[i].status = "none" /\ db.runs[i].manifest = 0
                                  /\ db.runs[i].replayed = {}
    BY Zenon DEF Init, EmptyDB, NoRun
  <1>4. /\ stream = <<>> /\ Len(stream) = 0 /\ DOMAIN stream = {}
        /\ stream \in Seq(Published \cup {Malformed})
    BY DEF Init
  <1>5. /\ durable = Fresh(1) /\ durable \in Durables /\ durable.first = 1 /\ durable.done = {}
    <2>1. 1 \in 1..(MaxStream + 1)
      BY <1>0
    <2> QED
      BY <2>1, FreshType, Zenon DEF Init
  <1>6. /\ hand = NoMessage /\ hand.at = "fetch" /\ cmd = NoCommand /\ cmd.at = "none"
        /\ mode = "serving" /\ start = 0 /\ saved = NoBackup
    BY Zenon DEF Init, NoMessage, NoCommand
  <1>7. Types
    <2>1. skipped \subseteq Positions /\ faults \in 0..MaxFaults /\ restores \in 0..MaxRestores
      BY <1>0 DEF Init
    <2>2. received \subseteq Requests
      BY Zenon DEF Init
    <2>3. Len(stream) <= MaxStream /\ start \in 0..(MaxStream + 1)
      BY <1>0, <1>4, <1>6
    <2> QED
      BY <1>2, <1>4, <1>5, <1>6, <2>1, <2>2, <2>3, Zenon DEF Types
  <1>8. Consistent(db, stream)
    <2>1. Requested(db, stream) /\ SeenHasJob(db)
      BY <1>3, Zenon DEF Requested, SeenHasJob
    <2>2. \A i \in RecoveryIds : Evidence(db, stream, i)
      BY <1>3 DEF Evidence
    <2> QED
      BY <1>3, <1>4, <2>1, <2>2 DEF Consistent
  <1>9. InHand
    BY <1>4, <1>5, <1>6 DEF InHand
  <1>10. Replaying
    BY <1>3, <1>6, Zenon DEF Replaying, Incomplete
  <1>11. Fenced
    BY <1>4, Zenon DEF Fenced, Kept
  <1> QED
    BY <1>6, <1>7, <1>8, <1>9, <1>10, <1>11, Zenon DEF IndInv

LEMMA Stutter ==
    ASSUME IndInv, UNCHANGED vars
    PROVE  IndInv'
  <1> USE DEF vars, bus, bounds, IndInv
  <1>1. Types'
    BY Zenon DEF Types
  <1>2. Consistent(db', stream') /\ (saved' # NoBackup => Consistent(saved', stream'))
    BY Zenon
  <1>3. InHand'
    BY Zenon DEF InHand, Message
  <1>4. Replaying'
    BY Zenon DEF Replaying
  <1>5. Fenced'
    BY Zenon DEF Fenced, Kept, KeptAt, Exhausted
  <1> QED
    BY <1>1, <1>2, <1>3, <1>4, <1>5, Zenon

\* The inductive invariant: the types; both databases, the live one and the backup, agree with
\* the stream; the message in hand; the position of a running recovery; and the fence, which
\* is closed whenever a message is neither stored nor to come.
THEOREM Invariant == Spec => []IndInv
  <1>1. Init => IndInv
    BY Initially, Zenon
  <1>2. IndInv /\ [Next]_vars => IndInv'
    <2>1. ASSUME IndInv, Next
          PROVE  IndInv'
      <3>1. Types'
        BY <2>1, TypesStep, Zenon
      <3> QED
        BY <2>1, <3>1, ConsistentStep, InHandStep, ReplayingStep, FencedStep, Zenon DEF IndInv
    <2> QED
      BY <2>1, Stutter, Zenon
  <1> QED
    BY <1>1, <1>2, PTL DEF Spec

\* Type correctness of the gateway, the consumer, the database and the recovery.
THEOREM TypeCorrect == Spec => []TypeOK
  <1>1. IndInv => TypeOK
    <2> SUFFICES ASSUME IndInv
                 PROVE  TypeOK
      BY Zenon
    <2>1. /\ \A s \in DOMAIN stream : stream[s] \in Published \cup {Malformed}
          /\ durable.first \in 1..(MaxStream + 1) /\ durable.done \subseteq Positions
          /\ durable.tries \in [Positions -> 0..MaxDeliver]
          /\ db.checkpoint \in 0..MaxStream /\ db.jobs \in [Keys -> JobStates]
          /\ db.ready \subseteq Keys
      BY Lengths, Zenon DEF IndInv, Types, Durables, Databases
    <2> QED
      BY <2>1, Zenon DEF IndInv, Types, TypeOK, Hands
  <1> QED
    BY <1>1, Invariant, PTL

\* While the dispatcher serves, every signal in the stream is in its database or still to come,
\* whatever call failed or process crashed, and after a restore and its recovery: process
\* acknowledges after record, and AssertRecoveryComplete lets nothing start over a gap.
THEOREM WorkKeptHolds == Spec => []WorkKept
  <1>1. IndInv => WorkKept
    <2> SUFFICES ASSUME IndInv, mode = "serving", NEW s \in DOMAIN stream
                 PROVE  \/ stream[s] = Malformed \/ Holds(db, stream[s]) \/ Pending(s)
                        \/ Exhausted(s) \/ s \in skipped
      BY Zenon DEF WorkKept
    <2>1. KeptAt(s)
      BY Zenon DEF IndInv, Fenced, Kept
    <2>2. ASSUME s >= durable.first, s \notin durable.done
          PROVE  Pending(s) \/ Exhausted(s)
      <3>1. /\ s \in Positions /\ s \in Nat /\ Len(stream) \in Nat /\ s <= Len(stream)
            /\ durable.first \in Nat /\ durable.tries[s] \in 0..MaxDeliver /\ MaxDeliver \in Nat
        <4>1. durable.first \in Nat
          BY Limits DEF IndInv, Types, Durables
        <4>2. s \in Positions
          BY Lengths, Zenon DEF IndInv
        <4>3. durable.tries[s] \in 0..MaxDeliver
          BY <4>2, Zenon DEF IndInv, Types, Durables
        <4> QED
          BY <4>1, <4>2, <4>3, Lengths DEF IndInv
      <3>2. s \in durable.first..Len(stream)
        BY <2>2, <3>1
      <3>3. durable.tries[s] < MaxDeliver \/ durable.tries[s] = MaxDeliver
        BY <3>1
      <3> QED
        BY <2>2, <3>2, <3>3, Zenon DEF Pending, Exhausted
    <2> QED
      BY <2>1, <2>2, Zenon DEF KeptAt
  <1> QED
    BY <1>1, Invariant, PTL

\* The replay evidence and the checkpoint agree wherever a recovery was cut off, because
\* Store.record writes both in one transaction and the replay has no gap.
THEOREM EvidenceHolds == Spec => []EvidenceMatchesCheckpoint
  <1>1. IndInv => EvidenceMatchesCheckpoint
    <2> SUFFICES ASSUME IndInv, NEW i \in RecoveryIds
                 PROVE  /\ db.runs[i].status = "incomplete" =>
                              db.runs[i].replayed = (db.runs[i].manifest + 1)..db.checkpoint
                        /\ db.runs[i].status = "completed" =>
                              /\ \E last \in db.runs[i].manifest..db.checkpoint :
                                     db.runs[i].replayed = (db.runs[i].manifest + 1)..last
                              /\ \A s \in db.runs[i].replayed : Holds(db, stream[s])
      BY Zenon DEF EvidenceMatchesCheckpoint
    <2>1. Evidence(db, stream, i)
      BY Zenon DEF IndInv, Consistent
    <2> QED
      BY <2>1, Zenon DEF Evidence
  <1> QED
    BY <1>1, Invariant, PTL

\* Every job stems from a webhook in the stream that asks for it: signed, and putting the
\* label of the job's route on the job's open issue in the route's repository.  It is what
\* admitGitHub and the predicate of the dispatcher let through together.
THEOREM JobsRequestedHolds == Spec => []JobsAreRequested
  <1>1. IndInv => JobsAreRequested
    <2> SUFFICES ASSUME IndInv, NEW k \in Keys, db.jobs[k] # "none"
                 PROVE  \E r \in Requests : AsksFor(r, k) /\ \E s \in DOMAIN stream : stream[s] = Signal(r)
      BY Zenon DEF JobsAreRequested
    <2>1. PICK s \in DOMAIN stream : stream[s] # Malformed /\ Select(stream[s]) = k
      BY Zenon DEF IndInv, Consistent, Requested
    <2>2. stream[s] \in Published
      BY <2>1, Lengths, Zenon DEF IndInv
    <2>3. PICK r \in Requests : Admit(r) = "publish" /\ stream[s] = Signal(r)
      BY <2>2, Zenon DEF Published
    <2>4. k # NoTask
      BY Zenon DEF Keys
    <2> DEFINE g == stream[s]
    <2>5. PICK t \in Matching(g) : k = <<t.id, g.payload.repo, g.payload.number>>
      BY <2>1, <2>4, SelectedRoute, Zenon
    <2>6. g.source = "github" /\ g.event = "issues" /\ g.payload.open
      BY <2>1, <2>4, Zenon DEF Select
    <2>7. /\ g.source = r.route.source /\ g.event = r.event
          /\ g.payload = [action |-> r.action, repo |-> r.repo, number |-> r.number,
                          label |-> r.label, open |-> r.open]
      <3>1. /\ Signal(r).source = r.route.source /\ Signal(r).event = r.event
            /\ Signal(r).payload = [action |-> r.action, repo |-> r.repo, number |-> r.number,
                                    label |-> r.label, open |-> r.open]
        BY Zenon DEF Signal
      <3>2. g = Signal(r)
        BY <2>3, Zenon
      <3> HIDE DEF g
      <3> QED
        BY <3>1, <3>2, Zenon
    <2>8. /\ g.payload.open = r.open /\ g.payload.repo = r.repo /\ g.payload.number = r.number
          /\ g.payload.label = r.label /\ g.payload.action = r.action
      <3> DEFINE load == [action |-> r.action, repo |-> r.repo, number |-> r.number,
                          label |-> r.label, open |-> r.open]
      <3>1. /\ load.open = r.open /\ load.repo = r.repo /\ load.number = r.number
            /\ load.label = r.label /\ load.action = r.action
        BY Zenon
      <3>2. g.payload = load
        BY <2>7, Zenon DEF load
      <3> HIDE DEF g, load
      <3> QED
        BY <3>1, <3>2, Zenon
    <2>9. r.proof
      <3>1. r.body
        BY <2>3, Zenon DEF Admit
      <3>2. admitGitHub(r.route, r) = "publish"
        BY <2>3, <2>6, <2>7, <3>1, Zenon DEF Admit
      <3> QED
        BY <3>2, Zenon DEF admitGitHub
    <2>10. t \in TaskRoutes /\ t.repo = r.repo /\ t.action = r.action /\ t.label = r.label
      BY <2>8, Zenon DEF Matching
    <2>11. r.action = "labeled"
      BY <2>10, TaskRoutesValid, Zenon DEF validateRepositoryTaskRoutes
    <2>12. k[1] = t.id /\ k[2] = r.repo /\ k[3] = r.number
      <3> HIDE DEF g
      <3> QED
        BY <2>5, <2>8, Zenon
    <2>13. AsksFor(r, k)
      <3> HIDE DEF g
      <3> QED
        BY <2>6, <2>7, <2>8, <2>9, <2>10, <2>11, <2>12, Zenon DEF AsksFor
    <2> QED
      BY <2>3, <2>13, Zenon
  <1> QED
    BY <1>1, Invariant, PTL
=============================================================================
