------------------------- MODULE WorkRouterProofs -------------------------
(***************************************************************************)
(* Theorems about WorkRouter for any routes, facts, messages, contents and *)
(* bounds: leases, attempts, uploads, acknowledgements, bound snapshots,   *)
(* finished items and deadlines.                                           *)
(***************************************************************************)
EXTENDS WorkLedgerProofs, FiniteSetTheorems

-----------------------------------------------------------------------------
(* Items are as many as the events that can make them. *)

LEMMA ItemsBound ==
    ASSUME NEW d, LedgerInv(d)
    PROVE  DOMAIN d.items \subseteq Items
<1> DEFINE M == {Messages[m] : m \in DOMAIN Messages}
           f == [i \in DOMAIN d.items |-> d.items[i].event]
           g == [m \in DOMAIN Messages |-> Messages[m]]
           k == Len(d.items)
<1>1. k \in Nat /\ DOMAIN d.items = 1 .. k /\ \A i \in DOMAIN d.items : d.items[i] \in ItemRows
  BY Indices, RowTypes, Zenon DEF LedgerInv
<1>2. IsFiniteSet(Facts) /\ IsFiniteSet(DOMAIN Messages)
  BY RouterConstants, Zenon
<1>3. IsFiniteSet(M) /\ Cardinality(M) <= Cardinality(DOMAIN Messages)
  <2>1. g \in Surjection(DOMAIN Messages, M)
    BY Zenon DEF Surjection
  <2> HIDE DEF g, M
  <2> QED
    BY <1>2, <2>1, FS_Surjection, Zenon
<1>4. /\ Cardinality(Facts) \in Nat /\ Cardinality(M) \in Nat
      /\ Cardinality(DOMAIN Messages) \in Nat /\ Cardinality(Facts \cap M) \in Nat
  <2>1. IsFiniteSet(Facts \cap M)
    BY <1>2, <1>3, FS_Intersection, Zenon
  <2> QED
    BY <1>2, <1>3, <2>1, FS_CardinalityType, Zenon
<1>5. /\ IsFiniteSet(Events)
      /\ Cardinality(Events) = Cardinality(Facts) + Cardinality(M) - Cardinality(Facts \cap M)
  BY <1>2, <1>3, FS_Union, Zenon DEF Events
<1>6. f \in Injection(1 .. k, Events)
  <2>1. f \in [1 .. k -> Events]
    BY <1>1, Zenon DEF ItemRows
  <2>2. \A i, j \in 1 .. k : f[i] = f[j] => i = j
    BY <1>1, Zenon DEF LedgerInv, EventsKept
  <2> HIDE DEF f
  <2> QED
    BY <2>1, <2>2, Zenon DEF Injection, IsInjective
<1>7. Cardinality(1 .. k) <= Cardinality(Events)
  <2> HIDE DEF f
  <2> QED
    BY <1>5, <1>6, FS_Injection, Zenon
<1>8. Cardinality(1 .. k) = k
  BY <1>1, FS_Interval
<1> HIDE DEF k, M
<1>9. k <= Cardinality(Facts) + Cardinality(DOMAIN Messages)
  BY <1>1, <1>3, <1>4, <1>5, <1>7, <1>8
<1> QED
  BY <1>1, <1>4, <1>9 DEF Items

-----------------------------------------------------------------------------
(* The steps of the executor loop. *)

\* A step of the executor loop.
LEMMA ExecutorStep ==
    ASSUME IndInv, proc' = proc, ing' = ing, msgs' = msgs,
           asset' = asset, polls' = polls, overdue' = overdue,
           LedgerInv(db'), Later(db, db'), Quiet(db, db'), db'.snapshots = db.snapshots,
           exec' \in ExecRows, uploads' \subseteq [key : Contents, bytes : Contents],
           runs' \subseteq Nat \X Nat, Executing', Sent'
    PROVE  Step
<1>1. Types'
  BY Zenon DEF IndInv, Types
<1>2. Consuming' /\ AckedIsRecorded'
  BY ConsumingKept, AckedKept, Zenon DEF IndInv
<1>3. Bound'
  BY BoundKept, Zenon DEF IndInv
<1> QED
  BY <1>1, <1>2, <1>3, QuietStep, Zenon

\* One without a transaction and without a call.
LEMMA ExecutorSameStep ==
    ASSUME IndInv, proc' = proc, ing' = ing, msgs' = msgs, UNCHANGED external, db' = db,
           exec' \in ExecRows, Executing'
    PROVE  Step
<1>1. /\ polls' = polls /\ overdue' = overdue /\ asset' = asset
      /\ runs' = runs /\ uploads' = uploads
  BY Zenon DEF external
<1>2. LedgerInv(db') /\ Later(db, db') /\ Quiet(db, db')
  BY Same, Zenon DEF IndInv
<1>3. Sent'
  BY <1>1, Zenon DEF IndInv, Sent
<1>4. runs' \subseteq Nat \X Nat /\ uploads' \subseteq [key : Contents, bytes : Contents]
  BY <1>1, Zenon DEF IndInv, Types
<1> QED
  BY <1>1, <1>2, <1>3, <1>4, ExecutorStep, Zenon

\* The executor's answer is handed to finish.
LEMMA Answered ==
    ASSUME IndInv, Later(db, db'), Quiet(db, db'), proc' = proc, polls' = polls, exec.pc # "idle",
           NEW outcome \in Outcomes, Answer(outcome),
           outcome = "completed" /\ Routes[Item.route].executor = "upload"
              => Item.content \in db'.results,
           outcome = "waiting" => polls[exec.item] < MaxPolls
    PROVE  exec' \in ExecRows /\ Executing'
<1>1. exec \in ExecRows /\ "finish" \in ExecSteps
  BY Zenon DEF IndInv, Types, ExecSteps
<1>2. exec' = [exec EXCEPT !.pc = "finish", !.outcome = outcome, !.bytes = NoContent]
  BY Zenon DEF Answer
<1>3. /\ exec' \in ExecRows /\ exec'.pc = "finish" /\ exec'.outcome = outcome
      /\ exec'.item = exec.item /\ exec'.n = exec.n
  BY <1>1, <1>2, Zenon DEF ExecRows
<1>4. /\ exec.item \in DOMAIN db.items /\ proc.pc = "up"
      /\ exec.n = Len(db.attempts[exec.item]) /\ exec.n > 0
  BY Zenon DEF IndInv, Executing
<1>5. /\ exec.item \in DOMAIN db'.items
      /\ db'.items[exec.item].route = Item.route
      /\ db'.items[exec.item].content = Item.content
      /\ Len(db'.attempts[exec.item]) = exec.n
  BY <1>4, Zenon DEF Later, Quiet, Item
<1> QED
  BY <1>3, <1>4, <1>5, Zenon DEF Executing, Item

\* An answer without a transaction and without a call.
LEMMA AnswerStep ==
    ASSUME IndInv, proc' = proc, ing' = ing, msgs' = msgs, UNCHANGED external, db' = db,
           exec.pc # "idle", NEW outcome \in Outcomes, Answer(outcome),
           outcome = "completed" /\ Routes[Item.route].executor = "upload"
              => Item.content \in db.results,
           outcome = "waiting" => polls[exec.item] < MaxPolls
    PROVE  Step
<1>1. polls' = polls
  BY Zenon DEF external
<1>2. Later(db, db') /\ Quiet(db, db')
  BY Same, Zenon DEF IndInv
<1>3. exec' \in ExecRows /\ Executing'
  BY <1>1, <1>2, Answered, Zenon
<1> QED
  BY <1>3, ExecutorSameStep, Zenon

\* The loop goes to another step of the same attempt.
LEMMA Advanced ==
    ASSUME IndInv, db' = db, proc' = proc, polls' = polls,
           exec.pc # "idle", Routes[Item.route].executor = "upload",
           NEW pc \in {"download", "send", "record"}, NEW bytes \in Contents \cup {NoContent},
           exec' = [exec EXCEPT !.pc = pc, !.bytes = bytes],
           pc = "send" => bytes \in Contents /\ bytes = Item.content,
           pc = "record" => Item.content \in {u.key : u \in uploads'}
    PROVE  exec' \in ExecRows /\ Executing'
<1>1. exec \in ExecRows /\ pc \in ExecSteps
  BY Zenon DEF IndInv, Types, ExecSteps
<1>2. /\ exec' \in ExecRows /\ exec'.pc = pc /\ exec'.bytes = bytes
      /\ exec'.item = exec.item /\ exec'.n = exec.n
  BY <1>1, Zenon DEF ExecRows
<1>3. /\ exec.item \in DOMAIN db.items /\ proc.pc = "up"
      /\ exec.n = Len(db.attempts[exec.item]) /\ exec.n > 0
  BY Zenon DEF IndInv, Executing
<1>4. pc # "idle" /\ pc # "finish" /\ pc # "launch" /\ pc # "poll"
  BY Zenon
<1> QED
  BY <1>2, <1>3, <1>4, Zenon DEF Executing, Item

LEMMA VerifyReleaseStep ==
    ASSUME IndInv, VerifyRelease
    PROVE  Step
<1>1. /\ proc' = proc /\ ing' = ing /\ msgs' = msgs /\ UNCHANGED external /\ db' = db
      /\ exec.pc = "upload"
      /\ IF Item.content \in db.results THEN Answer("completed")
         ELSE IF asset = Item.content THEN exec' = [exec EXCEPT !.pc = "download"]
         ELSE Answer("retryable")
  BY Zenon DEF VerifyRelease
<1>2. Routes[Item.route].executor = "upload"
  BY <1>1, Zenon DEF IndInv, Executing
<1>3. CASE Item.content \in db.results
  BY <1>1, <1>3, AnswerStep, Zenon DEF Outcomes
<1>4. CASE Item.content \notin db.results /\ asset = Item.content
  <2>1. exec' = [exec EXCEPT !.pc = "download", !.bytes = exec.bytes]
    BY <1>1, <1>4, Zenon DEF IndInv, Types, ExecRows
  <2>2. exec.bytes \in Contents \cup {NoContent} /\ polls' = polls
    BY <1>1, Zenon DEF IndInv, Types, ExecRows, external
  <2>3. exec' \in ExecRows /\ Executing'
    BY <1>1, <1>2, <2>1, <2>2, Advanced, Zenon
  <2> QED
    BY <1>1, <2>3, ExecutorSameStep, Zenon
<1>5. CASE Item.content \notin db.results /\ asset # Item.content
  BY <1>1, <1>5, AnswerStep, Zenon DEF Outcomes
<1> QED
  BY <1>3, <1>4, <1>5, Zenon

LEMMA DownloadStep ==
    ASSUME IndInv, Download
    PROVE  Step
<1>1. /\ proc' = proc /\ ing' = ing /\ msgs' = msgs /\ UNCHANGED external /\ db' = db
      /\ exec.pc = "download"
      /\ IF asset = Item.content THEN exec' = [exec EXCEPT !.pc = "send", !.bytes = asset]
         ELSE Answer("retryable")
  BY Zenon DEF Download, DigestAgrees
<1>2. Routes[Item.route].executor = "upload" /\ asset \in Contents
  BY <1>1, Zenon DEF IndInv, Executing, Types
<1>3. CASE asset = Item.content
  <2>1. exec' = [exec EXCEPT !.pc = "send", !.bytes = asset] /\ polls' = polls
    BY <1>1, <1>3, Zenon DEF external
  <2>2. exec' \in ExecRows /\ Executing'
    BY <1>1, <1>2, <1>3, <2>1, Advanced, Zenon
  <2> QED
    BY <1>1, <2>2, ExecutorSameStep, Zenon
<1>4. CASE asset # Item.content
  BY <1>1, <1>4, AnswerStep, Zenon DEF Outcomes
<1> QED
  BY <1>3, <1>4, Zenon

LEMMA ReadFailsStep ==
    ASSUME IndInv, ReadFails
    PROVE  Step
<1>1. /\ proc' = proc /\ ing' = ing /\ msgs' = msgs /\ UNCHANGED external /\ db' = db
      /\ exec.pc # "idle" /\ Answer("retryable")
  BY Zenon DEF ReadFails
<1> QED
  BY <1>1, AnswerStep, Zenon DEF Outcomes

LEMMA UploadUnsentStep ==
    ASSUME IndInv, UploadUnsent
    PROVE  Step
<1>1. /\ proc' = proc /\ ing' = ing /\ msgs' = msgs /\ UNCHANGED external /\ db' = db
      /\ exec.pc # "idle" /\ Answer("retryable")
  BY Zenon DEF UploadUnsent
<1> QED
  BY <1>1, AnswerStep DEF Outcomes

LEMMA ExecuteFailsStep ==
    ASSUME IndInv, ExecuteFails
    PROVE  Step
<1>1. /\ proc' = proc /\ ing' = ing /\ msgs' = msgs /\ UNCHANGED external /\ db' = db
      /\ exec.pc # "idle"
  BY Zenon DEF ExecuteFails
<1>2. PICK outcome \in {"retryable", "permanent"} : Answer(outcome)
  BY Zenon DEF ExecuteFails
<1>3. outcome \in Outcomes /\ outcome # "completed" /\ outcome # "waiting"
  BY <1>2, Zenon DEF Outcomes
<1> QED
  BY <1>1, <1>2, <1>3, AnswerStep, Zenon

LEMMA PollStep ==
    ASSUME IndInv, NEW outcome \in Outcomes, Poll(outcome)
    PROVE  Step
<1>1. /\ proc' = proc /\ ing' = ing /\ msgs' = msgs /\ UNCHANGED external /\ db' = db
      /\ exec.pc = "poll" /\ Answer(outcome)
      /\ outcome = "waiting" => polls[exec.item] < MaxPolls
  BY Zenon DEF Poll
<1>2. Routes[Item.route].executor = "poll"
  BY <1>1, Zenon DEF IndInv, Executing
<1> QED
  BY <1>1, <1>2, AnswerStep, Zenon

LEMMA UploadStep ==
    ASSUME IndInv, NEW answered \in BOOLEAN, Upload(answered)
    PROVE  Step
<1> DEFINE c == Item.content
           new == [key |-> c, bytes |-> exec.bytes]
<1>1. /\ proc' = proc /\ ing' = ing /\ msgs' = msgs /\ db' = db /\ asset' = asset /\ runs' = runs
      /\ polls' = polls /\ overdue' = overdue /\ exec.pc = "send"
      /\ uploads' = IF \E u \in uploads : u.key = c THEN uploads ELSE uploads \cup {new}
      /\ IF answered THEN exec' = [exec EXCEPT !.pc = "record", !.bytes = NoContent]
         ELSE Answer("retryable")
  BY Zenon DEF Upload
<1>2. /\ Routes[Item.route].executor = "upload" /\ c \in Contents /\ exec.bytes = c
  BY <1>1, Zenon DEF IndInv, Executing
<1> HIDE DEF c
<1>3. /\ uploads' \subseteq [key : Contents, bytes : Contents]
      /\ \A u \in uploads' : u.bytes = u.key
      /\ uploads \subseteq uploads'
  BY <1>1, <1>2, SMTT(20) DEF IndInv, Types, Sent
<1>4. c \in {u.key : u \in uploads'}
  <2>1. CASE \E u \in uploads : u.key = c
    BY <1>3, <2>1, Zenon
  <2>2. CASE ~\E u \in uploads : u.key = c
    <3>1. new \in uploads' /\ new.key = c
      BY <1>1, <2>2, Zenon
    <3> QED
      BY <3>1, Zenon
  <2> QED
    BY <2>1, <2>2, Zenon
<1>5. LedgerInv(db') /\ Later(db, db') /\ Quiet(db, db')
  BY <1>1, Same, Zenon DEF IndInv
<1>6. Sent'
  <2>1. db.results \subseteq {u.key : u \in uploads'}
    BY <1>3, Zenon DEF IndInv, Sent
  <2> QED
    BY <1>1, <1>3, <2>1, Zenon DEF IndInv, Sent
<1>7. exec' \in ExecRows /\ Executing'
  <2>1. CASE answered
    <3>1. exec' = [exec EXCEPT !.pc = "record", !.bytes = NoContent] /\ exec.pc # "idle"
      BY <1>1, <2>1, Zenon
    <3> QED
      BY <1>1, <1>2, <1>4, <3>1, Advanced, Zenon DEF c
  <2>2. CASE ~answered
    <3>1. Answer("retryable") /\ "retryable" \in Outcomes /\ exec.pc # "idle"
      BY <1>1, <2>2, Zenon DEF Outcomes
    <3> QED
      BY <1>1, <1>5, <3>1, Answered, Zenon
  <2> QED
    BY <2>1, <2>2, Zenon
<1>8. runs' \subseteq Nat \X Nat
  BY <1>1, Zenon DEF IndInv, Types
<1> QED
  BY <1>1, <1>3, <1>5, <1>6, <1>7, <1>8, ExecutorStep, Zenon

LEMMA RecordResultStep ==
    ASSUME IndInv, RecordResult
    PROVE  Step
<1> DEFINE c == Item.content
<1>1. /\ proc' = proc /\ ing' = ing /\ msgs' = msgs /\ UNCHANGED external
      /\ db' = RecordContentResult(db, c)
      /\ exec.pc = "record" /\ Answer("completed")
  BY Zenon DEF RecordResult
<1>2. /\ polls' = polls /\ overdue' = overdue /\ asset' = asset
      /\ runs' = runs /\ uploads' = uploads
  BY <1>1, Zenon DEF external
<1>3. c \in {u.key : u \in uploads} /\ uploads \subseteq [key : Contents, bytes : Contents]
  BY <1>1, Zenon DEF IndInv, Executing, Types
<1> HIDE DEF c
<1>4. c \in Contents
  BY <1>3, Zenon
<1>5. /\ LedgerInv(db') /\ Later(db, db') /\ Quiet(db, db')
      /\ db'.results = db.results \cup {c} /\ db'.snapshots = db.snapshots
  BY <1>1, <1>4, ResultKeeps, Zenon DEF IndInv
<1>6. exec' \in ExecRows /\ Executing'
  <2>1. c \in db'.results /\ "completed" \in Outcomes /\ exec.pc # "idle"
    BY <1>1, <1>5, Zenon DEF Outcomes
  <2> QED
    BY <1>1, <1>2, <1>5, <2>1, Answered, Zenon DEF c
<1>7. Sent'
  <2>1. \A r \in runs : r[1] \in DOMAIN db'.items /\ r[2] \in 1 .. Len(db'.attempts[r[1]])
    BY <1>5, Zenon DEF IndInv, Sent, Later, Quiet
  <2> QED
    BY <1>2, <1>3, <1>5, <2>1, Zenon DEF IndInv, Sent
<1>8. runs' \subseteq Nat \X Nat /\ uploads' \subseteq [key : Contents, bytes : Contents]
  BY <1>2, Zenon DEF IndInv, Types
<1> QED
  BY <1>1, <1>2, <1>5, <1>6, <1>7, <1>8, ExecutorStep, Zenon

LEMMA LaunchStep ==
    ASSUME IndInv, NEW started \in BOOLEAN, NEW outcome \in {"completed", "retryable", "permanent"},
           Launch(started, outcome)
    PROVE  Step
<1>1. /\ proc' = proc /\ ing' = ing /\ msgs' = msgs /\ db' = db /\ asset' = asset
      /\ uploads' = uploads /\ polls' = polls /\ overdue' = overdue
      /\ runs' \subseteq runs \cup {<<exec.item, exec.n>>}
      /\ exec.pc = "launch" /\ Answer(outcome)
  BY Zenon DEF Launch
<1>2. /\ exec.item \in DOMAIN db.items /\ exec.n = Len(db.attempts[exec.item]) /\ exec.n > 0
      /\ Routes[Item.route].executor = "launch"
      /\ exec.item \in Nat /\ exec.n \in Nat
  BY <1>1, Zenon DEF IndInv, Executing, Types, ExecRows
<1>3. LedgerInv(db') /\ Later(db, db') /\ Quiet(db, db')
  BY <1>1, Same, Zenon DEF IndInv
<1>4. exec' \in ExecRows /\ Executing'
  BY <1>1, <1>2, <1>3, Answered, Zenon DEF Outcomes
<1>5. runs' \subseteq Nat \X Nat /\ uploads' \subseteq [key : Contents, bytes : Contents]
  BY <1>1, <1>2 DEF IndInv, Types
<1>6. Sent'
  <2>1. ASSUME NEW r \in runs'
        PROVE  r[1] \in DOMAIN db.items /\ r[2] \in 1 .. Len(db.attempts[r[1]])
    <3>1. CASE r \in runs
      BY <3>1, Zenon DEF IndInv, Sent
    <3>2. CASE r = <<exec.item, exec.n>>
      <4>1. r[1] = exec.item /\ r[2] = exec.n
        BY <3>2, Zenon
      <4>2. exec.n \in 1 .. exec.n
        BY <1>2
      <4> QED
        BY <1>2, <4>1, <4>2, Zenon
    <3> QED
      BY <1>1, <3>1, <3>2, Zenon
  <2> QED
    BY <1>1, <2>1, Zenon DEF IndInv, Sent
<1> QED
  BY <1>1, <1>3, <1>4, <1>5, <1>6, ExecutorStep, Zenon
\* The loop is done with an attempt, and the ledger recovers or is left.
LEMMA RecoveryStep ==
    ASSUME IndInv, proc' = proc, ing' = ing, msgs' = msgs, UNCHANGED external,
           db' = db \/ db' = Recovered(db), exec' \in ExecRows, exec'.pc = "idle"
    PROVE  Step
<1>1. /\ polls' = polls /\ overdue' = overdue /\ asset' = asset
      /\ runs' = runs /\ uploads' = uploads
  BY Zenon DEF external
<1>2. /\ LedgerInv(db') /\ Later(db, db') /\ Quiet(db, db')
      /\ db'.results = db.results /\ db'.snapshots = db.snapshots
  <2>1. CASE db' = db
    BY <2>1, Same, Zenon DEF IndInv
  <2>2. CASE db' = Recovered(db)
    BY <2>2, RecoveredKeeps, Zenon DEF IndInv
  <2> QED
    BY <2>1, <2>2, Zenon
<1>3. Executing'
  BY ExecutingIdle, Zenon
<1>4. Sent'
  BY <1>1, <1>2, SentKept, Zenon DEF IndInv, LedgerInv
<1>5. runs' \subseteq Nat \X Nat /\ uploads' \subseteq [key : Contents, bytes : Contents]
  BY <1>1, Zenon DEF IndInv, Types
<1> QED
  BY <1>1, <1>2, <1>3, <1>4, <1>5, ExecutorStep, Zenon

\* The loop between attempts.
LEMMA LoopIdle ==
    ASSUME NEW recover \in BOOLEAN
    PROVE  /\ ExecIdle \in ExecRows /\ ExecIdle.pc = "idle"
           /\ [ExecIdle EXCEPT !.recover = recover] \in ExecRows
           /\ [ExecIdle EXCEPT !.recover = recover].pc = "idle"
BY Zenon DEF ExecIdle, ExecRows, ExecSteps, NoItem

LEMMA ReconcileStep ==
    ASSUME IndInv, Reconcile
    PROVE  Step
<1>1. /\ proc' = proc /\ ing' = ing /\ msgs' = msgs /\ UNCHANGED external
      /\ db' = Recovered(db) /\ exec' = ExecIdle
  BY Zenon DEF Reconcile
<1> QED
  BY <1>1, LoopIdle, RecoveryStep, Zenon

LEMMA FinishFailsStep ==
    ASSUME IndInv, NEW reconciled \in BOOLEAN, FinishFails(reconciled)
    PROVE  Step
<1>1. /\ proc' = proc /\ ing' = ing /\ msgs' = msgs /\ UNCHANGED external
      /\ db' = db \/ db' = Recovered(db)
      /\ exec' = [ExecIdle EXCEPT !.recover = ~reconciled]
  BY Zenon DEF FinishFails
<1>2. (~reconciled) \in BOOLEAN
  BY Zenon
<1> QED
  BY <1>1, <1>2, LoopIdle, RecoveryStep, Zenon

\* Complete, or the reconciliation of an attempt it refuses.
LEMMA FinishStep ==
    ASSUME IndInv, Finish
    PROVE  Step
<1> DEFINE i == exec.item
           p == polls[i]
<1>1. /\ proc' = proc /\ ing' = ing /\ msgs' = msgs /\ asset' = asset /\ uploads' = uploads
      /\ runs' = runs /\ overdue' = overdue /\ exec' = ExecIdle /\ exec.pc = "finish"
      /\ IF CompleteRefused(db, i, exec.n)
         THEN db' = Recovered(db) /\ polls' = polls
         ELSE /\ db' = Completed(db, i, exec.n, exec.outcome, p + 1)
              /\ polls' = IF exec.outcome = "waiting" THEN [polls EXCEPT ![i] = p + 1] ELSE polls
  BY Zenon DEF Finish
<1>2. CASE CompleteRefused(db, i, exec.n)
  <2>1. db' = Recovered(db) /\ UNCHANGED external
    BY <1>1, <1>2, Zenon DEF external
  <2> QED
    BY <1>1, <2>1, LoopIdle, RecoveryStep, Zenon
<1>3. CASE ~CompleteRefused(db, i, exec.n)
  <2>1. /\ db' = Completed(db, i, exec.n, exec.outcome, p + 1)
        /\ polls' = IF exec.outcome = "waiting" THEN [polls EXCEPT ![i] = p + 1] ELSE polls
    BY <1>1, <1>3, Zenon
  <2>2. /\ i \in DOMAIN db.items /\ exec.n = Len(db.attempts[i]) /\ exec.n > 0
        /\ exec.outcome = "completed" /\ Routes[db.items[i].route].executor = "upload"
           => db.items[i].content \in db.results
        /\ exec.outcome = "waiting" => p < MaxPolls
    BY <1>1, Zenon DEF IndInv, Executing, Item
  <2>3. LedgerInv(db) /\ i \in Items
    BY <2>2, ItemsBound, Zenon DEF IndInv
  <2>4. p \in Nat /\ p + 1 \in Nat /\ polls \in [Items -> Nat] /\ overdue \in [Items -> Nat]
    BY <2>3 DEF IndInv, Types
  <2> HIDE DEF i, p
  <2>5. /\ LedgerInv(db') /\ Later(db, db') /\ DOMAIN db'.items = DOMAIN db.items
        /\ db'.results = db.results /\ db'.snapshots = db.snapshots
        /\ db'.items[i].state \notin {"active", "admitted"}
        /\ db'.items[i].deadline = Deadline(db.items[i].deadline, exec.outcome, p + 1)
        /\ \A j \in DOMAIN db.items :
              j # i => /\ db'.items[j].deadline = db.items[j].deadline
                       /\ db'.items[j].state = db.items[j].state
    <3> DEFINE n == exec.n
               outcome == exec.outcome
               wait == p + 1
    <3>1. Completable(db, i, n, outcome, wait)
      BY <1>3, <2>2, <2>3, <2>4, Zenon DEF Completable
    <3>2. db' = Completed(db, i, n, outcome, wait)
      BY <2>1, Zenon
    <3> HIDE DEF n, outcome, wait
    <3>3. Completion(db, db', i, outcome, wait)
      BY <3>1, <3>2, CompletedKeeps, Zenon
    <3> QED
      BY <3>3, Zenon DEF Completion, outcome, wait
  <2>6. /\ polls' \in [Items -> Nat] /\ polls'[i] = IF exec.outcome = "waiting" THEN p + 1 ELSE p
        /\ \A j \in Items : j # i => polls'[j] = polls[j]
    BY <2>1, <2>3, <2>4, Zenon DEF p
  <2>7. Types'
    BY <1>1, <2>6, LoopIdle, Zenon DEF IndInv, Types
  <2>8. Executing'
    BY <1>1, LoopIdle, ExecutingIdle, Zenon
  <2>9. Consuming' /\ AckedIsRecorded' /\ Bound'
    BY <1>1, <2>5, ConsumingKept, AckedKept, BoundKept, Zenon DEF IndInv
  <2>10. Sent'
    BY <1>1, <2>5, SentKept, Zenon DEF IndInv, LedgerInv
  <2>11. Waits'
    <3>1. Waits /\ MaxPolls \in Nat
      BY RouterConstants, Zenon DEF IndInv
    <3>2. ASSUME NEW j \in Items
          PROVE  overdue'[j] <= polls'[j] /\ polls'[j] <= MaxPolls
      <4>1. overdue[j] <= polls[j] /\ polls[j] <= MaxPolls /\ overdue[j] \in Nat /\ polls[j] \in Nat
        BY <2>4, <3>1, Zenon DEF Waits
      <4>2. CASE j # i
        BY <1>1, <2>6, <4>1, <4>2, Zenon
      <4>3. CASE j = i
        <5>1. polls[j] = p /\ overdue'[j] = overdue[j]
          BY <1>1, <4>3, Zenon DEF p
        <5>2. CASE exec.outcome = "waiting"
          BY <2>2, <2>4, <2>6, <3>1, <4>1, <4>3, <5>1, <5>2, SMTT(20)
        <5>3. CASE exec.outcome # "waiting"
          BY <2>6, <4>1, <4>3, <5>1, <5>3, Zenon
        <5> QED
          BY <5>2, <5>3, Zenon
      <4> QED
        BY <4>2, <4>3, Zenon
    <3>3. ASSUME NEW j \in Items, j \notin DOMAIN db'.items
          PROVE  polls'[j] = 0
      <4>1. j # i /\ j \notin DOMAIN db.items
        BY <2>2, <2>5, <3>3, Zenon
      <4> QED
        BY <2>6, <3>1, <4>1, SMTT(20) DEF Waits
    <3>4. ASSUME NEW j \in DOMAIN db'.items \cap Items
          PROVE  /\ db'.items[j].deadline = IF polls'[j] = 0 THEN 0 ELSE 1
                 /\ db'.items[j].state = "admitted" => polls'[j] = 0
      <4>1. j \in DOMAIN db.items /\ j \in Items
        BY <2>5, Zenon
      <4>2. /\ db.items[j].deadline = IF polls[j] = 0 THEN 0 ELSE 1
            /\ db.items[j].state = "admitted" => polls[j] = 0
        BY <3>1, <4>1, Zenon DEF Waits
      <4>3. CASE j # i
        BY <2>5, <2>6, <4>1, <4>2, <4>3, Zenon
      <4>4. CASE j = i
        <5>1. /\ db'.items[i].deadline = Deadline(db.items[i].deadline, exec.outcome, p + 1)
              /\ db.items[i].deadline = IF p = 0 THEN 0 ELSE 1
              /\ db'.items[i].state # "admitted"
          BY <2>5, <4>2, <4>4, Zenon DEF p
        <5>2. CASE exec.outcome = "waiting"
          BY <2>4, <2>6, <4>4, <5>1, <5>2, SMTT(20) DEF Deadline
        <5>3. CASE exec.outcome # "waiting"
          BY <2>4, <2>6, <4>4, <5>1, <5>3, Zenon DEF Deadline
        <5> QED
          BY <5>2, <5>3, Zenon
      <4> QED
        BY <4>3, <4>4, Zenon
    <3> QED
      BY <3>2, <3>3, <3>4, Zenon DEF Waits
  <2>12. Starts
    BY <2>5, Zenon DEF Starts
  <2> QED
    BY <2>5, <2>7, <2>8, <2>9, <2>10, <2>11, <2>12, Zenon DEF Step, IndInv
<1> QED
  BY <1>2, <1>3, Zenon

\* A wait that is over, and one whose deadline passes.
LEMMA ElapseStep ==
    ASSUME IndInv, NEW i \in Items, Elapse(i)
    PROVE  Step
<1>1. /\ proc' = proc /\ exec' = exec /\ ing' = ing /\ msgs' = msgs /\ UNCHANGED external
      /\ i \in DOMAIN db.items /\ db.items[i].state = "waiting" /\ db' = FallsDue(db, i)
  BY Zenon DEF Elapse
<1>2. /\ LedgerInv(db') /\ Later(db, db') /\ Quiet(db, db')
      /\ db'.results = db.results /\ db'.snapshots = db.snapshots
  BY <1>1, FallsDueKeeps, Zenon DEF IndInv
<1>3. Consuming' /\ AckedIsRecorded'
  BY <1>1, <1>2, ConsumingKept, AckedKept, Zenon DEF IndInv
<1>4. /\ ing' \in [pc : IngSteps, msg : DOMAIN Messages \cup {NoMessage},
                   content : Contents \cup {NoContent}]
      /\ msgs' \in [DOMAIN Messages -> [state : MsgStates, count : 0 .. MaxDeliver]]
  BY <1>1, Zenon DEF IndInv, Types
<1> QED
  BY <1>1, <1>2, <1>3, <1>4, ConsumerStep, Zenon

LEMMA DeadlinePassesStep ==
    ASSUME IndInv, NEW i \in Items, DeadlinePasses(i)
    PROVE  Step
<1>1. /\ proc' = proc /\ exec' = exec /\ ing' = ing /\ msgs' = msgs /\ db' = db /\ asset' = asset
      /\ uploads' = uploads /\ runs' = runs /\ polls' = polls
      /\ overdue' = [overdue EXCEPT ![i] = overdue[i] + 1] /\ overdue[i] < polls[i]
  BY Zenon DEF DeadlinePasses
<1>2. LedgerInv(db') /\ Later(db, db') /\ Quiet(db, db')
  BY <1>1, Same, Zenon DEF IndInv
<1>3. polls \in [Items -> Nat] /\ overdue \in [Items -> Nat]
  BY Zenon DEF IndInv, Types
<1>4. /\ overdue' \in [Items -> Nat] /\ overdue'[i] = overdue[i] + 1
      /\ \A j \in Items : j # i => overdue'[j] = overdue[j]
  BY <1>1, <1>3
<1>5. Types'
  BY <1>1, <1>4, Zenon DEF IndInv, Types
<1>6. Executing' /\ Consuming' /\ Bound' /\ Sent' /\ AckedIsRecorded'
  <2>1. Executing'
    BY <1>1, Zenon DEF IndInv, Executing, Item
  <2>2. Sent'
    BY <1>1, Zenon DEF IndInv, Sent
  <2> QED
    BY <1>1, <1>2, <2>1, <2>2, ConsumingKept, AckedKept, BoundKept, Zenon DEF IndInv
<1>7. Waits'
  <2>1. ASSUME NEW j \in Items
        PROVE  overdue'[j] <= polls'[j] /\ polls'[j] <= MaxPolls
    <3>1. overdue[j] <= polls[j] /\ polls[j] <= MaxPolls
      BY Zenon DEF IndInv, Waits
    <3>2. CASE j = i
      BY <1>1, <1>3, <1>4, <3>1, <3>2, SMTT(20)
    <3>3. CASE j # i
      BY <1>1, <1>4, <3>1, <3>3, Zenon
    <3> QED
      BY <3>2, <3>3, Zenon
  <2> QED
    BY <1>1, <2>1, Zenon DEF IndInv, Waits
<1>8. Starts
  BY <1>2, Zenon DEF Starts, Quiet
<1> QED
  BY <1>2, <1>5, <1>6, <1>7, <1>8, Zenon DEF Step, IndInv

LEMMA EditReleaseStep ==
    ASSUME IndInv, NEW c \in Contents, EditRelease(c)
    PROVE  Step
<1>1. /\ proc' = proc /\ exec' = exec /\ ing' = ing /\ msgs' = msgs /\ db' = db /\ asset' = c
      /\ uploads' = uploads /\ runs' = runs /\ polls' = polls /\ overdue' = overdue
  BY Zenon DEF EditRelease
<1>2. Later(db, db') /\ Quiet(db, db')
  BY <1>1, Same, Zenon DEF IndInv
<1>3. Types'
  BY <1>1, Zenon DEF IndInv, Types
<1>4. Executing'
  BY <1>1, Zenon DEF IndInv, Executing, Item
<1>5. Consuming' /\ Bound' /\ AckedIsRecorded'
  BY <1>1, <1>2, ConsumingKept, AckedKept, BoundKept, Zenon DEF IndInv
<1> QED
  BY <1>1, <1>3, <1>4, <1>5, SameStep, Zenon

LEMMA CrashStep ==
    ASSUME IndInv, Crash
    PROVE  Step
<1>1. /\ proc' = [proc EXCEPT !.pc = "down"] /\ exec' = ExecIdle /\ ing' = IngIdle
      /\ db' = db /\ msgs' = msgs /\ UNCHANGED external
  BY Zenon DEF Crash
<1>2. /\ polls' = polls /\ overdue' = overdue /\ asset' = asset
      /\ runs' = runs /\ uploads' = uploads
  BY <1>1, Zenon DEF external
<1>3. Types' /\ proc'.pc = "down"
  BY <1>1, <1>2, LoopIdle, IdleTypes, Zenon DEF IndInv, Types
<1>4. Executing' /\ Bound'
  BY <1>1, <1>3, LoopIdle, ExecutingIdle, BoundDown, Zenon
<1>5. Consuming'
  BY <1>1, Zenon DEF IndInv, Consuming, IngIdle
<1>6. AckedIsRecorded'
  BY <1>1, Zenon DEF IndInv, AckedIsRecorded
<1> QED
  BY <1>1, <1>2, <1>3, <1>4, <1>5, <1>6, SameStep, Zenon
\* Claim fails what is overdue and takes the first item whose key is free.
LEMMA ClaimStep ==
    ASSUME IndInv, Claim
    PROVE  Step
<1> DEFINE now == FailExpired(db, overdue)
<1>1. /\ proc' = proc /\ ing' = ing /\ msgs' = msgs /\ UNCHANGED external
      /\ proc.pc = "up" /\ exec.pc = "idle"
      /\ \/ db' = now /\ exec' = exec
         \/ \E i \in FirstClaimable(now) :
               /\ db' = Claimed(now, i)
               /\ exec' = [exec EXCEPT
                     !.pc = IF Registered(i)
                            THEN Routes[db.items[i].route].executor ELSE "finish",
                     !.outcome = IF Registered(i) THEN "none" ELSE "permanent",
                     !.item = i, !.n = AttemptFor(now, i)]
  BY Zenon DEF Claim
<1>2. /\ polls' = polls /\ overdue' = overdue /\ asset' = asset
      /\ runs' = runs /\ uploads' = uploads
  BY <1>1, Zenon DEF external
<1>3. /\ LedgerInv(now) /\ Later(db, now) /\ Quiet(db, now)
      /\ \A i \in DOMAIN now.due : i \in DOMAIN db.items /\ i \notin Expired(db, overdue)
      /\ \A i \in DOMAIN db.items :
            i \notin Expired(db, overdue) => now.items[i].state = db.items[i].state
      /\ now.attempts = db.attempts
      /\ now.results = db.results /\ now.snapshots = db.snapshots
      /\ DOMAIN now.items = DOMAIN db.items
  <2>1. LedgerInv(db)
    BY Zenon DEF IndInv
  <2>2. DOMAIN now.items = DOMAIN db.items
    BY <2>1, Zenon DEF FailExpired, SetState, LedgerInv, IsLedger
  <2> QED
    BY <2>1, <2>2, FailExpiredKeeps, Zenon
<1> HIDE DEF now
<1>4. CASE db' = now /\ exec' = exec
  <2>1. exec' \in ExecRows /\ Executing'
    BY <1>1, <1>4, ExecutingIdle, Zenon DEF IndInv, Types
  <2>2. Sent'
    BY <1>2, <1>3, <1>4, SentKept, Zenon DEF IndInv, LedgerInv
  <2>3. runs' \subseteq Nat \X Nat /\ uploads' \subseteq [key : Contents, bytes : Contents]
    BY <1>2 DEF IndInv, Types
  <2> QED
    BY <1>1, <1>2, <1>3, <1>4, <2>1, <2>2, <2>3, ExecutorStep, Zenon
<1>5. ASSUME NEW i \in FirstClaimable(now),
             db' = Claimed(now, i),
             exec' = [exec EXCEPT
                     !.pc = IF Registered(i)
                            THEN Routes[db.items[i].route].executor ELSE "finish",
                     !.outcome = IF Registered(i) THEN "none" ELSE "permanent",
                     !.item = i, !.n = AttemptFor(now, i)]
      PROVE  Step
  <2> DEFINE n == AttemptFor(now, i)
             pc == IF Registered(i) THEN Routes[db.items[i].route].executor ELSE "finish"
             outcome == IF Registered(i) THEN "none" ELSE "permanent"
  <2>1. i \in DOMAIN now.due /\ ~Leased(now, i)
    BY Zenon DEF FirstClaimable, Claimable
  <2>2. /\ LedgerInv(db') /\ Later(now, db') /\ DOMAIN db'.items = DOMAIN now.items
        /\ db'.results = now.results /\ db'.snapshots = now.snapshots
        /\ i \in DOMAIN now.items /\ n \in Nat /\ n > 0 /\ Len(db'.attempts[i]) = n
        /\ \A j \in DOMAIN now.items : /\ db'.items[j].deadline = now.items[j].deadline
                                       /\ j # i => db'.items[j].state = now.items[j].state
        /\ db'.items[i].state = "active"
    BY <1>3, <1>5, <2>1, ClaimedKeeps
  <2>3. exec' = [exec EXCEPT !.pc = pc, !.outcome = outcome, !.item = i, !.n = n]
    BY <1>5, Zenon
  <2> HIDE DEF n
  <2>4. i \in DOMAIN db.items /\ i \in Nat /\ db.items[i].route \in RouteIds
    <3>1. i \in DOMAIN db.items /\ Typed(db)
      BY <1>3, <2>2, Zenon DEF IndInv, LedgerInv
    <3> QED
      BY <3>1, Indices, RowTypes, SMTT(20) DEF ItemRows
  <2>5. Later(db, db') /\ DOMAIN db'.items = DOMAIN db.items
    <3>1. ASSUME NEW j \in DOMAIN db.items
          PROVE  /\ j \in DOMAIN db'.items
                 /\ db'.items[j].route = db.items[j].route
                 /\ db'.items[j].event = db.items[j].event
                 /\ db'.items[j].content = db.items[j].content
                 /\ Len(db'.attempts[j]) >= Len(db.attempts[j])
                 /\ db.items[j].state \in TerminalStates => db'.items[j].state = db.items[j].state
      <4>1. /\ now.items[j].route = db.items[j].route
            /\ now.items[j].event = db.items[j].event
            /\ now.items[j].content = db.items[j].content
            /\ db.items[j].state \in TerminalStates => now.items[j].state = db.items[j].state
        BY <1>3, Zenon DEF Later
      <4>2. /\ j \in DOMAIN db'.items
            /\ db'.items[j].route = now.items[j].route
            /\ db'.items[j].event = now.items[j].event
            /\ db'.items[j].content = now.items[j].content
            /\ Len(db'.attempts[j]) >= Len(now.attempts[j])
            /\ now.items[j].state \in TerminalStates => db'.items[j].state = now.items[j].state
        BY <1>3, <2>2, Zenon DEF Later
      <4> QED
        BY <1>3, <4>1, <4>2, Zenon
    <3>2. /\ db.events \subseteq db'.events /\ db.results \subseteq db'.results
          /\ db.failures \subseteq db'.failures
      BY <1>3, <2>2, Zenon DEF Later
    <3> QED
      BY <1>3, <2>2, <3>1, <3>2, Zenon DEF Later
  <2>6. /\ pc \in {"upload", "launch", "poll", "finish"} /\ outcome \in {"none", "permanent"}
        /\ pc # "finish" => Routes[db.items[i].route].executor = pc
    BY <2>4, RoutesValid, Zenon
  <2> HIDE DEF pc, outcome
  <2>7. /\ exec' \in ExecRows /\ exec'.pc = pc /\ exec'.outcome = outcome
        /\ exec'.item = i /\ exec'.n = n
    BY <2>2, <2>3, <2>4, <2>6, Zenon DEF IndInv, Types, ExecRows, ExecSteps, Outcomes
  <2>8. Executing'
    <3>1. /\ i \in DOMAIN db'.items /\ n = Len(db'.attempts[i]) /\ n > 0 /\ proc'.pc = "up"
          /\ db'.items[i].route = db.items[i].route
      BY <1>1, <2>2, <2>4, <2>5, Zenon DEF Later
    <3> QED
      BY <2>6, <2>7, <3>1, Zenon DEF Executing, Item
  <2>9. Types'
    BY <1>1, <1>2, <2>7, Zenon DEF IndInv, Types
  <2>10. Consuming' /\ AckedIsRecorded' /\ Bound'
    BY <1>1, <1>3, <2>2, <2>5, ConsumingKept, AckedKept, BoundKept, Zenon DEF IndInv
  <2>11. Sent'
    BY <1>2, <1>3, <2>2, <2>5, SentKept, Zenon DEF IndInv, LedgerInv
  <2>12. Waits'
    <3>1. ASSUME NEW j \in DOMAIN db'.items \cap Items
          PROVE  /\ db'.items[j].deadline = IF polls[j] = 0 THEN 0 ELSE 1
                 /\ db'.items[j].state = "admitted" => polls[j] = 0
      <4>1. /\ db'.items[j].deadline = db.items[j].deadline
            /\ db'.items[j].state = "admitted" => db.items[j].state = "admitted"
        BY <1>3, <2>2, Zenon DEF Quiet
      <4> QED
        BY <2>5, <4>1, Zenon DEF IndInv, Waits
    <3> QED
      BY <1>2, <2>5, <3>1, Zenon DEF IndInv, Waits
  <2>13. overdue[i] = 0
    <3>1. db.items[i].state \in {"admitted", "waiting"} /\ i \notin Expired(db, overdue)
      BY <1>3, <2>1, Zenon DEF LedgerInv, DueIsWaiting
    <3>2. i \in Items /\ overdue[i] \in Nat /\ polls[i] \in Nat
      BY <2>4, ItemsBound, Zenon DEF IndInv, Types
    <3>3. /\ overdue[i] <= polls[i] /\ db.items[i].deadline = IF polls[i] = 0 THEN 0 ELSE 1
          /\ db.items[i].state = "admitted" => polls[i] = 0
      BY <2>4, <3>2, Zenon DEF IndInv, Waits
    <3>4. CASE polls[i] = 0
      BY <3>2, <3>3, <3>4, SMTT(20)
    <3>5. CASE polls[i] # 0
      <4>1. db.items[i].state = "waiting" /\ db.items[i].deadline = 1
        BY <3>1, <3>3, <3>5, Zenon
      <4>2. 1 \notin 1 .. overdue[i]
        BY <2>4, <3>1, <4>1, Zenon DEF Expired
      <4> QED
        BY <3>2, <4>2
    <3> QED
      BY <3>4, <3>5, Zenon
  <2>14. Starts
    <3>1. ASSUME NEW j \in DOMAIN db.items, db'.items[j].state = "active"
          PROVE  db.items[j].state = "active" \/ overdue[j] = 0
      <4>1. CASE j = i
        BY <2>13, <4>1, Zenon
      <4>2. CASE j # i
        BY <1>3, <2>2, <3>1, <4>2, SMTT(20) DEF Quiet
      <4> QED
        BY <4>1, <4>2, Zenon
    <3> QED
      BY <3>1, Zenon DEF Starts
  <2> QED
    BY <2>2, <2>5, <2>8, <2>9, <2>10, <2>11, <2>12, <2>14, Zenon DEF Step, IndInv
<1> QED
  BY <1>1, <1>4, <1>5, Zenon

-----------------------------------------------------------------------------
(* The invariant, and what follows from it. *)

\* The empty ledger, before the first start.
LEMMA InitHolds == Init => IndInv
<1> SUFFICES ASSUME Init PROVE IndInv
  BY Zenon
<1>1. /\ db.snapshots = <<>> /\ db.items = <<>> /\ db.attempts = <<>> /\ db.leases = {}
      /\ DOMAIN db.due = {} /\ db.events = {} /\ db.results = {} /\ IsLedger(db)
  BY Zenon DEF Init, Empty, IsLedger
<1>2. LedgerInv(db)
  <2>1. Typed(db)
    BY <1>1 DEF Typed
  <2>2. OneActive(db) /\ Attempted(db)
    BY <1>1 DEF OneActive, Attempted
  <2>3. LeaseInv(db) /\ DueIsWaiting(db)
    BY <1>1 DEF LeaseInv, DueIsWaiting
  <2>4. EventsKept(db) /\ ResultsKept(db)
    BY <1>1 DEF EventsKept, ResultsKept
  <2> QED
    BY <1>1, <2>1, <2>2, <2>3, <2>4, Zenon DEF LedgerInv
<1>3. Types
  <2>1. (CHOOSE v \in Versions : TRUE) \in Versions /\ (CHOOSE c \in Contents : TRUE) \in Contents
    BY RouterConstants, Zenon
  <2>2. exec \in ExecRows /\ ing \in [pc : IngSteps, msg : DOMAIN Messages \cup {NoMessage},
                                      content : Contents \cup {NoContent}]
    BY LoopIdle, IdleTypes, Zenon DEF Init
  <2>3. msgs \in [DOMAIN Messages -> [state : MsgStates, count : 0 .. MaxDeliver]]
    BY RouterConstants, SMTT(20) DEF Init, MsgStates
  <2>4. proc \in [pc : {"down", "activating", "building", "recovering", "up"},
                  version : Versions, allow : BOOLEAN, bound : [DeploymentRoutes -> Nat]]
    BY <2>1, Zenon DEF Init
  <2> QED
    BY <2>1, <2>2, <2>3, <2>4, Zenon DEF Init, Types
<1>4. Executing
  BY LoopIdle, Zenon DEF Init, Executing
<1>5. Consuming /\ AckedIsRecorded
  <2>1. ing.pc = "idle"
    BY Zenon DEF Init, IngIdle
  <2>2. \A m \in DOMAIN Messages : msgs[m].state = "unpublished" /\ msgs[m].count < MaxDeliver
    BY RouterConstants DEF Init
  <2> QED
    BY <2>1, <2>2, Zenon DEF Consuming, AckedIsRecorded
<1>6. Bound
  BY Zenon DEF Init, Bound, Serving
<1>7. Waits /\ Sent
  BY <1>1, RouterConstants DEF Init, Waits, Sent
<1> QED
  BY <1>2, <1>3, <1>4, <1>5, <1>6, <1>7, Zenon DEF IndInv

\* Every step, and every stutter.
LEMMA NextSteps == IndInv /\ [Next]_vars => Step
<1> SUFFICES ASSUME IndInv, [Next]_vars PROVE Step
  BY Zenon
<1>1. CASE Startup
  BY <1>1, StartStep, ActivateStep, ActivationRefusedStep, ServeSocketStep, ActivateReleaseStep,
     RecoverStep, Zenon DEF Startup
<1>2. CASE Consumer
  BY <1>2, FetchStep, DiscardStep, CheckRecordedStep, HydrateStep, HydrateFailsStep,
     DeadLetterStep, TermStep, AdmitReleaseStep, AckSyncStep, Zenon DEF Consumer
<1>3. CASE Executors
  <2>1. CASE \E outcome \in {"completed", "retryable", "permanent", "waiting"} : Poll(outcome)
    BY <2>1, PollStep, Zenon DEF Outcomes
  <2>2. CASE \E started \in BOOLEAN, outcome \in {"completed", "retryable", "permanent"} :
                Launch(started, outcome)
    BY <2>2, LaunchStep, Zenon
  <2> QED
    BY <1>3, <2>1, <2>2, ClaimStep, VerifyReleaseStep, DownloadStep, ReadFailsStep, UploadStep,
       UploadUnsentStep, RecordResultStep, FinishStep, ReconcileStep, Zenon DEF Executors
<1>4. CASE \E m \in DOMAIN Messages : AckWait(m)
  BY <1>4, AckWaitStep, Zenon
<1>5. CASE \E i \in Items : Elapse(i) \/ DeadlinePasses(i)
  BY <1>5, ElapseStep, DeadlinePassesStep, Zenon
<1>6. CASE Environment
  BY <1>6, CrashStep, DeployStep, HandleFactStep, PublishStep, ProcessFailsStep,
     ExecuteFailsStep, FinishFailsStep, EditReleaseStep, Zenon DEF Environment
<1>7. CASE UNCHANGED vars
  <2>1. /\ db' = db /\ proc' = proc /\ exec' = exec /\ ing' = ing /\ msgs' = msgs
        /\ UNCHANGED external
    BY <1>7, Zenon DEF vars, external
  <2>2. exec' \in ExecRows /\ Executing'
    <3>1. Later(db, db') /\ Quiet(db, db') /\ polls' = polls /\ uploads' = uploads
      BY <2>1, Same, Zenon DEF IndInv, external
    <3>2. exec.pc # "idle" => proc'.pc = "up"
      BY <2>1, Zenon DEF IndInv, Executing
    <3> QED
      BY <2>1, <3>1, <3>2, ExecutingKept, Zenon DEF IndInv, LedgerInv, Types
  <2> QED
    BY <2>1, <2>2, ExecutorSameStep, Zenon
<1> QED
  BY <1>1, <1>2, <1>3, <1>4, <1>5, <1>6, <1>7, Zenon DEF Next

\* The ledger's tables agree with each other and with what the processes of
\* WorkRouter hold, in every reachable state.
THEOREM Invariant == Spec => []IndInv
<1>1. IndInv /\ [Next]_vars => IndInv'
  BY NextSteps, Zenon DEF Step
<1> QED
  BY <1>1, InitHolds, PTL DEF Spec

\* TypeOK, with the number of items bounded by the deliveries that can make one.
THEOREM TypeCorrect == Spec => []TypeOK
<1>1. IndInv => TypeOK
  <2> SUFFICES ASSUME IndInv PROVE TypeOK
    BY Zenon
  <2>1. /\ Typed(db) /\ DOMAIN db.attempts = DOMAIN db.items /\ DOMAIN db.items \subseteq Items
    BY ItemsBound, Indices, Zenon DEF IndInv, LedgerInv
  <2>2. db.snapshots \in Seq([route : RouteIds, version : Versions, retired : BOOLEAN])
    BY <2>1, Zenon DEF Typed, SnapshotRows
  <2>3. ASSUME NEW i \in DOMAIN db.items
        PROVE  /\ i \in Items
               /\ db.items[i].state \in LiveStates \cup TerminalStates
               /\ db.items[i].content \in Contents \cup {NoContent}
               /\ db.items[i].deadline \in 0 .. MaxPolls
               /\ db.attempts[i] \in Seq(AttemptStates)
    <3>1. db.items[i] \in ItemRows /\ db.attempts[i] \in Seq(AttemptStates) /\ i \in Items
      BY <2>1, RowTypes, Zenon
    <3>2. polls[i] \in Nat /\ polls[i] <= MaxPolls /\ MaxPolls \in Nat
          /\ db.items[i].deadline = IF polls[i] = 0 THEN 0 ELSE 1
      BY <3>1, RouterConstants, Zenon DEF IndInv, Types, Waits
    <3>3. db.items[i].deadline \in 0 .. MaxPolls
      BY <3>2
    <3> QED
      BY <3>1, <3>3, Zenon DEF ItemRows, States
  <2>4. DOMAIN db.due \subseteq DOMAIN db.items
    BY Zenon DEF IndInv, LedgerInv, DueIsWaiting
  <2>5. runs \subseteq Items \X Nat
    <3>1. ASSUME NEW r \in runs
          PROVE  r \in Items \X Nat
      <4>1. r \in Nat \X Nat /\ r[1] \in Items
        BY <2>1, Zenon DEF IndInv, Types, Sent
      <4> QED
        BY <4>1, Zenon
    <3> QED
      BY <3>1, Zenon
  <2>6. /\ proc.pc \in {"down", "activating", "building", "recovering", "up"}
        /\ exec.pc \in ExecSteps /\ ing.pc \in IngSteps
        /\ \A m \in DOMAIN Messages : msgs[m].count \in 0 .. MaxDeliver
        /\ uploads \subseteq [key : Contents, bytes : Contents]
    BY Zenon DEF IndInv, Types, ExecRows
  <2>7. \A i \in Items : overdue[i] <= polls[i]
    BY Zenon DEF IndInv, Waits
  <2> QED
    BY <2>1, <2>2, <2>3, <2>4, <2>5, <2>6, <2>7, Zenon DEF TypeOK, ExecSteps, IngSteps
<1> QED
  BY <1>1, Invariant, PTL

\* Leases, attempts and items in step: an active item has one running attempt
\* and its key's only lease; no other item has either.
THEOREM LeasesHeldHolds == Spec => []LeasesHeld
<1>1. IndInv => LeasesHeld
  <2> SUFFICES ASSUME IndInv PROVE LeasesHeld
    OBVIOUS
  <2>1. LeaseInv(db) /\ Attempted(db) /\ Typed(db)
    BY Zenon DEF IndInv, LedgerInv
  <2>2. ASSUME NEW i \in DOMAIN db.items
        PROVE  LET running == {n \in DOMAIN db.attempts[i] : db.attempts[i][n] = "running"}
                   held == {l \in db.leases : l.item = i}
               IN  IF db.items[i].state = "active"
                   THEN \E n \in running :
                           /\ running = {n}
                           /\ held = {[key |-> db.items[i].key, item |-> i, n |-> n]}
                   ELSE running = {} /\ held = {}
    <3> DEFINE a == db.attempts[i]
               k == Len(a)
               running == {n \in DOMAIN a : a[n] = "running"}
               held == {l \in db.leases : l.item = i}
    <3>1. k \in Nat /\ DOMAIN a = 1 .. k /\ AttemptsFit(a, db.items[i].state)
      BY <2>1, RowTypes, Zenon DEF Attempted
    <3>2. /\ \A n \in 1 .. k - 1 : a[n] # "running"
          /\ db.items[i].state = "active" => k > 0 /\ a[k] = "running"
          /\ db.items[i].state # "active" /\ k > 0 => a[k] # "running"
      BY <3>1, Zenon DEF AttemptsFit
    <3>3. /\ \A m \in 1 .. k : m \in 1 .. k - 1 \/ m = k
          /\ k > 0 => k \in 1 .. k
      BY <3>1, UpTo, Zenon
    <3>4. \A m \in 1 .. k : k > 0
      BY <3>1
    <3>5. CASE db.items[i].state = "active"
      <4>1. running = {k}
        <5> HIDE DEF k
        <5> QED
          BY <3>1, <3>2, <3>3, <3>5, Zenon
      <4>2. held = {LeaseOf(db, i)}
        <5>1. LeaseOf(db, i) \in db.leases /\ LeaseOf(db, i).item = i
          BY <2>1, <3>5, Zenon DEF LeaseInv, LeaseOf
        <5>2. \A l \in db.leases : l.item = i => l = LeaseOf(db, i)
          BY <2>1, Zenon DEF LeaseInv
        <5> QED
          BY <5>1, <5>2, Zenon
      <4>3. LeaseOf(db, i) = [key |-> db.items[i].key, item |-> i, n |-> k]
        BY Zenon DEF LeaseOf
      <4> QED
        BY <3>5, <4>1, <4>2, <4>3, Zenon
    <3>6. CASE db.items[i].state # "active"
      <4>1. running = {}
        <5> HIDE DEF k
        <5> QED
          BY <3>1, <3>2, <3>3, <3>4, <3>6, Zenon
      <4>2. held = {}
        BY <2>1, <3>6, Zenon DEF LeaseInv
      <4> QED
        BY <3>6, <4>1, <4>2, Zenon
    <3> QED
      BY <3>5, <3>6, Zenon
  <2> QED
    BY <2>1, <2>2, Zenon DEF LeasesHeld, LeaseInv
<1> QED
  BY <1>1, Invariant, PTL

\* The broker sees another idempotency key for an item only once the attempt
\* before it was recorded as failed and retryable, or superseded.
THEOREM NewKeyHolds == Spec => []NewKeyAfterFailure
<1>1. IndInv => NewKeyAfterFailure
  <2> SUFFICES ASSUME IndInv, NEW r \in runs, r[2] > 1
               PROVE  db.attempts[r[1]][r[2] - 1] \in {"retry_scheduled", "superseded"}
    BY Zenon DEF NewKeyAfterFailure
  <2>1. r[1] \in DOMAIN db.items /\ r[2] \in 1 .. Len(db.attempts[r[1]])
    BY Zenon DEF IndInv, Sent
  <2>2. Len(db.attempts[r[1]]) \in Nat /\ AttemptsFit(db.attempts[r[1]], db.items[r[1]].state)
    BY <2>1, RowTypes, Zenon DEF IndInv, LedgerInv, Attempted
  <2>3. r[2] - 1 \in 1 .. Len(db.attempts[r[1]]) - 1
    BY <2>1, <2>2, SMTT(20)
  <2> QED
    BY <2>2, <2>3, Zenon DEF AttemptsFit
<1> QED
  BY <1>1, Invariant, PTL

\* YouKnowMe holds under a content key that content, and an upload item is
\* completed only with its content's result recorded.
THEOREM UploadsFaithfulHolds == Spec => []UploadsFaithful
<1>1. IndInv => UploadsFaithful
  BY Zenon DEF IndInv, LedgerInv, ResultsKept, Sent, UploadsFaithful
<1> QED
  BY <1>1, Invariant, PTL

\* An acknowledged release delivery is recorded; a terminated one left a failure.
THEOREM AckedIsRecordedHolds == Spec => []AckedIsRecorded
<1>1. IndInv => AckedIsRecorded
  BY Zenon DEF IndInv
<1> QED
  BY <1>1, Invariant, PTL

\* While the socket serves, the bound snapshot is its route's only active one.
THEOREM BoundIsActiveHolds == Spec => []BoundIsActive
<1>1. IndInv => BoundIsActive
  BY Zenon DEF IndInv, Bound, BoundIsActive, Serving
<1> QED
  BY <1>1, Invariant, PTL

\* No transaction of the ledger changes the state of a finished item.
THEOREM TerminalIsFinalHolds == Spec => TerminalIsFinal
<1>1. IndInv /\ [Next]_vars =>
         [\A i \in DOMAIN db.items :
             db.items[i].state \in TerminalStates => db'.items[i].state = db.items[i].state]_vars
  BY NextSteps, Zenon DEF Step, Later
<1> QED
  BY <1>1, Invariant, PTL DEF Spec, TerminalIsFinal

\* Claim starts no attempt of an item once the deadline of its first wait passed.
THEOREM NoAttemptAfterDeadlineHolds == Spec => NoAttemptAfterDeadline
<1>1. IndInv /\ [Next]_vars =>
         [\A i \in DOMAIN db.items :
             db.items[i].state # "active" /\ db'.items[i].state = "active"
             => overdue[i] = 0]_vars
  BY NextSteps, Zenon DEF Step, Starts
<1> QED
  BY <1>1, Invariant, PTL DEF Spec, NoAttemptAfterDeadline
=============================================================================
