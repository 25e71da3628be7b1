---------------------------- MODULE WorkRouter ----------------------------
(***************************************************************************)
(* The part of the github-task-dispatcher process that works on the work   *)
(* ledger: route activation and recovery at startup, the shadow ingress    *)
(* socket, the release consumer and the executor loop of the resume-       *)
(* release pipeline, with the executors they call.  Outside it: JetStream, *)
(* GitHub releases, the YouKnowMe upload service, and the agent broker.    *)
(*                                                                         *)
(* The executor loop and the release consumer are two goroutines; the      *)
(* socket serves connections concurrently, each with a single transaction. *)
(***************************************************************************)
EXTENDS WorkLedger

CONSTANTS
    Facts,          \* domain facts emitters send to the ingress socket
    Messages,       \* message of the release subject -> event it carries
    FactRoute,      \* routeresolver config: fact kind -> route
    ReleaseRoute,   \* the route Build activates itself
    Contents,       \* what a release asset can contain
    Versions,       \* executor versions a deployed build can carry
    MaxDeliver,     \* deliveries of a release message (5)
    MaxPolls,       \* bound on the waiting answers for one item
    MaxFaults,      \* bound on crashes, failed database calls and lost acks
    MaxDeploys,     \* bound on changes of the deployed build
    MaxEdits,       \* bound on replacements of a release asset
    MaxArrivals     \* bound on facts admitted and messages published

DeploymentRoutes == RouteIds \ {ReleaseRoute}
Items == 1 .. (Cardinality(Facts) + Cardinality(DOMAIN Messages))
NoItem == 0
NoMessage == "none"
NoContent == "none"

ASSUME RouterConstants ==
    /\ ReleaseRoute \in RouteIds
    /\ Routes[ReleaseRoute].executor = "upload"
    /\ \A k \in DOMAIN FactRoute : FactRoute[k] \in DeploymentRoutes
    /\ NoMessage \notin DOMAIN Messages
    /\ NoContent \notin Contents
    /\ Versions # {} /\ Contents # {}
    /\ IsFiniteSet(Facts) /\ IsFiniteSet(DOMAIN Messages)
    /\ MaxDeliver \in Nat \ {0} /\ MaxPolls \in Nat

VARIABLES
    db,        \* the work ledger
    proc,      \* the process: phase, deployed build, bound snapshots
    exec,      \* the executor loop
    ing,       \* the release consumer
    msgs,      \* JetStream's view of each message
    asset,     \* what the release's asset contains now
    uploads,   \* uploads YouKnowMe holds: key and bytes
    runs,      \* runs the broker holds, by the idempotency key they came with
    polls,     \* waits recorded for each item
    overdue,   \* how many of those waits' deadlines have passed
    left       \* what is left of the bounds on faults and environment steps

vars == <<db, proc, exec, ing, msgs, asset, uploads, runs, polls, overdue, left>>
external == <<asset, uploads, runs, polls, overdue>>

ExecIdle == [pc |-> "idle", item |-> NoItem, n |-> 0, outcome |-> "none",
             bytes |-> NoContent, recover |-> FALSE]
IngIdle == [pc |-> "idle", msg |-> NoMessage, content |-> NoContent]

Init ==
    /\ db = Empty
    /\ proc = [pc |-> "down", version |-> CHOOSE v \in Versions : TRUE, allow |-> FALSE,
               bound |-> [r \in DeploymentRoutes |-> 0]]
    /\ exec = ExecIdle
    /\ ing = IngIdle
    /\ msgs = [m \in DOMAIN Messages |-> [state |-> "unpublished", count |-> 0]]
    /\ asset = CHOOSE c \in Contents : TRUE
    /\ uploads = {}
    /\ runs = {}
    /\ polls = [i \in Items |-> 0]
    /\ overdue = [i \in Items |-> 0]
    /\ left = [faults |-> MaxFaults, deploys |-> MaxDeploys, edits |-> MaxEdits,
               arrivals |-> MaxArrivals]

Fault == left.faults > 0 /\ left' = [left EXCEPT !.faults = @ - 1]
Arrival == left.arrivals > 0 /\ left' = [left EXCEPT !.arrivals = @ - 1]

----------------------------------------------------------------------------
(***************************************************************************)
(* Startup: activateRoutes, one route at a time; then the socket serves;   *)
(* then resumeupload.Build activates the release route and recovers.       *)
(***************************************************************************)
Start ==
    /\ proc.pc = "down"
    /\ proc' = [proc EXCEPT !.pc = "activating",
                            !.bound = [r \in DeploymentRoutes |-> 0]]
    /\ UNCHANGED <<db, exec, ing, msgs, external, left>>

\* RunWithStore's preflight: another definition is active, no explicit transition.
RefusesActivation(r) ==
    /\ ~proc.allow
    /\ \E s \in ActiveSnapshots(db, r) : db.snapshots[s].version # proc.version

Activate(r) ==
    /\ proc.pc = "activating"
    /\ proc.bound[r] = 0
    /\ ~RefusesActivation(r)
    /\ db' = saveRoute(db, r, proc.version)
    /\ proc' = [proc EXCEPT !.bound[r] = CHOOSE s \in ActiveSnapshots(db', r) : TRUE]
    /\ UNCHANGED <<exec, ing, msgs, external, left>>

ActivationRefused(r) ==
    /\ proc.pc = "activating"
    /\ proc.bound[r] = 0
    /\ RefusesActivation(r)
    /\ proc' = [proc EXCEPT !.pc = "down"]
    /\ UNCHANGED <<db, exec, ing, msgs, external, left>>

ServeSocket ==
    /\ proc.pc = "activating"
    /\ \A r \in DeploymentRoutes : proc.bound[r] # 0
    /\ proc' = [proc EXCEPT !.pc = "building"]
    /\ UNCHANGED <<db, exec, ing, msgs, external, left>>

ActivateRelease ==
    /\ proc.pc = "building"
    /\ db' = saveRoute(db, ReleaseRoute, proc.version)
    /\ proc' = [proc EXCEPT !.pc = "recovering"]
    /\ UNCHANGED <<exec, ing, msgs, external, left>>

Recover ==
    /\ proc.pc = "recovering"
    /\ db' = Recovered(db)
    /\ proc' = [proc EXCEPT !.pc = "up"]
    /\ UNCHANGED <<exec, ing, msgs, external, left>>

\* A failed startup step, or a crash at any time: the process is gone.
Crash ==
    /\ proc.pc # "down"
    /\ Fault
    /\ proc' = [proc EXCEPT !.pc = "down"]
    /\ exec' = ExecIdle
    /\ ing' = IngIdle
    /\ UNCHANGED <<db, msgs, external>>

\* The operator replaces the build, with or without allowing supersession.
Deploy(v, allow) ==
    /\ proc.pc = "down"
    /\ left.deploys > 0
    /\ <<v, allow>> # <<proc.version, proc.allow>>
    /\ left' = [left EXCEPT !.deploys = @ - 1]
    /\ proc' = [proc EXCEPT !.version = v, !.allow = allow]
    /\ UNCHANGED <<db, exec, ing, msgs, external>>

----------------------------------------------------------------------------
(***************************************************************************)
(* The ingress socket: resolve the fact to the snapshot bound for its      *)
(* route and admit.  An unmatched fact and a refused one change nothing.   *)
(***************************************************************************)
Serving == proc.pc \in {"building", "recovering", "up"}

HandleFact(e) ==
    /\ Serving
    /\ e.kind \in DOMAIN FactRoute
    /\ LET s == proc.bound[FactRoute[e.kind]]
       IN  /\ ~Refused(db, s, e, NoContent)
           /\ ~Recorded(db, e)
           /\ db' = Admitted(db, s, e, NoContent)
    /\ Arrival
    /\ UNCHANGED <<proc, exec, ing, msgs, external>>

----------------------------------------------------------------------------
(***************************************************************************)
(* The release consumer: Router.Process.                                   *)
(***************************************************************************)
Event == Messages[ing.msg]
GiveUp == ing' = IngIdle

\* The gateway publishes a message on the release subject.
Publish(m) ==
    /\ msgs[m].state = "unpublished"
    /\ Arrival
    /\ msgs' = [msgs EXCEPT ![m].state = "queued"]
    /\ UNCHANGED <<db, proc, exec, ing, external>>

Fetch(m) ==
    /\ proc.pc = "up"
    /\ ing.pc = "idle"
    /\ msgs[m].state = "queued"
    /\ msgs' = [msgs EXCEPT ![m] = [state |-> "out", count |-> @.count + 1]]
    /\ ing' = [ing EXCEPT !.pc = "check", !.msg = m]
    /\ UNCHANGED <<db, proc, exec, external, left>>

\* Malformed, unverified, or not a published release of the repository; or one whose payload
\* names another release: its delivery is never recorded, so it fares alike.
Discard ==
    /\ ing.pc = "check"
    /\ Event.kind # "release"
    /\ msgs' = [msgs EXCEPT ![ing.msg].state = "termed"]
    /\ GiveUp
    /\ UNCHANGED <<db, proc, exec, external, left>>

\* The delivery is known, conflicts with a known one, or is new.
CheckRecorded ==
    /\ ing.pc = "check"
    /\ Event.kind = "release"
    /\ ing' = IF DeliveryRecorded(db, Event) THEN [ing EXCEPT !.pc = "ack"]
              ELSE IF Recorded(db, Event) THEN IngIdle
              ELSE [ing EXCEPT !.pc = "hydrate"]
    /\ UNCHANGED <<db, proc, exec, msgs, external, left>>

Hydrate ==
    /\ ing.pc = "hydrate"
    /\ ing' = [ing EXCEPT !.pc = "admit", !.content = asset]
    /\ UNCHANGED <<db, proc, exec, msgs, external, left>>

\* retryOrDeadLetter: left to redelivery until the last delivery.
HydrateFails ==
    /\ ing.pc = "hydrate"
    /\ ing' = IF msgs[ing.msg].count < MaxDeliver THEN IngIdle
              ELSE [ing EXCEPT !.pc = "deadletter"]
    /\ UNCHANGED <<db, proc, exec, msgs, external, left>>

DeadLetter ==
    /\ ing.pc = "deadletter"
    /\ db' = RecordIngressFailure(db, Event)
    /\ ing' = [ing EXCEPT !.pc = "term"]
    /\ UNCHANGED <<proc, exec, msgs, external, left>>

Term ==
    /\ ing.pc = "term"
    /\ msgs' = [msgs EXCEPT ![ing.msg].state = "termed"]
    /\ GiveUp
    /\ UNCHANGED <<db, proc, exec, external, left>>

\* MatchRoute's only match, when it is one of the upload executor.
Selected(e) ==
    {s \in MatchRoute(db, e) : /\ MatchRoute(db, e) = {s}
                               /\ Routes[db.snapshots[s].route].executor = "upload"}

\* A consumer that acknowledges an admission the ledger refused.
AdmitReleaseAckRefused ==
    /\ ing.pc = "admit"
    /\ IF \E s \in Selected(Event) : ~Refused(db, s, Event, ing.content)
       THEN \E s \in Selected(Event) : db' = Admitted(db, s, Event, ing.content)
       ELSE UNCHANGED db
    /\ ing' = [ing EXCEPT !.pc = "ack"]
    /\ UNCHANGED <<proc, exec, msgs, external, left>>

\* MatchRoute and AdmitRelease; routes are activated before the consumer runs.
AdmitRelease ==
    /\ ing.pc = "admit"
    /\ IF \E s \in Selected(Event) : ~Refused(db, s, Event, ing.content)
       THEN /\ \E s \in Selected(Event) : db' = Admitted(db, s, Event, ing.content)
            /\ ing' = [ing EXCEPT !.pc = "ack", !.content = NoContent]
       ELSE GiveUp /\ UNCHANGED db
    /\ UNCHANGED <<proc, exec, msgs, external, left>>

AckSync ==
    /\ ing.pc = "ack"
    /\ msgs' = [msgs EXCEPT ![ing.msg].state = "acked"]
    /\ GiveUp
    /\ UNCHANGED <<db, proc, exec, external, left>>

\* A database call of Process fails, or its acknowledgement is lost.
ProcessFails ==
    /\ ing.pc \in {"check", "deadletter", "term", "admit", "ack"}
    /\ Fault
    /\ GiveUp
    /\ UNCHANGED <<db, proc, exec, msgs, external>>

\* A consumer configured without MaxDeliver.
AckWaitUnlimited(m) ==
    /\ msgs[m].state = "out"
    /\ msgs' = [msgs EXCEPT ![m].state = "queued"]
    /\ UNCHANGED <<db, proc, exec, ing, external, left>>

\* JetStream: AckWait passes without an answer.
AckWait(m) ==
    /\ msgs[m].state = "out"
    /\ msgs' = [msgs EXCEPT ![m].state =
                   IF msgs[m].count < MaxDeliver THEN "queued" ELSE "dropped"]
    /\ UNCHANGED <<db, proc, exec, ing, external, left>>

----------------------------------------------------------------------------
(***************************************************************************)
(* The executor loop: Router.WorkOne and the executors.                    *)
(***************************************************************************)
Item == db.items[exec.item]
Answer(outcome) == exec' = [exec EXCEPT !.pc = "finish", !.outcome = outcome,
                                        !.bytes = NoContent]

\* The registry's descriptor is the one the attempt was made for.
Registered(i) == db.snapshots[db.items[i].snapshot].version = proc.version

Claim ==
    /\ proc.pc = "up"
    /\ exec.pc = "idle"
    /\ ~exec.recover
    /\ LET now == FailExpired(db, overdue)
       IN  \/ /\ Claimable(now) = {}
              /\ now # db
              /\ db' = now
              /\ UNCHANGED exec
           \/ \E i \in FirstClaimable(now) :
                 /\ db' = Claimed(now, i)
                 /\ exec' = [exec EXCEPT
                       !.pc = IF Registered(i)
                              THEN Routes[db.items[i].route].executor ELSE "finish",
                       !.outcome = IF Registered(i) THEN "none" ELSE "permanent",
                       !.item = i, !.n = AttemptFor(now, i)]
    /\ UNCHANGED <<proc, ing, msgs, external, left>>

\* Executor.Execute of resumeupload: the content's result is reused if there is
\* one; otherwise DownloadVerified compares the release with the operation...
VerifyRelease ==
    /\ exec.pc = "upload"
    /\ IF Item.content \in db.results THEN Answer("completed")
       ELSE IF asset = Item.content THEN exec' = [exec EXCEPT !.pc = "download"]
       ELSE Answer("retryable")
    /\ UNCHANGED <<db, proc, ing, msgs, external, left>>

\* A download that trusts the comparison made before it.
DigestUnchecked(bytes) == TRUE

\* ... then the asset is read again and compared with the digest.
DigestAgrees(bytes) == bytes = Item.content

Download ==
    /\ exec.pc = "download"
    /\ IF DigestAgrees(asset) THEN exec' = [exec EXCEPT !.pc = "send", !.bytes = asset]
       ELSE Answer("retryable")
    /\ UNCHANGED <<db, proc, ing, msgs, external, left>>

ReadFails ==
    /\ exec.pc \in {"upload", "download"}
    /\ Item.content \notin db.results
    /\ Answer("retryable")
    /\ UNCHANGED <<db, proc, ing, msgs, external, left>>

\* YouKnowMe keeps one upload for a key, whether or not its answer arrives.
Upload(answered) ==
    /\ exec.pc = "send"
    /\ uploads' = IF \E u \in uploads : u.key = Item.content THEN uploads
                  ELSE uploads \cup {[key |-> Item.content, bytes |-> exec.bytes]}
    /\ IF answered THEN exec' = [exec EXCEPT !.pc = "record", !.bytes = NoContent]
       ELSE Answer("retryable")
    /\ UNCHANGED <<db, proc, ing, msgs, asset, runs, polls, overdue, left>>

UploadUnsent ==
    /\ exec.pc = "send"
    /\ Answer("retryable")
    /\ UNCHANGED <<db, proc, ing, msgs, external, left>>

RecordResult ==
    /\ exec.pc = "record"
    /\ db' = RecordContentResult(db, Item.content)
    /\ Answer("completed")
    /\ UNCHANGED <<proc, ing, msgs, external, left>>

\* A store error inside Execute is a retryable failure, but for the first read: a release
\* operation that cannot be read is a permanent one.
ExecuteFails ==
    /\ exec.pc \in {"upload", "record"}
    /\ Fault
    /\ \E outcome \in {"retryable"} \cup (IF exec.pc = "upload" THEN {"permanent"} ELSE {}) :
          Answer(outcome)
    /\ UNCHANGED <<db, proc, ing, msgs, external>>

\* Executor.Execute of workitemlaunch: the broker keeps one run for a key.
Launch(started, outcome) ==
    /\ exec.pc = "launch"
    /\ outcome = "completed" => started
    /\ runs' = IF started THEN runs \cup {<<exec.item, exec.n>>} ELSE runs
    /\ Answer(outcome)
    /\ UNCHANGED <<db, proc, ing, msgs, asset, uploads, polls, overdue, left>>

\* An executor that polls: it may answer that the work is still waiting.
Poll(outcome) ==
    /\ exec.pc = "poll"
    /\ outcome = "waiting" => polls[exec.item] < MaxPolls
    /\ Answer(outcome)
    /\ UNCHANGED <<db, proc, ing, msgs, external, left>>

\* finish: complete the attempt, or reconcile when that is refused.
Finish ==
    /\ exec.pc = "finish"
    /\ IF CompleteRefused(db, exec.item, exec.n)
       THEN db' = Recovered(db) /\ UNCHANGED polls
       ELSE /\ db' = Completed(db, exec.item, exec.n, exec.outcome, polls[exec.item] + 1)
            /\ polls' = IF exec.outcome = "waiting" THEN [polls EXCEPT ![exec.item] = @ + 1]
                        ELSE polls
    /\ exec' = ExecIdle
    /\ UNCHANGED <<proc, ing, msgs, asset, uploads, runs, overdue, left>>

\* A loop that forgets it has to reconcile.
FinishFailsForgets(reconciled) ==
    /\ exec.pc = "finish"
    /\ Fault
    /\ db' = IF reconciled THEN Recovered(db) ELSE db
    /\ exec' = ExecIdle
    /\ UNCHANGED <<proc, ing, msgs, external>>

\* Complete fails; RecoverInterrupted succeeds at once, or is left to WorkOne.
FinishFails(reconciled) ==
    /\ exec.pc = "finish"
    /\ Fault
    /\ db' = IF reconciled THEN Recovered(db) ELSE db
    /\ exec' = [ExecIdle EXCEPT !.recover = ~reconciled]
    /\ UNCHANGED <<proc, ing, msgs, external>>

Reconcile ==
    /\ exec.pc = "idle"
    /\ exec.recover
    /\ db' = Recovered(db)
    /\ exec' = ExecIdle
    /\ UNCHANGED <<proc, ing, msgs, external, left>>

----------------------------------------------------------------------------
(***************************************************************************)
(* Time and GitHub.                                                        *)
(***************************************************************************)
Elapse(i) ==
    /\ i \in DOMAIN db.items
    /\ db.items[i].state = "waiting"
    /\ i \notin DOMAIN db.due
    /\ db' = FallsDue(db, i)
    /\ UNCHANGED <<proc, exec, ing, msgs, external, left>>

DeadlinePasses(i) ==
    /\ i \in DOMAIN db.items
    /\ overdue[i] < polls[i]
    /\ db.items[i].deadline > 0
    /\ overdue' = [overdue EXCEPT ![i] = @ + 1]
    /\ UNCHANGED <<db, proc, exec, ing, msgs, asset, uploads, runs, polls, left>>

EditRelease(c) ==
    /\ left.edits > 0
    /\ c # asset
    /\ left' = [left EXCEPT !.edits = @ - 1]
    /\ asset' = c
    /\ UNCHANGED <<db, proc, exec, ing, msgs, uploads, runs, polls, overdue>>

----------------------------------------------------------------------------
Startup ==
    \/ Start
    \/ \E r \in DeploymentRoutes : Activate(r) \/ ActivationRefused(r)
    \/ ServeSocket
    \/ ActivateRelease
    \/ Recover

Consumer ==
    \/ \E m \in DOMAIN Messages : Fetch(m)
    \/ Discard
    \/ CheckRecorded
    \/ Hydrate
    \/ HydrateFails
    \/ DeadLetter
    \/ Term
    \/ AdmitRelease
    \/ AckSync

Executors ==
    \/ Claim
    \/ VerifyRelease
    \/ Download
    \/ ReadFails
    \/ \E answered \in BOOLEAN : Upload(answered)
    \/ UploadUnsent
    \/ RecordResult
    \/ \E started \in BOOLEAN, outcome \in {"completed", "retryable", "permanent"} :
          Launch(started, outcome)
    \/ \E outcome \in {"completed", "retryable", "permanent", "waiting"} : Poll(outcome)
    \/ Finish
    \/ Reconcile

Environment ==
    \/ Crash
    \/ \E v \in Versions, allow \in BOOLEAN : Deploy(v, allow)
    \/ \E e \in Facts : HandleFact(e)
    \/ \E m \in DOMAIN Messages : Publish(m)
    \/ ProcessFails
    \/ ExecuteFails
    \/ \E reconciled \in BOOLEAN : FinishFails(reconciled)
    \/ \E c \in Contents : EditRelease(c)

Next ==
    \/ Startup
    \/ Consumer
    \/ Executors
    \/ \E m \in DOMAIN Messages : AckWait(m)
    \/ \E i \in Items : Elapse(i) \/ DeadlinePasses(i)
    \/ Environment

(***************************************************************************)
(* The process is restarted when it stops and its two loops run; time      *)
(* passes; JetStream redelivers.  Faults, deployments, edits and new facts *)
(* need not happen.                                                        *)
(***************************************************************************)
Fairness ==
    /\ WF_vars(Startup)
    /\ WF_vars(Consumer)
    /\ WF_vars(Executors)
    /\ \A m \in DOMAIN Messages : WF_vars(AckWait(m))
    /\ \A i \in Items : WF_vars(Elapse(i))

Spec == Init /\ [][Next]_vars /\ Fairness
----------------------------------------------------------------------------
TypeOK ==
    /\ db.snapshots \in Seq([route : RouteIds, version : Versions, retired : BOOLEAN])
    /\ DOMAIN db.attempts = DOMAIN db.items
    /\ \A i \in DOMAIN db.items :
          /\ i \in Items
          /\ db.items[i].state \in LiveStates \cup TerminalStates
          /\ db.items[i].content \in Contents \cup {NoContent}
          /\ db.items[i].deadline \in 0 .. MaxPolls
          /\ db.attempts[i] \in Seq(AttemptStates)
    /\ DOMAIN db.due \subseteq DOMAIN db.items
    /\ proc.pc \in {"down", "activating", "building", "recovering", "up"}
    /\ exec.pc \in {"idle", "upload", "download", "send", "record",
                    "launch", "poll", "finish"}
    /\ ing.pc \in {"idle", "check", "hydrate", "admit", "ack",
                   "deadletter", "term"}
    /\ \A m \in DOMAIN Messages : msgs[m].count \in 0 .. MaxDeliver
    /\ uploads \subseteq [key : Contents, bytes : Contents]
    /\ runs \subseteq (Items \X Nat)
    /\ \A i \in Items : overdue[i] <= polls[i]

(***************************************************************************)
(* Claim, Complete, admit and RecoverInterrupted keep leases, attempts and *)
(* items in step: an item is active exactly while one of its attempts runs *)
(* and holds its key's only lease, whatever was superseded, interrupted or *)
(* reclaimed in between, so no two items of a key are ever active.         *)
(***************************************************************************)
LeasesHeld ==
    /\ \A l, k \in db.leases : l.key = k.key => l = k
    /\ \A i \in DOMAIN db.items :
          LET running == {n \in DOMAIN db.attempts[i] : db.attempts[i][n] = "running"}
              held == {l \in db.leases : l.item = i}
          IN  IF db.items[i].state = "active"
              THEN \E n \in running :
                      /\ running = {n}
                      /\ held = {[key |-> db.items[i].key, item |-> i, n |-> n]}
              ELSE running = {} /\ held = {}

(***************************************************************************)
(* An attempt interrupted by a crash or a failed completion is reclaimed   *)
(* under its idempotency key: the broker sees another key for an item only *)
(* once the attempt before it was recorded as failed and retryable (which  *)
(* reads superseded once the item is).                                     *)
(***************************************************************************)
NewKeyAfterFailure ==
    \A r \in runs :
        r[2] > 1 => db.attempts[r[1]][r[2] - 1] \in {"retry_scheduled", "superseded"}

(***************************************************************************)
(* What YouKnowMe holds under a content key is that content, although the  *)
(* asset can change between admission, verification and download; and an   *)
(* upload item completes only when its content's result is recorded.       *)
(***************************************************************************)
UploadsFaithful ==
    /\ \A u \in uploads : u.bytes = u.key
    /\ db.results \subseteq {u.key : u \in uploads}
    /\ \A i \in DOMAIN db.items :
          Routes[db.items[i].route].executor = "upload" /\ db.items[i].state = "completed"
          => db.items[i].content \in db.results

(***************************************************************************)
(* An acknowledged release delivery is recorded in the ledger, and one     *)
(* that is terminated although it is a release left a failure record.      *)
(***************************************************************************)
AckedIsRecorded ==
    \A m \in DOMAIN Messages :
        /\ msgs[m].state = "acked" => DeliveryRecorded(db, Messages[m])
        /\ msgs[m].state = "termed" /\ Messages[m].kind = "release"
           => Messages[m].delivery \in db.failures

(***************************************************************************)
(* While the socket serves, the snapshot the resolver bound to a route at  *)
(* startup is the route's only active one, so that no matched fact meets a *)
(* retired snapshot.                                                       *)
(***************************************************************************)
BoundIsActive ==
    Serving => \A r \in DeploymentRoutes : ActiveSnapshots(db, r) = {proc.bound[r]}

(***************************************************************************)
(* A finished item stays as it finished: a late completion, a recovery, a  *)
(* superseding admission or an expired wait never changes it.              *)
(***************************************************************************)
TerminalIsFinal ==
    [][\A i \in DOMAIN db.items :
          db.items[i].state \in TerminalStates => db'.items[i].state = db.items[i].state]_vars

(***************************************************************************)
(* The deadline of an item's first wait ends it: no attempt starts once it *)
(* has passed, however often the executor has asked to wait since.         *)
(***************************************************************************)
NoAttemptAfterDeadline ==
    [][\A i \in DOMAIN db.items :
          db.items[i].state # "active" /\ db'.items[i].state = "active"
          => overdue[i] = 0]_vars

(***************************************************************************)
(* Every admitted item ends, through crashes, failed completions, retries  *)
(* and waits, unless the deployed build refuses to activate its routes.    *)
(***************************************************************************)
ItemsSettle ==
    \A i \in Items :
        (i \in DOMAIN db.items) ~>
            \/ i \in DOMAIN db.items /\ db.items[i].state \in TerminalStates
            \/ \E r \in DeploymentRoutes : RefusesActivation(r)
=============================================================================
