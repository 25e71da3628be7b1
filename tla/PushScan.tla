----------------------------- MODULE PushScan -----------------------------
(***************************************************************************)
(* push-security-scanner: one loop that maintains, fetches push deliveries *)
(* and processes them (cmd/push-security-scanner, internal/pushscan), next *)
(* to the registry listener, which changes token fingerprints at any time. *)
(* Outside it: JetStream, the broker, which halts issuance once for each   *)
(* finding, and the clock.                                                 *)
(*                                                                         *)
(* What a push carries is a constant; whether a deadline, an expiry or a   *)
(* retention has passed is kept instead of the times.  A finding is known  *)
(* by the delivery it was made for.                                        *)
(***************************************************************************)
EXTENDS Naturals, Sequences, FiniteSets, Functions

CONSTANTS
    Messages,     \* message -> [kind, delivery]
    Carries,      \* delivery -> "clean", "shape", "canary" or a token
    Tokens,       \* issued tokens
    Catalog,      \* deliveries whose repository and ref are scanned
    EventOrder,   \* all deliveries, in event_id order
    Stuck,        \* deliveries the broker never answers validly
    PageSize,     \* pending responses of a reconciliation (64)
    BatchSize,    \* pending events of a flush (32)
    MaxDeliver,   \* deliveries of a message (10)
    MaxFaults     \* bound on crashes, failed calls and lost answers

Deliveries == Range(EventOrder)
Nobody == "none"

ASSUME ScanConstants ==
    /\ EventOrder \in Seq(Deliveries)
    /\ DOMAIN Carries = Deliveries
    /\ \A m \in DOMAIN Messages : Messages[m].delivery \in Deliveries
    /\ \A d \in Deliveries : Carries[d] \in Tokens \cup {"clean", "shape", "canary"}
    /\ Nobody \notin Deliveries \cup DOMAIN Messages
    /\ {PageSize, BatchSize, MaxDeliver} \subseteq Nat \ {0}

VARIABLES
    msgs,      \* JetStream's view of each message
    tokens,    \* what the registry holds of each token
    receipts,  \* deliveries with a receipt
    results,   \* delivery -> result
    order,     \* pending responses by last attempt (or request)
    events,    \* deliveries with an outbox event
    marked,    \* ... whose event is marked published
    sent,      \* ... whose event reached the bus
    halted,    \* broker: whether and when issuance was halted for the finding
    late,      \* deliveries whose SLO deadline has passed
    proc,      \* the loop
    faults     \* faults left

vars == <<msgs, tokens, receipts, results, order, events, marked, sent, halted,
          late, proc, faults>>
store == <<tokens, receipts, results, order, events, marked>>

Statuses == {"none", "rejected", "clean", "finding_low", "finding_high", "response_pending"}
SLOStates == {"not_applicable", "not_live", "pending", "met", "breached"}
NoResult == [status |-> "none", slo |-> "not_applicable", alertLate |-> FALSE]
Idle == [pc |-> "idle", then |-> "reconcile", msg |-> Nobody, found |-> "none",
         batch |-> {}, page |-> <<>>, cur |-> Nobody]

Init ==
    /\ msgs = [m \in DOMAIN Messages |-> [state |-> "queued", count |-> 0]]
    /\ tokens = [t \in Tokens |-> "absent"]
    /\ receipts = {}
    /\ results = [d \in Deliveries |-> NoResult]
    /\ order = <<>>
    /\ events = {} /\ marked = {} /\ sent = {}
    /\ halted = [d \in Deliveries |-> "no"]
    /\ late = {}
    /\ proc = [Idle EXCEPT !.pc = "down"]
    /\ faults = MaxFaults

Fault == faults > 0 /\ faults' = faults - 1

First(seq, n) == SubSeq(seq, 1, IF Len(seq) < n THEN Len(seq) ELSE n)

----------------------------------------------------------------------------
(***************************************************************************)
(* The registry listener and time.                                         *)
(***************************************************************************)
Register(t, state) ==
    /\ tokens[t] = "absent"
    /\ tokens' = [tokens EXCEPT ![t] = state]
    /\ UNCHANGED <<msgs, receipts, results, order, events, marked, sent, halted,
                   late, proc, faults>>

TransitionFingerprintState(t, state) ==
    /\ tokens[t] \in {"active", "expired"}
    /\ state # tokens[t]
    /\ tokens' = [tokens EXCEPT ![t] = state]
    /\ UNCHANGED <<msgs, receipts, results, order, events, marked, sent, halted,
                   late, proc, faults>>

\* An active token expires; a fingerprint past its retention is no longer read,
\* so that PruneFingerprints deletes only what MatchCandidate does not return.
TokenAges(t) ==
    /\ tokens[t] \notin {"absent", "pruned"}
    /\ tokens' = [tokens EXCEPT ![t] = IF @ = "active" THEN "expired" ELSE "pruned"]
    /\ UNCHANGED <<msgs, receipts, results, order, events, marked, sent, halted,
                   late, proc, faults>>

\* (The deadline of a push that is not scanned is never read.)
DeadlinePasses(d) ==
    /\ d \in Catalog \ late
    /\ late' = late \cup {d}
    /\ UNCHANGED <<msgs, store, sent, halted, proc, faults>>

\* MatchCandidate: what the registry says of a token now.
MatchCandidate(t) == IF tokens[t] \in {"absent", "pruned"} THEN "clean" ELSE tokens[t]

----------------------------------------------------------------------------
(***************************************************************************)
(* Events are published in event_id order, a batch at a time.              *)
(***************************************************************************)
Place(d) == CHOOSE i \in DOMAIN EventOrder : EventOrder[i] = d

PendingEvents(pending) ==
    {d \in pending : Cardinality({e \in pending : Place(e) < Place(d)}) < BatchSize}

NextEvent == CHOOSE d \in proc.batch : \A e \in proc.batch : Place(d) <= Place(e)

\* The loop goes on with the next response of the page, or with what follows.
AfterPage(p) ==
    IF p.page # <<>> THEN [p EXCEPT !.pc = "attempt", !.cur = Nobody]
    ELSE IF p.then = "reconcile" THEN Idle
    ELSE [p EXCEPT !.pc = "ack", !.cur = Nobody]

\* After its events a reconciliation turns to the responses, and Process to the
\* response of its own delivery (runSideEffects).
AfterFlush(p, res) ==
    LET delivery == Messages[p.msg].delivery
        own == res[delivery].status = "response_pending"
    IN  IF p.batch # {} THEN [p EXCEPT !.pc = "flush"]
        ELSE IF p.then = "reconcile" THEN [p EXCEPT !.pc = "overdue"]
        ELSE AfterPage([p EXCEPT !.page = IF own THEN <<delivery>> ELSE <<>>])

\* flushEvents as called by a reconciliation or by Process.
Flush(p, then, evs, res) ==
    AfterFlush([p EXCEPT !.then = then, !.found = "none",
                         !.batch = PendingEvents(evs \ marked)], res)

PublishEvent ==
    /\ proc.pc = "flush"
    /\ sent' = sent \cup {NextEvent}
    /\ marked' = marked \cup {NextEvent}
    /\ proc' = AfterFlush([proc EXCEPT !.batch = @ \ {NextEvent}], results)
    /\ UNCHANGED <<msgs, tokens, receipts, results, order, events, halted, late, faults>>

\* Publish, or the mark after it, fails: the flush ends there.
FlushFails(published) ==
    /\ proc.pc = "flush"
    /\ Fault
    /\ sent' = IF published THEN sent \cup {NextEvent} ELSE sent
    /\ proc' = AfterFlush([proc EXCEPT !.batch = {}], results)
    /\ UNCHANGED <<msgs, store, halted, late>>

----------------------------------------------------------------------------
(***************************************************************************)
(* Maintenance: Startup and RunDue reconcile.                              *)
(***************************************************************************)
Startup ==
    /\ proc.pc = "down"
    /\ proc' = Flush(Idle, "reconcile", events, results)
    /\ UNCHANGED <<msgs, store, sent, halted, late, faults>>

\* A reconciliation that leaves the events to Process.
ReconcileResponses ==
    /\ proc.pc = "idle"
    /\ proc' = [proc EXCEPT !.pc = "overdue", !.then = "reconcile"]
    /\ UNCHANGED <<msgs, store, sent, halted, late, faults>>

ReconcileDue ==
    /\ proc.pc = "idle"
    /\ proc' = Flush(proc, "reconcile", events, results)
    /\ UNCHANGED <<msgs, store, sent, halted, late, faults>>

MarkOverdueResponses ==
    [d \in Deliveries |->
        IF results[d].status = "response_pending" /\ d \in late
        THEN [results[d] EXCEPT !.slo = "breached"] ELSE results[d]]

\* MarkOverdueResponses, then PendingResponseDeliveryIDs; either may fail, and
\* without a list Reconcile returns.
ListPending(markedOverdue, listed) ==
    /\ proc.pc = "overdue"
    /\ results' = IF markedOverdue THEN MarkOverdueResponses ELSE results
    /\ IF markedOverdue /\ listed THEN UNCHANGED faults ELSE Fault
    /\ proc' = AfterPage([proc EXCEPT !.page = IF listed THEN First(order, PageSize) ELSE <<>>])
    /\ UNCHANGED <<msgs, tokens, receipts, order, events, marked, sent, halted, late>>

----------------------------------------------------------------------------
(***************************************************************************)
(* completeResponse, for each response of the page.                        *)
(***************************************************************************)
\* The pending responses without d.
Without(d) ==
    LET n == CHOOSE i \in DOMAIN order : order[i] = d
    IN  SubSeq(order, 1, n - 1) \o SubSeq(order, n + 1, Len(order))

\* An attempt that is counted but keeps its place.
AttemptKeepsPlace(d) == order

\* An attempt listed beside the earlier ones.
AttemptAdded(d) == Append(order, d)

\* RecordResponseAttempt: response_last_attempt_at moves it to the end.
RecordResponseAttempt(d) == Append(Without(d), d)

Attempt(recorded) ==
    /\ proc.pc = "attempt"
    /\ IF recorded
       THEN /\ order' = RecordResponseAttempt(Head(proc.page))
            /\ proc' = [proc EXCEPT !.pc = "respond", !.cur = Head(proc.page),
                                    !.page = Tail(@)]
            /\ UNCHANGED faults
       ELSE /\ Fault
            /\ proc' = AfterPage([proc EXCEPT !.page = Tail(@)])
            /\ UNCHANGED order
    /\ UNCHANGED <<msgs, tokens, receipts, results, events, marked, sent, halted, late>>

\* The broker halts once for a finding and repeats its answer for the key.
Halt(d) == IF halted[d] # "no" THEN halted[d] ELSE IF d \in late THEN "late" ELSE "in_time"

Respond ==
    /\ proc.pc = "respond"
    /\ proc.cur \notin Stuck
    /\ halted' = [halted EXCEPT ![proc.cur] = Halt(proc.cur)]
    /\ proc' = [proc EXCEPT !.pc = "complete"]
    /\ UNCHANGED <<msgs, store, sent, late, faults>>

\* A caller that does not look at the answer.
RespondUnchecked(done) ==
    /\ proc.pc = "respond"
    /\ IF proc.cur \in Stuck THEN UNCHANGED faults ELSE Fault
    /\ halted' = IF done THEN [halted EXCEPT ![proc.cur] = Halt(proc.cur)] ELSE halted
    /\ proc' = [proc EXCEPT !.pc = "complete"]
    /\ UNCHANGED <<msgs, store, sent, late>>

\* No valid answer: the call failed, was lost, or validateResponse refused it.
RespondFails(done) ==
    /\ proc.pc = "respond"
    /\ IF proc.cur \in Stuck THEN UNCHANGED faults ELSE Fault
    /\ halted' = IF done THEN [halted EXCEPT ![proc.cur] = Halt(proc.cur)] ELSE halted
    /\ proc' = AfterPage(proc)
    /\ UNCHANGED <<msgs, store, sent, late>>

\* An outcome that lets a mark made while waiting stand.
StoredOutcome(d) == IF results[d].slo = "breached" THEN "breached" ELSE "met"

SLOOutcome(d) ==
    IF results[d].alertLate \/ halted[d] = "late" THEN "breached" ELSE "met"

CompleteResponse ==
    /\ proc.pc = "complete"
    /\ results' = [results EXCEPT ![proc.cur].status = "finding_high",
                                  ![proc.cur].slo = SLOOutcome(proc.cur)]
    /\ order' = Without(proc.cur)
    /\ proc' = AfterPage(proc)
    /\ UNCHANGED <<msgs, tokens, receipts, events, marked, sent, halted, late, faults>>

CompleteFails ==
    /\ proc.pc = "complete"
    /\ Fault
    /\ proc' = AfterPage(proc)
    /\ UNCHANGED <<msgs, store, sent, halted, late>>

----------------------------------------------------------------------------
(***************************************************************************)
(* The loop's deliveries: main and Process.                                *)
(***************************************************************************)
Delivery == Messages[proc.msg].delivery
Settle(m, state) == msgs' = [msgs EXCEPT ![m].state = state]

Fetch(m) ==
    /\ proc.pc = "idle"
    /\ msgs[m].state = "queued"
    /\ LET kind == Messages[m].kind
           state == CASE kind = "malformed" -> "termed"
                      [] kind = "other" -> "acked"
                      [] OTHER -> "out"
       IN  /\ msgs' = [msgs EXCEPT ![m] = [state |-> state, count |-> @.count + 1]]
           /\ proc' = IF kind = "push" THEN [Idle EXCEPT !.pc = "receipt", !.msg = m]
                      ELSE proc
    /\ UNCHANGED <<store, sent, halted, late, faults>>

\* A delivery that has a result only has its side effects run.
RecordReceipt ==
    /\ proc.pc = "receipt"
    /\ receipts' = receipts \cup {Delivery}
    /\ proc' = IF results[Delivery].status # "none"
               THEN Flush(proc, "process", events, results)
               ELSE [proc EXCEPT !.pc = "scan"]
    /\ UNCHANGED <<msgs, tokens, results, order, events, marked, sent, halted, late, faults>>

\* scanMaterial, when the broker's material is complete and within bounds.
Outcome(d) == IF Carries[d] \in Tokens THEN MatchCandidate(Carries[d]) ELSE Carries[d]

\* Without usable material the finding is high: "unavailable".
Scan(usable) ==
    /\ proc.pc = "scan"
    /\ proc' = [proc EXCEPT !.pc = "record",
                   !.found = IF Delivery \notin Catalog THEN "rejected"
                             ELSE IF usable THEN Outcome(Delivery) ELSE "unavailable"]
    /\ UNCHANGED <<msgs, store, sent, halted, late, faults>>

Live(found) == found \in {"unavailable", "canary", "active"}
Finding(found) == found \notin {"rejected", "clean"}

ResultOf(found, isLate) ==
    [status |-> CASE Live(found) -> "response_pending"
                  [] found = "shape" -> "finding_low"
                  [] found \in {"expired", "revoked"} -> "finding_high"
                  [] OTHER -> found,
     slo |-> CASE Live(found) -> "pending"
               [] found \in {"expired", "revoked"} -> "not_live"
               [] OTHER -> "not_applicable",
     alertLate |-> Finding(found) /\ isLate]

\* RecordResult: the result and its outbox event in one transaction.
RecordResult ==
    /\ proc.pc = "record"
    /\ results' = [results EXCEPT ![Delivery] = ResultOf(proc.found, Delivery \in late)]
    /\ events' = IF Finding(proc.found) THEN events \cup {Delivery} ELSE events
    /\ order' = IF Live(proc.found) THEN Append(order, Delivery) ELSE order
    /\ IF proc.found = "rejected" THEN proc' = [proc EXCEPT !.pc = "ack", !.found = "none"]
       ELSE proc' = Flush(proc, "process", events', results')
    /\ UNCHANGED <<msgs, tokens, receipts, marked, sent, halted, late, faults>>

\* A loop that acknowledges whatever Process returned.
ProcessFailsAcked ==
    /\ proc.pc \in {"receipt", "record"}
    /\ Fault
    /\ proc' = [proc EXCEPT !.pc = "ack", !.found = "none"]
    /\ UNCHANGED <<msgs, store, sent, halted, late>>

\* The store fails, or has a receipt of the delivery with another identity,
\* before there is a result: NakWithDelay.
ProcessFails ==
    /\ proc.pc \in {"receipt", "record"}
    /\ Fault
    /\ proc' = Idle
    /\ UNCHANGED <<msgs, store, sent, halted, late>>

Ack ==
    /\ proc.pc = "ack"
    /\ Settle(proc.msg, "acked")
    /\ proc' = Idle
    /\ UNCHANGED <<store, sent, halted, late, faults>>

AckFails ==
    /\ proc.pc = "ack"
    /\ Fault
    /\ proc' = Idle
    /\ UNCHANGED <<msgs, store, sent, halted, late>>

Crash ==
    /\ proc.pc # "down"
    /\ Fault
    /\ proc' = [Idle EXCEPT !.pc = "down"]
    /\ UNCHANGED <<msgs, store, sent, halted, late>>

\* A message neither acknowledged nor terminated comes again, MaxDeliver times.
\* (While the loop works on it, its redelivery could not be fetched.)
Redeliver(m) ==
    /\ msgs[m].state = "out"
    /\ proc.msg # m
    /\ Settle(m, IF msgs[m].count < MaxDeliver THEN "queued" ELSE "dropped")
    /\ UNCHANGED <<store, sent, halted, late, proc, faults>>

----------------------------------------------------------------------------
Loop ==
    \/ Startup
    \/ PublishEvent
    \/ ListPending(TRUE, TRUE)
    \/ Attempt(TRUE)
    \/ Respond
    \/ CompleteResponse
    \/ \E m \in DOMAIN Messages : Fetch(m)
    \/ RecordReceipt
    \/ \E usable \in BOOLEAN : Scan(usable)
    \/ RecordResult
    \/ Ack

Failures ==
    \/ \E b \in BOOLEAN : FlushFails(b) \/ RespondFails(b) \/ ListPending(b, FALSE)
    \/ ListPending(FALSE, TRUE)
    \/ Attempt(FALSE)
    \/ CompleteFails
    \/ ProcessFails
    \/ AckFails
    \/ Crash

Next ==
    \/ Loop
    \/ ReconcileDue
    \/ Failures
    \/ \E m \in DOMAIN Messages : Redeliver(m)
    \/ \E t \in Tokens : \/ \E s \in {"active", "expired", "revoked"} : Register(t, s)
                         \/ \E s \in {"expired", "revoked"} : TransitionFingerprintState(t, s)
                         \/ TokenAges(t)
    \/ \E d \in Deliveries : DeadlinePasses(d)

(***************************************************************************)
(* The loop runs and is restarted, its calls return, and its maintenance   *)
(* comes due.  Redelivery is not assumed.                                  *)
(***************************************************************************)
CallReturns == proc.cur \in Stuck /\ \E b \in BOOLEAN : RespondFails(b)

Fairness == WF_vars(Loop \/ CallReturns) /\ WF_vars(ReconcileDue)

Spec == Init /\ [][Next]_vars /\ Fairness

----------------------------------------------------------------------------
TypeOK ==
    /\ \A m \in DOMAIN Messages :
          /\ msgs[m].state \in {"queued", "out", "acked", "termed", "dropped"}
          /\ msgs[m].count \in 0 .. MaxDeliver
    /\ tokens \in [Tokens -> {"absent", "active", "expired", "revoked", "pruned"}]
    /\ results \in [Deliveries -> [status : Statuses, slo : SLOStates, alertLate : BOOLEAN]]
    /\ {d \in Deliveries : results[d].status # "none"} \subseteq receipts
    /\ IsInjective(order)
    /\ Range(order) = {d \in Deliveries : results[d].status = "response_pending"}
    /\ sent \cup marked \subseteq events
    /\ halted \in [Deliveries -> {"no", "in_time", "late"}]
    /\ late \subseteq Deliveries

(***************************************************************************)
(* main acknowledges a push only once Process has made its result durable, *)
(* so that no store failure or crash loses a push that was acknowledged.   *)
(***************************************************************************)
AckedHasResult ==
    \A m \in DOMAIN Messages :
        msgs[m].state = "acked" /\ Messages[m].kind = "push" =>
            results[Messages[m].delivery].status # "none"

(***************************************************************************)
(* The broker halts issuance only for a live finding already recorded, and *)
(* a response completes only once the broker has halted: neither a lost    *)
(* answer nor a crash between the two can separate them for good.          *)
(***************************************************************************)
HaltsMatchFindings ==
    \A d \in Deliveries :
        /\ halted[d] # "no" =>
              /\ results[d].status \in {"response_pending", "finding_high"}
              /\ results[d].slo \in {"pending", "met", "breached"}
        /\ results[d].status = "finding_high" /\ results[d].slo # "not_live" =>
              halted[d] # "no"

(***************************************************************************)
(* A completed response's SLO state says whether the alert and the halt    *)
(* themselves were in time: a reconciliation that marked it overdue while  *)
(* the answer was lost does not make an answer in time a breach, and a     *)
(* late one is a breach even if nothing had marked it.                     *)
(***************************************************************************)
SLOTruthful ==
    \A d \in Deliveries :
        results[d].status = "finding_high" /\ results[d].slo # "not_live" =>
            (results[d].slo = "met" <=> halted[d] = "in_time" /\ ~results[d].alertLate)

(***************************************************************************)
(* Every pending response the broker can answer completes, through lost    *)
(* answers and restarts, although others that never do fill the page: an   *)
(* attempt moves its response behind the ones not tried since.             *)
(***************************************************************************)
PendingResolved ==
    \A d \in Deliveries \ Stuck :
        results[d].status = "response_pending" ~> results[d].status = "finding_high"

(***************************************************************************)
(* Every finding's alert reaches the bus without another push arriving.    *)
(***************************************************************************)
AlertsSent == \A d \in Deliveries : d \in events ~> d \in sent
=============================================================================
