---------------------------- MODULE WorkLedger ----------------------------
(***************************************************************************)
(* The work ledger of internal/workledger: route snapshots, work items,    *)
(* executor attempts, serialization leases, recorded source events,        *)
(* release operations and content results.  All tables live in one SQLite  *)
(* database with a single connection, so every transaction is atomic; each *)
(* is an operator from the ledger before it to the ledger after it.        *)
(*                                                                         *)
(* Times are kept as the order they induce.  ledger.due has the due items  *)
(* (next_attempt_at not after now), each with the due items ahead of it in *)
(* next_attempt_at order; a waiting item outside it is scheduled for       *)
(* later.  wait_deadline is the number of the wait that fixed it, 0 when   *)
(* there is none.                                                          *)
(***************************************************************************)
EXTENDS Naturals, Sequences, FiniteSets

CONSTANT
    Routes  \* route_id -> RouteDefinition

RouteIds == DOMAIN Routes

(***************************************************************************)
(* RouteDefinition.Validate: what a definition needs to be activated.      *)
(***************************************************************************)
Validate(definition) ==
    /\ definition.kinds # {}
    /\ definition.serialization \in {"object", "namespace", "route"}
    /\ definition.maxAttempts \in 1 .. 10

ASSUME RoutesValid ==
    \A r \in RouteIds : /\ Validate(Routes[r])
                        /\ Routes[r].supersede \in BOOLEAN
                        /\ Routes[r].executor \in {"upload", "launch", "poll"}

LiveStates == {"admitted", "active", "waiting"}
TerminalStates == {"completed", "failed", "superseded", "dead_letter"}
OpenAttempts == {"running", "recoverable", "retry_scheduled"}
AttemptStates == OpenAttempts \cup {"succeeded", "failed", "superseded"}

Empty == [snapshots |-> <<>>, items |-> <<>>, attempts |-> <<>>,
          leases |-> {}, due |-> [i \in {} |-> {}], events |-> {}, results |-> {},
          failures |-> {}]

\* next_attempt_at is set to now, in the order of creation, or to NULL.
Enqueued(due, new) ==
    [j \in DOMAIN due \cup new |->
        IF j \in new THEN DOMAIN due \cup {i \in new : i < j} ELSE due[j]]

Dequeued(due, old) == [j \in DOMAIN due \ old |-> due[j] \ old]

----------------------------------------------------------------------------
(***************************************************************************)
(* Routes.  A snapshot is known by its position; its digest is over the    *)
(* definition and the executor descriptor, of which only the version can   *)
(* change here.                                                            *)
(***************************************************************************)
ActiveSnapshots(ledger, route) ==
    {s \in DOMAIN ledger.snapshots : /\ ledger.snapshots[s].route = route
                                     /\ ~ledger.snapshots[s].retired}

Retire(snapshots, route) ==
    [s \in DOMAIN snapshots |->
        [snapshots[s] EXCEPT !.retired = @ \/ snapshots[s].route = route]]

\* An activation that retires every active route.
saveRouteAlone(ledger, route, version) ==
    IF \E s \in ActiveSnapshots(ledger, route) :
          ledger.snapshots[s].version = version
    THEN ledger
    ELSE [ledger EXCEPT !.snapshots =
             Append([s \in DOMAIN @ |-> [@[s] EXCEPT !.retired = TRUE]],
                    [route |-> route, version |-> version, retired |-> FALSE])]

saveRoute(ledger, route, version) ==
    IF \E s \in ActiveSnapshots(ledger, route) :
          ledger.snapshots[s].version = version
    THEN ledger
    ELSE [ledger EXCEPT !.snapshots =
             Append(Retire(@, route),
                    [route |-> route, version |-> version, retired |-> FALSE])]

Matches(route, event) == event.kind \in Routes[route].kinds

MatchRoute(ledger, event) ==
    {s \in DOMAIN ledger.snapshots : /\ ~ledger.snapshots[s].retired
                                     /\ Matches(ledger.snapshots[s].route, event)}

serializationKey(route, event) ==
    CASE Routes[route].serialization = "namespace" -> <<route, event.namespace>>
      [] Routes[route].serialization = "route" -> <<route>>
      [] OTHER -> <<route, event.namespace, event.kind, event.object>>

----------------------------------------------------------------------------
(***************************************************************************)
(* Admission.  A source delivery is recorded once; the same delivery with  *)
(* other content is refused.  Events of one snapshot, object and revision  *)
(* share a work item.                                                      *)
(***************************************************************************)
Recorded(ledger, event) ==
    \E e \in ledger.events : e.event.delivery = event.delivery

DeliveryRecorded(ledger, event) ==
    \E e \in ledger.events : e.event = event

SameWork(ledger, snapshot, event) ==
    {i \in DOMAIN ledger.items : /\ ledger.items[i].snapshot = snapshot
                                 /\ ledger.items[i].event.kind = event.kind
                                 /\ ledger.items[i].event.namespace = event.namespace
                                 /\ ledger.items[i].event.object = event.object
                                 /\ ledger.items[i].event.revision = event.revision}

\* The durable operation an admission would have to agree with.
Conflicts(ledger, snapshot, event, content) ==
    IF Recorded(ledger, event)
    THEN \E e \in ledger.events :
            /\ e.event.delivery = event.delivery
            /\ e.event # event \/ ledger.items[e.item].content # content
    ELSE \E i \in SameWork(ledger, snapshot, event) :
            ledger.items[i].content # content

Refused(ledger, snapshot, event, content) ==
    \/ ledger.snapshots[snapshot].retired
    \/ ~Matches(ledger.snapshots[snapshot].route, event)
    \/ Conflicts(ledger, snapshot, event, content)

\* A supersession that takes finished items with it.
SupersededAll(ledger, route, event) ==
    {i \in DOMAIN ledger.items : /\ ledger.items[i].route = route
                                 /\ ledger.items[i].event.kind = event.kind
                                 /\ ledger.items[i].event.namespace = event.namespace
                                 /\ ledger.items[i].event.object = event.object}

Superseded(ledger, route, event) ==
    {i \in DOMAIN ledger.items : /\ ledger.items[i].route = route
                                 /\ ledger.items[i].event.kind = event.kind
                                 /\ ledger.items[i].event.namespace = event.namespace
                                 /\ ledger.items[i].event.object = event.object
                                 /\ ledger.items[i].state \in LiveStates}

\* UPDATE work_items SET state.
SetState(items, these, state) ==
    [i \in DOMAIN items |->
        IF i \in these THEN [items[i] EXCEPT !.state = state] ELSE items[i]]

Close(attempts, state) ==
    [n \in DOMAIN attempts |->
        IF attempts[n] \in OpenAttempts THEN state ELSE attempts[n]]

\* The three updates of a superseding admission.
Supersede(ledger, old) ==
    [ledger EXCEPT
        !.attempts = [i \in DOMAIN @ |->
                         IF i \in old THEN Close(@[i], "superseded") ELSE @[i]],
        !.leases = {l \in @ : l.item \notin old},
        !.items = SetState(@, old, "superseded"),
        !.due = Dequeued(@, old)]

NewItem(ledger, snapshot, event, content) ==
    LET route == ledger.snapshots[snapshot].route
        clear == IF Routes[route].supersede
                 THEN Supersede(ledger, Superseded(ledger, route, event))
                 ELSE ledger
    IN  [clear EXCEPT
            !.items = Append(@, [snapshot |-> snapshot, route |-> route,
                                 event |-> event, content |-> content,
                                 key |-> serializationKey(route, event),
                                 state |-> "admitted", deadline |-> 0]),
            !.attempts = Append(@, <<>>),
            !.due = Enqueued(@, {Len(ledger.items) + 1})]

\* admit, once it is not Refused.
Admitted(ledger, snapshot, event, content) ==
    IF Recorded(ledger, event) THEN ledger
    ELSE LET same == SameWork(ledger, snapshot, event)
             with == IF same = {} THEN NewItem(ledger, snapshot, event, content)
                     ELSE ledger
             item == IF same = {} THEN Len(with.items) ELSE CHOOSE i \in same : TRUE
         IN  [with EXCEPT !.events = @ \cup {[event |-> event, item |-> item]}]

----------------------------------------------------------------------------
(***************************************************************************)
(* Claim.  overdue[i] counts the waits of i whose deadline has passed.     *)
(***************************************************************************)
Expired(ledger, overdue) ==
    {i \in DOMAIN ledger.items : /\ ledger.items[i].state = "waiting"
                                 /\ ledger.items[i].deadline \in 1 .. overdue[i]}

FailExpired(ledger, overdue) ==
    LET old == Expired(ledger, overdue)
    IN  [ledger EXCEPT
            !.items = SetState(@, old, "failed"),
            !.due = Dequeued(@, old)]

Leased(ledger, i) == \E l \in ledger.leases : l.key = ledger.items[i].key

Claimable(ledger) == {i \in DOMAIN ledger.due : ~Leased(ledger, i)}

\* ORDER BY next_attempt_at LIMIT 1.
FirstClaimable(ledger) ==
    {i \in Claimable(ledger) : ledger.due[i] \cap Claimable(ledger) = {}}

Recoverable(ledger, i) ==
    {n \in DOMAIN ledger.attempts[i] : ledger.attempts[i][n] = "recoverable"}

\* A claim that gives every run a number of its own.
AttemptAnew(ledger, i) == Len(ledger.attempts[i]) + 1

\* The attempt a claim of i runs: the recoverable one, or the next number.
AttemptFor(ledger, i) ==
    IF Recoverable(ledger, i) # {}
    THEN CHOOSE n \in Recoverable(ledger, i) :
            \A m \in Recoverable(ledger, i) : m <= n
    ELSE Len(ledger.attempts[i]) + 1

Claimed(ledger, i) ==
    LET n == AttemptFor(ledger, i)
    IN  [ledger EXCEPT
            !.attempts[i] =
                IF n \in DOMAIN @ THEN [@ EXCEPT ![n] = "running"] ELSE Append(@, "running"),
            !.leases = @ \cup {[key |-> ledger.items[i].key, item |-> i, n |-> n]},
            !.items = SetState(@, {i}, "active"),
            !.due = Dequeued(@, {i})]

----------------------------------------------------------------------------
(***************************************************************************)
(* Complete.  wait is the number of the wait a "waiting" result asks for.  *)
(***************************************************************************)
CompleteRefused(ledger, i, n) ==
    \/ ledger.attempts[i][n] # "running"
    \/ ledger.items[i].state \notin {"superseded", "active"}

ResultStates(ledger, i, n, outcome) ==
    CASE outcome = "completed" -> <<"succeeded", "completed">>
      [] outcome = "permanent" -> <<"failed", "failed">>
      [] outcome = "retryable" /\ n >= Routes[ledger.items[i].route].maxAttempts ->
            <<"failed", "dead_letter">>
      [] OTHER -> <<"retry_scheduled", "waiting">>

\* A deadline that every wait starts again.
DeadlineRenewed(old, outcome, wait) ==
    IF outcome = "waiting" THEN wait ELSE old

\* wait_deadline_at=COALESCE(wait_deadline_at, ?) for a waiting result.
Deadline(old, outcome, wait) ==
    IF outcome = "waiting" /\ old = 0 THEN wait ELSE old

Completed(ledger, i, n, outcome, wait) ==
    LET free == [ledger EXCEPT !.leases = {l \in @ : l.item # i \/ l.n # n}]
        to == ResultStates(ledger, i, n, outcome)
    IN  IF ledger.items[i].state = "superseded"
        THEN [free EXCEPT !.attempts[i][n] = "superseded"]
        ELSE [free EXCEPT !.attempts[i][n] = to[1],
                          !.items[i].state = to[2],
                          !.items[i].deadline = Deadline(@, outcome, wait)]

\* A scheduled item's next_attempt_at is reached.
FallsDue(ledger, i) == [ledger EXCEPT !.due = Enqueued(@, {i})]

----------------------------------------------------------------------------
(***************************************************************************)
(* RecoverInterrupted: every active item becomes due again with its        *)
(* attempt recoverable, and no lease survives.                             *)
(***************************************************************************)
Interrupted(ledger) ==
    {i \in DOMAIN ledger.items : ledger.items[i].state = "active"}

Reopen(attempts) ==
    [n \in DOMAIN attempts |->
        IF attempts[n] = "running" THEN "recoverable" ELSE attempts[n]]

\* A recovery that leaves the leases of the interrupted attempts behind.
RecoveredLeased(ledger) ==
    [ledger EXCEPT
        !.attempts = [i \in DOMAIN @ |->
            CASE ledger.items[i].state = "superseded" -> Close(@[i], "superseded")
              [] ledger.items[i].state = "active" -> Reopen(@[i])
              [] OTHER -> @[i]],
        !.items = SetState(@, Interrupted(ledger), "waiting"),
        !.due = Enqueued(@, Interrupted(ledger))]

Recovered(ledger) ==
    [ledger EXCEPT
        !.attempts = [i \in DOMAIN @ |->
            CASE ledger.items[i].state = "superseded" -> Close(@[i], "superseded")
              [] ledger.items[i].state = "active" -> Reopen(@[i])
              [] OTHER -> @[i]],
        !.items = SetState(@, Interrupted(ledger), "waiting"),
        !.due = Enqueued(@, Interrupted(ledger)),
        !.leases = {}]

----------------------------------------------------------------------------
\* RecordContentResult and RecordIngressFailure.
RecordContentResult(ledger, content) == [ledger EXCEPT !.results = @ \cup {content}]

RecordIngressFailure(ledger, event) ==
    [ledger EXCEPT !.failures = @ \cup {event.delivery}]

=============================================================================
