------------------------------ MODULE Gateway ------------------------------
(***************************************************************************)
(* The decisions of internal/gateway and of the dispatcher's predicate.go  *)
(* about one webhook: whether the gateway publishes it, what the published *)
(* signal says, and which repository task, if any, the dispatcher selects  *)
(* from it.  Requests and routes are records:                              *)
(*                                                                         *)
(*   request: route, body (a readable JSON object within the limit),       *)
(*     proof (the signature or token matches a configured secret), event,  *)
(*     action, delivery, repo, ref, identity (the SHAs and times of the    *)
(*     event are well formed), object (the payload's object), number, sha, *)
(*     label, open (an open issue, no pull request, with a known sender);  *)
(*   route: source, token (manual: a token is required), tuples,           *)
(*     repositories, events, actions, publishPing, pushRefs.               *)
(***************************************************************************)
EXTENDS Naturals, FiniteSets

CONSTANT TaskRoutes          \* the dispatcher's repository_task_routes

\* The empty string of the code, which no name below is.
EmptyString == "-"

\* What Validate demands of the task routes: no two overlap, all select labelled issues.
validateRepositoryTaskRoutes(routes) ==
    /\ routes # {}
    /\ \A t \in routes : t.event = "issues" /\ t.action = "labeled" /\ t.label # EmptyString
    /\ \A t, u \in routes : t # u => t.id # u.id /\ <<t.repo, t.label>> # <<u.repo, u.label>>

\* What Validate demands of a gateway route: at most one tuple per repository and event.
ValidRoute(route) ==
    route.tuples # {} =>
        /\ route.repositories = {} /\ route.events = {} /\ route.actions = {}
        /\ \A t \in route.tuples : (t.event \in {"push", "status"}) <=> (t.actions = {})
        /\ \A t, u \in route.tuples : t # u => <<t.repo, t.event>> # <<u.repo, u.event>>

ASSUME TaskRoutesValid == validateRepositoryTaskRoutes(TaskRoutes)

NoTask == <<>>

\* An empty list allows everything.
ContainsAllowed(values, value) == values = {} \/ value \in values

CheckObjects == {"check_run", "check_suite"}

(***************************************************************************)
(* Admission.  A verdict is "publish", "ignore" or "reject".               *)
(***************************************************************************)
admitGitHubTuple(route, r) ==
    LET named == {t \in route.tuples : t.repo = r.repo /\ t.event = r.event}
    IN  IF named = {} THEN "reject"
        ELSE IF r.event = "ping" /\ ~route.publishPing THEN "ignore"
        ELSE IF r.event \in {"push", "status"} THEN "publish"
        ELSE IF \E t \in named : ContainsAllowed(t.actions, r.action) THEN "publish"
        ELSE "ignore"

admitByLists(route, r) ==
    IF ~(ContainsAllowed(route.repositories, r.repo) /\ ContainsAllowed(route.events, r.event))
    THEN "reject"
    ELSE IF r.event = "ping" /\ ~route.publishPing THEN "ignore"
    ELSE IF ContainsAllowed(route.actions, r.action) THEN "publish" ELSE "ignore"

admitGitHub(route, r) ==
    IF \/ ~r.proof
       \/ r.event = "push" /\ ~ContainsAllowed(route.pushRefs, r.ref)
       \/ r.event \in CheckObjects \cup {"push", "status"} /\ ~r.identity
    THEN "reject"
    ELSE IF route.tuples # {} THEN admitGitHubTuple(route, r) ELSE admitByLists(route, r)

admitManual(route, r) == IF route.token => r.proof THEN "publish" ELSE "reject"

Admit(r) ==
    CASE ~r.body -> "reject"
      [] r.body /\ r.route.source = "github" -> admitGitHub(r.route, r)
      [] r.body /\ r.route.source = "manual" -> admitManual(r.route, r)
      [] OTHER -> "reject"

(***************************************************************************)
(* The signal published for r.  Only GitHub requests are enriched with the *)
(* object they are about; a check on exactly one pull request is about it. *)
(* A push or status event admitted by a tuple is published without action. *)
(***************************************************************************)
objectKind(r) ==
    CASE r.event = "status" -> "commit"
      [] r.event # "status" /\ r.object \in CheckObjects ->
             IF r.number > 0 THEN "pull_request" ELSE "commit"
      [] r.event # "status" /\ r.object = "none" -> r.event
      [] OTHER -> r.object

Signal(r) ==
    [source |-> r.route.source, event |-> r.event,
     action |-> IF /\ r.route.source = "github" /\ r.route.tuples # {}
                   /\ r.event \in {"push", "status"} THEN EmptyString ELSE r.action,
     delivery |-> r.delivery,
     namespace |-> IF r.route.source = "github" THEN r.repo ELSE EmptyString,
     kind |-> IF r.route.source = "github" THEN objectKind(r) ELSE EmptyString,
     verified |-> IF r.route.source = "github" THEN TRUE ELSE r.route.token,
     sha |-> r.sha,
     payload |-> [action |-> r.action, repo |-> r.repo, number |-> r.number, label |-> r.label,
                  open |-> r.open]]

(***************************************************************************)
(* Selection: the semantic key of the task a signal asks for, or NoTask.   *)
(***************************************************************************)
\* Mutant: whatever the label.
MatchingAnyLabel(g) ==
    {t \in TaskRoutes : /\ t.repo = g.payload.repo
                        /\ t.event = g.event
                        /\ t.action = g.payload.action}

Matching(g) ==
    {t \in TaskRoutes : /\ t.repo = g.payload.repo
                        /\ t.event = g.event
                        /\ t.action = g.payload.action
                        /\ t.label = g.payload.label}

Select(g) ==
    IF /\ g.source = "github" /\ g.event = "issues" /\ g.action = "labeled"
       /\ g.delivery # EmptyString
       /\ g.payload.number > 0 /\ g.payload.open
       /\ Cardinality(Matching(g)) = 1
    THEN LET t == CHOOSE t \in Matching(g) : TRUE
         IN  <<t.id, g.payload.repo, g.payload.number>>
    ELSE NoTask

routeOwnsRepository(namespace) == \E t \in TaskRoutes : t.repo = namespace

isCIWakeEvent(event) == event \in {"check_run", "check_suite", "status", "pull_request"}
=============================================================================
