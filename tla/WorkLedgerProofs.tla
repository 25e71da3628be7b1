------------------------- MODULE WorkLedgerProofs -------------------------
(***************************************************************************)
(* What the tables of WorkLedger have to do with each other, for any       *)
(* routes, facts, messages and contents: every transaction keeps it. Then  *)
(* the inductive invariant of WorkRouter, which the steps of start-up and  *)
(* of the consumer keep. WorkRouterProofs goes on with the executor loop   *)
(* and has the theorems.                                                   *)
(***************************************************************************)
EXTENDS WorkRouter, TLAPS

(***************************************************************************)
(* What a ledger is, and what its tables have to do with each other.       *)
(***************************************************************************)
Events == Facts \cup {Messages[m] : m \in DOMAIN Messages}
SerialKeys == {serializationKey(r, e) : r \in RouteIds, e \in Events}
States == LiveStates \cup TerminalStates

SnapshotRows == [route : RouteIds, version : Versions, retired : BOOLEAN]
ItemRows == [snapshot : Nat, route : RouteIds, event : Events,
             content : Contents \cup {NoContent}, key : SerialKeys,
             state : States, deadline : Nat]
LeaseRows == [key : SerialKeys, item : Nat, n : Nat]
EventRows == [event : Events, item : Nat]

\* A record of the eight tables.
IsLedger(d) ==
    d = [snapshots |-> d.snapshots, items |-> d.items, attempts |-> d.attempts,
         leases |-> d.leases, due |-> d.due, events |-> d.events,
         results |-> d.results, failures |-> d.failures]

Typed(d) ==
    /\ d.snapshots \in Seq(SnapshotRows)
    /\ d.items \in Seq(ItemRows)
    /\ d.attempts \in Seq(Seq(AttemptStates))
    /\ Len(d.attempts) = Len(d.items)
    /\ d.leases \subseteq LeaseRows
    /\ d.events \subseteq EventRows
    /\ d.results \subseteq Contents

\* A route has at most one active snapshot.
OneActive(d) ==
    \A s, t \in DOMAIN d.snapshots :
        /\ ~d.snapshots[s].retired /\ ~d.snapshots[t].retired
        /\ d.snapshots[s].route = d.snapshots[t].route
        => s = t

\* Only the last attempt of an item is undecided, and it is in the state its
\* item's state allows.
AttemptsFit(attempts, state) ==
    /\ \A n \in 1 .. Len(attempts) - 1 : attempts[n] \in {"retry_scheduled", "superseded"}
    /\ state = "admitted" => Len(attempts) = 0
    /\ state \in {"active", "waiting"} => Len(attempts) > 0
    /\ state = "active" => attempts[Len(attempts)] = "running"
    /\ state = "waiting" => attempts[Len(attempts)] \in {"recoverable", "retry_scheduled"}
    /\ state # "active" /\ Len(attempts) > 0 => attempts[Len(attempts)] # "running"

Attempted(d) == \A i \in DOMAIN d.items : AttemptsFit(d.attempts[i], d.items[i].state)

\* The lease an active item holds.
LeaseOf(d, i) == [key |-> d.items[i].key, item |-> i, n |-> Len(d.attempts[i])]

LeaseInv(d) ==
    /\ \A l \in d.leases : /\ l.item \in DOMAIN d.items
                           /\ d.items[l.item].state = "active"
                           /\ l = LeaseOf(d, l.item)
    /\ \A i \in DOMAIN d.items : d.items[i].state = "active" => LeaseOf(d, i) \in d.leases
    /\ \A l, k \in d.leases : l.key = k.key => l = k

DueIsWaiting(d) ==
    \A i \in DOMAIN d.due : i \in DOMAIN d.items /\ d.items[i].state \in {"admitted", "waiting"}

\* An item is there for the delivery that created it, and for no other item's.
EventsKept(d) ==
    /\ \A e \in d.events : e.item \in DOMAIN d.items
    /\ \A i \in DOMAIN d.items : \E e \in d.events : e.event = d.items[i].event
    /\ \A i, j \in DOMAIN d.items :
          d.items[i].event.delivery = d.items[j].event.delivery => i = j

\* What was uploaded for an item that completed is recorded.
ResultsKept(d) ==
    \A i \in DOMAIN d.items :
        Routes[d.items[i].route].executor = "upload" /\ d.items[i].state = "completed"
        => d.items[i].content \in d.results

LedgerInv(d) ==
    /\ IsLedger(d) /\ Typed(d)
    /\ OneActive(d) /\ Attempted(d) /\ LeaseInv(d)
    /\ DueIsWaiting(d) /\ EventsKept(d) /\ ResultsKept(d)

-----------------------------------------------------------------------------
(* Rows, and the sequences they are kept in. *)

\* A function on 1..n is a sequence.
LEMMA SeqOf ==
    ASSUME NEW S, NEW n \in Nat, NEW f \in [1 .. n -> S]
    PROVE  f \in Seq(S) /\ Len(f) = n /\ DOMAIN f = 1 .. n
OBVIOUS

\* t is s with one more element.
Extended(S, s, t, x) ==
    /\ t \in Seq(S) /\ Len(t) = Len(s) + 1 /\ DOMAIN t = 1 .. Len(s) + 1
    /\ t[Len(s) + 1] = x /\ \A i \in 1 .. Len(s) : t[i] = s[i]

\* A row appended to a table leaves the others alone.
LEMMA Appended ==
    ASSUME NEW S, NEW s \in Seq(S), NEW x \in S, NEW t, t = Append(s, x)
    PROVE  Extended(S, s, t, x)
BY DEF Extended

\* t is s with its element i set.
Replaced(S, s, t, i, x) ==
    /\ t \in Seq(S) /\ Len(t) = Len(s) /\ DOMAIN t = DOMAIN s
    /\ t[i] = x /\ \A j \in DOMAIN s : j # i => t[j] = s[j]

\* A row that is set leaves the others alone.
LEMMA RowSet ==
    ASSUME NEW S, NEW s \in Seq(S), NEW i \in DOMAIN s, NEW x \in S, NEW t, t = [s EXCEPT ![i] = x]
    PROVE  Replaced(S, s, t, i, x)
<1>1. s \in [1 .. Len(s) -> S] /\ Len(s) \in Nat /\ DOMAIN s = 1 .. Len(s)
  OBVIOUS
<1>2. /\ t \in [1 .. Len(s) -> S] /\ t[i] = x /\ \A j \in DOMAIN s : j # i => t[j] = s[j]
  BY <1>1, Zenon
<1>3. t \in Seq(S) /\ Len(t) = Len(s) /\ DOMAIN t = 1 .. Len(s)
  BY <1>1, <1>2, SeqOf, Zenon
<1> QED
  BY <1>1, <1>2, <1>3, Zenon DEF Replaced

\* The order of the numbers of attempts.
LEMMA AtLeast ==
    ASSUME NEW k \in Nat
    PROVE  k >= k
OBVIOUS

\* The indices of a table with one row more.
LEMMA OneMore ==
    ASSUME NEW k \in Nat
    PROVE  /\ k + 1 \in 1 .. k + 1
           /\ \A m \in 1 .. k + 1 : m \in 1 .. k \/ m = k + 1
           /\ \A m \in 1 .. k : m \in 1 .. k + 1
OBVIOUS

\* The indices of a ledger's tables.
LEMMA Indices ==
    ASSUME NEW d, Typed(d)
    PROVE  /\ Len(d.items) \in Nat
           /\ DOMAIN d.items = 1 .. Len(d.items)
           /\ DOMAIN d.attempts = 1 .. Len(d.items)
           /\ Len(d.snapshots) \in Nat
           /\ DOMAIN d.snapshots = 1 .. Len(d.snapshots)
BY DEF Typed

\* The rows of an item.
LEMMA RowTypes ==
    ASSUME NEW d, Typed(d), NEW i \in DOMAIN d.items
    PROVE  /\ d.items[i] \in ItemRows
           /\ d.attempts[i] \in Seq(AttemptStates)
           /\ Len(d.attempts[i]) \in Nat
           /\ DOMAIN d.attempts[i] = 1 .. Len(d.attempts[i])
BY DEF Typed

\* A snapshot's row.
LEMMA SnapshotRow ==
    ASSUME NEW d, Typed(d), NEW s \in DOMAIN d.snapshots
    PROVE  s \in Nat /\ d.snapshots[s].route \in RouteIds
<1>1. d.snapshots \in Seq(SnapshotRows)
  BY Zenon DEF Typed
<1>2. s \in Nat /\ d.snapshots[s] \in SnapshotRows
  BY <1>1
<1> QED
  BY <1>2, Zenon DEF SnapshotRows

\* An item whose state is set.
LEMMA StateSet ==
    ASSUME NEW r \in ItemRows, NEW s \in States
    PROVE  LET q == [r EXCEPT !.state = s]
           IN  /\ q \in ItemRows /\ q.state = s
               /\ q.route = r.route /\ q.event = r.event /\ q.content = r.content
               /\ q.key = r.key /\ q.deadline = r.deadline /\ q.snapshot = r.snapshot
BY Zenon DEF ItemRows

\* q is the row r with its state and its deadline set.
RowDecided(q, r, s, t) ==
    /\ q \in ItemRows /\ q.state = s /\ q.deadline = t
    /\ q.route = r.route /\ q.event = r.event /\ q.content = r.content /\ q.key = r.key

\* An item whose state and deadline are set.
LEMMA StateDeadlineSet ==
    ASSUME NEW r \in ItemRows, NEW s \in States, NEW t \in Nat,
           NEW q, q = [r EXCEPT !.state = s, !.deadline = t]
    PROVE  RowDecided(q, r, s, t)
BY Zenon DEF ItemRows, RowDecided

\* Closing and reopening attempts leaves their number.
LEMMA CloseReopen ==
    ASSUME NEW a \in Seq(AttemptStates)
    PROVE  /\ Close(a, "superseded") \in Seq(AttemptStates)
           /\ Len(Close(a, "superseded")) = Len(a)
           /\ \A n \in 1 .. Len(a) : Close(a, "superseded")[n] =
                 IF a[n] \in OpenAttempts THEN "superseded" ELSE a[n]
           /\ Reopen(a) \in Seq(AttemptStates)
           /\ Len(Reopen(a)) = Len(a)
           /\ \A n \in 1 .. Len(a) : Reopen(a)[n] = IF a[n] = "running" THEN "recoverable" ELSE a[n]
<1>1. Len(a) \in Nat /\ DOMAIN a = 1 .. Len(a) /\ \A n \in 1 .. Len(a) : a[n] \in AttemptStates
  OBVIOUS
<1>2. Close(a, "superseded") \in [1 .. Len(a) -> AttemptStates]
  BY <1>1, Zenon DEF Close, AttemptStates, OpenAttempts
<1>3. Reopen(a) \in [1 .. Len(a) -> AttemptStates]
  BY <1>1, Zenon DEF Reopen, AttemptStates, OpenAttempts
<1>4. \A n \in 1 .. Len(a) : Close(a, "superseded")[n] =
                 IF a[n] \in OpenAttempts THEN "superseded" ELSE a[n]
  BY <1>1, Zenon DEF Close
<1>5. \A n \in 1 .. Len(a) : Reopen(a)[n] = IF a[n] = "running" THEN "recoverable" ELSE a[n]
  BY <1>1, Zenon DEF Reopen
<1>6. Close(a, "superseded") \in Seq(AttemptStates) /\ Len(Close(a, "superseded")) = Len(a)
  BY <1>1, <1>2, SeqOf, Zenon
<1>7. Reopen(a) \in Seq(AttemptStates) /\ Len(Reopen(a)) = Len(a)
  BY <1>1, <1>3, SeqOf, Zenon
<1> QED
  BY <1>4, <1>5, <1>6, <1>7, Zenon

-----------------------------------------------------------------------------
(* The transactions of the ledger: each keeps LedgerInv. *)

\* What no transaction takes back: items, their finished states and their attempts,
\* recorded deliveries, results and failures.
Later(d, e) ==
    /\ \A i \in DOMAIN d.items :
          /\ i \in DOMAIN e.items
          /\ e.items[i].route = d.items[i].route
          /\ e.items[i].event = d.items[i].event
          /\ e.items[i].content = d.items[i].content
          /\ Len(e.attempts[i]) >= Len(d.attempts[i])
          /\ d.items[i].state \in TerminalStates => e.items[i].state = d.items[i].state
    /\ d.events \subseteq e.events /\ d.results \subseteq e.results
    /\ d.failures \subseteq e.failures

\* No attempt starts and no wait begins.
Quiet(d, e) ==
    /\ \A i \in DOMAIN d.items :
          /\ Len(e.attempts[i]) = Len(d.attempts[i])
          /\ e.items[i].deadline = d.items[i].deadline
          /\ e.items[i].state = "active" => d.items[i].state = "active"
          /\ e.items[i].state = "admitted" => d.items[i].state = "admitted"
    /\ \A i \in DOMAIN e.items : i \notin DOMAIN d.items =>
          e.items[i].deadline = 0 /\ e.items[i].state = "admitted"

\* A ledger with the same items and attempts, and no fewer rows elsewhere.
LEMMA SameItems ==
    ASSUME NEW d, Typed(d), NEW e, e.items = d.items, e.attempts = d.attempts,
           d.events \subseteq e.events, d.results \subseteq e.results,
           d.failures \subseteq e.failures
    PROVE  Later(d, e) /\ Quiet(d, e)
<1>1. \A i \in DOMAIN d.items : Len(d.attempts[i]) \in Nat
  BY RowTypes, Zenon
<1> QED
  BY <1>1 DEF Later, Quiet

\* A ledger that differs in its snapshots, results or failures only.
LEMMA OtherTables ==
    ASSUME NEW d, LedgerInv(d), NEW e, IsLedger(e), Typed(e), OneActive(e),
           e.items = d.items, e.attempts = d.attempts, e.leases = d.leases,
           e.due = d.due, e.events = d.events,
           d.results \subseteq e.results, d.failures \subseteq e.failures
    PROVE  LedgerInv(e) /\ Later(d, e) /\ Quiet(d, e)
<1>1. /\ Attempted(e) /\ DueIsWaiting(e) /\ EventsKept(e)
  BY DEF LedgerInv, Attempted, DueIsWaiting, EventsKept
<1>2. LeaseInv(e)
  BY Zenon DEF LedgerInv, LeaseInv, LeaseOf
<1>3. ResultsKept(e)
  BY Zenon DEF LedgerInv, ResultsKept
<1>4. Later(d, e) /\ Quiet(d, e)
  BY SameItems, Zenon DEF LedgerInv
<1> QED
  BY <1>1, <1>2, <1>3, <1>4, Zenon DEF LedgerInv

\* saveRoute: the route has one active snapshot then, and other routes keep theirs.
LEMMA SaveRouteKeeps ==
    ASSUME NEW d, LedgerInv(d), NEW r \in RouteIds, NEW v \in Versions
    PROVE  LET e == saveRoute(d, r, v)
           IN  /\ LedgerInv(e) /\ Later(d, e) /\ Quiet(d, e)
               /\ \E s \in Nat \ {0} : ActiveSnapshots(e, r) = {s}
               /\ \A q \in RouteIds \ {r} : ActiveSnapshots(e, q) = ActiveSnapshots(d, q)
<1> DEFINE e == saveRoute(d, r, v)
           n == Len(d.snapshots)
<1>1. /\ n \in Nat /\ DOMAIN d.snapshots = 1 .. n
      /\ \A s \in 1 .. n : d.snapshots[s] \in SnapshotRows
      /\ \A s, t \in 1 .. n : /\ ~d.snapshots[s].retired /\ ~d.snapshots[t].retired
                              /\ d.snapshots[s].route = d.snapshots[t].route
                              => s = t
  BY Indices DEF LedgerInv, Typed, OneActive
<1>2. CASE \E s \in ActiveSnapshots(d, r) : d.snapshots[s].version = v
  <2>1. e = d
    BY <1>2, Zenon DEF saveRoute
  <2>2. PICK s \in ActiveSnapshots(d, r) : TRUE
    BY <1>2, Zenon
  <2>3. s \in Nat \ {0} /\ ActiveSnapshots(d, r) = {s}
    BY <1>1, <2>2 DEF ActiveSnapshots
  <2>4. LedgerInv(d) /\ Later(d, d) /\ Quiet(d, d)
    BY OtherTables, Zenon DEF LedgerInv
  <2> QED
    BY <2>1, <2>3, <2>4, Zenon
<1>3. CASE ~\E s \in ActiveSnapshots(d, r) : d.snapshots[s].version = v
  <2> DEFINE old == Retire(d.snapshots, r)
             new == [route |-> r, version |-> v, retired |-> FALSE]
             all == Append(old, new)
  <2>1. e = [d EXCEPT !.snapshots = all]
    BY <1>3, Zenon DEF saveRoute
  <2>2. /\ e.snapshots = all /\ IsLedger(e)
        /\ e.items = d.items /\ e.attempts = d.attempts /\ e.leases = d.leases
        /\ e.due = d.due /\ e.events = d.events
        /\ e.results = d.results /\ e.failures = d.failures
    <3> HIDE DEF all, e
    <3> QED
      BY <2>1, Zenon DEF LedgerInv, IsLedger
  <2>3. /\ old \in [1 .. n -> SnapshotRows]
        /\ \A s \in 1 .. n : /\ old[s].route = d.snapshots[s].route
                             /\ old[s].retired = (d.snapshots[s].retired \/ d.snapshots[s].route = r)
    BY <1>1, Zenon DEF SnapshotRows, Retire
  <2>4. new \in SnapshotRows /\ new.route = r /\ new.retired = FALSE
    BY Zenon DEF SnapshotRows
  <2> HIDE DEF old, new
  <2>5. old \in Seq(SnapshotRows) /\ Len(old) = n
    BY <1>1, <2>3, SeqOf
  <2>6. /\ all \in Seq(SnapshotRows) /\ DOMAIN all = 1 .. n + 1
        /\ all[n + 1] = new /\ \A s \in 1 .. n : all[s] = old[s]
    BY <1>1, <2>4, <2>5
  <2> HIDE DEF all, e
  <2>7. \A s \in 1 .. n + 1 : s \in 1 .. n \/ s = n + 1
    BY <1>1
  <2>8. ActiveSnapshots(e, r) = {n + 1}
    <3>1. \A s \in 1 .. n : all[s].route = r => all[s].retired
      BY <2>3, <2>6, Zenon
    <3>2. ActiveSnapshots(e, r) = {s \in 1 .. n + 1 : all[s].route = r /\ ~all[s].retired}
      BY <2>2, <2>6, Zenon DEF ActiveSnapshots
    <3>3. n + 1 \in 1 .. n + 1
      BY <1>1
    <3> QED
      BY <2>4, <2>6, <2>7, <3>1, <3>2, <3>3, Zenon
  <2>9. ASSUME NEW q \in RouteIds \ {r}
        PROVE  ActiveSnapshots(e, q) = ActiveSnapshots(d, q)
    <3>1. \A s \in 1 .. n : /\ all[s].route = d.snapshots[s].route
                            /\ all[s].route = q => (all[s].retired <=> d.snapshots[s].retired)
      <4>1. ASSUME NEW s \in 1 .. n, all[s].route = q
            PROVE  all[s].retired <=> d.snapshots[s].retired
        BY <2>3, <2>6, <4>1, Zenon
      <4> QED
        BY <2>3, <2>6, <4>1, Zenon
    <3>2. ActiveSnapshots(e, q) = {s \in 1 .. n + 1 : all[s].route = q /\ ~all[s].retired}
      BY <2>2, <2>6, Zenon DEF ActiveSnapshots
    <3>3. ActiveSnapshots(d, q) = {s \in 1 .. n : d.snapshots[s].route = q /\ ~d.snapshots[s].retired}
      BY <1>1, Zenon DEF ActiveSnapshots
    <3>4. 1 .. n \subseteq 1 .. n + 1
      BY <1>1
    <3> QED
      BY <2>4, <2>6, <2>7, <3>1, <3>2, <3>3, <3>4
  <2>10. OneActive(e)
    <3> SUFFICES ASSUME NEW s \in 1 .. n + 1, NEW t \in 1 .. n + 1,
                        ~all[s].retired, ~all[t].retired, all[s].route = all[t].route
                 PROVE  s = t
      BY <2>2, <2>6, Zenon DEF OneActive
    <3>1. s \in 1 .. n => all[s].route # r /\ ~d.snapshots[s].retired /\ all[s].route = d.snapshots[s].route
      BY <2>3, <2>6, Zenon
    <3>2. t \in 1 .. n => all[t].route # r /\ ~d.snapshots[t].retired /\ all[t].route = d.snapshots[t].route
      BY <2>3, <2>6, Zenon
    <3> QED
      BY <1>1, <2>4, <2>6, <2>7, <3>1, <3>2, Zenon
  <2>11. Typed(e)
    BY <2>2, <2>6, Zenon DEF LedgerInv, Typed
  <2>12. LedgerInv(e) /\ Later(d, e) /\ Quiet(d, e)
    BY <2>2, <2>10, <2>11, OtherTables, Zenon
  <2> QED
    BY <1>1, <2>8, <2>9, <2>12 DEF e
<1> QED
  BY <1>2, <1>3, Zenon
\* UPDATE work_items SET state: the rows it leaves and the rows it moves.
StateRows(items, new, these, st) ==
    /\ new \in Seq(ItemRows) /\ Len(new) = Len(items) /\ DOMAIN new = DOMAIN items
    /\ \A i \in DOMAIN items :
          /\ new[i].route = items[i].route /\ new[i].event = items[i].event
          /\ new[i].content = items[i].content /\ new[i].key = items[i].key
          /\ new[i].deadline = items[i].deadline
          /\ new[i].state = IF i \in these THEN st ELSE items[i].state

\* SetState does that.
LEMMA SetStateRows ==
    ASSUME NEW items \in Seq(ItemRows), NEW these, NEW st \in States
    PROVE  StateRows(items, SetState(items, these, st), these, st)
<1> DEFINE new == SetState(items, these, st)
           to(i) == [items[i] EXCEPT !.state = st]
<1>1. Len(items) \in Nat /\ DOMAIN items = 1 .. Len(items) /\ \A i \in DOMAIN items : items[i] \in ItemRows
  OBVIOUS
<1>2. \A i \in DOMAIN items :
         /\ to(i) \in ItemRows /\ to(i).state = st
         /\ to(i).route = items[i].route /\ to(i).event = items[i].event
         /\ to(i).content = items[i].content /\ to(i).key = items[i].key
         /\ to(i).deadline = items[i].deadline
  BY <1>1, StateSet
<1>3. new = [i \in DOMAIN items |-> IF i \in these THEN to(i) ELSE items[i]]
  BY Zenon DEF SetState
<1> HIDE DEF to, new
<1>4. new \in [1 .. Len(items) -> ItemRows]
  BY <1>1, <1>2, <1>3, Zenon
<1>5. new \in Seq(ItemRows) /\ Len(new) = Len(items) /\ DOMAIN new = 1 .. Len(items)
  BY <1>1, <1>4, SeqOf, Zenon
<1>6. ASSUME NEW i \in DOMAIN items
      PROVE  /\ new[i].route = items[i].route /\ new[i].event = items[i].event
             /\ new[i].content = items[i].content /\ new[i].key = items[i].key
             /\ new[i].deadline = items[i].deadline
             /\ new[i].state = IF i \in these THEN st ELSE items[i].state
  <2>1. CASE i \in these
    BY <1>2, <1>3, <2>1, Zenon
  <2>2. CASE i \notin these
    BY <1>3, <2>2, Zenon
  <2> QED
    BY <2>1, <2>2, Zenon
<1> QED
  BY <1>1, <1>5, <1>6, Zenon DEF new, StateRows

\* Attempts that are closed stay in the order AttemptsFit asks for.
LEMMA Closed ==
    ASSUME NEW a \in Seq(AttemptStates), NEW st, AttemptsFit(a, st)
    PROVE  AttemptsFit(Close(a, "superseded"), "superseded")
<1> DEFINE c == Close(a, "superseded")
<1>1. /\ Len(a) \in Nat /\ Len(c) = Len(a)
      /\ \A n \in 1 .. Len(a) : c[n] = IF a[n] \in OpenAttempts THEN "superseded" ELSE a[n]
  BY CloseReopen
<1> HIDE DEF c
<1>2. \A n \in 1 .. Len(a) - 1 : n \in 1 .. Len(a)
  BY <1>1
<1>3. Len(a) > 0 => Len(a) \in 1 .. Len(a)
  BY <1>1
<1>4. \A n \in 1 .. Len(c) - 1 : c[n] \in {"retry_scheduled", "superseded"}
  BY <1>1, <1>2, Zenon DEF AttemptsFit
<1>5. Len(c) > 0 => c[Len(c)] # "running"
  BY <1>1, <1>3, Zenon DEF OpenAttempts
<1> QED
  BY <1>4, <1>5, Zenon DEF AttemptsFit, c

\* An interrupted item's last attempt is recoverable.
LEMMA Reopened ==
    ASSUME NEW a \in Seq(AttemptStates), AttemptsFit(a, "active")
    PROVE  AttemptsFit(Reopen(a), "waiting")
<1> DEFINE c == Reopen(a)
<1>1. /\ Len(a) \in Nat /\ Len(c) = Len(a)
      /\ \A n \in 1 .. Len(a) : c[n] = IF a[n] = "running" THEN "recoverable" ELSE a[n]
  BY CloseReopen
<1> HIDE DEF c
<1>2. \A n \in 1 .. Len(a) - 1 : n \in 1 .. Len(a)
  BY <1>1
<1>3. Len(a) > 0 /\ Len(a) \in 1 .. Len(a) /\ a[Len(a)] = "running"
  BY <1>1 DEF AttemptsFit
<1>4. \A n \in 1 .. Len(c) - 1 : c[n] \in {"retry_scheduled", "superseded"}
  BY <1>1, <1>2, Zenon DEF AttemptsFit
<1>5. Len(c) > 0 /\ c[Len(c)] = "recoverable"
  BY <1>1, <1>3, Zenon
<1> QED
  BY <1>4, <1>5, Zenon DEF AttemptsFit, c
\* A transaction that moves live items to one state and takes their leases.
LEMMA Moves ==
    ASSUME NEW d, LedgerInv(d), NEW e, IsLedger(e),
           e.snapshots = d.snapshots, e.events = d.events,
           e.results = d.results, e.failures = d.failures,
           NEW these, NEW st \in {"superseded", "failed", "waiting"},
           \A i \in DOMAIN d.items : i \in these => d.items[i].state \in LiveStates,
           e.items = SetState(d.items, these, st),
           e.leases = {l \in d.leases : l.item \notin these},
           e.attempts \in Seq(Seq(AttemptStates)), Len(e.attempts) = Len(d.items),
           \A i \in DOMAIN d.items :
              /\ Len(e.attempts[i]) = Len(d.attempts[i])
              /\ AttemptsFit(e.attempts[i], e.items[i].state),
           DueIsWaiting(e)
    PROVE  LedgerInv(e) /\ Later(d, e) /\ Quiet(d, e)
<1>1. st \in States /\ d.items \in Seq(ItemRows)
  BY Zenon DEF States, LiveStates, TerminalStates, LedgerInv, Typed
<1>2. /\ e.items \in Seq(ItemRows) /\ Len(e.items) = Len(d.items) /\ DOMAIN e.items = DOMAIN d.items
      /\ \A i \in DOMAIN d.items :
            /\ e.items[i].route = d.items[i].route /\ e.items[i].event = d.items[i].event
            /\ e.items[i].content = d.items[i].content /\ e.items[i].key = d.items[i].key
            /\ e.items[i].deadline = d.items[i].deadline
            /\ e.items[i].state = IF i \in these THEN st ELSE d.items[i].state
  <2>1. StateRows(d.items, e.items, these, st)
    BY <1>1, SetStateRows, Zenon
  <2> QED
    BY <2>1, Zenon DEF StateRows
<1>3. Typed(e)
  BY <1>2, Zenon DEF LedgerInv, Typed
<1>4. OneActive(e) /\ Attempted(e)
  BY <1>2, Zenon DEF LedgerInv, OneActive, Attempted
<1>5. LeaseInv(e)
  <2>1. \A i \in DOMAIN d.items : LeaseOf(e, i) = LeaseOf(d, i)
    BY <1>2, Zenon DEF LeaseOf
  <2>2. \A i \in DOMAIN d.items : e.items[i].state = "active" <=>
           i \notin these /\ d.items[i].state = "active"
    BY <1>2, Zenon
  <2>3. \A i : LeaseOf(d, i).item = i
    BY Zenon DEF LeaseOf
  <2>4. LeaseInv(d)
    BY Zenon DEF LedgerInv
  <2>5. ASSUME NEW l \in e.leases
        PROVE  l.item \in DOMAIN e.items /\ e.items[l.item].state = "active" /\ l = LeaseOf(e, l.item)
    <3>1. l \in d.leases /\ l.item \notin these
      BY Zenon
    <3>2. l.item \in DOMAIN d.items /\ d.items[l.item].state = "active" /\ l = LeaseOf(d, l.item)
      BY <2>4, <3>1, Zenon DEF LeaseInv
    <3> QED
      BY <1>2, <2>1, <2>2, <3>1, <3>2, Zenon
  <2>6. ASSUME NEW i \in DOMAIN e.items, e.items[i].state = "active"
        PROVE  LeaseOf(e, i) \in e.leases
    <3>1. i \in DOMAIN d.items /\ i \notin these /\ d.items[i].state = "active"
      BY <1>2, <2>2, <2>6, Zenon
    <3>2. LeaseOf(d, i) \in d.leases
      BY <2>4, <3>1, Zenon DEF LeaseInv
    <3> QED
      BY <2>1, <2>3, <3>1, <3>2
  <2>7. \A l, k \in e.leases : l.key = k.key => l = k
    BY <2>4, Zenon DEF LeaseInv
  <2> QED
    BY <2>5, <2>6, <2>7, Zenon DEF LeaseInv
<1>6. EventsKept(e)
  <2>1. EventsKept(d)
    BY Zenon DEF LedgerInv
  <2>2. \A i \in DOMAIN e.items : i \in DOMAIN d.items /\ e.items[i].event = d.items[i].event
    BY <1>2, Zenon
  <2>3. \A i \in DOMAIN e.items : \E x \in e.events : x.event = e.items[i].event
    BY <2>1, <2>2 DEF EventsKept
  <2>4. \A x \in e.events : x.item \in DOMAIN e.items
    BY <1>2, <2>1, Zenon DEF EventsKept
  <2>5. ASSUME NEW i \in DOMAIN e.items, NEW j \in DOMAIN e.items,
               e.items[i].event.delivery = e.items[j].event.delivery
        PROVE  i = j
    <3>1. /\ i \in DOMAIN d.items /\ e.items[i].event = d.items[i].event
          /\ j \in DOMAIN d.items /\ e.items[j].event = d.items[j].event
      BY <2>2, Zenon
    <3>2. d.items[i].event.delivery = d.items[j].event.delivery
      BY <2>5, <3>1, Zenon
    <3> QED
      BY <2>1, <3>1, <3>2, Zenon DEF EventsKept
  <2> QED
    BY <2>3, <2>4, <2>5, Zenon DEF EventsKept
<1>7. ResultsKept(e)
  BY <1>2, Zenon DEF LedgerInv, ResultsKept
<1>8. \A i \in DOMAIN d.items : Len(d.attempts[i]) \in Nat
  BY RowTypes, Zenon DEF LedgerInv
<1>9. Later(d, e)
  <2>1. ASSUME NEW i \in DOMAIN d.items, d.items[i].state \in TerminalStates
        PROVE  e.items[i].state = d.items[i].state
    BY <1>2, <2>1, Zenon DEF LiveStates, TerminalStates
  <2>2. \A i \in DOMAIN d.items : Len(e.attempts[i]) >= Len(d.attempts[i])
    BY <1>8
  <2> QED
    BY <1>2, <2>1, <2>2, Zenon DEF Later
<1>10. Quiet(d, e)
  BY <1>2, Zenon DEF Quiet
<1> QED
  BY <1>3, <1>4, <1>5, <1>6, <1>7, <1>9, <1>10, Zenon DEF LedgerInv

\* Attempts given item by item are a table.
LEMMA AttemptTable ==
    ASSUME NEW d, Typed(d), NEW f,
           DOMAIN f = DOMAIN d.attempts,
           f = [i \in DOMAIN d.attempts |-> f[i]],
           \A i \in DOMAIN d.items : f[i] \in Seq(AttemptStates)
    PROVE  f \in Seq(Seq(AttemptStates)) /\ Len(f) = Len(d.items)
<1>1. f \in [1 .. Len(d.items) -> Seq(AttemptStates)]
  BY Indices, Zenon
<1> QED
  BY <1>1, Indices, SeqOf, Zenon

\* RecoverInterrupted.
LEMMA RecoveredKeeps ==
    ASSUME NEW d, LedgerInv(d)
    PROVE  LET e == Recovered(d)
           IN  /\ LedgerInv(e) /\ Later(d, e) /\ Quiet(d, e)
               /\ e.results = d.results /\ e.snapshots = d.snapshots
<1> DEFINE e == Recovered(d)
           to(i) == CASE d.items[i].state = "superseded" -> Close(d.attempts[i], "superseded")
                      [] d.items[i].state = "active" -> Reopen(d.attempts[i])
                      [] OTHER -> d.attempts[i]
           f == [i \in DOMAIN d.attempts |-> to(i)]
           these == Interrupted(d)
<1>1. e = [d EXCEPT !.attempts = f, !.items = SetState(d.items, these, "waiting"),
                    !.due = Enqueued(d.due, these), !.leases = {}]
  BY Zenon DEF Recovered
<1>2. /\ IsLedger(e) /\ e.attempts = f /\ e.items = SetState(d.items, these, "waiting")
      /\ e.due = Enqueued(d.due, these) /\ e.leases = {}
      /\ e.snapshots = d.snapshots /\ e.events = d.events
      /\ e.results = d.results /\ e.failures = d.failures
  <2> HIDE DEF e, f, these
  <2> QED
    BY <1>1, Zenon DEF LedgerInv, IsLedger
<1> HIDE DEF e
<1>3. \A i : i \in these <=> i \in DOMAIN d.items /\ d.items[i].state = "active"
  BY Zenon DEF Interrupted
<1>4. Typed(d) /\ DOMAIN d.attempts = DOMAIN d.items
  BY Indices, Zenon DEF LedgerInv
<1>5. d.items \in Seq(ItemRows) /\ "waiting" \in States
  BY <1>4, Zenon DEF Typed, States, LiveStates
<1>6. /\ DOMAIN e.items = DOMAIN d.items
      /\ \A i \in DOMAIN d.items : e.items[i].state = IF i \in these THEN "waiting" ELSE d.items[i].state
  <2>1. StateRows(d.items, e.items, these, "waiting")
    BY <1>2, <1>5, SetStateRows
  <2> QED
    BY <2>1, Zenon DEF StateRows
<1>7. ASSUME NEW i \in DOMAIN d.items
      PROVE  /\ f[i] \in Seq(AttemptStates) /\ Len(f[i]) = Len(d.attempts[i])
             /\ AttemptsFit(f[i], e.items[i].state)
  <2>1. d.attempts[i] \in Seq(AttemptStates) /\ AttemptsFit(d.attempts[i], d.items[i].state)
    BY <1>4, RowTypes, Zenon DEF LedgerInv, Attempted
  <2>2. f[i] = to(i)
    BY <1>4, Zenon
  <2>3. CASE d.items[i].state = "superseded"
    <3>1. f[i] = Close(d.attempts[i], "superseded") /\ e.items[i].state = "superseded"
      BY <1>3, <1>6, <2>2, <2>3, Zenon
    <3> QED
      BY <2>1, <3>1, CloseReopen, Closed, Zenon
  <2>4. CASE d.items[i].state = "active"
    <3>1. f[i] = Reopen(d.attempts[i]) /\ e.items[i].state = "waiting"
      BY <1>3, <1>6, <2>2, <2>4, Zenon
    <3> QED
      BY <2>1, <2>4, <3>1, CloseReopen, Reopened, Zenon
  <2>5. CASE d.items[i].state \notin {"superseded", "active"}
    <3>1. f[i] = d.attempts[i] /\ e.items[i].state = d.items[i].state
      BY <1>3, <1>6, <2>2, <2>5
    <3> QED
      BY <2>1, <3>1, Zenon
  <2> QED
    BY <2>3, <2>4, <2>5, Zenon
<1>8. f = [i \in DOMAIN d.attempts |-> f[i]] /\ DOMAIN f = DOMAIN d.attempts
  BY Zenon
<1> HIDE DEF f, these
<1>9. f \in Seq(Seq(AttemptStates)) /\ Len(f) = Len(d.items)
  BY <1>4, <1>7, <1>8, AttemptTable, Zenon
<1>10. e.leases = {l \in d.leases : l.item \notin these}
  BY <1>2, <1>3, Zenon DEF LedgerInv, LeaseInv
<1>11. DueIsWaiting(e)
  <2>1. DOMAIN e.due = DOMAIN d.due \cup these
    BY <1>2, Zenon DEF Enqueued
  <2> QED
    BY <1>3, <1>6, <2>1, Zenon DEF LedgerInv, DueIsWaiting
<1>12. \A i \in DOMAIN d.items : i \in these => d.items[i].state \in LiveStates
  BY <1>3, Zenon DEF LiveStates
<1>13. "waiting" \in {"superseded", "failed", "waiting"}
  BY Zenon
<1>14. LedgerInv(e) /\ Later(d, e) /\ Quiet(d, e)
  BY <1>2, <1>7, <1>9, <1>10, <1>11, <1>12, <1>13, Moves, Zenon
<1> QED
  BY <1>2, <1>14, Zenon DEF e
\* The deadlines Claim looks at first; what it drops is no longer due.
LEMMA FailExpiredKeeps ==
    ASSUME NEW d, LedgerInv(d), NEW od
    PROVE  LET e == FailExpired(d, od)
           IN  /\ LedgerInv(e) /\ Later(d, e) /\ Quiet(d, e)
               /\ \A i \in DOMAIN e.due : i \in DOMAIN d.items /\ i \notin Expired(d, od)
               /\ \A i \in DOMAIN d.items :
                     i \notin Expired(d, od) => e.items[i].state = d.items[i].state
               /\ e.attempts = d.attempts
               /\ e.results = d.results /\ e.snapshots = d.snapshots
<1> DEFINE e == FailExpired(d, od)
           these == Expired(d, od)
<1>1. e = [d EXCEPT !.items = SetState(d.items, these, "failed"), !.due = Dequeued(d.due, these)]
  BY Zenon DEF FailExpired
<1>2. /\ IsLedger(e) /\ e.attempts = d.attempts /\ e.items = SetState(d.items, these, "failed")
      /\ e.due = Dequeued(d.due, these) /\ e.leases = d.leases
      /\ e.snapshots = d.snapshots /\ e.events = d.events
      /\ e.results = d.results /\ e.failures = d.failures
  <2> HIDE DEF e, these
  <2> QED
    BY <1>1, Zenon DEF LedgerInv, IsLedger
<1> HIDE DEF e
<1>3. \A i : i \in these => i \in DOMAIN d.items /\ d.items[i].state = "waiting"
  BY Zenon DEF Expired
<1> HIDE DEF these
<1>4. d.items \in Seq(ItemRows) /\ "failed" \in States /\ Typed(d)
  BY Zenon DEF LedgerInv, Typed, States, TerminalStates
<1>5. /\ DOMAIN e.items = DOMAIN d.items
      /\ \A i \in DOMAIN d.items : e.items[i].state = IF i \in these THEN "failed" ELSE d.items[i].state
  <2>1. StateRows(d.items, e.items, these, "failed")
    BY <1>2, <1>4, SetStateRows, Zenon
  <2> QED
    BY <2>1, Zenon DEF StateRows
<1>6. ASSUME NEW i \in DOMAIN d.items
      PROVE  Len(e.attempts[i]) = Len(d.attempts[i]) /\ AttemptsFit(e.attempts[i], e.items[i].state)
  <2>1. AttemptsFit(d.attempts[i], d.items[i].state)
    BY Zenon DEF LedgerInv, Attempted
  <2>2. i \in these => AttemptsFit(d.attempts[i], "failed")
    BY <1>3, <2>1, Zenon DEF AttemptsFit
  <2> QED
    BY <1>2, <1>5, <2>1, <2>2, Zenon
<1>7. e.attempts \in Seq(Seq(AttemptStates)) /\ Len(e.attempts) = Len(d.items)
  BY <1>2, <1>4, Zenon DEF Typed
<1>8. e.leases = {l \in d.leases : l.item \notin these}
  BY <1>2, <1>3, Zenon DEF LedgerInv, LeaseInv
<1>9. DOMAIN e.due = DOMAIN d.due \ these
  BY <1>2, Zenon DEF Dequeued
<1>10. DueIsWaiting(e)
  BY <1>5, <1>9, Zenon DEF LedgerInv, DueIsWaiting
<1>11. \A i \in DOMAIN d.items : i \in these => d.items[i].state \in LiveStates
  BY <1>3, Zenon DEF LiveStates
<1>12. "failed" \in {"superseded", "failed", "waiting"}
  BY Zenon
<1>13. LedgerInv(e) /\ Later(d, e) /\ Quiet(d, e)
  BY <1>2, <1>6, <1>7, <1>8, <1>10, <1>11, <1>12, Moves, Zenon
<1>14. \A i \in DOMAIN e.due : i \in DOMAIN d.items /\ i \notin these
  BY <1>9, Zenon DEF LedgerInv, DueIsWaiting
<1> QED
  BY <1>2, <1>5, <1>13, <1>14, Zenon DEF e, these

\* The updates of a superseding admission.
LEMMA SupersedeKeeps ==
    ASSUME NEW d, LedgerInv(d), NEW old,
           \A i \in old : i \in DOMAIN d.items /\ d.items[i].state \in LiveStates
    PROVE  LET e == Supersede(d, old)
           IN  /\ LedgerInv(e) /\ Later(d, e) /\ Quiet(d, e)
               /\ e.events = d.events /\ e.snapshots = d.snapshots
               /\ e.results = d.results /\ e.failures = d.failures
               /\ Len(e.items) = Len(d.items)
<1> DEFINE e == Supersede(d, old)
           f == [i \in DOMAIN d.attempts |->
                    IF i \in old THEN Close(d.attempts[i], "superseded") ELSE d.attempts[i]]
           kept == {l \in d.leases : l.item \notin old}
<1>1. e = [d EXCEPT !.attempts = f, !.leases = kept,
                    !.items = SetState(d.items, old, "superseded"), !.due = Dequeued(d.due, old)]
  BY Zenon DEF Supersede
<1>2. /\ IsLedger(e) /\ e.attempts = f /\ e.items = SetState(d.items, old, "superseded")
      /\ e.due = Dequeued(d.due, old) /\ e.leases = kept
      /\ e.snapshots = d.snapshots /\ e.events = d.events
      /\ e.results = d.results /\ e.failures = d.failures
  <2> HIDE DEF e, f, kept
  <2> QED
    BY <1>1, Zenon DEF LedgerInv, IsLedger
<1> HIDE DEF e
<1>3. Typed(d) /\ DOMAIN d.attempts = DOMAIN d.items
  BY Indices, Zenon DEF LedgerInv
<1>4. d.items \in Seq(ItemRows) /\ "superseded" \in States
  BY <1>3, Zenon DEF Typed, States, TerminalStates
<1>5. /\ DOMAIN e.items = DOMAIN d.items /\ Len(e.items) = Len(d.items)
      /\ \A i \in DOMAIN d.items : e.items[i].state = IF i \in old THEN "superseded" ELSE d.items[i].state
  <2>1. StateRows(d.items, e.items, old, "superseded")
    BY <1>2, <1>4, SetStateRows
  <2> QED
    BY <2>1, Zenon DEF StateRows
<1>6. ASSUME NEW i \in DOMAIN d.items
      PROVE  /\ f[i] \in Seq(AttemptStates) /\ Len(f[i]) = Len(d.attempts[i])
             /\ AttemptsFit(f[i], e.items[i].state)
  <2>1. d.attempts[i] \in Seq(AttemptStates) /\ AttemptsFit(d.attempts[i], d.items[i].state)
    BY <1>3, RowTypes, Zenon DEF LedgerInv, Attempted
  <2>2. CASE i \in old
    <3>1. f[i] = Close(d.attempts[i], "superseded") /\ e.items[i].state = "superseded"
      BY <1>3, <1>5, <2>2, Zenon
    <3> QED
      BY <2>1, <3>1, CloseReopen, Closed
  <2>3. CASE i \notin old
    <3>1. f[i] = d.attempts[i] /\ e.items[i].state = d.items[i].state
      BY <1>3, <1>5, <2>3, Zenon
    <3> QED
      BY <2>1, <3>1, Zenon
  <2> QED
    BY <2>2, <2>3, Zenon
<1>7. f = [i \in DOMAIN d.attempts |-> f[i]] /\ DOMAIN f = DOMAIN d.attempts
  BY Zenon
<1> HIDE DEF f
<1>8. f \in Seq(Seq(AttemptStates)) /\ Len(f) = Len(d.items)
  BY <1>3, <1>6, <1>7, AttemptTable, Zenon
<1>9. DueIsWaiting(e)
  <2>1. DOMAIN e.due = DOMAIN d.due \ old
    BY <1>2, Zenon DEF Dequeued
  <2> QED
    BY <1>5, <2>1, Zenon DEF LedgerInv, DueIsWaiting
<1>10. "superseded" \in {"superseded", "failed", "waiting"}
  BY Zenon
<1>11. LedgerInv(e) /\ Later(d, e) /\ Quiet(d, e)
  BY <1>2, <1>6, <1>8, <1>9, <1>10, Moves, Zenon
<1> QED
  BY <1>2, <1>5, <1>11, Zenon DEF e

\* A scheduled item falls due.
LEMMA FallsDueKeeps ==
    ASSUME NEW d, LedgerInv(d), NEW i \in DOMAIN d.items, d.items[i].state = "waiting"
    PROVE  LET e == FallsDue(d, i)
           IN  /\ LedgerInv(e) /\ Later(d, e) /\ Quiet(d, e)
               /\ e.results = d.results /\ e.snapshots = d.snapshots
<1> DEFINE e == FallsDue(d, i)
<1>1. /\ IsLedger(e) /\ e.due = Enqueued(d.due, {i})
      /\ e.items = d.items /\ e.attempts = d.attempts /\ e.leases = d.leases
      /\ e.snapshots = d.snapshots /\ e.events = d.events
      /\ e.results = d.results /\ e.failures = d.failures
  BY DEF FallsDue, LedgerInv, IsLedger
<1> HIDE DEF e
<1>2. DOMAIN e.due = DOMAIN d.due \cup {i}
  BY <1>1, Zenon DEF Enqueued
<1>3. DueIsWaiting(e)
  BY <1>1, <1>2, Zenon DEF LedgerInv, DueIsWaiting
<1>4. Typed(e) /\ OneActive(e) /\ Attempted(e) /\ EventsKept(e) /\ ResultsKept(e)
  <2>1. Typed(e)
    BY <1>1, Zenon DEF LedgerInv, Typed
  <2>2. OneActive(e)
    BY <1>1, Zenon DEF LedgerInv, OneActive
  <2>3. Attempted(e)
    BY <1>1, Zenon DEF LedgerInv, Attempted
  <2>4. EventsKept(e)
    <3>1. EventsKept(d)
      BY Zenon DEF LedgerInv
    <3>2. ASSUME NEW j \in DOMAIN e.items
          PROVE  \E x \in e.events : x.event = e.items[j].event
      <4>1. PICK x \in d.events : x.event = d.items[j].event
        BY <1>1, <3>1, Zenon DEF EventsKept
      <4>2. x \in e.events /\ x.event = e.items[j].event
        BY <1>1, <4>1, Zenon
      <4> QED
        BY <4>2, Zenon
    <3> QED
      BY <1>1, <3>1, <3>2, Zenon DEF EventsKept
  <2>5. ResultsKept(e)
    BY <1>1, Zenon DEF LedgerInv, ResultsKept
  <2> QED
    BY <2>1, <2>2, <2>3, <2>4, <2>5, Zenon
<1>5. LeaseInv(e)
  BY <1>1, Zenon DEF LedgerInv, LeaseInv, LeaseOf
<1>6. Later(d, e) /\ Quiet(d, e)
  <2>1. \A j \in DOMAIN d.items : Len(d.attempts[j]) >= Len(d.attempts[j])
    BY RowTypes, AtLeast, Zenon DEF LedgerInv
  <2>2. Later(d, e)
    BY <1>1, <2>1, Zenon DEF Later
  <2>3. Quiet(d, e)
    BY <1>1, Zenon DEF Quiet
  <2> QED
    BY <2>2, <2>3, Zenon
<1> QED
  BY <1>1, <1>3, <1>4, <1>5, <1>6, Zenon DEF LedgerInv, e

\* RecordContentResult.
LEMMA ResultKeeps ==
    ASSUME NEW d, LedgerInv(d), NEW c \in Contents
    PROVE  LET e == RecordContentResult(d, c)
           IN  /\ LedgerInv(e) /\ Later(d, e) /\ Quiet(d, e) /\ e.snapshots = d.snapshots
               /\ e.results = d.results \cup {c} /\ e.failures = d.failures
<1> DEFINE e == RecordContentResult(d, c)
<1>1. /\ IsLedger(e) /\ e.due = d.due
      /\ e.items = d.items /\ e.attempts = d.attempts /\ e.leases = d.leases
      /\ e.snapshots = d.snapshots /\ e.events = d.events
      /\ e.results = d.results \cup {c} /\ e.failures = d.failures
  BY DEF RecordContentResult, LedgerInv, IsLedger
<1> HIDE DEF e
<1>2. Typed(e) /\ OneActive(e)
  BY <1>1, Zenon DEF LedgerInv, Typed, OneActive
<1>3. LedgerInv(e) /\ Later(d, e) /\ Quiet(d, e)
  BY <1>1, <1>2, OtherTables, Zenon
<1> QED
  BY <1>1, <1>3, Zenon DEF e

\* RecordIngressFailure.
LEMMA FailureKeeps ==
    ASSUME NEW d, LedgerInv(d), NEW event
    PROVE  LET e == RecordIngressFailure(d, event)
           IN  /\ LedgerInv(e) /\ Later(d, e) /\ Quiet(d, e) /\ e.snapshots = d.snapshots
               /\ e.results = d.results /\ e.failures = d.failures \cup {event.delivery}
<1> DEFINE e == RecordIngressFailure(d, event)
<1>1. /\ IsLedger(e) /\ e.due = d.due
      /\ e.items = d.items /\ e.attempts = d.attempts /\ e.leases = d.leases
      /\ e.snapshots = d.snapshots /\ e.events = d.events
      /\ e.results = d.results /\ e.failures = d.failures \cup {event.delivery}
  BY SMTT(20) DEF RecordIngressFailure, LedgerInv, IsLedger
<1> HIDE DEF e
<1>2. Typed(e) /\ OneActive(e)
  BY <1>1, Zenon DEF LedgerInv, Typed, OneActive
<1>3. LedgerInv(e) /\ Later(d, e) /\ Quiet(d, e)
  BY <1>1, <1>2, OtherTables, Zenon
<1> QED
  BY <1>1, <1>3, Zenon DEF e

\* Later and Quiet hold over two updates, the first of which adds no item.
LEMMA Chain ==
    ASSUME NEW c, NEW d, NEW e, Typed(c), Typed(d), Typed(e),
           Later(c, d), Quiet(c, d), Later(d, e), Quiet(d, e), DOMAIN d.items = DOMAIN c.items
    PROVE  Later(c, e) /\ Quiet(c, e)
<1>1. ASSUME NEW i \in DOMAIN c.items
      PROVE  /\ i \in DOMAIN e.items
             /\ e.items[i].route = c.items[i].route
             /\ e.items[i].event = c.items[i].event
             /\ e.items[i].content = c.items[i].content
             /\ Len(e.attempts[i]) = Len(c.attempts[i])
             /\ Len(e.attempts[i]) >= Len(c.attempts[i])
             /\ c.items[i].state \in TerminalStates => e.items[i].state = c.items[i].state
             /\ e.items[i].deadline = c.items[i].deadline
             /\ e.items[i].state = "active" => c.items[i].state = "active"
             /\ e.items[i].state = "admitted" => c.items[i].state = "admitted"
  <2>1. i \in DOMAIN d.items /\ Len(c.attempts[i]) >= Len(c.attempts[i])
    BY RowTypes, AtLeast, Zenon DEF Later
  <2>2. /\ i \in DOMAIN e.items
        /\ e.items[i].route = c.items[i].route
        /\ e.items[i].event = c.items[i].event
        /\ e.items[i].content = c.items[i].content
        /\ c.items[i].state \in TerminalStates => e.items[i].state = c.items[i].state
    BY <2>1, Zenon DEF Later
  <2>3. /\ Len(e.attempts[i]) = Len(c.attempts[i])
        /\ e.items[i].deadline = c.items[i].deadline
        /\ e.items[i].state = "active" => c.items[i].state = "active"
        /\ e.items[i].state = "admitted" => c.items[i].state = "admitted"
    BY <2>1, Zenon DEF Quiet
  <2> QED
    BY <2>1, <2>2, <2>3, Zenon
<1>2. ASSUME NEW i \in DOMAIN e.items, i \notin DOMAIN c.items
      PROVE  e.items[i].deadline = 0 /\ e.items[i].state = "admitted"
  BY <1>2, Zenon DEF Quiet
<1>3. c.events \subseteq e.events /\ c.results \subseteq e.results /\ c.failures \subseteq e.failures
  BY Zenon DEF Later
<1>4. Later(c, e)
  BY <1>1, <1>3, Zenon DEF Later
<1>5. Quiet(c, e)
  BY <1>1, <1>2, Zenon DEF Quiet
<1> QED
  BY <1>4, <1>5, Zenon

\* An item that was just admitted has no attempt.
LEMMA NoAttempts == <<>> \in Seq(AttemptStates) /\ AttemptsFit(<<>>, "admitted")
BY DEF AttemptsFit

\* A new item of a delivery that was not recorded.
LEMMA AddItem ==
    ASSUME NEW d, LedgerInv(d), NEW row \in ItemRows, row.state = "admitted", row.deadline = 0,
           ~Recorded(d, row.event), NEW e, IsLedger(e),
           e.snapshots = d.snapshots, e.leases = d.leases,
           e.results = d.results, e.failures = d.failures,
           e.items = Append(d.items, row), e.attempts = Append(d.attempts, <<>>),
           e.due = Enqueued(d.due, {Len(d.items) + 1}),
           e.events = d.events \cup {[event |-> row.event, item |-> Len(d.items) + 1]}
    PROVE  LedgerInv(e) /\ Later(d, e) /\ Quiet(d, e)
<1> DEFINE n == Len(d.items)
           new == [event |-> row.event, item |-> n + 1]
<1>1. /\ Typed(d) /\ n \in Nat /\ DOMAIN d.items = 1 .. n
      /\ d.items \in Seq(ItemRows) /\ d.attempts \in Seq(Seq(AttemptStates)) /\ Len(d.attempts) = n
  BY Indices, Zenon DEF LedgerInv, Typed
<1>2. /\ e.items \in Seq(ItemRows) /\ Len(e.items) = n + 1 /\ DOMAIN e.items = 1 .. n + 1
      /\ e.items[n + 1] = row /\ \A i \in 1 .. n : e.items[i] = d.items[i]
  <2>1. Extended(ItemRows, d.items, e.items, row)
    BY <1>1, Appended, Zenon
  <2> QED
    BY <2>1, Zenon DEF Extended
<1>3. /\ e.attempts \in Seq(Seq(AttemptStates)) /\ Len(e.attempts) = n + 1
      /\ e.attempts[n + 1] = <<>> /\ \A i \in 1 .. n : e.attempts[i] = d.attempts[i]
  <2>1. Extended(Seq(AttemptStates), d.attempts, e.attempts, <<>>)
    BY <1>1, NoAttempts, Appended, Zenon
  <2> QED
    BY <1>1, <2>1, Zenon DEF Extended
<1>4. n + 1 \in 1 .. n + 1 /\ \A i \in 1 .. n + 1 : i \in 1 .. n \/ i = n + 1
  BY <1>1, OneMore, Zenon
<1>5. \A i \in 1 .. n : i \in 1 .. n + 1
  BY <1>1, OneMore, Zenon
<1> HIDE DEF n
<1>6. row.event \in Events /\ new \in EventRows /\ new.event = row.event /\ new.item = n + 1
  BY <1>1 DEF ItemRows, EventRows
<1>7. e.events = d.events \cup {new}
  BY Zenon DEF n
<1> HIDE DEF new
<1>8. Typed(e)
  BY <1>1, <1>2, <1>3, <1>6, <1>7, Zenon DEF Typed
<1>9. OneActive(e)
  BY Zenon DEF LedgerInv, OneActive
<1>10. Attempted(e)
  <2>1. \A i \in 1 .. n : AttemptsFit(d.attempts[i], d.items[i].state)
    BY <1>1, Zenon DEF LedgerInv, Attempted
  <2>2. ASSUME NEW i \in DOMAIN e.items
        PROVE  AttemptsFit(e.attempts[i], e.items[i].state)
    <3>1. CASE i \in 1 .. n
      BY <1>2, <1>3, <2>1, <3>1, Zenon
    <3>2. CASE i = n + 1
      BY <1>2, <1>3, <3>2, NoAttempts, Zenon
    <3> QED
      BY <1>2, <1>4, <3>1, <3>2, Zenon
  <2> QED
    BY <2>2, Zenon DEF Attempted
<1>11. LeaseInv(e)
  <2>1. LeaseInv(d)
    BY Zenon DEF LedgerInv
  <2>2. \A i \in 1 .. n : LeaseOf(e, i) = LeaseOf(d, i)
    BY <1>2, <1>3, Zenon DEF LeaseOf
  <2>3. ASSUME NEW l \in e.leases
        PROVE  l.item \in DOMAIN e.items /\ e.items[l.item].state = "active" /\ l = LeaseOf(e, l.item)
    <3>1. l.item \in 1 .. n /\ d.items[l.item].state = "active" /\ l = LeaseOf(d, l.item)
      BY <1>1, <2>1, Zenon DEF LeaseInv
    <3> QED
      BY <1>2, <1>5, <2>2, <3>1, Zenon
  <2>4. ASSUME NEW i \in DOMAIN e.items, e.items[i].state = "active"
        PROVE  LeaseOf(e, i) \in e.leases
    <3>1. i \in 1 .. n /\ d.items[i].state = "active"
      BY <1>2, <1>4, <2>4, Zenon
    <3> QED
      BY <1>1, <2>1, <2>2, <3>1, Zenon DEF LeaseInv
  <2>5. \A l, k \in e.leases : l.key = k.key => l = k
    BY <2>1, Zenon DEF LeaseInv
  <2> QED
    BY <2>3, <2>4, <2>5, Zenon DEF LeaseInv
<1>12. DueIsWaiting(e)
  <2>1. DOMAIN e.due = DOMAIN d.due \cup {n + 1}
    BY Zenon DEF Enqueued, n
  <2>2. \A i \in DOMAIN d.due : i \in 1 .. n /\ d.items[i].state \in {"admitted", "waiting"}
    BY <1>1, Zenon DEF LedgerInv, DueIsWaiting
  <2> QED
    BY <1>2, <1>4, <1>5, <2>1, <2>2, Zenon DEF DueIsWaiting
<1>13. EventsKept(e)
  <2>1. EventsKept(d)
    BY Zenon DEF LedgerInv
  <2>2. ASSUME NEW i \in 1 .. n
        PROVE  d.items[i].event.delivery # row.event.delivery
    <3>1. PICK x \in d.events : x.event = d.items[i].event
      BY <1>1, <2>1, Zenon DEF EventsKept
    <3>2. x.event.delivery # row.event.delivery
      BY Zenon DEF Recorded
    <3> QED
      BY <3>1, <3>2, Zenon
  <2>3. \A x \in e.events : x.item \in DOMAIN e.items
    <3>1. \A x \in d.events : x.item \in 1 .. n
      BY <1>1, <2>1, Zenon DEF EventsKept
    <3> QED
      BY <1>2, <1>4, <1>5, <1>6, <1>7, <3>1, Zenon
  <2>4. ASSUME NEW i \in DOMAIN e.items
        PROVE  \E x \in e.events : x.event = e.items[i].event
    <3>1. CASE i = n + 1
      BY <1>2, <1>6, <1>7, <3>1, Zenon
    <3>2. CASE i \in 1 .. n
      <4>1. PICK x \in d.events : x.event = d.items[i].event
        BY <1>1, <2>1, <3>2, Zenon DEF EventsKept
      <4> QED
        BY <1>2, <1>7, <3>2, <4>1, Zenon
    <3> QED
      BY <1>2, <1>4, <3>1, <3>2, Zenon
  <2>5. ASSUME NEW i \in DOMAIN e.items, NEW j \in DOMAIN e.items,
               e.items[i].event.delivery = e.items[j].event.delivery
        PROVE  i = j
    <3>1. CASE i \in 1 .. n /\ j \in 1 .. n
      <4>1. e.items[i] = d.items[i] /\ e.items[j] = d.items[j]
        BY <1>2, <3>1, Zenon
      <4>2. d.items[i].event.delivery = d.items[j].event.delivery
        BY <2>5, <4>1, Zenon
      <4> QED
        BY <1>1, <2>1, <3>1, <4>2, Zenon DEF EventsKept
    <3>2. CASE i \in 1 .. n /\ j = n + 1
      BY <1>2, <2>2, <2>5, <3>2, Zenon
    <3>3. CASE i = n + 1 /\ j \in 1 .. n
      BY <1>2, <2>2, <2>5, <3>3, Zenon
    <3> QED
      BY <1>2, <1>4, <3>1, <3>2, <3>3, Zenon
  <2> QED
    BY <2>3, <2>4, <2>5, Zenon DEF EventsKept
<1>14. ResultsKept(e)
  <2>1. \A i \in 1 .. n : Routes[d.items[i].route].executor = "upload" /\ d.items[i].state = "completed"
           => d.items[i].content \in d.results
    BY <1>1, Zenon DEF LedgerInv, ResultsKept
  <2> QED
    BY <1>2, <1>4, <2>1, Zenon DEF ResultsKept
<1>15. \A i \in 1 .. n : Len(d.attempts[i]) \in Nat
  BY <1>1, RowTypes, Zenon
<1>16. Later(d, e)
  <2>1. \A i \in 1 .. n : Len(e.attempts[i]) >= Len(d.attempts[i])
    BY <1>3, <1>15, AtLeast, Zenon
  <2>2. d.events \subseteq e.events /\ DOMAIN d.items \subseteq DOMAIN e.items
    BY <1>1, <1>2, <1>5, <1>7, Zenon
  <2> QED
    BY <1>1, <1>2, <2>1, <2>2, Zenon DEF Later
<1>17. Quiet(d, e)
  BY <1>1, <1>2, <1>3, <1>4, Zenon DEF Quiet
<1> QED
  BY <1>8, <1>9, <1>10, <1>11, <1>12, <1>13, <1>14, <1>16, <1>17, Zenon DEF LedgerInv
\* admit: the delivery is recorded then, with an item of its work.
LEMMA AdmittedKeeps ==
    ASSUME NEW d, LedgerInv(d), NEW s \in DOMAIN d.snapshots, NEW event \in Events,
           NEW content \in Contents \cup {NoContent}, ~Refused(d, s, event, content)
    PROVE  LET e == Admitted(d, s, event, content)
           IN  /\ LedgerInv(e) /\ Later(d, e) /\ Quiet(d, e)
               /\ e.results = d.results /\ e.snapshots = d.snapshots
               /\ DeliveryRecorded(e, event)
<1> DEFINE e == Admitted(d, s, event, content)
           same == SameWork(d, s, event)
<1>1. CASE Recorded(d, event)
  <2>1. e = d
    BY <1>1, Zenon DEF Admitted
  <2>2. LedgerInv(d) /\ Later(d, d) /\ Quiet(d, d)
    BY OtherTables, Zenon DEF LedgerInv
  <2>3. DeliveryRecorded(d, event)
    <3>1. PICK x \in d.events : x.event.delivery = event.delivery
      BY <1>1, Zenon DEF Recorded
    <3>2. x.event = event
      BY <1>1, <3>1, Zenon DEF Refused, Conflicts
    <3> QED
      BY <3>2, Zenon DEF DeliveryRecorded
  <2> QED
    BY <2>1, <2>2, <2>3, Zenon
<1>2. CASE ~Recorded(d, event) /\ same # {}
  <2> DEFINE item == CHOOSE i \in same : TRUE
             all == d.events \cup {[event |-> event, item |-> item]}
  <2>1. e = [d EXCEPT !.events = all]
    BY <1>2, Zenon DEF Admitted
  <2>2. item \in DOMAIN d.items
    BY <1>2, Zenon DEF SameWork
  <2>3. item \in Nat
    BY <2>2, Indices DEF LedgerInv
  <2>4. [event |-> event, item |-> item] \in EventRows
    BY <2>3, Zenon DEF EventRows
  <2>5. /\ IsLedger(e) /\ e.due = d.due
        /\ e.items = d.items /\ e.attempts = d.attempts /\ e.leases = d.leases
        /\ e.snapshots = d.snapshots /\ e.events = all
        /\ e.results = d.results /\ e.failures = d.failures
    <3> HIDE DEF e, all
    <3> QED
      BY <2>1, Zenon DEF LedgerInv, IsLedger
  <2> HIDE DEF e, item
  <2>6. Typed(e) /\ OneActive(e) /\ Attempted(e) /\ DueIsWaiting(e) /\ ResultsKept(e)
    BY <2>4, <2>5, Zenon DEF LedgerInv, Typed, OneActive, Attempted, DueIsWaiting, ResultsKept
  <2>7. LeaseInv(e)
    BY <2>5, Zenon DEF LedgerInv, LeaseInv, LeaseOf
  <2>8. EventsKept(e)
    <3>1. EventsKept(d)
      BY Zenon DEF LedgerInv
    <3>2. \A x \in e.events : x.item \in DOMAIN e.items
      <4>1. [event |-> event, item |-> item].item = item
        BY Zenon
      <4> QED
        BY <2>2, <2>5, <3>1, <4>1, Zenon DEF EventsKept
    <3>3. ASSUME NEW i \in DOMAIN e.items
          PROVE  \E x \in e.events : x.event = e.items[i].event
      <4>1. PICK x \in d.events : x.event = d.items[i].event
        BY <2>5, <3>1, Zenon DEF EventsKept
      <4> QED
        BY <2>5, <4>1, Zenon
    <3> QED
      BY <2>5, <3>1, <3>2, <3>3, Zenon DEF EventsKept
  <2>9. Later(d, e) /\ Quiet(d, e)
    <3>1. d.events \subseteq e.events /\ d.results \subseteq e.results /\ d.failures \subseteq e.failures
      BY <2>5, Zenon
    <3> QED
      BY <2>5, <3>1, SameItems, Zenon DEF LedgerInv
  <2>10. DeliveryRecorded(e, event)
    <3> DEFINE x == [event |-> event, item |-> item]
    <3>1. x \in e.events /\ x.event = event
      BY <2>5, Zenon
    <3> QED
      BY <3>1, Zenon DEF DeliveryRecorded
  <2> QED
    BY <2>5, <2>6, <2>7, <2>8, <2>9, <2>10, Zenon DEF LedgerInv, e
<1>3. CASE ~Recorded(d, event) /\ same = {}
  <2> DEFINE route == d.snapshots[s].route
             old == Superseded(d, route, event)
             clear == IF Routes[route].supersede THEN Supersede(d, old) ELSE d
             n == Len(d.items)
             row == [snapshot |-> s, route |-> route, event |-> event, content |-> content,
                     key |-> serializationKey(route, event), state |-> "admitted", deadline |-> 0]
             with == NewItem(d, s, event, content)
             items == Append(clear.items, row)
             attempts == Append(clear.attempts, <<>>)
             due == Enqueued(clear.due, {n + 1})
  <2>1. with = [clear EXCEPT !.items = items, !.attempts = attempts, !.due = due]
    BY Zenon DEF NewItem
  <2>2. /\ LedgerInv(clear) /\ Later(d, clear) /\ Quiet(d, clear)
        /\ clear.events = d.events /\ clear.snapshots = d.snapshots
        /\ clear.results = d.results /\ clear.failures = d.failures
        /\ Len(clear.items) = n
    <3>1. \A i \in old : i \in DOMAIN d.items /\ d.items[i].state \in LiveStates
      BY Zenon DEF Superseded
    <3>2. Later(d, d) /\ Quiet(d, d)
      BY OtherTables, Zenon DEF LedgerInv
    <3> HIDE DEF old, route
    <3>3. LET c == Supersede(d, old)
          IN  /\ LedgerInv(c) /\ Later(d, c) /\ Quiet(d, c)
              /\ c.events = d.events /\ c.snapshots = d.snapshots
              /\ c.results = d.results /\ c.failures = d.failures
              /\ Len(c.items) = Len(d.items)
      BY <3>1, SupersedeKeeps, Zenon
    <3> QED
      BY <3>2, <3>3, Zenon
  <2>3. s \in Nat /\ route \in RouteIds
    BY SnapshotRow, Zenon DEF LedgerInv
  <2> HIDE DEF clear
  <2>4. /\ row \in ItemRows /\ row.state = "admitted" /\ row.deadline = 0 /\ row.event = event
    <3>1. serializationKey(route, event) \in SerialKeys
      BY <2>3 DEF SerialKeys
    <3> HIDE DEF route
    <3> QED
      BY <2>3, <3>1, Zenon DEF ItemRows, States, LiveStates
  <2> HIDE DEF row, items, attempts, due, with
  <2>5. /\ with.items = items /\ with.attempts = attempts /\ with.due = due
        /\ with.snapshots = clear.snapshots /\ with.leases = clear.leases
        /\ with.events = clear.events /\ with.results = clear.results
        /\ with.failures = clear.failures /\ IsLedger(with)
    BY <2>1, <2>2, Zenon DEF LedgerInv, IsLedger
  <2>6. Len(items) = n + 1
    <3>1. Extended(ItemRows, clear.items, items, row)
      BY <2>2, <2>4, Appended, Zenon DEF items, LedgerInv, Typed
    <3> QED
      BY <2>2, <3>1, Zenon DEF Extended
  <2> DEFINE all == with.events \cup {[event |-> event, item |-> n + 1]}
  <2>7. e = [with EXCEPT !.events = all]
    BY <1>3, <2>5, <2>6, Zenon DEF Admitted, with
  <2> HIDE DEF e, all, n
  <2>8. /\ IsLedger(e) /\ e.due = due
        /\ e.items = items /\ e.attempts = attempts /\ e.leases = clear.leases
        /\ e.snapshots = clear.snapshots /\ e.events = all
        /\ e.results = clear.results /\ e.failures = clear.failures
    BY <2>5, <2>7, Zenon DEF IsLedger
  <2>9. ~Recorded(clear, row.event)
    BY <1>3, <2>2, <2>4, Zenon DEF Recorded
  <2>10. /\ e.items = Append(clear.items, row) /\ e.attempts = Append(clear.attempts, <<>>)
         /\ e.due = Enqueued(clear.due, {Len(clear.items) + 1})
         /\ e.events = clear.events \cup {[event |-> row.event, item |-> Len(clear.items) + 1]}
    BY <2>2, <2>4, <2>5, <2>8, Zenon DEF items, attempts, due, all
  <2>11. LedgerInv(e) /\ Later(clear, e) /\ Quiet(clear, e)
    BY <2>2, <2>4, <2>8, <2>9, <2>10, AddItem, Zenon
  <2>12. DOMAIN clear.items = DOMAIN d.items
    BY <2>2, Indices, Zenon DEF LedgerInv, n
  <2>13. Later(d, e) /\ Quiet(d, e)
    BY <2>2, <2>11, <2>12, Chain, Zenon DEF LedgerInv
  <2>14. DeliveryRecorded(e, event)
    <3> DEFINE x == [event |-> event, item |-> n + 1]
    <3>1. x \in e.events /\ x.event = event
      BY <2>8, Zenon DEF all
    <3> HIDE DEF x
    <3> QED
      BY <3>1, Zenon DEF DeliveryRecorded
  <2> QED
    BY <2>2, <2>8, <2>11, <2>13, <2>14, Zenon DEF e
<1> QED
  BY <1>1, <1>2, <1>3, Zenon
\* The numbers up to k.
LEMMA UpTo ==
    ASSUME NEW k \in Nat
    PROVE  /\ \A m \in 1 .. k : m \in 1 .. k - 1 \/ m = k
           /\ \A m \in 1 .. k - 1 : m \in 1 .. k /\ m # k
           /\ k + 1 \notin 1 .. k /\ (k + 1) - 1 = k
           /\ k > 0 => k \in 1 .. k
OBVIOUS

\* A sequence whose last element is set.
LEMMA LastSet ==
    ASSUME NEW S, NEW a \in Seq(S), NEW x \in S, Len(a) > 0, NEW b, b = [a EXCEPT ![Len(a)] = x]
    PROVE  /\ b \in Seq(S) /\ Len(b) = Len(a) /\ b[Len(a)] = x
           /\ \A m \in 1 .. Len(a) - 1 : b[m] = a[m]
<1> DEFINE k == Len(a)
<1>1. k \in Nat /\ a \in [1 .. k -> S] /\ k > 0 /\ b = [a EXCEPT ![k] = x]
  OBVIOUS
<1>2. k \in 1 .. k /\ \A m \in 1 .. k - 1 : m \in 1 .. k /\ m # k
  BY <1>1, UpTo, Zenon
<1> HIDE DEF k
<1>3. b \in [1 .. k -> S] /\ b[k] = x /\ \A m \in 1 .. k - 1 : b[m] = a[m]
  BY <1>1, <1>2, Zenon
<1>4. b \in Seq(S) /\ Len(b) = k
  BY <1>1, <1>3, SeqOf, Zenon
<1> QED
  BY <1>3, <1>4, Zenon DEF k

\* Attempts b of an item, the last of which, n, now runs.
Reclaimed(a, b, n) ==
    /\ b \in Seq(AttemptStates) /\ n \in Nat /\ n > 0 /\ Len(b) = n /\ n >= Len(a)
    /\ AttemptsFit(b, "active")

\* The attempt a claim runs becomes the item's last one.
LEMMA ClaimedAttempt ==
    ASSUME NEW d, Typed(d), NEW i \in DOMAIN d.items,
           AttemptsFit(d.attempts[i], d.items[i].state),
           d.items[i].state \in {"admitted", "waiting"}
    PROVE  LET n == AttemptFor(d, i)
               a == d.attempts[i]
               b == IF n \in DOMAIN a THEN [a EXCEPT ![n] = "running"] ELSE Append(a, "running")
           IN  Reclaimed(a, b, n)
<1> DEFINE a == d.attempts[i]
           n == AttemptFor(d, i)
           b == IF n \in DOMAIN a THEN [a EXCEPT ![n] = "running"] ELSE Append(a, "running")
           R == Recoverable(d, i)
<1>1. a \in Seq(AttemptStates) /\ Len(a) \in Nat /\ DOMAIN a = 1 .. Len(a)
  BY RowTypes, Zenon
<1>2. R = {m \in 1 .. Len(a) : a[m] = "recoverable"}
  BY <1>1, Zenon DEF Recoverable
<1>3. n = IF R # {} THEN CHOOSE m \in R : \A k \in R : k <= m ELSE Len(a) + 1
  BY Zenon DEF AttemptFor
<1>4. /\ \A m \in 1 .. Len(a) - 1 : a[m] \in {"retry_scheduled", "superseded"}
      /\ Len(a) > 0 => a[Len(a)] \in {"recoverable", "retry_scheduled"}
  BY <1>1 DEF AttemptsFit
<1> HIDE DEF a, n, R
<1>5. \A m \in 1 .. Len(a) : m \in 1 .. Len(a) - 1 \/ m = Len(a)
  BY <1>1, UpTo, Zenon
<1>6. R \subseteq {Len(a)}
  BY <1>2, <1>4, <1>5, Zenon
<1>7. ASSUME R # {} PROVE Reclaimed(a, b, n)
  <2>1. R = {Len(a)} /\ Len(a) \in 1 .. Len(a)
    BY <1>2, <1>6, <1>7, Zenon
  <2>2. n = Len(a)
    BY <1>1, <1>3, <2>1
  <2>3. b = [a EXCEPT ![n] = "running"] /\ n \in 1 .. Len(a) /\ n > 0
    BY <1>1, <2>1, <2>2
  <2>4. "running" \in AttemptStates
    BY Zenon DEF AttemptStates, OpenAttempts
  <2> HIDE DEF b
  <2>5. /\ b \in Seq(AttemptStates) /\ Len(b) = n
        /\ b[n] = "running" /\ \A m \in 1 .. Len(a) - 1 : b[m] = a[m]
    <3>1. a \in Seq(AttemptStates) /\ Len(a) > 0 /\ b = [a EXCEPT ![Len(a)] = "running"]
      BY <1>1, <2>2, <2>3, Zenon
    <3>2. /\ b \in Seq(AttemptStates) /\ Len(b) = Len(a) /\ b[Len(a)] = "running"
          /\ \A m \in 1 .. Len(a) - 1 : b[m] = a[m]
      BY <2>4, <3>1, LastSet
    <3> QED
      BY <2>2, <3>2, Zenon
  <2>7. AttemptsFit(b, "active")
    BY <1>4, <2>2, <2>3, <2>5, Zenon DEF AttemptsFit
  <2>8. n \in Nat /\ n >= Len(a)
    BY <1>1, <2>2, AtLeast, Zenon
  <2> QED
    BY <2>3, <2>5, <2>7, <2>8, Zenon DEF Reclaimed
<1>8. ASSUME R = {} PROVE Reclaimed(a, b, n)
  <2>1. n = Len(a) + 1
    BY <1>3, <1>8, Zenon
  <2>2. b = Append(a, "running")
    <3>1. n \notin DOMAIN a
      BY <1>1, <2>1, UpTo, Zenon
    <3> QED
      BY <3>1, Zenon
  <2>3. "running" \in AttemptStates
    BY DEF AttemptStates, OpenAttempts
  <2> HIDE DEF b
  <2>4. b \in Seq(AttemptStates) /\ Len(b) = n /\ b[n] = "running" /\ \A m \in 1 .. Len(a) : b[m] = a[m]
    <3>1. Extended(AttemptStates, a, b, "running")
      BY <1>1, <2>2, <2>3, Appended, Zenon
    <3> QED
      BY <2>1, <3>1, Zenon DEF Extended
  <2>5. \A m \in 1 .. Len(b) - 1 : m \in 1 .. Len(a)
    BY <1>1, <2>1, <2>4
  <2>6. \A m \in 1 .. Len(a) : a[m] # "recoverable"
    BY <1>2, <1>8, Zenon
  <2>7. \A m \in 1 .. Len(a) : a[m] \in {"retry_scheduled", "superseded"}
    BY <1>4, <1>5, <2>6
  <2>8. AttemptsFit(b, "active")
    BY <1>1, <2>1, <2>4, <2>5, <2>7 DEF AttemptsFit
  <2>9. n \in Nat /\ n > 0 /\ n >= Len(a)
    BY <1>1, <2>1
  <2> QED
    BY <2>4, <2>8, <2>9, Zenon DEF Reclaimed
<1> QED
  BY <1>7, <1>8, Zenon DEF a, b, n

\* A transaction on the rows of one live item.
LEMMA OneRow ==
    ASSUME NEW d, LedgerInv(d), NEW e, IsLedger(e), NEW i \in DOMAIN d.items,
           d.items[i].state \in LiveStates,
           e.snapshots = d.snapshots, e.events = d.events,
           e.results = d.results, e.failures = d.failures,
           e.items \in Seq(ItemRows), Len(e.items) = Len(d.items),
           \A j \in DOMAIN d.items :
              /\ e.items[j].route = d.items[j].route /\ e.items[j].event = d.items[j].event
              /\ e.items[j].content = d.items[j].content
              /\ j # i => e.items[j].state = d.items[j].state,
           NEW a \in Seq(AttemptStates), e.attempts = [d.attempts EXCEPT ![i] = a],
           Len(a) >= Len(d.attempts[i]), AttemptsFit(a, e.items[i].state),
           e.items[i].state = "completed" /\ Routes[d.items[i].route].executor = "upload"
              => d.items[i].content \in d.results,
           LeaseInv(e), e.leases \subseteq LeaseRows, DueIsWaiting(e)
    PROVE  LedgerInv(e) /\ Later(d, e) /\ DOMAIN e.items = DOMAIN d.items
<1>1. /\ Typed(d) /\ DOMAIN d.attempts = DOMAIN d.items /\ DOMAIN d.items = 1 .. Len(d.items)
      /\ Len(d.items) \in Nat /\ d.attempts \in Seq(Seq(AttemptStates))
  BY Indices, Zenon DEF LedgerInv, Typed
<1>2. DOMAIN e.items = DOMAIN d.items
  BY <1>1, SMTT(20)
<1>3. e.attempts[i] = a /\ \A j \in DOMAIN d.items : j # i => e.attempts[j] = d.attempts[j]
  BY <1>1, Zenon
<1>4. e.attempts \in Seq(Seq(AttemptStates)) /\ Len(e.attempts) = Len(d.items)
  <2>1. Replaced(Seq(AttemptStates), d.attempts, e.attempts, i, a)
    BY <1>1, RowSet, Zenon
  <2>2. Len(d.attempts) = Len(d.items)
    BY <1>1, Zenon DEF Typed
  <2> QED
    BY <2>1, <2>2, Zenon DEF Replaced
<1>5. Typed(e)
  BY <1>4, Zenon DEF LedgerInv, Typed
<1>6. OneActive(e)
  BY Zenon DEF LedgerInv, OneActive
<1>7. Attempted(e)
  <2>1. \A j \in DOMAIN d.items : AttemptsFit(d.attempts[j], d.items[j].state)
    BY Zenon DEF LedgerInv, Attempted
  <2>2. ASSUME NEW j \in DOMAIN d.items
        PROVE  AttemptsFit(e.attempts[j], e.items[j].state)
    <3>1. CASE j = i
      BY <1>3, <3>1, Zenon
    <3>2. CASE j # i
      BY <1>3, <2>1, <3>2, Zenon
    <3> QED
      BY <3>1, <3>2, Zenon
  <2> QED
    BY <1>2, <2>2, Zenon DEF Attempted
<1>8. EventsKept(e)
  <2>1. EventsKept(d)
    BY Zenon DEF LedgerInv
  <2>2. \A j \in DOMAIN d.items : e.items[j].event = d.items[j].event
    BY Zenon
  <2>3. ASSUME NEW j \in DOMAIN e.items
        PROVE  \E x \in e.events : x.event = e.items[j].event
    <3>1. PICK x \in d.events : x.event = d.items[j].event
      BY <1>2, <2>1, Zenon DEF EventsKept
    <3>2. x \in e.events /\ x.event = e.items[j].event
      BY <1>2, <2>2, <3>1, Zenon
    <3> QED
      BY <3>2, Zenon
  <2>4. \A x \in e.events : x.item \in DOMAIN e.items
    BY <1>2, <2>1, Zenon DEF EventsKept
  <2>5. ASSUME NEW j \in DOMAIN e.items, NEW k \in DOMAIN e.items,
               e.items[j].event.delivery = e.items[k].event.delivery
        PROVE  j = k
    BY <1>2, <2>1, <2>2, <2>5, Zenon DEF EventsKept
  <2> QED
    BY <2>3, <2>4, <2>5, Zenon DEF EventsKept
<1>9. ResultsKept(e)
  <2>1. ResultsKept(d)
    BY Zenon DEF LedgerInv
  <2>2. ASSUME NEW j \in DOMAIN d.items, e.items[j].state = "completed",
               Routes[e.items[j].route].executor = "upload"
        PROVE  e.items[j].content \in e.results
    <3>1. CASE j = i
      BY <2>2, <3>1, Zenon
    <3>2. CASE j # i
      BY <2>1, <2>2, <3>2, Zenon DEF ResultsKept
    <3> QED
      BY <3>1, <3>2, Zenon
  <2> QED
    BY <1>2, <2>2, Zenon DEF ResultsKept
<1>10. Later(d, e)
  <2>1. \A j \in DOMAIN d.items : Len(d.attempts[j]) >= Len(d.attempts[j])
    BY <1>1, RowTypes, AtLeast, Zenon
  <2>2. ASSUME NEW j \in DOMAIN d.items
        PROVE  Len(e.attempts[j]) >= Len(d.attempts[j])
    <3>1. CASE j = i
      BY <1>3, <3>1, Zenon
    <3>2. CASE j # i
      BY <1>3, <2>1, <3>2, Zenon
    <3> QED
      BY <3>1, <3>2, Zenon
  <2>3. \A j \in DOMAIN d.items : d.items[j].state \in TerminalStates => e.items[j].state = d.items[j].state
    BY Zenon DEF LiveStates, TerminalStates
  <2> QED
    BY <1>2, <2>2, <2>3, Zenon DEF Later
<1> QED
  BY <1>2, <1>5, <1>6, <1>7, <1>8, <1>9, <1>10, Zenon DEF LedgerInv

\* Claim of a due item whose key is not leased.
LEMMA ClaimedKeeps ==
    ASSUME NEW d, LedgerInv(d), NEW i \in DOMAIN d.due, ~Leased(d, i)
    PROVE  LET e == Claimed(d, i)
               n == AttemptFor(d, i)
           IN  /\ LedgerInv(e) /\ Later(d, e) /\ DOMAIN e.items = DOMAIN d.items
               /\ e.results = d.results /\ e.snapshots = d.snapshots
               /\ i \in DOMAIN d.items /\ n \in Nat /\ n > 0 /\ Len(e.attempts[i]) = n
               /\ e.items[i].state = "active"
               /\ \A j \in DOMAIN d.items : /\ e.items[j].deadline = d.items[j].deadline
                                            /\ j # i => e.items[j].state = d.items[j].state
<1> DEFINE e == Claimed(d, i)
           n == AttemptFor(d, i)
           a == d.attempts[i]
           b == IF n \in DOMAIN a THEN [a EXCEPT ![n] = "running"] ELSE Append(a, "running")
           lease == [key |-> d.items[i].key, item |-> i, n |-> n]
           items == SetState(d.items, {i}, "active")
           attempts == [d.attempts EXCEPT ![i] = b]
           leases == d.leases \cup {lease}
           due == Dequeued(d.due, {i})
<1>1. e = [d EXCEPT !.attempts[i] = b, !.leases = leases, !.items = items, !.due = due]
  BY Zenon DEF Claimed
<1>2. i \in DOMAIN d.items /\ d.items[i].state \in {"admitted", "waiting"}
  BY Zenon DEF LedgerInv, DueIsWaiting
<1>3. /\ Typed(d) /\ DOMAIN d.attempts = DOMAIN d.items /\ i \in Nat
      /\ d.items \in Seq(ItemRows) /\ d.items[i].key \in SerialKeys
  <2>1. d.items[i] \in ItemRows /\ Typed(d) /\ d.items \in Seq(ItemRows)
    BY <1>2, RowTypes, Zenon DEF LedgerInv, Typed
  <2> QED
    BY <1>2, <2>1, Indices DEF ItemRows
<1>4. AttemptsFit(a, d.items[i].state)
  BY <1>2, Zenon DEF LedgerInv, Attempted
<1>5. /\ b \in Seq(AttemptStates) /\ n \in Nat /\ n > 0 /\ Len(b) = n /\ n >= Len(a)
      /\ AttemptsFit(b, "active")
  <2>1. Reclaimed(a, b, n)
    BY <1>2, <1>3, <1>4, ClaimedAttempt, Zenon
  <2> HIDE DEF a, b, n
  <2> QED
    BY <2>1, Zenon DEF Reclaimed
<1> HIDE DEF b, n
<1>6. /\ e.attempts = attempts /\ e.items = items /\ e.leases = leases /\ e.due = due
      /\ IsLedger(e) /\ e.snapshots = d.snapshots /\ e.events = d.events
      /\ e.results = d.results /\ e.failures = d.failures
  <2> HIDE DEF e, leases, items, due
  <2> QED
    BY <1>1, Zenon DEF LedgerInv, IsLedger
<1> HIDE DEF e
<1>7. "active" \in States
  BY Zenon DEF States, LiveStates
<1>8. /\ items \in Seq(ItemRows) /\ Len(items) = Len(d.items) /\ DOMAIN items = DOMAIN d.items
      /\ \A j \in DOMAIN d.items :
            /\ items[j].route = d.items[j].route /\ items[j].event = d.items[j].event
            /\ items[j].content = d.items[j].content /\ items[j].key = d.items[j].key
            /\ items[j].deadline = d.items[j].deadline
            /\ items[j].state = IF j \in {i} THEN "active" ELSE d.items[j].state
  <2>1. StateRows(d.items, items, {i}, "active")
    BY <1>3, <1>7, SetStateRows, Zenon
  <2> QED
    BY <2>1, Zenon DEF StateRows
<1>9. lease \in LeaseRows /\ lease.key = d.items[i].key /\ lease.item = i
  BY <1>3, <1>5, Zenon DEF LeaseRows
<1> HIDE DEF items
<1>10. /\ e.attempts[i] = b /\ \A j \in DOMAIN d.items : j # i => e.attempts[j] = d.attempts[j]
  BY <1>2, <1>3, <1>6, Zenon
<1>11. LeaseInv(e)
  <2>1. LeaseInv(d)
    BY Zenon DEF LedgerInv
  <2>2. \A j \in DOMAIN d.items : j # i => LeaseOf(e, j) = LeaseOf(d, j)
    BY <1>6, <1>8, <1>10, Zenon DEF LeaseOf
  <2>3. LeaseOf(e, i) = lease
    BY <1>2, <1>5, <1>6, <1>8, <1>10, Zenon DEF LeaseOf
  <2>4. ASSUME NEW l \in d.leases
        PROVE  /\ l.item \in DOMAIN d.items /\ l.item # i /\ e.items[l.item].state = "active"
               /\ l = LeaseOf(e, l.item)
               /\ l.key # lease.key
    <3>1. l.item \in DOMAIN d.items /\ d.items[l.item].state = "active" /\ l = LeaseOf(d, l.item)
      BY <2>1, Zenon DEF LeaseInv
    <3>2. l.item # i
      BY <1>2, <3>1, Zenon
    <3>3. l.key # lease.key
      BY <1>9, Zenon DEF Leased
    <3> QED
      BY <1>6, <1>8, <2>2, <3>1, <3>2, <3>3, Zenon
  <2> HIDE DEF lease
  <2>5. ASSUME NEW l \in e.leases
        PROVE  l.item \in DOMAIN e.items /\ e.items[l.item].state = "active" /\ l = LeaseOf(e, l.item)
    <3>1. CASE l = lease
      BY <1>2, <1>6, <1>8, <1>9, <2>3, <3>1, Zenon
    <3>2. CASE l \in d.leases
      BY <1>6, <1>8, <2>4, <3>2, Zenon
    <3> QED
      BY <1>6, <3>1, <3>2, Zenon
  <2>6. ASSUME NEW j \in DOMAIN e.items, e.items[j].state = "active"
        PROVE  LeaseOf(e, j) \in e.leases
    <3>1. CASE j = i
      BY <1>6, <2>3, <3>1, Zenon
    <3>2. CASE j # i
      <4>1. j \in DOMAIN d.items /\ d.items[j].state = "active"
        BY <1>6, <1>8, <2>6, <3>2, Zenon
      <4> QED
        BY <1>6, <2>1, <2>2, <3>2, <4>1, Zenon DEF LeaseInv
    <3> QED
      BY <3>1, <3>2, Zenon
  <2>7. ASSUME NEW l \in e.leases, NEW k \in e.leases, l.key = k.key
        PROVE  l = k
    <3>1. CASE l \in d.leases /\ k \in d.leases
      BY <2>1, <2>7, <3>1, Zenon DEF LeaseInv
    <3>2. CASE l = lease /\ k = lease
      BY <3>2, Zenon
    <3> QED
      BY <1>6, <2>4, <2>7, <3>1, <3>2, Zenon
  <2> QED
    BY <2>5, <2>6, <2>7, Zenon DEF LeaseInv
<1>12. e.leases \subseteq LeaseRows
  BY <1>3, <1>6, <1>9, Zenon DEF Typed
<1>13. DueIsWaiting(e)
  <2>1. DOMAIN e.due = DOMAIN d.due \ {i}
    BY <1>6, Zenon DEF Dequeued
  <2>2. DueIsWaiting(d)
    BY Zenon DEF LedgerInv
  <2> QED
    BY <1>6, <1>8, <2>1, <2>2, Zenon DEF DueIsWaiting
<1>14. d.items[i].state \in LiveStates /\ e.items[i].state = "active"
  BY <1>2, <1>6, <1>8, Zenon DEF LiveStates
<1>15. LedgerInv(e) /\ Later(d, e) /\ DOMAIN e.items = DOMAIN d.items
  <2>1. /\ e.items \in Seq(ItemRows) /\ Len(e.items) = Len(d.items)
        /\ \A j \in DOMAIN d.items :
              /\ e.items[j].route = d.items[j].route /\ e.items[j].event = d.items[j].event
              /\ e.items[j].content = d.items[j].content
              /\ j # i => e.items[j].state = d.items[j].state
    BY <1>6, <1>8, Zenon
  <2>2. e.attempts = [d.attempts EXCEPT ![i] = b] /\ AttemptsFit(b, e.items[i].state)
    BY <1>5, <1>6, <1>14, Zenon
  <2>3. ~(e.items[i].state = "completed")
    BY <1>14, Zenon
  <2> QED
    BY <1>2, <1>5, <1>6, <1>11, <1>12, <1>13, <1>14, <2>1, <2>2, <2>3, OneRow, Zenon
<1>16. Len(e.attempts[i]) = n
  BY <1>5, <1>10, Zenon
<1> QED
  BY <1>2, <1>5, <1>6, <1>8, <1>14, <1>15, <1>16, Zenon DEF e, n
\* Attempts b of an item, whose last one is decided, and the states it goes to.
Decided(a, b, to, outcome) ==
    /\ b \in Seq(AttemptStates) /\ Len(b) = Len(a) /\ AttemptsFit(b, to[2])
    /\ to[2] \in States \ {"active", "admitted", "superseded"}
    /\ to[2] = "completed" => outcome = "completed"

\* What a result does to the last attempt, which runs.
LEMMA ResultFits ==
    ASSUME NEW d, NEW i, NEW n, NEW outcome, NEW a \in Seq(AttemptStates),
           AttemptsFit(a, "active"), Len(a) > 0
    PROVE  LET to == ResultStates(d, i, n, outcome)
               b == [a EXCEPT ![Len(a)] = to[1]]
           IN  Decided(a, b, to, outcome)
<1> DEFINE to == ResultStates(d, i, n, outcome)
           b == [a EXCEPT ![Len(a)] = to[1]]
<1>1. to \in {<<"succeeded", "completed">>, <<"failed", "failed">>,
              <<"failed", "dead_letter">>, <<"retry_scheduled", "waiting">>}
      /\ (to = <<"succeeded", "completed">> => outcome = "completed")
  <2>1. CASE outcome = "completed"
    BY <2>1, Zenon DEF ResultStates
  <2>2. CASE outcome = "permanent"
    BY <2>2, Zenon DEF ResultStates
  <2>3. CASE outcome = "retryable" /\ n >= Routes[d.items[i].route].maxAttempts
    BY <2>3, Zenon DEF ResultStates
  <2>4. CASE outcome # "completed" /\ outcome # "permanent"
             /\ ~(outcome = "retryable" /\ n >= Routes[d.items[i].route].maxAttempts)
    BY <2>4, Zenon DEF ResultStates
  <2> QED
    BY <2>1, <2>2, <2>3, <2>4, Zenon
<1> HIDE DEF to
<1>2. /\ to[1] \in {"succeeded", "failed", "retry_scheduled"}
      /\ to[2] \in {"completed", "failed", "dead_letter", "waiting"}
      /\ to[2] = "waiting" => to[1] = "retry_scheduled"
      /\ to[2] = "completed" => outcome = "completed"
  BY <1>1
<1>3. to[1] \in AttemptStates /\ to[2] \in States \ {"active", "admitted", "superseded"}
  BY <1>2, Zenon DEF AttemptStates, OpenAttempts, States, LiveStates, TerminalStates
<1>4. b = [a EXCEPT ![Len(a)] = to[1]]
  BY Zenon
<1> HIDE DEF b
<1>5. /\ b \in Seq(AttemptStates) /\ Len(b) = Len(a) /\ b[Len(a)] = to[1]
      /\ \A m \in 1 .. Len(a) - 1 : b[m] = a[m]
  BY <1>3, <1>4, LastSet
<1>6. AttemptsFit(b, to[2])
  <2>1. \A m \in 1 .. Len(b) - 1 : b[m] \in {"retry_scheduled", "superseded"}
    BY <1>5, Zenon DEF AttemptsFit
  <2> QED
    BY <1>2, <1>5, <2>1, Zenon DEF AttemptsFit
<1>7. Decided(a, b, to, outcome)
  BY <1>2, <1>3, <1>5, <1>6, Zenon DEF Decided
<1> QED
  BY <1>7, Zenon DEF to, b

\* Complete of the last attempt, which is running.
Completable(d, i, n, outcome, wait) ==
    /\ LedgerInv(d) /\ i \in DOMAIN d.items /\ n = Len(d.attempts[i]) /\ n > 0
    /\ ~CompleteRefused(d, i, n) /\ wait \in Nat
    /\ outcome = "completed" /\ Routes[d.items[i].route].executor = "upload"
       => d.items[i].content \in d.results

Completion(d, e, i, outcome, wait) ==
    /\ LedgerInv(e) /\ Later(d, e) /\ DOMAIN e.items = DOMAIN d.items
    /\ e.results = d.results /\ e.snapshots = d.snapshots
    /\ e.items[i].state \notin {"active", "admitted"}
    /\ e.items[i].deadline = Deadline(d.items[i].deadline, outcome, wait)
    /\ \A j \in DOMAIN d.items :
          j # i => /\ e.items[j].deadline = d.items[j].deadline
                   /\ e.items[j].state = d.items[j].state

\* The tables a completion writes.
WritesResult(d, i, n, outcome, wait) ==
    LET to == ResultStates(d, i, n, outcome)
        dl == Deadline(d.items[i].deadline, outcome, wait)
        b == [d.attempts[i] EXCEPT ![n] = to[1]]
        row == [d.items[i] EXCEPT !.state = to[2], !.deadline = dl]
    IN  Completed(d, i, n, outcome, wait) =
           [d EXCEPT !.leases = {l \in d.leases : l.item # i \/ l.n # n},
                     !.attempts = [d.attempts EXCEPT ![i] = b],
                     !.items = [d.items EXCEPT ![i] = row]]

\* A completion writes the attempt, the item and the leases, unless the item was superseded.
LEMMA CompletedTables ==
    ASSUME NEW d, IsLedger(d), NEW i, NEW n, NEW outcome, NEW wait,
           d.items[i].state # "superseded"
    PROVE  WritesResult(d, i, n, outcome, wait)
<1> DEFINE to == ResultStates(d, i, n, outcome)
           dl == Deadline(d.items[i].deadline, outcome, wait)
           leases == {l \in d.leases : l.item # i \/ l.n # n}
           free == [d EXCEPT !.leases = leases]
           attempts(t) == [t EXCEPT ![i] = [t[i] EXCEPT ![n] = to[1]]]
           items(t) == [t EXCEPT ![i] = [t[i] EXCEPT !.state = to[2],
                                            !.deadline = Deadline(t[i].deadline, outcome, wait)]]
<1>1. free.items = d.items /\ free.attempts = d.attempts
  <2> HIDE DEF leases
  <2> QED
    BY Zenon DEF IsLedger
<1>2. Completed(d, i, n, outcome, wait) =
         [free EXCEPT !.attempts[i][n] = to[1], !.items[i].state = to[2],
                      !.items[i].deadline = Deadline(@, outcome, wait)]
  BY Zenon DEF Completed
<1> HIDE DEF to, leases
<1>3. [free EXCEPT !.attempts[i][n] = to[1], !.items[i].state = to[2],
                   !.items[i].deadline = Deadline(@, outcome, wait)]
         = [free EXCEPT !.attempts = attempts(free.attempts), !.items = items(free.items)]
  <2> HIDE DEF free
  <2> QED
    BY Zenon
<1>4. [free EXCEPT !.attempts = attempts(free.attempts), !.items = items(free.items)]
         = [free EXCEPT !.attempts = attempts(d.attempts), !.items = items(d.items)]
  <2> HIDE DEF free, attempts, items
  <2> QED
    BY <1>1, Zenon
<1> QED
  BY <1>2, <1>3, <1>4, Zenon DEF to, leases, WritesResult

\* A completion that is not refused decides the attempt and its item only.
LEMMA CompletedKeeps ==
    ASSUME NEW d, NEW i, NEW n, NEW outcome, NEW wait, Completable(d, i, n, outcome, wait)
    PROVE  Completion(d, Completed(d, i, n, outcome, wait), i, outcome, wait)
<1> SUFFICES ASSUME LedgerInv(d), i \in DOMAIN d.items, n = Len(d.attempts[i]), n > 0,
                    ~CompleteRefused(d, i, n), wait \in Nat,
                    outcome = "completed" /\ Routes[d.items[i].route].executor = "upload"
                       => d.items[i].content \in d.results
             PROVE  Completion(d, Completed(d, i, n, outcome, wait), i, outcome, wait)
  BY Zenon DEF Completable
<1> DEFINE e == Completed(d, i, n, outcome, wait)
           a == d.attempts[i]
           to == ResultStates(d, i, n, outcome)
           b == [a EXCEPT ![n] = to[1]]
           dl == Deadline(d.items[i].deadline, outcome, wait)
           row == [d.items[i] EXCEPT !.state = to[2], !.deadline = dl]
           attempts == [d.attempts EXCEPT ![i] = b]
           items == [d.items EXCEPT ![i] = row]
           leases == {l \in d.leases : l.item # i \/ l.n # n}
<1>1. /\ Typed(d) /\ d.items \in Seq(ItemRows) /\ d.items[i] \in ItemRows /\ a \in Seq(AttemptStates)
      /\ AttemptsFit(a, d.items[i].state) /\ n \in Nat /\ DOMAIN d.attempts = DOMAIN d.items
      /\ DOMAIN d.items = 1 .. Len(d.items) /\ Len(d.items) \in Nat
  <2>1. Typed(d) /\ Attempted(d)
    BY Zenon DEF LedgerInv
  <2> QED
    BY <2>1, RowTypes, Indices, Zenon DEF Attempted, Typed
<1>2. a[Len(a)] = "running" /\ d.items[i].state = "active"
  BY <1>1, Zenon DEF CompleteRefused, AttemptsFit
<1>3. /\ b \in Seq(AttemptStates) /\ Len(b) = Len(a) /\ AttemptsFit(b, to[2])
      /\ to[2] \in States \ {"active", "admitted", "superseded"}
      /\ to[2] = "completed" => outcome = "completed"
  <2>1. AttemptsFit(a, "active") /\ Len(a) > 0
    BY <1>1, <1>2, Zenon
  <2>2. b = [a EXCEPT ![Len(a)] = to[1]]
    BY Zenon
  <2>3. a \in Seq(AttemptStates)
    BY <1>1, Zenon
  <2> HIDE DEF a
  <2>4. Decided(a, [a EXCEPT ![Len(a)] = to[1]], to, outcome)
    BY <2>1, <2>3, ResultFits, Zenon
  <2> HIDE DEF b, to
  <2> QED
    BY <2>2, <2>4, Zenon DEF Decided
<1> HIDE DEF to
<1>4. dl \in Nat
  BY <1>1, Zenon DEF Deadline, ItemRows
<1> HIDE DEF dl
<1>5. /\ row \in ItemRows /\ row.state = to[2] /\ row.deadline = dl
      /\ row.route = d.items[i].route /\ row.event = d.items[i].event
      /\ row.content = d.items[i].content /\ row.key = d.items[i].key
  <2>1. d.items[i] \in ItemRows /\ to[2] \in States
    BY <1>1, <1>3, Zenon
  <2>2. row = [d.items[i] EXCEPT !.state = to[2], !.deadline = dl]
    BY Zenon
  <2> HIDE DEF row
  <2>3. RowDecided(row, d.items[i], to[2], dl)
    BY <1>4, <2>1, <2>2, StateDeadlineSet, Zenon
  <2> QED
    BY <2>3, Zenon DEF RowDecided
<1>6. e = [d EXCEPT !.leases = leases, !.attempts = attempts, !.items = items]
  <2>1. d.items[i].state # "superseded"
    BY <1>2, Zenon
  <2>2. WritesResult(d, i, n, outcome, wait)
    BY <2>1, CompletedTables, Zenon DEF LedgerInv
  <2> QED
    BY <2>2, Zenon DEF WritesResult, to, dl
<1>7. /\ e.attempts = attempts /\ e.items = items /\ e.leases = leases /\ e.due = d.due
      /\ IsLedger(e) /\ e.snapshots = d.snapshots /\ e.events = d.events
      /\ e.results = d.results /\ e.failures = d.failures
  <2> HIDE DEF e, leases, items, attempts
  <2> QED
    BY <1>6, Zenon DEF LedgerInv, IsLedger
<1> HIDE DEF e, row, b
<1>8. /\ e.items \in Seq(ItemRows) /\ Len(e.items) = Len(d.items) /\ DOMAIN e.items = DOMAIN d.items
      /\ e.items[i] = row /\ \A j \in DOMAIN d.items : j # i => e.items[j] = d.items[j]
  <2>1. Replaced(ItemRows, d.items, items, i, row)
    BY <1>1, <1>5, RowSet, Zenon
  <2> QED
    BY <1>7, <2>1, Zenon DEF Replaced
<1>9. /\ e.attempts[i] = b /\ \A j \in DOMAIN d.items : j # i => e.attempts[j] = d.attempts[j]
  BY <1>1, <1>7, Zenon
<1>10. LeaseInv(d)
  BY Zenon DEF LedgerInv
<1>11. ASSUME NEW l \in d.leases
       PROVE  l \in e.leases <=> l.item # i
  BY <1>7, <1>10 DEF LeaseInv, LeaseOf
<1>12. e.leases \subseteq d.leases
  BY <1>7, Zenon
<1>13. \A j \in DOMAIN d.items : j # i => LeaseOf(e, j) = LeaseOf(d, j)
  BY <1>8, <1>9, Zenon DEF LeaseOf
<1> HIDE DEF leases, items, attempts
<1>14. LeaseInv(e)
  <2>1. ASSUME NEW l \in e.leases
        PROVE  l.item \in DOMAIN e.items /\ e.items[l.item].state = "active" /\ l = LeaseOf(e, l.item)
    <3>1. l \in d.leases /\ l.item # i
      BY <1>11, <1>12, Zenon
    <3>2. l.item \in DOMAIN d.items /\ d.items[l.item].state = "active" /\ l = LeaseOf(d, l.item)
      BY <1>10, <3>1, Zenon DEF LeaseInv
    <3> QED
      BY <1>8, <1>13, <3>1, <3>2, Zenon
  <2>2. ASSUME NEW j \in DOMAIN e.items, e.items[j].state = "active"
        PROVE  LeaseOf(e, j) \in e.leases
    <3>1. j # i /\ j \in DOMAIN d.items
      BY <1>3, <1>5, <1>8, <2>2, Zenon
    <3>2. LeaseOf(d, j) \in d.leases
      BY <1>8, <1>10, <2>2, <3>1, Zenon DEF LeaseInv
    <3>3. LeaseOf(d, j).item = j
      BY Zenon DEF LeaseOf
    <3> QED
      BY <1>11, <1>13, <3>1, <3>2, <3>3, Zenon
  <2>3. ASSUME NEW l \in e.leases, NEW k \in e.leases, l.key = k.key
        PROVE  l = k
    BY <1>10, <1>12, <2>3, Zenon DEF LeaseInv
  <2> QED
    BY <2>1, <2>2, <2>3, Zenon DEF LeaseInv
<1>15. e.leases \subseteq LeaseRows
  BY <1>1, <1>12, Zenon DEF Typed
<1>16. DueIsWaiting(e)
  <2>1. DueIsWaiting(d)
    BY Zenon DEF LedgerInv
  <2>2. i \notin DOMAIN d.due
    BY <1>2, <2>1, Zenon DEF DueIsWaiting
  <2> QED
    BY <1>7, <1>8, <2>1, <2>2, Zenon DEF DueIsWaiting
<1>17. LedgerInv(e) /\ Later(d, e) /\ DOMAIN e.items = DOMAIN d.items
  <2>1. \A j \in DOMAIN d.items :
              /\ e.items[j].route = d.items[j].route /\ e.items[j].event = d.items[j].event
              /\ e.items[j].content = d.items[j].content
              /\ j # i => e.items[j].state = d.items[j].state
    BY <1>5, <1>8, Zenon
  <2>2. e.attempts = [d.attempts EXCEPT ![i] = b] /\ AttemptsFit(b, e.items[i].state)
    BY <1>3, <1>5, <1>7, <1>8, Zenon DEF attempts
  <2>3. e.items[i].state = "completed" /\ Routes[d.items[i].route].executor = "upload"
              => d.items[i].content \in d.results
    BY <1>3, <1>5, <1>8, Zenon
  <2>4. d.items[i].state \in LiveStates
    BY <1>2, Zenon DEF LiveStates
  <2>5. Len(b) >= Len(d.attempts[i])
    BY <1>1, <1>3, RowTypes, AtLeast, Zenon
  <2> QED
    BY <1>3, <1>7, <1>8, <1>14, <1>15, <1>16, <2>1, <2>2, <2>3, <2>4, <2>5, OneRow, Zenon
<1> QED
  BY <1>3, <1>5, <1>7, <1>8, <1>17, Zenon DEF e, dl, Completion

-----------------------------------------------------------------------------
(***************************************************************************)
(* The processes and what they rely on.                                    *)
(***************************************************************************)
ExecSteps == {"idle", "upload", "download", "send", "record", "launch", "poll", "finish"}
IngSteps == {"idle", "check", "hydrate", "admit", "ack", "deadletter", "term"}
MsgStates == {"unpublished", "queued", "out", "acked", "termed", "dropped"}
Outcomes == {"completed", "retryable", "permanent", "waiting"}
ExecRows == [pc : ExecSteps, item : Nat, n : Nat, outcome : Outcomes \cup {"none"},
             bytes : Contents \cup {NoContent}, recover : BOOLEAN]

Types ==
    /\ proc \in [pc : {"down", "activating", "building", "recovering", "up"},
                 version : Versions, allow : BOOLEAN, bound : [DeploymentRoutes -> Nat]]
    /\ exec \in ExecRows
    /\ ing \in [pc : IngSteps, msg : DOMAIN Messages \cup {NoMessage},
                content : Contents \cup {NoContent}]
    /\ msgs \in [DOMAIN Messages -> [state : MsgStates, count : 0 .. MaxDeliver]]
    /\ asset \in Contents
    /\ uploads \subseteq [key : Contents, bytes : Contents]
    /\ runs \subseteq Nat \X Nat
    /\ polls \in [Items -> Nat] /\ overdue \in [Items -> Nat]

\* The attempt the executor loop works on is its item's last, and what the step
\* before established of it still holds.
Executing ==
    exec.pc # "idle" =>
        /\ proc.pc = "up"
        /\ exec.item \in DOMAIN db.items
        /\ exec.n = Len(db.attempts[exec.item]) /\ exec.n > 0
        /\ exec.pc \in {"upload", "download", "send", "record"} =>
              Routes[Item.route].executor = "upload"
        /\ exec.pc \in {"launch", "poll"} => Routes[Item.route].executor = exec.pc
        /\ exec.pc = "send" => Item.content \in Contents /\ exec.bytes = Item.content
        /\ exec.pc = "record" => Item.content \in {u.key : u \in uploads}
        /\ exec.pc = "finish" =>
              /\ exec.outcome = "completed" /\ Routes[Item.route].executor = "upload"
                 => Item.content \in db.results
              /\ exec.outcome = "waiting" => polls[exec.item] < MaxPolls

\* The message the consumer holds, and what is recorded of it.
Consuming ==
    /\ ing.pc # "idle" => ing.msg \in DOMAIN Messages
    /\ ing.pc = "admit" => ing.content \in Contents
    /\ ing.pc = "ack" => DeliveryRecorded(db, Event)
    /\ ing.pc = "term" => Event.delivery \in db.failures
    /\ \A m \in DOMAIN Messages :
          msgs[m].state \in {"unpublished", "queued"} => msgs[m].count < MaxDeliver

\* A bound route has the snapshot it is bound to, and no other active one.
Bound ==
    /\ proc.pc # "down" =>
          \A r \in DeploymentRoutes :
              proc.bound[r] # 0 => ActiveSnapshots(db, r) = {proc.bound[r]}
    /\ Serving => \A r \in DeploymentRoutes : proc.bound[r] # 0

\* The deadline is that of the first wait.
Waits ==
    /\ \A i \in Items : overdue[i] <= polls[i] /\ polls[i] <= MaxPolls
    /\ \A i \in Items : i \notin DOMAIN db.items => polls[i] = 0
    /\ \A i \in DOMAIN db.items \cap Items :
          /\ db.items[i].deadline = IF polls[i] = 0 THEN 0 ELSE 1
          /\ db.items[i].state = "admitted" => polls[i] = 0

\* What left the process: the runs of the broker and the uploads.
Sent ==
    /\ \A r \in runs : r[1] \in DOMAIN db.items /\ r[2] \in 1 .. Len(db.attempts[r[1]])
    /\ \A u \in uploads : u.bytes = u.key
    /\ db.results \subseteq {u.key : u \in uploads}

IndInv == /\ LedgerInv(db) /\ Types /\ Executing /\ Consuming /\ Bound /\ Waits /\ Sent
          /\ AckedIsRecorded

-----------------------------------------------------------------------------
(* What a step leaves as it was. *)

\* No transaction.
LEMMA Same ==
    ASSUME LedgerInv(db), db' = db
    PROVE  LedgerInv(db') /\ Later(db, db') /\ Quiet(db, db')
<1>1. LedgerInv(db')
  BY Zenon
<1> QED
  BY <1>1, OtherTables, Zenon DEF LedgerInv

\* The executor loop relies on rows that no other process takes back.
LEMMA ExecutingKept ==
    ASSUME Types, Executing, Typed(db), Later(db, db'), Quiet(db, db'),
           exec' = exec, polls' = polls, uploads' = uploads,
           exec.pc # "idle" => proc'.pc = "up"
    PROVE  Executing'
<1> SUFFICES ASSUME exec.pc # "idle" PROVE Executing'
  BY Zenon DEF Executing
<1>1. /\ exec.item \in DOMAIN db.items /\ proc'.pc = "up"
      /\ exec.n = Len(db.attempts[exec.item]) /\ exec.n > 0
  BY Zenon DEF Executing
<1>2. /\ exec.item \in DOMAIN db'.items
      /\ db'.items[exec.item].route = Item.route
      /\ db'.items[exec.item].content = Item.content
      /\ Len(db'.attempts[exec.item]) = exec.n
      /\ db.results \subseteq db'.results
  BY <1>1, Zenon DEF Later, Quiet, Item
<1> QED
  BY <1>1, <1>2, Zenon DEF Executing, Item

\* An idle loop.
LEMMA ExecutingIdle ==
    ASSUME exec'.pc = "idle"
    PROVE  Executing'
BY Zenon DEF Executing

\* The consumer relies on records that are never removed.
LEMMA ConsumingKept ==
    ASSUME Consuming, Later(db, db'), ing' = ing, msgs' = msgs
    PROVE  Consuming'
<1>1. db.events \subseteq db'.events /\ db.failures \subseteq db'.failures
  BY Zenon DEF Later
<1> QED
  BY <1>1, Zenon DEF Consuming, Event, DeliveryRecorded

\* So do acknowledgements.
LEMMA AckedKept ==
    ASSUME AckedIsRecorded, Later(db, db'), msgs' = msgs
    PROVE  AckedIsRecorded'
<1>1. db.events \subseteq db'.events /\ db.failures \subseteq db'.failures
  BY Zenon DEF Later
<1> QED
  BY <1>1, Zenon DEF AckedIsRecorded, DeliveryRecorded

\* Only activations touch the snapshots.
LEMMA BoundKept ==
    ASSUME Bound, db'.snapshots = db.snapshots, proc' = proc
    PROVE  Bound'
BY Zenon DEF Bound, Serving, ActiveSnapshots

\* A stopped process has no obligations.
LEMMA BoundDown ==
    ASSUME proc'.pc = "down"
    PROVE  Bound'
BY Zenon DEF Bound, Serving

\* Waits are counted by completions only.
LEMMA WaitsKept ==
    ASSUME Waits, LedgerInv(db'), Later(db, db'), Quiet(db, db'), polls' = polls, overdue' = overdue
    PROVE  Waits'
<1>1. ASSUME NEW i \in Items, i \notin DOMAIN db'.items
      PROVE  polls[i] = 0
  BY <1>1, Zenon DEF Waits, Later
<1>2. ASSUME NEW i \in DOMAIN db'.items \cap Items
      PROVE  /\ db'.items[i].deadline = IF polls[i] = 0 THEN 0 ELSE 1
             /\ db'.items[i].state = "admitted" => polls[i] = 0
  <2>1. CASE i \in DOMAIN db.items
    BY <2>1, Zenon DEF Waits, Quiet
  <2>2. CASE i \notin DOMAIN db.items
    <3>1. polls[i] = 0
      BY <2>2, Zenon DEF Waits
    <3> QED
      BY <2>2, <3>1, Zenon DEF Quiet
  <2> QED
    BY <2>1, <2>2, Zenon
<1> QED
  BY <1>1, <1>2, Zenon DEF Waits

\* What was sent stays sent.
LEMMA SentKept ==
    ASSUME Types, Sent, Typed(db), Typed(db'), Later(db, db'), runs' = runs, uploads' = uploads,
           db'.results \subseteq db.results
    PROVE  Sent'
<1>1. ASSUME NEW r \in runs
      PROVE  r[1] \in DOMAIN db'.items /\ r[2] \in 1 .. Len(db'.attempts[r[1]])
  <2>1. r[1] \in DOMAIN db.items /\ r[2] \in 1 .. Len(db.attempts[r[1]])
    BY Zenon DEF Sent
  <2>2. /\ r[1] \in DOMAIN db'.items
        /\ Len(db'.attempts[r[1]]) >= Len(db.attempts[r[1]])
    BY <2>1, Zenon DEF Later
  <2>3. Len(db.attempts[r[1]]) \in Nat /\ Len(db'.attempts[r[1]]) \in Nat
    BY <2>1, <2>2, RowTypes, Zenon
  <2> QED
    BY <2>1, <2>2, <2>3, SMTT(20)
<1> QED
  BY <1>1, Zenon DEF Sent
-----------------------------------------------------------------------------
(* The steps, one by one. *)

\* An attempt starts only for an item none of whose waits is overdue.
Starts ==
    \A i \in DOMAIN db.items :
        db'.items[i].state = "active" => db.items[i].state = "active" \/ overdue[i] = 0

Step == IndInv' /\ Later(db, db') /\ Starts

\* A step whose transaction starts nothing.
LEMMA QuietStep ==
    ASSUME IndInv, LedgerInv(db'), Later(db, db'), Quiet(db, db'),
           polls' = polls, overdue' = overdue,
           Types', Executing', Consuming', Bound', Sent', AckedIsRecorded'
    PROVE  Step
<1>1. Waits'
  BY WaitsKept, Zenon DEF IndInv
<1>2. Starts
  BY Zenon DEF Starts, Quiet
<1> QED
  BY <1>1, <1>2, Zenon DEF Step, IndInv

\* A step of a process without a transaction.
LEMMA SameStep ==
    ASSUME IndInv, db' = db, polls' = polls, overdue' = overdue, runs' = runs, uploads' = uploads,
           Types', Executing', Consuming', Bound', AckedIsRecorded'
    PROVE  Step
<1>1. LedgerInv(db') /\ Later(db, db') /\ Quiet(db, db')
  BY Same, Zenon DEF IndInv
<1>2. Sent'
  BY Zenon DEF IndInv, Sent
<1> QED
  BY <1>1, <1>2, QuietStep, Zenon

\* A step of the process that leaves its loops and the ledger alone.
LEMMA ProcessStep ==
    ASSUME IndInv, exec' = exec, ing' = ing, msgs' = msgs, UNCHANGED external,
           LedgerInv(db'), Later(db, db'), Quiet(db, db'), db'.results = db.results,
           proc' \in [pc : {"down", "activating", "building", "recovering", "up"},
                      version : Versions, allow : BOOLEAN, bound : [DeploymentRoutes -> Nat]],
           exec.pc # "idle" => proc'.pc = "up",
           Bound'
    PROVE  Step
<1>1. /\ polls' = polls /\ overdue' = overdue /\ asset' = asset
      /\ runs' = runs /\ uploads' = uploads
  BY Zenon DEF external
<1>2. Types'
  BY <1>1, Zenon DEF IndInv, Types
<1>3. Executing'
  BY <1>1, ExecutingKept, Zenon DEF IndInv, LedgerInv
<1>4. Consuming' /\ AckedIsRecorded'
  BY ConsumingKept, AckedKept, Zenon DEF IndInv
<1>5. Sent'
  BY <1>1, SentKept, Zenon DEF IndInv, LedgerInv
<1> QED
  BY <1>1, <1>2, <1>3, <1>4, <1>5, QuietStep, Zenon

LEMMA StartStep ==
    ASSUME IndInv, Start
    PROVE  Step
<1>1. /\ exec' = exec /\ ing' = ing /\ msgs' = msgs /\ UNCHANGED external /\ db' = db
      /\ proc' = [proc EXCEPT !.pc = "activating", !.bound = [r \in DeploymentRoutes |-> 0]]
      /\ proc.pc = "down"
  BY Zenon DEF Start
<1>2. LedgerInv(db') /\ Later(db, db') /\ Quiet(db, db') /\ db'.results = db.results
  BY <1>1, Same, Zenon DEF IndInv
<1>3. /\ proc' \in [pc : {"down", "activating", "building", "recovering", "up"},
                    version : Versions, allow : BOOLEAN, bound : [DeploymentRoutes -> Nat]]
      /\ proc'.pc = "activating" /\ \A r \in DeploymentRoutes : proc'.bound[r] = 0
  BY <1>1, Zenon DEF IndInv, Types
<1>4. exec.pc = "idle"
  BY <1>1, Zenon DEF IndInv, Executing
<1>5. Bound'
  BY <1>3, Zenon DEF Bound, Serving
<1> QED
  BY <1>1, <1>2, <1>3, <1>4, <1>5, ProcessStep, Zenon

LEMMA ActivateStep ==
    ASSUME IndInv, NEW r \in DeploymentRoutes, Activate(r)
    PROVE  Step
<1> DEFINE s == CHOOSE s \in ActiveSnapshots(db', r) : TRUE
<1>1. /\ exec' = exec /\ ing' = ing /\ msgs' = msgs /\ UNCHANGED external
      /\ db' = saveRoute(db, r, proc.version)
      /\ proc' = [proc EXCEPT !.bound[r] = s]
      /\ proc.pc = "activating"
  BY Zenon DEF Activate
<1>2. r \in RouteIds /\ proc.version \in Versions
  BY Zenon DEF DeploymentRoutes, IndInv, Types
<1>3. /\ LedgerInv(db') /\ Later(db, db') /\ Quiet(db, db')
      /\ \E t \in Nat \ {0} : ActiveSnapshots(db', r) = {t}
      /\ \A q \in RouteIds \ {r} : ActiveSnapshots(db', q) = ActiveSnapshots(db, q)
  BY <1>1, <1>2, SaveRouteKeeps DEF IndInv
<1>4. s \in Nat \ {0} /\ ActiveSnapshots(db', r) = {s}
  BY <1>3, Zenon
<1>5. db'.results = db.results
  BY <1>1 DEF saveRoute
<1> HIDE DEF s
<1>6. /\ proc' \in [pc : {"down", "activating", "building", "recovering", "up"},
                    version : Versions, allow : BOOLEAN, bound : [DeploymentRoutes -> Nat]]
      /\ proc'.pc = "activating" /\ proc'.bound[r] = s
      /\ \A q \in DeploymentRoutes \ {r} : proc'.bound[q] = proc.bound[q]
  BY <1>1, <1>4, Zenon DEF IndInv, Types
<1>7. exec.pc = "idle"
  BY <1>1, Zenon DEF IndInv, Executing
<1>8. Bound'
  <2>1. ASSUME NEW q \in DeploymentRoutes, proc'.bound[q] # 0
        PROVE  ActiveSnapshots(db', q) = {proc'.bound[q]}
    <3>1. CASE q = r
      BY <1>4, <1>6, <3>1, Zenon
    <3>2. CASE q # r
      BY <1>1, <1>3, <1>6, <2>1, <3>2, Zenon DEF IndInv, Bound, DeploymentRoutes
    <3> QED
      BY <3>1, <3>2, Zenon
  <2> QED
    BY <1>6, <2>1, Zenon DEF Bound, Serving
<1> QED
  BY <1>1, <1>3, <1>5, <1>6, <1>7, <1>8, ProcessStep, Zenon

LEMMA ActivationRefusedStep ==
    ASSUME IndInv, NEW r \in DeploymentRoutes, ActivationRefused(r)
    PROVE  Step
<1>1. /\ exec' = exec /\ ing' = ing /\ msgs' = msgs /\ UNCHANGED external /\ db' = db
      /\ proc' = [proc EXCEPT !.pc = "down"] /\ proc.pc = "activating"
  BY Zenon DEF ActivationRefused
<1>2. LedgerInv(db') /\ Later(db, db') /\ Quiet(db, db') /\ db'.results = db.results
  BY <1>1, Same, Zenon DEF IndInv
<1>3. /\ proc' \in [pc : {"down", "activating", "building", "recovering", "up"},
                    version : Versions, allow : BOOLEAN, bound : [DeploymentRoutes -> Nat]]
      /\ proc'.pc = "down"
  BY <1>1, Zenon DEF IndInv, Types
<1>4. exec.pc = "idle"
  BY <1>1, Zenon DEF IndInv, Executing
<1>5. Bound'
  BY <1>3, BoundDown, Zenon
<1> QED
  BY <1>1, <1>2, <1>3, <1>4, <1>5, ProcessStep, Zenon

LEMMA ServeSocketStep ==
    ASSUME IndInv, ServeSocket
    PROVE  Step
<1>1. /\ exec' = exec /\ ing' = ing /\ msgs' = msgs /\ UNCHANGED external /\ db' = db
      /\ proc' = [proc EXCEPT !.pc = "building"] /\ proc.pc = "activating"
      /\ \A r \in DeploymentRoutes : proc.bound[r] # 0
  BY Zenon DEF ServeSocket
<1>2. LedgerInv(db') /\ Later(db, db') /\ Quiet(db, db') /\ db'.results = db.results
  BY <1>1, Same, Zenon DEF IndInv
<1>3. /\ proc' \in [pc : {"down", "activating", "building", "recovering", "up"},
                    version : Versions, allow : BOOLEAN, bound : [DeploymentRoutes -> Nat]]
      /\ proc'.pc = "building" /\ proc'.bound = proc.bound
  BY <1>1, Zenon DEF IndInv, Types
<1>4. exec.pc = "idle"
  BY <1>1, Zenon DEF IndInv, Executing
<1>5. Bound'
  BY <1>1, <1>3, Zenon DEF IndInv, Bound, Serving
<1> QED
  BY <1>1, <1>2, <1>3, <1>4, <1>5, ProcessStep, Zenon

LEMMA ActivateReleaseStep ==
    ASSUME IndInv, ActivateRelease
    PROVE  Step
<1>1. /\ exec' = exec /\ ing' = ing /\ msgs' = msgs /\ UNCHANGED external
      /\ db' = saveRoute(db, ReleaseRoute, proc.version)
      /\ proc' = [proc EXCEPT !.pc = "recovering"]
      /\ proc.pc = "building"
  BY Zenon DEF ActivateRelease
<1>2. ReleaseRoute \in RouteIds /\ proc.version \in Versions
  BY RouterConstants, Zenon DEF IndInv, Types
<1>3. /\ LedgerInv(db') /\ Later(db, db') /\ Quiet(db, db')
      /\ \A q \in RouteIds \ {ReleaseRoute} : ActiveSnapshots(db', q) = ActiveSnapshots(db, q)
  BY <1>1, <1>2, SaveRouteKeeps DEF IndInv
<1>4. db'.results = db.results
  BY <1>1 DEF saveRoute
<1>5. /\ proc' \in [pc : {"down", "activating", "building", "recovering", "up"},
                    version : Versions, allow : BOOLEAN, bound : [DeploymentRoutes -> Nat]]
      /\ proc'.pc = "recovering" /\ proc'.bound = proc.bound
  BY <1>1, Zenon DEF IndInv, Types
<1>6. exec.pc = "idle"
  BY <1>1, Zenon DEF IndInv, Executing
<1>7. Bound'
  BY <1>1, <1>3, <1>5, Zenon DEF IndInv, Bound, Serving, DeploymentRoutes
<1> QED
  BY <1>1, <1>3, <1>4, <1>5, <1>6, <1>7, ProcessStep, Zenon

LEMMA RecoverStep ==
    ASSUME IndInv, Recover
    PROVE  Step
<1>1. /\ exec' = exec /\ ing' = ing /\ msgs' = msgs /\ UNCHANGED external
      /\ db' = Recovered(db)
      /\ proc' = [proc EXCEPT !.pc = "up"]
      /\ proc.pc = "recovering"
  BY Zenon DEF Recover
<1>2. /\ LedgerInv(db') /\ Later(db, db') /\ Quiet(db, db')
      /\ db'.results = db.results /\ db'.snapshots = db.snapshots
  BY <1>1, RecoveredKeeps, Zenon DEF IndInv
<1>3. /\ proc' \in [pc : {"down", "activating", "building", "recovering", "up"},
                    version : Versions, allow : BOOLEAN, bound : [DeploymentRoutes -> Nat]]
      /\ proc'.pc = "up" /\ proc'.bound = proc.bound
  BY <1>1, Zenon DEF IndInv, Types
<1>4. \A q \in RouteIds : ActiveSnapshots(db', q) = ActiveSnapshots(db, q)
  BY <1>2, Zenon DEF ActiveSnapshots
<1>5. Bound'
  BY <1>1, <1>3, <1>4, Zenon DEF IndInv, Bound, Serving, DeploymentRoutes
<1> QED
  BY <1>1, <1>2, <1>3, <1>5, ProcessStep, Zenon

LEMMA DeployStep ==
    ASSUME IndInv, NEW v \in Versions, NEW allow \in BOOLEAN, Deploy(v, allow)
    PROVE  Step
<1>1. /\ exec' = exec /\ ing' = ing /\ msgs' = msgs /\ UNCHANGED external /\ db' = db
      /\ proc' = [proc EXCEPT !.version = v, !.allow = allow] /\ proc.pc = "down"
  BY Zenon DEF Deploy
<1>2. LedgerInv(db') /\ Later(db, db') /\ Quiet(db, db') /\ db'.results = db.results
  BY <1>1, Same, Zenon DEF IndInv
<1>3. /\ proc' \in [pc : {"down", "activating", "building", "recovering", "up"},
                    version : Versions, allow : BOOLEAN, bound : [DeploymentRoutes -> Nat]]
      /\ proc'.pc = "down"
  BY <1>1, Zenon DEF IndInv, Types
<1>4. exec.pc = "idle"
  BY <1>1, Zenon DEF IndInv, Executing
<1>5. Bound'
  BY <1>3, BoundDown, Zenon
<1> QED
  BY <1>1, <1>2, <1>3, <1>4, <1>5, ProcessStep, Zenon
\* A step of the release consumer or of JetStream.
LEMMA ConsumerStep ==
    ASSUME IndInv, proc' = proc, exec' = exec, UNCHANGED external,
           LedgerInv(db'), Later(db, db'), Quiet(db, db'),
           db'.results = db.results, db'.snapshots = db.snapshots,
           ing' \in [pc : IngSteps, msg : DOMAIN Messages \cup {NoMessage},
                     content : Contents \cup {NoContent}],
           msgs' \in [DOMAIN Messages -> [state : MsgStates, count : 0 .. MaxDeliver]],
           Consuming', AckedIsRecorded'
    PROVE  Step
<1>1. /\ polls' = polls /\ overdue' = overdue /\ asset' = asset
      /\ runs' = runs /\ uploads' = uploads
  BY Zenon DEF external
<1>2. Types'
  BY <1>1, Zenon DEF IndInv, Types
<1>3. Executing'
  <2>1. exec.pc # "idle" => proc'.pc = "up"
    BY Zenon DEF IndInv, Executing
  <2> QED
    BY <1>1, <2>1, ExecutingKept, Zenon DEF IndInv, LedgerInv
<1>4. Bound'
  BY BoundKept, Zenon DEF IndInv
<1>5. Sent'
  BY <1>1, SentKept, Zenon DEF IndInv, LedgerInv
<1> QED
  BY <1>1, <1>2, <1>3, <1>4, <1>5, QuietStep, Zenon

\* One without a transaction.
LEMMA ConsumerSameStep ==
    ASSUME IndInv, proc' = proc, exec' = exec, UNCHANGED external, db' = db,
           ing' \in [pc : IngSteps, msg : DOMAIN Messages \cup {NoMessage},
                     content : Contents \cup {NoContent}],
           msgs' \in [DOMAIN Messages -> [state : MsgStates, count : 0 .. MaxDeliver]],
           Consuming', AckedIsRecorded'
    PROVE  Step
<1>1. LedgerInv(db') /\ Later(db, db') /\ Quiet(db, db')
  BY Same, Zenon DEF IndInv
<1> QED
  BY <1>1, ConsumerStep, Zenon

\* The consumer between messages.
LEMMA IdleTypes ==
    IngIdle \in [pc : IngSteps, msg : DOMAIN Messages \cup {NoMessage},
                 content : Contents \cup {NoContent}]
BY Zenon DEF IngIdle, IngSteps

\* JetStream's state of one message.
LEMMA MsgSet ==
    ASSUME IndInv, NEW m \in DOMAIN Messages, NEW st \in MsgStates,
           msgs' = [msgs EXCEPT ![m].state = st]
    PROVE  /\ msgs' \in [DOMAIN Messages -> [state : MsgStates, count : 0 .. MaxDeliver]]
           /\ msgs'[m].state = st /\ msgs'[m].count = msgs[m].count
           /\ \A k \in DOMAIN Messages : k # m => msgs'[k] = msgs[k]
BY Zenon DEF IndInv, Types

LEMMA PublishStep ==
    ASSUME IndInv, NEW m \in DOMAIN Messages, Publish(m)
    PROVE  Step
<1>1. /\ proc' = proc /\ exec' = exec /\ ing' = ing /\ UNCHANGED external /\ db' = db
      /\ msgs' = [msgs EXCEPT ![m].state = "queued"] /\ msgs[m].state = "unpublished"
  BY Zenon DEF Publish
<1>2. "queued" \in MsgStates
  BY Zenon DEF MsgStates
<1>3. /\ msgs' \in [DOMAIN Messages -> [state : MsgStates, count : 0 .. MaxDeliver]]
      /\ msgs'[m].state = "queued" /\ msgs'[m].count = msgs[m].count
      /\ \A k \in DOMAIN Messages : k # m => msgs'[k] = msgs[k]
  BY <1>1, <1>2, MsgSet, Zenon
<1>4. Consuming'
  BY <1>1, <1>3, Zenon DEF IndInv, Consuming, Event
<1>5. AckedIsRecorded'
  BY <1>1, <1>3, Zenon DEF IndInv, AckedIsRecorded
<1>6. ing' \in [pc : IngSteps, msg : DOMAIN Messages \cup {NoMessage},
                content : Contents \cup {NoContent}]
  BY <1>1, Zenon DEF IndInv, Types
<1> QED
  BY <1>1, <1>3, <1>4, <1>5, <1>6, ConsumerSameStep, Zenon

LEMMA FetchStep ==
    ASSUME IndInv, NEW m \in DOMAIN Messages, Fetch(m)
    PROVE  Step
<1>1. /\ proc' = proc /\ exec' = exec /\ UNCHANGED external /\ db' = db
      /\ ing' = [ing EXCEPT !.pc = "check", !.msg = m]
      /\ msgs' = [msgs EXCEPT ![m] = [state |-> "out", count |-> msgs[m].count + 1]]
      /\ msgs[m].state = "queued"
  BY Zenon DEF Fetch
<1>2. msgs[m].count + 1 \in 0 .. MaxDeliver
  BY <1>1, RouterConstants DEF IndInv, Types, Consuming
<1>3. /\ msgs' \in [DOMAIN Messages -> [state : MsgStates, count : 0 .. MaxDeliver]]
      /\ msgs'[m].state = "out"
      /\ \A k \in DOMAIN Messages : k # m => msgs'[k] = msgs[k]
  BY <1>1, <1>2, Zenon DEF IndInv, Types, MsgStates
<1>4. /\ ing' \in [pc : IngSteps, msg : DOMAIN Messages \cup {NoMessage},
                   content : Contents \cup {NoContent}]
      /\ ing'.pc = "check" /\ ing'.msg = m
  BY <1>1, Zenon DEF IndInv, Types, IngSteps
<1>5. Consuming'
  BY <1>1, <1>3, <1>4, Zenon DEF IndInv, Consuming
<1>6. AckedIsRecorded'
  BY <1>1, <1>3, Zenon DEF IndInv, AckedIsRecorded
<1> QED
  BY <1>1, <1>3, <1>4, <1>5, <1>6, ConsumerSameStep, Zenon

\* The consumer ends a message, which is then in a final state.
LEMMA EndedStep ==
    ASSUME IndInv, proc' = proc, exec' = exec, UNCHANGED external, db' = db, ing' = IngIdle,
           ing.pc # "idle", NEW st \in {"acked", "termed"},
           msgs' = [msgs EXCEPT ![ing.msg].state = st],
           st = "acked" => DeliveryRecorded(db, Event),
           st = "termed" /\ Event.kind = "release" => Event.delivery \in db.failures
    PROVE  Step
<1>1. st \in MsgStates /\ ing.msg \in DOMAIN Messages
  BY Zenon DEF MsgStates, IndInv, Consuming
<1>2. /\ msgs' \in [DOMAIN Messages -> [state : MsgStates, count : 0 .. MaxDeliver]]
      /\ msgs'[ing.msg].state = st
      /\ \A k \in DOMAIN Messages : k # ing.msg => msgs'[k] = msgs[k]
  BY <1>1, MsgSet, Zenon
<1>3. Consuming'
  BY <1>2, Zenon DEF IndInv, Consuming, IngIdle
<1>4. AckedIsRecorded'
  <2>1. ASSUME NEW k \in DOMAIN Messages
        PROVE  /\ msgs'[k].state = "acked" => DeliveryRecorded(db, Messages[k])
               /\ msgs'[k].state = "termed" /\ Messages[k].kind = "release"
                  => Messages[k].delivery \in db.failures
    <3>1. CASE k = ing.msg
      BY <1>2, <3>1, Zenon DEF Event
    <3>2. CASE k # ing.msg
      BY <1>2, <3>2, Zenon DEF IndInv, AckedIsRecorded
    <3> QED
      BY <3>1, <3>2, Zenon
  <2> QED
    BY <2>1, Zenon DEF AckedIsRecorded
<1>5. ing' \in [pc : IngSteps, msg : DOMAIN Messages \cup {NoMessage},
                content : Contents \cup {NoContent}]
  BY IdleTypes, Zenon
<1> QED
  BY <1>2, <1>3, <1>4, <1>5, ConsumerSameStep, Zenon

LEMMA DiscardStep ==
    ASSUME IndInv, Discard
    PROVE  Step
BY EndedStep, Zenon DEF Discard, GiveUp

LEMMA TermStep ==
    ASSUME IndInv, Term
    PROVE  Step
<1>1. Event.delivery \in db.failures
  BY Zenon DEF IndInv, Consuming, Term
<1> QED
  BY <1>1, EndedStep, Zenon DEF Term, GiveUp

LEMMA AckSyncStep ==
    ASSUME IndInv, AckSync
    PROVE  Step
<1>1. DeliveryRecorded(db, Event)
  BY Zenon DEF IndInv, Consuming, AckSync
<1> QED
  BY <1>1, EndedStep, Zenon DEF AckSync, GiveUp

LEMMA AckWaitStep ==
    ASSUME IndInv, NEW m \in DOMAIN Messages, AckWait(m)
    PROVE  Step
<1> DEFINE st == IF msgs[m].count < MaxDeliver THEN "queued" ELSE "dropped"
<1>1. /\ proc' = proc /\ exec' = exec /\ ing' = ing /\ UNCHANGED external /\ db' = db
      /\ msgs' = [msgs EXCEPT ![m].state = st]
  BY Zenon DEF AckWait
<1>2. st \in MsgStates /\ st \notin {"unpublished", "acked", "termed"}
      /\ (st = "queued" => msgs[m].count < MaxDeliver)
  BY Zenon DEF MsgStates
<1> HIDE DEF st
<1>3. /\ msgs' \in [DOMAIN Messages -> [state : MsgStates, count : 0 .. MaxDeliver]]
      /\ msgs'[m].state = st /\ msgs'[m].count = msgs[m].count
      /\ \A k \in DOMAIN Messages : k # m => msgs'[k] = msgs[k]
  BY <1>1, <1>2, MsgSet, Zenon
<1>4. Consuming'
  <2>1. ASSUME NEW k \in DOMAIN Messages, msgs'[k].state \in {"unpublished", "queued"}
        PROVE  msgs'[k].count < MaxDeliver
    BY <1>2, <1>3, <2>1, Zenon DEF IndInv, Consuming
  <2> QED
    BY <1>1, <2>1, Zenon DEF IndInv, Consuming, Event
<1>5. AckedIsRecorded'
  BY <1>1, <1>2, <1>3, Zenon DEF IndInv, AckedIsRecorded
<1>6. ing' \in [pc : IngSteps, msg : DOMAIN Messages \cup {NoMessage},
                content : Contents \cup {NoContent}]
  BY <1>1, Zenon DEF IndInv, Types
<1> QED
  BY <1>1, <1>3, <1>4, <1>5, <1>6, ConsumerSameStep, Zenon

\* The consumer moves on with its message, or leaves it to redelivery.
LEMMA HeldStep ==
    ASSUME IndInv, proc' = proc, exec' = exec, UNCHANGED external, db' = db, msgs' = msgs,
           ing' \in [pc : IngSteps, msg : DOMAIN Messages \cup {NoMessage},
                     content : Contents \cup {NoContent}],
           ing'.pc # "idle" => ing.pc # "idle" /\ ing'.msg = ing.msg,
           ing'.pc = "admit" => ing'.content \in Contents,
           ing'.pc = "ack" => DeliveryRecorded(db, Event),
           ing'.pc # "term"
    PROVE  Step
<1>1. Consuming'
  BY Zenon DEF IndInv, Consuming, Event
<1>2. AckedIsRecorded'
  BY Zenon DEF IndInv, AckedIsRecorded
<1>3. msgs' \in [DOMAIN Messages -> [state : MsgStates, count : 0 .. MaxDeliver]]
  BY Zenon DEF IndInv, Types
<1> QED
  BY <1>1, <1>2, <1>3, ConsumerSameStep, Zenon

LEMMA CheckRecordedStep ==
    ASSUME IndInv, CheckRecorded
    PROVE  Step
<1>1. /\ proc' = proc /\ exec' = exec /\ UNCHANGED external /\ db' = db /\ msgs' = msgs
      /\ ing.pc = "check"
      /\ ing' = IF DeliveryRecorded(db, Event) THEN [ing EXCEPT !.pc = "ack"]
                ELSE IF Recorded(db, Event) THEN IngIdle
                ELSE [ing EXCEPT !.pc = "hydrate"]
  BY Zenon DEF CheckRecorded
<1>2. ing \in [pc : IngSteps, msg : DOMAIN Messages \cup {NoMessage},
               content : Contents \cup {NoContent}]
  BY Zenon DEF IndInv, Types
<1>3. CASE DeliveryRecorded(db, Event)
  <2>1. ing' = [ing EXCEPT !.pc = "ack"]
    BY <1>1, <1>3, Zenon
  <2>2. /\ ing' \in [pc : IngSteps, msg : DOMAIN Messages \cup {NoMessage},
                     content : Contents \cup {NoContent}]
        /\ ing'.pc = "ack" /\ ing'.msg = ing.msg
    BY <1>2, <2>1, Zenon DEF IngSteps
  <2> QED
    BY <1>1, <1>3, <2>2, HeldStep, Zenon
<1>4. CASE ~DeliveryRecorded(db, Event) /\ Recorded(db, Event)
  <2>1. ing' = IngIdle
    BY <1>1, <1>4, Zenon
  <2>2. ing'.pc = "idle"
    BY <2>1, Zenon DEF IngIdle
  <2> QED
    BY <1>1, <2>1, <2>2, IdleTypes, HeldStep, Zenon
<1>5. CASE ~DeliveryRecorded(db, Event) /\ ~Recorded(db, Event)
  <2>1. ing' = [ing EXCEPT !.pc = "hydrate"]
    BY <1>1, <1>5, Zenon
  <2>2. /\ ing' \in [pc : IngSteps, msg : DOMAIN Messages \cup {NoMessage},
                     content : Contents \cup {NoContent}]
        /\ ing'.pc = "hydrate" /\ ing'.msg = ing.msg
    BY <1>2, <2>1, Zenon DEF IngSteps
  <2> QED
    BY <1>1, <2>2, HeldStep, Zenon
<1> QED
  BY <1>3, <1>4, <1>5, Zenon

LEMMA HydrateStep ==
    ASSUME IndInv, Hydrate
    PROVE  Step
<1>1. /\ proc' = proc /\ exec' = exec /\ UNCHANGED external /\ db' = db /\ msgs' = msgs
      /\ ing.pc = "hydrate" /\ ing' = [ing EXCEPT !.pc = "admit", !.content = asset]
  BY Zenon DEF Hydrate
<1>2. /\ ing' \in [pc : IngSteps, msg : DOMAIN Messages \cup {NoMessage},
                   content : Contents \cup {NoContent}]
      /\ ing'.pc = "admit" /\ ing'.msg = ing.msg /\ ing'.content \in Contents
  BY <1>1, Zenon DEF IndInv, Types, IngSteps
<1> QED
  BY <1>1, <1>2, HeldStep, Zenon

LEMMA HydrateFailsStep ==
    ASSUME IndInv, HydrateFails
    PROVE  Step
<1>1. /\ proc' = proc /\ exec' = exec /\ UNCHANGED external /\ db' = db /\ msgs' = msgs
      /\ ing.pc = "hydrate"
      /\ ing' = IngIdle \/ ing' = [ing EXCEPT !.pc = "deadletter"]
  BY Zenon DEF HydrateFails
<1>2. CASE ing' = IngIdle
  <2>1. ing'.pc = "idle"
    BY <1>2, Zenon DEF IngIdle
  <2> QED
    BY <1>1, <1>2, <2>1, IdleTypes, HeldStep, Zenon
<1>3. CASE ing' = [ing EXCEPT !.pc = "deadletter"]
  <2>1. /\ ing' \in [pc : IngSteps, msg : DOMAIN Messages \cup {NoMessage},
                     content : Contents \cup {NoContent}]
        /\ ing'.pc = "deadletter" /\ ing'.msg = ing.msg
    BY <1>3, Zenon DEF IndInv, Types, IngSteps
  <2> QED
    BY <1>1, <2>1, HeldStep, Zenon
<1> QED
  BY <1>1, <1>2, <1>3, Zenon

LEMMA ProcessFailsStep ==
    ASSUME IndInv, ProcessFails
    PROVE  Step
<1>1. /\ proc' = proc /\ exec' = exec /\ UNCHANGED external /\ db' = db /\ msgs' = msgs
      /\ ing' = IngIdle
  BY Zenon DEF ProcessFails, GiveUp
<1>2. ing'.pc = "idle"
  BY <1>1, Zenon DEF IngIdle
<1> QED
  BY <1>1, <1>2, IdleTypes, HeldStep, Zenon

LEMMA DeadLetterStep ==
    ASSUME IndInv, DeadLetter
    PROVE  Step
<1>1. /\ proc' = proc /\ exec' = exec /\ UNCHANGED external /\ msgs' = msgs
      /\ db' = RecordIngressFailure(db, Event)
      /\ ing.pc = "deadletter" /\ ing' = [ing EXCEPT !.pc = "term"]
  BY Zenon DEF DeadLetter
<1>2. /\ LedgerInv(db') /\ Later(db, db') /\ Quiet(db, db')
      /\ db'.failures = db.failures \cup {Event.delivery}
      /\ db'.results = db.results /\ db'.snapshots = db.snapshots
  <2>1. LedgerInv(db)
    BY Zenon DEF IndInv
  <2> QED
    BY <1>1, <2>1, FailureKeeps, Zenon
<1>3. /\ ing' \in [pc : IngSteps, msg : DOMAIN Messages \cup {NoMessage},
                   content : Contents \cup {NoContent}]
      /\ ing'.pc = "term" /\ ing'.msg = ing.msg
  BY <1>1, Zenon DEF IndInv, Types, IngSteps
<1>4. Consuming'
  BY <1>1, <1>2, <1>3, Zenon DEF IndInv, Consuming, Event
<1>5. AckedIsRecorded'
  BY <1>1, <1>2, AckedKept, Zenon DEF IndInv
<1>6. msgs' \in [DOMAIN Messages -> [state : MsgStates, count : 0 .. MaxDeliver]]
  BY <1>1, Zenon DEF IndInv, Types
<1> QED
  BY <1>1, <1>2, <1>3, <1>4, <1>5, <1>6, ConsumerStep, Zenon

LEMMA AdmitReleaseStep ==
    ASSUME IndInv, AdmitRelease
    PROVE  Step
<1>1. /\ proc' = proc /\ exec' = exec /\ UNCHANGED external /\ msgs' = msgs /\ ing.pc = "admit"
  BY Zenon DEF AdmitRelease
<1>2. CASE \E s \in Selected(Event) : ~Refused(db, s, Event, ing.content)
  <2>1. /\ \E s \in Selected(Event) : db' = Admitted(db, s, Event, ing.content)
        /\ ing' = [ing EXCEPT !.pc = "ack", !.content = NoContent]
    BY <1>2, Zenon DEF AdmitRelease
  <2>2. PICK s \in Selected(Event) : db' = Admitted(db, s, Event, ing.content)
    BY <2>1, Zenon
  <2>3. s \in DOMAIN db.snapshots /\ ~Refused(db, s, Event, ing.content)
    BY <1>2, <2>2, Zenon DEF Selected, MatchRoute
  <2>4. Event \in Events /\ ing.content \in Contents \cup {NoContent} /\ LedgerInv(db)
    BY <1>1, Zenon DEF IndInv, Consuming, Events, Event
  <2>5. /\ LedgerInv(db') /\ Later(db, db') /\ Quiet(db, db')
        /\ db'.results = db.results /\ db'.snapshots = db.snapshots
        /\ DeliveryRecorded(db', Event)
    BY <2>2, <2>3, <2>4, AdmittedKeeps, Zenon
  <2>6. /\ ing' \in [pc : IngSteps, msg : DOMAIN Messages \cup {NoMessage},
                     content : Contents \cup {NoContent}]
        /\ ing'.pc = "ack" /\ ing'.msg = ing.msg
    BY <2>1, Zenon DEF IndInv, Types, IngSteps
  <2>7. Consuming'
    <3>1. DeliveryRecorded(db, Event)'
      BY <2>5, <2>6, Zenon DEF Event, DeliveryRecorded
    <3> QED
      BY <1>1, <2>6, <3>1, Zenon DEF IndInv, Consuming
  <2>8. AckedIsRecorded'
    BY <1>1, <2>5, AckedKept, Zenon DEF IndInv
  <2>9. msgs' \in [DOMAIN Messages -> [state : MsgStates, count : 0 .. MaxDeliver]]
    BY <1>1, Zenon DEF IndInv, Types
  <2> QED
    BY <1>1, <2>5, <2>6, <2>7, <2>8, <2>9, ConsumerStep, Zenon
<1>3. CASE ~\E s \in Selected(Event) : ~Refused(db, s, Event, ing.content)
  <2>1. db' = db /\ ing' = IngIdle
    BY <1>3, Zenon DEF AdmitRelease, GiveUp
  <2>2. ing'.pc = "idle"
    BY <2>1, Zenon DEF IngIdle
  <2> QED
    BY <1>1, <2>1, <2>2, IdleTypes, HeldStep, Zenon
<1> QED
  BY <1>2, <1>3, Zenon

\* The ingress socket, which is the process's own.
LEMMA HandleFactStep ==
    ASSUME IndInv, NEW e \in Facts, HandleFact(e)
    PROVE  Step
<1> DEFINE s == proc.bound[FactRoute[e.kind]]
<1>1. /\ proc' = proc /\ exec' = exec /\ ing' = ing /\ msgs' = msgs /\ UNCHANGED external
      /\ Serving /\ e.kind \in DOMAIN FactRoute
      /\ ~Refused(db, s, e, NoContent) /\ db' = Admitted(db, s, e, NoContent)
  BY Zenon DEF HandleFact
<1>2. FactRoute[e.kind] \in DeploymentRoutes
  BY <1>1, RouterConstants, Zenon
<1>3. s \in DOMAIN db.snapshots
  <2>1. ActiveSnapshots(db, FactRoute[e.kind]) = {s}
    BY <1>1, <1>2, Zenon DEF IndInv, Bound, Serving
  <2> HIDE DEF s
  <2> QED
    BY <2>1, Zenon DEF ActiveSnapshots
<1>4. e \in Events /\ LedgerInv(db)
  BY Zenon DEF Events, IndInv
<1> HIDE DEF s
<1>5. /\ LedgerInv(db') /\ Later(db, db') /\ Quiet(db, db')
      /\ db'.results = db.results /\ db'.snapshots = db.snapshots
  BY <1>1, <1>3, <1>4, AdmittedKeeps, Zenon
<1>6. Consuming' /\ AckedIsRecorded'
  BY <1>1, <1>5, ConsumingKept, AckedKept, Zenon DEF IndInv
<1>7. /\ ing' \in [pc : IngSteps, msg : DOMAIN Messages \cup {NoMessage},
                   content : Contents \cup {NoContent}]
      /\ msgs' \in [DOMAIN Messages -> [state : MsgStates, count : 0 .. MaxDeliver]]
  BY <1>1, Zenon DEF IndInv, Types
<1> QED
  BY <1>1, <1>5, <1>6, <1>7, ConsumerStep, Zenon
=============================================================================
