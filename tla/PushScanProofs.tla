-------------------------- MODULE PushScanProofs --------------------------
(***************************************************************************)
(* The safety of the push security scanner, for any messages, tokens,      *)
(* page and batch sizes and any number of faults.                          *)
(***************************************************************************)
EXTENDS PushScan, WellFoundedInduction, SequenceTheorems, TLAPS

----------------------------------------------------------------------------
(***************************************************************************)
(* The inductive invariant.                                                *)
(***************************************************************************)
Points == {"down", "idle", "flush", "overdue", "attempt", "respond", "complete",
           "receipt", "scan", "record", "ack"}
Founds == {"rejected", "unavailable", "clean", "shape", "canary", "active", "expired", "revoked"}
Loops == [pc : Points, then : {"reconcile", "process"}, msg : DOMAIN Messages \cup {Nobody},
          found : Founds \cup {"none"}, batch : SUBSET Deliveries, page : Seq(Deliveries),
          cur : Deliveries \cup {Nobody}]

Waits(R, d) == R[d].status = "response_pending"

\* The pages the loop works through: pending responses, each once.
PageOK(page, R) ==
    /\ page \in Seq(Deliveries)
    /\ \A i \in 1..Len(page) : Waits(R, page[i])
    /\ \A i, j \in 1..Len(page) : page[i] = page[j] => i = j

\* A push the loop works on, and one whose result it has seen.
PushHeld(p) == p.msg \in DOMAIN Messages /\ Messages[p.msg].kind = "push"
HasResult(p, R) == PushHeld(p) /\ R[Messages[p.msg].delivery].status # "none"

\* What the loop at p may rely on, given results R, events E, receipts C, halts H.
LoopOK(p, R, E, C, H) ==
    /\ p \in Loops
    /\ p.batch \subseteq E
    /\ PageOK(p.page, R)
    /\ p.pc = "flush" => p.batch # {}
    /\ p.pc = "overdue" => p.then = "reconcile"
    /\ p.pc = "attempt" => p.page # <<>>
    /\ p.pc \in {"respond", "complete"} =>
          /\ p.cur \in Deliveries /\ Waits(R, p.cur)
          /\ \A i \in 1..Len(p.page) : p.page[i] # p.cur
    /\ p.pc = "complete" => H[p.cur] # "no"
    /\ p.pc \in {"receipt", "scan", "record"} => PushHeld(p)
    /\ p.pc \in {"scan", "record"} =>
          /\ R[Messages[p.msg].delivery].status = "none"
          /\ Messages[p.msg].delivery \in C
    /\ p.pc = "record" => p.found \in Founds
    /\ p.pc = "ack" => HasResult(p, R)
    /\ p.pc \in {"flush", "attempt", "respond", "complete"} /\ p.then = "process" => HasResult(p, R)

Results == [Deliveries -> [status : Statuses, slo : SLOStates, alertLate : BOOLEAN]]
Halts == [Deliveries -> {"no", "in_time", "late"}]

\* The SLO state goes with the status.
ResultShape(R) ==
    \A d \in Deliveries :
        /\ R[d].status = "response_pending" => R[d].slo \in {"pending", "breached"}
        /\ R[d].status = "finding_high" => R[d].slo \in {"not_live", "met", "breached"}
        /\ R[d].status \notin {"response_pending", "finding_high"} => R[d].slo = "not_applicable"

\* seq lists the pending responses, each once.
ListOK(seq, R) ==
    /\ seq \in Seq(Deliveries)
    /\ \A i, j \in 1..Len(seq) : seq[i] = seq[j] => i = j
    /\ \A d \in Deliveries : Waits(R, d) <=> \E i \in 1..Len(seq) : seq[i] = d

Counted == /\ msgs \in [DOMAIN Messages -> [state : {"queued", "out", "acked", "termed", "dropped"},
                                            count : 0 .. MaxDeliver]]
           /\ \A m \in DOMAIN Messages : msgs[m].state = "queued" => msgs[m].count < MaxDeliver

Stored == /\ tokens \in [Tokens -> {"absent", "active", "expired", "revoked", "pruned"}]
          /\ results \in Results /\ ResultShape(results)
          /\ \A d \in Deliveries : results[d].status # "none" => d \in receipts
          /\ events \subseteq Deliveries /\ sent \cup marked \subseteq events
          /\ halted \in Halts /\ late \subseteq Deliveries

IInv == /\ Counted /\ Stored /\ ListOK(order, results)
        /\ LoopOK(proc, results, events, receipts, halted)
        /\ AckedHasResult /\ HaltsMatchFindings /\ SLOTruthful

----------------------------------------------------------------------------
\* Every non-empty set of natural numbers has a least element.
LEMMA LeastInSet ==
    ASSUME NEW S \in SUBSET Nat, S # {}
    PROVE  \E x \in S : \A y \in S : x <= y
<1> DEFINE R == {ss \in Nat \X Nat : ss[1] < ss[2]}
<1>1. R = OpToRel(<, Nat)
  BY Zenon DEF OpToRel
<1>2. IsWellFoundedOn(R, Nat)
  BY <1>1, NatLessThanWellFounded, Zenon
<1> HIDE DEF R
<1>3. \E x \in S : \A y \in S : ~ (<<y, x>> \in R)
  BY <1>2, WFMin, Zenon
<1>4. PICK x \in S : \A y \in S : ~ (<<y, x>> \in R)
  BY <1>3, Zenon
<1>5. \A y \in S : x <= y
  <2> SUFFICES ASSUME NEW y \in S, ~(x <= y) PROVE FALSE
    BY Zenon
  <2>1. <<y, x>> \in R
    BY DEF R
  <2> QED BY <2>1, <1>4
<1>6. QED
  BY <1>5, Zenon

\* NextEvent is one of the batch.
LEMMA NextEventInBatch ==
    ASSUME proc.batch \subseteq Deliveries, proc.batch # {}
    PROVE  NextEvent \in proc.batch
<1>1. \A d \in proc.batch : Place(d) \in DOMAIN EventOrder /\ EventOrder[Place(d)] = d
  BY Zenon DEF Deliveries, Range, Place
<1> DEFINE P == {Place(d) : d \in proc.batch}
<1>2. P \in SUBSET Nat /\ P # {}
  BY <1>1, LenProperties, ScanConstants
<1>3. \E x \in P : \A y \in P : x <= y
  BY <1>2, LeastInSet, Zenon
<1>4. \E d \in proc.batch : \A e \in proc.batch : Place(d) <= Place(e)
  BY <1>3, Zenon
<1>5. QED
  BY <1>4, Zenon DEF NextEvent

\* What is before one place and what is behind it, put together.
Dropped(s, i) == SubSeq(s, 1, i - 1) \o SubSeq(s, i + 1, Len(s))

LEMMA DroppedShape ==
    ASSUME NEW S, NEW s \in Seq(S), NEW i \in 1..Len(s)
    PROVE  /\ Dropped(s, i) \in Seq(S)
           /\ Len(Dropped(s, i)) = Len(s) - 1
           /\ \A k \in 1..(Len(s) - 1) : Dropped(s, i)[k] = IF k < i THEN s[k] ELSE s[k + 1]
<1> DEFINE a == SubSeq(s, 1, i - 1)
           b == SubSeq(s, i + 1, Len(s))
<1>0. Len(s) \in Nat /\ \A k \in 1..Len(s) : s[k] \in S
  BY LenProperties, Zenon
<1>1. a \in Seq(S) /\ Len(a) = i - 1 /\ \A k \in 1..(i - 1) : a[k] = s[k]
  BY <1>0, SubSeqProperties
<1>2. /\ b \in Seq(S) /\ Len(b) = Len(s) - i
      /\ \A k \in 1..(Len(s) - i) : b[k] = s[i + k]
  BY <1>0, SubSeqProperties
<1> HIDE DEF a, b
<1>3. /\ a \o b \in Seq(S) /\ Len(a \o b) = Len(s) - 1
      /\ \A k \in 1..(Len(s) - 1) : (a \o b)[k] = IF k <= i - 1 THEN a[k] ELSE b[k - (i - 1)]
  <2>1. /\ a \o b \in Seq(S) /\ Len(a \o b) = Len(a) + Len(b)
        /\ \A k \in 1..(Len(a) + Len(b)) : (a \o b)[k] = IF k <= Len(a) THEN a[k] ELSE b[k - Len(a)]
    BY <1>1, <1>2, ConcatProperties
  <2>2. Len(a) + Len(b) = Len(s) - 1
    BY <1>0, <1>1, <1>2
  <2>3. QED
    BY <2>1, <2>2, <1>1, Zenon
<1>4. \A k \in 1..(Len(s) - 1) : (a \o b)[k] = IF k < i THEN s[k] ELSE s[k + 1]
  <2> TAKE k \in 1..(Len(s) - 1)
  <2>1. CASE k < i
    BY <2>1, <1>0, <1>1, <1>3
  <2>2. CASE ~(k < i)
    <3>1. k - (i - 1) \in 1..(Len(s) - i) /\ i + (k - (i - 1)) = k + 1
      BY <2>2, <1>0
    <3>2. (a \o b)[k] = b[k - (i - 1)]
      BY <2>2, <1>0, <1>3
    <3>3. QED
      BY <3>1, <3>2, <2>2, <1>2, Zenon
  <2>3. QED
    BY <2>1, <2>2, Zenon
<1>5. QED
  BY <1>3, <1>4, Zenon DEF Dropped, a, b

\* Without takes exactly d off the list.
LEMMA WithoutLists ==
    ASSUME ListOK(order, results), NEW d \in Deliveries, Waits(results, d)
    PROVE  /\ Without(d) \in Seq(Deliveries)
           /\ \A i, j \in 1..Len(Without(d)) : Without(d)[i] = Without(d)[j] => i = j
           /\ \A e \in Deliveries : Waits(results, e) /\ e # d <=>
                                    \E i \in 1..Len(Without(d)) : Without(d)[i] = e
<1> DEFINE n == CHOOSE i \in DOMAIN order : order[i] = d
           w == Without(d)
<1>1. Len(order) \in Nat /\ DOMAIN order = 1..Len(order)
  BY LenProperties, Zenon DEF ListOK
<1>2. n \in 1..Len(order) /\ order[n] = d
  <2>1. \E i \in DOMAIN order : order[i] = d
    BY <1>1, Zenon DEF ListOK
  <2>2. QED
    BY <2>1, <1>1, Zenon
<1> HIDE DEF n
<1>3. /\ w \in Seq(Deliveries) /\ Len(w) = Len(order) - 1
      /\ \A k \in 1..(Len(order) - 1) : w[k] = IF k < n THEN order[k] ELSE order[k + 1]
  <2>1. w = Dropped(order, n)
    BY Zenon DEF Without, Dropped, n
  <2>2. order \in Seq(Deliveries)
    BY Zenon DEF ListOK
  <2> HIDE DEF w
  <2>3. QED
    BY <2>1, <2>2, <1>2, DroppedShape, Zenon
<1> HIDE DEF w
<1>4. \A i, j \in 1..Len(order) : order[i] = order[j] => i = j
  BY Zenon DEF ListOK
<1>5. ASSUME NEW i \in 1..Len(w), NEW j \in 1..Len(w), w[i] = w[j]
      PROVE  i = j
  <2> DEFINE f == IF i < n THEN i ELSE i + 1
             g == IF j < n THEN j ELSE j + 1
  <2>1. f \in 1..Len(order) /\ g \in 1..Len(order)
    BY <1>1, <1>2, <1>3
  <2>2. f = g
    <3>1. w[i] = order[f]
      BY <1>3, Zenon
    <3>2. w[j] = order[g]
      BY <1>3, Zenon
    <3> HIDE DEF f, g
    <3>3. QED
      BY <2>1, <3>1, <3>2, <1>4, <1>5, Zenon
  <2>3. QED
    BY <2>2, <1>1, <1>2, <1>3
<1>6. ASSUME NEW e \in Deliveries, Waits(results, e), e # d
      PROVE  \E i \in 1..Len(w) : w[i] = e
  <2>1. PICK k \in 1..Len(order) : order[k] = e
    BY <1>6, Zenon DEF ListOK
  <2>2. k # n
    BY <2>1, <1>2, <1>6, Zenon
  <2>3. CASE k < n
    BY <2>1, <2>3, <1>1, <1>2, <1>3
  <2>4. CASE k > n
    <3>1. k - 1 \in 1..Len(w) /\ ~(k - 1 < n) /\ (k - 1) + 1 = k
      BY <2>4, <1>1, <1>2, <1>3
    <3>2. QED
      BY <3>1, <2>1, <1>3, Zenon
  <2>5. QED
    BY <2>2, <2>3, <2>4, <1>1, <1>2
<1>7. ASSUME NEW e \in Deliveries, NEW i \in 1..Len(w), w[i] = e
      PROVE  Waits(results, e) /\ e # d
  <2> DEFINE f == IF i < n THEN i ELSE i + 1
  <2>1. f \in 1..Len(order) /\ f # n /\ w[i] = order[f]
    BY <1>1, <1>2, <1>3
  <2>2. QED
    BY <2>1, <1>2, <1>4, <1>7, Zenon DEF ListOK
<1>8. QED
  BY <1>3, <1>5, <1>6, <1>7, Zenon DEF w

\* A new pending response is listed behind the others.
LEMMA AppendLists ==
    ASSUME NEW seq, NEW Q, NEW d \in Deliveries, seq \in Seq(Deliveries), Waits(Q, d),
           \A i, j \in 1..Len(seq) : seq[i] = seq[j] => i = j,
           \A e \in Deliveries : Waits(Q, e) /\ e # d <=> \E i \in 1..Len(seq) : seq[i] = e
    PROVE  ListOK(Append(seq, d), Q)
<1> DEFINE a == Append(seq, d)
<1>1. /\ a \in Seq(Deliveries) /\ Len(a) = Len(seq) + 1 /\ Len(seq) \in Nat
      /\ \A i \in 1..Len(seq) : a[i] = seq[i]
      /\ a[Len(seq) + 1] = d
  BY AppendProperties, LenProperties
<1> HIDE DEF a
<1>2. \A i \in 1..Len(seq) : seq[i] # d /\ seq[i] \in Deliveries
  BY LenProperties
<1>3. ASSUME NEW i \in 1..Len(a), NEW j \in 1..Len(a), a[i] = a[j]
      PROVE  i = j
  <2>1. (i \in 1..Len(seq) \/ i = Len(seq) + 1) /\ (j \in 1..Len(seq) \/ j = Len(seq) + 1)
    BY <1>1
  <2>2. QED
    BY <2>1, <1>1, <1>2, <1>3
<1>4. \A e \in Deliveries : Waits(Q, e) <=> \E i \in 1..Len(a) : a[i] = e
  <2> TAKE e \in Deliveries
  <2>1. ASSUME Waits(Q, e) PROVE \E i \in 1..Len(a) : a[i] = e
    <3>1. CASE e = d
      BY <3>1, <1>1
    <3>2. CASE e # d
      <4>1. PICK i \in 1..Len(seq) : seq[i] = e
        BY <2>1, <3>2, Zenon
      <4>2. QED
        BY <4>1, <1>1
    <3>3. QED
      BY <3>1, <3>2, Zenon
  <2>2. ASSUME NEW i \in 1..Len(a), a[i] = e PROVE Waits(Q, e)
    <3>1. i \in 1..Len(seq) \/ i = Len(seq) + 1
      BY <1>1
    <3>2. CASE i \in 1..Len(seq)
      BY <3>2, <2>2, <1>1, Zenon
    <3>3. CASE i = Len(seq) + 1
      BY <3>3, <2>2, <1>1, Zenon
    <3>4. QED
      BY <3>1, <3>2, <3>3, Zenon
  <2>3. QED
    BY <2>1, <2>2, Zenon
<1>5. QED
  BY <1>1, <1>3, <1>4, Zenon DEF ListOK, a

----------------------------------------------------------------------------
(***************************************************************************)
(* Where the loop goes on.                                                 *)
(***************************************************************************)
\* The empty page, and a loop with nothing in hand.
LEMMA NothingInHand ==
    ASSUME NEW R, NEW E, NEW C, NEW H, NEW pc \in {"down", "idle"}
    PROVE  PageOK(<<>>, R) /\ LoopOK([Idle EXCEPT !.pc = pc], R, E, C, H) /\ LoopOK(Idle, R, E, C, H)
<1>1. <<>> \in Seq(Deliveries) /\ Len(<<>>) = 0
  BY EmptySeq, Zenon
<1>2. PageOK(<<>>, R)
  BY <1>1 DEF PageOK
<1>3. Idle \in Loops /\ [Idle EXCEPT !.pc = pc] \in Loops
  BY <1>1, Zenon DEF Idle, Loops, Points, Nobody
<1>4. QED
  BY <1>2, <1>3, Zenon DEF LoopOK, Idle

\* A page without its first response.
LEMMA PageTail ==
    ASSUME NEW page, NEW R, PageOK(page, R), page # <<>>
    PROVE  /\ Head(page) \in Deliveries /\ Waits(R, Head(page))
           /\ PageOK(Tail(page), R)
           /\ \A i \in 1..Len(Tail(page)) : Tail(page)[i] # Head(page)
<1>1. /\ page \in Seq(Deliveries) /\ Len(page) \in Nat \ {0}
      /\ Head(page) = page[1] /\ Head(page) \in Deliveries
      /\ Tail(page) \in Seq(Deliveries) /\ Len(Tail(page)) = Len(page) - 1
      /\ \A i \in 1..Len(Tail(page)) : Tail(page)[i] = page[i + 1]
  BY HeadTailProperties, EmptySeq DEF PageOK
<1>2. \A i \in 1..Len(Tail(page)) : i + 1 \in 1..Len(page) /\ i + 1 # 1
  BY <1>1
<1>3. \A i \in 1..Len(Tail(page)) : Waits(R, Tail(page)[i])
  BY <1>1, <1>2, Zenon DEF PageOK
<1>4. \A i, j \in 1..Len(Tail(page)) : Tail(page)[i] = Tail(page)[j] => i = j
  <2> TAKE i, j \in 1..Len(Tail(page))
  <2> HAVE Tail(page)[i] = Tail(page)[j]
  <2>1. i + 1 = j + 1
    BY <1>1, <1>2, Zenon DEF PageOK
  <2>2. QED
    BY <2>1, <1>1
<1>5. 1 \in 1..Len(page)
  BY <1>1
<1>6. QED
  BY <1>1, <1>2, <1>3, <1>4, <1>5, Zenon DEF PageOK

\* A reconciliation without a list has an empty page.
LEMMA NoPage ==
    ASSUME NEW R
    PROVE  PageOK(<<>>, R)
<1>1. <<>> \in Seq(Deliveries) /\ Len(<<>>) = 0
  BY EmptySeq, Zenon
<1>2. QED
  BY <1>1 DEF PageOK

\* The first n of the listed responses make a page.
LEMMA FirstIsPage ==
    ASSUME NEW seq, NEW R, ListOK(seq, R), NEW n \in Nat
    PROVE  PageOK(First(seq, n), R)
<1>1. seq \in Seq(Deliveries) /\ Len(seq) \in Nat /\ \A i \in 1..Len(seq) : seq[i] \in Deliveries
  BY LenProperties DEF ListOK
<1> DEFINE m == IF Len(seq) < n THEN Len(seq) ELSE n
<1>2. m \in Nat /\ m <= Len(seq)
  BY <1>1
<1> HIDE DEF m
<1>3. /\ SubSeq(seq, 1, m) \in Seq(Deliveries) /\ Len(SubSeq(seq, 1, m)) = m
      /\ \A i \in 1..m : SubSeq(seq, 1, m)[i] = seq[i]
  BY <1>1, <1>2, SubSeqProperties
<1>4. \A i \in 1..m : i \in 1..Len(seq) /\ Waits(R, seq[i])
  BY <1>1, <1>2 DEF ListOK
<1>5. PageOK(SubSeq(seq, 1, m), R)
  BY <1>3, <1>4, Zenon DEF PageOK, ListOK
<1>6. QED
  BY <1>5, Zenon DEF First, m

\* AfterPage goes on with the page or with what follows it.
LEMMA AfterPageOK ==
    ASSUME NEW p \in Loops, NEW R, NEW E, NEW C, NEW H,
           p.batch \subseteq E, PageOK(p.page, R), p.then = "process" => HasResult(p, R)
    PROVE  LoopOK(AfterPage(p), R, E, C, H)
<1>1. CASE p.page # <<>>
  <2> DEFINE q == [p EXCEPT !.pc = "attempt", !.cur = Nobody]
  <2>1. q \in Loops
    BY Zenon DEF Loops, Points
  <2>2. /\ q.pc = "attempt" /\ q.page = p.page /\ q.batch = p.batch /\ q.then = p.then
        /\ q.msg = p.msg
    BY Zenon DEF Loops
  <2> HIDE DEF q
  <2>3. LoopOK(q, R, E, C, H)
    BY <1>1, <2>1, <2>2, Zenon DEF LoopOK, HasResult, PushHeld
  <2>4. QED
    BY <1>1, <2>3, Zenon DEF AfterPage, q
<1>2. CASE p.page = <<>> /\ p.then = "reconcile"
  BY <1>2, NothingInHand, Zenon DEF AfterPage
<1>3. CASE p.page = <<>> /\ p.then # "reconcile"
  <2> DEFINE q == [p EXCEPT !.pc = "ack", !.cur = Nobody]
  <2>1. q \in Loops
    BY Zenon DEF Loops, Points
  <2>2. /\ q.pc = "ack" /\ q.page = p.page /\ q.batch = p.batch /\ q.then = p.then
        /\ q.msg = p.msg /\ p.then = "process"
    BY <1>3, Zenon DEF Loops
  <2> HIDE DEF q
  <2>3. LoopOK(q, R, E, C, H)
    BY <1>3, <2>1, <2>2, Zenon DEF LoopOK, HasResult, PushHeld
  <2>4. QED
    BY <1>3, <2>3, Zenon DEF AfterPage, q
<1>4. QED
  BY <1>1, <1>2, <1>3, Zenon

\* AfterFlush goes on with the batch, the responses or the delivery's own response.
LEMMA AfterFlushOK ==
    ASSUME NEW p \in Loops, NEW R, NEW E, NEW C, NEW H,
           p.batch \subseteq E, PageOK(p.page, R), p.then = "process" => HasResult(p, R)
    PROVE  LoopOK(AfterFlush(p, R), R, E, C, H)
<1>1. CASE p.batch # {}
  <2> DEFINE q == [p EXCEPT !.pc = "flush"]
  <2>1. q \in Loops
    BY Zenon DEF Loops, Points
  <2>2. /\ q.pc = "flush" /\ q.page = p.page /\ q.batch = p.batch /\ q.then = p.then
        /\ q.msg = p.msg
    BY Zenon DEF Loops
  <2> HIDE DEF q
  <2>3. LoopOK(q, R, E, C, H)
    BY <1>1, <2>1, <2>2, Zenon DEF LoopOK, HasResult, PushHeld
  <2>4. QED
    BY <1>1, <2>3, Zenon DEF AfterFlush, q
<1>2. CASE p.batch = {} /\ p.then = "reconcile"
  <2> DEFINE q == [p EXCEPT !.pc = "overdue"]
  <2>1. q \in Loops
    BY Zenon DEF Loops, Points
  <2>2. /\ q.pc = "overdue" /\ q.page = p.page /\ q.batch = p.batch /\ q.then = p.then
        /\ q.msg = p.msg
    BY Zenon DEF Loops
  <2> HIDE DEF q
  <2>3. LoopOK(q, R, E, C, H)
    BY <1>2, <2>1, <2>2, Zenon DEF LoopOK, HasResult, PushHeld
  <2>4. QED
    BY <1>2, <2>3, Zenon DEF AfterFlush, q
<1>3. CASE p.batch = {} /\ p.then # "reconcile"
  <2> DEFINE d == Messages[p.msg].delivery
             page == IF Waits(R, d) THEN <<d>> ELSE <<>>
             q == [p EXCEPT !.page = page]
  <2>1. HasResult(p, R) /\ d \in Deliveries
    BY <1>3, ScanConstants, Zenon DEF Loops, HasResult, PushHeld
  <2>2. PageOK(page, R)
    <3>1. CASE Waits(R, d)
      <4>1. /\ <<d>> \in Seq(Deliveries) /\ Len(<<d>>) = 1 /\ <<d>>[1] = d
        BY <2>1
      <4>2. PageOK(<<d>>, R)
        BY <4>1, <3>1 DEF PageOK
      <4>3. QED
        BY <4>2, <3>1, Zenon
    <3>2. CASE ~Waits(R, d)
      BY <3>2, NothingInHand, Zenon
    <3>3. QED
      BY <3>1, <3>2, Zenon
  <2> HIDE DEF page
  <2>3. q \in Loops
    BY <2>2, Zenon DEF Loops, PageOK
  <2>4. /\ q.page = page /\ q.batch = p.batch /\ q.then = p.then /\ q.msg = p.msg
    BY Zenon DEF Loops
  <2>5. AfterFlush(p, R) = AfterPage(q)
    BY <1>3, Zenon DEF AfterFlush, page, Waits
  <2> HIDE DEF q
  <2>6. LoopOK(AfterPage(q), R, E, C, H)
    <3>1. q.then = "process" => HasResult(q, R)
      BY <2>1, <2>4, Zenon DEF HasResult, PushHeld
    <3>2. QED
      BY <3>1, <2>2, <2>3, <2>4, AfterPageOK, Zenon
  <2>7. QED
    BY <2>5, <2>6, Zenon
<1>4. QED
  BY <1>1, <1>2, <1>3, Zenon

\* Flush starts with a batch of the events that are not marked.
LEMMA FlushOK ==
    ASSUME NEW p \in Loops, NEW then \in {"reconcile", "process"}, NEW R, NEW E \in SUBSET Deliveries,
           NEW C, NEW H, PageOK(p.page, R), then = "process" => HasResult(p, R)
    PROVE  LoopOK(Flush(p, then, E, R), R, E, C, H)
<1> DEFINE b == PendingEvents(E \ marked)
           q == [p EXCEPT !.then = then, !.found = "none", !.batch = b]
<1>1. b \subseteq E
  BY Zenon DEF PendingEvents
<1>2. q \in Loops
  BY <1>1, Zenon DEF Loops
<1>3. q.batch = b /\ q.page = p.page /\ q.then = then /\ q.msg = p.msg
  BY Zenon DEF Loops
<1>4. Flush(p, then, E, R) = AfterFlush(q, R)
  BY Zenon DEF Flush
<1> HIDE DEF b, q
<1>5. q.then = "process" => HasResult(q, R)
  BY <1>3, Zenon DEF HasResult, PushHeld
<1>6. QED
  BY <1>1, <1>2, <1>3, <1>4, <1>5, AfterFlushOK, Zenon

----------------------------------------------------------------------------
(***************************************************************************)
(* The steps.                                                              *)
(***************************************************************************)
\* Steps that change the loop's place only, or nothing but the bus's bookkeeping.
LEMMA QuietStep ==
    ASSUME IInv, UNCHANGED <<store, sent, halted, late>>, Counted', AckedHasResult',
           LoopOK(proc', results, events, receipts, halted)
    PROVE  IInv'
BY Zenon DEF IInv, store, Stored, HaltsMatchFindings, SLOTruthful

LEMMA RegistrySteps ==
    ASSUME IInv, NEW t \in Tokens,
           \/ \E s \in {"active", "expired", "revoked"} : Register(t, s)
           \/ \E s \in {"expired", "revoked"} : TransitionFingerprintState(t, s)
           \/ TokenAges(t)
    PROVE  IInv'
<1>1. tokens' \in [Tokens -> {"absent", "active", "expired", "revoked", "pruned"}]
  BY Zenon DEF IInv, Stored, Register, TransitionFingerprintState, TokenAges
<1>2. UNCHANGED <<msgs, receipts, results, order, events, marked, sent, halted, late, proc>>
  BY Zenon DEF Register, TransitionFingerprintState, TokenAges
<1>3. QED
  BY <1>1, <1>2 DEF IInv, Counted, Stored, AckedHasResult, HaltsMatchFindings, SLOTruthful

LEMMA DeadlineStep ==
    ASSUME IInv, NEW d \in Deliveries, DeadlinePasses(d)
    PROVE  IInv'
<1>1. UNCHANGED <<msgs, store, sent, halted, proc>> /\ late' \subseteq Deliveries
  BY Zenon DEF DeadlinePasses, IInv, Stored
<1>2. QED
  BY <1>1 DEF IInv, Counted, Stored, AckedHasResult, HaltsMatchFindings, SLOTruthful, store

LEMMA RedeliverStep ==
    ASSUME IInv, NEW m \in DOMAIN Messages, Redeliver(m)
    PROVE  IInv'
<1>1. Counted'
  BY ScanConstants DEF Redeliver, Settle, IInv, Counted
<1>2. AckedHasResult'
  BY Zenon DEF Redeliver, Settle, IInv, Counted, AckedHasResult, store
<1>3. QED
  BY <1>1, <1>2, QuietStep, Zenon DEF Redeliver, IInv

\* Publishing and its failure.
LEMMA PublishSteps ==
    ASSUME IInv, PublishEvent \/ \E b \in BOOLEAN : FlushFails(b)
    PROVE  IInv'
<1>1. proc \in Loops /\ proc.pc = "flush" /\ proc.batch \subseteq Deliveries /\ proc.batch # {}
  BY Zenon DEF IInv, LoopOK, Loops, PublishEvent, FlushFails
<1>2. NextEvent \in proc.batch /\ NextEvent \in events
  BY <1>1, NextEventInBatch, Zenon DEF IInv, LoopOK
<1>3. UNCHANGED <<msgs, tokens, receipts, results, order, events, halted, late>>
  BY Zenon DEF PublishEvent, FlushFails, store
<1>4. sent' \cup marked' \subseteq events
  BY <1>2, Zenon DEF PublishEvent, FlushFails, store, IInv, Stored
<1>5. LoopOK(proc', results, events, receipts, halted)
  <2>1. PICK b \in SUBSET proc.batch : proc' = AfterFlush([proc EXCEPT !.batch = b], results)
    BY Zenon DEF PublishEvent, FlushFails
  <2> DEFINE q == [proc EXCEPT !.batch = b]
  <2>2. q \in Loops /\ q.batch = b /\ q.page = proc.page /\ q.then = proc.then /\ q.msg = proc.msg
    BY <1>1, Zenon DEF Loops
  <2> HIDE DEF q
  <2>3. q.then = "process" => HasResult(q, results)
    BY <1>1, <2>2, Zenon DEF IInv, LoopOK, HasResult, PushHeld
  <2>4. q.batch \subseteq events /\ PageOK(q.page, results)
    BY <2>2, Zenon DEF IInv, LoopOK
  <2>5. LoopOK(AfterFlush(q, results), results, events, receipts, halted)
    BY <2>2, <2>3, <2>4, AfterFlushOK, Zenon
  <2>6. QED
    BY <2>1, <2>5, Zenon DEF q
<1>6. QED
  BY <1>3, <1>4, <1>5 DEF IInv, Counted, Stored, AckedHasResult, HaltsMatchFindings, SLOTruthful

LEMMA ReconcileSteps ==
    ASSUME IInv, Startup \/ ReconcileDue
    PROVE  IInv'
<1>1. proc \in Loops /\ Idle \in Loops /\ PageOK(proc.page, results) /\ PageOK(Idle.page, results)
  BY NothingInHand, Zenon DEF IInv, LoopOK, Idle
<1>2. events \in SUBSET Deliveries
  BY Zenon DEF IInv, Stored
<1>3. /\ LoopOK(Flush(Idle, "reconcile", events, results), results, events, receipts, halted)
      /\ LoopOK(Flush(proc, "reconcile", events, results), results, events, receipts, halted)
  BY <1>1, <1>2, FlushOK, Zenon
<1>4. QED
  BY <1>3, QuietStep, Zenon DEF Startup, ReconcileDue, IInv, Counted, AckedHasResult, store

\* Marking what is overdue, and listing the page.
LEMMA ListStep ==
    ASSUME IInv, NEW b \in BOOLEAN, NEW c \in BOOLEAN, ListPending(b, c)
    PROVE  IInv'
<1>1. /\ proc \in Loops /\ proc.pc = "overdue" /\ proc.then = "reconcile"
      /\ results \in Results /\ ResultShape(results)
  BY Zenon DEF IInv, LoopOK, Stored, ListPending
<1>2. /\ results' \in Results
      /\ \A d \in Deliveries : /\ results'[d].status = results[d].status
                               /\ results'[d].alertLate = results[d].alertLate
                               /\ \/ results'[d].slo = results[d].slo
                                  \/ Waits(results, d) /\ results'[d].slo = "breached"
  BY <1>1 DEF ListPending, MarkOverdueResponses, Results, SLOStates, Waits
<1>3. ResultShape(results')
  BY <1>1, <1>2 DEF ResultShape, Waits
<1>4. UNCHANGED <<msgs, tokens, receipts, order, events, marked, sent, halted, late>>
  BY Zenon DEF ListPending
<1>5. ListOK(order, results')
  BY <1>2, Zenon DEF IInv, ListOK, Waits
<1>6. LoopOK(proc', results', events, receipts, halted)
  <2> DEFINE page == IF c THEN First(order, PageSize) ELSE <<>>
             q == [proc EXCEPT !.page = page]
  <2>1. PageOK(page, results')
    BY <1>5, FirstIsPage, NoPage, ScanConstants, Zenon
  <2> HIDE DEF page
  <2>2. q \in Loops /\ q.batch = proc.batch /\ q.page = page /\ q.then = "reconcile"
    BY <1>1, <2>1, Zenon DEF Loops, PageOK
  <2>3. proc' = AfterPage(q)
    BY Zenon DEF ListPending, page
  <2> HIDE DEF q
  <2>4. q.batch \subseteq events
    BY <2>2, Zenon DEF IInv, LoopOK
  <2>5. QED
    BY <2>1, <2>2, <2>3, <2>4, AfterPageOK, Zenon
<1>7. Stored'
  BY <1>2, <1>3, <1>4, Zenon DEF IInv, Stored
<1>8. AckedHasResult' /\ HaltsMatchFindings' /\ SLOTruthful'
  <2>1. AckedHasResult'
    BY <1>2, <1>4, ScanConstants, Zenon DEF IInv, AckedHasResult
  <2>2. HaltsMatchFindings'
    BY <1>1, <1>2, <1>4 DEF IInv, HaltsMatchFindings, Waits, ResultShape
  <2>3. SLOTruthful'
    BY <1>1, <1>2, <1>4 DEF IInv, SLOTruthful, Waits
  <2>4. QED
    BY <2>1, <2>2, <2>3, Zenon
<1>9. QED
  BY <1>4, <1>5, <1>6, <1>7, <1>8, Zenon DEF IInv, Counted

\* What the loop has, q, when it goes on after a response, with results R.
GoesOn(q, R) ==
    /\ q \in Loops /\ proc.pc \in {"attempt", "respond", "complete"}
    /\ q.batch = proc.batch /\ q.then = proc.then /\ q.msg = proc.msg /\ PageOK(q.page, R)
    /\ \A d \in Deliveries : results[d].status # "none" => R[d].status # "none"

\* The loop goes on after a response, or drops the one it could not record.
LEMMA PageSteps ==
    ASSUME IInv, NEW q, NEW R, GoesOn(q, R)
    PROVE  LoopOK(AfterPage(q), R, events, receipts, halted')
<1>1. q \in Loops /\ PageOK(q.page, R)
  BY Zenon DEF GoesOn
<1>2. proc.batch \subseteq events
  BY Zenon DEF IInv, LoopOK
<1>3. q.batch \subseteq events
  BY <1>2, Zenon DEF GoesOn
<1>4. q.then = "process" => HasResult(q, R)
  <2>1. proc.then = "process" => HasResult(proc, results)
    BY Zenon DEF GoesOn, IInv, LoopOK
  <2>2. PushHeld(proc) => Messages[proc.msg].delivery \in Deliveries
    BY ScanConstants, Zenon DEF PushHeld
  <2>3. QED
    BY <2>1, <2>2, Zenon DEF GoesOn, HasResult, PushHeld
<1>5. QED
  BY <1>1, <1>3, <1>4, AfterPageOK, Zenon

LEMMA AttemptStep ==
    ASSUME IInv, NEW b \in BOOLEAN, Attempt(b)
    PROVE  IInv'
<1> DEFINE d == Head(proc.page)
<1>1. /\ proc \in Loops /\ proc.pc = "attempt" /\ proc.page # <<>> /\ PageOK(proc.page, results)
      /\ ListOK(order, results)
  BY Zenon DEF IInv, LoopOK, Attempt
<1>2. /\ d \in Deliveries /\ Waits(results, d) /\ PageOK(Tail(proc.page), results)
      /\ \A i \in 1..Len(Tail(proc.page)) : Tail(proc.page)[i] # d
  BY <1>1, PageTail, Zenon
<1>3. UNCHANGED <<msgs, tokens, receipts, results, events, marked, sent, halted, late>>
  BY Zenon DEF Attempt
<1>4. CASE b = TRUE
  <2>1. order' = Append(Without(d), d)
    BY <1>4, Zenon DEF Attempt, RecordResponseAttempt
  <2>2. ListOK(order', results)
    <3> DEFINE w == Without(d)
    <3>1. /\ w \in Seq(Deliveries)
          /\ \A i, j \in 1..Len(w) : w[i] = w[j] => i = j
          /\ \A e \in Deliveries : Waits(results, e) /\ e # d <=> \E i \in 1..Len(w) : w[i] = e
      BY <1>1, <1>2, WithoutLists, Zenon
    <3>2. order' = Append(w, d)
      BY <2>1, Zenon
    <3> HIDE DEF w, d
    <3>3. d \in Deliveries /\ Waits(results, d)
      BY <1>2, Zenon
    <3>4. ListOK(Append(w, d), results)
      BY <3>1, <3>3, AppendLists
    <3>5. QED
      BY <3>2, <3>4, Zenon
  <2> DEFINE q == [proc EXCEPT !.pc = "respond", !.cur = d, !.page = Tail(@)]
  <2>3. proc' = q
    BY <1>4, Zenon DEF Attempt
  <2>4. /\ q \in Loops /\ q.pc = "respond" /\ q.cur = d /\ q.page = Tail(proc.page)
        /\ q.then = proc.then /\ q.msg = proc.msg /\ q.batch = proc.batch
    BY <1>1, <1>2, Zenon DEF Loops, Points, PageOK
  <2> HIDE DEF q
  <2>5. LoopOK(q, results, events, receipts, halted)
    BY <2>4, <1>1, <1>2, Zenon DEF IInv, LoopOK, HasResult, PushHeld
  <2>6. QED
    BY <2>2, <2>3, <2>5, <1>3
       DEF IInv, Counted, Stored, AckedHasResult, HaltsMatchFindings, SLOTruthful
<1>5. CASE b = FALSE
  <2> DEFINE q == [proc EXCEPT !.page = Tail(@)]
  <2>1. proc' = AfterPage(q) /\ order' = order
    BY <1>5, Zenon DEF Attempt
  <2>2. /\ q \in Loops /\ q.page = Tail(proc.page)
        /\ q.then = proc.then /\ q.msg = proc.msg /\ q.batch = proc.batch
    BY <1>1, <1>2, Zenon DEF Loops, PageOK
  <2> HIDE DEF q
  <2>3. LoopOK(AfterPage(q), results, events, receipts, halted')
    <3>1. GoesOn(q, results)
      BY <2>2, <1>1, <1>2, Zenon DEF GoesOn
    <3>2. QED
      BY <3>1, PageSteps, Zenon
  <2>4. QED
    BY <2>1, <2>3, <1>3, QuietStep, Zenon DEF IInv, Counted, AckedHasResult, store
<1>6. QED
  BY <1>4, <1>5, Zenon

LEMMA RespondSteps ==
    ASSUME IInv, Respond \/ \E b \in BOOLEAN : RespondFails(b)
    PROVE  IInv'
<1> DEFINE d == proc.cur
<1>1. /\ proc \in Loops /\ proc.pc = "respond" /\ PageOK(proc.page, results)
      /\ d \in Deliveries /\ Waits(results, d)
      /\ halted \in Halts /\ ResultShape(results)
  BY Zenon DEF IInv, LoopOK, Stored, Respond, RespondFails
<1>2. UNCHANGED <<msgs, store, sent, late>>
  BY Zenon DEF Respond, RespondFails
<1>3. halted' = halted \/ halted' = [halted EXCEPT ![d] = Halt(d)]
  BY Zenon DEF Respond, RespondFails
<1>4. /\ halted' \in Halts
      /\ \A e \in Deliveries : halted[e] # "no" => halted'[e] = halted[e]
      /\ \A e \in Deliveries : halted'[e] # halted[e] => e = d
  BY <1>1, <1>3, Zenon DEF Halts, Halt
<1>5. LoopOK(proc', results, events, receipts, halted')
  <2>1. CASE Respond
    <3> DEFINE q == [proc EXCEPT !.pc = "complete"]
    <3>1. /\ q \in Loops /\ q.pc = "complete" /\ q.cur = d /\ q.page = proc.page
          /\ q.then = proc.then /\ q.msg = proc.msg /\ q.batch = proc.batch
      BY <1>1, Zenon DEF Loops, Points
    <3>2. proc' = q /\ halted'[d] # "no"
      BY <2>1, <1>1, Zenon DEF Respond, Halt, Halts
    <3> HIDE DEF q
    <3>3. QED
      BY <3>1, <3>2, <1>1, Zenon DEF IInv, LoopOK, HasResult, PushHeld
  <2>2. CASE \E b \in BOOLEAN : RespondFails(b)
    <3>1. proc' = AfterPage(proc)
      BY <2>2, Zenon DEF RespondFails
    <3>2. GoesOn(proc, results)
      BY <1>1, Zenon DEF GoesOn
    <3>3. QED
      BY <3>1, <3>2, PageSteps, Zenon
  <2>3. QED
    BY <2>1, <2>2, Zenon
<1>6. HaltsMatchFindings'
  <2>1. \A e \in Deliveries : halted'[e] # "no" => halted[e] # "no" \/ e = d
    BY <1>4, Zenon
  <2>2. \A e \in Deliveries : halted[e] # "no" => halted'[e] # "no"
    BY <1>4, Zenon
  <2>3. results[d].status = "response_pending" /\ results[d].slo \in {"pending", "met", "breached"}
    BY <1>1, Zenon DEF Waits, ResultShape
  <2>4. QED
    BY <2>1, <2>2, <2>3, <1>2, Zenon DEF IInv, HaltsMatchFindings, store
<1>7. SLOTruthful'
  <2>1. \A e \in Deliveries : results[e].status = "finding_high" => halted'[e] = halted[e]
    BY <1>1, <1>4, Zenon DEF Waits
  <2>2. QED
    BY <2>1, <1>2, Zenon DEF IInv, SLOTruthful, store
<1>8. Counted' /\ AckedHasResult' /\ Stored' /\ ListOK(order', results')
  BY <1>2, <1>4, Zenon DEF IInv, Counted, AckedHasResult, Stored, store
<1>9. QED
  BY <1>2, <1>5, <1>6, <1>7, <1>8, Zenon DEF IInv, store

LEMMA CompleteSteps ==
    ASSUME IInv, CompleteResponse \/ CompleteFails
    PROVE  IInv'
<1> DEFINE d == proc.cur
<1>1. /\ proc \in Loops /\ proc.pc = "complete" /\ PageOK(proc.page, results)
      /\ d \in Deliveries /\ Waits(results, d) /\ halted[d] # "no"
      /\ \A i \in 1..Len(proc.page) : proc.page[i] # d
      /\ halted \in Halts /\ results \in Results /\ ListOK(order, results)
  BY Zenon DEF IInv, LoopOK, Stored, CompleteResponse, CompleteFails
<1>2. CASE CompleteFails
  <2>1. proc' = AfterPage(proc) /\ UNCHANGED <<msgs, store, sent, halted, late>>
    BY <1>2, Zenon DEF CompleteFails
  <2>2. LoopOK(AfterPage(proc), results, events, receipts, halted')
    <3>1. GoesOn(proc, results)
      BY <1>1, Zenon DEF GoesOn
    <3>2. QED
      BY <3>1, PageSteps, Zenon
  <2>3. QED
    BY <2>1, <2>2, QuietStep, Zenon DEF IInv, Counted, AckedHasResult, store
<1>3. CASE CompleteResponse
  <2> DEFINE o == SLOOutcome(d)
  <2>1. /\ results' = [results EXCEPT ![d].status = "finding_high", ![d].slo = o]
        /\ order' = Without(d) /\ proc' = AfterPage(proc)
        /\ UNCHANGED <<msgs, tokens, receipts, events, marked, sent, halted, late>>
    BY <1>3, Zenon DEF CompleteResponse
  <2>2. o \in {"met", "breached"}
    BY Zenon DEF SLOOutcome
  <2>3. o = "met" <=> halted[d] = "in_time" /\ ~results[d].alertLate
    BY <1>1, Zenon DEF SLOOutcome, Halts, Results
  <2> HIDE DEF o
  <2>4. /\ results' \in Results
        /\ results'[d].status = "finding_high" /\ results'[d].slo = o
        /\ results'[d].alertLate = results[d].alertLate
        /\ \A e \in Deliveries : e # d => results'[e] = results[e]
    BY <1>1, <2>1, <2>2 DEF Results, Statuses, SLOStates
  <2>5. ListOK(order', results')
    <3>1. \A e \in Deliveries : Waits(results', e) <=> Waits(results, e) /\ e # d
      BY <2>4, Zenon DEF Waits
    <3> DEFINE w == Without(d)
    <3>2. /\ w \in Seq(Deliveries)
          /\ \A i, j \in 1..Len(w) : w[i] = w[j] => i = j
          /\ \A e \in Deliveries : Waits(results, e) /\ e # d <=> \E i \in 1..Len(w) : w[i] = e
      BY <1>1, WithoutLists, Zenon
    <3>3. order' = w
      BY <2>1, Zenon
    <3> HIDE DEF w, d
    <3>4. QED
      BY <3>1, <3>2, <3>3, Zenon DEF ListOK
  <2>6. LoopOK(proc', results', events, receipts, halted')
    <3>1. PageOK(proc.page, results')
      <4>1. \A i \in 1..Len(proc.page) : proc.page[i] \in Deliveries
        BY <1>1, LenProperties DEF PageOK
      <4>2. \A i \in 1..Len(proc.page) : Waits(results, proc.page[i]) /\ proc.page[i] # d
        BY <1>1, Zenon DEF PageOK
      <4> HIDE DEF d
      <4>3. \A i \in 1..Len(proc.page) : Waits(results', proc.page[i])
        BY <4>1, <4>2, <2>4, Zenon DEF Waits
      <4>4. QED
        BY <4>3, <1>1, Zenon DEF PageOK
    <3>2. \A e \in Deliveries : results[e].status # "none" => results'[e].status # "none"
      BY <2>4, Zenon
    <3>3. proc \in Loops /\ proc.pc \in {"attempt", "respond", "complete"}
      BY <1>1, Zenon
    <3>4. LoopOK(AfterPage(proc), results', events, receipts, halted')
      <4>1. GoesOn(proc, results')
        BY <3>1, <3>2, <3>3, Zenon DEF GoesOn
      <4>2. QED
        BY <4>1, PageSteps, Zenon
    <3>5. QED
      BY <3>4, <2>1, Zenon
  <2>7. Stored'
    <3>1. ResultShape(results')
      BY <2>2, <2>4, Zenon DEF IInv, Stored, ResultShape
    <3>2. \A e \in Deliveries : results'[e].status # "none" => e \in receipts
      BY <1>1, <2>4, Zenon DEF IInv, Stored, Waits
    <3>3. QED
      BY <2>1, <2>4, <3>1, <3>2, Zenon DEF IInv, Stored
  <2>8. AckedHasResult'
    BY <2>1, <2>4, ScanConstants, Zenon DEF IInv, AckedHasResult
  <2>9. HaltsMatchFindings'
    <3>1. halted' = halted /\ HaltsMatchFindings
      BY <2>1, Zenon DEF IInv
    <3>2. results'[d].slo \in {"met", "breached"} /\ results'[d].status = "finding_high"
      BY <2>2, <2>4, Zenon
    <3> HIDE DEF d
    <3>3. ASSUME NEW e \in Deliveries
          PROVE  /\ halted'[e] # "no" =>
                       /\ results'[e].status \in {"response_pending", "finding_high"}
                       /\ results'[e].slo \in {"pending", "met", "breached"}
                 /\ results'[e].status = "finding_high" /\ results'[e].slo # "not_live" =>
                       halted'[e] # "no"
      <4>1. CASE e = d
        BY <1>1, <3>1, <3>2, <4>1, Zenon
      <4>2. CASE e # d
        BY <2>4, <3>1, <4>2, Zenon DEF HaltsMatchFindings
      <4>3. QED
        BY <4>1, <4>2, Zenon
    <3>4. QED
      BY <3>3, Zenon DEF HaltsMatchFindings
  <2>10. SLOTruthful'
    <3> SUFFICES ASSUME NEW e \in Deliveries, results'[e].status = "finding_high",
                        results'[e].slo # "not_live"
                 PROVE  results'[e].slo = "met" <=> halted'[e] = "in_time" /\ ~results'[e].alertLate
      BY Zenon DEF SLOTruthful
    <3>1. CASE e = d
      BY <3>1, <2>1, <2>2, <2>3, <2>4, Zenon
    <3>2. CASE e # d
      BY <3>2, <2>1, <2>4 DEF IInv, SLOTruthful
    <3>3. QED
      BY <3>1, <3>2, Zenon
  <2>11. QED
    BY <2>1, <2>5, <2>6, <2>7, <2>8, <2>9, <2>10 DEF IInv, Counted
<1>4. QED
  BY <1>2, <1>3, Zenon

LEMMA FetchStep ==
    ASSUME IInv, NEW m \in DOMAIN Messages, Fetch(m)
    PROVE  IInv'
<1>1. UNCHANGED <<store, sent, halted, late>>
  BY Zenon DEF Fetch
<1>2. PICK st \in {"termed", "acked", "out"} :
         /\ msgs' = [msgs EXCEPT ![m] = [state |-> st, count |-> @.count + 1]]
         /\ st = "acked" => Messages[m].kind = "other"
  BY Zenon DEF Fetch
<1>3. msgs[m].state = "queued"
  BY Zenon DEF Fetch
<1>4. Counted'
  BY <1>2, <1>3, ScanConstants DEF IInv, Counted
<1>5. AckedHasResult'
  BY <1>1, <1>2, Zenon DEF IInv, Counted, AckedHasResult, store
<1>6. LoopOK(proc', results, events, receipts, halted)
  <2>1. CASE Messages[m].kind = "push"
    <3> DEFINE q == [Idle EXCEPT !.pc = "receipt", !.msg = m]
    <3>1. <<>> \in Seq(Deliveries)
      BY EmptySeq, Zenon
    <3>2. /\ q \in Loops /\ q.pc = "receipt" /\ q.batch = {} /\ q.page = <<>>
          /\ q.then = "reconcile" /\ q.msg = m
      BY <3>1, Zenon DEF Idle, Loops, Points
    <3>3. proc' = q
      BY <2>1, Zenon DEF Fetch
    <3> HIDE DEF q
    <3>4. PageOK(q.page, results)
      BY <3>2, NothingInHand, Zenon
    <3>5. QED
      BY <3>2, <3>3, <3>4, <2>1, Zenon DEF LoopOK, PushHeld
  <2>2. CASE Messages[m].kind # "push"
    BY <2>2, Zenon DEF Fetch, IInv
  <2>3. QED
    BY <2>1, <2>2, Zenon
<1>7. QED
  BY <1>1, <1>4, <1>5, <1>6, QuietStep, Zenon

LEMMA ReceiptStep ==
    ASSUME IInv, RecordReceipt
    PROVE  IInv'
<1>1. /\ proc \in Loops /\ proc.pc = "receipt" /\ PushHeld(proc) /\ PageOK(proc.page, results)
      /\ proc.batch \subseteq events /\ Delivery \in Deliveries
  BY ScanConstants, Zenon DEF IInv, LoopOK, RecordReceipt, PushHeld, Delivery
<1>2. /\ receipts' = receipts \cup {Delivery}
      /\ UNCHANGED <<msgs, tokens, results, order, events, marked, sent, halted, late>>
  BY Zenon DEF RecordReceipt
<1>3. LoopOK(proc', results, events, receipts', halted)
  <2>1. CASE results[Delivery].status # "none"
    <3>1. proc' = Flush(proc, "process", events, results)
      BY <2>1, Zenon DEF RecordReceipt
    <3>2. HasResult(proc, results)
      BY <2>1, <1>1, Zenon DEF HasResult, Delivery
    <3>3. events \in SUBSET Deliveries
      BY Zenon DEF IInv, Stored
    <3>4. LoopOK(Flush(proc, "process", events, results), results, events, receipts', halted)
      BY <3>2, <3>3, <1>1, FlushOK, Zenon
    <3>5. QED
      BY <3>1, <3>4, Zenon
  <2>2. CASE results[Delivery].status = "none"
    <3> DEFINE q == [proc EXCEPT !.pc = "scan"]
    <3>1. proc' = q
      BY <2>2, Zenon DEF RecordReceipt
    <3>2. /\ q \in Loops /\ q.pc = "scan" /\ q.batch = proc.batch /\ q.page = proc.page
          /\ q.then = proc.then /\ q.msg = proc.msg
      BY <1>1, Zenon DEF Loops, Points
    <3> HIDE DEF q
    <3>3. QED
      BY <1>1, <1>2, <2>2, <3>1, <3>2, Zenon DEF LoopOK, PushHeld, Delivery
  <2>3. QED
    BY <2>1, <2>2, Zenon
<1>4. Stored'
  BY <1>2, Zenon DEF IInv, Stored
<1>5. QED
  BY <1>2, <1>3, <1>4, Zenon DEF IInv, Counted, AckedHasResult, HaltsMatchFindings, SLOTruthful

LEMMA ScanStep ==
    ASSUME IInv, NEW usable \in BOOLEAN, Scan(usable)
    PROVE  IInv'
<1>1. /\ proc \in Loops /\ proc.pc = "scan" /\ Delivery \in Deliveries
      /\ tokens \in [Tokens -> {"absent", "active", "expired", "revoked", "pruned"}]
  BY ScanConstants, Zenon DEF IInv, LoopOK, Stored, Scan, PushHeld, Delivery
<1> DEFINE f == IF Delivery \notin Catalog THEN "rejected"
                ELSE IF usable THEN Outcome(Delivery) ELSE "unavailable"
           q == [proc EXCEPT !.pc = "record", !.found = f]
<1>2. Outcome(Delivery) \in Founds
  <2>1. Carries[Delivery] \in Tokens => MatchCandidate(Carries[Delivery]) \in Founds
    BY <1>1, Zenon DEF MatchCandidate, Founds
  <2>2. Carries[Delivery] \notin Tokens => Carries[Delivery] \in Founds
    BY <1>1, ScanConstants, Zenon DEF Founds
  <2>3. QED
    BY <2>1, <2>2, Zenon DEF Outcome
<1>3. f \in Founds
  BY <1>2, Zenon DEF Founds
<1>4. proc' = q
  BY Zenon DEF Scan
<1> HIDE DEF f
<1>5. /\ q \in Loops /\ q.pc = "record" /\ q.found = f /\ q.batch = proc.batch
      /\ q.page = proc.page /\ q.then = proc.then /\ q.msg = proc.msg
  BY <1>1, <1>3, Zenon DEF Loops, Points
<1> HIDE DEF q
<1>6. LoopOK(q, results, events, receipts, halted)
  BY <1>1, <1>3, <1>5, Zenon DEF IInv, LoopOK, PushHeld
<1>7. QED
  BY <1>4, <1>6, QuietStep, Zenon DEF Scan, IInv, Counted, AckedHasResult, store

\* What a scan's result says.
OfShape(r, f) ==
    /\ r \in [status : Statuses \ {"none"}, slo : SLOStates, alertLate : BOOLEAN]
    /\ r.status = "response_pending" <=> Live(f)
    /\ r.status = "response_pending" => r.slo = "pending"
    /\ r.status = "finding_high" => r.slo = "not_live"
    /\ r.status \notin {"response_pending", "finding_high"} => r.slo = "not_applicable"

\* RecordResult writes a row of that shape.
LEMMA ResultOfShape ==
    ASSUME NEW f \in Founds, NEW isLate \in BOOLEAN
    PROVE  OfShape(ResultOf(f, isLate), f)
<1>1. /\ Live(f) => f \notin {"shape", "expired", "revoked"}
      /\ f \in {"unavailable", "canary", "active", "shape", "expired", "revoked", "rejected", "clean"}
  BY Zenon DEF Live, Founds
<1>2. Live(f) => ResultOf(f, isLate).status = "response_pending" /\ ResultOf(f, isLate).slo = "pending"
  BY <1>1, Zenon DEF ResultOf
<1>3. f = "shape" => ResultOf(f, isLate).status = "finding_low" /\ ResultOf(f, isLate).slo = "not_applicable"
  BY Zenon DEF ResultOf, Live
<1>4. f \in {"expired", "revoked"} =>
         ResultOf(f, isLate).status = "finding_high" /\ ResultOf(f, isLate).slo = "not_live"
  BY Zenon DEF ResultOf, Live
<1>5. f \in {"rejected", "clean"} =>
         ResultOf(f, isLate).status = f /\ ResultOf(f, isLate).slo = "not_applicable"
  BY Zenon DEF ResultOf, Live
<1>6. Live(f) <=> f \in {"unavailable", "canary", "active"}
  BY Zenon DEF Live
<1>7. /\ ResultOf(f, isLate).status \in Statuses \ {"none"}
      /\ ResultOf(f, isLate).slo \in SLOStates
  BY <1>1, <1>2, <1>3, <1>4, <1>5, <1>6, Zenon DEF Statuses, SLOStates
<1>8. ResultOf(f, isLate) \in [status : Statuses \ {"none"}, slo : SLOStates, alertLate : BOOLEAN]
  BY <1>7, Zenon DEF ResultOf
<1>9. QED
  BY <1>1, <1>2, <1>3, <1>4, <1>5, <1>6, <1>8 DEF OfShape

LEMMA RecordStep ==
    ASSUME IInv, RecordResult
    PROVE  IInv'
<1> DEFINE d == Delivery
           r == ResultOf(proc.found, d \in late)
<1>1. /\ proc \in Loops /\ proc.pc = "record" /\ PushHeld(proc) /\ PageOK(proc.page, results)
      /\ proc.batch \subseteq events /\ d \in Deliveries /\ d \in receipts
      /\ results[d].status = "none" /\ proc.found \in Founds
      /\ results \in Results /\ halted \in Halts /\ ListOK(order, results)
  BY ScanConstants, Zenon DEF IInv, LoopOK, Stored, RecordResult, PushHeld, Delivery
<1>2. /\ results' = [results EXCEPT ![d] = r]
      /\ UNCHANGED <<msgs, tokens, receipts, marked, sent, halted, late>>
  BY Zenon DEF RecordResult
<1>3. /\ r \in [status : Statuses \ {"none"}, slo : SLOStates, alertLate : BOOLEAN]
      /\ r.status = "response_pending" <=> Live(proc.found)
      /\ r.status = "response_pending" => r.slo = "pending"
      /\ r.status = "finding_high" => r.slo = "not_live"
      /\ r.status \notin {"response_pending", "finding_high"} => r.slo = "not_applicable"
  <2>1. (d \in late) \in BOOLEAN
    OBVIOUS
  <2>2. OfShape(r, proc.found)
    BY <1>1, <2>1, ResultOfShape, Zenon
  <2> HIDE DEF r
  <2>3. QED
    BY <2>2, Zenon DEF OfShape
<1>4. events' \in SUBSET Deliveries /\ events \subseteq events'
  BY <1>1, Zenon DEF RecordResult, IInv, Stored
<1>5. order' = IF Live(proc.found) THEN Append(order, d) ELSE order
  BY Zenon DEF RecordResult
<1> HIDE DEF r
<1>6. /\ results' \in Results /\ results'[d] = r /\ r.status # "none"
      /\ \A e \in Deliveries : e # d => results'[e] = results[e]
  BY <1>1, <1>2, <1>3, Zenon DEF Results
<1>7. halted[d] = "no"
  BY <1>1, Zenon DEF IInv, HaltsMatchFindings
<1>8. PageOK(proc.page, results')
  <2>1. \A i \in 1..Len(proc.page) : proc.page[i] \in Deliveries
    BY <1>1, LenProperties DEF PageOK
  <2>2. QED
    BY <2>1, <1>1, <1>6, Zenon DEF PageOK, Waits
<1>9. LoopOK(proc', results', events', receipts, halted)
  <2>1. HasResult(proc, results')
    BY <1>1, <1>6, Zenon DEF HasResult, Delivery
  <2>2. CASE proc.found = "rejected"
    <3> DEFINE q == [proc EXCEPT !.pc = "ack", !.found = "none"]
    <3>1. proc' = q
      BY <2>2, Zenon DEF RecordResult
    <3>2. /\ q \in Loops /\ q.pc = "ack" /\ q.batch = proc.batch
          /\ q.page = proc.page /\ q.then = proc.then /\ q.msg = proc.msg
      BY <1>1, Zenon DEF Loops, Points
    <3> HIDE DEF q
    <3>3. QED
      BY <1>1, <1>4, <1>8, <2>1, <3>1, <3>2, Zenon DEF LoopOK, HasResult, PushHeld
  <2>3. CASE proc.found # "rejected"
    <3>1. proc' = Flush(proc, "process", events', results')
      BY <2>3, Zenon DEF RecordResult
    <3>2. LoopOK(Flush(proc, "process", events', results'), results', events', receipts, halted)
      BY <2>1, <1>1, <1>4, <1>8, FlushOK, Zenon
    <3>3. QED
      BY <3>1, <3>2, Zenon
  <2>4. QED
    BY <2>2, <2>3, Zenon
<1>10. ListOK(order', results')
  <2>1. CASE Live(proc.found)
    <3>1. Waits(results', d)
      BY <2>1, <1>3, <1>6, Zenon DEF Waits
    <3>2. \A e \in Deliveries : Waits(results', e) /\ e # d <=> Waits(results, e)
      BY <1>1, <1>6, Zenon DEF Waits
    <3> HIDE DEF d
    <3>3. ListOK(Append(order, d), results')
      BY <3>1, <3>2, <1>1, AppendLists DEF ListOK
    <3>4. QED
      BY <3>3, <2>1, <1>5, Zenon
  <2>2. CASE ~Live(proc.found)
    <3>1. \A e \in Deliveries : Waits(results', e) <=> Waits(results, e)
      BY <2>2, <1>1, <1>3, <1>6, Zenon DEF Waits
    <3>2. order' = order
      BY <2>2, <1>5, Zenon
    <3>3. QED
      BY <3>1, <3>2, <1>1, Zenon DEF ListOK
  <2>3. QED
    BY <2>1, <2>2, Zenon
<1>11. Stored'
  <2>1. ResultShape(results')
    BY <1>3, <1>6 DEF IInv, Stored, ResultShape
  <2>2. \A e \in Deliveries : results'[e].status # "none" => e \in receipts
    BY <1>1, <1>6, Zenon DEF IInv, Stored
  <2>3. QED
    BY <1>2, <1>4, <1>6, <2>1, <2>2, Zenon DEF IInv, Stored
<1>12. AckedHasResult'
  BY <1>2, <1>6, ScanConstants, Zenon DEF IInv, AckedHasResult
<1>13. HaltsMatchFindings'
  BY <1>2, <1>3, <1>6, <1>7 DEF IInv, HaltsMatchFindings
<1>14. SLOTruthful'
  BY <1>2, <1>3, <1>6 DEF IInv, SLOTruthful
<1>15. QED
  BY <1>2, <1>9, <1>10, <1>11, <1>12, <1>13, <1>14 DEF IInv, Counted

\* The push is acknowledged once it has its result.
LEMMA AckStep ==
    ASSUME IInv, Ack
    PROVE  IInv'
<1>1. HasResult(proc, results) /\ msgs' = [msgs EXCEPT ![proc.msg].state = "acked"]
  BY Zenon DEF IInv, LoopOK, Ack, Settle
<1>2. UNCHANGED <<store, sent, halted, late>> /\ proc' = Idle
  BY Zenon DEF Ack
<1>3. Counted'
  BY <1>1 DEF IInv, Counted, HasResult, PushHeld
<1>4. AckedHasResult'
  BY <1>1, <1>2, Zenon DEF IInv, Counted, AckedHasResult, HasResult, PushHeld, store
<1>5. LoopOK(Idle, results, events, receipts, halted)
  BY NothingInHand, Zenon
<1>6. QED
  BY <1>2, <1>3, <1>4, <1>5, QuietStep, Zenon

\* A failure or a crash leaves what is stored alone.
LEMMA LoopFails ==
    ASSUME IInv, ProcessFails \/ AckFails \/ Crash
    PROVE  IInv'
<1>1. UNCHANGED <<msgs, store, sent, halted, late>>
  BY Zenon DEF ProcessFails, AckFails, Crash
<1>2. /\ LoopOK(Idle, results, events, receipts, halted)
      /\ LoopOK([Idle EXCEPT !.pc = "down"], results, events, receipts, halted)
  BY NothingInHand, Zenon
<1>3. LoopOK(proc', results, events, receipts, halted)
  BY <1>2, Zenon DEF ProcessFails, AckFails, Crash
<1>4. QED
  BY <1>1, <1>3, QuietStep, Zenon DEF IInv, Counted, AckedHasResult, store

----------------------------------------------------------------------------
LEMMA InitOK == Init => IInv
<1> SUFFICES ASSUME Init PROVE IInv
  BY Zenon
<1>1. Counted
  BY ScanConstants DEF Init, Counted
<1>2. results = [d \in Deliveries |-> NoResult] /\ results \in Results
  BY Zenon DEF Init, Results, NoResult, Statuses, SLOStates
<1>3. \A d \in Deliveries : results[d].status = "none" /\ results[d].slo = "not_applicable"
  BY <1>2, Zenon DEF NoResult
<1>4. Stored
  BY <1>2, <1>3, Zenon DEF Init, Stored, ResultShape, Halts
<1>5. ListOK(order, results)
  BY <1>3, EmptySeq DEF Init, ListOK, Waits
<1>6. LoopOK(proc, results, events, receipts, halted)
  BY NothingInHand, Zenon DEF Init
<1>7. AckedHasResult /\ HaltsMatchFindings /\ SLOTruthful
  BY <1>3, Zenon DEF Init, AckedHasResult, HaltsMatchFindings, SLOTruthful
<1>8. QED
  BY <1>1, <1>4, <1>5, <1>6, <1>7, Zenon DEF IInv

LEMMA StepOK == IInv /\ [Next]_vars => IInv'
<1> SUFFICES ASSUME IInv, [Next]_vars PROVE IInv'
  BY Zenon
<1>1. CASE Loop
  BY <1>1, ReconcileSteps, PublishSteps, ListStep, AttemptStep, RespondSteps, CompleteSteps,
     FetchStep, ReceiptStep, ScanStep, RecordStep, AckStep, Zenon DEF Loop
<1>2. CASE Failures
  BY <1>2, PublishSteps, RespondSteps, ListStep, AttemptStep, CompleteSteps, LoopFails, Zenon DEF Failures
<1>3. CASE ReconcileDue
  BY <1>3, ReconcileSteps, Zenon
<1>4. CASE \E m \in DOMAIN Messages : Redeliver(m)
  BY <1>4, RedeliverStep, Zenon
<1>5. CASE \E t \in Tokens : \/ \E s \in {"active", "expired", "revoked"} : Register(t, s)
                            \/ \E s \in {"expired", "revoked"} : TransitionFingerprintState(t, s)
                            \/ TokenAges(t)
  BY <1>5, RegistrySteps, Zenon
<1>6. CASE \E d \in Deliveries : DeadlinePasses(d)
  BY <1>6, DeadlineStep, Zenon
<1>7. CASE UNCHANGED vars
  BY <1>7, Zenon DEF vars, IInv, Counted, Stored, AckedHasResult, HaltsMatchFindings, SLOTruthful
<1>8. QED
  BY <1>1, <1>2, <1>3, <1>4, <1>5, <1>6, <1>7, Zenon DEF Next

\* The scanner's state stays well-formed, whatever fails and whenever it crashes.
LEMMA Inductive == Spec => []IInv
BY InitOK, StepOK, PTL DEF Spec

\* The typing of the run, from the lists of the inductive invariant.
LEMMA Typed == IInv => TypeOK
<1> SUFFICES ASSUME IInv PROVE TypeOK
  BY Zenon
<1>1. DOMAIN order = 1..Len(order) /\ \A i \in 1..Len(order) : order[i] \in Deliveries
  BY LenProperties DEF IInv, ListOK
<1>2. IsInjective(order)
  BY <1>1, Zenon DEF IInv, ListOK, IsInjective
<1>3. Range(order) = {d \in Deliveries : results[d].status = "response_pending"}
  BY <1>1 DEF IInv, ListOK, Range, Waits
<1>4. \A m \in DOMAIN Messages :
          /\ msgs[m].state \in {"queued", "out", "acked", "termed", "dropped"}
          /\ msgs[m].count \in 0 .. MaxDeliver
  BY Zenon DEF IInv, Counted
<1>5. QED
  BY <1>2, <1>3, <1>4, Zenon DEF IInv, Stored, TypeOK, Results, Halts

(***************************************************************************)
(* The stored rows stay consistent with each other in every behaviour: a   *)
(* result has a receipt, the pending responses are listed exactly once     *)
(* each, an event sent or marked is an outbox event, and no message is     *)
(* delivered more often than the consumer allows.                          *)
(***************************************************************************)
THEOREM TypeCorrect == Spec => []TypeOK
BY Inductive, Typed, PTL

(***************************************************************************)
(* Whatever fails between its receipt and its result, a push that main     *)
(* acknowledged has a durable result.                                      *)
(***************************************************************************)
THEOREM AckedHasResultHolds == Spec => []AckedHasResult
<1>1. IInv => AckedHasResult
  BY Zenon DEF IInv
<1>2. QED
  BY <1>1, Inductive, PTL

(***************************************************************************)
(* The broker halts for recorded live findings only, and a response is     *)
(* complete only if the broker halted, through lost answers and crashes.   *)
(***************************************************************************)
THEOREM HaltsMatchFindingsHolds == Spec => []HaltsMatchFindings
<1>1. IInv => HaltsMatchFindings
  BY Zenon DEF IInv
<1>2. QED
  BY <1>1, Inductive, PTL

(***************************************************************************)
(* The SLO state a completed response ends with says whether the alert and *)
(* the halt were in time, whatever was marked while it was pending.        *)
(***************************************************************************)
THEOREM SLOTruthfulHolds == Spec => []SLOTruthful
<1>1. IInv => SLOTruthful
  BY Zenon DEF IInv
<1>2. QED
  BY <1>1, Inductive, PTL
=============================================================================
