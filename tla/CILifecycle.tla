---------------------------- MODULE CILifecycle ----------------------------
(***************************************************************************)
(* What the CI lifecycle of one pull request promises, without its tables: *)
(* the task waits for CI, is under repair at most MaxAttempts times, and   *)
(* ends in exactly one of three ways.  CIRepair is shown to implement it.  *)
(***************************************************************************)
EXTENDS Naturals

CONSTANT MaxAttempts    \* CIRepairPolicy.MaxAttempts

VARIABLES phase,        \* where the pull request stands
          repairs       \* repairs authorised so far

lvars == <<phase, repairs>>

Phases == {"waiting", "repair", "escalation", "completed", "escalated", "blocked"}

Init == phase = "waiting" /\ repairs = 0

\* CI of the observed head is green.
Succeed == phase = "waiting" /\ phase' = "completed" /\ UNCHANGED repairs

\* A code failure, or a failed repair, authorises one more repair.
Repair == /\ phase \in {"waiting", "repair"}
          /\ repairs < MaxAttempts
          /\ phase' = "repair"
          /\ repairs' = repairs + 1

\* A repair pushed a new head, whose CI is waited for.
Deliver == phase = "repair" /\ phase' = "waiting" /\ UNCHANGED repairs

\* Nothing more is tried without a human.
Escalate == phase \in {"waiting", "repair"} /\ phase' = "escalation" /\ UNCHANGED repairs

\* The human is told, or telling them is given up.
Tell == phase = "escalation" /\ phase' \in {"escalated", "blocked"} /\ UNCHANGED repairs

Next == Succeed \/ Repair \/ Deliver \/ Escalate \/ Tell

Spec == Init /\ [][Next]_lvars

\* The task does not stand still for ever before it has ended.
Progress == WF_lvars(Next)
=============================================================================
