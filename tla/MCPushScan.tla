---------------------------- MODULE MCPushScan ----------------------------
(* Instance of PushScan for model checking. *)
EXTENDS PushScan

\* A canary the broker never answers for, a push with an issued token, and one
\* to a repository that is not scanned.
MCMessages == [m1 |-> [kind |-> "push", delivery |-> "d1"],
               m2 |-> [kind |-> "push", delivery |-> "d2"],
               m3 |-> [kind |-> "push", delivery |-> "d3"]]
MCCarries == [d1 |-> "canary", d2 |-> "t1", d3 |-> "clean"]
MCEventOrder == <<"d2", "d1", "d3">>
=============================================================================
