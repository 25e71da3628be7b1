------------------------------ MODULE MCIntake ------------------------------
(***************************************************************************)
(* Instances of Intake: two webhooks for one labelled issue, one for the   *)
(* same issue with another label and one that takes the label off, one CI  *)
(* event, a CI event without a delivery ID, and requests the gateway turns *)
(* away.                                                                   *)
(***************************************************************************)
EXTENDS Intake

MCTaskRoutes == {[id |-> "t", repo |-> "o/r", event |-> "issues", action |-> "labeled",
                  label |-> "go"]}

Tuple(event, actions) == [repo |-> "o/r", event |-> event, actions |-> actions]

MCRoute == [source |-> "github", token |-> FALSE, repositories |-> {}, events |-> {},
            actions |-> {}, publishPing |-> FALSE, pushRefs |-> {"main"},
            tuples |-> {Tuple("issues", {"labeled", "unlabeled"}), Tuple("check_run", {"completed"})}]

MCRouteByLists == [MCRoute EXCEPT !.tuples = {}, !.repositories = {"o/r"}, !.events = {"status"}]

Labelled == [route |-> MCRoute, body |-> TRUE, proof |-> TRUE, event |-> "issues",
             action |-> "labeled", delivery |-> "d1", repo |-> "o/r", ref |-> EmptyString,
             identity |-> TRUE, object |-> "issue", number |-> 7, sha |-> EmptyString, label |-> "go",
             open |-> TRUE]
Relabelled == [Labelled EXCEPT !.delivery = "d2"]
OtherLabel == [Labelled EXCEPT !.delivery = "d6", !.label = "stop"]
Unlabelled == [Labelled EXCEPT !.delivery = "d7", !.action = "unlabeled"]
Checked == [Labelled EXCEPT !.event = "check_run", !.action = "completed", !.delivery = "d3",
                            !.object = "check_run", !.sha = "c1", !.label = EmptyString, !.open = FALSE]
Nameless == [Checked EXCEPT !.delivery = EmptyString]
Unsigned == [Labelled EXCEPT !.proof = FALSE, !.delivery = "d4", !.number = 8]
Status == [Checked EXCEPT !.route = MCRouteByLists, !.event = "status", !.object = "none",
                          !.identity = FALSE, !.delivery = "d5"]

MCRequests == {Labelled, Relabelled, OtherLabel, Unlabelled, Checked, Nameless, Unsigned, Status}
=============================================================================
