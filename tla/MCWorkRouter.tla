--------------------------- MODULE MCWorkRouter ---------------------------
(* Instances of WorkRouter for model checking. *)
EXTENDS WorkRouter

MCRoute(kind, executor, serialization, supersede, attempts) ==
    [kinds |-> {kind}, executor |-> executor, serialization |-> serialization,
     supersede |-> supersede, maxAttempts |-> attempts]

\* The release route, a launch route that supersedes, and one that polls.
MCRoutes ==
    [release |-> MCRoute("release", "upload", "object", FALSE, 2),
     curate |-> MCRoute("curate", "launch", "object", TRUE, 2),
     watch |-> MCRoute("watch", "poll", "route", FALSE, 1)]

MCFactRoute == [curate |-> "curate", watch |-> "watch"]

MCEvent(delivery, kind, revision) ==
    [delivery |-> delivery, kind |-> kind, namespace |-> "ns", object |-> kind,
     revision |-> revision]

\* Two revisions of one object, and one fact to wait for.
MCFacts == {MCEvent("f1", "curate", 1), MCEvent("f2", "curate", 2),
            MCEvent("f3", "watch", 1)}

\* One release under two delivery ids, and a message that is not a release.
MCMessages == [m1 |-> MCEvent("d1", "release", 1), m2 |-> MCEvent("d2", "release", 1),
               m3 |-> MCEvent("d3", "other", 1)]
MCNoMessages == [m \in {} |-> MCEvent("d1", "release", 1)]
=============================================================================
