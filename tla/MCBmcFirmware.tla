---------------------------- MODULE MCBmcFirmware ----------------------------
(* BmcFirmware for TLC: two versions and the images that install them.   *)
EXTENDS BmcFirmware, TLC

CONSTANTS v1, v2, p1, p2

MCVersions == {v1, v2}
MCPaths == {p1, p2}
MCInstalls == p1 :> v1 @@ p2 :> v2
MCGetImagePath == v1 :> p1 @@ v2 :> p2

Setup(m, k, n) == [mode |-> m, kinds |-> k, times |-> n]

\* Everything twice, and longer runs of what the properties need.
MCSetups == {Setup(m, DisturbanceKinds, 2) : m \in {"Accommodate", "Revert"}} \cup
    {Setup("Accommodate", {"apply", "external", "touch", "crash"}, 3),
     Setup("Revert", {"external", "event", "readFault", "crash"}, 5),
     Setup("Revert", {"external", "readFault", "taskFault", "fault", "crash"}, 5)}

=============================================================================
