---------------------------- MODULE MCBmcSettings ----------------------------
(* BmcSettings for TLC: two values of the settings, a model that allows the *)
(* reset types it needs.                                                   *)
EXTENDS BmcSettings, TLC

CONSTANTS v1, v2

Request(p, t) == [power |-> p, type |-> t]
MCRequests == {Request("On", "ForceRestart"), Request("Off", "ForceOff"), Request("On", "On")}

Setup(m, k, n) == [mode |-> m, own |-> FALSE, kinds |-> k, times |-> n]
SetupOwn(k, n) == [mode |-> "Accommodate", own |-> TRUE, kinds |-> k, times |-> n]

\* Everything once, and longer runs of what the properties need.
MCSetups ==
    {Setup(m, DisturbanceKinds, 1) : m \in {"Accommodate", "Revert"}} \cup
    {Setup("Accommodate", {"reset", "bios", "fault", "taskFault", "biosDelete"}, 2),
     Setup("Accommodate", {"password", "bios", "boot", "fault", "taskFault", "readFault"}, 2),
     Setup("Accommodate", {"password", "touch"}, 4),
     Setup("Accommodate", {"password", "touch", "crash"}, 4),
     Setup("Accommodate", {"reset", "touch", "crash"}, 2),
     Setup("Accommodate", {"boot", "external", "reset"}, 2),
     Setup("Accommodate", {"boot", "bootByID", "external"}, 2),
     SetupOwn({"boot", "external", "reset", "crash"}, 1),
     SetupOwn({"boot", "external", "power", "event", "crash"}, 2),
     Setup("Accommodate", {"boot", "external", "readFault", "event"}, 3),
     Setup("Accommodate", {"external", "power", "readFault", "event", "volume"}, 2),
     Setup("Revert", {"bios", "boot", "external", "fault", "taskFault", "readFault",
                      "biosDelete"}, 2),
     Setup("Revert", {"boot", "power", "readFault", "fault"}, 3),
     Setup("Revert", {"reset", "power"}, 2),
     Setup("Revert", {"external", "event"}, 3),
     Setup("Revert", {"external", "slow", "crash"}, 3)}

=============================================================================
