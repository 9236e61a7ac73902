------------------------------ MODULE MCBmcOdim ------------------------------
(* BmcOdim for TLC: one destination of a user, two hosts of the operator.  *)
EXTENDS BmcOdim

CONSTANTS d1, h1, h2

A1 == [mode |-> "Accommodate", interval |-> 1]
R0 == [mode |-> "Revert", interval |-> 0]
R1 == [mode |-> "Revert", interval |-> 1]
R2 == [mode |-> "Revert", interval |-> 2]

Setup(c, k, n) == [config |-> c, kinds |-> k, times |-> n]

Outside == {"odimCreate", "odimDelete", "create", "delete", "edit"}
Failures == {"fault", "readFault", "lost", "refuse"}

MCConfigs == {A1, R0, R1, R2}

\* Everything twice, and longer runs of what the properties need.
MCSetups ==
    {Setup(c, k, 2) : c \in {A1, R1},
         k \in {Outside \cup {"crash"}, Failures \cup {"create", "odimCreate"},
               {"host", "deleteOdim", "create", "crash"}, {"deleteOdim", "readFault", "lost"}}} \cup
    {Setup(c, k, 3) : c \in {A1, R1},
         k \in {Outside \ {"edit"}, {"deleteOdim", "odimCreate", "lost"}}} \cup
    {Setup(R1, {"configure", "crash"}, 3)}

=============================================================================
