----------------------------- MODULE MCBmcRevert -----------------------------
(* Two machines.  ODIM hands out several IDs, so that a machine can be     *)
(* lost and added again as often as the bound on disturbances allows.       *)
EXTENDS BmcRevert

CONSTANTS h1, h2, a1, a2, a3, a4, b1, b2, b3, b4

MCHosts == {h1, h2}
MCIds == {a1, a2, b1}
MCManyIds == {a1, a2, a3, a4, b1, b2, b3, b4}
MCHostOf == [i \in Ids |-> IF i \in {b1, b2, b3, b4} THEN h2 ELSE h1]
MCAllKinds == DisturbanceKinds
MCLoss == {"odimRemove", "reset"}

\* Both machines are managed already, and the process has just been started.
MCManaged(i) == [deleting |-> FALSE, finalizer |-> TRUE, password |-> "encrypted",
                 systemId |-> i, BmcSystemID |-> i]
MCManagedInit ==
    /\ registered = {a1, b1} /\ adding = {} /\ used = {a1, b1}
    /\ obj = [h \in Hosts |-> MCManaged(IF h = h1 THEN a1 ELSE b1)]
    /\ mapOfBmc = [i \in Ids |-> NoEntry]
    /\ fresh = [p \in Procs |-> {}]
    /\ recPc = "idle" /\ recHost = None /\ recId = None /\ recStatus = None
    /\ pollPc = "idle" /\ snap = {}
    /\ budget = MaxDisturbances
    /\ NoLocals /\ call = [p \in RevProcs |-> NoRevCall]

MCManagedSpec == MCManagedInit /\ [][RevNext]_revertVars /\ RevFairness
=============================================================================
