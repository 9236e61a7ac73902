---------------------------- MODULE BmcLifecycle ----------------------------
(***************************************************************************)
(* What the operator promises about one Bmc object, whatever the processes *)
(* do that work on it: it is requested, gets the ID of a system of its own *)
(* machine, becomes managed, and leaves.  A managed object keeps its ID    *)
(* for as long as ODIM has that system, a leaving one never comes back, and*)
(* it is gone only when ODIM does not have its system any more.            *)
(*                                                                         *)
(* BmcAccommodate and BmcRevert implement this specification.              *)
(***************************************************************************)
EXTENDS Naturals

CONSTANTS Hosts, Ids, HostOf, None

VARIABLES
    phase,       \* where each object is in its life
    system,      \* the system ID it has
    registered   \* the systems ODIM has

vars == <<phase, system, registered>>

Init ==
    /\ phase = [h \in Hosts |-> "absent"]
    /\ system = [h \in Hosts |-> None]
    /\ registered = {}

Move(h, from, to) == phase[h] = from /\ phase' = [phase EXCEPT ![h] = to]

Request(h) == Move(h, "absent", "requested") /\ UNCHANGED <<system, registered>>

\* A requested object gets an ID, or another one when its addition starts again.
Name(h, i) ==
    /\ phase[h] = "requested" /\ HostOf[i] = h
    /\ system' = [system EXCEPT ![h] = i]
    /\ UNCHANGED <<phase, registered>>

\* The addition ends.
Manage(h) ==
    /\ system[h] # None
    /\ Move(h, "requested", "managed")
    /\ UNCHANGED <<system, registered>>

\* A machine that ODIM has lost is added again.
Rename(h, i) ==
    /\ phase[h] = "managed" /\ HostOf[i] = h
    /\ system[h] \notin registered
    /\ system' = [system EXCEPT ![h] = i]
    /\ UNCHANGED <<phase, registered>>

\* A requested object is dropped when its machine was not added.
Drop(h) ==
    /\ Move(h, "requested", "absent")
    /\ system' = [system EXCEPT ![h] = None]
    /\ UNCHANGED registered

Leave(h) ==
    /\ \/ Move(h, "requested", "leaving")
       \/ Move(h, "managed", "leaving")
    /\ UNCHANGED <<system, registered>>

\* The finalizer has done its work.
Gone(h) ==
    /\ Move(h, "leaving", "absent")
    /\ system[h] \notin registered
    /\ system' = [system EXCEPT ![h] = None]
    /\ UNCHANGED registered

\* ODIM has one system of a machine at most.
Register(i) ==
    /\ \A j \in registered : HostOf[j] # HostOf[i]
    /\ registered' = registered \cup {i}
    /\ UNCHANGED <<phase, system>>

Unregister(i) ==
    /\ registered' = registered \ {i}
    /\ UNCHANGED <<phase, system>>

Next ==
    \/ \E h \in Hosts : Request(h) \/ Manage(h) \/ Drop(h) \/ Leave(h) \/ Gone(h)
    \/ \E h \in Hosts, i \in Ids : Name(h, i) \/ Rename(h, i)
    \/ \E i \in Ids : Register(i) \/ Unregister(i)

Spec == Init /\ [][Next]_vars
=============================================================================
