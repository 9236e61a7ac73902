---------------------------- MODULE BmcInventory ----------------------------
(***************************************************************************)
(* The world the BMC operator synchronises and the controller of the Bmc   *)
(* objects (controllers/bmc/bmc_controller.go).                            *)
(*                                                                         *)
(* Three inventories of the same machines exist side by side:              *)
(*   - ODIM's aggregation sources (registered), each under a system ID     *)
(*     that ODIM makes up when the machine is added;                       *)
(*   - the Bmc objects in Kubernetes (obj), named by the machine's address;*)
(*   - common.MapOfBmc, the operator's own table, kept in memory only.     *)
(* This module holds the state of the three, what users and ODIM do to     *)
(* them, and every step of BmcReconciler.Reconcile: the addition of a      *)
(* machine, its rejection, and its removal through the finalizer.  The     *)
(* poll and the event handlers are in BmcAccommodate and BmcRevert, which  *)
(* extend this module, one for each value of config.Data.Reconciliation.   *)
(*                                                                         *)
(* A handler is split into steps wherever it waits for ODIM or Kubernetes. *)
(***************************************************************************)
EXTENDS Naturals, FiniteSets

CONSTANTS
    Hosts,            \* addresses of machines; also the names of their Bmc objects
    Ids,              \* system IDs ODIM may hand out
    HostOf,           \* HostOf[i]: the machine ODIM gives the ID i to
    None,             \* an empty system ID
    NoObject,         \* no Bmc object of that name is stored
    Supported,        \* machines whose connection method the Odim object lists
    Handlers,         \* goroutines of the event listener, one per request of ODIM
    Disturbances,     \* what may happen to the system from outside
    MaxDisturbances   \* how often it may

DisturbanceKinds ==
    {"create", "delete", "touch", "odimAdd", "odimRemove", "odimRemoveManaged",
     "odimFault", "keysFault", "reset", "event", "crash"}

\* What the operator reads and writes of a Bmc object: the deletion timestamp,
\* the finalizer, the credential (plain until the machine is added, encrypted
\* afterwards), the label "systemId" and the status field BmcSystemID.
Bmc == [deleting : BOOLEAN, finalizer : BOOLEAN,
        password : {"plain", "encrypted"},
        systemId : Ids \cup {None}, BmcSystemID : Ids \cup {None}]

ASSUME InventoryAssumption ==
    /\ HostOf \in [Ids -> Hosts]
    /\ None \notin Ids
    /\ None \notin Hosts
    /\ NoObject \notin Bmc
    /\ Supported \subseteq Hosts
    /\ Handlers \cap {"rec", "poll"} = {}
    /\ Disturbances \subseteq DisturbanceKinds
    /\ MaxDisturbances \in Nat

VARIABLES
    registered,   \* IDs of the aggregation sources ODIM has
    adding,       \* IDs of the additions ODIM has accepted and not finished
    used,         \* IDs ODIM has handed out so far: it never reuses one
    obj,          \* the Bmc object stored under each name
    mapOfBmc,     \* common.MapOfBmc
    fresh,        \* per process, the objects its copy of is still the stored one
    recPc,        \* where the BmcReconciler's only worker is
    recHost,      \* the object it reconciles
    recId,        \* the system ID it works with
    recStatus,    \* Status.BmcSystemID in its copy of the object
    pollPc,       \* where the polling loop is
    snap,         \* its mapOfSystems
    budget        \* disturbances still to come

odimVars == <<registered, adding, used>>
kubeVars == <<obj, fresh>>
recVars  == <<recPc, recHost, recId, recStatus>>
tickVars == <<pollPc, snap>>
inventoryVars == <<odimVars, kubeVars, mapOfBmc, recVars, tickVars, budget>>

-----------------------------------------------------------------------------
(* The state.                                                              *)

Procs == {"rec", "poll"} \cup Handlers

\* A value of MapOfBmc. A key that is not in the Go map reads as the zero
\* BmcState, which is NoEntry here.
BmcState == [present : BOOLEAN, IsAdded : BOOLEAN,
             IsDeleted : BOOLEAN, IsObjCreated : BOOLEAN]
NoEntry == [present |-> FALSE, IsAdded |-> FALSE,
            IsDeleted |-> FALSE, IsObjCreated |-> FALSE]
ObjCreated == [present |-> TRUE, IsAdded |-> FALSE,
               IsDeleted |-> FALSE, IsObjCreated |-> TRUE]

Tracked == {i \in Ids : mapOfBmc[i].present}
Exists(h) == obj[h] # NoObject

\* The object GetBmcObject finds by Status.BmcSystemID.
ObjectOf(i) == {h \in Hosts : Exists(h) /\ obj[h].BmcSystemID = i}

\* The host ODIM would refuse to add once more.
Known(h) == \E i \in registered \cup adding : HostOf[i] = h

\* ODIM accepts an addition: a machine it does not have, under a new ID.
CanAdd(i) == i \notin used /\ ~Known(HostOf[i])

InventoryInit ==
    /\ registered = {} /\ adding = {} /\ used = {}
    /\ obj = [h \in Hosts |-> NoObject]
    /\ mapOfBmc = [i \in Ids |-> NoEntry]
    /\ fresh = [p \in Procs |-> {}]
    /\ recPc = "idle" /\ recHost = None /\ recId = None /\ recStatus = None
    /\ pollPc = "idle" /\ snap = {}
    /\ budget = MaxDisturbances

Disturb(kind) ==
    /\ kind \in Disturbances
    /\ budget > 0
    /\ budget' = budget - 1

-----------------------------------------------------------------------------
(* Kubernetes. An update carries the resource version of the copy it was   *)
(* made from and is refused when the object has changed or has gone.       *)

\* Client.Update or Status().Update of p's copy of h, changed to o: every other
\* copy is outdated.
UpdateIfFresh(p, h, o) ==
    IF h \in fresh[p]
    THEN /\ obj' = [obj EXCEPT ![h] = o]
         /\ fresh' = [q \in Procs |-> IF q = p THEN fresh[q] ELSE fresh[q] \ {h}]
    ELSE UNCHANGED kubeVars

\* What is left of h after Client.Delete: with a finalizer, the object is only
\* marked for deletion.
AfterDelete(h) ==
    IF Exists(h) /\ obj[h].finalizer
    THEN [obj[h] EXCEPT !.deleting = TRUE] ELSE NoObject

\* h is stored by somebody without a copy, or has gone: no copy is the stored one.
Put(h, o) ==
    /\ obj' = [obj EXCEPT ![h] = o]
    /\ fresh' = [q \in Procs |-> fresh[q] \ {h}]

\* Client.Delete of the name h, whatever is stored under it.
Delete(h) == Put(h, AfterDelete(h))

-----------------------------------------------------------------------------
(* The user of the Kubernetes API.                                         *)

NewBmc == [deleting |-> FALSE, finalizer |-> FALSE, password |-> "plain",
           systemId |-> None, BmcSystemID |-> None]

UserCreate(h) ==
    /\ Disturb("create")
    /\ ~Exists(h)
    /\ Put(h, NewBmc)
    /\ UNCHANGED <<odimVars, mapOfBmc, recVars, tickVars>>

UserDelete(h) ==
    /\ Disturb("delete")
    /\ Exists(h) /\ ~obj[h].deleting
    /\ Delete(h)
    /\ UNCHANGED <<odimVars, mapOfBmc, recVars, tickVars>>

\* An edit of something that this module leaves out, by a user or by one of the
\* operator's other functions: only the resource version moves.
UserTouch(h) ==
    /\ Disturb("touch")
    /\ \E p \in Procs : h \in fresh[p]
    /\ Put(h, obj[h])
    /\ UNCHANGED <<odimVars, mapOfBmc, recVars, tickVars>>

-----------------------------------------------------------------------------
(* ODIM. An addition is a task: it is accepted first and done later.       *)

Accept(i) == adding' = adding \cup {i} /\ used' = used \cup {i}

OdimAdd(i) ==
    /\ Disturb("odimAdd")
    /\ CanAdd(i)
    /\ Accept(i)
    /\ UNCHANGED <<registered, kubeVars, mapOfBmc, recVars, tickVars>>

OdimFinish(i) ==
    /\ i \in adding
    /\ adding' = adding \ {i}
    /\ registered' = registered \cup {i}
    /\ UNCHANGED <<used, kubeVars, mapOfBmc, recVars, tickVars, budget>>

\* Somebody removes an aggregation source in ODIM, at any time or only once the
\* operator is done with its object.
OdimRemove(i) ==
    /\ \/ Disturb("odimRemove")
       \/ /\ Disturb("odimRemoveManaged")
          /\ Exists(HostOf[i])
          /\ obj[HostOf[i]].password = "encrypted"
          /\ obj[HostOf[i]].BmcSystemID = i
    /\ i \in registered
    /\ registered' = registered \ {i}
    /\ UNCHANGED <<adding, used, kubeVars, mapOfBmc, recVars, tickVars>>

-----------------------------------------------------------------------------
(* BmcReconciler.Reconcile. The controller has one worker, and an object   *)
(* is queued whenever there is work to do on it: at its creation and       *)
(* deletion, when a reconcile returns an error or Requeue, and at start-up.*)

RecIdle == recPc' = "idle" /\ recHost' = None /\ recId' = None /\ recStatus' = None

\* GetConnectionMethod finds the variant of the machine in the Odim object.
HasConnectionMethod(h) == h \in Supported

\* addBmc posts the machine, unless its label names a system already.
AddBmc(o) == IF o.systemId = None THEN "post" ELSE "details"

\* The object is read. What is next depends on its deletion timestamp, on
\* whether its password is still the one the user wrote, on its label, and on
\* the connection methods ODIM has.
RecStart(h) ==
    /\ recPc = "idle" /\ Exists(h)
    /\ LET o == obj[h]
           ToAdd == ~o.deleting /\ o.password = "plain"
       IN  /\ \/ o.deleting /\ o.finalizer /\ recPc' = "unregister"
              \/ ToAdd /\ ~HasConnectionMethod(h) /\ recPc' = "fail"
              \/ ToAdd /\ HasConnectionMethod(h) /\ recPc' = AddBmc(o)
           /\ recId' = o.systemId /\ recStatus' = o.BmcSystemID
    /\ recHost' = h
    /\ fresh' = [fresh EXCEPT !["rec"] = {h}]
    /\ UNCHANGED <<odimVars, obj, mapOfBmc, tickVars, budget>>

\* The secret with the PEM keys cannot be read: the object is deleted.
RecKeysMissing(h) ==
    /\ Disturb("keysFault")
    /\ recPc = "idle" /\ Exists(h)
    /\ Delete(h)
    /\ UNCHANGED <<odimVars, mapOfBmc, recVars, tickVars>>

\* BmcAddition posts the aggregation source and ODIM starts the task.
RecPost(i) ==
    /\ recPc = "post" /\ HostOf[i] = recHost
    /\ CanAdd(i)
    /\ Accept(i)
    /\ recPc' = "task" /\ recId' = i
    /\ UNCHANGED <<registered, kubeVars, mapOfBmc, recHost, recStatus, tickVars, budget>>

\* ODIM already has the machine.
RecPostRefused ==
    /\ recPc = "post"
    /\ ~\E i \in Ids : HostOf[i] = recHost /\ CanAdd(i)
    /\ recPc' = "fail"
    /\ UNCHANGED <<odimVars, kubeVars, mapOfBmc, recHost, recId, recStatus, tickVars, budget>>

\* The POST fails, MoniteringTaskmon meets an error answer, or it has asked
\* RetryCount times and the task is still running.
RecAddFails ==
    /\ Disturb("odimFault")
    /\ recPc \in {"post", "task"}
    /\ recPc' = "fail"
    /\ UNCHANGED <<odimVars, kubeVars, mapOfBmc, recHost, recId, recStatus, tickVars>>

\* MoniteringTaskmon sees the task end.
RecTaskDone ==
    /\ recPc = "task" /\ recId \notin adding
    /\ recPc' = "details"
    /\ UNCHANGED <<odimVars, kubeVars, mapOfBmc, recHost, recId, recStatus, tickVars, budget>>

\* Mutant of RecFail: the failure is cleaned up in ODIM too.
RecFailUnregisters ==
    /\ recPc = "fail"
    /\ Delete(recHost)
    /\ registered' = registered \ {recStatus}
    /\ mapOfBmc' = [i \in Ids |-> IF i = recStatus THEN NoEntry ELSE mapOfBmc[i]]
    /\ RecIdle
    /\ UNCHANGED <<adding, used, tickVars, budget>>

\* deleteBMCObject: also forgets the system ID its copy's status had.
RecFail ==
    /\ recPc = "fail"
    /\ Delete(recHost)
    /\ mapOfBmc' = [i \in Ids |-> IF i = recStatus THEN NoEntry ELSE mapOfBmc[i]]
    /\ RecIdle
    /\ UNCHANGED <<odimVars, tickVars, budget>>

\* updateBmcDetails reads the system.
RecDetails ==
    /\ recPc = "details" /\ recId \in registered
    /\ recPc' = "store"
    /\ UNCHANGED <<odimVars, kubeVars, mapOfBmc, recHost, recId, recStatus, tickVars, budget>>

\* It stores the object with its finalizer, which until here was set in the
\* worker's copy only, and goes on whether or not the update is accepted.
RecStore ==
    /\ recPc = "store"
    /\ UpdateIfFresh("rec", recHost, [obj[recHost] EXCEPT !.finalizer = TRUE])
    /\ recPc' = "status"
    /\ UNCHANGED <<odimVars, mapOfBmc, recHost, recId, recStatus, tickVars, budget>>

RecWriteStatus ==
    /\ recPc = "status"
    /\ UpdateIfFresh("rec", recHost, [obj[recHost] EXCEPT !.BmcSystemID = recId])
    /\ recPc' = "track" /\ recStatus' = recId
    /\ UNCHANGED <<odimVars, mapOfBmc, recHost, recId, tickVars, budget>>

\* 40 seconds after the status update, updateBmcDetails enters the system.
RecTrack ==
    /\ recPc = "track"
    /\ mapOfBmc' = [mapOfBmc EXCEPT ![recId] = ObjCreated]
    /\ recPc' = "final"
    /\ UNCHANGED <<odimVars, kubeVars, recHost, recId, recStatus, tickVars, budget>>

\* What an added object becomes: the password encrypted, the labels updated.
Completed(o, i) == [o EXCEPT !.password = "encrypted", !.systemId = i]

\* Mutants of RecFinal: the update does not check the resource version; the label
\* gets the object's name.
RecFinalForced ==
    /\ recPc = "final"
    /\ IF Exists(recHost)
       THEN Put(recHost, Completed(obj[recHost], recId))
       ELSE UNCHANGED kubeVars
    /\ RecIdle
    /\ UNCHANGED <<odimVars, mapOfBmc, tickVars, budget>>

\* The last update stores the completed object. Refused, it
\* makes Reconcile return the error and start again.
RecFinal ==
    /\ recPc = "final"
    /\ UpdateIfFresh("rec", recHost, Completed(obj[recHost], recId))
    /\ RecIdle
    /\ UNCHANGED <<odimVars, mapOfBmc, tickVars, budget>>

\* BmcDeleteOperation: the task ends with 204, or with 404 when ODIM does not
\* have the system any more.
RecUnregister ==
    /\ recPc = "unregister" /\ recStatus # None
    /\ registered' = registered \ {recStatus}
    /\ recPc' = "finalize"
    /\ UNCHANGED <<adding, used, kubeVars, mapOfBmc, recHost, recId, recStatus, tickVars, budget>>

\* Without a system ID the URL is the collection's, which ODIM does not delete;
\* the reconciler asks to be called again.
RecUnregisterNothing ==
    /\ recPc = "unregister" /\ recStatus = None
    /\ RecIdle
    /\ UNCHANGED <<odimVars, kubeVars, mapOfBmc, tickVars, budget>>

\* Mutant of RecUnregisterFails: the error is ignored.
RecUnregisterFailsOn ==
    /\ Disturb("odimFault")
    /\ recPc = "unregister"
    /\ registered' \in {registered, registered \ {recStatus}}
    /\ recPc' = "finalize"
    /\ UNCHANGED <<adding, used, kubeVars, mapOfBmc, recHost, recId, recStatus, tickVars>>

\* BmcDeleteOperation fails, with the system removed (the monitor gave up) or
\* not: the reconciler asks to be called again.
RecUnregisterFails ==
    /\ Disturb("odimFault")
    /\ recPc = "unregister"
    /\ registered' \in {registered, registered \ {recStatus}}
    /\ RecIdle
    /\ UNCHANGED <<adding, used, kubeVars, mapOfBmc, tickVars>>

\* removeBmcFinalizerAndDeleteDependencies and the update that stores it, which
\* is when Kubernetes lets the object go.
RecFinalize ==
    /\ recPc = "finalize"
    /\ IF recHost \in fresh["rec"] THEN Put(recHost, NoObject) ELSE UNCHANGED kubeVars
    /\ RecIdle
    /\ UNCHANGED <<odimVars, mapOfBmc, tickVars, budget>>

RecStep ==
    \/ \E h \in Hosts : RecStart(h)
    \/ \E i \in Ids : RecPost(i)
    \/ RecPostRefused \/ RecTaskDone \/ RecFail
    \/ RecDetails \/ RecStore \/ RecWriteStatus \/ RecTrack \/ RecFinal
    \/ RecUnregister \/ RecUnregisterNothing \/ RecFinalize

RecFault ==
    \/ \E h \in Hosts : RecKeysMissing(h)
    \/ RecAddFails \/ RecUnregisterFails

EnvNext ==
    \/ \E h \in Hosts : UserCreate(h) \/ UserDelete(h) \/ UserTouch(h)
    \/ \E i \in Ids : OdimAdd(i) \/ OdimFinish(i) \/ OdimRemove(i)

-----------------------------------------------------------------------------
(* The start of a tick of PollDetails, the same for both ways to reconcile.*)

\* GET /redfish/v1/Systems
PollGet ==
    /\ pollPc = "idle"
    /\ snap' = registered
    /\ pollPc' = "merge"
    /\ UNCHANGED <<odimVars, kubeVars, mapOfBmc, recVars, budget>>

\* Systems that MapOfBmc does not have are entered with IsAdded.
Merged ==
    [i \in Ids |-> IF i \in snap /\ ~mapOfBmc[i].present
                   THEN [NoEntry EXCEPT !.present = TRUE, !.IsAdded = TRUE]
                   ELSE mapOfBmc[i]]

\* What a crash leaves: ODIM's and Kubernetes' state.
ForgetInventory ==
    /\ mapOfBmc' = [i \in Ids |-> NoEntry]
    /\ fresh' = [p \in Procs |-> {}]
    /\ RecIdle
    /\ pollPc' = "idle" /\ snap' = {}
    /\ UNCHANGED <<odimVars, obj>>

\* The process ends from outside.
InventoryCrash == Disturb("crash") /\ ForgetInventory

\* updateBmcDetails asserts the type of a field of the system even when ODIM
\* did not return one: the panic ends the process.
RecPanic ==
    /\ recPc = "details" /\ recId \notin registered
    /\ ForgetInventory /\ UNCHANGED budget

-----------------------------------------------------------------------------
(* Types and invariants of the shared state.                               *)

RecPcs == {"idle", "post", "task", "fail", "details", "store", "status",
           "track", "final", "unregister", "finalize"}

InventoryTypeOK ==
    /\ registered \subseteq Ids /\ adding \subseteq Ids /\ used \subseteq Ids
    /\ obj \in [Hosts -> Bmc \cup {NoObject}]
    /\ mapOfBmc \in [Ids -> BmcState]
    /\ fresh \in [Procs -> SUBSET Hosts]
    /\ recPc \in RecPcs
    /\ recHost \in Hosts \cup {None}
    /\ recId \in Ids \cup {None}
    /\ recStatus \in Ids \cup {None}
    /\ snap \subseteq Ids
    /\ budget \in Nat

IdsOf(h) == {i \in Ids : HostOf[i] = h}

\* The label and the status of an object only ever name systems of the object's
\* own machine, whichever of the reconciler, the poll and the events wrote them
\* and however old the reading was that they acted on.
ObjectsNameTheirMachine ==
    \A h \in Hosts : Exists(h) =>
        {obj[h].systemId, obj[h].BmcSystemID} \subseteq IdsOf(h) \cup {None}

\* The reconciler takes a system out of ODIM only for an object that names this
\* system and that somebody has asked Kubernetes to delete.
UnregisterOnlyDeleted ==
    [][\A i \in registered \ registered' : recPc' # recPc =>
            /\ Exists(HostOf[i])
            /\ obj[HostOf[i]].deleting
            /\ obj[HostOf[i]].BmcSystemID = i]_inventoryVars

\* The inventories agree: the objects and the systems correspond.
InSync ==
    /\ \A i \in registered : Exists(HostOf[i]) /\ obj[HostOf[i]].BmcSystemID = i
    /\ \A h \in Hosts : Exists(h) => obj[h].BmcSystemID \in registered

\* The IDs whose addition is over: ODIM never starts it again.
Done == used \ adding

\* ODIM has a machine once, and no system is known to anybody before ODIM has it.
OdimInv ==
    /\ adding \subseteq used /\ registered \subseteq Done
    /\ \A i, j \in registered \cup adding : HostOf[i] = HostOf[j] => i = j
    /\ snap \subseteq used /\ Tracked \subseteq used

\* What can be stored under the name h.
Good(h, o) ==
    /\ o.systemId \in (IdsOf(h) \cap Done) \cup {None}
    /\ o.BmcSystemID \in (IdsOf(h) \cap Done) \cup {None}
    /\ o.deleting => o.finalizer
    /\ o.password = "encrypted" =>
           o.finalizer /\ o.systemId # None /\ o.BmcSystemID # None

KubeInv ==
    /\ \A h \in Hosts : Exists(h) => Good(h, obj[h])
    /\ \A p \in Procs : \A h \in fresh[p] : Exists(h)

\* What the reconciler's worker knows at each of its steps, of its own copy when
\* that is still the stored object, and of the object it removes in any case.
RecInv ==
    /\ recStatus \in Done \cup {None}
    /\ recPc # "idle" => recHost \in Hosts
    /\ recPc = "task" => recId \in IdsOf(recHost) \cap used
    /\ recPc \in {"details", "store", "status", "track", "final"} =>
           recId \in IdsOf(recHost) \cap Done
    /\ recPc \in {"track", "final"} => recStatus = recId
    /\ recPc \notin {"idle", "unregister", "finalize"} /\ recHost \in fresh["rec"] =>
           /\ ~obj[recHost].deleting /\ obj[recHost].password = "plain"
           /\ obj[recHost].BmcSystemID = recStatus
           /\ recPc \in {"status", "track", "final"} => obj[recHost].finalizer
    /\ recPc \in {"unregister", "finalize"} =>
           /\ Exists(recHost) /\ obj[recHost].deleting
           /\ obj[recHost].BmcSystemID = recStatus
    /\ recPc = "finalize" => recStatus \in Ids \ registered

\* With the types, an inductive invariant of everything this module does.
InventoryInv == InventoryTypeOK /\ OdimInv /\ KubeInv /\ RecInv

\* Where an object is in the life that BmcLifecycle describes, and its system.
Phase(o) ==
    IF o = NoObject THEN "absent"
    ELSE IF o.deleting THEN "leaving"
    ELSE IF o.password = "plain" THEN "requested" ELSE "managed"
System(o) == IF o = NoObject THEN None ELSE o.BmcSystemID

Lifecycle == INSTANCE BmcLifecycle WITH
    phase <- [h \in Hosts |-> Phase(obj[h])],
    system <- [h \in Hosts |-> System(obj[h])]

\* What the three processes do to the objects, all together, is a life of each
\* object as BmcLifecycle describes it.
ImplementsLifecycle == Lifecycle!Spec
=============================================================================
