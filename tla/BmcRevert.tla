------------------------------ MODULE BmcRevert ------------------------------
(***************************************************************************)
(* config.Data.Reconciliation = "Revert": ODIM follows the Bmc objects.    *)
(*                                                                         *)
(* The polling loop hands the answer to GET /redfish/v1/Systems to         *)
(* RevertPollingDetails (controllers/pollData/revertDetails.go).  It lists *)
(* the objects, adds the machines that ODIM has lost once more and writes  *)
(* their new IDs to the objects; then it sweeps over the systems and       *)
(* removes from ODIM those it found no object for.  The event listener     *)
(* calls RevertResourceRemoved and RevertResourceAdded, which do the same  *)
(* for one system, from its own goroutine.  Both run beside BmcReconciler. *)
(***************************************************************************)
EXTENDS BmcInventory

VARIABLES
    lst,      \* the poll's copies of the objects, as it listed them
    left,     \* names its first loop still has to visit
    inMap,    \* keys of mapOfBmcObj: the system IDs of the copies visited
    marked,   \* keys of isMarkedDeleted: those of them being deleted
    sweep,    \* keys of mapOfSystems its second loop still has to visit
    call      \* where the poll's and the events' goroutines are within a system

localVars == <<lst, left, inMap, marked, sweep>>
revVars == <<localVars, call>>
revertVars == <<inventoryVars, revVars>>

RevProcs == {"poll"} \cup Handlers
CallPcs == {"idle", "post", "task", "label", "status", "delete", "removed", "added"}

\* One machine being added or removed: the step, its object and its system.
Call == [pc : CallPcs, host : Hosts \cup {None}, id : Ids \cup {None}]
NoRevCall == [pc |-> "idle", host |-> None, id |-> None]

NoLocals ==
    /\ lst = [h \in Hosts |-> NoObject]
    /\ left = {} /\ inMap = {} /\ marked = {} /\ sweep = {}

RevInit == InventoryInit /\ NoLocals /\ call = [p \in RevProcs |-> NoRevCall]

RevReturn(p) == call' = [call EXCEPT ![p] = NoRevCall]
RevGoto(p, pc) == call' = [call EXCEPT ![p].pc = pc]

-----------------------------------------------------------------------------
(* bmcAdditionOperation and the two updates that follow it, by process p.  *)

\* A machine can be added when its password can be decrypted and ODIM has a
\* connection method for it. Posted with an empty password, it is refused.
CanPost(h, o) == o.password = "encrypted" /\ h \in Supported

\* Mutant of RevPost: the address posted is not that of the call's object.
RevPostOther(p, i) ==
    /\ call[p].pc = "post"
    /\ CanAdd(i)
    /\ Accept(i)
    /\ call' = [call EXCEPT ![p].pc = "task", ![p].id = i]
    /\ UNCHANGED <<registered, kubeVars, mapOfBmc, recVars, tickVars, budget, localVars>>

RevPost(p, i) ==
    /\ call[p].pc = "post" /\ HostOf[i] = call[p].host
    /\ CanAdd(i)
    /\ Accept(i)
    /\ call' = [call EXCEPT ![p].pc = "task", ![p].id = i]
    /\ UNCHANGED <<registered, kubeVars, mapOfBmc, recVars, tickVars, budget, localVars>>

\* Mutant of RevPostRefused: the refusal is taken for a success.
RevPostRefusedOn(p) ==
    /\ call[p].pc = "post"
    /\ ~\E i \in Ids : HostOf[i] = call[p].host /\ CanAdd(i)
    /\ RevGoto(p, "label")
    /\ UNCHANGED <<inventoryVars, localVars>>

RevPostRefused(p) ==
    /\ call[p].pc = "post"
    /\ ~\E i \in Ids : HostOf[i] = call[p].host /\ CanAdd(i)
    /\ RevReturn(p)
    /\ UNCHANGED <<inventoryVars, localVars>>

\* The POST fails, or the monitor of the task gives up.
RevAddFails(p) ==
    /\ Disturb("odimFault")
    /\ call[p].pc \in {"post", "task"}
    /\ RevReturn(p)
    /\ UNCHANGED <<odimVars, kubeVars, mapOfBmc, recVars, tickVars, localVars>>

RevTaskDone(p) ==
    /\ call[p].pc = "task" /\ call[p].id \notin adding
    /\ RevGoto(p, "label")
    /\ UNCHANGED <<inventoryVars, localVars>>

\* Mutant of RevLabel: the label gets the object's name.
RevLabelsName(p) ==
    /\ call[p].pc = "label"
    /\ UpdateIfFresh(p, call[p].host,
           [obj[call[p].host] EXCEPT !.systemId = call[p].host])
    /\ RevGoto(p, "status")
    /\ UNCHANGED <<odimVars, mapOfBmc, recVars, tickVars, budget, localVars>>

RevLabel(p) ==
    /\ call[p].pc = "label"
    /\ UpdateIfFresh(p, call[p].host,
           [obj[call[p].host] EXCEPT !.systemId = call[p].id])
    /\ RevGoto(p, "status")
    /\ UNCHANGED <<odimVars, mapOfBmc, recVars, tickVars, budget, localVars>>

\* Mutants of RevStatus: the update does not check the resource version; the new
\* ID is not entered in mapOfBmcObj.
RevStatusForced(p) ==
    /\ call[p].pc = "status"
    /\ IF Exists(call[p].host)
       THEN Put(call[p].host, [obj[call[p].host] EXCEPT !.BmcSystemID = call[p].id])
       ELSE UNCHANGED kubeVars
    /\ IF p = "poll"
       THEN snap' = snap \cup {call[p].id} /\ inMap' = inMap \cup {call[p].id}
       ELSE UNCHANGED <<snap, inMap>>
    /\ RevReturn(p)
    /\ UNCHANGED <<odimVars, mapOfBmc, recVars, pollPc, budget, lst, left, marked, sweep>>

RevStatusUnnoted(p) ==
    /\ call[p].pc = "status"
    /\ UpdateIfFresh(p, call[p].host,
           [obj[call[p].host] EXCEPT !.BmcSystemID = call[p].id])
    /\ snap' = IF p = "poll" THEN snap \cup {call[p].id} ELSE snap
    /\ RevReturn(p)
    /\ UNCHANGED <<odimVars, mapOfBmc, recVars, pollPc, budget, localVars>>

\* The poll goes on as if both updates had been accepted. It means to take the
\* old ID from mapOfBmcObj, but its copy has the new one by then.
RevStatus(p) ==
    /\ call[p].pc = "status"
    /\ UpdateIfFresh(p, call[p].host,
           [obj[call[p].host] EXCEPT !.BmcSystemID = call[p].id])
    /\ IF p = "poll"
       THEN snap' = snap \cup {call[p].id} /\ inMap' = inMap \cup {call[p].id}
       ELSE UNCHANGED <<snap, inMap>>
    /\ RevReturn(p)
    /\ UNCHANGED <<odimVars, mapOfBmc, recVars, pollPc, budget, lst, left, marked, sweep>>

\* BmcDeleteOperation of the system of the call.
RevDelete(p) ==
    /\ call[p].pc = "delete"
    /\ registered' = registered \ {call[p].id}
    /\ RevReturn(p)
    /\ UNCHANGED <<adding, used, kubeVars, mapOfBmc, recVars, tickVars, budget, localVars>>

RevDeleteFails(p) ==
    /\ Disturb("odimFault")
    /\ call[p].pc = "delete"
    /\ RevReturn(p)
    /\ UNCHANGED <<odimVars, kubeVars, mapOfBmc, recVars, tickVars, localVars>>

CallStep(p) ==
    \/ \E i \in Ids : RevPost(p, i)
    \/ RevPostRefused(p) \/ RevTaskDone(p)
    \/ RevLabel(p) \/ RevStatus(p) \/ RevDelete(p)

-----------------------------------------------------------------------------
(* RevertPollingDetails.                                                   *)

PollMerge ==
    /\ pollPc = "merge"
    /\ mapOfBmc' = Merged
    /\ pollPc' = "list"
    /\ UNCHANGED <<odimVars, kubeVars, recVars, snap, budget, revVars>>

\* GetAllBmcObject
PollList ==
    /\ pollPc = "list"
    /\ lst' = obj
    /\ left' = {h \in Hosts : Exists(h)}
    /\ fresh' = [fresh EXCEPT !["poll"] = {h \in Hosts : Exists(h)}]
    /\ pollPc' = "visit"
    /\ UNCHANGED <<odimVars, obj, mapOfBmc, recVars, snap, budget, inMap, marked, sweep, call>>

\* The next copy: its system is noted, and added once more if it is missing and
\* no copy with its ID is being deleted.
PollVisit(h) ==
    LET o == lst[h] IN
    /\ pollPc = "visit" /\ call["poll"].pc = "idle"
    /\ h \in left
    /\ left' = left \ {h}
    /\ inMap' = inMap \cup {o.BmcSystemID}
    /\ marked' = IF o.deleting THEN marked \cup {o.BmcSystemID} ELSE marked
    /\ call' = IF o.BmcSystemID \notin marked' \cup snap /\ CanPost(h, o)
               THEN [call EXCEPT !["poll"] = [pc |-> "post", host |-> h, id |-> None]]
               ELSE call
    /\ UNCHANGED <<inventoryVars, lst, sweep>>

\* checkIfSystemIsUndergoingReset: the copy is not even noted.
PollVisitResetting(h) ==
    /\ Disturb("reset")
    /\ pollPc = "visit" /\ call["poll"].pc = "idle"
    /\ h \in left /\ lst[h].BmcSystemID \in registered
    /\ left' = left \ {h}
    /\ UNCHANGED <<odimVars, kubeVars, mapOfBmc, recVars, tickVars, lst, inMap, marked,
                   sweep, call>>

PollVisited ==
    /\ pollPc = "visit" /\ call["poll"].pc = "idle"
    /\ left = {}
    /\ sweep' = snap
    /\ pollPc' = "sweep"
    /\ UNCHANGED <<odimVars, kubeVars, mapOfBmc, recVars, snap, budget, lst, left, inMap,
                   marked, call>>

\* A copy without a system ID protects the first system of the sweep only: its
\* key is removed from mapOfBmcObj at the end of every iteration.
Protected(i) == i \in inMap \cup marked \/ None \in inMap

Sweeping(i) ==
    /\ pollPc = "sweep" /\ call["poll"].pc = "idle"
    /\ i \in sweep

PollSweepKeep(i) ==
    /\ Sweeping(i) /\ Protected(i)
    /\ sweep' = sweep \ {i}
    /\ inMap' = inMap \ {None}
    /\ UNCHANGED <<inventoryVars, lst, left, marked, call>>

PollSweepResetting(i) ==
    /\ Disturb("reset")
    /\ Sweeping(i)
    /\ ObjectOf(i) # {} /\ i \in registered
    /\ sweep' = sweep \ {i}
    /\ UNCHANGED <<odimVars, kubeVars, mapOfBmc, recVars, tickVars, lst, left, inMap,
                   marked, call>>

PollSweepDelete(i) ==
    /\ Sweeping(i) /\ ~Protected(i)
    /\ ObjectOf(i) # {}
    /\ sweep' = sweep \ {i}
    /\ call' = [call EXCEPT !["poll"] = [pc |-> "delete", host |-> None, id |-> i]]
    /\ UNCHANGED <<inventoryVars, lst, left, inMap, marked>>

PollSwept ==
    /\ pollPc = "sweep" /\ call["poll"].pc = "idle"
    /\ sweep = {}
    /\ lst' = [h \in Hosts |-> NoObject] /\ inMap' = {} /\ marked' = {}
    /\ fresh' = [fresh EXCEPT !["poll"] = {}]
    /\ pollPc' = "idle" /\ snap' = {}
    /\ UNCHANGED <<odimVars, obj, mapOfBmc, recVars, budget, left, sweep, call>>

-----------------------------------------------------------------------------
(* processEventsForSystemsResource. Events may come late, twice or never,  *)
(* and each request is served in a goroutine of its own, p.                *)

RevEventArrives(p, pc, i) ==
    /\ Disturb("event")
    /\ call[p].pc = "idle"
    /\ call' = [call EXCEPT ![p] = [pc |-> pc, host |-> None, id |-> i]]
    /\ UNCHANGED <<odimVars, kubeVars, mapOfBmc, recVars, tickVars, localVars>>

RevResourceAdded(p, i) == i \in used /\ RevEventArrives(p, "added", i)
RevResourceRemoved(p, i) ==
    i \in used \ (registered \cup adding) /\ RevEventArrives(p, "removed", i)

\* RevertResourceRemoved: the machine of the object is added once more.
EventRemoved(p, h) ==
    /\ call[p].pc = "removed"
    /\ h \in ObjectOf(call[p].id)
    /\ IF ~obj[h].deleting /\ CanPost(h, obj[h])
       THEN /\ call' = [call EXCEPT ![p] = [pc |-> "post", host |-> h, id |-> None]]
            /\ fresh' = [fresh EXCEPT ![p] = {h}]
       ELSE RevReturn(p) /\ UNCHANGED fresh
    /\ UNCHANGED <<odimVars, obj, mapOfBmc, recVars, tickVars, budget, localVars>>

EventRemovedNoObject(p) ==
    /\ call[p].pc = "removed"
    /\ ObjectOf(call[p].id) = {}
    /\ RevReturn(p)
    /\ UNCHANGED <<inventoryVars, localVars>>

\* RevertResourceAdded: the system is removed when there is no object under its
\* host name, or when ODIM cannot tell the host name.
EventAdded(p) ==
    LET i == call[p].id IN
    /\ call[p].pc = "added"
    /\ IF i \in registered /\ Exists(HostOf[i])
       THEN RevReturn(p) ELSE RevGoto(p, "delete")
    /\ UNCHANGED <<inventoryVars, localVars>>

EventAddedUnknown(p) ==
    /\ Disturb("odimFault")
    /\ call[p].pc = "added"
    /\ RevGoto(p, "delete")
    /\ UNCHANGED <<odimVars, kubeVars, mapOfBmc, recVars, tickVars, localVars>>

EventStep(p) ==
    \/ CallStep(p)
    \/ \E h \in Hosts : EventRemoved(p, h)
    \/ EventRemovedNoObject(p) \/ EventAdded(p)

-----------------------------------------------------------------------------
\* The process starts again.
RevForgetCalls ==
    /\ lst' = [h \in Hosts |-> NoObject]
    /\ left' = {} /\ inMap' = {} /\ marked' = {} /\ sweep' = {}
    /\ call' = [p \in RevProcs |-> NoRevCall]

\* The sweep meets a system that neither a copy nor an object has: it reads the
\* name of the object that is not there, and the panic ends the process.
PollPanic(i) ==
    /\ Sweeping(i) /\ ~Protected(i)
    /\ ObjectOf(i) = {}
    /\ ForgetInventory /\ RevForgetCalls
    /\ UNCHANGED budget

RevPollStep ==
    \/ PollGet /\ UNCHANGED revVars
    \/ PollMerge \/ PollList \/ PollVisited \/ PollSwept
    \/ \E h \in Hosts : PollVisit(h)
    \/ \E i \in Ids : PollSweepKeep(i) \/ PollSweepDelete(i) \/ PollPanic(i)
    \/ CallStep("poll")

RevReconcileStep == (RecStep /\ UNCHANGED revVars) \/ (RecPanic /\ RevForgetCalls)

RevNext ==
    \/ RevReconcileStep \/ RevPollStep
    \/ \E p \in Handlers :
           \/ EventStep(p) \/ EventAddedUnknown(p)
           \/ \E i \in Ids : RevResourceAdded(p, i) \/ RevResourceRemoved(p, i)
    \/ \E h \in Hosts : PollVisitResetting(h)
    \/ \E i \in Ids : PollSweepResetting(i)
    \/ \E p \in RevProcs : RevAddFails(p) \/ RevDeleteFails(p)
    \/ (RecFault \/ EnvNext) /\ UNCHANGED revVars
    \/ InventoryCrash /\ RevForgetCalls

RevSpec == RevInit /\ [][RevNext]_revertVars

\* As in BmcAccommodate: the goroutines, ODIM's tasks and the work queue go on.
RevFairness ==
    /\ WF_revertVars(RevPollStep) /\ WF_revertVars(RevReconcileStep)
    /\ \A p \in Handlers : WF_revertVars(EventStep(p))
    /\ \A h \in Hosts : SF_revertVars(RecStart(h) /\ UNCHANGED revVars)
    /\ \A i \in Ids : WF_revertVars(OdimFinish(i) /\ UNCHANGED revVars)

RevFairSpec == RevSpec /\ RevFairness

-----------------------------------------------------------------------------
(* Types.                                                                  *)

\* Every variable stays in its set.
RevTypeOK ==
    /\ InventoryTypeOK
    /\ pollPc \in {"idle", "merge", "list", "visit", "sweep"}
    /\ lst \in [Hosts -> Bmc \cup {NoObject}]
    /\ left \subseteq Hosts /\ sweep \subseteq Ids
    /\ inMap \subseteq Ids \cup {None} /\ marked \subseteq Ids \cup {None}
    /\ call \in [RevProcs -> Call]

-----------------------------------------------------------------------------
(* What has to hold.                                                       *)

\* An object with the encrypted password has its finalizer, an ID in its status
\* and one in its label, also when the poll and the events have written new IDs
\* with two updates of which either may be refused.
ManagedObjectsAreComplete ==
    \A h \in Hosts : Exists(h) /\ obj[h].password = "encrypted" =>
        /\ obj[h].finalizer
        /\ None \notin {obj[h].systemId, obj[h].BmcSystemID}

Adding == {"post", "task", "label", "status"}

\* What a call c of process p works on. As long as its copy is the stored object, that
\* object is a managed one, and from the task on ODIM has not got the system the object
\* names: it has accepted the machine once more.
CallOK(p, c) ==
    /\ c.pc \in Adding => c.host \in Hosts
    /\ c.pc = "task" => c.id \in IdsOf(c.host) \cap used
    /\ c.pc \in {"label", "status"} => c.id \in IdsOf(c.host) \cap Done
    /\ c.pc \in {"delete", "removed", "added"} => c.id \in used
    /\ c.pc \in Adding /\ c.host \in fresh[p] =>
           /\ ~obj[c.host].deleting /\ obj[c.host].password = "encrypted"
           /\ c.pc # "post" => obj[c.host].BmcSystemID \notin registered

RevCallInv == \A p \in RevProcs : CallOK(p, call[p])

\* What the poll knows of the copies it has not come to yet.
PollInv ==
    /\ call["poll"].pc # "idle" => pollPc \in {"visit", "sweep"}
    /\ call["poll"].pc \in Adding => call["poll"].host \notin left
    /\ left # {} => pollPc = "visit"
    /\ \A h \in left : lst[h] # NoObject
    /\ \A h \in left \cap fresh["poll"] : obj[h] = lst[h]

\* Everything the processes rely on, together: an inductive invariant.
RevInv == RevTypeOK /\ InventoryInv /\ RevCallInv /\ PollInv

\* Once nobody interferes any more, ODIM has the machines of the objects, under
\* the IDs they name (README.md, "BMC reconciliation use cases", Revert).
OdimFollowsObjects == <>[]InSync

=============================================================================
