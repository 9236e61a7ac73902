--------------------------- MODULE BmcAccommodate ---------------------------
(***************************************************************************)
(* config.Data.Reconciliation = "Accommodate": the Bmc objects follow ODIM.*)
(*                                                                         *)
(* The polling loop (PollDetails in controllers/pollData/                  *)
(* getPollingUpdates.go) compares GET /redfish/v1/Systems with MapOfBmc,   *)
(* marks the differences in MapOfBmc and hands each entry to               *)
(* AccommodateBMCInfo (accomodateDetails.go), which creates or deletes the *)
(* object.  The event listener (processEvents.go) calls the same function  *)
(* from its own goroutine.  Both run beside BmcReconciler.                 *)
(***************************************************************************)
EXTENDS BmcInventory

VARIABLES
    todo,   \* keys of MapOfBmc that AccommodatePollingDetails still ranges over
    acc     \* AccommodateBMCInfo, in the poll's and in each event's goroutine

accVars == <<todo, acc>>
vars == <<inventoryVars, accVars>>

AccProcs == {"poll"} \cup Handlers
AccPcs == {"idle", "read", "found", "mark", "delete", "get", "create"}

\* A call of AccommodateBMCInfo: its place, its system and its copy of the
\* BmcState.
AccCall == [pc : AccPcs, id : Ids \cup {None}, bs : BmcState]
NoCall == [pc |-> "idle", id |-> None, bs |-> NoEntry]

Init ==
    /\ InventoryInit
    /\ todo = {}
    /\ acc = [p \in AccProcs |-> NoCall]

-----------------------------------------------------------------------------
(* PollDetails.                                                            *)

\* The systems of the answer are entered. When mapOfSystems and MapOfBmc then
\* differ in length, entries that are not in mapOfSystems are marked as deleted,
\* and MapOfBmc is ranged over.
PollMark ==
    LET known == {i \in Ids : Merged[i].present} IN
    /\ pollPc = "merge"
    /\ mapOfBmc' = [i \in Ids |->
           IF Cardinality(snap) # Cardinality(known) /\ i \in known \ snap
           THEN [Merged[i] EXCEPT !.IsDeleted = TRUE]
           ELSE Merged[i]]
    /\ todo' = known
    /\ pollPc' = "range"
    /\ UNCHANGED <<odimVars, kubeVars, recVars, snap, budget, acc>>

\* The next entry, in any order, as it is when the range reaches it.
PollEntry(i) ==
    /\ pollPc = "range" /\ acc["poll"].pc = "idle"
    /\ i \in todo \cap Tracked
    /\ todo' = todo \ {i}
    /\ acc' = [acc EXCEPT !["poll"] = [pc |-> "read", id |-> i, bs |-> mapOfBmc[i]]]
    /\ UNCHANGED inventoryVars

PollDone ==
    /\ pollPc = "range" /\ acc["poll"].pc = "idle"
    /\ todo \cap Tracked = {}
    /\ todo' = {}
    /\ pollPc' = "idle" /\ snap' = {}
    /\ UNCHANGED <<odimVars, kubeVars, mapOfBmc, recVars, budget, acc>>

-----------------------------------------------------------------------------
(* processEventsForSystemsResource. Events may come late, twice or never,  *)
(* and each request is served in a goroutine of its own.                   *)

EventArrives(p, i, bs) ==
    /\ Disturb("event")
    /\ acc[p].pc = "idle"
    /\ acc' = [acc EXCEPT ![p] = [pc |-> "read", id |-> i, bs |-> bs]]
    /\ UNCHANGED <<odimVars, kubeVars, mapOfBmc, recVars, tickVars, todo>>

ResourceAdded(p, i) ==
    /\ i \in used
    /\ EventArrives(p, i, [NoEntry EXCEPT !.IsAdded = TRUE])

ResourceRemoved(p, i) ==
    /\ i \in used \ (registered \cup adding)
    /\ EventArrives(p, i, [NoEntry EXCEPT !.IsDeleted = TRUE])

-----------------------------------------------------------------------------
(* AccommodateBMCInfo, run by process p.                                   *)

Return(p) == acc' = [acc EXCEPT ![p] = NoCall]
Goto(p, pc) == acc' = [acc EXCEPT ![p].pc = pc]

\* The process starts again with empty tables.
ForgetCalls == todo' = {} /\ acc' = [p \in AccProcs |-> NoCall]

\* Nothing to do for an entry that is neither added nor deleted.
AccNothing(p) ==
    /\ acc[p].pc = "read"
    /\ ~acc[p].bs.IsAdded /\ ~acc[p].bs.IsDeleted
    /\ Return(p)
    /\ UNCHANGED <<inventoryVars, todo>>

\* The object is there.
AccFound(p) ==
    /\ acc[p].pc = "read"
    /\ acc[p].bs.IsAdded \/ acc[p].bs.IsDeleted
    /\ ObjectOf(acc[p].id) # {}
    /\ Goto(p, "found")
    /\ UNCHANGED <<inventoryVars, todo>>

\* checkIfSystemIsUndergoingReset: the call returns without doing anything.
AccUndergoingReset(p) ==
    /\ Disturb("reset")
    /\ acc[p].pc = "found" /\ acc[p].id \in registered
    /\ Return(p)
    /\ UNCHANGED <<odimVars, kubeVars, mapOfBmc, recVars, tickVars, todo>>

\* The object of an entry with IsObjCreated is compared with its machine before
\* anything else is done: GetManagerDetails reads it in ODIM.
AccCompare(p) ==
    /\ acc[p].pc = "found" /\ acc[p].bs.IsObjCreated
    /\ acc[p].id \in registered
    /\ Goto(p, "mark")
    /\ UNCHANGED <<inventoryVars, todo>>

\* There is no answer: GetManagerDetails logs the error, and the call goes on.
AccCompareFails(p) ==
    /\ Disturb("odimFault")
    /\ acc[p].pc = "found" /\ acc[p].bs.IsObjCreated
    /\ Goto(p, "mark")
    /\ UNCHANGED <<odimVars, kubeVars, mapOfBmc, recVars, tickVars, todo>>

\* ODIM does not have the system any more. Its 404 comes without an error, and
\* GetManagerDetails logs err.Error() all the same: the panic ends the process,
\* whether or not the entry is marked as deleted. An event's entry never has
\* IsObjCreated, so this is the poll's.
AccPanic(p) ==
    /\ acc[p].pc = "found" /\ acc[p].bs.IsObjCreated
    /\ acc[p].id \notin registered
    /\ ForgetInventory /\ ForgetCalls
    /\ UNCHANGED budget

\* The entry, as it is by now, is marked, and the object of a deleted system is
\* deleted next.
AccMark(p) ==
    /\ \/ acc[p].pc = "found" /\ ~acc[p].bs.IsObjCreated
       \/ acc[p].pc = "mark"
    /\ mapOfBmc' = [mapOfBmc EXCEPT
           ![acc[p].id] = [@ EXCEPT !.present = TRUE, !.IsObjCreated = TRUE]]
    /\ IF acc[p].bs.IsDeleted THEN Goto(p, "delete") ELSE Return(p)
    /\ UNCHANGED <<odimVars, kubeVars, recVars, tickVars, budget, todo>>

\* There is no object: the entry of a deleted system goes, and for an added one
\* an object is created unless the entry says it was.
AccNotFound(p) ==
    LET i == acc[p].id  bs == acc[p].bs IN
    /\ acc[p].pc = "read"
    /\ bs.IsAdded \/ bs.IsDeleted
    /\ ObjectOf(i) = {}
    /\ mapOfBmc' = IF bs.IsDeleted THEN [mapOfBmc EXCEPT ![i] = NoEntry] ELSE mapOfBmc
    /\ IF bs.IsAdded /\ ~bs.IsDeleted /\ ~bs.IsObjCreated
       THEN Goto(p, "get") ELSE Return(p)
    /\ UNCHANGED <<odimVars, kubeVars, recVars, tickVars, budget, todo>>

\* Client.Delete of the object's name. The entry stays when the name has gone.
AccDelete(p) ==
    LET i == acc[p].id  h == HostOf[i] IN
    /\ acc[p].pc = "delete"
    /\ Delete(h)
    /\ mapOfBmc' = IF Exists(h) THEN [mapOfBmc EXCEPT ![i] = NoEntry] ELSE mapOfBmc
    /\ Return(p)
    /\ UNCHANGED <<odimVars, recVars, tickVars, budget, todo>>

\* Mutant of AccGet: the answer is not looked at.
AccGetUnchecked(p) ==
    /\ acc[p].pc = "get"
    /\ Goto(p, "create")
    /\ UNCHANGED <<inventoryVars, todo>>

\* The host name is read from the aggregation source.
AccGet(p) ==
    /\ acc[p].pc = "get"
    /\ IF acc[p].id \in registered THEN Goto(p, "create") ELSE Return(p)
    /\ UNCHANGED <<inventoryVars, todo>>

\* No password, the label set; the status is dropped by the API server.
createBmcObject(i) == [NewBmc EXCEPT !.systemId = i]

\* Mutant of AccCreate: the entry is written before the error is looked at.
AccCreateUnchecked(p) ==
    LET i == acc[p].id  h == HostOf[i] IN
    /\ acc[p].pc = "create"
    /\ IF Exists(h) THEN UNCHANGED kubeVars ELSE Put(h, createBmcObject(i))
    /\ mapOfBmc' = [mapOfBmc EXCEPT ![i] = ObjCreated]
    /\ Return(p)
    /\ UNCHANGED <<odimVars, recVars, tickVars, budget, todo>>

\* The creation fails when the name is taken.
AccCreate(p) ==
    LET i == acc[p].id  h == HostOf[i] IN
    /\ acc[p].pc = "create"
    /\ IF Exists(h)
       THEN UNCHANGED <<kubeVars, mapOfBmc>>
       ELSE /\ Put(h, createBmcObject(i))
            /\ mapOfBmc' = [mapOfBmc EXCEPT ![i] = ObjCreated]
    /\ Return(p)
    /\ UNCHANGED <<odimVars, recVars, tickVars, budget, todo>>

AccStep(p) ==
    \/ AccNothing(p) \/ AccFound(p) \/ AccCompare(p) \/ AccPanic(p) \/ AccMark(p)
    \/ AccNotFound(p) \/ AccDelete(p) \/ AccGet(p) \/ AccCreate(p)

-----------------------------------------------------------------------------
PollStep ==
    \/ PollGet /\ UNCHANGED accVars
    \/ PollMark \/ PollDone
    \/ \E i \in Ids : PollEntry(i)

ReconcileStep == (RecStep /\ UNCHANGED accVars) \/ (RecPanic /\ ForgetCalls)

Next ==
    \/ ReconcileStep \/ PollStep
    \/ \E p \in AccProcs : AccStep(p) \/ AccUndergoingReset(p) \/ AccCompareFails(p)
    \/ \E p \in Handlers, i \in Ids : ResourceAdded(p, i) \/ ResourceRemoved(p, i)
    \/ (RecFault \/ EnvNext) /\ UNCHANGED accVars
    \/ InventoryCrash /\ ForgetCalls

Spec == Init /\ [][Next]_vars

\* The polling loop, the calls it makes, the reconciler's worker and ODIM's
\* tasks go on, and the work queue serves every object; nobody has to add,
\* delete or edit anything, and no event has to arrive.
Fairness ==
    /\ WF_vars(PollStep)
    /\ \A p \in AccProcs : WF_vars(AccStep(p))
    /\ WF_vars(ReconcileStep)
    /\ \A h \in Hosts : SF_vars(RecStart(h) /\ UNCHANGED accVars)
    /\ \A i \in Ids : WF_vars(OdimFinish(i) /\ UNCHANGED accVars)

FairSpec == Spec /\ Fairness

-----------------------------------------------------------------------------
(* Types.                                                                  *)

\* Every variable stays in its set, in every state of the three inventories,
\* the reconciler, the poll and the event handler.
TypeOK ==
    /\ InventoryTypeOK
    /\ pollPc \in {"idle", "merge", "range"}
    /\ todo \subseteq Ids
    /\ acc \in [AccProcs -> AccCall]

-----------------------------------------------------------------------------
(* What has to hold.                                                       *)

\* The encrypted password is what makes later reconciles leave an object alone:
\* an object that has it also has its finalizer and one system ID, the same in
\* label and status, although these are stored by three separate updates that
\* others can come between.
AddedObjectsAreComplete ==
    \A h \in Hosts : Exists(h) /\ obj[h].password = "encrypted" =>
        /\ obj[h].finalizer
        /\ obj[h].BmcSystemID # None
        /\ obj[h].systemId = obj[h].BmcSystemID

\* What a call of AccommodateBMCInfo works on: a system ODIM has handed out an ID
\* for, and one that it has finished adding when an object is about to be created.
CallInv ==
    \A p \in AccProcs :
        /\ acc[p].pc # "idle" => acc[p].id \in used
        /\ acc[p].pc = "create" => acc[p].id \in Done

\* Everything the processes rely on, together: an inductive invariant.
Inv == TypeOK /\ InventoryInv /\ CallInv /\ AddedObjectsAreComplete

\* The object of a system that ODIM had and has no longer.
Stale(h) == Exists(h) /\ obj[h].BmcSystemID \in Done \ registered

\* Once nobody interferes any more, each machine has its object just when ODIM
\* has its system, and stays so (README.md, "BMC reconciliation use cases",
\* Accommodate), wherever the reconciler, the poll, the panics and the restarts
\* were cut short. Only the object of a system that ODIM lost may be left over:
\* the comparison of the lost machine ends the process, and after the restart
\* nothing in MapOfBmc recalls it.
ObjectsFollowOdim ==
    <>[](\A h \in Hosts :
            \/ Exists(h) /\ obj[h].BmcSystemID \in registered
            \/ ~Exists(h) /\ ~\E i \in registered : HostOf[i] = h
            \/ Stale(h))

\* A system is marked as deleted in MapOfBmc only when ODIM does not have it:
\* its object is going to be deleted, and with it the system.
MarkedSystemsAreGone ==
    \A i \in Ids : mapOfBmc[i].IsDeleted => i \notin registered

=============================================================================
