--------------------------- MODULE BmcPollProofs ---------------------------
(***************************************************************************)
(* The safety properties of the two modes of reconciliation, for every     *)
(* number of machines, IDs, goroutines and disturbances.  The first half   *)
(* is about BmcAccommodate, whose specification is Spec and whose          *)
(* inductive invariant is Inv; the second about BmcRevert with RevSpec and *)
(* RevInv.  Each has lemmas on what its processes know while others step,  *)
(* one per group of actions, and then its theorems.                        *)
(***************************************************************************)
EXTENDS BmcAccommodate, BmcRevert, BmcInventoryProofs

USE DEF AccProcs, RevProcs, IdsOf, Exists

-----------------------------------------------------------------------------
(* BmcAccommodate: AddedObjectsAreComplete is kept.                        *)

\* A step that leaves the objects alone keeps them complete.
LEMMA AddedUnchanged ==
    ASSUME AddedObjectsAreComplete, UNCHANGED obj PROVE AddedObjectsAreComplete'
BY DEF AddedObjectsAreComplete, Exists

\* Storing something under one name keeps them complete when that is complete.
LEMMA AddedChanged ==
    ASSUME AddedObjectsAreComplete, InventoryInv, NEW h \in Hosts, NEW o,
           obj' = [obj EXCEPT ![h] = o],
           o # NoObject /\ o.password = "encrypted" =>
               o.finalizer /\ o.BmcSystemID # None /\ o.systemId = o.BmcSystemID
    PROVE  AddedObjectsAreComplete'
BY DEF AddedObjectsAreComplete, Exists, InventoryInv, InventoryTypeOK

\* Client.Delete keeps them complete.
LEMMA AddedDelete ==
    ASSUME AddedObjectsAreComplete, InventoryInv, NEW h \in Hosts, Delete(h)
    PROVE  AddedObjectsAreComplete'
<1>1. AfterDelete(h) # NoObject /\ AfterDelete(h).password = "encrypted" =>
          /\ AfterDelete(h).finalizer
          /\ AfterDelete(h).BmcSystemID # None
          /\ AfterDelete(h).systemId = AfterDelete(h).BmcSystemID
  BY AfterDeleteKeeps DEF AddedObjectsAreComplete
<1> QED BY <1>1, AddedChanged DEF Delete, Put

\* The reconciler's steps keep them complete: the encrypted password is stored last,
\* from a copy that is still the stored object.
LEMMA AddedRecStep ==
    ASSUME AddedObjectsAreComplete, InventoryInv, RecStep PROVE AddedObjectsAreComplete'
<1>1. CASE RecFail
  BY <1>1, AddedDelete DEF RecFail, InventoryInv, RecInv
<1>2. CASE RecStore \/ RecWriteStatus
  <2>1. CASE recHost \in fresh["rec"]
    <3>1. recHost \in Hosts /\ obj[recHost] \in Bmc /\ obj[recHost].password = "plain"
      BY <1>2, <2>1, RecCopyGood DEF InventoryInv, RecInv, RecStore, RecWriteStatus
    <3>2. PICK o : obj' = [obj EXCEPT ![recHost] = o] /\ o.password = "plain"
      BY <1>2, <2>1, <3>1 DEF RecStore, RecWriteStatus, UpdateIfFresh, Bmc
    <3> QED BY <3>1, <3>2, AddedChanged
  <2>2. CASE recHost \notin fresh["rec"]
    BY <1>2, <2>2, AddedUnchanged DEF RecStore, RecWriteStatus, UpdateIfFresh, kubeVars
  <2> QED BY <2>1, <2>2
<1>3. CASE RecFinal
  <2> DEFINE o == [obj[recHost] EXCEPT !.password = "encrypted", !.systemId = recId]
  <2>1. CASE recHost \in fresh["rec"]
    <3>1. /\ recHost \in Hosts /\ obj[recHost] \in Bmc
          /\ obj[recHost].finalizer /\ obj[recHost].BmcSystemID = recId
          /\ recId \in Ids
      BY <1>3, <2>1, RecCopyGood DEF InventoryInv, RecInv, RecFinal, IdsOf
    <3>2. o.finalizer /\ o.BmcSystemID # None /\ o.systemId = o.BmcSystemID
      BY <3>1, InventoryAssumption DEF Bmc
    <3>3. obj' = [obj EXCEPT ![recHost] = o]
      BY <1>3, <2>1 DEF RecFinal, Completed, UpdateIfFresh
    <3> QED BY <3>1, <3>2, <3>3, AddedChanged
  <2>2. CASE recHost \notin fresh["rec"]
    BY <1>3, <2>2, AddedUnchanged DEF RecFinal, UpdateIfFresh, kubeVars
  <2> QED BY <2>1, <2>2
<1>4. CASE RecFinalize
  <2>1. CASE recHost \in fresh["rec"]
    BY <1>4, <2>1, AddedChanged DEF RecFinalize, Put, InventoryInv, RecInv
  <2>2. CASE recHost \notin fresh["rec"]
    BY <1>4, <2>2, AddedUnchanged DEF RecFinalize, kubeVars
  <2> QED BY <2>1, <2>2
<1>5. CASE UNCHANGED obj
  BY <1>5, AddedUnchanged
<1> QED
  BY <1>1, <1>2, <1>3, <1>4, <1>5
     DEF RecStep, RecStart, RecPost, RecPostRefused, RecTaskDone, RecDetails, RecTrack,
         RecUnregister, RecUnregisterNothing, kubeVars

\* So do the users, ODIM and the faults.
LEMMA AddedEnv ==
    ASSUME AddedObjectsAreComplete, InventoryInv, RecFault \/ EnvNext
    PROVE  AddedObjectsAreComplete'
<1>1. ASSUME NEW h \in Hosts, RecKeysMissing(h) \/ UserDelete(h)
      PROVE  AddedObjectsAreComplete'
  BY <1>1, AddedDelete DEF RecKeysMissing, UserDelete
<1>2. ASSUME NEW h \in Hosts, UserCreate(h) PROVE AddedObjectsAreComplete'
  BY <1>2, AddedChanged DEF UserCreate, Put, NewBmc
<1>3. ASSUME NEW h \in Hosts, UserTouch(h) PROVE AddedObjectsAreComplete'
  BY <1>3, AddedChanged
     DEF UserTouch, Put, AddedObjectsAreComplete, Exists
<1>4. CASE UNCHANGED obj
  BY <1>4, AddedUnchanged
<1> QED
  BY <1>1, <1>2, <1>3, <1>4
     DEF RecFault, EnvNext, RecAddFails, RecUnregisterFails, OdimAdd, OdimFinish,
         OdimRemove, kubeVars

-----------------------------------------------------------------------------
(* Inv is inductive.                                                       *)

\* The initial state satisfies Inv.
LEMMA InitInv == Init => Inv
<1> SUFFICES ASSUME Init PROVE Inv
  OBVIOUS
<1>1. InventoryInv
  BY InitEstablishesInv DEF Init
<1>2. TypeOK
  BY <1>1 DEF Init, InventoryInit, InventoryInv, TypeOK, AccCall, AccPcs, NoCall, NoEntry,
              BmcState
<1>3. CallInv
  BY DEF Init, CallInv, NoCall
<1>4. AddedObjectsAreComplete
  BY DEF Init, InventoryInit, AddedObjectsAreComplete, Exists
<1> QED BY <1>1, <1>2, <1>3, <1>4 DEF Inv

\* Steps of the other processes leave the calls right, since IDs are only handed
\* out and done.
LEMMA CallUnchanged ==
    ASSUME CallInv, UNCHANGED acc, used \subseteq used', Done \subseteq Done'
    PROVE  CallInv'
BY DEF CallInv

\* The reconciler, the users, ODIM and the faults.
LEMMA OthersKeepInv ==
    ASSUME Inv, RecStep \/ RecFault \/ EnvNext, UNCHANGED accVars PROVE Inv'
<1>1. InventoryInv'
  BY RecStepKeeps, EnvKeeps DEF Inv
<1>2. UNCHANGED tickVars
  BY DEF RecStep, RecFault, EnvNext, RecStart, RecPost, RecPostRefused, RecTaskDone,
         RecFail, RecDetails, RecStore, RecWriteStatus, RecTrack, RecFinal, RecUnregister,
         RecUnregisterNothing, RecFinalize, RecKeysMissing, RecAddFails,
         RecUnregisterFails, UserCreate, UserDelete, UserTouch, OdimAdd, OdimFinish,
         OdimRemove
<1>3. TypeOK'
  BY <1>1, <1>2 DEF Inv, InventoryInv, TypeOK, accVars, tickVars
<1>4. CallInv'
  BY IdsGrow, CallUnchanged DEF Inv, accVars
<1>5. AddedObjectsAreComplete'
  BY AddedRecStep, AddedEnv DEF Inv
<1> QED BY <1>1, <1>3, <1>4, <1>5 DEF Inv

\* The end of the process, by a crash or by a panic of the reconciler or the poll.
LEMMA EndKeepsInv ==
    ASSUME Inv, ForgetCalls,
           InventoryCrash \/ RecPanic \/ \E p \in AccProcs : AccPanic(p)
    PROVE  Inv'
<1>1. ForgetInventory /\ budget' \in Nat
  BY DEF InventoryCrash, RecPanic, AccPanic, Disturb, Inv, InventoryInv, InventoryTypeOK
<1>2. InventoryInv'
  BY <1>1, ForgetKeeps DEF Inv
<1>3. TypeOK'
  BY <1>1, <1>2 DEF InventoryInv, TypeOK, ForgetInventory, ForgetCalls, AccCall, AccPcs,
                    NoCall, NoEntry, BmcState
<1>4. CallInv'
  BY DEF ForgetCalls, CallInv, NoCall
<1>5. AddedObjectsAreComplete'
  BY <1>1, AddedUnchanged DEF ForgetInventory, Inv
<1> QED BY <1>2, <1>3, <1>4, <1>5 DEF Inv

\* The poll's steps outside AccommodateBMCInfo.
LEMMA PollKeepsInv ==
    ASSUME Inv, PollStep PROVE Inv'
<1> USE DEF Inv
<1>1. CASE PollGet /\ UNCHANGED accVars
  <2>1. InventoryInv' /\ used \subseteq used' /\ Done \subseteq Done'
    BY <1>1, PollGetKeeps, IdsGrow
  <2> QED
    BY <1>1, <2>1, CallUnchanged, AddedUnchanged
       DEF PollGet, TypeOK, InventoryInv, accVars, kubeVars
<1>2. CASE PollMark
  <2>1. /\ Merged \in [Ids -> BmcState]
        /\ \A i \in Ids : Merged[i].present => i \in used
    BY MergedKeeps
  <2>2. \A b \in BmcState : /\ [b EXCEPT !.IsDeleted = TRUE] \in BmcState
                             /\ [b EXCEPT !.IsDeleted = TRUE].present = b.present
    BY DEF BmcState
  <2>3. /\ mapOfBmc' \in [Ids -> BmcState]
        /\ \A i \in Ids : mapOfBmc'[i].present => i \in used
    BY <1>2, <2>1, <2>2 DEF PollMark
  <2>4. InventoryInv'
    BY <1>2, <2>3, MemoryKeeps
       DEF PollMark, InventoryInv, InventoryTypeOK, OdimInv
  <2> QED
    BY <1>2, <2>4, CallUnchanged, AddedUnchanged
       DEF PollMark, TypeOK, InventoryInv, kubeVars, odimVars, Done
<1>3. ASSUME NEW i \in Ids, PollEntry(i) PROVE Inv'
  <2>1. InventoryInv'
    BY <1>3, MemoryKeeps
       DEF PollEntry, inventoryVars, tickVars, InventoryInv, InventoryTypeOK, OdimInv,
           Tracked
  <2>2. acc' \in [AccProcs -> AccCall] /\ CallInv'
    BY <1>3 DEF PollEntry, inventoryVars, odimVars, TypeOK, InventoryInv, InventoryTypeOK,
                OdimInv, Tracked, AccCall, AccPcs, CallInv, Done
  <2> QED
    BY <1>3, <2>1, <2>2, AddedUnchanged
       DEF PollEntry, inventoryVars, tickVars, kubeVars, TypeOK, InventoryInv
<1>4. CASE PollDone
  <2>1. InventoryInv'
    BY <1>4, MemoryKeeps
       DEF PollDone, InventoryInv, InventoryTypeOK, OdimInv, Tracked
  <2> QED
    BY <1>4, <2>1, CallUnchanged, AddedUnchanged
       DEF PollDone, TypeOK, InventoryInv, kubeVars, odimVars, Done
<1> QED BY <1>1, <1>2, <1>3, <1>4 DEF PollStep

\* A step of a call that enters or removes an entry of MapOfBmc for its own system,
\* and changes nothing else of the shared state.
LEMMA EntryKeepsInventory ==
    ASSUME Inv, NEW p \in AccProcs, acc[p].pc # "idle", NEW b \in BmcState,
           mapOfBmc' = [mapOfBmc EXCEPT ![acc[p].id] = b] \/ mapOfBmc' = mapOfBmc,
           UNCHANGED <<odimVars, kubeVars, recVars, tickVars>>, budget' \in Nat
    PROVE  InventoryInv'
<1> USE DEF Inv, InventoryInv
<1>1. acc[p].id \in used /\ used \subseteq Ids
  BY DEF CallInv, InventoryTypeOK
<1>2. mapOfBmc' \in [Ids -> BmcState]
  BY <1>1 DEF InventoryTypeOK
<1>3. \A i \in Ids : mapOfBmc'[i].present => i \in used
  BY <1>1 DEF InventoryTypeOK, OdimInv, Tracked
<1>4. snap' \subseteq used
  BY DEF tickVars, OdimInv
<1> QED BY <1>2, <1>3, <1>4, MemoryKeeps

\* A call that returns or goes on: the other one stays as it is, and this one keeps
\* its system and its entry.
LEMMA CallMoves ==
    ASSUME TypeOK, NEW p \in AccProcs, Return(p) \/ \E pc \in AccPcs : Goto(p, pc)
    PROVE  /\ acc' \in [AccProcs -> AccCall]
           /\ \A q \in AccProcs : q # p => acc'[q] = acc[q]
           /\ acc'[p].pc # "idle" => acc'[p].id = acc[p].id
<1>1. acc \in [AccProcs -> AccCall] /\ acc[p] \in AccCall
  BY DEF TypeOK
<1>2. CASE Return(p)
  <2>1. NoCall \in AccCall /\ NoCall.pc = "idle"
    BY DEF NoCall, NoEntry, AccCall, AccPcs, BmcState
  <2> QED BY <1>1, <1>2, <2>1 DEF Return
<1>3. ASSUME NEW pc \in AccPcs, Goto(p, pc)
      PROVE  /\ acc' \in [AccProcs -> AccCall]
             /\ \A q \in AccProcs : q # p => acc'[q] = acc[q]
             /\ acc'[p].id = acc[p].id
  <2> DEFINE c == [acc[p] EXCEPT !.pc = pc]
  <2>1. c \in AccCall /\ c.id = acc[p].id
    BY <1>1 DEF AccCall
  <2>2. acc' = [acc EXCEPT ![p] = c]
    BY <1>3 DEF Goto
  <2> QED BY <1>1, <2>1, <2>2
<1> QED BY <1>2, <1>3

\* A marked entry is one.
LEMMA EntryMarked ==
    ASSUME NEW b \in BmcState
    PROVE  [b EXCEPT !.present = TRUE, !.IsObjCreated = TRUE] \in BmcState
BY DEF BmcState

\* The steps of a call that neither create nor delete.
LEMMA QuietCallKeepsInv ==
    ASSUME Inv, NEW p \in AccProcs,
           \/ AccNothing(p) \/ AccFound(p) \/ AccUndergoingReset(p)
           \/ AccCompare(p) \/ AccCompareFails(p)
           \/ AccMark(p) \/ AccNotFound(p) \/ AccGet(p)
    PROVE  Inv'
<1> DEFINE i == acc[p].id
<1> USE DEF Inv
<1>1. /\ UNCHANGED <<odimVars, kubeVars, recVars, tickVars, todo>>
      /\ budget' \in Nat
      /\ acc[p].pc # "idle"
  BY DEF AccNothing, AccFound, AccUndergoingReset, AccCompare, AccCompareFails, AccMark,
         AccNotFound, AccGet, Disturb,
         inventoryVars, InventoryInv, InventoryTypeOK
<1>2. i \in used /\ i \in Ids /\ acc[p] \in AccCall
  BY <1>1 DEF CallInv, InventoryInv, InventoryTypeOK, TypeOK
<1>3. PICK b \in BmcState :
          mapOfBmc' = [mapOfBmc EXCEPT ![i] = b] \/ mapOfBmc' = mapOfBmc
  <2>1. CASE AccMark(p)
    <3> DEFINE b == [mapOfBmc[i] EXCEPT !.present = TRUE, !.IsObjCreated = TRUE]
    <3> HIDE DEF b
    <3>1. mapOfBmc[i] \in BmcState
      BY <1>2 DEF InventoryInv, InventoryTypeOK
    <3>2. b \in BmcState
      BY <3>1, EntryMarked DEF b
    <3>3. mapOfBmc' = [mapOfBmc EXCEPT ![i] = b]
      BY <2>1 DEF AccMark, b
    <3> QED BY <3>2, <3>3
  <2>2. NoEntry \in BmcState
    BY DEF NoEntry, BmcState
  <2>3. CASE ~AccMark(p)
    BY <2>2, <2>3
       DEF AccNothing, AccFound, AccUndergoingReset, AccCompare, AccCompareFails,
           AccNotFound, AccGet, inventoryVars
  <2> QED BY <2>1, <2>3
<1>4. InventoryInv'
  BY <1>1, <1>2, <1>3, EntryKeepsInventory
<1>5. Return(p) \/ \E pc \in AccPcs : Goto(p, pc)
  BY DEF AccNothing, AccFound, AccUndergoingReset, AccCompare, AccCompareFails, AccMark,
         AccNotFound, AccGet, AccPcs
<1>6. /\ acc' \in [AccProcs -> AccCall]
      /\ \A q \in AccProcs : q # p => acc'[q] = acc[q]
      /\ acc'[p].pc # "idle" => acc'[p].id = i
  BY <1>5, CallMoves
<1>7. acc'[p].pc = "create" => i \in registered
  <2>1. CASE AccGet(p)
    BY <2>1 DEF AccGet, Return, Goto, NoCall, TypeOK
  <2>2. CASE ~AccGet(p)
    BY <2>2, <1>2
       DEF AccNothing, AccFound, AccUndergoingReset, AccCompare, AccCompareFails, AccMark,
           AccNotFound, Return, Goto, NoCall, TypeOK, AccCall
  <2> QED BY <2>1, <2>2
<1>8. CallInv'
  BY <1>1, <1>2, <1>6, <1>7 DEF CallInv, InventoryInv, OdimInv, odimVars, Done
<1> QED
  BY <1>1, <1>4, <1>6, <1>8, AddedUnchanged DEF TypeOK, InventoryInv, tickVars, kubeVars

\* Client.Delete and Client.Create.
LEMMA ObjectCallKeepsInv ==
    ASSUME Inv, NEW p \in AccProcs, AccDelete(p) \/ AccCreate(p) PROVE Inv'
<1> DEFINE i == acc[p].id  h == HostOf[acc[p].id]
<1> USE InventoryAssumption DEF Inv
<1>1. i \in used /\ used \subseteq Ids /\ h \in Hosts /\ acc[p] \in AccCall
  BY DEF AccDelete, AccCreate, CallInv, InventoryInv, InventoryTypeOK, TypeOK
<1>2. UNCHANGED <<odimVars, recVars, tickVars, budget, todo>> /\ Return(p)
  BY DEF AccDelete, AccCreate
<1>3. /\ obj' \in [Hosts -> Bmc \cup {NoObject}]
      /\ fresh' \in [Procs -> SUBSET Hosts]
      /\ KubeInv' /\ RecInv' /\ AddedObjectsAreComplete'
  <2>1. CASE AccDelete(p)
    BY <1>1, <1>2, <2>1, DeleteKeeps, AddedDelete DEF AccDelete
  <2>2. CASE AccCreate(p) /\ ~Exists(h)
    <3> DEFINE o == [NewBmc EXCEPT !.systemId = i]
    <3>1. i \in Done /\ i \in IdsOf(h)
      BY <1>1, <2>2 DEF AccCreate, CallInv, IdsOf
    <3>2. o \in Bmc /\ Good(h, o) /\ o.password = "plain"
      BY <1>1, <3>1 DEF NewBmc, Bmc, Good
    <3>3. ~(recPc \in {"unregister", "finalize"} /\ h = recHost)
      BY <2>2 DEF InventoryInv, RecInv
    <3>4. Put(h, o)
      BY <2>2 DEF AccCreate, createBmcObject
    <3>5. AddedObjectsAreComplete'
      BY <1>1, <3>2, <3>4, AddedChanged DEF Put
    <3> QED BY <1>1, <1>2, <3>2, <3>3, <3>4, <3>5, PutKeeps
  <2>3. CASE AccCreate(p) /\ Exists(h)
    BY <1>2, <2>3, KubeUnchanged, RecUnchanged, AddedUnchanged
       DEF AccCreate, InventoryInv, InventoryTypeOK, OdimInv, odimVars, kubeVars, Done
  <2> QED BY <2>1, <2>2, <2>3
<1>4. mapOfBmc' \in [Ids -> BmcState] /\ Tracked' \subseteq used
  <2>1. NoEntry \in BmcState /\ ObjCreated \in BmcState
    BY DEF NoEntry, ObjCreated, BmcState
  <2>2. PICK b \in BmcState :
            mapOfBmc' = [mapOfBmc EXCEPT ![i] = b] \/ mapOfBmc' = mapOfBmc
    BY <2>1 DEF AccDelete, AccCreate
  <2> QED BY <1>1, <2>2 DEF InventoryInv, InventoryTypeOK, OdimInv, Tracked
<1>5. InventoryTypeOK' /\ OdimInv'
  BY <1>2, <1>3, <1>4
     DEF InventoryInv, InventoryTypeOK, OdimInv, Done, odimVars, recVars, tickVars
<1>6. acc' \in [AccProcs -> AccCall] /\ CallInv'
  <2>1. acc'[p].pc = "idle"
    BY <1>2 DEF Return, NoCall, TypeOK
  <2> QED BY <1>2, <2>1, CallMoves DEF CallInv, odimVars, Done
<1> QED
  BY <1>2, <1>3, <1>5, <1>6 DEF TypeOK, InventoryInv, tickVars

\* An event starts a call for a system that was handed out an ID.
LEMMA EventKeepsInv ==
    ASSUME Inv, NEW p \in Handlers, NEW i \in Ids,
           ResourceAdded(p, i) \/ ResourceRemoved(p, i)
    PROVE Inv'
<1> USE DEF Inv
<1>1. /\ UNCHANGED <<odimVars, kubeVars, mapOfBmc, recVars, tickVars, todo>>
      /\ budget' \in Nat /\ i \in used
  BY DEF ResourceAdded, ResourceRemoved, EventArrives, Disturb, InventoryInv,
         InventoryTypeOK
<1>2. PICK b \in BmcState :
          acc' = [acc EXCEPT ![p] = [pc |-> "read", id |-> i, bs |-> b]]
  BY DEF ResourceAdded, ResourceRemoved, EventArrives, NoEntry, BmcState
<1>3. InventoryInv'
  BY <1>1, MemoryKeeps DEF InventoryInv, InventoryTypeOK, OdimInv, Tracked, tickVars
<1>4. acc' \in [AccProcs -> AccCall] /\ CallInv'
  BY <1>1, <1>2 DEF TypeOK, AccCall, AccPcs, CallInv, odimVars, Done
<1> QED BY <1>1, <1>3, <1>4, AddedUnchanged DEF TypeOK, InventoryInv, tickVars, kubeVars

\* Every step keeps Inv.
LEMMA NextInv == Inv /\ [Next]_vars => Inv'
<1> SUFFICES ASSUME Inv, [Next]_vars PROVE Inv'
  OBVIOUS
<1>1. CASE Next
  BY <1>1, OthersKeepInv, EndKeepsInv, PollKeepsInv, QuietCallKeepsInv, ObjectCallKeepsInv,
     EventKeepsInv
     DEF Next, ReconcileStep, AccStep, AccPanic
<1>2. CASE UNCHANGED vars
  BY <1>2 DEF vars, inventoryVars, odimVars, kubeVars, recVars, tickVars, accVars, Inv,
     TypeOK, InventoryInv, InventoryTypeOK, OdimInv, Tracked, Done, KubeInv, Good, RecInv,
     CallInv, AddedObjectsAreComplete, Exists, IdsOf
<1> QED BY <1>1, <1>2

-----------------------------------------------------------------------------
(* The theorems.                                                           *)

\* Inv holds in every state.
LEMMA InvHolds == Spec => []Inv
<1>1. Init => Inv
  BY InitInv
<1>2. Inv /\ [Next]_vars => Inv'
  BY NextInv
<1> QED BY <1>1, <1>2, PTL DEF Spec

\* Every variable of the reconciler, the poll, the event handler and the three
\* inventories stays in its set.
THEOREM TypeCorrect == Spec => []TypeOK
<1>1. Inv => TypeOK
  BY DEF Inv
<1> QED BY <1>1, InvHolds, PTL

\* The reconciler's encrypted password marks only objects that are complete.
THEOREM AddedComplete == Spec => []AddedObjectsAreComplete
<1>1. Inv => AddedObjectsAreComplete
  BY DEF Inv
<1> QED BY <1>1, InvHolds, PTL

\* No process ever writes the ID of another machine's system to an object.
THEOREM NamesAreRight == Spec => []ObjectsNameTheirMachine
<1>1. Inv => ObjectsNameTheirMachine
  <2> SUFFICES ASSUME Inv, NEW h \in Hosts, obj[h] # NoObject
               PROVE  {obj[h].systemId, obj[h].BmcSystemID} \subseteq IdsOf(h) \cup {None}
    BY DEF ObjectsNameTheirMachine
  <2>1. Good(h, obj[h])
    BY DEF Inv, InventoryInv, KubeInv
  <2> QED BY <2>1 DEF Good
<1> QED BY <1>1, InvHolds, PTL

\* The reconciler unregisters a system only for an object that names it and is being
\* deleted.
THEOREM UnregistersOnlyDeleted == Spec => UnregisterOnlyDeleted
<1> DEFINE A == \A i \in registered \ registered' : recPc' # recPc =>
                    /\ obj[HostOf[i]] # NoObject
                    /\ obj[HostOf[i]].deleting
                    /\ obj[HostOf[i]].BmcSystemID = i
<1>1. Inv /\ [Next]_vars => [A]_inventoryVars
  <2> SUFFICES ASSUME Inv, Next, NEW i \in registered \ registered', recPc' # recPc
               PROVE  /\ obj[HostOf[i]] # NoObject
                      /\ obj[HostOf[i]].deleting
                      /\ obj[HostOf[i]].BmcSystemID = i
    BY DEF vars, inventoryVars, odimVars, recVars
  <2>1. RecUnregister \/ RecUnregisterFails
    BY DEF Next, ReconcileStep, RecStep, RecFault, EnvNext, PollStep, AccStep,
           RecStart, RecPost, RecPostRefused, RecTaskDone, RecFail, RecDetails, RecStore,
           RecWriteStatus, RecTrack, RecFinal, RecUnregisterNothing, RecFinalize,
           RecKeysMissing, RecAddFails, UserCreate, UserDelete, UserTouch, OdimAdd,
           OdimFinish, OdimRemove, InventoryCrash, RecPanic, ForgetInventory, PollGet,
           PollMark, PollEntry, PollDone, ResourceAdded, ResourceRemoved,
           EventArrives, AccNothing, AccFound, AccUndergoingReset, AccCompare,
           AccCompareFails, AccPanic, AccMark, AccNotFound,
           AccDelete, AccGet, AccCreate, inventoryVars, odimVars, recVars
  <2>2. recPc = "unregister" /\ i = recStatus
    BY <2>1 DEF RecUnregister, RecUnregisterFails
  <2>3. /\ obj[recHost] # NoObject /\ obj[recHost].deleting
        /\ obj[recHost].BmcSystemID = i /\ Good(recHost, obj[recHost])
    BY <2>2 DEF Inv, InventoryInv, RecInv, KubeInv
  <2>4. HostOf[i] = recHost
    BY <2>2, <2>3, InventoryAssumption DEF Good, Inv, InventoryInv, InventoryTypeOK
  <2> QED BY <2>3, <2>4
<1>2. Spec => [][A]_inventoryVars
  BY <1>1, InvHolds, PTL DEF Spec
<1> QED BY <1>2 DEF UnregisterOnlyDeleted

\* Every step of the calls is a step of the life of an object, or none.
LEMMA CallLifecycle ==
    ASSUME Inv, NEW p \in AccProcs,
           AccStep(p) \/ AccUndergoingReset(p) \/ AccCompareFails(p)
    PROVE  LifecycleStep
<1>1. CASE AccDelete(p)
  <2>1. HostOf[acc[p].id] \in Hosts
    BY <1>1, InventoryAssumption
       DEF AccDelete, Inv, CallInv, InventoryInv, InventoryTypeOK
  <2> QED BY <1>1, <2>1, DeleteStep DEF AccDelete, Inv, odimVars
<1>2. CASE AccCreate(p)
  <2> DEFINE i == acc[p].id  h == HostOf[i]  o == [NewBmc EXCEPT !.systemId = i]
  <2>1. i \in Ids /\ h \in Hosts
    BY <1>2, InventoryAssumption
       DEF AccCreate, Inv, CallInv, InventoryInv, InventoryTypeOK
  <2>2. CASE Exists(h)
    BY <1>2, <2>2, Stutter DEF AccCreate, kubeVars, odimVars
  <2>3. CASE ~Exists(h)
    <3>1. o \in Bmc /\ ~o.deleting /\ o.password = "plain" /\ o.BmcSystemID = None
      BY <2>1 DEF NewBmc, Bmc
    <3>2. o # NoObject
      BY <3>1, InventoryAssumption
    <3>3. obj' = [obj EXCEPT ![h] = o] /\ UNCHANGED registered
      BY <1>2, <2>3 DEF AccCreate, createBmcObject, Put, odimVars
    <3> QED BY <2>1, <2>3, <3>1, <3>2, <3>3, CreateStep DEF Inv
  <2> QED BY <2>2, <2>3
<1>3. CASE ~AccDelete(p) /\ ~AccCreate(p)
  BY <1>3, Stutter
     DEF AccStep, AccNothing, AccFound, AccUndergoingReset, AccCompare, AccCompareFails,
         AccPanic, ForgetInventory, AccMark, AccNotFound, AccGet, inventoryVars, kubeVars,
         odimVars
<1> QED BY <1>1, <1>2, <1>3

\* Whatever the reconciler, the poll, the events, users and ODIM do together, each
\* object lives the life that BmcLifecycle describes.
THEOREM Implements == Spec => ImplementsLifecycle
<1>1. Init => Lifecycle!Init
  BY InitLifecycle DEF Init
<1>2. Inv /\ [Next]_vars => [Lifecycle!Next]_(Lifecycle!vars)
  <2> SUFFICES ASSUME Inv, [Next]_vars PROVE LifecycleStep
    BY DEF LifecycleStep
  <2>1. CASE RecStep \/ RecFault \/ EnvNext
    BY <2>1, RecLifecycle, EnvLifecycle DEF Inv
  <2>2. CASE \E p \in AccProcs : AccStep(p) \/ AccUndergoingReset(p) \/ AccCompareFails(p)
    BY <2>2, CallLifecycle
  <2>3. CASE UNCHANGED <<obj, registered>>
    BY <2>3, Stutter
  <2> QED
    BY <2>1, <2>2, <2>3
       DEF Next, ReconcileStep, PollStep, PollGet, PollMark, PollEntry, PollDone,
           ResourceAdded, ResourceRemoved, EventArrives, InventoryCrash, RecPanic,
           ForgetInventory, vars, inventoryVars, kubeVars, odimVars
<1> QED BY <1>1, <1>2, InvHolds, PTL DEF Spec, ImplementsLifecycle, Lifecycle!Spec

-----------------------------------------------------------------------------
(* BmcRevert: what a process knows lasts while others make steps.          *)

\* A call that makes no step keeps what it knows: its copy can only get outdated, IDs
\* are only handed out and done, and a system that ODIM has lost does not come back.
LEMMA CallLasts ==
    ASSUME InventoryInv, NEW p \in RevProcs, CallOK(p, call[p]), call'[p] = call[p],
           fresh'[p] \subseteq fresh[p], \A h \in fresh'[p] : obj'[h] = obj[h],
           used \subseteq used', Done \subseteq Done', registered' \subseteq registered \cup adding
    PROVE  CallOK(p, call[p])'
<1> DEFINE c == call[p]
<1>1. c.pc \in Adding /\ c.host \in fresh[p] =>
          obj[c.host].BmcSystemID \in Done \cup {None}
  BY DEF CallOK, InventoryInv, KubeInv, Good, Procs
<1>2. Done \cap adding = {} /\ None \notin registered \cup adding
  BY InventoryAssumption DEF Done, InventoryInv, InventoryTypeOK
<1> QED BY <1>1, <1>2 DEF CallOK, Adding

\* What the poll knows of the copies still to come lasts as long as it takes none up
\* for an addition.
LEMMA PollLasts ==
    ASSUME PollInv, UNCHANGED lst, left' \subseteq left,
           fresh'["poll"] \subseteq fresh["poll"], \A h \in left' \cap fresh'["poll"] : obj'[h] = obj[h],
           call'["poll"].pc # "idle" => pollPc' \in {"visit", "sweep"},
           left' # {} => pollPc' = "visit",
           call'["poll"].pc \in Adding => call'["poll"].host \notin left'
    PROVE  PollInv'
BY DEF PollInv

\* The initial state satisfies RevInv.
LEMMA RevInitInv == RevInit => RevInv
<1> SUFFICES ASSUME RevInit PROVE RevInv
  OBVIOUS
<1>1. InventoryInv
  BY InitEstablishesInv DEF RevInit
<1>2. RevTypeOK
  BY <1>1 DEF RevInit, InventoryInit, InventoryInv, RevTypeOK, Call, CallPcs, NoRevCall, NoLocals
<1>3. RevCallInv /\ PollInv
  BY DEF RevInit, RevCallInv, CallOK, PollInv, NoRevCall, NoLocals, Adding
<1> QED BY <1>1, <1>2, <1>3 DEF RevInv

-----------------------------------------------------------------------------
(* The steps that are not of the poll, of a call or of an event.           *)

\* The reconciler, the users, ODIM and the faults.
LEMMA RevOthersKeepInv ==
    ASSUME RevInv, RecStep \/ RecFault \/ EnvNext, UNCHANGED revVars PROVE RevInv'
<1> USE DEF RevInv
<1>1. InventoryInv'
  BY RecStepKeeps, EnvKeeps
<1>2. \A p \in RevProcs :
          /\ fresh'[p] \subseteq fresh[p]
          /\ \A h \in fresh'[p] : obj'[h] = obj[h]
          /\ registered' \subseteq registered \cup adding
          /\ UNCHANGED tickVars
  BY CopiesLast, InventoryAssumption DEF Procs
<1>3. RevTypeOK'
  BY <1>1, <1>2 DEF InventoryInv, RevTypeOK, revVars, localVars, tickVars
<1>4. RevCallInv'
  BY <1>2, IdsGrow, CallLasts DEF RevCallInv, revVars
<1>5. PollInv'
  BY <1>2, PollLasts DEF PollInv, revVars, localVars, tickVars
<1> QED BY <1>1, <1>3, <1>4, <1>5

\* The end of the process, by a crash or by a panic of the reconciler or the poll.
LEMMA RevEndKeepsInv ==
    ASSUME RevInv, ForgetInventory, budget' \in Nat, RevForgetCalls PROVE RevInv'
<1>1. InventoryInv'
  BY ForgetKeeps DEF RevInv
<1>2. RevTypeOK'
  BY <1>1 DEF InventoryInv, RevTypeOK, ForgetInventory, RevForgetCalls, Call, CallPcs, NoRevCall
<1>3. RevCallInv' /\ PollInv'
  BY DEF RevForgetCalls, RevCallInv, CallOK, PollInv, NoRevCall, Adding
<1> QED BY <1>1, <1>2, <1>3 DEF RevInv

-----------------------------------------------------------------------------
(* The calls.                                                              *)

\* A step of the call of p leaves what the other calls know, and what the poll knows of
\* the copies to come.
LEMMA CallKeepsInv ==
    ASSUME RevInv, InventoryInv', NEW p \in RevProcs, NEW c \in Call,
           call' = [call EXCEPT ![p] = c], CallOK(p, c)',
           UNCHANGED <<lst, left, marked, sweep, pollPc>>, inMap' \subseteq Ids \cup {None},
           \A q \in RevProcs \ {p} :
               fresh'[q] \subseteq fresh[q] /\ \A h \in fresh'[q] : obj'[h] = obj[h],
           p = "poll" =>
               /\ call[p].pc # "idle"
               /\ c.pc \in Adding => call[p].pc \in Adding /\ c.host = call[p].host
               /\ fresh'[p] \subseteq fresh[p]
               /\ \A h \in left : obj'[h] = obj[h],
           used \subseteq used', Done \subseteq Done', registered' \subseteq registered \cup adding
    PROVE  RevInv'
<1> USE DEF RevInv
<1>1. /\ call \in [RevProcs -> Call] /\ call'[p] = c
      /\ \A q \in RevProcs \ {p} : call'[q] = call[q]
  BY DEF RevTypeOK
<1>2. RevTypeOK'
  BY <1>1 DEF RevTypeOK, InventoryInv
<1>3. ASSUME NEW q \in RevProcs \ {p} PROVE CallOK(q, call[q])'
  BY <1>1, <1>3, CallLasts DEF RevCallInv
<1>4. RevCallInv'
  BY <1>1, <1>3 DEF RevCallInv
<1>5. PollInv'
  <2>1. CASE p = "poll"
    BY <1>1, <2>1, PollLasts DEF PollInv
  <2>2. CASE p # "poll"
    BY <1>1, <2>2, PollLasts DEF PollInv
  <2> QED BY <2>1, <2>2
<1> QED BY <1>2, <1>4, <1>5

\* The steps of a call that change nothing but the place of the call.
LEMMA RevQuietCallKeepsInv ==
    ASSUME RevInv, NEW p \in RevProcs,
           \/ RevPostRefused(p) \/ RevAddFails(p) \/ RevTaskDone(p) \/ RevDeleteFails(p)
           \/ p \in Handlers /\ (EventRemovedNoObject(p) \/ EventAdded(p) \/ EventAddedUnknown(p))
    PROVE  RevInv'
<1> USE DEF RevInv
<1>1. /\ UNCHANGED <<odimVars, kubeVars, mapOfBmc, recVars, tickVars, localVars>>
      /\ budget' \in Nat /\ call[p].pc # "idle"
  BY DEF RevPostRefused, RevAddFails, RevTaskDone, RevDeleteFails, EventRemovedNoObject,
         EventAdded, EventAddedUnknown, Disturb, inventoryVars, InventoryInv, InventoryTypeOK
<1>2. InventoryInv'
  BY <1>1, MemoryKeeps DEF InventoryInv, InventoryTypeOK, OdimInv, Tracked, tickVars
<1>3. call[p] \in Call /\ CallOK(p, call[p])
  BY DEF RevTypeOK, RevCallInv
<1>4. PICK c \in Call : /\ call' = [call EXCEPT ![p] = c]
                        /\ \/ c = NoRevCall
                           \/ /\ RevTaskDone(p) /\ c = [call[p] EXCEPT !.pc = "label"]
                           \/ /\ call[p].pc = "added" /\ p \in Handlers
                              /\ c = [call[p] EXCEPT !.pc = "delete"]
  <2>1. NoRevCall \in Call
    BY DEF NoRevCall, Call, CallPcs
  <2>2. \A pc \in CallPcs : [call[p] EXCEPT !.pc = pc] \in Call
    BY <1>3 DEF Call
  <2>3. RevReturn(p) \/ (RevTaskDone(p) /\ RevGoto(p, "label"))
        \/ (call[p].pc = "added" /\ p \in Handlers /\ RevGoto(p, "delete"))
    BY DEF RevPostRefused, RevAddFails, RevTaskDone, RevDeleteFails, EventRemovedNoObject,
           EventAdded, EventAddedUnknown
  <2> QED BY <2>1, <2>2, <2>3 DEF RevReturn, RevGoto, CallPcs
<1>5. CallOK(p, c)'
  BY <1>1, <1>3, <1>4
     DEF CallOK, NoRevCall, Call, Adding, RevTaskDone, Done, odimVars, kubeVars
<1>6. p = "poll" /\ c.pc \in Adding => call[p].pc \in Adding /\ c.host = call[p].host
  BY <1>3, <1>4, InventoryAssumption DEF NoRevCall, Call, Adding, RevTaskDone
<1>7. inMap' \subseteq Ids \cup {None}
  BY <1>1 DEF RevTypeOK, localVars
<1> QED
  BY <1>1, <1>2, <1>4, <1>5, <1>6, <1>7, CallKeepsInv
     DEF odimVars, kubeVars, tickVars, localVars, Done

\* ODIM accepts the machine of a call, and then has no other system of it.
LEMMA RevPostKeepsInv ==
    ASSUME RevInv, NEW p \in RevProcs, NEW i \in Ids, RevPost(p, i) PROVE RevInv'
<1> USE DEF RevInv
<1>1. call[p] \in Call /\ CallOK(p, call[p]) /\ call[p].pc = "post"
  BY DEF RevTypeOK, RevCallInv, RevPost
<1>2. PICK c \in Call : /\ call' = [call EXCEPT ![p] = c]
                        /\ c.pc = "task" /\ c.id = i /\ c.host = call[p].host
  <2> DEFINE d == [call[p] EXCEPT !.pc = "task", !.id = i]
  <2>1. d \in Call /\ d.pc = "task" /\ d.id = i /\ d.host = call[p].host
    BY <1>1 DEF Call, CallPcs
  <2>2. call' = [call EXCEPT ![p] = d]
    BY DEF RevPost
  <2> HIDE DEF d
  <2> QED BY <2>1, <2>2
<1>3. /\ HostOf[i] = c.host /\ c.host \in Hosts /\ CanAdd(i) /\ Accept(i)
      /\ UNCHANGED <<registered, obj, fresh, mapOfBmc, recVars, pollPc, snap, budget, lst,
                     left, inMap, marked, sweep>>
  BY <1>2, InventoryAssumption DEF RevPost, kubeVars, tickVars, localVars
<1>4. /\ Done' = Done /\ used \subseteq used' /\ i \in used'
      /\ adding' \subseteq used' /\ registered' \subseteq Done'
      /\ adding' \subseteq Ids /\ used' \subseteq Ids
      /\ \A j, k \in registered' \cup adding' : HostOf[j] = HostOf[k] => j = k
  BY <1>3, AcceptKeeps
<1>5. InventoryInv'
  <2> USE <1>3, <1>4 DEF InventoryInv, kubeVars, recVars
  <2>1. InventoryTypeOK' /\ OdimInv'
    BY DEF InventoryTypeOK, OdimInv, Tracked
  <2>2. KubeInv' /\ RecInv'
    BY KubeUnchanged, RecUnchanged DEF OdimInv, Done
  <2> QED BY <2>1, <2>2
<1>6. ASSUME c.host \in fresh[p] PROVE obj[c.host].BmcSystemID \notin registered
  <2>1. /\ Good(c.host, obj[c.host]) /\ obj[c.host].password = "encrypted"
    BY <1>1, <1>2, <1>3, <1>6 DEF CallOK, Adding, InventoryInv, KubeInv, Procs
  <2>2. obj[c.host].BmcSystemID \in Ids /\ HostOf[obj[c.host].BmcSystemID] = HostOf[i]
    BY <1>3, <2>1 DEF Good
  <2> QED BY <1>3, <2>2 DEF CanAdd, Known
<1>7. CallOK(p, c)'
  BY <1>1, <1>2, <1>3, <1>4, <1>6 DEF CallOK, Adding
<1>8. inMap' \subseteq Ids \cup {None}
  BY <1>3 DEF RevTypeOK
<1> QED
  BY <1>1, <1>2, <1>3, <1>4, <1>5, <1>7, <1>8, CallKeepsInv DEF Adding

\* The object of a call's copy, as long as the copy is the stored object.
LEMMA CallCopyGood ==
    ASSUME RevInv, NEW p \in RevProcs, call[p].pc \in Adding, call[p].host \in fresh[p]
    PROVE  /\ obj[call[p].host] \in Bmc /\ Good(call[p].host, obj[call[p].host])
           /\ ~obj[call[p].host].deleting /\ obj[call[p].host].password = "encrypted"
BY DEF RevInv, InventoryInv, InventoryTypeOK, KubeInv, RevCallInv, CallOK, Procs

\* The new ID in the label.
LEMMA RevLabelKeepsInv ==
    ASSUME RevInv, NEW p \in RevProcs, RevLabel(p) PROVE RevInv'
<1> USE DEF RevInv
<1> DEFINE h == call[p].host
           o == [obj[h] EXCEPT !.systemId = call[p].id]
<1>1. /\ call[p] \in Call /\ CallOK(p, call[p]) /\ call[p].pc = "label"
      /\ p \in Procs \ {"rec"} /\ fresh \in [Procs -> SUBSET Hosts]
      /\ h \in Hosts /\ call[p].id \in IdsOf(h) \cap Done
  BY InventoryAssumption
     DEF RevTypeOK, InventoryInv, InventoryTypeOK, RevCallInv, CallOK, Adding, RevLabel, Procs
<1>2. h \in fresh[p] =>
          /\ o \in Bmc /\ Good(h, o) /\ ~obj[h].deleting /\ obj[h].password = "encrypted"
          /\ ~o.deleting /\ o.password = "encrypted" /\ o.BmcSystemID = obj[h].BmcSystemID
  BY <1>1, CallCopyGood, InventoryAssumption DEF Adding, Bmc, Good
<1>3. /\ UpdateIfFresh(p, h, o)
      /\ UNCHANGED <<odimVars, mapOfBmc, recVars, tickVars, budget, localVars>>
  BY DEF RevLabel
<1>4. PICK c \in Call : /\ call' = [call EXCEPT ![p] = c]
                        /\ c.pc = "status" /\ c.id = call[p].id /\ c.host = h
  <2> DEFINE d == [call[p] EXCEPT !.pc = "status"]
  <2>1. d \in Call /\ d.pc = "status" /\ d.id = call[p].id /\ d.host = h
    BY <1>1 DEF Call, CallPcs
  <2>2. call' = [call EXCEPT ![p] = d]
    BY DEF RevLabel, RevGoto
  <2> HIDE DEF d
  <2> QED BY <2>1, <2>2
<1>5. /\ fresh'[p] = fresh[p] /\ (h \in fresh[p] => obj'[h] = o)
      /\ \A g \in Hosts \ {h} : obj'[g] = obj[g]
      /\ \A q \in Procs \ {p} :
             fresh'[q] \subseteq fresh[q] /\ \A g \in fresh'[q] : obj'[g] = obj[g]
  BY <1>1, <1>3, UpdateOutdates
<1>6. InventoryInv'
  BY <1>1, <1>2, <1>3, UpdateKeeps DEF OdimInv, InventoryInv, tickVars
<1>7. CallOK(p, c)'
  BY <1>1, <1>2, <1>3, <1>4, <1>5 DEF CallOK, Adding, Done, odimVars
<1>8. p = "poll" => h \notin left /\ left \subseteq Hosts
  BY <1>1 DEF PollInv, Adding, RevTypeOK
<1>9. inMap' \subseteq Ids \cup {None}
  BY <1>3 DEF RevTypeOK, localVars
<1> HIDE DEF o
<1> QED
  BY <1>1, <1>3, <1>4, <1>5, <1>6, <1>7, <1>8, <1>9, CallKeepsInv
     DEF Adding, Procs, odimVars, tickVars, localVars, Done

\* The new ID in the status; the poll also notes it.
LEMMA RevStatusKeepsInv ==
    ASSUME RevInv, NEW p \in RevProcs, RevStatus(p) PROVE RevInv'
<1> USE DEF RevInv
<1> DEFINE h == call[p].host
           o == [obj[h] EXCEPT !.BmcSystemID = call[p].id]
<1>1. /\ call[p] \in Call /\ CallOK(p, call[p]) /\ call[p].pc = "status"
      /\ p \in Procs \ {"rec"} /\ fresh \in [Procs -> SUBSET Hosts]
      /\ h \in Hosts /\ call[p].id \in IdsOf(h) \cap Done
  BY InventoryAssumption
     DEF RevTypeOK, InventoryInv, InventoryTypeOK, RevCallInv, CallOK, Adding, RevStatus, Procs
<1>2. h \in fresh[p] => o \in Bmc /\ Good(h, o) /\ ~obj[h].deleting
  BY <1>1, CallCopyGood, InventoryAssumption DEF Adding, Bmc, Good
<1>3. /\ UpdateIfFresh(p, h, o)
      /\ UNCHANGED <<odimVars, mapOfBmc, recVars, pollPc, budget, lst, left, marked, sweep>>
      /\ snap' \subseteq snap \cup {call[p].id} /\ inMap' \subseteq inMap \cup {call[p].id}
      /\ call' = [call EXCEPT ![p] = NoRevCall]
  BY DEF RevStatus, RevReturn
<1>4. /\ fresh'[p] = fresh[p]
      /\ \A g \in Hosts \ {h} : obj'[g] = obj[g]
      /\ \A q \in Procs \ {p} :
             fresh'[q] \subseteq fresh[q] /\ \A g \in fresh'[q] : obj'[g] = obj[g]
  BY <1>1, <1>3, UpdateOutdates
<1>5. InventoryInv'
  BY <1>1, <1>2, <1>3, UpdateKeeps DEF OdimInv, InventoryInv, Done
<1>6. NoRevCall \in Call /\ NoRevCall.pc = "idle" /\ CallOK(p, NoRevCall)'
  BY DEF CallOK, NoRevCall, Call, CallPcs, Adding
<1>7. p = "poll" => h \notin left /\ left \subseteq Hosts
  BY <1>1 DEF PollInv, Adding, RevTypeOK
<1>8. inMap' \subseteq Ids \cup {None}
  BY <1>1, <1>3 DEF RevTypeOK
<1> HIDE DEF o
<1> QED
  BY <1>1, <1>3, <1>4, <1>5, <1>6, <1>7, <1>8, CallKeepsInv
     DEF Adding, Procs, odimVars, Done

\* A system leaves ODIM.
LEMMA RevDeleteKeepsInv ==
    ASSUME RevInv, NEW p \in RevProcs, RevDelete(p) PROVE RevInv'
<1> USE DEF RevInv
<1>1. /\ call[p].pc = "delete" /\ call' = [call EXCEPT ![p] = NoRevCall]
      /\ registered' = registered \ {call[p].id}
      /\ UNCHANGED <<adding, used, kubeVars, mapOfBmc, recVars, tickVars, budget, localVars>>
  BY DEF RevDelete, RevReturn
<1>2. InventoryInv'
  BY <1>1, RemoveKeeps DEF tickVars
<1>3. NoRevCall \in Call /\ NoRevCall.pc = "idle" /\ CallOK(p, NoRevCall)'
  BY DEF CallOK, NoRevCall, Call, CallPcs, Adding
<1>4. inMap' \subseteq Ids \cup {None}
  BY <1>1 DEF RevTypeOK, localVars
<1> QED
  BY <1>1, <1>2, <1>3, <1>4, CallKeepsInv
     DEF Adding, kubeVars, tickVars, localVars, Done

\* An event begins with the ID of a system that ODIM has, or had.
LEMMA EventArrivesKeepsInv ==
    ASSUME RevInv, NEW p \in Handlers, NEW i \in Ids, RevResourceAdded(p, i) \/ RevResourceRemoved(p, i)
    PROVE  RevInv'
<1> USE DEF RevInv
<1>1. PICK pc \in {"added", "removed"} :
          call' = [call EXCEPT ![p] = [pc |-> pc, host |-> None, id |-> i]]
  BY DEF RevResourceAdded, RevResourceRemoved, RevEventArrives
<1> DEFINE c == [pc |-> pc, host |-> None, id |-> i]
<1>2. /\ i \in used /\ budget' \in Nat
      /\ UNCHANGED <<odimVars, kubeVars, mapOfBmc, recVars, tickVars, localVars>>
  BY DEF RevResourceAdded, RevResourceRemoved, RevEventArrives, Disturb, InventoryInv, InventoryTypeOK
<1>3. InventoryInv'
  BY <1>2, MemoryKeeps DEF InventoryInv, InventoryTypeOK, OdimInv, Tracked, tickVars
<1>4. c \in Call /\ CallOK(p, c)'
  BY <1>2 DEF CallOK, Call, CallPcs, Adding, odimVars
<1>5. inMap' \subseteq Ids \cup {None}
  BY <1>2 DEF RevTypeOK, localVars
<1>6. p # "poll" /\ p \in RevProcs
  BY InventoryAssumption
<1> HIDE DEF c
<1> QED
  BY <1>1, <1>2, <1>3, <1>4, <1>5, <1>6, CallKeepsInv
     DEF c, odimVars, kubeVars, tickVars, localVars, Done

\* A handler of a removal reads the object of the system.
LEMMA EventRemovedKeepsInv ==
    ASSUME RevInv, NEW p \in Handlers, NEW h \in Hosts, EventRemoved(p, h) PROVE RevInv'
<1> USE DEF RevInv
<1>1. /\ obj[h] # NoObject /\ obj[h] \in Bmc /\ Good(h, obj[h])
      /\ p \in Procs \ {"rec"} /\ p \in RevProcs /\ p # "poll"
      /\ fresh \in [Procs -> SUBSET Hosts] /\ obj \in [Hosts -> Bmc \cup {NoObject}]
  BY InventoryAssumption
     DEF EventRemoved, ObjectOf, InventoryInv, InventoryTypeOK, KubeInv, Procs
<1>2. UNCHANGED <<odimVars, obj, mapOfBmc, recVars, tickVars, budget, localVars>>
  BY DEF EventRemoved
<1>3. inMap' \subseteq Ids \cup {None}
  BY <1>2 DEF RevTypeOK, localVars
<1>4. CASE UNCHANGED fresh /\ call' = [call EXCEPT ![p] = NoRevCall]
  <2>1. InventoryInv'
    BY <1>2, <1>4, MemoryKeeps
       DEF InventoryInv, InventoryTypeOK, OdimInv, Tracked, tickVars, kubeVars
  <2>2. NoRevCall \in Call /\ NoRevCall.pc = "idle" /\ CallOK(p, NoRevCall)'
    BY DEF CallOK, NoRevCall, Call, CallPcs, Adding
  <2> QED
    BY <1>1, <1>2, <1>3, <1>4, <2>1, <2>2, CallKeepsInv
       DEF odimVars, tickVars, localVars, Done
<1>5. CASE /\ ~obj[h].deleting /\ CanPost(h, obj[h])
           /\ call' = [call EXCEPT ![p] = [pc |-> "post", host |-> h, id |-> None]]
           /\ fresh' = [fresh EXCEPT ![p] = {h}]
  <2> DEFINE c == [pc |-> "post", host |-> h, id |-> None]
  <2>1. InventoryInv'
    <3>1. {h} \in SUBSET Hosts /\ (\A g \in {h} : Exists(g)) /\ snap' \subseteq used
      BY <1>1, <1>2 DEF OdimInv, InventoryInv, tickVars
    <3> QED BY <1>1, <1>2, <1>5, <3>1, ReadKeeps
  <2>2. c \in Call /\ CallOK(p, c)'
    BY <1>1, <1>2, <1>5 DEF CallOK, Call, CallPcs, Adding, CanPost
  <2>3. \A q \in RevProcs \ {p} : fresh'[q] = fresh[q] /\ \A g \in fresh'[q] : obj'[g] = obj[g]
    BY <1>1, <1>2, <1>5 DEF Procs
  <2>4. call' = [call EXCEPT ![p] = c]
    BY <1>5
  <2> HIDE DEF c
  <2> QED
    BY <1>1, <1>2, <1>3, <2>1, <2>2, <2>3, <2>4, CallKeepsInv
       DEF odimVars, tickVars, localVars, Done
<1> QED BY <1>4, <1>5 DEF EventRemoved, RevReturn

-----------------------------------------------------------------------------
(* The tick of the poll.                                                   *)

\* The steps that neither list the objects, nor begin or end an addition or a removal.
LEMMA RevPollKeepsInv ==
    ASSUME RevInv,
           \/ PollGet /\ UNCHANGED revVars
           \/ PollMerge \/ PollVisited
           \/ \E h \in Hosts : PollVisitResetting(h)
           \/ \E i \in Ids : PollSweepKeep(i) \/ PollSweepResetting(i)
    PROVE  RevInv'
<1> USE DEF RevInv, Sweeping, Disturb, inventoryVars, revVars, localVars, tickVars
<1>1. /\ UNCHANGED <<odimVars, kubeVars, recVars, call, lst, marked>> /\ left' \subseteq left
      /\ snap' \in {snap, registered} /\ mapOfBmc' \in {mapOfBmc, Merged}
      /\ budget' \in Nat
  BY DEF InventoryInv, InventoryTypeOK, PollGet, PollMerge, PollVisited, PollVisitResetting,
         PollSweepKeep, PollSweepResetting
<1>2. InventoryInv'
  <2>1. /\ mapOfBmc' \in [Ids -> BmcState]
        /\ \A i \in Ids : mapOfBmc'[i].present => i \in used
    BY <1>1, MergedKeeps DEF InventoryInv, InventoryTypeOK, OdimInv, Tracked
  <2>2. snap' \subseteq used
    BY <1>1 DEF InventoryInv, OdimInv, Done
  <2> QED BY <1>1, <2>1, <2>2, MemoryKeeps
<1>3. /\ pollPc' \in {"merge", "list", "sweep", "visit"}
      /\ inMap' \subseteq inMap /\ sweep' \subseteq sweep \cup snap
      /\ call["poll"].pc # "idle" => pollPc' \in {"visit", "sweep"}
      /\ left' # {} => pollPc' = "visit"
  BY DEF PollInv, PollGet, PollMerge, PollVisited, PollVisitResetting, PollSweepKeep,
         PollSweepResetting
<1>4. RevTypeOK'
  BY <1>1, <1>2, <1>3 DEF RevTypeOK, InventoryInv, InventoryTypeOK
<1>5. RevCallInv'
  BY <1>1, CallLasts DEF RevCallInv, odimVars, kubeVars, Done, InventoryInv, InventoryTypeOK, Procs
<1>6. PollInv'
  BY <1>1, <1>3, PollLasts DEF PollInv, kubeVars
<1> QED BY <1>2, <1>4, <1>5, <1>6

\* The objects are listed.
LEMMA PollListKeepsInv ==
    ASSUME RevInv, PollList PROVE RevInv'
<1> USE DEF RevInv, PollList
<1> DEFINE S == {h \in Hosts : Exists(h)}
<1>1. "poll" \in Procs \ {"rec"} /\ S \in SUBSET Hosts /\ (\A h \in S : Exists(h))
      /\ snap' \subseteq used /\ fresh' = [fresh EXCEPT !["poll"] = S]
      /\ fresh \in [Procs -> SUBSET Hosts]
  BY DEF Procs, InventoryInv, InventoryTypeOK, OdimInv
<1>2. InventoryInv'
  BY <1>1, ReadKeeps
<1>3. RevTypeOK'
  BY <1>2 DEF RevTypeOK, InventoryInv, InventoryTypeOK
<1>4. call["poll"].pc = "idle"
  BY DEF PollInv
<1>5. ASSUME NEW p \in RevProcs PROVE CallOK(p, call[p])'
  <2>1. CASE p = "poll"
    BY <1>4, <2>1 DEF CallOK, Adding
  <2>2. CASE p # "poll"
    BY <1>1, <2>2, CallLasts DEF RevCallInv, odimVars, Done, InventoryInv, InventoryTypeOK, Procs
  <2> QED BY <2>1, <2>2
<1>6. PollInv'
  BY <1>4 DEF PollInv, Adding
<1> QED BY <1>2, <1>3, <1>5, <1>6 DEF RevCallInv

\* The next copy.
LEMMA PollVisitKeepsInv ==
    ASSUME RevInv, NEW h \in Hosts, PollVisit(h) PROVE RevInv'
<1> USE DEF RevInv
<1> DEFINE o == lst[h]
           c == [pc |-> "post", host |-> h, id |-> None]
<1>1. /\ pollPc = "visit" /\ h \in left /\ left' = left \ {h}
      /\ inMap' = inMap \cup {o.BmcSystemID}
      /\ marked' = IF o.deleting THEN marked \cup {o.BmcSystemID} ELSE marked
      /\ UNCHANGED <<inventoryVars, lst, sweep>>
      /\ \/ /\ o.BmcSystemID \notin marked' \cup snap /\ CanPost(h, o)
            /\ call' = [call EXCEPT !["poll"] = c]
         \/ UNCHANGED call /\ call["poll"].pc = "idle"
  BY DEF PollVisit
<1>2. o \in Bmc /\ o.BmcSystemID \in Ids \cup {None} /\ o.deleting \in BOOLEAN
  BY <1>1 DEF PollInv, RevTypeOK, Bmc
<1> HIDE DEF o
<1>3. InventoryInv'
  BY <1>1, MemoryKeeps
     DEF InventoryInv, InventoryTypeOK, OdimInv, Tracked, inventoryVars, tickVars
<1>4. UNCHANGED <<registered, adding, used, obj, fresh, pollPc>>
  BY <1>1 DEF inventoryVars, odimVars, kubeVars, tickVars
<1>5. c \in Call /\ c.pc = "post" /\ c.host = h
  BY DEF Call, CallPcs
<1>6. o.BmcSystemID \notin marked' /\ CanPost(h, o) => CallOK("poll", c)'
  <2> SUFFICES ASSUME o.BmcSystemID \notin marked', CanPost(h, o) PROVE CallOK("poll", c)'
    OBVIOUS
  <2>1. ~o.deleting /\ o.password = "encrypted"
    BY <1>1 DEF CanPost
  <2>2. h \in fresh["poll"] => obj[h] = o
    BY <1>1 DEF PollInv, o
  <2> QED BY <1>4, <2>1, <2>2 DEF CallOK, Adding
<1> HIDE DEF c
<1>7. RevTypeOK'
  BY <1>1, <1>2, <1>3, <1>4, <1>5 DEF RevTypeOK, InventoryInv
<1>8. ASSUME NEW p \in RevProcs PROVE CallOK(p, call[p])'
  <2>1. CASE p = "poll" /\ call' = [call EXCEPT !["poll"] = c]
    BY <1>1, <1>5, <1>6, <2>1 DEF RevTypeOK, CallOK, Adding
  <2>2. CASE call'[p] = call[p]
    BY <1>4, <2>2, CallLasts DEF RevCallInv, Done, InventoryInv, InventoryTypeOK, Procs
  <2> QED BY <1>1, <2>1, <2>2 DEF RevTypeOK
<1>9. PollInv'
  BY <1>1, <1>4, <1>5 DEF PollInv, RevTypeOK, Adding
<1> QED BY <1>3, <1>7, <1>8, <1>9 DEF RevCallInv

\* The sweep begins to remove a system that an object names.
LEMMA PollSweepDeleteKeepsInv ==
    ASSUME RevInv, NEW i \in Ids, PollSweepDelete(i) PROVE RevInv'
<1> USE DEF RevInv
<1> DEFINE c == [pc |-> "delete", host |-> None, id |-> i]
<1>1. /\ pollPc = "sweep" /\ sweep' = sweep \ {i} /\ ObjectOf(i) # {}
      /\ call' = [call EXCEPT !["poll"] = c]
      /\ UNCHANGED <<inventoryVars, lst, left, inMap, marked>>
  BY DEF PollSweepDelete, Sweeping
<1>2. i \in used
  BY <1>1, InventoryAssumption DEF ObjectOf, InventoryInv, KubeInv, Good, Done
<1>3. InventoryInv'
  BY <1>1, MemoryKeeps
     DEF InventoryInv, InventoryTypeOK, OdimInv, Tracked, inventoryVars, tickVars
<1>4. UNCHANGED <<registered, adding, used, obj, fresh, pollPc>>
  BY <1>1 DEF inventoryVars, odimVars, kubeVars, tickVars
<1>5. c \in Call /\ c.pc = "delete" /\ CallOK("poll", c)'
  BY <1>2, <1>4 DEF Call, CallPcs, CallOK, Adding
<1> HIDE DEF c
<1>6. RevTypeOK'
  BY <1>1, <1>3, <1>4, <1>5 DEF RevTypeOK, InventoryInv
<1>7. ASSUME NEW p \in RevProcs PROVE CallOK(p, call[p])'
  <2>1. CASE p = "poll"
    BY <1>1, <1>5, <2>1 DEF RevTypeOK
  <2>2. CASE p # "poll"
    BY <1>1, <1>4, <2>2, CallLasts
       DEF RevTypeOK, RevCallInv, Done, InventoryInv, InventoryTypeOK, Procs
  <2> QED BY <2>1, <2>2
<1>8. PollInv'
  BY <1>1, <1>4, <1>5 DEF PollInv, RevTypeOK, Adding
<1> QED BY <1>3, <1>6, <1>7, <1>8 DEF RevCallInv

\* The end of a tick.
LEMMA PollSweptKeepsInv ==
    ASSUME RevInv, PollSwept PROVE RevInv'
<1> USE DEF RevInv, PollSwept
<1>1. left = {}
  BY DEF PollInv
<1>2. InventoryInv'
  <2>1. "poll" \in Procs \ {"rec"} /\ {} \in SUBSET Hosts /\ (\A h \in {} : Exists(h))
        /\ snap' \subseteq used
    BY DEF Procs
  <2> QED BY <2>1, ReadKeeps
<1>3. RevTypeOK'
  BY <1>2 DEF RevTypeOK, InventoryInv
<1>4. RevCallInv'
  BY CallLasts DEF RevCallInv, odimVars, Done, InventoryInv, InventoryTypeOK, Procs
<1>5. PollInv'
  BY DEF PollInv, Adding
<1> QED BY <1>2, <1>3, <1>4, <1>5

\* Whatever the processes do keeps RevInv.
LEMMA RevNextInv == RevInv /\ [RevNext]_revertVars => RevInv'
<1> SUFFICES ASSUME RevInv, [RevNext]_revertVars PROVE RevInv'
  OBVIOUS
<1>1. CASE ForgetInventory /\ RevForgetCalls /\ (UNCHANGED budget \/ Disturb("crash"))
  BY <1>1, RevEndKeepsInv DEF Disturb, RevInv, InventoryInv, InventoryTypeOK
<1>2. CASE RevPollStep
  BY <1>1, <1>2, RevPollKeepsInv, PollListKeepsInv, PollSweptKeepsInv, PollVisitKeepsInv,
     PollSweepDeleteKeepsInv, RevPostKeepsInv, RevQuietCallKeepsInv, RevLabelKeepsInv,
     RevStatusKeepsInv, RevDeleteKeepsInv
     DEF RevPollStep, PollPanic, CallStep
<1>3. ASSUME NEW p \in Handlers,
             \/ EventStep(p) \/ EventAddedUnknown(p)
             \/ \E i \in Ids : RevResourceAdded(p, i) \/ RevResourceRemoved(p, i)
      PROVE  RevInv'
  BY <1>3, RevPostKeepsInv, RevQuietCallKeepsInv, RevLabelKeepsInv, RevStatusKeepsInv,
     RevDeleteKeepsInv, EventArrivesKeepsInv, EventRemovedKeepsInv
     DEF EventStep, CallStep
<1>4. ASSUME NEW p \in RevProcs, RevAddFails(p) \/ RevDeleteFails(p) PROVE RevInv'
  BY <1>4, RevQuietCallKeepsInv
<1>5. CASE \/ \E h \in Hosts : PollVisitResetting(h)
           \/ \E i \in Ids : PollSweepResetting(i)
  BY <1>5, RevPollKeepsInv
<1>6. CASE (RecStep \/ RecFault \/ EnvNext) /\ UNCHANGED revVars
  BY <1>6, RevOthersKeepInv
<1>7. CASE UNCHANGED revertVars
  BY <1>7 DEF revertVars, inventoryVars, odimVars, kubeVars, recVars, tickVars, revVars, localVars,
     RevInv, RevTypeOK, InventoryInv, InventoryTypeOK, OdimInv, Tracked, Done, KubeInv, Good,
     RecInv, RevCallInv, CallOK, PollInv
<1> QED
  BY <1>1, <1>2, <1>3, <1>4, <1>5, <1>6, <1>7
     DEF RevNext, RevReconcileStep, RecPanic, InventoryCrash

-----------------------------------------------------------------------------
(* The theorems.                                                           *)

\* The inductive invariant of the reconciler, the poll and the events of Revert: their
\* types, ODIM's and Kubernetes' consistency, and what each of them knows at each step.
THEOREM RevInvHolds == RevSpec => []RevInv
<1>1. RevInit => RevInv
  BY RevInitInv
<1>2. RevInv /\ [RevNext]_revertVars => RevInv'
  BY RevNextInv
<1> QED BY <1>1, <1>2, PTL DEF RevSpec

\* However the poll's and the events' two updates of an object interleave with each
\* other and with the reconciler's, a managed object keeps its finalizer and its IDs.
THEOREM RevManagedComplete == RevSpec => []ManagedObjectsAreComplete
<1>1. RevInv => ManagedObjectsAreComplete
  BY DEF RevInv, InventoryInv, KubeInv, Good, ManagedObjectsAreComplete
<1> QED BY <1>1, RevInvHolds, PTL

\* None of the three ever writes the ID of another machine's system to an object.
THEOREM RevNamesAreRight == RevSpec => []ObjectsNameTheirMachine
<1>1. RevInv => ObjectsNameTheirMachine
  <2> SUFFICES ASSUME RevInv, NEW h \in Hosts, obj[h] # NoObject
               PROVE  {obj[h].systemId, obj[h].BmcSystemID} \subseteq IdsOf(h) \cup {None}
    BY DEF ObjectsNameTheirMachine
  <2>1. Good(h, obj[h])
    BY DEF RevInv, InventoryInv, KubeInv
  <2> QED BY <2>1 DEF Good
<1> QED BY <1>1, RevInvHolds, PTL

-----------------------------------------------------------------------------
(* The refinement of BmcLifecycle.                                         *)

\* A new label changes neither the phase nor the system of an object.
LEMMA RevLabelLifecycle ==
    ASSUME RevInv, NEW p \in RevProcs, RevLabel(p) PROVE LifecycleStep
<1> DEFINE h == call[p].host
           o == [obj[h] EXCEPT !.systemId = call[p].id]
<1>1. CASE h \in fresh[p]
  <2>1. /\ call[p].pc \in Adding /\ h \in Hosts /\ obj' = [obj EXCEPT ![h] = o]
        /\ UNCHANGED registered
    BY <1>1 DEF RevLabel, UpdateIfFresh, odimVars, Adding, RevInv, RevCallInv, CallOK
  <2>2. obj[h] \in Bmc
    BY <1>1, <2>1, CallCopyGood
  <2>3. /\ o \in Bmc => o # NoObject
        /\ o.deleting = obj[h].deleting /\ o.password = obj[h].password
        /\ o.BmcSystemID = obj[h].BmcSystemID
    BY <2>2, InventoryAssumption DEF Bmc
  <2>4. o # NoObject /\ obj[h] # NoObject
    <3>1. call[p].id \in Ids
      BY DEF RevLabel, RevInv, RevCallInv, CallOK
    <3> QED BY <2>2, <2>3, <3>1, InventoryAssumption DEF Bmc
  <2>5. Phase(o) = Phase(obj[h]) /\ System(o) = System(obj[h])
    BY <2>3, <2>4 DEF Phase, System
  <2> HIDE DEF o
  <2> QED BY <2>1, <2>5, ObjectStep DEF RevInv
<1>2. CASE h \notin fresh[p]
  BY <1>2, Stutter DEF RevLabel, UpdateIfFresh, kubeVars, odimVars
<1> QED BY <1>1, <1>2

\* A managed object gets a new ID only when ODIM has lost the system of the old one.
LEMMA RevStatusLifecycle ==
    ASSUME RevInv, NEW p \in RevProcs, RevStatus(p) PROVE LifecycleStep
<1> DEFINE h == call[p].host
           o == [obj[h] EXCEPT !.BmcSystemID = call[p].id]
<1>1. CASE h \in fresh[p]
  <2>1. /\ call[p].pc \in Adding /\ h \in Hosts /\ obj' = [obj EXCEPT ![h] = o]
        /\ UNCHANGED registered /\ call[p].id \in IdsOf(h)
        /\ obj[h].BmcSystemID \notin registered
    BY <1>1 DEF RevStatus, UpdateIfFresh, odimVars, Adding, RevInv, RevCallInv, CallOK
  <2>2. obj[h] \in Bmc /\ ~obj[h].deleting /\ obj[h].password = "encrypted"
    BY <1>1, <2>1, CallCopyGood
  <2>3. o \in Bmc /\ ~o.deleting /\ o.password = "encrypted" /\ o.BmcSystemID = call[p].id
    BY <2>1, <2>2 DEF Bmc
  <2> HIDE DEF o
  <2>4. o # NoObject /\ obj[h] # NoObject
    BY <2>2, <2>3, InventoryAssumption
  <2>5. /\ Phase(o) = "managed" /\ Phase(obj[h]) = "managed"
        /\ System(obj[h]) \notin registered /\ System(o) \in IdsOf(h)
    BY <2>1, <2>2, <2>3, <2>4 DEF Phase, System
  <2> QED BY <2>1, <2>5, ObjectStep DEF RevInv
<1>2. CASE h \notin fresh[p]
  BY <1>2, Stutter DEF RevStatus, UpdateIfFresh, kubeVars, odimVars
<1> QED BY <1>1, <1>2

\* The poll, the calls and the events.
LEMMA RevCallLifecycle ==
    ASSUME RevInv, NEW p \in RevProcs, CallStep(p) \/ RevAddFails(p) \/ RevDeleteFails(p)
    PROVE  LifecycleStep
<1>1. CASE RevDelete(p)
  <2>1. call[p].id \in Ids
    BY <1>1 DEF RevDelete, RevInv, InventoryInv, InventoryTypeOK, RevCallInv, CallOK
  <2> QED BY <1>1, <2>1, UnregisterStep DEF RevDelete, kubeVars
<1>2. CASE UNCHANGED <<obj, registered>>
  BY <1>2, Stutter
<1> QED
  BY <1>1, <1>2, RevLabelLifecycle, RevStatusLifecycle
     DEF CallStep, RevPost, RevPostRefused, RevTaskDone, RevAddFails, RevDeleteFails,
         inventoryVars, kubeVars, odimVars

\* Also with Revert, whatever the reconciler, the poll, the events, users and ODIM do
\* together, each object lives the life that BmcLifecycle describes.
THEOREM RevImplements == RevSpec => ImplementsLifecycle
<1>1. RevInit => Lifecycle!Init
  BY InitLifecycle DEF RevInit
<1>2. RevInv /\ [RevNext]_revertVars => [Lifecycle!Next]_(Lifecycle!vars)
  <2> SUFFICES ASSUME RevInv, [RevNext]_revertVars PROVE LifecycleStep
    BY DEF LifecycleStep
  <2>1. CASE RecStep \/ RecFault \/ EnvNext
    BY <2>1, RecLifecycle, EnvLifecycle DEF RevInv
  <2>2. CASE \E p \in RevProcs : CallStep(p) \/ RevAddFails(p) \/ RevDeleteFails(p)
    BY <2>2, RevCallLifecycle
  <2>3. CASE UNCHANGED <<obj, registered>>
    BY <2>3, Stutter
  <2> QED
    BY <2>1, <2>2, <2>3
       DEF RevNext, RevReconcileStep, RevPollStep, EventStep, PollGet, PollMerge, PollList,
           PollVisited, PollSwept, PollVisit, PollSweepKeep, PollSweepDelete, PollPanic,
           EventRemoved, EventRemovedNoObject, EventAdded, EventAddedUnknown, RevResourceAdded,
           RevResourceRemoved, RevEventArrives, PollVisitResetting, PollSweepResetting,
           InventoryCrash, RecPanic, ForgetInventory, revertVars, inventoryVars, kubeVars, odimVars
<1> QED BY <1>1, <1>2, RevInvHolds, PTL DEF RevSpec, ImplementsLifecycle, Lifecycle!Spec

=============================================================================
