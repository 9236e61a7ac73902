------------------------- MODULE BmcInventoryProofs -------------------------
(***************************************************************************)
(* InventoryInv is inductive under every step of BmcInventory, for every   *)
(* number of machines, IDs and disturbances, and every step is one of      *)
(* BmcLifecycle or changes nothing that BmcLifecycle talks about.  The     *)
(* proofs about the two ways to reconcile use these lemmas.                *)
(***************************************************************************)
EXTENDS BmcInventory, TLAPS

USE DEF IdsOf, Exists

\* The initial state satisfies the invariant.
LEMMA InitEstablishesInv ==
    ASSUME InventoryInit PROVE InventoryInv
<1> USE InventoryAssumption
<1>1. InventoryTypeOK
  BY DEF InventoryInit, InventoryTypeOK, BmcState, NoEntry, RecPcs, Procs
<1>2. OdimInv
  BY DEF InventoryInit, OdimInv, Done, Tracked, NoEntry
<1>3. KubeInv
  BY DEF InventoryInit, KubeInv, Good, Procs
<1>4. RecInv
  BY DEF InventoryInit, RecInv
<1> QED BY <1>1, <1>2, <1>3, <1>4 DEF InventoryInv

-----------------------------------------------------------------------------
(* ODIM.                                                                   *)

\* A new ID is neither done nor registered, and nothing that was done is undone.
LEMMA AcceptKeeps ==
    ASSUME InventoryInv, NEW i \in Ids, CanAdd(i), Accept(i), UNCHANGED registered
    PROVE  /\ Done' = Done
           /\ used \subseteq used'
           /\ i \in used' /\ i \in adding'
           /\ adding' \subseteq used' /\ registered' \subseteq Done'
           /\ adding' \subseteq Ids /\ used' \subseteq Ids
           /\ \A j, k \in registered' \cup adding' : HostOf[j] = HostOf[k] => j = k
BY DEF InventoryInv, InventoryTypeOK, OdimInv, CanAdd, Accept, Done, Known

\* The objects stay good when they do not change and IDs are only done.
LEMMA KubeUnchanged ==
    ASSUME KubeInv, UNCHANGED kubeVars, Done \subseteq Done'
    PROVE  KubeInv'
BY DEF KubeInv, Good, kubeVars

\* So does the knowledge of a reconciler that makes no step.
LEMMA RecUnchanged ==
    ASSUME RecInv, UNCHANGED <<kubeVars, recVars>>, Done \subseteq Done', used \subseteq used',
           registered' \subseteq registered \cup adding, adding \cap Done = {}
    PROVE  RecInv'
BY InventoryAssumption DEF RecInv, kubeVars, recVars

-----------------------------------------------------------------------------
(* Kubernetes.                                                             *)

\* The object a deletion only marks.
LEMMA MarkDeleting ==
    ASSUME NEW o \in Bmc
    PROVE  /\ [o EXCEPT !.deleting = TRUE] \in Bmc
           /\ [o EXCEPT !.deleting = TRUE].deleting = TRUE
           /\ [o EXCEPT !.deleting = TRUE].finalizer = o.finalizer
           /\ [o EXCEPT !.deleting = TRUE].password = o.password
           /\ [o EXCEPT !.deleting = TRUE].systemId = o.systemId
           /\ [o EXCEPT !.deleting = TRUE].BmcSystemID = o.BmcSystemID
BY DEF Bmc

\* What AfterDelete leaves under a name is nothing, or a good object that is being
\* deleted and is otherwise the one that was there.
LEMMA AfterDeleteGood ==
    ASSUME InventoryInv, NEW h \in Hosts, Exists(h), obj[h].finalizer
    PROVE  /\ AfterDelete(h) \in Bmc
           /\ AfterDelete(h).deleting
           /\ AfterDelete(h).BmcSystemID = obj[h].BmcSystemID
           /\ Good(h, AfterDelete(h))
<1>1. obj[h] \in Bmc /\ Good(h, obj[h])
  BY DEF InventoryInv, InventoryTypeOK, KubeInv
<1>2. AfterDelete(h) = [obj[h] EXCEPT !.deleting = TRUE]
  BY DEF AfterDelete
<1> QED BY <1>1, <1>2, MarkDeleting DEF Good

\* A process other than the reconciler stores a good object, or none, in the place
\* of one the reconciler is not removing.
LEMMA PutKeeps ==
    ASSUME InventoryInv, NEW h \in Hosts, NEW o \in Bmc \cup {NoObject}, Put(h, o),
           UNCHANGED <<odimVars, recVars>>,
           o # NoObject => Good(h, o),
           recPc \in {"unregister", "finalize"} /\ h = recHost =>
               o # NoObject /\ o.deleting /\ o.BmcSystemID = obj[h].BmcSystemID
    PROVE  /\ obj' \in [Hosts -> Bmc \cup {NoObject}]
           /\ fresh' \in [Procs -> SUBSET Hosts]
           /\ KubeInv' /\ RecInv'
<1> USE DEF InventoryInv, Put
<1>1. obj' \in [Hosts -> Bmc \cup {NoObject}] /\ fresh' \in [Procs -> SUBSET Hosts]
  BY DEF InventoryTypeOK
<1>2. Done' = Done /\ used' = used
  BY DEF odimVars, Done
<1>3. KubeInv'
  BY <1>2 DEF InventoryTypeOK, KubeInv, Good
<1>4. RecInv'
  BY <1>2 DEF InventoryTypeOK, KubeInv, RecInv, recVars, odimVars, Procs
<1> QED BY <1>1, <1>3, <1>4

\* Client.Delete by a process other than the reconciler.
LEMMA DeleteKeeps ==
    ASSUME InventoryInv, NEW h \in Hosts, Delete(h), UNCHANGED <<odimVars, recVars>>
    PROVE  /\ obj' \in [Hosts -> Bmc \cup {NoObject}]
           /\ fresh' \in [Procs -> SUBSET Hosts]
           /\ KubeInv' /\ RecInv'
<1>1. CASE Exists(h) /\ obj[h].finalizer
  <2>1. AfterDelete(h) # NoObject
    BY <1>1, AfterDeleteGood, InventoryAssumption
  <2> QED BY <1>1, <2>1, AfterDeleteGood, PutKeeps DEF Delete
<1>2. CASE ~(Exists(h) /\ obj[h].finalizer)
  <2>1. AfterDelete(h) = NoObject
    BY <1>2 DEF AfterDelete
  <2>2. ~(recPc \in {"unregister", "finalize"} /\ h = recHost)
    BY <1>2 DEF InventoryInv, RecInv, KubeInv, Good
  <2> QED BY <2>1, <2>2, PutKeeps DEF Delete
<1> QED BY <1>1, <1>2

-----------------------------------------------------------------------------
(* The steps of the reconciler.                                            *)

\* The steps that change nothing but the place of the reconciler.
LEMMA RecMoves ==
    ASSUME InventoryInv,
           RecPostRefused \/ RecTaskDone \/ RecDetails \/ RecUnregisterNothing \/ RecAddFails
    PROVE  InventoryInv'
<1> USE InventoryAssumption
    DEF InventoryInv, odimVars, kubeVars, tickVars, RecIdle, Disturb,
        RecPostRefused, RecTaskDone, RecDetails, RecUnregisterNothing, RecAddFails
<1>1. InventoryTypeOK'
  BY DEF InventoryTypeOK, RecPcs
<1>2. OdimInv'
  BY DEF OdimInv, Done, Tracked
<1>3. KubeInv'
  BY KubeUnchanged DEF Done
<1>4. RecInv'
  BY DEF RecInv, Done, OdimInv, InventoryTypeOK
<1> QED BY <1>1, <1>2, <1>3, <1>4

\* RecStart reads a good object.
LEMMA RecStartKeeps ==
    ASSUME InventoryInv, NEW h \in Hosts, RecStart(h) PROVE InventoryInv'
<1> USE InventoryAssumption
    DEF InventoryInv, RecStart, HasConnectionMethod, AddBmc, odimVars, tickVars
<1>1. obj[h] \in Bmc /\ Good(h, obj[h])
  BY DEF InventoryTypeOK, KubeInv
<1>2. InventoryTypeOK'
  BY <1>1 DEF InventoryTypeOK, RecPcs, Bmc, Procs
<1>3. OdimInv'
  BY DEF OdimInv, Done, Tracked
<1>4. KubeInv'
  BY DEF InventoryTypeOK, KubeInv, Good, Done, Procs
<1>5. RecInv'
  BY <1>1 DEF RecInv, Done, OdimInv, InventoryTypeOK, Good, Bmc, Procs
<1> QED BY <1>2, <1>3, <1>4, <1>5

\* RecPost gets a new ID.
LEMMA RecPostKeeps ==
    ASSUME InventoryInv, NEW i \in Ids, RecPost(i) PROVE InventoryInv'
<1> USE InventoryAssumption
    DEF InventoryInv, RecPost, kubeVars, tickVars
<1>1. /\ Done' = Done /\ used \subseteq used'
      /\ i \in used' /\ i \in adding'
      /\ adding' \subseteq used' /\ registered' \subseteq Done'
      /\ adding' \subseteq Ids /\ used' \subseteq Ids
      /\ \A j, k \in registered' \cup adding' : HostOf[j] = HostOf[k] => j = k
  BY AcceptKeeps
<1>2. InventoryTypeOK'
  BY <1>1 DEF InventoryTypeOK, RecPcs
<1>3. OdimInv'
  BY <1>1 DEF OdimInv, Tracked
<1>4. KubeInv'
  BY <1>1, KubeUnchanged
<1>5. RecInv'
  BY <1>1 DEF RecInv, InventoryTypeOK
<1> QED BY <1>2, <1>3, <1>4, <1>5

\* deleteBMCObject
LEMMA RecFailKeeps ==
    ASSUME InventoryInv, RecFail PROVE InventoryInv'
<1> USE InventoryAssumption
    DEF InventoryInv, RecFail, odimVars, tickVars, RecIdle
<1>1. recHost \in Hosts
  BY DEF RecInv
<1>2. /\ obj' \in [Hosts -> Bmc \cup {NoObject}]
      /\ fresh' \in [Procs -> SUBSET Hosts]
      /\ KubeInv'
  <2>1. CASE Exists(recHost) /\ obj[recHost].finalizer
    BY <1>1, <2>1, AfterDeleteGood
       DEF Delete, Put, InventoryTypeOK, KubeInv, Good, Done
  <2>2. CASE ~(Exists(recHost) /\ obj[recHost].finalizer)
    BY <1>1, <2>2 DEF AfterDelete, Delete, Put, InventoryTypeOK, KubeInv, Good, Done
  <2> QED BY <2>1, <2>2
<1>3. InventoryTypeOK'
  BY <1>2 DEF InventoryTypeOK, RecPcs, BmcState, NoEntry
<1>4. OdimInv'
  BY DEF OdimInv, Done, Tracked, NoEntry
<1>5. RecInv'
  BY DEF RecInv
<1> QED BY <1>2, <1>3, <1>4, <1>5

\* The copy, as long as it is the stored object, is a good one.
LEMMA RecCopyGood ==
    ASSUME InventoryInv, recHost \in fresh["rec"]
    PROVE  obj[recHost] \in Bmc /\ Good(recHost, obj[recHost])
BY DEF InventoryInv, InventoryTypeOK, KubeInv, Procs

\* An update of the copy to a good object.
LEMMA RecUpdateKeeps ==
    ASSUME InventoryInv, NEW o, UpdateIfFresh("rec", recHost, o), UNCHANGED odimVars,
           recHost \in fresh["rec"] => o \in Bmc /\ Good(recHost, o)
    PROVE  /\ obj' \in [Hosts -> Bmc \cup {NoObject}]
           /\ fresh' \in [Procs -> SUBSET Hosts]
           /\ KubeInv'
           /\ recHost \in fresh'["rec"] =>
                  recHost \in fresh["rec"] /\ obj'[recHost] = o
<1> USE InventoryAssumption DEF InventoryInv, UpdateIfFresh, odimVars, kubeVars
<1>1. obj' \in [Hosts -> Bmc \cup {NoObject}] /\ fresh' \in [Procs -> SUBSET Hosts]
  BY DEF InventoryTypeOK
<1>2. KubeInv'
  BY DEF InventoryTypeOK, KubeInv, Good, Done, Procs
<1>3. recHost \in fresh'["rec"] => recHost \in fresh["rec"] /\ obj'[recHost] = o
  BY DEF InventoryTypeOK, Procs
<1> QED BY <1>1, <1>2, <1>3

\* The copy gets its finalizer.
LEMMA RecStoreKeeps ==
    ASSUME InventoryInv, RecStore PROVE InventoryInv'
<1> USE InventoryAssumption DEF InventoryInv, RecStore, tickVars
<1> DEFINE o == [obj[recHost] EXCEPT !.finalizer = TRUE]
<1>1. recHost \in fresh["rec"] =>
          /\ o \in Bmc /\ Good(recHost, o)
          /\ o.finalizer /\ o.deleting = obj[recHost].deleting
          /\ o.password = obj[recHost].password
          /\ o.BmcSystemID = obj[recHost].BmcSystemID
  BY RecCopyGood DEF Bmc, Good, RecInv, InventoryTypeOK
<1>2. /\ obj' \in [Hosts -> Bmc \cup {NoObject}]
      /\ fresh' \in [Procs -> SUBSET Hosts]
      /\ KubeInv'
      /\ recHost \in fresh'["rec"] => recHost \in fresh["rec"] /\ obj'[recHost] = o
  BY <1>1, RecUpdateKeeps
<1>3. InventoryTypeOK'
  BY <1>2 DEF InventoryTypeOK, RecPcs, odimVars
<1>4. OdimInv'
  BY DEF OdimInv, Done, Tracked, odimVars
<1>5. RecInv'
  BY <1>1, <1>2 DEF RecInv, Done, odimVars
<1> QED BY <1>2, <1>3, <1>4, <1>5

\* It gets its system ID.
LEMMA RecWriteStatusKeeps ==
    ASSUME InventoryInv, RecWriteStatus PROVE InventoryInv'
<1> USE InventoryAssumption DEF InventoryInv, RecWriteStatus, tickVars
<1> DEFINE o == [obj[recHost] EXCEPT !.BmcSystemID = recId]
<1>1. recHost \in fresh["rec"] =>
          /\ o \in Bmc /\ Good(recHost, o)
          /\ o.finalizer /\ o.deleting = obj[recHost].deleting
          /\ o.password = obj[recHost].password /\ o.BmcSystemID = recId
  BY RecCopyGood DEF Bmc, Good, RecInv, InventoryTypeOK
<1>2. /\ obj' \in [Hosts -> Bmc \cup {NoObject}]
      /\ fresh' \in [Procs -> SUBSET Hosts]
      /\ KubeInv'
      /\ recHost \in fresh'["rec"] => recHost \in fresh["rec"] /\ obj'[recHost] = o
  BY <1>1, RecUpdateKeeps
<1>3. InventoryTypeOK'
  BY <1>2 DEF InventoryTypeOK, RecPcs, odimVars
<1>4. OdimInv'
  BY DEF OdimInv, Done, Tracked, odimVars
<1>5. RecInv'
  BY <1>1, <1>2 DEF RecInv, Done, odimVars
<1> QED BY <1>2, <1>3, <1>4, <1>5

\* It gets its encrypted password and its label.
LEMMA RecFinalKeeps ==
    ASSUME InventoryInv, RecFinal PROVE InventoryInv'
<1> USE InventoryAssumption DEF InventoryInv, RecFinal, Completed, tickVars, RecIdle
<1> DEFINE o == [obj[recHost] EXCEPT !.password = "encrypted",
                                      !.systemId = recId]
<1>1. recHost \in fresh["rec"] =>
          /\ o \in Bmc /\ Good(recHost, o)
          /\ o.BmcSystemID = recId
  BY RecCopyGood DEF Bmc, Good, RecInv, InventoryTypeOK
<1>2. /\ obj' \in [Hosts -> Bmc \cup {NoObject}]
      /\ fresh' \in [Procs -> SUBSET Hosts]
      /\ KubeInv'
      /\ recHost \in fresh'["rec"] => recHost \in fresh["rec"] /\ obj'[recHost] = o
  BY <1>1, RecUpdateKeeps
<1>3. InventoryTypeOK'
  BY <1>2 DEF InventoryTypeOK, RecPcs, odimVars
<1>4. OdimInv'
  BY DEF OdimInv, Done, Tracked, odimVars
<1>5. RecInv'
  BY <1>1, <1>2 DEF RecInv, Done, odimVars
<1> QED BY <1>2, <1>3, <1>4, <1>5

\* RecTrack
LEMMA RecTrackKeeps ==
    ASSUME InventoryInv, RecTrack PROVE InventoryInv'
<1> USE InventoryAssumption
    DEF InventoryInv, RecTrack, odimVars, kubeVars, tickVars
<1>1. recId \in Ids /\ recId \in used
  BY DEF RecInv, Done
<1>2. InventoryTypeOK'
  BY DEF InventoryTypeOK, RecPcs, BmcState, ObjCreated
<1>3. OdimInv'
  BY <1>1 DEF OdimInv, Done, Tracked, InventoryTypeOK
<1>4. KubeInv'
  BY KubeUnchanged DEF Done
<1>5. RecInv'
  BY DEF RecInv, Done
<1> QED BY <1>2, <1>3, <1>4, <1>5

\* The system of the object being removed goes, and stays away.
LEMMA RecUnregisterKeeps ==
    ASSUME InventoryInv, RecUnregister \/ RecUnregisterFails PROVE InventoryInv'
<1> USE InventoryAssumption
    DEF InventoryInv, RecUnregister, RecUnregisterFails, RecIdle, Disturb, kubeVars, tickVars
<1>1. InventoryTypeOK'
  BY DEF InventoryTypeOK, RecPcs
<1>2. OdimInv'
  BY DEF OdimInv, Done, Tracked
<1>3. KubeInv'
  BY KubeUnchanged DEF Done
<1>4. RecInv'
  BY DEF RecInv, Done, InventoryTypeOK
<1> QED BY <1>1, <1>2, <1>3, <1>4

\* RecFinalize
LEMMA RecFinalizeKeeps ==
    ASSUME InventoryInv, RecFinalize PROVE InventoryInv'
<1> USE InventoryAssumption
    DEF InventoryInv, RecFinalize, RecIdle, Put, odimVars, kubeVars, tickVars
<1>1. InventoryTypeOK'
  BY DEF InventoryTypeOK, RecPcs
<1>2. OdimInv'
  BY DEF OdimInv, Done, Tracked
<1>3. KubeInv'
  BY DEF InventoryTypeOK, KubeInv, Good, Done
<1>4. RecInv'
  BY DEF RecInv
<1> QED BY <1>1, <1>2, <1>3, <1>4

\* Whatever the reconciler does keeps the invariant.
LEMMA RecStepKeeps ==
    ASSUME InventoryInv, RecStep PROVE InventoryInv'
BY RecMoves, RecStartKeeps, RecPostKeeps, RecFailKeeps, RecStoreKeeps, RecWriteStatusKeeps,
   RecFinalKeeps, RecTrackKeeps, RecUnregisterKeeps, RecFinalizeKeeps
   DEF RecStep

-----------------------------------------------------------------------------
(* Faults, users, ODIM, the poll's first steps and the end of the process. *)

\* RecKeysMissing, UserCreate, UserDelete and UserTouch change one object.
LEMMA ObjectStepsKeep ==
    ASSUME InventoryInv, NEW h \in Hosts,
           RecKeysMissing(h) \/ UserCreate(h) \/ UserDelete(h) \/ UserTouch(h)
    PROVE  InventoryInv'
<1> USE InventoryAssumption DEF Disturb
<1>1. UNCHANGED <<odimVars, mapOfBmc, recVars, tickVars>> /\ budget' \in Nat
  BY DEF InventoryInv, InventoryTypeOK, RecKeysMissing, UserCreate, UserDelete, UserTouch
<1>2. /\ obj' \in [Hosts -> Bmc \cup {NoObject}]
      /\ fresh' \in [Procs -> SUBSET Hosts]
      /\ KubeInv' /\ RecInv'
  <2>1. CASE RecKeysMissing(h) \/ UserDelete(h)
    BY <1>1, <2>1, DeleteKeeps DEF RecKeysMissing, UserDelete
  <2>2. CASE UserCreate(h)
    <3>1. NewBmc \in Bmc /\ Good(h, NewBmc)
      BY DEF NewBmc, Bmc, Good
    <3>2. ~(recPc \in {"unregister", "finalize"} /\ h = recHost)
      BY <2>2 DEF UserCreate, InventoryInv, RecInv
    <3> QED BY <1>1, <2>2, <3>1, <3>2, PutKeeps DEF UserCreate
  <2>3. CASE UserTouch(h)
    <3>1. obj[h] \in Bmc /\ Exists(h) /\ Good(h, obj[h])
      BY <2>3 DEF UserTouch, InventoryInv, InventoryTypeOK, KubeInv
    <3>2. recPc \in {"unregister", "finalize"} /\ h = recHost => obj[h].deleting
      BY DEF InventoryInv, RecInv
    <3> QED BY <1>1, <2>3, <3>1, <3>2, PutKeeps DEF UserTouch
  <2> QED BY <2>1, <2>2, <2>3
<1>3. InventoryTypeOK' /\ OdimInv'
  BY <1>1, <1>2
     DEF InventoryInv, InventoryTypeOK, OdimInv, Done, Tracked, odimVars, recVars, tickVars
<1> QED BY <1>2, <1>3 DEF InventoryInv

\* ODIM adds, finishes and removes.
LEMMA OdimStepsKeep ==
    ASSUME InventoryInv, NEW i \in Ids, OdimAdd(i) \/ OdimFinish(i) \/ OdimRemove(i)
    PROVE  InventoryInv'
<1> USE InventoryAssumption DEF Disturb
<1>1. UNCHANGED <<kubeVars, mapOfBmc, recVars, tickVars>> /\ budget' \in Nat
  BY DEF InventoryInv, InventoryTypeOK, OdimAdd, OdimFinish, OdimRemove
<1>2. /\ Done \subseteq Done' /\ used \subseteq used' /\ used' \subseteq Ids
      /\ adding' \subseteq used' /\ registered' \subseteq Done'
      /\ registered' \subseteq registered \cup adding
      /\ \A j, k \in registered' \cup adding' : HostOf[j] = HostOf[k] => j = k
  <2>1. CASE OdimAdd(i)
    BY <2>1, AcceptKeeps DEF OdimAdd
  <2>2. CASE OdimFinish(i)
    BY <2>2 DEF OdimFinish, InventoryInv, InventoryTypeOK, OdimInv, Done
  <2>3. CASE OdimRemove(i)
    BY <2>3 DEF OdimRemove, InventoryInv, InventoryTypeOK, OdimInv, Done
  <2> QED BY <2>1, <2>2, <2>3
<1>3. InventoryTypeOK' /\ OdimInv'
  BY <1>1, <1>2
     DEF InventoryInv, InventoryTypeOK, OdimInv, Done, Tracked, kubeVars, recVars, tickVars
<1>4. KubeInv'
  BY <1>1, <1>2, KubeUnchanged DEF InventoryInv
<1>5. RecInv'
  BY <1>1, <1>2, RecUnchanged DEF InventoryInv, Done
<1> QED BY <1>3, <1>4, <1>5 DEF InventoryInv

\* Users, ODIM and faults keep the invariant.
LEMMA EnvKeeps ==
    ASSUME InventoryInv, RecFault \/ EnvNext PROVE InventoryInv'
BY ObjectStepsKeep, OdimStepsKeep, RecMoves, RecUnregisterKeeps DEF RecFault, EnvNext

\* A step that does not touch ODIM, the objects and the reconciler keeps the
\* invariant when it only enters IDs that ODIM has handed out.
LEMMA MemoryKeeps ==
    ASSUME InventoryInv, UNCHANGED <<odimVars, kubeVars, recVars>>,
           mapOfBmc' \in [Ids -> BmcState], snap' \subseteq used, budget' \in Nat,
           \A i \in Ids : mapOfBmc'[i].present => i \in used
    PROVE  InventoryInv'
<1>1. InventoryTypeOK'
  BY DEF InventoryInv, InventoryTypeOK, OdimInv, odimVars, kubeVars, recVars
<1>2. OdimInv'
  BY DEF InventoryInv, OdimInv, Done, Tracked, odimVars
<1>3. KubeInv' /\ RecInv'
  BY KubeUnchanged, RecUnchanged DEF InventoryInv, OdimInv, Done, odimVars
<1> QED BY <1>1, <1>2, <1>3 DEF InventoryInv

\* GET /redfish/v1/Systems
LEMMA PollGetKeeps ==
    ASSUME InventoryInv, PollGet PROVE InventoryInv'
<1>1. \A i \in Ids : mapOfBmc[i].present => i \in used
  BY DEF InventoryInv, OdimInv, Tracked
<1>2. mapOfBmc \in [Ids -> BmcState] /\ registered \subseteq used /\ budget \in Nat
  BY DEF InventoryInv, InventoryTypeOK, OdimInv, Done
<1> QED BY <1>1, <1>2, MemoryKeeps DEF PollGet

\* Every system of the answer is entered, and every one ODIM has handed out.
LEMMA MergedKeeps ==
    ASSUME InventoryInv
    PROVE  /\ Merged \in [Ids -> BmcState]
           /\ \A i \in Ids : Merged[i].present => i \in used
<1>1. /\ mapOfBmc \in [Ids -> BmcState] /\ snap \subseteq used
      /\ \A i \in Ids : mapOfBmc[i].present => i \in used
  BY DEF InventoryInv, InventoryTypeOK, OdimInv, Tracked
<1>2. [NoEntry EXCEPT !.present = TRUE, !.IsAdded = TRUE] \in BmcState
  BY DEF NoEntry, BmcState
<1> QED BY <1>1, <1>2 DEF Merged

\* A process that ends leaves nothing that the next one could be wrong about.
LEMMA ForgetKeeps ==
    ASSUME InventoryInv, ForgetInventory, budget' \in Nat PROVE InventoryInv'
<1> USE InventoryAssumption DEF InventoryInv, ForgetInventory, RecIdle, odimVars
<1>1. InventoryTypeOK'
  BY DEF InventoryTypeOK, RecPcs, BmcState, NoEntry
<1>2. OdimInv'
  BY DEF OdimInv, Done, Tracked, NoEntry
<1>3. KubeInv' /\ RecInv'
  BY DEF KubeInv, RecInv, Good, Done
<1> QED BY <1>1, <1>2, <1>3

-----------------------------------------------------------------------------
(* What the other processes rely on.                                       *)

\* No step takes an ID back, whatever it does.
LEMMA IdsGrow ==
    ASSUME InventoryInv, RecStep \/ RecFault \/ EnvNext \/ PollGet
    PROVE  used \subseteq used' /\ Done \subseteq Done'
<1> USE DEF InventoryInv, odimVars, Done
<1>1. CASE RecStep
  <2>1. CASE \E i \in Ids : RecPost(i)
    BY <2>1, AcceptKeeps DEF RecPost
  <2>2. CASE ~\E i \in Ids : RecPost(i)
    BY <1>1, <2>2 DEF RecStep, RecStart, RecPostRefused, RecTaskDone, RecFail, RecDetails,
       RecStore, RecWriteStatus, RecTrack, RecFinal, RecUnregister, RecUnregisterNothing,
       RecFinalize
  <2> QED BY <2>1, <2>2
<1>2. CASE RecFault
  BY <1>2 DEF RecFault, RecKeysMissing, RecAddFails, RecUnregisterFails
<1>3. CASE EnvNext
  BY <1>3, AcceptKeeps
     DEF EnvNext, UserCreate, UserDelete, UserTouch, OdimAdd, OdimFinish, OdimRemove
<1>4. CASE PollGet
  BY <1>4 DEF PollGet
<1> QED BY <1>1, <1>2, <1>3, <1>4

\* A deletion leaves nothing, or what was there but for the deletion timestamp.
LEMMA AfterDeleteKeeps ==
    ASSUME InventoryInv, NEW h \in Hosts, AfterDelete(h) # NoObject
    PROVE  /\ Exists(h)
           /\ AfterDelete(h).password = obj[h].password
           /\ AfterDelete(h).finalizer = obj[h].finalizer
           /\ AfterDelete(h).systemId = obj[h].systemId
           /\ AfterDelete(h).BmcSystemID = obj[h].BmcSystemID
<1>1. Exists(h) /\ obj[h].finalizer
  BY DEF AfterDelete
<1>2. obj[h] \in Bmc
  BY <1>1 DEF InventoryInv, InventoryTypeOK
<1> QED BY <1>1, <1>2, MarkDeleting DEF AfterDelete

-----------------------------------------------------------------------------
(* What the poll and the events of Revert do to the shared state.          *)

\* A process other than the reconciler reads objects that are there.
LEMMA ReadKeeps ==
    ASSUME InventoryInv, NEW p \in Procs \ {"rec"}, NEW S \in SUBSET Hosts,
           fresh' = [fresh EXCEPT ![p] = S], \A h \in S : Exists(h),
           UNCHANGED <<odimVars, obj, mapOfBmc, recVars, budget>>, snap' \subseteq used
    PROVE  InventoryInv'
<1> USE DEF InventoryInv, odimVars, recVars
<1>1. InventoryTypeOK'
  BY DEF InventoryTypeOK, OdimInv
<1>2. OdimInv'
  BY DEF OdimInv, Done, Tracked
<1>3. KubeInv'
  BY DEF InventoryTypeOK, KubeInv, Good, Done
<1>4. RecInv'
  BY DEF InventoryTypeOK, RecInv, Done, Procs
<1> QED BY <1>1, <1>2, <1>3, <1>4

\* A process other than the reconciler updates an object that nobody has deleted.
LEMMA UpdateKeeps ==
    ASSUME InventoryInv, NEW p \in Procs \ {"rec"}, NEW h \in Hosts, NEW o,
           UpdateIfFresh(p, h, o),
           h \in fresh[p] => o \in Bmc /\ Good(h, o) /\ ~obj[h].deleting,
           UNCHANGED <<odimVars, mapOfBmc, recVars, budget>>, snap' \subseteq used
    PROVE  InventoryInv'
<1> USE InventoryAssumption DEF InventoryInv, UpdateIfFresh, odimVars, kubeVars, recVars
<1>1. InventoryTypeOK'
  BY DEF InventoryTypeOK, OdimInv
<1>2. OdimInv'
  BY DEF OdimInv, Done, Tracked
<1>3. KubeInv'
  BY DEF InventoryTypeOK, KubeInv, Good, Done
<1>4. RecInv'
  BY DEF InventoryTypeOK, RecInv, Done, Procs
<1> QED BY <1>1, <1>2, <1>3, <1>4

\* An update outdates the copies of all the other processes.
LEMMA UpdateOutdates ==
    ASSUME InventoryInv, NEW p \in Procs, NEW h \in Hosts, NEW o, UpdateIfFresh(p, h, o)
    PROVE  /\ fresh'[p] = fresh[p]
           /\ h \in fresh[p] => obj'[h] = o
           /\ \A g \in Hosts \ {h} : obj'[g] = obj[g]
           /\ \A q \in Procs \ {p} :
                  fresh'[q] \subseteq fresh[q] /\ \A g \in fresh'[q] : obj'[g] = obj[g]
BY DEF UpdateIfFresh, InventoryInv, InventoryTypeOK, kubeVars

\* ODIM loses a system.
LEMMA RemoveKeeps ==
    ASSUME InventoryInv, NEW i, registered' = registered \ {i},
           UNCHANGED <<adding, used, kubeVars, mapOfBmc, recVars, snap, budget>>
    PROVE  InventoryInv'
<1> USE DEF InventoryInv
<1>1. InventoryTypeOK' /\ OdimInv'
  BY DEF InventoryTypeOK, OdimInv, Done, Tracked, kubeVars, recVars
<1>2. KubeInv' /\ RecInv'
  BY KubeUnchanged, RecUnchanged DEF InventoryTypeOK, OdimInv, Done
<1> QED BY <1>1, <1>2

\* What a process other than the reconciler knows of the objects gets less, but stays
\* true, whatever the reconciler, users, ODIM and faults do.
LEMMA CopiesLast ==
    ASSUME InventoryInv, RecStep \/ RecFault \/ EnvNext, NEW p \in Procs \ {"rec"}
    PROVE  /\ fresh'[p] \subseteq fresh[p]
           /\ \A h \in fresh'[p] : obj'[h] = obj[h]
           /\ registered' \subseteq registered \cup adding
           /\ UNCHANGED tickVars
<1> USE DEF InventoryInv, InventoryTypeOK, odimVars, kubeVars, Put, Delete
<1>1. CASE RecStep
  BY <1>1 DEF RecStep, RecStart, RecPost, RecPostRefused, RecTaskDone, RecFail, RecDetails,
     RecStore, RecWriteStatus, RecTrack, RecFinal, RecUnregister, RecUnregisterNothing,
     RecFinalize, UpdateIfFresh, Accept
<1>2. CASE RecFault
  BY <1>2 DEF RecFault, RecKeysMissing, RecAddFails, RecUnregisterFails
<1>3. CASE EnvNext
  BY <1>3 DEF EnvNext, UserCreate, UserDelete, UserTouch, OdimAdd, OdimFinish, OdimRemove,
     Accept
<1> QED BY <1>1, <1>2, <1>3

-----------------------------------------------------------------------------
(* The lives of the objects, one object at a time.                         *)

LifecycleStep == [Lifecycle!Next]_(Lifecycle!vars)

\* Storing something under one name changes one phase and one system.
LEMMA OneObject ==
    ASSUME InventoryInv, NEW h \in Hosts, NEW o, obj' = [obj EXCEPT ![h] = o]
    PROVE  /\ [g \in Hosts |-> Phase(obj'[g])] =
                  [[g \in Hosts |-> Phase(obj[g])] EXCEPT ![h] = Phase(o)]
           /\ [g \in Hosts |-> System(obj'[g])] =
                  [[g \in Hosts |-> System(obj[g])] EXCEPT ![h] = System(o)]
BY DEF InventoryInv, InventoryTypeOK

\* Neither the objects nor ODIM's systems change.
LEMMA Stutter ==
    ASSUME UNCHANGED <<obj, registered>> PROVE LifecycleStep
BY DEF LifecycleStep, Lifecycle!vars

\* One object changes, in a way that BmcLifecycle allows.
LEMMA ObjectStep ==
    ASSUME InventoryInv, NEW h \in Hosts, NEW o, obj' = [obj EXCEPT ![h] = o],
           UNCHANGED registered,
           \/ Phase(o) = Phase(obj[h]) /\ System(o) = System(obj[h])
           \/ /\ Phase(obj[h]) = "absent" /\ Phase(o) = "requested"
              /\ System(o) = System(obj[h])
           \/ /\ Phase(obj[h]) = "requested" /\ Phase(o) = "managed"
              /\ System(o) = System(obj[h]) /\ System(o) # None
           \/ /\ Phase(obj[h]) = "requested" /\ Phase(o) = "absent"
              /\ System(o) = None
           \/ /\ Phase(obj[h]) \in {"requested", "managed"} /\ Phase(o) = "leaving"
              /\ System(o) = System(obj[h])
           \/ /\ Phase(obj[h]) = "leaving" /\ Phase(o) = "absent"
              /\ System(obj[h]) \notin registered /\ System(o) = None
           \/ /\ Phase(obj[h]) = "requested" /\ Phase(o) = "requested"
              /\ System(o) \in IdsOf(h)
           \/ /\ Phase(obj[h]) = "managed" /\ Phase(o) = "managed"
              /\ System(obj[h]) \notin registered /\ System(o) \in IdsOf(h)
    PROVE  LifecycleStep
<1> DEFINE phase == [g \in Hosts |-> Phase(obj[g])]
           system == [g \in Hosts |-> System(obj[g])]
<1>1. /\ phase' = [phase EXCEPT ![h] = Phase(o)]
      /\ system' = [system EXCEPT ![h] = System(o)]
  BY OneObject
<1>2. phase[h] = Phase(obj[h]) /\ system[h] = System(obj[h])
  OBVIOUS
<1>3. System(o) = System(obj[h]) => system' = system
  BY <1>1, <1>2
<1>4. Phase(o) = Phase(obj[h]) => phase' = phase
  BY <1>1, <1>2
<1>5. CASE Phase(o) = Phase(obj[h]) /\ System(o) = System(obj[h])
  BY <1>3, <1>4, <1>5 DEF LifecycleStep, Lifecycle!vars
<1>6. CASE /\ Phase(obj[h]) = "absent" /\ Phase(o) = "requested"
           /\ System(o) = System(obj[h])
  <2>1. Lifecycle!Request(h)
    BY <1>1, <1>2, <1>3, <1>6 DEF Lifecycle!Request, Lifecycle!Move
  <2> QED BY <2>1 DEF LifecycleStep, Lifecycle!Next
<1>7. CASE /\ Phase(obj[h]) = "requested" /\ Phase(o) = "managed"
           /\ System(o) = System(obj[h]) /\ System(o) # None
  <2>1. Lifecycle!Manage(h)
    BY <1>1, <1>2, <1>3, <1>7 DEF Lifecycle!Manage, Lifecycle!Move
  <2> QED BY <2>1 DEF LifecycleStep, Lifecycle!Next
<1>8. CASE /\ Phase(obj[h]) = "requested" /\ Phase(o) = "absent"
           /\ System(o) = None
  <2>1. Lifecycle!Drop(h)
    BY <1>1, <1>2, <1>8 DEF Lifecycle!Drop, Lifecycle!Move
  <2> QED BY <2>1 DEF LifecycleStep, Lifecycle!Next
<1>9. CASE /\ Phase(obj[h]) \in {"requested", "managed"} /\ Phase(o) = "leaving"
           /\ System(o) = System(obj[h])
  <2>1. Lifecycle!Leave(h)
    BY <1>1, <1>2, <1>3, <1>9 DEF Lifecycle!Leave, Lifecycle!Move
  <2> QED BY <2>1 DEF LifecycleStep, Lifecycle!Next
<1>10. CASE /\ Phase(obj[h]) = "leaving" /\ Phase(o) = "absent"
            /\ System(obj[h]) \notin registered /\ System(o) = None
  <2>1. Lifecycle!Gone(h)
    BY <1>1, <1>2, <1>10 DEF Lifecycle!Gone, Lifecycle!Move
  <2> QED BY <2>1 DEF LifecycleStep, Lifecycle!Next
<1>11. CASE /\ Phase(obj[h]) = "requested" /\ Phase(o) = "requested"
            /\ System(o) \in IdsOf(h)
  <2>1. Lifecycle!Name(h, System(o))
    BY <1>1, <1>2, <1>4, <1>11 DEF Lifecycle!Name
  <2> QED BY <1>11, <2>1 DEF LifecycleStep, Lifecycle!Next
<1>12. CASE /\ Phase(obj[h]) = "managed" /\ Phase(o) = "managed"
            /\ System(obj[h]) \notin registered /\ System(o) \in IdsOf(h)
  <2>1. Lifecycle!Rename(h, System(o))
    BY <1>1, <1>2, <1>4, <1>12 DEF Lifecycle!Rename
  <2> QED BY <1>12, <2>1 DEF LifecycleStep, Lifecycle!Next
<1> QED BY <1>5, <1>6, <1>7, <1>8, <1>9, <1>10, <1>11, <1>12

\* Client.Delete: an object with a finalizer leaves, one without is dropped, and
\* then its addition is not over.
LEMMA DeleteStep ==
    ASSUME InventoryInv, NEW h \in Hosts, Delete(h), UNCHANGED registered
    PROVE  LifecycleStep
<1> DEFINE o == AfterDelete(h)
<1>1. obj' = [obj EXCEPT ![h] = o]
  BY DEF Delete, Put
<1>2. CASE Exists(h) /\ obj[h].finalizer
  <2>1. o \in Bmc /\ o.deleting /\ o.BmcSystemID = obj[h].BmcSystemID
    BY <1>2, AfterDeleteGood
  <2>2. o # NoObject
    BY <2>1, InventoryAssumption
  <2>3. Phase(o) = "leaving" /\ System(o) = System(obj[h])
    BY <1>2, <2>1, <2>2 DEF Phase, System
  <2>4. Phase(obj[h]) \in {"requested", "managed", "leaving"}
    BY <1>2 DEF Phase
  <2> HIDE DEF o
  <2> QED BY <1>1, <2>3, <2>4, ObjectStep
<1>3. CASE Exists(h) /\ ~obj[h].finalizer
  <2>1. o = NoObject
    BY <1>3 DEF AfterDelete
  <2>2. Good(h, obj[h]) /\ obj[h] \in Bmc
    BY <1>3 DEF InventoryInv, InventoryTypeOK, KubeInv
  <2>3. Phase(obj[h]) = "requested"
    BY <1>3, <2>2 DEF Good, Phase, Bmc
  <2> QED BY <1>1, <2>1, <2>3, ObjectStep DEF Phase, System
<1>4. CASE ~Exists(h)
  BY <1>1, <1>4, ObjectStep DEF AfterDelete
<1> QED BY <1>2, <1>3, <1>4

\* A new object is requested.
LEMMA CreateStep ==
    ASSUME InventoryInv, NEW h \in Hosts, ~Exists(h), NEW o, o # NoObject,
           ~o.deleting, o.password = "plain", o.BmcSystemID = None,
           obj' = [obj EXCEPT ![h] = o], UNCHANGED registered
    PROVE  LifecycleStep
BY ObjectStep DEF Phase, System

-----------------------------------------------------------------------------
(* The steps of BmcInventory in these lives.                               *)

\* The updates of the reconciler's copy.
LEMMA RecUpdateStep ==
    ASSUME InventoryInv, RecStore \/ RecWriteStatus \/ RecFinal
    PROVE  LifecycleStep
<1>1. CASE recHost \notin fresh["rec"]
  BY <1>1, Stutter
     DEF RecStore, RecWriteStatus, RecFinal, UpdateIfFresh, kubeVars, odimVars
<1>2. CASE recHost \in fresh["rec"]
  <2> DEFINE o == obj[recHost]
  <2>1. /\ recHost \in Hosts /\ o \in Bmc /\ ~o.deleting /\ o.password = "plain"
        /\ recId \in IdsOf(recHost)
    BY <1>2, RecCopyGood
       DEF InventoryInv, RecInv, RecStore, RecWriteStatus, RecFinal, Done
  <2>2. o # NoObject /\ UNCHANGED registered /\ Phase(o) = "requested"
    BY <2>1, InventoryAssumption
       DEF RecStore, RecWriteStatus, RecFinal, odimVars, Phase
  <2>3. CASE RecStore
    <3> DEFINE new == [o EXCEPT !.finalizer = TRUE]
    <3>1. /\ obj' = [obj EXCEPT ![recHost] = new]
          /\ new \in Bmc /\ ~new.deleting /\ new.password = "plain"
          /\ new.BmcSystemID = o.BmcSystemID
      BY <1>2, <2>1, <2>3 DEF RecStore, UpdateIfFresh, Bmc
    <3> HIDE DEF new
    <3>2. Phase(new) = Phase(o) /\ System(new) = System(o)
      BY <2>2, <3>1, InventoryAssumption DEF Phase, System
    <3> QED BY <2>1, <2>2, <3>1, <3>2, ObjectStep
  <2>4. CASE RecWriteStatus
    <3> DEFINE new == [o EXCEPT !.BmcSystemID = recId]
    <3>1. /\ obj' = [obj EXCEPT ![recHost] = new]
          /\ new \in Bmc /\ ~new.deleting /\ new.password = "plain"
          /\ new.BmcSystemID = recId
      BY <1>2, <2>1, <2>4 DEF RecWriteStatus, UpdateIfFresh, Bmc
    <3> HIDE DEF new
    <3>2. Phase(new) = "requested" /\ System(new) = recId
      BY <3>1, InventoryAssumption DEF Phase, System
    <3> QED BY <2>1, <2>2, <3>1, <3>2, ObjectStep
  <2>5. CASE RecFinal
    <3> DEFINE new == [o EXCEPT !.password = "encrypted", !.systemId = recId]
    <3>1. /\ obj' = [obj EXCEPT ![recHost] = new]
          /\ new \in Bmc /\ ~new.deleting /\ new.password = "encrypted"
          /\ new.BmcSystemID = o.BmcSystemID
      BY <1>2, <2>1, <2>5 DEF RecFinal, Completed, UpdateIfFresh, Bmc
    <3>2. o.BmcSystemID = recId
      BY <1>2, <2>5 DEF InventoryInv, RecInv, RecFinal
    <3> HIDE DEF new
    <3>3. /\ Phase(new) = "managed"
          /\ System(new) = System(o) /\ System(new) # None
      BY <2>1, <2>2, <3>1, <3>2, InventoryAssumption DEF Phase, System
    <3> QED BY <2>1, <2>2, <3>1, <3>3, ObjectStep
  <2> QED BY <2>3, <2>4, <2>5
<1> QED BY <1>1, <1>2

\* The last step of a removal: the object goes, and its system has gone before.
LEMMA RecFinalizeStep ==
    ASSUME InventoryInv, RecFinalize PROVE LifecycleStep
<1>1. CASE recHost \notin fresh["rec"]
  BY <1>1, Stutter DEF RecFinalize, kubeVars, odimVars
<1>2. CASE recHost \in fresh["rec"]
  <2>1. /\ recHost \in Hosts /\ obj' = [obj EXCEPT ![recHost] = NoObject]
        /\ UNCHANGED registered
    BY <1>2 DEF RecFinalize, Put, odimVars, InventoryInv, RecInv
  <2>2. Phase(obj[recHost]) = "leaving" /\ System(obj[recHost]) \notin registered
    BY DEF RecFinalize, InventoryInv, RecInv, Phase, System
  <2> QED BY <2>1, <2>2, ObjectStep DEF Phase, System
<1> QED BY <1>1, <1>2

\* Whatever removes a system from ODIM.
LEMMA UnregisterStep ==
    ASSUME UNCHANGED obj, NEW i \in Ids, registered' = registered \ {i}
    PROVE  LifecycleStep
BY DEF LifecycleStep, Lifecycle!Next, Lifecycle!Unregister

\* The reconciler.
LEMMA RecLifecycle ==
    ASSUME InventoryInv, RecStep PROVE LifecycleStep
<1>1. CASE RecFail
  BY <1>1, DeleteStep DEF RecFail, InventoryInv, RecInv, odimVars
<1>2. CASE RecUnregister
  BY <1>2, UnregisterStep DEF RecUnregister, InventoryInv, InventoryTypeOK, kubeVars
<1>3. CASE UNCHANGED <<obj, registered>>
  BY <1>3, Stutter
<1> QED
  BY <1>1, <1>2, <1>3, RecUpdateStep, RecFinalizeStep
     DEF RecStep, RecStart, RecPost, RecPostRefused, RecTaskDone, RecDetails, RecTrack,
         RecUnregisterNothing, kubeVars, odimVars

\* Users, ODIM and faults.
LEMMA EnvLifecycle ==
    ASSUME InventoryInv, RecFault \/ EnvNext PROVE LifecycleStep
<1>1. ASSUME NEW h \in Hosts, RecKeysMissing(h) \/ UserDelete(h) PROVE LifecycleStep
  BY <1>1, DeleteStep DEF RecKeysMissing, UserDelete, odimVars
<1>2. ASSUME NEW h \in Hosts, UserCreate(h) PROVE LifecycleStep
  <2>1. NewBmc \in Bmc
    BY DEF NewBmc, Bmc
  <2>2. NewBmc # NoObject
    BY <2>1, InventoryAssumption
  <2>3. /\ ~NewBmc.deleting /\ NewBmc.password = "plain"
        /\ NewBmc.BmcSystemID = None
    BY DEF NewBmc
  <2>4. /\ ~Exists(h) /\ obj' = [obj EXCEPT ![h] = NewBmc]
        /\ UNCHANGED registered
    BY <1>2 DEF UserCreate, Put, odimVars
  <2> QED BY <2>2, <2>3, <2>4, CreateStep
<1>3. ASSUME NEW h \in Hosts, UserTouch(h) PROVE LifecycleStep
  BY <1>3, ObjectStep DEF UserTouch, Put, odimVars
<1>4. CASE RecUnregisterFails
  <2>1. CASE recStatus \in Ids /\ registered' = registered \ {recStatus}
    BY <1>4, <2>1, UnregisterStep DEF RecUnregisterFails, kubeVars
  <2>2. CASE UNCHANGED registered
    BY <1>4, <2>2, Stutter DEF RecUnregisterFails, kubeVars
  <2>3. recStatus \notin Ids => registered \ {recStatus} = registered
    BY DEF InventoryInv, InventoryTypeOK
  <2> QED BY <1>4, <2>1, <2>2, <2>3 DEF RecUnregisterFails
<1>5. ASSUME NEW i \in Ids, OdimFinish(i) PROVE LifecycleStep
  <2>1. \A j \in registered : HostOf[j] # HostOf[i]
    BY <1>5 DEF OdimFinish, InventoryInv, OdimInv, Done
  <2>2. Lifecycle!Register(i)
    BY <1>5, <2>1 DEF OdimFinish, Lifecycle!Register, kubeVars
  <2> QED BY <2>2 DEF LifecycleStep, Lifecycle!Next
<1>6. ASSUME NEW i \in Ids, OdimRemove(i) PROVE LifecycleStep
  BY <1>6, UnregisterStep DEF OdimRemove, kubeVars
<1>7. CASE UNCHANGED <<obj, registered>>
  BY <1>7, Stutter
<1> QED
  BY <1>1, <1>2, <1>3, <1>4, <1>5, <1>6, <1>7
     DEF RecFault, EnvNext, RecAddFails, OdimAdd, kubeVars, odimVars

\* At the start there is nothing.
LEMMA InitLifecycle ==
    ASSUME InventoryInit PROVE Lifecycle!Init
BY DEF InventoryInit, Lifecycle!Init, Phase, System
=============================================================================
