------------------------- MODULE BmcFirmwareProofs -------------------------
(***************************************************************************)
(* Proofs about BmcFirmware, for any versions, images and disturbances.    *)
(***************************************************************************)
EXTENDS BmcFirmware, TLAPS

-----------------------------------------------------------------------------
(* Objects and copies.                                                     *)

\* What is stored, and which copies of it are the stored ones.
StoredOK ==
    /\ bmc \in Versions \cup {None} /\ fw \in Firmware \cup {NoObject}
    /\ fresh \in [Procs -> SUBSET {"fw", "bmc"}]
    /\ queue \in BOOLEAN
    /\ \A p \in Procs : ("fw" \in fresh[p] => fw # NoObject) /\ ("bmc" \in fresh[p] => bmc # None)

LEMMA StoredIsOK == ASSUME Inv PROVE StoredOK
BY DEF Inv, TypeOK, CopiesInv, StoredOK

\* An update writes what is there already, or is refused.
LEMMA UpdateFirmwareOK ==
    ASSUME StoredOK, NEW p \in Procs, NEW k \in Procs \cup {None}, NEW o \in Firmware \cup {NoObject},
           fw # NoObject => o # NoObject, UpdateFirmware(p, k, o)
    PROVE  StoredOK'
<1>1. CASE "fw" \in fresh[p]
  <2>1. fw' = o /\ fw # NoObject /\ o # NoObject /\ bmc' = bmc /\ queue' = queue
    BY <1>1 DEF UpdateFirmware, StoredOK
  <2>2. fresh' = [q \in Procs |-> IF q = k THEN fresh[q] \cup {"fw"} ELSE fresh[q] \ {"fw"}]
    BY <1>1 DEF UpdateFirmware, Outdate
  <2> QED BY <2>1, <2>2 DEF StoredOK
<1>2. CASE "fw" \notin fresh[p]
  BY <1>2 DEF UpdateFirmware, StoredOK
<1> QED BY <1>1, <1>2

LEMMA UpdateBmcOK ==
    ASSUME StoredOK, NEW p \in Procs, NEW k \in Procs \cup {None}, NEW v \in Versions \cup {None},
           bmc # None => v # None, UpdateBmc(p, k, v)
    PROVE  StoredOK'
<1>1. CASE "bmc" \in fresh[p]
  <2>1. bmc' = v /\ bmc # None /\ v # None /\ fw' = fw /\ queue' = queue
    BY <1>1 DEF UpdateBmc, StoredOK
  <2>2. fresh' = [q \in Procs |-> IF q = k THEN fresh[q] \cup {"bmc"} ELSE fresh[q] \ {"bmc"}]
    BY <1>1 DEF UpdateBmc, Outdate
  <2> QED BY <2>1, <2>2 DEF StoredOK
<1>2. CASE "bmc" \notin fresh[p]
  BY <1>2 DEF UpdateBmc, StoredOK
<1> QED BY <1>1, <1>2

LEMMA ReadOK ==
    ASSUME StoredOK, NEW p \in Procs, NEW x \in {"fw", "bmc"}, Read(p, x),
           x = "fw" => fw # NoObject, x = "bmc" => bmc # None, UNCHANGED <<bmc, fw>>,
           queue' \in BOOLEAN
    PROVE  StoredOK'
<1>1. fresh' = [fresh EXCEPT ![p] = @ \cup {x}] /\ bmc' = bmc /\ fw' = fw
  BY DEF Read
<1>2. fresh' \in [Procs -> SUBSET {"fw", "bmc"}]
  BY <1>1 DEF StoredOK
<1>3. \A q \in Procs : fresh'[q] = IF q = p THEN fresh[q] \cup {x} ELSE fresh[q]
  BY <1>1 DEF StoredOK
<1>4. bmc' \in Versions \cup {None} /\ fw' \in Firmware \cup {NoObject}
  BY <1>1 DEF StoredOK
<1>5. \A q \in Procs : ("fw" \in fresh'[q] => fw' # NoObject) /\ ("bmc" \in fresh'[q] => bmc' # None)
  BY <1>1, <1>3 DEF StoredOK
<1> QED BY <1>2, <1>4, <1>5, Zenon DEF StoredOK

LEMMA ForgetOK ==
    ASSUME StoredOK, NEW p \in Procs, Forget(p), UNCHANGED <<bmc, fw, queue>>
    PROVE  StoredOK'
BY DEF Forget, StoredOK

LEMMA DeleteFirmwareOK ==
    ASSUME StoredOK, DeleteFirmware, UNCHANGED bmc
    PROVE  StoredOK'
<1>1. fw' = NoObject /\ bmc' = bmc /\ queue' = TRUE
  BY DEF DeleteFirmware
<1>2. fresh' = [q \in Procs |-> IF q = None THEN fresh[q] \cup {"fw"} ELSE fresh[q] \ {"fw"}]
  BY DEF DeleteFirmware, Outdate
<1>3. bmc' \in Versions \cup {None} /\ fw' \in Firmware \cup {NoObject}
  BY <1>1 DEF StoredOK
<1>4. fresh' \in [Procs -> SUBSET {"fw", "bmc"}]
  BY <1>2 DEF StoredOK
<1>5. \A q \in Procs : ("fw" \in fresh'[q] => fw' # NoObject) /\ ("bmc" \in fresh'[q] => bmc' # None)
  BY <1>1, <1>2, FirmwareAssumption DEF StoredOK
<1> QED BY <1>1, <1>3, <1>4, <1>5, Zenon DEF StoredOK

\* The image stays what it is, and with it whether it has to be flashed; or it counts as
\* flashed.
LEMMA LabelledOK ==
    ASSUME NEW o \in Firmware \cup {NoObject}
    PROVE  /\ Labelled(o) \in Firmware \cup {NoObject}
           /\ o # NoObject => Labelled(o) # NoObject
           /\ o # NoObject => /\ Labelled(o).image = o.image
                              /\ Labelled(o).labelled /\ Labelled(o).old = o.image
BY FirmwareAssumption DEF Labelled, Firmware

-----------------------------------------------------------------------------
(* The first state and the restarts.                                       *)

\* What Inv says of the processes alone.
ProcsOK ==
    /\ setup \in Setups /\ machine \in Versions /\ mark \in BOOLEAN
    /\ entry \in {"none", "added", "own"}
    /\ worker \in [pc : WorkerPlaces, path : Paths \cup {None}, version : Versions \cup {None}]
    /\ caller \in [Callers -> [pc : CallerPlaces, seen : Versions \cup {None},
                               path : Paths \cup {None}, version : Versions \cup {None}]]
    /\ revert \in [Slots -> [pc : {"idle", "post", "task", "settle"}, path : Paths \cup {None}]]
    /\ posted \in Paths \cup {None}
    /\ budget \in 0 .. setup.times

WorkerOK ==
    /\ worker.pc \in {"post", "task"} => worker.path \in Paths
    /\ worker.pc \in {"labels", "reread", "status", "bmc", "bmcStatus", "bmcLabels"}
          => worker.version \in Versions

CallersOK == \A c \in Callers :
    caller[c].pc \in {"accObject", "bmcStatus", "bmcLabels", "labels", "status"}
        => caller[c].version \in Versions

LEMMA InvParts == Inv <=> StoredOK /\ ProcsOK /\ WorkerOK /\ CallersOK /\ ModeInv /\ EditsInv
BY DEF Inv, TypeOK, CopiesInv, StoredOK, ProcsOK, WorkerOK, CallersOK

LEMMA InvNext ==
    ASSUME StoredOK', ProcsOK', WorkerOK', CallersOK', ModeInv', EditsInv'
    PROVE  Inv'
BY DEF Inv, TypeOK, CopiesInv, StoredOK, ProcsOK, WorkerOK, CallersOK

\* A disturbance takes one of those that were left.
LEMMA DisturbOK ==
    ASSUME ProcsOK, NEW kind, Disturb(kind)
    PROVE  budget' \in 0 .. setup.times
<1>1. setup.times \in Nat
  BY FirmwareAssumption DEF ProcsOK
<1> QED BY <1>1 DEF ProcsOK, Disturb

LEMMA IdleOK ==
    /\ NoWorker \in [pc : WorkerPlaces, path : Paths \cup {None}, version : Versions \cup {None}]
    /\ NoWorker.pc = "idle"
    /\ NoCaller \in [pc : CallerPlaces, seen : Versions \cup {None},
                     path : Paths \cup {None}, version : Versions \cup {None}]
    /\ NoCaller.pc = "idle"
    /\ NoRevert \in [pc : {"idle", "post", "task", "settle"}, path : Paths \cup {None}]
    /\ NoRevert.pc = "idle"
BY DEF NoWorker, NoCaller, NoRevert, WorkerPlaces, CallerPlaces

LEMMA InitOK ==
    ASSUME Init PROVE Inv
<1> USE FirmwareAssumption
<1>1. setup \in Setups /\ setup.times \in Nat /\ machine = Installs[FirstImage] /\ machine \in Versions
  BY DEF Init
<1>2. Applied(FirstImage) \in Firmware /\ ~(Applied(FirstImage).image # Applied(FirstImage).old)
      /\ Applied(FirstImage).labelled
  BY DEF Applied, Firmware
<1>3. StoredOK
  <2>1. fresh \in [Procs -> SUBSET {"fw", "bmc"}] /\ \A p \in Procs : fresh[p] = {}
    BY DEF Init
  <2>2. bmc \in Versions \cup {None} /\ fw \in Firmware \cup {NoObject}
    BY <1>1, <1>2 DEF Init
  <2>3. queue = FALSE
    BY DEF Init
  <2> QED BY <2>1, <2>2, <2>3, Zenon DEF StoredOK
<1>4. ProcsOK
  <2>1. setup.times \in 0 .. setup.times
    BY <1>1
  <2> QED BY <1>1, <2>1, IdleOK, Zenon DEF Init, Idle, ProcsOK
<1>5. WorkerOK /\ CallersOK
  BY IdleOK DEF Init, Idle, WorkerOK, CallersOK
<1>6. ModeInv
  BY IdleOK DEF Init, Idle, ModeInv
<1>7. ~HasWork
  BY <1>2 DEF Init, HasWork
<1> QED BY <1>3, <1>4, <1>5, <1>6, <1>7, InvParts DEF EditsInv

\* The object is listed again, and nothing else is left.
LEMMA RestartOK ==
    ASSUME Inv, Restart, budget' \in 0 .. setup.times
    PROVE  Inv'
<1>1. UNCHANGED <<setup, machine, bmc, fw, posted>> /\ mark' = FALSE /\ entry' = "none"
      /\ worker' = NoWorker /\ caller' = [c \in Callers |-> NoCaller]
      /\ revert' = [s \in Slots |-> NoRevert]
      /\ fresh' = [p \in Procs |-> {}] /\ queue' = (fw # NoObject)
  BY DEF Restart
<1>2. StoredOK'
  <2>1. fresh' \in [Procs -> SUBSET {"fw", "bmc"}] /\ \A p \in Procs : fresh'[p] = {}
    BY <1>1
  <2>2. bmc' \in Versions \cup {None} /\ fw' \in Firmware \cup {NoObject}
    BY <1>1, InvParts DEF StoredOK
  <2>3. queue' \in BOOLEAN
    BY <1>1, Zenon
  <2> QED BY <2>1, <2>2, <2>3, Zenon DEF StoredOK
<1>3. ProcsOK'
  BY <1>1, IdleOK, InvParts DEF ProcsOK
<1>4. WorkerOK' /\ CallersOK'
  BY <1>1, IdleOK DEF WorkerOK, CallersOK
<1>5. ModeInv'
  BY <1>1, IdleOK DEF ModeInv, Mode
<1>6. EditsInv'
  <2>1. HasWork' => fw # NoObject
    BY <1>1 DEF HasWork
  <2> QED BY <1>1, <2>1, Zenon DEF EditsInv
<1> QED BY <1>2, <1>3, <1>4, <1>5, <1>6, InvNext

-----------------------------------------------------------------------------
(* Edits.                                                                  *)

\* As long as the object has the image it had, and the worker is not about to ask for it.
LEMMA EditsKept ==
    ASSUME EditsInv, HasWork' => HasWork /\ fw'.image = fw.image, queue => queue',
           posted' = posted, worker.pc = "post" \/ worker'.pc = "post" => worker' = worker
    PROVE  EditsInv'
<1>1. SUFFICES ASSUME HasWork', posted' # fw'.image \/ worker'.pc = "post"
               PROVE  queue' \/ (worker'.pc = "post" /\ worker'.path = fw'.image)
  BY DEF EditsInv
<1>2. HasWork /\ fw'.image = fw.image
  BY <1>1
<1>3. posted # fw.image \/ worker.pc = "post"
  BY <1>1, <1>2
<1>4. queue \/ (worker.pc = "post" /\ worker.path = fw.image)
  BY <1>2, <1>3, Zenon DEF EditsInv
<1>5. CASE queue
  BY <1>5, Zenon
<1>6. CASE worker.pc = "post" /\ worker.path = fw.image
  BY <1>2, <1>6
<1> QED BY <1>4, <1>5, <1>6, Zenon

\* An update leaves the image and its mark alone, or marks the image as flashed.
LEMMA UpdateKeepsImage ==
    ASSUME StoredOK, NEW p \in Procs, NEW k, NEW o, UpdateFirmware(p, k, o),
           fw # NoObject => /\ o # NoObject /\ o.image = fw.image
                            /\ \/ o.labelled = fw.labelled /\ o.old = fw.old
                               \/ o.labelled /\ o.old = o.image
    PROVE  (HasWork' => HasWork /\ fw'.image = fw.image) /\ queue' = queue
<1>1. CASE "fw" \in fresh[p]
  <2>1. fw # NoObject /\ fw' = o
    BY <1>1 DEF UpdateFirmware, StoredOK
  <2> QED BY <2>1 DEF HasWork, UpdateFirmware
<1>2. CASE "fw" \notin fresh[p]
  BY <1>2 DEF UpdateFirmware, HasWork
<1> QED BY <1>1, <1>2

\* What GetFirmwareVersion leaves.
LEMMA GetVersionOK ==
    ASSUME Inv, NEW p \in Procs, NEW k \in Procs \cup {None}, NEW v,
           GetFirmwareVersion(p, k, v), setup' = setup
    PROVE  /\ StoredOK' /\ budget' \in 0 .. setup.times
           /\ (HasWork' => HasWork /\ fw'.image = fw.image) /\ queue' = queue
           /\ v \in Versions \cup {None}
<1>1. StoredOK /\ ProcsOK
  BY InvParts
<1>2. CASE v = None /\ Disturb("readFault") /\ UNCHANGED kubeVars
  <2>1. StoredOK'
    BY <1>1, <1>2, Zenon DEF StoredOK, kubeVars
  <2>2. budget' \in 0 .. setup.times
    BY <1>1, <1>2, DisturbOK
  <2> QED BY <1>2, <2>1, <2>2 DEF HasWork, kubeVars
<1>3. CASE v = (IF bmc = None THEN None ELSE machine) /\ UpdateFirmware(p, k, fw) /\ UNCHANGED budget
  <2>1. fw \in Firmware \cup {NoObject}
    BY <1>1 DEF StoredOK
  <2>2. StoredOK'
    BY <1>1, <1>3, <2>1, UpdateFirmwareOK
  <2>3. (HasWork' => HasWork /\ fw'.image = fw.image) /\ queue' = queue
    BY <1>1, <1>3, UpdateKeepsImage
  <2> QED BY <1>1, <1>3, <2>2, <2>3 DEF ProcsOK
<1> QED BY <1>2, <1>3 DEF GetFirmwareVersion

-----------------------------------------------------------------------------
(* Users, other clients and crashes.                                       *)

LEMMA ApplyOK ==
    ASSUME Inv, NEW p \in Paths, Apply(p) PROVE Inv'
<1> USE FirmwareAssumption
<1>1. /\ UNCHANGED <<setup, machine, bmc, mark, entry, worker, caller, revert>>
      /\ Disturb("apply") /\ queue' = TRUE /\ Outdate("fw", None) /\ posted' = None
  BY DEF Apply, procVars
<1>2. fw' \in Firmware
  <2>1. [image |-> p, labelled |-> FALSE, old |-> None, version |-> None, path |-> None] \in Firmware
    BY Zenon DEF Firmware
  <2>2. fw \in Firmware => [fw EXCEPT !.image = p] \in Firmware
    BY DEF Firmware
  <2> QED BY <2>1, <2>2, InvParts DEF Apply, StoredOK
<1>3. StoredOK'
  <2>1. fresh' = [q \in Procs |-> IF q = None THEN fresh[q] \cup {"fw"} ELSE fresh[q] \ {"fw"}]
    BY <1>1 DEF Outdate
  <2>2. fresh' \in [Procs -> SUBSET {"fw", "bmc"}]
    BY <2>1, InvParts DEF StoredOK
  <2>3. \A q \in Procs : "fw" \notin fresh'[q] /\ ("bmc" \in fresh'[q] => bmc' # None)
    BY <1>1, <2>1, InvParts DEF StoredOK
  <2>4. bmc' \in Versions \cup {None} /\ fw' # NoObject
    BY <1>1, <1>2, InvParts DEF StoredOK
  <2> QED BY <1>1, <1>2, <2>2, <2>3, <2>4, Zenon DEF StoredOK
<1>4. budget' \in 0 .. setup.times
  BY <1>1, InvParts, DisturbOK
<1>5. ProcsOK'
  BY <1>1, <1>4, InvParts, Zenon DEF ProcsOK
<1>6. WorkerOK' /\ CallersOK'
  BY <1>1, InvParts DEF WorkerOK, CallersOK
<1>7. ModeInv'
  BY <1>1, InvParts, Zenon DEF ModeInv, Mode
<1>8. EditsInv'
  BY <1>1, Zenon DEF EditsInv
<1> QED BY <1>3, <1>5, <1>6, <1>7, <1>8, InvNext

\* The objects and the machine change, the processes do not.
LEMMA OutsideOK ==
    ASSUME Inv, UNCHANGED <<setup, mark, procVars, posted>>, StoredOK', machine' \in Versions,
           entry' \in {entry, "none"},
           NEW kind, Disturb(kind), HasWork' => HasWork /\ fw'.image = fw.image,
           HasWork' => (queue => queue')
    PROVE  Inv'
<1>1. budget' \in 0 .. setup.times /\ entry' \in {"none", "added", "own"}
  BY InvParts, DisturbOK DEF ProcsOK
<1>2. ProcsOK'
  BY <1>1, InvParts, Zenon DEF ProcsOK, procVars
<1>3. WorkerOK' /\ CallersOK'
  BY InvParts DEF WorkerOK, CallersOK, procVars
<1>4. ModeInv'
  BY InvParts, Zenon DEF ModeInv, Mode, procVars
<1>5. worker' = worker
  BY DEF procVars
<1>6. ASSUME ~HasWork' PROVE EditsInv'
  BY <1>6, Zenon DEF EditsInv
<1>7. ASSUME HasWork' PROVE EditsInv'
  <2>1. EditsInv /\ posted' = posted /\ fw'.image = fw.image /\ HasWork
    BY <1>7, InvParts
  <2>2. queue => queue'
    BY <1>7, Zenon
  <2> QED BY <1>5, <2>1, <2>2, EditsKept
<1> QED BY <1>2, <1>3, <1>4, <1>6, <1>7, InvNext

LEMMA EnvironmentOK ==
    ASSUME Inv, UserDelete \/ Touch \/ Unmanage \/ Crash \/ \E v \in Versions : External(v)
    PROVE  Inv'
<1> USE FirmwareAssumption
<1>1. StoredOK /\ ProcsOK
  BY InvParts
<1>2. CASE UserDelete
  <2>1. StoredOK' /\ ~HasWork'
    BY <1>1, <1>2, DeleteFirmwareOK DEF UserDelete, DeleteFirmware, HasWork
  <2> QED BY <1>1, <1>2, <2>1, OutsideOK DEF UserDelete, ProcsOK
<1>3. ASSUME Outdate("bmc", None), bmc' \in Versions \cup {None}, UNCHANGED <<fw, queue>>
      PROVE  StoredOK'
  <2>1. fresh' = [q \in Procs |-> IF q = None THEN fresh[q] \cup {"bmc"} ELSE fresh[q] \ {"bmc"}]
    BY <1>3 DEF Outdate
  <2>2. fresh' \in [Procs -> SUBSET {"fw", "bmc"}]
    BY <1>1, <2>1 DEF StoredOK
  <2>3. \A q \in Procs : ("fw" \in fresh'[q] => fw' # NoObject) /\ "bmc" \notin fresh'[q]
    BY <1>1, <1>3, <2>1 DEF StoredOK
  <2> QED BY <1>1, <1>3, <2>2, <2>3, Zenon DEF StoredOK
<1>4. CASE Touch
  <2>1. StoredOK'
    BY <1>1, <1>3, <1>4 DEF Touch, StoredOK
  <2> QED BY <1>1, <1>4, <2>1, OutsideOK DEF Touch, ProcsOK, HasWork
<1>5. CASE Unmanage
  <2>1. StoredOK'
    BY <1>3, <1>5 DEF Unmanage
  <2> QED BY <1>1, <1>5, <2>1, OutsideOK DEF Unmanage, ProcsOK, HasWork
<1>6. CASE \E v \in Versions : External(v)
  <2>1. UNCHANGED <<bmc, fw, fresh, queue>>
    BY <1>6 DEF External, kubeVars
  <2>2. StoredOK'
    BY <1>1, <2>1, Zenon DEF StoredOK
  <2> QED BY <1>6, <2>1, <2>2, OutsideOK DEF External, HasWork
<1>7. CASE Crash
  BY <1>1, <1>7, DisturbOK, RestartOK DEF Crash
<1> QED BY <1>2, <1>4, <1>5, <1>6, <1>7

-----------------------------------------------------------------------------
(* FirmwareReconciler.                                                     *)

\* A step of the worker, between two requests or within one.
LEMMA WorkerStep ==
    ASSUME Inv, UNCHANGED <<setup, mark, entry, caller, revert>>, StoredOK',
           machine' \in Versions, budget' \in 0 .. setup.times, posted' \in Paths \cup {None},
           worker' \in [pc : WorkerPlaces, path : Paths \cup {None}, version : Versions \cup {None}],
           WorkerOK', EditsInv'
    PROVE  Inv'
<1>1. ProcsOK'
  BY InvParts, Zenon DEF ProcsOK
<1>2. CallersOK' /\ ModeInv'
  BY InvParts, Zenon DEF CallersOK, ModeInv, Mode
<1> QED BY <1>1, <1>2, InvNext

LEMMA WorkStartOK ==
    ASSUME Inv, WorkStart PROVE Inv'
<1>1. StoredOK /\ ProcsOK /\ WorkerOK /\ EditsInv
  BY InvParts
<1>2. UNCHANGED <<setup, machine, bmc, mark, entry, caller, revert, budget, posted>> /\ worker.pc = "idle"
  BY DEF WorkStart, WorkIn
<1>3. CASE HasWork /\ bmc = None
  <2>1. DeleteFirmware /\ worker' = worker
    BY <1>3 DEF WorkStart
  <2>2. ~HasWork'
    BY <2>1 DEF DeleteFirmware, HasWork
  <2>3. EditsInv'
    BY <2>2, Zenon DEF EditsInv
  <2> QED BY <1>1, <1>2, <2>1, <2>3, DeleteFirmwareOK, WorkerStep DEF ProcsOK, WorkerOK
<1>4. CASE HasWork /\ bmc # None
  <2>1. /\ worker' = [worker EXCEPT !.pc = "post", !.path = fw.image]
        /\ Read("worker", "fw") /\ queue' = FALSE /\ UNCHANGED fw
    BY <1>4 DEF WorkStart
  <2>2. fw # NoObject /\ fw.image \in Paths
    BY <1>1, <1>4 DEF HasWork, StoredOK, Firmware
  <2>3. StoredOK'
    <3>1. queue' \in BOOLEAN
      BY <2>1, Zenon
    <3> QED BY <1>1, <1>2, <2>1, <2>2, <3>1, ReadOK DEF Procs
  <2>4. worker' \in [pc : WorkerPlaces, path : Paths \cup {None}, version : Versions \cup {None}]
        /\ worker'.pc = "post" /\ worker'.path = fw.image
    BY <1>1, <2>1, <2>2 DEF ProcsOK, WorkerPlaces
  <2>5. WorkerOK' /\ EditsInv'
    BY <2>1, <2>2, <2>4 DEF WorkerOK, EditsInv
  <2> QED BY <1>1, <1>2, <2>3, <2>4, <2>5, WorkerStep DEF ProcsOK
<1>5. CASE ~HasWork
  <2>1. queue' = FALSE /\ UNCHANGED <<worker, fw, fresh>>
    BY <1>5 DEF WorkStart
  <2>2. ~HasWork'
    BY <1>5, <2>1 DEF HasWork
  <2>3. EditsInv'
    BY <2>2, Zenon DEF EditsInv
  <2>4. StoredOK'
    BY <1>1, <1>2, <2>1, Zenon DEF StoredOK
  <2> QED BY <1>1, <1>2, <2>1, <2>3, <2>4, WorkerStep DEF ProcsOK, WorkerOK
<1> QED BY <1>3, <1>4, <1>5

\* The image is asked for, or the client could not be made.
LEMMA WorkPostOK ==
    ASSUME Inv, WorkNoClient \/ WorkPost PROVE Inv'
<1>1. StoredOK /\ ProcsOK /\ WorkerOK /\ EditsInv
  BY InvParts
<1>2. worker.pc = "post" /\ worker.path \in Paths
  BY <1>1 DEF WorkNoClient, WorkPost, WorkIn, WorkerOK
<1>3. UNCHANGED <<setup, machine, bmc, fw, fresh, mark, entry, caller, revert>>
  BY DEF WorkNoClient, WorkPost, kubeVars
<1>4. CASE WorkNoClient
  <2>1. worker' = NoWorker /\ queue' = TRUE /\ posted' = posted /\ budget' \in 0 .. setup.times
    BY <1>1, <1>4, DisturbOK DEF WorkNoClient, WorkEnds
  <2>2. StoredOK'
    <3>1. queue' \in BOOLEAN
      BY <1>3, <2>1, Zenon
    <3> QED BY <1>1, <1>3, <3>1, Zenon DEF StoredOK
  <2>3. EditsInv'
    <3>1. HasWork' => fw # NoObject
      BY <1>3 DEF HasWork
    <3> QED BY <2>1, <3>1, Zenon DEF EditsInv
  <2>4. WorkerOK'
    BY <2>1, IdleOK DEF WorkerOK
  <2> QED BY <1>1, <1>3, <2>1, <2>2, <2>3, <2>4, IdleOK, WorkerStep DEF ProcsOK
<1>5. CASE WorkPost
  <2>1. posted' = worker.path /\ queue' = queue
        /\ worker' \in {NoWorker, [worker EXCEPT !.pc = "task"]}
    BY <1>5 DEF WorkPost, WorkTo, WorkEnds, kubeVars
  <2>2. budget' \in 0 .. setup.times
    BY <1>1, <1>5, DisturbOK DEF WorkPost, ProcsOK
  <2>3. worker' \in [pc : WorkerPlaces, path : Paths \cup {None}, version : Versions \cup {None}]
        /\ WorkerOK' /\ worker'.pc # "post"
    BY <1>1, <1>2, <2>1, IdleOK DEF ProcsOK, WorkerOK, WorkerPlaces
  <2>4. EditsInv'
    <3>1. HasWork => queue \/ worker.path = fw.image
      BY <1>1, <1>2, Zenon DEF EditsInv
    <3>2. HasWork' => HasWork
      BY <1>3 DEF HasWork
    <3>3. SUFFICES ASSUME HasWork', posted' # fw'.image PROVE queue'
      BY <2>3, Zenon DEF EditsInv
    <3>4. worker.path # fw.image
      BY <1>3, <2>1, <3>3
    <3> QED BY <2>1, <3>1, <3>2, <3>3, <3>4, Zenon
  <2>5. StoredOK'
    BY <1>1, <1>3, <2>1, Zenon DEF StoredOK
  <2> QED BY <1>1, <1>2, <1>3, <2>1, <2>2, <2>3, <2>4, <2>5, WorkerStep DEF ProcsOK
<1> QED BY <1>4, <1>5

\* A step past the request: what it writes is no new work.
LEMMA PastRequest ==
    ASSUME Inv, UNCHANGED <<setup, mark, entry, caller, revert, posted>>, StoredOK',
           machine' \in Versions, budget' \in 0 .. setup.times,
           worker' \in [pc : WorkerPlaces, path : Paths \cup {None}, version : Versions \cup {None}],
           WorkerOK', worker.pc # "post", worker'.pc # "post",
           HasWork' => HasWork /\ fw'.image = fw.image, queue' = queue
    PROVE  Inv'
<1>1. queue => queue'
  BY Zenon
<1>2. EditsInv'
  BY <1>1, InvParts, EditsKept
<1> QED BY <1>2, InvParts, WorkerStep DEF ProcsOK

LEMMA WorkTaskOK ==
    ASSUME Inv, WorkTask PROVE Inv'
<1> USE FirmwareAssumption
<1>1. StoredOK /\ ProcsOK /\ WorkerOK /\ worker.pc = "task" /\ worker.path \in Paths
  BY InvParts DEF WorkTask, WorkIn, WorkerOK
<1>2. UNCHANGED <<setup, bmc, fw, fresh, queue, mark, entry, caller, revert, posted>>
  BY DEF WorkTask, kubeVars
<1>3. /\ worker' \in {NoWorker, [worker EXCEPT !.pc = "settle"]}
      /\ machine' \in {machine, Installs[worker.path]}
  BY DEF WorkTask, WorkTo, WorkEnds, TaskDone
<1>4. budget' \in 0 .. setup.times
  BY <1>1, DisturbOK DEF WorkTask, TaskDone, TaskFails, ProcsOK
<1>5. /\ worker' \in [pc : WorkerPlaces, path : Paths \cup {None}, version : Versions \cup {None}]
      /\ WorkerOK' /\ worker'.pc # "post"
  BY <1>1, <1>3, IdleOK DEF ProcsOK, WorkerOK, WorkerPlaces
<1>6. StoredOK'
  BY <1>1, <1>2, Zenon DEF StoredOK
<1>7. HasWork' => HasWork /\ fw'.image = fw.image
  BY <1>2 DEF HasWork
<1> QED BY <1>1, <1>2, <1>3, <1>4, <1>5, <1>6, <1>7, PastRequest DEF ProcsOK

LEMMA WorkSettleOK ==
    ASSUME Inv, WorkSettle PROVE Inv'
<1>1. StoredOK /\ ProcsOK /\ WorkerOK /\ ModeInv /\ EditsInv /\ worker.pc = "settle"
  BY InvParts DEF WorkSettle, WorkIn
<1>2. CASE bmc = None
  BY <1>1, <1>2, RestartOK DEF WorkSettle, Panic, ProcsOK
<1>3. CASE bmc # None
  <2>1. /\ mark' = FALSE /\ worker' = [worker EXCEPT !.pc = "version", !.path = None]
        /\ UNCHANGED <<setup, machine, bmc, fw, fresh, queue, entry, caller, revert, budget, posted>>
    BY <1>3 DEF WorkSettle, MarkAfterFlash, kubeVars
  <2>2. /\ worker' \in [pc : WorkerPlaces, path : Paths \cup {None}, version : Versions \cup {None}]
        /\ WorkerOK' /\ worker'.pc # "post"
    BY <1>1, <2>1 DEF ProcsOK, WorkerOK, WorkerPlaces
  <2>3. ProcsOK'
    BY <1>1, <2>1, <2>2, Zenon DEF ProcsOK
  <2>4. StoredOK'
    BY <1>1, <2>1, Zenon DEF StoredOK
  <2>5. CallersOK'
    BY <2>1, InvParts DEF CallersOK
  <2>6. ModeInv'
    BY <1>1, <2>1, Zenon DEF ModeInv, Mode
  <2>7. HasWork' => HasWork /\ fw'.image = fw.image
    BY <2>1 DEF HasWork
  <2>8. EditsInv'
    <3>1. queue => queue'
      BY <2>1, Zenon
    <3> QED BY <1>1, <2>1, <2>2, <2>7, <3>1, EditsKept
  <2> QED BY <2>2, <2>3, <2>4, <2>5, <2>6, <2>8, InvNext
<1> QED BY <1>2, <1>3

LEMMA WorkVersionOK ==
    ASSUME Inv, WorkVersion PROVE Inv'
<1>1. ProcsOK /\ WorkerOK /\ worker.pc = "version" /\ "worker" \in Procs
  BY InvParts DEF WorkVersion, WorkIn, Procs
<1>2. PICK v \in Versions \cup {None} :
        /\ GetFirmwareVersion("worker", "worker", v)
        /\ worker' = IF v = None THEN NoWorker ELSE [worker EXCEPT !.pc = "labels", !.version = v]
  BY DEF WorkVersion
<1>3. UNCHANGED <<setup, machine, mark, entry, caller, revert, posted>>
  BY DEF WorkVersion
<1>4. /\ worker' \in [pc : WorkerPlaces, path : Paths \cup {None}, version : Versions \cup {None}]
      /\ WorkerOK' /\ worker'.pc # "post"
  BY <1>1, <1>2, IdleOK DEF ProcsOK, WorkerOK, WorkerPlaces
<1> QED BY <1>1, <1>2, <1>3, <1>4, GetVersionOK, PastRequest DEF ProcsOK

\* The steps that write or read an object each.
LEMMA WorkWritesOK ==
    ASSUME Inv, WorkLabels \/ WorkReread \/ WorkStatus \/ WorkBmc \/ WorkBmcStatus \/ WorkBmcLabels
    PROVE  Inv'
<1> USE FirmwareAssumption
<1>1. StoredOK /\ ProcsOK /\ WorkerOK /\ "worker" \in Procs
  BY InvParts DEF Procs
<1>2. /\ fw \in Firmware \cup {NoObject} /\ machine \in Versions /\ budget \in 0 .. setup.times
      /\ bmc \in Versions \cup {None}
  BY <1>1 DEF StoredOK, ProcsOK
<1>3. worker.pc \in {"labels", "reread", "status", "bmc", "bmcStatus", "bmcLabels"} /\ worker.version \in Versions
  BY <1>1 DEF WorkLabels, WorkReread, WorkStatus, WorkBmc, WorkBmcStatus, WorkBmcLabels, WorkIn, WorkerOK
<1>4. ASSUME NEW place \in {"reread", "status", "bmc", "bmcStatus", "bmcLabels"}, WorkTo(place)
      PROVE  /\ worker' \in [pc : WorkerPlaces, path : Paths \cup {None}, version : Versions \cup {None}]
             /\ WorkerOK' /\ worker'.pc # "post"
  BY <1>1, <1>3, <1>4 DEF WorkTo, ProcsOK, WorkerOK, WorkerPlaces
<1>5. ASSUME WorkEnds
      PROVE  /\ worker' \in [pc : WorkerPlaces, path : Paths \cup {None}, version : Versions \cup {None}]
             /\ WorkerOK' /\ worker'.pc # "post"
  BY <1>5, IdleOK DEF WorkEnds, WorkerOK
<1>6. ASSUME NEW o \in Firmware \cup {NoObject}, UpdateFirmware("worker", None, o),
             fw # NoObject => /\ o # NoObject /\ o.image = fw.image
                              /\ \/ o.labelled = fw.labelled /\ o.old = fw.old
                                 \/ o.labelled /\ o.old = o.image
      PROVE  StoredOK' /\ (HasWork' => HasWork /\ fw'.image = fw.image) /\ queue' = queue
  BY <1>1, <1>6, UpdateFirmwareOK, UpdateKeepsImage
<1>7. ASSUME fw' = fw PROVE HasWork' => HasWork /\ fw'.image = fw.image
  BY <1>7 DEF HasWork
<1>8. ASSUME NEW k \in Procs \cup {None}, NEW v \in Versions \cup {None}, bmc # None => v # None,
             UpdateBmc("worker", k, v)
      PROVE  StoredOK' /\ fw' = fw /\ queue' = queue
  BY <1>1, <1>8, UpdateBmcOK DEF UpdateBmc
<1>9. CASE WorkLabels
  BY <1>1, <1>2, <1>3, <1>4, <1>6, <1>9, LabelledOK, PastRequest DEF WorkLabels
<1>10. CASE WorkReread
  <2>1. UNCHANGED <<setup, machine, bmc, fw, queue, mark, entry, caller, revert, budget, posted>>
        /\ (Read("worker", "fw") \/ fresh' = fresh) /\ WorkTo("status")
        /\ (fw = NoObject => fresh' = fresh)
    BY <1>10 DEF WorkReread
  <2>2. queue \in BOOLEAN
    BY <1>1, Zenon DEF StoredOK
  <2>3. queue' \in BOOLEAN
    BY <2>1, <2>2, Zenon
  <2>4. CASE fresh' = fresh
    <3>1. StoredOK'
      BY <1>1, <2>1, <2>4, Zenon DEF StoredOK
    <3> QED BY <1>2, <1>3, <1>4, <1>7, <2>1, <3>1, PastRequest
  <2>5. CASE fw # NoObject /\ Read("worker", "fw")
    <3>1. StoredOK'
      BY <1>1, <2>1, <2>3, <2>5, ReadOK
    <3> QED BY <1>2, <1>3, <1>4, <1>7, <2>1, <3>1, PastRequest
  <2> QED BY <2>1, <2>4, <2>5
<1>11. CASE WorkStatus
  <2> DEFINE o == IF fw = NoObject THEN fw
                  ELSE [fw EXCEPT !.version = worker.version, !.path = fw.image]
  <2>1. o \in Firmware \cup {NoObject}
    BY <1>2, <1>3 DEF Firmware
  <2>2. fw # NoObject => o # NoObject /\ o.image = fw.image /\ o.labelled = fw.labelled /\ o.old = fw.old
    BY <1>2, <1>3, <2>1 DEF Firmware
  <2>3. UpdateFirmware("worker", None, o) /\ WorkTo("bmc")
        /\ UNCHANGED <<setup, machine, mark, entry, caller, revert, budget, posted>>
    BY <1>11 DEF WorkStatus
  <2>4. StoredOK' /\ (HasWork' => HasWork /\ fw'.image = fw.image) /\ queue' = queue
    BY <1>6, <2>1, <2>2, <2>3
  <2> QED BY <1>2, <1>3, <1>4, <2>3, <2>4, PastRequest
<1>12. CASE WorkBmc
  <2>1. CASE bmc = None
    BY <1>2, <1>12, <2>1, RestartOK DEF WorkBmc, Panic
  <2>2. CASE bmc # None
    <3>1. Read("worker", "bmc") /\ WorkTo("bmcStatus")
          /\ UNCHANGED <<setup, machine, bmc, fw, queue, mark, entry, caller, revert, budget, posted>>
      BY <1>12, <2>2 DEF WorkBmc
    <3>2. queue' \in BOOLEAN
      BY <1>1, <3>1, Zenon DEF StoredOK
    <3>3. StoredOK'
      BY <1>1, <2>2, <3>1, <3>2, ReadOK
    <3> QED BY <1>2, <1>3, <1>4, <1>7, <3>1, <3>3, PastRequest
  <2> QED BY <2>1, <2>2
<1>13. CASE WorkBmcStatus
  BY <1>1, <1>2, <1>3, <1>4, <1>7, <1>8, <1>13, PastRequest DEF WorkBmcStatus
<1>14. CASE WorkBmcLabels
  BY <1>1, <1>2, <1>3, <1>5, <1>7, <1>8, <1>14, PastRequest DEF WorkBmcLabels
<1> QED BY <1>9, <1>10, <1>11, <1>12, <1>13, <1>14

-----------------------------------------------------------------------------
(* Polling loop and events.                                                *)

CallerType == [pc : CallerPlaces, seen : Versions \cup {None}, path : Paths \cup {None},
               version : Versions \cup {None}]

\* Where the mode lets a caller be, and what it has there.
CallerAt(o) ==
    /\ o \in CallerType
    /\ o.pc \in {"accObject", "bmcStatus", "bmcLabels", "labels", "status"} => o.version \in Versions
    /\ Mode("Revert") => o.pc \in {"idle", "object", "version"}
    /\ Mode("Accommodate") => o.pc \notin {"object", "version"}

LEMMA CallerIsAt ==
    ASSUME Inv, NEW c \in Callers
    PROVE  CallerAt(caller[c]) /\ c \in Procs
BY InvParts DEF CallerAt, CallerType, ProcsOK, CallersOK, ModeInv, Procs

\* A step of one caller, whose writes are no new work and which starts no goroutine.
LEMMA CallerStepOK ==
    ASSUME Inv, NEW c \in Callers, UNCHANGED <<setup, machine, mark, entry, worker, revert, posted>>,
           StoredOK', budget' \in 0 .. setup.times,
           NEW o, CallerAt(o), caller' = [caller EXCEPT ![c] = o],
           HasWork' => HasWork /\ fw'.image = fw.image, queue' = queue
    PROVE  Inv'
<1>1. ProcsOK /\ WorkerOK /\ CallersOK /\ ModeInv /\ EditsInv
  BY InvParts
<1>2. caller' \in [Callers -> CallerType] /\ \A d \in Callers : caller'[d] = IF d = c THEN o ELSE caller[d]
  BY <1>1 DEF ProcsOK, CallerType, CallerAt
<1>3. ProcsOK'
  BY <1>1, <1>2, Zenon DEF ProcsOK, CallerType
<1>4. CallersOK' /\ WorkerOK'
  BY <1>1, <1>2 DEF CallersOK, CallerAt, WorkerOK
<1>5. ModeInv'
  <2>1. Mode("Revert")' = Mode("Revert") /\ Mode("Accommodate")' = Mode("Accommodate")
    BY DEF Mode
  <2>2. Mode("Revert") => \A d \in Callers : caller'[d].pc \in {"idle", "object", "version"}
    BY <1>1, <1>2 DEF ModeInv, CallerAt
  <2>3. Mode("Accommodate") => \A d \in Callers : caller'[d].pc \notin {"object", "version"}
    BY <1>1, <1>2 DEF ModeInv, CallerAt
  <2> QED BY <1>1, <2>1, <2>2, <2>3, Zenon DEF ModeInv
<1>6. EditsInv'
  <2>1. queue => queue'
    BY Zenon
  <2> QED BY <1>1, <2>1, EditsKept
<1> QED BY <1>3, <1>4, <1>5, <1>6, InvNext

LEMMA NoCallerIsAt == CallerAt(NoCaller)
BY DEF CallerAt, CallerType, NoCaller, CallerPlaces

LEMMA CallerStartOK ==
    ASSUME Inv, NEW c \in Callers, CallerStart(c) PROVE Inv'
<1>1. StoredOK /\ ProcsOK /\ CallerAt(caller[c]) /\ c \in Procs
  BY InvParts, CallerIsAt
<1>2. /\ UNCHANGED <<setup, machine, bmc, fw, queue, mark, entry, worker, revert, posted>> /\ bmc # None
      /\ caller' = [caller EXCEPT ![c] = [@ EXCEPT !.seen = bmc,
                        !.pc = IF Mode("Revert") THEN "object" ELSE "manager"]]
      /\ IF Mode("Revert") THEN UNCHANGED fresh ELSE Read(c, "bmc")
  BY DEF CallerStart
<1>3. budget' \in 0 .. setup.times
  BY <1>1, DisturbOK DEF CallerStart, ProcsOK
<1>4. StoredOK'
  <2>1. queue' \in BOOLEAN
    BY <1>1, <1>2, Zenon DEF StoredOK
  <2>2. CASE Mode("Revert")
    BY <1>1, <1>2, <2>2, Zenon DEF StoredOK
  <2>3. CASE ~Mode("Revert")
    BY <1>1, <1>2, <2>1, <2>3, ReadOK
  <2> QED BY <2>2, <2>3
<1> DEFINE o == [caller[c] EXCEPT !.seen = bmc, !.pc = IF Mode("Revert") THEN "object" ELSE "manager"]
<1>5. CallerAt(o)
  BY <1>1 DEF CallerAt, CallerType, CallerPlaces, StoredOK, Mode
<1>6. caller' = [caller EXCEPT ![c] = o]
  BY <1>2
<1> HIDE DEF o
<1> QED BY <1>2, <1>3, <1>4, <1>5, <1>6, CallerStepOK DEF HasWork

LEMMA PollFirstOK ==
    ASSUME Inv, PollFirst PROVE Inv'
<1>1. UNCHANGED <<setup, machine, bmc, fw, fresh, queue, mark, worker, caller, revert, posted, budget>>
      /\ entry' = "added"
  BY DEF PollFirst, kubeVars, procVars
<1>2. entry' \in {"none", "added", "own"}
  BY <1>1
<1>3. StoredOK' /\ ProcsOK'
  BY <1>1, <1>2, InvParts, Zenon DEF StoredOK, ProcsOK
<1>4. WorkerOK' /\ CallersOK'
  BY <1>1, InvParts DEF WorkerOK, CallersOK
<1>5. ModeInv'
  BY <1>1, InvParts, Zenon DEF ModeInv, Mode
<1>6. EditsInv'
  <2>1. queue => queue'
    BY <1>1, Zenon
  <2>2. HasWork' => HasWork /\ fw'.image = fw.image
    BY <1>1 DEF HasWork
  <2> QED BY <1>1, <2>1, <2>2, InvParts, EditsKept
<1> QED BY <1>3, <1>4, <1>5, <1>6, InvNext

\* The poll leaves a marked machine alone; without Firmware object there is nothing to do.
LEMMA RevertObjectOK ==
    ASSUME Inv, NEW c \in Callers, RevertObject(c) PROVE Inv'
<1>1. StoredOK /\ ProcsOK /\ CallerAt(caller[c]) /\ c \in Procs /\ caller[c].pc = "object"
  BY InvParts, CallerIsAt DEF RevertObject, CallerIn
<1>2. UNCHANGED <<setup, machine, bmc, fw, queue, mark, entry, worker, revert, budget, posted>>
  BY DEF RevertObject
<1>3. CASE MayRevert(c) /\ fw # NoObject
  <2> DEFINE o == [caller[c] EXCEPT !.pc = "version", !.path = fw.path]
  <2>1. caller' = [caller EXCEPT ![c] = o] /\ Read(c, "fw")
    BY <1>1, <1>3 DEF RevertObject, ProcsOK, CallerAt, CallerType
  <2>2. fw.path \in Paths \cup {None}
    BY <1>1, <1>3 DEF StoredOK, Firmware
  <2>3. CallerAt(o)
    BY <1>1, <2>2 DEF CallerAt, CallerType, CallerPlaces
  <2>4. StoredOK'
    <3>1. queue' \in BOOLEAN
      BY <1>1, <1>2, Zenon DEF StoredOK
    <3> QED BY <1>1, <1>2, <1>3, <2>1, <3>1, ReadOK
  <2> HIDE DEF o
  <2> QED BY <1>1, <1>2, <2>1, <2>3, <2>4, CallerStepOK DEF HasWork, ProcsOK
<1>4. CASE ~(MayRevert(c) /\ fw # NoObject)
  <2>1. caller' = [caller EXCEPT ![c] = NoCaller] /\ fresh' = fresh
    BY <1>4 DEF RevertObject, CallerEnds
  <2>2. StoredOK'
    BY <1>1, <1>2, <2>1, Zenon DEF StoredOK
  <2> QED BY <1>1, <1>2, <2>1, <2>2, NoCallerIsAt, CallerStepOK DEF HasWork, ProcsOK
<1> QED BY <1>3, <1>4

\* Only Revert gets here, and starts a goroutine.
LEMMA RevertVersionOK ==
    ASSUME Inv, NEW c \in Callers, RevertVersion(c) PROVE Inv'
<1>1. ProcsOK /\ CallerAt(caller[c]) /\ c \in Procs /\ caller[c].pc = "version"
  BY InvParts, CallerIsAt DEF RevertVersion, CallerIn
<1>2. UNCHANGED <<setup, machine, entry, worker, posted>> /\ caller' = [caller EXCEPT ![c] = NoCaller]
  BY DEF RevertVersion, CallerEnds
<1>3. PICK v \in Versions \cup {None} :
        /\ GetFirmwareVersion(c, None, v)
        /\ IF v # caller[c].seen THEN \E s \in Slots : Spawn(s, caller[c].path)
           ELSE UNCHANGED <<mark, revert>>
  BY DEF RevertVersion
<1>4. /\ StoredOK' /\ budget' \in 0 .. setup.times
      /\ (HasWork' => HasWork /\ fw'.image = fw.image) /\ queue' = queue
  BY <1>1, <1>2, <1>3, GetVersionOK
<1>5. CASE UNCHANGED <<mark, revert>>
  BY <1>2, <1>4, <1>5, NoCallerIsAt, CallerStepOK
<1>6. ASSUME NEW s \in Slots, Spawn(s, caller[c].path) PROVE Inv'
  <2>1. mark' = TRUE /\ revert' = [revert EXCEPT ![s] = [pc |-> "post", path |-> caller[c].path]]
    BY <1>6 DEF Spawn
  <2>2. revert' \in [Slots -> [pc : {"idle", "post", "task", "settle"}, path : Paths \cup {None}]]
    BY <1>1, <2>1 DEF ProcsOK, CallerAt, CallerType
  <2>3. caller' \in [Callers -> CallerType] /\ \A d \in Callers : caller'[d] = IF d = c THEN NoCaller ELSE caller[d]
    BY <1>1, <1>2, NoCallerIsAt DEF ProcsOK, CallerType, CallerAt
  <2>4. ProcsOK'
    BY <1>1, <1>2, <1>4, <2>1, <2>2, <2>3, Zenon DEF ProcsOK, CallerType
  <2>5. CallersOK' /\ WorkerOK'
    BY <1>2, <2>3, NoCallerIsAt, InvParts DEF CallersOK, CallerAt, WorkerOK
  <2>6. ModeInv'
    <3>1. ~Mode("Accommodate")
      BY <1>1 DEF CallerAt
    <3>2. Mode("Revert")' = Mode("Revert") /\ Mode("Accommodate")' = Mode("Accommodate")
      BY <1>2 DEF Mode
    <3>3. Mode("Revert") => \A d \in Callers : caller'[d].pc \in {"idle", "object", "version"}
      BY <2>3, NoCallerIsAt, InvParts DEF ModeInv, CallerAt
    <3> QED BY <3>1, <3>2, <3>3, Zenon DEF ModeInv
  <2>7. EditsInv'
    <3>1. queue => queue'
      BY <1>4, Zenon
    <3> QED BY <1>2, <1>4, <3>1, InvParts, EditsKept
  <2> QED BY <1>4, <2>4, <2>5, <2>6, <2>7, InvNext
<1> QED BY <1>3, <1>5, <1>6

\* GetManagerDetails and the look at the object.
LEMMA AccReadsOK ==
    ASSUME Inv, NEW c \in Callers, AccManager(c) \/ AccNoManager(c) \/ AccRefused(c) \/ AccObject(c)
    PROVE  Inv'
<1>0. CASE AccRefused(c) /\ c = "poll"
  <2>1. Restart /\ (UNCHANGED budget \/ Disturb("readFault"))
    BY <1>0 DEF AccRefused
  <2>2. budget' \in 0 .. setup.times
    BY <2>1, InvParts, DisturbOK DEF ProcsOK
  <2> QED BY <2>1, <2>2, RestartOK
<1> SUFFICES ASSUME ~(AccRefused(c) /\ c = "poll") PROVE Inv'
  BY <1>0
<1>1. StoredOK /\ ProcsOK /\ CallerAt(caller[c]) /\ c \in Procs
  BY InvParts, CallerIsAt
<1>2. UNCHANGED <<setup, machine, bmc, fw, queue, mark, entry, worker, revert, posted>>
  BY DEF AccManager, AccNoManager, AccRefused, AccObject, kubeVars
<1>3. ASSUME Forget(c) \/ fresh' = fresh PROVE StoredOK'
  BY <1>1, <1>2, <1>3, ForgetOK, Zenon DEF StoredOK
<1>4. CASE caller' = [caller EXCEPT ![c] = NoCaller] /\ (Forget(c) \/ fresh' = fresh) /\ budget' \in 0 .. setup.times
  BY <1>2, <1>3, <1>4, NoCallerIsAt, CallerStepOK DEF HasWork
<1>5. CASE AccManager(c)
  <2> DEFINE o == [caller[c] EXCEPT !.pc = "accObject", !.version = machine]
  <2>1. CallerAt(o)
    BY <1>1, <1>5 DEF AccManager, CallerIn, CallerAt, CallerType, CallerPlaces, ProcsOK
  <2>2. caller' = [caller EXCEPT ![c] = o] /\ UNCHANGED <<fresh, budget>>
    BY <1>1, <1>5 DEF AccManager, ProcsOK, CallerAt, CallerType, kubeVars
  <2>3. budget' \in 0 .. setup.times
    BY <1>1, <2>2 DEF ProcsOK
  <2> HIDE DEF o
  <2> QED BY <1>2, <1>3, <2>1, <2>2, <2>3, CallerStepOK DEF HasWork
<1>6. CASE AccNoManager(c) \/ AccRefused(c)
  <2>1. CallerEnds(c) /\ Forget(c) /\ (UNCHANGED budget \/ Disturb("readFault"))
    BY <1>6 DEF AccNoManager, AccRefused
  <2> QED BY <1>1, <1>4, <2>1, DisturbOK DEF CallerEnds, ProcsOK
<1>7. CASE AccObject(c)
  <2>1. CASE fw # NoObject /\ Differs(c)
    <3> DEFINE o == [caller[c] EXCEPT !.pc = "bmcStatus"]
    <3>1. caller' = [caller EXCEPT ![c] = o] /\ Read(c, "fw") /\ budget' = budget
      BY <1>1, <1>7, <2>1 DEF AccObject, ProcsOK, CallerAt, CallerType
    <3>2. CallerAt(o)
      BY <1>1, <1>7 DEF AccObject, CallerIn, CallerAt, CallerType, CallerPlaces
    <3>3. queue' \in BOOLEAN
      BY <1>1, <1>2, Zenon DEF StoredOK
    <3>4. StoredOK'
      BY <1>1, <1>2, <2>1, <3>1, <3>3, ReadOK
    <3> HIDE DEF o
    <3> QED BY <1>1, <1>2, <3>1, <3>2, <3>4, CallerStepOK DEF HasWork, ProcsOK
  <2>2. CASE ~(fw # NoObject /\ Differs(c))
    BY <1>1, <1>4, <1>7, <2>2 DEF AccObject, CallerEnds, ProcsOK
  <2> QED BY <2>1, <2>2
<1> QED BY <1>5, <1>6, <1>7

\* The updates of the Bmc object.
LEMMA AccBmcOK ==
    ASSUME Inv, NEW c \in Callers, AccBmcStatus(c) \/ AccBmcLabels(c) PROVE Inv'
<1> USE FirmwareAssumption
<1>1. StoredOK /\ ProcsOK /\ CallerAt(caller[c]) /\ c \in Procs
  BY InvParts, CallerIsAt
<1>2. UNCHANGED <<setup, machine, mark, entry, worker, revert, budget, posted>> /\ caller[c].version \in Versions
  BY <1>1 DEF AccBmcStatus, AccBmcLabels, CallerIn, CallerAt
<1>3. PICK k \in Procs \cup {None}, v \in Versions \cup {None} :
        UpdateBmc(c, k, v) /\ (bmc # None => v # None)
  BY <1>1, <1>2 DEF AccBmcStatus, AccBmcLabels, StoredOK
<1>4. StoredOK' /\ fw' = fw /\ queue' = queue
  BY <1>1, <1>3, UpdateBmcOK DEF UpdateBmc
<1>5. \E o : CallerAt(o) /\ caller' = [caller EXCEPT ![c] = o]
  <2>1. CASE AccBmcStatus(c)
    <3> DEFINE o == [caller[c] EXCEPT !.pc = "bmcLabels", !.seen = None]
    <3>1. caller' = [caller EXCEPT ![c] = o]
      BY <1>1, <2>1 DEF AccBmcStatus, ProcsOK, CallerAt, CallerType
    <3>2. CallerAt(o)
      BY <1>1, <2>1 DEF AccBmcStatus, CallerIn, CallerAt, CallerType, CallerPlaces
    <3> QED BY <3>1, <3>2
  <2>2. CASE AccBmcLabels(c)
    <3> DEFINE o == [caller[c] EXCEPT !.pc = "labels"]
    <3>1. caller' = [caller EXCEPT ![c] = o]
      BY <1>1, <2>2 DEF AccBmcLabels, CallerTo, ProcsOK, CallerAt, CallerType
    <3>2. CallerAt(o)
      BY <1>1, <2>2 DEF AccBmcLabels, CallerIn, CallerAt, CallerType, CallerPlaces
    <3> QED BY <3>1, <3>2
  <2> QED BY <2>1, <2>2
<1> QED BY <1>1, <1>2, <1>4, <1>5, CallerStepOK DEF HasWork, ProcsOK

\* The updates of the Firmware object: its image stays, or counts as flashed.
LEMMA AccFirmwareOK ==
    ASSUME Inv, NEW c \in Callers, AccLabels(c) \/ AccStatus(c) PROVE Inv'
<1> USE FirmwareAssumption
<1>1. StoredOK /\ ProcsOK /\ CallerAt(caller[c]) /\ c \in Procs /\ fw \in Firmware \cup {NoObject}
  BY InvParts, CallerIsAt DEF StoredOK
<1>2. UNCHANGED <<setup, machine, mark, entry, worker, revert, budget, posted>> /\ caller[c].version \in Versions
  BY <1>1 DEF AccLabels, AccStatus, CallerIn, CallerAt
<1>3. CASE AccLabels(c)
  <2> DEFINE o == [caller[c] EXCEPT !.pc = "status"]
  <2>1. UpdateFirmware(c, c, Labelled(fw)) /\ caller' = [caller EXCEPT ![c] = o]
    BY <1>1, <1>3 DEF AccLabels, CallerTo, ProcsOK, CallerAt, CallerType
  <2>2. CallerAt(o)
    BY <1>1, <1>3 DEF AccLabels, CallerIn, CallerAt, CallerType, CallerPlaces
  <2>3. StoredOK' /\ (HasWork' => HasWork /\ fw'.image = fw.image) /\ queue' = queue
    BY <1>1, <2>1, LabelledOK, UpdateFirmwareOK, UpdateKeepsImage
  <2> HIDE DEF o
  <2> QED BY <1>1, <1>2, <2>1, <2>2, <2>3, CallerStepOK DEF ProcsOK
<1>4. CASE AccStatus(c)
  <2> DEFINE f == IF fw = NoObject THEN fw
                  ELSE [fw EXCEPT !.version = caller[c].version, !.path = getImagePath[caller[c].version]]
  <2>1. f \in Firmware \cup {NoObject}
    BY <1>1, <1>2 DEF Firmware
  <2>2. fw # NoObject => f # NoObject /\ f.image = fw.image /\ f.labelled = fw.labelled /\ f.old = fw.old
    BY <1>1, <1>2, <2>1 DEF Firmware
  <2>3. UpdateFirmware(c, None, f) /\ caller' = [caller EXCEPT ![c] = NoCaller]
    BY <1>4 DEF AccStatus, CallerEnds
  <2>4. StoredOK' /\ (HasWork' => HasWork /\ fw'.image = fw.image) /\ queue' = queue
    BY <1>1, <2>1, <2>2, <2>3, UpdateFirmwareOK, UpdateKeepsImage
  <2> QED BY <1>1, <1>2, <2>3, <2>4, NoCallerIsAt, CallerStepOK DEF ProcsOK
<1> QED BY <1>3, <1>4

LEMMA CallerOK ==
    ASSUME Inv, NEW c \in Callers, CallerStart(c) \/ CallerStep(c) PROVE Inv'
BY CallerStartOK, RevertObjectOK, RevertVersionOK, AccReadsOK, AccBmcOK, AccFirmwareOK DEF CallerStep

-----------------------------------------------------------------------------
(* The goroutines of Revert.                                               *)

LEMMA RevertOK ==
    ASSUME Inv, NEW s \in Slots, RevertStep(s) PROVE Inv'
<1> USE FirmwareAssumption
<1>1. StoredOK /\ ProcsOK /\ WorkerOK /\ CallersOK /\ ModeInv /\ EditsInv
  BY InvParts
<1>2. CASE RevertSettle(s) /\ bmc = None
  BY <1>1, <1>2, RestartOK DEF RevertSettle, Panic, ProcsOK
<1>3. CASE ~(RevertSettle(s) /\ bmc = None)
  <2>1. UNCHANGED <<setup, bmc, fw, fresh, queue, entry, worker, caller, posted>> /\ revert[s].pc # "idle"
    BY <1>3 DEF RevertStep, RevertPost, RevertTask, RevertSettle, kubeVars
  <2>2. mark' \in {mark, FALSE}
    BY <1>3 DEF RevertStep, RevertPost, RevertTask, RevertSettle, MarkAfterFlash
  <2>3. budget' \in 0 .. setup.times
    BY <1>1, <1>3, DisturbOK DEF RevertStep, RevertPost, RevertTask, RevertSettle, TaskDone, TaskFails, ProcsOK
  <2>4. revert[s].path \in Paths \cup {None}
    BY <1>1 DEF ProcsOK
  <2>5. machine' \in Versions
    <3>1. machine' = machine \/ (revert[s].path # None /\ machine' = Installs[revert[s].path])
      BY <1>3 DEF RevertStep, RevertPost, RevertTask, RevertSettle, TaskDone
    <3> QED BY <1>1, <2>4, <3>1 DEF ProcsOK
  <2>6. revert' \in [Slots -> [pc : {"idle", "post", "task", "settle"}, path : Paths \cup {None}]]
    <3>1. \/ revert' = [revert EXCEPT ![s] = NoRevert]
          \/ \E place \in {"task", "settle"} : revert' = [revert EXCEPT ![s].pc = place]
      BY <1>3 DEF RevertStep, RevertPost, RevertTask, RevertSettle, RevertTo, RevertEnds
    <3> DEFINE T == [pc : {"idle", "post", "task", "settle"}, path : Paths \cup {None}]
    <3>2. revert \in [Slots -> T] /\ revert[s] \in T
      BY <1>1 DEF ProcsOK
    <3>3. NoRevert \in T /\ \A place \in {"task", "settle"} : [revert[s] EXCEPT !.pc = place] \in T
      BY <3>2, IdleOK
    <3> HIDE DEF T
    <3>4. revert' \in [Slots -> T]
      BY <3>1, <3>2, <3>3
    <3> QED BY <3>4 DEF T
  <2>7. mark' \in BOOLEAN
    BY <1>1, <2>2, Zenon DEF ProcsOK
  <2>8. ProcsOK'
    BY <1>1, <2>1, <2>3, <2>5, <2>6, <2>7, Zenon DEF ProcsOK
  <2>9. StoredOK'
    BY <1>1, <2>1, Zenon DEF StoredOK
  <2>10. WorkerOK' /\ CallersOK'
    BY <1>1, <2>1 DEF WorkerOK, CallersOK
  <2>11. ModeInv'
    <3>1. ~Mode("Accommodate")
      BY <1>1, <2>1, IdleOK DEF ModeInv
    <3> QED BY <1>1, <2>1, <3>1, Zenon DEF ModeInv, Mode
  <2>12. EditsInv'
    <3>1. queue => queue'
      BY <2>1, Zenon
    <3>2. HasWork' => HasWork /\ fw'.image = fw.image
      BY <2>1 DEF HasWork
    <3> QED BY <1>1, <2>1, <3>1, <3>2, EditsKept
  <2> QED BY <2>8, <2>9, <2>10, <2>11, <2>12, InvNext
<1> QED BY <1>2, <1>3

-----------------------------------------------------------------------------
(* The theorems.                                                           *)

LEMMA NextOK ==
    ASSUME Inv, [Next]_vars PROVE Inv'
<1>1. CASE Work
  BY <1>1, WorkStartOK, WorkPostOK, WorkTaskOK, WorkSettleOK, WorkVersionOK, WorkWritesOK DEF Work
<1>2. CASE PollFirst \/ \E c \in Callers : CallerStart(c) \/ CallerStep(c)
  BY <1>2, PollFirstOK, CallerOK
<1>3. CASE \E s \in Slots : RevertStep(s)
  BY <1>3, RevertOK
<1>4. CASE \E p \in Paths : Apply(p)
  BY <1>4, ApplyOK
<1>5. CASE UserDelete \/ Touch \/ Unmanage \/ Crash \/ \E v \in Versions : External(v)
  BY <1>5, EnvironmentOK
<1>6. CASE UNCHANGED vars
  <2>1. UNCHANGED <<setup, machine, bmc, fw, fresh, queue, mark, entry, worker, caller, revert, posted, budget>>
    BY <1>6 DEF vars, kubeVars, procVars
  <2>2. StoredOK' /\ ProcsOK'
    BY <2>1, InvParts, Zenon DEF StoredOK, ProcsOK
  <2>3. WorkerOK' /\ CallersOK'
    BY <2>1, InvParts DEF WorkerOK, CallersOK
  <2>4. ModeInv'
    BY <2>1, InvParts, Zenon DEF ModeInv, Mode
  <2>5. EditsInv'
    <3>1. queue => queue'
      BY <2>1, Zenon
    <3>2. HasWork' => HasWork /\ fw'.image = fw.image
      BY <2>1 DEF HasWork
    <3> QED BY <2>1, <3>1, <3>2, InvParts, EditsKept
  <2> QED BY <2>2, <2>3, <2>4, <2>5, InvNext
<1> QED BY <1>1, <1>2, <1>3, <1>4, <1>5, <1>6 DEF Next

\* Every variable keeps to its set, what a process has in hand is there, Accommodate
\* flashes nothing, and no image that has to be flashed gets lost between two reconciles.
THEOREM FirmwareInvHolds == Spec => []Inv
<1>1. Init => Inv
  BY InitOK
<1>2. Inv /\ [Next]_vars => Inv'
  BY NextOK
<1> QED BY <1>1, <1>2, PTL DEF Spec
================================================================================
