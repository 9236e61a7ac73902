----------------------------- MODULE BmcFirmware -----------------------------
(***************************************************************************)
(* The firmware of a machine and its Firmware object.                      *)
(*                                                                         *)
(* FirmwareReconciler (controllers/firmware/firmware_controller.go)        *)
(* flashes the image of a new or edited object and writes the version      *)
(* into the objects, Firmware and Bmc, in updates that are most of a       *)
(* minute apart.  Meanwhile the polling loop and the events of the         *)
(* machine (controllers/pollData) compare the machine with the Bmc object: *)
(* Accommodate rewrites both objects, Revert flashes the recorded image    *)
(* from a goroutine of its own, marked in common.MapOfFirmware.            *)
(***************************************************************************)
EXTENDS Naturals

CONSTANTS
    Versions,         \* of the firmware
    Paths,            \* locations of images
    Installs,         \* Installs[p]: the version the image at p installs
    FirstImage,       \* the image that was installed first
    getImagePath,     \* getImagePath[v]: the location made up for the version v
    None, NoObject,
    Slots,            \* goroutines that Revert may have running
    Setups            \* records of a mode, of the disturbances that may happen in it
                      \* and of how many of them may

DisturbanceKinds == {"apply", "delete", "unmanage", "touch", "external", "event",
                     "fault", "taskFault", "readFault", "crash"}

\* A Firmware object: the image of its spec, whether it has labels, its annotation
\* old_firmware, FirmwareVersion and ImagePath of its status.
Firmware == [image : Paths, labelled : BOOLEAN, old : Paths \cup {None},
             version : Versions \cup {None}, path : Paths \cup {None}]

VARIABLES
    setup,     \* config.Data.Reconciliation, and what may happen
    machine,   \* the version the machine runs
    bmc,       \* Status.FirmwareVersion of its Bmc object, None when that is gone
    fw,        \* the Firmware object
    fresh,     \* per process, the objects its copy of is still the stored one
    queue,     \* the object is in the work queue of FirmwareReconciler
    mark,      \* MapOfFirmware has an entry for the machine
    entry,     \* MapOfBmc's: "none", "added" (with IsAdded and IsObjCreated), or "own",
               \* of an addition by this process, which has IsObjCreated alone
    worker,    \* FirmwareReconciler's only worker: place, image, version it read
    caller,    \* polling loop and event handler: place, bmc and path of the copies, version
    revert,    \* the goroutines: place and image
    posted,    \* the image FirmwareReconciler has asked for since the last apply
    budget     \* disturbances still to come

kubeVars == <<bmc, fw, fresh, queue>>
procVars == <<worker, caller, revert>>
vars == <<setup, machine, kubeVars, mark, entry, procVars, posted, budget>>

-----------------------------------------------------------------------------
(* The state.                                                              *)

Callers == {"poll", "event"}
Procs == {"worker"} \cup Callers

ASSUME FirmwareAssumption ==
    /\ Installs \in [Paths -> Versions]
    /\ FirstImage \in Paths
    /\ getImagePath \in [Versions -> Paths]
    /\ None \notin Versions \cup Paths \cup Procs
    /\ NoObject \notin Firmware
    /\ Setups \subseteq [mode : {"Accommodate", "Revert"},
                          kinds : SUBSET DisturbanceKinds, times : Nat]

WorkerPlaces == {"idle", "post", "task", "settle", "version", "labels", "reread",
                 "status", "bmc", "bmcStatus", "bmcLabels"}
CallerPlaces == {"idle", "object", "version", "manager", "accObject", "bmcStatus",
                 "bmcLabels", "labels", "status"}

NoWorker == [pc |-> "idle", path |-> None, version |-> None]
NoCaller == [pc |-> "idle", seen |-> None, path |-> None, version |-> None]
NoRevert == [pc |-> "idle", path |-> None]

\* The object's image is one that has not been flashed.
HasWork == fw # NoObject /\ (~fw.labelled \/ (fw.old # None /\ fw.old # fw.image))

\* An object whose image is installed.
Applied(p) == [image |-> p, labelled |-> TRUE, old |-> p,
               version |-> Installs[p], path |-> p]

Idle ==
    /\ mark = FALSE
    /\ worker = NoWorker
    /\ caller = [c \in Callers |-> NoCaller]
    /\ revert = [s \in Slots |-> NoRevert]

Init ==
    /\ setup \in Setups
    /\ machine = Installs[FirstImage]
    /\ fw \in {NoObject, Applied(FirstImage)}
    /\ bmc = machine /\ posted = None /\ entry \in {"none", "own"}
    /\ fresh = [p \in Procs |-> {}] /\ queue = FALSE
    /\ Idle
    /\ budget = setup.times

Disturb(kind) ==
    /\ kind \in setup.kinds
    /\ budget > 0
    /\ budget' = budget - 1

Mode(m) == setup.mode = m

-----------------------------------------------------------------------------
(* Kubernetes.                                                             *)

\* The copies of the object x become outdated, except that of p.
Outdate(x, p) == fresh' = [q \in Procs |-> IF q = p THEN fresh[q] \cup {x} ELSE fresh[q] \ {x}]

Forget(p) == fresh' = [fresh EXCEPT ![p] = {}]

Read(p, x) == fresh' = [fresh EXCEPT ![p] = @ \cup {x}]

\* Updates of p's copy, refused when that is outdated; the refusal is only logged.
\* The copy is used on when it is kept (k = p), or no more (k = None).
UpdateFirmware(p, k, o) ==
    /\ IF "fw" \in fresh[p] THEN fw' = o /\ Outdate("fw", k) ELSE UNCHANGED <<fw, fresh>>
    /\ UNCHANGED <<bmc, queue>>

UpdateBmc(p, k, v) ==
    /\ IF "bmc" \in fresh[p] THEN bmc' = v /\ Outdate("bmc", k) ELSE UNCHANGED <<bmc, fresh>>
    /\ UNCHANGED <<fw, queue>>

\* IgnoreStatusUpdate looks at updates only: a deletion is queued, and its reconcile ends.
DeleteFirmware == fw' = NoObject /\ queue' = TRUE /\ Outdate("fw", None)

ApplyWhileIdle(p) ==   \* mutant: an edit during a reconcile is not queued
    /\ Disturb("apply")
    /\ bmc # None
    /\ \/ /\ fw = NoObject
          /\ fw' = [image |-> p, labelled |-> FALSE, old |-> None, version |-> None,
                    path |-> None]
       \/ /\ fw # NoObject /\ fw.image # p
          /\ fw' = [fw EXCEPT !.image = p]
    /\ queue' = (worker.pc = "idle") /\ Outdate("fw", None) /\ posted' = None
    /\ UNCHANGED <<setup, machine, bmc, mark, entry, procVars>>

\* kubectl apply: a new object, or another image for the one that is there.
Apply(p) ==
    /\ Disturb("apply")
    /\ bmc # None
    /\ \/ /\ fw = NoObject
          /\ fw' = [image |-> p, labelled |-> FALSE, old |-> None, version |-> None,
                    path |-> None]
       \/ /\ fw # NoObject /\ fw.image # p
          /\ fw' = [fw EXCEPT !.image = p]
    /\ queue' = TRUE /\ Outdate("fw", None) /\ posted' = None
    /\ UNCHANGED <<setup, machine, bmc, mark, entry, procVars>>

UserDelete ==
    /\ Disturb("delete")
    /\ fw # NoObject /\ DeleteFirmware
    /\ UNCHANGED <<setup, machine, bmc, mark, entry, procVars, posted>>

\* The Bmc object is written by its own reconciler, or removed by it.
Touch ==
    /\ Disturb("touch")
    /\ bmc # None /\ Outdate("bmc", None)
    /\ UNCHANGED <<setup, machine, bmc, fw, queue, mark, entry, procVars, posted>>

Unmanage ==
    /\ Disturb("unmanage")
    /\ bmc # None /\ bmc' = None /\ Outdate("bmc", None) /\ entry' = "none"
    /\ UNCHANGED <<setup, machine, fw, queue, mark, procVars, posted>>

\* The machine gets another firmware past the operator.
External(v) ==
    /\ Disturb("external")
    /\ v # machine /\ machine' = v
    /\ UNCHANGED <<setup, kubeVars, mark, entry, procVars, posted>>

-----------------------------------------------------------------------------
(* The process.                                                            *)

\* It starts again: all objects are listed and reconciled, the rest is forgotten.
Restart ==
    /\ fresh' = [p \in Procs |-> {}]
    /\ queue' = (fw # NoObject)
    /\ mark' = FALSE /\ entry' = "none"
    /\ worker' = NoWorker
    /\ caller' = [c \in Callers |-> NoCaller]
    /\ revert' = [s \in Slots |-> NoRevert]
    /\ UNCHANGED <<setup, machine, bmc, fw, posted>>

Crash == Disturb("crash") /\ Restart

\* A nil pointer: CreateFirmwareInSystem and checkIfBiosSchemaRegistryChanged use the
\* Bmc object they look for, found or not, GetManagerDetails the error of a refusal.
Panic == Restart /\ UNCHANGED budget

\* The update task of the image p ends: with its version on the machine, or without.
TaskDone(p) == machine' = Installs[p] /\ UNCHANGED budget
TaskFails(p) == (p = None /\ UNCHANGED budget) \/ Disturb("taskFault")

\* GetFirmwareVersion: the version v of the machine, None when it cannot be read; with
\* it the inventory is written into p's copy of the object.
GetFirmwareVersion(p, k, v) ==
    \/ v = None /\ Disturb("readFault") /\ UNCHANGED kubeVars
    \/ /\ v = IF bmc = None THEN None ELSE machine
       /\ UpdateFirmware(p, k, fw)
       /\ UNCHANGED budget

-----------------------------------------------------------------------------
(* FirmwareReconciler.                                                     *)

WorkIn(place) == worker.pc = place
WorkTo(place) == worker' = [worker EXCEPT !.pc = place]
WorkEnds == worker' = NoWorker

\* The request is taken; without a machine the object is removed (getFirmwareBody).
WorkStart ==
    /\ WorkIn("idle") /\ queue
    /\ IF HasWork /\ bmc = None
       THEN DeleteFirmware /\ UNCHANGED worker
       ELSE IF HasWork
       THEN /\ worker' = [worker EXCEPT !.pc = "post", !.path = fw.image]
            /\ Read("worker", "fw") /\ queue' = FALSE /\ UNCHANGED fw
       ELSE queue' = FALSE /\ UNCHANGED <<worker, fw, fresh>>
    /\ UNCHANGED <<setup, machine, bmc, mark, entry, caller, revert, budget, posted>>

\* NewRestClient fails: the reconcile is repeated.
WorkNoClient ==
    /\ WorkIn("post") /\ Disturb("fault")
    /\ WorkEnds /\ queue' = TRUE
    /\ UNCHANGED <<setup, machine, bmc, fw, fresh, mark, entry, caller, revert, posted>>

\* CreateFirmwareInSystem.  Refused, or failed as a task, Reconcile ends without an
\* error: nothing is repeated and the object stays.
WorkPost ==
    /\ WorkIn("post")
    /\ \/ WorkTo("task") /\ UNCHANGED budget
       \/ WorkEnds /\ Disturb("fault")
    /\ posted' = worker.path
    /\ UNCHANGED <<setup, machine, kubeVars, mark, entry, caller, revert>>

WorkTask ==
    /\ WorkIn("task")
    /\ \/ TaskDone(worker.path) /\ WorkTo("settle")
       \/ TaskFails(worker.path) /\ WorkEnds /\ UNCHANGED machine
    /\ UNCHANGED <<setup, kubeVars, mark, entry, caller, revert, posted>>

MarkKept == mark   \* mutant of MarkAfterFlash: the entry stays

\* delete(common.MapOfFirmware, ...), whoever made the entry
MarkAfterFlash == FALSE

WorkSettle ==
    /\ WorkIn("settle")
    /\ IF bmc = None THEN Panic
       ELSE /\ mark' = MarkAfterFlash
            /\ worker' = [worker EXCEPT !.pc = "version", !.path = None]
            /\ UNCHANGED <<setup, machine, kubeVars, entry, caller, revert, budget, posted>>

WorkVersion ==
    /\ WorkIn("version")
    /\ \E v \in Versions \cup {None} :
          /\ GetFirmwareVersion("worker", "worker", v)
          /\ worker' = IF v = None THEN NoWorker
                       ELSE [worker EXCEPT !.pc = "labels", !.version = v]
    /\ UNCHANGED <<setup, machine, mark, entry, caller, revert, posted>>

\* UpdateFirmwareLabels
Labelled(o) == IF o = NoObject THEN o ELSE [o EXCEPT !.labelled = TRUE, !.old = o.image]

WorkLabels ==
    /\ WorkIn("labels")
    /\ UpdateFirmware("worker", None, Labelled(fw))
    /\ WorkTo("reread")
    /\ UNCHANGED <<setup, machine, mark, entry, caller, revert, budget, posted>>

\* GetUpdatedFirmwareObject
WorkReread ==
    /\ WorkIn("reread")
    /\ IF fw = NoObject THEN UNCHANGED fresh ELSE Read("worker", "fw")
    /\ WorkTo("status")
    /\ UNCHANGED <<setup, machine, bmc, fw, queue, mark, entry, caller, revert, budget, posted>>

\* UpdateFirmwareStatus with the image of the object as it is now
WorkStatus ==
    /\ WorkIn("status")
    /\ UpdateFirmware("worker", None, IF fw = NoObject THEN fw ELSE
                          [fw EXCEPT !.version = worker.version, !.path = fw.image])
    /\ WorkTo("bmc")
    /\ UNCHANGED <<setup, machine, mark, entry, caller, revert, budget, posted>>

WorkBmc ==
    /\ WorkIn("bmc")
    /\ IF bmc = None THEN Panic
       ELSE /\ Read("worker", "bmc") /\ WorkTo("bmcStatus")
            /\ UNCHANGED <<setup, machine, bmc, fw, queue, mark, entry, caller, revert, budget, posted>>

\* UpdateBmcObjectWithFirmwareVersionAndSchema: two updates, status and labels
WorkBmcStatus ==
    /\ WorkIn("bmcStatus")
    /\ UpdateBmc("worker", "worker", worker.version)
    /\ WorkTo("bmcLabels")
    /\ UNCHANGED <<setup, machine, mark, entry, caller, revert, budget, posted>>

WorkBmcLabels ==
    /\ WorkIn("bmcLabels")
    /\ UpdateBmc("worker", None, bmc)
    /\ WorkEnds
    /\ UNCHANGED <<setup, machine, mark, entry, caller, revert, budget, posted>>

Work == WorkStart \/ WorkNoClient \/ WorkPost \/ WorkTask \/ WorkSettle \/ WorkVersion
          \/ WorkLabels \/ WorkReread \/ WorkStatus \/ WorkBmc \/ WorkBmcStatus \/ WorkBmcLabels

-----------------------------------------------------------------------------
(* Polling loop and events.                                                *)

CallerIn(c, place) == caller[c].pc = place
CallerTo(c, place) == caller' = [caller EXCEPT ![c].pc = place]
CallerEnds(c) == caller' = [caller EXCEPT ![c] = NoCaller]

\* Accommodate's first tick after a start: the machine is entered, nothing is compared.
PollFirst ==
    /\ Mode("Accommodate") /\ CallerIn("poll", "idle")
    /\ bmc # None /\ entry = "none" /\ entry' = "added"
    /\ UNCHANGED <<setup, machine, kubeVars, mark, procVars, posted, budget>>

\* A tick, or ServerPostDiscoveryComplete of the machine: its Bmc object is read.  A tick of
\* Accommodate compares the machines that a tick has entered, an event any.
CallerStart(c) ==
    /\ CallerIn(c, "idle") /\ bmc # None
    /\ c = "poll" /\ Mode("Accommodate") => entry = "added"
    /\ IF c = "event" THEN Disturb("event") ELSE UNCHANGED budget
    /\ caller' = [caller EXCEPT ![c] = [@ EXCEPT !.seen = bmc,
                     !.pc = IF Mode("Revert") THEN "object" ELSE "manager"]]
    /\ IF Mode("Revert") THEN UNCHANGED fresh ELSE Read(c, "bmc")
    /\ UNCHANGED <<setup, machine, bmc, fw, queue, mark, entry, worker, revert, posted>>

\* Only the polling loop looks for the entry.
MayRevert(c) == c = "event" \/ ~mark

RevertObject(c) ==
    /\ CallerIn(c, "object")
    /\ IF MayRevert(c) /\ fw # NoObject
       THEN /\ caller' = [caller EXCEPT ![c].pc = "version", ![c].path = fw.path]
            /\ Read(c, "fw")
       ELSE CallerEnds(c) /\ UNCHANGED fresh
    /\ UNCHANGED <<setup, machine, bmc, fw, queue, mark, entry, worker, revert, budget, posted>>

Spawn(s, p) ==
    /\ revert[s].pc = "idle"
    /\ revert' = [revert EXCEPT ![s] = [pc |-> "post", path |-> p]]
    /\ mark' = TRUE

\* CheckAndRevertFirmwareVersion: a version that cannot be read is another one, too.
RevertVersion(c) ==
    /\ CallerIn(c, "version")
    /\ \E v \in Versions \cup {None} :
          /\ GetFirmwareVersion(c, None, v)
          /\ IF v # caller[c].seen
             THEN \E s \in Slots : Spawn(s, caller[c].path)
             ELSE UNCHANGED <<mark, revert>>
    /\ CallerEnds(c)
    /\ UNCHANGED <<setup, machine, entry, worker, posted>>

\* CheckAndAccomodateFirmware: GetManagerDetails, then the object.  ODIM has the manager of
\* a machine with a Bmc object.
AccManager(c) ==
    /\ CallerIn(c, "manager") /\ bmc # None
    /\ caller' = [caller EXCEPT ![c].pc = "accObject", ![c].version = machine]
    /\ UNCHANGED <<setup, machine, kubeVars, mark, entry, worker, revert, posted, budget>>

AccNoManager(c) ==
    /\ CallerIn(c, "manager") /\ Disturb("readFault")
    /\ CallerEnds(c) /\ Forget(c)
    /\ UNCHANGED <<setup, machine, bmc, fw, queue, mark, entry, worker, revert, posted>>

\* An answer that is no success: what it ends is the process, or the event's handler, whose
\* panic the HTTP server recovers.
AccRefused(c) ==
    /\ CallerIn(c, "manager")
    /\ (bmc = None /\ UNCHANGED budget) \/ Disturb("readFault")
    /\ IF c = "poll" THEN Restart
       ELSE /\ CallerEnds(c) /\ Forget(c)
            /\ UNCHANGED <<setup, machine, bmc, fw, queue, mark, entry, worker, revert, posted>>

DiffersFromFirmware(c) == caller[c].version # fw.version   \* mutant: of the Firmware object
Differs(c) == caller[c].version # caller[c].seen

AccObject(c) ==
    /\ CallerIn(c, "accObject")
    /\ IF fw # NoObject /\ Differs(c)
       THEN /\ caller' = [caller EXCEPT ![c].pc = "bmcStatus"]
            /\ Read(c, "fw")
       ELSE CallerEnds(c) /\ Forget(c)
    /\ UNCHANGED <<setup, machine, bmc, fw, queue, mark, entry, worker, revert, budget, posted>>

AccBmcStatus(c) ==
    /\ CallerIn(c, "bmcStatus")
    /\ UpdateBmc(c, c, caller[c].version)
    /\ caller' = [caller EXCEPT ![c].pc = "bmcLabels", ![c].seen = None]
    /\ UNCHANGED <<setup, machine, mark, entry, worker, revert, budget, posted>>

AccBmcLabels(c) ==
    /\ CallerIn(c, "bmcLabels")
    /\ UpdateBmc(c, None, bmc)
    /\ CallerTo(c, "labels")
    /\ UNCHANGED <<setup, machine, mark, entry, worker, revert, budget, posted>>

\* An image that was applied and not flashed yet counts as flashed from here on.
AccLabels(c) ==
    /\ CallerIn(c, "labels")
    /\ UpdateFirmware(c, c, Labelled(fw))
    /\ CallerTo(c, "status")
    /\ UNCHANGED <<setup, machine, mark, entry, worker, revert, budget, posted>>

AccStatus(c) ==
    /\ CallerIn(c, "status")
    /\ UpdateFirmware(c, None, IF fw = NoObject THEN fw ELSE
          [fw EXCEPT !.version = caller[c].version, !.path = getImagePath[caller[c].version]])
    /\ CallerEnds(c)
    /\ UNCHANGED <<setup, machine, mark, entry, worker, revert, budget, posted>>

CallerStep(c) == RevertObject(c) \/ RevertVersion(c) \/ AccManager(c) \/ AccNoManager(c)
                   \/ AccRefused(c) \/ AccObject(c) \/ AccBmcStatus(c) \/ AccBmcLabels(c)
                   \/ AccLabels(c) \/ AccStatus(c)

-----------------------------------------------------------------------------
(* CreateFirmwareInSystem in a goroutine of Revert.                        *)

RevertTo(s, place) == revert' = [revert EXCEPT ![s].pc = place]
RevertEnds(s) == revert' = [revert EXCEPT ![s] = NoRevert]

\* When it fails, the entry of the machine stays.
RevertPost(s) ==
    /\ revert[s].pc = "post"
    /\ \/ RevertTo(s, "task") /\ UNCHANGED budget
       \/ RevertEnds(s) /\ Disturb("fault")
    /\ UNCHANGED <<setup, machine, kubeVars, mark, entry, worker, caller, posted>>

RevertTask(s) ==
    /\ revert[s].pc = "task"
    /\ \/ revert[s].path # None /\ TaskDone(revert[s].path) /\ RevertTo(s, "settle")
       \/ TaskFails(revert[s].path) /\ RevertEnds(s) /\ UNCHANGED machine
    /\ UNCHANGED <<setup, kubeVars, mark, entry, worker, caller, posted>>

RevertSettle(s) ==
    /\ revert[s].pc = "settle"
    /\ IF bmc = None THEN Panic
       ELSE /\ mark' = MarkAfterFlash /\ RevertEnds(s)
            /\ UNCHANGED <<setup, machine, kubeVars, entry, worker, caller, budget, posted>>

RevertStep(s) == RevertPost(s) \/ RevertTask(s) \/ RevertSettle(s)

-----------------------------------------------------------------------------
(* The system.                                                             *)

Next ==
    \/ Work
    \/ PollFirst
    \/ \E c \in Callers : CallerStart(c) \/ CallerStep(c)
    \/ \E s \in Slots : RevertStep(s)
    \/ \E p \in Paths : Apply(p)
    \/ \E v \in Versions : External(v)
    \/ UserDelete \/ Touch \/ Unmanage \/ Crash

Spec == Init /\ [][Next]_vars

\* Workers, goroutines and the ticker go on; disturbances happen or not.
Fairness ==
    /\ WF_vars(Work)
    /\ WF_vars(PollFirst)
    /\ WF_vars(CallerStart("poll"))
    /\ \A c \in Callers : WF_vars(CallerStep(c))
    /\ \A s \in Slots : WF_vars(RevertStep(s))

FairSpec == Spec /\ Fairness

-----------------------------------------------------------------------------
(* Properties.                                                             *)

\* Every variable keeps to its set.
TypeOK ==
    /\ setup \in Setups
    /\ machine \in Versions
    /\ bmc \in Versions \cup {None}
    /\ fw \in Firmware \cup {NoObject}
    /\ fresh \in [Procs -> SUBSET {"fw", "bmc"}]
    /\ queue \in BOOLEAN /\ mark \in BOOLEAN
    /\ entry \in {"none", "added", "own"}
    /\ worker \in [pc : WorkerPlaces, path : Paths \cup {None}, version : Versions \cup {None}]
    /\ caller \in [Callers -> [pc : CallerPlaces, seen : Versions \cup {None},
                               path : Paths \cup {None}, version : Versions \cup {None}]]
    /\ revert \in [Slots -> [pc : {"idle", "post", "task", "settle"}, path : Paths \cup {None}]]
    /\ posted \in Paths \cup {None}
    /\ budget \in 0 .. setup.times

\* What a process has in hand is there: an image to flash, a version that was read, and the
\* objects its copies of are the stored ones.
CopiesInv ==
    /\ worker.pc \in {"post", "task"} => worker.path \in Paths
    /\ worker.pc \in {"labels", "reread", "status", "bmc", "bmcStatus", "bmcLabels"}
          => worker.version \in Versions
    /\ \A c \in Callers :
          caller[c].pc \in {"accObject", "bmcStatus", "bmcLabels", "labels", "status"}
              => caller[c].version \in Versions
    /\ \A p \in Procs : ("fw" \in fresh[p] => fw # NoObject) /\ ("bmc" \in fresh[p] => bmc # None)

\* Each mode keeps to its own half of the callers; Accommodate flashes nothing.
ModeInv ==
    /\ Mode("Revert") => \A c \in Callers : caller[c].pc \in {"idle", "object", "version"}
    /\ Mode("Accommodate") =>
          /\ \A c \in Callers : caller[c].pc \notin {"object", "version"}
          /\ ~mark /\ revert = [s \in Slots |-> NoRevert]

\* An image that has to be flashed and was not asked for is in the queue, or in the hands
\* of the worker, who has not taken another one instead.
EditsInv ==
    HasWork /\ (posted # fw.image \/ worker.pc = "post") =>
        queue \/ (worker.pc = "post" /\ worker.path = fw.image)

\* Everything the properties rest on, together: an inductive invariant.
Inv == TypeOK /\ CopiesInv /\ ModeInv /\ EditsInv

\* An image that has to be flashed is asked for, unless it is replaced or counted as
\* flashed before: no edit gets lost between a reconcile that is running, the next one
\* and a restart.
ImagesAreTried == \A p \in Paths :
    (HasWork /\ fw.image = p /\ posted # p)
        ~> (posted = p \/ ~HasWork \/ fw.image # p)

\* Revert: in the end the machine runs the recorded version again, however often it
\* is changed, whatever cannot be read and whenever the operator restarts, as long as
\* the updates themselves succeed and nobody edits the object.
MachineReturns ==
    (Mode("Revert") /\ fw # NoObject
       /\ setup.kinds \cap {"apply", "delete", "unmanage", "fault", "taskFault"} = {})
    => <>[](machine = bmc)

\* Accommodate: in the end the Bmc object of a machine with a Firmware object has the
\* version the machine runs, unless this very process has added the machine: only a
\* process that finds it there compares it at all.
FirmwareFollows ==
    Mode("Accommodate") =>
        <>[](fw # NoObject /\ bmc # None /\ entry # "own" => bmc = machine)

=============================================================================
