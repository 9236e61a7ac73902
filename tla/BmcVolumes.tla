----------------------------- MODULE BmcVolumes -----------------------------
(***************************************************************************)
(* The volumes of the machines and the Volume objects.                     *)
(*                                                                         *)
(* ODIM creates and removes a volume when its machine is reset, and gives  *)
(* a new volume an ID.  VolumeReconciler (controllers/volume/              *)
(* volume_controller.go) asks for the volumes of new objects and for the   *)
(* removal of those of deleted ones; BmcReconciler.ResetSystem writes the  *)
(* ID into the object after the reset.  The polling loop (controllers/     *)
(* pollData/reconcileVolume.go) compares both sides, machine by machine,   *)
(* and starts two goroutines for the differences; the goroutine of an      *)
(* event does the same for its machine.  common.TrackVolumeStatus is meant *)
(* to keep them from what the reconciler is working on.                    *)
(***************************************************************************)
EXTENDS Naturals

CONSTANTS
    Bmcs,             \* machines, all of them managed
    Titles,           \* names of volumes in ODIM
    Names,            \* those of them that Kubernetes allows in an object's name
    NameOf,           \* NameOf[t]: t in lower case and without blanks
    DrivesOf,         \* DrivesOf[t]: RAID type and drives of a volume of that name
    Ids,              \* IDs of the volumes of a machine
    Before,           \* pairs <<i, j>> of them: j is given to no volume before i
    Last,             \* Last[i]: the last character of i, an ID itself
    Contains,         \* Contains[k]: machines whose names occur in the object name k
    None, NoObject,
    Setups            \* config.Data.Reconciliation, what may happen to the system from
                      \* outside, and how often it may

DisturbanceKinds == {"create", "delete", "touch", "reset", "odimCreate", "odimDelete",
                     "odimFault", "listFault", "event", "crash"}

Keys == Bmcs \X Names     \* a Volume object is named <machine>.<name>

\* A Volume object: the request of the user, cleared when the volume is there, and
\* VolumeID and VolumeName of the status.
Volume == [spec : BOOLEAN, finalizer : BOOLEAN, deleting : BOOLEAN,
           VolumeID : Ids \cup {None}, VolumeName : Titles \cup {None}]

ASSUME VolumesAssumption ==
    /\ Names \subseteq Titles
    /\ NameOf \in [Titles -> Names] /\ \A n \in Names : NameOf[n] = n
    /\ DOMAIN DrivesOf = Titles
    /\ Last \in [Ids -> Ids] /\ \A i \in Ids : Last[Last[i]] = Last[i]
    /\ Contains \in [Keys -> SUBSET Bmcs] /\ \A k \in Keys : k[1] \in Contains[k]
    /\ Ids \cap Titles = {}
    /\ None \notin Ids \cup Titles \cup Bmcs
    /\ NoObject \notin Volume
    /\ Setups \subseteq [mode : {"Accommodate", "Revert"},
                          kinds : SUBSET DisturbanceKinds, times : Nat]

VARIABLES
    title,        \* title[b][i]: the name of the volume that was given the ID i
    live,         \* live[b]: IDs of the volumes b has
    wanted,       \* wanted[b]: names of the volumes that b's next reset creates
    unwanted,     \* unwanted[b]: IDs of the volumes that b's next reset removes
    systemReset,  \* Status.SystemReset of b: the volume b's reset is pending for
    vol,          \* the Volume object stored under each key
    fresh,        \* per goroutine, the objects its copy of is still the stored one
    queue,        \* the work queue of VolumeReconciler
    track,        \* common.TrackVolumeStatus, by object name or ID
    worker,       \* VolumeReconciler's only worker: its place and its object
    reset,        \* BmcReconciler.ResetSystem: place, machine, SystemReset it read
    poll,         \* the polling loop: place, machines left, IDs of cur's objects
    cur,          \* its loop variable bmc, which its goroutines share
    event,        \* the goroutine of an event: place, machine, IDs of its objects
    task,         \* checkVolume{Created,Deleted}And{Accommodate,Revert}
    setup         \* the mode, and the disturbances still to come

odimVars == <<title, live, wanted, unwanted>>
kubeVars == <<vol, fresh, queue>>
loopVars == <<poll, cur, event>>
pollVars == <<loopVars, task>>
vars == <<odimVars, systemReset, kubeVars, track, worker, reset, pollVars, setup>>

-----------------------------------------------------------------------------
(* The state.                                                              *)

\* The two calls for a machine: for the volumes only ODIM has, and for those only an
\* object has. The poll starts a goroutine for each; an event makes one after the other.
Tasks == Bmcs \X {"created", "deleted"} \X {"poll", "event"}
TasksOf(caller) == {t \in Tasks : t[3] = caller}

\* IDs to filter, IDs that passed the filter, and the volume being worked on: its ID and
\* name, the key of its object, and whether it was asked for.
Task == [pc : {"idle", "filter", "work", "create", "status", "renew"}, todo : SUBSET Ids,
         chosen : SUBSET Ids, key : Keys \cup {None}, id : Ids \cup {None},
         name : Titles \cup {None}, done : BOOLEAN]
NoTask == [pc |-> "idle", todo |-> {}, chosen |-> {}, key |-> None, id |-> None,
           name |-> None, done |-> FALSE]
NextVolume(r) == [r EXCEPT !.pc = "work", !.key = None, !.id = None, !.name = None,
                           !.done = FALSE]

VolProc == <<None, "worker">>
ResetProc == <<None, "reset">>
Procs == {VolProc, ResetProc} \cup Tasks

NoWorker == [pc |-> "idle", key |-> None]
NoReset == [pc |-> "idle", bmc |-> None, pending |-> None, key |-> None]
NoPoll == [pc |-> "idle", left |-> {}, ids |-> {}]
NoEvent == [pc |-> "idle", bmc |-> None, ids |-> {}]
NothingTracked == [b \in Bmcs |-> [x \in Titles \cup Ids |-> "none"]]

Exists(k) == vol[k] # NoObject
HasWork(o) == o # NoObject /\ (IF o.deleting THEN o.finalizer ELSE o.spec)

Unused(b) == {i \in Ids : title[b][i] = None}

\* New IDs for the volumes named in ts: unused ones, each its own, in their order.
Numberings(b, ts) ==
    {f \in [ts -> Unused(b)] :
        /\ \A s, t \in ts : f[s] = f[t] => s = t
        /\ \A i \in Unused(b), t \in ts : <<i, f[t]>> \in Before => \E s \in ts : f[s] = i}

TitlesOf(b) == {title[b][i] : i \in live[b]}

Init ==
    /\ title = [b \in Bmcs |-> [i \in Ids |-> None]]
    /\ live = [b \in Bmcs |-> {}]
    /\ wanted = [b \in Bmcs |-> {}] /\ unwanted = [b \in Bmcs |-> {}]
    /\ systemReset = [b \in Bmcs |-> None]
    /\ vol = [k \in Keys |-> NoObject]
    /\ fresh = [p \in Procs |-> {}] /\ queue = {}
    /\ track = NothingTracked
    /\ worker = NoWorker /\ reset = NoReset
    /\ poll = NoPoll /\ cur = None /\ event = NoEvent /\ task = [t \in Tasks |-> NoTask]
    /\ setup \in Setups

Disturb(kind) ==
    /\ kind \in setup.kinds
    /\ setup.times > 0
    /\ setup' = [setup EXCEPT !.times = @ - 1]

-----------------------------------------------------------------------------
(* Kubernetes.                                                             *)

\* o is stored under k: p's copy is the stored one, every other copy is outdated,
\* and VolumeReconciler is called when there is something for it to do.
Store(p, k, o) ==
    /\ vol' = [vol EXCEPT ![k] = o]
    /\ fresh' = [q \in Procs |-> IF q = p THEN fresh[q] \cup {k} ELSE fresh[q] \ {k}]
    /\ queue' = IF ~HasWork(o) THEN queue \ {k}
                ELSE IF HasWork(vol[k]) /\ o.deleting = vol[k].deleting THEN queue
                ELSE queue \cup {k}

\* A call for an object that is gone ends at once: it is left out of the queue.
Gone(k) ==
    /\ vol' = [vol EXCEPT ![k] = NoObject]
    /\ fresh' = [q \in Procs |-> fresh[q] \ {k}]
    /\ queue' = queue \ {k}

\* Client.Update or Status().Update of p's copy, refused when that is outdated.
UpdateIfFresh(p, k, o) ==
    IF k \in fresh[p] THEN Store(p, k, o) ELSE UNCHANGED kubeVars

\* Client.Delete
Delete(k) ==
    IF ~Exists(k) THEN UNCHANGED kubeVars
    ELSE IF vol[k].finalizer THEN Store(None, k, [vol[k] EXCEPT !.deleting = TRUE])
    ELSE Gone(k)

NewVolume == [spec |-> TRUE, finalizer |-> FALSE, deleting |-> FALSE,
              VolumeID |-> None, VolumeName |-> None]

UserCreate(k) ==
    /\ Disturb("create")
    /\ ~Exists(k)
    /\ Store(None, k, NewVolume)
    /\ UNCHANGED <<odimVars, systemReset, track, worker, reset, pollVars>>

UserDelete(k) ==
    /\ Disturb("delete")
    /\ Exists(k) /\ ~vol[k].deleting
    /\ Delete(k)
    /\ UNCHANGED <<odimVars, systemReset, track, worker, reset, pollVars>>

UserTouch(k) ==
    /\ Disturb("touch")
    /\ \E p \in Procs : k \in fresh[p]
    /\ Store(None, k, vol[k])
    /\ UNCHANGED <<odimVars, systemReset, track, worker, reset, pollVars>>

-----------------------------------------------------------------------------
(* ODIM and its other clients.                                             *)

\* b has no volume named t and none is asked for.
CanCreate(b, t) == t \notin TitlesOf(b) \cup wanted[b]

\* b is reset: what was asked for is done.
ApplyReset(b) ==
    /\ \E f \in Numberings(b, wanted[b]) :
           /\ title' = [title EXCEPT ![b] = [i \in Ids |->
                  IF \E t \in wanted[b] : f[t] = i
                  THEN CHOOSE t \in wanted[b] : f[t] = i ELSE @[i]]]
           /\ live' = [live EXCEPT ![b] = (@ \ unwanted[b]) \cup {f[t] : t \in wanted[b]}]
    /\ wanted' = [wanted EXCEPT ![b] = {}]
    /\ unwanted' = [unwanted EXCEPT ![b] = {}]

OdimCreate(b, t) ==
    /\ Disturb("odimCreate")
    /\ CanCreate(b, t)
    /\ \E f \in Numberings(b, {t}) : LET i == f[t] IN
           /\ title' = [title EXCEPT ![b][i] = t]
           /\ live' = [live EXCEPT ![b] = @ \cup {i}]
    /\ UNCHANGED <<wanted, unwanted, systemReset, kubeVars, track, worker, reset, pollVars>>

OdimDelete(b, i) ==
    /\ Disturb("odimDelete")
    /\ i \in live[b]
    /\ live' = [live EXCEPT ![b] = @ \ {i}]
    /\ unwanted' = [unwanted EXCEPT ![b] = @ \ {i}]
    /\ UNCHANGED <<title, wanted, systemReset, kubeVars, track, worker, reset, pollVars>>

-----------------------------------------------------------------------------
(* VolumeReconciler.Reconcile                                              *)

Requeue(k) ==
    /\ queue' = queue \cup ({k} \cap {j \in Keys : HasWork(vol[j])})
    /\ UNCHANGED <<vol, fresh>>

\* updateTrackVolume: by the object's name while the request is there, by the ID
\* afterwards. The name of another machine's object is never looked up for b.
updateTrackVolume(b, k, status) ==
    LET x == IF vol[k].spec THEN k[2] ELSE vol[k].VolumeID IN
    IF x = None \/ (vol[k].spec /\ k[1] # b) THEN track ELSE [track EXCEPT ![b][x] = status]

\* A request gets the finalizer, unless it has it.
VolStart(k) ==
    /\ worker.pc = "idle" /\ k \in queue /\ ~vol[k].deleting
    /\ vol' = [vol EXCEPT ![k].finalizer = TRUE]
    /\ fresh' = IF vol[k].finalizer THEN fresh ELSE [q \in Procs |-> fresh[q] \ {k}]
    /\ queue' = queue \ {k}
    /\ worker' = [pc |-> "post", key |-> k]
    /\ UNCHANGED <<odimVars, systemReset, track, reset, pollVars, setup>>

\* CreateVolume reads the object again and marks its name.
VolPost ==
    LET k == worker.key  b == k[1]  n == k[2] IN
    /\ worker.pc = "post"
    /\ fresh' = [fresh EXCEPT ![VolProc] = {k} \cap {j \in Keys : Exists(j)}]
    /\ track' = [track EXCEPT ![b][n] = "created"]
    /\ IF CanCreate(b, n)
       THEN /\ wanted' = [wanted EXCEPT ![b] = @ \cup {n}]
            /\ worker' = [worker EXCEPT !.pc = "task"]
       ELSE UNCHANGED wanted /\ worker' = [worker EXCEPT !.pc = "fail"]
    /\ UNCHANGED <<title, live, unwanted, systemReset, vol, queue, reset, pollVars, setup>>

\* The POST itself fails: Reconcile returns the error and is called again.
VolPostFails ==
    LET k == worker.key IN
    /\ Disturb("odimFault")
    /\ worker.pc = "post"
    /\ track' = [track EXCEPT ![k[1]][k[2]] = "created"]
    /\ Requeue(k)
    /\ worker' = NoWorker
    /\ UNCHANGED <<odimVars, systemReset, reset, pollVars>>

\* MoniteringTaskmon sees the task end; the Bmc object tells that a reset is pending,
\* unless it has changed since it was read.
VolTaskDone ==
    /\ worker.pc = "task"
    /\ systemReset' \in {systemReset, [systemReset EXCEPT ![worker.key[1]] = worker.key[2]]}
    /\ worker' = NoWorker
    /\ UNCHANGED <<odimVars, kubeVars, track, reset, pollVars, setup>>

\* The task fails, or the monitor gives up.
VolTaskFails ==
    LET k == worker.key IN
    /\ Disturb("odimFault")
    /\ worker.pc = "task"
    /\ wanted' \in {wanted, [wanted EXCEPT ![k[1]] = @ \ {k[2]}]}
    /\ worker' = [worker EXCEPT !.pc = "fail"]
    /\ UNCHANGED <<title, live, unwanted, systemReset, kubeVars, track, reset, pollVars>>

\* The object is dropped, or only deleted when the removal of its finalizer is
\* refused. The mark stays.
VolFail ==
    LET k == worker.key IN
    /\ worker.pc = "fail"
    /\ IF k \in fresh[VolProc] THEN Gone(k) ELSE Delete(k)
    /\ worker' = NoWorker
    /\ UNCHANGED <<odimVars, systemReset, track, reset, pollVars, setup>>

\* DeleteVolume for a deleted object. ODIM refuses to remove a volume that it does not
\* have or is about to remove already: Reconcile asks to be called again.
VolRemove(k) ==
    LET b == k[1]  i == vol[k].VolumeID IN
    /\ worker.pc = "idle" /\ k \in queue /\ vol[k].deleting
    /\ track' = updateTrackVolume(b, k, "deleted")
    /\ IF i \in live[b] \ unwanted[b]
       THEN /\ unwanted' = [unwanted EXCEPT ![b] = @ \cup {i}]
            /\ queue' = queue \ {k}
            /\ fresh' = [fresh EXCEPT ![VolProc] = {k}]
            /\ worker' = [pc |-> "removed", key |-> k]
       ELSE UNCHANGED <<unwanted, queue, fresh, worker>>
    /\ UNCHANGED <<title, live, wanted, systemReset, vol, reset, pollVars, setup>>

\* MoniteringTaskmon takes 200 for the end of the task and removes the finalizer.
VolRemoved ==
    LET k == worker.key IN
    /\ worker.pc = "removed"
    /\ IF k \in fresh[VolProc] THEN Gone(k) ELSE Requeue(k)
    /\ worker' = NoWorker
    /\ UNCHANGED <<odimVars, systemReset, track, reset, pollVars, setup>>

\* 204 is success for the removal of a machine only: here it is one more failure.
VolRemovedNoContent ==
    /\ worker.pc = "removed"
    /\ Requeue(worker.key)
    /\ worker' = NoWorker
    /\ UNCHANGED <<odimVars, systemReset, track, reset, pollVars, setup>>

VolStep ==
    \/ \E k \in Keys : VolStart(k) \/ VolRemove(k)
    \/ VolPost \/ VolTaskDone \/ VolFail \/ VolRemoved \/ VolRemovedNoContent

-----------------------------------------------------------------------------
(* BmcReconciler.ResetSystem, asked for by the user.                       *)

ResetStart(b) ==
    /\ Disturb("reset")
    /\ reset.pc = "idle"
    /\ reset' = [pc |-> "task", bmc |-> b, pending |-> systemReset[b], key |-> None]
    /\ UNCHANGED <<odimVars, systemReset, kubeVars, track, worker, pollVars>>

ResetFails ==
    /\ Disturb("odimFault")
    /\ reset.pc = "task"
    /\ reset' = NoReset
    /\ UNCHANGED <<odimVars, systemReset, kubeVars, track, worker, pollVars>>

\* The task of the reset ends. BIOS settings and boot order are brought up to date
\* first, which takes minutes.
ResetDone ==
    /\ reset.pc = "task"
    /\ ApplyReset(reset.bmc)
    /\ reset' = [reset EXCEPT !.pc = "dependents"]
    /\ UNCHANGED <<systemReset, kubeVars, track, worker, pollVars, setup>>

\* Status.SystemReset becomes "Done", unless it has changed.
ResetEnds ==
    /\ reset' = NoReset
    /\ systemReset' = IF systemReset[reset.bmc] = reset.pending
                      THEN [systemReset EXCEPT ![reset.bmc] = None] ELSE systemReset

ResetNoVolume ==
    /\ reset.pc = "dependents" /\ reset.pending = None
    /\ ResetEnds
    /\ UNCHANGED <<odimVars, kubeVars, track, worker, pollVars, setup>>

\* The objects whose name has that of b in it, be it as a part of another machine's.
ObjectsOf(b) == {k \in Keys : b \in Contains[k] /\ Exists(k)}

\* GetVolumeObject: an object of the machine, whichever is listed first; if there
\* is none, an object of any machine.
GetVolumeObject(b) == IF ObjectsOf(b) # {} THEN ObjectsOf(b) ELSE {k \in Keys : Exists(k)}

\* Mutant of IsPending: the name is not compared.
IsPendingOnDrives(k, i) == DrivesOf[title[reset.bmc][i]] = DrivesOf[k[2]]

\* The machine's volume i has the name that the reset was pending for, on drives and with a
\* RAID type that k asks for. Requests with different names may agree in these.
IsPending(k, i) ==
    title[reset.bmc][i] = reset.pending /\ DrivesOf[reset.pending] = DrivesOf[k[2]]

\* UpdateVolumeStatusAndClearSpec looks at the first volume in ODIM's list only:
\* when it is not the one, the object is deleted.
ResetVolume ==
    LET b == reset.bmc IN
    /\ reset.pc = "dependents" /\ reset.pending # None
    /\ \E k \in GetVolumeObject(b) :
           \/ /\ ~vol[k].spec \/ live[b] = {}
              /\ ResetEnds /\ UNCHANGED kubeVars
           \/ /\ vol[k].spec
              /\ \E i \in live[b] :
                     \/ /\ IsPending(k, i)
                        /\ Store(ResetProc, k, [vol[k] EXCEPT !.VolumeID = i,
                                                         !.VolumeName = reset.pending])
                        /\ reset' = [reset EXCEPT !.pc = "clear", !.key = k]
                        /\ UNCHANGED systemReset
                     \/ /\ ~IsPending(k, i)
                        /\ Delete(k) /\ ResetEnds
    /\ UNCHANGED <<odimVars, track, worker, pollVars, setup>>

\* Half a minute later the request is cleared.
ResetClear ==
    LET k == reset.key IN
    /\ reset.pc = "clear"
    /\ UpdateIfFresh(ResetProc, k, [vol[k] EXCEPT !.spec = FALSE])
    /\ ResetEnds
    /\ UNCHANGED <<odimVars, track, worker, pollVars, setup>>

ResetStep == ResetDone \/ ResetNoVolume \/ ResetVolume \/ ResetClear

-----------------------------------------------------------------------------
(* AccommodateVolumeDetails and RevertVolumeDetails: the loop over the     *)
(* machines. The next tick comes when the goroutines of the last are done. *)

PollTick ==
    /\ poll.pc = "idle" /\ \A t \in TasksOf("poll") : task[t].pc = "idle"
    /\ poll' = [NoPoll EXCEPT !.pc = "next", !.left = Bmcs]
    /\ UNCHANGED <<odimVars, systemReset, kubeVars, track, worker, reset, cur, event, task,
                   setup>>

\* GetAllVolumeObjectIds
VolumeObjectIds(b) == {vol[k].VolumeID : k \in ObjectsOf(b)} \ {None}

PollObjects(b) ==
    /\ poll.pc = "next" /\ b \in poll.left
    /\ cur' = b
    /\ poll' = [pc |-> "list", left |-> poll.left \ {b}, ids |-> VolumeObjectIds(b)]
    /\ UNCHANGED <<odimVars, systemReset, kubeVars, track, worker, reset, event, task, setup>>

\* Mutant of Compare: the two lists in the wrong order.
CompareSwapped(b, caller, ids, odimIds) ==
    LET New(js) == IF js = {} THEN NoTask ELSE [NoTask EXCEPT !.pc = "filter", !.todo = js]
    IN  task' = [task EXCEPT ![<<b, "created", caller>>] = New(ids \ odimIds),
                             ![<<b, "deleted", caller>>] = New(odimIds \ ids)]

\* The calls are given the difference between ODIM's IDs and the objects'. One without
\* a difference ends at once.
Compare(b, caller, ids, odimIds) ==
    LET New(js) == IF js = {} THEN NoTask ELSE [NoTask EXCEPT !.pc = "filter", !.todo = js]
    IN  task' = [task EXCEPT ![<<b, "created", caller>>] = New(odimIds \ ids),
                             ![<<b, "deleted", caller>>] = New(ids \ odimIds)]

\* getAllVolumeObjectIdsFromODIM: of each volume's URL the last character is taken.
VolumeIdsFromODIM(b) == {Last[i] : i \in live[b]}

PollVolumes ==
    /\ poll.pc = "list"
    /\ Compare(cur, "poll", poll.ids, VolumeIdsFromODIM(cur))
    /\ poll' = [poll EXCEPT !.pc = "next", !.ids = {}]
    /\ UNCHANGED <<odimVars, systemReset, kubeVars, track, worker, reset, cur, event, setup>>

\* Without the storage of the machine it is skipped; when the volumes of a storage
\* controller cannot be read, the controller has none.
PollVolumesFail ==
    /\ Disturb("listFault")
    /\ poll.pc = "list"
    /\ Compare(cur, "poll", poll.ids, {}) \/ UNCHANGED task
    /\ poll' = [poll EXCEPT !.pc = "next", !.ids = {}]
    /\ UNCHANGED <<odimVars, systemReset, kubeVars, track, worker, reset, cur, event>>

PollDone ==
    /\ poll.pc = "next" /\ poll.left = {}
    /\ poll' = NoPoll
    /\ UNCHANGED <<odimVars, systemReset, kubeVars, track, worker, reset, cur, event, task,
                   setup>>

\* ServerPostDiscoveryComplete: a machine has started, and has no other event until the
\* goroutine of this one ends. In mode Revert the goroutine has neither volUtil nor
\* bmcUtil: it panics before it changes anything, and the HTTP server goes on.
EventObjects(b) ==
    /\ Disturb("event")
    /\ setup.mode = "Accommodate"
    /\ event.pc = "idle" /\ \A t \in TasksOf("event") : task[t].pc = "idle"
    /\ event' = [pc |-> "list", bmc |-> b, ids |-> VolumeObjectIds(b)]
    /\ UNCHANGED <<odimVars, systemReset, kubeVars, track, worker, reset, poll, cur, task>>

EventVolumes ==
    /\ event.pc = "list"
    /\ Compare(event.bmc, "event", event.ids, VolumeIdsFromODIM(event.bmc))
    /\ event' = NoEvent
    /\ UNCHANGED <<odimVars, systemReset, kubeVars, track, worker, reset, poll, cur, setup>>

EventVolumesFail ==
    /\ Disturb("listFault")
    /\ event.pc = "list"
    /\ Compare(event.bmc, "event", event.ids, {}) \/ UNCHANGED task
    /\ event' = NoEvent
    /\ UNCHANGED <<odimVars, systemReset, kubeVars, track, worker, reset, poll, cur>>

-----------------------------------------------------------------------------
(* The calls. The goroutines of the poll read the machine from the loop's  *)
(* variable.                                                               *)

Machine(t) == IF t[3] = "poll" THEN cur ELSE t[1]

\* Mutant of IsGettingCreated: the name of a lost volume is known too.
IsGettingCreatedOnce(b, i) == title[b][i] # None /\ track[b][title[b][i]] = "created"

\* getVolumeName asks ODIM for the name of the volume, which is empty when ODIM
\* does not have it: nothing is tracked under that.
IsGettingCreated(b, i) == i \in live[b] /\ track[b][title[b][i]] = "created"
IsGettingDeleted(b, i) == track[b][i] = "deleted"

\* filterOutVolumesInProgress: what the reconciler is creating is left out when
\* the mode is to create, and what it is deleting when the mode is to delete.
InProgress(t, i) ==
    IF (t[2] = "created") = (setup.mode = "Accommodate")
    THEN IsGettingCreated(Machine(t), i) ELSE IsGettingDeleted(Machine(t), i)

\* An event looks at what ODIM has lost after it has made the objects.
Turn(t) == t[2] = "deleted" /\ t[3] = "event"
           => task[[t EXCEPT ![2] = "created"]].pc = "idle"

\* A call goes on to the next ID, and ends with the last.
Set(t, r) ==
    task' = [task EXCEPT ![t] =
        IF r.todo = {} /\ r.chosen = {} /\ r.id = None THEN NoTask
        ELSE IF r.todo = {} /\ r.pc = "filter" THEN [r EXCEPT !.pc = "work"] ELSE r]

\* Mutant of TaskFilter: only what is in progress passes.
TaskFilterInverted(t, i) ==
    LET r == task[t] IN
    /\ r.pc = "filter" /\ i \in r.todo /\ Turn(t)
    /\ Set(t, [r EXCEPT !.todo = @ \ {i},
                        !.chosen = IF InProgress(t, i) THEN @ \cup {i} ELSE @])
    /\ UNCHANGED <<odimVars, systemReset, kubeVars, track, worker, reset, loopVars, setup>>

TaskFilter(t, i) ==
    LET r == task[t] IN
    /\ r.pc = "filter" /\ i \in r.todo /\ Turn(t)
    /\ Set(t, [r EXCEPT !.todo = @ \ {i},
                        !.chosen = IF InProgress(t, i) THEN @ ELSE @ \cup {i}])
    /\ UNCHANGED <<odimVars, systemReset, kubeVars, track, worker, reset, loopVars, setup>>

Works(t, kind, i) ==
    /\ t[2] = kind
    /\ task[t].pc = "work" /\ i \in task[t].chosen

\* getVolumeDetailsAndCreateVolumeObject reads the volume.
ReadVolume(t, i) ==
    LET b == Machine(t) IN
    /\ setup.mode = "Accommodate"
    /\ Works(t, "created", i) /\ i \in live[b]
    /\ Set(t, [task[t] EXCEPT !.chosen = @ \ {i}, !.pc = "create", !.id = i,
                              !.name = title[b][i]])
    /\ UNCHANGED <<odimVars, systemReset, kubeVars, track, worker, reset, loopVars, setup>>

\* It makes an object, named after the machine that the loop has come to meanwhile, unless
\* the name is taken.
CreateObject(t) ==
    LET r == task[t]  k == <<Machine(t), NameOf[r.name]>> IN
    /\ setup.mode = "Accommodate"
    /\ r.pc = "create"
    /\ IF Exists(k) THEN UNCHANGED kubeVars /\ Set(t, NextVolume(r))
       ELSE /\ Store(t, k, [NewVolume EXCEPT !.spec = FALSE, !.finalizer = TRUE])
            /\ Set(t, [r EXCEPT !.pc = "status", !.key = k])
    /\ UNCHANGED <<odimVars, systemReset, track, worker, reset, loopVars, setup>>

\* The status is written by a second request.
CreateObjectStatus(t) ==
    LET r == task[t]  k == r.key IN
    /\ setup.mode = "Accommodate"
    /\ r.pc = "status"
    /\ UpdateIfFresh(t, k, [vol[k] EXCEPT !.VolumeID = r.id, !.VolumeName = r.name])
    /\ Set(t, NextVolume(r))
    /\ UNCHANGED <<odimVars, systemReset, track, worker, reset, loopVars, setup>>

\* Mutant of HasLostVolume: the IDs are not compared.
HasLostVolumeAny(t, k) == vol[k].VolumeID # None

HasLostVolume(t, k) == vol[k].VolumeID \in task[t].chosen

\* deleteVolumeObjects: GetAllVolumeObjects returns the last object of the list, of
\* any machine, as often as the machine has objects. It is removed without its
\* finalizer when it has one of the IDs.
DeleteObjects(t) ==
    LET r == task[t] IN
    /\ setup.mode = "Accommodate"
    /\ t[2] = "deleted" /\ r.pc = "work"
    /\ \/ ObjectsOf(Machine(t)) = {} /\ UNCHANGED kubeVars
       \/ /\ ObjectsOf(Machine(t)) # {}
          /\ \E k \in {k \in Keys : Exists(k)} :
                 IF HasLostVolume(t, k) THEN Gone(k) ELSE UNCHANGED kubeVars
    /\ Set(t, [r EXCEPT !.chosen = {}])
    /\ UNCHANGED <<odimVars, systemReset, track, worker, reset, loopVars, setup>>

\* getVolumeDetailsAndDeleteVolumeInODIM: the result of DeleteVolume is not used.
DeleteInOdim(t, i) ==
    LET r == task[t] IN
    /\ setup.mode = "Revert"
    /\ Works(t, "created", i)
    /\ track' = [track EXCEPT ![cur][i] = "deleted"]
    /\ unwanted' = [unwanted EXCEPT ![cur] = @ \cup ({i} \cap live[cur])]
    /\ Set(t, [r EXCEPT !.chosen = @ \ {i}])
    /\ UNCHANGED <<title, live, wanted, systemReset, kubeVars, worker, reset, loopVars, setup>>

\* GetVolumeObjectByVolumeID: an object with that ID, of whichever machine; if there
\* is none, any object.
WithVolumeID(i) ==
    LET found == {k \in Keys : Exists(k) /\ vol[k].VolumeID = i}
    IN  IF found # {} THEN found ELSE {k \in Keys : Exists(k)}

\* getVolumeObjectDetailsAndCreateVolumeInODIM: CreateVolume posts the volume of the
\* object once more and waits for the task, in one step here. Whatever the answer is,
\* the machine will be reset.
CreateInOdim(t, i) ==
    /\ setup.mode = "Revert"
    /\ Works(t, "deleted", i)
    /\ \E k \in WithVolumeID(i) :
           LET n == vol[k].VolumeName
               accepted == n # None /\ CanCreate(cur, n)
           IN  /\ track' = updateTrackVolume(cur, k, "created")
               /\ fresh' = [fresh EXCEPT ![t] = {k}]
               /\ Set(t, [task[t] EXCEPT !.chosen = @ \ {i}, !.pc = "renew", !.key = k,
                                         !.id = i, !.done = accepted])
               /\ IF accepted
                  THEN /\ wanted' = [wanted EXCEPT ![cur] = @ \cup {n}]
                       /\ systemReset' \in {systemReset, [systemReset EXCEPT ![cur] = n]}
                  ELSE UNCHANGED <<wanted, systemReset>>
    /\ UNCHANGED <<title, live, unwanted, vol, queue, worker, reset, loopVars, setup>>

\* The POST fails and nothing more is done, or the task fails.
CreateInOdimFails(t, i) ==
    /\ Disturb("odimFault")
    /\ setup.mode = "Revert"
    /\ Works(t, "deleted", i)
    /\ \E k \in WithVolumeID(i) :
           /\ track' = updateTrackVolume(cur, k, "created")
           /\ \/ Set(t, [task[t] EXCEPT !.chosen = @ \ {i}])
              \/ Set(t, [task[t] EXCEPT !.chosen = @ \ {i}, !.pc = "renew", !.key = k,
                                        !.id = i, !.done = FALSE])
    /\ UNCHANGED <<odimVars, systemReset, kubeVars, worker, reset, loopVars>>

ResetForVolume(t) ==
    LET r == task[t] IN
    /\ setup.mode = "Revert"
    /\ r.pc = "renew"
    /\ ApplyReset(cur)
    /\ Set(t, IF r.done THEN [r EXCEPT !.pc = "status"] ELSE NextVolume(r))
    /\ UNCHANGED <<systemReset, kubeVars, track, worker, reset, loopVars, setup>>

\* The reset fails: the object keeps the ID.
ResetForVolumeFails(t) ==
    LET r == task[t] IN
    /\ Disturb("odimFault")
    /\ setup.mode = "Revert"
    /\ r.pc = "renew"
    /\ Set(t, NextVolume(r))
    /\ UNCHANGED <<odimVars, systemReset, kubeVars, track, worker, reset, loopVars>>

\* getNewVolumeIDForObject finds the volume by its name.
NewIds(k) == {j \in live[cur] : title[cur][j] = vol[k].VolumeName}

NewVolumeID(t) ==
    LET r == task[t]  k == r.key IN
    /\ setup.mode = "Revert"
    /\ r.pc = "status"
    /\ IF k \in fresh[t]
       THEN \E j \in NewIds(k) : Store(t, k, [vol[k] EXCEPT !.VolumeID = j])
       ELSE UNCHANGED kubeVars
    /\ Set(t, NextVolume(r))
    /\ UNCHANGED <<odimVars, systemReset, track, worker, reset, loopVars, setup>>

TaskStep(t) ==
    \/ \E i \in Ids : TaskFilter(t, i) \/ ReadVolume(t, i)
                      \/ DeleteInOdim(t, i) \/ CreateInOdim(t, i)
    \/ CreateObject(t) \/ CreateObjectStatus(t)
    \/ DeleteObjects(t) \/ ResetForVolume(t) \/ NewVolumeID(t)

-----------------------------------------------------------------------------
(* The end of the process.                                                 *)

\* TrackVolumeStatus and the differences are lost. At the start VolumeReconciler is
\* called for every object.
Forget ==
    /\ track' = NothingTracked
    /\ worker' = NoWorker /\ reset' = NoReset
    /\ poll' = NoPoll /\ cur' = None /\ event' = NoEvent /\ task' = [t \in Tasks |-> NoTask]
    /\ fresh' = [p \in Procs |-> {}]
    /\ queue' = {k \in Keys : HasWork(vol[k])}
    /\ UNCHANGED <<odimVars, systemReset, vol>>

Crash == Disturb("crash") /\ Forget

\* The volume is gone that getVolumeDetailsAndCreateVolumeObject asks for, or there never was
\* one whose ID is the last character of another's: the answer has no Name.
NoName(t, i) ==
    /\ setup.mode = "Accommodate"
    /\ Works(t, "created", i) /\ i \notin live[Machine(t)]

PanicNoName(t, i) == t[3] = "poll" /\ NoName(t, i) /\ Forget /\ UNCHANGED setup

\* The HTTP server recovers the panic of an event: only its goroutine ends.
EventNoName(t, i) ==
    /\ t[3] = "event" /\ NoName(t, i)
    /\ task' = [task EXCEPT ![t] = NoTask, ![[t EXCEPT ![2] = "deleted"]] = NoTask]
    /\ UNCHANGED <<odimVars, systemReset, kubeVars, track, worker, reset, loopVars, setup>>

\* GetVolumeObject and GetVolumeObjectByVolumeID find no object at all.
PanicNoObject ==
    /\ \A k \in Keys : ~Exists(k)
    /\ \/ reset.pc = "dependents" /\ reset.pending # None
       \/ \E t \in Tasks, i \in Ids : setup.mode = "Revert" /\ Works(t, "deleted", i)
    /\ Forget /\ UNCHANGED setup

\* getNewVolumeIDForObject finds no volume, and no error to report.
PanicNoNewID(t) ==
    /\ setup.mode = "Revert"
    /\ task[t].pc = "status" /\ task[t].key \in fresh[t] /\ NewIds(task[t].key) = {}
    /\ Forget /\ UNCHANGED setup

-----------------------------------------------------------------------------
(* The specification.                                                      *)

Disturbance ==
    \/ \E k \in Keys : UserCreate(k) \/ UserDelete(k) \/ UserTouch(k)
    \/ \E b \in Bmcs : \/ \E n \in Titles : OdimCreate(b, n)
                       \/ \E i \in Ids : OdimDelete(b, i)
                       \/ ResetStart(b) \/ EventObjects(b)
    \/ VolPostFails \/ VolTaskFails \/ ResetFails \/ PollVolumesFail \/ EventVolumesFail
    \/ \E t \in Tasks : ResetForVolumeFails(t) \/ \E i \in Ids : CreateInOdimFails(t, i)
    \/ Crash

PollStep == PollTick \/ (\E b \in Bmcs : PollObjects(b)) \/ PollVolumes \/ PollDone

Panic == \/ \E t \in Tasks : PanicNoNewID(t) \/ \E i \in Ids : PanicNoName(t, i)
         \/ PanicNoObject

EventStep == EventVolumes \/ \E t \in TasksOf("event") :
                 TaskStep(t) \/ \E i \in Ids : EventNoName(t, i)

Next == VolStep \/ ResetStep \/ PollStep \/ EventStep \/ (\E t \in TasksOf("poll") : TaskStep(t))
        \/ Panic \/ Disturbance

Spec == Init /\ [][Next]_vars

\* Each goroutine goes on, and the work queue serves every object in it.
Fairness ==
    /\ WF_vars(VolStep) /\ \A k \in Keys : SF_vars(VolStart(k)) /\ SF_vars(VolRemove(k))
    /\ WF_vars(ResetStep) /\ WF_vars(PollStep) /\ WF_vars(EventStep)
    /\ WF_vars(Panic)
    /\ \A t \in TasksOf("poll") : WF_vars(TaskStep(t))

FairSpec == Spec /\ Fairness

-----------------------------------------------------------------------------
(* Properties.                                                             *)

\* Every variable keeps to its set; the calls in the queue have something to do.
TypeOK ==
    /\ title \in [Bmcs -> [Ids -> Titles \cup {None}]]
    /\ live \in [Bmcs -> SUBSET Ids] /\ unwanted \in [Bmcs -> SUBSET Ids]
    /\ \A b \in Bmcs : unwanted[b] \subseteq live[b] /\ live[b] \cap Unused(b) = {}
    /\ wanted \in [Bmcs -> SUBSET Titles] /\ systemReset \in [Bmcs -> Titles \cup {None}]
    /\ vol \in [Keys -> Volume \cup {NoObject}]
    /\ fresh \in [Procs -> SUBSET {k \in Keys : Exists(k)}]
    /\ queue \subseteq {k \in Keys : HasWork(vol[k])}
    /\ track \in [Bmcs -> [Titles \cup Ids -> {"none", "created", "deleted"}]]
    /\ worker \in [pc : {"idle", "post", "task", "fail", "removed"}, key : Keys \cup {None}]
    /\ reset \in [pc : {"idle", "task", "dependents", "clear"}, bmc : Bmcs \cup {None},
                  pending : Titles \cup {None}, key : Keys \cup {None}]
    /\ poll \in [pc : {"idle", "next", "list"}, left : SUBSET Bmcs, ids : SUBSET Ids]
    /\ event \in [pc : {"idle", "list"}, bmc : Bmcs \cup {None}, ids : SUBSET Ids]
    /\ cur \in Bmcs \cup {None} /\ task \in [Tasks -> Task]
    /\ \E s \in Setups : \E n \in 0 .. s.times : setup = [s EXCEPT !.times = n]

OneMachine == \A b, c \in Bmcs : b = c

\* Every ID is its own last character, so that no volume's URL is taken for another's.
OneCharacter == \A i \in Ids : Last[i] = i

\* A volume that was given the ID i was given the name n with it, on some machine.
Given(i, n) == n \in Titles /\ \E b \in Bmcs : title[b][i] = n

\* k has the name that n comes to, or asks for the same drives.
Suits(k, n) == NameOf[n] = k[2] \/ DrivesOf[n] = DrivesOf[k[2]]

\* An object's ID and volume name are those of one volume, which the object is named
\* after or whose drives it asks for: neither ResetSystem nor poll and events, which find
\* volumes and objects in lists and carry ID and name along through several requests,
\* put one volume's ID into the object of a volume with another name and other drives.
\* With one machine the volume is the object's machine's; with more it need not be.
ObjectsNameTheirVolume ==
    \A k \in Keys : Exists(k) /\ vol[k].VolumeID # None
        => Given(vol[k].VolumeID, vol[k].VolumeName) /\ Suits(k, vol[k].VolumeName)

\* Poll and events remove an object whose volume's ID has one character only when ODIM has
\* lost the volume, although they work on lists that are minutes old and objects get their
\* IDs in the meantime. The lists must have been read, though, and be those of the only
\* machine: the object is looked for among those of all machines.
DropsOnlyLost ==
    [][OneMachine /\ "listFault" \notin setup.kinds =>
       \A k \in Keys : task' # task /\ Exists(k) /\ vol'[k] = NoObject
           => \A i \in live[k[1]] : Last[i] = i => vol[k].VolumeID # i]_<<vol, task>>

\* What the goroutines hold between two requests: a machine, an object and a volume to go
\* on with. An event has no goroutine in mode Revert.
GoroutinesInv ==
    /\ worker.pc # "idle" => worker.key \in Keys
    /\ reset.pc # "idle" => reset.bmc \in Bmcs
    /\ reset.pc = "clear" => reset.key \in Keys
    /\ event.pc = "list" => event.bmc \in Bmcs
    /\ poll.pc = "list" \/ (\E t \in TasksOf("poll") : task[t].pc # "idle") => cur \in Bmcs
    /\ \A t \in Tasks :
          /\ task[t].pc \in {"status", "renew"} => task[t].key \in Keys /\ task[t].id \in Ids
          /\ task[t].pc = "create" \/ (setup.mode = "Accommodate" /\ task[t].pc = "status")
                => task[t].id \in Ids /\ Given(task[t].id, task[t].name)
          /\ setup.mode = "Accommodate" /\ task[t].pc = "status"
                => Suits(task[t].key, task[t].name)
    /\ setup.mode = "Revert" => /\ event.pc = "idle"
                               /\ \A t \in TasksOf("event") : task[t].pc = "idle"

\* The status of an object has an ID and a name, or neither.
StatusInv ==
    \A k \in Keys : Exists(k) => (vol[k].VolumeID = None <=> vol[k].VolumeName = None)

\* What was listed are IDs of volumes, and what is to be dropped are IDs of lost ones, or
\* have more than one character.
ListsInv ==
    /\ OneMachine => \A b \in Bmcs : \A i \in poll.ids \cup event.ids : title[b][i] # None
    /\ OneMachine /\ "listFault" \notin setup.kinds =>
          \A b \in Bmcs, t \in Tasks : t[2] = "deleted" =>
              \A i \in task[t].todo \cup task[t].chosen : title[b][i] # None /\ (Last[i] = i => i \notin live[b])

\* Everything the goroutines rely on, together: an inductive invariant.
Inv == TypeOK /\ ObjectsNameTheirVolume /\ GoroutinesInv /\ StatusInv /\ ListsInv

\* Accommodate: a volume that ODIM has and does not lose gets an object, when IDs have one
\* character, users make no objects themselves and the process does not end, be it that the
\* poll reads a volume just lost while an event has not yet written the ID into its object.
VolumesGetObjects ==
    (/\ setup.mode = "Accommodate" /\ OneCharacter
     /\ setup.kinds \cap {"create", "delete", "touch", "crash"} = {}
     /\ ~({"odimDelete", "event"} \subseteq setup.kinds))
    => \A b \in Bmcs, i \in Ids :
        [](i \in live[b] => <>(i \notin live[b] \/ \E k \in ObjectsOf(b) : vol[k].VolumeID = i))

\* Revert: a volume that ODIM loses while there is an object for it is there again in
\* the end, under an ID that the object has, when IDs have one character.
LostVolumesComeBack ==
    setup.mode = "Revert" /\ OneCharacter => \A k \in Keys :
        [](Exists(k) => <>(~Exists(k) \/ vol[k].deleting \/ vol[k].VolumeID = None
                           \/ vol[k].VolumeID \in live[k[1]]))

=============================================================================
