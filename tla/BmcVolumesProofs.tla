--------------------------- MODULE BmcVolumesProofs ----------------------------
(***************************************************************************)
(* The safety properties of BmcVolumes, for every number of machines,      *)
(* volumes, IDs and disturbances.                                          *)
(***************************************************************************)
EXTENDS BmcVolumes, TLAPS

USE DEF Exists

ListsRead == OneMachine /\ "listFault" \notin setup.kinds

\* The state, part by part.
SetupOK == \E s \in Setups : \E n \in 0 .. s.times : setup = [s EXCEPT !.times = n]

OdimOK ==
    /\ title \in [Bmcs -> [Ids -> Titles \cup {None}]]
    /\ live \in [Bmcs -> SUBSET Ids] /\ unwanted \in [Bmcs -> SUBSET Ids]
    /\ \A b \in Bmcs : unwanted[b] \subseteq live[b] /\ \A i \in live[b] : title[b][i] # None
    /\ wanted \in [Bmcs -> SUBSET Titles] /\ systemReset \in [Bmcs -> Titles \cup {None}]

StatusOK(k, o) ==
    /\ o.VolumeID = None <=> o.VolumeName = None
    /\ o.VolumeID # None => Given(o.VolumeID, o.VolumeName) /\ Suits(k, o.VolumeName)

KubeOK ==
    /\ vol \in [Keys -> Volume \cup {NoObject}]
    /\ fresh \in [Procs -> SUBSET Keys] /\ \A p \in Procs : \A k \in fresh[p] : Exists(k)
    /\ queue \subseteq Keys /\ \A k \in queue : HasWork(vol[k])
    /\ \A k \in Keys : Exists(k) => StatusOK(k, vol[k])

TrackOK == track \in [Bmcs -> [Titles \cup Ids -> {"none", "created", "deleted"}]]

WorkerOK ==
    /\ worker \in [pc : {"idle", "post", "task", "fail", "removed"}, key : Keys \cup {None}]
    /\ worker.pc # "idle" => worker.key \in Keys

ResetOK ==
    /\ reset \in [pc : {"idle", "task", "dependents", "clear"}, bmc : Bmcs \cup {None},
                  pending : Titles \cup {None}, key : Keys \cup {None}]
    /\ reset.pc # "idle" => reset.bmc \in Bmcs
    /\ reset.pc = "clear" => reset.key \in Keys

LoopOK ==
    /\ poll \in [pc : {"idle", "next", "list"}, left : SUBSET Bmcs, ids : SUBSET Ids]
    /\ event \in [pc : {"idle", "list"}, bmc : Bmcs \cup {None}, ids : SUBSET Ids]
    /\ cur \in Bmcs \cup {None}
    /\ poll.pc = "list" => cur \in Bmcs
    /\ event.pc = "list" => event.bmc \in Bmcs /\ setup.mode = "Accommodate"
    /\ OneMachine => \A b \in Bmcs : \A i \in poll.ids \cup event.ids : title[b][i] # None

CallOK(t, r) ==
    /\ r.pc \in {"status", "renew"} => r.key \in Keys /\ r.id \in Ids
    /\ r.pc = "create" \/ (setup.mode = "Accommodate" /\ r.pc = "status")
          => r.id \in Ids /\ Given(r.id, r.name)
    /\ setup.mode = "Accommodate" /\ r.pc = "status" => Suits(r.key, r.name)
    /\ r.pc # "idle" => IF t[3] = "poll" THEN cur \in Bmcs ELSE setup.mode = "Accommodate"
    /\ ListsRead /\ t[2] = "deleted" =>
          \A b \in Bmcs : \A i \in r.todo \cup r.chosen :
              title[b][i] # None /\ (Last[i] = i => i \notin live[b])

TasksOK == task \in [Tasks -> Task] /\ \A t \in Tasks : CallOK(t, task[t])

InvOK == SetupOK /\ OdimOK /\ KubeOK /\ TrackOK /\ WorkerOK /\ ResetOK /\ LoopOK /\ TasksOK

\* Mode and kinds of the disturbances stay what they are.
LEMMA Modes == SetupOK => /\ setup.mode \in {"Accommodate", "Revert"} /\ setup.times \in Nat
                          /\ setup = [mode |-> setup.mode, kinds |-> setup.kinds, times |-> setup.times]
BY VolumesAssumption DEF SetupOK

LEMMA Caller == \A t \in Tasks : t[1] \in Bmcs /\ t[2] \in {"created", "deleted"} /\ t[3] \in {"poll", "event"}
BY DEF Tasks

\* These parts are what BmcVolumes promises.
LEMMA InvParts == Inv <=> InvOK
<1>1. TypeOK <=>
        /\ SetupOK /\ OdimOK /\ TrackOK /\ vol \in [Keys -> Volume \cup {NoObject}]
        /\ fresh \in [Procs -> SUBSET Keys] /\ \A p \in Procs : \A k \in fresh[p] : Exists(k)
        /\ queue \subseteq Keys /\ \A k \in queue : HasWork(vol[k])
        /\ worker \in [pc : {"idle", "post", "task", "fail", "removed"}, key : Keys \cup {None}]
        /\ reset \in [pc : {"idle", "task", "dependents", "clear"}, bmc : Bmcs \cup {None},
                      pending : Titles \cup {None}, key : Keys \cup {None}]
        /\ poll \in [pc : {"idle", "next", "list"}, left : SUBSET Bmcs, ids : SUBSET Ids]
        /\ event \in [pc : {"idle", "list"}, bmc : Bmcs \cup {None}, ids : SUBSET Ids]
        /\ cur \in Bmcs \cup {None} /\ task \in [Tasks -> Task]
  <2>1. fresh \in [Procs -> SUBSET {k \in Keys : Exists(k)}]
          <=> fresh \in [Procs -> SUBSET Keys] /\ \A p \in Procs : \A k \in fresh[p] : Exists(k)
    OBVIOUS
  <2>2. queue \subseteq {k \in Keys : HasWork(vol[k])}
          <=> queue \subseteq Keys /\ \A k \in queue : HasWork(vol[k])
    OBVIOUS
  <2>3. ASSUME title \in [Bmcs -> [Ids -> Titles \cup {None}]], live \in [Bmcs -> SUBSET Ids],
               NEW b \in Bmcs
        PROVE  live[b] \cap Unused(b) = {} <=> \A i \in live[b] : title[b][i] # None
    BY <2>3 DEF Unused
  <2> HIDE DEF Exists
  <2> QED BY <2>1, <2>2, <2>3 DEF TypeOK, SetupOK, OdimOK, TrackOK
<1>2. ASSUME InvOK PROVE GoroutinesInv /\ ListsInv
  <2> USE <1>2, Modes, Caller DEF InvOK
  <2>1. GoroutinesInv
    <3>1. ASSUME NEW t \in Tasks
          PROVE  /\ task[t].pc \in {"status", "renew"} => task[t].key \in Keys /\ task[t].id \in Ids
                 /\ task[t].pc = "create" \/ (setup.mode = "Accommodate" /\ task[t].pc = "status")
                       => task[t].id \in Ids /\ Given(task[t].id, task[t].name)
                 /\ setup.mode = "Accommodate" /\ task[t].pc = "status"
                       => Suits(task[t].key, task[t].name)
                 /\ t[3] = "poll" /\ task[t].pc # "idle" => cur \in Bmcs
                 /\ t[3] = "event" /\ setup.mode = "Revert" => task[t].pc = "idle"
      BY <3>1 DEF TasksOK, CallOK
    <3>2. /\ worker.pc # "idle" => worker.key \in Keys
          /\ reset.pc # "idle" => reset.bmc \in Bmcs
          /\ reset.pc = "clear" => reset.key \in Keys
          /\ event.pc = "list" => event.bmc \in Bmcs
          /\ poll.pc = "list" => cur \in Bmcs
          /\ setup.mode = "Revert" => event.pc = "idle"
      BY DEF WorkerOK, ResetOK, LoopOK
    <3> QED BY <3>1, <3>2 DEF GoroutinesInv, TasksOf
  <2>2. ListsInv
    BY DEF LoopOK, TasksOK, CallOK, ListsInv, ListsRead
  <2> QED BY <2>1, <2>2
<1>3. ASSUME TypeOK, GoroutinesInv, ListsInv PROVE WorkerOK /\ ResetOK /\ LoopOK /\ TasksOK
  <2> USE <1>1, <1>3, Modes, Caller
  <2>1. WorkerOK /\ ResetOK
    BY DEF WorkerOK, ResetOK, GoroutinesInv
  <2>2. LoopOK
    BY DEF LoopOK, GoroutinesInv, ListsInv
  <2>3. ASSUME NEW t \in Tasks PROVE CallOK(t, task[t])
    BY <2>3 DEF CallOK, GoroutinesInv, ListsInv, ListsRead, TasksOf
  <2> QED BY <2>1, <2>2, <2>3 DEF TasksOK
<1>4. StatusInv /\ ObjectsNameTheirVolume <=> \A k \in Keys : Exists(k) => StatusOK(k, vol[k])
  BY DEF StatusInv, ObjectsNameTheirVolume, StatusOK
<1>5. ASSUME Inv PROVE InvOK
  BY <1>1, <1>3, <1>4, <1>5 DEF Inv, InvOK, KubeOK
<1>6. ASSUME InvOK PROVE Inv
  <2>1. TypeOK
    BY <1>1, <1>6 DEF InvOK, KubeOK, WorkerOK, ResetOK, LoopOK, TasksOK
  <2> QED BY <1>2, <1>4, <1>6, <2>1 DEF Inv, InvOK, KubeOK
<1> QED BY <1>5, <1>6


-----------------------------------------------------------------------------
(* ODIM.                                                                   *)

\* IDs keep the name they were given, and a new volume gets an ID that was never used.
OdimStep ==
    /\ \A b \in Bmcs, i \in Ids : title[b][i] # None => title'[b][i] = title[b][i]
    /\ \A b \in Bmcs : \A i \in live'[b] : i \in live[b] \/ title[b][i] = None

LEMMA OdimKept ==
    ASSUME OdimOK, UNCHANGED <<odimVars, systemReset>>
    PROVE  OdimOK' /\ OdimStep
BY DEF OdimOK, OdimStep, odimVars

LEMMA ApplyResetOK ==
    ASSUME OdimOK, NEW b \in Bmcs, ApplyReset(b), UNCHANGED systemReset
    PROVE  OdimOK' /\ OdimStep
<1>1. PICK f \in [wanted[b] -> Unused(b)] :
        /\ title' = [title EXCEPT ![b] = [i \in Ids |->
               IF \E t \in wanted[b] : f[t] = i
               THEN CHOOSE t \in wanted[b] : f[t] = i ELSE @[i]]]
        /\ live' = [live EXCEPT ![b] = (@ \ unwanted[b]) \cup {f[t] : t \in wanted[b]}]
  BY DEF ApplyReset, Numberings
<1> DEFINE named(i) == IF \E t \in wanted[b] : f[t] = i
                       THEN CHOOSE t \in wanted[b] : f[t] = i ELSE title[b][i]
<1>2. /\ title' = [title EXCEPT ![b] = [i \in Ids |-> named(i)]]
      /\ live' = [live EXCEPT ![b] = (live[b] \ unwanted[b]) \cup {f[t] : t \in wanted[b]}]
      /\ wanted' = [wanted EXCEPT ![b] = {}] /\ unwanted' = [unwanted EXCEPT ![b] = {}]
  BY <1>1 DEF ApplyReset, OdimOK
<1>3. \A i \in Ids : /\ (\E t \in wanted[b] : f[t] = i) => named(i) \in wanted[b]
                     /\ ~(\E t \in wanted[b] : f[t] = i) => named(i) = title[b][i]
  OBVIOUS
<1>4. \A t \in wanted[b] : f[t] \in Ids /\ title[b][f[t]] = None /\ t \in Titles
  BY <1>1 DEF Unused, OdimOK
<1> HIDE DEF named
<1>5. \A i \in Ids : named(i) \in Titles \cup {None} /\ (title[b][i] # None => named(i) = title[b][i])
  BY <1>3, <1>4 DEF OdimOK
<1>6. /\ title' \in [Bmcs -> [Ids -> Titles \cup {None}]]
      /\ \A c \in Bmcs, i \in Ids : title'[c][i] = IF c = b THEN named(i) ELSE title[c][i]
  BY <1>2, <1>5 DEF OdimOK
<1>7. live' \in [Bmcs -> SUBSET Ids] /\ unwanted' \in [Bmcs -> SUBSET Ids]
      /\ wanted' \in [Bmcs -> SUBSET Titles]
  BY <1>2, <1>4 DEF OdimOK
<1>8. \A c \in Bmcs : \A i \in live'[c] : i \in live[c] \/ (c = b /\ \E t \in wanted[b] : f[t] = i)
  BY <1>2 DEF OdimOK
<1>9. OdimStep
  BY <1>4, <1>5, <1>6, <1>8 DEF OdimStep
<1>10. \A c \in Bmcs : unwanted'[c] \subseteq live'[c]
  BY <1>2 DEF OdimOK
<1>11. \A c \in Bmcs : \A i \in live'[c] : title'[c][i] # None
  <2> SUFFICES ASSUME NEW c \in Bmcs, NEW i \in live'[c] PROVE title'[c][i] # None
    OBVIOUS
  <2>1. i \in Ids
    BY <1>7
  <2>2. CASE i \in live[c]
    BY <1>9, <2>1, <2>2 DEF OdimOK, OdimStep
  <2>3. CASE c = b /\ \E t \in wanted[b] : f[t] = i
    BY <1>3, <1>4, <1>6, <2>1, <2>3, VolumesAssumption
  <2> QED BY <1>8, <2>2, <2>3
<1> QED BY <1>6, <1>7, <1>9, <1>10, <1>11 DEF OdimOK

LEMMA OdimCreateOK ==
    ASSUME OdimOK, NEW b \in Bmcs, NEW t \in Titles, OdimCreate(b, t)
    PROVE  OdimOK' /\ OdimStep
<1>1. PICK i \in Unused(b) : /\ title' = [title EXCEPT ![b][i] = t]
                              /\ live' = [live EXCEPT ![b] = @ \cup {i}]
                              /\ UNCHANGED <<wanted, unwanted, systemReset>>
  BY DEF OdimCreate, Numberings
<1>2. i \in Ids /\ title[b][i] = None
  BY DEF Unused
<1>3. t # None
  BY VolumesAssumption
<1> QED BY <1>1, <1>2, <1>3 DEF OdimOK, OdimStep

LEMMA OdimDeleteOK ==
    ASSUME OdimOK, NEW b \in Bmcs, NEW i \in Ids, OdimDelete(b, i)
    PROVE  OdimOK' /\ OdimStep
BY DEF OdimOK, OdimStep, OdimDelete

-----------------------------------------------------------------------------
(* Kubernetes.                                                             *)

ModesKept == setup'.mode = setup.mode /\ setup'.kinds = setup.kinds

LEMMA DisturbOK ==
    ASSUME SetupOK, UNCHANGED setup \/ \E kind : Disturb(kind)
    PROVE  SetupOK' /\ ModesKept
<1>0. PICK s \in Setups : \E n \in 0 .. s.times : setup = [s EXCEPT !.times = n]
  BY DEF SetupOK
<1>1. PICK n \in 0 .. s.times : setup = [s EXCEPT !.times = n]
  BY <1>0
<1>2. s \in [mode : {"Accommodate", "Revert"}, kinds : SUBSET DisturbanceKinds, times : Nat]
  BY VolumesAssumption
<1>3. setup = [mode |-> s.mode, kinds |-> s.kinds, times |-> n]
  BY <1>1, <1>2
<1>4. CASE \E kind : Disturb(kind)
  <2>1. n > 0 /\ setup' = [setup EXCEPT !.times = n - 1]
    BY <1>2, <1>3, <1>4 DEF Disturb
  <2>2. setup' = [s EXCEPT !.times = n - 1] /\ n - 1 \in 0 .. s.times
    BY <1>2, <1>3, <2>1
  <2> QED BY <1>3, <2>1, <2>2 DEF SetupOK, ModesKept
<1>5. CASE UNCHANGED setup
  BY <1>5 DEF SetupOK, ModesKept
<1> QED BY <1>4, <1>5

\* A volume keeps the name it was given with its ID.
LEMMA GivenKept ==
    ASSUME OdimStep, NEW i \in Ids, NEW n, Given(i, n)
    PROVE  Given(i, n)'
<1>1. n # None
  BY VolumesAssumption DEF Given
<1> QED BY <1>1 DEF Given, OdimStep

\* What an object says of its volume stays true.
LEMMA StatusKept ==
    ASSUME OdimStep, NEW k \in Keys, NEW o \in Volume, StatusOK(k, o)
    PROVE  StatusOK(k, o)'
<1>1. o.VolumeID # None => o.VolumeID \in Ids
  BY DEF Volume
<1>2. o.VolumeID # None => Given(o.VolumeID, o.VolumeName)'
  BY <1>1, GivenKept DEF StatusOK
<1> QED BY <1>2 DEF StatusOK

LEMMA KubeKept ==
    ASSUME KubeOK, OdimStep, ModesKept, UNCHANGED kubeVars
    PROVE  KubeOK'
<1>1. UNCHANGED <<vol, fresh, queue>>
  BY DEF kubeVars
<1>2. ASSUME NEW k \in Keys, Exists(k) PROVE StatusOK(k, vol[k])'
  <2>1. vol[k] \in Volume /\ StatusOK(k, vol[k]) /\ vol'[k] = vol[k]
    BY <1>1, <1>2 DEF KubeOK
  <2> QED BY <1>1, <2>1, StatusKept DEF StatusOK, Given
<1> QED BY <1>1, <1>2 DEF KubeOK, HasWork

\* An object is stored whose status is right.
LEMMA StoreOK ==
    ASSUME KubeOK, NEW p, NEW k \in Keys, NEW o \in Volume, StatusOK(k, o), Store(p, k, o),
           UNCHANGED title, ModesKept
    PROVE  KubeOK' /\ \A j \in Keys : Exists(j) => Exists(j)'
<1>1. /\ vol' \in [Keys -> Volume \cup {NoObject}] /\ vol'[k] = o /\ o # NoObject
      /\ \A j \in Keys : j # k => vol'[j] = vol[j]
  BY VolumesAssumption DEF KubeOK, Store
<1>2. /\ fresh' \in [Procs -> SUBSET Keys]
      /\ \A q \in Procs : \A j \in fresh'[q] : j = k \/ j \in fresh[q]
  BY DEF KubeOK, Store
<1>3. queue' \subseteq Keys /\ \A j \in queue' : j \in queue \/ j = k
  BY DEF KubeOK, Store
<1>4. k \in queue' => HasWork(o)
  BY DEF Store
<1>5. \A j \in queue' : HasWork(vol[j])'
  BY <1>1, <1>3, <1>4 DEF KubeOK, HasWork
<1>6. \A j \in Keys : Exists(j)' => StatusOK(j, vol[j])'
  BY <1>1 DEF KubeOK, StatusOK, Given
<1> QED BY <1>1, <1>2, <1>3, <1>5, <1>6 DEF KubeOK

LEMMA GoneOK ==
    ASSUME KubeOK, NEW k \in Keys, Gone(k), UNCHANGED title, ModesKept
    PROVE  KubeOK' /\ \A j \in Keys : j # k => vol'[j] = vol[j]
<1>1. /\ vol' \in [Keys -> Volume \cup {NoObject}] /\ vol'[k] = NoObject
      /\ \A j \in Keys : j # k => vol'[j] = vol[j]
  BY DEF KubeOK, Gone
<1>2. /\ fresh' \in [Procs -> SUBSET Keys]
      /\ \A q \in Procs : \A j \in fresh'[q] : j # k /\ j \in fresh[q]
  BY DEF KubeOK, Gone
<1>3. queue' \subseteq Keys /\ \A j \in queue' : j \in queue /\ j # k
  BY DEF KubeOK, Gone
<1>4. \A j \in queue' : HasWork(vol[j])'
  BY <1>1, <1>3 DEF KubeOK, HasWork
<1>5. \A j \in Keys : Exists(j)' => StatusOK(j, vol[j])'
  BY <1>1 DEF KubeOK, StatusOK, Given
<1> QED BY <1>1, <1>2, <1>3, <1>4, <1>5 DEF KubeOK

\* The objects are as they were but for the requests that wait and the copies.
LEMMA SameOK ==
    ASSUME KubeOK, UNCHANGED <<vol, title>>, ModesKept,
           fresh' \in [Procs -> SUBSET Keys], \A p \in Procs : \A j \in fresh'[p] : Exists(j),
           queue' \subseteq Keys, \A j \in queue' : HasWork(vol[j])
    PROVE  KubeOK'
BY DEF KubeOK, StatusOK, Given, HasWork

LEMMA RequeueOK ==
    ASSUME KubeOK, NEW k, Requeue(k), UNCHANGED title, ModesKept
    PROVE  KubeOK'
<1>1. /\ UNCHANGED <<vol, fresh>> /\ queue' \subseteq Keys /\ \A j \in queue' : HasWork(vol[j])
  BY DEF KubeOK, Requeue
<1>2. fresh' \in [Procs -> SUBSET Keys] /\ \A p \in Procs : \A j \in fresh'[p] : Exists(j)
  BY <1>1 DEF KubeOK
<1> QED BY <1>1, <1>2, SameOK

LEMMA DeleteOK ==
    ASSUME KubeOK, NEW k \in Keys, Delete(k), UNCHANGED title, ModesKept
    PROVE  KubeOK'
<1>1. CASE UNCHANGED kubeVars
  BY <1>1, SameOK DEF kubeVars, KubeOK
<1>2. CASE Gone(k)
  BY <1>2, GoneOK
<1>3. CASE Exists(k) /\ Store(None, k, [vol[k] EXCEPT !.deleting = TRUE])
  <2> DEFINE o == [vol[k] EXCEPT !.deleting = TRUE]
  <2>1. o \in Volume /\ StatusOK(k, o)
    BY <1>3 DEF KubeOK, Volume, StatusOK
  <2> HIDE DEF o
  <2> QED BY <1>3, <2>1, StoreOK DEF o
<1> QED BY <1>1, <1>2, <1>3 DEF Delete

-----------------------------------------------------------------------------
(* Polling loop, events and their calls.                                   *)

LEMMA LoopKept ==
    ASSUME OdimOK, LoopOK, OdimStep, ModesKept, UNCHANGED loopVars
    PROVE  LoopOK'
<1>1. UNCHANGED <<poll, cur, event>>
  BY DEF loopVars
<1>2. OneMachine => \A b \in Bmcs : \A i \in poll.ids \cup event.ids : title'[b][i] # None
  BY DEF LoopOK, OdimStep
<1> QED BY <1>1, <1>2 DEF LoopOK, ModesKept

\* A call can still go on as it was when ODIM has changed meanwhile.
LEMMA CallKept ==
    ASSUME OdimStep, ModesKept, UNCHANGED cur, NEW t \in Tasks, NEW r \in Task, CallOK(t, r)
    PROVE  CallOK(t, r)'
<1>1. r.id \in Ids /\ Given(r.id, r.name) => Given(r.id, r.name)'
  BY GivenKept
<1>2. \A b \in Bmcs : \A i \in r.todo \cup r.chosen :
          title[b][i] # None /\ (Last[i] = i => i \notin live[b])
              => title'[b][i] # None /\ (Last[i] = i => i \notin live'[b])
  BY DEF Task, OdimStep
<1>3. ListsRead' <=> ListsRead
  BY DEF ListsRead, ModesKept
<1> QED BY <1>1, <1>2, <1>3 DEF CallOK, ModesKept

\* No call, or calls that have ended.
LEMMA NoTaskOK ==
    /\ NoTask \in Task
    /\ \A t \in Tasks : CallOK(t, NoTask)'
BY DEF NoTask, Task, CallOK

LEMMA TasksKept ==
    ASSUME TasksOK, OdimStep, ModesKept, UNCHANGED cur,
           task' \in [Tasks -> Task], \A t \in Tasks : task'[t] \in {task[t], NoTask}
    PROVE  TasksOK'
<1> SUFFICES ASSUME NEW t \in Tasks PROVE CallOK(t, task[t])'
  BY DEF TasksOK
<1>1. \A r \in Task : CallOK(t, r) => CallOK(t, r)'
  BY CallKept
<1>2. task[t] \in Task /\ CallOK(t, task[t])
  BY DEF TasksOK
<1> QED BY <1>1, <1>2, NoTaskOK

LEMMA SetOK ==
    ASSUME TasksOK, OdimStep, ModesKept, UNCHANGED cur, NEW t \in Tasks, NEW r \in Task,
           CallOK(t, r), Set(t, r)
    PROVE  TasksOK'
<1>1. PICK c : c = IF r.todo = {} /\ r.chosen = {} /\ r.id = None THEN NoTask
                   ELSE IF r.todo = {} /\ r.pc = "filter" THEN [r EXCEPT !.pc = "work"] ELSE r
  OBVIOUS
<1>2. c \in Task /\ CallOK(t, c)
  BY <1>1 DEF Task, NoTask, CallOK
<1>3. task' = [task EXCEPT ![t] = c]
  BY <1>1 DEF Set
<1>4. task' \in [Tasks -> Task] /\ \A u \in Tasks : task'[u] = IF u = t THEN c ELSE task[u]
  BY <1>2, <1>3 DEF TasksOK
<1> SUFFICES ASSUME NEW u \in Tasks PROVE CallOK(u, task[u])'
  BY <1>4 DEF TasksOK
<1>5. \A d \in Task : CallOK(u, d) => CallOK(u, d)'
  BY CallKept
<1>6. task[u] \in Task /\ CallOK(u, task[u])
  BY DEF TasksOK
<1> QED BY <1>2, <1>4, <1>5, <1>6

\* A call that goes on to the next ID, or to the next place with the same ones.
LEMMA NextCallOK ==
    ASSUME NEW t \in Tasks, NEW r \in Task, NEW c \in Task, CallOK(t, r), r.pc # "idle",
           c.todo \subseteq r.todo, c.chosen \subseteq r.todo \cup r.chosen,
           \/ c.pc \notin {"create", "status", "renew"}
           \/ c.pc # "create" /\ setup.mode = "Revert" /\ c.key \in Keys /\ c.id \in Ids
    PROVE  CallOK(t, c)
BY DEF CallOK

LEMMA NextVolumeOK ==
    ASSUME NEW t \in Tasks, NEW r \in Task, CallOK(t, r), r.pc # "idle"
    PROVE  NextVolume(r) \in Task /\ CallOK(t, NextVolume(r))
<1>1. /\ NextVolume(r) \in Task /\ NextVolume(r).pc = "work"
      /\ NextVolume(r).todo = r.todo /\ NextVolume(r).chosen = r.chosen
  BY DEF NextVolume, Task
<1> QED BY <1>1, NextCallOK

\* The lists of both sides are compared; what was listed and is there no more was lost.
LEMMA CompareOK ==
    ASSUME OdimOK, TasksOK, OdimStep, ModesKept, UNCHANGED cur, NEW b \in Bmcs,
           NEW caller \in {"poll", "event"}, NEW ids \in SUBSET Ids, NEW odimIds \in SUBSET Ids,
           Compare(b, caller, ids, odimIds),
           IF caller = "poll" THEN cur \in Bmcs ELSE setup.mode = "Accommodate",
           ListsRead => odimIds = VolumeIdsFromODIM(b) /\ \A i \in ids : title[b][i] # None
    PROVE  TasksOK'
<1> DEFINE New(js) == IF js = {} THEN NoTask ELSE [NoTask EXCEPT !.pc = "filter", !.todo = js]
           created == <<b, "created", caller>>
           deleted == <<b, "deleted", caller>>
<1>1. created \in Tasks /\ deleted \in Tasks /\ created # deleted
  BY DEF Tasks
<1>2. PICK c, d : c = New(odimIds \ ids) /\ d = New(ids \ odimIds)
  OBVIOUS
<1>3. c \in Task /\ d \in Task
  BY <1>2 DEF NoTask, Task
<1>4. CallOK(created, c) /\ CallOK(deleted, d)
  <2>1. created[2] = "created" /\ created[3] = caller /\ deleted[2] = "deleted" /\ deleted[3] = caller
    OBVIOUS
  <2>2. CallOK(created, c)
    BY <1>2, <2>1 DEF CallOK, NoTask
  <2>3. d.chosen = {} /\ d.todo \subseteq ids \ odimIds /\ d.pc \in {"idle", "filter"}
    BY <1>2 DEF NoTask
  <2>4. ASSUME ListsRead, NEW e \in Bmcs, NEW i \in ids \ odimIds
        PROVE  title[e][i] # None /\ (Last[i] = i => i \notin live[e])
    BY <2>4 DEF ListsRead, OneMachine, VolumeIdsFromODIM
  <2> QED BY <2>1, <2>2, <2>3, <2>4 DEF CallOK
<1>5. task' = [task EXCEPT ![created] = c, ![deleted] = d]
  BY <1>2 DEF Compare
<1> HIDE DEF New, created, deleted
<1>6. task' \in [Tasks -> Task]
      /\ \A u \in Tasks : task'[u] = IF u = deleted THEN d ELSE IF u = created THEN c ELSE task[u]
  BY <1>1, <1>3, <1>5 DEF TasksOK
<1> SUFFICES ASSUME NEW u \in Tasks PROVE CallOK(u, task[u])'
  BY <1>6 DEF TasksOK
<1>7. \A r \in Task : CallOK(u, r) => CallOK(u, r)'
  BY CallKept
<1>8. task[u] \in Task /\ CallOK(u, task[u])
  BY DEF TasksOK
<1> QED BY <1>3, <1>4, <1>6, <1>7, <1>8

\* What a step leaves alone stays as it should be.
LEMMA Kept ==
    ASSUME InvOK, OdimOK', OdimStep, SetupOK', ModesKept
    PROVE  /\ UNCHANGED kubeVars => KubeOK'
           /\ UNCHANGED track => TrackOK'
           /\ UNCHANGED worker => WorkerOK'
           /\ UNCHANGED reset => ResetOK'
           /\ UNCHANGED loopVars => LoopOK'
           /\ UNCHANGED <<task, cur>> => TasksOK'
<1>1. UNCHANGED kubeVars => KubeOK'
  BY KubeKept DEF InvOK
<1>2. UNCHANGED loopVars => LoopOK'
  BY LoopKept DEF InvOK
<1>3. UNCHANGED <<task, cur>> => TasksOK'
  BY TasksKept DEF InvOK, TasksOK
<1> QED BY <1>1, <1>2, <1>3 DEF InvOK, TrackOK, WorkerOK, ResetOK

\* The steps that leave ODIM's volumes alone.
LEMMA Quiet ==
    ASSUME InvOK, UNCHANGED <<odimVars, systemReset>>, UNCHANGED setup \/ \E kind : Disturb(kind)
    PROVE  OdimOK' /\ OdimStep /\ SetupOK' /\ ModesKept /\ UNCHANGED title
BY OdimKept, DisturbOK DEF InvOK, odimVars

-----------------------------------------------------------------------------
(* VolumeReconciler.                                                       *)

\* A mark is set in TrackVolumeStatus.
LEMMA TrackedOK ==
    ASSUME TrackOK, NEW b \in Bmcs, NEW x \in Titles \cup Ids, NEW status \in {"created", "deleted"},
           track' = [track EXCEPT ![b][x] = status]
    PROVE  TrackOK'
BY DEF TrackOK

LEMMA UpdateTrackOK ==
    ASSUME TrackOK, NEW b \in Bmcs, NEW k \in Keys, vol[k] \in Volume,
           NEW status \in {"created", "deleted"}, track' = updateTrackVolume(b, k, status)
    PROVE  TrackOK'
<1>1. k[2] \in Titles /\ vol[k].VolumeID \in Ids \cup {None}
  BY VolumesAssumption DEF Keys, Volume
<1>2. CASE track' = track
  BY <1>2 DEF TrackOK
<1>3. CASE \E x \in Titles \cup Ids : track' = [track EXCEPT ![b][x] = status]
  BY <1>3, TrackedOK
<1> QED BY <1>1, <1>2, <1>3 DEF updateTrackVolume

LEMMA VolStartOK ==
    ASSUME InvOK, NEW k \in Keys, VolStart(k)
    PROVE  InvOK'
<1>1. /\ UNCHANGED <<odimVars, systemReset, track, reset, pollVars, setup>>
      /\ worker' = [pc |-> "post", key |-> k]
      /\ k \in queue /\ ~vol[k].deleting
      /\ vol' = [vol EXCEPT ![k].finalizer = TRUE] /\ queue' = queue \ {k}
      /\ fresh' \in {fresh, [q \in Procs |-> fresh[q] \ {k}]}
  BY DEF VolStart
<1>2. OdimOK' /\ OdimStep /\ SetupOK' /\ ModesKept /\ UNCHANGED title
  BY <1>1, Quiet
<1>3. vol[k] \in Volume /\ Exists(k)
  BY <1>1 DEF InvOK, KubeOK, HasWork
<1>4. KubeOK'
  <2>1. PICK o : o = [vol[k] EXCEPT !.finalizer = TRUE]
    OBVIOUS
  <2>2. o \in Volume /\ o # NoObject /\ StatusOK(k, o)
    BY <1>3, <2>1, VolumesAssumption DEF Volume, InvOK, KubeOK, StatusOK
  <2>3. /\ vol' \in [Keys -> Volume \cup {NoObject}] /\ vol'[k] = o
        /\ \A j \in Keys : j # k => vol'[j] = vol[j]
    BY <1>1, <2>1, <2>2 DEF InvOK, KubeOK
  <2>4. fresh' \in [Procs -> SUBSET Keys] /\ \A q \in Procs : fresh'[q] \subseteq fresh[q]
    BY <1>1 DEF InvOK, KubeOK
  <2>5. queue' \subseteq Keys /\ \A j \in queue' : j # k /\ j \in queue
    BY <1>1 DEF InvOK, KubeOK
  <2>6. \A j \in queue' : HasWork(vol[j])'
    BY <2>3, <2>5 DEF InvOK, KubeOK, HasWork
  <2>7. \A j \in Keys : Exists(j)' => StatusOK(j, vol[j])'
    BY <1>2, <2>2, <2>3 DEF InvOK, KubeOK, StatusOK, Given
  <2> QED BY <2>2, <2>3, <2>4, <2>5, <2>6, <2>7 DEF InvOK, KubeOK
<1>5. WorkerOK'
  BY <1>1 DEF WorkerOK
<1> QED BY <1>1, <1>2, <1>4, <1>5, Kept DEF InvOK, pollVars, loopVars

LEMMA VolRemoveOK ==
    ASSUME InvOK, NEW k \in Keys, VolRemove(k)
    PROVE  InvOK'
<1> DEFINE b == k[1]  i == vol[k].VolumeID
<1>1. /\ UNCHANGED <<title, live, wanted, systemReset, vol, reset, pollVars, setup>>
      /\ k \in queue
      /\ track' = updateTrackVolume(b, k, "deleted")
      /\ \/ /\ i \in live[b] /\ unwanted' = [unwanted EXCEPT ![b] = @ \cup {i}]
            /\ queue' = queue \ {k} /\ fresh' = [fresh EXCEPT ![VolProc] = {k}]
            /\ worker' = [pc |-> "removed", key |-> k]
         \/ UNCHANGED <<unwanted, queue, fresh, worker>>
  BY DEF VolRemove
<1>2. SetupOK' /\ ModesKept
  BY <1>1, DisturbOK DEF InvOK
<1>3. OdimOK' /\ OdimStep
  <2>1. b \in Bmcs /\ OdimOK
    BY DEF Keys, InvOK
  <2>2. CASE UNCHANGED unwanted
    BY <1>1, <2>1, <2>2 DEF OdimOK, OdimStep
  <2>3. CASE i \in live[b] /\ unwanted' = [unwanted EXCEPT ![b] = @ \cup {i}]
    <3> HIDE DEF i, b
    <3> QED BY <1>1, <2>1, <2>3 DEF OdimOK, OdimStep
  <2> QED BY <1>1, <2>2, <2>3
<1>4. vol[k] \in Volume /\ Exists(k) /\ b \in Bmcs
  BY <1>1 DEF InvOK, KubeOK, HasWork, Keys
<1>5. TrackOK'
  BY <1>1, <1>4, UpdateTrackOK DEF InvOK
<1>6. KubeOK'
  <2>1. fresh' \in [Procs -> SUBSET Keys] /\ \A p \in Procs : \A j \in fresh'[p] : Exists(j)
    BY <1>1, <1>4 DEF InvOK, KubeOK
  <2>2. queue' \subseteq Keys /\ \A j \in queue' : HasWork(vol[j])
    BY <1>1 DEF InvOK, KubeOK
  <2> QED BY <1>1, <1>2, <2>1, <2>2, SameOK DEF InvOK
<1>7. WorkerOK'
  BY <1>1 DEF InvOK, WorkerOK
<1> QED BY <1>1, <1>2, <1>3, <1>5, <1>6, <1>7, Kept DEF InvOK, pollVars, loopVars

LEMMA VolPostOK ==
    ASSUME InvOK, VolPost
    PROVE  InvOK'
<1> DEFINE k == worker.key
<1>1. /\ UNCHANGED <<title, live, unwanted, systemReset, vol, queue, reset, pollVars, setup>>
      /\ fresh' = [fresh EXCEPT ![VolProc] = {k} \cap {j \in Keys : Exists(j)}]
      /\ track' = [track EXCEPT ![k[1]][k[2]] = "created"]
      /\ wanted' \in {wanted, [wanted EXCEPT ![k[1]] = @ \cup {k[2]}]}
      /\ worker' \in {[worker EXCEPT !.pc = "task"], [worker EXCEPT !.pc = "fail"]}
      /\ worker.pc = "post"
  BY DEF VolPost
<1>2. k \in Keys /\ k[1] \in Bmcs /\ k[2] \in Titles
  BY <1>1, VolumesAssumption DEF InvOK, WorkerOK, Keys
<1>3. SetupOK' /\ ModesKept
  BY <1>1, DisturbOK DEF InvOK
<1>4. OdimOK' /\ OdimStep
  BY <1>1, <1>2 DEF InvOK, OdimOK, OdimStep
<1>5. TrackOK'
  BY <1>1, <1>2, TrackedOK DEF InvOK
<1>6. KubeOK'
  <2>1. fresh' \in [Procs -> SUBSET Keys] /\ \A p \in Procs : \A j \in fresh'[p] : Exists(j)
    BY <1>1 DEF InvOK, KubeOK
  <2>2. queue' \subseteq Keys /\ \A j \in queue' : HasWork(vol[j])
    BY <1>1 DEF InvOK, KubeOK
  <2> QED BY <1>1, <1>3, <2>1, <2>2, SameOK DEF InvOK
<1>7. WorkerOK'
  BY <1>1, <1>2 DEF InvOK, WorkerOK
<1> QED BY <1>1, <1>3, <1>4, <1>5, <1>6, <1>7, Kept DEF InvOK, pollVars, loopVars

\* Its other steps, in which ODIM's volumes stay what they are.
LEMMA VolTaskOK ==
    ASSUME InvOK, VolTaskDone \/ VolTaskFails
    PROVE  InvOK'
<1> DEFINE k == worker.key
<1>1. /\ UNCHANGED <<title, live, unwanted, kubeVars, track, reset, pollVars>>
      /\ UNCHANGED setup \/ \E kind : Disturb(kind)
      /\ worker.pc = "task" /\ worker' \in {NoWorker, [worker EXCEPT !.pc = "fail"]}
      /\ wanted' \in {wanted, [wanted EXCEPT ![k[1]] = @ \ {k[2]}]}
      /\ systemReset' \in {systemReset, [systemReset EXCEPT ![k[1]] = k[2]]}
  BY DEF VolTaskDone, VolTaskFails, odimVars
<1>2. k[1] \in Bmcs /\ k[2] \in Titles
  BY <1>1, VolumesAssumption DEF InvOK, WorkerOK, Keys
<1>3. OdimOK' /\ OdimStep
  BY <1>1, <1>2 DEF InvOK, OdimOK, OdimStep
<1>4. WorkerOK'
  BY <1>1 DEF InvOK, WorkerOK, NoWorker
<1>5. SetupOK' /\ ModesKept
  BY <1>1, DisturbOK DEF InvOK
<1> QED BY <1>1, <1>3, <1>4, <1>5, Kept DEF InvOK, pollVars, loopVars

LEMMA VolEndsOK ==
    ASSUME InvOK, VolFail \/ VolRemoved \/ VolRemovedNoContent \/ VolPostFails
    PROVE  InvOK'
<1> DEFINE k == worker.key
<1>1. /\ UNCHANGED <<odimVars, systemReset, reset, pollVars>>
      /\ UNCHANGED setup \/ \E kind : Disturb(kind)
      /\ Gone(k) \/ Delete(k) \/ Requeue(k)
      /\ track' = track \/ track' = [track EXCEPT ![k[1]][k[2]] = "created"]
      /\ worker.pc # "idle" /\ worker' = NoWorker
  BY DEF VolFail, VolRemoved, VolRemovedNoContent, VolPostFails
<1>2. k \in Keys /\ k[1] \in Bmcs /\ k[2] \in Titles
  BY <1>1, VolumesAssumption DEF InvOK, WorkerOK, Keys
<1>3. OdimOK' /\ OdimStep /\ SetupOK' /\ ModesKept /\ UNCHANGED title
  BY <1>1, Quiet
<1>4. KubeOK'
  BY <1>1, <1>2, <1>3, GoneOK, DeleteOK, RequeueOK DEF InvOK
<1>5. TrackOK'
  BY <1>1, <1>2, TrackedOK DEF InvOK, TrackOK
<1>6. WorkerOK'
  BY <1>1 DEF WorkerOK, NoWorker
<1> QED BY <1>1, <1>3, <1>4, <1>5, <1>6, Kept DEF InvOK, pollVars, loopVars

-----------------------------------------------------------------------------
(* Users, other clients of ODIM, and the reset of a machine.               *)

LEMMA UsersOK ==
    ASSUME InvOK, NEW k \in Keys, UserCreate(k) \/ UserDelete(k) \/ UserTouch(k)
    PROVE  InvOK'
<1>1. /\ UNCHANGED <<odimVars, systemReset, track, worker, reset, pollVars>>
      /\ \E kind : Disturb(kind)
  BY DEF UserCreate, UserDelete, UserTouch
<1>2. OdimOK' /\ OdimStep /\ SetupOK' /\ ModesKept /\ UNCHANGED title
  BY <1>1, Quiet
<1>3. KubeOK'
  <2>1. CASE UserCreate(k)
    <3>1. NewVolume \in Volume /\ StatusOK(k, NewVolume)
      BY DEF NewVolume, Volume, StatusOK
    <3> QED BY <1>2, <2>1, <3>1, StoreOK DEF UserCreate, InvOK
  <2>2. CASE UserDelete(k)
    BY <1>2, <2>2, DeleteOK DEF UserDelete, InvOK
  <2>3. CASE UserTouch(k)
    <3>1. vol[k] \in Volume /\ StatusOK(k, vol[k]) /\ Store(None, k, vol[k])
      BY <2>3 DEF UserTouch, InvOK, KubeOK
    <3> QED BY <1>2, <3>1, StoreOK DEF InvOK
  <2> QED BY <2>1, <2>2, <2>3
<1> QED BY <1>1, <1>2, <1>3, Kept DEF InvOK, pollVars, loopVars

LEMMA OthersOK ==
    ASSUME InvOK, NEW b \in Bmcs,
           (\E n \in Titles : OdimCreate(b, n)) \/ (\E i \in Ids : OdimDelete(b, i))
    PROVE  InvOK'
<1>1. /\ UNCHANGED <<kubeVars, track, worker, reset, pollVars>>
      /\ \E kind : Disturb(kind)
  BY DEF OdimCreate, OdimDelete
<1>2. OdimOK' /\ OdimStep
  BY OdimCreateOK, OdimDeleteOK DEF InvOK
<1>3. SetupOK' /\ ModesKept
  BY <1>1, DisturbOK DEF InvOK
<1> QED BY <1>1, <1>2, <1>3, Kept DEF InvOK, pollVars, loopVars

\* The reset begins, fails, or is done.
LEMMA ResetTaskOK ==
    ASSUME InvOK, (\E b \in Bmcs : ResetStart(b)) \/ ResetFails \/ ResetDone
    PROVE  InvOK'
<1>1. /\ UNCHANGED <<systemReset, kubeVars, track, worker, pollVars>>
      /\ UNCHANGED setup \/ \E kind : Disturb(kind)
  BY DEF ResetStart, ResetFails, ResetDone
<1>2. OdimOK' /\ OdimStep
  <2>1. CASE ResetDone
    BY <2>1, ApplyResetOK DEF ResetDone, InvOK, ResetOK
  <2>2. CASE (\E b \in Bmcs : ResetStart(b)) \/ ResetFails
    BY <2>2, OdimKept DEF ResetStart, ResetFails, InvOK
  <2> QED BY <2>1, <2>2
<1>3. ResetOK'
  BY DEF ResetStart, ResetFails, ResetDone, InvOK, ResetOK, OdimOK, NoReset
<1>4. SetupOK' /\ ModesKept
  BY <1>1, DisturbOK DEF InvOK
<1> QED BY <1>1, <1>2, <1>3, <1>4, Kept DEF InvOK, pollVars, loopVars

\* The objects after the reset: one gets its ID, is deleted or loses its request.
LEMMA ResetObjectsOK ==
    ASSUME InvOK, ResetNoVolume \/ ResetVolume \/ ResetClear
    PROVE  InvOK'
<1> DEFINE b == reset.bmc
<1>1. /\ UNCHANGED <<odimVars, track, worker, pollVars, setup>>
      /\ reset.pc \in {"dependents", "clear"} /\ b \in Bmcs
      /\ systemReset' \in {systemReset, [systemReset EXCEPT ![b] = None]}
  BY DEF ResetNoVolume, ResetVolume, ResetClear, ResetEnds, InvOK, ResetOK
<1>2. OdimOK' /\ OdimStep /\ UNCHANGED title
  BY <1>1 DEF InvOK, OdimOK, OdimStep, odimVars
<1>3. SetupOK' /\ ModesKept
  BY <1>1, DisturbOK DEF InvOK
<1>4. KubeOK' /\ ResetOK'
  <2> USE <1>1, <1>2, <1>3 DEF InvOK
  <2>1. ResetEnds => ResetOK'
    BY DEF ResetEnds, ResetOK, NoReset
  <2>2. UNCHANGED kubeVars => KubeOK'
    BY KubeKept
  <2>3. CASE ResetNoVolume
    BY <2>1, <2>2, <2>3 DEF ResetNoVolume
  <2>4. CASE ResetClear
    <3>1. reset.key \in Keys /\ ResetEnds
      BY <2>4 DEF ResetClear, ResetOK
    <3>2. CASE reset.key \in fresh[ResetProc]
      <4>1. PICK o : o = [vol[reset.key] EXCEPT !.spec = FALSE]
        OBVIOUS
      <4>2. Exists(reset.key)
        BY <3>2 DEF KubeOK, Procs
      <4>3. o \in Volume /\ StatusOK(reset.key, o)
        BY <3>1, <4>1, <4>2 DEF KubeOK, Volume, StatusOK
      <4>4. Store(ResetProc, reset.key, o)
        BY <2>4, <3>2, <4>1 DEF ResetClear, UpdateIfFresh
      <4> QED BY <2>1, <3>1, <4>3, <4>4, StoreOK
    <3>3. CASE reset.key \notin fresh[ResetProc]
      BY <2>1, <2>2, <2>4, <3>1, <3>3 DEF ResetClear, UpdateIfFresh
    <3> QED BY <3>2, <3>3
  <2>5. CASE ResetVolume
    <3>1. PICK k \in Keys : /\ Exists(k)
            /\ \/ ResetEnds /\ UNCHANGED kubeVars
               \/ \E i \in live[b] :
                    /\ IsPending(k, i)
                    /\ Store(ResetProc, k, [vol[k] EXCEPT !.VolumeID = i, !.VolumeName = reset.pending])
                    /\ reset' = [reset EXCEPT !.pc = "clear", !.key = k]
               \/ Delete(k) /\ ResetEnds
      BY <2>5 DEF ResetVolume, GetVolumeObject, ObjectsOf
    <3>2. CASE \E i \in live[b] :
                 /\ IsPending(k, i)
                 /\ Store(ResetProc, k, [vol[k] EXCEPT !.VolumeID = i, !.VolumeName = reset.pending])
                 /\ reset' = [reset EXCEPT !.pc = "clear", !.key = k]
      <4>1. PICK i \in live[b] :
                 /\ IsPending(k, i)
                 /\ Store(ResetProc, k, [vol[k] EXCEPT !.VolumeID = i, !.VolumeName = reset.pending])
                 /\ reset' = [reset EXCEPT !.pc = "clear", !.key = k]
        BY <3>2
      <4>2. PICK o : o = [vol[k] EXCEPT !.VolumeID = i, !.VolumeName = reset.pending]
        OBVIOUS
      <4>3. /\ i \in Ids /\ i # None /\ title[b][i] = reset.pending
            /\ title[b][i] \in Titles /\ title[b][i] # None
        BY <4>1, VolumesAssumption DEF OdimOK, IsPending
      <4>4. Given(i, reset.pending) /\ Suits(k, reset.pending)
        BY <4>1, <4>3 DEF Given, Suits, IsPending
      <4>5. vol[k] \in Volume
        BY <3>1 DEF KubeOK
      <4>6. o \in Volume /\ o.VolumeID = i /\ o.VolumeName = reset.pending
        BY <4>2, <4>3, <4>5 DEF Volume
      <4>7. StatusOK(k, o)
        BY <4>3, <4>4, <4>6 DEF StatusOK
      <4>8. ResetOK'
        BY <4>1 DEF ResetOK
      <4> QED BY <4>1, <4>2, <4>6, <4>7, <4>8, StoreOK
    <3> QED BY <2>1, <2>2, <3>1, <3>2, DeleteOK
  <2> QED BY <2>3, <2>4, <2>5
<1> QED BY <1>1, <1>2, <1>3, <1>4, Kept DEF InvOK, pollVars, loopVars

-----------------------------------------------------------------------------
(* The polling loop and events.                                            *)

\* The IDs in objects are those of volumes.
LEMMA ListedOK ==
    ASSUME InvOK, NEW b \in Bmcs
    PROVE  /\ VolumeObjectIds(b) \in SUBSET Ids
           /\ OneMachine => \A c \in Bmcs : \A i \in VolumeObjectIds(b) : title[c][i] # None
<1> SUFFICES ASSUME NEW k \in Keys, Exists(k), vol[k].VolumeID # None
             PROVE  /\ vol[k].VolumeID \in Ids
                    /\ OneMachine => \A c \in Bmcs : title[c][vol[k].VolumeID] # None
  BY DEF VolumeObjectIds, ObjectsOf
<1>1. vol[k] \in Volume /\ StatusOK(k, vol[k])
  BY DEF InvOK, KubeOK
<1>2. \E c \in Bmcs : title[c][vol[k].VolumeID] # None
  BY <1>1, VolumesAssumption DEF StatusOK, Given
<1> QED BY <1>1, <1>2 DEF Volume, OneMachine

\* A list of the objects is made, or the round of the machines begins or ends.
LEMMA LoopListsOK ==
    ASSUME InvOK, PollTick \/ (\E b \in Bmcs : PollObjects(b) \/ EventObjects(b)) \/ PollDone
    PROVE  InvOK'
<1>1. /\ UNCHANGED <<odimVars, systemReset, kubeVars, track, worker, reset, task>>
      /\ UNCHANGED setup \/ \E kind : Disturb(kind)
  BY DEF PollTick, PollObjects, EventObjects, PollDone
<1>2. OdimOK' /\ OdimStep /\ SetupOK' /\ ModesKept /\ UNCHANGED title
  BY <1>1, Quiet
<1>3. LoopOK' /\ cur' \in {cur} \cup Bmcs
  <2>1. CASE PollTick
    BY <1>2, <2>1 DEF PollTick, NoPoll, InvOK, LoopOK, ModesKept
  <2>2. ASSUME NEW b \in Bmcs, PollObjects(b) PROVE LoopOK' /\ cur' \in Bmcs
    BY <1>2, <2>2, ListedOK DEF PollObjects, InvOK, LoopOK, ModesKept
  <2>3. ASSUME NEW b \in Bmcs, EventObjects(b) PROVE LoopOK' /\ cur' = cur
    BY <1>2, <2>3, ListedOK DEF EventObjects, InvOK, LoopOK, ModesKept
  <2>4. CASE PollDone
    BY <1>2, <2>4 DEF PollDone, NoPoll, InvOK, LoopOK, ModesKept
  <2> QED BY <2>1, <2>2, <2>3, <2>4 DEF PollTick, PollDone
<1>4. TasksOK'
  <2>1. UNCHANGED <<task, title>> /\ UNCHANGED live
    BY <1>1, <1>2 DEF odimVars
  <2>2. ASSUME NEW t \in Tasks PROVE CallOK(t, task[t])'
    BY <1>2, <1>3, <2>1, <2>2 DEF InvOK, TasksOK, CallOK, Given, ListsRead, ModesKept
  <2> QED BY <2>1, <2>2 DEF InvOK, TasksOK
<1> QED BY <1>1, <1>2, <1>3, <1>4, Kept DEF InvOK

\* What ODIM lists are IDs.
LEMMA ListedIds ==
    ASSUME OdimOK PROVE \A b \in Bmcs : VolumeIdsFromODIM(b) \in SUBSET Ids
<1>1. ASSUME NEW b \in Bmcs, NEW i \in live[b] PROVE Last[i] \in Ids
  BY <1>1, VolumesAssumption DEF OdimOK
<1> QED BY <1>1 DEF VolumeIdsFromODIM

\* The calls are started.
LEMMA LoopComparesOK ==
    ASSUME InvOK, PollVolumes \/ PollVolumesFail \/ EventVolumes \/ EventVolumesFail
    PROVE  InvOK'
<1>1. /\ UNCHANGED <<odimVars, systemReset, kubeVars, track, worker, reset, cur>>
      /\ UNCHANGED setup \/ \E kind : Disturb(kind)
  BY DEF PollVolumes, PollVolumesFail, EventVolumes, EventVolumesFail
<1>2. OdimOK' /\ OdimStep /\ SetupOK' /\ ModesKept /\ UNCHANGED title
  BY <1>1, Quiet
<1>3. LoopOK'
  <2>1. \/ poll' = [poll EXCEPT !.pc = "next", !.ids = {}] /\ UNCHANGED event
        \/ event' = NoEvent /\ UNCHANGED poll
    BY DEF PollVolumes, PollVolumesFail, EventVolumes, EventVolumesFail
  <2>2. LoopOK
    BY DEF InvOK
  <2>3. /\ poll' \in [pc : {"idle", "next", "list"}, left : SUBSET Bmcs, ids : SUBSET Ids]
        /\ event' \in [pc : {"idle", "list"}, bmc : Bmcs \cup {None}, ids : SUBSET Ids]
        /\ poll'.pc = "list" => poll.pc = "list"
        /\ event'.pc = "list" => event.pc = "list" /\ event'.bmc = event.bmc
        /\ poll'.ids \cup event'.ids \subseteq poll.ids \cup event.ids
    <3>1. CASE poll' = [poll EXCEPT !.pc = "next", !.ids = {}] /\ UNCHANGED event
      <4>1. poll' = [pc |-> "next", left |-> poll.left, ids |-> {}]
        BY <2>2, <3>1 DEF LoopOK
      <4> QED BY <2>2, <3>1, <4>1 DEF LoopOK
    <3>2. CASE event' = NoEvent /\ UNCHANGED poll
      BY <2>2, <3>2 DEF NoEvent, LoopOK
    <3> QED BY <2>1, <3>1, <3>2
  <2> QED BY <1>1, <1>2, <2>2, <2>3 DEF LoopOK, ModesKept
<1>4. TasksOK'
  <2> USE <1>1, <1>2 DEF InvOK
  <2>1. CASE UNCHANGED task
    BY <2>1, TasksKept DEF TasksOK
  <2>2. CASE PollVolumes
    <3>1. /\ cur \in Bmcs /\ Compare(cur, "poll", poll.ids, VolumeIdsFromODIM(cur))
          /\ poll.ids \in SUBSET Ids /\ VolumeIdsFromODIM(cur) \in SUBSET Ids
      BY <2>2, ListedIds DEF PollVolumes, LoopOK
    <3>2. ListsRead => \A i \in poll.ids : title[cur][i] # None
      BY <3>1 DEF ListsRead, LoopOK
    <3> QED BY <3>1, <3>2, CompareOK
  <2>3. CASE EventVolumes
    <3> DEFINE b == event.bmc
    <3>1. /\ b \in Bmcs /\ Compare(b, "event", event.ids, VolumeIdsFromODIM(b))
          /\ setup.mode = "Accommodate"
          /\ event.ids \in SUBSET Ids /\ VolumeIdsFromODIM(b) \in SUBSET Ids
      BY <2>3, ListedIds DEF EventVolumes, LoopOK
    <3>2. ListsRead => \A i \in event.ids : title[b][i] # None
      BY <3>1 DEF ListsRead, LoopOK
    <3> QED BY <3>1, <3>2, CompareOK
  <2>4. CASE PollVolumesFail /\ Compare(cur, "poll", poll.ids, {})
    <3>1. cur \in Bmcs /\ poll.ids \in SUBSET Ids /\ {} \in SUBSET Ids /\ ~ListsRead
      BY <2>4 DEF PollVolumesFail, LoopOK, Disturb, ListsRead
    <3> QED BY <2>4, <3>1, CompareOK
  <2>5. CASE EventVolumesFail /\ Compare(event.bmc, "event", event.ids, {})
    <3>1. /\ event.bmc \in Bmcs /\ event.ids \in SUBSET Ids /\ {} \in SUBSET Ids
          /\ ~ListsRead /\ setup.mode = "Accommodate"
      BY <2>5 DEF EventVolumesFail, LoopOK, Disturb, ListsRead
    <3> QED BY <2>5, <3>1, CompareOK
  <2> QED BY <2>1, <2>2, <2>3, <2>4, <2>5 DEF PollVolumesFail, EventVolumesFail
<1> QED BY <1>1, <1>2, <1>3, <1>4, Kept DEF InvOK

-----------------------------------------------------------------------------
(* The calls.                                                              *)

\* A call looks at the next ID, or removes an object.
LEMMA CallLooksOK ==
    ASSUME InvOK, NEW t \in Tasks, (\E i \in Ids : TaskFilter(t, i)) \/ DeleteObjects(t)
    PROVE  InvOK'
<1>1. /\ UNCHANGED <<odimVars, systemReset, track, worker, reset, loopVars, setup>>
      /\ UNCHANGED kubeVars \/ \E k \in Keys : Gone(k)
  BY DEF TaskFilter, DeleteObjects
<1>2. OdimOK' /\ OdimStep /\ SetupOK' /\ ModesKept /\ UNCHANGED title
  BY <1>1, Quiet
<1>3. KubeOK'
  BY <1>1, <1>2, KubeKept, GoneOK DEF InvOK
<1>4. task[t] \in Task /\ CallOK(t, task[t]) /\ UNCHANGED cur
  BY <1>1 DEF InvOK, TasksOK, loopVars
<1>5. TasksOK'
  <2>1. PICK c : /\ Set(t, c)
                 /\ c \in Task /\ task[t].pc # "idle" /\ c.todo \subseteq task[t].todo
                 /\ c.chosen \subseteq task[t].todo \cup task[t].chosen
                 /\ c.pc \notin {"create", "status", "renew"}
    <3>1. CASE \E i \in Ids : TaskFilter(t, i)
      <4>1. PICK i \in Ids : TaskFilter(t, i)
        BY <3>1
      <4>2. PICK c : c = [task[t] EXCEPT !.todo = @ \ {i},
                             !.chosen = IF InProgress(t, i) THEN @ ELSE @ \cup {i}]
        OBVIOUS
      <4>3. task[t].pc = "filter" /\ i \in task[t].todo /\ Set(t, c)
        BY <4>1, <4>2 DEF TaskFilter
      <4>4. /\ c \in Task /\ c.pc = "filter" /\ c.todo \subseteq task[t].todo
            /\ c.chosen \subseteq task[t].chosen \cup {i}
        BY <1>4, <4>2, <4>3 DEF Task
      <4> QED BY <4>3, <4>4
    <3>2. CASE DeleteObjects(t)
      <4>1. PICK c : c = [task[t] EXCEPT !.chosen = {}]
        OBVIOUS
      <4>2. task[t].pc = "work" /\ Set(t, c)
        BY <3>2, <4>1 DEF DeleteObjects
      <4>3. c \in Task /\ c.pc = "work" /\ c.todo = task[t].todo /\ c.chosen = {}
        BY <1>4, <4>1, <4>2 DEF Task
      <4> QED BY <4>2, <4>3
    <3> QED BY <3>1, <3>2
  <2>2. CallOK(t, c)
    BY <1>4, <2>1, NextCallOK
  <2> QED BY <1>2, <1>4, <2>1, <2>2, SetOK DEF InvOK
<1> QED BY <1>1, <1>2, <1>3, <1>5, Kept DEF InvOK

\* Accommodate reads a volume.
LEMMA ReadVolumeOK ==
    ASSUME InvOK, NEW t \in Tasks, NEW i \in Ids, ReadVolume(t, i)
    PROVE  InvOK'
<1> DEFINE b == Machine(t)
<1>1. /\ UNCHANGED <<odimVars, systemReset, kubeVars, track, worker, reset, loopVars, setup>>
      /\ setup.mode = "Accommodate" /\ task[t].pc = "work" /\ i \in live[b]
  BY DEF ReadVolume, Works
<1>2. OdimOK' /\ OdimStep /\ SetupOK' /\ ModesKept
  BY <1>1, Quiet
<1>3. task[t] \in Task /\ CallOK(t, task[t]) /\ UNCHANGED cur
  BY <1>1 DEF InvOK, TasksOK, loopVars
<1>4. b \in Bmcs
  BY <1>1, <1>3, Caller DEF Machine, CallOK
<1>5. title[b][i] \in Titles
  BY <1>1, <1>4 DEF InvOK, OdimOK
<1>6. PICK c : c = [task[t] EXCEPT !.chosen = @ \ {i}, !.pc = "create", !.id = i,
                                  !.name = title[b][i]]
  OBVIOUS
<1>7. Set(t, c)
  BY <1>6 DEF ReadVolume
<1>8. /\ c \in Task /\ c.pc = "create" /\ c.id = i /\ c.name = title[b][i]
      /\ c.todo = task[t].todo /\ c.chosen \subseteq task[t].chosen
  BY <1>3, <1>5, <1>6 DEF Task
<1>9. Given(c.id, c.name)
  BY <1>4, <1>5, <1>8 DEF Given
<1>10. CallOK(t, c)
  BY <1>1, <1>3, <1>8, <1>9 DEF CallOK
<1>11. TasksOK'
  BY <1>2, <1>3, <1>7, <1>8, <1>10, SetOK DEF InvOK
<1> QED BY <1>1, <1>2, <1>11, Kept DEF InvOK

\* It makes an object for it.
LEMMA CreateObjectOK ==
    ASSUME InvOK, NEW t \in Tasks, CreateObject(t)
    PROVE  InvOK' /\ \A j \in Keys : Exists(j) => Exists(j)'
<1> DEFINE r == task[t]
           k == <<Machine(t), NameOf[r.name]>>
           o == [NewVolume EXCEPT !.spec = FALSE, !.finalizer = TRUE]
<1>1. /\ UNCHANGED <<odimVars, systemReset, track, worker, reset, loopVars, setup>>
      /\ setup.mode = "Accommodate" /\ r.pc = "create"
  BY DEF CreateObject
<1>2. OdimOK' /\ OdimStep /\ SetupOK' /\ ModesKept /\ UNCHANGED title
  BY <1>1, Quiet
<1>3. r \in Task /\ CallOK(t, r) /\ UNCHANGED cur
  BY <1>1 DEF InvOK, TasksOK, loopVars
<1>4. r.id \in Ids /\ Given(r.id, r.name) /\ r.name \in Titles
  BY <1>1, <1>3 DEF CallOK, Given
<1>5. k \in Keys /\ Suits(k, r.name)
  <2>1. Machine(t) \in Bmcs
    BY <1>1, <1>3, Caller DEF Machine, CallOK
  <2> QED BY <1>4, <2>1, VolumesAssumption DEF Suits, Keys
<1>6. o \in Volume /\ StatusOK(k, o)
  BY DEF NewVolume, Volume, StatusOK
<1>7. PICK d : d = [r EXCEPT !.pc = "status", !.key = k]
  OBVIOUS
<1>8. (UNCHANGED kubeVars /\ Set(t, NextVolume(r))) \/ (Store(t, k, o) /\ Set(t, d))
  BY <1>7 DEF CreateObject
<1> HIDE DEF k, o
<1>9. KubeOK' /\ \A j \in Keys : Exists(j) => Exists(j)'
  <2>1. CASE UNCHANGED kubeVars
    BY <1>2, <2>1, KubeKept DEF InvOK, kubeVars
  <2>2. CASE Store(t, k, o)
    BY <1>2, <1>5, <1>6, <2>2, StoreOK DEF InvOK
  <2> QED BY <1>8, <2>1, <2>2
<1>10. d \in Task /\ CallOK(t, d)
  <2>1. /\ d \in Task /\ d.pc = "status" /\ d.key = k /\ d.id = r.id /\ d.name = r.name
        /\ d.todo = r.todo /\ d.chosen = r.chosen
    BY <1>3, <1>5, <1>7 DEF Task
  <2> QED BY <1>1, <1>3, <1>4, <1>5, <2>1 DEF CallOK
<1>11. TasksOK'
  BY <1>1, <1>2, <1>3, <1>8, <1>10, NextVolumeOK, SetOK DEF InvOK
<1> QED BY <1>1, <1>2, <1>9, <1>11, Kept DEF InvOK

\* The ID of the volume is written into the object: by Accommodate into the one it made, by
\* Revert into the one whose volume it made again.
LEMMA CallStatusOK ==
    ASSUME InvOK, NEW t \in Tasks, CreateObjectStatus(t) \/ NewVolumeID(t)
    PROVE  InvOK' /\ \A j \in Keys : Exists(j) => Exists(j)'
<1> DEFINE r == task[t]  k == r.key
<1>1. /\ UNCHANGED <<odimVars, systemReset, track, worker, reset, loopVars, setup>>
      /\ r.pc = "status"
  BY DEF CreateObjectStatus, NewVolumeID
<1>2. OdimOK' /\ OdimStep /\ SetupOK' /\ ModesKept /\ UNCHANGED title
  BY <1>1, Quiet
<1>3. r \in Task /\ CallOK(t, r) /\ UNCHANGED cur /\ k \in Keys /\ r.id \in Ids
  BY <1>1 DEF InvOK, TasksOK, loopVars, CallOK
<1>4. Set(t, NextVolume(r))
  BY DEF CreateObjectStatus, NewVolumeID
<1>6. TasksOK'
  BY <1>1, <1>2, <1>3, <1>4, NextVolumeOK, SetOK DEF InvOK
<1>7. KubeOK' /\ \A j \in Keys : Exists(j) => Exists(j)'
  <2>1. CASE UNCHANGED kubeVars
    BY <1>2, <2>1, KubeKept DEF InvOK, kubeVars
  <2>2. CASE k \in fresh[t]
    <3>1. vol[k] \in Volume /\ StatusOK(k, vol[k]) /\ k[1] \in Bmcs
      BY <1>3, <2>2 DEF InvOK, KubeOK, Procs, Keys
    <3>2. CASE CreateObjectStatus(t)
      <4>1. PICK o : o = [vol[k] EXCEPT !.VolumeID = r.id, !.VolumeName = r.name]
        OBVIOUS
      <4>2. Given(r.id, r.name) /\ Suits(k, r.name)
        BY <1>1, <1>3, <3>2 DEF CreateObjectStatus, CallOK
      <4>3. r.name \in Titles /\ r.name # None /\ r.id # None
        BY <1>3, <4>2, VolumesAssumption DEF Given
      <4>4. o \in Volume /\ o.VolumeID = r.id /\ o.VolumeName = r.name
        BY <1>3, <3>1, <4>1, <4>3 DEF Volume
      <4>5. StatusOK(k, o)
        BY <4>2, <4>3, <4>4 DEF StatusOK
      <4>6. Store(t, k, o)
        BY <2>2, <3>2, <4>1 DEF CreateObjectStatus, UpdateIfFresh
      <4> QED BY <1>2, <1>3, <4>4, <4>5, <4>6, StoreOK DEF InvOK
    <3>3. CASE NewVolumeID(t)
      <4>1. PICK j \in NewIds(k) : Store(t, k, [vol[k] EXCEPT !.VolumeID = j])
        BY <2>2, <3>3 DEF NewVolumeID
      <4>2. PICK o : o = [vol[k] EXCEPT !.VolumeID = j]
        OBVIOUS
      <4>3. setup.mode = "Revert" /\ cur \in Bmcs
        BY <1>1, <1>3, <3>3, Caller DEF NewVolumeID, CallOK
      <4>4. j \in Ids /\ title[cur][j] = vol[k].VolumeName /\ title[cur][j] # None /\ j # None
        BY <4>1, <4>3, VolumesAssumption DEF NewIds, InvOK, OdimOK
      <4>5. o \in Volume /\ o.VolumeID = j /\ o.VolumeName = vol[k].VolumeName
        BY <3>1, <4>2, <4>4 DEF Volume
      <4>6. StatusOK(k, o)
        <5>1. Given(vol[k].VolumeID, vol[k].VolumeName) /\ Suits(k, vol[k].VolumeName)
          BY <3>1, <4>4 DEF StatusOK
        <5>2. Given(j, vol[k].VolumeName)
          BY <4>3, <4>4, <5>1 DEF Given
        <5> QED BY <4>4, <4>5, <5>1, <5>2 DEF StatusOK
      <4> QED BY <1>2, <1>3, <4>1, <4>2, <4>5, <4>6, StoreOK DEF InvOK
    <3> QED BY <3>2, <3>3
  <2> QED BY <2>1, <2>2 DEF CreateObjectStatus, NewVolumeID, UpdateIfFresh
<1> QED BY <1>1, <1>2, <1>6, <1>7, Kept DEF InvOK

\* Revert has a volume removed that no object names.
LEMMA DeleteInOdimOK ==
    ASSUME InvOK, NEW t \in Tasks, NEW i \in Ids, DeleteInOdim(t, i)
    PROVE  InvOK'
<1>1. /\ UNCHANGED <<title, live, wanted, systemReset, kubeVars, worker, reset, loopVars, setup>>
      /\ setup.mode = "Revert" /\ task[t].pc = "work"
      /\ track' = [track EXCEPT ![cur][i] = "deleted"]
      /\ unwanted' = [unwanted EXCEPT ![cur] = @ \cup ({i} \cap live[cur])]
  BY DEF DeleteInOdim, Works
<1>2. task[t] \in Task /\ CallOK(t, task[t]) /\ UNCHANGED cur
  BY <1>1 DEF InvOK, TasksOK, loopVars
<1>3. cur \in Bmcs
  BY <1>1, <1>2, Caller DEF CallOK
<1>4. OdimOK' /\ OdimStep
  BY <1>1, <1>3 DEF InvOK, OdimOK, OdimStep
<1>5. SetupOK' /\ ModesKept
  BY <1>1, DisturbOK DEF InvOK
<1>6. TrackOK'
  BY <1>1, <1>3, TrackedOK DEF InvOK
<1>7. PICK c : c = [task[t] EXCEPT !.chosen = @ \ {i}]
  OBVIOUS
<1>8. c \in Task /\ c.pc = "work" /\ c.todo = task[t].todo /\ c.chosen \subseteq task[t].chosen
  BY <1>1, <1>2, <1>7 DEF Task
<1>9. CallOK(t, c) /\ Set(t, c)
  BY <1>1, <1>2, <1>7, <1>8, NextCallOK DEF DeleteInOdim
<1>10. TasksOK'
  BY <1>2, <1>4, <1>5, <1>8, <1>9, SetOK DEF InvOK
<1> QED BY <1>1, <1>4, <1>5, <1>6, <1>10, Kept DEF InvOK

\* Revert asks for a lost volume again, for the object with its ID or for any.
LEMMA CreateInOdimOK ==
    ASSUME InvOK, NEW t \in Tasks, NEW i \in Ids, CreateInOdim(t, i) \/ CreateInOdimFails(t, i)
    PROVE  InvOK'
<1>1. /\ UNCHANGED <<title, live, unwanted, vol, queue, worker, reset, loopVars>>
      /\ UNCHANGED setup \/ \E kind : Disturb(kind)
      /\ setup.mode = "Revert" /\ task[t].pc = "work"
  BY DEF CreateInOdim, CreateInOdimFails, Works, odimVars, kubeVars
<1>2. task[t] \in Task /\ CallOK(t, task[t]) /\ UNCHANGED cur
  BY <1>1 DEF InvOK, TasksOK, loopVars
<1>3. cur \in Bmcs
  BY <1>1, <1>2, Caller DEF CallOK
<1>4. SetupOK' /\ ModesKept
  BY <1>1, DisturbOK DEF InvOK
<1>5. PICK k \in Keys :
        /\ Exists(k)
        /\ track' = updateTrackVolume(cur, k, "created")
        /\ fresh' \in {fresh, [fresh EXCEPT ![t] = {k}]}
        /\ \/ Set(t, [task[t] EXCEPT !.chosen = @ \ {i}])
           \/ \E done \in BOOLEAN :
                 Set(t, [task[t] EXCEPT !.chosen = @ \ {i}, !.pc = "renew", !.key = k, !.id = i,
                                        !.done = done])
        /\ \/ UNCHANGED <<wanted, systemReset>>
           \/ /\ vol[k].VolumeName # None
              /\ wanted' = [wanted EXCEPT ![cur] = @ \cup {vol[k].VolumeName}]
              /\ systemReset' \in {systemReset, [systemReset EXCEPT ![cur] = vol[k].VolumeName]}
  BY DEF CreateInOdim, CreateInOdimFails, WithVolumeID, odimVars, kubeVars
<1>6. vol[k] \in Volume
  BY <1>5 DEF InvOK, KubeOK
<1>7. OdimOK' /\ OdimStep
  <2>1. vol[k].VolumeName # None => vol[k].VolumeName \in Titles
    BY <1>6 DEF Volume
  <2>2. wanted' \in [Bmcs -> SUBSET Titles] /\ systemReset' \in [Bmcs -> Titles \cup {None}]
    <3>1. OdimOK
      BY DEF InvOK
    <3>2. CASE UNCHANGED <<wanted, systemReset>>
      BY <3>1, <3>2 DEF OdimOK
    <3>3. ASSUME NEW n \in Titles, wanted' = [wanted EXCEPT ![cur] = @ \cup {n}],
                 systemReset' \in {systemReset, [systemReset EXCEPT ![cur] = n]}
          PROVE  wanted' \in [Bmcs -> SUBSET Titles] /\ systemReset' \in [Bmcs -> Titles \cup {None}]
      BY <1>3, <3>1, <3>3 DEF OdimOK
    <3> QED BY <1>5, <2>1, <3>2, <3>3
  <2> QED BY <1>1, <2>2 DEF InvOK, OdimOK, OdimStep
<1>8. TrackOK'
  BY <1>3, <1>5, <1>6, UpdateTrackOK DEF InvOK
<1>9. KubeOK'
  <2> HIDE DEF Exists
  <2>1. fresh' \in [Procs -> SUBSET Keys] /\ \A p \in Procs : \A j \in fresh'[p] : Exists(j)
    <3>1. Exists(k) /\ fresh' \in {fresh, [fresh EXCEPT ![t] = {k}]}
      BY <1>5
    <3> QED BY <3>1 DEF InvOK, KubeOK
  <2>2. queue' \subseteq Keys /\ \A j \in queue' : HasWork(vol[j])
    BY <1>1 DEF InvOK, KubeOK
  <2> USE DEF Exists
  <2> QED BY <1>1, <1>4, <2>1, <2>2, SameOK DEF InvOK
<1>10. TasksOK'
  <2>1. PICK c : /\ Set(t, c)
                 /\ \/ c = [task[t] EXCEPT !.chosen = @ \ {i}]
                    \/ \E done \in BOOLEAN :
                          c = [task[t] EXCEPT !.chosen = @ \ {i}, !.pc = "renew", !.key = k,
                                              !.id = i, !.done = done]
    <3>1. \/ Set(t, [task[t] EXCEPT !.chosen = @ \ {i}])
          \/ \E done \in BOOLEAN :
                Set(t, [task[t] EXCEPT !.chosen = @ \ {i}, !.pc = "renew", !.key = k, !.id = i,
                                       !.done = done])
      BY <1>5
    <3> HIDE DEF Set
    <3> QED BY <3>1
  <2>2. /\ c \in Task /\ c.todo = task[t].todo /\ c.chosen \subseteq task[t].chosen
        /\ c.pc = "work" \/ (c.pc = "renew" /\ c.key \in Keys /\ c.id \in Ids)
    <3>1. CASE c = [task[t] EXCEPT !.chosen = @ \ {i}]
      BY <1>1, <1>2, <3>1 DEF Task
    <3>2. ASSUME NEW done \in BOOLEAN,
                 c = [task[t] EXCEPT !.chosen = @ \ {i}, !.pc = "renew", !.key = k, !.id = i,
                                     !.done = done]
          PROVE  /\ c \in Task /\ c.todo = task[t].todo /\ c.chosen \subseteq task[t].chosen
                 /\ c.pc = "renew" /\ c.key \in Keys /\ c.id \in Ids
      BY <1>2, <3>2 DEF Task
    <3> QED BY <2>1, <3>1, <3>2
  <2>3. CallOK(t, c)
    BY <1>1, <1>2, <2>2, NextCallOK
  <2> QED BY <1>2, <1>4, <1>7, <2>1, <2>2, <2>3, SetOK DEF InvOK
<1> QED BY <1>1, <1>4, <1>7, <1>8, <1>9, <1>10, Kept DEF InvOK

\* The machine is reset for it.
LEMMA ResetForVolumeOK ==
    ASSUME InvOK, NEW t \in Tasks, ResetForVolume(t) \/ ResetForVolumeFails(t)
    PROVE  InvOK'
<1> DEFINE r == task[t]
<1>1. /\ UNCHANGED <<systemReset, kubeVars, track, worker, reset, loopVars>>
      /\ UNCHANGED setup \/ \E kind : Disturb(kind)
      /\ setup.mode = "Revert" /\ r.pc = "renew"
      /\ ApplyReset(cur) \/ UNCHANGED odimVars
  BY DEF ResetForVolume, ResetForVolumeFails
<1>2. r \in Task /\ CallOK(t, r) /\ UNCHANGED cur
  BY <1>1 DEF InvOK, TasksOK, loopVars
<1>3. cur \in Bmcs /\ r.key \in Keys /\ r.id \in Ids
  BY <1>1, <1>2, Caller DEF CallOK
<1>4. OdimOK' /\ OdimStep
  BY <1>1, <1>3, ApplyResetOK, OdimKept DEF InvOK
<1>5. SetupOK' /\ ModesKept
  BY <1>1, DisturbOK DEF InvOK
<1>6. PICK c : Set(t, c) /\ c \in {[r EXCEPT !.pc = "status"], NextVolume(r)}
  BY DEF ResetForVolume, ResetForVolumeFails
<1>7. c \in Task /\ CallOK(t, c)
  <2>1. CASE c = [r EXCEPT !.pc = "status"]
    <3>1. /\ c \in Task /\ c.todo = r.todo /\ c.chosen = r.chosen
          /\ c.pc = "status" /\ c.key = r.key /\ c.id = r.id
      BY <1>2, <2>1 DEF Task
    <3> QED BY <1>1, <1>2, <1>3, <3>1, NextCallOK
  <2>2. CASE c = NextVolume(r)
    BY <1>1, <1>2, <2>2, NextVolumeOK
  <2> QED BY <1>6, <2>1, <2>2
<1>9. TasksOK'
  BY <1>2, <1>4, <1>5, <1>6, <1>7, SetOK DEF InvOK
<1> QED BY <1>1, <1>4, <1>5, <1>9, Kept DEF InvOK

LEMMA EventNoNameOK ==
    ASSUME InvOK, NEW t \in Tasks, NEW i \in Ids, EventNoName(t, i)
    PROVE  InvOK'
<1>1. UNCHANGED <<odimVars, systemReset, kubeVars, track, worker, reset, loopVars, setup>>
  BY DEF EventNoName
<1>2. OdimOK' /\ OdimStep /\ SetupOK' /\ ModesKept /\ UNCHANGED cur
  BY <1>1, Quiet DEF loopVars
<1>3. task' \in [Tasks -> Task] /\ \A u \in Tasks : task'[u] \in {task[u], NoTask}
  <2>1. PICK v : task' = [task EXCEPT ![t] = NoTask, ![v] = NoTask]
    BY DEF EventNoName
  <2> QED BY <2>1, NoTaskOK DEF InvOK, TasksOK
<1>4. TasksOK'
  BY <1>2, <1>3, TasksKept DEF InvOK
<1> QED BY <1>1, <1>2, <1>4, Kept DEF InvOK

LEMMA TaskStepOK ==
    ASSUME InvOK, NEW t \in Tasks, TaskStep(t)
    PROVE  InvOK'
BY CallLooksOK, ReadVolumeOK, CreateObjectOK, CallStatusOK, DeleteInOdimOK, CreateInOdimOK, ResetForVolumeOK
DEF TaskStep

\* The process ends: objects and volumes stay.
LEMMA ForgetOK ==
    ASSUME InvOK, Forget, UNCHANGED setup \/ \E kind : Disturb(kind)
    PROVE  InvOK'
<1> USE DEF Forget
<1>1. OdimOK' /\ OdimStep /\ SetupOK' /\ ModesKept /\ UNCHANGED title
  BY Quiet
<1>2. KubeOK'
  <2>1. fresh' \in [Procs -> SUBSET Keys] /\ \A p \in Procs : \A j \in fresh'[p] : Exists(j)
    OBVIOUS
  <2> QED BY <1>1, <2>1, SameOK DEF InvOK
<1>3. TrackOK' /\ WorkerOK' /\ ResetOK' /\ LoopOK'
  BY DEF TrackOK, WorkerOK, ResetOK, LoopOK, NothingTracked, NoWorker, NoReset, NoPoll, NoEvent
<1>4. TasksOK'
  <2>1. task' \in [Tasks -> Task] /\ \A t \in Tasks : task'[t] = NoTask
    BY NoTaskOK
  <2>2. ASSUME NEW t \in Tasks PROVE CallOK(t, task[t])'
    BY <2>1, NoTaskOK
  <2> QED BY <2>1, <2>2 DEF TasksOK
<1> QED BY <1>1, <1>2, <1>3, <1>4 DEF InvOK

-----------------------------------------------------------------------------
(* The theorems.                                                           *)

LEMMA InvInit ==
    ASSUME Init PROVE InvOK
<1> USE DEF Init
<1>1. SetupOK
  <2>1. PICK s \in Setups : setup = s
    OBVIOUS
  <2>2. s.times \in Nat /\ s \in [mode : {"Accommodate", "Revert"}, kinds : SUBSET DisturbanceKinds, times : Nat]
    BY VolumesAssumption
  <2>3. s = [s EXCEPT !.times = s.times] /\ s.times \in 0 .. s.times
    BY <2>2
  <2> QED BY <2>1, <2>3 DEF SetupOK
<1>2. OdimOK
  BY DEF OdimOK
<1>3. KubeOK
  BY DEF KubeOK
<1>4. TrackOK /\ WorkerOK /\ ResetOK /\ LoopOK
  BY DEF TrackOK, WorkerOK, ResetOK, LoopOK, NothingTracked, NoWorker, NoReset, NoPoll, NoEvent
<1>5. TasksOK
  <2>1. \A t \in Tasks : CallOK(t, NoTask)
    BY DEF NoTask, CallOK
  <2> QED BY <2>1, NoTaskOK DEF TasksOK
<1> QED BY <1>1, <1>2, <1>3, <1>4, <1>5 DEF InvOK

LEMMA InvNext ==
    ASSUME InvOK, [Next]_vars PROVE InvOK'
<1>1. CASE VolStep
  BY <1>1, VolStartOK, VolRemoveOK, VolPostOK, VolTaskOK, VolEndsOK DEF VolStep
<1>2. CASE ResetStep
  BY <1>2, ResetTaskOK, ResetObjectsOK DEF ResetStep
<1>3. CASE PollStep
  BY <1>3, LoopListsOK, LoopComparesOK DEF PollStep
<1>4. CASE EventStep
  BY <1>4, LoopComparesOK, TaskStepOK, EventNoNameOK DEF EventStep, TasksOf
<1>5. CASE \E t \in TasksOf("poll") : TaskStep(t)
  BY <1>5, TaskStepOK DEF TasksOf
<1>6. CASE Panic
  <2>1. Forget /\ UNCHANGED setup
    BY <1>6 DEF Panic, PanicNoName, PanicNoObject, PanicNoNewID
  <2> QED BY <2>1, ForgetOK
<1>7. CASE Disturbance
  <2>1. CASE \E k \in Keys : UserCreate(k) \/ UserDelete(k) \/ UserTouch(k)
    BY <2>1, UsersOK
  <2>2. CASE \E b \in Bmcs : (\E n \in Titles : OdimCreate(b, n)) \/ (\E i \in Ids : OdimDelete(b, i))
    BY <2>2, OthersOK
  <2>3. CASE (\E b \in Bmcs : ResetStart(b)) \/ ResetFails
    BY <2>3, ResetTaskOK
  <2>4. CASE \E b \in Bmcs : EventObjects(b)
    BY <2>4, LoopListsOK
  <2>5. CASE VolPostFails \/ VolTaskFails
    BY <2>5, VolTaskOK, VolEndsOK
  <2>6. CASE PollVolumesFail \/ EventVolumesFail
    BY <2>6, LoopComparesOK
  <2>7. CASE \E t \in Tasks : ResetForVolumeFails(t) \/ \E i \in Ids : CreateInOdimFails(t, i)
    BY <2>7, ResetForVolumeOK, CreateInOdimOK
  <2>8. CASE Crash
    BY <2>8, ForgetOK DEF Crash
  <2> QED BY <1>7, <2>1, <2>2, <2>3, <2>4, <2>5, <2>6, <2>7, <2>8 DEF Disturbance
<1>8. CASE UNCHANGED vars
  <2>1. UNCHANGED <<odimVars, systemReset, kubeVars, track, worker, reset, loopVars, task, setup>>
    BY <1>8 DEF vars, pollVars
  <2>2. OdimOK' /\ OdimStep /\ SetupOK' /\ ModesKept /\ UNCHANGED cur
    BY <2>1, Quiet DEF loopVars
  <2> QED BY <2>1, <2>2, Kept DEF InvOK
<1> QED BY <1>1, <1>2, <1>3, <1>4, <1>5, <1>6, <1>7, <1>8 DEF Next

LEMMA InvAlways == Spec => []InvOK
<1>1. Init => InvOK
  BY InvInit
<1>2. InvOK /\ [Next]_vars => InvOK'
  BY InvNext
<1> QED BY <1>1, <1>2, PTL DEF Spec

\* All the goroutines rely on while their lists, copies and IDs grow old: it holds in every
\* state, for whatever ODIM, users, faults and restarts do meanwhile.
THEOREM VolumesInvHolds == Spec => []Inv
BY InvAlways, InvParts, PTL

\* ResetSystem, poll and events write ID and name of one volume into an object, of one that
\* the object is named after or whose drives it asks for, however many machines there are,
\* whatever their names, and whichever characters of the IDs the lists give.
THEOREM VolumesAreNamed == Spec => []ObjectsNameTheirVolume
<1>1. Inv => ObjectsNameTheirVolume
  BY DEF Inv
<1> QED BY <1>1, VolumesInvHolds, PTL

\* Of the steps of the calls only the one that deletes objects removes one.
LEMMA CallDropsLost ==
    ASSUME InvOK, NEW t \in Tasks, TaskStep(t), ListsRead,
           NEW k \in Keys, Exists(k), vol'[k] = NoObject
    PROVE  \A i \in live[k[1]] : Last[i] = i => vol[k].VolumeID # i
<1>1. CASE DeleteObjects(t)
  <2>1. t[2] = "deleted" /\ task[t] \in Task /\ CallOK(t, task[t]) /\ KubeOK
    BY <1>1 DEF DeleteObjects, InvOK, TasksOK
  <2>2. PICK j \in Keys : Exists(j) /\ vol[j].VolumeID \in task[t].chosen /\ Gone(j)
    BY <1>1 DEF DeleteObjects, kubeVars, HasLostVolume
  <2>3. j = k
    <3>1. SUFFICES ASSUME j # k PROVE vol'[k] = vol[k]
      OBVIOUS
    <3> QED BY <2>1, <2>2, <3>1 DEF Gone, KubeOK
  <2>4. k[1] \in Bmcs
    BY DEF Keys
  <2> QED BY <2>1, <2>2, <2>3, <2>4 DEF CallOK
<1>2. CASE CreateObject(t) \/ CreateObjectStatus(t) \/ NewVolumeID(t)
  BY <1>2, CreateObjectOK, CallStatusOK
<1>3. CASE \/ \E i \in Ids : TaskFilter(t, i) \/ ReadVolume(t, i) \/ DeleteInOdim(t, i)
                           \/ CreateInOdim(t, i)
           \/ ResetForVolume(t)
  <2>1. UNCHANGED vol
    BY <1>3 DEF TaskFilter, ReadVolume, DeleteInOdim, CreateInOdim, ResetForVolume, kubeVars
  <2> QED BY <2>1
<1> QED BY <1>1, <1>2, <1>3 DEF TaskStep

\* Poll and events drop the objects of lost volumes only, among those whose IDs have one
\* character: IDs that were on their lists and that ODIM did not have cannot come back, for
\* ODIM never gives an ID twice.
THEOREM OnlyLostAreDropped == Spec => DropsOnlyLost
<1> DEFINE Drops == OneMachine /\ "listFault" \notin setup.kinds =>
                        \A k \in Keys : task' # task /\ Exists(k) /\ vol'[k] = NoObject
                            => \A i \in live[k[1]] : Last[i] = i => vol[k].VolumeID # i
<1>1. ASSUME InvOK, [Next]_vars PROVE [Drops]_<<vol, task>>
  <2> SUFFICES ASSUME ListsRead, NEW k \in Keys, task' # task, Exists(k), vol'[k] = NoObject
               PROVE  \A i \in live[k[1]] : Last[i] = i => vol[k].VolumeID # i
    BY DEF ListsRead
  <2>1. CASE VolStep
    BY <2>1 DEF VolStep, VolStart, VolRemove, VolPost, VolTaskDone, VolFail, VolRemoved,
                VolRemovedNoContent, pollVars
  <2>2. CASE ResetStep
    BY <2>2 DEF ResetStep, ResetDone, ResetNoVolume, ResetVolume, ResetClear, pollVars
  <2>3. CASE PollStep \/ EventVolumes
    BY <2>3 DEF PollStep, PollTick, PollObjects, PollVolumes, PollDone, EventVolumes, kubeVars
  <2>4. CASE \E t \in Tasks : TaskStep(t)
    BY <1>1, <2>4, CallDropsLost
  <2>5. CASE \E t \in Tasks, i \in Ids : EventNoName(t, i)
    BY <2>5 DEF EventNoName, kubeVars
  <2>6. CASE Panic
    BY <2>6 DEF Panic, PanicNoName, PanicNoObject, PanicNoNewID, Forget
  <2>7. CASE Disturbance
    <3>1. \/ UNCHANGED task \/ UNCHANGED vol
      BY <2>7 DEF Disturbance, UserCreate, UserDelete, UserTouch, OdimCreate, OdimDelete, ResetStart,
                  EventObjects, VolPostFails, VolTaskFails, ResetFails, PollVolumesFail,
                  EventVolumesFail, ResetForVolumeFails, CreateInOdimFails, Crash, Forget,
                  pollVars, kubeVars
    <3> QED BY <3>1
  <2>8. CASE UNCHANGED vars
    BY <2>8 DEF vars, pollVars
  <2> QED BY <1>1, <2>1, <2>2, <2>3, <2>4, <2>5, <2>6, <2>7, <2>8 DEF Next, EventStep, TasksOf
<1>2. InvOK /\ [Next]_vars => [Drops]_<<vol, task>>
  BY <1>1
<1> QED BY <1>2, InvAlways, PTL DEF Spec, DropsOnlyLost
================================================================================
