---------------------------- MODULE BmcOdimProofs -----------------------------
(***************************************************************************)
(* The safety properties of BmcOdim, with BmcEvents and BmcConfig in it,   *)
(* for every number of destinations, hosts, IDs and disturbances.          *)
(***************************************************************************)
EXTENDS BmcOdim, TLAPS

USE DEF Exists

\* What the parts about subscriptions rely on.
ObjectsOK ==
    /\ sub \in [Keys -> Object \cup {NoObject}]
    /\ fresh \in [Procs -> SUBSET Keys]
    /\ queue \subseteq {k \in Keys : Exists(k)}
    /\ \A p \in Procs : \A k \in fresh[p] : Exists(k)
    /\ ObjectsNameTheirSubscription

LiveOK ==
    /\ destination \in [Ids -> Destinations \cup {None}]
    /\ live \subseteq Ids /\ \A i \in live : destination[i] # None
    /\ \A i, j \in live : destination[i] = destination[j] => i = j

WorkerOK ==
    /\ worker \in [pc : {"idle", "finalizer", "post", "status", "drop", "delete", "release"},
                   key : Keys \cup {None}, ID : Ids \cup {None}]
    /\ worker.pc # "idle" => worker.key \in Keys

PollOK ==
    /\ poll \in [pc : {"idle", "objects", "accommodate", "accStatus", "revert", "revStatus"},
                 todo : SUBSET Ids, known : SUBSET Ids, unseen : SUBSET Ids,
                 key : Keys \cup {None}, ID : Ids \cup {None}]
    /\ poll.unseen \subseteq poll.known
    /\ cached \in Hosts \cup {None}
    /\ poll.pc # "idle" => cached # None
    /\ poll.pc \in {"accStatus", "revStatus"} => poll.key \in Keys
    /\ poll.pc = "accStatus" => poll.ID \in Ids /\ destination[poll.ID] = poll.key[1]

EventsOK == ObjectsOK /\ LiveOK /\ WorkerOK /\ PollOK

\* These parts are what BmcEvents promises.
LEMMA Parts == EventsOK <=> EventsTypeOK /\ EventsInv /\ ObjectsNameTheirSubscription
BY DEF EventsOK, ObjectsOK, LiveOK, WorkerOK, PollOK, EventsTypeOK, EventsInv

-----------------------------------------------------------------------------
(* Kubernetes and ODIM.                                                    *)

\* An object is stored that names no subscription, or one of its own destination.
LEMMA StoreOK ==
    ASSUME ObjectsOK, NEW p \in Procs \cup {None}, NEW k \in Keys, NEW o \in Object, NEW called,
           Store(p, k, o, called), o.ID # None => destination[o.ID] = k[1],
           UNCHANGED destination
    PROVE  ObjectsOK' /\ \A j \in Keys : Exists(j)' => Exists(j) \/ j = k
<1> USE EventsAssumption DEF ObjectsOK, Store, Outdate
<1>1. sub' \in [Keys -> Object \cup {NoObject}] /\ sub'[k] = o /\ o # NoObject
      /\ \A j \in Keys : j # k => sub'[j] = sub[j]
  OBVIOUS
<1>2. fresh' \in [Procs -> SUBSET Keys] /\ \A q \in Procs : fresh'[q] \subseteq fresh[q] \cup {k}
  OBVIOUS
<1>3. queue' \subseteq queue \cup {k}
  OBVIOUS
<1>4. ObjectsNameTheirSubscription'
  BY <1>1 DEF ObjectsNameTheirSubscription
<1> QED BY <1>1, <1>2, <1>3, <1>4

\* An object goes.
LEMMA GoneOK ==
    ASSUME ObjectsOK, NEW k \in Keys, Gone(k), UNCHANGED destination
    PROVE  ObjectsOK' /\ \A j \in Keys : Exists(j)' => Exists(j)
<1> USE EventsAssumption DEF ObjectsOK, Gone, Outdate, Procs
<1>1. sub' \in [Keys -> Object \cup {NoObject}] /\ sub'[k] = NoObject
      /\ \A j \in Keys : j # k => sub'[j] = sub[j]
  OBVIOUS
<1>2. fresh' \in [Procs -> SUBSET Keys] /\ \A q \in Procs : fresh'[q] = fresh[q] \ {k}
  OBVIOUS
<1>3. ObjectsNameTheirSubscription'
  BY <1>1 DEF ObjectsNameTheirSubscription
<1> QED BY <1>1, <1>2, <1>3

\* The ID of a subscription to its destination is written into an object.
LEMMA UpdateStatusOK ==
    ASSUME ObjectsOK, NEW p \in Procs, NEW k \in Keys, NEW i \in Ids, UpdateStatus(p, k, i),
           destination[i] = k[1], UNCHANGED destination
    PROVE  ObjectsOK' /\ \A j \in Keys : Exists(j)' => Exists(j)
<1>1. CASE k \in fresh[p]
  <2>1. [sub[k] EXCEPT !.ID = i] \in Object /\ [sub[k] EXCEPT !.ID = i].ID = i /\ Exists(k)
    BY <1>1 DEF ObjectsOK, Object
  <2> QED BY <1>1, <2>1, StoreOK DEF UpdateStatus
<1>2. CASE k \notin fresh[p]
  BY <1>2 DEF UpdateStatus, subVars, ObjectsOK, ObjectsNameTheirSubscription
<1> QED BY <1>1, <1>2

\* Delete, with or without the removal of the finalizer before it.
LEMMA DeleteOK ==
    ASSUME ObjectsOK, NEW k \in Keys, Delete(k) \/ \E p \in Procs : ReleaseAndDelete(p, k),
           UNCHANGED destination
    PROVE  ObjectsOK' /\ \A j \in Keys : Exists(j)' => Exists(j)
<1>1. CASE Gone(k)
  BY <1>1, GoneOK
<1>2. CASE Exists(k) /\ Store(None, k, [sub[k] EXCEPT !.deleting = TRUE], TRUE)
  <2> DEFINE o == [sub[k] EXCEPT !.deleting = TRUE]
  <2>1. o \in Object /\ (o.ID # None => destination[o.ID] = k[1])
    BY <1>2 DEF ObjectsOK, ObjectsNameTheirSubscription, Object
  <2> HIDE DEF o
  <2> QED BY <1>2, <2>1, StoreOK DEF o
<1>3. CASE UNCHANGED subVars
  BY <1>3 DEF subVars, ObjectsOK, ObjectsNameTheirSubscription
<1> QED BY <1>1, <1>2, <1>3 DEF Delete, ReleaseAndDelete

\* A new subscription has an ID that no object, no list and no goroutine has.
LEMMA SubscribeOK ==
    ASSUME EventsOK, NEW d \in Destinations, Subscribe(d), UNCHANGED <<sub, cached>>
    PROVE  /\ ObjectsNameTheirSubscription' /\ LiveOK'
           /\ poll.pc = "accStatus" => destination'[poll.ID] = destination[poll.ID]
           /\ \A i \in live' : destination'[i] = d \/ (i \in live /\ destination'[i] = destination[i])
<1>1. PICK i \in Unused : /\ destination' = [destination EXCEPT ![i] = d]
                          /\ live' = live \cup {i}
  BY DEF Subscribe
<1>2. i \in Ids /\ i \notin live /\ i \notin IdsOfObjects /\ i # poll.ID
  BY DEF Unused
<1>3. LiveOK'
  BY <1>1, <1>2, EventsAssumption DEF EventsOK, LiveOK, Subscribe, Subscribed
<1>4. ObjectsNameTheirSubscription'
  <2> SUFFICES ASSUME NEW k \in Keys, Exists(k), sub[k].ID # None
               PROVE  destination'[sub[k].ID] = k[1]
    BY DEF ObjectsNameTheirSubscription
  <2>1. sub[k].ID \in IdsOfObjects /\ sub[k].ID \in Ids
    BY DEF IdsOfObjects, EventsOK, ObjectsOK, Object
  <2> QED BY <1>1, <1>2, <2>1 DEF EventsOK, ObjectsOK, LiveOK, ObjectsNameTheirSubscription
<1> QED BY <1>1, <1>2, <1>3, <1>4 DEF EventsOK, LiveOK, PollOK

-----------------------------------------------------------------------------
(* The reconciler of the subscription objects.                             *)

\* No part of BmcEvents has to do with a subscription of one of the operator's hosts but h.
EventsOnly(h) ==
    /\ cached \in {h, None}
    /\ \A i \in live : destination[i] \in Hosts => destination[i] = h
    /\ \A k \in Keys : Exists(k) => k[1] \in Others
    /\ worker.pc # "idle" => worker.key[1] \in Others

\* The operator's subscriptions do not become more.
NoneOwn == \A i \in live' :
    destination'[i] \in Others \/ (i \in live /\ destination'[i] = destination[i])

StepOK(h) == EventsOK' /\ (EventsOnly(h) => EventsOnly(h)' /\ NoneOwn)

LEMMA WorkStartOK ==
    ASSUME EventsOK, NEW h, NEW k \in Keys, WorkStart(k)
    PROVE  StepOK(h)
<1>1. Exists(k) /\ sub[k] \in Object
  BY DEF WorkStart, EventsOK, ObjectsOK
<1>2. worker'.pc \in {"idle", "delete", "post", "finalizer"}
      /\ worker' \in {NoWorker, [pc |-> worker'.pc, key |-> k, ID |-> sub[k].ID]}
  BY DEF WorkStart, NoWorker
<1>3. WorkerOK' /\ (worker'.pc # "idle" => worker'.key = k)
  BY <1>1, <1>2 DEF WorkerOK, NoWorker, Object
<1>4. ObjectsOK'
  BY <1>1 DEF WorkStart, EventsOK, ObjectsOK, ObjectsNameTheirSubscription, Procs
<1>5. UNCHANGED <<destination, live, sub, poll, cached>>
  BY DEF WorkStart
<1>6. LiveOK' /\ PollOK'
  BY <1>5 DEF EventsOK, LiveOK, PollOK
<1>7. EventsOnly(h) => EventsOnly(h)' /\ NoneOwn
  BY <1>1, <1>3, <1>5 DEF EventsOnly, NoneOwn
<1> QED BY <1>3, <1>4, <1>6, <1>7 DEF StepOK, EventsOK

\* The worker goes on with its object, or has done with it.
WorkerSteps ==
    \/ worker' = NoWorker
    \/ /\ worker.pc # "idle" /\ worker'.key = worker.key
       /\ \E place \in {"post", "status", "drop", "release"} : WorkTo(place)

\* So its other steps keep what they should when the objects and the subscriptions do.
LEMMA WorkerStepOK ==
    ASSUME EventsOK, NEW h, WorkerSteps, ObjectsOK', LiveOK', UNCHANGED <<poll, cached>>,
           \A k \in Keys : Exists(k)' => Exists(k),
           poll.pc = "accStatus" => destination'[poll.ID] = destination[poll.ID],
           EventsOnly(h) => NoneOwn
    PROVE  StepOK(h)
<1>1. WorkerOK' /\ (worker'.pc # "idle" => worker.pc # "idle" /\ worker'.key = worker.key)
  BY DEF EventsOK, WorkerOK, WorkerSteps, WorkTo, NoWorker
<1>2. PollOK'
  BY DEF EventsOK, PollOK
<1>3. ASSUME EventsOnly(h) PROVE EventsOnly(h)'
  BY <1>1, <1>3, EventsAssumption DEF EventsOnly, NoneOwn
<1> QED BY <1>1, <1>2, <1>3 DEF StepOK, EventsOK

\* Reading and queueing objects of the worker's own.
LEMMA RequeueOK ==
    ASSUME EventsOK, WorkerOK, worker.pc # "idle", Requeue \/ UNCHANGED queue,
           \/ UNCHANGED fresh
           \/ fresh' = [fresh EXCEPT !["worker"] = IF Exists(worker.key) THEN {worker.key} ELSE {}],
           UNCHANGED <<sub, destination>>
    PROVE  ObjectsOK'
<1>1. worker.key \in Keys
  BY DEF WorkerOK
<1>2. fresh' \in [Procs -> SUBSET Keys] /\ \A p \in Procs : \A k \in fresh'[p] : Exists(k)
  BY <1>1 DEF EventsOK, ObjectsOK, Procs
<1>3. queue' \subseteq {k \in Keys : Exists(k)}
  BY <1>1 DEF EventsOK, ObjectsOK, Requeue
<1> QED BY <1>2, <1>3 DEF EventsOK, ObjectsOK, ObjectsNameTheirSubscription

\* The steps of the worker that leave ODIM alone.
LEMMA WorkObjectsOK ==
    ASSUME EventsOK, NEW h,
           WorkNoClient \/ WorkFinalizer \/ WorkStatus \/ WorkDrop \/ WorkRelease \/ WorkOutdated
    PROVE  StepOK(h)
<1> DEFINE k == worker.key
<1>1. worker.pc # "idle" /\ k \in Keys /\ ObjectsOK /\ WorkerOK
  BY DEF WorkNoClient, WorkFinalizer, WorkStatus, WorkDrop, WorkRelease, WorkOutdated, EventsOK,
         WorkerOK
<1>2. UNCHANGED <<destination, live, poll, cached>>
  BY DEF WorkNoClient, WorkFinalizer, WorkStatus, WorkDrop, WorkRelease, WorkOutdated
<1>3. WorkerSteps
  BY <1>1 DEF WorkNoClient, WorkFinalizer, WorkStatus, WorkDrop, WorkRelease, WorkOutdated,
              WorkerSteps, WorkTo, WorkEnds, WorkerOK
<1>4. LiveOK' /\ NoneOwn
  BY <1>2 DEF EventsOK, LiveOK, NoneOwn
<1>5. ObjectsOK' /\ \A j \in Keys : Exists(j)' => Exists(j)
  <2>1. CASE WorkNoClient \/ WorkOutdated
    <3>1. Requeue /\ UNCHANGED <<sub, fresh>>
      BY <2>1 DEF WorkNoClient, WorkOutdated
    <3> QED BY <1>1, <1>2, <3>1, RequeueOK
  <2>2. CASE WorkFinalizer
    <3>1. CASE k \in fresh["worker"]
      <4> DEFINE o == [sub[k] EXCEPT !.finalizer = TRUE]
      <4>1. Store("worker", k, o, FALSE)
        BY <2>2, <3>1 DEF WorkFinalizer
      <4>2. o \in Object /\ (o.ID # None => destination[o.ID] = k[1]) /\ Exists(k)
        BY <1>1, <3>1 DEF ObjectsOK, Object, ObjectsNameTheirSubscription, Procs
      <4> HIDE DEF o, k
      <4> QED BY <1>1, <1>2, <4>1, <4>2, StoreOK DEF Procs
    <3>2. CASE k \notin fresh["worker"]
      <4>1. Requeue /\ UNCHANGED <<sub, fresh>>
        BY <2>2, <3>2 DEF WorkFinalizer
      <4> QED BY <1>1, <1>2, <4>1, RequeueOK
    <3> QED BY <3>1, <3>2
  <2>3. CASE WorkStatus
    <3>1. CASE UNCHANGED subVars
      BY <1>1, <1>2, <3>1 DEF subVars, ObjectsOK, ObjectsNameTheirSubscription
    <3>2. CASE \E i \in Found(k[1]) : UpdateStatus("worker", k, i)
      <4>1. PICK i \in Found(k[1]) : UpdateStatus("worker", k, i)
        BY <3>2
      <4>2. i \in Ids /\ destination[i] = k[1]
        BY DEF Found, EventsOK, LiveOK
      <4> QED BY <1>1, <1>2, <4>1, <4>2, UpdateStatusOK DEF Procs
    <3> QED BY <2>3, <3>1, <3>2 DEF WorkStatus
  <2>4. CASE WorkDrop
    BY <1>1, <1>2, <2>4, DeleteOK DEF WorkDrop, Procs
  <2>5. CASE WorkRelease
    BY <1>1, <1>2, <2>5, GoneOK DEF WorkRelease
  <2> QED BY <2>1, <2>2, <2>3, <2>4, <2>5
<1>6. poll.pc = "accStatus" => destination'[poll.ID] = destination[poll.ID]
  BY <1>2
<1> QED BY <1>2, <1>3, <1>4, <1>5, <1>6, WorkerStepOK

\* ODIM is asked for the subscription that the object is for.
LEMMA WorkPostOK ==
    ASSUME EventsOK, NEW h, WorkPost
    PROVE  StepOK(h)
<1>1. worker.pc = "post" /\ worker.key \in Keys /\ ObjectsOK /\ WorkerOK /\ LiveOK /\ PollOK
  BY DEF WorkPost, EventsOK, WorkerOK
<1>2. UNCHANGED <<sub, poll, cached>> /\ (Requeue \/ UNCHANGED queue) /\ WorkerSteps
  BY <1>1 DEF WorkPost, WorkerSteps, WorkTo, WorkEnds, WorkerOK
<1>3. Subscribe(worker.key[1]) \/ UNCHANGED <<destination, live>>
  BY DEF WorkPost
<1>4. worker.key[1] \in Destinations
  BY <1>1 DEF Keys
<1>5. fresh' = [fresh EXCEPT !["worker"] = IF Exists(worker.key) THEN {worker.key} ELSE {}]
  BY DEF WorkPost
<1>6. LiveOK' /\ (poll.pc = "accStatus" => destination'[poll.ID] = destination[poll.ID])
      /\ ObjectsNameTheirSubscription'
      /\ \A i \in live' : destination'[i] = worker.key[1]
                          \/ (i \in live /\ destination'[i] = destination[i])
  <2>1. CASE Subscribe(worker.key[1])
    BY <1>2, <1>4, <2>1, SubscribeOK
  <2>2. CASE UNCHANGED <<destination, live>>
    BY <1>1, <1>2, <2>2 DEF LiveOK, ObjectsOK, ObjectsNameTheirSubscription
  <2> QED BY <1>3, <2>1, <2>2
<1>7. ObjectsOK'
  <2>1. fresh' \in [Procs -> SUBSET Keys] /\ \A p \in Procs : \A k \in fresh'[p] : Exists(k)
    BY <1>1, <1>5 DEF ObjectsOK, Procs
  <2>2. queue' \subseteq {k \in Keys : Exists(k)}
    BY <1>1, <1>2 DEF ObjectsOK, Requeue
  <2> QED BY <1>1, <1>2, <1>6, <2>1, <2>2 DEF ObjectsOK
<1>8. EventsOnly(h) => NoneOwn
  BY <1>1, <1>6 DEF EventsOnly, NoneOwn
<1> QED BY <1>2, <1>6, <1>7, <1>8, WorkerStepOK

\* A subscription that is removed takes nothing away from the objects.
LEMMA UnsubscribeOK ==
    ASSUME EventsOK, NEW i \in Ids, Unsubscribe(i), UNCHANGED sub
    PROVE  LiveOK' /\ ObjectsNameTheirSubscription' /\ NoneOwn /\ UNCHANGED destination
BY DEF Unsubscribe, EventsOK, LiveOK, ObjectsOK, ObjectsNameTheirSubscription, NoneOwn

LEMMA WorkDeleteOK ==
    ASSUME EventsOK, NEW h, WorkDelete
    PROVE  StepOK(h)
<1>1. worker.pc = "delete" /\ ObjectsOK /\ WorkerOK /\ LiveOK
  BY DEF WorkDelete, EventsOK
<1>2. UNCHANGED <<sub, fresh, poll, cached>> /\ (Requeue \/ UNCHANGED queue) /\ WorkerSteps
  BY <1>1 DEF WorkDelete, WorkerSteps, WorkTo, WorkEnds, WorkerOK
<1>3. LiveOK' /\ NoneOwn /\ UNCHANGED destination
  <2>1. CASE worker.ID \in live /\ Unsubscribe(worker.ID)
    <3>1. worker.ID \in Ids
      BY <1>1, <2>1 DEF LiveOK
    <3> QED BY <1>2, <2>1, <3>1, UnsubscribeOK
  <2>2. CASE UNCHANGED <<destination, live>>
    BY <1>1, <2>2 DEF LiveOK, NoneOwn
  <2> QED BY <2>1, <2>2 DEF WorkDelete
<1>4. ObjectsOK'
  BY <1>1, <1>2, <1>3, RequeueOK
<1> QED BY <1>2, <1>3, <1>4, WorkerStepOK

LEMMA WorkOK ==
    ASSUME EventsOK, NEW h, Work
    PROVE  StepOK(h)
BY WorkStartOK, WorkObjectsOK, WorkPostOK, WorkDeleteOK DEF Work

-----------------------------------------------------------------------------
(* The polling loop.                                                       *)

\* A step of it keeps what it should when its own state, the objects and the
\* subscriptions do, and its new objects are for destinations of others.
LEMMA PollStepOK ==
    ASSUME EventsOK, NEW h, ObjectsOK', LiveOK', PollOK', UNCHANGED <<worker, cached>>,
           EventsOnly(h) => NoneOwn /\ \A k \in Keys : Exists(k)' => Exists(k) \/ k[1] \in Others
    PROVE  StepOK(h)
<1>1. WorkerOK'
  BY DEF EventsOK, WorkerOK
<1>2. ASSUME EventsOnly(h) PROVE EventsOnly(h)'
  BY <1>2, EventsAssumption DEF EventsOnly, NoneOwn
<1> QED BY <1>1, <1>2 DEF StepOK, EventsOK

\* The steps in which it only looks.
LEMMA PollLooksOK ==
    ASSUME EventsOK, NEW h,
           PollList \/ PollObjects \/ (\E i \in Ids : PollSkip(i)) \/ PollDone
    PROVE  StepOK(h)
<1>1. UNCHANGED <<destination, live, subVars, worker, cached>>
  BY DEF PollList, PollObjects, PollSkip, PollDone
<1>2. PollOK'
  <2>1. CASE PollList
    BY <1>1, <2>1 DEF EventsOK, LiveOK, PollOK, PollList, PollIn
  <2>2. CASE PollObjects
    <3>1. IdsOfObjects \subseteq Ids
      BY DEF EventsOK, ObjectsOK, IdsOfObjects, Object
    <3> QED BY <1>1, <2>2, <3>1 DEF EventsOK, PollOK, PollObjects, PollIn
  <2>3. CASE \E i \in Ids : PollSkip(i)
    BY <1>1, <2>3 DEF EventsOK, PollOK, PollSkip
  <2>4. CASE PollDone
    BY <1>1, <2>4, EventsAssumption DEF EventsOK, PollOK, PollDone, PollEnds, NoPoll
  <2> QED BY <2>1, <2>2, <2>3, <2>4
<1>3. ObjectsOK' /\ LiveOK' /\ NoneOwn
  BY <1>1 DEF EventsOK, ObjectsOK, LiveOK, NoneOwn, subVars, ObjectsNameTheirSubscription
<1> QED BY <1>1, <1>2, <1>3, PollStepOK DEF subVars

\* Accommodate gives every subscription but the operator's an object.
LEMMA AccCreateOK ==
    ASSUME EventsOK, NEW h, NEW i \in Ids, AccCreate(i)
    PROVE  StepOK(h)
<1> DEFINE d == destination[i]
           k == IF <<d, "name">> \in FreeKeys(d) THEN <<d, "name">> ELSE <<d, "host">>
           o == [spec |-> FALSE, finalizer |-> FALSE, deleting |-> FALSE, ID |-> None]
<1>1. ObjectsOK /\ LiveOK /\ PollOK /\ i \in live /\ d # cached /\ poll.pc = "accommodate"
  BY DEF AccCreate, EventsOK, IsForeign, IsOwn, PollIn
<1>2. d \in Destinations /\ k \in Keys /\ k[1] = d /\ o \in Object
  BY <1>1 DEF LiveOK, Keys, Object
<1>3. UNCHANGED <<destination, live, worker, cached>>
  BY DEF AccCreate
<1>4. ObjectsOK' /\ \A j \in Keys : Exists(j)' => Exists(j) \/ j = k
  <2>1. CASE Store("poll", k, o, TRUE)
    <3> HIDE DEF k
    <3>1. o.ID # None => destination[o.ID] = k[1]
      OBVIOUS
    <3> HIDE DEF o
    <3> QED BY <1>1, <1>2, <1>3, <2>1, <3>1, StoreOK DEF Procs
  <2>2. CASE UNCHANGED subVars
    BY <1>1, <1>3, <2>2 DEF subVars, ObjectsOK, ObjectsNameTheirSubscription
  <2> QED BY <2>1, <2>2 DEF AccCreate
<1>5. PollOK'
  <2>1. poll' \in {[poll EXCEPT !.pc = "accStatus", !.todo = @ \ {i}, !.key = k, !.ID = i],
                   [poll EXCEPT !.todo = @ \ {i}]}
    BY DEF AccCreate
  <2> HIDE DEF k
  <2> QED BY <1>1, <1>2, <1>3, <2>1 DEF PollOK
<1>6. LiveOK' /\ NoneOwn
  BY <1>1, <1>3 DEF LiveOK, NoneOwn
<1>7. EventsOnly(h) => d \in Others
  BY <1>1, <1>2 DEF EventsOnly, PollOK, Destinations
<1> QED BY <1>2, <1>3, <1>4, <1>5, <1>6, <1>7, PollStepOK

\* The IDs of subscriptions are written into the objects that they are for.
LEMMA PollStatusOK ==
    ASSUME EventsOK, NEW h, AccStatus \/ RevStatus
    PROVE  StepOK(h)
<1>1. ObjectsOK /\ LiveOK /\ PollOK /\ poll.key \in Keys
  BY DEF EventsOK, PollOK, AccStatus, RevStatus, PollIn
<1>2. UNCHANGED <<destination, live, worker, cached>>
  BY DEF AccStatus, RevStatus
<1>3. UNCHANGED subVars
      \/ \E i \in Ids : destination[i] = poll.key[1] /\ UpdateStatus("poll", poll.key, i)
  <2>1. CASE AccStatus
    BY <1>1, <2>1 DEF AccStatus, PollOK, PollIn
  <2>2. CASE RevStatus
    BY <1>1, <2>2 DEF RevStatus, Found, LiveOK
  <2> QED BY <2>1, <2>2
<1>4. ObjectsOK' /\ \A j \in Keys : Exists(j)' => Exists(j)
  <2>1. CASE UNCHANGED subVars
    BY <1>1, <1>2, <2>1 DEF subVars, ObjectsOK, ObjectsNameTheirSubscription
  <2>2. CASE ~UNCHANGED subVars
    <3>1. PICK i \in Ids : destination[i] = poll.key[1] /\ UpdateStatus("poll", poll.key, i)
      BY <1>3, <2>2
    <3> QED BY <1>1, <1>2, <3>1, UpdateStatusOK DEF Procs
  <2> QED BY <2>1, <2>2
<1>5. PollOK'
  BY <1>1, <1>2 DEF PollOK, AccStatus, RevStatus, PollIn
<1>6. LiveOK' /\ NoneOwn
  BY <1>1, <1>2 DEF LiveOK, NoneOwn
<1> QED BY <1>2, <1>4, <1>5, <1>6, PollStepOK

\* What is on one side only goes.
LEMMA PollDropOK ==
    ASSUME EventsOK, NEW h, NEW i \in Ids, AccDrop(i) \/ RevDelete(i)
    PROVE  StepOK(h)
<1>1. ObjectsOK /\ LiveOK /\ PollOK /\ UNCHANGED <<worker, cached>>
  BY DEF EventsOK, AccDrop, RevDelete
<1>2. CASE AccDrop(i)
  <2>1. UNCHANGED <<destination, live>>
    BY <1>2 DEF AccDrop
  <2>2. ObjectsOK' /\ \A j \in Keys : Exists(j)' => Exists(j)
    <3>1. UNCHANGED subVars \/ \E k \in Keys : Gone(k)
      BY <1>2 DEF AccDrop, ObjectsWith
    <3>2. CASE UNCHANGED subVars
      BY <1>1, <2>1, <3>2 DEF subVars, ObjectsOK, ObjectsNameTheirSubscription
    <3> QED BY <1>1, <2>1, <3>1, <3>2, GoneOK
  <2>3. PollOK'
    <3>1. poll' \in {NoPoll, [poll EXCEPT !.unseen = @ \ {i}]}
      BY <1>2 DEF AccDrop
    <3> QED BY <1>1, <1>2, <2>1, <3>1 DEF PollOK, NoPoll, AccDrop, PollIn
  <2>4. LiveOK' /\ NoneOwn
    BY <1>1, <2>1 DEF LiveOK, NoneOwn
  <2> QED BY <1>1, <2>2, <2>3, <2>4, PollStepOK
<1>3. CASE RevDelete(i)
  <2>1. LiveOK' /\ NoneOwn /\ UNCHANGED <<subVars, destination>> /\ ObjectsNameTheirSubscription'
    BY <1>3, UnsubscribeOK DEF RevDelete, subVars
  <2>2. ObjectsOK' /\ \A j \in Keys : Exists(j)' => Exists(j)
    BY <1>1, <2>1 DEF ObjectsOK, subVars
  <2>3. PollOK'
    BY <1>1, <1>3, <2>1 DEF PollOK, RevDelete, PollIn
  <2> QED BY <1>1, <2>1, <2>2, <2>3, PollStepOK
<1> QED BY <1>2, <1>3

\* Revert asks for the subscription of an object again.
LEMMA RevAddOK ==
    ASSUME EventsOK, NEW h, NEW i \in Ids, RevAdd(i)
    PROVE  StepOK(h)
<1>1. ObjectsOK /\ LiveOK /\ PollOK /\ PollIn("revert") /\ UNCHANGED <<sub, queue, worker, cached>>
  BY DEF EventsOK, RevAdd
<1>2. CASE UNCHANGED <<destination, live, fresh>> /\ poll' = [poll EXCEPT !.unseen = @ \ {i}]
  <2>1. ObjectsOK' /\ LiveOK' /\ NoneOwn
    BY <1>1, <1>2 DEF ObjectsOK, LiveOK, NoneOwn, ObjectsNameTheirSubscription
  <2>2. PollOK'
    BY <1>1, <1>2 DEF PollOK, PollIn
  <2> QED BY <1>1, <2>1, <2>2, PollStepOK
<1>3. CASE \E k \in ObjectsWith(i) :
              /\ Subscribe(k[1])
              /\ \/ /\ poll' = [poll EXCEPT !.pc = Added, !.unseen = @ \ {i}, !.key = k]
                    /\ fresh' = [fresh EXCEPT !["poll"] = {k}]
                 \/ poll' = [poll EXCEPT !.unseen = @ \ {i}] /\ UNCHANGED fresh
  <2>1. PICK k \in ObjectsWith(i) :
              /\ Subscribe(k[1])
              /\ \/ /\ poll' = [poll EXCEPT !.pc = Added, !.unseen = @ \ {i}, !.key = k]
                    /\ fresh' = [fresh EXCEPT !["poll"] = {k}]
                 \/ poll' = [poll EXCEPT !.unseen = @ \ {i}] /\ UNCHANGED fresh
    BY <1>3
  <2>2. k \in Keys /\ k[1] \in Destinations /\ Exists(k)
    BY DEF ObjectsWith, Keys
  <2>3. /\ ObjectsNameTheirSubscription' /\ LiveOK'
        /\ \A j \in live' : destination'[j] = k[1] \/ (j \in live /\ destination'[j] = destination[j])
    BY <1>1, <2>1, <2>2, SubscribeOK
  <2>4. ObjectsOK'
    BY <1>1, <2>1, <2>2, <2>3 DEF ObjectsOK, Procs
  <2>5. PollOK'
    BY <1>1, <2>1, <2>2 DEF PollOK, PollIn, Added
  <2>6. EventsOnly(h) => NoneOwn
    BY <2>2, <2>3 DEF EventsOnly, NoneOwn
  <2> QED BY <1>1, <2>3, <2>4, <2>5, <2>6, PollStepOK
<1> QED BY <1>2, <1>3 DEF RevAdd

LEMMA PollStepsOK ==
    ASSUME EventsOK, NEW h, Poll
    PROVE  StepOK(h)
<1>1. CASE \E i \in Ids : PollSkip(i) \/ AccCreate(i) \/ AccDrop(i) \/ RevDelete(i) \/ RevAdd(i)
  BY <1>1, PollLooksOK, AccCreateOK, PollDropOK, RevAddOK
<1>2. CASE PollList \/ PollObjects \/ PollDone
  BY <1>2, PollLooksOK
<1>3. CASE AccStatus \/ RevStatus
  BY <1>3, PollStatusOK
<1> QED BY <1>1, <1>2, <1>3 DEF Poll

-----------------------------------------------------------------------------
(* Users, and the process.                                                 *)

LEMMA UsersOK ==
    ASSUME EventsOK, NEW h, EventsUsers
    PROVE  StepOK(h)
<1>1. ObjectsOK /\ LiveOK /\ PollOK /\ UNCHANGED <<worker, poll, cached>>
  BY DEF EventsOK, EventsUsers, OdimCreate, OdimDelete, UserCreate, UserDelete, UserEdit
<1>2. ASSUME NEW d \in Others, OdimCreate(d) PROVE StepOK(h)
  <2>1. d \in Destinations /\ Subscribe(d) /\ UNCHANGED subVars
    BY <1>2 DEF OdimCreate, Destinations
  <2>2. /\ ObjectsNameTheirSubscription' /\ LiveOK'
        /\ poll.pc = "accStatus" => destination'[poll.ID] = destination[poll.ID]
        /\ \A j \in live' : destination'[j] = d \/ (j \in live /\ destination'[j] = destination[j])
    BY <1>1, <2>1, SubscribeOK DEF subVars
  <2>3. ObjectsOK' /\ \A k \in Keys : Exists(k)' => Exists(k)
    BY <1>1, <2>1, <2>2 DEF ObjectsOK, subVars
  <2>4. PollOK' /\ NoneOwn
    BY <1>1, <2>2 DEF PollOK, NoneOwn
  <2> QED BY <1>1, <2>2, <2>3, <2>4, PollStepOK
<1>3. ASSUME NEW i \in Ids, OdimDelete(i) PROVE StepOK(h)
  <2>1. Unsubscribe(i) /\ UNCHANGED subVars
    BY <1>3 DEF OdimDelete
  <2>2. LiveOK' /\ NoneOwn /\ UNCHANGED destination /\ ObjectsNameTheirSubscription'
    BY <2>1, UnsubscribeOK DEF subVars
  <2>3. ObjectsOK' /\ \A k \in Keys : Exists(k)' => Exists(k)
    BY <1>1, <2>1, <2>2 DEF ObjectsOK, subVars
  <2>4. PollOK'
    BY <1>1, <2>2 DEF PollOK
  <2> QED BY <1>1, <2>2, <2>3, <2>4, PollStepOK
<1>4. ASSUME UNCHANGED <<destination, live>>, ObjectsOK',
             \A k \in Keys : Exists(k)' => Exists(k) \/ k[1] \in Others
      PROVE  StepOK(h)
  <2>1. LiveOK' /\ PollOK' /\ NoneOwn
    BY <1>1, <1>4 DEF LiveOK, PollOK, NoneOwn
  <2> QED BY <1>1, <1>4, <2>1, PollStepOK
<1>5. ASSUME NEW d \in Others, UserCreate(d) PROVE StepOK(h)
  <2> DEFINE o == [spec |-> TRUE, finalizer |-> FALSE, deleting |-> FALSE, ID |-> None]
             k == <<d, "name">>
  <2>1. k \in Keys /\ k[1] = d /\ o \in Object /\ (o.ID # None => destination[o.ID] = k[1])
    BY DEF Keys, Destinations, Object
  <2>2. Store(None, k, o, TRUE) /\ UNCHANGED <<destination, live>>
    BY <1>5 DEF UserCreate
  <2> HIDE DEF k, o
  <2>3. ObjectsOK' /\ \A j \in Keys : Exists(j)' => Exists(j) \/ j = k
    BY <1>1, <2>1, <2>2, StoreOK
  <2> QED BY <1>4, <2>1, <2>2, <2>3
<1>6. ASSUME NEW k \in Keys, UserDelete(k) PROVE StepOK(h)
  BY <1>1, <1>4, <1>6, DeleteOK DEF UserDelete
<1>7. ASSUME NEW k \in Keys, UserEdit(k) PROVE StepOK(h)
  <2>1. Store(None, k, sub[k], TRUE) /\ UNCHANGED <<destination, live>>
    BY <1>7 DEF UserEdit
  <2>2. Exists(k)
    BY <1>1, <1>7 DEF UserEdit, ObjectsOK
  <2>3. sub[k] \in Object /\ (sub[k].ID # None => destination[sub[k].ID] = k[1])
    BY <1>1, <2>2 DEF ObjectsOK, ObjectsNameTheirSubscription
  <2>4. ObjectsOK' /\ \A j \in Keys : Exists(j)' => Exists(j) \/ j = k
    BY <1>1, <2>1, <2>3, StoreOK
  <2> QED BY <1>4, <2>1, <2>2, <2>4
<1> QED BY <1>2, <1>3, <1>5, <1>6, <1>7 DEF EventsUsers

\* Copies and lists are lost with the process; objects and subscriptions stay.
LEMMA RestartEventsOK ==
    ASSUME EventsOK, NEW h, RestartEvents
    PROVE  StepOK(h)
<1> USE DEF RestartEvents
<1>1. ObjectsOK'
  BY DEF EventsOK, ObjectsOK, ObjectsNameTheirSubscription
<1>2. LiveOK' /\ WorkerOK' /\ PollOK'
  BY EventsAssumption DEF EventsOK, LiveOK, WorkerOK, PollOK, NoWorker, NoPoll
<1>3. EventsOnly(h) => EventsOnly(h)' /\ NoneOwn
  BY DEF EventsOnly, NoneOwn, NoWorker
<1> QED BY <1>1, <1>2, <1>3 DEF StepOK, EventsOK

-----------------------------------------------------------------------------
(* The configuration.                                                      *)

\* Every step but those of BmcConfig and a restart.
LEMMA ConfigKeptOK ==
    ASSUME ConfigTypeOK, UNCHANGED <<setup, configVars>>,
           UNCHANGED budget \/ \E kind : Disturb(kind)
    PROVE  ConfigTypeOK'
BY ConfigAssumption DEF ConfigTypeOK, configVars, Disturb

LEMMA ConfigureOK ==
    ASSUME ConfigTypeOK, (\E c \in Configs : Configure(c)) \/ ConfigStep
    PROVE  ConfigTypeOK' /\ UNCHANGED setup
<1>1. CASE \E c \in Configs : Configure(c)
  BY <1>1, ConfigAssumption DEF ConfigTypeOK, Configure, Disturb
<1>2. CASE ConfigStep
  BY <1>2 DEF ConfigTypeOK, ConfigStep, ReadFile, Listen, Rewatch, NewInterval
<1> QED BY <1>1, <1>2

LEMMA RestartConfigOK ==
    ASSUME ConfigTypeOK, RestartConfig, UNCHANGED setup,
           UNCHANGED budget \/ \E kind : Disturb(kind)
    PROVE  ConfigTypeOK'
BY ConfigAssumption DEF ConfigTypeOK, RestartConfig, Disturb

-----------------------------------------------------------------------------
(* The Odim object and its reconciler.                                     *)

OdimOK ==
    /\ odim \in Odim \cup {NoOdim}
    /\ oqueue \in BOOLEAN /\ ofresh \in BOOLEAN
    /\ oqueue \/ ofresh => odim # NoOdim
    /\ oworker \in {"idle", "finalizer", "check", "subscribe", "remove", "release"}
    /\ FinalizerInv

LEMMA InvParts == Inv <=> ConfigTypeOK /\ EventsOK /\ OdimOK /\ OwnInv
BY Parts DEF Inv, TypeOK, OdimOK

LEMMA InvPartsNext == ConfigTypeOK' /\ EventsOK' /\ OdimOK' /\ OwnInv' => Inv'
BY DEF Inv, TypeOK, OdimOK, EventsOK, ObjectsOK, LiveOK, WorkerOK, PollOK, EventsTypeOK, EventsInv

\* The operator has no subscription, and nobody is about to ask for one.
NothingToRemove == odim = NoOdim \/ ~odim.finalizer \/ oworker = "release"

LEMMA OwnParts ==
    OwnInv <=> (Without({"host"}) =>
        /\ \E h \in Hosts : EventsOnly(h) /\ (odim # NoOdim => odim.host = h)
        /\ NothingToRemove => Own = {})
BY DEF OwnInv, OnlyHost, EventsOnly, NothingToRemove

\* A step that leaves the object alone keeps OwnInv when it keeps the part about events.
LEMMA OwnKept ==
    ASSUME OwnInv, UNCHANGED <<setup, odim>>, oworker' = "release" => oworker = "release",
           \A h : EventsOnly(h) => EventsOnly(h)' /\ NoneOwn
    PROVE  OwnInv'
<1> SUFFICES ASSUME Without({"host"})'
             PROVE  /\ \E h \in Hosts : EventsOnly(h)' /\ (odim' # NoOdim => odim'.host = h)
                    /\ NothingToRemove' => Own' = {}
  BY DEF OwnInv, OnlyHost, EventsOnly, NothingToRemove
<1>1. PICK h \in Hosts : EventsOnly(h) /\ (odim # NoOdim => odim.host = h)
  BY OwnParts DEF Without
<1>2. EventsOnly(h)' /\ NoneOwn
  BY <1>1
<1>3. NothingToRemove' => NothingToRemove
  BY DEF NothingToRemove
<1>4. NothingToRemove => Own = {}
  BY OwnParts DEF Without
<1>5. Own = {} => Own' = {}
  BY <1>2, EventsAssumption DEF Own, NoneOwn
<1> QED BY <1>1, <1>2, <1>3, <1>4, <1>5

\* The reconciler's steps that leave ODIM alone, and the edits of users.
LEMMA OdimObjectOK ==
    ASSUME Inv, OdimStart \/ OdimAgain \/ AddFinalizer \/ OdimCheck \/ OdimRelease
                \/ DeleteOdim \/ \E h \in Hosts : EditHost(h)
    PROVE  Inv'
<1>1. ConfigTypeOK /\ EventsOK /\ OdimOK /\ OwnInv
  BY InvParts
<1>2. /\ UNCHANGED <<setup, configVars, eventVars>>
      /\ UNCHANGED budget \/ \E kind : Disturb(kind)
  BY DEF OdimStart, OdimAgain, AddFinalizer, OdimCheck, OdimRelease, DeleteOdim, EditHost
<1>3. ConfigTypeOK' /\ EventsOK' /\ Own' = Own /\ \A h : EventsOnly(h) => EventsOnly(h)' /\ NoneOwn
  <2>1. ConfigTypeOK'
    BY <1>1, <1>2, ConfigKeptOK
  <2>2. EventsOK' /\ Own' = Own /\ \A h : EventsOnly(h) => EventsOnly(h)' /\ NoneOwn
    BY <1>1, <1>2 DEF eventVars, subVars, EventsOK, ObjectsOK, LiveOK, WorkerOK, PollOK, Own,
                      ObjectsNameTheirSubscription, EventsOnly, NoneOwn
  <2> QED BY <2>1, <2>2
<1>4. OdimOK'
  <2> USE <1>1, OdimAssumption DEF OdimOK, FinalizerInv, Odim
  <2>1. CASE OdimStart
    BY <2>1 DEF OdimStart, OdimIn
  <2>2. CASE OdimAgain
    BY <2>2 DEF OdimAgain, RequeueOdim
  <2>3. CASE AddFinalizer
    BY <2>3 DEF AddFinalizer, OdimIn, Write
  <2>4. CASE OdimCheck
    BY <2>4 DEF OdimCheck, OdimIn
  <2>5. CASE OdimRelease
    BY <2>5 DEF OdimRelease, OdimIn, Write
  <2>6. CASE DeleteOdim
    BY <2>6 DEF DeleteOdim, Write
  <2>7. ASSUME NEW h \in Hosts, EditHost(h) PROVE OdimOK'
    BY <2>7 DEF EditHost, Write
  <2> QED BY <2>1, <2>2, <2>3, <2>4, <2>5, <2>6, <2>7
<1>5. OwnInv'
  <2>1. CASE OdimStart \/ OdimAgain \/ OdimCheck
    <3>1. UNCHANGED <<setup, odim>> /\ oworker' # "release"
      BY <2>1 DEF OdimStart, OdimAgain, OdimCheck
    <3> QED BY <1>1, <1>3, <3>1, OwnKept
  <2>2. CASE AddFinalizer \/ OdimRelease \/ DeleteOdim
    <3> SUFFICES ASSUME Without({"host"})
                 PROVE  /\ \E h \in Hosts : EventsOnly(h)' /\ (odim' # NoOdim => odim'.host = h)
                        /\ NothingToRemove' => Own' = {}
      BY <1>2 DEF OwnInv, OnlyHost, EventsOnly, NothingToRemove, Without
    <3>1. PICK h \in Hosts : EventsOnly(h) /\ (odim # NoOdim => odim.host = h)
      BY <1>1, OwnParts
    <3>2. odim' # NoOdim => odim # NoOdim /\ odim'.host = odim.host
      BY <1>1, <2>2, OdimAssumption DEF AddFinalizer, OdimRelease, DeleteOdim, Write, OdimOK, Odim
    <3>3. NothingToRemove' => NothingToRemove
      BY <1>1, <2>2, OdimAssumption DEF AddFinalizer, OdimRelease, DeleteOdim, Write, OdimOK, Odim,
                                        NothingToRemove, OdimIn
    <3>4. NothingToRemove => Own = {}
      BY <1>1, OwnParts
    <3> QED BY <1>3, <3>1, <3>2, <3>3, <3>4
  <2>3. CASE \E h \in Hosts : EditHost(h)
    <3>1. "host" \in setup.kinds
      BY <2>3 DEF EditHost, Disturb
    <3> QED BY <1>2, <3>1 DEF OwnInv, Without
  <2> QED BY <2>1, <2>2, <2>3
<1> QED BY <1>3, <1>4, <1>5, InvPartsNext

\* Steps of the other parts do not touch the object.
LEMMA OtherStepOK ==
    ASSUME Inv, ConfigTypeOK', \A h : StepOK(h), UNCHANGED <<setup, odimVars>>
    PROVE  Inv'
<1>1. OdimOK /\ OwnInv
  BY InvParts
<1>2. EventsOK' /\ \A h : EventsOnly(h) => EventsOnly(h)' /\ NoneOwn
  BY DEF StepOK
<1>3. OdimOK'
  BY <1>1 DEF OdimOK, odimVars, FinalizerInv
<1>4. OwnInv'
  BY <1>1, <1>2, OwnKept DEF odimVars
<1> QED BY <1>2, <1>3, <1>4, InvPartsNext

\* The operator's own subscription: it is asked for while the finalizer is there, and
\* that goes only after the subscription.
LEMMA OdimSubscribeOK ==
    ASSUME Inv, OdimSubscribe
    PROVE  Inv'
<1>1. ConfigTypeOK /\ EventsOK /\ OdimOK /\ OwnInv /\ oworker = "subscribe"
  BY InvParts DEF OdimSubscribe, OdimIn
<1>2. /\ UNCHANGED <<setup, configVars, subVars, worker, poll, cached, odim, oqueue, ofresh>>
      /\ UNCHANGED budget \/ \E kind : Disturb(kind)
      /\ oworker' = "idle"
      /\ Subscribe(odim.host) \/ UNCHANGED <<destination, live>>
  BY DEF OdimSubscribe
<1>3. odim # NoOdim /\ odim.finalizer /\ odim.host \in Hosts
  BY <1>1 DEF OdimOK, FinalizerInv, Odim
<1>4. ConfigTypeOK'
  BY <1>1, <1>2, ConfigKeptOK
<1>5. /\ ObjectsNameTheirSubscription' /\ LiveOK'
      /\ poll.pc = "accStatus" => destination'[poll.ID] = destination[poll.ID]
      /\ \A i \in live' : destination'[i] = odim.host
                          \/ (i \in live /\ destination'[i] = destination[i])
  <2>1. CASE Subscribe(odim.host)
    BY <1>1, <1>2, <1>3, <2>1, SubscribeOK DEF Destinations, subVars
  <2>2. CASE UNCHANGED <<destination, live>>
    BY <1>1, <1>2, <2>2 DEF EventsOK, LiveOK, ObjectsOK, ObjectsNameTheirSubscription, subVars
  <2> QED BY <1>2, <2>1, <2>2
<1>6. EventsOK'
  BY <1>1, <1>2, <1>5 DEF EventsOK, ObjectsOK, WorkerOK, PollOK, subVars
<1>7. OdimOK'
  BY <1>1, <1>2 DEF OdimOK, FinalizerInv
<1>8. OwnInv'
  <2> SUFFICES ASSUME Without({"host"})
               PROVE  /\ \E h \in Hosts : EventsOnly(h)' /\ (odim' # NoOdim => odim'.host = h)
                      /\ NothingToRemove' => Own' = {}
    BY <1>2 DEF OwnInv, OnlyHost, EventsOnly, NothingToRemove, Without
  <2>1. PICK h \in Hosts : EventsOnly(h) /\ (odim # NoOdim => odim.host = h)
    BY <1>1, OwnParts
  <2>2. EventsOnly(h)'
    BY <1>2, <1>3, <1>5, <2>1 DEF EventsOnly, subVars
  <2>3. ~NothingToRemove'
    BY <1>2, <1>3 DEF NothingToRemove
  <2> QED BY <1>2, <2>1, <2>2, <2>3
<1> QED BY <1>4, <1>6, <1>7, <1>8, InvPartsNext

LEMMA OdimRemoveOK ==
    ASSUME Inv, OdimRemove
    PROVE  Inv'
<1>1. ConfigTypeOK /\ EventsOK /\ OdimOK /\ OwnInv /\ oworker = "remove"
  BY InvParts DEF OdimRemove, OdimIn
<1>2. /\ UNCHANGED <<setup, configVars, subVars, worker, poll, cached, odim, oqueue, ofresh>>
      /\ UNCHANGED budget \/ \E kind : Disturb(kind)
      /\ \/ oworker' = "release" /\ \E i \in Own : Unsubscribe(i)
         \/ oworker' = "idle" /\ UNCHANGED <<destination, live>>
  BY DEF OdimRemove, WithoutSubscription
<1>3. odim # NoOdim /\ odim.finalizer /\ odim.deleting
  BY <1>1 DEF OdimOK, FinalizerInv
<1>4. ConfigTypeOK'
  BY <1>1, <1>2, ConfigKeptOK
<1>5. LiveOK' /\ ObjectsNameTheirSubscription' /\ NoneOwn /\ UNCHANGED destination
  <2>1. CASE \E i \in Own : Unsubscribe(i)
    <3>1. PICK i \in Own : Unsubscribe(i)
      BY <2>1
    <3>2. i \in Ids
      BY <1>1 DEF Own, EventsOK, LiveOK
    <3> QED BY <1>1, <1>2, <3>1, <3>2, UnsubscribeOK DEF subVars
  <2>2. CASE UNCHANGED <<destination, live>>
    BY <1>1, <1>2, <2>2 DEF EventsOK, LiveOK, ObjectsOK, ObjectsNameTheirSubscription, subVars,
                            NoneOwn
  <2> QED BY <1>2, <2>1, <2>2
<1>6. EventsOK'
  BY <1>1, <1>2, <1>5 DEF EventsOK, ObjectsOK, WorkerOK, PollOK, subVars
<1>7. OdimOK'
  BY <1>1, <1>2, <1>3 DEF OdimOK, FinalizerInv
<1>8. OwnInv'
  <2> SUFFICES ASSUME Without({"host"})
               PROVE  /\ \E h \in Hosts : EventsOnly(h)' /\ (odim' # NoOdim => odim'.host = h)
                      /\ NothingToRemove' => Own' = {}
    BY <1>2 DEF OwnInv, OnlyHost, EventsOnly, NothingToRemove, Without
  <2>1. PICK h \in Hosts : EventsOnly(h) /\ (odim # NoOdim => odim.host = h)
    BY <1>1, OwnParts
  <2>2. EventsOnly(h)'
    BY <1>2, <1>5, <2>1, EventsAssumption DEF EventsOnly, NoneOwn, subVars
  <2>3. CASE oworker' = "release" /\ \E i \in Own : Unsubscribe(i)
    <3>1. PICK i \in Own : Unsubscribe(i)
      BY <2>3
    <3>2. \A j \in Own : j = i
      BY <1>1, <2>1 DEF Own, EventsOnly, EventsOK, LiveOK
    <3>3. Own' = {}
      BY <3>1, <3>2 DEF Own, Unsubscribe
    <3> QED BY <1>2, <2>1, <2>2, <3>3
  <2>4. CASE oworker' = "idle"
    <3>1. ~NothingToRemove'
      BY <1>2, <1>3, <2>4 DEF NothingToRemove
    <3> QED BY <1>2, <2>1, <2>2, <3>1
  <2> QED BY <1>2, <2>3, <2>4
<1> QED BY <1>4, <1>6, <1>7, <1>8, InvPartsNext

\* The polling loop reads the host once.
LEMMA PollTickOK ==
    ASSUME Inv, PollTick
    PROVE  Inv'
<1>1. ConfigTypeOK /\ EventsOK /\ OdimOK /\ OwnInv /\ poll.pc = "idle" /\ odim # NoOdim
  BY InvParts DEF PollTick, PollIn
<1>2. /\ UNCHANGED <<setup, configVars, destination, live, subVars, worker, poll, odimVars, budget>>
      /\ cached' = odim.host
  BY DEF PollTick
<1>3. ConfigTypeOK'
  BY <1>1, <1>2, ConfigKeptOK
<1>4. EventsOK'
  BY <1>1, <1>2 DEF EventsOK, ObjectsOK, LiveOK, WorkerOK, PollOK, subVars, OdimOK, Odim,
                    ObjectsNameTheirSubscription
<1>5. OdimOK'
  BY <1>1, <1>2 DEF OdimOK, odimVars, FinalizerInv
<1>6. OwnInv'
  BY <1>1, <1>2 DEF OwnInv, OnlyHost, Without, Own, odimVars, subVars
<1> QED BY <1>3, <1>4, <1>5, <1>6, InvPartsNext

LEMMA RestartOK ==
    ASSUME Inv, Restart, UNCHANGED budget \/ \E kind : Disturb(kind)
    PROVE  Inv'
<1>1. ConfigTypeOK /\ EventsOK /\ OdimOK /\ OwnInv
  BY InvParts
<1>2. ConfigTypeOK'
  BY <1>1, RestartConfigOK DEF Restart
<1>3. \A h : StepOK(h)
  BY <1>1, RestartEventsOK DEF Restart
<1>4. OdimOK'
  BY <1>1 DEF Restart, OdimOK, FinalizerInv
<1>5. OwnInv'
  BY <1>1, <1>3, OwnKept DEF Restart, StepOK
<1> QED BY <1>2, <1>3, <1>4, <1>5, InvPartsNext DEF StepOK

-----------------------------------------------------------------------------
(* The theorems.                                                           *)

LEMMA InvInit == Init => Inv
<1> SUFFICES ASSUME Init PROVE Inv
  OBVIOUS
<1> USE DEF Init, EventsInit
<1>1. ConfigTypeOK
  BY ConfigAssumption DEF ConfigInit, ConfigTypeOK
<1>2. EventsOK
  BY EventsAssumption DEF EventsOK, ObjectsOK, LiveOK, WorkerOK, PollOK, NoWorker, NoPoll, Procs,
                          ObjectsNameTheirSubscription
<1>3. OdimOK
  BY OdimAssumption DEF OdimOK, Odim, FinalizerInv
<1>4. OwnInv
  <2>1. odim.host \in Hosts /\ OnlyHost(odim.host)
    BY DEF OnlyHost, NoWorker
  <2>2. Own = {}
    BY DEF Own
  <2> QED BY <2>1, <2>2 DEF OwnInv
<1> QED BY <1>1, <1>2, <1>3, <1>4, InvParts

LEMMA InvNext == Inv /\ [Next]_vars => Inv'
<1> SUFFICES ASSUME Inv, [Next]_vars PROVE Inv'
  OBVIOUS
<1>1. ConfigTypeOK /\ EventsOK
  BY InvParts
<1>2. CASE OdimWork
  BY <1>2, OdimObjectOK, OdimSubscribeOK, OdimRemoveOK DEF OdimWork
<1>3. CASE EventWork
  <2>1. /\ UNCHANGED <<setup, configVars, odimVars>> /\ \A h : StepOK(h)
    BY <1>1, <1>3, WorkOK DEF EventWork, Work, WorkStart, WorkNoClient, WorkFinalizer, WorkPost,
       WorkStatus, WorkDrop, WorkDelete, WorkRelease, WorkOutdated
  <2>2. UNCHANGED budget \/ \E kind : Disturb(kind)
    BY <1>3 DEF EventWork, Work, WorkStart, WorkNoClient, WorkFinalizer, WorkPost,
       WorkStatus, WorkDrop, WorkDelete, WorkRelease, WorkOutdated
  <2> QED BY <1>1, <2>1, <2>2, ConfigKeptOK, OtherStepOK
<1>4. CASE EventPoll
  <2>1. CASE PollTick
    BY <2>1, PollTickOK
  <2>2. CASE Poll /\ UNCHANGED odimVars
    <3>1. UNCHANGED <<setup, configVars, odimVars>> /\ \A h : StepOK(h)
      BY <1>1, <2>2, PollStepsOK DEF Poll, PollList, PollObjects, AccStatus, RevStatus, PollDone,
         PollSkip, AccCreate, AccDrop, RevDelete, RevAdd
    <3>2. UNCHANGED budget \/ \E kind : Disturb(kind)
      BY <2>2 DEF Poll, PollList, PollObjects, AccStatus, RevStatus, PollDone,
         PollSkip, AccCreate, AccDrop, RevDelete, RevAdd
    <3> QED BY <1>1, <3>1, <3>2, ConfigKeptOK, OtherStepOK
  <2> QED BY <1>4, <2>1, <2>2 DEF EventPoll
<1>5. CASE ConfigProcess \/ ConfigUser
  <2>1. ConfigTypeOK' /\ UNCHANGED <<setup, eventVars, odimVars>>
    BY <1>1, <1>5, ConfigureOK DEF ConfigProcess, ConfigUser
  <2>2. \A h : StepOK(h)
    BY <1>1, <2>1 DEF eventVars, subVars, StepOK, EventsOK, ObjectsOK, LiveOK, WorkerOK, PollOK,
                      ObjectsNameTheirSubscription, EventsOnly, NoneOwn
  <2> QED BY <2>1, <2>2, OtherStepOK
<1>6. CASE Panic \/ Crash
  <2>1. Restart /\ (UNCHANGED budget \/ \E kind : Disturb(kind))
    BY <1>6 DEF Panic, PollPanics, Crash
  <2> QED BY <2>1, RestartOK
<1>7. CASE Users
  <2>1. /\ UNCHANGED <<setup, configVars, odimVars>> /\ \A h : StepOK(h)
        /\ \E kind : Disturb(kind)
    BY <1>1, <1>7, UsersOK DEF Users, EventsUsers, OdimCreate, UserCreate, OdimDelete, UserDelete,
       UserEdit
  <2> QED BY <1>1, <2>1, ConfigKeptOK, OtherStepOK
<1>8. CASE DeleteOdim \/ \E h \in Hosts : EditHost(h)
  BY <1>8, OdimObjectOK
<1>9. CASE UNCHANGED vars
  <2>1. UNCHANGED <<setup, configVars, eventVars, odimVars, budget>>
    BY <1>9 DEF vars
  <2>2. \A h : StepOK(h)
    BY <1>1, <2>1 DEF eventVars, subVars, StepOK, EventsOK, ObjectsOK, LiveOK, WorkerOK, PollOK,
                      ObjectsNameTheirSubscription, EventsOnly, NoneOwn
  <2> QED BY <1>1, <2>1, <2>2, ConfigKeptOK, OtherStepOK
<1> QED BY <1>2, <1>3, <1>4, <1>5, <1>6, <1>7, <1>8, <1>9 DEF Next

\* The variables of BmcConfig, BmcEvents and BmcOdim keep to their sets, and what
\* reconcilers and polling loop hold between two requests fits objects and subscriptions.
THEOREM OdimInvHolds == Spec => []Inv
BY InvInit, InvNext, PTL DEF Spec

\* An Eventsubscription object never has the ID of another destination's subscription,
\* though user, reconciler, polling loop and other clients create, remove and replace
\* subscriptions between a request and the list that its ID is looked up in.
THEOREM SubscriptionsAreNamed == Spec => []ObjectsNameTheirSubscription
<1>1. Inv => ObjectsNameTheirSubscription
  BY DEF Inv
<1> QED BY <1>1, OdimInvHolds, PTL

\* When the Odim object is gone so is the operator's subscription, unless its host was
\* edited: whatever requests fail and wherever the process ends.
THEOREM NothingIsLeft == Spec => []OdimLeavesNothing
<1>1. Inv => OdimLeavesNothing
  BY DEF Inv, OwnInv, OdimLeavesNothing
<1> QED BY <1>1, OdimInvHolds, PTL
================================================================================
