------------------------------ MODULE BmcEvents ------------------------------
(***************************************************************************)
(* Event subscriptions of ODIM and Eventsubscription objects.              *)
(*                                                                         *)
(* EventsubscriptionReconciler (controllers/eventsubscription) asks ODIM   *)
(* for the subscription of a user's object and removes it with the object. *)
(* The polling loop (controllers/pollData/reconcileEventSubscription.go)   *)
(* compares the lists of both sides: Accommodate makes objects for         *)
(* subscriptions and removes those without one, Revert the other way       *)
(* round.  The operator's own subscription is exempt from both; the loop   *)
(* knows it by the host it has read when it started.                       *)
(***************************************************************************)
EXTENDS BmcConfig

CONSTANTS
    Others,   \* destinations of the subscriptions of users and other clients
    Hosts,    \* values of EventListenerHost of the Odim object
    Ids,      \* IDs of subscriptions
    None, NoObject

Destinations == Others \cup Hosts

\* The object of a destination has the subscription's name, or, when that is taken,
\* the host's.
Keys == Destinations \X {"name", "host"}

Object == [spec : BOOLEAN, finalizer : BOOLEAN, deleting : BOOLEAN, ID : Ids \cup {None}]

ASSUME EventsAssumption ==
    /\ IsFiniteSet(Ids) /\ Ids \subseteq Nat
    /\ None \notin Ids \cup Destinations /\ None \notin {"worker", "poll"}
    /\ Others \cap Hosts = {}
    /\ NoObject \notin Object

VARIABLES
    destination,   \* destination[i]: that of the subscription i is or was last given to
    live,          \* IDs of ODIM's subscriptions
    sub,           \* the Eventsubscription object stored under each key
    fresh,         \* per process, the objects its copy of is still the stored one
    queue,         \* the work queue of EventsubscriptionReconciler
    worker,        \* its only worker: place, object and the ID in its copy
    poll,          \* polling loop: place, mode, IDs left, the map, the object in work
    cached         \* EventListenerHost of the loop's odimObj, None before it reads it

subVars == <<sub, fresh, queue>>
eventVars == <<destination, live, subVars, worker, poll, cached>>

-----------------------------------------------------------------------------
(* The state.                                                              *)

Procs == {"worker", "poll"}
NoWorker == [pc |-> "idle", key |-> None, ID |-> None]
NoPoll == [pc |-> "idle", todo |-> {}, known |-> {}, unseen |-> {}, key |-> None, ID |-> None]

Exists(k) == sub[k] # NoObject
IdsOfObjects == {sub[k].ID : k \in {k \in Keys : Exists(k)}} \ {None}
Subscribed(d) == \E i \in live : destination[i] = d

\* An ID nobody remembers stands for a new one; which of them does not matter.
Unused ==
    Ids \ (live \cup IdsOfObjects \cup poll.todo \cup poll.known \cup {poll.ID, worker.ID})

EventsInit ==
    /\ destination = [i \in Ids |-> None] /\ live = {}
    /\ sub = [k \in Keys |-> NoObject]
    /\ fresh = [p \in Procs |-> {}] /\ queue = {}
    /\ worker = NoWorker /\ poll = NoPoll /\ cached = None

RestartEvents ==
    /\ fresh' = [p \in Procs |-> {}]
    /\ queue' = {k \in Keys : Exists(k)}
    /\ worker' = NoWorker /\ poll' = NoPoll /\ cached' = None
    /\ UNCHANGED <<destination, live, sub>>

-----------------------------------------------------------------------------
(* ODIM.                                                                   *)

\* A destination can be subscribed once.
Subscribe(d) ==
    /\ ~Subscribed(d)
    /\ \E i \in Unused :
          /\ \A j \in Unused : i <= j
          /\ destination' = [destination EXCEPT ![i] = d]
          /\ live' = live \cup {i}

Unsubscribe(i) == live' = live \ {i} /\ UNCHANGED destination

OdimCreate(d) ==
    /\ Disturb("odimCreate")
    /\ Subscribe(d)
    /\ UNCHANGED <<setup, configVars, subVars, worker, poll, cached>>

OdimDelete(i) ==
    /\ Disturb("odimDelete")
    /\ i \in live /\ destination[i] \in Others
    /\ Unsubscribe(i)
    /\ UNCHANGED <<setup, configVars, subVars, worker, poll, cached>>

-----------------------------------------------------------------------------
(* Kubernetes.                                                             *)

Outdate(k, p) == [q \in Procs |-> IF q = p THEN fresh[q] \cup {k} ELSE fresh[q] \ {k}]

\* o is stored under k; a change of the spec or the deletion calls the reconciler.
Store(p, k, o, called) ==
    /\ sub' = [sub EXCEPT ![k] = o]
    /\ fresh' = Outdate(k, p)
    /\ queue' = IF called THEN queue \cup {k} ELSE queue

\* A call for an object that is gone ends at once: it is left out of the queue.
Gone(k) ==
    /\ sub' = [sub EXCEPT ![k] = NoObject]
    /\ fresh' = Outdate(k, None) /\ queue' = queue \ {k}

\* Status().Update of p's copy
UpdateStatus(p, k, i) ==
    IF k \in fresh[p] THEN Store(p, k, [sub[k] EXCEPT !.ID = i], FALSE) ELSE UNCHANGED subVars

\* Delete: an object with a finalizer stays until its reconciler has removed that.
Delete(k) ==
    IF ~Exists(k) \/ sub[k].deleting THEN UNCHANGED subVars
    ELSE IF sub[k].finalizer THEN Store(None, k, [sub[k] EXCEPT !.deleting = TRUE], TRUE)
    ELSE Gone(k)

\* RemoveFinalizer, Update and Delete of p's copy
ReleaseAndDelete(p, k) == IF Exists(k) /\ k \in fresh[p] THEN Gone(k) ELSE Delete(k)

UserCreate(d) ==
    /\ Disturb("create")
    /\ ~Exists(<<d, "name">>)
    /\ Store(None, <<d, "name">>, [spec |-> TRUE, finalizer |-> FALSE, deleting |-> FALSE,
                                   ID |-> None], TRUE)
    /\ UNCHANGED <<setup, configVars, destination, live, worker, poll, cached>>

UserDelete(k) ==
    /\ Disturb("delete")
    /\ Exists(k) /\ ~sub[k].deleting
    /\ Delete(k)
    /\ UNCHANGED <<setup, configVars, destination, live, worker, poll, cached>>

\* An edit of the spec.
UserEdit(k) ==
    /\ Disturb("edit")
    /\ \E p \in Procs : k \in fresh[p]
    /\ Store(None, k, sub[k], TRUE)
    /\ UNCHANGED <<setup, configVars, destination, live, worker, poll, cached>>

-----------------------------------------------------------------------------
(* EventsubscriptionReconciler.                                            *)

WorkTo(place) == worker' = [worker EXCEPT !.pc = place]
WorkEnds == worker' = NoWorker
Requeue == queue' = IF Exists(worker.key) THEN queue \cup {worker.key} ELSE queue

\* Reconcile up to its first request: what there is to do for the object.
WorkStart(k) ==
    /\ worker.pc = "idle" /\ k \in queue
    /\ LET o == sub[k]
           place == IF o.deleting THEN IF o.finalizer THEN "delete" ELSE "idle"
                    ELSE IF ~o.spec \/ (o.finalizer /\ o.ID # None) THEN "idle"
                    ELSE IF o.finalizer THEN "post" ELSE "finalizer"
       IN worker' = IF place = "idle" THEN NoWorker ELSE [pc |-> place, key |-> k, ID |-> o.ID]
    /\ fresh' = [fresh EXCEPT !["worker"] = {k}]
    /\ queue' = queue \ {k}
    /\ UNCHANGED <<setup, configVars, destination, live, sub, poll, cached, budget>>

\* NewRestClient fails.
WorkNoClient ==
    /\ worker.pc \in {"delete", "finalizer"} /\ Disturb("fault")
    /\ Requeue /\ WorkEnds
    /\ UNCHANGED <<setup, configVars, destination, live, sub, fresh, poll, cached>>

WorkFinalizer ==
    /\ worker.pc = "finalizer"
    /\ IF worker.key \in fresh["worker"]
       THEN /\ Store("worker", worker.key, [sub[worker.key] EXCEPT !.finalizer = TRUE], FALSE)
            /\ WorkTo("post")
       ELSE Requeue /\ WorkEnds /\ UNCHANGED <<sub, fresh>>
    /\ UNCHANGED <<setup, configVars, destination, live, poll, cached, budget>>

\* CreateEventsubscription reads the object again and asks for the subscription.
WorkPost ==
    LET k == worker.key IN
    /\ worker.pc = "post"
    /\ fresh' = [fresh EXCEPT !["worker"] = IF Exists(k) THEN {k} ELSE {}]
    /\ \/ /\ Exists(k) /\ sub[k].ID # None
          /\ WorkEnds /\ UNCHANGED <<destination, live, queue, budget>>
       \/ /\ Exists(k) => sub[k].ID = None
          /\ \/ Subscribe(k[1]) /\ WorkTo("status") /\ UNCHANGED <<queue, budget>>
             \/ /\ (Subscribed(k[1]) /\ UNCHANGED budget) \/ Disturb("refuse")
                /\ WorkTo("drop") /\ UNCHANGED <<destination, live, queue>>
             \/ /\ Disturb("fault")
                /\ Requeue /\ WorkEnds /\ UNCHANGED <<destination, live>>
             \/ /\ Disturb("lost")
                /\ Subscribe(k[1]) /\ Requeue /\ WorkEnds
    /\ UNCHANGED <<setup, configVars, sub, poll, cached>>

FoundAny(d) == live              \* mutant of Found: any subscription will do
Found(d) == {i \in live : destination[i] = d}

\* UpdateEventsubscriptionStatus searches the list for the subscription.
WorkStatus ==
    /\ worker.pc = "status"
    /\ \/ Disturb("readFault") /\ UNCHANGED subVars
       \/ /\ IF Found(worker.key[1]) = {} THEN UNCHANGED subVars
             ELSE \E i \in Found(worker.key[1]) : UpdateStatus("worker", worker.key, i)
          /\ UNCHANGED budget
    /\ WorkEnds
    /\ UNCHANGED <<setup, configVars, destination, live, poll, cached>>

\* The subscription was refused, or its task failed: so goes the object.
WorkDrop ==
    /\ worker.pc = "drop"
    /\ ReleaseAndDelete("worker", worker.key)
    /\ WorkEnds
    /\ UNCHANGED <<setup, configVars, destination, live, poll, cached, budget>>

\* DeleteEventsubscription, again and again until it succeeds.
WorkDelete ==
    /\ worker.pc = "delete"
    /\ IF worker.ID \in live
       THEN \/ Unsubscribe(worker.ID) /\ WorkTo("release") /\ UNCHANGED <<queue, budget>>
            \/ Disturb("fault") /\ Requeue /\ WorkEnds /\ UNCHANGED <<destination, live>>
       ELSE Requeue /\ WorkEnds /\ UNCHANGED <<destination, live, budget>>
    /\ UNCHANGED <<setup, configVars, sub, fresh, poll, cached>>

WorkRelease ==
    /\ worker.pc = "release" /\ worker.key \in fresh["worker"]
    /\ Gone(worker.key)
    /\ WorkEnds
    /\ UNCHANGED <<setup, configVars, destination, live, poll, cached, budget>>

WorkOutdated ==
    /\ worker.pc = "release" /\ worker.key \notin fresh["worker"]
    /\ Requeue
    /\ WorkEnds
    /\ UNCHANGED <<setup, configVars, destination, live, sub, fresh, poll, cached, budget>>

Work == (\E k \in Keys : WorkStart(k)) \/ WorkNoClient \/ WorkFinalizer \/ WorkPost
          \/ WorkStatus \/ WorkDrop \/ WorkDelete \/ WorkRelease \/ WorkOutdated

-----------------------------------------------------------------------------
(* The polling loop.                                                       *)

PollIn(place) == poll.pc = place
PollEnds == poll' = NoPoll
Accommodates == Data.mode = "Accommodate"

\* The list of subscriptions, which counts as empty when it cannot be read.
PollList ==
    /\ PollIn("idle") /\ cached # None
    /\ \/ Disturb("readFault") /\ poll' = [poll EXCEPT !.pc = "objects"]
       \/ poll' = [poll EXCEPT !.pc = "objects", !.todo = live] /\ UNCHANGED budget
    /\ UNCHANGED <<setup, configVars, destination, live, subVars, worker, cached>>

\* createEventsubscriptionsMap
PollObjects ==
    /\ PollIn("objects")
    /\ poll' = [poll EXCEPT !.pc = IF Accommodates THEN "accommodate" ELSE "revert",
                            !.known = IdsOfObjects, !.unseen = IdsOfObjects]
    /\ UNCHANGED <<setup, configVars, destination, live, subVars, worker, cached, budget>>

IsOwnNever(i) == FALSE   \* mutant of IsOwn: the default destination is not looked at
IsOwn(i) == destination[i] = cached

\* A member of the list that is skipped: gone, unreadable, the operator's own or, when
\* its ID is in the map, seen.
PollSkip(i) ==
    /\ poll.pc \in {"accommodate", "revert"} /\ i \in poll.todo
    /\ \/ /\ i \notin live \/ IsOwn(i)
          /\ poll' = [poll EXCEPT !.todo = @ \ {i}] /\ UNCHANGED budget
       \/ /\ i \in live /\ ~IsOwn(i) /\ i \in poll.known
          /\ poll' = [poll EXCEPT !.todo = @ \ {i}, !.unseen = @ \ {i}] /\ UNCHANGED budget
       \/ i \in live /\ Disturb("readFault") /\ poll' = [poll EXCEPT !.todo = @ \ {i}]
    /\ UNCHANGED <<setup, configVars, destination, live, subVars, worker, cached>>

IsForeign(i) == i \in poll.todo /\ i \in live /\ ~IsOwn(i) /\ i \notin poll.known

FreeKeysOfName(d) == {k \in {<<d, "name">>} : ~Exists(k)}   \* mutant: one name only
FreeKeys(d) == {k \in {<<d, "name">>, <<d, "host">>} : ~Exists(k)}

\* CreateEventSubscriptionObject: the object first, its status with the ID next.
AccCreate(i) ==
    LET d == destination[i]
        k == IF <<d, "name">> \in FreeKeys(d) THEN <<d, "name">> ELSE <<d, "host">>
    IN
    /\ PollIn("accommodate") /\ IsForeign(i)
    /\ IF k \in FreeKeys(d)
       THEN /\ Store("poll", k, [spec |-> FALSE, finalizer |-> FALSE, deleting |-> FALSE,
                                 ID |-> None], TRUE)
            /\ poll' = [poll EXCEPT !.pc = "accStatus", !.todo = @ \ {i}, !.key = k, !.ID = i]
       ELSE poll' = [poll EXCEPT !.todo = @ \ {i}] /\ UNCHANGED subVars
    /\ UNCHANGED <<setup, configVars, destination, live, worker, cached, budget>>

AccStatus ==
    /\ PollIn("accStatus")
    /\ UpdateStatus("poll", poll.key, poll.ID)
    /\ poll' = [poll EXCEPT !.pc = "accommodate", !.key = None, !.ID = None]
    /\ UNCHANGED <<setup, configVars, destination, live, worker, cached, budget>>

ObjectsWith(i) == {k \in Keys : Exists(k) /\ sub[k].ID = i}

\* RemoveSubscriptions.  When the object is already being deleted the removal of its
\* finalizer is the end of it, Delete fails, and the others have to wait.
AccDrop(i) ==
    /\ PollIn("accommodate") /\ poll.todo = {} /\ i \in poll.unseen
    /\ IF ObjectsWith(i) = {}
       THEN poll' = [poll EXCEPT !.unseen = @ \ {i}] /\ UNCHANGED subVars
       ELSE \E k \in ObjectsWith(i) :
               /\ Gone(k)
               /\ poll' = IF sub[k].deleting /\ sub[k].finalizer THEN NoPoll
                          ELSE [poll EXCEPT !.unseen = @ \ {i}]
    /\ UNCHANGED <<setup, configVars, destination, live, worker, cached, budget>>

\* DeleteEventsubscriptionFromODIM
RevDelete(i) ==
    /\ PollIn("revert") /\ IsForeign(i)
    /\ Unsubscribe(i)
    /\ poll' = [poll EXCEPT !.todo = @ \ {i}]
    /\ UNCHANGED <<setup, configVars, subVars, worker, cached, budget>>

\* The answer of a request that failed is nil.
PollPanics == PollIn("revert") /\ (\E i \in Ids : IsForeign(i)) /\ Disturb("fault")

AddedAtOnce == "revert"   \* mutant: the new ID is not written into the object
Added == "revStatus"

\* AddEventSubscription.  An object made by Accommodate has no destination to ask for.
RevAdd(i) ==
    /\ PollIn("revert") /\ poll.todo = {} /\ i \in poll.unseen
    /\ \/ \E k \in ObjectsWith(i) :
             /\ sub[k].spec /\ Subscribe(k[1])
             /\ \/ /\ poll' = [poll EXCEPT !.pc = Added, !.unseen = @ \ {i}, !.key = k]
                   /\ fresh' = [fresh EXCEPT !["poll"] = {k}] /\ UNCHANGED budget
                \/ /\ Disturb("lost")
                   /\ poll' = [poll EXCEPT !.unseen = @ \ {i}] /\ UNCHANGED fresh
       \/ /\ \/ Disturb("fault")
             \/ /\ \A k \in ObjectsWith(i) : ~sub[k].spec \/ Subscribed(k[1])
                /\ UNCHANGED budget
          /\ poll' = [poll EXCEPT !.unseen = @ \ {i}]
          /\ UNCHANGED <<destination, live, fresh>>
    /\ UNCHANGED <<setup, configVars, sub, queue, worker, cached>>

RevStatus ==
    /\ PollIn("revStatus")
    /\ \/ Disturb("readFault") /\ UNCHANGED subVars
       \/ /\ IF Found(poll.key[1]) = {} THEN UNCHANGED subVars
             ELSE \E i \in Found(poll.key[1]) : UpdateStatus("poll", poll.key, i)
          /\ UNCHANGED budget
    /\ poll' = [poll EXCEPT !.pc = "revert", !.key = None]
    /\ UNCHANGED <<setup, configVars, destination, live, worker, cached>>

PollDone ==
    /\ poll.pc \in {"accommodate", "revert"} /\ poll.todo = {} /\ poll.unseen = {}
    /\ PollEnds
    /\ UNCHANGED <<setup, configVars, destination, live, subVars, worker, cached, budget>>

Poll == PollList \/ PollObjects \/ AccStatus \/ RevStatus \/ PollDone
          \/ \E i \in Ids : PollSkip(i) \/ AccCreate(i) \/ AccDrop(i) \/ RevDelete(i) \/ RevAdd(i)

EventsUsers ==
    \/ \E d \in Others : OdimCreate(d) \/ UserCreate(d)
    \/ \E i \in Ids : OdimDelete(i)
    \/ \E k \in Keys : UserDelete(k) \/ UserEdit(k)

-----------------------------------------------------------------------------
(* Properties.                                                             *)

EventsTypeOK ==
    /\ destination \in [Ids -> Destinations \cup {None}]
    /\ live \subseteq Ids /\ \A i \in live : destination[i] # None
    /\ sub \in [Keys -> Object \cup {NoObject}]
    /\ fresh \in [Procs -> SUBSET Keys]
    /\ queue \subseteq {k \in Keys : Exists(k)}
    /\ worker \in [pc : {"idle", "finalizer", "post", "status", "drop", "delete", "release"},
                   key : Keys \cup {None}, ID : Ids \cup {None}]
    /\ poll \in [pc : {"idle", "objects", "accommodate", "accStatus", "revert", "revStatus"},
                 todo : SUBSET Ids, known : SUBSET Ids, unseen : SUBSET Ids,
                 key : Keys \cup {None}, ID : Ids \cup {None}]
    /\ poll.unseen \subseteq poll.known
    /\ cached \in Hosts \cup {None}

\* The ID in an object is that of a subscription to the object's destination, also
\* while others are created, replaced and removed between request and list.
ObjectsNameTheirSubscription == \A k \in Keys :
    Exists(k) /\ sub[k].ID # None => destination[sub[k].ID] = k[1]

\* What worker and poll hold between their requests: copies of objects that are there, an
\* object to work on and, before its status is written, a subscription to its destination.
\* ODIM has a destination once.
EventsInv ==
    /\ \A p \in Procs : \A k \in fresh[p] : Exists(k)
    /\ \A i, j \in live : destination[i] = destination[j] => i = j
    /\ worker.pc # "idle" => worker.key \in Keys
    /\ poll.pc # "idle" => cached # None
    /\ poll.pc \in {"accStatus", "revStatus"} => poll.key \in Keys
    /\ poll.pc = "accStatus" => poll.ID \in Ids /\ destination[poll.ID] = poll.key[1]

Foreign == {i \in live : destination[i] # cached}

\* Accommodate: in the end the objects with an ID are those of the subscriptions, after
\* lists that could not be read, too.  Not with crashes, which leave objects without an
\* ID behind, or edits of the host, which make the operator's own one look foreign.
ObjectsFollowSubscriptions ==
    (setup.config.mode = "Accommodate" /\ setup.kinds \cap {"crash", "host", "configure"} = {})
    => <>[](cached # None => IdsOfObjects = Foreign)

\* Revert: in the end only subscriptions with an object are left, and the objects of
\* users that had one have one again.
SubscriptionsFollowObjects ==
    (setup.config.mode = "Revert" /\ "configure" \notin setup.kinds)
    => <>[](cached # None => /\ Foreign \subseteq IdsOfObjects
                             /\ \A k \in Keys : Exists(k) /\ sub[k].spec /\ sub[k].ID # None
                                                  => Subscribed(k[1]))

=============================================================================
