------------------------------- MODULE BmcOdim -------------------------------
(***************************************************************************)
(* The Odim object, the operator's own subscription, and the process that  *)
(* all of this runs in.                                                    *)
(*                                                                         *)
(* OdimReconciler (controllers/odim) subscribes the operator to ODIM's     *)
(* events and, before the object goes, unsubscribes it.  BmcEvents and     *)
(* BmcConfig are the other parts that depend on the object; a panic in one *)
(* of them starts all of them again.                                       *)
(***************************************************************************)
EXTENDS BmcEvents

CONSTANT NoOdim

VARIABLES
    odim,      \* the Odim object: host, finalizer, deletion
    oqueue,    \* it is in the work queue of OdimReconciler
    ofresh,    \* the copy of OdimReconciler is the stored object
    oworker    \* place of OdimReconciler's only worker

odimVars == <<odim, oqueue, ofresh, oworker>>
vars == <<setup, configVars, eventVars, odimVars, budget>>

Odim == [host : Hosts, finalizer : BOOLEAN, deleting : BOOLEAN]

ASSUME OdimAssumption == NoOdim \notin Odim

Init ==
    /\ ConfigInit /\ EventsInit
    /\ odim \in [host : Hosts, finalizer : {FALSE}, deleting : {FALSE}]
    /\ oqueue = TRUE /\ ofresh = FALSE /\ oworker = "idle"

-----------------------------------------------------------------------------
(* The object.                                                             *)

\* o replaces it: every copy is outdated, but for the one it was made from.
Write(o, own) == odim' = o /\ ofresh' = own

EditHost(h) ==
    /\ Disturb("host")
    /\ odim # NoOdim /\ h # odim.host
    /\ Write([odim EXCEPT !.host = h], FALSE)
    /\ oqueue' = TRUE
    /\ UNCHANGED <<setup, configVars, eventVars, oworker>>

DeleteOdim ==
    /\ Disturb("deleteOdim")
    /\ odim # NoOdim /\ ~odim.deleting
    /\ Write(IF odim.finalizer THEN [odim EXCEPT !.deleting = TRUE] ELSE NoOdim, FALSE)
    /\ oqueue' = odim.finalizer
    /\ UNCHANGED <<setup, configVars, eventVars, oworker>>

-----------------------------------------------------------------------------
(* OdimReconciler.                                                         *)

OdimIn(place) == oworker = place
RequeueOdim == oqueue' = (odim # NoOdim)

\* Reconcile up to its first request or update.
OdimStart ==
    /\ OdimIn("idle") /\ oqueue
    /\ oqueue' = FALSE /\ ofresh' = TRUE
    /\ oworker' = IF odim.deleting THEN "remove"
                  ELSE IF odim.finalizer THEN "check" ELSE "finalizer"
    /\ UNCHANGED <<setup, configVars, eventVars, odim, budget>>

\* NewRestClient fails, or the update of an outdated copy: once more.
OdimAgain ==
    /\ \/ oworker \in {"finalizer", "check", "remove", "release"} /\ ofresh /\ Disturb("fault")
       \/ oworker \in {"finalizer", "release"} /\ ~ofresh /\ UNCHANGED budget
    /\ RequeueOdim /\ oworker' = "idle"
    /\ UNCHANGED <<setup, configVars, eventVars, odim, ofresh>>

\* Mutant of AddFinalizer: Reconcile goes on when the update is refused.
AddFinalizerOrNot ==
    /\ OdimIn("finalizer")
    /\ IF ofresh THEN Write([odim EXCEPT !.finalizer = TRUE], TRUE) ELSE UNCHANGED <<odim, ofresh>>
    /\ oworker' = "check"
    /\ UNCHANGED <<setup, configVars, eventVars, oqueue, budget>>

AddFinalizer ==
    /\ OdimIn("finalizer") /\ ofresh
    /\ Write([odim EXCEPT !.finalizer = TRUE], TRUE)
    /\ oworker' = "check"
    /\ UNCHANGED <<setup, configVars, eventVars, oqueue, budget>>

\* Without a connection Reconcile succeeds: no subscription, and no further attempt.
OdimCheck ==
    /\ OdimIn("check")
    /\ \/ oworker' = "subscribe" /\ UNCHANGED budget
       \/ oworker' = "idle" /\ Disturb("fault")
    /\ UNCHANGED <<setup, configVars, eventVars, odim, oqueue, ofresh>>

\* The object is read again, and CreateEventSubscription.  Reconcile succeeds whether
\* it fails or not.
OdimSubscribe ==
    /\ OdimIn("subscribe")
    /\ \/ Subscribe(odim.host) /\ (UNCHANGED budget \/ Disturb("lost"))
       \/ /\ \/ Disturb("fault") \/ Disturb("refuse")
             \/ Subscribed(odim.host) /\ UNCHANGED budget
          /\ UNCHANGED <<destination, live>>
    /\ oworker' = "idle"
    /\ UNCHANGED <<setup, configVars, subVars, worker, poll, cached, odim, oqueue, ofresh>>

OwnOfPoll == {i \in live : destination[i] = cached}   \* mutant: by the loop's host
Own == {i \in live : destination[i] \in Hosts}

ReleaseWithout == "release"   \* mutant: the result of the removal is not looked at
WithoutSubscription == "idle"

\* removeEventsSubscription: the first one with the operator's name.  When there is
\* none, or a request fails, Reconcile succeeds and is not repeated.
OdimRemove ==
    /\ OdimIn("remove")
    /\ \/ \E i \in Own : Unsubscribe(i) /\ oworker' = "release" /\ UNCHANGED budget
       \/ /\ \/ Disturb("readFault") \/ Disturb("fault")
             \/ Own = {} /\ UNCHANGED budget
          /\ oworker' = WithoutSubscription /\ UNCHANGED <<destination, live>>
    /\ UNCHANGED <<setup, configVars, subVars, worker, poll, cached, odim, oqueue, ofresh>>

OdimRelease ==
    /\ OdimIn("release") /\ ofresh
    /\ Write(NoOdim, FALSE)
    /\ oqueue' = FALSE /\ oworker' = "idle"
    /\ UNCHANGED <<setup, configVars, eventVars, budget>>

OdimWork ==
    \/ OdimStart \/ OdimAgain \/ AddFinalizer \/ OdimCheck \/ OdimSubscribe
    \/ OdimRemove \/ OdimRelease

-----------------------------------------------------------------------------
(* The process.                                                            *)

Restart ==
    /\ RestartConfig /\ RestartEvents
    /\ oqueue' = (odim # NoOdim) /\ ofresh' = FALSE /\ oworker' = "idle"
    /\ UNCHANGED <<setup, odim>>

Crash == Disturb("crash") /\ Restart

\* EventsubscriptionReconciler logs in with the Odim object it looks for, found or not.
WorkNeedsOdim == worker.pc = "idle" => odim # NoOdim
WorkPanics == worker.pc = "idle" /\ queue # {} /\ odim = NoOdim

Panic == (PollPanics \/ ((ListenerPanics \/ WorkPanics) /\ UNCHANGED budget)) /\ Restart

EventWork == WorkNeedsOdim /\ Work /\ UNCHANGED odimVars

\* The first tick that finds the Odim object keeps it as long as the process runs.
PollTick ==
    /\ PollIn("idle") /\ cached = None /\ odim # NoOdim
    /\ cached' = odim.host
    /\ UNCHANGED <<setup, configVars, destination, live, subVars, worker, poll, odimVars, budget>>

EventPoll == PollTick \/ (Poll /\ UNCHANGED odimVars)

-----------------------------------------------------------------------------
(* The system.                                                             *)

Users == EventsUsers /\ UNCHANGED odimVars

ConfigUser == \E c \in Configs : Configure(c) /\ UNCHANGED <<eventVars, odimVars>>

ConfigProcess == ConfigStep /\ UNCHANGED <<eventVars, odimVars>>

Next ==
    \/ OdimWork \/ EventWork \/ EventPoll \/ ConfigProcess \/ Panic
    \/ Users \/ ConfigUser \/ DeleteOdim \/ Crash
    \/ \E h \in Hosts : EditHost(h)

Spec == Init /\ [][Next]_vars

\* Reconcilers, polling loop and listener go on; disturbances happen or not.  The
\* polling loop, once in hours, does not outdate every attempt of the reconciler,
\* repeated within seconds, to remove and release an object.
Fairness ==
    /\ WF_vars(OdimWork) /\ WF_vars(EventWork) /\ WF_vars(EventPoll)
    /\ WF_vars(ConfigProcess) /\ WF_vars(Panic /\ UNCHANGED budget)
    /\ SF_vars(WorkDelete /\ worker.key \in fresh["worker"] /\ UNCHANGED odimVars)
    /\ SF_vars(WorkRelease /\ UNCHANGED odimVars)

FairSpec == Spec /\ Fairness

-----------------------------------------------------------------------------
(* Properties.                                                             *)

\* Every variable keeps to its set, the objects with a call to do something or held in a copy exist,
\* and subscriptions in ODIM have a destination.
TypeOK ==
    /\ ConfigTypeOK /\ EventsTypeOK
    /\ odim \in Odim \cup {NoOdim}
    /\ oqueue \in BOOLEAN /\ ofresh \in BOOLEAN
    /\ oqueue \/ ofresh => odim # NoOdim
    /\ oworker \in {"idle", "finalizer", "check", "subscribe", "remove", "release"}

Without(kinds) == setup.kinds \cap kinds = {}

\* The operator gets its subscription, and keeps it while the polling loop reverts, a
\* user edits the object or the process ends at any place.  A request that fails is
\* not repeated; and when the host is edited Revert takes the new one for foreign,
\* because it has kept the old one.
OperatorIsSubscribed ==
    (Without({"fault", "refuse"}) /\ (Without({"host"}) \/ setup.config.mode = "Accommodate"))
    => <>[](odim # NoOdim /\ ~odim.deleting => Subscribed(odim.host))

\* The object does not go before the subscription, whatever fails or is interrupted;
\* only an edited host leaves an old one behind.
OdimLeavesNothing == odim = NoOdim /\ Without({"host"}) => Own = {}

\* The finalizer is there as long as the operator may have its subscription, and a
\* removal has begun only for an object that is deleted.
FinalizerInv ==
    /\ oworker \in {"check", "subscribe", "remove", "release"} => odim # NoOdim /\ odim.finalizer
    /\ oworker \in {"remove", "release"} => odim.deleting
    /\ odim # NoOdim /\ odim.deleting => odim.finalizer

\* As long as the host is h, nobody but the Odim object's reconciler asks for a
\* subscription of one of the operator's hosts, and that one only for h.
OnlyHost(h) ==
    /\ cached \in {h, None}
    /\ odim # NoOdim => odim.host = h
    /\ \A i \in live : destination[i] \in Hosts => destination[i] = h
    /\ \A k \in Keys : Exists(k) => k[1] \in Others
    /\ worker.pc # "idle" => worker.key[1] \in Others

OwnInv == Without({"host"}) =>
    /\ \E h \in Hosts : OnlyHost(h)
    /\ odim = NoOdim \/ ~odim.finalizer \/ oworker = "release" => Own = {}

\* Everything the parts rely on, together: an inductive invariant.
Inv == TypeOK /\ EventsInv /\ ObjectsNameTheirSubscription /\ FinalizerInv /\ OwnInv

\* The object goes when no request fails and the process does not end in between.
OdimGoes ==
    Without({"fault", "readFault", "refuse", "host", "crash"}) =>
        (odim # NoOdim /\ odim.deleting ~> odim = NoOdim)

=============================================================================
