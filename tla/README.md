# TLA+ models of the BMC operator

The BMC operator keeps Kubernetes objects (machines, their BIOS settings, volumes, firmware,
boot order, event subscriptions) in step with Resource Aggregator for ODIM, which manages the
machines over Redfish. This directory holds TLA+ modules translated from `src/`, the TLC runs
that check them on small instances, and TLAPS proofs for every instance.

`PROJECT.json` lists the components, the runs, the source lines each definition stands for, the
hazards of the code and the properties that cover them, and the mutants that each property
must catch.

## The system

State the operator shares between goroutines, and where it is kept:

| state | kept in | written by |
|---|---|---|
| aggregation sources, tasks, subscriptions, volumes | ODIM | the operator's requests, other clients of ODIM |
| Bmc, Volume, Firmware, BiosSetting, BootOrderSetting, EventSubscription, Odim objects | Kubernetes | users, every controller, the poll, the event goroutines |
| `MapOfBmc`, `MapOfFirmware`, `TrackVolumeStatus`, `RestartRequired` | maps in memory, no lock | controllers, the poll, the event goroutines |
| `config.Data`, `Ticker`, the session token, the HTTP connection | globals | the configuration watcher, every REST client |

| component | operations | what is hard in it | what makes it correct |
|---|---|---|---|
| BMC reconciler (`controllers/bmc`) | add, unregister, change the password, reset | requests of minutes between three updates of one object; each update can be refused; a crash between any two | an object is complete or on its way; only the system of a deleted object is unregistered |
| common operations (`controllers/common`) | POST, DELETE, PATCH and the task monitor | the monitor gives up while ODIM goes on | what was reported as failed does no harm when it is done after all |
| polling loop, Accommodate, Revert (`controllers/pollData`) | compare, create, delete, add again | works on copies and on a table that others change meanwhile | the inventories agree once nobody interferes |
| event listener (`controllers/eventsClient`, `processEvents.go`) | the same for one system | one goroutine per request; late, repeated and lost events | as above |
| BIOS, volumes, firmware, boot order | apply a request, wait for its task, reconcile both ways | in-memory marks that say "under way" and have to be cleared on every path | a mark is cleared; no request is lost, none is sent twice |
| event subscriptions | create, delete, reconcile both ways | a failed listing looks like an empty one | objects and subscriptions correspond |
| Odim object | register, subscribe, deregister | a new listener with each reconcile | the object can go |
| REST client, sessions | request, new token, retry | shared connection and token; the retry's arguments | a request is sent once more at most, as it was |
| configuration | reload | resets the poll's ticker | the poll goes on |

`PROJECT.json` names every component, those that are not modelled and why.

## The modules

| module | what it is |
|---|---|
| `BmcInventory` | ODIM, Kubernetes and `MapOfBmc`; users; every step of `BmcReconciler.Reconcile`; the start of a poll tick; crashes. The invariants of the shared state. |
| `BmcAccommodate` | extends it with reconciliation mode Accommodate: `PollDetails` from its comparison on, `AccommodateBMCInfo` called by the poll and by event goroutines. |
| `BmcRevert` | extends it with mode Revert: `RevertPollingDetails`, `RevertResourceAdded`, `RevertResourceRemoved`. |
| `BmcVolumes` | `VolumeReconciler`, the volume part of `ResetSystem`, `AccommodateVolumeDetails` and `RevertVolumeDetails` with their goroutines, `TrackVolumeStatus`; the volumes of machines that are managed already. |
| `BmcReset` | what `BmcReconciler` does for a managed machine, the password change and `ResetSystem`; the machine and its objects, and the part of `ResetSystem` that Revert's goroutines use, too. |
| `BmcSettings` | extends it with `BiosSettingReconciler`, `BootOrderSettingsReconciler`, and what the poll and `ServerPostDiscoveryComplete` do for BIOS, boot order and power in both modes. |
| `BmcFirmware` | `FirmwareReconciler`, `MapOfFirmware`, and both directions of reconciliation from the poll and from events. |
| `BmcConfig` | the configuration file, its watcher and the poll's ticker. |
| `BmcEvents` | extends it with `EventsubscriptionReconciler` and both directions of reconciliation. |
| `BmcOdim` | extends it with `OdimReconciler`, the operator's own subscription, and the process in which all three run. |
| `BmcOrigins` | `GetEventSubscriptionRequest` and `MapOriginResources`: from the resources in an object's spec to links for ODIM, and from ODIM's links to the names in the status. |
| `BmcRestClient` | `NewRestClient`, `sendRequest`, and the repetition of a call with a new token. |
| `BmcLifecycle` | the abstract specification: the life of one object and its system, with no process in it. |
| `MCBmcAccommodate`, `MCBmcRevert`, `MCBmcVolumes`, `MCBmcSettings`, `MCBmcFirmware`, `MCBmcOdim`, `MCBmcOrigins`, `MCBmcRestClient` | constants for TLC. |
| `BmcInventoryProofs`, `BmcPollProofs`, `BmcVolumesProofs`, `BmcOdimProofs`, `BmcOriginsProofs`, `BmcSettingsProofs`, `BmcFirmwareProofs`, `BmcRestClientProofs` | the proofs; `BmcPollProofs` has those of `BmcAccommodate` and of `BmcRevert`. |

`BmcAccommodate` and `BmcRevert` are the two compositions: the configuration picks one of them,
and `BmcInventory` is what both share. So that the proofs can be about both, what `BmcRevert` has in
common with `BmcAccommodate` by name is called `RevInit`, `RevNext`, `RevSpec`, `RevInv` and so on there.
`BmcVolumes` stands by itself: it takes both modes as a
constant, since most of its code is the same in both, and it meets the inventories only in the
Bmc objects, which it assumes to be there. `BmcSettings` over `BmcReset` and `BmcFirmware` do the
same for one managed machine: a machine's settings have nothing to do with another's, but for
`IgnoreStatusUpdate` and one worker per controller, which are there. `BmcOdim` over `BmcEvents` over
`BmcConfig` composes three parts that share a process and the Odim object. `BmcOrigins` looks into
what `BmcEvents` takes as one step, the making of one request and of one status. `BmcRestClient` lies
below all of them: what it shows a caller is told is what the others assume of a request, which
there is answered, or refused, or lost in either direction.

### How state and actions correspond to the code

A handler is split at each place where it waits for ODIM or Kubernetes; `recPc`, `pollPc`,
`acc[p].pc` and `call[p].pc` say which wait a goroutine is at. What a goroutine keeps across a
wait (its copy of an object, the list of systems, its copy of an entry) is a variable.

* *Copies of objects.* An update of a copy is refused when the object has changed since it was
  read. `fresh[p]` is the set of objects of which the process `p` holds the stored version, so
  `UpdateIfFresh` needs no version numbers: anybody's write takes the object out of everybody
  else's set.
* *Fields.* Of an object the models keep what control depends on: deletion timestamp, finalizer,
  whether the password is the user's or the encrypted one, the label `systemId`,
  `Status.BmcSystemID`. An entry of `MapOfBmc` keeps its three flags and whether it is there;
  reading a key that is not there gives the zero entry, as in Go.
* *IDs.* ODIM makes up an ID for each addition and never uses it again; it refuses a machine it
  has. It answers a DELETE of an unknown system with a task that ends in 404, which the monitor
  takes for success. These are the assumptions on ODIM.
* *The task monitor* sees the task end or reports a failure at any time (`RecAddFails`,
  `RevAddFails`): the task goes on in ODIM.
* *Reads of the informer cache* are taken as up to date. The code sleeps 30 to 40 s after its
  updates before it reads again.
* *Crashes* forget the tables and all goroutines, at any moment. The models' crashes stand also
  for Go's fatal error on concurrent access to a map, which `MapOfBmc` is open to. Panics that
  the code runs into by itself are actions of their own (`RecPanic`, `AccPanic`, `PollPanic`): the
  controller-runtime version in `go.mod` does not recover them.
* *Events* are served by goroutines `Handlers`, as many as there are requests of ODIM at a time.
* *Everything else the operator does to a Bmc object* (firmware, BIOS, state, resets) is
  `UserTouch`: it makes copies out of date.

### Volumes

* A volume that was asked for is there, with an ID, only after a reset of its machine, and a
  removed one is gone only then: `wanted` and `unwanted` hold what the next reset does.
  `VolumeReconciler` ends with the task and writes "pending" into the Bmc object
  (`systemReset`, without its wording); `ResetSystem`, asked for by the user, later finds the
  volume and writes its ID into the Volume object.
* A Volume object is named after its machine and, when the poll creates it, after the volume in
  lower case without blanks (`NameOf`): two volumes may come to the same name. RAID type and drives
  go with the name (`DrivesOf`): names may share them. The objects of a machine are looked up with
  `strings.Contains` (`Contains`), so that they may be those of a machine whose name is longer.
* `ResetSystem` gives the ID to an object that is found first, when the volume has the name that the
  reset is pending for, and drives and RAID type of that object's request (`IsPending`). That need
  not be the object with the name.
* The lists have the last character of a volume's URL for its ID (`Last`, `VolumeIdsFromODIM`). An
  object that the poll makes gets the ID from the volume's own `Id`, in full.
* `task[<<b, "created", "poll">>]` and `task[<<b, "deleted", "poll">>]` are the two goroutines of a
  machine; with `"event"` the same two calls, one after the other, by the goroutine of an event. It
  works for its own machine, and its panic is recovered by the HTTP server (`EventNoName`); in mode
  Revert it lacks `volUtil`, and panics before it changes anything. The poll's goroutines
  get the address of the loop variable of the poll, which in the Go version of `go.mod` is one
  variable for all iterations: `cur`. The making of an object reads it twice, for the volume's URL
  (`ReadVolume`) and, after the answer, for the object's name (`CreateObject`). A list of objects from the informer cache has no fixed
  order, so "the first" and "the last" of a list are any.
* A POST and the wait for its task are one step in the goroutines (`CreateInOdim`), two in the
  reconciler. One storage controller per machine; the object of a machine that is not there
  (`Reconcile` deletes it) and the data race of the two goroutines on the one `volUtil.volObj`
  are left out, and so is a volume without a name. ODIM refuses a second volume of a name. IDs are
  not used again.

### Settings, power and password

* A Bmc, a BiosSetting and a BootOrderSetting object belong to one machine. The attributes of the
  BIOS, and the boot order, are one value each. Attributes that ODIM accepts are the machine's
  `next` ones until it starts again. `reset` is `Status.SystemReset`, one field that the BIOS
  settings ("Pending for ... Bios"), volumes and resets all write; volumes appear as a disturbance.
* `worker` is `BmcReconciler`'s worker with its copy of the request and of the passwords: what the
  code changes in its copy in the course of a reconcile is in `worker` until `WorkUpdate` writes the
  object, or is refused. `access` has the password the machine has and the one ODIM uses for it. When
  they differ for good (`LockedOut`) the accounts cannot be read any more; what else ODIM then refuses
  is not told apart, and the liveness properties leave such a machine out.
* `entry` is the machine's in `MapOfBmc`: none after a start, `"added"` from the first tick on, which
  does not compare yet, and `"own"` when the process itself has added the machine, which is not compared
  in mode Accommodate until the next start (`Compared`).
* A boot order's spec names the Bmc object or has a SystemID or SerialNo (`named`).
* `caller["poll"]` and `caller["event"]` are the poll and the goroutine of an event. The poll's
  copies from the start of the tick (`GetAllBmcObject`) are `power` and `reset` of its record.
* `revert[s]` is a goroutine of `CheckAndRevertBios`. It works on a copy of the BIOS object that
  the poll read; `"own"` in `fresh[s]` says that this copy is still the stored one.
* `machine.boot` is set by a request at once. `ResetTypeOf` is the reset type that Revert asks for,
  which is the recorded power state itself unless that is "Off".
* Which request a machine's model allows is `Allowable`, empty for an unknown model.

### Firmware

* A version is what an image installs (`Installs`); `getImagePath` is the location the code makes up
  for a version that it did not install itself. A Firmware object has the image of its spec, its
  annotation `old_firmware`, whether it is labelled, and both fields of its status.
* `entry` is what Accommodate's poll looks at in `MapOfBmc` before it compares a machine: the first
  tick of a process enters a machine that has an object (`PollFirst`), later ones compare it, and a
  machine that this process added itself has an entry that is never compared. Events always compare.
* A manager's GET that is answered with a refusal is a nil error that is dereferenced (`AccRefused`):
  the end of the process in the poll, of the handler alone in an event.
* `FirmwareReconciler` is split at each of its updates, `CheckAndRevertFirmwareVersion` at the
  request, the task and the 40 s before the mark is deleted. `posted` is a history variable.

### Subscriptions, Odim object, configuration

* A subscription is an ID with a destination. ODIM has at most one per destination. An
  Eventsubscription object made by the poll has the subscription's name or, when that is taken, the
  host's: `Keys`. IDs nobody remembers are used again, which stands for new ones.
* The poll (`poll`) works through a set of IDs; in both modes it treats the operator's own
  subscription apart (`IsOwn`), which it recognizes by `cached`, the host in the first Odim object it
  has read.
* `BmcOdim` has the only panics that end this part of the process: `Ticker.Reset(0)`, the Odim object
  that an event subscription's reconcile does not find, and a nil answer in Revert.
* `watch` is the state of the file watcher: between reading a change and `watcher.Add` a further one
  goes unseen.
* In `BmcOrigins` a link is a sequence, one element for each part of the URI that matters, so that
  what is below a resource has its link as a prefix. `odata` is the annotation `odata.id` of each
  object, `system` the machine's ID in ODIM and in the status: `AddAgain` changes the latter and not
  the former. Each lookup is a step of its own. ODIM refuses a link it has no resource for; a machine
  has one volume and one firmware inventory.

### REST calls

* Per goroutine a client with credentials that ODIM takes or refuses, the method the caller asked
  for and the one that `sendRequest` is in, and whether there is a request. `err` is the variable of
  the package. The repetition passes the reason of a call as its method (`MethodOfRecall`), as
  `restclient/session.go:64` and `restclient/restClient.go:119` disagree on the order.
* `executed` counts what ODIM has done for the call. After a 308 `Get` calls itself and returns the body
  of that call with the status of the first (`Reply`): the caller is told 308, whatever the answer was.

## The runs

`Disturbances` names what may happen from outside in a run (creations, deletions and edits by
users, additions and removals in ODIM, failed requests, missing keys, resets, events, crashes)
and `MaxDisturbances` how often altogether. Nothing else is bounded. The runs of volumes,
firmware, subscriptions and settings have several bounds at once: `Setups` is a set of records of
a mode, the kinds that may happen in it and how many of them, and each behaviour starts with one.
Two machines, of which one
can be added twice, are enough for each mix-up of one machine with another and of an old ID of a
machine with its new one; two event goroutines beside poll and reconciler for every pair of
calls of one function. Every case that a comment in the modules names is reached within three
disturbances; the liveness runs allow up to five of fewer kinds. In `acc_safety` one
machine has no connection method, so that a machine the operator cannot add is there too.

| run | disturbances, how many | properties | what it shows |
|---|---|---|---|
| `acc_safety` | all kinds, 3 | `AddedObjectsAreComplete`, `Inv`, `UnregisterOnlyDeleted`, `ImplementsLifecycle` | Accommodate with every kind of disturbance, restarts and two event goroutines included, of which one machine has no connection method: the inductive invariant, complete objects, no unregistration of a live object, and the life of an object as BmcLifecycle promises it. |
| `acc_sync` | additions, losses, faults, resets, edits, crashes, 5 | `ObjectsFollowOdim` | Accommodate, machines added to ODIM and lost again while requests fail, systems reset, users edit objects and the operator restarts, from outside or by a panic: in the end the objects are those of ODIM's systems, but for objects of systems that ODIM has lost. |
| `acc_mark` | additions, events, 2 | `MarkedSystemsAreGone` (violated) | An event enters a new system in MapOfBmc while the poll waits for the list of systems; the poll then marks the system as deleted. |
| `rev_safety` | all kinds, 3 | `RevInv`, `ObjectsNameTheirMachine`, `ManagedObjectsAreComplete`, `ImplementsLifecycle` | Revert with every kind of disturbance, restarts and two event goroutines included: the inductive invariant; managed objects are complete, name their own machine, and live as BmcLifecycle promises. |
| `rev_sync` | losses and resets, 3 | `OdimFollowsObjects` | Revert of two managed machines that ODIM loses again and again, at any moment of the poll: in the end ODIM has both, under the IDs their objects name. |
| `vol_acc` | all but failed lists and events, 4; volumes created and removed, events, 4 | `Inv`, `ObjectsNameTheirVolume`, `DropsOnlyLost` | Accommodate, one machine, two object names, three volume names, two of them with the same drives, and an ID of two characters: users create, delete and edit objects and reset the machine, other clients of ODIM create and remove volumes, requests fail and the operator restarts; events compare beside the poll: the inductive invariant; ID and volume name of an object are those of one volume that suits it, and nothing removes the object of a volume that is there, unless its ID has two characters. |
| `vol_live` | Accommodate: volumes created and removed, faults, failed lists, resets, 5; the same with events and without removals, 5. Revert: all kinds, 4 | `VolumesGetObjects`, `LostVolumesComeBack` | One machine with one volume name and IDs of one character. Accommodate: a volume that is replaced again and again, while lists cannot be read, resets run and events do what the poll does at the same time, has an object with its ID in the end. Revert, with every kind of disturbance: a volume with an object that ODIM loses is created again and the object gets its new ID. |
| `rest` | all kinds, 4 | `TypeOK`, `ResultsAreTrue`, `OnlyRecallsEndTheProcess`, `CallsReturn` | Two goroutines call ODIM at the same time with basic or session credentials, while sessions expire, connections break and answers get lost: what a caller is told is what ODIM has done, or, of a redirected read, a 308, every call returns, and only the repetition with a new token can end the process. |
| `fw` | all kinds, 2; fewer kinds, 3 and 5 | `Inv`, `ImagesAreTried`, `MachineReturns`, `FirmwareFollows` | One machine whose firmware users, other clients of ODIM, the poll and events change at the same time, in both modes, with failing updates and restarts: the inductive invariant, which says that an image to be flashed and not asked for is queued or in the worker's hands; no image a user asks for is lost, and machine and objects agree in the end. |
| `evt` | four groups of kinds, 2; fewer kinds, 3 | `Inv`, `ObjectsNameTheirSubscription`, `OdimLeavesNothing`, `ObjectsFollowSubscriptions`, `SubscriptionsFollowObjects`, `TickerFollowsData`, `OperatorIsSubscribed`, `OdimGoes` | Subscriptions of users and of the operator itself, created, replaced and removed on both sides in both modes, with lists that cannot be read, an edited and a deleted Odim object, a configuration that changes and restarts: the inductive invariant; objects and subscriptions correspond in the end. |
| `org` | all kinds, 2 | `StatusTellsSpec`, `AskedIsSubscribed` | Requests for up to three resources of two machines, in any order, while objects are removed and created, machines are added again under new IDs and requests fail: the subscription has what was asked for, and the status names it again. |
| `set` | all kinds, 1; groups of kinds, 2 to 4 | `Inv`, `OneRestartAtATime`, `ResetsAreAnswered`, `PasswordIsSet`, `BiosSettles`, `BootAndPowerSettle`, `BootIsSet` | A managed machine whose password, power, BIOS attributes and boot order are changed by users, by others and by the operator in both modes, with failing requests and restarts: the inductive invariant; what is asked for is answered, and machine and objects agree in the end. |

`vol_acc` has two object names that ask for the same drives, a third volume that comes to the name of
the second and has other drives, and three IDs, of which the last character of one is another; a history of four disturbances is enough for a request, its reset, and a loss or a crash
during the reset. `vol_live` has one name, so that one machine has one object at a
time: with two, `GetAllVolumeObjects` returns pointers to one loop variable, so that the removal
of an object may pick the other one for ever (there is no fairness about the order of lists), and
in Accommodate two would also show the object that a failed list removes and a crash leaves
half made. The four IDs are as many as the volume can come back within the bound. With IDs
left, no state of the volume runs is a deadlock. A new volume may get any unused ID in `vol_acc` (but that of two characters is not the first); in
`vol_live`, where IDs are only compared for equality, the order in which they are given is
fixed (`Before`). Both runs have one machine: what only more machines show (`cur`, `Contains`) is in the
theorem `VolumesAreNamed`.

Where a run checks `Inv` or `RevInv`, the module's `TypeOK` is a part of it, and so is, in `acc_safety`,
what `ObjectsNameTheirMachine` says.

In `acc_sync` the object of a lost system may be left over (`Stale`). From the second tick on an
entry has `IsObjCreated`, and the comparison of the machine's firmware then ends the process when ODIM
does not have the system any more (`AccPanic`); after the restart MapOfBmc knows nothing of it. The
object of a lost system is deleted only by an event, or by the poll when the system's entry was never
compared before or the manager's GET is not answered at all.

`rest` has two goroutines: what they share is `err` and the end of the process. Four disturbances
let a session expire, the new one be refused or the connection break, in each of them.

`fw` has two versions, each with the image that installs it. Two of all kinds put any two
disturbances at any two places; the longer runs let the machine change under Revert, with lost marks
and restarts, and edits follow one another. Two goroutines are as many as the poll and an event can
have running.

`evt` has one destination of a user, two hosts for the operator, and four IDs. Its `Setups` group the
kinds that meet: what users and others do with crashes, failures, the Odim object with its host, the
configuration; each group in both modes. It does not check for deadlock, nor does `fw`: without an
Odim object, or a machine, there is nothing to do.

`org` takes every sequence of up to two resources of two machines, and of up to three of those that
are above or below each other: three are needed to take a resource, then one above it, and one below
that again. Two disturbances let a machine be added again and one of its annotations be renewed, or an
object go and come back. The name of one of the two machines has a dot. A request ends, so that there is no deadlock to look for.

`set` has two values for the settings, four passwords, and three requests, one of them for a power
state the machine has. All kinds once, and groups of kinds two to four times: a reset with BIOS
edits and failures, a password with edits, restarts and writes of others, a boot order that is
changed on both sides, Revert with a user's reset, with events, and with a tick that comes while a
goroutine of the last one runs (`slow`; ticks are hours apart, so that this is a disturbance). A
machine that the process itself has added has setups of its own (`SetupOwn`). `Doomed` says when the
process ends again after every restart; the liveness properties exempt it. A reset of a machine whose
model is unknown is never answered (`bmc_controller.go:221`); `ResetsAreAnswered` is about the others,
and `Allowable` has three types.

### Fairness

`WF` of the poll, of each call, of each controller's worker, of each goroutine and of ODIM's tasks: a
goroutine that can go on does. `SF` of the start of a reconcile of each object, Bmc or Volume: the work
queue has an object that is created or deleted, that is left when the operator starts, or whose
reconcile ends in an error or a request to requeue, and serves every one of them. In `evt`, `SF` of the
request to remove a subscription by a reconcile whose copy is up to date, and of the release of its
object: an attempt that was outdated is repeated within seconds, while the poll, which outdates it,
comes once in hours. In `rest` a goroutine in a call goes on; nobody has to make one. No fairness of
users, ODIM's clients, events, failures or crashes; there are finitely many of them, so "in the end"
means after the last one.

### Disagreements found

The run that ends in a violation shows where the code does not do what its comment says;
`PROJECT.json` quotes the line.

* `acc_mark`, at `src/controllers/pollData/getPollingUpdates.go:120`. The comment at controllers/pollData/getPollingUpdates.go:119 says "check if system is present, if not then set state IsDeleted to true". The list it checks was read before the reply to the GET came in; an entry that the event goroutine (or the reconciler) has made since then is not in it and is marked as deleted although ODIM has the system, and the object of the system is deleted.

Others that the modules have in them and that no run is kept for. Where a property would fail
because of one of them, it names the disturbances it leaves out, and the comment says why.

Machines:

* the Accommodate tick that finds a system gone does not delete its object: it reads the manager of
  the machine first, and ODIM's 404, which comes without an error, ends the process
  (`accomodateDetails.go:64`, `bmc_controller.go:517`);
* after a restart the object of a system that ODIM lost before is not removed, and when ODIM gets the
  machine again, under a new ID, the name of the new object is taken;
* an object deleted between its finalizer and its system ID cannot be unregistered;
* an addition whose system goes away ends the process again after every restart;
* an object that is deleted during its addition leaves an entry that says there is one
  (`bmc_controller.go:373`), and its machine never gets another;
* a user's edit during Revert's addition loses the new ID;
* Revert's sweep panics at a system without an object (`revertDetails.go:99`), and removes the system
  of an object that got its ID during the tick, unless it is the first in the sweep (`:101`).

Volumes:

* a volume whose ID has more than one character is listed by its last (`reconcileVolume.go:209`). With a
  volume 12, Accommodate drops the object that has the ID 12 as one whose volume is lost, and reads
  volume 2 instead to make an object for it; when there is no volume 2, the answer has no Name and the
  operator ends (`:227`), at every poll again;
* the ID of a new volume goes to the first object found for the machine, if name and drives suit
  (`volume_controller.go:238`): of two objects that ask for the same drives one may get the other's
  volume, and the first volume of ODIM's list is the only one looked at;
* with several machines the poll may read a volume of one machine and name its object after the next
  (`reconcileVolume.go:220`, `:234`), and looks for objects among those of machines whose name contains
  its own;
* a Volume object whose removal ends with 204 never goes;
* an Accommodate tick removes the objects of all volumes when their list cannot be read;
* when a volume is gone that the poll is about to read, its panic can leave the object that an event
  is making without an ID for good;
* in mode Revert an event changes no volumes (`processEvents.go:74` makes a reconciler without
  `volUtil`);
* Revert may ask for the removal of a volume that a user's object requested, between the reset and
  the update of the object.

Settings, power and password:

* when ODIM refuses a new password, the machine has it already and ODIM and object keep the old one
  (`bmc_controller.go:156`); the same after a restart between the two updates (`:147`, `:155`), and then
  ODIM cannot read the accounts, which have no Members, and the repetition is a panic, again after
  each restart (`:728`);
* a boot order whose spec has a SystemID or SerialNo instead of the name reaches the machine, and then
  the process ends, again after each restart: `bootBmcObj` is nil
  (`bootordersettings_controller.go:109-119`, `:188`);
* the boot order of a machine that this process has added is not compared in Accommodate until it
  restarts, but by an event (`accomodateDetails.go:55-66`, `bmc_controller.go:373`);
* a reset request to a machine of unknown model is never answered (`bmc_controller.go:221`);
* a password that is set while BIOS attributes wait for a reset is not taken up until the object is
  edited again;
* a failed reset request is a panic, and the request repeated after the restart (`:647`); when the
  update that answers it is refused, the machine is reset again;
* attributes that ODIM refuses take the BIOS object with them, and every reset without one is a panic
  after each restart (`biossetting_controller.go:162`, `bmc_controller.go:659`);
* a reset that changes no attributes clears those of the object, and Revert then sends an empty
  request (`getUpdatedBiosAttributes`);
* a restart of Revert that fails leaves the machine marked, and its BIOS attributes are not compared
  any more (`reconcileBios.go:68-84`).

Firmware:

* a machine added through an object is not compared in Accommodate until the operator restarts: the
  reconcile enters it with `IsObjCreated` alone (`bmc_controller.go:373`), and the poll looks only at
  entries with `IsAdded` or `IsDeleted` (`accomodateDetails.go:55`). `FirmwareFollows` leaves these out;
* a manager's GET that ODIM refuses ends the process, from the poll (`bmc_controller.go:517`);
* a failed update returns before the branch that deletes its object (`firmware_controller.go:94`),
  though README.md:1568-1571 tells the user to try again;
* a reconcile deletes the mark that a goroutine of Revert has set (`:173`);
* an edit that is taken back while the first one is flashed is not applied;
* an Accommodate tick before a pending edit is taken up counts the edit as flashed
  (`accomodateDetails.go:163`).

Subscriptions, Odim object, configuration, calls:

* after an edit of `EventListenerHost` Revert removes the operator's new subscription, because the
  poll keeps the first Odim object (`getPollingUpdates.go:54`);
* a failed subscription of the operator is never repeated (`odim_controller.go:134`), nor is a failed
  removal, after which the Odim object keeps its finalizer;
* an event subscription to something of a machine whose object's name has a dot, as an IP address
  has, ends the process, again after each restart: the name is cut at the dot before the Bmc object is
  looked for, and nil is dereferenced (`eventsubscription_controller.go:270`), though README.md:1766
  lists `Volume/{bmc_object_name}` as supported;
* an event subscription is asked for the volume of another machine when the machine's own has no
  object (`objectUtils.go:244`), and with a firmware inventory among its links its status names none of
  them, because the ID in the link is cut at its dot (`eventsubscription_controller.go:226`);
* a Bmc object that goes before its BIOS, boot order or volume is looked up is a panic, and so is a
  message ID with less than two dots (`eventsubscription_controller.go:277`, `:477`);
* without the Odim object an event subscription's reconcile ends the process again and again;
* a return to the interval of the start is ignored, the ticker starts with the default whatever the
  file says (README.md:382), and an interval that is no number is a panic (`getConfigDetails.go:109`);
* a GET that ODIM redirects with 308 returns the body of the second call and the status 308
  (`restClient.go:179`): callers that ask for 200 take what they read for a failure;
* a call that meets 401 is never repeated with success: the new token is there, but the reason stands
  in the place of the method; a POST or PATCH is given up, a GET or, with any credentials, a DELETE ends
  the process.

The runs `acc_sync` and `rev_sync` leave out the disturbances that lead to these,
and show that the inventories agree in the end without them.

## The proofs

`tlapm` checks every step of the theorems below, for any sets of machines, destinations, IDs, values
and goroutines and any bound on disturbances. The only assumptions are those of the modules, on their
constants; TLC evaluates them in the runs.

* `InventoryAssumption`: each ID belongs to one machine; the null values are no machine, ID or object;
  the goroutines have names of their own; which kinds of disturbances there are.
* `VolumesAssumption`: a volume's name, the name its object gets from it and the drives it has; the last
  character of an ID is an ID of one character; an object's name contains its own machine's; IDs,
  names and null values are apart. `EventsAssumption`: IDs are numbers and finitely many, destinations of users are none of the
  operator's. `OdimAssumption`: no Odim object is the null value. `ConfigAssumption`: the interval of the
  start is not 0.
* `ResetAssumption`: passwords are numbers from 1 on, requests are for `On` or `Off` with one of the
  reset types. `RestAssumption`: no result is the null value.
* `FirmwareAssumption`: each image installs one version, each version has an image path, the null values
  are no version, image, process or object. `OriginsAssumption`: requests are sequences of resources; the
  null value is no collection, ID, resource, link or copy of a Bmc object.

| theorem | module | statement |
|---|---|---|
| `TypeCorrect` | `BmcPollProofs` | `TypeOK`: Every variable of the inventories, the reconciler, the poll and the event goroutines stays in its set, for any machines, IDs, goroutines and disturbances. |
| `AddedComplete` | `BmcPollProofs` | `AddedObjectsAreComplete`: An object with the encrypted password has its finalizer and one and the same system ID in label and status, whatever comes between the three updates. |
| `NamesAreRight` | `BmcPollProofs` | `ObjectsNameTheirMachine`: Label and status of an object name systems of its own machine only. |
| `UnregistersOnlyDeleted` | `BmcPollProofs` | `UnregisterOnlyDeleted`: The reconciler takes a system out of ODIM only for an object that names it and is being deleted. |
| `Implements` | `BmcPollProofs` | `ImplementsLifecycle`: Every behaviour of BmcAccommodate is a life of each object as BmcLifecycle describes it. |
| `InvHolds` | `BmcPollProofs` | `Inv`: The inductive invariant of the inventories, of the reconciler's freshness and of the calls of AccommodateBMCInfo, which the theorems above rest on, holds always. |
| `RestTypeCorrect` | `BmcRestClientProofs` | `TypeOK`: Every variable of the calls keeps to its set and no call is executed twice, for any goroutines and any expiry, loss or redirection. |
| `ResultsTrue` | `BmcRestClientProofs` | `ResultsAreTrue`: What a caller is told is what ODIM has done, repetitions with a new token and the shared err included; a 308 is told of reads only, and with session credentials its body is ODIM's answer. |
| `OnlyRecallsEnd` | `BmcRestClientProofs` | `OnlyRecallsEndTheProcess`: A call ends the process only when some goroutine is repeating one. |
| `RevInvHolds` | `BmcPollProofs` | `RevInv`: The inductive invariant of Revert holds always: what reconciler, sweep and event goroutines know of ODIM and of the objects while their requests run. |
| `RevNamesAreRight` | `BmcPollProofs` | `ObjectsNameTheirMachine`: Revert, too, writes only IDs of an object's own machine into it, though it adds machines again and again under new ones. |
| `RevManagedComplete` | `BmcPollProofs` | `ManagedObjectsAreComplete`: In Revert an object with the encrypted password has its finalizer and an ID in both label and status, whichever of the two updates of an addition is refused. |
| `RevImplements` | `BmcPollProofs` | `ImplementsLifecycle`: Every behaviour of BmcRevert is a life of each object as BmcLifecycle describes it. |
| `OdimInvHolds` | `BmcOdimProofs` | `Inv`: The inductive invariant of subscriptions, Odim object and configuration, that IDs somebody holds are not given to another subscription included, holds always. |
| `SubscriptionsAreNamed` | `BmcOdimProofs` | `ObjectsNameTheirSubscription`: The ID an object names is that of a subscription to its own destination, as long as anybody remembers it: for any destinations, IDs and disturbances. |
| `NothingIsLeft` | `BmcOdimProofs` | `OdimLeavesNothing`: When the Odim object is gone the operator has no subscription left in ODIM, whatever failed or was interrupted, unless the host was edited. |
| `VolumesInvHolds` | `BmcVolumesProofs` | `Inv`: The inductive invariant of volumes, Volume objects and the goroutines' lists, copies and IDs holds always, in both modes. |
| `VolumesAreNamed` | `BmcVolumesProofs` | `ObjectsNameTheirVolume`: ID and volume name of an object are those of one volume that some machine was given, which the object is named after or whose drives it asks for: for any machines, in both modes. |
| `OnlyLostAreDropped` | `BmcVolumesProofs` | `DropsOnlyLost`: Poll and events remove an object of a machine that stands alone, whose volume has an ID of one character, only when ODIM has lost the volume, however old their lists are. |
| `SettingsInvHolds` | `BmcSettingsProofs` | `Inv`: The inductive invariant of a machine's settings holds always: what worker, editors, poll, events and goroutines have in hand is there, and RestartRequired says what the goroutines of Revert do. |
| `OneRestart` | `BmcSettingsProofs` | `OneRestartAtATime`: Revert never restarts a machine that it is restarting, however many goroutines it may have, as long as no user asks for resets and no event compares beside the poll. |
| `OriginsInvHolds` | `BmcOriginsProofs` | `OriginsInv`: The inductive invariant of a request's way from the spec to ODIM and back to the status holds always: each link the request holds was justified by what was asked for, and each link that was translated back has a name. |
| `SubscriptionHasWhatWasAsked` | `BmcOriginsProofs` | `AskedIsSubscribed`: A subscription that ODIM accepts has each resource that was asked for, or one above it, for any machines, any order of the resources and whatever happens to objects and systems meanwhile; a removed volume excepted. |
| `StatusTellsWhatWasAsked` | `BmcOriginsProofs` | `StatusTellsSpec`: The status of a subscription names what its user asked for and nothing else, though systems get new IDs and annotations go stale while the request runs. |
| `FirmwareInvHolds` | `BmcFirmwareProofs` | `Inv`: The inductive invariant of a machine's firmware holds always, in both modes and for any number of Revert's goroutines: an image to be flashed that was not asked for is queued or in the worker's hands, so no edit is lost. |

Each module has an invariant `Inv` (`RevInv` in `BmcRevert`) that is inductive, and its run checks it before
it is proved. Those of `BmcRestClient` (`RestInv`) and `BmcOrigins` (`OriginsInv`) stand in their proof
modules, and the runs check what follows from them. What makes the invariants inductive is told here,
part by part.

Accommodate. `AddedObjectsAreComplete` (an object with the encrypted password has its finalizer,
and the same system ID in label and status) is not inductive: the three updates of
`updateBmcDetails` are far apart, and the last one may only be made when the first two were.
What makes it so is freshness. `RecInv` says what the stored object looks like *as long as the
reconciler's copy of it is the stored one*: not deleting, the user's password, the status of the
copy, and from the second update on the finalizer. Anybody else's write ends the freshness, so
nothing is promised after it, and the update is refused. `KubeInv` says that every ID that an
object names is one that ODIM gave to its machine, and that an object that is there in a later
phase is complete; `OdimInv` relates the tasks of ODIM to its systems; `CallInv` says that a call
of `AccommodateBMCInfo` that is about to create an object has an ID of which the addition was
done. `Inv` is their conjunction.

* `InitInv` and `NextInv` (`RevInitInv` and `RevNextInv`): `Inv` holds at first and every step keeps it, action by action. What
  reconciler, users, ODIM and crashes do is proved once, in `BmcInventoryProofs`
  (`InitEstablishesInv`, `RecStepKeeps`, `EnvKeeps` and the lemmas under them), over the variables both modes share; the
  poll and the calls are added in `BmcPollProofs`.
* `UnregistersOnlyDeleted` is the action property, from `Inv` and the cases of the reconciler.
* `Implements` is the refinement of `BmcLifecycle`: each step of a process is a step in the life of
  at most one object (`BmcInventoryProofs` for the reconciler and the rest, `CallLifecycle` for
  the calls) or changes nothing in it.

The calls. `ResultsAreTrue` is not inductive either: that a caller with basic credentials is never
told "unbuilt" needs that only a DELETE is repeated with them, and that the repetition does not get
as far as `err`. `CallInv` says in which method a call is, when it may be repeated, and that a call
which is not a repetition has its request when it is sent; with it `OnlyRecallsEndTheProcess` follows
from the two steps that panic.

Revert. The lemmas about reconciler, users and ODIM are those of Accommodate. What is new is that the
poll works on copies it read at the start of its tick, and that an addition writes a new ID with two
updates. `RevCallInv` says of a call whose copy is still the stored object that the object is managed,
and, from the task on, that ODIM has not got the system the object names: ODIM accepts a machine only
when it has no system of it. So the new ID may take the place of the old one, which is what
`RevImplements` needs: in `BmcLifecycle` an object gets another system only when it has lost its own. The
part of `RevCallInv` about the last update lasts because a lost system never comes back under its ID.
`PollInv` says that the copies the poll has not come to are, as long as they are fresh, the stored objects.
`RevManagedComplete` and `RevNamesAreRight` follow from `InventoryInv`, which Revert's two updates keep.

Subscriptions and the Odim object. So that a few IDs are enough for TLC, `BmcEvents` gives an ID again
once nobody remembers it, which no process can tell from a new one. `SubscriptionsAreNamed` therefore
rests on who remembers: a new subscription gets an ID that no object, no list
and no goroutine has, and `EventsInv` says what goroutines have in hand, that the ID a poll is going to
write is one of a subscription to the object's destination, and that ODIM has a destination once.
`NothingIsLeft` is about the order of the finalizer and the subscription: `FinalizerInv` (the finalizer is
there as long as the operator may have a subscription, and a removal has begun only for a deleted
object) and `OwnInv`, which says that without a finalizer, or when it is about to go, nothing is left.
`OnlyHost` is the reason why one removal is enough: as long as the host is not edited, neither the poll
nor a user's object asks for a subscription of any of the operator's hosts. The premise is the code's:
an edited host leaves the subscription of the old one behind.

Volumes. `VolumesAreNamed` compares an ID that a goroutine has carried along with a name that may have
gone meanwhile. IDs keep the name they were given and a new volume gets an ID that was never
used (`OdimStep`), so that what a goroutine knew of an ID stays true (`Given`); `GoroutinesInv` says that
Accommodate's goroutines have ID and name of one volume and an object that suits it (`Suits`). The theorem is
for any number of machines in both modes, and therefore says no more than that *some* machine was given the
volume: a goroutine of the poll works for whichever machine the loop has come to, and in Revert it looks the
object with an ID up among those of all machines (`GetVolumeObjectByVolumeID`). With one machine it is the
object's own. That the object is the one that asked for the volume by name is not so either: ResetSystem
compares the drives of its request.
`OnlyLostAreDropped` is an action property. `ListsInv` says that what was listed are IDs of volumes and
what is to be dropped are IDs of lost ones, or have more than one character; a lost ID never comes back, so that a list may be
as old as it likes. Its premises are needed: a list that could not be read is an empty one, and with two
machines the object of a volume that is there is dropped when another machine has lost its volume of
the same ID; and the object of a volume that is there is dropped when its ID has two characters.

Settings. `RestartInv` is what `RestartRequired` is for: a caller that is about to set attributes
has seen no entry, the entry is there as long as some goroutine restarts the machine, and there
is one such goroutine. The entry is read before a request to ODIM and set after it, so that this is true
only because nobody but the poll starts a restart and nobody but the restarting goroutine takes the entry
out: an event would read it in between, and a user's reset clears it. `OneRestart` has both as its premise.
`CopiesInv` says that what a worker has in hand is there; the BIOS object, which goes when ODIM refuses
its attributes, makes every copy of it outdated, and its deletion is one more request, which finds nothing.

Firmware. An image is lost when it is to be flashed, was not asked for and nobody is going to look at the
object again. `EditsInv` says that this is never so: such an image is in the queue, or the worker has
taken just this image up and not sent it yet. It is inductive because only a user's edit
makes an image one that has to be flashed, and puts the object into the queue; what worker and callers
write into the object leaves its image as it stands or is one that counts as flashed. That an update is refused, or hits an object that has gone, is `CopiesInv`, with the lemma
`StoredIsOK` about what is stored; `ModeInv` keeps Accommodate's callers from Revert's half.

Origins. `RequestInv` looks both ways: each resource that the loop has passed has its links in the request
(`Requested`), and each link is there because of a resource the user gave (`Justified`). A resource's
links may be there under either ID that its machine has had, and may be the empty ones of an object
without an annotation. ODIM refuses both, so that in a subscription that it accepts they are those of the
machine's system of now: `ServedIsOfNow` and `RequestedIsCovered`, from which `SubscriptionHasWhatWasAsked`
follows. The subordinate links that are taken out when something above them is asked for are no loss,
since what is above them is put in by the same step. For the status, `StatusInv` says that a link that
`MapOriginResources` has passed has a name (`IsNamed`) and that each name is of something the user gave
(`IsGiven`); `RequestedIsTold` then goes from resource to link to name. Volumes are left out when their
objects may be removed, since the code then asks for another machine's.

### What is only model-checked

* Liveness: it needs `ENABLED` and fairness, which TLAPS does not do. These are the properties of
  `acc_sync`, `rev_sync` and `vol_live`, those of `fw` but `Inv`, and those of `rest`, `evt` and `set`
  that no theorem names. Each invariant, and each action property, that a run checks and that holds is
  proved.
* The violation that `acc_mark` ends in.

No module has a RECURSIVE operator. The provers cannot handle the empty string; where the code
has one (a power state or reset type that is not there), the modules call it `Empty`.

## What is not modelled

Left out or modelled in part:

* Polling loop (`controllers/pollData/getPollingUpdates.go`, `controllers/pollData/pollingUtils.go`): The tick and the comparison of ODIM's systems with MapOfBmc, and every call of a tick in the module of what it compares; the calls of one tick are in one process only where they share state.
* Event listener (`controllers/eventsClient/client.go`, `controllers/eventsClient/certificates.go`, `controllers/pollData/processEvents.go`): ResourceAdded and ResourceRemoved, each in a goroutine of its own, and ServerPostDiscoveryComplete; the HTTP server and the certificates are not modelled.
* BIOS settings (`controllers/bios/biossetting_controller.go`, `controllers/bios/biosUtils.go`, `controllers/pollData/reconcileBios.go`): BiosSettingReconciler, AccommodateBiosInfo, CheckAndRevertBios with RestartRequired and its goroutine, the update after a reset; the comparison of attributes with their registry is one outcome, accepted or not.
* Volumes (`controllers/volume/volume_controller.go`, `controllers/volume/volumeUtils.go`, `controllers/pollData/reconcileVolume.go`): Creation, deletion, the reset that gives a volume its ID and both directions of reconciliation with TrackVolumeStatus; one storage controller per machine, and without the object whose machine is not there.
* Event subscriptions (`controllers/eventsubscription/eventsubscription_controller.go`, `controllers/eventsubscription/eventsubscriptionUtils.go`, `controllers/pollData/reconcileEventSubscription.go`): BmcEvents: creation, refusal and removal of a subscription and both directions of reconciliation. BmcOrigins: the request with its origin resources and the names in the status. Left out: checkAndUpdateEventSubscriptionObject, which rewrites the status of an object from its subscription.
* Odim object (`controllers/odim/odim_controller.go`, `controllers/odim/odimUtils.go`): The finalizer, the check of the connection, the operator's own subscription and its removal; the list of connection methods in the status, and the listener that each reconcile starts are left out.
* Start-up (`main/main.go`): What a process starts with (RestartConfig, RestartEvents); otherwise it wires managers and field indexes and shows which goroutines exist.
* Object utilities (`controllers/utils/objectUtils.go`, `controllers/utils/utils.go`, `controllers/utils/pem.go`, `controllers/utils/encryption.go`): Lookups, creations, updates and deletions of every kind of object, where they are used. Encryption is pure and taken as invertible.
* Schema and message registries (`controllers/bios/biosschemaregistry_controller.go`, `controllers/eventsubscription/eventsmessageregistry_controller.go`): Their Reconcile does nothing.
* API types (`api/v1/zz_generated.deepcopy.go`): Generated code.
* Logging (`logs/logger.go`): No state that anything depends on.

Of the parts that are modelled:

* That a machine under reset is skipped (`accomodateDetails.go:58`, `revertDetails.go:50`) depends on
  what its last reset left, which `BmcSettings` has. In `BmcRevert` the skip is a disturbance
  (`PollVisitResetting`, `PollSweepResetting`), in `BmcAccommodate` and `BmcFirmware` no reset runs. A
  machine in the state "Starting" counts as one that is not under reset.
* One tick's calls for volumes, firmware, settings and subscriptions run one after the other in the
  code; each module has those of its own part.
* `ValidateBiosAttributes`, the validation of message IDs and
  `checkAndUpdateEventSubscriptionObject` are outcomes (accepted, refused) or their result is part of
  an object that is one value.
* The connection methods in the Odim object's status, and the listener that each of its reconciles
  starts.
* Revert does not compare the boot order while the firmware of the machine is marked as being updated
  (`revertDetails.go:82`); in `BmcSettings` no firmware is. The boot object is always there: without one
  the comparison is a panic.

Left out of every module: wording of messages, logs and events; the contents
of requests beyond machine, system and volume; time, except as the order of steps; the data race
of a torn read of a shared map, for which the crash stands. A failed GET of the poll is a tick
that does nothing.

## Plan

Done: every controller, both modes of reconciliation of every kind of object, the configuration and
the calls; the abstract life of a machine's object; proofs of the invariants and action properties of
every module. Left, in this order:

1. `checkAndUpdateEventSubscriptionObject`, which rewrites the status of an Eventsubscription object from
   its subscription, in `BmcEvents`.
2. An abstract specification of volumes as `BmcLifecycle` is one of machines: an object, its request, its
   volume; and its refinement by `BmcVolumes`.
