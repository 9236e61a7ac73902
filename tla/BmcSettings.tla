---------------------------- MODULE BmcSettings -----------------------------
(***************************************************************************)
(* BIOS attributes, boot order and power of a machine and of its objects.  *)
(*                                                                         *)
(* BiosSettingReconciler and BootOrderSettingsReconciler bring what the    *)
(* user edits to the machine; the BIOS attributes wait there for a reset   *)
(* (module BmcReset).  The polling loop and the events compare the machine *)
(* with the objects: Accommodate rewrites the objects, Revert the machine, *)
(* which it restarts from a goroutine (controllers/pollData).              *)
(***************************************************************************)
EXTENDS BmcReset

-----------------------------------------------------------------------------
(* BiosSettingReconciler and BootOrderSettingsReconciler.                  *)

EditIn(e, place) == editor[e].pc = place
EditTo(e, place) == editor' = [editor EXCEPT ![e].pc = place]
EditEnds(e) == editor' = [editor EXCEPT ![e] = NoEditor]

EditRest == UNCHANGED <<setup, entry, access, restart, worker, caller, revert>>

\* What an object asks for; one that is gone, nothing.
Spec0(e) ==
    IF e = "boot" THEN boot.spec ELSE IF bios = NoObject THEN None ELSE bios.spec

\* Where the request to ODIM is made.
Patch(e) == IF e = "boot" /\ ~boot.named THEN "patchByID" ELSE "patch"

\* The request is taken.  NewRestClient fails, if there is still an object: it is repeated.
EditStart(e) ==
    /\ EditIn(e, "idle") /\ e \in queue
    /\ \/ /\ e = "bios" => bios # NoObject
          /\ Disturb("fault") /\ UNCHANGED <<editor, fresh, queue>>
       \/ /\ IF Spec0(e) = None THEN UNCHANGED <<editor, fresh>>
             ELSE /\ editor' = [editor EXCEPT ![e] = [pc |-> Patch(e), value |-> Spec0(e)]]
                  /\ Read(e, IF e = "bios" THEN "bmc" ELSE "boot")
          /\ queue' = queue \ {e}
          /\ UNCHANGED budget
    /\ UNCHANGED <<machine, bmc, bios, boot>> /\ EditRest

\* What fails on the way to the request, or the request itself, is not repeated.
EditFails(e) ==
    /\ EditIn(e, "patch") \/ EditIn(e, "patchByID")
    /\ Disturb("readFault") \/ Disturb("fault")
    /\ EditEnds(e) /\ Forget(e)
    /\ UNCHANGED <<machine, bmc, bios, boot, queue>> /\ EditRest

\* Attributes that ODIM refuses are given up together with the object.  That it is gone is
\* a request, too.
BiosRefused ==
    /\ EditIn("bios", "patch") /\ Disturb("fault")
    /\ bios' = NoObject /\ queue' = queue \cup {"bios"}
    /\ EditEnds("bios") /\ Outdate("bios", None)
    /\ UNCHANGED <<machine, bmc, boot>> /\ EditRest

\* They are accepted, and the task ends.
BiosTask ==
    /\ EditIn("bios", "patch")
    /\ machine' = [machine EXCEPT !.next = editor["bios"].value]
    /\ EditTo("bios", "mark")
    /\ UNCHANGED <<kubeVars, budget>> /\ EditRest

\* The object is deleted, and then an error is logged that there is none of.
BiosTaskFails == EditIn("bios", "patch") /\ Disturb("taskFault") /\ RestartWith(NoObject)

\* UpdateBmcObjectOnReset: the user is told to reset the machine.
BiosMark ==
    /\ EditIn("bios", "mark")
    /\ UpdateBmc("bios", [bmc EXCEPT !.reset = "Bios"], queue)
    /\ EditEnds("bios")
    /\ UNCHANGED <<machine, bios, boot, budget>> /\ EditRest

\* A spec that names the Bmc object, and one that has a SystemID or SerialNo: the latter
\* reaches the machine, and then the name of a Bmc object that was not looked up is asked
\* for.
BootTask ==
    /\ EditIn("boot", "patch")
    /\ \/ /\ machine' = [machine EXCEPT !.boot = editor["boot"].value]
          /\ EditTo("boot", "read") /\ UNCHANGED <<fresh, budget>>
       \/ EditEnds("boot") /\ Forget("boot") /\ Disturb("taskFault") /\ UNCHANGED machine
    /\ UNCHANGED <<bmc, bios, boot, queue>> /\ EditRest

BootTaskByID ==
    /\ EditIn("boot", "patchByID")
    /\ \/ machine' = [machine EXCEPT !.boot = editor["boot"].value] /\ UNCHANGED budget
       \/ Disturb("taskFault") /\ UNCHANGED machine
    /\ EditTo("boot", "nil")
    /\ UNCHANGED kubeVars /\ EditRest

BootTaskPanic == EditIn("boot", "nil") /\ Panic

\* The boot order is read; right after one another, the answered spec is removed and the
\* status becomes what was read.
BootRead ==
    /\ EditIn("boot", "read")
    /\ UpdateBoot("boot", [spec |-> None, status |-> machine.boot, named |-> TRUE])
    /\ EditEnds("boot")
    /\ UNCHANGED <<machine, budget>> /\ EditRest

BootReadPanic == EditIn("boot", "read") /\ PanicOn("readFault")

BiosWork == EditStart("bios") \/ EditFails("bios") \/ BiosRefused \/ BiosTask
              \/ BiosTaskFails \/ BiosMark
BootWork == EditStart("boot") \/ EditFails("boot") \/ BootTask \/ BootTaskByID \/ BootTaskPanic
              \/ BootRead \/ BootReadPanic

-----------------------------------------------------------------------------
(* Polling loop and events.                                                *)

CallIn(c, place) == caller[c].pc = place
CallTo(c, place) == caller' = [caller EXCEPT ![c].pc = place]
CallEnds(c) == caller' = [caller EXCEPT ![c] = NoCaller]

CallRest == UNCHANGED <<setup, entry, access, worker, editor>>

UndergoingUnlessEmpty(reset) == reset # Empty   \* mutant: "Done" is overlooked

\* checkIfSystemIsUndergoingReset
Undergoing(reset) == reset \in {"Bios", "Volume"}

\* A tick, or ServerPostDiscoveryComplete.  Both go through the settings one after the
\* other; only the polling loop looks at the power, with the copy made here.  Its ticks
\* are hours apart, a goroutine ends in minutes: one that is there still is a disturbance.
CallStart(c) ==
    /\ CallIn(c, "idle")
    /\ IF c = "event" THEN Disturb("event")
       ELSE IF \E s \in Slots : revert[s].pc # "idle" THEN Disturb("slow")
       ELSE UNCHANGED budget
    /\ caller' = [caller EXCEPT ![c] = [pc |-> IF c = "poll" THEN "check" ELSE "boot",
                    value |-> Nothing,
                    power |-> IF c = "poll" THEN bmc.power ELSE Empty,
                    reset |-> IF c = "poll" THEN bmc.reset ELSE Empty]]
    /\ IF c = "poll" THEN Read(c, "bmc") ELSE UNCHANGED fresh
    /\ UNCHANGED <<machine, restart, bmc, bios, boot, queue, revert>> /\ CallRest

\* Accommodate compares the boot order of a machine that the poll has found before; one
\* that this process has added, it never does.  Revert goes by the objects.
Compared == Mode("Revert") \/ entry = "added"

\* The polling loop, but not an event, leaves out a machine under reset, when its status
\* can be read, and what is not to be compared.
BootCheck(c) ==
    /\ CallIn(c, "check")
    /\ \/ Undergoing(bmc.reset) /\ CallTo(c, "bios") /\ UNCHANGED <<entry, budget>>
       \/ /\ IF Undergoing(bmc.reset) THEN Disturb("readFault") ELSE UNCHANGED budget
          /\ CallTo(c, IF Compared THEN "boot" ELSE "bios")
          /\ entry' = IF Mode("Accommodate") /\ entry = "none" THEN "added" ELSE entry
    /\ UNCHANGED <<setup, access, machine, restart, kubeVars, worker, editor, revert>>

\* CheckAndAccommodateBoot.  What cannot be read counts as empty.
AccBoot(c) ==
    /\ Mode("Accommodate") /\ CallIn(c, "boot")
    /\ \E v \in {machine.boot, Nothing} :
          /\ IF v = Nothing THEN Disturb("readFault") ELSE UNCHANGED budget
          /\ IF v = boot.status THEN UNCHANGED <<boot, fresh, queue>>
             ELSE /\ boot' = [boot EXCEPT !.status = v]
                  /\ Outdate("boot", None) /\ queue' = BootQueue
    /\ CallTo(c, "bios")
    /\ UNCHANGED <<machine, restart, bmc, bios, revert>> /\ CallRest

\* CheckAndRevertBoot: the order of the object goes to the machine.
RevertBoot(c) ==
    /\ Mode("Revert") /\ CallIn(c, "boot")
    /\ \/ /\ boot.status = machine.boot /\ CallTo(c, "bios") /\ UNCHANGED budget
       \/ /\ (boot.status # machine.boot /\ UNCHANGED budget) \/ Disturb("readFault")
          /\ caller' = [caller EXCEPT ![c].pc = "bootPatch", ![c].value = boot.status]
    /\ UNCHANGED <<machine, restart, kubeVars, revert>> /\ CallRest

RevertBootPatch(c) ==
    /\ CallIn(c, "bootPatch")
    /\ \/ /\ machine' = IF caller[c].value = Nothing THEN machine
                        ELSE [machine EXCEPT !.boot = caller[c].value]
          /\ UNCHANGED budget
       \/ (Disturb("fault") \/ Disturb("taskFault")) /\ UNCHANGED machine
    /\ caller' = [caller EXCEPT ![c].pc = "bios", ![c].value = Nothing]
    /\ UNCHANGED <<restart, kubeVars, revert>> /\ CallRest

AfterBios(c) ==
    caller' = [caller EXCEPT ![c] = IF c = "poll" THEN [@ EXCEPT !.pc = "power", !.value = Nothing]
                                    ELSE NoCaller]

\* AccommodateBiosInfo: attributes that cannot be read are none.
AccBios(c) ==
    /\ Mode("Accommodate") /\ CallIn(c, "bios")
    /\ \/ /\ caller' = [caller EXCEPT ![c].pc = "biosStatus", ![c].value = machine.bios]
          /\ UNCHANGED budget
       \/ CallTo(c, "biosStatus") /\ Disturb("readFault")
    /\ UNCHANGED <<machine, restart, kubeVars, revert>> /\ CallRest

AccBiosStatus(c) ==
    /\ CallIn(c, "biosStatus")
    /\ IF bios = NoObject THEN Panic
       ELSE /\ bios' = [bios EXCEPT !.status = caller[c].value]
            /\ IF bios' = bios THEN UNCHANGED fresh ELSE Outdate("bios", None)
            /\ AfterBios(c)
            /\ UNCHANGED <<machine, restart, bmc, boot, queue, revert, budget>> /\ CallRest

RevertBiosUnguarded(c) ==   \* mutant: a restart that is required already is overlooked
    /\ Mode("Revert") /\ CallIn(c, "bios")
    /\ IF bios = NoObject THEN Panic
       ELSE /\ \/ /\ bios.status = machine.bios
                  /\ AfterBios(c) /\ UNCHANGED <<fresh, budget>>
               \/ /\ bios.status # machine.bios
                  /\ caller' = [caller EXCEPT ![c].pc = "biosPatch", ![c].value = bios.status]
                  /\ Read(c, "own") /\ UNCHANGED budget
            /\ UNCHANGED <<machine, restart, bmc, bios, boot, queue, revert>> /\ CallRest

\* CheckAndRevertBios, unless a restart is required already.
RevertBios(c) ==
    /\ Mode("Revert") /\ CallIn(c, "bios")
    /\ IF ~restart /\ bios = NoObject THEN Panic
       ELSE /\ \/ /\ restart \/ (~restart /\ bios.status = machine.bios)
                  /\ AfterBios(c) /\ UNCHANGED <<fresh, budget>>
               \/ Disturb("readFault") /\ AfterBios(c) /\ UNCHANGED fresh
               \/ /\ ~restart /\ bios.status # machine.bios
                  /\ caller' = [caller EXCEPT ![c].pc = "biosPatch", ![c].value = bios.status]
                  /\ Read(c, "own") /\ UNCHANGED budget
            /\ UNCHANGED <<machine, restart, bmc, bios, boot, queue, revert>> /\ CallRest

SpawnUnmarked(s) ==   \* mutant: RestartRequired is not set
    /\ revert[s].pc = "idle"
    /\ revert' = [revert EXCEPT ![s].pc = "task"]
    /\ UNCHANGED restart

Spawn(s) ==
    /\ revert[s].pc = "idle"
    /\ revert' = [revert EXCEPT ![s].pc = "task"]
    /\ restart' = TRUE

\* BiosAttributeUpdation; the goroutine gets the copy of the object.  Without recorded
\* attributes the request is empty: ODIM takes it or not.
RevertBiosPatch(c) ==
    /\ CallIn(c, "biosPatch")
    /\ \/ /\ machine' = IF caller[c].value = Nothing THEN machine
                        ELSE [machine EXCEPT !.next = caller[c].value]
          /\ \E s \in Slots :
                /\ Spawn(s)
                /\ fresh' = [fresh EXCEPT ![s] = fresh[c] \cap {"own"}, ![c] = @ \ {"own"}]
          /\ UNCHANGED budget
       \/ /\ \/ caller[c].value = Nothing /\ UNCHANGED budget
             \/ Disturb("fault") \/ Disturb("taskFault")
          /\ fresh' = [fresh EXCEPT ![c] = @ \ {"own"}]
          /\ UNCHANGED <<machine, restart, revert>>
    /\ AfterBios(c)
    /\ UNCHANGED <<bmc, bios, boot, queue>> /\ CallRest

\* AccommodateState and RevertState, of the copy made at the start.  A machine whose
\* status cannot be read is not taken for one under reset.
PowerCheck(c) ==
    /\ CallIn(c, "power") /\ Undergoing(caller[c].reset)
    /\ \/ CallEnds(c) /\ Forget(c) /\ UNCHANGED budget
       \/ /\ Disturb("readFault")
          /\ caller' = [caller EXCEPT ![c].reset = Empty] /\ UNCHANGED fresh
    /\ UNCHANGED <<machine, restart, bmc, bios, boot, queue, revert>> /\ CallRest

AccPower(c) ==
    /\ Mode("Accommodate") /\ CallIn(c, "power") /\ ~Undergoing(caller[c].reset)
    /\ \E v \in {machine.power, Empty} :
          /\ IF v = Empty THEN Disturb("readFault") ELSE UNCHANGED budget
          /\ IF "bmc" \in fresh[c] /\ v # bmc.power
             THEN /\ bmc' = [bmc EXCEPT !.power = v]
                  /\ fresh' = [p \in Procs |-> IF p = c THEN {} ELSE fresh[p] \ {"bmc"}]
             ELSE Forget(c) /\ UNCHANGED bmc
    /\ CallEnds(c)
    /\ UNCHANGED <<machine, restart, bios, boot, queue, revert>> /\ CallRest

ResetTypeOf(power) == IF power = "Off" THEN "ForceOff" ELSE power

RevertPower(c) ==
    /\ Mode("Revert") /\ CallIn(c, "power") /\ ~Undergoing(caller[c].reset)
    /\ \/ /\ machine' = IF caller[c].power = machine.power THEN machine
                        ELSE Reset(machine, ResetTypeOf(caller[c].power))
          /\ UNCHANGED budget
       \/ (Disturb("fault") \/ Disturb("taskFault")) /\ UNCHANGED machine
    /\ CallEnds(c) /\ Forget(c)
    /\ UNCHANGED <<restart, bmc, bios, boot, queue, revert>> /\ CallRest

CallStep(c) == BootCheck(c) \/ AccBoot(c) \/ RevertBoot(c) \/ RevertBootPatch(c)
                 \/ AccBios(c) \/ AccBiosStatus(c) \/ RevertBios(c) \/ RevertBiosPatch(c)
                 \/ PowerCheck(c) \/ AccPower(c) \/ RevertPower(c)

-----------------------------------------------------------------------------
(* The goroutine of CheckAndRevertBios: ResetSystem, then the object.      *)

GoIn(s, place) == revert[s].pc = place
GoOthers == UNCHANGED <<worker, editor, caller>>
GoTo(s, place) == revert' = [revert EXCEPT ![s].pc = place] /\ GoOthers
GoReads(s, place, v) == revert' = [revert EXCEPT ![s] = [pc |-> place, read |-> v]] /\ GoOthers
GoEnds(s) == revert' = [revert EXCEPT ![s] = NoRevert] /\ GoOthers

\* When the reset fails the restart stays required.
GoTask(s) == GoIn(s, "task") /\ ResetTask("ForceRestart", GoTo(s, "bios"), GoEnds(s))

GoBios(s) ==
    /\ GoIn(s, "bios")
    /\ ResetBios(s, GoReads(s, "biosStatus", getUpdatedBiosAttributes),
                 GoReads(s, "biosStatus", Nothing))
GoBiosStatus(s) ==
    GoIn(s, "biosStatus") /\ ResetBiosStatus(s, revert[s].read, GoReads(s, "boot", Nothing))
GoBoot(s) == GoIn(s, "boot") /\ ResetBoot(GoTo(s, "read"))

\* The attributes of the machine are read into the copy the goroutine was started with.
GoRead(s) ==
    /\ GoIn(s, "read")
    /\ \E v \in {machine.bios, Nothing} :
          /\ IF v = Nothing THEN Disturb("readFault") ELSE UNCHANGED budget
          /\ IF "own" \in fresh[s] /\ v # bios.status
             THEN bios' = [bios EXCEPT !.status = v] /\ Outdate("bios", None)
             ELSE Forget(s) /\ UNCHANGED bios
    /\ GoEnds(s)
    /\ UNCHANGED <<setup, entry, machine, access, bmc, boot, queue, restart>>

GoStep(s) == GoTask(s) \/ GoBios(s) \/ GoBiosStatus(s) \/ GoBoot(s) \/ GoRead(s)

-----------------------------------------------------------------------------
(* The system.                                                             *)

UserRest == UNCHANGED <<setup, entry, machine, access, bmc, restart, worker, editor, caller, revert>>

ApplyBios(v) ==
    /\ Disturb("bios")
    /\ bios # NoObject /\ v # bios.spec
    /\ bios' = [bios EXCEPT !.spec = v]
    /\ Outdate("bios", None) /\ queue' = queue \cup {"bios"}
    /\ UNCHANGED boot /\ UserRest

ApplyBoot(v) ==
    /\ v # boot.spec
    /\ \/ Disturb("boot") /\ boot' = [boot EXCEPT !.spec = v, !.named = TRUE]
       \/ Disturb("bootByID") /\ boot' = [boot EXCEPT !.spec = v, !.named = FALSE]
    /\ Outdate("boot", None) /\ queue' = queue \cup {"boot"}
    /\ UNCHANGED bios /\ UserRest

DeleteBios ==
    /\ Disturb("biosDelete")
    /\ bios # NoObject
    /\ bios' = NoObject
    /\ Outdate("bios", None) /\ queue' = queue \cup {"bios"}
    /\ UNCHANGED boot /\ UserRest

Next ==
    \/ Work \/ BiosWork \/ BootWork
    \/ \E c \in Callers : CallStart(c) \/ CallStep(c)
    \/ \E s \in Slots : GoStep(s)
    \/ ApplyPassword \/ \E r \in Requests : ApplyReset(r)
    \/ \E v \in Values : ApplyBios(v) \/ ApplyBoot(v)
    \/ DeleteBios \/ Touch \/ External \/ Crash

Spec == Init /\ [][Next]_vars

\* The workers, the goroutines and the ticker go on; disturbances happen or not.
Fairness ==
    /\ WF_vars(Work) /\ WF_vars(BiosWork) /\ WF_vars(BootWork)
    /\ WF_vars(CallStart("poll"))
    /\ \A c \in Callers : WF_vars(CallStep(c))
    /\ \A s \in Slots : WF_vars(GoStep(s))

FairSpec == Spec /\ Fairness

-----------------------------------------------------------------------------
(* Properties.                                                             *)

Powers == {"On", "Off"}

\* Where BmcReconciler is while it answers a request, and where a goroutine of Revert is
\* until the machine has started again.
Answering == {"validate", "task", "bios", "biosStatus", "boot", "status"}
Restarting == {"task", "bios", "biosStatus", "boot"}

\* Every variable keeps to its set.
TypeOK ==
    /\ setup \in Setups /\ entry \in {"none", "added", "own"}
    /\ machine \in [power : Powers, bios : Values, next : Values, boot : Values]
    /\ access \in [bmc : Passwords, odim : Passwords]
    /\ bmc \in [power : Powers \cup {Empty}, reset : {Empty, "Bios", "Volume", "Done"},
                request : Requests \cup {None}, password : Passwords \cup {None},
                old : Passwords]
    /\ bios \in Settings \cup {NoObject} /\ boot \in BootSettings
    /\ restart \in BOOLEAN
    /\ fresh \in [Procs -> SUBSET {"bmc", "bios", "boot", "own"}]
    /\ queue \subseteq {"bmc", "bios", "boot"}
    /\ worker \in [pc : {"idle", "password", "odim", "update"} \cup Answering,
                   request : Requests \cup {None}, password : Passwords \cup {None},
                   old : Passwords \cup {None}, read : Values \cup {Nothing}]
    /\ editor \in [Editors -> [pc : {"idle", "patch", "patchByID", "nil", "mark", "read"},
                               value : Values \cup {Nothing}]]
    /\ caller \in [Callers -> [pc : {"idle", "check", "boot", "bootPatch", "bios",
                                     "biosStatus", "biosPatch", "power"},
                               power : Powers \cup {Empty},
                               reset : {Empty, "Bios", "Volume", "Done"},
                               value : Values \cup {Nothing}]]
    /\ revert \in [Slots -> [pc : {"idle", "task", "bios", "biosStatus", "boot", "read"}, read : Values \cup {Nothing}]]
    /\ budget \in 0 .. setup.times

\* The process ends again and again: for want of the BIOS object, of the accounts of a
\* machine that ODIM is locked out of, or of the Bmc object of a boot order without its
\* name.
Doomed == bios = NoObject \/ LockedOut \/ (boot.spec # None /\ ~boot.named)

\* Whatever is asked for is answered, unless nothing is known of the machine's model, or
\* the process ends every time it gets that far.
ResetsAreAnswered ==
    Allowable # {} => (bmc.request # None) ~> (bmc.request = None \/ Doomed)

\* What ends the process, or may.
Endings == {"crash", "biosDelete", "bootByID", "taskFault", "readFault"}

\* A password the user sets is in the end that of the machine, of ODIM and of the object,
\* whatever else is written and whenever the operator restarts, but between the update of
\* the machine and that of ODIM: that locks ODIM out for good.  But for requests that
\* fail, too, and as long as no BIOS attributes wait for a reset.
PasswordIsSet ==
    setup.kinds \cap {"fault", "volume"} = {} =>
        <>[](\/ bmc.password = None /\ bmc.old = access.bmc /\ bmc.old = access.odim
             \/ bmc.password # None /\ bmc.reset = "Bios"
             \/ LockedOut /\ setup.kinds \cap Endings # {})

\* RestartRequired keeps Revert from restarting a machine that it is restarting, when no
\* reset that the user asks for clears the entry and no event has read it before it was
\* set.
OneRestartAtATime ==
    setup.kinds \cap {"reset", "event"} = {} =>
        Cardinality({s \in Slots : revert[s].pc = "task"}) <= 1

\* What a worker has in hand is there: a password for the machine, the one to come back to,
\* a request, an edit, and the BIOS object its copy of is the stored one.
CopiesInv ==
    /\ worker.pc # "idle" => worker.old \in Passwords
    /\ worker.pc \in {"password", "odim"} => worker.password \in Passwords
    /\ worker.pc \in Answering => worker.request \in Requests
    /\ \A e \in Editors :
          editor[e].pc \in {"patch", "patchByID"} => editor[e].value \in Values
    /\ \A p \in Procs : "own" \in fresh[p] => bios # NoObject

\* Nobody but the poll starts a restart, and it has seen that none is required; nobody but
\* the goroutine that restarts the machine takes the entry of RestartRequired out.
RestartInv ==
    setup.kinds \cap {"reset", "event"} = {} =>
        /\ bmc.request = None /\ worker.request = None
        /\ caller["event"].pc = "idle"
        /\ caller["poll"].pc = "biosPatch" => ~restart
        /\ \A s \in Slots : revert[s].pc \in Restarting => restart
        /\ \A s, t \in Slots : {revert[s].pc, revert[t].pc} \subseteq Restarting => s = t

\* Everything the properties rest on, together: an inductive invariant.
Inv == TypeOK /\ CopiesInv /\ RestartInv

\* Accommodate: in the end the BIOS attributes of the object are those of the machine.
\* Revert: if the object has any.  A restart that fails is never repeated.
BiosSettles ==
    (Mode("Revert") => setup.kinds \cap {"taskFault", "power", "reset"} = {}) =>
        <>[](Doomed \/ (Mode("Revert") /\ bios.status = Nothing)
               \/ bios.status = machine.bios)

\* In the end object and machine have the same boot order, and are both on or off,
\* unless a reset is pending.  Accommodate does not look at the boot order of a machine
\* that this process has added.
BootAndPowerSettle ==
    <>[](Doomed \/ bmc.reset \in {"Bios", "Volume"}
           \/ /\ boot.status = machine.boot \/ (Mode("Accommodate") /\ entry = "own")
              /\ bmc.power = machine.power)

\* A boot order the user edits is taken over, even when the update that answers it is
\* refused because the status was written meanwhile; but for requests that fail.
BootIsSet ==
    setup.kinds \cap {"fault", "taskFault", "readFault"} = {} =>
        (boot.spec # None) ~> (boot.spec = None \/ Doomed)

=============================================================================
