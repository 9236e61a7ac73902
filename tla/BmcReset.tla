------------------------------ MODULE BmcReset ------------------------------
(***************************************************************************)
(* A machine that is reset, and gets another password.                     *)
(*                                                                         *)
(* BmcReconciler (controllers/bmc/bmc_controller.go) answers what the user *)
(* writes into the spec of a Bmc object that is managed: a password goes   *)
(* to the machine and then to ODIM, a power state with a reset type        *)
(* becomes a reset, after which the BIOS and boot objects are brought up   *)
(* to date.  One reconcile takes minutes; its copy of the object is        *)
(* written back only at the end, and refused when anybody has written to   *)
(* the object meanwhile.                                                   *)
(***************************************************************************)
EXTENDS Naturals, FiniteSets, FiniteSetsExt

CONSTANTS
    Values,           \* the BIOS attributes, or the boot order, as a whole
    Passwords,        \* numbered, in the order in which they are used
    None,             \* no password, no request, no edit
    Nothing,          \* attributes that are missing
    NoObject,
    Requests,         \* what the user asks for: records of a power state and a reset type
    Allowable,        \* AllowableResetValues of the machine's model, {} when it has none
    Slots,            \* goroutines that Revert may have running
    Setups            \* records of a mode, of whether this process has added the machine,
                      \* of the disturbances that may happen and of how many of them may

ResetTypes == {"On", "ForceOn", "ForceOff", "GracefulShutdown", "ForceRestart",
               "GracefulRestart", "PushPowerButton", "PowerCycle", "Nmi", "Pause",
               "Resume", "Suspend"}

DisturbanceKinds == {"password", "reset", "bios", "boot", "external", "power", "touch",
                     "volume", "event", "biosDelete", "bootByID", "fault", "taskFault",
                     "readFault", "slow", "crash"}

Empty == ""    \* a field of a status, when nothing was read or is pending

Settings == [spec : Values \cup {None}, status : Values \cup {Nothing}]
BootSettings ==
    [spec : Values \cup {None}, status : Values \cup {Nothing}, named : BOOLEAN]

ASSUME ResetAssumption ==
    /\ Passwords \subseteq Nat \ {0} /\ 1 \in Passwords
    /\ None \notin Values /\ Nothing \notin Values /\ None \notin Requests
    /\ NoObject \notin Settings
    /\ Requests \subseteq [power : {"On", "Off"}, type : ResetTypes]
    /\ Allowable \subseteq ResetTypes
    /\ Setups \subseteq [mode : {"Accommodate", "Revert"}, own : BOOLEAN,
                          kinds : SUBSET DisturbanceKinds, times : Nat]

VARIABLES
    setup,      \* config.Data.Reconciliation, and what may happen
    entry,      \* the machine in MapOfBmc: not yet, found there by the poll, or made by the
                \* reconciler or the poll that added it or its object ("own")
    machine,    \* its power, BIOS attributes now and after the next start, boot order
    access,     \* the password of the BMC, and the one ODIM uses for it
    bmc,        \* the Bmc object: power and SystemReset of its status, request and new
                \* password of its spec, its annotation old_password
    bios,       \* the BiosSetting object
    boot,       \* the BootOrderSetting object; its spec is by BmcName or not
    restart,    \* common.RestartRequired has the machine
    fresh,      \* per process, the objects its copy of is still the stored one
    queue,      \* the objects that are in the work queues of their reconcilers
    worker,     \* BmcReconciler's only worker: place, and its copy of the spec
    editor,     \* those of BiosSettingReconciler and BootOrderSettingsReconciler
    caller,     \* polling loop and events: place, copies of power, SystemReset, settings
    revert,     \* the goroutines of Revert: place, attributes read
    budget      \* disturbances still to come

kubeVars == <<bmc, bios, boot, fresh, queue>>
vars == <<setup, entry, machine, access, restart, kubeVars, worker, editor, caller, revert, budget>>

-----------------------------------------------------------------------------
(* The state.                                                              *)

Editors == {"bios", "boot"}
Callers == {"poll", "event"}
Procs == {"bmc"} \cup Editors \cup Callers \cup Slots

NoWorker == [pc |-> "idle", request |-> None, password |-> None, old |-> None,
             read |-> Nothing]
NoEditor == [pc |-> "idle", value |-> Nothing]
NoCaller == [pc |-> "idle", power |-> Empty, reset |-> Empty, value |-> Nothing]
NoRevert == [pc |-> "idle", read |-> Nothing]

Idle ==
    /\ restart = FALSE
    /\ worker = NoWorker
    /\ editor = [e \in Editors |-> NoEditor]
    /\ caller = [c \in Callers |-> NoCaller]
    /\ revert = [s \in Slots |-> NoRevert]

Init ==
    /\ setup \in Setups
    /\ entry = IF setup.own THEN "own" ELSE "none"
    /\ \E v \in Values : machine = [power |-> "On", bios |-> v, next |-> v, boot |-> v]
    /\ access = [bmc |-> 1, odim |-> 1]
    /\ bmc = [power |-> "On", reset |-> Empty, request |-> None, password |-> None, old |-> 1]
    /\ bios = [spec |-> None, status |-> machine.bios]
    /\ boot = [spec |-> None, status |-> machine.boot, named |-> TRUE]
    /\ fresh = [p \in Procs |-> {}] /\ queue = {}
    /\ Idle
    /\ budget = setup.times

Mode(m) == setup.mode = m

Disturb(kind) ==
    /\ kind \in setup.kinds
    /\ budget > 0
    /\ budget' = budget - 1

-----------------------------------------------------------------------------
(* Kubernetes.                                                             *)

\* The copies of the object x become outdated, except that of p, and the copy "own"
\* that a goroutine of Revert was started with.
Outdate(x, p) ==
    fresh' = [q \in Procs |-> IF q = p THEN (fresh[q] \ {"own"}) \cup {x}
                              ELSE IF x = "bios" THEN fresh[q] \ {"bios", "own"}
                              ELSE fresh[q] \ {x}]

Read(p, x) == fresh' = [fresh EXCEPT ![p] = @ \cup {x}]
Forget(p) == fresh' = [fresh EXCEPT ![p] = {}]

BootQueueFiltered == queue   \* mutant: updates of the status are ignored

\* The boot controller looks at every update of its object (it has no IgnoreStatusUpdate),
\* the others at those of a spec.
BootQueue == queue \cup {"boot"}

\* Updates of p's copy, refused when that is outdated.
UpdateBmc(p, o, q) ==
    IF "bmc" \in fresh[p]
    THEN bmc' = o /\ (IF o = bmc THEN UNCHANGED fresh ELSE Outdate("bmc", p)) /\ queue' = q
    ELSE UNCHANGED <<bmc, fresh, queue>>

UpdateBoot(p, o) ==
    /\ IF "boot" \in fresh[p] /\ o # boot
       THEN boot' = o /\ Outdate("boot", p) /\ queue' = BootQueue
       ELSE UNCHANGED <<boot, fresh, queue>>
    /\ UNCHANGED <<bmc, bios>>

-----------------------------------------------------------------------------
(* The machine and the process.                                            *)

\* What a reset does to the machine; a start takes over the pending BIOS attributes.
Started(m) == [m EXCEPT !.power = "On", !.bios = m.next]
Reset(m, type) ==
    IF \/ type \in {"On", "ForceOn", "ForceRestart", "GracefulRestart", "PowerCycle"}
       \/ type = "PushPowerButton" /\ m.power = "Off"
    THEN Started(m)
    ELSE IF type \in {"ForceOff", "GracefulShutdown", "PushPowerButton", "Suspend"}
    THEN [m EXCEPT !.power = "Off"]
    ELSE m

\* It starts again, the BIOS object being b: all objects are listed and reconciled, the
\* rest is forgotten.
RestartWith(b) ==
    /\ bios' = b
    /\ fresh' = [p \in Procs |-> {}]
    /\ queue' = {"bmc", "boot"} \cup IF b = NoObject THEN {} ELSE {"bios"}
    /\ restart' = FALSE
    /\ worker' = NoWorker
    /\ editor' = [e \in Editors |-> NoEditor]
    /\ caller' = [c \in Callers |-> NoCaller]
    /\ revert' = [s \in Slots |-> NoRevert]
    /\ entry' = "none"
    /\ UNCHANGED <<setup, machine, access, bmc, boot>>

Restart == RestartWith(bios)

Crash == Disturb("crash") /\ Restart

\* A nil pointer, for want of a BIOS object or of an answer.
Panic == Restart /\ UNCHANGED budget
PanicOn(kind) == Restart /\ Disturb(kind)

-----------------------------------------------------------------------------
(* BmcReconciler.Reconcile, of an object that has been added.              *)

WorkIn(place) == worker.pc = place
WorkTo(place) == worker' = [worker EXCEPT !.pc = place]
WorkEnds == worker' = NoWorker

\* A password waits while a reset for the BIOS attributes is pending.
HasPassword == bmc.password # None /\ bmc.reset # "Bios"

WorkStart ==
    /\ WorkIn("idle") /\ "bmc" \in queue
    /\ \/ /\ Disturb("fault") /\ UNCHANGED <<worker, fresh, queue>>   \* NewRestClient
       \/ /\ IF HasPassword \/ bmc.request # None
             THEN /\ worker' = [pc |-> IF HasPassword THEN "password" ELSE "validate",
                                request |-> bmc.request, password |-> bmc.password,
                                old |-> bmc.old, read |-> Nothing]
                  /\ Read("bmc", "bmc")
             ELSE UNCHANGED <<worker, fresh>>
          /\ queue' = queue \ {"bmc"}
          /\ UNCHANGED budget
    /\ UNCHANGED <<setup, entry, machine, access, bmc, bios, boot, restart, editor, caller, revert>>

AfterPasswordKept(old) ==   \* mutant: old_password stays what it is
    worker' = [worker EXCEPT !.password = None,
                  !.pc = IF worker.request = None THEN "update" ELSE "validate"]

\* Where a reconcile goes on after the password, which is encrypted now: the new one,
\* or again the old one.
AfterPassword(old) ==
    worker' = [worker EXCEPT !.password = None, !.old = old,
                  !.pc = IF worker.request = None THEN "update" ELSE "validate"]

\* The machine has a password that ODIM does not know, and nobody tells it.
LockedOut == access.bmc # access.odim

\* updateBmcWithNewPassword: the accounts, which ODIM reads, the update, its task.
WorkPasswordBmc ==
    /\ WorkIn("password")
    /\ \/ /\ worker.old = worker.password
          /\ AfterPassword(worker.old) /\ UNCHANGED <<access, budget>>
       \/ /\ worker.old # worker.password /\ ~LockedOut
          /\ access' = [access EXCEPT !.bmc = worker.password]
          /\ WorkTo("odim") /\ UNCHANGED budget
       \/ /\ worker.old # worker.password /\ ~LockedOut
          /\ Disturb("fault")
          /\ AfterPassword(worker.old)
          /\ access' \in {access, [access EXCEPT !.bmc = worker.password]}
    /\ UNCHANGED <<setup, entry, machine, kubeVars, restart, editor, caller, revert>>

\* updateOdimWithNewPassword.  Refused, the spec gets the old password back, which the
\* machine no longer has.  An answer that does not arrive is a nil pointer.
WorkPasswordOdim ==
    /\ WorkIn("odim")
    /\ \/ /\ access' = [access EXCEPT !.odim = worker.password]
          /\ AfterPassword(worker.password) /\ UNCHANGED budget
       \/ /\ Disturb("fault") /\ AfterPassword(worker.old) /\ UNCHANGED access
    /\ UNCHANGED <<setup, entry, machine, kubeVars, restart, editor, caller, revert>>

\* Accounts that ODIM cannot read have no Members.
WorkPasswordPanic ==
    /\ WorkIn("password") /\ worker.old # worker.password
    /\ IF LockedOut THEN Panic ELSE PanicOn("readFault")

WorkOdimPanic == WorkIn("odim") /\ PanicOn("fault")

\* ResetWhenOnOn, ResetWhenOffOff, ResetWhenOnOff and ResetWhenOffOn
ResetWhen == [On |-> [On |-> {"ForceRestart", "GracefulRestart", "Pause", "Nmi",
                              "PowerCycle", "Suspend"},
                      Off |-> {"GracefulShutdown", "ForceOff", "Pause",
                               "PushPowerButton", "Suspend"}],
              Off |-> [On |-> {"On", "ForceOn", "PowerCycle", "PushPowerButton"},
                       Off |-> {}]]

validateResetData(power, r) == r.type \in Allowable /\ r.type \in ResetWhen[power][r.power]

\* The power state is read; a request that cannot be carried out, or judged, is dropped.
\* Of an unknown model nothing is allowed, and nothing is answered.
WorkValidate ==
    /\ WorkIn("validate")
    /\ IF Allowable = {} THEN WorkEnds /\ Forget("bmc") /\ UNCHANGED budget
       ELSE /\ \/ /\ validateResetData(machine.power, worker.request)
                  /\ WorkTo("task") /\ UNCHANGED budget
               \/ /\ ~validateResetData(machine.power, worker.request)
                  /\ WorkTo("update") /\ UNCHANGED budget
               \/ WorkTo("update") /\ Disturb("readFault")
            /\ UNCHANGED fresh
    /\ UNCHANGED <<setup, entry, machine, access, bmc, bios, boot, queue, restart, editor,
                   caller, revert>>

-----------------------------------------------------------------------------
(* ResetSystem, of BmcReconciler and of the goroutines of Revert.          *)

\* The request and its task: the reset is done, or it is not (Refused is what comes then).
\* A request that fails is a nil pointer.
ResetTask(type, Done, Refused) ==
    \/ /\ \/ Done /\ machine' = Reset(machine, type) /\ UNCHANGED budget
          \/ Refused /\ UNCHANGED machine /\ Disturb("taskFault")
          \/ /\ machine.power = "Off" /\ type = "ForceRestart"
             /\ Refused /\ UNCHANGED <<machine, budget>>
       /\ UNCHANGED <<setup, entry, access, kubeVars, restart>>
    \/ PanicOn("fault")

\* getUpdatedBiosAttributes: five reads, until they are no longer those of the object;
\* otherwise, nothing.
getUpdatedBiosAttributes == IF machine.bios # bios.status THEN machine.bios ELSE Nothing

ResetBios(p, Known, Unread) ==
    IF bios = NoObject THEN Panic
    ELSE /\ \/ Known /\ UNCHANGED budget
            \/ Unread /\ Disturb("readFault")
         /\ Read(p, "bios")
         /\ UNCHANGED <<setup, entry, machine, access, bmc, bios, boot, queue, restart>>

\* UpdateBiosAttributesOnReset: the spec of the copy, then the status of the object.
ResetBiosStatus(p, v, Next) ==
    IF bios = NoObject THEN Panic
    ELSE /\ bios' = [bios EXCEPT !.spec = IF "bios" \in fresh[p] THEN None ELSE @,
                                 !.status = v]
         /\ IF bios' = bios THEN fresh' = [fresh EXCEPT ![p] = @ \ {"bios"}]
            ELSE Outdate("bios", None)
         /\ Next /\ UNCHANGED <<setup, entry, machine, access, bmc, boot, queue, restart, budget>>

ResetBootKeepsEntry(Next) ==   \* mutant: the entry of RestartRequired stays
    /\ \/ /\ boot' = [boot EXCEPT !.status = machine.boot]
          /\ IF boot' = boot THEN UNCHANGED <<fresh, queue>>
             ELSE Outdate("boot", None) /\ queue' = BootQueue
          /\ UNCHANGED budget
       \/ Disturb("readFault") /\ UNCHANGED <<boot, fresh, queue>>
    /\ Next /\ UNCHANGED <<setup, entry, machine, access, bmc, bios, restart>>

\* UpdateBootAttributesOnReset and the end: the machine has been restarted.
ResetBoot(Next) ==
    /\ \/ /\ boot' = [boot EXCEPT !.status = machine.boot]
          /\ IF boot' = boot THEN UNCHANGED <<fresh, queue>>
             ELSE Outdate("boot", None) /\ queue' = BootQueue
          /\ UNCHANGED budget
       \/ Disturb("readFault") /\ UNCHANGED <<boot, fresh, queue>>
    /\ restart' = FALSE
    /\ Next /\ UNCHANGED <<setup, entry, machine, access, bmc, bios>>

-----------------------------------------------------------------------------
(* The rest of BmcReconciler.                                              *)

WorkReads(v) == worker' = [worker EXCEPT !.pc = "biosStatus", !.read = v]

Others == UNCHANGED <<editor, caller, revert>>

WorkTask ==
    /\ WorkIn("task")
    /\ ResetTask(worker.request.type, WorkTo("bios") /\ Others, WorkTo("update") /\ Others)

WorkBios ==
    /\ WorkIn("bios")
    /\ ResetBios("bmc", WorkReads(getUpdatedBiosAttributes) /\ Others,
                 WorkReads(Nothing) /\ Others)

WorkBiosStatus ==
    WorkIn("biosStatus") /\ ResetBiosStatus("bmc", worker.read, WorkTo("boot") /\ Others)

WorkBoot == WorkIn("boot") /\ ResetBoot(WorkTo("status") /\ Others)

\* UpdateBmcStatus.  The answer is the stored object, so that the copy's spec is again
\* what it was when the object was read.
WorkStatus ==
    /\ WorkIn("status")
    /\ UpdateBmc("bmc", [bmc EXCEPT !.power = worker.request.power, !.reset = "Done"], queue)
    /\ worker' = [worker EXCEPT !.pc = "update", !.read = Nothing,
                     !.password = IF "bmc" \in fresh["bmc"] THEN bmc.password ELSE @,
                     !.old = IF "bmc" \in fresh["bmc"] THEN bmc.old ELSE @]
    /\ UNCHANGED <<setup, entry, machine, access, bios, boot, restart, budget>> /\ Others

WorkUpdateForgets ==   \* mutant: a refused update is not repeated
    /\ WorkIn("update")
    /\ IF "bmc" \in fresh["bmc"]
       THEN /\ bmc' = [bmc EXCEPT !.request = None, !.password = worker.password,
                                  !.old = worker.old]
            /\ Outdate("bmc", None) /\ queue' = queue \cup {"bmc"}
       ELSE /\ Forget("bmc") /\ UNCHANGED <<bmc, queue>>
    /\ WorkEnds
    /\ UNCHANGED <<setup, entry, machine, access, bios, boot, restart, budget>> /\ Others

\* The spec: request answered, password encrypted.  Refused, all of it is repeated.
WorkUpdate ==
    /\ WorkIn("update")
    /\ IF "bmc" \in fresh["bmc"]
       THEN /\ bmc' = [bmc EXCEPT !.request = None, !.password = worker.password,
                                  !.old = worker.old]
            /\ fresh' = [p \in Procs |-> IF p = "bmc" THEN {} ELSE fresh[p] \ {"bmc"}]
       ELSE Forget("bmc") /\ UNCHANGED bmc
    /\ queue' = queue \cup {"bmc"}
    /\ WorkEnds
    /\ UNCHANGED <<setup, entry, machine, access, bios, boot, restart, budget>> /\ Others

Work == WorkStart \/ WorkPasswordBmc \/ WorkPasswordOdim \/ WorkPasswordPanic
          \/ WorkOdimPanic \/ WorkValidate \/ WorkTask \/ WorkBios \/ WorkBiosStatus
          \/ WorkBoot \/ WorkStatus \/ WorkUpdate

-----------------------------------------------------------------------------
(* The user and the world.                                                 *)

\* A password that was not used before.
ApplyPassword ==
    /\ Disturb("password")
    /\ \E p \in Passwords :
          /\ p = 1 + Max({bmc.old, access.bmc, access.odim}
                           \cup IF bmc.password = None THEN {} ELSE {bmc.password})
          /\ bmc' = [bmc EXCEPT !.password = p]
    /\ Outdate("bmc", None) /\ queue' = queue \cup {"bmc"}
    /\ UNCHANGED <<setup, entry, machine, access, bios, boot, restart, worker>> /\ Others

ApplyReset(r) ==
    /\ Disturb("reset")
    /\ bmc.request # r
    /\ bmc' = [bmc EXCEPT !.request = r]
    /\ Outdate("bmc", None) /\ queue' = queue \cup {"bmc"}
    /\ UNCHANGED <<setup, entry, machine, access, bios, boot, restart, worker>> /\ Others

\* The object is written by somebody else: its labels, or SystemReset by VolumeReconciler,
\* which has the same field for what it waits for.
Touch ==
    /\ \/ Disturb("touch") /\ UNCHANGED bmc
       \/ Disturb("volume") /\ bmc' = [bmc EXCEPT !.reset = "Volume"]
    /\ Outdate("bmc", None)
    /\ UNCHANGED <<setup, entry, machine, access, bios, boot, queue, restart, worker>> /\ Others

\* The machine is switched, or gets other settings, past the operator.
External ==
    /\ \/ /\ Disturb("power")
          /\ machine' \in IF machine.power = "On" THEN {[machine EXCEPT !.power = "Off"]}
                          ELSE {Started(machine)}
       \/ /\ Disturb("external")
          /\ \E v \in Values :
                \/ v # machine.bios /\ machine' = [machine EXCEPT !.bios = v, !.next = v]
                \/ v # machine.boot /\ machine' = [machine EXCEPT !.boot = v]
    /\ UNCHANGED <<setup, entry, access, kubeVars, restart, worker>> /\ Others

=============================================================================
