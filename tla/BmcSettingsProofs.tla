--------------------------- MODULE BmcSettingsProofs ---------------------------
(***************************************************************************)
(* The safety properties of BmcSettings, for every number of goroutines,   *)
(* values, passwords, requests and disturbances.                           *)
(***************************************************************************)
EXTENDS BmcSettings, FiniteSetTheorems, TLAPS

Calm == setup.kinds \cap {"reset", "event"} = {}

\* The state, part by part.
SetupOK ==
    setup \in Setups /\ entry \in {"none", "added", "own"} /\ budget \in 0 .. setup.times

MachineOK ==
    /\ machine \in [power : Powers, bios : Values, next : Values, boot : Values]
    /\ access \in [bmc : Passwords, odim : Passwords]

BmcOK ==
    /\ bmc \in [power : Powers \cup {Empty}, reset : {Empty, "Bios", "Volume", "Done"},
                request : Requests \cup {None}, password : Passwords \cup {None},
                old : Passwords]
    /\ Calm => bmc.request = None

CopyOK == fresh \in [Procs -> SUBSET {"bmc", "bios", "boot", "own"}]

BiosOK ==
    /\ bios \in Settings \cup {NoObject}
    /\ bios = NoObject => \A p \in Procs : "own" \notin fresh[p]

BootOK == boot \in BootSettings /\ queue \subseteq {"bmc", "bios", "boot"}

WorkOK ==
    /\ worker \in [pc : {"idle", "password", "odim", "update"} \cup Answering,
                   request : Requests \cup {None}, password : Passwords \cup {None},
                   old : Passwords \cup {None}, read : Values \cup {Nothing}]
    /\ worker.pc # "idle" => worker.old \in Passwords
    /\ worker.pc \in {"password", "odim"} => worker.password \in Passwords
    /\ worker.pc \in Answering => worker.request \in Requests
    /\ Calm => worker.request = None

Patching == {"patch", "patchByID"}

Edit == [pc : {"idle", "patch", "patchByID", "nil", "mark", "read"},
         value : Values \cup {Nothing}]

EditOK ==
    /\ editor \in [Editors -> Edit]
    /\ \A e \in Editors : editor[e].pc \in Patching => editor[e].value \in Values

Call == [pc : {"idle", "check", "boot", "bootPatch", "bios", "biosStatus", "biosPatch", "power"},
         power : Powers \cup {Empty}, reset : {Empty, "Bios", "Volume", "Done"},
         value : Values \cup {Nothing}]

CallOK ==
    /\ caller \in [Callers -> Call]
    /\ Calm => caller["event"].pc = "idle"

Goroutine == [pc : {"idle", "task", "bios", "biosStatus", "boot", "read"}, read : Values \cup {Nothing}]

GoOK ==
    /\ revert \in [Slots -> Goroutine] /\ restart \in BOOLEAN
    /\ Calm => /\ caller["poll"].pc = "biosPatch" => ~restart
               /\ \A s \in Slots : revert[s].pc \in Restarting => restart
               /\ \A s, t \in Slots : revert[s].pc \in Restarting /\ revert[t].pc \in Restarting
                                         => s = t

InvOK == SetupOK /\ MachineOK /\ BmcOK /\ CopyOK /\ BiosOK /\ BootOK /\ WorkOK /\ EditOK
         /\ CallOK /\ GoOK

\* These parts are what BmcSettings promises.
LEMMA InvParts == Inv <=> InvOK
<1>1. TypeOK /\ CopiesInv <=>
        /\ SetupOK /\ MachineOK /\ CopyOK /\ BiosOK /\ BootOK /\ EditOK
        /\ bmc \in [power : Powers \cup {Empty}, reset : {Empty, "Bios", "Volume", "Done"},
                    request : Requests \cup {None}, password : Passwords \cup {None},
                    old : Passwords]
        /\ worker \in [pc : {"idle", "password", "odim", "update"} \cup Answering,
                       request : Requests \cup {None}, password : Passwords \cup {None},
                       old : Passwords \cup {None}, read : Values \cup {Nothing}]
        /\ worker.pc # "idle" => worker.old \in Passwords
        /\ worker.pc \in {"password", "odim"} => worker.password \in Passwords
        /\ worker.pc \in Answering => worker.request \in Requests
        /\ caller \in [Callers -> Call]
        /\ revert \in [Slots -> Goroutine]
        /\ restart \in BOOLEAN
  BY DEF TypeOK, CopiesInv, SetupOK, MachineOK, CopyOK, BiosOK, BootOK, EditOK, Call, Goroutine, Edit, Patching
<1>2. ASSUME NEW s \in Slots, NEW t \in Slots
      PROVE  {revert[s].pc, revert[t].pc} \subseteq Restarting
                <=> revert[s].pc \in Restarting /\ revert[t].pc \in Restarting
  OBVIOUS
<1>3. RestartInv <=>
        (Calm => /\ bmc.request = None /\ worker.request = None
                 /\ caller["event"].pc = "idle"
                 /\ caller["poll"].pc = "biosPatch" => ~restart
                 /\ \A s \in Slots : revert[s].pc \in Restarting => restart
                 /\ \A s, t \in Slots : revert[s].pc \in Restarting /\ revert[t].pc \in Restarting
                                         => s = t)
  BY <1>2 DEF RestartInv, Calm
<1> QED BY <1>1, <1>3 DEF Inv, InvOK, BmcOK, WorkOK, CallOK, GoOK

-----------------------------------------------------------------------------
(* What steps have in common.                                              *)

\* The disturbances that may still come become fewer, or stay as many.
LEMMA SetupKept ==
    ASSUME SetupOK, UNCHANGED setup, entry' \in {entry, "none", "added"},
           UNCHANGED budget \/ \E kind : Disturb(kind)
    PROVE  SetupOK'
<1>1. setup.times \in Nat
  BY ResetAssumption DEF SetupOK
<1> QED BY <1>1 DEF SetupOK, Disturb

\* Copies become outdated.
LEMMA OutdateOK ==
    ASSUME CopyOK, NEW x \in {"bmc", "bios", "boot"}, NEW p, Outdate(x, p)
    PROVE  /\ CopyOK'
           /\ \A q \in Procs : "own" \in fresh'[q] => "own" \in fresh[q] /\ x # "bios"
BY DEF CopyOK, Outdate

LEMMA ReadOK ==
    ASSUME CopyOK, NEW x \in {"bmc", "bios", "boot", "own"}, NEW p \in Procs, Read(p, x)
    PROVE  /\ CopyOK'
           /\ x # "own" => \A q \in Procs : "own" \in fresh'[q] => "own" \in fresh[q]
BY DEF CopyOK, Read

LEMMA ForgetOK ==
    ASSUME CopyOK, NEW p \in Procs, Forget(p)
    PROVE  CopyOK' /\ \A q \in Procs : fresh'[q] \subseteq fresh[q]
BY DEF CopyOK, Forget

\* What a step leaves alone stays as it should be.
LEMMA Kept ==
    ASSUME InvOK, UNCHANGED setup, entry' \in {entry, "none", "added"},
           UNCHANGED budget \/ \E kind : Disturb(kind)
    PROVE  /\ SetupOK' /\ (Calm' <=> Calm)
           /\ UNCHANGED <<machine, access>> => MachineOK'
           /\ UNCHANGED bmc => BmcOK'
           /\ UNCHANGED fresh => CopyOK'
           /\ UNCHANGED <<boot, queue>> => BootOK'
           /\ UNCHANGED worker => WorkOK'
           /\ UNCHANGED editor => EditOK'
           /\ UNCHANGED caller => CallOK'
           /\ UNCHANGED <<caller, restart, revert>> => GoOK'
           /\ UNCHANGED bios /\ (\A p \in Procs : "own" \in fresh'[p] => "own" \in fresh[p]) => BiosOK'
<1>1. SetupOK' /\ (Calm' <=> Calm)
  BY SetupKept DEF InvOK, Calm
<1>2. /\ UNCHANGED <<machine, access>> => MachineOK'
      /\ UNCHANGED bmc => BmcOK'
      /\ UNCHANGED fresh => CopyOK'
      /\ UNCHANGED <<boot, queue>> => BootOK'
  BY <1>1 DEF InvOK, MachineOK, BmcOK, CopyOK, BootOK
<1>3. UNCHANGED worker => WorkOK'
  BY <1>1 DEF InvOK, WorkOK
<1>4. UNCHANGED editor => EditOK'
  BY <1>1 DEF InvOK, EditOK
<1>5. UNCHANGED caller => CallOK'
  BY <1>1 DEF InvOK, CallOK
<1>6. UNCHANGED <<caller, restart, revert>> => GoOK'
  BY <1>1 DEF InvOK, GoOK
<1>7. UNCHANGED bios /\ (\A p \in Procs : "own" \in fresh'[p] => "own" \in fresh[p]) => BiosOK'
  BY DEF InvOK, BiosOK
<1> QED BY <1>1, <1>2, <1>3, <1>4, <1>5, <1>6, <1>7

\* The process starts again: objects and machine stay.
LEMMA RestartOK ==
    ASSUME InvOK, RestartWith(bios) \/ RestartWith(NoObject), UNCHANGED budget \/ \E kind : Disturb(kind)
    PROVE  InvOK'
<1> USE DEF RestartWith
<1>1. SetupOK' /\ MachineOK' /\ BmcOK' /\ (Calm' <=> Calm)
  BY Kept
<1>2. CopyOK' /\ BiosOK' /\ BootOK'
  <2>1. CopyOK'
    BY DEF CopyOK
  <2>2. BiosOK' /\ BootOK'
    BY DEF InvOK, BiosOK, BootOK
  <2> QED BY <2>1, <2>2
<1>3. WorkOK' /\ EditOK' /\ CallOK'
  <2>1. WorkOK'
    BY DEF WorkOK, NoWorker, Answering
  <2>2. EditOK'
    BY DEF EditOK, Edit, Patching, NoEditor
  <2>3. CallOK'
    BY DEF CallOK, Call, NoCaller, Callers
  <2> QED BY <2>1, <2>2, <2>3
<1>4. GoOK'
  <2>1. \A s \in Slots : revert'[s] = NoRevert
    OBVIOUS
  <2>2. revert' = [s \in Slots |-> NoRevert] /\ restart' = FALSE
    OBVIOUS
  <2>3. NoRevert \in Goroutine /\ NoRevert.pc \notin Restarting
    BY DEF NoRevert, Restarting, Goroutine
  <2> QED BY <2>1, <2>2, <2>3 DEF GoOK
<1> QED BY <1>1, <1>2, <1>3, <1>4 DEF InvOK

LEMMA PanicOK ==
    ASSUME InvOK, Panic \/ \E kind : PanicOn(kind)
    PROVE  InvOK'
BY RestartOK DEF Panic, PanicOn, Restart

-----------------------------------------------------------------------------
(* The reset of a machine, by whomever.                                    *)

LEMMA ResetOK ==
    ASSUME MachineOK, NEW type, machine' \in {machine, Reset(machine, type)}, UNCHANGED access
    PROVE  MachineOK'
<1>1. Reset(machine, type) \in [power : Powers, bios : Values, next : Values, boot : Values]
  BY DEF MachineOK, Reset, Started, Powers
<1> QED BY <1>1 DEF MachineOK

\* The spec of the BIOS object is answered, and its status becomes what was read.
LEMMA BiosStatusOK ==
    ASSUME InvOK, NEW p, NEW v \in Values \cup {Nothing}, bios # NoObject, UNCHANGED queue,
           bios' = [bios EXCEPT !.spec = IF "bios" \in fresh[p] THEN None ELSE @, !.status = v],
           IF bios' = bios THEN fresh' = [fresh EXCEPT ![p] = @ \ {"bios"}]
                           ELSE Outdate("bios", None)
    PROVE  BiosOK' /\ CopyOK'
<1>1. bios \in Settings
  BY DEF InvOK, BiosOK
<1>2. bios' \in Settings
  BY <1>1 DEF Settings
<1>3. CopyOK'
  <2>1. CASE fresh' = [fresh EXCEPT ![p] = @ \ {"bios"}]
    BY <2>1 DEF InvOK, CopyOK
  <2>2. CASE Outdate("bios", None)
    BY <2>2, OutdateOK DEF InvOK
  <2> QED BY <2>1, <2>2
<1> QED BY <1>2, <1>3, ResetAssumption DEF BiosOK

\* The status of the boot object becomes what was read, if anything was.
LEMMA BootStatusOK ==
    ASSUME InvOK, UNCHANGED bios,
           \/ /\ boot' = [boot EXCEPT !.status = machine.boot]
              /\ IF boot' = boot THEN UNCHANGED <<fresh, queue>>
                 ELSE Outdate("boot", None) /\ queue' = BootQueue
           \/ UNCHANGED <<boot, fresh, queue>>
    PROVE  BootOK' /\ CopyOK' /\ BiosOK'
<1>1. /\ boot' \in {boot, [boot EXCEPT !.status = machine.boot]}
      /\ UNCHANGED fresh \/ Outdate("boot", None)
      /\ queue' \in {queue, queue \cup {"boot"}}
  BY DEF BootQueue
<1>2. BootOK'
  BY <1>1 DEF InvOK, BootOK, MachineOK, BootSettings
<1>3. CopyOK' /\ \A q \in Procs : "own" \in fresh'[q] => "own" \in fresh[q]
  BY <1>1, OutdateOK DEF InvOK, CopyOK
<1>4. BiosOK'
  BY <1>1, <1>3 DEF InvOK, BiosOK
<1> QED BY <1>2, <1>3, <1>4

\* The process p updates the Bmc object, or is refused.
LEMMA UpdateBmcOK ==
    ASSUME InvOK, UNCHANGED <<bios, boot>>, NEW p, NEW o,
           NEW q, q \in {queue, queue \cup {"bmc"}},
           UpdateBmc(p, o, q)
    PROVE  BootOK' /\ CopyOK' /\ BiosOK'
<1>1. /\ UNCHANGED fresh \/ Outdate("bmc", p)
      /\ queue' \in {queue, q}
  BY DEF UpdateBmc
<1>2. BootOK'
  BY <1>1 DEF InvOK, BootOK
<1>3. CopyOK' /\ \A r \in Procs : "own" \in fresh'[r] => "own" \in fresh[r]
  BY <1>1, OutdateOK DEF InvOK, CopyOK
<1>4. BiosOK'
  BY <1>1, <1>3 DEF InvOK, BiosOK
<1> QED BY <1>2, <1>3, <1>4

-----------------------------------------------------------------------------
(* BmcReconciler.                                                          *)

LEMMA WorkStartOK ==
    ASSUME InvOK, WorkStart
    PROVE  InvOK'
<1>1. /\ UNCHANGED <<setup, entry, machine, access, bmc, bios, boot, restart, editor, caller, revert>>
      /\ UNCHANGED budget \/ \E kind : Disturb(kind)
      /\ queue' \in {queue, queue \ {"bmc"}}
      /\ UNCHANGED fresh \/ Read("bmc", "bmc")
  BY DEF WorkStart
<1>2. CopyOK' /\ \A q \in Procs : "own" \in fresh'[q] => "own" \in fresh[q]
  BY <1>1, ReadOK DEF InvOK, Procs, CopyOK
<1>3. BootOK' /\ BiosOK'
  BY <1>1, <1>2 DEF InvOK, BootOK, BiosOK
<1>4. WorkOK'
  <2>1. CASE UNCHANGED worker
    BY <1>1, <2>1, Kept
  <2>2. CASE /\ HasPassword \/ bmc.request # None
             /\ worker' = [pc |-> IF HasPassword THEN "password" ELSE "validate",
                           request |-> bmc.request, password |-> bmc.password,
                           old |-> bmc.old, read |-> Nothing]
    BY <1>1, <2>2, Kept DEF InvOK, WorkOK, BmcOK, HasPassword, Answering
  <2> QED BY <2>1, <2>2 DEF WorkStart
<1> QED BY <1>1, <1>2, <1>3, <1>4, Kept DEF InvOK

\* A reconcile goes on after the password: there is one to come back to.
LEMMA AfterPasswordOK ==
    ASSUME WorkOK, (Calm' <=> Calm), NEW old \in Passwords, AfterPassword(old)
    PROVE  WorkOK'
BY DEF WorkOK, AfterPassword, Answering

LEMMA WorkPasswordOK ==
    ASSUME InvOK, WorkPasswordBmc \/ WorkPasswordOdim
    PROVE  InvOK'
<1>1. /\ UNCHANGED <<setup, entry, machine, kubeVars, restart, editor, caller, revert>>
      /\ UNCHANGED budget \/ \E kind : Disturb(kind)
      /\ worker.pc \in {"password", "odim"}
      /\ access' \in {access, [access EXCEPT !.bmc = worker.password],
                      [access EXCEPT !.odim = worker.password]}
      /\ WorkTo("odim") \/ (\E old \in {worker.old, worker.password} : AfterPassword(old))
  BY DEF WorkPasswordBmc, WorkPasswordOdim, WorkIn
<1>2. worker.password \in Passwords /\ worker.old \in Passwords
  BY <1>1 DEF InvOK, WorkOK
<1>3. MachineOK'
  BY <1>1, <1>2 DEF InvOK, MachineOK
<1>4. WorkOK'
  <2>1. CASE WorkTo("odim")
    BY <1>1, <1>2, <2>1, Kept DEF InvOK, WorkOK, WorkTo, Answering
  <2>2. CASE \E old \in {worker.old, worker.password} : AfterPassword(old)
    BY <1>1, <1>2, <2>2, Kept, AfterPasswordOK DEF InvOK
  <2> QED BY <1>1, <2>1, <2>2
<1> QED BY <1>1, <1>3, <1>4, Kept DEF InvOK, kubeVars

\* A reconcile that answers a request goes from place to place.
LEMMA AnswerOK ==
    ASSUME WorkOK, (Calm' <=> Calm), worker.pc \in Answering,
           NEW place \in Answering \cup {"update"}, NEW v \in Values \cup {Nothing},
           worker' = [worker EXCEPT !.pc = place, !.read = v]
    PROVE  WorkOK'
BY DEF WorkOK, Answering

LEMMA WorkToOK ==
    ASSUME WorkOK, (Calm' <=> Calm), worker.pc \in Answering,
           NEW place \in Answering \cup {"update"}, WorkTo(place)
    PROVE  WorkOK'
BY DEF WorkOK, Answering, WorkTo

LEMMA WorkEndsOK ==
    ASSUME WorkEnds PROVE WorkOK'
BY DEF WorkEnds, NoWorker, WorkOK, Answering

LEMMA WorkValidateOK ==
    ASSUME InvOK, WorkValidate
    PROVE  InvOK'
<1>1. /\ UNCHANGED <<setup, entry, machine, access, bmc, bios, boot, queue, restart, editor, caller, revert>>
      /\ UNCHANGED budget \/ \E kind : Disturb(kind)
      /\ worker.pc = "validate"
      /\ UNCHANGED fresh \/ Forget("bmc")
      /\ WorkEnds \/ WorkTo("task") \/ WorkTo("update")
  BY DEF WorkValidate, WorkIn
<1>2. CopyOK' /\ \A q \in Procs : "own" \in fresh'[q] => "own" \in fresh[q]
  BY <1>1, ForgetOK DEF InvOK, Procs, CopyOK
<1>3. BiosOK' /\ BootOK'
  BY <1>1, <1>2 DEF InvOK, BootOK, BiosOK
<1>4. WorkOK'
  BY <1>1, Kept, WorkEndsOK, WorkToOK DEF InvOK, Answering
<1> QED BY <1>1, <1>2, <1>3, <1>4, Kept DEF InvOK

LEMMA WorkTaskOK ==
    ASSUME InvOK, WorkTask
    PROVE  InvOK'
<1>1. CASE \E kind : PanicOn(kind)
  BY <1>1, PanicOK
<1>2. CASE ~\E kind : PanicOn(kind)
  <2>1. /\ worker.pc = "task"
        /\ UNCHANGED <<setup, entry, access, kubeVars, restart>> /\ Others
        /\ UNCHANGED budget \/ \E kind : Disturb(kind)
        /\ machine' \in {machine, Reset(machine, worker.request.type)}
        /\ WorkTo("bios") \/ WorkTo("update")
    BY <1>2 DEF WorkTask, WorkIn, ResetTask
  <2>2. MachineOK'
    BY <2>1, ResetOK DEF InvOK
  <2>3. WorkOK'
    BY <2>1, Kept, WorkToOK DEF InvOK, Answering
  <2> QED BY <2>1, <2>2, <2>3, Kept DEF InvOK, kubeVars, Others
<1> QED BY <1>1, <1>2

LEMMA WorkBiosOK ==
    ASSUME InvOK, WorkBios
    PROVE  InvOK'
<1>1. CASE Panic
  BY <1>1, PanicOK
<1>2. CASE ~Panic
  <2>1. /\ worker.pc = "bios" /\ bios # NoObject
        /\ UNCHANGED <<setup, entry, machine, access, bmc, bios, boot, queue, restart>> /\ Others
        /\ UNCHANGED budget \/ \E kind : Disturb(kind)
        /\ WorkReads(getUpdatedBiosAttributes) \/ WorkReads(Nothing)
        /\ Read("bmc", "bios")
    BY <1>2 DEF WorkBios, WorkIn, ResetBios
  <2>2. getUpdatedBiosAttributes \in Values \cup {Nothing}
    BY DEF getUpdatedBiosAttributes, InvOK, MachineOK
  <2>3. WorkOK'
    BY <2>1, <2>2, Kept, AnswerOK DEF InvOK, Answering, WorkReads
  <2>4. CopyOK' /\ \A q \in Procs : "own" \in fresh'[q] => "own" \in fresh[q]
    BY <2>1, ReadOK DEF InvOK, Procs
  <2>5. BiosOK' /\ BootOK'
    BY <2>1, <2>4 DEF InvOK, BootOK, BiosOK
  <2> QED BY <2>1, <2>3, <2>4, <2>5, Kept DEF InvOK, Others
<1> QED BY <1>1, <1>2

LEMMA WorkBiosStatusOK ==
    ASSUME InvOK, WorkBiosStatus
    PROVE  InvOK'
<1>1. CASE Panic
  BY <1>1, PanicOK
<1>2. CASE ~Panic
  <2>1. /\ worker.pc = "biosStatus" /\ bios # NoObject
        /\ bios' = [bios EXCEPT !.spec = IF "bios" \in fresh["bmc"] THEN None ELSE @,
                                !.status = worker.read]
        /\ IF bios' = bios THEN fresh' = [fresh EXCEPT !["bmc"] = @ \ {"bios"}]
           ELSE Outdate("bios", None)
        /\ WorkTo("boot") /\ Others
        /\ UNCHANGED <<setup, entry, machine, access, bmc, boot, queue, restart, budget>>
    BY <1>2 DEF WorkBiosStatus, WorkIn, ResetBiosStatus
  <2>2. BiosOK' /\ CopyOK'
    BY <2>1, BiosStatusOK DEF InvOK, WorkOK
  <2>3. WorkOK'
    BY <2>1, Kept, WorkToOK DEF InvOK, Answering
  <2> QED BY <2>1, <2>2, <2>3, Kept DEF InvOK, Others
<1> QED BY <1>1, <1>2

\* The machine has been restarted. When nobody asks for resets, nobody comes here.
LEMMA WorkBootOK ==
    ASSUME InvOK, WorkBoot
    PROVE  InvOK'
<1>1. /\ worker.pc = "boot"
      /\ \/ /\ boot' = [boot EXCEPT !.status = machine.boot]
            /\ IF boot' = boot THEN UNCHANGED <<fresh, queue>>
               ELSE Outdate("boot", None) /\ queue' = BootQueue
         \/ UNCHANGED <<boot, fresh, queue>>
      /\ UNCHANGED budget \/ \E kind : Disturb(kind)
      /\ restart' = FALSE
      /\ WorkTo("status") /\ Others /\ UNCHANGED <<setup, entry, machine, access, bmc, bios>>
  BY DEF WorkBoot, WorkIn, ResetBoot
<1>2. BootOK' /\ CopyOK' /\ BiosOK'
  BY <1>1, BootStatusOK
<1>3. WorkOK'
  BY <1>1, Kept, WorkToOK DEF InvOK, Answering
<1>4. ~Calm
  BY <1>1, ResetAssumption DEF InvOK, WorkOK, Answering
<1>5. GoOK'
  BY <1>1, <1>4, Kept DEF InvOK, GoOK, Others
<1> QED BY <1>1, <1>2, <1>3, <1>5, Kept DEF InvOK, Others

LEMMA WorkStatusOK ==
    ASSUME InvOK, WorkStatus
    PROVE  InvOK'
<1>1. /\ worker.pc = "status"
      /\ UpdateBmc("bmc", [bmc EXCEPT !.power = worker.request.power, !.reset = "Done"], queue)
      /\ worker' = [worker EXCEPT !.pc = "update", !.read = Nothing,
                       !.password = IF "bmc" \in fresh["bmc"] THEN bmc.password ELSE @,
                       !.old = IF "bmc" \in fresh["bmc"] THEN bmc.old ELSE @]
      /\ UNCHANGED <<setup, entry, machine, access, bios, boot, restart, budget>> /\ Others
  BY DEF WorkStatus, WorkIn
<1>2. BootOK' /\ CopyOK' /\ BiosOK'
  BY <1>1, UpdateBmcOK
<1>3. worker.request.power \in Powers
  BY <1>1, ResetAssumption DEF InvOK, WorkOK, Answering, Powers
<1>4. BmcOK'
  <2>1. bmc' \in {bmc, [bmc EXCEPT !.power = worker.request.power, !.reset = "Done"]}
    BY <1>1 DEF UpdateBmc
  <2> QED BY <1>1, <1>3, <2>1, Kept DEF InvOK, BmcOK
<1>5. WorkOK'
  <2>1. PICK password, old :
          /\ worker' = [worker EXCEPT !.pc = "update", !.read = Nothing, !.password = password,
                                      !.old = old]
          /\ password \in Passwords \cup {None} /\ old \in Passwords
    BY <1>1 DEF InvOK, WorkOK, BmcOK, Answering
  <2> QED BY <1>1, <2>1, Kept DEF InvOK, WorkOK, Answering
<1> QED BY <1>1, <1>2, <1>4, <1>5, Kept DEF InvOK, Others

LEMMA WorkUpdateOK ==
    ASSUME InvOK, WorkUpdate
    PROVE  InvOK'
<1>1. /\ worker.pc = "update"
      /\ \/ /\ bmc' = [bmc EXCEPT !.request = None, !.password = worker.password,
                                  !.old = worker.old]
            /\ fresh' = [p \in Procs |-> IF p = "bmc" THEN {} ELSE fresh[p] \ {"bmc"}]
         \/ Forget("bmc") /\ UNCHANGED bmc
      /\ queue' = queue \cup {"bmc"}
      /\ WorkEnds
      /\ UNCHANGED <<setup, entry, machine, access, bios, boot, restart, budget>> /\ Others
  BY DEF WorkUpdate, WorkIn
<1>2. CopyOK' /\ \A q \in Procs : "own" \in fresh'[q] => "own" \in fresh[q]
  <2>1. CASE fresh' = [p \in Procs |-> IF p = "bmc" THEN {} ELSE fresh[p] \ {"bmc"}]
    BY <2>1 DEF InvOK, CopyOK
  <2>2. CASE Forget("bmc")
    BY <2>2, ForgetOK DEF InvOK, Procs
  <2> QED BY <1>1, <2>1, <2>2
<1>3. BiosOK' /\ BootOK'
  BY <1>1, <1>2 DEF InvOK, BiosOK, BootOK
<1>4. BmcOK'
  BY <1>1, Kept DEF InvOK, BmcOK, WorkOK
<1> QED BY <1>1, <1>2, <1>3, <1>4, WorkEndsOK, Kept DEF InvOK, Others

LEMMA WorkAllOK ==
    ASSUME InvOK, Work
    PROVE  InvOK'
BY WorkStartOK, WorkPasswordOK, WorkValidateOK, WorkTaskOK, WorkBiosOK, WorkBiosStatusOK,
   WorkBootOK, WorkStatusOK, WorkUpdateOK, PanicOK
DEF Work, WorkPasswordPanic, WorkOdimPanic

-----------------------------------------------------------------------------
(* BiosSettingReconciler and BootOrderSettingsReconciler.                  *)

\* One of them takes an edit, goes to another place, or ends.
LEMMA EditStepOK ==
    ASSUME EditOK, NEW e \in Editors,
           \/ \E v \in Values, place \in Patching :
                    editor' = [editor EXCEPT ![e] = [pc |-> place, value |-> v]]
           \/ EditTo(e, "mark") \/ EditTo(e, "read") \/ EditTo(e, "nil") \/ EditEnds(e) \/ UNCHANGED editor
    PROVE  EditOK'
<1>1. PICK r : /\ r \in Edit
               /\ r.pc \in Patching => r.value \in Values
               /\ editor' = [editor EXCEPT ![e] = r]
  <2>1. ASSUME NEW v \in Values, NEW place \in Patching,
               editor' = [editor EXCEPT ![e] = [pc |-> place, value |-> v]]
        PROVE  \E r : /\ r \in Edit
                      /\ r.pc \in Patching => r.value \in Values
                      /\ editor' = [editor EXCEPT ![e] = r]
    BY <2>1 DEF Edit, Patching
  <2>2. ASSUME NEW place \in {"mark", "read", "nil"}, EditTo(e, place)
        PROVE  \E r : /\ r \in Edit
                      /\ r.pc \in Patching => r.value \in Values
                      /\ editor' = [editor EXCEPT ![e] = r]
    <3>1. PICK r : r = [editor[e] EXCEPT !.pc = place]
      OBVIOUS
    <3>2. editor' = [editor EXCEPT ![e] = r] /\ r.pc = place
          /\ r \in Edit
      BY <2>2, <3>1 DEF EditTo, EditOK, Edit
    <3> QED BY <3>2 DEF Patching
  <2>3. CASE EditEnds(e)
    <3>1. NoEditor \in Edit
          /\ NoEditor.pc \notin Patching
      BY DEF NoEditor, Edit, Patching
    <3> QED BY <2>3, <3>1 DEF EditEnds
  <2>4. CASE UNCHANGED editor
    <3>1. editor' = [editor EXCEPT ![e] = editor[e]]
      BY <2>4 DEF EditOK
    <3> QED BY <3>1 DEF EditOK
  <2> QED BY <2>1, <2>2, <2>3, <2>4
<1> QED BY <1>1 DEF EditOK

LEMMA EditStartOK ==
    ASSUME InvOK, NEW e \in Editors, EditStart(e)
    PROVE  InvOK'
<1>1. /\ UNCHANGED <<machine, bmc, bios, boot>> /\ EditRest
      /\ UNCHANGED budget \/ \E kind : Disturb(kind)
      /\ e \in queue /\ queue' \in {queue, queue \ {e}}
      /\ UNCHANGED fresh \/ Read(e, "bmc") \/ Read(e, "boot")
      /\ \/ UNCHANGED editor
         \/ /\ Spec0(e) # None
            /\ editor' = [editor EXCEPT ![e] = [pc |-> Patch(e), value |-> Spec0(e)]]
  BY DEF EditStart
<1>2. e \in Procs
  BY DEF Procs
<1>3. CopyOK' /\ \A q \in Procs : "own" \in fresh'[q] => "own" \in fresh[q]
  BY <1>1, <1>2, ReadOK DEF InvOK, CopyOK
<1>4. BiosOK' /\ BootOK'
  BY <1>1, <1>3 DEF InvOK, BiosOK, BootOK
<1>5. Spec0(e) # None => Spec0(e) \in Values
  BY DEF InvOK, BiosOK, BootOK, Spec0, Settings, BootSettings, Editors
<1>6. EditOK'
  <2>1. Patch(e) \in Patching
    BY DEF Patch, Patching
  <2> QED BY <1>1, <1>5, <2>1, EditStepOK DEF InvOK
<1> QED BY <1>1, <1>3, <1>4, <1>6, Kept DEF InvOK, EditRest

LEMMA EditFailsOK ==
    ASSUME InvOK, NEW e \in Editors, EditFails(e)
    PROVE  InvOK'
<1>1. /\ UNCHANGED <<machine, bmc, bios, boot, queue>> /\ EditRest
      /\ \E kind : Disturb(kind)
      /\ EditEnds(e) /\ Forget(e)
  BY DEF EditFails
<1>2. e \in Procs
  BY DEF Procs
<1>3. CopyOK' /\ \A q \in Procs : "own" \in fresh'[q] => "own" \in fresh[q]
  BY <1>1, <1>2, ForgetOK DEF InvOK
<1>4. BiosOK' /\ BootOK'
  BY <1>1, <1>3 DEF InvOK, BiosOK, BootOK
<1>5. EditOK'
  BY <1>1, EditStepOK DEF InvOK
<1> QED BY <1>1, <1>3, <1>4, <1>5, Kept DEF InvOK, EditRest

\* The BIOS object goes, and no copy is what is stored any more.
LEMMA BiosGoneOK ==
    ASSUME InvOK, bios' = NoObject, queue' = queue \cup {"bios"}, Outdate("bios", None),
           UNCHANGED boot
    PROVE  BiosOK' /\ BootOK' /\ CopyOK'
<1>1. CopyOK' /\ \A q \in Procs : "own" \notin fresh'[q]
  BY OutdateOK DEF InvOK
<1> QED BY <1>1 DEF InvOK, BiosOK, BootOK

LEMMA BiosRefusedOK ==
    ASSUME InvOK, BiosRefused
    PROVE  InvOK'
<1>1. /\ bios' = NoObject /\ queue' = queue \cup {"bios"} /\ Outdate("bios", None)
      /\ UNCHANGED <<machine, bmc, boot>> /\ EditRest
      /\ EditEnds("bios") /\ \E kind : Disturb(kind)
  BY DEF BiosRefused
<1>2. BiosOK' /\ BootOK' /\ CopyOK'
  BY <1>1, BiosGoneOK
<1>3. EditOK'
  BY <1>1, EditStepOK DEF InvOK, Editors
<1> QED BY <1>1, <1>2, <1>3, Kept DEF InvOK, EditRest

LEMMA BiosTaskOK ==
    ASSUME InvOK, BiosTask
    PROVE  InvOK'
<1>1. /\ machine' = [machine EXCEPT !.next = editor["bios"].value]
      /\ editor["bios"].pc = "patch" /\ EditTo("bios", "mark")
      /\ UNCHANGED <<kubeVars, budget>> /\ EditRest
  BY DEF BiosTask, EditIn
<1>2. MachineOK'
  BY <1>1 DEF InvOK, EditOK, Patching, MachineOK, Editors, EditRest
<1>3. EditOK'
  BY <1>1, EditStepOK DEF InvOK, Editors
<1> QED BY <1>1, <1>2, <1>3, Kept DEF InvOK, EditRest, kubeVars

LEMMA BiosMarkOK ==
    ASSUME InvOK, BiosMark
    PROVE  InvOK'
<1>1. /\ UpdateBmc("bios", [bmc EXCEPT !.reset = "Bios"], queue)
      /\ EditEnds("bios")
      /\ UNCHANGED <<machine, bios, boot, budget>> /\ EditRest
  BY DEF BiosMark
<1>2. BootOK' /\ CopyOK' /\ BiosOK'
  BY <1>1, UpdateBmcOK
<1>3. BmcOK'
  <2>1. bmc' \in {bmc, [bmc EXCEPT !.reset = "Bios"]}
    BY <1>1 DEF UpdateBmc
  <2> QED BY <1>1, <2>1, Kept DEF InvOK, BmcOK, EditRest
<1>4. EditOK'
  BY <1>1, EditStepOK DEF InvOK, Editors
<1> QED BY <1>1, <1>2, <1>3, <1>4, Kept DEF InvOK, EditRest

LEMMA BootTaskOK ==
    ASSUME InvOK, BootTask \/ BootTaskByID
    PROVE  InvOK'
<1>1. /\ machine' \in {machine, [machine EXCEPT !.boot = editor["boot"].value]}
      /\ EditTo("boot", "read") \/ EditTo("boot", "nil") \/ EditEnds("boot")
      /\ editor["boot"].pc \in Patching
      /\ UNCHANGED fresh \/ Forget("boot")
      /\ UNCHANGED budget \/ \E kind : Disturb(kind)
      /\ UNCHANGED <<bmc, bios, boot, queue>> /\ EditRest
  BY DEF BootTask, BootTaskByID, EditIn, Patching, kubeVars
<1>2. MachineOK'
  <2>1. CASE machine' = machine
    BY <1>1, <2>1, Kept DEF EditRest
  <2>2. CASE machine' # machine
    BY <1>1, <2>2 DEF InvOK, EditOK, MachineOK, Editors, EditRest
  <2> QED BY <2>1, <2>2
<1>3. CopyOK' /\ \A q \in Procs : "own" \in fresh'[q] => "own" \in fresh[q]
  BY <1>1, ForgetOK DEF InvOK, CopyOK, Procs, Editors
<1>4. BiosOK' /\ BootOK'
  BY <1>1, <1>3 DEF InvOK, BiosOK, BootOK
<1>5. EditOK'
  BY <1>1, EditStepOK DEF InvOK, Editors
<1> QED BY <1>1, <1>2, <1>3, <1>4, <1>5, Kept DEF InvOK, EditRest

LEMMA BootReadOK ==
    ASSUME InvOK, BootRead
    PROVE  InvOK'
<1>1. /\ boot' \in {boot, [spec |-> None, status |-> machine.boot, named |-> TRUE]}
      /\ UNCHANGED fresh \/ Outdate("boot", "boot")
      /\ queue' \in {queue, queue \cup {"boot"}}
      /\ EditEnds("boot")
      /\ UNCHANGED <<machine, bmc, bios, budget>> /\ EditRest
  BY DEF BootRead, UpdateBoot, BootQueue
<1>2. CopyOK' /\ \A q \in Procs : "own" \in fresh'[q] => "own" \in fresh[q]
  BY <1>1, OutdateOK DEF InvOK, CopyOK
<1>3. BiosOK' /\ BootOK'
  <2>1. [spec |-> None, status |-> machine.boot, named |-> TRUE] \in BootSettings
    BY DEF BootSettings, InvOK, MachineOK
  <2>2. BootOK'
    BY <1>1, <2>1 DEF InvOK, BootOK
  <2> QED BY <1>1, <1>2, <2>2 DEF InvOK, BiosOK
<1>4. EditOK'
  BY <1>1, EditStepOK DEF InvOK, Editors
<1> QED BY <1>1, <1>2, <1>3, <1>4, Kept DEF InvOK, EditRest

LEMMA EditAllOK ==
    ASSUME InvOK, BiosWork \/ BootWork
    PROVE  InvOK'
BY EditStartOK, EditFailsOK, BiosRefusedOK, BiosTaskOK, BiosMarkOK, BootTaskOK, BootReadOK,
   RestartOK, PanicOK
DEF BiosWork, BootWork, BiosTaskFails, BootTaskPanic, BootReadPanic, Editors

-----------------------------------------------------------------------------
(* The user and the world.                                                 *)

LEMMA UserOK ==
    ASSUME InvOK, \/ ApplyPassword \/ (\E r \in Requests : ApplyReset(r))
                  \/ (\E v \in Values : ApplyBios(v) \/ ApplyBoot(v)) \/ DeleteBios \/ Touch
    PROVE  InvOK'
<1>1. /\ UNCHANGED <<setup, entry, machine, access, restart, worker, editor, caller, revert>>
      /\ \E kind : Disturb(kind)
  BY DEF ApplyPassword, ApplyReset, ApplyBios, ApplyBoot, DeleteBios, Touch, UserRest, Others
<1>2. CASE DeleteBios
  <2>1. BiosOK' /\ BootOK' /\ CopyOK'
    BY <1>2, BiosGoneOK DEF DeleteBios
  <2> QED BY <1>1, <1>2, <2>1, Kept DEF InvOK, DeleteBios, UserRest
<1>3. CASE ~DeleteBios
  <2>1. CopyOK' /\ \A q \in Procs : "own" \in fresh'[q] => "own" \in fresh[q]
    <3>1. \E x \in {"bmc", "bios", "boot"} : Outdate(x, None)
      BY <1>3 DEF ApplyPassword, ApplyReset, ApplyBios, ApplyBoot, Touch
    <3> QED BY <3>1, OutdateOK DEF InvOK
  <2>2. BiosOK' /\ BootOK'
    <3>1. /\ queue' \in {queue, queue \cup {"bmc"}, queue \cup {"boot"}, queue \cup {"bios"}}
          /\ \/ UNCHANGED <<bios, boot>>
             \/ \E v \in Values : bios # NoObject /\ bios' = [bios EXCEPT !.spec = v] /\ UNCHANGED boot
             \/ \E v \in Values, b \in BOOLEAN :
                     boot' = [boot EXCEPT !.spec = v, !.named = b] /\ UNCHANGED bios
      BY <1>3 DEF ApplyPassword, ApplyReset, ApplyBios, ApplyBoot, Touch
    <3>2. bios # NoObject => bios' \in Settings
      BY <3>1 DEF InvOK, BiosOK, Settings
    <3>3. boot' \in BootSettings
      BY <3>1 DEF InvOK, BootOK, BootSettings
    <3>4. bios = NoObject => bios' = NoObject
      BY <3>1 DEF InvOK, BiosOK
    <3>5. queue' \subseteq {"bmc", "bios", "boot"}
      BY <3>1 DEF InvOK, BootOK
    <3> QED BY <2>1, <3>2, <3>3, <3>4, <3>5, ResetAssumption DEF InvOK, BiosOK, BootOK
  <2>3. BmcOK'
    <3>1. CASE ApplyPassword
      BY <1>1, <3>1, Kept DEF ApplyPassword, InvOK, BmcOK
    <3>2. CASE \E r \in Requests : ApplyReset(r)
      <4>1. ~Calm
        BY <3>2 DEF ApplyReset, Disturb, Calm
      <4> QED BY <1>1, <3>2, <4>1, Kept DEF ApplyReset, InvOK, BmcOK
    <3>3. CASE Touch
      BY <1>1, <3>3, Kept DEF Touch, InvOK, BmcOK
    <3>4. CASE \E v \in Values : ApplyBios(v) \/ ApplyBoot(v)
      BY <1>1, <3>4, Kept DEF ApplyBios, ApplyBoot, UserRest
    <3> QED BY <1>3, <3>1, <3>2, <3>3, <3>4
  <2> QED BY <1>1, <2>1, <2>2, <2>3, Kept DEF InvOK
<1> QED BY <1>2, <1>3

LEMMA ExternalOK ==
    ASSUME InvOK, External
    PROVE  InvOK'
<1>1. /\ UNCHANGED <<setup, entry, access, kubeVars, restart, worker>> /\ Others
      /\ \E kind : Disturb(kind)
  BY DEF External
<1>2. MachineOK'
  <2>1. machine \in [power : Powers, bios : Values, next : Values, boot : Values]
    BY DEF InvOK, MachineOK
  <2>2. \/ machine' \in {[machine EXCEPT !.power = "Off"], Started(machine)}
        \/ \E v \in Values : machine' \in {[machine EXCEPT !.bios = v, !.next = v],
                                           [machine EXCEPT !.boot = v]}
    BY DEF External
  <2>3. machine' \in [power : Powers, bios : Values, next : Values, boot : Values]
    <3>1. CASE machine' \in {[machine EXCEPT !.power = "Off"], Started(machine)}
      BY <2>1, <3>1 DEF Started, Powers
    <3>2. CASE \E v \in Values : machine' \in {[machine EXCEPT !.bios = v, !.next = v],
                                               [machine EXCEPT !.boot = v]}
      BY <2>1, <3>2
    <3> QED BY <2>2, <3>1, <3>2
  <2> QED BY <1>1, <2>3 DEF InvOK, MachineOK
<1> QED BY <1>1, <1>2, Kept DEF InvOK, kubeVars, Others

-----------------------------------------------------------------------------
(* Polling loop and events.                                                *)

\* A caller goes on; when it is about to have attributes set, no restart is required.
LEMMA CallerOK ==
    ASSUME InvOK, UNCHANGED <<setup, restart, revert>>, NEW c \in Callers, NEW r \in Call,
           caller' = [caller EXCEPT ![c] = r],
           caller[c].pc # "idle" \/ c = "poll" \/ ~Calm,
           r.pc = "biosPatch" => ~restart
    PROVE  CallOK' /\ GoOK'
<1>1. Calm => c = "poll"
  BY DEF InvOK, CallOK, Callers
<1>2. Calm' <=> Calm
  BY DEF Calm
<1> QED BY <1>1, <1>2 DEF InvOK, CallOK, GoOK, Callers

\* It goes to another place of the same round.
LEMMA CallToOK ==
    ASSUME InvOK, UNCHANGED <<setup, restart, revert>>, NEW c \in Callers,
           NEW place \in {"boot", "bootPatch", "bios", "biosStatus", "biosPatch", "power"},
           NEW v \in Values \cup {Nothing},
           \/ CallTo(c, place)
           \/ caller' = [caller EXCEPT ![c].pc = place, ![c].value = v],
           caller[c].pc # "idle", place = "biosPatch" => ~restart
    PROVE  CallOK' /\ GoOK'
<1>1. PICK r : /\ r \in {[caller[c] EXCEPT !.pc = place],
                         [caller[c] EXCEPT !.pc = place, !.value = v]}
               /\ caller' = [caller EXCEPT ![c] = r]
  BY DEF CallTo, InvOK, CallOK
<1>2. caller[c] \in Call
  BY DEF InvOK, CallOK
<1>3. r \in Call /\ r.pc = place
  BY <1>1, <1>2 DEF Call
<1> QED BY <1>1, <1>3, CallerOK

\* A round ends.
LEMMA CallEndsOK ==
    ASSUME InvOK, UNCHANGED <<setup, restart, revert>>, NEW c \in Callers, CallEnds(c),
           caller[c].pc # "idle"
    PROVE  CallOK' /\ GoOK'
<1>1. NoCaller \in Call /\ NoCaller.pc # "biosPatch"
  BY DEF NoCaller, Call
<1> QED BY <1>1, CallerOK DEF CallEnds

\* The BIOS attributes are done: the poll goes on to the power, an event ends.
LEMMA AfterBiosOK ==
    ASSUME InvOK, UNCHANGED <<setup, restart, revert>>, NEW c \in Callers, AfterBios(c),
           caller[c].pc # "idle"
    PROVE  CallOK' /\ GoOK'
<1>1. CASE c = "poll"
  <2>1. caller' = [caller EXCEPT ![c].pc = "power", ![c].value = Nothing]
    BY <1>1 DEF AfterBios, InvOK, CallOK
  <2> QED BY <2>1, CallToOK
<1>2. CASE c # "poll"
  <2>1. CallEnds(c)
    BY <1>2 DEF AfterBios, CallEnds
  <2> QED BY <2>1, CallEndsOK
<1> QED BY <1>1, <1>2

LEMMA CallStartOK ==
    ASSUME InvOK, NEW c \in Callers, CallStart(c)
    PROVE  InvOK'
<1>1. /\ UNCHANGED <<machine, restart, bmc, bios, boot, queue, revert>> /\ CallRest
      /\ UNCHANGED budget \/ \E kind : Disturb(kind)
      /\ c = "event" => Disturb("event")
      /\ UNCHANGED fresh \/ Read(c, "bmc")
  BY DEF CallStart
<1>2. PICK r : /\ caller' = [caller EXCEPT ![c] = r]
               /\ r = [pc |-> IF c = "poll" THEN "check" ELSE "boot", value |-> Nothing,
                       power |-> IF c = "poll" THEN bmc.power ELSE Empty,
                       reset |-> IF c = "poll" THEN bmc.reset ELSE Empty]
  BY DEF CallStart
<1>3. r \in Call /\ r.pc # "biosPatch"
  BY <1>2 DEF Call, InvOK, BmcOK
<1>4. c = "poll" \/ ~Calm
  BY <1>1 DEF Callers, Disturb, Calm
<1>5. CallOK' /\ GoOK'
  BY <1>1, <1>2, <1>3, <1>4, CallerOK DEF CallRest
<1>6. CopyOK' /\ \A q \in Procs : "own" \in fresh'[q] => "own" \in fresh[q]
  BY <1>1, ReadOK DEF InvOK, CopyOK, Procs
<1>7. BiosOK' /\ BootOK'
  BY <1>1, <1>6 DEF InvOK, BiosOK, BootOK
<1> QED BY <1>1, <1>5, <1>6, <1>7, Kept DEF InvOK, CallRest

\* The boot order, and what is read of the BIOS: nothing but the boot object changes, or
\* the machine's boot order.
LEMMA CallBootOK ==
    ASSUME InvOK, NEW c \in Callers,
           BootCheck(c) \/ AccBoot(c) \/ RevertBoot(c) \/ RevertBootPatch(c) \/ AccBios(c)
    PROVE  InvOK'
<1>1. /\ UNCHANGED <<setup, access, restart, bmc, bios, worker, editor, revert>>
      /\ entry' \in {entry, "added"}
      /\ UNCHANGED budget \/ \E kind : Disturb(kind)
      /\ caller[c].pc # "idle"
  BY DEF BootCheck, AccBoot, RevertBoot, RevertBootPatch, AccBios, CallIn, CallRest, kubeVars
<1>2. caller[c] \in Call
  BY DEF InvOK, CallOK
<1>3. MachineOK'
  <2>1. \/ machine' = machine
        \/ caller[c].value # Nothing /\ machine' = [machine EXCEPT !.boot = caller[c].value]
    BY DEF BootCheck, AccBoot, RevertBoot, RevertBootPatch, AccBios
  <2>2. CASE machine' = machine
    BY <1>1, <2>2, Kept
  <2>3. CASE caller[c].value # Nothing /\ machine' = [machine EXCEPT !.boot = caller[c].value]
    <3>1. PICK v \in Values : v = caller[c].value
      BY <1>2, <2>3 DEF Call
    <3> QED BY <1>1, <2>3, <3>1 DEF InvOK, MachineOK
  <2> QED BY <2>1, <2>2, <2>3
<1>4. BootOK' /\ CopyOK' /\ BiosOK'
  <2>1. /\ boot' = boot \/ \E v \in {machine.boot, Nothing} : boot' = [boot EXCEPT !.status = v]
        /\ UNCHANGED fresh \/ Outdate("boot", None)
        /\ queue' \in {queue, queue \cup {"boot"}}
    BY DEF BootCheck, AccBoot, RevertBoot, RevertBootPatch, AccBios, kubeVars, BootQueue
  <2>2. CopyOK' /\ \A q \in Procs : "own" \in fresh'[q] => "own" \in fresh[q]
    BY <2>1, OutdateOK DEF InvOK, CopyOK
  <2>3. BootOK'
    BY <2>1 DEF InvOK, BootOK, MachineOK, BootSettings
  <2> QED BY <1>1, <2>1, <2>2, <2>3 DEF InvOK, BiosOK
<1>5. CallOK' /\ GoOK'
  <2>1. machine.bios \in Values /\ boot.status \in Values \cup {Nothing}
    BY DEF InvOK, MachineOK, BootOK, BootSettings
  <2>2. \/ CallTo(c, "bios") \/ CallTo(c, "boot") \/ CallTo(c, "biosStatus")
        \/ caller' = [caller EXCEPT ![c].pc = "bootPatch", ![c].value = boot.status]
        \/ caller' = [caller EXCEPT ![c].pc = "bios", ![c].value = Nothing]
        \/ caller' = [caller EXCEPT ![c].pc = "biosStatus", ![c].value = machine.bios]
    BY DEF BootCheck, AccBoot, RevertBoot, RevertBootPatch, AccBios
  <2> QED BY <1>1, <2>1, <2>2, CallToOK
<1> QED BY <1>1, <1>3, <1>4, <1>5, Kept DEF InvOK

LEMMA AccBiosStatusOK ==
    ASSUME InvOK, NEW c \in Callers, AccBiosStatus(c)
    PROVE  InvOK'
<1>1. CASE Panic
  BY <1>1, PanicOK
<1>2. CASE ~Panic
  <2>1. /\ caller[c].pc = "biosStatus" /\ bios # NoObject
        /\ bios' = [bios EXCEPT !.status = caller[c].value]
        /\ UNCHANGED fresh \/ Outdate("bios", None)
        /\ AfterBios(c)
        /\ UNCHANGED <<machine, restart, bmc, boot, queue, revert, budget>> /\ CallRest
    BY <1>2 DEF AccBiosStatus, CallIn
  <2>2. CopyOK' /\ \A q \in Procs : "own" \in fresh'[q] => "own" \in fresh[q]
    BY <2>1, OutdateOK DEF InvOK, CopyOK
  <2>3. BiosOK'
    <3>1. bios \in Settings /\ caller[c].value \in Values \cup {Nothing}
      BY <2>1 DEF InvOK, BiosOK, CallOK, Call
    <3>2. bios' \in Settings
      BY <2>1, <3>1 DEF Settings
    <3> QED BY <3>2, ResetAssumption DEF BiosOK
  <2>4. CallOK' /\ GoOK'
    BY <2>1, AfterBiosOK DEF CallRest
  <2> QED BY <2>1, <2>2, <2>3, <2>4, Kept DEF InvOK, CallRest
<1> QED BY <1>1, <1>2

\* Attributes are to be set only when no restart is required, and with a copy of a BIOS
\* object that is there.
LEMMA RevertBiosOK ==
    ASSUME InvOK, NEW c \in Callers, RevertBios(c)
    PROVE  InvOK'
<1>1. CASE Panic
  BY <1>1, PanicOK
<1>2. CASE ~Panic
  <2>1. /\ caller[c].pc = "bios"
        /\ UNCHANGED <<machine, restart, bmc, bios, boot, queue, revert>> /\ CallRest
        /\ UNCHANGED budget \/ \E kind : Disturb(kind)
        /\ \/ AfterBios(c) /\ UNCHANGED fresh
           \/ /\ ~restart /\ bios # NoObject
              /\ caller' = [caller EXCEPT ![c].pc = "biosPatch", ![c].value = bios.status]
              /\ Read(c, "own")
    BY <1>2 DEF RevertBios, CallIn
  <2>2. c \in Procs
    BY DEF Procs
  <2>3. bios # NoObject => bios.status \in Values \cup {Nothing}
    BY DEF InvOK, BiosOK, Settings
  <2>4. CopyOK'
    BY <2>1, <2>2, ReadOK DEF InvOK, CopyOK
  <2>5. BiosOK' /\ BootOK'
    BY <2>1 DEF InvOK, BiosOK, BootOK
  <2>6. CallOK' /\ GoOK'
    BY <2>1, <2>3, AfterBiosOK, CallToOK DEF CallRest
  <2> QED BY <2>1, <2>4, <2>5, <2>6, Kept DEF InvOK, CallRest
<1> QED BY <1>1, <1>2

\* The restart is entered in RestartRequired with the request, and none was under way.
LEMMA RevertBiosPatchOK ==
    ASSUME InvOK, NEW c \in Callers, RevertBiosPatch(c)
    PROVE  InvOK'
<1>1. /\ caller[c].pc = "biosPatch" /\ AfterBios(c)
      /\ UNCHANGED <<bmc, bios, boot, queue>> /\ CallRest
      /\ UNCHANGED budget \/ \E kind : Disturb(kind)
  BY DEF RevertBiosPatch, CallIn
<1>2. CASE UNCHANGED <<machine, restart, revert>> /\ fresh' = [fresh EXCEPT ![c] = @ \ {"own"}]
  <2>1. CopyOK' /\ \A q \in Procs : "own" \in fresh'[q] => "own" \in fresh[q]
    BY <1>2 DEF InvOK, CopyOK
  <2>2. BiosOK' /\ BootOK'
    BY <1>1, <2>1 DEF InvOK, BiosOK, BootOK
  <2>3. CallOK' /\ GoOK'
    BY <1>1, <1>2, AfterBiosOK DEF CallRest
  <2> QED BY <1>1, <1>2, <2>1, <2>2, <2>3, Kept DEF InvOK, CallRest
<1>3. ASSUME NEW s \in Slots, Spawn(s),
             fresh' = [fresh EXCEPT ![s] = fresh[c] \cap {"own"}, ![c] = @ \ {"own"}],
             machine' = IF caller[c].value = Nothing THEN machine
                        ELSE [machine EXCEPT !.next = caller[c].value]
      PROVE  InvOK'
  <2>1. c \in Procs /\ s \in Procs
    BY DEF Procs
  <2>2. CopyOK'
    BY <1>3, <2>1 DEF InvOK, CopyOK
  <2>3. bios = NoObject => \A q \in Procs : "own" \notin fresh'[q]
    <3>1. CASE c # s
      BY <1>3, <2>1, <3>1 DEF InvOK, CopyOK, BiosOK
    <3>2. CASE c = s
      BY <1>3, <2>1, <3>2 DEF InvOK, CopyOK, BiosOK
    <3> QED BY <3>1, <3>2
  <2>4. BiosOK' /\ BootOK'
    BY <1>1, <2>3 DEF InvOK, BiosOK, BootOK
  <2>5. MachineOK'
    <3>1. caller[c].value \in Values \cup {Nothing}
      BY DEF InvOK, CallOK, Call
    <3>2. CASE caller[c].value = Nothing
      BY <1>1, <1>3, <3>2 DEF InvOK, MachineOK, CallRest
    <3>3. CASE caller[c].value \in Values /\ caller[c].value # Nothing
      BY <1>1, <1>3, <3>3 DEF InvOK, MachineOK, CallRest
    <3> QED BY <3>1, <3>2, <3>3
  <2>6. PICK r : /\ caller' = [caller EXCEPT ![c] = r] /\ r \in Call
                 /\ r.pc \in {"idle", "power"}
    <3>1. CASE c = "poll"
      <4>1. PICK r : r = [caller[c] EXCEPT !.pc = "power", !.value = Nothing]
        OBVIOUS
      <4>2. r \in Call /\ r.pc = "power"
        BY <4>1 DEF InvOK, CallOK, Call
      <4> QED BY <1>1, <3>1, <4>1, <4>2 DEF AfterBios
    <3>2. CASE c # "poll"
      <4>1. NoCaller \in Call /\ NoCaller.pc = "idle"
        BY DEF NoCaller, Call
      <4>2. caller' = [caller EXCEPT ![c] = NoCaller]
        BY <1>1, <3>2 DEF AfterBios
      <4> QED BY <4>1, <4>2
    <3> QED BY <3>1, <3>2
  <2>7. Calm => c = "poll" /\ ~restart /\ \A t \in Slots : revert[t].pc \notin Restarting
    BY <1>1 DEF InvOK, CallOK, GoOK, Callers
  <2>8. Calm' <=> Calm
    BY <1>1 DEF Calm, CallRest
  <2>9. CallOK'
    BY <2>6, <2>7, <2>8 DEF InvOK, CallOK, Callers
  <2>10. GoOK'
    <3>1. PICK g : revert' = [revert EXCEPT ![s] = g] /\ g = [revert[s] EXCEPT !.pc = "task"]
      BY <1>3 DEF Spawn, InvOK, GoOK
    <3>2. g \in Goroutine
      BY <3>1 DEF InvOK, GoOK, Goroutine
    <3>3. revert' \in [Slots -> Goroutine] /\ restart' = TRUE
      BY <1>3, <3>1, <3>2 DEF Spawn, InvOK, GoOK
    <3>4. \A t \in Slots : t # s => revert'[t] = revert[t]
      BY <3>1 DEF InvOK, GoOK
    <3>5. Calm => caller'["poll"].pc # "biosPatch"
      BY <2>6, <2>7 DEF InvOK, CallOK
    <3> QED BY <2>7, <2>8, <3>3, <3>4, <3>5 DEF GoOK
  <2> QED BY <1>1, <2>2, <2>4, <2>5, <2>9, <2>10, Kept DEF InvOK, CallRest
<1> QED BY <1>2, <1>3 DEF RevertBiosPatch

LEMMA CallPowerOK ==
    ASSUME InvOK, NEW c \in Callers, PowerCheck(c) \/ AccPower(c) \/ RevertPower(c)
    PROVE  InvOK'
<1>1. /\ UNCHANGED <<restart, bios, boot, queue, revert>> /\ CallRest
      /\ UNCHANGED budget \/ \E kind : Disturb(kind)
      /\ caller[c].pc = "power"
      /\ machine' \in {machine, Reset(machine, ResetTypeOf(caller[c].power))}
      /\ bmc' = bmc \/ \E v \in {machine.power, Empty} : bmc' = [bmc EXCEPT !.power = v]
      /\ \/ UNCHANGED fresh \/ Forget(c)
         \/ fresh' = [p \in Procs |-> IF p = c THEN {} ELSE fresh[p] \ {"bmc"}]
      /\ CallEnds(c) \/ caller' = [caller EXCEPT ![c].reset = Empty]
  BY DEF PowerCheck, AccPower, RevertPower, CallIn
<1>2. CopyOK' /\ \A q \in Procs : "own" \in fresh'[q] => "own" \in fresh[q]
  <2>1. CASE fresh' = [p \in Procs |-> IF p = c THEN {} ELSE fresh[p] \ {"bmc"}]
    BY <2>1 DEF InvOK, CopyOK
  <2>2. CASE UNCHANGED fresh \/ Forget(c)
    BY <2>2, ForgetOK DEF InvOK, CopyOK, Procs
  <2> QED BY <1>1, <2>1, <2>2
<1>3. BiosOK' /\ BootOK'
  BY <1>1, <1>2 DEF InvOK, BiosOK, BootOK
<1>4. MachineOK'
  BY <1>1, ResetOK DEF InvOK, CallRest
<1>5. BmcOK'
  BY <1>1, Kept DEF InvOK, BmcOK, MachineOK, CallRest
<1>6. CallOK' /\ GoOK'
  <2>1. CASE CallEnds(c)
    BY <1>1, <2>1, CallEndsOK DEF CallRest
  <2>2. CASE caller' = [caller EXCEPT ![c].reset = Empty]
    <3>1. PICK r : r = [caller[c] EXCEPT !.reset = Empty]
      OBVIOUS
    <3>2. caller' = [caller EXCEPT ![c] = r]
      BY <2>2, <3>1 DEF InvOK, CallOK
    <3>3. r \in Call /\ r.pc = "power"
      BY <1>1, <3>1 DEF InvOK, CallOK, Call
    <3> QED BY <1>1, <3>2, <3>3, CallerOK DEF CallRest
  <2> QED BY <1>1, <2>1, <2>2
<1> QED BY <1>1, <1>2, <1>3, <1>4, <1>5, <1>6, Kept DEF InvOK, CallRest

LEMMA CallAllOK ==
    ASSUME InvOK, NEW c \in Callers, CallStart(c) \/ CallStep(c)
    PROVE  InvOK'
BY CallStartOK, CallBootOK, AccBiosStatusOK, RevertBiosOK, RevertBiosPatchOK, CallPowerOK
DEF CallStep

-----------------------------------------------------------------------------
(* The goroutines of Revert.                                               *)

\* One goes on with its restart, ends it or gives up; the one that ends it takes the entry
\* out.
LEMMA GoroutineOK ==
    ASSUME InvOK, UNCHANGED <<setup, caller>>, NEW s \in Slots, NEW r \in Goroutine,
           revert' = [revert EXCEPT ![s] = r],
           r.pc \in Restarting => revert[s].pc \in Restarting /\ UNCHANGED restart,
           \/ UNCHANGED restart
           \/ restart' = FALSE /\ revert[s].pc \in Restarting
    PROVE  GoOK'
<1>1. Calm' <=> Calm
  BY DEF Calm
<1>2. /\ revert' \in [Slots -> Goroutine] /\ revert'[s] = r
      /\ \A t \in Slots : t # s => revert'[t] = revert[t]
  BY DEF InvOK, GoOK
<1>3. Calm /\ revert[s].pc \in Restarting => \A t \in Slots : t # s => revert[t].pc \notin Restarting
  BY DEF InvOK, GoOK
<1>4. restart' \in BOOLEAN
  BY DEF InvOK, GoOK
<1>5. CASE UNCHANGED restart
  BY <1>1, <1>2, <1>3, <1>4, <1>5 DEF InvOK, GoOK
<1>6. CASE restart' = FALSE /\ revert[s].pc \in Restarting /\ r.pc \notin Restarting
  BY <1>1, <1>2, <1>3, <1>4, <1>6 DEF GoOK
<1> QED BY <1>5, <1>6

\* The goroutine s is at place now, or at its end.
LEMMA GoToOK ==
    ASSUME InvOK, UNCHANGED <<setup, caller>>, NEW s \in Slots,
           NEW place \in {"bios", "biosStatus", "boot", "read"}, NEW v \in Values \cup {Nothing},
           GoTo(s, place) \/ GoReads(s, place, v) \/ GoEnds(s),
           UNCHANGED restart \/ (restart' = FALSE /\ place = "read"),
           revert[s].pc \in Restarting
    PROVE  GoOK'
<1>1. revert[s] \in Goroutine
  BY DEF InvOK, GoOK
<1>2. CASE GoTo(s, place)
  <2>1. PICK r : r = [revert[s] EXCEPT !.pc = place]
    OBVIOUS
  <2>2. r \in Goroutine /\ r.pc = place /\ revert' = [revert EXCEPT ![s] = r]
    BY <1>1, <1>2, <2>1 DEF GoTo, Goroutine, InvOK, GoOK
  <2> QED BY <2>2, GoroutineOK DEF Restarting
<1>3. CASE GoReads(s, place, v)
  <2>1. PICK r : r = [pc |-> place, read |-> v]
    OBVIOUS
  <2>2. r \in Goroutine /\ r.pc = place /\ revert' = [revert EXCEPT ![s] = r]
    BY <1>3, <2>1 DEF GoReads, Goroutine
  <2> QED BY <2>2, GoroutineOK DEF Restarting
<1>4. CASE GoEnds(s)
  <2>1. NoRevert \in Goroutine /\ NoRevert.pc \notin Restarting
    BY DEF NoRevert, Goroutine, Restarting
  <2> QED BY <1>4, <2>1, GoroutineOK DEF GoEnds
<1> QED BY <1>2, <1>3, <1>4

LEMMA GoTaskOK ==
    ASSUME InvOK, NEW s \in Slots, GoTask(s)
    PROVE  InvOK'
<1>1. CASE \E kind : PanicOn(kind)
  BY <1>1, PanicOK
<1>2. CASE ~\E kind : PanicOn(kind)
  <2>1. /\ revert[s].pc = "task"
        /\ UNCHANGED <<setup, entry, access, kubeVars, restart>>
        /\ UNCHANGED budget \/ \E kind : Disturb(kind)
        /\ machine' \in {machine, Reset(machine, "ForceRestart")}
        /\ GoTo(s, "bios") \/ GoEnds(s)
        /\ GoOthers
    BY <1>2 DEF GoTask, GoIn, ResetTask, GoTo, GoEnds
  <2>2. MachineOK'
    BY <2>1, ResetOK DEF InvOK
  <2>3. GoOK'
    BY <2>1, GoToOK DEF GoOthers, Restarting
  <2> QED BY <2>1, <2>2, <2>3, Kept DEF InvOK, kubeVars, GoOthers
<1> QED BY <1>1, <1>2

LEMMA GoBiosOK ==
    ASSUME InvOK, NEW s \in Slots, GoBios(s)
    PROVE  InvOK'
<1>1. CASE Panic
  BY <1>1, PanicOK
<1>2. CASE ~Panic
  <2>1. /\ revert[s].pc = "bios" /\ bios # NoObject
        /\ UNCHANGED <<setup, entry, machine, access, bmc, bios, boot, queue, restart>>
        /\ UNCHANGED budget \/ \E kind : Disturb(kind)
        /\ \/ GoReads(s, "biosStatus", getUpdatedBiosAttributes)
           \/ GoReads(s, "biosStatus", Nothing)
        /\ GoOthers
        /\ Read(s, "bios")
    BY <1>2 DEF GoBios, GoIn, ResetBios, GoReads
  <2>2. getUpdatedBiosAttributes \in Values \cup {Nothing}
    BY DEF getUpdatedBiosAttributes, InvOK, MachineOK
  <2>3. GoOK'
    BY <2>1, <2>2, GoToOK DEF GoOthers, Restarting
  <2>4. CopyOK' /\ \A q \in Procs : "own" \in fresh'[q] => "own" \in fresh[q]
    BY <2>1, ReadOK DEF InvOK, Procs
  <2>5. BiosOK' /\ BootOK'
    BY <2>1, <2>4 DEF InvOK, BootOK, BiosOK
  <2> QED BY <2>1, <2>3, <2>4, <2>5, Kept DEF InvOK, GoOthers
<1> QED BY <1>1, <1>2

LEMMA GoBiosStatusOK ==
    ASSUME InvOK, NEW s \in Slots, GoBiosStatus(s)
    PROVE  InvOK'
<1>1. CASE Panic
  BY <1>1, PanicOK
<1>2. CASE ~Panic
  <2>1. /\ revert[s].pc = "biosStatus" /\ bios # NoObject
        /\ bios' = [bios EXCEPT !.spec = IF "bios" \in fresh[s] THEN None ELSE @,
                                !.status = revert[s].read]
        /\ IF bios' = bios THEN fresh' = [fresh EXCEPT ![s] = @ \ {"bios"}]
           ELSE Outdate("bios", None)
        /\ GoReads(s, "boot", Nothing) /\ GoOthers
        /\ UNCHANGED <<setup, entry, machine, access, bmc, boot, queue, restart, budget>>
    BY <1>2 DEF GoBiosStatus, GoIn, ResetBiosStatus, GoReads
  <2>2. BiosOK' /\ CopyOK'
    <3>1. revert[s].read \in Values \cup {Nothing}
      BY DEF InvOK, GoOK, Goroutine
    <3> QED BY <2>1, <3>1, BiosStatusOK
  <2>3. GoOK'
    BY <2>1, GoToOK DEF GoOthers, Restarting
  <2> QED BY <2>1, <2>2, <2>3, Kept DEF InvOK, GoOthers
<1> QED BY <1>1, <1>2

LEMMA GoBootOK ==
    ASSUME InvOK, NEW s \in Slots, GoBoot(s)
    PROVE  InvOK'
<1>1. /\ revert[s].pc = "boot"
      /\ \/ /\ boot' = [boot EXCEPT !.status = machine.boot]
            /\ IF boot' = boot THEN UNCHANGED <<fresh, queue>>
               ELSE Outdate("boot", None) /\ queue' = BootQueue
         \/ UNCHANGED <<boot, fresh, queue>>
      /\ UNCHANGED budget \/ \E kind : Disturb(kind)
      /\ restart' = FALSE
      /\ GoTo(s, "read") /\ GoOthers /\ UNCHANGED <<setup, entry, machine, access, bmc, bios>>
  BY DEF GoBoot, GoIn, ResetBoot, GoTo
<1>2. BootOK' /\ CopyOK' /\ BiosOK'
  BY <1>1, BootStatusOK
<1>3. GoOK'
  BY <1>1, GoToOK DEF GoOthers, Restarting
<1> QED BY <1>1, <1>2, <1>3, Kept DEF InvOK, GoOthers

LEMMA GoReadOK ==
    ASSUME InvOK, NEW s \in Slots, GoRead(s)
    PROVE  InvOK'
<1>1. /\ revert[s].pc = "read" /\ GoEnds(s) /\ GoOthers
      /\ UNCHANGED <<setup, entry, machine, access, bmc, boot, queue, restart>>
      /\ UNCHANGED budget \/ \E kind : Disturb(kind)
      /\ \/ \E v \in {machine.bios, Nothing} :
               "own" \in fresh[s] /\ bios' = [bios EXCEPT !.status = v] /\ Outdate("bios", None)
         \/ Forget(s) /\ UNCHANGED bios
  BY DEF GoRead, GoIn, GoEnds
<1>2. s \in Procs
  BY DEF Procs
<1>3. CopyOK' /\ \A q \in Procs : "own" \in fresh'[q] => "own" \in fresh[q]
  BY <1>1, <1>2, OutdateOK, ForgetOK DEF InvOK
<1>4. BiosOK'
  <2>1. CASE Forget(s) /\ UNCHANGED bios
    BY <1>1, <1>3, <2>1 DEF InvOK, BiosOK
  <2>2. ASSUME NEW v \in {machine.bios, Nothing}, "own" \in fresh[s],
               bios' = [bios EXCEPT !.status = v]
        PROVE  BiosOK'
    <3>1. bios \in Settings /\ v \in Values \cup {Nothing}
      BY <1>2, <2>2 DEF InvOK, BiosOK, MachineOK
    <3>2. bios' \in Settings
      BY <2>2, <3>1 DEF Settings
    <3> QED BY <3>2, ResetAssumption DEF BiosOK
  <2> QED BY <1>1, <2>1, <2>2
<1>5. GoOK'
  <2>1. NoRevert \in Goroutine /\ NoRevert.pc \notin Restarting
    BY DEF NoRevert, Goroutine, Restarting
  <2> QED BY <1>1, <2>1, GoroutineOK DEF GoEnds, GoOthers
<1> QED BY <1>1, <1>3, <1>4, <1>5, Kept DEF InvOK, GoOthers

-----------------------------------------------------------------------------
(* The theorems.                                                           *)

LEMMA InvInit ==
    ASSUME Init PROVE InvOK
<1> USE ResetAssumption DEF Init
<1>1. SetupOK
  BY DEF SetupOK
<1>2. PICK v \in Values : machine = [power |-> "On", bios |-> v, next |-> v, boot |-> v]
  OBVIOUS
<1>3. MachineOK
  BY <1>2 DEF MachineOK, Powers
<1>4. BmcOK
  BY DEF BmcOK, Powers
<1>5. CopyOK /\ BiosOK /\ BootOK
  <2>1. bios \in Settings /\ boot \in BootSettings
    BY <1>2 DEF Settings, BootSettings
  <2>2. CopyOK
    BY DEF CopyOK
  <2>3. \A p \in Procs : fresh[p] = {}
    OBVIOUS
  <2> QED BY <2>1, <2>2, <2>3 DEF BiosOK, BootOK
<1>6. WorkOK
  BY DEF Idle, WorkOK, NoWorker, Answering
<1>7. EditOK
  BY DEF Idle, EditOK, Edit, Patching, NoEditor
<1>8. CallOK
  BY DEF Idle, CallOK, Call, NoCaller, Callers
<1>9. GoOK
  <2>1. \A s \in Slots : revert[s] = NoRevert
    BY DEF Idle
  <2>2. revert = [s \in Slots |-> NoRevert] /\ restart = FALSE
    BY DEF Idle
  <2>3. NoRevert \in Goroutine /\ NoRevert.pc \notin Restarting
    BY DEF NoRevert, Restarting, Goroutine
  <2> QED BY <2>1, <2>2, <2>3 DEF GoOK
<1> QED BY <1>1, <1>3, <1>4, <1>5, <1>6, <1>7, <1>8, <1>9 DEF InvOK

LEMMA InvNext ==
    ASSUME InvOK, [Next]_vars PROVE InvOK'
<1>1. CASE Work
  BY <1>1, WorkAllOK
<1>2. CASE BiosWork \/ BootWork
  BY <1>2, EditAllOK
<1>3. CASE \E c \in Callers : CallStart(c) \/ CallStep(c)
  BY <1>3, CallAllOK
<1>4. CASE \E s \in Slots : GoStep(s)
  BY <1>4, GoTaskOK, GoBiosOK, GoBiosStatusOK, GoBootOK, GoReadOK DEF GoStep
<1>5. CASE \/ ApplyPassword \/ (\E r \in Requests : ApplyReset(r))
           \/ (\E v \in Values : ApplyBios(v) \/ ApplyBoot(v)) \/ DeleteBios \/ Touch
  BY <1>5, UserOK
<1>6. CASE External
  BY <1>6, ExternalOK
<1>7. CASE Crash
  BY <1>7, RestartOK DEF Crash, Restart
<1>8. CASE UNCHANGED vars
  BY <1>8, Kept DEF vars, kubeVars, InvOK
<1> QED BY <1>1, <1>2, <1>3, <1>4, <1>5, <1>6, <1>7, <1>8 DEF Next

\* What reconcilers, poll, events and goroutines have in hand is there, and RestartRequired
\* says what the goroutines of Revert do: it holds in every state, for any disturbances.
THEOREM SettingsInvHolds == Spec => []Inv
<1>1. Init => InvOK
  BY InvInit
<1>2. InvOK /\ [Next]_vars => InvOK'
  BY InvNext
<1> QED BY <1>1, <1>2, InvParts, PTL DEF Spec

\* Revert never restarts a machine that it is restarting, however many goroutines it may
\* have, as long as no user asks for resets and no event compares beside the poll.
THEOREM OneRestart == Spec => []OneRestartAtATime
<1>1. ASSUME Inv PROVE OneRestartAtATime
  <2> DEFINE starting == {s \in Slots : revert[s].pc = "task"}
  <2> SUFFICES ASSUME setup.kinds \cap {"reset", "event"} = {}
               PROVE  Cardinality(starting) <= 1
    BY DEF OneRestartAtATime
  <2>1. \A s, t \in starting : s = t
    BY <1>1 DEF Inv, RestartInv, Restarting
  <2>2. Cardinality({}) <= 1
    BY FS_EmptySet
  <2>3. \A s \in Slots : Cardinality({s}) = 1
    BY FS_Singleton, Zenon
  <2>4. starting = {} \/ \E s \in Slots : starting = {s}
    BY <2>1
  <2> HIDE DEF starting
  <2>5. Cardinality(starting) <= 1
    BY <2>2, <2>3, <2>4
  <2> QED BY <2>5 DEF starting
<1> QED BY <1>1, SettingsInvHolds, PTL
================================================================================
