----------------------------- MODULE BmcOrigins -----------------------------
(***************************************************************************)
(* The resources of an event subscription.                                 *)
(*                                                                         *)
(* GetEventSubscriptionRequest turns spec.OriginResources, the names that  *)
(* a user gives, into the links that ODIM is asked for; MapOriginResources *)
(* turns the links of ODIM's subscription back into the names of the       *)
(* object's status (controllers/eventsubscription).  Both look up objects  *)
(* one name or link at a time, while objects come and go and machines are  *)
(* added to ODIM again under new IDs.                                      *)
(***************************************************************************)
EXTENDS Naturals, SequencesExt

CONSTANTS
    Machines,          \* Bmc objects
    Dotted,            \* those with a "." in their names
    Specs,             \* sequences of resources a user may ask for
    Disturbances,      \* what may happen meanwhile
    MaxDisturbances,   \* how often it may
    None

DisturbanceKinds == {"remove", "create", "annotate", "add", "fault"}

VARIABLES
    asked,        \* spec.OriginResources
    system,       \* per machine, the ID of its system in ODIM and in the Bmc object's status
    odata,        \* per kind and machine, the object's annotation odata.id, None without object
    pc,           \* place of EventsubscriptionReconciler
    todo,         \* resources the loop has not come to
    bmcObj,       \* its copy of a Bmc object: ID and annotation, or None
    subscribed,   \* subscribedCollection, then the links of ODIM's subscription
    links,        \* links that are not translated yet
    resource,     \* the variable resource of MapOriginResources
    names,        \* originResources
    budget        \* disturbances still to come

objectVars == <<system, odata>>
requestVars == <<todo, bmcObj, subscribed>>
statusVars == <<links, resource, names>>
vars == <<asked, objectVars, pc, requestVars, statusVars, budget>>

-----------------------------------------------------------------------------
(* Resources and links.                                                    *)

Collections == {"Systems", "Managers", "Chassis", "Tasks", "Fabrics"}
Kinds == {"Bmc", "BiosSetting", "BootOrderSetting", "Firmware", "Volume"}

Collection(c) == [kind |-> "collection", of |-> c]
All == [kind |-> "all", of |-> None]              \* allResources
AllOf(m) == [kind |-> "allResources", of |-> m]   \* allResources/m
Named(k, m) == [kind |-> k, of |-> m]

Resources ==
    {Collection(c) : c \in Collections} \cup {All} \cup {AllOf(m) : m \in Machines} \cup
    {Named(k, m) : k \in Kinds, m \in Machines}

\* A machine that is added again gets a new system, with a UUID of its own.
SystemIds == Machines \X {1, 2}

\* Each "/" of a link separates two elements: what is below it has it as a prefix.
LinkOf(k, id) ==
    CASE k = "Bmc" -> <<"Systems", id>>
      [] k = "BiosSetting" -> <<"Systems", id, "Bios">>
      [] k = "BootOrderSetting" -> <<"Systems", id, "BootOptions">>
      [] k = "Volume" -> <<"Systems", id, "Volumes">>
      [] k = "Firmware" -> <<"FirmwareInventory", id>>

\* A link that is not there yet: ODIM has nothing at "".
Unannotated == <<None>>

Links ==
    {<<c>> : c \in Collections} \cup {Unannotated} \cup
    {LinkOf(k, id) : k \in Kinds, id \in SystemIds} \cup
    ({"Managers", "Chassis"} \X SystemIds)

\* What GetBmcObject finds of a Bmc object: the ID in its status, and its annotation.
Bmc == [system : SystemIds, link : Links]

ASSUME OriginsAssumption ==
    /\ Dotted \subseteq Machines
    /\ Specs \subseteq Seq(Resources)
    /\ Disturbances \subseteq DisturbanceKinds /\ MaxDisturbances \in Nat
    /\ None \notin Collections /\ None \notin SystemIds
    /\ None \notin Resources /\ None \notin Links /\ None \notin Bmc

Exists(k, m) == odata[k, m] # None

-----------------------------------------------------------------------------
(* The state.                                                              *)

NoRequest == subscribed = {} /\ bmcObj = None

Init ==
    /\ asked \in Specs /\ todo = asked
    /\ system = [m \in Machines |-> <<m, 1>>]
    /\ odata = [o \in Kinds \X Machines |-> LinkOf(o[1], <<o[2], 1>>)]
    /\ pc = "validate" /\ NoRequest
    /\ links = {} /\ resource = None /\ names = {}
    /\ budget = MaxDisturbances

Disturb(kind) ==
    /\ kind \in Disturbances
    /\ budget > 0
    /\ budget' = budget - 1

-----------------------------------------------------------------------------
(* The objects.                                                            *)

RemoveObject(k, m) ==
    /\ Disturb("remove")
    /\ Exists(k, m)
    /\ odata' = [odata EXCEPT ![<<k, m>>] = None]
    /\ UNCHANGED <<asked, system, pc, requestVars, statusVars>>

\* A Firmware or Volume object has no annotation before its reconciler has run.
CreateObject(k, m) ==
    /\ Disturb("create")
    /\ k \in {"Firmware", "Volume"} /\ ~Exists(k, m)
    /\ odata' = [odata EXCEPT ![<<k, m>>] = Unannotated]
    /\ UNCHANGED <<asked, system, pc, requestVars, statusVars>>

\* The reconciler of an object notes where its resource is now.
Annotate(k, m) ==
    /\ Disturb("annotate")
    /\ k # "Bmc" /\ Exists(k, m)
    /\ odata' = [odata EXCEPT ![<<k, m>>] = LinkOf(k, system[m])]
    /\ UNCHANGED <<asked, system, pc, requestVars, statusVars>>

\* Revert adds the machine again: the status has the new ID, the annotations the old one.
AddAgain(m) ==
    /\ Disturb("add")
    /\ system[m] = <<m, 1>>
    /\ system' = [system EXCEPT ![m] = <<m, 2>>]
    /\ UNCHANGED <<asked, odata, pc, requestVars, statusVars>>

Environment ==
    \E m \in Machines :
        AddAgain(m) \/ \E k \in Kinds : RemoveObject(k, m) \/ CreateObject(k, m) \/ Annotate(k, m)

-----------------------------------------------------------------------------
(* GetEventSubscriptionRequest.                                            *)

\* ValidateMessageIDs.  A message ID that its registry does not have is refused, one with
\* less than two "." is a panic.
Validate ==
    /\ pc = "validate"
    /\ pc' \in {"build", "drop", "panic"}
    /\ UNCHANGED <<asked, objectVars, requestVars, statusVars, budget>>

Current == Head(todo)
RestOf == IF Current = All THEN <<>> ELSE Tail(todo)   \* break

LinksOfCollections == IF Current = All THEN Collections ELSE {Current.of}

AddCollection ==
    /\ pc = "build" /\ todo # <<>> /\ Current.kind \in {"collection", "all"}
    /\ subscribed' = subscribed \cup {<<c>> : c \in LinksOfCollections}
    /\ todo' = RestOf
    /\ UNCHANGED <<asked, objectVars, pc, bmcObj, statusVars, budget>>

\* The name of a volume's machine ends at its first ".", and no machine has that name.
BmcOf(r) ==
    IF Exists("Bmc", r.of) /\ ~(r.kind = "Volume" /\ r.of \in Dotted)
    THEN [system |-> system[r.of], link |-> odata["Bmc", r.of]] ELSE None

GetBmc ==
    /\ pc = "build" /\ todo # <<>> /\ Current.kind \notin {"collection", "all"}
    /\ bmcObj' = BmcOf(Current) /\ pc' = "resource"
    /\ UNCHANGED <<asked, objectVars, todo, subscribed, statusVars, budget>>

BelowSystem == {"BiosSetting", "BootOrderSetting", "Volume"}

InCollection(r) ==
    \/ r.kind \in BelowSystem \cup {"Bmc"} /\ <<"Systems">> \in subscribed
    \/ r.kind = "Firmware" /\ <<"Managers">> \in subscribed

\* The ID of a Bmc object that was not found is asked for.
Panics(r) == r.kind \in BelowSystem \cup {"allResources"} /\ ~InCollection(r) /\ bmcObj = None

BelowSubscribed(r) ==
    r.kind \in BelowSystem /\ bmcObj # None /\ LinkOf("Bmc", bmcObj.system) \in subscribed

IsSubscribed(r) == InCollection(r) \/ BelowSubscribed(r)

\* GetBmcObject, GetBiosObject and the like.  Without a volume of the machine,
\* GetVolumeObject returns the first volume there is.
Found(r) ==
    IF r.kind = "Bmc" THEN IF bmcObj = None THEN {} ELSE {bmcObj.link}
    ELSE LET own == {odata[r.kind, r.of]} \ {None} IN
         IF r.kind = "Volume" /\ own = {} THEN {odata["Volume", m] : m \in Machines} \ {None}
         ELSE own

SubordinatesOfAll(id) ==   \* mutant: of every system
    {LinkOf(k, i) : k \in {"BiosSetting", "BootOrderSetting"}, i \in SystemIds}
Subordinates(id) == {LinkOf("BiosSetting", id), LinkOf("BootOrderSetting", id)}

AddLink(r, l) ==
    subscribed' = IF r.kind = "Bmc" THEN (subscribed \cup {l}) \ Subordinates(bmcObj.system)
                  ELSE subscribed \cup {l}

AddAllOf == subscribed' = subscribed \cup ({"Systems", "Managers", "Chassis"} \X {bmcObj.system})

NextResource == pc' = "build" /\ todo' = Tail(todo) /\ bmcObj' = None

AddResource ==
    /\ pc = "resource"
    /\ LET r == Current IN
       CASE Panics(r) -> pc' = "panic" /\ UNCHANGED requestVars
         [] r.kind = "allResources" /\ ~Panics(r) -> AddAllOf /\ NextResource
         [] IsSubscribed(r) -> NextResource /\ UNCHANGED subscribed
         [] OTHER ->
              IF Found(r) = {} THEN pc' = "drop" /\ UNCHANGED requestVars
              ELSE NextResource /\ \E l \in Found(r) : AddLink(r, l)
    /\ UNCHANGED <<asked, objectVars, statusVars, budget>>

-----------------------------------------------------------------------------
(* ODIM.                                                                   *)

\* ODIM refuses what it has no resource for.
Serves(l) ==
    \/ Len(l) = 1 /\ l # Unannotated
    \/ Len(l) > 1 /\ \E m \in Machines : l[2] = system[m]

PostFailed == subscribed' = {}

\* The request and its task; a request that fails is repeated from the start.  When the
\* new subscription cannot be read, the object has no status.
Post ==
    /\ pc = "build" /\ todo = <<>>
    /\ \/ /\ \A l \in subscribed : Serves(l)
          /\ \/ pc' = "map" /\ links' = subscribed /\ UNCHANGED budget
             \/ pc' = "unnamed" /\ Disturb("fault") /\ UNCHANGED links
          /\ UNCHANGED <<todo, subscribed>>
       \/ pc' = "drop" /\ UNCHANGED <<todo, subscribed, links, budget>>
       \/ Disturb("fault") /\ pc' = "validate" /\ todo' = asked /\ PostFailed /\ UNCHANGED links
    /\ UNCHANGED <<asked, objectVars, bmcObj, resource, names>>

-----------------------------------------------------------------------------
(* MapOriginResources.                                                     *)

\* GetSystemIDFromURI takes the ID up to its "." for the system of a firmware inventory:
\* the UUID, which no system has for its ID.
SystemOf(l) == IF l[1] = "FirmwareInventory" THEN None ELSE l[2]

Owner(l) == {m \in Machines : Exists("Bmc", m) /\ system[m] = SystemOf(l)}

NameAsSystem(l, m) == {Named("Bmc", m)}   \* mutant: the case of systems comes first

\* A manager or chassis, and a volume without object, leave the last name in place.
NameOf(l, m) ==
    {Named(k, m) : k \in {k \in {"Bmc", "BiosSetting", "BootOrderSetting", "Volume"} :
        LinkOf(k, l[2]) = l /\ (k = "Volume" => Exists("Volume", m))}}

Translate(l, r) ==
    /\ resource' = r /\ names' = names \cup {r}
    /\ links' = links \ {l}

Map(l) ==
    /\ pc = "map" /\ l \in links
    /\ IF Len(l) = 1 THEN Translate(l, Collection(l[1])) /\ UNCHANGED pc
       ELSE IF Owner(l) = {} THEN pc' = "unnamed" /\ names' = {} /\ UNCHANGED <<links, resource>>
       ELSE LET found == UNION {NameOf(l, m) : m \in Owner(l)} IN
            /\ \E r \in IF found = {} THEN {resource} ELSE found : Translate(l, r)
            /\ UNCHANGED pc
    /\ UNCHANGED <<asked, objectVars, requestVars, budget>>

Translated ==
    /\ pc = "map" /\ links = {}
    /\ pc' = "named"
    /\ UNCHANGED <<asked, objectVars, requestVars, statusVars, budget>>

-----------------------------------------------------------------------------
(* The system.                                                             *)

Next ==
    \/ Environment
    \/ Validate \/ AddCollection \/ GetBmc \/ AddResource \/ Post
    \/ (\E l \in links : Map(l)) \/ Translated

Spec == Init /\ [][Next]_vars

-----------------------------------------------------------------------------
(* Properties.                                                             *)

Given == {asked[i] : i \in DOMAIN asked}
MachinesKeep(k) == "remove" \notin Disturbances \/ \A m \in Machines : Named(k, m) \notin Given

\* The links of the resource r, as long as its machine keeps its system.
Wanted(r) ==
    CASE r.kind = "collection" -> {<<r.of>>}
      [] r.kind = "all" -> {<<c>> : c \in Collections}
      [] r.kind = "allResources" -> {"Systems", "Managers", "Chassis"} \X {system[r.of]}
      [] OTHER -> {LinkOf(r.kind, system[r.of])}

Covers(l, w) == IsPrefix(l, w) \/ (l = <<"Managers">> /\ w[1] = "FirmwareInventory")

\* ODIM's subscription has each resource the user has asked for, or one above it, in
\* whatever order they are given and whatever happened to objects and systems meanwhile;
\* only in place of a volume that was removed there may be another machine's.
AskedIsSubscribed ==
    [][pc = "build" /\ pc' = "map" =>
        \A r \in Given : (r.kind = "Volume" => MachinesKeep("Volume")) =>
            \A w \in Wanted(r) : \E l \in subscribed : Covers(l, w)]_vars

\* n names the resource r, or one above it.
Tells(n, r) ==
    \/ n = r
    \/ /\ n # None /\ n.kind = "collection"
       /\ \/ r.kind = "all"
          \/ n.of = "Systems" /\ r.kind \in BelowSystem \cup {"Bmc", "allResources"}
          \/ n.of = "Managers" /\ r.kind = "Firmware"
    \/ /\ n # None /\ n.kind = "Bmc" /\ n.of = r.of
       /\ r.kind \in BelowSystem \cup {"allResources"}

\* The status of an object whose links were all translated tells what its user has asked
\* for, and nothing else but an empty name for a manager or a chassis.
StatusTellsSpec ==
    pc = "named" /\ MachinesKeep("Volume") =>
        /\ \A r \in Given : \E n \in names : Tells(n, r)
        /\ \A n \in names \ {None} :
              \E r \in Given :
                 \/ n = r
                 \/ r = All /\ n.kind = "collection"
                 \/ r.kind = "allResources" /\ n = Named("Bmc", r.of)

=============================================================================
