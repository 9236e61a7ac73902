-------------------------- MODULE BmcOriginsProofs --------------------------
(***************************************************************************)
(* What a user asks for is subscribed to, and what is subscribed to is     *)
(* told in the status: for any machines, any resources in any order and    *)
(* any number of disturbances.                                             *)
(***************************************************************************)
EXTENDS BmcOrigins, SequenceTheorems, TLAPS

-----------------------------------------------------------------------------
(* The invariant.                                                          *)

\* The IDs a machine can have.
IdsOf(m) == {m} \X {1, 2}

Places == {"validate", "build", "resource", "drop", "panic", "map", "named", "unnamed"}

\* Annotations are links to the machine of the object, or none yet. Without removals all
\* objects are there.
ObjectsInv ==
    /\ system \in [Machines -> SystemIds] /\ \A m \in Machines : system[m] \in IdsOf(m)
    /\ odata \in [Kinds \X Machines -> Links \cup {None}]
    /\ \A k \in Kinds, m \in Machines :
          \/ odata[k, m] = None
          \/ odata[k, m] = Unannotated /\ k \in {"Firmware", "Volume"}
          \/ \E id \in IdsOf(m) : odata[k, m] = LinkOf(k, id)
    /\ "remove" \notin Disturbances => \A k \in Kinds, m \in Machines : Exists(k, m)

\* The loop is at a resource that was asked for; what it has of a Bmc object is of that
\* resource's machine.
LoopInv ==
    /\ asked \in Specs /\ todo \in Seq(Resources)
    /\ \A i \in 1 .. Len(todo) : todo[i] \in Given
    /\ pc \in Places
    /\ pc = "validate" => todo = asked /\ subscribed = {}
    /\ pc \in {"validate", "build"} => bmcObj = None
    /\ pc = "resource" =>
          /\ todo # <<>> /\ Current.kind \notin {"collection", "all"}
          /\ \/ bmcObj = None
             \/ \E id, old \in IdsOf(Current.of) :
                   bmcObj = [system |-> id, link |-> LinkOf("Bmc", old)]

-----------------------------------------------------------------------------
(* The request.                                                            *)

\* There are links in the request for the resource r, be it that ODIM refuses them.
Requested(r) ==
    \/ \A c \in Collections : <<c>> \in subscribed
    \/ r.kind = "collection" /\ <<r.of>> \in subscribed
    \/ /\ r.kind = "allResources"
       /\ \E id \in IdsOf(r.of) : {"Systems", "Managers", "Chassis"} \X {id} \subseteq subscribed
    \/ /\ r.kind \in BelowSystem \cup {"Bmc"}
       /\ \/ <<"Systems">> \in subscribed
          \/ \E id \in IdsOf(r.of) : LinkOf("Bmc", id) \in subscribed
    \/ r.kind = "Firmware" /\ <<"Managers">> \in subscribed
    \/ /\ r.kind \in Kinds
       /\ \/ \E id \in IdsOf(r.of) : LinkOf(r.kind, id) \in subscribed
          \/ Unannotated \in subscribed
    \/ r.kind = "Volume" /\ ~MachinesKeep("Volume")

\* The link l is in the request because of a resource that the user gave.
Justified(l) ==
    \/ l = Unannotated
    \/ \E c \in Collections : l = <<c>> /\ {Collection(c), All} \cap Given # {}
    \/ \E m \in Machines : \E id \in IdsOf(m) :
          \/ AllOf(m) \in Given /\ l \in {<<"Systems", id>>, <<"Managers", id>>, <<"Chassis", id>>}
          \/ \E k \in Kinds : l = LinkOf(k, id) /\ Named(k, m) \in Given
    \/ ~MachinesKeep("Volume")

RequestInv ==
    /\ subscribed \subseteq Links
    /\ pc \in {"validate", "build", "resource", "map", "named"} =>
          /\ \A r \in Given : Requested(r) \/ \E i \in 1 .. Len(todo) : todo[i] = r
          /\ \A l \in subscribed : Justified(l)

-----------------------------------------------------------------------------
(* The status.                                                             *)

\* The link l has been given a name: by its object, if that is not a removed volume's.
IsNamed(l) ==
    /\ \A c \in Collections : l = <<c>> => Collection(c) \in names
    /\ \A m \in Machines : \A id \in IdsOf(m), k \in Kinds :
          l = LinkOf(k, id) => /\ k # "Firmware"
                               /\ Named(k, m) \in names \/ (k = "Volume" /\ "remove" \in Disturbances)

\* The name n is one of what the user gave, or of what is below it.
IsGiven(n) ==
    \E r \in Given :
       \/ n = r
       \/ r = All /\ n.kind = "collection"
       \/ r.kind = "allResources" /\ n = Named("Bmc", r.of)

StatusInv ==
    /\ pc \notin {"map", "named", "unnamed"} => names = {} /\ resource = None
    /\ pc \in {"map", "named"} =>
          /\ todo = <<>> /\ links \subseteq subscribed /\ Unannotated \notin subscribed
          /\ \A l \in subscribed \ links : IsNamed(l)
          /\ resource \in names \cup {None}
          /\ MachinesKeep("Volume") => \A n \in names \ {None} : IsGiven(n)
    /\ pc = "named" => links = {}

OriginsInv == ObjectsInv /\ LoopInv /\ RequestInv /\ StatusInv

-----------------------------------------------------------------------------
(* Links.                                                                  *)

\* Every link says what kind of object it is of, and of which system.
LEMMA LinkForms ==
    ASSUME NEW id
    PROVE  /\ LinkOf("Bmc", id) = <<"Systems", id>>
           /\ LinkOf("BiosSetting", id) = <<"Systems", id, "Bios">>
           /\ LinkOf("BootOrderSetting", id) = <<"Systems", id, "BootOptions">>
           /\ LinkOf("Volume", id) = <<"Systems", id, "Volumes">>
           /\ LinkOf("Firmware", id) = <<"FirmwareInventory", id>>
BY DEF LinkOf

LEMMA LinkParts ==
    ASSUME NEW k \in Kinds, NEW id
    PROVE  /\ LinkOf(k, id)[2] = id /\ Len(LinkOf(k, id)) \in {2, 3}
           /\ LinkOf(k, id)[1] = IF k = "Firmware" THEN "FirmwareInventory" ELSE "Systems"
BY LinkForms DEF Kinds

LEMMA LinksDiffer ==
    ASSUME NEW k \in Kinds, NEW j \in Kinds, NEW id, NEW jd, LinkOf(k, id) = LinkOf(j, jd)
    PROVE  k = j /\ id = jd
BY LinkForms DEF Kinds

LEMMA LinkIsNoCollection ==
    ASSUME NEW k \in Kinds, NEW id
    PROVE  /\ \A c : LinkOf(k, id) # <<c>>
           /\ \A jd : LinkOf(k, id) \notin {<<"Managers", jd>>, <<"Chassis", jd>>}
           /\ LinkOf(k, id) # Unannotated
BY LinkForms DEF Kinds, Unannotated

LEMMA LinkIsOne ==
    ASSUME NEW k \in Kinds, NEW id \in SystemIds
    PROVE  LinkOf(k, id) \in Links
BY DEF Links

\* An ID belongs to one machine.
LEMMA OneOwner ==
    ASSUME NEW m, NEW n, NEW id \in IdsOf(m), id \in IdsOf(n)
    PROVE  m = n
BY DEF IdsOf

\* What is below a link has it as a prefix, and every link has itself.
LEMMA LinkPrefixes ==
    ASSUME NEW k \in Kinds, NEW id
    PROVE  /\ IsPrefix(LinkOf(k, id), LinkOf(k, id))
           /\ k # "Firmware" => /\ IsPrefix(<<"Systems">>, LinkOf(k, id))
                                /\ IsPrefix(LinkOf("Bmc", id), LinkOf(k, id))
BY LinkForms DEF Kinds, IsPrefix

-----------------------------------------------------------------------------
(* The first state, and what happens to objects and systems.               *)

LEMMA InitOK ==
    ASSUME Init PROVE OriginsInv
<1> USE OriginsAssumption
<1>1. \A k \in Kinds, m \in Machines : odata[k, m] = LinkOf(k, <<m, 1>>)
  BY DEF Init
<1>2. \A m \in Machines : <<m, 1>> \in IdsOf(m) /\ <<m, 1>> \in SystemIds
  BY DEF IdsOf, SystemIds
<1>3. ObjectsInv
  <2>1. odata \in [Kinds \X Machines -> Links \cup {None}]
    BY <1>2 DEF Init, Links
  <2>2. system \in [Machines -> SystemIds] /\ \A m \in Machines : system[m] \in IdsOf(m)
    BY <1>2 DEF Init
  <2>3. \A k \in Kinds, m \in Machines : Exists(k, m)
    <3>1. \A k \in Kinds, m \in Machines : LinkOf(k, <<m, 1>>) \in Links
      BY <1>2, LinkIsOne
    <3> QED BY <1>1, <3>1 DEF Exists
  <2> QED BY <1>1, <1>2, <2>1, <2>2, <2>3 DEF ObjectsInv
<1>4. LoopInv
  BY DEF Init, LoopInv, NoRequest, Given, Places
<1>5. todo \in Seq(Resources) /\ todo = asked
  BY DEF Init
<1>6. RequestInv
  BY <1>5 DEF Init, RequestInv, NoRequest, Given
<1>7. StatusInv
  BY DEF Init, StatusInv
<1> QED BY <1>3, <1>4, <1>6, <1>7 DEF OriginsInv

\* Loop, request and status go by what they have read.
LEMMA OthersKept ==
    ASSUME LoopInv, RequestInv, StatusInv, UNCHANGED <<asked, pc, requestVars, statusVars>>
    PROVE  LoopInv' /\ RequestInv' /\ StatusInv'
<1> USE DEF requestVars, statusVars
<1>1. Given' = Given /\ MachinesKeep("Volume")' = MachinesKeep("Volume")
  BY DEF Given, MachinesKeep
<1>2. LoopInv'
  BY <1>1 DEF LoopInv, Current
<1>3. \A r : Requested(r)' <=> Requested(r)
  BY <1>1 DEF Requested
<1>4. \A l : Justified(l)' <=> Justified(l)
  BY <1>1 DEF Justified
<1>5. RequestInv'
  BY <1>1, <1>3, <1>4 DEF RequestInv
<1>6. StatusInv'
  BY <1>1 DEF StatusInv, IsNamed, IsGiven
<1> QED BY <1>2, <1>5, <1>6

LEMMA EnvironmentOK ==
    ASSUME OriginsInv, Environment PROVE OriginsInv'
<1> USE OriginsAssumption
<1>1. UNCHANGED <<asked, pc, requestVars, statusVars>>
  <2>1. \A m \in Machines : AddAgain(m) => UNCHANGED <<asked, pc, requestVars, statusVars>>
    BY DEF AddAgain
  <2>2. \A k \in Kinds, m \in Machines : RemoveObject(k, m) \/ CreateObject(k, m) \/ Annotate(k, m)
            => UNCHANGED <<asked, pc, requestVars, statusVars>>
    BY DEF RemoveObject, CreateObject, Annotate
  <2> QED BY <2>1, <2>2 DEF Environment
<1>2. \A k \in Kinds, m \in Machines : LinkOf(k, system[m]) \in Links
  BY LinkIsOne DEF OriginsInv, ObjectsInv
<1>3. PICK m \in Machines :
        \/ AddAgain(m)
        \/ \E k \in Kinds : RemoveObject(k, m) \/ CreateObject(k, m) \/ Annotate(k, m)
  BY DEF Environment
<1>4. CASE AddAgain(m)
  <2>1. <<m, 2>> \in SystemIds /\ <<m, 2>> \in IdsOf(m)
    BY DEF SystemIds, IdsOf
  <2> QED BY <1>1, <1>4, <2>1, OthersKept DEF OriginsInv, ObjectsInv, AddAgain, Exists
<1>5. ASSUME NEW k \in Kinds, RemoveObject(k, m) PROVE OriginsInv'
  BY <1>1, <1>5, OthersKept DEF OriginsInv, ObjectsInv, RemoveObject, Exists, Disturb
<1>6. ASSUME NEW k \in Kinds, CreateObject(k, m) PROVE OriginsInv'
  <2>1. Unannotated \in Links
    BY DEF Links
  <2> QED BY <1>1, <1>6, <2>1, OthersKept
        DEF OriginsInv, ObjectsInv, CreateObject, Exists
<1>7. ASSUME NEW k \in Kinds, Annotate(k, m) PROVE OriginsInv'
  BY <1>1, <1>2, <1>7, OthersKept DEF OriginsInv, ObjectsInv, Annotate, Exists
<1> QED BY <1>3, <1>4, <1>5, <1>6, <1>7

-----------------------------------------------------------------------------
(* The loop over the resources.                                            *)

\* What the user asked for stays what it is.
LEMMA GivenKept ==
    ASSUME UNCHANGED asked
    PROVE  /\ Given' = Given /\ MachinesKeep("Volume")' = MachinesKeep("Volume")
           /\ \A l : Justified(l)' <=> Justified(l)
           /\ \A n : IsGiven(n)' <=> IsGiven(n)
<1>1. Given' = Given /\ MachinesKeep("Volume")' = MachinesKeep("Volume")
  BY DEF Given, MachinesKeep
<1> QED BY <1>1 DEF Justified, IsGiven

LEMMA ObjectsKept ==
    ASSUME ObjectsInv, UNCHANGED objectVars
    PROVE  ObjectsInv'
BY DEF ObjectsInv, objectVars, Exists

\* A request that grows has links for what it had links for.
LEMMA RequestedGrows ==
    ASSUME UNCHANGED asked, subscribed \subseteq subscribed', NEW r, Requested(r)
    PROVE  Requested(r)'
BY GivenKept DEF Requested

\* The resource the loop is at, and those it has not come to.
LEMMA TodoParts ==
    ASSUME LoopInv, todo # <<>>
    PROVE  /\ Current \in Resources /\ Current \in Given
           /\ Tail(todo) \in Seq(Resources)
           /\ \A i \in 1 .. Len(Tail(todo)) : Tail(todo)[i] \in Given
           /\ \A i \in 1 .. Len(todo) :
                 todo[i] = Current \/ \E j \in 1 .. Len(Tail(todo)) : Tail(todo)[j] = todo[i]
<1>1. todo \in Seq(Resources) /\ Len(todo) \in Nat /\ Len(todo) # 0
  BY DEF LoopInv
<1>2. Current = todo[1] /\ Len(Tail(todo)) = Len(todo) - 1 /\ Tail(todo) \in Seq(Resources)
  BY <1>1 DEF Current
<1>3. \A i \in 1 .. Len(Tail(todo)) : Tail(todo)[i] = todo[i + 1]
  BY <1>1
<1>4. ASSUME NEW i \in 1 .. Len(todo), i # 1
      PROVE  i - 1 \in 1 .. Len(Tail(todo)) /\ Tail(todo)[i - 1] = todo[i]
  BY <1>1, <1>2, <1>3, <1>4
<1> QED BY <1>1, <1>2, <1>3, <1>4 DEF LoopInv

\* The loop goes on: with links for the resource it was at, and links it gives a reason for.
LEMMA LoopOK ==
    ASSUME OriginsInv, pc \in {"build", "resource"}, todo # <<>>,
           UNCHANGED <<asked, objectVars, statusVars>>,
           pc' = "build", bmcObj' = None,
           todo' = Tail(todo) \/ (todo' = <<>> /\ \A c \in Collections : <<c>> \in subscribed'),
           subscribed' \subseteq Links,
           \A r \in Given : Requested(r) \/ r = Current => Requested(r)',
           \A l \in subscribed' : Justified(l)
    PROVE  OriginsInv'
<1>1. ObjectsInv'
  BY ObjectsKept DEF OriginsInv
<1>2. LoopInv'
  <2>1. CASE todo' = Tail(todo)
    <3>1. todo' \in Seq(Resources) /\ \A i \in 1 .. Len(todo') : todo'[i] \in Given
      BY <2>1, TodoParts DEF OriginsInv
    <3> QED BY <3>1, GivenKept DEF OriginsInv, LoopInv, Places
  <2>2. CASE todo' = <<>>
    <3>1. todo' \in Seq(Resources) /\ \A i \in 1 .. Len(todo') : todo'[i] \in Given
      BY <2>2
    <3> QED BY <3>1, GivenKept DEF OriginsInv, LoopInv, Places
  <2> QED BY <2>1, <2>2
<1>3. RequestInv'
  <2>1. ASSUME NEW r \in Given
        PROVE  Requested(r)' \/ \E i \in 1 .. Len(todo') : todo'[i] = r
    <3>1. CASE Requested(r)
      BY <3>1
    <3>2. CASE \E i \in 1 .. Len(todo) : todo[i] = r
      <4>1. r = Current \/ \E j \in 1 .. Len(Tail(todo)) : Tail(todo)[j] = r
        BY <3>2, TodoParts DEF OriginsInv
      <4>2. (\A c \in Collections : <<c>> \in subscribed') => Requested(r)'
        BY DEF Requested
      <4> QED BY <4>1, <4>2, <2>1
    <3> QED BY <3>1, <3>2 DEF OriginsInv, RequestInv
  <2> QED BY <2>1, GivenKept DEF RequestInv
<1>4. StatusInv'
  BY DEF OriginsInv, StatusInv, statusVars
<1> QED BY <1>1, <1>2, <1>3, <1>4 DEF OriginsInv

LEMMA ValidateOK ==
    ASSUME OriginsInv, Validate PROVE OriginsInv'
<1> USE DEF Validate, requestVars
<1>1. ObjectsInv'
  BY ObjectsKept DEF OriginsInv
<1>2. LoopInv'
  BY GivenKept DEF OriginsInv, LoopInv, Places
<1>3. \A r : Requested(r)' <=> Requested(r)
  BY GivenKept DEF Requested
<1>4. RequestInv'
  BY <1>3, GivenKept DEF OriginsInv, RequestInv
<1>5. StatusInv'
  BY DEF OriginsInv, StatusInv, statusVars
<1> QED BY <1>1, <1>2, <1>4, <1>5 DEF OriginsInv

LEMMA AddCollectionOK ==
    ASSUME OriginsInv, AddCollection PROVE OriginsInv'
<1>1. /\ pc = "build" /\ todo # <<>> /\ Current.kind \in {"collection", "all"}
      /\ subscribed' = subscribed \cup {<<c>> : c \in LinksOfCollections} /\ todo' = RestOf
      /\ UNCHANGED <<asked, objectVars, pc, bmcObj, statusVars>>
  BY DEF AddCollection
<1>2. Current \in Resources /\ Current \in Given
  BY <1>1, TodoParts DEF OriginsInv
<1>3. Current = All \/ \E c \in Collections : Current = Collection(c) /\ Current # All
  BY <1>1, <1>2 DEF Resources, Collection, All, AllOf, Named, Kinds
<1>4. LinksOfCollections \subseteq Collections
  BY <1>3 DEF LinksOfCollections, Collection
<1>5. \A c \in LinksOfCollections : {Collection(c), All} \cap Given # {}
  BY <1>2, <1>3 DEF LinksOfCollections, Collection
<1>6. \A l \in subscribed' : Justified(l)
  <2>1. \A l \in subscribed : Justified(l)
    BY <1>1 DEF OriginsInv, RequestInv
  <2>2. \A c \in LinksOfCollections : Justified(<<c>>)
    BY <1>4, <1>5 DEF Justified
  <2> QED BY <1>1, <2>1, <2>2
<1>7. \A r \in Given : Requested(r) => Requested(r)'
  BY <1>1, RequestedGrows
<1>8. ASSUME NEW r \in Given, r = Current PROVE Requested(r)'
  <2>1. CASE Current = All
    BY <1>1, <2>1 DEF LinksOfCollections, Requested
  <2>2. CASE Current # All
    BY <1>1, <1>3, <1>8, <2>2 DEF LinksOfCollections, Requested, Collection
  <2> QED BY <2>1, <2>2
<1>9. todo' = Tail(todo) \/ (todo' = <<>> /\ \A c \in Collections : <<c>> \in subscribed')
  BY <1>1 DEF RestOf, LinksOfCollections
<1>10. subscribed' \subseteq Links
  BY <1>1, <1>4 DEF OriginsInv, RequestInv, Links
<1> QED BY <1>1, <1>6, <1>7, <1>8, <1>9, <1>10, LoopOK DEF OriginsInv, LoopInv

\* The copy of the Bmc object is of the machine of the resource.
LEMMA GetBmcOK ==
    ASSUME OriginsInv, GetBmc PROVE OriginsInv'
<1>1. /\ pc = "build" /\ todo # <<>> /\ Current.kind \notin {"collection", "all"}
      /\ bmcObj' = BmcOf(Current) /\ pc' = "resource"
      /\ UNCHANGED <<asked, objectVars, todo, subscribed, statusVars>>
  BY DEF GetBmc
<1>2. Current \in Resources /\ Current' = Current
  BY <1>1, TodoParts DEF OriginsInv, Current
<1>3. Current.of \in Machines
  BY <1>1, <1>2 DEF Resources, Collection, All, AllOf, Named
<1>4. \/ BmcOf(Current) = None
      \/ \E id, old \in IdsOf(Current.of) :
            BmcOf(Current) = [system |-> id, link |-> LinkOf("Bmc", old)]
  <2>1. /\ system[Current.of] \in IdsOf(Current.of)
        /\ \/ odata["Bmc", Current.of] = None
           \/ \E old \in IdsOf(Current.of) : odata["Bmc", Current.of] = LinkOf("Bmc", old)
    BY <1>3 DEF OriginsInv, ObjectsInv, Kinds
  <2> QED BY <2>1 DEF BmcOf, Exists
<1>5. ObjectsInv'
  BY <1>1, ObjectsKept DEF OriginsInv
<1>6. LoopInv'
  BY <1>1, <1>2, <1>4, GivenKept DEF OriginsInv, LoopInv, Places
<1>7. \A r : Requested(r)' <=> Requested(r)
  BY <1>1, GivenKept DEF Requested
<1>8. RequestInv'
  BY <1>1, <1>7, GivenKept DEF OriginsInv, RequestInv
<1>9. StatusInv'
  BY <1>1 DEF OriginsInv, StatusInv, statusVars
<1> QED BY <1>5, <1>6, <1>8, <1>9 DEF OriginsInv

\* The loop gives up.
LEMMA StopOK ==
    ASSUME OriginsInv, UNCHANGED <<asked, objectVars, requestVars, statusVars>>,
           pc \in {"build", "resource"}, pc' \in {"drop", "panic"}
    PROVE  OriginsInv'
<1>1. ObjectsInv'
  BY ObjectsKept DEF OriginsInv
<1>2. LoopInv'
  BY GivenKept DEF OriginsInv, LoopInv, Places, requestVars
<1>3. RequestInv'
  BY DEF OriginsInv, RequestInv, requestVars
<1>4. StatusInv'
  BY DEF OriginsInv, StatusInv, statusVars
<1> QED BY <1>1, <1>2, <1>3, <1>4 DEF OriginsInv

\* What GetBmc has left for AddResource.
LEMMA AtResource ==
    ASSUME OriginsInv, pc = "resource"
    PROVE  /\ todo # <<>> /\ Current \in Given /\ Current.of \in Machines
           /\ \/ Current = AllOf(Current.of)
              \/ Current.kind \in Kinds /\ Current = Named(Current.kind, Current.of)
           /\ \/ bmcObj = None
              \/ /\ bmcObj.system \in IdsOf(Current.of)
                 /\ \E old \in IdsOf(Current.of) : bmcObj.link = LinkOf("Bmc", old)
<1>1. todo # <<>> /\ Current.kind \notin {"collection", "all"}
  BY DEF OriginsInv, LoopInv
<1>2. Current \in Resources /\ Current \in Given
  BY <1>1, TodoParts DEF OriginsInv
<1>3. /\ Current.of \in Machines
      /\ Current = AllOf(Current.of) \/ (Current.kind \in Kinds /\ Current = Named(Current.kind, Current.of))
  BY <1>1, <1>2 DEF Resources, Collection, All, AllOf, Named
<1>4. ASSUME NEW id \in IdsOf(Current.of), NEW old \in IdsOf(Current.of),
             bmcObj = [system |-> id, link |-> LinkOf("Bmc", old)]
      PROVE  bmcObj.system \in IdsOf(Current.of) /\ bmcObj.link = LinkOf("Bmc", old)
  BY <1>4
<1>5. bmcObj = None \/ \E id, old \in IdsOf(Current.of) : bmcObj = [system |-> id, link |-> LinkOf("Bmc", old)]
  BY DEF OriginsInv, LoopInv
<1> QED BY <1>1, <1>2, <1>3, <1>4, <1>5

LEMMA IdsAreOfMachines ==
    ASSUME NEW m \in Machines, NEW id \in IdsOf(m)
    PROVE  /\ id \in SystemIds /\ <<"Systems", id>> \in Links
           /\ <<"Managers", id>> \in Links /\ <<"Chassis", id>> \in Links
<1>1. id \in SystemIds
  BY DEF IdsOf, SystemIds
<1>2. LinkOf("Bmc", id) \in Links
  BY <1>1, LinkIsOne DEF Kinds
<1> QED BY <1>1, <1>2, LinkForms DEF Links

\* allResources of a machine: the links of its system, manager and chassis.
LEMMA AddAllOfOK ==
    ASSUME OriginsInv, pc = "resource", UNCHANGED <<asked, objectVars, statusVars>>,
           Current.kind = "allResources", bmcObj # None, AddAllOf, NextResource
    PROVE  OriginsInv'
<1> DEFINE m == Current.of
<1> DEFINE id == bmcObj.system
<1>1. m \in Machines /\ id \in IdsOf(m) /\ AllOf(m) \in Given /\ todo # <<>>
  BY AtResource DEF Named, Kinds
<1>2. subscribed' = subscribed \cup ({"Systems", "Managers", "Chassis"} \X {id})
  BY DEF AddAllOf
<1>3. {"Systems", "Managers", "Chassis"} \X {id} = {<<"Systems", id>>, <<"Managers", id>>, <<"Chassis", id>>}
  OBVIOUS
<1>4. subscribed' \subseteq Links
  BY <1>1, <1>2, <1>3, IdsAreOfMachines DEF OriginsInv, RequestInv
<1>5. \A l \in subscribed' : Justified(l)
  <2>1. \A l \in subscribed : Justified(l)
    BY DEF OriginsInv, RequestInv
  <2>2. \A l \in {<<"Systems", id>>, <<"Managers", id>>, <<"Chassis", id>>} : Justified(l)
    BY <1>1 DEF Justified
  <2> QED BY <1>2, <1>3, <2>1, <2>2
<1>6. ASSUME NEW r \in Given, r = Current PROVE Requested(r)'
  BY <1>1, <1>2, <1>6 DEF Requested
<1>7. \A r \in Given : Requested(r) => Requested(r)'
  BY <1>2, RequestedGrows
<1> QED BY <1>1, <1>4, <1>5, <1>6, <1>7, LoopOK DEF NextResource

\* A resource below one that is in the request already.
LEMMA IsSubscribedOK ==
    ASSUME OriginsInv, pc = "resource", UNCHANGED <<asked, objectVars, statusVars>>,
           IsSubscribed(Current), NextResource, UNCHANGED subscribed
    PROVE  OriginsInv'
<1>1. todo # <<>> /\ Current \in Given /\ Current.of \in Machines
      /\ (bmcObj # None => bmcObj.system \in IdsOf(Current.of))
  BY AtResource
<1>2. Requested(Current)
  <2>1. CASE InCollection(Current)
    BY <2>1 DEF InCollection, Requested
  <2>2. CASE BelowSubscribed(Current)
    BY <1>1, <2>2 DEF BelowSubscribed, Requested
  <2> QED BY <2>1, <2>2 DEF IsSubscribed
<1>3. \A r \in Given : Requested(r) \/ r = Current => Requested(r)'
  BY <1>2, RequestedGrows
<1>4. subscribed' \subseteq Links /\ \A l \in subscribed' : Justified(l)
  BY DEF OriginsInv, RequestInv
<1> QED BY <1>1, <1>3, <1>4, LoopOK DEF NextResource

\* What Found returns is of the resource, if it is not another machine's volume in place
\* of one that was removed.
LEMMA FoundIsOfResource ==
    ASSUME OriginsInv, pc = "resource", Current.kind \in Kinds, NEW l \in Found(Current)
    PROVE  /\ l \in Links
           /\ \/ \E id \in IdsOf(Current.of) : l = LinkOf(Current.kind, id)
              \/ l = Unannotated /\ Current.kind # "Bmc"
              \/ Current.kind = "Volume" /\ ~MachinesKeep("Volume")
<1> DEFINE m == Current.of
<1>1. m \in Machines /\ Current \in Given /\ Current = Named(Current.kind, m)
      /\ (bmcObj # None => \E old \in IdsOf(m) : bmcObj.link = LinkOf("Bmc", old))
  BY AtResource DEF AllOf, Kinds
<1>2. CASE Current.kind = "Bmc"
  <2>1. PICK old \in IdsOf(m) : l = LinkOf("Bmc", old)
    BY <1>1, <1>2 DEF Found
  <2>2. l \in Links
    BY <1>1, <2>1, IdsAreOfMachines, LinkIsOne DEF Kinds
  <2> QED BY <1>2, <2>1, <2>2
<1>3. CASE Current.kind # "Bmc" /\ l = odata[Current.kind, m] /\ l # None
  BY <1>1, <1>3 DEF OriginsInv, ObjectsInv
<1>4. CASE Current.kind = "Volume" /\ odata["Volume", m] = None
  <2>1. PICK n \in Machines : l = odata["Volume", n] /\ l # None
    BY <1>1, <1>4 DEF Found
  <2>2. l \in Links
    BY <1>4, <2>1 DEF OriginsInv, ObjectsInv
  <2>3. "remove" \in Disturbances
    BY <1>1, <1>4 DEF OriginsInv, ObjectsInv, Exists
  <2>4. ~MachinesKeep("Volume")
    BY <1>1, <1>4, <2>3 DEF MachinesKeep
  <2> QED BY <1>4, <2>2, <2>4
<1>5. Current.kind # "Bmc" => \/ l = odata[Current.kind, m] /\ l # None
                              \/ Current.kind = "Volume" /\ odata["Volume", m] = None
  BY <1>1 DEF Found
<1> QED BY <1>2, <1>3, <1>4, <1>5

\* A system's link replaces those of its BIOS and its boot order: what was asked for is
\* below it.
LEMMA AddBmcLinkOK ==
    ASSUME OriginsInv, pc = "resource", UNCHANGED asked, bmcObj # None, Current.kind = "Bmc",
           NEW old \in IdsOf(Current.of),
           subscribed' = (subscribed \cup {LinkOf("Bmc", old)}) \ Subordinates(bmcObj.system)
    PROVE  \A r \in Given : Requested(r) \/ r = Current => Requested(r)'
<1> DEFINE m == Current.of
<1> DEFINE id == bmcObj.system
<1>1. m \in Machines /\ Current \in Given /\ id \in IdsOf(m)
  BY AtResource
<1>2. LinkOf("Bmc", old) \in subscribed'
  BY LinksDiffer DEF Subordinates, Kinds
<1>3. \A c : <<c>> \in subscribed => <<c>> \in subscribed'
  BY LinkIsNoCollection DEF Subordinates, Kinds
<1>4. \A jd : /\ LinkOf("Bmc", jd) \in subscribed => LinkOf("Bmc", jd) \in subscribed'
              /\ <<"Managers", jd>> \in subscribed => <<"Managers", jd>> \in subscribed'
              /\ <<"Chassis", jd>> \in subscribed => <<"Chassis", jd>> \in subscribed'
  BY LinksDiffer, LinkIsNoCollection DEF Subordinates, Kinds
<1>5. \A k \in Kinds : \A jd : LinkOf(k, jd) \in subscribed =>
          LinkOf(k, jd) \in subscribed' \/ (k \in BelowSystem /\ jd = id)
  BY LinksDiffer DEF Subordinates, Kinds, BelowSystem
<1>6. Unannotated \in subscribed => Unannotated \in subscribed'
  BY <1>3 DEF Unannotated
<1>7. MachinesKeep("Volume")' = MachinesKeep("Volume")
  BY GivenKept
<1>8. ASSUME NEW r \in Given, r = Current PROVE Requested(r)'
  BY <1>2, <1>8 DEF Requested
<1>9. ASSUME NEW r \in Given, Requested(r) PROVE Requested(r)'
  <2>1. CASE \A c \in Collections : <<c>> \in subscribed
    BY <1>3, <2>1 DEF Requested
  <2>2. CASE r.kind = "collection" /\ <<r.of>> \in subscribed
    BY <1>3, <2>2 DEF Requested
  <2>3. ASSUME r.kind = "allResources", NEW jd \in IdsOf(r.of),
               {"Systems", "Managers", "Chassis"} \X {jd} \subseteq subscribed
        PROVE  Requested(r)'
    <3>1. {"Systems", "Managers", "Chassis"} \X {jd} = {LinkOf("Bmc", jd), <<"Managers", jd>>, <<"Chassis", jd>>}
      BY LinkForms
    <3>2. {"Systems", "Managers", "Chassis"} \X {jd} \subseteq subscribed'
      BY <1>4, <2>3, <3>1
    <3> QED BY <2>3, <3>2 DEF Requested
  <2>4. CASE r.kind \in BelowSystem \cup {"Bmc"} /\ <<"Systems">> \in subscribed
    BY <1>3, <2>4 DEF Requested
  <2>5. CASE r.kind \in BelowSystem \cup {"Bmc"} /\ \E jd \in IdsOf(r.of) : LinkOf("Bmc", jd) \in subscribed
    BY <1>4, <2>5 DEF Requested
  <2>6. CASE r.kind = "Firmware" /\ <<"Managers">> \in subscribed
    BY <1>3, <2>6 DEF Requested
  <2>7. ASSUME r.kind \in Kinds, NEW jd \in IdsOf(r.of), LinkOf(r.kind, jd) \in subscribed
        PROVE  Requested(r)'
    <3>1. CASE LinkOf(r.kind, jd) \in subscribed'
      BY <2>7, <3>1 DEF Requested
    <3>2. CASE r.kind \in BelowSystem /\ jd = id
      <4>1. r.of = m
        BY <1>1, <2>7, <3>2, OneOwner
      <4> QED BY <1>2, <3>2, <4>1 DEF Requested
    <3> QED BY <1>5, <2>7, <3>1, <3>2
  <2>8. CASE r.kind \in Kinds /\ Unannotated \in subscribed
    BY <1>6, <2>8 DEF Requested
  <2>9. CASE r.kind = "Volume" /\ ~MachinesKeep("Volume")
    BY <1>7, <2>9 DEF Requested
  <2> QED BY <1>9, <2>1, <2>2, <2>3, <2>4, <2>5, <2>6, <2>7, <2>8, <2>9 DEF Requested
<1> QED BY <1>8, <1>9

\* The link that was found is added.
LEMMA AddLinkOK ==
    ASSUME OriginsInv, pc = "resource", UNCHANGED <<asked, objectVars, statusVars>>,
           Current.kind \in Kinds, NEW l \in Found(Current), AddLink(Current, l), NextResource
    PROVE  OriginsInv'
<1> DEFINE m == Current.of
<1>1. m \in Machines /\ Current \in Given /\ Current = Named(Current.kind, m) /\ todo # <<>>
  BY AtResource DEF AllOf, Kinds
<1>2. subscribed' \subseteq subscribed \cup {l}
  BY DEF AddLink
<1>3. subscribed' \subseteq Links
  BY <1>2, FoundIsOfResource DEF OriginsInv, RequestInv
<1>4. \A j \in subscribed' : Justified(j)
  <2>1. \A j \in subscribed : Justified(j)
    BY DEF OriginsInv, RequestInv
  <2>2. Justified(l)
    BY <1>1, FoundIsOfResource DEF Justified
  <2> QED BY <1>2, <2>1, <2>2
<1>5. \A r \in Given : Requested(r) \/ r = Current => Requested(r)'
  <2>1. CASE Current.kind = "Bmc"
    <3>1. bmcObj # None /\ l = bmcObj.link
      BY <2>1 DEF Found
    <3>2. PICK old \in IdsOf(m) : l = LinkOf("Bmc", old)
      BY <3>1, AtResource
    <3>3. subscribed' = (subscribed \cup {LinkOf("Bmc", old)}) \ Subordinates(bmcObj.system)
      BY <2>1, <3>2 DEF AddLink
    <3> QED BY <2>1, <3>1, <3>3, AddBmcLinkOK
  <2>2. CASE Current.kind # "Bmc"
    <3>1. subscribed' = subscribed \cup {l}
      BY <2>2 DEF AddLink
    <3>2. \A r \in Given : Requested(r) => Requested(r)'
      BY <3>1, RequestedGrows
    <3>3. ASSUME NEW r \in Given, r = Current PROVE Requested(r)'
      BY <3>1, <3>3, FoundIsOfResource, GivenKept DEF Requested
    <3> QED BY <3>2, <3>3
  <2> QED BY <2>1, <2>2
<1> QED BY <1>1, <1>3, <1>4, <1>5, LoopOK DEF NextResource

LEMMA AddResourceOK ==
    ASSUME OriginsInv, AddResource PROVE OriginsInv'
<1>1. pc = "resource" /\ UNCHANGED <<asked, objectVars, statusVars>>
  BY DEF AddResource
<1>2. Current.kind = "allResources" \/ Current.kind \in Kinds
  BY <1>1, AtResource DEF AllOf
<1>3. CASE Panics(Current)
  <2>1. ~IsSubscribed(Current)
    BY <1>3 DEF Panics, IsSubscribed, BelowSubscribed
  <2>2. pc' = "panic" /\ UNCHANGED requestVars
    BY <1>3, <2>1 DEF AddResource
  <2> QED BY <1>1, <2>2, StopOK
<1>4. CASE Current.kind = "allResources" /\ ~Panics(Current)
  <2>1. ~IsSubscribed(Current) /\ bmcObj # None
    BY <1>4 DEF Panics, IsSubscribed, InCollection, BelowSubscribed, BelowSystem
  <2>2. AddAllOf /\ NextResource
    BY <1>4, <2>1 DEF AddResource
  <2> QED BY <1>1, <1>4, <2>1, <2>2, AddAllOfOK
<1>5. CASE ~Panics(Current) /\ Current.kind # "allResources" /\ IsSubscribed(Current)
  <2>1. NextResource /\ UNCHANGED subscribed
    BY <1>5 DEF AddResource
  <2> QED BY <1>1, <1>5, <2>1, IsSubscribedOK
<1>6. CASE ~Panics(Current) /\ Current.kind # "allResources" /\ ~IsSubscribed(Current)
  <2>1. IF Found(Current) = {} THEN pc' = "drop" /\ UNCHANGED requestVars
        ELSE NextResource /\ \E l \in Found(Current) : AddLink(Current, l)
    BY <1>6 DEF AddResource
  <2>2. CASE Found(Current) = {}
    BY <1>1, <2>1, <2>2, StopOK
  <2>3. CASE Found(Current) # {}
    BY <1>1, <1>2, <1>6, <2>1, <2>3, AddLinkOK
  <2> QED BY <2>2, <2>3
<1> QED BY <1>3, <1>4, <1>5, <1>6

-----------------------------------------------------------------------------
(* ODIM's answer.                                                          *)

LEMMA PostOK ==
    ASSUME OriginsInv, Post PROVE OriginsInv'
<1> USE OriginsAssumption
<1>1. /\ pc = "build" /\ todo = <<>>
      /\ UNCHANGED <<asked, objectVars, bmcObj, resource, names>>
  BY DEF Post
<1>2. ObjectsInv' /\ Given' = Given
  BY <1>1, ObjectsKept, GivenKept DEF OriginsInv
<1>3. names = {} /\ resource = None /\ bmcObj = None /\ asked \in Specs
  BY <1>1 DEF OriginsInv, LoopInv, StatusInv
<1>4. ASSUME \A l \in subscribed : Serves(l), pc' = "map", links' = subscribed,
             UNCHANGED <<todo, subscribed>>
      PROVE  OriginsInv'
  <2>1. Unannotated \notin subscribed
    BY <1>4 DEF Serves, Unannotated
  <2>2. \A r : Requested(r)' <=> Requested(r)
    BY <1>1, <1>4, GivenKept DEF Requested
  <2>3. LoopInv'
    BY <1>1, <1>2, <1>3, <1>4 DEF OriginsInv, LoopInv, Places
  <2>4. RequestInv'
    BY <1>1, <1>4, <2>2, GivenKept DEF OriginsInv, RequestInv
  <2>5. StatusInv'
    BY <1>1, <1>3, <1>4, <2>1 DEF StatusInv
  <2> QED BY <1>2, <2>3, <2>4, <2>5 DEF OriginsInv
<1>5. ASSUME pc' \in {"unnamed", "drop"}, UNCHANGED <<todo, subscribed, links>>
      PROVE  OriginsInv'
  <2>1. LoopInv'
    BY <1>1, <1>2, <1>3, <1>5 DEF OriginsInv, LoopInv, Places
  <2>2. RequestInv' /\ StatusInv'
    BY <1>1, <1>3, <1>5 DEF OriginsInv, RequestInv, StatusInv
  <2> QED BY <1>2, <2>1, <2>2 DEF OriginsInv
<1>6. ASSUME pc' = "validate", todo' = asked, PostFailed, UNCHANGED links
      PROVE  OriginsInv'
  <2>1. asked \in Seq(Resources) /\ \A i \in 1 .. Len(asked) : asked[i] \in Given
    BY <1>3 DEF Given
  <2>2. \A r \in Given : \E i \in 1 .. Len(asked) : asked[i] = r
    BY <2>1 DEF Given
  <2>3. LoopInv'
    BY <1>1, <1>2, <1>3, <1>6, <2>1 DEF OriginsInv, LoopInv, Places, PostFailed
  <2>4. RequestInv'
    BY <1>1, <1>2, <1>6, <2>2 DEF RequestInv, PostFailed
  <2>5. StatusInv'
    BY <1>1, <1>3, <1>6 DEF StatusInv
  <2> QED BY <1>2, <2>3, <2>4, <2>5 DEF OriginsInv
<1> QED BY <1>4, <1>5, <1>6 DEF Post

-----------------------------------------------------------------------------
(* The names of the status.                                                *)

\* Every link of a request that ODIM serves is a collection's, a manager's or chassis', or
\* an object's.
LEMMA LinkCases ==
    ASSUME OriginsInv, NEW l \in subscribed
    PROVE  \/ l = Unannotated
           \/ \E c \in Collections : l = <<c>>
           \/ \E id \in SystemIds : l \in {<<"Managers", id>>, <<"Chassis", id>>}
           \/ \E k \in Kinds, id \in SystemIds : l = LinkOf(k, id)
BY DEF OriginsInv, RequestInv, Links

\* The machine that has a system is the one whose ID it is.
LEMMA OwnerIsMachine ==
    ASSUME ObjectsInv, NEW l, NEW m \in Owner(l)
    PROVE  m \in Machines /\ Exists("Bmc", m) /\ SystemOf(l) \in IdsOf(m) /\ SystemOf(l) = system[m]
BY DEF Owner, ObjectsInv

\* A link that loses its place gets its name: what it is named after was asked for.
LEMMA TranslateOK ==
    ASSUME OriginsInv, pc = "map", UNCHANGED <<asked, objectVars, requestVars>>,
           pc' = "map", NEW l \in links, NEW r, Translate(l, r),
           IsNamed(l)',
           r = None \/ (MachinesKeep("Volume") => IsGiven(r)) \/ r \in names
    PROVE  OriginsInv'
<1> USE DEF Translate, requestVars
<1>1. ObjectsInv'
  BY ObjectsKept DEF OriginsInv
<1>2. LoopInv'
  BY GivenKept DEF OriginsInv, LoopInv, Places
<1>3. \A q : Requested(q)' <=> Requested(q)
  BY GivenKept DEF Requested
<1>4. RequestInv'
  BY <1>3, GivenKept DEF OriginsInv, RequestInv
<1>5. \A j : IsNamed(j) => IsNamed(j)'
  BY DEF IsNamed
<1>6. \A j \in (subscribed \ links)' : IsNamed(j)'
  BY <1>5 DEF OriginsInv, StatusInv
<1>7. MachinesKeep("Volume") => \A n \in names' \ {None} : IsGiven(n)
  BY DEF OriginsInv, StatusInv
<1>8. StatusInv'
  BY <1>6, <1>7, GivenKept DEF OriginsInv, StatusInv
<1> QED BY <1>1, <1>2, <1>4, <1>8 DEF OriginsInv

\* The name of a collection.
LEMMA MapCollectionOK ==
    ASSUME OriginsInv, NEW c \in Collections, <<c>> \in subscribed, pc = "map"
    PROVE  MachinesKeep("Volume") => IsGiven(Collection(c))
<1>1. SUFFICES ASSUME MachinesKeep("Volume") PROVE IsGiven(Collection(c))
  OBVIOUS
<1>2. Justified(<<c>>)
  BY DEF OriginsInv, RequestInv
<1>3. <<c>> # Unannotated
  BY DEF OriginsInv, StatusInv
<1>4. \A k \in Kinds : \A id : <<c>> # LinkOf(k, id)
  BY LinkIsNoCollection
<1>5. \A id : <<c>> \notin {<<"Systems", id>>, <<"Managers", id>>, <<"Chassis", id>>}
  OBVIOUS
<1>6. {Collection(c), All} \cap Given # {}
  BY <1>1, <1>2, <1>3, <1>4, <1>5 DEF Justified
<1> QED BY <1>6 DEF IsGiven, Collection, All

\* The name of an object: the one of its kind that the machine has.
LEMMA MapObjectOK ==
    ASSUME OriginsInv, NEW k \in Kinds, NEW id \in SystemIds, LinkOf(k, id) \in subscribed,
           pc = "map", NEW m \in Owner(LinkOf(k, id))
    PROVE  /\ k # "Firmware" /\ id \in IdsOf(m) /\ Owner(LinkOf(k, id)) = {m}
           /\ \/ NameOf(LinkOf(k, id), m) = {Named(k, m)}
              \/ NameOf(LinkOf(k, id), m) = {} /\ k = "Volume" /\ "remove" \in Disturbances
           /\ MachinesKeep("Volume") => IsGiven(Named(k, m))
<1> DEFINE l == LinkOf(k, id)
<1>1. l[2] = id /\ l[1] = IF k = "Firmware" THEN "FirmwareInventory" ELSE "Systems"
  BY LinkParts
<1>2. m \in Machines /\ SystemOf(l) \in IdsOf(m)
  BY OwnerIsMachine DEF OriginsInv
<1>3. k # "Firmware" /\ id \in IdsOf(m)
  <2>1. SystemOf(l) \in SystemIds
    BY <1>2, IdsAreOfMachines
  <2>2. k # "Firmware"
    BY <1>1, <2>1, OriginsAssumption DEF SystemOf
  <2> QED BY <1>1, <1>2, <2>2 DEF SystemOf
<1>4. SystemOf(l) = id
  BY <1>1, <1>3 DEF SystemOf
<1>5. Owner(l) = {m}
  BY <1>3, <1>4, OwnerIsMachine, OneOwner DEF OriginsInv
<1>6. \A j \in Kinds : LinkOf(j, l[2]) = l <=> j = k
  BY <1>1, LinksDiffer
<1>7. {j \in {"Bmc", "BiosSetting", "BootOrderSetting", "Volume"} :
          LinkOf(j, l[2]) = l /\ (j = "Volume" => Exists("Volume", m))}
        = IF k = "Volume" /\ ~Exists("Volume", m) THEN {} ELSE {k}
  BY <1>3, <1>6 DEF Kinds
<1>8. \/ NameOf(l, m) = {Named(k, m)}
      \/ NameOf(l, m) = {} /\ k = "Volume" /\ ~Exists("Volume", m)
  BY <1>7 DEF NameOf
<1>9. ~Exists("Volume", m) => "remove" \in Disturbances
  BY <1>2 DEF OriginsInv, ObjectsInv, Kinds
<1>10. MachinesKeep("Volume") => IsGiven(Named(k, m))
  <2>1. SUFFICES ASSUME MachinesKeep("Volume") PROVE IsGiven(Named(k, m))
    OBVIOUS
  <2>2. Justified(l)
    BY DEF OriginsInv, RequestInv
  <2>3. l # Unannotated /\ \A c : l # <<c>>
    BY LinkIsNoCollection
  <2>4. PICK n \in Machines : \E jd \in IdsOf(n) :
           \/ AllOf(n) \in Given /\ l \in {<<"Systems", jd>>, <<"Managers", jd>>, <<"Chassis", jd>>}
           \/ \E j \in Kinds : l = LinkOf(j, jd) /\ Named(j, n) \in Given
    BY <2>1, <2>2, <2>3 DEF Justified
  <2>5. PICK jd \in IdsOf(n) :
           \/ AllOf(n) \in Given /\ l \in {<<"Systems", jd>>, <<"Managers", jd>>, <<"Chassis", jd>>}
           \/ \E j \in Kinds : l = LinkOf(j, jd) /\ Named(j, n) \in Given
    BY <2>4
  <2>6. CASE AllOf(n) \in Given /\ l \in {<<"Systems", jd>>, <<"Managers", jd>>, <<"Chassis", jd>>}
    <3>1. l = LinkOf("Bmc", jd)
      BY <2>6, LinkIsNoCollection, LinkForms
    <3>2. k = "Bmc" /\ id = jd
      BY <3>1, LinksDiffer DEF Kinds
    <3>3. n = m
      BY <1>3, <3>2, OneOwner
    <3>4. AllOf(m).kind = "allResources" /\ AllOf(m).of = m /\ AllOf(m) \in Given
      BY <2>6, <3>3 DEF AllOf
    <3> QED BY <3>2, <3>4 DEF IsGiven
  <2>7. ASSUME NEW j \in Kinds, l = LinkOf(j, jd), Named(j, n) \in Given PROVE IsGiven(Named(k, m))
    <3>1. k = j /\ id = jd
      BY <2>7, LinksDiffer
    <3>2. n = m
      BY <1>3, <3>1, OneOwner
    <3> QED BY <2>7, <3>1, <3>2 DEF IsGiven
  <2> QED BY <2>5, <2>6, <2>7
<1> QED BY <1>3, <1>5, <1>8, <1>9, <1>10

LEMMA MapOK ==
    ASSUME OriginsInv, NEW l \in links, Map(l) PROVE OriginsInv'
<1>1. pc = "map" /\ UNCHANGED <<asked, objectVars, requestVars>>
  BY DEF Map
<1>2. l \in subscribed /\ l # Unannotated /\ resource \in names \cup {None}
  BY <1>1 DEF OriginsInv, StatusInv
<1>3. ASSUME NEW c \in Collections, l = <<c>> PROVE OriginsInv'
  <2>1. Translate(l, Collection(c)) /\ UNCHANGED pc
    BY <1>3 DEF Map
  <2>2. \A k \in Kinds : \A id : l # LinkOf(k, id)
    BY <1>3, LinkIsNoCollection
  <2>3. IsNamed(l)'
    BY <1>3, <2>1, <2>2 DEF IsNamed, Translate
  <2>4. MachinesKeep("Volume") => IsGiven(Collection(c))
    BY <1>1, <1>2, <1>3, MapCollectionOK
  <2> QED BY <1>1, <2>1, <2>3, <2>4, TranslateOK
<1>4. CASE Len(l) # 1 /\ Owner(l) = {}
  <2>1. pc' = "unnamed" /\ names' = {} /\ UNCHANGED <<links, resource>>
    BY <1>4 DEF Map
  <2>2. ObjectsInv' /\ Given' = Given
    BY <1>1, ObjectsKept, GivenKept DEF OriginsInv
  <2>3. LoopInv'
    BY <1>1, <2>1, <2>2 DEF OriginsInv, LoopInv, Places, requestVars
  <2>4. RequestInv' /\ StatusInv'
    BY <1>1, <2>1 DEF OriginsInv, RequestInv, StatusInv, requestVars
  <2> QED BY <2>2, <2>3, <2>4 DEF OriginsInv
<1>5. ASSUME Len(l) # 1, Owner(l) # {}
      PROVE  /\ UNCHANGED pc
             /\ LET found == UNION {NameOf(l, m) : m \in Owner(l)} IN
                \E r \in IF found = {} THEN {resource} ELSE found : Translate(l, r)
  BY <1>5 DEF Map
<1>6. ASSUME NEW id \in SystemIds, l \in {<<"Managers", id>>, <<"Chassis", id>>}, Owner(l) # {}
      PROVE  OriginsInv'
  <2>1. \A k \in Kinds : \A jd : l # LinkOf(k, jd)
    BY <1>6, LinkIsNoCollection
  <2>2. \A m : NameOf(l, m) = {}
    BY <2>1 DEF NameOf, Kinds
  <2>3. Translate(l, resource) /\ UNCHANGED pc
    BY <1>5, <1>6, <2>2
  <2>4. IsNamed(l)'
    BY <1>6, <2>1 DEF IsNamed
  <2> QED BY <1>1, <1>2, <2>3, <2>4, TranslateOK
<1>7. ASSUME NEW k \in Kinds, NEW id \in SystemIds, l = LinkOf(k, id), Owner(l) # {}
      PROVE  OriginsInv'
  <2>1. PICK m : m \in Owner(l)
    BY <1>7
  <2>2. /\ k # "Firmware" /\ id \in IdsOf(m) /\ Owner(l) = {m}
        /\ NameOf(l, m) = {Named(k, m)} \/ (NameOf(l, m) = {} /\ k = "Volume" /\ "remove" \in Disturbances)
        /\ MachinesKeep("Volume") => IsGiven(Named(k, m))
    BY <1>1, <1>2, <1>7, <2>1, MapObjectOK
  <2>3. Len(l) # 1
    BY <1>7, LinkParts
  <2>4. UNION {NameOf(l, n) : n \in Owner(l)} = NameOf(l, m)
    BY <2>2
  <2>5. PICK r : Translate(l, r) /\ r \in IF NameOf(l, m) = {} THEN {resource} ELSE NameOf(l, m)
    BY <1>5, <1>7, <2>3, <2>4
  <2>6. UNCHANGED pc
    BY <1>5, <1>7, <2>3
  <2>7. IsNamed(l)'
    <3>1. Named(k, m) \in names' \/ (k = "Volume" /\ "remove" \in Disturbances)
      BY <2>2, <2>5 DEF Translate
    <3>2. ASSUME NEW n \in Machines, NEW jd \in IdsOf(n), NEW j \in Kinds, l = LinkOf(j, jd)
          PROVE  j = k /\ n = m
      <4>1. LinkOf(k, id) = LinkOf(j, jd)
        BY <1>7, <3>2
      <4>2. k = j /\ id = jd
        BY <4>1, LinksDiffer
      <4> QED BY <2>2, <4>2, OneOwner
    <3>3. \A c : l # <<c>>
      BY <1>7, LinkIsNoCollection
    <3> QED BY <2>2, <3>1, <3>2, <3>3 DEF IsNamed
  <2> QED BY <1>1, <1>2, <2>2, <2>5, <2>6, <2>7, TranslateOK
<1>8. \/ \E c \in Collections : l = <<c>>
      \/ Len(l) # 1 /\ \E id \in SystemIds : l \in {<<"Managers", id>>, <<"Chassis", id>>}
      \/ Len(l) # 1 /\ \E k \in Kinds, id \in SystemIds : l = LinkOf(k, id)
  BY <1>2, LinkCases, LinkParts
<1> QED BY <1>3, <1>4, <1>6, <1>7, <1>8

LEMMA TranslatedOK ==
    ASSUME OriginsInv, Translated PROVE OriginsInv'
<1> USE DEF Translated, requestVars, statusVars
<1>1. ObjectsInv'
  BY ObjectsKept DEF OriginsInv
<1>2. LoopInv'
  BY GivenKept DEF OriginsInv, LoopInv, Places
<1>3. \A r : Requested(r)' <=> Requested(r)
  BY GivenKept DEF Requested
<1>4. RequestInv'
  BY <1>3, GivenKept DEF OriginsInv, RequestInv
<1>5. \A l : IsNamed(l)' <=> IsNamed(l)
  BY DEF IsNamed
<1>6. StatusInv'
  BY <1>5, GivenKept DEF OriginsInv, StatusInv
<1> QED BY <1>1, <1>2, <1>4, <1>6 DEF OriginsInv

-----------------------------------------------------------------------------
(* The theorems.                                                           *)

LEMMA OriginsStep ==
    ASSUME OriginsInv, [Next]_vars PROVE OriginsInv'
<1>1. CASE Environment
  BY <1>1, EnvironmentOK
<1>2. CASE Validate
  BY <1>2, ValidateOK
<1>3. CASE AddCollection
  BY <1>3, AddCollectionOK
<1>4. CASE GetBmc
  BY <1>4, GetBmcOK
<1>5. CASE AddResource
  BY <1>5, AddResourceOK
<1>6. CASE Post
  BY <1>6, PostOK
<1>7. CASE \E l \in links : Map(l)
  BY <1>7, MapOK
<1>8. CASE Translated
  BY <1>8, TranslatedOK
<1>9. CASE UNCHANGED vars
  BY <1>9, OthersKept, ObjectsKept DEF OriginsInv, vars
<1> QED BY <1>1, <1>2, <1>3, <1>4, <1>5, <1>6, <1>7, <1>8, <1>9 DEF Next

\* Each link of a request is there because of a resource the user gave, each resource that
\* the loop of GetEventSubscriptionRequest has passed has its links, and the names that
\* MapOriginResources gives are those of the links it has passed.
THEOREM OriginsInvHolds == Spec => []OriginsInv
<1>1. Init => OriginsInv
  BY InitOK
<1>2. OriginsInv /\ [Next]_vars => OriginsInv'
  BY OriginsStep
<1> QED BY <1>1, <1>2, PTL DEF Spec

\* The links of a resource in a subscription that ODIM serves name its machine's system of
\* now: a request with the link of an older one is refused.
LEMMA ServedIsOfNow ==
    ASSUME ObjectsInv, NEW m \in Machines, NEW id \in IdsOf(m), NEW l,
           Serves(l), Len(l) # 1, l[2] = id
    PROVE  id = system[m]
<1>1. PICK n \in Machines : id = system[n]
  BY DEF Serves
<1>2. id \in IdsOf(n)
  BY <1>1 DEF ObjectsInv
<1>3. n = m
  BY <1>2, OneOwner
<1> QED BY <1>1, <1>3

\* A resource there are links for is covered, once ODIM has served them all.
LEMMA RequestedIsCovered ==
    ASSUME OriginsInv, \A l \in subscribed : Serves(l), NEW r \in Given, Requested(r),
           r.kind = "Volume" => MachinesKeep("Volume"), NEW w \in Wanted(r)
    PROVE  \E l \in subscribed : Covers(l, w)
<1> USE OriginsAssumption
<1>1. r \in Resources
  <2>1. asked \in Seq(Resources)
    BY DEF OriginsInv, LoopInv
  <2> QED BY <2>1 DEF Given
<1>2. Unannotated \notin subscribed
  BY DEF Serves, Unannotated
<1>3. \A c : IsPrefix(<<c>>, <<c>>)
  BY DEF IsPrefix
<1>4. CASE r.kind = "collection"
  <2>1. r.of \in Collections /\ w = <<r.of>>
    BY <1>1, <1>4 DEF Resources, Collection, All, AllOf, Named, Kinds, Wanted
  <2>2. <<r.of>> \in subscribed
    BY <1>4, <2>1 DEF Requested, BelowSystem, Kinds
  <2> QED BY <1>3, <2>1, <2>2 DEF Covers
<1>5. CASE r.kind = "all"
  <2>1. \A c \in Collections : <<c>> \in subscribed
    BY <1>5 DEF Requested, BelowSystem, Kinds
  <2>2. PICK c \in Collections : w = <<c>>
    BY <1>5 DEF Wanted
  <2> QED BY <1>3, <2>1, <2>2 DEF Covers
<1>6. ASSUME r.kind \notin {"collection", "all"} PROVE r.of \in Machines /\ r.kind \in Kinds \cup {"allResources"}
  BY <1>1, <1>6 DEF Resources, Collection, All, AllOf, Named
<1>7. CASE r.kind = "allResources"
  <2>1. r.of \in Machines
    BY <1>6, <1>7
  <2>2. PICK kind \in {"Systems", "Managers", "Chassis"} : w = <<kind, system[r.of]>>
    BY <1>7 DEF Wanted
  <2>3. CASE \A c \in Collections : <<c>> \in subscribed
    <3>1. <<kind>> \in subscribed /\ IsPrefix(<<kind>>, w)
      BY <2>2, <2>3 DEF Collections, IsPrefix
    <3> QED BY <3>1 DEF Covers
  <2>4. ASSUME NEW id \in IdsOf(r.of), {"Systems", "Managers", "Chassis"} \X {id} \subseteq subscribed
        PROVE  \E l \in subscribed : Covers(l, w)
    <3>1. <<kind, id>> \in subscribed
      BY <2>4
    <3>2. id = system[r.of]
      BY <2>1, <3>1, ServedIsOfNow DEF OriginsInv
    <3>3. IsPrefix(w, w)
      BY <2>2 DEF IsPrefix
    <3> QED BY <2>2, <3>1, <3>2, <3>3 DEF Covers
  <2> QED BY <1>7, <2>3, <2>4 DEF Requested, BelowSystem, Kinds
<1>8. CASE r.kind \in Kinds
  <2> DEFINE id == system[r.of]
  <2>1. r.of \in Machines
    BY <1>6, <1>8 DEF Kinds
  <2>2. w = LinkOf(r.kind, id)
    BY <1>8 DEF Wanted, Kinds
  <2>3. ASSUME <<"Systems">> \in subscribed, r.kind # "Firmware"
        PROVE  \E l \in subscribed : Covers(l, w)
    BY <1>8, <2>2, <2>3, LinkPrefixes DEF Covers
  <2>4. ASSUME <<"Managers">> \in subscribed, r.kind = "Firmware"
        PROVE  \E l \in subscribed : Covers(l, w)
    <3>1. w[1] = "FirmwareInventory"
      BY <2>2, <2>4, LinkForms
    <3> QED BY <2>4, <3>1 DEF Covers
  <2>5. ASSUME NEW jd \in IdsOf(r.of), LinkOf("Bmc", jd) \in subscribed, r.kind # "Firmware"
        PROVE  \E l \in subscribed : Covers(l, w)
    <3>1. LinkOf("Bmc", jd)[2] = jd /\ Len(LinkOf("Bmc", jd)) # 1
      BY LinkParts DEF Kinds
    <3>2. jd = id
      BY <2>1, <2>5, <3>1, ServedIsOfNow DEF OriginsInv
    <3> QED BY <1>8, <2>2, <2>5, <3>2, LinkPrefixes DEF Covers
  <2>6. ASSUME NEW jd \in IdsOf(r.of), LinkOf(r.kind, jd) \in subscribed
        PROVE  \E l \in subscribed : Covers(l, w)
    <3>1. LinkOf(r.kind, jd)[2] = jd /\ Len(LinkOf(r.kind, jd)) # 1
      BY <1>8, LinkParts
    <3>2. jd = id
      BY <2>1, <2>6, <3>1, ServedIsOfNow DEF OriginsInv
    <3> QED BY <1>8, <2>2, <2>6, <3>2, LinkPrefixes DEF Covers
  <2>7. CASE \A c \in Collections : <<c>> \in subscribed
    BY <1>8, <2>3, <2>4, <2>7 DEF Collections
  <2> QED BY <1>2, <1>8, <2>3, <2>4, <2>5, <2>6, <2>7 DEF Requested, BelowSystem, Kinds
<1> QED BY <1>4, <1>5, <1>6, <1>7, <1>8

\* Whatever happens to objects and systems while the request is built, ODIM's subscription
\* has each resource that the user asked for, or one above it.
THEOREM SubscriptionHasWhatWasAsked == Spec => AskedIsSubscribed
<1>1. ASSUME OriginsInv, [Next]_vars, pc = "build", pc' = "map"
      PROVE  /\ \A l \in subscribed : Serves(l)
             /\ \A r \in Given : Requested(r)
  <2>1. Post
    BY <1>1 DEF Next, Environment, AddAgain, RemoveObject, CreateObject, Annotate, Validate,
                AddCollection, GetBmc, AddResource, Map, Translated, vars
  <2>2. todo = <<>> /\ \A l \in subscribed : Serves(l)
    BY <1>1, <2>1 DEF Post
  <2> QED BY <1>1, <2>2 DEF OriginsInv, RequestInv
<1>2. OriginsInv /\ [Next]_vars =>
        [pc = "build" /\ pc' = "map" =>
            \A r \in Given : (r.kind = "Volume" => MachinesKeep("Volume")) =>
                \A w \in Wanted(r) : \E l \in subscribed : Covers(l, w)]_vars
  BY <1>1, RequestedIsCovered
<1> QED BY <1>2, OriginsInvHolds, PTL DEF Spec, AskedIsSubscribed

\* The names of the status tell each resource that there were links for.
LEMMA RequestedIsTold ==
    ASSUME OriginsInv, pc = "named", MachinesKeep("Volume"), NEW r \in Given
    PROVE  \E n \in names : Tells(n, r)
<1> USE OriginsAssumption
<1>1. Requested(r) /\ Unannotated \notin subscribed /\ \A l \in subscribed : IsNamed(l)
  BY DEF OriginsInv, RequestInv, StatusInv
<1>2. r \in Resources
  <2>1. asked \in Seq(Resources)
    BY DEF OriginsInv, LoopInv
  <2> QED BY <2>1 DEF Given
<1>3. r.kind \notin {"collection", "all"} =>
        /\ r.of \in Machines /\ r.kind \in Kinds \cup {"allResources"}
        /\ r.kind \in Kinds => r = Named(r.kind, r.of)
  BY <1>2 DEF Resources, Collection, All, AllOf, Named, Kinds
<1>4. \A c \in Collections : <<c>> \in subscribed =>
        Collection(c) \in names /\ Collection(c) # None /\ Collection(c).kind = "collection" /\ Collection(c).of = c
  BY <1>1 DEF IsNamed, Resources, Collection
<1>5. ASSUME NEW m \in Machines, NEW id \in IdsOf(m), NEW k \in Kinds, LinkOf(k, id) \in subscribed
      PROVE  k # "Firmware" /\ (Named(k, m) \in names \/ (k = "Volume" /\ "remove" \in Disturbances))
  BY <1>1, <1>5 DEF IsNamed
<1>6. \A k \in Kinds, m \in Machines : Named(k, m) # None /\ Named(k, m).kind = k /\ Named(k, m).of = m
  BY DEF Resources, Named
<1>7. CASE r.kind = "collection"
  <2>1. r.of \in Collections /\ r = Collection(r.of)
    BY <1>2, <1>7 DEF Resources, Collection, All, AllOf, Named, Kinds
  <2>2. <<r.of>> \in subscribed
    BY <1>1, <1>7, <2>1 DEF Requested, BelowSystem, Kinds
  <2> QED BY <1>4, <2>1, <2>2 DEF Tells
<1>8. CASE r.kind = "all"
  <2>1. <<"Systems">> \in subscribed
    BY <1>1, <1>8 DEF Requested, BelowSystem, Kinds, Collections
  <2> QED BY <1>4, <1>8, <2>1 DEF Tells, Collections
<1>9. ASSUME <<"Systems">> \in subscribed, r.kind \in BelowSystem \cup {"Bmc", "allResources"}
      PROVE  \E n \in names : Tells(n, r)
  BY <1>4, <1>9 DEF Tells, Collections
<1>10. ASSUME <<"Managers">> \in subscribed, r.kind = "Firmware"
       PROVE  \E n \in names : Tells(n, r)
  BY <1>4, <1>10 DEF Tells, Collections
<1>11. ASSUME r.of \in Machines, NEW id \in IdsOf(r.of), LinkOf("Bmc", id) \in subscribed,
              r.kind \in BelowSystem \cup {"allResources"} \/ r = Named("Bmc", r.of)
       PROVE  \E n \in names : Tells(n, r)
  <2>1. Named("Bmc", r.of) \in names
    BY <1>5, <1>11 DEF Kinds
  <2> QED BY <1>6, <1>11, <2>1 DEF Tells, Kinds
<1>12. CASE r.kind = "allResources"
  <2>1. CASE \A c \in Collections : <<c>> \in subscribed
    BY <1>9, <1>12, <2>1 DEF Collections
  <2>2. ASSUME NEW id \in IdsOf(r.of), {"Systems", "Managers", "Chassis"} \X {id} \subseteq subscribed
        PROVE  \E n \in names : Tells(n, r)
    <3>1. LinkOf("Bmc", id) \in subscribed
      BY <2>2, LinkForms
    <3> QED BY <1>3, <1>11, <1>12, <3>1
  <2> QED BY <1>1, <1>12, <2>1, <2>2 DEF Requested, BelowSystem, Kinds
<1>13. CASE r.kind \in Kinds
  <2>1. r.of \in Machines /\ r = Named(r.kind, r.of)
    BY <1>3, <1>13 DEF Kinds
  <2>2. CASE \A c \in Collections : <<c>> \in subscribed
    BY <1>9, <1>10, <1>13, <2>2 DEF Collections, Kinds, BelowSystem
  <2>3. ASSUME r.kind \in BelowSystem \cup {"Bmc"}, NEW id \in IdsOf(r.of), LinkOf("Bmc", id) \in subscribed
        PROVE  \E n \in names : Tells(n, r)
    <3>1. r.kind \in BelowSystem \cup {"allResources"} \/ r = Named("Bmc", r.of)
      BY <2>1, <2>3
    <3> QED BY <1>11, <2>1, <2>3, <3>1
  <2>4. ASSUME NEW id \in IdsOf(r.of), LinkOf(r.kind, id) \in subscribed
        PROVE  \E n \in names : Tells(n, r)
    <3>1. r \in names \/ (r.kind = "Volume" /\ "remove" \in Disturbances)
      BY <1>5, <1>13, <2>1, <2>4
    <3>2. ~(r.kind = "Volume" /\ "remove" \in Disturbances)
      BY <2>1 DEF MachinesKeep
    <3> QED BY <3>1, <3>2 DEF Tells
  <2> QED BY <1>1, <1>9, <1>10, <1>13, <2>2, <2>3, <2>4 DEF Requested, Kinds
<1> QED BY <1>3, <1>7, <1>8, <1>12, <1>13

\* The status of a subscription tells what its user asked for, and nothing else.
THEOREM StatusTellsWhatWasAsked == Spec => []StatusTellsSpec
<1>1. ASSUME OriginsInv, pc = "named", MachinesKeep("Volume"), NEW n \in names \ {None}
      PROVE  \E r \in Given :
                \/ n = r
                \/ r = All /\ n.kind = "collection"
                \/ r.kind = "allResources" /\ n = Named("Bmc", r.of)
  BY <1>1 DEF OriginsInv, StatusInv, IsGiven
<1>2. OriginsInv => StatusTellsSpec
  BY <1>1, RequestedIsTold DEF StatusTellsSpec
<1> QED BY <1>2, OriginsInvHolds, PTL
================================================================================
