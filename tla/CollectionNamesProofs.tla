------------------------ MODULE CollectionNamesProofs ------------------------
(***************************************************************************)
(* Proofs about CollectionNames, for any names, addresses and bounds: what *)
(* a name leads to bears it, in the layout manager, in the registry of     *)
(* components and in every collection; and what the registry's ids, maps   *)
(* of pairs and pointers to layouts, and the collections' entities and     *)
(* pairs, can be relied on for.                                            *)
(***************************************************************************)
EXTENDS CollectionNames, FiniteSetTheorems, SequenceTheorems, TLAPS

-----------------------------------------------------------------------------
(* Layouts.  An id is given once, so a name that outlives its layout leads   *)
(* to no other.                                                              *)

Bearers(maps) ==
  /\ maps.count \in Nat
  /\ \A id \in DOMAIN maps.layouts : id \in Nat /\ id < maps.count
  /\ \A name \in DOMAIN maps.names :
       LET id == maps.names[name]
       IN  /\ id \in Nat /\ id < maps.count
           /\ id \in DOMAIN maps.layouts /\ maps.layouts[id] # NullLayout
                => maps.layouts[id].name = name

LayoutInv == Bearers(Maps)

(* A creation, refused or not, leaves every name with its bearer.            *)
LEMMA CreatedBearers ==
  ASSUME NEW maps, Bearers(maps), NEW name, NEW p
  PROVE  Bearers(Created(maps, name, p))
<1> DEFINE new == [ptr |-> p, name |-> name]
           after == [layouts |-> Extended(maps.layouts, maps.count, new),
                     names   |-> IF name = NoLayoutName THEN maps.names
                                 ELSE Extended(maps.names, name, maps.count),
                     count   |-> Counted(maps.count)]
<1>1. CASE Refused(maps, name)
  BY <1>1 DEF Created
<1>2. CASE ~ Refused(maps, name)
  <2>1. Created(maps, name, p) = after
    BY <1>2 DEF Created
  <2>2. after.count = maps.count + 1
    BY DEF Counted
  <2>3. /\ DOMAIN after.layouts = DOMAIN maps.layouts \union {maps.count}
        /\ after.layouts[maps.count].name = name
        /\ \A id \in DOMAIN maps.layouts : after.layouts[id] = maps.layouts[id]
    BY DEF Extended, Bearers
  <2>4. \A n \in DOMAIN after.names :
          \/ n = name /\ after.names[n] = maps.count
          \/ n \in DOMAIN maps.names /\ after.names[n] = maps.names[n]
    BY DEF Extended
  <2> HIDE DEF after
  <2>5. Bearers(after)
    BY <2>2, <2>3, <2>4 DEF Bearers
  <2>6. QED
    BY <2>1, <2>5
<1>3. QED
  BY <1>1, <1>2

(* So does every step on layouts.                                            *)
LEMMA LayoutStepInv ==
  ASSUME LayoutInv, LayoutStep
  PROVE  LayoutInv'
<1>1. ASSUME NEW maps, Bearers(maps), BecomeMaps(maps)
      PROVE  LayoutInv'
  BY <1>1 DEF LayoutInv, Maps, BecomeMaps, Bearers
<1>2. ASSUME NEW name, NEW p, CreateLayout(name, p)
      PROVE  LayoutInv'
  <2>1. Bearers(Created(Maps, name, p))
    BY CreatedBearers DEF LayoutInv
  <2>2. QED
    BY <1>1, <1>2, <2>1 DEF CreateLayout
<1>3. ASSUME NEW name, NEW p, NEW q, CreateLayoutFromCode(name, p, q)
      PROVE  LayoutInv'
  <2> DEFINE second == Created(Created(Maps, name, p), name, q)
  <2>1. Bearers(second)
    BY CreatedBearers DEF LayoutInv
  <2>2. Bearers([second EXCEPT !.count = Counted(@)])
    <3>1. second = [layouts |-> second.layouts, names |-> second.names,
                    count |-> second.count]
      BY DEF Created, Maps
    <3> HIDE DEF second
    <3>2. QED
      BY <2>1, <3>1 DEF Bearers, Counted
  <2> HIDE DEF second
  <2>3. QED
    BY <1>1, <1>3, <2>1, <2>2 DEF CreateLayoutFromCode, second
<1>4. ASSUME NEW name, GetLayoutByName(name)
      PROVE  LayoutInv'
  BY <1>4 DEF GetLayoutByName, LayoutInv, Maps, Bearers, Extended
<1>5. ASSUME NEW id, EraseLayout(id)
      PROVE  LayoutInv'
  BY <1>5 DEF EraseLayout, LayoutInv, Maps, Bearers, Without
<1>6. ASSUME NEW name, EraseLayoutName(name)
      PROVE  LayoutInv'
  BY <1>6 DEF EraseLayoutName, LayoutInv, Maps, Bearers, Without
<1>7. QED
  BY <1>2, <1>3, <1>4, <1>5, <1>6 DEF LayoutStep

-----------------------------------------------------------------------------
(* Components.  No id is given twice, whether of a pair or not, so what a    *)
(* component is called never changes.                                        *)

GivenIds == FirstId .. id_count - 1

ComponentInv ==
  /\ id_count \in Nat /\ FirstId <= id_count
  /\ \A id \in DOMAIN component :
       IF IsPure(id) THEN \E k \in GivenIds : id = PureId(k)
       ELSE \E a, b \in GivenIds :
              id = <<a, b>> /\ {PureId(a), PureId(b)} \subseteq DOMAIN component
  /\ FoundByName
  /\ \A id \in DOMAIN component : component[id].name \in DOMAIN component_names

\* The components there are stay what they are.
ComponentsKept ==
  \A id \in DOMAIN component :
    /\ id \in DOMAIN component'
    /\ component'[id] = component[id]

(* A tag or data component gets an id no other has, and a name no other has. *)
LEMMA CreatePureInv ==
  ASSUME ComponentInv, NEW name, NEW kind, kind # "Pair", NEW p, NEW layouts,
         CreatePure(name, kind, p, layouts)
  PROVE  ComponentInv' /\ ComponentsKept
<1> USE ComponentAssumption
<1> DEFINE id == PureId(id_count)
           new == [name |-> name, type |-> kind, at |-> <<p>>, of |-> layouts]
<1>1. CASE ~ (NewName(name) /\ InPureRange(id_count))
  <2>1. UNCHANGED <<component, component_names, id_count>>
    BY <1>1 DEF CreatePure, CountAfter
  <2>2. QED
    BY <2>1 DEF ComponentInv, ComponentsKept, FoundByName, GivenIds, IsPure
<1>2. CASE NewName(name) /\ InPureRange(id_count)
  <2>1. /\ id_count' = id_count + 1
        /\ component_names' = Extended(component_names, name, id)
        /\ component' = Extended(component, id, new)
        /\ name \notin DOMAIN component_names
    BY <1>2 DEF CreatePure, CountAfter, NewName
  <2>2. id \notin DOMAIN component
    <3> SUFFICES ASSUME id \in DOMAIN component
                 PROVE  FALSE
      OBVIOUS
    <3>1. CASE IsPure(id)
      <4>1. PICK k \in GivenIds : id = PureId(k)
        BY <3>1 DEF ComponentInv
      <4>2. k = id_count
        BY <4>1 DEF PureId
      <4>3. QED
        BY <4>2 DEF ComponentInv, GivenIds
    <3>2. CASE ~ IsPure(id)
      <4>1. PICK a \in GivenIds, b \in GivenIds : id = <<a, b>>
        BY <3>2 DEF ComponentInv
      <4>2. a = 0
        BY <4>1 DEF PureId
      <4>3. QED
        BY <4>2 DEF ComponentInv, GivenIds
    <3>3. QED
      BY <3>1, <3>2
  <2>3. /\ DOMAIN component' = DOMAIN component \union {id}
        /\ component'[id] = new
        /\ \A k \in DOMAIN component : component'[k] = component[k]
    BY <2>1, <2>2 DEF Extended
  <2>4. /\ DOMAIN component_names' = DOMAIN component_names \union {name}
        /\ component_names'[name] = id
        /\ \A n \in DOMAIN component_names : component_names'[n] = component_names[n]
    BY <2>1 DEF Extended
  <2>5. ComponentsKept
    BY <2>3 DEF ComponentsKept
  <2>6. new.name = name /\ new.type # "Pair"
    OBVIOUS
  <2> HIDE DEF new, id
  <2>7. \A k \in DOMAIN component' :
          IF IsPure(k)' THEN \E j \in GivenIds' : k = PureId(j)
          ELSE \E a, b \in GivenIds' :
                 k = <<a, b>> /\ {PureId(a), PureId(b)} \subseteq DOMAIN component'
    <3> SUFFICES ASSUME NEW k \in DOMAIN component'
                 PROVE  IF IsPure(k)' THEN \E j \in GivenIds' : k = PureId(j)
                        ELSE \E a, b \in GivenIds' :
                          k = <<a, b>> /\ {PureId(a), PureId(b)} \subseteq DOMAIN component'
      OBVIOUS
    <3>1. GivenIds \subseteq GivenIds' /\ id_count \in GivenIds'
      BY <2>1 DEF GivenIds, ComponentInv
    <3>2. CASE k = id
      BY <2>3, <2>6, <3>1, <3>2 DEF IsPure, id
    <3>3. CASE k \in DOMAIN component
      <4>1. IsPure(k)' <=> IsPure(k)
        BY <2>3, <3>3 DEF IsPure
      <4>2. QED
        BY <2>3, <3>1, <3>3, <4>1 DEF ComponentInv
    <3>4. QED
      BY <2>3, <3>2, <3>3
  <2>8. FoundByName' /\ \A k \in DOMAIN component' :
                          component'[k].name \in DOMAIN component_names'
    BY <2>1, <2>2, <2>3, <2>4, <2>6 DEF ComponentInv, FoundByName, IsPure
  <2>9. id_count' \in Nat /\ FirstId <= id_count'
    BY <2>1 DEF ComponentInv
  <2>10. QED
    BY <2>5, <2>7, <2>8, <2>9 DEF ComponentInv
<1>3. QED
  BY <1>1, <1>2

(* A pair is of two components that are there; its name may take over a tag's. *)
LEMMA CreatePairInv ==
  ASSUME ComponentInv, NEW A, NEW B, CreatePairComponent(A, B)
  PROVE  ComponentInv' /\ ComponentsKept
<1> USE ComponentAssumption
<1> DEFINE a == component_names[A]
           b == component_names[B]
           id == MakePairId(a, b)
           name == PairName[A, B]
           new == [name |-> name, type |-> "Pair",
                   at |-> component[a].at \o component[b].at,
                   of |-> component[a].of \union component[b].of]
           allowed == /\ A # B
                      /\ {A, B} \subseteq DOMAIN component_names
                      /\ IsPure(a) /\ IsPure(b)
                      /\ id \notin DOMAIN component
<1>1. CASE ~ allowed
  <2>1. UNCHANGED <<component, component_names, id_count>>
    BY <1>1 DEF CreatePairComponent, componentVars
  <2>2. QED
    BY <2>1 DEF ComponentInv, ComponentsKept, FoundByName, GivenIds, IsPure
<1>2. CASE allowed
  <2>1. /\ id_count' = id_count
        /\ component_names' = Extended(component_names, name, id)
        /\ component' = Extended(component, id, new)
    BY <1>2 DEF CreatePairComponent
  <2>2. /\ a \in DOMAIN component /\ b \in DOMAIN component
        /\ \E j, k \in GivenIds : a = PureId(j) /\ b = PureId(k)
    BY <1>2 DEF ComponentInv, FoundByName
  <2>3. PICK j \in GivenIds, k \in GivenIds : a = PureId(j) /\ b = PureId(k)
    BY <2>2
  <2>4. id = <<j, k>> /\ PureId(j) \in DOMAIN component /\ PureId(k) \in DOMAIN component
    BY <2>2, <2>3 DEF MakePairId, PureId
  <2>5. /\ DOMAIN component' = DOMAIN component \union {id}
        /\ component'[id] = new
        /\ \A i \in DOMAIN component : component'[i] = component[i]
    BY <1>2, <2>1 DEF Extended
  <2>6. /\ DOMAIN component_names' = DOMAIN component_names \union {name}
        /\ component_names'[name] = id
        /\ \A n \in DOMAIN component_names :
             n # name => component_names'[n] = component_names[n]
    BY <2>1 DEF Extended
  <2>7. new.name = name /\ new.type = "Pair"
    OBVIOUS
  <2>8. id \notin DOMAIN component
    BY <1>2
  <2> HIDE DEF new, id, name, a, b
  <2>9. ComponentsKept
    BY <2>5 DEF ComponentsKept
  <2>10. \A i \in DOMAIN component' :
           IF IsPure(i)' THEN \E l \in GivenIds' : i = PureId(l)
           ELSE \E l, m \in GivenIds' :
                  i = <<l, m>> /\ {PureId(l), PureId(m)} \subseteq DOMAIN component'
    <3> SUFFICES ASSUME NEW i \in DOMAIN component'
                 PROVE  IF IsPure(i)' THEN \E l \in GivenIds' : i = PureId(l)
                        ELSE \E l, m \in GivenIds' :
                          i = <<l, m>> /\ {PureId(l), PureId(m)} \subseteq DOMAIN component'
      OBVIOUS
    <3>1. GivenIds' = GivenIds
      BY <2>1 DEF GivenIds
    <3>2. CASE i = id
      BY <2>4, <2>5, <2>7, <3>1, <3>2 DEF IsPure
    <3>3. CASE i \in DOMAIN component
      <4>1. IsPure(i)' <=> IsPure(i)
        BY <2>5, <3>3 DEF IsPure
      <4>2. QED
        BY <2>5, <3>1, <3>3, <4>1 DEF ComponentInv
    <3>4. QED
      BY <2>5, <3>2, <3>3
  <2>11. FoundByName' /\ \A i \in DOMAIN component' :
                           component'[i].name \in DOMAIN component_names'
    BY <2>5, <2>6, <2>7, <2>8 DEF ComponentInv, FoundByName, IsPure
  <2>12. id_count' \in Nat /\ FirstId <= id_count'
    BY <2>1 DEF ComponentInv
  <2>13. QED
    BY <2>9, <2>10, <2>11, <2>12 DEF ComponentInv
<1>3. QED
  BY <1>1, <1>2

(* No creation changes the components there are.                             *)
LEMMA ComponentStepInv ==
  ASSUME ComponentInv, ComponentStep
  PROVE  ComponentInv' /\ ComponentsKept
<1>1. ASSUME NEW name, CreateTagComponent(name)
      PROVE  ComponentInv' /\ ComponentsKept
  BY <1>1, CreatePureInv DEF CreateTagComponent
<1>2. ASSUME NEW name, NEW p, CreateDataComponent(name, p)
      PROVE  ComponentInv' /\ ComponentsKept
  <2>1. CASE Observable(p)
    BY <1>2, <2>1, CreatePureInv DEF CreateDataComponent
  <2>2. CASE ~ Observable(p)
    <3>1. UNCHANGED <<component, component_names, id_count>>
      BY <1>2, <2>2 DEF CreateDataComponent, componentVars
    <3>2. QED
      BY <3>1 DEF ComponentInv, ComponentsKept, FoundByName, GivenIds, IsPure
  <2>3. QED
    BY <2>1, <2>2
<1>3. ASSUME NEW A, NEW B, CreatePairComponent(A, B)
      PROVE  ComponentInv' /\ ComponentsKept
  BY <1>3, CreatePairInv
<1>4. QED
  BY <1>1, <1>2, <1>3 DEF ComponentStep

-----------------------------------------------------------------------------
(* Collections.  A collection is one of the MaxCollections that can be made; *)
(* in each, a name leads to what bears it.  For a component registered anew  *)
(* to keep the name it is known by, the manager's must not have changed:     *)
(* hence ComponentInv.                                                       *)

OwnersInv ==
  /\ made \in 0 .. MaxCollections
  /\ Live \subseteq 1 .. made

(* A live collection is one that can be made.                                *)
LEMMA LiveMade ==
  ASSUME OwnersInv, NEW c \in Live
  PROVE  c \in 1 .. MaxCollections
<1>1. made \in Nat /\ made <= MaxCollections /\ MaxCollections \in Nat
  BY CollectionNamesAssumption DEF OwnersInv
<1>2. c \in 1 .. made
  BY DEF OwnersInv
<1>3. QED
  BY <1>1, <1>2

\* What a collection knows is an entity or a component under its own name, and
\* a name leads to what is known by it.
Right(knows, called) ==
  /\ \A id \in DOMAIN knows :
       \/ IsEntity(id)
       \/ id \in DOMAIN component /\ knows[id] = component[id].name
  /\ \A name \in DOMAIN called :
       called[name] \in DOMAIN knows /\ knows[called[name]] = name

NamesInv ==
  /\ DOMAIN known = 1 .. MaxCollections /\ DOMAIN names = 1 .. MaxCollections
  /\ \A c \in 1 .. MaxCollections : Right(known[c], names[c])

(* The ids of entities are below those of components.                        *)
LEMMA NotEntity ==
  ASSUME ComponentInv, NEW id \in DOMAIN component
  PROVE  ~ IsEntity(id)
<1> USE ComponentAssumption, CollectionNamesAssumption
<1>1. CASE IsPure(id)
  <2>1. PICK k \in GivenIds : id = PureId(k)
    BY <1>1 DEF ComponentInv
  <2>2. id[2] = k /\ k \in Nat /\ k >= FirstId
    BY <2>1 DEF PureId, GivenIds, ComponentInv
  <2>3. QED
    BY <2>2 DEF IsEntity
<1>2. CASE ~ IsPure(id)
  <2>1. PICK a \in GivenIds, b \in GivenIds : id = <<a, b>>
    BY <1>2 DEF ComponentInv
  <2>2. id[1] = a /\ a # 0
    BY <2>1 DEF GivenIds, ComponentInv
  <2>3. QED
    BY <2>2 DEF IsEntity
<1>3. QED
  BY <1>1, <1>2

\* What a component registered with a pair is: another component.
LEMMA HalvesThere ==
  ASSUME ComponentInv, NEW id \in DOMAIN component
  PROVE  WithHalves(id) \subseteq DOMAIN component
<1>1. CASE IsPure(id)
  BY <1>1 DEF WithHalves
<1>2. CASE ~ IsPure(id)
  <2>1. PICK a \in GivenIds, b \in GivenIds :
          id = <<a, b>> /\ {PureId(a), PureId(b)} \subseteq DOMAIN component
    BY <1>2 DEF ComponentInv
  <2>2. id[1] = a /\ id[2] = b
    BY <2>1
  <2>3. QED
    BY <1>2, <2>1, <2>2 DEF WithHalves
<1>3. QED
  BY <1>1, <1>2

\* A step in collection d that leaves the others alone and d right is right.
LEMMA OneCollection ==
  ASSUME NamesInv, UNCHANGED component, NEW d \in 1 .. MaxCollections,
         NEW knows, NEW called,
         known' = [known EXCEPT ![d] = knows],
         names' = [names EXCEPT ![d] = called],
         Right(knows, called)
  PROVE  NamesInv'
<1>1. /\ DOMAIN known' = 1 .. MaxCollections
      /\ DOMAIN names' = 1 .. MaxCollections
  BY DEF NamesInv
<1>2. \A c \in 1 .. MaxCollections : Right(known[c], names[c])'
  <2> TAKE c \in 1 .. MaxCollections
  <2>1. CASE c = d
    <3>1. known'[c] = knows /\ names'[c] = called
      BY <2>1 DEF NamesInv
    <3>2. QED
      BY <3>1 DEF Right, IsEntity
  <2>2. CASE c # d
    <3>1. known'[c] = known[c] /\ names'[c] = names[c]
      BY <2>2 DEF NamesInv
    <3>2. QED
      BY <3>1 DEF NamesInv, Right, IsEntity
  <2>3. QED
    BY <2>1, <2>2
<1>3. QED
  BY <1>1, <1>2 DEF NamesInv

(* A registration enters components under the names they have in the manager. *)
LEMMA RegisterInv ==
  ASSUME ComponentInv, NamesInv, UNCHANGED component,
         NEW c \in 1 .. MaxCollections, NEW id \in DOMAIN component, Register(c, id)
  PROVE  NamesInv'
<1> DEFINE new == {id} \union (WithHalves(id) \ DOMAIN known[c])
           given == {component[k].name : k \in new}
           knows == [k \in DOMAIN known[c] \union new |->
                       IF k \in new THEN component[k].name ELSE known[c][k]]
           called == [name \in DOMAIN names[c] \union given |->
                        IF name \in given
                        THEN CHOOSE k \in new : component[k].name = name
                        ELSE names[c][name]]
<1>1. known' = [known EXCEPT ![c] = knows] /\ names' = [names EXCEPT ![c] = called]
  BY DEF Register, NamesInv
<1>2. new \subseteq DOMAIN component
  BY HalvesThere
<1>3. \A k \in DOMAIN knows :
        \/ IsEntity(k)
        \/ k \in DOMAIN component /\ knows[k] = component[k].name
  <2> TAKE k \in DOMAIN knows
  <2>1. CASE k \in new
    BY <1>2, <2>1
  <2>2. CASE k \notin new
    BY <2>2 DEF NamesInv, Right
  <2>3. QED
    BY <2>1, <2>2
<1>4. \A name \in DOMAIN called :
        called[name] \in DOMAIN knows /\ knows[called[name]] = name
  <2> TAKE name \in DOMAIN called
  <2>1. CASE name \in given
    <3>1. \E k \in new : component[k].name = name
      BY <2>1
    <3>2. /\ called[name] \in new
          /\ component[called[name]].name = name
      BY <2>1, <3>1
    <3>3. QED
      BY <3>2
  <2>2. CASE name \notin given
    <3>1. /\ called[name] = names[c][name]
          /\ called[name] \in DOMAIN known[c]
          /\ known[c][called[name]] = name
      BY <2>2 DEF NamesInv, Right
    <3>2. called[name] \notin new
      <4> SUFFICES ASSUME called[name] \in new
                   PROVE  FALSE
        OBVIOUS
      <4>1. called[name] \in DOMAIN component
        BY <1>2
      <4>2. known[c][called[name]] = component[called[name]].name
        BY <3>1, <4>1, NotEntity DEF NamesInv, Right
      <4>3. QED
        BY <2>2, <3>1, <4>2
    <3>3. QED
      BY <3>1, <3>2
  <2>3. QED
    BY <2>1, <2>2
<1>5. Right(knows, called)
  BY <1>3, <1>4 DEF Right
<1> HIDE DEF knows, called
<1>6. QED
  BY <1>1, <1>5, OneCollection

(* A step in one collection.                                                 *)
LEMMA CollectionStepInv ==
  ASSUME ComponentInv, OwnersInv, NamesInv, CollectionStep
  PROVE  NamesInv' /\ UNCHANGED <<managerVars, ownerVars>>
<1>1. PICK c \in Live :
        \/ \E id \in DOMAIN component : RegisterById(c, id)
        \/ \E name \in DOMAIN component_names : RegisterByName(c, name)
        \/ \E i \in EntityIndex, name \in ComponentName : CreateNamedEntity(c, i, name)
        \/ \E i \in EntityIndex : RemoveNamedEntity(c, i)
  BY DEF CollectionStep
<1>2. c \in 1 .. MaxCollections
  BY LiveMade
<1>3. ASSUME NEW id \in DOMAIN component, RegisterById(c, id)
      PROVE  NamesInv'
  BY <1>2, <1>3, RegisterInv DEF RegisterById, managerVars, componentVars
<1>4. ASSUME NEW name \in DOMAIN component_names, RegisterByName(c, name)
      PROVE  NamesInv'
  <2>1. component_names[name] \in DOMAIN component
    BY DEF ComponentInv, FoundByName
  <2>2. QED
    BY <1>2, <1>4, <2>1, RegisterInv DEF RegisterByName, managerVars, componentVars
<1>5. ASSUME NEW i \in EntityIndex, NEW name, CreateNamedEntity(c, i, name)
      PROVE  NamesInv'
  <2> DEFINE knows == Extended(known[c], EntityId(i), name)
             called == Extended(names[c], name, EntityId(i))
  <2>1. known' = [known EXCEPT ![c] = knows] /\ names' = [names EXCEPT ![c] = called]
    BY <1>2, <1>5 DEF CreateNamedEntity, NamesInv
  <2>2. EntityId(i) \notin DOMAIN known[c] /\ UNCHANGED component
    BY <1>5 DEF CreateNamedEntity, managerVars, componentVars
  <2>3. Right(known[c], names[c]) /\ IsEntity(EntityId(i))
    BY <1>2 DEF NamesInv, IsEntity, EntityId
  <2>4. \A id \in DOMAIN knows :
          \/ IsEntity(id)
          \/ id \in DOMAIN component /\ knows[id] = component[id].name
    BY <2>2, <2>3 DEF Right, Extended
  <2>5. \A n \in DOMAIN called :
          called[n] \in DOMAIN knows /\ knows[called[n]] = n
    BY <2>2, <2>3 DEF Right, Extended
  <2>6. Right(knows, called)
    BY <2>4, <2>5 DEF Right
  <2> HIDE DEF knows, called
  <2>7. QED
    BY <1>2, <2>1, <2>2, <2>6, OneCollection
<1>6. ASSUME NEW i \in EntityIndex, RemoveNamedEntity(c, i)
      PROVE  NamesInv'
  <2> DEFINE knows == Without(known[c], EntityId(i))
             called == Without(names[c], known[c][EntityId(i)])
  <2>1. known' = [known EXCEPT ![c] = knows] /\ names' = [names EXCEPT ![c] = called]
    BY <1>2, <1>6 DEF RemoveNamedEntity, NameErased, NamesInv
  <2>2. UNCHANGED component
    BY <1>6 DEF RemoveNamedEntity, managerVars, componentVars
  <2>3. Right(known[c], names[c])
    BY <1>2 DEF NamesInv
  <2>4. \A id \in DOMAIN knows :
          \/ IsEntity(id)
          \/ id \in DOMAIN component /\ knows[id] = component[id].name
    BY <2>3 DEF Right, Without
  <2>5. \A n \in DOMAIN called :
          called[n] \in DOMAIN knows /\ knows[called[n]] = n
    BY <2>3 DEF Right, Without
  <2>6. Right(knows, called)
    BY <2>4, <2>5 DEF Right
  <2> HIDE DEF knows, called
  <2>7. QED
    BY <1>2, <2>1, <2>2, <2>6, OneCollection
<1>7. UNCHANGED <<managerVars, ownerVars>>
  BY <1>1 DEF RegisterById, RegisterByName, CreateNamedEntity, RemoveNamedEntity
<1>8. QED
  BY <1>1, <1>3, <1>4, <1>5, <1>6, <1>7

(* Steps on collections as such: each is made once.                          *)
LEMMA OwnerStepInv ==
  ASSUME OwnersInv,
         \/ \E n \in CollectionName : CreateCollection(n) \/ RemoveCollection(n)
         \/ CleanCollectionTrashcan
  PROVE  OwnersInv' /\ UNCHANGED <<managerVars, nameVars>>
<1> USE CollectionNamesAssumption
<1>1. ASSUME NEW n \in CollectionName, CreateCollection(n)
      PROVE  OwnersInv'
  <2>1. made + 1 \in 1 .. MaxCollections /\ made' = made + 1
    BY <1>1 DEF CreateCollection, OwnersInv
  <2>2. Live' \subseteq Live \union {made + 1}
    BY <1>1 DEF CreateCollection, Live, Owned
  <2>3. QED
    BY <2>1, <2>2 DEF OwnersInv
<1>2. ASSUME NEW n \in CollectionName, RemoveCollection(n)
      PROVE  OwnersInv'
  <2>1. Live' \subseteq Live /\ made' = made
    BY <1>2 DEF RemoveCollection, Trashed, Live, Owned
  <2>2. QED
    BY <2>1 DEF OwnersInv
<1>3. ASSUME CleanCollectionTrashcan
      PROVE  OwnersInv'
  BY <1>3 DEF CleanCollectionTrashcan, OwnersInv, Live, Owned
<1>4. UNCHANGED <<managerVars, nameVars>>
  BY DEF CreateCollection, RemoveCollection, CleanCollectionTrashcan
<1>5. QED
  BY <1>1, <1>2, <1>3, <1>4

-----------------------------------------------------------------------------
(* Ids.  Every id counted off is that of a tag or data component: a call that*)
(* fails uses up none.                                                       *)

DenseInv ==
  /\ id_count <= FirstId + MaxComponent
  /\ \A k \in GivenIds : PureId(k) \in DOMAIN component /\ IsPure(PureId(k))

\* A component is created.
Added(id, new) ==
  /\ id \notin DOMAIN component
  /\ DOMAIN component' = DOMAIN component \union {id}
  /\ component'[id] = new
  /\ \A k \in DOMAIN component : component'[k] = component[k]
  /\ DOMAIN component_names \subseteq DOMAIN component_names'

(* The component a call creates, if it creates one.                          *)
LEMMA CreatePureAdds ==
  ASSUME ComponentInv, NEW name, NEW kind, kind # "Pair", NEW p, NEW layouts,
         CreatePure(name, kind, p, layouts)
  PROVE  \/ UNCHANGED componentVars
         \/ /\ id_count' = id_count + 1 /\ InPureRange(id_count)
            /\ Added(PureId(id_count),
                     [name |-> name, type |-> kind, at |-> <<p>>, of |-> layouts])
            /\ UNCHANGED <<pair_A_to_B, pair_B_to_A>>
<1> USE ComponentAssumption
<1> DEFINE id == PureId(id_count)
           new == [name |-> name, type |-> kind, at |-> <<p>>, of |-> layouts]
<1>1. CASE ~ (NewName(name) /\ InPureRange(id_count))
  BY <1>1 DEF CreatePure, CountAfter, componentVars
<1>2. CASE NewName(name) /\ InPureRange(id_count)
  <2>1. /\ id_count' = id_count + 1
        /\ component_names' = Extended(component_names, name, id)
        /\ component' = Extended(component, id, new)
        /\ UNCHANGED <<pair_A_to_B, pair_B_to_A>>
    BY <1>2 DEF CreatePure, CountAfter
  <2>2. id \notin DOMAIN component
    <3> SUFFICES ASSUME id \in DOMAIN component
                 PROVE  FALSE
      OBVIOUS
    <3>1. CASE IsPure(id)
      <4>1. PICK k \in GivenIds : id = PureId(k)
        BY <3>1 DEF ComponentInv
      <4>2. k = id_count
        BY <4>1 DEF PureId
      <4>3. QED
        BY <4>2 DEF ComponentInv, GivenIds
    <3>2. CASE ~ IsPure(id)
      <4>1. PICK a \in GivenIds, b \in GivenIds : id = <<a, b>>
        BY <3>2 DEF ComponentInv
      <4>2. a = 0
        BY <4>1 DEF PureId
      <4>3. QED
        BY <4>2 DEF ComponentInv, GivenIds
    <3>3. QED
      BY <3>1, <3>2
  <2> HIDE DEF new, id
  <2>3. /\ DOMAIN component' = DOMAIN component \union {id}
        /\ component'[id] = new
        /\ \A k \in DOMAIN component : component'[k] = component[k]
        /\ DOMAIN component_names \subseteq DOMAIN component_names'
    BY <2>1, <2>2 DEF Extended
  <2>4. Added(id, new)
    BY <2>2, <2>3 DEF Added
  <2>5. QED
    BY <1>2, <2>1, <2>4 DEF new, id
<1>3. QED
  BY <1>1, <1>2

PairOf(name, a, b) ==
  [name |-> name, type |-> "Pair",
   at |-> component[a].at \o component[b].at,
   of |-> component[a].of \union component[b].of]

(* The pair a call creates, if it creates one.                               *)
LEMMA CreatePairAdds ==
  ASSUME ComponentInv, NEW A, NEW B, CreatePairComponent(A, B)
  PROVE  \/ UNCHANGED componentVars
         \/ \E j, k \in GivenIds :
              /\ {PureId(j), PureId(k)} \subseteq DOMAIN component
              /\ \E name : Added(<<j, k>>, PairOf(name, PureId(j), PureId(k)))
              /\ pair_A_to_B' = AddedToSet(pair_A_to_B, PureId(j), PureId(k))
              /\ pair_B_to_A' = AddedToSet(pair_B_to_A, PureId(k), PureId(j))
              /\ UNCHANGED id_count
<1> DEFINE a == component_names[A]
           b == component_names[B]
           id == MakePairId(a, b)
           name == PairName[A, B]
           new == PairOf(name, a, b)
           allowed == /\ A # B
                      /\ {A, B} \subseteq DOMAIN component_names
                      /\ IsPure(a) /\ IsPure(b)
                      /\ id \notin DOMAIN component
<1>1. CASE ~ allowed
  BY <1>1 DEF CreatePairComponent
<1>2. CASE allowed
  <2>1. /\ id_count' = id_count
        /\ component_names' = Extended(component_names, name, id)
        /\ component' = Extended(component, id, new)
        /\ pair_A_to_B' = AddedToSet(pair_A_to_B, a, b)
        /\ pair_B_to_A' = AddedToSet(pair_B_to_A, b, a)
    <3>1. id_count' = id_count
      BY <1>2 DEF CreatePairComponent
    <3>2. component_names' = Extended(component_names, name, id)
      BY <1>2 DEF CreatePairComponent
    <3>3. component' = Extended(component, id, new)
      BY <1>2 DEF CreatePairComponent, PairOf
    <3>4. pair_A_to_B' = AddedToSet(pair_A_to_B, a, b)
      BY <1>2 DEF CreatePairComponent
    <3>5. pair_B_to_A' = AddedToSet(pair_B_to_A, b, a)
      BY <1>2 DEF CreatePairComponent
    <3>6. QED
      BY <3>1, <3>2, <3>3, <3>4, <3>5
  <2>2. /\ a \in DOMAIN component /\ b \in DOMAIN component
        /\ \E j, k \in GivenIds : a = PureId(j) /\ b = PureId(k)
    BY <1>2 DEF ComponentInv, FoundByName
  <2>3. PICK j \in GivenIds, k \in GivenIds : a = PureId(j) /\ b = PureId(k)
    BY <2>2
  <2>4. id = <<j, k>>
    BY <2>3 DEF MakePairId, PureId
  <2> HIDE DEF new, id, name, a, b
  <2>5. Added(id, new)
    BY <1>2, <2>1 DEF Extended, Added
  <2>6. Added(<<j, k>>, PairOf(name, PureId(j), PureId(k)))
    BY <2>3, <2>4, <2>5 DEF new
  <2>7. QED
    BY <2>1, <2>2, <2>3, <2>6
<1>3. QED
  BY <1>1, <1>2

(* The ids given do not change when nothing is created.                      *)
LEMMA DenseFrame ==
  ASSUME DenseInv, UNCHANGED componentVars
  PROVE  DenseInv'
BY DEF DenseInv, componentVars, GivenIds, IsPure

(* A creation that succeeds gives the next id.                               *)
LEMMA DensePure ==
  ASSUME ComponentInv, DenseInv, NEW name, NEW kind, kind # "Pair", NEW p, NEW layouts,
         CreatePure(name, kind, p, layouts)
  PROVE  DenseInv'
<1> USE ComponentAssumption
<1> DEFINE id == PureId(id_count)
<1>1. CASE UNCHANGED componentVars
  BY <1>1, DenseFrame
<1>2. ASSUME NEW new, id_count' = id_count + 1, InPureRange(id_count),
             Added(id, new), new.type = kind
      PROVE  DenseInv'
  <2>1. id_count' <= FirstId + MaxComponent
    BY <1>2 DEF InPureRange, ComponentInv
  <2>2. GivenIds' = GivenIds \union {id_count}
    BY <1>2 DEF GivenIds, ComponentInv
  <2> HIDE DEF id
  <2>3. \A k \in GivenIds' : PureId(k) \in DOMAIN component' /\ IsPure(PureId(k))'
    BY <1>2, <2>2 DEF DenseInv, IsPure, Added, id
  <2>4. QED
    BY <2>1, <2>3 DEF DenseInv
<1>3. [name |-> name, type |-> kind, at |-> <<p>>, of |-> layouts].type = kind
  OBVIOUS
<1>4. QED
  BY <1>1, <1>2, <1>3, CreatePureAdds

(* A pair uses up none.                                                      *)
LEMMA DensePair ==
  ASSUME ComponentInv, DenseInv, NEW A, NEW B, CreatePairComponent(A, B)
  PROVE  DenseInv'
<1>1. CASE UNCHANGED componentVars
  BY <1>1, DenseFrame
<1>2. ASSUME NEW id, NEW new, Added(id, new), UNCHANGED id_count
      PROVE  DenseInv'
  BY <1>2 DEF DenseInv, GivenIds, IsPure, Added
<1>3. QED
  BY <1>1, <1>2, CreatePairAdds

(* The ids of tags and data components are consecutive.                      *)
LEMMA DenseIds == ComponentInv /\ DenseInv => IdsDense
<1> SUFFICES ASSUME ComponentInv, DenseInv PROVE IdsDense
  OBVIOUS
<1>1. \A id \in DOMAIN component : IsPure(id) => \E k \in GivenIds : id = PureId(k)
  BY DEF ComponentInv
<1>2. QED
  BY <1>1 DEF DenseInv, IdsDense, GivenIds

-----------------------------------------------------------------------------
(* The maps of pairs.                                                        *)

Paired(sets, a, b) == a \in DOMAIN sets /\ b \in sets[a]

\* The pair of the halves exists.
PairMade(a, b) ==
  \E j, k \in GivenIds :
    a = PureId(j) /\ b = PureId(k) /\ <<j, k>> \in DOMAIN component

PairSetsInv ==
  /\ \A a \in DOMAIN pair_A_to_B : \A b \in pair_A_to_B[a] : PairMade(a, b)
  /\ \A b \in DOMAIN pair_B_to_A : \A a \in pair_B_to_A[b] : PairMade(a, b)
  /\ \A j, k \in GivenIds : <<j, k>> \in DOMAIN component =>
       /\ Paired(pair_A_to_B, PureId(j), PureId(k))
       /\ Paired(pair_B_to_A, PureId(k), PureId(j))

(* What a map of sets holds after a value is added to one of them.           *)
LEMMA AddedPaired ==
  ASSUME NEW sets, NEW a, NEW b, NEW x, NEW y
  PROVE  Paired(AddedToSet(sets, a, b), x, y)
           <=> Paired(sets, x, y) \/ (x = a /\ y = b)
<1>1. CASE x = a
  BY <1>1 DEF Paired, AddedToSet, Extended
<1>2. CASE x # a
  BY <1>2 DEF Paired, AddedToSet, Extended
<1>3. QED
  BY <1>1, <1>2

(* The maps stay exact when nothing is created.                              *)
LEMMA PairSetsFrame ==
  ASSUME PairSetsInv, UNCHANGED componentVars
  PROVE  PairSetsInv'
<1>1. UNCHANGED <<component, id_count, pair_A_to_B, pair_B_to_A>>
  BY DEF componentVars
<1>2. GivenIds' = GivenIds /\ \A a, b : PairMade(a, b)' <=> PairMade(a, b)
  BY <1>1 DEF GivenIds, PairMade
<1>3. QED
  BY <1>1, <1>2 DEF PairSetsInv, Paired

(* A new tag or data component is a half of no pair yet.                     *)
LEMMA PairSetsPure ==
  ASSUME ComponentInv, PairSetsInv, NEW name, NEW kind, kind # "Pair", NEW p, NEW layouts,
         CreatePure(name, kind, p, layouts)
  PROVE  PairSetsInv'
<1> USE ComponentAssumption
<1>1. CASE UNCHANGED componentVars
  BY <1>1, PairSetsFrame
<1>2. ASSUME NEW new, id_count' = id_count + 1, Added(PureId(id_count), new),
             UNCHANGED <<pair_A_to_B, pair_B_to_A>>
      PROVE  PairSetsInv'
  <2>1. GivenIds' = GivenIds \union {id_count} /\ \A j \in GivenIds : j # 0
    BY <1>2 DEF GivenIds, ComponentInv
  <2>2. \A j, k \in GivenIds' :
          <<j, k>> \in DOMAIN component' => <<j, k>> \in DOMAIN component
    <3>1. \A j \in GivenIds' : j # 0
      BY <2>1 DEF ComponentInv
    <3>2. QED
      BY <1>2, <3>1 DEF Added, PureId
  <2>3. \A j, k \in GivenIds' :
          <<j, k>> \in DOMAIN component => j \in GivenIds /\ k \in GivenIds
    <3> SUFFICES ASSUME NEW j \in GivenIds', NEW k \in GivenIds', <<j, k>> \in DOMAIN component
                 PROVE  j \in GivenIds /\ k \in GivenIds
      OBVIOUS
    <3>1. j # 0
      BY <2>1 DEF ComponentInv
    <3>2. \A l : <<j, k>> # PureId(l)
      BY <3>1 DEF PureId
    <3>3. PICK a \in GivenIds, b \in GivenIds : <<j, k>> = <<a, b>>
      BY <3>2 DEF ComponentInv
    <3>4. QED
      BY <3>3
  <2>4. \A a, b : PairMade(a, b) => PairMade(a, b)'
    BY <1>2, <2>1 DEF PairMade, Added
  <2>5. QED
    BY <1>2, <2>2, <2>3, <2>4 DEF PairSetsInv, Paired
<1>3. QED
  BY <1>1, <1>2, CreatePureAdds

(* A new pair is entered in both.                                            *)
LEMMA PairSetsPair ==
  ASSUME ComponentInv, PairSetsInv, NEW A, NEW B, CreatePairComponent(A, B)
  PROVE  PairSetsInv'
<1>1. CASE UNCHANGED componentVars
  BY <1>1, PairSetsFrame
<1>2. ASSUME NEW j \in GivenIds, NEW k \in GivenIds, NEW new, Added(<<j, k>>, new),
             pair_A_to_B' = AddedToSet(pair_A_to_B, PureId(j), PureId(k)),
             pair_B_to_A' = AddedToSet(pair_B_to_A, PureId(k), PureId(j)),
             UNCHANGED id_count
      PROVE  PairSetsInv'
  <2>1. GivenIds' = GivenIds
    BY <1>2 DEF GivenIds
  <2>2. \A a, b : PairMade(a, b)' <=>
                    PairMade(a, b) \/ (a = PureId(j) /\ b = PureId(k))
    <3>1. \A l, m \in GivenIds : PureId(l) = PureId(m) => l = m
      BY DEF PureId
    <3>2. \A l, m \in GivenIds :
            <<l, m>> \in DOMAIN component' <=>
              <<l, m>> \in DOMAIN component \/ (l = j /\ m = k)
      BY <1>2 DEF Added
    <3>3. QED
      BY <2>1, <3>1, <3>2 DEF PairMade
  <2>3. \A a, b : Paired(pair_A_to_B', a, b) <=>
                    Paired(pair_A_to_B, a, b) \/ (a = PureId(j) /\ b = PureId(k))
    BY <1>2, AddedPaired
  <2>4. \A a, b : Paired(pair_B_to_A', b, a) <=>
                    Paired(pair_B_to_A, b, a) \/ (a = PureId(j) /\ b = PureId(k))
    BY <1>2, AddedPaired
  <2>5. \A a \in DOMAIN pair_A_to_B' : \A b \in pair_A_to_B'[a] : PairMade(a, b)'
    BY <2>2, <2>3 DEF PairSetsInv, Paired
  <2>6. \A b \in DOMAIN pair_B_to_A' : \A a \in pair_B_to_A'[b] : PairMade(a, b)'
    BY <2>2, <2>4 DEF PairSetsInv, Paired
  <2>7. \A l, m \in GivenIds : <<l, m>> \in DOMAIN component' =>
          /\ Paired(pair_A_to_B', PureId(l), PureId(m))
          /\ Paired(pair_B_to_A', PureId(m), PureId(l))
    BY <1>2, <2>3, <2>4 DEF PairSetsInv, Added
  <2>8. QED
    BY <2>1, <2>5, <2>6, <2>7 DEF PairSetsInv, Paired
<1>3. QED
  BY <1>1, <1>2, CreatePairAdds

(* The maps tell exactly which pairs exist.                                  *)
LEMMA PairSetsTell == ComponentInv /\ PairSetsInv => PairSetsExact
<1> SUFFICES ASSUME ComponentInv, PairSetsInv,
                    NEW a \in DOMAIN component, IsPure(a),
                    NEW b \in DOMAIN component, IsPure(b)
             PROVE  /\ Paired(pair_A_to_B, a, b) <=> MakePairId(a, b) \in DOMAIN component
                    /\ Paired(pair_B_to_A, b, a) <=> Paired(pair_A_to_B, a, b)
  BY DEF PairSetsExact, Paired
<1>1. PICK j \in GivenIds, k \in GivenIds : a = PureId(j) /\ b = PureId(k)
  BY DEF ComponentInv
<1>2. MakePairId(a, b) = <<j, k>>
  BY <1>1 DEF MakePairId, PureId
<1>3. PairMade(a, b) <=> <<j, k>> \in DOMAIN component
  BY <1>1 DEF PairMade, PureId
<1>4. QED
  BY <1>1, <1>2, <1>3 DEF PairSetsInv, Paired

-----------------------------------------------------------------------------
(* Addresses.  A layout is put where there is none, so what a component      *)
(* points to stays alone there.                                              *)

At(maps, p) ==
  {id \in DOMAIN maps.layouts :
     maps.layouts[id] # NullLayout /\ maps.layouts[id].ptr = p}

AloneAt(maps) == \A p \in Address : \A i, j \in At(maps, p) : i = j

AddressInv ==
  /\ layout_count <= MaxLayouts
  /\ \A p \in Address : \A i, j \in LayoutsAt(p) : i = j

\* What is at an address in use stays as it is.
LayoutsStay == \A p \in Address : LayoutsAt(p) # {} => LayoutsAt(p)' = LayoutsAt(p)

(* A creation that succeeds puts a layout where it is told, and it only.     *)
LEMMA CreatedAlone ==
  ASSUME NEW maps, Bearers(maps), AloneAt(maps), NEW name,
         NEW p \in Address, At(maps, p) = {}
  PROVE  LET after == Created(maps, name, p)
         IN  /\ AloneAt(after)
             /\ \A q \in Address : q # p => At(after, q) = At(maps, q)
             /\ after.count \in {maps.count, maps.count + 1}
<1> DEFINE new == [ptr |-> p, name |-> name]
           after == Created(maps, name, p)
<1>1. CASE Refused(maps, name)
  BY <1>1 DEF Created
<1>2. CASE ~ Refused(maps, name)
  <2>1. after.layouts = Extended(maps.layouts, maps.count, new)
    BY <1>2 DEF Created
  <2>2. after.count = maps.count + 1
    BY <1>2 DEF Created, Counted
  <2>3. /\ DOMAIN after.layouts = DOMAIN maps.layouts \union {maps.count}
        /\ maps.count \notin DOMAIN maps.layouts
        /\ after.layouts[maps.count].ptr = p
        /\ \A id \in DOMAIN maps.layouts : after.layouts[id] = maps.layouts[id]
    BY <2>1 DEF Extended, Bearers
  <2> HIDE DEF after
  <2>4. \A q \in Address : q # p => At(after, q) = At(maps, q)
    BY <2>3 DEF At
  <2>5. At(after, p) \subseteq {maps.count}
    BY <2>3 DEF At
  <2>6. AloneAt(after)
    BY <2>4, <2>5 DEF AloneAt
  <2>7. QED
    BY <2>2, <2>4, <2>6 DEF after
<1>3. QED
  BY <1>1, <1>2

(* When the maps become others.                                              *)
LEMMA BecomeAlone ==
  ASSUME NEW maps, BecomeMaps(maps), AloneAt(maps), maps.count <= MaxLayouts,
         \A p \in Address : LayoutsAt(p) # {} => At(maps, p) = LayoutsAt(p)
  PROVE  AddressInv' /\ LayoutsStay
<1>1. \A p : LayoutsAt(p)' = At(maps, p)
  BY DEF LayoutsAt, LayoutIds, At, BecomeMaps
<1>2. layout_count' <= MaxLayouts
  BY DEF BecomeMaps
<1>3. \A p \in Address : \A i, j \in LayoutsAt(p)' : i = j
  BY <1>1 DEF AloneAt
<1>4. LayoutsStay
  BY <1>1 DEF LayoutsStay
<1>5. QED
  BY <1>2, <1>3, <1>4 DEF AddressInv

(* Steps on layouts: a layout is gone only when it is erased.                *)
LEMMA AddressStep ==
  ASSUME LayoutInv, AddressInv, LayoutStep
  PROVE  /\ AddressInv'
         /\ \/ LayoutsStay
            \/ \E id : /\ careful => NoComponentOf(id)
                       /\ \A p \in Address : LayoutsAt(p)' = LayoutsAt(p) \ {id}
<1> USE LayoutAssumption
<1>1. /\ Bearers(Maps) /\ AloneAt(Maps) /\ Maps.count = layout_count
      /\ \A p : At(Maps, p) = LayoutsAt(p)
      /\ layout_count \in Nat
  BY DEF LayoutInv, AddressInv, Maps, AloneAt, At, LayoutsAt, LayoutIds, Bearers
<1>2. ASSUME NEW name, NEW p \in Address, CreateLayout(name, p)
      PROVE  AddressInv' /\ LayoutsStay
  <2>1. At(Maps, p) = {} /\ layout_count < MaxLayouts
    BY <1>1, <1>2 DEF CreateLayout, FreeAddresses
  <2> DEFINE after == Created(Maps, name, p)
  <2>2. /\ AloneAt(after)
        /\ \A q \in Address : q # p => At(after, q) = At(Maps, q)
        /\ after.count \in {Maps.count, Maps.count + 1}
    BY <1>1, <2>1, CreatedAlone
  <2>3. BecomeMaps(after)
    BY <1>2 DEF CreateLayout
  <2> HIDE DEF after
  <2>4. after.count <= MaxLayouts
    BY <1>1, <2>1, <2>2
  <2>5. \A q \in Address : LayoutsAt(q) # {} => At(after, q) = LayoutsAt(q)
    BY <1>1, <2>1, <2>2
  <2>6. QED
    BY <2>2, <2>3, <2>4, <2>5, BecomeAlone
<1>3. ASSUME NEW name, NEW p \in Address, NEW q \in Address, CreateLayoutFromCode(name, p, q)
      PROVE  AddressInv' /\ LayoutsStay
  <2>1. At(Maps, p) = {} /\ At(Maps, q) = {} /\ p # q /\ layout_count + 3 <= MaxLayouts
    BY <1>1, <1>3 DEF CreateLayoutFromCode, FreeAddresses
  <2> DEFINE first == Created(Maps, name, p)
             second == Created(first, name, q)
             after == IF second = first THEN second
                      ELSE [second EXCEPT !.count = Counted(@)]
  <2>2. /\ AloneAt(first) /\ Bearers(first)
        /\ \A r \in Address : r # p => At(first, r) = At(Maps, r)
        /\ first.count \in {Maps.count, Maps.count + 1}
    BY <1>1, <2>1, CreatedAlone, CreatedBearers
  <2>3. BecomeMaps(after)
    BY <1>3 DEF CreateLayoutFromCode
  <2>4. second = [layouts |-> second.layouts, names |-> second.names,
                  count |-> second.count]
    BY DEF Created, Maps
  <2>5. /\ AloneAt(second)
        /\ \A r \in Address : r # q => At(second, r) = At(first, r)
        /\ second.count \in {first.count, first.count + 1}
    <3> HIDE DEF first
    <3>1. At(first, q) = {}
      BY <2>1, <2>2
    <3>2. QED
      BY <2>2, <3>1, CreatedAlone
  <2> HIDE DEF first, second
  <2>6. /\ after.layouts = second.layouts
        /\ after.count \in {second.count, second.count + 1}
    BY <2>4 DEF Counted
  <2> HIDE DEF after
  <2>7. AloneAt(after) /\ \A r : At(after, r) = At(second, r)
    BY <2>5, <2>6 DEF AloneAt, At
  <2>8. after.count <= MaxLayouts
    BY <1>1, <2>1, <2>2, <2>5, <2>6
  <2>9. \A r \in Address : LayoutsAt(r) # {} => At(after, r) = LayoutsAt(r)
    BY <1>1, <2>1, <2>2, <2>5, <2>7
  <2>10. QED
    BY <2>3, <2>7, <2>8, <2>9, BecomeAlone
<1>4. ASSUME NEW name, GetLayoutByName(name)
      PROVE  AddressInv' /\ LayoutsStay
  <2>1. \A p : LayoutsAt(p)' = LayoutsAt(p)
    BY <1>4 DEF GetLayoutByName, LayoutsAt, LayoutIds, Extended
  <2>2. QED
    BY <1>4, <2>1 DEF GetLayoutByName, AddressInv, LayoutsStay
<1>5. ASSUME NEW id, EraseLayout(id)
      PROVE  AddressInv' /\ \A p \in Address : LayoutsAt(p)' = LayoutsAt(p) \ {id}
  <2>1. \A p : LayoutsAt(p)' = LayoutsAt(p) \ {id}
    BY <1>5 DEF EraseLayout, LayoutsAt, LayoutIds, Without
  <2>2. QED
    BY <1>5, <2>1 DEF EraseLayout, AddressInv
<1>6. ASSUME NEW name, EraseLayoutName(name)
      PROVE  AddressInv' /\ LayoutsStay
  BY <1>6 DEF EraseLayoutName, AddressInv, LayoutsStay, LayoutsAt, LayoutIds
<1>7. QED
  BY <1>2, <1>3, <1>4, <1>5, <1>6 DEF LayoutStep

(* Where nothing is done to layouts.                                         *)
LEMMA AddressFrame ==
  ASSUME AddressInv, UNCHANGED layoutVars
  PROVE  AddressInv' /\ LayoutsStay
BY DEF AddressInv, LayoutsStay, layoutVars, LayoutsAt, LayoutIds

-----------------------------------------------------------------------------
(* The layouts a component points to.                                        *)

Pointed(c) == {p \in Address : \E k \in DOMAIN c.at : c.at[k] = p}

\* They are there, and it was made of them.
Founded(c) ==
  /\ c.of = UNION {LayoutsAt(p) : p \in Pointed(c)}
  /\ \A p \in Pointed(c) : LayoutsAt(p) # {}

LiveInv ==
  /\ \A id \in DOMAIN component : component[id].at \in Seq(Address \union {NoAddress})
  /\ careful => \A id \in DOMAIN component : Founded(component[id])

In(s, p) == \E k \in DOMAIN s : s[k] = p

(* What is in one sequence followed by another.                              *)
LEMMA ConcatHolds ==
  ASSUME NEW S, NEW s \in Seq(S), NEW t \in Seq(S), NEW p
  PROVE  In(s \o t, p) <=> In(s, p) \/ In(t, p)
<1>1. /\ s \o t \in Seq(S) /\ Len(s \o t) = Len(s) + Len(t)
      /\ \A i \in 1 .. Len(s) + Len(t) :
           (s \o t)[i] = IF i <= Len(s) THEN s[i] ELSE t[i - Len(s)]
  BY ConcatProperties
<1>2. /\ DOMAIN s = 1 .. Len(s) /\ Len(s) \in Nat
      /\ DOMAIN t = 1 .. Len(t) /\ Len(t) \in Nat
      /\ DOMAIN (s \o t) = 1 .. Len(s) + Len(t)
  BY <1>1, LenProperties
<1>3. ASSUME NEW k \in DOMAIN (s \o t), (s \o t)[k] = p
      PROVE  (\E j \in DOMAIN s : s[j] = p) \/ (\E j \in DOMAIN t : t[j] = p)
  <2>1. CASE k <= Len(s)
    BY <1>1, <1>2, <1>3, <2>1
  <2>2. CASE ~ k <= Len(s)
    <3>1. k - Len(s) \in DOMAIN t /\ t[k - Len(s)] = p
      BY <1>1, <1>2, <1>3, <2>2
    <3>2. QED
      BY <3>1
  <2>3. QED
    BY <2>1, <2>2
<1>4. ASSUME NEW k \in DOMAIN s, s[k] = p
      PROVE  \E j \in DOMAIN (s \o t) : (s \o t)[j] = p
  <2>1. k \in DOMAIN (s \o t) /\ (s \o t)[k] = s[k]
    BY <1>1, <1>2
  <2>2. QED
    BY <1>4, <2>1
<1>5. ASSUME NEW k \in DOMAIN t, t[k] = p
      PROVE  \E j \in DOMAIN (s \o t) : (s \o t)[j] = p
  <2>1. k + Len(s) \in DOMAIN (s \o t) /\ (s \o t)[k + Len(s)] = t[k]
    BY <1>1, <1>2
  <2>2. QED
    BY <1>5, <2>1
<1>6. QED
  BY <1>3, <1>4, <1>5 DEF In

(* A pair points to what its halves point to.                                *)
LEMMA PointedPair ==
  ASSUME NEW c, NEW d,
         c.at \in Seq(Address \union {NoAddress}), d.at \in Seq(Address \union {NoAddress}),
         NEW e, e.at = c.at \o d.at
  PROVE  /\ Pointed(e) = Pointed(c) \union Pointed(d)
         /\ e.at \in Seq(Address \union {NoAddress})
<1> DEFINE S == Address \union {NoAddress}
<1>1. \A p : In(c.at \o d.at, p) <=> In(c.at, p) \/ In(d.at, p)
  <2>1. c.at \in Seq(S) /\ d.at \in Seq(S)
    OBVIOUS
  <2> HIDE DEF S
  <2>2. QED
    BY <2>1, ConcatHolds
<1>2. e.at \in Seq(Address \union {NoAddress})
  BY ConcatProperties
<1>3. QED
  BY <1>1, <1>2 DEF Pointed, In

(* Layouts that stay keep components whole.                                  *)
LEMMA LiveStay ==
  ASSUME LiveInv, LayoutsStay, UNCHANGED <<careful, component>>
  PROVE  LiveInv'
<1>1. ASSUME NEW c, Founded(c)
      PROVE  Founded(c)'
  <2>1. \A p \in Pointed(c) : LayoutsAt(p)' = LayoutsAt(p)
    BY <1>1 DEF Founded, LayoutsStay, Pointed
  <2>2. QED
    BY <1>1, <2>1 DEF Founded, Pointed
<1>2. QED
  BY <1>1 DEF LiveInv

(* The erasure of a layout no component was made of, too.                    *)
LEMMA LiveErase ==
  ASSUME LiveInv, NEW id, careful => NoComponentOf(id),
         \A p \in Address : LayoutsAt(p)' = LayoutsAt(p) \ {id},
         UNCHANGED <<careful, component>>
  PROVE  LiveInv'
<1>1. ASSUME NEW c, Founded(c), id \notin c.of
      PROVE  Founded(c)'
  <2>1. \A p \in Pointed(c) : LayoutsAt(p) \subseteq c.of /\ p \in Address
    BY <1>1 DEF Founded, Pointed
  <2>2. \A p \in Pointed(c) : LayoutsAt(p)' = LayoutsAt(p)
    BY <1>1, <2>1
  <2>3. QED
    BY <1>1, <2>2 DEF Founded, Pointed
<1>2. QED
  BY <1>1 DEF LiveInv, NoComponentOf

(* A component that is added is founded.                                     *)
LEMMA LiveAdded ==
  ASSUME LiveInv, UNCHANGED <<careful, layoutVars>>, NEW id, NEW new,
         Added(id, new), new.at \in Seq(Address \union {NoAddress}),
         careful => Founded(new)
  PROVE  LiveInv'
<1>1. \A c : Founded(c)' <=> Founded(c)
  BY DEF Founded, layoutVars, LayoutsAt, LayoutIds
<1>2. \A k \in DOMAIN component' :
        \/ k = id /\ component'[k] = new
        \/ k \in DOMAIN component /\ component'[k] = component[k]
  BY DEF Added
<1>3. QED
  BY <1>1, <1>2 DEF LiveInv

(* A new tag points to nothing, a new data component to what is there.       *)
LEMMA LivePure ==
  ASSUME ComponentInv, LiveInv, NEW name, NEW kind, kind # "Pair",
         NEW p \in Address \union {NoAddress}, NEW layouts,
         \/ p = NoAddress /\ layouts = {}
         \/ p \in Address /\ layouts = LayoutsAt(p) /\ LayoutsAt(p) # {},
         CreatePure(name, kind, p, layouts), UNCHANGED <<careful, layoutVars>>
  PROVE  LiveInv'
<1> USE ComponentAssumption
<1> DEFINE new == [name |-> name, type |-> kind, at |-> <<p>>, of |-> layouts]
<1>1. CASE UNCHANGED componentVars
  <2>1. LayoutsStay
    BY DEF LayoutsStay, layoutVars, LayoutsAt, LayoutIds
  <2>2. QED
    BY <1>1, <2>1, LiveStay DEF componentVars
<1>2. new.at \in Seq(Address \union {NoAddress}) /\ Pointed(new) = {p} \ {NoAddress}
  BY DEF Pointed
<1>3. Founded(new)
  <2>1. new.of = layouts
    OBVIOUS
  <2> HIDE DEF new
  <2>2. CASE p = NoAddress /\ layouts = {}
    BY <1>2, <2>1, <2>2 DEF Founded
  <2>3. CASE p \in Address /\ layouts = LayoutsAt(p) /\ LayoutsAt(p) # {}
    <3>1. Pointed(new) = {p}
      BY <1>2, <2>3
    <3>2. UNION {LayoutsAt(q) : q \in Pointed(new)} = LayoutsAt(p)
      BY <3>1
    <3>3. QED
      BY <2>1, <2>3, <3>1, <3>2 DEF Founded
  <2>4. QED
    BY <2>2, <2>3
<1>4. QED
  BY <1>1, <1>2, <1>3, LiveAdded, CreatePureAdds

(* A new pair points to what its halves do.                                  *)
LEMMA LivePair ==
  ASSUME ComponentInv, LiveInv, NEW A, NEW B, CreatePairComponent(A, B),
         UNCHANGED <<careful, layoutVars>>
  PROVE  LiveInv'
<1>1. CASE UNCHANGED componentVars
  <2>1. LayoutsStay
    BY DEF LayoutsStay, layoutVars, LayoutsAt, LayoutIds
  <2>2. QED
    BY <1>1, <2>1, LiveStay DEF componentVars
<1>2. ASSUME NEW a \in DOMAIN component, NEW b \in DOMAIN component, NEW id, NEW name,
             Added(id, PairOf(name, a, b))
      PROVE  LiveInv'
  <2> DEFINE new == PairOf(name, a, b)
  <2>1. /\ new.at = component[a].at \o component[b].at
        /\ new.of = component[a].of \union component[b].of
    BY DEF PairOf
  <2> HIDE DEF new
  <2>2. /\ component[a].at \in Seq(Address \union {NoAddress})
        /\ component[b].at \in Seq(Address \union {NoAddress})
    BY DEF LiveInv
  <2>3. /\ Pointed(new) = Pointed(component[a]) \union Pointed(component[b])
        /\ new.at \in Seq(Address \union {NoAddress})
    BY <2>1, <2>2, PointedPair
  <2>4. careful => Founded(new)
    BY <2>1, <2>3 DEF LiveInv, Founded
  <2>5. QED
    BY <1>2, <2>3, <2>4, LiveAdded DEF new
<1>3. QED
  BY <1>1, <1>2, CreatePairAdds

(* A careful program's components point to layouts that are there.           *)
LEMMA LiveTells == LiveInv => ComponentLayoutsLive
BY DEF LiveInv, ComponentLayoutsLive, Founded, Pointed

-----------------------------------------------------------------------------
(* What a collection knows.                                                  *)

\* A named entity is found by its name, or the manager has a component of the
\* name; a pair is known with its halves.
Kept(knows, called) ==
  /\ \A id \in DOMAIN knows : IsEntity(id) =>
       \/ knows[id] \in DOMAIN called /\ called[knows[id]] = id
       \/ knows[id] \in DOMAIN component_names
  /\ \A id \in DOMAIN knows :
       id[1] # 0 => {PureId(id[1]), PureId(id[2])} \subseteq DOMAIN knows

KeptInv == \A c \in 1 .. MaxCollections : Kept(known[c], names[c])

(* More components, or none: what a collection keeps, it keeps.              *)
LEMMA KeptFrame ==
  ASSUME KeptInv, UNCHANGED nameVars, DOMAIN component_names \subseteq DOMAIN component_names'
  PROVE  KeptInv'
BY DEF KeptInv, Kept, nameVars, IsEntity

(* A step in one collection.                                                 *)
LEMMA KeptOne ==
  ASSUME NamesInv, KeptInv, UNCHANGED component_names, NEW d \in 1 .. MaxCollections,
         NEW knows, NEW called,
         known' = [known EXCEPT ![d] = knows],
         names' = [names EXCEPT ![d] = called],
         Kept(knows, called)
  PROVE  KeptInv'
<1> SUFFICES ASSUME NEW c \in 1 .. MaxCollections
             PROVE  Kept(known[c], names[c])'
  BY DEF KeptInv
<1>1. CASE c = d
  <2>1. known'[c] = knows /\ names'[c] = called
    BY <1>1 DEF NamesInv
  <2>2. QED
    BY <2>1 DEF Kept, IsEntity
<1>2. CASE c # d
  <2>1. known'[c] = known[c] /\ names'[c] = names[c]
    BY <1>2 DEF NamesInv
  <2>2. QED
    BY <2>1 DEF KeptInv, Kept, IsEntity
<1>3. QED
  BY <1>1, <1>2

(* A registration.  The name of a component is the manager's, so an entity   *)
(* that loses its name to one loses it to the manager.                       *)
LEMMA KeptRegister ==
  ASSUME ComponentInv, NamesInv, KeptInv, UNCHANGED component_names,
         NEW c \in 1 .. MaxCollections, NEW id \in DOMAIN component, Register(c, id)
  PROVE  KeptInv'
<1> DEFINE new == {id} \union (WithHalves(id) \ DOMAIN known[c])
           given == {component[k].name : k \in new}
           knows == [k \in DOMAIN known[c] \union new |->
                       IF k \in new THEN component[k].name ELSE known[c][k]]
           called == [name \in DOMAIN names[c] \union given |->
                        IF name \in given
                        THEN CHOOSE k \in new : component[k].name = name
                        ELSE names[c][name]]
<1>1. known' = [known EXCEPT ![c] = knows] /\ names' = [names EXCEPT ![c] = called]
  BY DEF Register, NamesInv
<1>2. new \subseteq DOMAIN component
  BY HalvesThere
<1>3. given \subseteq DOMAIN component_names
  BY <1>2 DEF ComponentInv
<1>4. Kept(known[c], names[c])
  BY DEF KeptInv
<1>5. ASSUME NEW k \in DOMAIN knows, IsEntity(k)
      PROVE  \/ knows[k] \in DOMAIN called /\ called[knows[k]] = k
             \/ knows[k] \in DOMAIN component_names
  <2>1. k \notin new
    BY <1>2, <1>5, NotEntity
  <2>2. k \in DOMAIN known[c] /\ knows[k] = known[c][k]
    BY <2>1
  <2>3. CASE known[c][k] \in given
    BY <1>3, <2>2, <2>3
  <2>4. CASE known[c][k] \notin given
    BY <1>4, <1>5, <2>2, <2>4 DEF Kept
  <2>5. QED
    BY <2>3, <2>4
<1>6. ASSUME NEW k \in DOMAIN knows, k[1] # 0
      PROVE  {PureId(k[1]), PureId(k[2])} \subseteq DOMAIN knows
  <2>1. CASE k \in DOMAIN known[c]
    BY <1>4, <1>6, <2>1 DEF Kept
  <2>2. CASE k \in new
    <3>1. CASE IsPure(id)
      <4>1. new = {id}
        BY <3>1 DEF WithHalves
      <4>2. PICK j \in GivenIds : id = PureId(j)
        BY <3>1 DEF ComponentInv
      <4>3. QED
        BY <1>6, <2>2, <4>1, <4>2 DEF PureId
    <3>2. CASE ~ IsPure(id)
      <4>1. WithHalves(id) = {id, PureId(id[1]), PureId(id[2])}
        BY <3>2 DEF WithHalves
      <4>2. k = id
        BY <1>6, <2>2, <4>1 DEF PureId
      <4>3. QED
        BY <4>1, <4>2
    <3>3. QED
      BY <3>1, <3>2
  <2>3. QED
    BY <2>1, <2>2
<1>7. Kept(knows, called)
  <2> HIDE DEF knows, called
  <2>1. QED
    BY <1>5, <1>6 DEF Kept
<1> HIDE DEF knows, called
<1>8. QED
  BY <1>1, <1>7, KeptOne

(* A named entity is created under a name that leads to nothing.             *)
LEMMA KeptCreate ==
  ASSUME NamesInv, KeptInv, UNCHANGED component_names,
         NEW c \in 1 .. MaxCollections, NEW i \in EntityIndex, NEW name,
         CreateNamedEntity(c, i, name)
  PROVE  KeptInv'
<1> DEFINE e == EntityId(i)
           knows == Extended(known[c], e, name)
           called == Extended(names[c], name, e)
<1>1. known' = [known EXCEPT ![c] = knows] /\ names' = [names EXCEPT ![c] = called]
  BY DEF CreateNamedEntity, NamesInv
<1>2. e \notin DOMAIN known[c] /\ name \notin DOMAIN names[c]
  BY DEF CreateNamedEntity, NameFree
<1>3. Kept(known[c], names[c]) /\ e[1] = 0
  BY DEF KeptInv, EntityId
<1> HIDE DEF e
<1>4. /\ DOMAIN knows = DOMAIN known[c] \union {e}
      /\ knows[e] = name
      /\ \A id \in DOMAIN known[c] : knows[id] = known[c][id]
      /\ DOMAIN called = DOMAIN names[c] \union {name}
      /\ called[name] = e
      /\ \A n \in DOMAIN names[c] : called[n] = names[c][n]
  BY <1>2 DEF Extended
<1> HIDE DEF knows, called
<1>5. Kept(knows, called)
  BY <1>3, <1>4 DEF Kept
<1>6. QED
  BY <1>1, <1>5, KeptOne

(* A named entity that is removed takes its name along: no other is found by *)
(* it unless the manager has it.  It is the half of no pair.                 *)
LEMMA KeptRemove ==
  ASSUME ComponentInv, NamesInv, KeptInv, UNCHANGED component_names,
         NEW c \in 1 .. MaxCollections, NEW i \in EntityIndex,
         RemoveNamedEntity(c, i)
  PROVE  KeptInv'
<1> DEFINE e == EntityId(i)
           knows == Without(known[c], e)
           called == Without(names[c], known[c][e])
<1>1. known' = [known EXCEPT ![c] = knows] /\ names' = [names EXCEPT ![c] = called]
  BY DEF RemoveNamedEntity, NameErased, NamesInv
<1>2. e \in DOMAIN known[c] /\ IsEntity(e)
  BY DEF RemoveNamedEntity, IsEntity, EntityId
<1>3. Kept(known[c], names[c]) /\ Right(known[c], names[c])
  BY DEF KeptInv, NamesInv
<1> HIDE DEF e
<1>4. /\ DOMAIN knows = DOMAIN known[c] \ {e}
      /\ \A id \in DOMAIN knows : knows[id] = known[c][id]
      /\ DOMAIN called = DOMAIN names[c] \ {known[c][e]}
      /\ \A n \in DOMAIN called : called[n] = names[c][n]
  BY DEF Without
<1> HIDE DEF knows, called
<1>5. ASSUME NEW id \in DOMAIN knows, IsEntity(id)
      PROVE  \/ knows[id] \in DOMAIN called /\ called[knows[id]] = id
             \/ knows[id] \in DOMAIN component_names
  <2>1. CASE knows[id] = known[c][e]
    BY <1>2, <1>3, <1>4, <1>5, <2>1 DEF Kept
  <2>2. CASE knows[id] # known[c][e]
    BY <1>3, <1>4, <1>5, <2>2 DEF Kept
  <2>3. QED
    BY <2>1, <2>2
<1>6. ASSUME NEW id \in DOMAIN knows, id[1] # 0
      PROVE  {PureId(id[1]), PureId(id[2])} \subseteq DOMAIN knows
  <2>1. id \in DOMAIN component
    BY <1>3, <1>4, <1>6 DEF Right, IsEntity
  <2>2. ~ IsPure(id)
    BY <1>6, <2>1 DEF ComponentInv, PureId
  <2>3. PICK a \in GivenIds, b \in GivenIds :
          id = <<a, b>> /\ {PureId(a), PureId(b)} \subseteq DOMAIN component
    BY <2>1, <2>2 DEF ComponentInv
  <2>4. PureId(a) # e /\ PureId(b) # e
    BY <1>2, <2>3, NotEntity
  <2>5. {PureId(a), PureId(b)} \subseteq DOMAIN known[c]
    BY <1>3, <1>4, <1>6, <2>3 DEF Kept
  <2>6. QED
    BY <1>4, <2>3, <2>4, <2>5
<1>7. Kept(knows, called)
  BY <1>5, <1>6 DEF Kept
<1>8. QED
  BY <1>1, <1>7, KeptOne

(* Every step in a collection.                                               *)
LEMMA KeptCollectionStep ==
  ASSUME ComponentInv, OwnersInv, NamesInv, KeptInv, CollectionStep
  PROVE  KeptInv'
<1>1. PICK c \in Live :
        \/ \E id \in DOMAIN component : RegisterById(c, id)
        \/ \E name \in DOMAIN component_names : RegisterByName(c, name)
        \/ \E i \in EntityIndex, name \in ComponentName : CreateNamedEntity(c, i, name)
        \/ \E i \in EntityIndex : RemoveNamedEntity(c, i)
  BY DEF CollectionStep
<1>2. c \in 1 .. MaxCollections
  BY LiveMade
<1>3. UNCHANGED component_names
  BY CollectionStepInv DEF managerVars, componentVars
<1>4. ASSUME NEW id \in DOMAIN component, RegisterById(c, id)
      PROVE  KeptInv'
  BY <1>2, <1>3, <1>4, KeptRegister DEF RegisterById
<1>5. ASSUME NEW name \in DOMAIN component_names, RegisterByName(c, name)
      PROVE  KeptInv'
  <2>1. component_names[name] \in DOMAIN component
    BY DEF ComponentInv, FoundByName
  <2>2. QED
    BY <1>2, <1>3, <1>5, <2>1, KeptRegister DEF RegisterByName
<1>6. QED
  BY <1>1, <1>2, <1>3, <1>4, <1>5, KeptCreate, KeptRemove

-----------------------------------------------------------------------------
(* The whole.                                                                *)

RegistryInv == LayoutInv /\ ComponentInv /\ OwnersInv /\ NamesInv

(* It holds at the start.                                                    *)
LEMMA RegistryInitInv ==
  ASSUME RegistryInit
  PROVE  RegistryInv
<1> USE ComponentAssumption, CollectionNamesAssumption
<1>1. LayoutInv
  BY DEF RegistryInit, LayoutInit, LayoutInv, Bearers, Maps
<1>2. ComponentInv
  BY DEF RegistryInit, ComponentInit, ComponentInv, FoundByName
<1>3. OwnersInv
  BY DEF RegistryInit, OwnersInv, Live, Owned
<1>4. NamesInv
  BY DEF RegistryInit, NamesInv, Right
<1>5. QED
  BY <1>1, <1>2, <1>3, <1>4 DEF RegistryInv

\* A step that changes no component keeps what is said of the components.
LEMMA ComponentFrame ==
  ASSUME ComponentInv, UNCHANGED componentVars
  PROVE  ComponentInv' /\ ComponentsKept
BY DEF ComponentInv, ComponentsKept, FoundByName, GivenIds, IsPure, componentVars

\* Nor do names go wrong while components are added.
LEMMA NamesFrame ==
  ASSUME NamesInv, ComponentsKept, UNCHANGED nameVars
  PROVE  NamesInv'
<1>1. \A c \in 1 .. MaxCollections : Right(known[c], names[c])'
  BY DEF NamesInv, Right, ComponentsKept, nameVars, IsEntity
<1>2. QED
  BY <1>1 DEF NamesInv, nameVars

(* Where nothing is done to layouts.                                         *)
LEMMA LayoutFrame ==
  ASSUME LayoutInv, UNCHANGED layoutVars
  PROVE  LayoutInv'
BY DEF LayoutInv, Maps, layoutVars, Bearers

(* Where no collection is made or removed.                                   *)
LEMMA OwnersFrame ==
  ASSUME OwnersInv, UNCHANGED ownerVars
  PROVE  OwnersInv'
BY DEF OwnersInv, ownerVars, Live, Owned

(* Every step keeps it.                                                      *)
LEMMA RegistryStepInv ==
  ASSUME RegistryInv, [RegistryNext]_registryVars
  PROVE  RegistryInv'
<1>1. CASE LayoutStep
  <2>1. UNCHANGED <<componentVars, ownerVars, nameVars>>
    BY <1>1 DEF LayoutStep
  <2>2. QED
    BY <1>1, <2>1, LayoutStepInv, ComponentFrame, NamesFrame, OwnersFrame
       DEF RegistryInv
<1>2. CASE ComponentStep
  <2>1. UNCHANGED <<layoutVars, ownerVars, nameVars>>
    BY <1>2 DEF ComponentStep
  <2>2. QED
    BY <1>2, <2>1, LayoutFrame, ComponentStepInv, NamesFrame, OwnersFrame
       DEF RegistryInv
<1>3. CASE \/ \E n \in CollectionName : CreateCollection(n) \/ RemoveCollection(n)
           \/ CleanCollectionTrashcan
  BY <1>3, OwnerStepInv, LayoutFrame, ComponentFrame, NamesFrame
     DEF RegistryInv, managerVars
<1>4. CASE CollectionStep
  BY <1>4, CollectionStepInv, LayoutFrame, ComponentFrame, OwnersFrame
     DEF RegistryInv, managerVars
<1>5. CASE UNCHANGED registryVars
  BY <1>5, LayoutFrame, ComponentFrame, NamesFrame, OwnersFrame
     DEF RegistryInv, registryVars, managerVars
<1>6. QED
  BY <1>1, <1>2, <1>3, <1>4, <1>5 DEF RegistryNext

(* So it holds always.                                                       *)
LEMMA RegistryInvariant == RegistrySpec => []RegistryInv
<1>1. RegistryInit => RegistryInv
  BY RegistryInitInv
<1>2. RegistryInv /\ [RegistryNext]_registryVars => RegistryInv'
  BY RegistryStepInv
<1>3. QED
  BY <1>1, <1>2, PTL DEF RegistrySpec

FullInv ==
  RegistryInv /\ DenseInv /\ PairSetsInv /\ AddressInv /\ LiveInv /\ KeptInv

(* It holds at the start.                                                    *)
LEMMA FullInitInv ==
  ASSUME RegistryInit
  PROVE  FullInv
<1> USE ComponentAssumption, CollectionNamesAssumption, LayoutAssumption
<1>1. RegistryInv
  BY RegistryInitInv
<1>2. DenseInv /\ PairSetsInv
  BY DEF RegistryInit, ComponentInit, DenseInv, PairSetsInv, GivenIds
<1>3. AddressInv
  BY DEF RegistryInit, LayoutInit, AddressInv, LayoutsAt, LayoutIds
<1>4. LiveInv
  BY DEF RegistryInit, ComponentInit, LiveInv
<1>5. KeptInv
  BY DEF RegistryInit, KeptInv, Kept
<1>6. QED
  BY <1>1, <1>2, <1>3, <1>4, <1>5 DEF FullInv

(* A step that creates a component, or fails to.                             *)
LEMMA FullComponentStep ==
  ASSUME FullInv, ComponentStep
  PROVE  DenseInv' /\ PairSetsInv' /\ AddressInv' /\ LiveInv' /\ KeptInv'
<1>1. /\ ComponentInv /\ DenseInv /\ PairSetsInv /\ AddressInv /\ LiveInv /\ KeptInv
      /\ UNCHANGED <<careful, layoutVars, nameVars>>
  BY DEF FullInv, RegistryInv, ComponentStep
<1>2. AddressInv' /\ LayoutsStay
  BY <1>1, AddressFrame
<1>3. ASSUME UNCHANGED componentVars
      PROVE  DenseInv' /\ PairSetsInv' /\ LiveInv' /\ KeptInv'
  <2>1. UNCHANGED component /\ UNCHANGED component_names
    BY <1>3 DEF componentVars
  <2>2. QED
    BY <1>1, <1>2, <1>3, <2>1, DenseFrame, PairSetsFrame, LiveStay, KeptFrame
<1>4. ASSUME NEW name, NEW kind, kind # "Pair",
             NEW p \in Address \union {NoAddress}, NEW layouts,
             \/ p = NoAddress /\ layouts = {}
             \/ p \in Address /\ layouts = LayoutsAt(p) /\ LayoutsAt(p) # {},
             CreatePure(name, kind, p, layouts)
      PROVE  DenseInv' /\ PairSetsInv' /\ LiveInv' /\ KeptInv'
  <2>1. DenseInv' /\ PairSetsInv'
    BY <1>1, <1>4, DensePure, PairSetsPure
  <2>2. LiveInv'
    BY <1>1, <1>4, LivePure
  <2>3. DOMAIN component_names \subseteq DOMAIN component_names'
    BY <1>1, <1>4, CreatePureAdds DEF componentVars, Added
  <2>4. QED
    BY <1>1, <2>1, <2>2, <2>3, KeptFrame
<1>5. ASSUME NEW name, CreateTagComponent(name)
      PROVE  DenseInv' /\ PairSetsInv' /\ LiveInv' /\ KeptInv'
  BY <1>4, <1>5 DEF CreateTagComponent
<1>6. ASSUME NEW name, NEW p \in Address, CreateDataComponent(name, p)
      PROVE  DenseInv' /\ PairSetsInv' /\ LiveInv' /\ KeptInv'
  <2>1. CASE Observable(p)
    <3>1. LayoutsAt(p) # {}
      BY <2>1 DEF Observable
    <3>2. QED
      BY <1>4, <1>6, <2>1, <3>1 DEF CreateDataComponent
  <2>2. CASE ~ Observable(p)
    BY <1>3, <1>6, <2>2 DEF CreateDataComponent
  <2>3. QED
    BY <2>1, <2>2
<1>7. ASSUME NEW A, NEW B, CreatePairComponent(A, B)
      PROVE  DenseInv' /\ PairSetsInv' /\ LiveInv' /\ KeptInv'
  <2>1. DOMAIN component_names \subseteq DOMAIN component_names'
    BY <1>1, <1>7, CreatePairAdds DEF componentVars, Added
  <2>2. QED
    BY <1>1, <1>7, <2>1, DensePair, PairSetsPair, LivePair, KeptFrame
<1>8. QED
  BY <1>2, <1>5, <1>6, <1>7 DEF ComponentStep

(* Every step keeps it.                                                      *)
LEMMA FullStepInv ==
  ASSUME FullInv, [RegistryNext]_registryVars
  PROVE  FullInv'
<1>1. /\ LayoutInv /\ ComponentInv /\ OwnersInv /\ NamesInv
      /\ DenseInv /\ PairSetsInv /\ AddressInv /\ LiveInv /\ KeptInv
  BY DEF FullInv, RegistryInv
<1>2. RegistryInv'
  BY RegistryStepInv DEF FullInv
<1>3. ASSUME UNCHANGED componentVars
      PROVE  DenseInv' /\ PairSetsInv' /\ UNCHANGED <<component, component_names>>
  BY <1>1, <1>3, DenseFrame, PairSetsFrame DEF componentVars
<1>4. CASE LayoutStep
  <2>1. UNCHANGED <<careful, componentVars, ownerVars, nameVars>>
    BY <1>4 DEF LayoutStep
  <2>2. UNCHANGED componentVars /\ UNCHANGED nameVars /\ UNCHANGED careful
    BY <2>1
  <2>3. AddressInv' /\ LiveInv'
    BY <1>1, <1>3, <1>4, <2>2, AddressStep, LiveStay, LiveErase
  <2>4. KeptInv'
    BY <1>1, <1>3, <2>2, KeptFrame
  <2>5. QED
    BY <1>2, <1>3, <2>2, <2>3, <2>4 DEF FullInv
<1>5. CASE ComponentStep
  BY <1>2, <1>5, FullComponentStep DEF FullInv
<1>6. ASSUME UNCHANGED <<careful, layoutVars, componentVars>>
      PROVE  DenseInv' /\ PairSetsInv' /\ AddressInv' /\ LiveInv'
  <2>1. UNCHANGED componentVars /\ UNCHANGED layoutVars
    BY <1>6
  <2>2. AddressInv' /\ LayoutsStay
    BY <1>1, <2>1, AddressFrame
  <2>3. QED
    BY <1>1, <1>3, <1>6, <2>1, <2>2, LiveStay
<1>7. CASE CollectionStep
  <2>1. UNCHANGED <<careful, layoutVars, componentVars>>
    BY <1>7 DEF CollectionStep, RegisterById, RegisterByName, CreateNamedEntity,
                RemoveNamedEntity, managerVars
  <2>2. KeptInv'
    BY <1>1, <1>7, KeptCollectionStep
  <2>3. QED
    BY <1>2, <1>6, <2>1, <2>2 DEF FullInv
<1>8. ASSUME UNCHANGED <<careful, layoutVars, componentVars, nameVars>>
      PROVE  FullInv'
  <2>1. UNCHANGED <<careful, layoutVars, componentVars>> /\ UNCHANGED componentVars
        /\ UNCHANGED nameVars
    BY <1>8
  <2>2. KeptInv'
    BY <1>1, <1>3, <2>1, KeptFrame
  <2>3. QED
    BY <1>2, <1>6, <2>1, <2>2 DEF FullInv
<1>9. CASE \/ \E n \in CollectionName : CreateCollection(n) \/ RemoveCollection(n)
           \/ CleanCollectionTrashcan
  <2>1. UNCHANGED <<careful, layoutVars, componentVars, nameVars>>
    BY <1>9 DEF CreateCollection, RemoveCollection, CleanCollectionTrashcan, managerVars
  <2>2. QED
    BY <1>8, <2>1
<1>10. CASE UNCHANGED registryVars
  <2>1. UNCHANGED <<careful, layoutVars, componentVars, nameVars>>
    BY <1>10 DEF registryVars, managerVars
  <2>2. QED
    BY <1>8, <2>1
<1>11. QED
  BY <1>4, <1>5, <1>7, <1>9, <1>10 DEF RegistryNext

(* So it holds always.                                                       *)
LEMMA FullInvariant == RegistrySpec => []FullInv
<1>1. RegistryInit => FullInv
  BY FullInitInv
<1>2. FullInv /\ [RegistryNext]_registryVars => FullInv'
  BY FullStepInv
<1>3. QED
  BY <1>1, <1>2, PTL DEF RegistrySpec

-----------------------------------------------------------------------------
\* A name in the layout manager never leads to the layout of another name,
\* however many layouts and names are created, looked up and erased, by
\* programs that take care and by those that do not.
THEOREM LayoutNamesCorrect == RegistrySpec => []NameLeadsToBearer
<1>1. RegistryInv => NameLeadsToBearer
  BY DEF RegistryInv, LayoutInv, Bearers, Maps, NameLeadsToBearer, LayoutIds
<1>2. QED
  BY <1>1, RegistryInvariant, PTL

\* In the registry a name leads to a component that bears it, and a component
\* is found by its name unless a pair took the name over.
THEOREM FoundByNameCorrect == RegistrySpec => []FoundByName
<1>1. RegistryInv => FoundByName
  BY DEF RegistryInv, ComponentInv
<1>2. QED
  BY <1>1, RegistryInvariant, PTL

\* In every collection, a name shared by entities and the components that are
\* registered from the manager on first use leads to what is known by it,
\* though a component takes over the name of an entity and a pair is
\* registered with its halves.
THEOREM CollectionNamesCorrect == RegistrySpec => []CollectionNamesSound
<1>1. RegistryInv => CollectionNamesSound
  BY LiveMade DEF RegistryInv, NamesInv, Right, CollectionNamesSound
<1>2. QED
  BY <1>1, RegistryInvariant, PTL

\* Types; and tags and data components have consecutive ids whatever calls
\* failed between, the two maps of pairs tell which pairs exist, no address has
\* two layouts, and a collection knows what is an entity or a component.
THEOREM RegistryTypeCorrect == RegistrySpec => []RegistryTypeOK
<1>1. FullInv => RegistryTypeOK
  <2> SUFFICES ASSUME FullInv PROVE RegistryTypeOK
    OBVIOUS
  <2> USE ComponentAssumption, CollectionNamesAssumption, LayoutAssumption
  <2>1. /\ LayoutInv /\ ComponentInv /\ OwnersInv /\ NamesInv
        /\ DenseInv /\ PairSetsInv /\ AddressInv
    BY DEF FullInv, RegistryInv
  <2>2. IdsDense /\ PairSetsExact
    BY <2>1, DenseIds, PairSetsTell
  <2>3. layout_count \in 0 .. MaxLayouts /\ DOMAIN layout_of \subseteq 0 .. layout_count - 1
    BY <2>1 DEF LayoutInv, Bearers, Maps, AddressInv
  <2>4. ASSUME NEW p \in Address
        PROVE  Cardinality(LayoutsAt(p)) <= 1
    <3>1. CASE LayoutsAt(p) = {}
      BY <3>1, FS_EmptySet
    <3>2. ASSUME NEW i \in LayoutsAt(p)
          PROVE  Cardinality(LayoutsAt(p)) <= 1
      <4>1. LayoutsAt(p) = {i}
        BY <2>1, <3>2 DEF AddressInv
      <4>2. Cardinality({i}) = 1
        BY FS_Singleton, Zenon
      <4>3. QED
        BY <4>1, <4>2
    <3>3. QED
      BY <3>1, <3>2
  <2>5. id_count \in FirstId .. FirstId + MaxComponent
    BY <2>1 DEF DenseInv, ComponentInv
  <2>6. Live \subseteq 1 .. made
    BY <2>1 DEF OwnersInv
  <2>7. \A c \in Live : \A id \in DOMAIN known[c] :
          IsEntity(id) \/ id \in DOMAIN component
    BY <2>1, LiveMade DEF NamesInv, Right
  <2>8. QED
    BY <2>2, <2>3, <2>4, <2>5, <2>6, <2>7 DEF RegistryTypeOK
<1>2. QED
  BY <1>1, FullInvariant, PTL

\* While the program erases no layout that a component was made of, the
\* pointers of every component, of pairs too, lead to the layouts it was made
\* of, although addresses are used again.
THEOREM ComponentLayoutsLiveCorrect == RegistrySpec => []ComponentLayoutsLive
<1>1. FullInv => ComponentLayoutsLive
  BY LiveTells DEF FullInv
<1>2. QED
  BY <1>1, FullInvariant, PTL

\* A named entity is found by its name, in every collection, until the manager
\* gets a component of that name.
THEOREM EntityFoundByNameCorrect == RegistrySpec => []EntityFoundByName
<1>1. FullInv => EntityFoundByName
  BY LiveMade DEF FullInv, RegistryInv, KeptInv, Kept, EntityFoundByName
<1>2. QED
  BY <1>1, FullInvariant, PTL

\* A pair a collection knows is known with its halves, however they were
\* registered and whatever entities were created and removed between.
THEOREM PairsWholeCorrect == RegistrySpec => []PairsWhole
<1>1. FullInv => PairsWhole
  <2> SUFFICES ASSUME FullInv, NEW c \in Live, NEW id \in DOMAIN known[c], id[1] # 0
               PROVE  {PureId(id[1]), PureId(id[2])} \subseteq DOMAIN known[c]
    BY DEF PairsWhole
  <2>1. c \in 1 .. MaxCollections
    BY LiveMade DEF FullInv, RegistryInv
  <2>2. Kept(known[c], names[c])
    BY <2>1 DEF FullInv, KeptInv
  <2>3. QED
    BY <2>2 DEF Kept
<1>2. QED
  BY <1>1, FullInvariant, PTL
=============================================================================
