--------------------------- MODULE CollectionNames ---------------------------
(***************************************************************************)
(* The collections of a DensifySystemManager, and in each of them the map  *)
(* of names that its components, registered from the manager on first use, *)
(* share with its named entities (Collection.cpp).  The manager may get    *)
(* new components while collections exist.  What else a collection does    *)
(* is module Collection, whose manager is fixed.                           *)
(***************************************************************************)
EXTENDS ComponentRegistry

CONSTANTS
  CollectionName,
  EntityIndex,     \* the slots of entities
  MaxCollections,  \* bound: collections ever made
  NoCollection     \* the null pointer

ASSUME CollectionNamesAssumption ==
  /\ MaxCollections \in Nat /\ NoCollection \notin Nat
  /\ EntityIndex \subseteq 0 .. FirstId - 1

VARIABLES
  careful,      \* the program takes the care said below; fixed from the start
  collections,  \* _map_name_to_collection
  trash,        \* _map_name_to_deleted_collection
  made,         \* collections made so far
  known,        \* _map_ComponentID_to_ComponentLayout: id -> its name
  names         \* _map_ComponentName_to_ComponentID

managerVars == <<layoutVars, componentVars>>
ownerVars == <<collections, trash, made>>
nameVars == <<known, names>>
registryVars == <<careful, managerVars, ownerVars, nameVars>>

EntityId(i) == <<0, i>>

Owned(map) == {map[n] : n \in CollectionName} \ {NoCollection}
\* The collections there are: a program uses one by its pointer.
Live == Owned(collections) \union Owned(trash)

RegistryInit ==
  /\ LayoutInit
  /\ ComponentInit
  /\ careful \in BOOLEAN
  /\ collections = [n \in CollectionName |-> NoCollection]
  /\ trash = [n \in CollectionName |-> NoCollection]
  /\ made = 0
  /\ known = [c \in 1 .. MaxCollections |-> [id \in {} |-> NoLayoutName]]
  /\ names = [c \in 1 .. MaxCollections |-> [n \in {} |-> EntityId(0)]]

-----------------------------------------------------------------------------
(* The managers.  A careful program erases a layout only when its name is    *)
(* erased and no component is made of it.                                    *)

LayoutStep ==
  /\ \/ \E name \in LayoutName \union {NoLayoutName}, p \in Address :
          CreateLayout(name, p)
     \/ \E name \in LayoutName \union {NoLayoutName}, p, q \in Address :
          CreateLayoutFromCode(name, p, q)
     \/ \E name \in LayoutName : GetLayoutByName(name)
     \/ \E id \in DOMAIN layout_of :
          /\ careful => NameErasedFirst(id) /\ NoComponentOf(id)
          /\ EraseLayout(id)
     \/ \E name \in DOMAIN layout_names : EraseLayoutName(name)
  /\ UNCHANGED <<careful, componentVars, ownerVars, nameVars>>

ComponentStep ==
  /\ \/ \E name \in ComponentName : CreateTagComponent(name)
     \/ \E name \in ComponentName, p \in Address : CreateDataComponent(name, p)
     \/ \E A, B \in ComponentName : CreatePairComponent(A, B)
  /\ UNCHANGED <<careful, layoutVars, ownerVars, nameVars>>

\* create_collection: one of the name that exists is destroyed, with an error
\* in the log only.
CreateCollection(n) ==
  /\ made < MaxCollections
  /\ made' = made + 1
  /\ collections' = [collections EXCEPT ![n] = made + 1]
  /\ UNCHANGED <<careful, managerVars, trash, nameVars>>

\* The one that was removed before under the same name is destroyed.
Trashed(n) == [trash EXCEPT ![n] = collections[n]]

RemoveCollection(n) ==
  /\ collections[n] # NoCollection
  /\ trash' = Trashed(n)
  /\ collections' = [collections EXCEPT ![n] = NoCollection]
  /\ UNCHANGED <<careful, managerVars, made, nameVars>>

CleanCollectionTrashcan ==
  /\ trash' = [n \in CollectionName |-> NoCollection]
  /\ UNCHANGED <<careful, managerVars, collections, made, nameVars>>

-----------------------------------------------------------------------------
(* In a collection c.                                                        *)

\* Mutant: the halves of a pair are left out.
WithoutHalves(id) == {id}
\* A pair is registered after its two halves.
WithHalves(id) ==
  IF IsPure(id) THEN {id} ELSE {id, PureId(id[1]), PureId(id[2])}

\* try_register_component_from_static: the component, and the halves of a pair
\* the collection does not know yet, under their names.  A name takes over the
\* entry of an entity that has it.
Register(c, id) ==
  LET new   == {id} \union (WithHalves(id) \ DOMAIN known[c])
      given == {component[k].name : k \in new}
  IN  /\ known' = [known EXCEPT ![c] =
            [k \in DOMAIN @ \union new |->
               IF k \in new THEN component[k].name ELSE @[k]]]
      /\ names' = [names EXCEPT ![c] =
            [name \in DOMAIN @ \union given |->
               IF name \in given THEN CHOOSE k \in new : component[k].name = name
               ELSE @[name]]]

\* By an id: what is known already is left as it is.
RegisterById(c, id) ==
  /\ id \in DOMAIN component /\ id \notin DOMAIN known[c]
  /\ Register(c, id)
  /\ UNCHANGED <<careful, managerVars, ownerVars>>

\* By a name: what the collection has under it, else what the manager has.
RegisterByName(c, name) ==
  /\ name \notin DOMAIN names[c] /\ name \in DOMAIN component_names
  /\ Register(c, component_names[name])
  /\ UNCHANGED <<careful, managerVars, ownerVars>>

\* Mutant: only the manager is asked.
NameFreeOfManager(c, name) == name \notin DOMAIN component_names
\* command_create_single_entity drops a name in use in either.
NameFree(c, name) ==
  name \notin DOMAIN names[c] /\ name \notin DOMAIN component_names

CreateNamedEntity(c, i, name) ==
  /\ EntityId(i) \notin DOMAIN known[c]
  /\ NameFree(c, name)
  /\ known' = [known EXCEPT ![c] = Extended(@, EntityId(i), name)]
  /\ names' = [names EXCEPT ![c] = Extended(@, name, EntityId(i))]
  /\ UNCHANGED <<careful, managerVars, ownerVars>>

\* Mutant: the entry of the name stays.
NameErasedNever(c, name) == names[c]
\* The entry of the name is erased, whoever it leads to by now.
NameErased(c, name) == Without(names[c], name)

\* command_remove_signle_entity, of a named one
RemoveNamedEntity(c, i) ==
  /\ EntityId(i) \in DOMAIN known[c]
  /\ names' = [names EXCEPT ![c] = NameErased(c, known[c][EntityId(i)])]
  /\ known' = [known EXCEPT ![c] = Without(@, EntityId(i))]
  /\ UNCHANGED <<careful, managerVars, ownerVars>>

CollectionStep ==
  \E c \in Live :
    \/ \E id \in DOMAIN component : RegisterById(c, id)
    \/ \E name \in DOMAIN component_names : RegisterByName(c, name)
    \/ \E i \in EntityIndex, name \in ComponentName : CreateNamedEntity(c, i, name)
    \/ \E i \in EntityIndex : RemoveNamedEntity(c, i)

RegistryNext ==
  \/ LayoutStep
  \/ ComponentStep
  \/ \E n \in CollectionName : CreateCollection(n) \/ RemoveCollection(n)
  \/ CleanCollectionTrashcan
  \/ CollectionStep

RegistrySpec == RegistryInit /\ [][RegistryNext]_registryVars

-----------------------------------------------------------------------------
IsEntity(id) == id[1] = 0 /\ id[2] \in EntityIndex

\* Types; the ids of components are dense, and the maps of pairs exact.
RegistryTypeOK ==
  /\ IdsDense
  /\ PairSetsExact
  /\ layout_count \in 0 .. MaxLayouts
  /\ DOMAIN layout_of \subseteq 0 .. layout_count - 1
  /\ \A p \in Address : Cardinality(LayoutsAt(p)) <= 1
  /\ id_count \in FirstId .. FirstId + MaxComponent
  /\ Live \subseteq 1 .. made
  /\ \A c \in Live : \A id \in DOMAIN known[c] :
       IsEntity(id) \/ id \in DOMAIN component

\* While the program is careful, the layouts a component points to are there
\* and are those it was made of; addresses used again do not tell.
ComponentLayoutsLive ==
  careful => \A id \in DOMAIN component :
    LET layouts == {p \in Address : \E k \in DOMAIN component[id].at :
                                      component[id].at[k] = p}
    IN  component[id].of = UNION {LayoutsAt(p) : p \in layouts}

\* A name leads to something the collection knows and that bears it.
CollectionNamesSound ==
  \A c \in Live : \A name \in DOMAIN names[c] :
    /\ names[c][name] \in DOMAIN known[c]
    /\ known[c][names[c][name]] = name

\* A named entity is found by its name until the manager gets a component of
\* that name; and no two entities have one name.
EntityFoundByName ==
  \A c \in Live : \A id \in DOMAIN known[c] : IsEntity(id) =>
    \/ known[c][id] \in DOMAIN names[c] /\ names[c][known[c][id]] = id
    \/ known[c][id] \in DOMAIN component_names

\* A pair a collection knows is known with its halves, whose layouts a query
\* or a column dereferences.
PairsWhole ==
  \A c \in Live : \A id \in DOMAIN known[c] :
    id[1] # 0 => {PureId(id[1]), PureId(id[2])} \subseteq DOMAIN known[c]
=============================================================================
