----------------------------- MODULE Collection -----------------------------
(***************************************************************************)
(* class Collection (DensifySystem/Collection.cpp): the entity store, the  *)
(* archetype graph, the table of rows of every archetype and the queue of  *)
(* recorded component commands that a submit applies.                      *)
(*                                                                         *)
(* A component id is 64 bits, a high and a low half, and is written here   *)
(* as <<high, low>>: <<0, s>> for a component s of the manager, <<0, i>>   *)
(* for the named entity i used as a component, <<a, b>> for a pair.  Its   *)
(* kind is read off the halves.  _map_pair_A_to_B and _map_pair_B_to_A are *)
(* written and never read, so they are left out.  Entities are recorded on *)
(* one at a time: a call with several is the same call for each in turn.   *)
(***************************************************************************)
EXTENDS EntityVector, ArchetypeGraph, SequencesExt

CONSTANTS
  Static,      \* the manager's pure components
  DataStatic,  \* those with a data layout; the others are tags
  StaticPairs, \* the manager's pairs, as ids <<s, t>>
  Names,       \* the names the program gives entities
  NoName,      \* the empty name
  Vacant,      \* EntityVector::InvaildID: in a row, or as a name's entity
  ComLists,    \* the component lists the program passes to a record call
  PairCalls,   \* the overloads of create_pair_component_dynamic it calls
  Removals     \* which entities it removes: "any", "unused" or "idle"

ASSUME CollectionAssumption ==
  /\ DataStatic \subseteq Static
  /\ StaticPairs \subseteq Static \X Static
  /\ Static \intersect Index = {}
  /\ NoName \notin Names \union Static
  /\ Vacant \notin Index
  /\ ComLists \subseteq Seq(Components)
  /\ PairCalls \subseteq {"static", "entities", "names"}
  /\ Removals \in {"any", "unused", "idle"}

VARIABLES
  location,       \* _archetypeID_row: the node and row of each slot
  record,         \* _vec_command_record: pending commands of each slot
  dirty_entities, \* _vec_dirty_entities_idx
  table,          \* node -> its rows, its free rows, the rows of its columns
  changed,        \* _set_changed_ArchetypeID
  layouts,        \* the keys of _map_ComponentID_to_ComponentLayout
  id_of,          \* _map_ComponentName_to_ComponentID, of the entities' names
  name_of,        \* the name in the layout of each named entity
  pair_names,     \* the two names in the layout of each dynamic pair and,
                  \* history, the entities and components it was made of
  copied,         \* history: <<own row, row read>> of the last submit's copies
  fault           \* a null layout or column was dereferenced, or optional empty

tableVars == <<location, record, dirty_entities, table, changed, copied>>
nameVars == <<layouts, id_of, name_of, pair_names>>
collectionVars == <<entityVars, graph, tableVars, nameVars, fault>>

StaticId(s) == <<0, s>>
EntityId(i) == <<0, i>>
\* make_pair_component_id: (A << 32) | B, which for A = 0 is B.
PairId(a, b) == <<a, b>>

IsPair(c) == c[1] # 0
HalvesOf(c) == IF IsPair(c) THEN {c[1], c[2]} ELSE {c[2]}
HasData(c) == c[1] \in DataStatic \/ c[2] \in DataStatic

StaticIds == {StaticId(s) : s \in Static}
Commands == {"Add", "Remove"} \X Components

CollectionInit ==
  /\ EntityInit
  /\ GraphInit
  /\ location = [i \in Index |-> [node |-> Root, row |-> 0]]
  /\ record = [i \in Index |-> <<>>]
  /\ dirty_entities = <<>>
  /\ table = [n \in Node |-> [rows |-> <<>>, free |-> <<>>, columns |-> 0]]
  /\ changed = {}
  /\ layouts = {}
  /\ id_of = [s \in Names |-> Vacant]
  /\ name_of = [i \in Index |-> NoName]
  /\ pair_names = [p \in {} |-> <<>>]
  /\ copied = {}
  /\ fault = FALSE

-----------------------------------------------------------------------------
(* The rows of an archetype: d is one node's entry in table.                *)

\* Mutant: room is made only while no row is free.
EmplacedIfNoneFree(d, need) ==
  IF d.free # <<>> THEN d ELSE [d EXCEPT !.columns = @ + need]
\* emplace_space
Emplaced(d, need) ==
  IF Len(d.free) > need
  THEN d
  ELSE [d EXCEPT !.columns = @ + (need - Len(d.free))]

\* The row an entity moving in takes, counted from 0 ...
TargetRow(d) == IF d.free # <<>> THEN LastOf(d.free) ELSE Len(d.rows)

\* Mutant: a free row is reused but stays on the free list.
PlacedKeepsFree(d, i) ==
  IF d.free # <<>>
  THEN [d EXCEPT !.rows[TargetRow(d) + 1] = i]
  ELSE [d EXCEPT !.rows = Append(@, i)]
\* ... and the node after it took that row ...
Placed(d, i) ==
  IF d.free # <<>>
  THEN [d EXCEPT !.rows[TargetRow(d) + 1] = i, !.free = ButLast(@)]
  ELSE [d EXCEPT !.rows = Append(@, i)]

\* ... and after another entity left its row.
Vacated(d, row) ==
  [d EXCEPT !.rows[row + 1] = Vacant, !.free = Append(@, row)]

-----------------------------------------------------------------------------
(* Entities.                                                                *)

\* A name is refused, and reset to "", when a component has it.
NameTaken(name) == name \in Static \/ (name \in Names /\ id_of[name] # Vacant)

NameGiven(name) == IF NameTaken(name) THEN NoName ELSE name

\* command_create_single_entity
CreateEntity(name, bit29) ==
  LET given == NameGiven(name)
      i     == NextIndex
      root  == Emplaced(table[Root], 1)
  IN  /\ ~ fault
      /\ NewEntity(given # NoName, bit29)
      /\ IF ~ WithinLimit(i)
         THEN /\ fault' = TRUE
              /\ UNCHANGED <<table, location, nameVars>>
         ELSE /\ table' = [table EXCEPT ![Root] = Placed(root, i)]
              /\ location' = [location EXCEPT ![i] =
                                [node |-> Root, row |-> TargetRow(root)]]
              /\ IF given # NoName
                 THEN /\ layouts' = layouts \union {EntityId(i)}
                      /\ id_of' = [id_of EXCEPT ![given] = i]
                      /\ name_of' = [name_of EXCEPT ![i] = given]
                 ELSE UNCHANGED <<layouts, id_of, name_of>>
              /\ UNCHANGED <<pair_names, fault>>
      /\ UNCHANGED <<graph, record, dirty_entities, changed, copied>>

\* The program uses entity i as a component, or as half of a pair.
Used(i) ==
  \/ \E c \in layouts : IsPair(c) /\ i \in HalvesOf(c)
  \/ \E n \in 0 .. graph.counter : EntityId(i) \in graph.comps[n]
  \/ \E k \in Index : \E p \in DOMAIN record[k] : record[k][p][2] = EntityId(i)

\* Which entities this program removes.
MayRemove(i) ==
  \/ Removals = "any"
  \/ Removals = "unused" /\ ~ Used(i)
  \/ Removals = "idle" /\ ~ Used(i) /\ record[i] = <<>>

\* Mutant: the name stays in the registry.
ForgetNameNever(i) == UNCHANGED <<layouts, id_of, name_of>>
\* Mutant: the layouts of all pairs go with the entity's.
ForgetNameAndPairs(i) ==
  /\ layouts' = {c \in layouts : ~ IsPair(c)} \ {EntityId(i)}
  /\ id_of' = [id_of EXCEPT ![name_of[i]] = Vacant]
  /\ name_of' = [name_of EXCEPT ![i] = NoName]
\* A named entity's component layout and name are erased with it.
ForgetName(i) ==
  /\ layouts' = layouts \ {EntityId(i)}
  /\ id_of' = [id_of EXCEPT ![name_of[i]] = Vacant]
  /\ name_of' = [name_of EXCEPT ![i] = NoName]

\* command_remove_signle_entity: the row, the pending commands and the dirty
\* entry of the slot are left as they are.
DestroyEntity(h) ==
  /\ ~ fault
  /\ IsAlive(h) => MayRemove(h[1])
  /\ RemoveEntity(h)
  /\ IF IsAlive(h) /\ entity_datas[h[1]].named
     THEN ForgetName(h[1])
     ELSE UNCHANGED <<layouts, id_of, name_of>>
  /\ UNCHANGED <<graph, tableVars, pair_names, fault>>

-----------------------------------------------------------------------------
(* Components.                                                              *)

\* A component with a layout, here or in the manager.
Found(c) == c \in layouts \union StaticPairs \union StaticIds

\* try_register_component_from_static: a component of the manager is entered
\* on first use, a pair with its two halves.
Entered(c) ==
  IF c \in layouts \/ ~ Found(c) THEN {}
  ELSE IF c \in StaticPairs THEN {c, StaticId(c[1]), StaticId(c[2])}
  ELSE {c}

\* Who a half of a pair is now: an entity, or the component itself.
Bearer(half) == IF half \in Index THEN HandleOf(half) ELSE half

\* create_pair_component_dynamic_*: an id that already has a dynamic layout is
\* returned as it is; the name of an entity without one is an empty optional.
MakePair(a, nameA, b, L) ==
  LET id == PairId(a, b)
  IN  IF id \in L
      THEN /\ layouts' = L
           /\ UNCHANGED <<pair_names, fault>>
      ELSE IF NoName \in {nameA, name_of[b]}
      THEN /\ fault' = TRUE
           /\ layouts' = L
           /\ UNCHANGED <<pair_names>>
      ELSE /\ layouts' = L \union {id}
           /\ pair_names' = [p \in DOMAIN pair_names \union {id} |->
                               IF p = id
                               THEN [names |-> <<nameA, name_of[b]>>,
                                     made_of |-> <<Bearer(a), Bearer(b)>>]
                               ELSE pair_names[p]]
           /\ UNCHANGED fault

\* create_pair_component_dynamic(ComponentID, EntityHandle): B is not checked,
\* so a careful program passes only a named entity that is alive.
CreatePairWithStatic(s, h) ==
  /\ ~ fault
  /\ IsAlive(h) /\ entity_datas[h[1]].named
  /\ MakePair(s, s, h[1], layouts \union Entered(StaticId(s)))
  /\ UNCHANGED <<entityVars, graph, tableVars, id_of, name_of>>

\* create_pair_component_dynamic by two names: both are registered if the
\* manager has them, B must be an entity and either must be alive.
CreatePairByName(nameA, nameB) ==
  LET L    == layouts \union {StaticId(s) : s \in Static \intersect {nameA, nameB}}
      half(name) == IF name \in Static THEN name ELSE id_of[name]
  IN  /\ ~ fault
      /\ IF /\ nameB \in Names
            /\ \A name \in {nameA, nameB} \intersect Names :
                 id_of[name] # Vacant /\ id_of[name] \in LiveIndices
         THEN MakePair(half(nameA), nameA, half(nameB), L)
         ELSE /\ layouts' = L
              /\ UNCHANGED <<pair_names, fault>>
      /\ UNCHANGED <<entityVars, graph, tableVars, id_of, name_of>>

\* create_pair_component_dynamic(EntityHandle, EntityHandle)
CreatePairOfEntities(hA, hB) ==
  /\ ~ fault
  /\ IF /\ IsAlive(hB) /\ EntityId(hB[1]) \in layouts
        /\ IsAlive(hA) /\ EntityId(hA[1]) \in layouts
     THEN MakePair(hA[1], name_of[hA[1]], hB[1], layouts)
     ELSE UNCHANGED <<layouts, pair_names, fault>>
  /\ UNCHANGED <<entityVars, graph, tableVars, id_of, name_of>>

-----------------------------------------------------------------------------
(* Recording commands.                                                      *)

ComponentsOf(i) == graph.comps[location[i].node]

Recorded(r) == {r[k] : k \in DOMAIN r}

\* MSet::erase: the last element fills the gap.
Erased(r, command) ==
  LET at == CHOOSE k \in DOMAIN r : r[k] = command
  IN  [k \in 1 .. Len(r) - 1 |-> IF k = at THEN LastOf(r) ELSE r[k]]

Inserted(r, command) ==
  IF command \in Recorded(r) THEN r ELSE Append(r, command)

\* Mutant: an opposite command is left in place.
OneRecordedNoNeutralise(i, type, r, c) ==
  IF \/ type = "Add" /\ c \notin ComponentsOf(i) /\ c # EntityId(i)
     \/ type = "Remove" /\ c \in ComponentsOf(i)
  THEN Inserted(r, <<type, c>>)
  ELSE r
\* Mutant: what the entity already has is not looked at.
OneRecordedUnchecked(i, type, r, c) ==
  LET opposite == <<IF type = "Add" THEN "Remove" ELSE "Add", c>>
  IN  IF opposite \in Recorded(r) THEN Erased(r, opposite)
      ELSE Inserted(r, <<type, c>>)
\* One component of a call: the opposite command is neutralised, and a command
\* that would change nothing is dropped.
OneRecorded(i, type, r, c) ==
  LET opposite == <<IF type = "Add" THEN "Remove" ELSE "Add", c>>
  IN  IF opposite \in Recorded(r) THEN Erased(r, opposite)
      ELSE IF \/ type = "Add" /\ c \notin ComponentsOf(i) /\ c # EntityId(i)
              \/ type = "Remove" /\ c \in ComponentsOf(i)
      THEN Inserted(r, <<type, c>>)
      ELSE r

\* All of them, one after the other.
AllRecorded(i, type, coms) ==
  FoldLeft(LAMBDA r, c : OneRecorded(i, type, r, c), record[i], coms)

\* command_record_modify_entities_components, for one entity
Modify(i, type, coms) ==
  /\ record' = [record EXCEPT ![i] = AllRecorded(i, type, coms)]
  /\ IF entity_datas[i].dirty
     THEN UNCHANGED <<entity_datas, dirty_entities>>
     ELSE /\ entity_datas' = [entity_datas EXCEPT ![i].dirty = TRUE]
          /\ dirty_entities' = Append(dirty_entities, i)

\* Every component of a call is registered, up to the first unknown one.
Registering(coms) ==
  layouts \union
    UNION {Entered(coms[k]) :
             k \in {k \in DOMAIN coms : \A j \in 1 .. k : Found(coms[j])}}

\* command_record_add_entities_components: an unknown component ends the call,
\* a handle that is not alive is skipped.
RecordAdd(h, coms) ==
  /\ ~ fault
  /\ layouts' = Registering(coms)
  /\ IF (\A k \in DOMAIN coms : Found(coms[k])) /\ IsAlive(h)
     THEN Modify(h[1], "Add", coms)
     ELSE UNCHANGED <<record, entity_datas, dirty_entities>>
  /\ UNCHANGED <<free_index, size, issued, removed, graph, location, table,
                 changed, copied, id_of, name_of, pair_names, fault>>

\* command_record_remove_entities_components: nothing is registered.
RecordRemove(h, coms) ==
  /\ ~ fault
  /\ IF (\A k \in DOMAIN coms : coms[k] \in layouts) /\ IsAlive(h)
     THEN Modify(h[1], "Remove", coms)
     ELSE UNCHANGED <<record, entity_datas, dirty_entities>>
  /\ UNCHANGED <<free_index, size, issued, removed, graph, location, table,
                 changed, copied, nameVars, fault>>

-----------------------------------------------------------------------------
(* Submitting them.                                                         *)

\* Mutant: the walk for a removal follows the "add" edge of the component.
StepAddsAlways(walk, command) == WalkAdd(walk.graph, walk.node, command[2])
\* One command of an entity, from the node the commands before it led to.
Step(walk, command) ==
  IF command[1] = "Add"
  THEN WalkAdd(walk.graph, walk.node, command[2])
  ELSE WalkRemove(walk.graph, walk.node, command[2])

\* A move between two archetypes, and the entity and its row in the old one.
Move(from, to, i) ==
  [from |-> from, to |-> to, entity |-> i, row |-> location[i].row]

\* The elements of s, each where it is first, as in the sets of the code.
Once(s) == FoldLeft(Inserted, <<>>, s)

\* The walk of an entity's commands, one after the other, from the archetype it
\* is in.
Walked(g, i) ==
  FoldLeft(Step, [graph |-> g, node |-> location[i].node], record[i])

\* One dirty entity: the move its commands lead to, if it has any.
OnePreprocessed(s, i) ==
  IF record[i] = <<>> THEN s
  ELSE LET walk == Walked(s.graph, i)
       IN  [graph |-> walk.graph,
            moves |-> Append(s.moves, Move(location[i].node, walk.node, i))]

\* command_modify_preprocess: the dirty entities in order ...
Preprocessed ==
  FoldLeft(OnePreprocessed, [graph |-> graph, moves |-> <<>>], Once(dirty_entities))

\* ... and their records emptied, so that one queued twice moves once.
Emptied == [i \in Index |->
              IF i \in Recorded(dirty_entities) THEN <<>> ELSE record[i]]

\* The keys of _set_archetype_move_record, in the order they were inserted.
MoveKeys(moves) ==
  Once([k \in DOMAIN moves |-> <<moves[k].from, moves[k].to>>])

\* Mutant: only the archetype entities move to is reported as changed.
TouchedTarget(from, to) == {to}
Touched(from, to) == {from, to}

\* One entity's move: a row of the target, the copy of the columns the two
\* archetypes share, the old row vacated.  The copy reads the old columns at
\* the target's row, and finds a null pointer when that is beyond their end.
Moved(s, m, copies) ==
  LET row  == TargetRow(s.table[m.to])
      in   == [s.table EXCEPT ![m.to] = Placed(@, m.entity)]
  IN  [s EXCEPT
        !.table    = [in EXCEPT ![m.from] = Vacated(@, m.row)],
        !.location = [@ EXCEPT ![m.entity] = [node |-> m.to, row |-> row]],
        !.copied   = @ \union (IF copies THEN {<<m.row, row>>} ELSE {}),
        !.fault    = @ \/ (copies /\ row > s.table[m.from].columns)]

\* The moves between two archetypes, in their order.
Batch(key, moves) ==
  FoldLeft(LAMBDA batch, m :
             IF <<m.from, m.to>> = key THEN Append(batch, m) ELSE batch,
           <<>>, moves)

Shared(g, key) == g.comps[key[1]] \intersect g.comps[key[2]]

\* Room is made for them, the layout of every component both archetypes have
\* is dereferenced, and both are reported.
Readied(g, s, key, need) ==
  [s EXCEPT !.table[key[2]] = Emplaced(@, need),
            !.fault   = @ \/ ~ (Shared(g, key) \subseteq layouts),
            !.changed = @ \union Touched(key[1], key[2])]

\* All the moves between two archetypes.
MovedGroup(g, s, key, moves) ==
  LET batch  == Batch(key, moves)
      copies == \E c \in Shared(g, key) : HasData(c)
  IN  FoldLeft(LAMBDA t, m : Moved(t, m, copies),
               Readied(g, s, key, Len(batch)), batch)

\* Mutant: the dirty flags outlive the dirty list.
DirtyKept(i) == entity_datas[i].dirty
\* set_command_no_dirty for every entry of the dirty list, then cleared.
DirtyAfterSubmit(i) ==
  entity_datas[i].dirty /\ i \notin Recorded(dirty_entities)

\* Before the moves.  A new archetype dereferences its components' layouts.
Unmoved(g) ==
  LET fresh == graph.counter + 1 .. g.counter
  IN  [table |-> table, location |-> location, copied |-> {}, changed |-> {},
       fault |-> \E n \in fresh : ~ (g.comps[n] \subseteq layouts)]

\* The moves, group by group.
AllMoved(pre) ==
  FoldLeft(LAMBDA s, key : MovedGroup(pre.graph, s, key, pre.moves),
           Unmoved(pre.graph), MoveKeys(pre.moves))

\* submit_command.  Archetypes are never removed, and no two have the same
\* components, so a MaxNode of 2^|Components| bounds nothing.
Submit ==
  LET pre  == Preprocessed
      post == AllMoved(pre)
  IN  /\ ~ fault
      /\ graph' = pre.graph
      /\ record' = Emptied
      /\ table' = post.table
      /\ location' = post.location
      /\ copied' = post.copied
      /\ changed' = post.changed
      /\ fault' = post.fault
      /\ entity_datas' = [i \in Index |->
            [entity_datas[i] EXCEPT !.dirty = DirtyAfterSubmit(i)]]
      /\ dirty_entities' = <<>>
      /\ UNCHANGED <<free_index, size, issued, removed, nameVars>>

CollectionNext ==
  \/ \E name \in Names \union {NoName}, bit29 \in Bit29 : CreateEntity(name, bit29)
  \/ \E h \in issued : DestroyEntity(h)
  \/ /\ "static" \in PairCalls
     /\ \E s \in Static, h \in issued : CreatePairWithStatic(s, h)
  \/ /\ "entities" \in PairCalls
     /\ \E hA, hB \in issued : CreatePairOfEntities(hA, hB)
  \/ /\ "names" \in PairCalls
     /\ \E nameA, nameB \in Names \union Static : CreatePairByName(nameA, nameB)
  \/ \E h \in issued, coms \in ComLists : RecordAdd(h, coms)
  \/ \E h \in issued, coms \in ComLists : RecordRemove(h, coms)
  \/ Submit

CollectionSpec == CollectionInit /\ [][CollectionNext]_collectionVars

-----------------------------------------------------------------------------
Row == Nat
LiveHandles == {HandleOf(i) : i \in LiveIndices}
ExistingNodes == 0 .. graph.counter

\* Types.  A record and a free list are sets kept in an order: nothing is in
\* one twice.
CollectionTypeOK ==
  /\ EntityTypeOK
  /\ GraphTypeOK
  /\ location \in [Index -> [node : ExistingNodes, row : Row]]
  /\ \A i \in Index : record[i] \in Seq(Commands) /\ IsInjective(record[i])
  /\ dirty_entities \in Seq(Index)
  /\ \A n \in Node :
       /\ table[n].rows \in Seq(Index \union {Vacant})
       /\ table[n].free \in Seq(Row)
       /\ table[n].columns \in Nat
  /\ changed \subseteq ExistingNodes
  /\ copied \subseteq Row \X Row
  /\ DOMAIN pair_names \subseteq layouts
  /\ fault \in BOOLEAN

\* An entity is where the collection says it is: its row of its archetype holds
\* it.  Two entities at one row would share every component value.
LocationsExact ==
  /\ CollectionTypeOK
  /\ \A i \in LiveIndices :
       LET at == location[i]
       IN  /\ at.row < Len(table[at.node].rows)
           /\ table[at.node].rows[at.row + 1] = i

\* The free rows of an archetype are exactly its vacant ones, each free once,
\* so no row is handed out twice and none is lost by a move; and every column
\* of the archetype has all its rows.
RowsAccounted ==
  \A n \in ExistingNodes :
    LET d == table[n]
    IN  /\ IsInjective(d.free)
        /\ Recorded(d.free) =
             {r \in 0 .. Len(d.rows) - 1 : d.rows[r + 1] = Vacant}
        /\ Len(d.rows) <= d.columns

\* A live entity with pending commands is queued for the next submit; a dirty
\* flag that outlived its entry of the list would strand its commands forever.
NoCommandStranded ==
  \A i \in LiveIndices :
    record[i] # <<>> => i \in Recorded(dirty_entities)

\* The name registry and the named entities agree, through removals and slots
\* used again: a name leads to the live entity that bears it, and back.
NamesResolve ==
  /\ \A i \in LiveIndices :
       entity_datas[i].named <=>
         name_of[i] \in Names /\ EntityId(i) \in layouts
  /\ \A s \in Names : id_of[s] # Vacant =>
       id_of[s] \in LiveIndices /\ name_of[id_of[s]] = s
  /\ \A i \in LiveIndices : name_of[i] # NoName => id_of[name_of[i]] = i

\* A submit reports both archetypes of every move it made, for the caches of
\* the queries: no entity changes archetype behind their back.
MovesReported ==
  [][Submit => \A i \in Index :
       location'[i].node # location[i].node
         => {location[i].node, location'[i].node} \subseteq changed'
    ]_collectionVars

\* What is pending for a live entity would change it, and never both ways: an
\* "add" of what it has would walk an edge of a component the node contains.
CommandsMatchLocation ==
  \A i \in LiveIndices :
    \A k \in DOMAIN record[i] :
      LET command == record[i][k]
      IN  (command[1] = "Add") <=> (command[2] \notin ComponentsOf(i))

\* A component that is, or was, the tag of an entity, without a layout now.
LostTag(c) == c \in {EntityId(i) : i \in Index} \ layouts

\* A null pointer is dereferenced for three reasons only: the entity beyond the
\* limit whose invalid handle is used; an archetype of the tag of an entity
\* that is gone; a copy from a row that is not the entity's.  The layouts of
\* the manager's components and of pairs never get lost, the names of both
\* halves of a pair are there, and an entity's own row is in its columns.
FaultsExplained ==
  fault =>
    \/ size > EntityLimitCount + 1
    \/ \E n \in ExistingNodes : \E c \in graph.comps[n] : LostTag(c)
    \/ \E c \in copied : c[1] # c[2]

\* A pair that was made of entities has their names as long as they live,
\* whatever other entities are removed, and whoever gets their slots and names.
PairNamesKept ==
  \A p \in DOMAIN pair_names : \A k \in 1 .. 2 :
    LET made == pair_names[p].made_of[k]
        name == pair_names[p].names[k]
    IN  IF p[k] \in Index
        THEN made[1] = p[k] /\ (IsAlive(made) => name = name_of[p[k]])
        ELSE made = p[k] /\ name = p[k]

\* Removing an entity that is a component removes the component: the next submit
\* takes it, and the pairs it is a half of, from every entity.
RemovedIsNoComponent ==
  [][Submit => \A i \in LiveIndices : \A c \in ComponentsOf(i)' :
       HalvesOf(c) \intersect Index \subseteq LiveIndices
    ]_collectionVars

\* A removed entity's pending commands are cleared.
RemovedHasNoCommands ==
  \A i \in Index \ LiveIndices : record[i] = <<>>

\* A move copies an entity's own row of the old archetype.
CopyReadsOwnRow == \A c \in copied : c[1] = c[2]

\* The promise of EntityStore: a live entity has the components of its
\* archetype, and will have those and the ones it is to be added, without the
\* ones it is to lose.
Wanted(i) ==
  {c \in ComponentsOf(i) : <<"Remove", c>> \notin Recorded(record[i])}
    \union {c \in Components : <<"Add", c>> \in Recorded(record[i])}

Store == INSTANCE EntityStore WITH
  StoreHandle <- Handle,
  StoreComponent <- Components,
  has <- [h \in LiveHandles |-> ComponentsOf(h[1])],
  wanted <- [h \in LiveHandles |-> Wanted(h[1])]

\* A call that is accepted is never lost and the last one on a component wins,
\* in whatever order commands neutralised or repeated each other before; only
\* the entity itself is never added to itself.
LastCommandWins ==
  [][\A h \in LiveHandles, coms \in ComLists :
       /\ RecordAdd(h, coms) /\ (\A k \in DOMAIN coms : Found(coms[k]))
            => Wanted(h[1])' = Wanted(h[1])
                 \union (Recorded(coms) \ {EntityId(h[1])})
       /\ RecordRemove(h, coms) /\ Recorded(coms) \subseteq layouts
            => Wanted(h[1])' = Wanted(h[1]) \ Recorded(coms)
    ]_collectionVars

\* Collection implements EntityStore.
ImplementsStore == Store!StoreSpec
=============================================================================
