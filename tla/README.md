# WarpEngine in TLA+

Specifications of the parts of WarpEngine that keep state of their own, model
checked with TLC and, where the text says so, proved with TLAPS. Paths are
relative to `Source/`; `hpp` and `cpp` alone are `DensifySystem/Collection.hpp`
and `Collection.cpp`.

## The system

| Component | State | Operations | Talks to |
|---|---|---|---|
| `EntityVector` (hpp 105-331) | slots with version and flag, free list, size | create and remove one or many, flags | owned by `Collection` |
| Archetype graph (cpp 9-11, 850-953) | nodes with a component list, cached add/remove edges, id counter | walk, get or create a node | owned by `Collection` |
| `Collection` | rows of every archetype, row of every entity, recorded commands, dirty queue, names, layouts, pairs | create, remove, name, record add/remove, create pairs, submit | reads the components of the manager |
| `DensifySystemManager` | components by id and name, static pairs, collections and removed collections | create components and pairs, create, remove and clean collections | hands out `ComponentLayout*` and `Collection*` |
| `DataLayoutManager` | layouts by id, names, counter | create (from a structure or code), get, erase | layouts of components |
| Data containers | count, capacity, pages | push, pop, erase, reserve, shrink | columns of archetypes |
| Data layouts and parser | none that outlives a call | parse, compute offsets | used by the above |
| `NodeSystem` | nodes, pins with their connections, nested contexts | add, remove, connect, clone, cycle tests | independent |
| Allocator, `Object`, `observer_ptr` | live pointers with ids, a global counter | allocate, free, test validity, from any thread | every `Object` |
| `GPUResourceManager` (Graphics2, not built) | resources, names, free indices, under a reader-writer lock | add, erase, find, clear | GPU handles |
| Vulkan wrappers, graphics holders, window, loaders | driver or library objects | construct, destroy | the driver |

The engine is driven by one thread per collection: a call returns before the
next starts, and commands are recorded first and applied later by
`submit_command`. What is hard here is therefore not scheduling but *time
between calls*: a command recorded for an entity that is removed before the
submit, a slot, a row, a name or a pair id that is used again, edges cached by a
walk long ago. Threads matter in the allocator, in the tbb loops of the batch
calls and in `GPUResourceManager`.

What makes each component correct:

* entity store: no slot has two entities, none is lost, a handle of a removed
  entity is never accepted again;
* archetype graph: an edge leads to the archetype it says, one archetype per list;
* collection: an entity is at the row it claims, no row has two entities, the
  last call on a component wins at the next submit, names lead to their bearers,
  nothing dangling is dereferenced;
* managers: the maps by id and by name agree, a pointer handed out stays valid;
* containers: the count never exceeds the memory; node graph: both ends know of
  a connection, cycle tests are exact; allocator: an observer never takes one
  object for another; GPU manager: index, name and pointer maps agree.

## Modules

| Module | Content |
|---|---|
| `EntityVector` | `new_entity`, `remove_entity`, handles; `issued` and `removed` are history |
| `EntityVectorBatch` | extends it with `new_entities` as written, with `data_len`, the real length of the vector |
| `ArchetypeGraph` | the graph as one value and the walks as operators, so that a submit threads it through a queue of commands; a specification of walks alone |
| `EntityStore` | abstract: what components each live entity has, and what it was last asked to have; nothing of rows, archetypes or queues |
| `Collection` | extends `EntityVector` and `ArchetypeGraph`; implements `EntityStore` |
| `CollectionProofs` | theorems of `EntityVector` and `ArchetypeGraph`, and of `Collection` about its store, names, pairs and queue |
| `CollectionRowsProofs` | theorems about its rows, moves and commands, its faults, and the refinement of `EntityStore` |
| `LayoutManager` | `DataLayoutManager`: the maps of layouts and names, as actions on them |
| `ComponentRegistry` | extends it with the components and pairs of `DensifySystemManager` |
| `CollectionNames` | composes the two with collections that come and go and register components of the growing manager under the names their entities use too |
| `CollectionNamesProofs` | theorems about layouts, components and collections together |
| `NodeGraph` | nodes, pins and links of one context, every call on them, and what a clone is |
| `NodeCycles` | the recursive search for cycles as a stack of frames, on any graph |
| `NodeGraphProofs`, `NodeCyclesProofs` | their theorems |
| `ObjectAllocator` | allocators, ids, objects and observers under several threads |
| `ObjectAllocatorProofs` | its theorems |
| `ChunkVector`, `BlockVector` | the two containers |
| `ContainersProofs` | theorems about both |
| `FoldProofs` | lemmas about the folds in which the models go through lists |
| `MC*` | instances for TLC |

`Collection` has its manager fixed and its names and entities moving; in
`CollectionNames` the manager moves too and entities are only their names. The
columns of `Collection` are counted, `ChunkVector` says when a count has memory
under it. `ObjectAllocator` is under everything: the registry uses what it
provides, an observer of a layout pointer, by what it does (`Observable`).

### Correspondence

`EntityVector`: an index is a number, `HandleOf(i)` is `<<index, version>>`; the
flag is three booleans, `alive` (bit 31), `named` (bit 30), `dirty` (bit 29). The
user's bits are left out except bit 29, the one the mask of `new_entity` lets
through. `_archetypeID_row` and `_vec_command_record` live in the same class but
are used by `Collection` only, and are variables there.

`ArchetypeGraph`: `_map_ComponentList_to_ArchetypeID` and
`_map_ComponentID_to_Position` are written only when a node is made and never
erased, so both are read off `comps`. The root is not in the first, as in the
code. The null pointer is `NoNode`.

`Collection`: one action per public call. A component id is a pair of halves,
as the 64 bits are: `<<0, s>>`, `<<0, i>>` and `<<a, b>>`, so that the arithmetic
of `make_pair_component_id` is kept where it matters (a first half of 0).
`table[n]` has the rows of archetype n, its free rows and the length of its
columns (`_count`; the pages under it are left out). A record is an
ankerl set, kept as the sequence it iterates in: inserting appends, erasing
moves the last element into the gap. `Preprocessed` and
`Emptied` are `command_modify_preprocess`, `MovedGroup`,
`Moved` and `AllMoved` the move stage, and
`Submit` all of `submit_command`. `fault` is set where the code dereferences a
null layout or column, or takes the value of an empty optional, and nothing
happens after it. `copied` is history: what was copied from
where by the last submit.

Left out of `Collection`: `_map_pair_A_to_B` and `_map_pair_B_to_A` (written,
never read); the strings of pair names, whose two halves are kept instead (so
they cannot equal an entity's name: no entity is called "(x,y)"); the lists of
several entities in a record call, which is the same call for each in turn.

`LayoutManager`, `ComponentRegistry`: a layout is its address and its name, an
address is used again when the layout there is erased; ids are those of the
code, a pair's a pair of numbers as in `Collection`. `PairName` stands for the
format `"({},{})"` and may send two pairs, or a pair and a tag, to one name: the
instance has a tag with the name of a pair. A component remembers in `of` (history)
which layouts it was made of. In `CollectionNames`, `known` is the collection's
map of layouts by id, with the name each bears; a collection is a number and
is used as long as one of the two owner maps has it.

`NodeGraph`: a node is its address, a pin `<<node, side, name>>`, `connected` what
`_connected` has. Every destructor runs: destroying a node cuts the links of its pins
one after the other, as `disconnect_all` does. `allow_replace`, single pins at either end,
nodes of the program outside the context and the refused move that destroys its
argument are modelled; `Thin` and `Width` pins behave alike and are one kind.

`NodeCycles`: a frame is a call of `check_has_cycling_impl`, `color` is
`depth_color`, which is kept when a call returns. A graph is a list of children per
node, which is what the loops over pins and their links enumerate.

`ObjectAllocator`: one action per step between which another thread can act: the
guard of a static local in three steps, the read lock of the group held
by `get_allocator`, `allocate` with the read, the write and the second read of the
counter apart (the compiler may keep the value or read it again: `Returned`), the
construction after it, and the observer's test and read apart. A freed block keeps
its bytes. `objects`, `block`, `constructed` and `alive` are history, by which
the properties know one object from another.

`ChunkVector`: `count`, `capacity` and the pages with their elements, a page may be null.
`BlockVector`: bytes in use and in all, the element's content and its pointer to one
document; a document's address is a number and how often it moved.

### The environment

Three constants say what the program around the collection does, because the code
trusts it:

* `Removals`: `"any"` entity at any time; `"unused"`: none that is used as a
  component or half of a pair; `"idle"`: none of those and none with commands
  pending. The last two are what a caller must obey: `collection_removals` says what holds
  and what may happen without the second, and `collection_removed` and `collection_stale` show
  what does happen without the second and without the third.
* `PairCalls`: which overloads of `create_pair_component_dynamic` are called:
  `"static"` (a component of the manager and a handle, which the code does not
  check, so the program passes a live named entity), `"entities"`, `"names"`.
* `Bit29`: what the callers put into bit 29 of the flag. The comment at hpp 154
  reserves it for the system although the mask of `new_entity` lets it through:
  the collection runs have `{FALSE}`, and with `{TRUE}` an entity is created
  dirty without being queued and `NoCommandStranded` fails. `parts`
  has both values.

The other modules say it with a variable that is chosen at the start, so that one
run has programs of both kinds and a property names the kind it is about:

* `careful` (`CollectionNames`): no layout is erased while its name or a component of
  it remains. `ComponentLayoutsLive` needs it: nothing in the code links a component
  to its layout but a raw pointer.
* `types_of` and `callers` (`ObjectAllocator`): a thread makes objects of any types of a
  set. Ids are unique and observers exact while no two threads add to the counter at once
  (`OneAdder`): all make objects of one type, for one lock then covers the counter, or one
  thread alone calls, with as many types as it likes. With two types at once two
  objects may get one id. `MapsExact` holds of all programs but for that.
* `quiet` (`ObjectAllocator`): no more calls begin; what is under way goes on.

## Runs

Pass:

| Run | Shows |
|---|---|
| `parts` | what a collection is made of, each by itself. The store at and beyond `EntityLimitCount` = 2 with 5 indices, each slot recycled until its version is 3, any value of bit 29. All walks over three components (interchangeable, so symmetric). Chunk vectors of up to seven elements in pages of two, added one by one or many at a time; block vectors of three elements and five documents |
| `collection` | two slots and two names, with a tag, or with dynamic pairs through three overloads: rows, free rows, dirty queue, names, reported moves |
| `collection_removals` | three slots of which the limit allows two, an entity as tag and in a pair with a data component, removed at any time, its slot used again: what the pair is called, and why a null is dereferenced |
| `collection_store` | one slot with two tags in lists of one and two, or two slots with one tag and moves that share a submit: the refinement of `EntityStore`, the last call wins |
| `registry` | four component names (one of them the name of a pair), three ids, two layout addresses, two collections: layouts, components and names agree through erasures and names given again |
| `node_graph` | two nodes with an input and an output each, single or not, all calls: links are symmetric and single pins single, a connection disturbs nobody else, a clone is exact |
| `node_cycles` | all graphs of four nodes with up to four links (two when searched from every node), at most two children each, one node possibly renamed |
| `allocator` | two threads of one type, of a type each or of both types, or one thread alone of both; two blocks, three objects |

What the less obvious properties say:

* `NoCycleMissed`, `AlarmsExplained`: the search keeps the depth at which a node was
  met when it leaves a branch. It misses no cycle for that, but it is not exact: a node
  reached by a walk of one link and another of three is taken for a cycle, and
  `AlarmsExplained` is what a reported cycle does mean. `StackIsWalk`, which is proved and has no run, is why: the color of
  a node on the stack is the depth of its frame, self-links apart.
* `SearchEnds`, `OverflowOnlyOnLoop`: nothing marks a node as done, and still the search
  ends; it runs out of stack only on a node linked to itself, which `add_edge` allows.
* `FaultsExplained`: whoever is removed, and with data components, nothing of a submit
  dereferences a null for another reason than the entity limit (the invalid handle of hpp 207
  is used as an index), the tag of a removed entity (whose layout cpp 59 erases while
  commands and archetypes still have it), or a copy from a row that is not the
  entity's. The first two are disagreements listed below, the third is `collection_copy`. What
  it rules out is the rest: that a pair, or a component of the manager, ever
  loses its layout, that a pair is made without the name of a half, that an entity's own row is beyond a column.
* `PairNamesKept`: a pair is found again by the numbers of its halves (cpp 641, 675), so the pair of a
  slot used again is that of the former entity, old name included. What holds is that the entities
  it was made of keep their names in it as long as they live, although slots and names are
  taken over around them.
* `StoredUnlessShort`, `LackIsFormerRoom`: how far the error of `reserve` goes.
  No element is without a page until a call has left a count above the capacity (which a
  caller can see), whatever was grown, popped and shrunk before; and a call leaves at most
  as many without as there was room for before it, so that a full vector is safe and lacks do
  not add up.
* `ObserverComplete`: the id of an object is taken from the counter twice, for the map and by the
  constructor. An observer of a living object that is invalid for that has read an id
  in whose range is an object of another thread: so a thread that calls alone never loses one.
* `ObserverExact`, `NeverValidAgain`: an observer may be made of an object that is gone
  and read the bytes of the next one, or be kept over any number of reuses of its block;
  it is valid only for the object whose id it read, and once invalid for good.
* `CallsReturn`: `get_allocator` waits for a static local's guard with the group's lock
  held, and the constructor behind the guard takes that lock. They do not wait on each
  other for ever because only a registered type is waited for (`Known`).
* `EntityFoundByName`, `CollectionNamesSound`: components of the manager and entities
  share one map in each collection, filled on first use: an entity's name may be taken over
  later, and removing the entity then erases the component's entry, but an entry never
  leads to another's bearer.
* `PairsWhole`: whichever of a pair's halves were known before, it is known with both.

Bounds. `MaxVersion` bounds how often a slot is recycled: at 0, as in the
collection runs, each slot has two lives, which is what stale commands, rows,
names and pairs need; `VersionModulus` is the width of the version, which no run
lets wrap: after 2^32 lives of one slot an old handle is accepted again, by
the arithmetic of `NextVersion`. `MaxSize` bounds the indices; two slots give
two entities a shared archetype, vacated and reused rows, and groups of moves.
`MaxNode` is 2^|Components|: an archetype is never removed and no two but the
root have the same list, so it excludes nothing, and an `ASSUME` of `MCCollection`
checks it. In `ArchetypeGraph` alone, `MaxNode` = 9 leaves room for all eight
lists, the root's second one included. `collection_removals` has `EntityLimitCount` = 1,
so that the third of its entities is the one beyond the limit, and the version 1, so that a slot
has three lives: one in which the pair is made, one in which it is inherited and one after. In `registry` three ids for four names reach
the end of the range; two addresses are enough for a layout to take the place
of another. Two nodes of two pins have every pattern of links a call
touches: a connection involves two pins and the partners of each. Four nodes have
cycles of every length up to four and diamonds; a stack of six is deeper than any search of
them that meets no self-link. Two blocks and three objects are one reuse of each kind; a
third thread would only wait. Pages of two have full, partial and missing pages within seven
elements.

Four instances follow a union of kinds of programs rather than all at once, because
together their features multiply the states: `MCCollection` (with a tag, or with pairs;
one entity with both tags, or several with one; in `collection_removals`, `OneRemoved`, only the
entity that is a component is named, no commands are recorded on it, one other entity at a time has commands, and
either it or the others have three lives), `MCCollectionNames` (busy with layouts,
with components and names, or with collections), `MCParts` (one part at a time:
by themselves they share nothing), and `MCObjectAllocator` (setups up to the names of threads and types; two
objects when both threads make both types). The restrictions are predicates of those modules, each named; the
components themselves have none.

Deadlock is checked where a behaviour can always go on. It is off in `allocator` and
`parts`, where the program may stop calling, in `node_cycles`, where the search ends,
in `entity_batch_handles`, where a behaviour ends before an access beyond the vector,
and in `collection_copy` and `collection_removals`, where a fault stops the program.

Fairness is assumed in two modules. `NodeCycles`: weak fairness of its next step,
for the search is a call of one running thread. `ObjectAllocator`: weak fairness of each thread's
`Step`, the steps inside calls, which the operating system's scheduler provides; beginning
a call is not part of it, nor is fairness of the spin locks: `CallsReturn` speaks of a
program that begins no more calls, since a stream of readers could keep a writer of
tbb's lock waiting. The collection needs none: nothing there
waits, retries or runs by itself. What could be read as progress, "commands
are applied", is the safety property `NoCommandStranded` together with
`ImplementsStore`: a live entity with commands is queued, and one submit applies
whatever is queued.

Violations (what the code does against what its comments say; quotes and lines
are in `PROJECT.json`):

| Run | What happens |
|---|---|
| `entity_batch_handles` | `new_entities` brings to life the first `count` slots rather than those it returns |
| `collection_stale` | the commands of a removed entity go to the next one of its slot |
| `collection_copy` | a move copies values from the wrong row |
| `collection_removed` | the pairs of a removed entity stay on the others: nothing is recorded for them |

Smaller disagreements that the models carry, each by one guard or one missing
action, without a run of their own: the entity at index `EntityLimitCount` is
created although `is_index_vaild` refuses its index (`WithinLimit`); a second
empty archetype appears beside the root (`Known`, hence the exception in
`NodesDistinct`); `submit_command` has no stage for removed entities, whose rows
stay taken (`DestroyEntity` leaves them); recording accepts a bare named entity as a
component, which hpp 651 allows only inside a pair (`RecordAdd`); a named entity can be
removed while recorded commands use it, and the submit then dereferences a null layout
although cpp 899 asks for checked components (the second case of `FaultsExplained`); the handle of an
entity beyond the limit is used as an index all the same (its first case);
the pair of entity 0 with B has the id of B (`PairId`); `create_collection` destroys a collection of
the same name and logs an error (`CreateCollection`); a pair takes over the name of a tag, although
the comment on the map, `DensifySystemManager.hpp` 306, says "Pure Component only, not for
pair" (`CreatePairComponent`); `create_layout_from_code` makes two layouts, and returns the
failure of the second when they have a name (`CreateLayoutFromCode`); the cycle test reports graphs
without a cycle, such as a node reached directly and by way of two others, against
`ContextDescriptor.hpp` 50 and 53, which speak of the existence of a cycle
(`MetBefore`); a clone keeps the order of the links of inputs only, while `ContextDescriptor.cpp` 22
says that of `Width` and `Thin` pins is kept (`CloneExact`); `clear_node_output_pin`
takes the name of a pin and removes all (`ClearPins`); `move` of the uniform vector refuses
valid indices, so that `erase` of the block vector works for the last element only (`MoveRefused`), and its
documents would be left null if it did not (`Move`); `reserve` of the chunk vector takes the
elements it lacks for elements to add (`Reserved`), so that a batch for which `emplace_space` makes
room (hpp 381) can be counted without a page, which `at` takes for in range (`LackIsFormerRoom` says how
many can be).

## Proofs

Every safety invariant and every action property of the passing runs is a theorem, from the
named assumptions on the constants, which the code meets: lists are of what they are
lists of, bounds are naturals, the values for "none" are not values
(`NoAddress`, `Nothing`, `NoName`, ...), threads and nodes are finitely many. Hypotheses beyond
those stand in the theorem and are named below.

`FoldProofs`, the lemmas the others keep needing. What goes through a list in the
code (the walks of a submit, its groups and batches, the links of a cloned node) is a
fold in the models. A fold's chosen function exists (`FoldTableExists`), so a fold has a run,
the sequence of its values (`FoldRuns`), and a fact is proved of every place of the run
because otherwise there is a least place without it (`Least`, `UpTo`).

`CollectionProofs`, of `EntityVector` from `EntityVectorAssumption` only:

* `EntityTypeCorrect`, `FreeListCorrect`, `NoSlotLostCorrect`: `EntityTypeOK` and
  `FreeListSound` are inductive together (an index taken from the list was dead
  and below `size`, one that is appended was alive, hence not on it).
  `NoSlotLost` needs both.
* `StaleHandleCorrect`, `FreshHandleCorrect`: `StaleHandleRejected` is not
  inductive. `HandleInv` adds that no handle ever issued is ahead of its slot's
  version and that one at the version is of a live slot; removing moves the
  version past all of them. Both assume `NoWrap`, that the bound of the model
  stays below the modulus; past it both are false.

Of `ArchetypeGraph`, for any set of components: `GraphCorrect` proves
`GraphTypeOK` and `EdgesExact` of every graph the walks build, by a lemma each
for `GetOrCreate`, `WalkAdd` and `WalkRemove` on a graph *value*, so the lemmas
also serve the walks of a submit. `GraphNodesDistinct` proves the lists distinct.

Of `Collection`, from `EntityVectorAssumption` and `CollectionAssumption`, for any
components, names, lists and stores:

* `CollectionHandlesCorrect`: the collection's steps create an entity, remove one or change
  dirty flags (`StoreStep`), so the store's invariants hold under it; `NoWrap` as before.
* `NamesResolveCorrect`: `NamesInv` makes the names of slots and the slots of names
  inverse, dead slots included: that these have no name is what a creation needs to know.
* `PairNamesKeptCorrect`: `PairsInv` adds that the entities a pair was made of had been issued their handles,
  of the slots its id has (`HalfKept`), and that a live slot's handle was issued (`LiveIssued`): with
  `HandleInv`, a handle that is not valid any more stays so when its slot is used
  again. Whatever is removed; it needs `NoWrap`, for a version that comes round
  makes the pair the new entity's.
* `NoCommandStrandedCorrect`: `QueueInv` speaks of dead slots as well: a removal leaves the
  slot's commands and its entry in the queue, and its next entity inherits both.
  It needs `Bit29` within `{FALSE}`, without which it is false.

`CollectionRowsProofs`, all for `ArchetypesFit`: the sets of components are finitely many
and at most `MaxNode`, so that the bound of the model refuses no archetype.

* `RowsAccountedCorrect`, `LocationsExactCorrect`, `MovesReportedCorrect`: `RowsInv` says
  that every entity that is alive, or dead with commands left, is where its location says, in
  tables that are exact (`TableExact`) and a sound graph. A submit is shown stage by stage,
  by the runs of its folds: the walks of the commands, the keys of the moves, their groups and
  the batches of a group, each of which keeps the tables exact for the moves still to come.
* `CommandsMatchLocationCorrect`, `LastCommandWinsCorrect`: `MatchInv`, the recorded commands
  are to add what the entity lacks and to remove what it has, and those of dead slots
  none. For programs that remove only idle entities (`Removals = "idle"`); otherwise both
  are false, as `collection_stale` shows.
* `ImplementsStoreCorrect`: the collection implements `EntityStore`. What an entity `Has` is the
  set of its archetype, what it `Wants` that set after its commands; recording is a change of
  the second, a submit makes the first the second, and every other step is
  `EntityStore`'s creation, removal or a stutter (`StoreSimulates`, one lemma per action).
  It needs `MatchInv` and `QueueInv`, hence their hypotheses.
* `FaultsExplainedCorrect`: `LayoutsInv`, every component of an archetype and of a recorded
  command has a layout or is the tag of an entity (`EverLaid`), and an entity whose tag has a layout has a
  name, so that no pair of it is made without one. That columns are long enough for
  the entity's own row is `RowsInv`. Nothing is assumed of removals, components, pairs or the
  limit.

`CollectionNamesProofs`, from `ComponentAssumption` and `CollectionNamesAssumption`,
for any names, addresses and bounds, and whatever the calls before:

* `LayoutNamesCorrect`: a name of the layout manager leads to its bearer or to
  nothing. A name that outlives its layout is harmless because an id is given
  once (`Bearers`).
* `FoundByNameCorrect`: the same of components. `ComponentInv` says of every id
  below the counter that it was given once, as a pair or not, so that what a
  component is called never changes (`ComponentsKept`).
* `CollectionNamesCorrect`: `NamesInv`, for each collection, is kept by the
  manager's steps because of `ComponentsKept`, and by the collection's own by
  one lemma per call; `OwnersInv` keeps the collections in range.
* `RegistryTypeCorrect`, `ComponentLayoutsLiveCorrect`, `EntityFoundByNameCorrect`,
  `PairsWholeCorrect`: `FullInv` adds to those that ids are consecutive (`DenseInv`), that the
  two maps of pairs are exact (`PairSetsInv`), that an address has one layout (`AddressInv`),
  that a careful program's component is founded on the layouts it was made of (`LiveInv`), and
  what each collection knows (`KeptInv`): an entity by its name unless a component took
  it, a pair with its halves.

`NodeGraphProofs`, for any nodes, pins and contexts. `Net` says of all lists that a link is
in the lists of both ends, once in each, never of a pin with itself, and that a single pin has
at most one; `NetInv` adds where nodes and pins are and that the node of a pin lives.

* `LinksSymmetricCorrect`, `LinkedOnceCorrect`: the calls pass through states that are no `Net`,
  so their parts are shown on the lists *inside* a call (`Links`), removing the ends one by one.
* `ConnectIsLocalCorrect`: a connection leaves the links of others alone, in their order, but
  for what the single pins among its two ends had.
* `CloneExactCorrect`: whatever order the links are copied in. `Lists` has the links of the
  input pins, each once and in the order of its list, `Built` what the first of them come to; none
  is refused and none replaces another, for else a copied pin had two links already.

`NodeCyclesProofs`, for any finite set of nodes and any graph on it:

* `StackIsWalkCorrect`: `WalkInv` is `StackIsWalk` with the reason a color on the stack
  can be wrong, a link of the node to itself.
* `OverflowCorrect`, when the stack is as deep as there are nodes
  (`EnoughStack`): without self-links the colors on the stack are the depths, so its nodes
  differ, and a full stack has them all; the next child is then one of them.
* `NoCycleMissedCorrect`: `CheckedInv` adds to `WalkInv` that what the search has left behind is
  cleared: nodes it returned from and, of a node on the stack, the children it went through. A
  node on a cycle is never cleared (`Acyclic`), because its next node on the cycle is one of
  its children and would have to be cleared before it (`AcyclicOfChildren`).
* `AlarmsExplainedCorrect`: a color is the length of a walk from the root, so an
  alarm tells two walks to the same node whose lengths differ by two or more. The walks
  of the property, built length by length, are shown to be the ends of paths (`WalksArePaths`).

`ObjectAllocatorProofs`, for any threads, types, addresses and number of objects:

* `MapsCorrect`: `MapsInv`, of any program, says what each thread has left to do to the
  maps at each of its steps: whose block (`OwnedInv`, `ReadInv`), whose entry (`EntryInv`), which
  ids there can be although increments get lost (`IdInv`), that one thread has a lock
  (`LockInv`) and that there is room for all that are about to allocate (`RoomInv`).
* `ObserverCorrect`, `NeverValidAgainCorrect`, `ObserverCompleteCorrect`: `HistoryInv`, of any program too, has who
  calls and holds which lock (`CallInv`), and that a block is of the last object allocated at its
  address, while its maker allocates nothing between an object's
  allocation and its constructor (`NumberInv`). `SerialInv` is of programs with one adder:
  the counter is the number of objects allocated and ids are their numbers (`CountInv`), an id read
  of an object lies between its own and that of an object another thread allocated
  since, elsewhere (`BetweenInv`), and an observer has its object's type (`KindInv`). All three
  properties follow: an id past the object's own is of another address or not in the map.

`ContainersProofs`, for any values and sizes:

* `StoredUnlessShortCorrect`, `LackIsFormerRoomCorrect`, `ElementsKeptCorrect`: `ChunkInv`, the
  capacity is the pages' and, until a call has counted more than that, no page is null: only a
  shrinking of such a vector appends null ones. Of all programs.
* `DocumentsOwnedCorrect`: `BlockInv` speaks of every position that has a document, those past
  the end included: a popped element leaves its document in place.

Only model-checked: `SearchEnds` and `CallsReturn`, liveness under fairness, out of the
provers' reach; and what the four runs that expect a violation ask, with
`EntityVectorBatch`, which is false. The induction theorems of the library are out of
reach as well (they take an operator), which least elements make up for where the
data is a list or a bound; no module has a recursive operator.
The types of the entity store and of the graph, and `StackIsWalk`, are proved and have no run of their own.

## Not modelled

* Batch creation in `Collection` and the parallel loops behind lists of more than 5000
  entities: the former works on handles that are wrong already (`entity_batch_handles`), the
  latter takes an index for a position; past the first such step the program is outside its vectors.
* Contexts inside nodes, `visit`, names and texts of nodes and pins: no state beyond the
  graph's, and `visit` follows the walks `NodeCycles` does without ending on cycles.
* Arrays of objects and statistics of the allocators.
* The parser and layouts: sequential functions of a text.
* The Vulkan and window code (what it does is the driver's), `Graphics` and `Graphics2`
  (holders of driver objects; `Graphics2` is not in the build), loaders, demonstrations and
  vendored libraries. Most of the repository's lines are those: `Ext/`, `Core/lmdb`, `Core/phmap`,
  `Vk/Vma` and the image library alone are several hundred thousand, so the share of the lines
  mapped here is small although the engine's own stateful code is mostly covered.
