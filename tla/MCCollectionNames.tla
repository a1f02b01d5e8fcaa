-------------------------- MODULE MCCollectionNames --------------------------
(* CollectionNames with four component names, one of them the name of the    *)
(* pair of two others.                                                       *)
EXTENDS CollectionNames, TLC

CONSTANTS x, y, xy, z, LayoutA, p1, p2, c1, c2

MCComponentName == {x, y, xy, z}
MCAddress == {p1, p2}
MCCollectionName == {c1, c2}
MCLayoutName == {LayoutA}
MCPairName ==
  [ab \in MCComponentName \X MCComponentName |-> IF ab = <<x, y>> THEN xy ELSE ab]

\* Programs that use much of everything have too many states: the run follows
\* those that are busy with layouts, with components and names, or with
\* collections.
LayoutsBusy == made = 0 /\ Cardinality(DOMAIN component) <= 1
NamesBusy ==
  /\ careful /\ layout_count = 0 /\ Cardinality(DOMAIN component) <= 4
  /\ z \in DOMAIN component_names => made = 0
  /\ made <= 1 /\ Cardinality(Owned(collections)) = made
CollectionsBusy == layout_count = 0 /\ Cardinality(DOMAIN component) <= 1

Symmetry == Permutations({p1, p2}) \union Permutations({c1, c2})

MCNext == RegistryNext /\ (LayoutsBusy \/ NamesBusy \/ CollectionsBusy)'
MCSpec == RegistryInit /\ [][MCNext]_registryVars
=============================================================================
