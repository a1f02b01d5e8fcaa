---------------------------- MODULE MCCollection ----------------------------
(* Model-checking instances of Collection.  The component ids walks are made  *)
(* over are those of the lists the program passes, so the archetypes are at   *)
(* most one per subset of them, and the root.                                 *)
EXTENDS Collection, TLC, FiniteSets

CONSTANTS A, B, n1, n2

\* Two tags, alone and together.
TwoTags == {StaticId(A), StaticId(B)}
TwoTagLists == {<<StaticId(A)>>, <<StaticId(B)>>, <<StaticId(B), StaticId(A)>>}

\* A tag, and its pair with the entity of index 1.
TagAndPair == {StaticId(A), PairId(A, 1)}
TagAndPairLists == {<<StaticId(A)>>, <<PairId(A, 1)>>}

\* The entity of index 1, as a tag and as half of a pair.
TagAndPairOfEntity == {EntityId(1), PairId(A, 1)}
TagAndPairOfEntityLists == {<<EntityId(1)>>, <<PairId(A, 1)>>}

NameSymmetry == Permutations({n1, n2})

ASSUME MaxNode >= 2 ^ Cardinality(Components)

-----------------------------------------------------------------------------
(* A program that uses much of everything has too many states, so the runs    *)
(* follow the union of two kinds of programs, from where they part.           *)

InUse(c) ==
  \/ \E n \in ExistingNodes : c \in graph.comps[n]
  \/ \E i \in Index : \E k \in DOMAIN record[i] : record[i][k][2] = c

\* Entities with one tag and one name, none made part of a pair ...
TagsOnly ==
  /\ \A c \in layouts : ~ IsPair(c)
  /\ Cardinality({name \in Names : id_of[name] # Vacant}) <= 1
\* ... or with pairs and all the names, and no tag by itself.
PairsOnly ==
  /\ ~ InUse(StaticId(A))
  /\ dirty_entities # <<>> => \E c \in layouts : IsPair(c)

TagOrPairNext == CollectionNext /\ (TagsOnly \/ PairsOnly)'
TagOrPairSpec == CollectionInit /\ [][TagOrPairNext]_collectionVars

\* One entity with both tags, or several with one.
OneOrSeveralNext == CollectionNext /\ (size <= 1 \/ ~ InUse(StaticId(B)))'
OneOrSeveralSpec == CollectionInit /\ [][OneOrSeveralNext]_collectionVars

\* Entities without a name that have the other as a component: of the one index
\* three in turn, or of the other two.
OneRemoved ==
  /\ \/ entity_datas[1].version = 0
     \/ entity_datas[1].version = 1 /\ entity_datas[0].version = 0
  /\ record[1] = <<>> /\ Len(dirty_entities) <= 1
  /\ name_of[0] = NoName
OneRemovedNext == CollectionNext /\ OneRemoved'
OneRemovedSpec == CollectionInit /\ [][OneRemovedNext]_collectionVars
=============================================================================
