--------------------------- MODULE ArchetypeGraph ---------------------------
(***************************************************************************)
(* The archetype graph of a Collection (DensifySystem/Collection.cpp): one *)
(* node per component list, linked by cached "add c" and "remove c" edges  *)
(* that entities follow when their components change.                      *)
(*                                                                         *)
(* The graph is one value, so that a submit can thread it through a whole  *)
(* queue of commands: comps[n] is node n's component list, add[n][c] and   *)
(* remove[n][c] its two edges for c (the zero pointer is NoNode) and       *)
(* counter is _Archetype_ID_counter.  A component list is kept sorted by   *)
(* the code, so it is a set here.  _map_ComponentList_to_ArchetypeID and   *)
(* _map_ComponentID_to_Position are written only when a node is created,   *)
(* with its list, and never erased: both are read off comps.               *)
(***************************************************************************)
EXTENDS Integers

CONSTANTS
  Components,   \* the component ids walks are made over
  MaxNode       \* bound: the highest archetype id

ASSUME GraphAssumption == MaxNode \in Nat

VARIABLE graph

NoNode == -1
Root == 0
Node == 0 .. MaxNode

Graph ==
  [counter : Node,
   comps   : [Node -> SUBSET Components],
   add     : [Node -> [Components -> Node \union {NoNode}]],
   remove  : [Node -> [Components -> Node \union {NoNode}]]]

\* The constructor: archetype 0, without components.
EmptyGraph ==
  [counter |-> 0,
   comps   |-> [n \in Node |-> {}],
   add     |-> [n \in Node |-> [c \in Components |-> NoNode]],
   remove  |-> [n \in Node |-> [c \in Components |-> NoNode]]]

Exists(g, n) == n \in 0 .. g.counter

\* Mutant: every lookup misses, so a walk always creates a node.
KnownNever(g, coms) == {}
\* The node _map_ComponentList_to_ArchetypeID holds for a list.  The root is
\* not in that map: the constructor does not register its empty list.
Known(g, coms) == {n \in 1 .. g.counter : g.comps[n] = coms}

\* _Archetype_ID_counter++
NextId(g) == g.counter + 1

\* impl_get_or_create_archetype_node
GetOrCreate(g, coms) ==
  IF Known(g, coms) # {}
  THEN [graph |-> g, node |-> CHOOSE n \in Known(g, coms) : TRUE]
  ELSE [graph |-> [g EXCEPT !.counter = NextId(g), !.comps[NextId(g)] = coms],
        node  |-> NextId(g)]

\* Mutant: the back edge is cached under "add" on both ends.
LinkCrossed(g, lower, c, upper) ==
  [g EXCEPT !.add[lower][c] = upper, !.add[upper][c] = lower]
\* The pair of edges a walk caches: lower -add-> upper, upper -remove-> lower.
Link(g, lower, c, upper) ==
  [g EXCEPT !.add[lower][c] = upper, !.remove[upper][c] = lower]

\* impl_get_or_create_archetype_node_single_edge_add
WalkAdd(g, n, c) ==
  IF g.add[n][c] # NoNode
  THEN [graph |-> g, node |-> g.add[n][c]]
  ELSE LET made == GetOrCreate(g, g.comps[n] \union {c})
       IN  [graph |-> Link(made.graph, n, c, made.node), node |-> made.node]

\* impl_get_or_create_archetype_node_single_edge_remove
WalkRemove(g, n, c) ==
  IF g.comps[n] = {}
  THEN [graph |-> g, node |-> Root]
  ELSE IF g.remove[n][c] # NoNode
  THEN [graph |-> g, node |-> g.remove[n][c]]
  ELSE LET made == GetOrCreate(g, g.comps[n] \ {c})
       IN  [graph |-> Link(made.graph, made.node, c, n), node |-> made.node]

-----------------------------------------------------------------------------
(* The graph on its own: any walk a caller may make.  Its callers add only  *)
(* components the node lacks and remove only components it has ("both must  *)
(* have been checked").                                                     *)
GraphInit == graph = EmptyGraph

AddWalk(n, c) ==
  /\ graph.counter < MaxNode
  /\ Exists(graph, n)
  /\ c \notin graph.comps[n]
  /\ graph' = WalkAdd(graph, n, c).graph

RemoveWalk(n, c) ==
  /\ graph.counter < MaxNode
  /\ Exists(graph, n)
  /\ c \in graph.comps[n]
  /\ graph' = WalkRemove(graph, n, c).graph

GraphNext == \E n \in Node, c \in Components : AddWalk(n, c) \/ RemoveWalk(n, c)

GraphSpec == GraphInit /\ [][GraphNext]_graph

-----------------------------------------------------------------------------
GraphTypeOK == graph \in Graph

\* The cached edges tell the truth: "add c" leads to the node with exactly one
\* component more, "remove c" to the one with exactly one less.  An entity
\* that follows a wrong edge silently gains or loses a component.
AddEdgesExact(g) ==
  \A n \in Node, c \in Components : g.add[n][c] # NoNode =>
    /\ Exists(g, n) /\ Exists(g, g.add[n][c])
    /\ c \notin g.comps[n]
    /\ g.comps[g.add[n][c]] = g.comps[n] \union {c}

RemoveEdgesExact(g) ==
  \A n \in Node, c \in Components : g.remove[n][c] # NoNode =>
    /\ Exists(g, n) /\ Exists(g, g.remove[n][c])
    /\ c \in g.comps[n]
    /\ g.comps[g.remove[n][c]] = g.comps[n] \ {c}

EdgesExact == AddEdgesExact(graph) /\ RemoveEdgesExact(graph)

\* No two nodes other than the root have the same component list, so entities
\* with the same components share one archetype.  The root is excepted because
\* the removal of a node's last component makes a second empty archetype.
NodesDistinct ==
  \A m, n \in 1 .. graph.counter :
    graph.comps[m] = graph.comps[n] => m = n
=============================================================================
