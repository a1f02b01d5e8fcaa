---------------------------- MODULE MCNodeCycles ----------------------------
(* Model-checking instances of NodeCycles. *)
EXTENDS NodeCycles, SequencesExt

CONSTANTS a, MaxChildren, MaxEdges

\* Up to MaxChildren children, in any order.
ShortLists ==
  {s \in UNION {[1 .. k -> Node] : k \in 0 .. MaxChildren} : IsInjective(s)}

Edges == FoldFunction(LAMBDA list, sum : Len(list) + sum, 0, children)

\* Graphs with a bounded number of edges, at most one node renamed; searched
\* from one node, or from all of them when the graph has few edges.
MCInit ==
  /\ CyclesInit
  /\ Cardinality(renamed) <= 1
  /\ \/ roots = {a} /\ Edges <= MaxEdges
     \/ roots = Node /\ Edges <= MaxEdges \div 2

MCSpec == MCInit /\ [][CyclesNext]_cyclesVars /\ WF_cyclesVars(CyclesNext)
=============================================================================
