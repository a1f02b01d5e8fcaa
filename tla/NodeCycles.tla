----------------------------- MODULE NodeCycles -----------------------------
(***************************************************************************)
(* The test for cycles of a node context: is_graph_has_cycling,            *)
(* is_graph_node_cycling and the recursive check_has_cycling_impl of       *)
(* NodeSystem/ContextDescriptor.cpp, against what a cycle is.              *)
(*                                                                         *)
(* A graph is what NodeGraph leaves behind, seen in the direction of the   *)
(* search: children[n] are the nodes the pins of n lead to, in the order   *)
(* the search meets them.  A node in renamed was renamed after it was      *)
(* added, to a name nobody has: the context has it under its old name, and *)
(* a search that meets it asks for the new one and does not find it.  The  *)
(* recursion is a stack of frames; deeper than MaxDepth, it overflows.     *)
(***************************************************************************)
EXTENDS Naturals, Sequences, FiniteSets

CONSTANTS
  Node,      \* the nodes of the context
  Children,  \* the lists of children considered
  MaxDepth   \* bound: the depth at which the call stack overflows

ASSUME CyclesAssumption ==
  /\ IsFiniteSet(Node)
  /\ \A list \in Children : list \in Seq(Node)
  /\ MaxDepth \in Nat \ {0}

VARIABLES
  children,  \* the graph, which a search does not change
  renamed,   \* the nodes whose name is not their key
  roots,     \* the nodes to search from: one, or all of them
  todo,      \* those no search was begun from yet
  color,     \* depth_color
  stack,     \* the frames: a node, and how many of its children were met
  result     \* "searching", "cycle", "none" or "overflow"

cyclesVars == <<children, renamed, roots, todo, color, stack, result>>

Frame(n) == [node |-> n, met |-> 0]
Depth == Len(stack)
Top == stack[Depth]

CyclesInit ==
  /\ children \in [Node -> Children]
  /\ renamed \in SUBSET Node
  /\ roots \in {Node} \union {{n} : n \in Node}
  /\ todo = roots
  /\ color = [n \in {} |-> 0]
  /\ stack = <<>>
  /\ result = "searching"

\* depth_color when a search from root begins.
FreshColor(root) == [n \in {root} |-> 1]

\* is_graph_node_cycling, with the key of a node ...
Begin(root) ==
  /\ result = "searching" /\ stack = <<>>
  /\ root \in todo
  /\ todo' = todo \ {root}
  /\ color' = FreshColor(root)
  /\ stack' = <<Frame(root)>>
  /\ UNCHANGED <<children, renamed, roots, result>>

\* ... which is_graph_has_cycling calls with every key until one has a cycle.

\* Mutant: a node on the same depth counts as well.
MetBeforeAtMost(n) == n \in DOMAIN color /\ color[n] <= Depth
\* Mutant: the parent of a node is not taken for a cycle.
MetBeforeNotParent(n) == n \in DOMAIN color /\ color[n] + 1 < Depth
\* A child that was met on a smaller depth is taken for a cycle.
MetBefore(n) == n \in DOMAIN color /\ color[n] < Depth

\* _node_map.contains, for the name of a child.  No color has an unknown name.
Followed(n) == n \notin renamed

NextChild == children[Top.node][Top.met + 1]
\* Mutant: only the first link of a node is followed.
MoreChildrenFirst == Top.met < 1 /\ children[Top.node] # <<>>
MoreChildren == Top.met < Len(children[Top.node])
\* Mutant: the loop does not advance.
CountedNever == stack
Counted == [stack EXCEPT ![Depth].met = @ + 1]

\* One child of the node on top: the answer, a deeper call, or nothing.
Visit ==
  /\ result = "searching" /\ stack # <<>> /\ MoreChildren
  /\ IF ~ Followed(NextChild)
     THEN /\ stack' = Counted
          /\ UNCHANGED <<color, result>>
     ELSE IF MetBefore(NextChild)
     THEN /\ result' = "cycle"
          /\ UNCHANGED <<color, stack>>
     ELSE IF Depth = MaxDepth
     THEN /\ result' = "overflow"
          /\ UNCHANGED <<color, stack>>
     ELSE /\ color' = [n \in DOMAIN color \union {NextChild} |->
                         IF n = NextChild THEN Depth + 1 ELSE color[n]]
          /\ stack' = Append(Counted, Frame(NextChild))
          /\ UNCHANGED result
  /\ UNCHANGED <<children, renamed, roots, todo>>

\* The call returns false to the one below it.
Return ==
  /\ result = "searching" /\ stack # <<>> /\ ~ MoreChildren
  /\ stack' = SubSeq(stack, 1, Depth - 1)
  /\ UNCHANGED <<children, renamed, roots, todo, color, result>>

\* No search is left.
Answer ==
  /\ result = "searching" /\ stack = <<>> /\ todo = {}
  /\ result' = "none"
  /\ UNCHANGED <<children, renamed, roots, todo, color, stack>>

CyclesNext ==
  \/ \E root \in Node : Begin(root)
  \/ Visit
  \/ Return
  \/ Answer

\* The search is a call of one thread, which runs until it returns.
CyclesSpec == CyclesInit /\ [][CyclesNext]_cyclesVars /\ WF_cyclesVars(CyclesNext)

-----------------------------------------------------------------------------
(* What there is to find.                                                   *)

\* The edges a search can follow.
Edge(a, b) == (\E k \in DOMAIN children[a] : children[a][k] = b) /\ b \notin renamed

\* The longest walks considered: around any cycle, and as deep as a stack.
MaxWalk == Cardinality(Node) + MaxDepth

\* The nodes a walk of k edges from root ends in.
Walks(root) ==
  LET W[k \in 0 .. MaxWalk] ==
        IF k = 0 THEN {root} ELSE {b \in Node : \E a \in W[k - 1] : Edge(a, b)}
  IN  W

\* The nodes on a cycle, told by a closed walk.
OnCycle == {n \in Node : \E k \in 1 .. Cardinality(Node) : n \in Walks(n)[k]}

Reaches(root, n) == \E k \in 0 .. Cardinality(Node) : n \in Walks(root)[k]

Searched == roots \ todo

\* Types.
CyclesTypeOK ==
  /\ DOMAIN color \subseteq Node
  /\ \A n \in DOMAIN color : color[n] \in 1 .. MaxDepth
  /\ stack \in Seq([node : Node, met : Nat])
  /\ \A k \in 1 .. Depth : stack[k].met <= Len(children[stack[k].node])
  /\ result \in {"searching", "cycle", "none", "overflow"}

\* The frames are a walk of the graph, and the color of a node on it is the
\* depth it was last met at: the comparison of depths rests on it.
StackIsWalk ==
  /\ CyclesTypeOK
  /\ \A k \in 1 .. Depth - 1 : Edge(stack[k].node, stack[k + 1].node)
  /\ \A k \in 1 .. Depth :
       /\ color[stack[k].node] >= k
       /\ color[stack[k].node] > k => Edge(stack[k].node, stack[k].node)

\* No cycle that a search could follow is missed, whatever the order of the
\* links and however many branches were searched before.
NoCycleMissed ==
  result = "none" => \A root \in Searched, n \in OnCycle : ~ Reaches(root, n)

\* A cycle is reported only of a graph in which some node is reached by two
\* walks whose lengths differ by two or more: a graph in layers never is.
AlarmsExplained ==
  result = "cycle" =>
    \E root \in Searched, n \in Node, k \in 0 .. MaxDepth :
      \E j \in 0 .. k :
        j + 2 <= k /\ n \in Walks(root)[j] /\ n \in Walks(root)[k]

\* The search runs out of stack only on a node linked to itself, which add_edge
\* allows.
OverflowOnlyOnLoop ==
  result = "overflow" => \E n \in Node : Edge(n, n)

\* Whatever the graph, the search ends, if only by running out of stack.
SearchEnds == <>(result # "searching")
=============================================================================
