--------------------------- MODULE NodeCyclesProofs ---------------------------
(***************************************************************************)
(* Proofs about NodeCycles, for any finite set of nodes and any graphs.    *)
(***************************************************************************)
EXTENDS NodeCycles, FoldProofs, FiniteSetTheorems, TLAPS

\* A node colored deeper than where it is on the stack is linked to itself.
WalkInv ==
  /\ children \in [Node -> Children]
  /\ todo \subseteq Node
  /\ StackIsWalk
  /\ \A k \in 1 .. Depth : stack[k].node \in DOMAIN color

(* What the provers need to know of the children of a node.                  *)
LEMMA ChildrenShape ==
  ASSUME WalkInv, NEW n \in Node
  PROVE  /\ children[n] \in Seq(Node) /\ Len(children[n]) \in Nat
         /\ \A k \in 1 .. Len(children[n]) : children[n][k] \in Node
<1>1. children[n] \in Seq(Node)
  BY CyclesAssumption DEF WalkInv
<1>2. QED
  BY <1>1

(* What the provers need to know of the stack.                               *)
LEMMA StackShape ==
  ASSUME WalkInv
  PROVE  /\ stack \in Seq([node : Node, met : Nat]) /\ Depth \in Nat
         /\ \A k \in 1 .. Depth : stack[k].node \in Node /\ stack[k].met \in Nat
<1> DEFINE S == [node : Node, met : Nat]
<1>1. stack \in Seq(S)
  BY DEF WalkInv, StackIsWalk, CyclesTypeOK
<1> HIDE DEF S
<1>2. Len(stack) \in Nat /\ \A k \in 1 .. Len(stack) : stack[k] \in S
  BY <1>1
<1>3. QED
  BY <1>1, <1>2 DEF S, Depth

(* A search begins with one frame and one color.                             *)
LEMMA BeginInv ==
  ASSUME WalkInv, NEW root \in Node, Begin(root)
  PROVE  WalkInv'
<1>1. /\ stack' = <<Frame(root)>> /\ color' = FreshColor(root)
      /\ todo' = todo \ {root} /\ UNCHANGED <<children, renamed, roots, result>>
  BY DEF Begin
<1>2. /\ Depth' = 1 /\ stack'[1] = [node |-> root, met |-> 0]
      /\ stack' \in Seq([node : Node, met : Nat])
  BY <1>1 DEF Depth, Frame
<1>3. DOMAIN color' = {root} /\ color'[root] = 1
  BY <1>1 DEF FreshColor
<1>4. CyclesTypeOK'
  <2>1. Len(children[root]) \in Nat
    BY ChildrenShape
  <2>2. QED
    BY <1>1, <1>2, <1>3, <2>1, CyclesAssumption
       DEF CyclesTypeOK, WalkInv, StackIsWalk
<1>5. QED
  BY <1>1, <1>2, <1>3, <1>4 DEF WalkInv, StackIsWalk, Edge

\* What Visit looks at: the frame on top, and its next child.
LEMMA NextShape ==
  ASSUME WalkInv, stack # <<>>, MoreChildren
  PROVE  /\ Depth \in Nat /\ Depth >= 1
         /\ Top.node \in Node /\ Top.met \in Nat
         /\ Top.met + 1 \in DOMAIN children[Top.node]
         /\ Top.met + 1 <= Len(children[Top.node])
         /\ NextChild \in Node
<1>1. Depth \in Nat /\ Depth >= 1
  BY StackShape DEF Depth
<1>2. Top.node \in Node /\ Top.met \in Nat
  BY <1>1, StackShape DEF Top
<1>3. /\ children[Top.node] \in Seq(Node) /\ Len(children[Top.node]) \in Nat
      /\ Top.met < Len(children[Top.node])
  BY <1>2, ChildrenShape DEF MoreChildren
<1>4. QED
  BY <1>1, <1>2, <1>3 DEF NextChild

(* The stack after a child was met: its nodes are the same.                  *)
LEMMA CountedShape ==
  ASSUME WalkInv, stack # <<>>, MoreChildren
  PROVE  /\ Counted \in Seq([node : Node, met : Nat]) /\ Len(Counted) = Depth
         /\ \A k \in 1 .. Depth :
              /\ Counted[k].node = stack[k].node
              /\ Counted[k].met <= Len(children[stack[k].node])
              /\ Counted[k].met = IF k = Depth THEN stack[k].met + 1 ELSE stack[k].met
<1> DEFINE S == [node : Node, met : Nat]
           top == [Top EXCEPT !.met = @ + 1]
<1>1. /\ Depth \in Nat /\ Depth >= 1 /\ Top \in S /\ Top.met + 1 <= Len(children[Top.node])
      /\ stack \in Seq(S)
  <2>1. stack \in Seq(S) /\ Depth \in 1 .. Len(stack)
    BY NextShape, StackShape DEF Depth
  <2> HIDE DEF S
  <2>2. stack[Depth] \in S
    BY <2>1
  <2>3. QED
    BY <2>1, <2>2, NextShape DEF Top
<1>2. top \in S /\ top.node = Top.node /\ top.met = Top.met + 1
  BY <1>1
<1>3. Counted = [stack EXCEPT ![Depth] = top]
  BY DEF Counted, Top
<1> HIDE DEF S, top
<1>4. /\ Counted \in Seq(S) /\ Len(Counted) = Depth
      /\ \A k \in 1 .. Depth : Counted[k] = IF k = Depth THEN top ELSE stack[k]
  BY <1>1, <1>2, <1>3 DEF Depth
<1>5. \A k \in 1 .. Depth : stack[k].met <= Len(children[stack[k].node])
  BY DEF WalkInv, StackIsWalk, CyclesTypeOK
<1>6. \A k \in 1 .. Depth :
        /\ Counted[k].node = stack[k].node
        /\ Counted[k].met <= Len(children[stack[k].node])
        /\ Counted[k].met = IF k = Depth THEN stack[k].met + 1 ELSE stack[k].met
  BY <1>1, <1>2, <1>4, <1>5 DEF Top
<1>7. QED
  BY <1>4, <1>6 DEF S

\* The child that is followed was not met above, or only because a node of the
\* stack is linked to itself.
LEMMA PushInv ==
  ASSUME WalkInv, stack # <<>>, MoreChildren, Followed(NextChild),
         ~ MetBefore(NextChild), Depth # MaxDepth,
         color' = [n \in DOMAIN color \union {NextChild} |->
                     IF n = NextChild THEN Depth + 1 ELSE color[n]],
         stack' = Append(Counted, Frame(NextChild)),
         UNCHANGED <<children, renamed, roots, todo, result>>
  PROVE  WalkInv'
<1> DEFINE x == NextChild
           S == [node : Node, met : Nat]
           d == Depth
<1>1. /\ d \in Nat /\ d >= 1 /\ x \in Node /\ Top.node \in Node
      /\ Edge(Top.node, x)
  BY NextShape DEF Edge, Followed, NextChild
<1>2. /\ Frame(x) \in S /\ Frame(x).node = x /\ Frame(x).met = 0
  BY <1>1 DEF Frame
<1>3. Counted \in Seq(S) /\ Len(Counted) = d
  BY CountedShape
<1> HIDE DEF S
<1>4. /\ stack' \in Seq(S) /\ Len(stack') = d + 1 /\ stack'[d + 1] = Frame(x)
      /\ \A k \in 1 .. d : stack'[k] = Counted[k]
  BY <1>1, <1>2, <1>3
<1>5. /\ Depth' = d + 1 /\ stack'[d + 1].node = x
      /\ \A k \in 1 .. d : stack'[k].node = stack[k].node
  BY <1>2, <1>4, CountedShape DEF Depth
<1>6. d + 1 \in 1 .. MaxDepth
  <2>1. \E k \in 1 .. d : TRUE
    BY <1>1
  <2>2. stack[d].node \in DOMAIN color /\ color[stack[d].node] \in 1 .. MaxDepth
    BY <1>1 DEF WalkInv, StackIsWalk, CyclesTypeOK
  <2>3. color[stack[d].node] >= d
    BY <1>1 DEF WalkInv, StackIsWalk
  <2>4. QED
    BY <1>1, <2>2, <2>3, CyclesAssumption
<1>7. CyclesTypeOK'
  <2>1. DOMAIN color' \subseteq Node
    BY <1>1 DEF WalkInv, StackIsWalk, CyclesTypeOK
  <2>2. \A n \in DOMAIN color' : color'[n] \in 1 .. MaxDepth
    BY <1>6 DEF WalkInv, StackIsWalk, CyclesTypeOK
  <2>3. \A k \in 1 .. Depth' : stack'[k].met <= Len(children'[stack'[k].node])
    <3>1. \A k \in 1 .. d : stack'[k].met <= Len(children[stack[k].node])
      BY <1>4, CountedShape
    <3>2. Len(children[x]) \in Nat
      BY <1>1, ChildrenShape
    <3>3. stack'[d + 1].met = 0 /\ stack'[d + 1].node = x
      BY <1>2, <1>4
    <3>4. TAKE k \in 1 .. Depth'
    <3>5. CASE k = d + 1
      <4>1. children' = children
        OBVIOUS
      <4>2. stack'[k].met = 0 /\ stack'[k].node = x
        BY <3>3, <3>5
      <4>3. QED
        BY <3>2, <4>1, <4>2
    <3>6. CASE k # d + 1
      <4>1. k \in 1 .. d
        BY <1>1, <1>5, <3>6
      <4>2. QED
        BY <1>5, <3>1, <4>1
    <3>7. QED
      BY <3>5, <3>6
  <2>4. QED
    BY <1>4, <2>1, <2>2, <2>3 DEF WalkInv, StackIsWalk, CyclesTypeOK, S
<1>8. \A k \in 1 .. Depth' - 1 : Edge(stack[k].node, stack[k + 1].node)'
  <2> TAKE k \in 1 .. Depth' - 1
  <2>1. CASE k = d
    <3>1. stack'[k + 1].node = x /\ stack'[k].node = Top.node
      <4>1. stack'[k + 1].node = x
        BY <1>5, <2>1
      <4>2. k \in 1 .. d
        BY <1>1, <2>1
      <4>3. stack'[k].node = stack[k].node
        BY <1>5, <4>2
      <4>4. QED
        BY <2>1, <4>1, <4>3 DEF Top
    <3>2. children' = children /\ renamed' = renamed
      OBVIOUS
    <3>3. QED
      BY <1>1, <3>1, <3>2 DEF Edge
  <2>2. CASE k # d
    <3>1. k \in 1 .. d - 1 /\ k + 1 \in 1 .. d /\ k \in 1 .. d
      BY <1>1, <1>5, <2>2
    <3>2. Edge(stack[k].node, stack[k + 1].node)
      BY <3>1 DEF WalkInv, StackIsWalk
    <3>3. QED
      BY <1>5, <3>1, <3>2 DEF Edge
  <2>3. QED
    BY <2>1, <2>2
<1>9. \A k \in 1 .. Depth' :
        /\ stack'[k].node \in DOMAIN color'
        /\ color'[stack'[k].node] >= k
        /\ color'[stack'[k].node] > k => Edge(stack[k].node, stack[k].node)'
  <2> TAKE k \in 1 .. Depth'
  <2>0. children' = children /\ renamed' = renamed
    OBVIOUS
  <2>1. CASE k = d + 1
    <3>1. stack'[k].node = x
      BY <1>5, <2>1
    <3>2. x \in DOMAIN color' /\ color'[x] = k
      BY <2>1
    <3>3. QED
      BY <1>1, <2>1, <3>1, <3>2
  <2>2. CASE k # d + 1
    <3>0. k \in 1 .. d
      BY <1>1, <1>5, <2>2
    <3>1. k \in 1 .. d /\ stack'[k].node = stack[k].node
      BY <1>5, <3>0
    <3> DEFINE n == stack[k].node
    <3>2. /\ n \in DOMAIN color /\ color[n] >= k
          /\ color[n] > k => Edge(n, n)
      BY <3>1 DEF WalkInv, StackIsWalk
    <3>3. CASE n # x
      BY <2>0, <3>1, <3>2, <3>3 DEF Edge
    <3>4. CASE n = x
      <4>1. color[n] >= d
        BY <1>1, <3>2, <3>4 DEF MetBefore, WalkInv, StackIsWalk, CyclesTypeOK
      <4>2. Edge(n, n)
        <5>1. CASE k = d
          BY <1>1, <3>4, <5>1 DEF Top
        <5>2. CASE k # d
          <6>1. color[n] \in Nat
            BY <3>2, CyclesAssumption DEF WalkInv, StackIsWalk, CyclesTypeOK
          <6>2. color[n] > k
            BY <1>1, <3>1, <4>1, <5>2, <6>1
          <6>3. QED
            BY <3>2, <6>2
        <5>3. QED
          BY <5>1, <5>2
      <4>3. color'[n] = d + 1
        BY <3>4
      <4>4. QED
        BY <1>1, <2>0, <3>1, <3>2, <3>4, <4>2, <4>3 DEF Edge
    <3>5. QED
      BY <3>3, <3>4
  <2>3. QED
    BY <2>1, <2>2
<1>10. QED
  BY <1>7, <1>8, <1>9 DEF WalkInv, StackIsWalk

(* Places of a shorter stack are places of the stack.                        *)
LEMMA FewerFrames ==
  ASSUME NEW m \in Nat, NEW n \in Nat, n <= m, NEW k \in 1 .. n - 1
  PROVE  k \in 1 .. m - 1 /\ k \in 1 .. n /\ k + 1 \in 1 .. n
OBVIOUS

\* Fewer frames, of the same nodes.
LEMMA SameNodesInv ==
  ASSUME WalkInv, CyclesTypeOK', UNCHANGED <<children, renamed, todo, color>>,
         Depth \in Nat, Depth' \in Nat, Depth' <= Depth,
         \A k \in 1 .. Depth' : stack'[k].node = stack[k].node
  PROVE  WalkInv'
<1>1. children' = children /\ renamed' = renamed /\ todo' = todo /\ color' = color
  OBVIOUS
<1>2. \A k \in 1 .. Depth' - 1 : Edge(stack[k].node, stack[k + 1].node)'
  <2> TAKE k \in 1 .. Depth' - 1
  <2>1. k \in 1 .. Depth - 1 /\ k \in 1 .. Depth' /\ k + 1 \in 1 .. Depth'
    BY FewerFrames
  <2>2. Edge(stack[k].node, stack[k + 1].node)
    BY <2>1 DEF WalkInv, StackIsWalk
  <2>3. stack'[k].node = stack[k].node /\ stack'[k + 1].node = stack[k + 1].node
    BY <2>1
  <2>4. QED
    BY <1>1, <2>2, <2>3 DEF Edge
<1>3. \A k \in 1 .. Depth' :
        /\ stack'[k].node \in DOMAIN color'
        /\ color'[stack'[k].node] >= k
        /\ color'[stack'[k].node] > k => Edge(stack[k].node, stack[k].node)'
  <2> TAKE k \in 1 .. Depth'
  <2>1. k \in 1 .. Depth /\ stack'[k].node = stack[k].node
    OBVIOUS
  <2>2. QED
    BY <1>1, <2>1 DEF WalkInv, StackIsWalk, Edge
<1>4. QED
  BY <1>1, <1>2, <1>3 DEF WalkInv, StackIsWalk

(* Meeting a child keeps the stack a walk.                                   *)
LEMMA VisitInv ==
  ASSUME WalkInv, Visit
  PROVE  WalkInv'
<1>1. stack # <<>> /\ MoreChildren /\ UNCHANGED <<children, renamed, roots, todo>>
  BY DEF Visit
<1>2. CASE ~ Followed(NextChild)
  <2>1. stack' = Counted /\ UNCHANGED <<color, result>>
    BY <1>2 DEF Visit
  <2>2. /\ stack' \in Seq([node : Node, met : Nat]) /\ Depth' = Depth
        /\ \A k \in 1 .. Depth :
             /\ stack'[k].node = stack[k].node
             /\ stack'[k].met <= Len(children[stack[k].node])
    BY <1>1, <2>1, CountedShape DEF Depth
  <2>3. CyclesTypeOK'
    BY <1>1, <2>1, <2>2 DEF WalkInv, StackIsWalk, CyclesTypeOK
  <2>4. Depth \in Nat
    BY StackShape
  <2>5. QED
    BY <1>1, <2>1, <2>2, <2>3, <2>4, SameNodesInv
<1>3. CASE Followed(NextChild) /\ (MetBefore(NextChild) \/ Depth = MaxDepth)
  <2>1. UNCHANGED <<color, stack>> /\ result' \in {"cycle", "overflow"}
    BY <1>3 DEF Visit
  <2>2. QED
    BY <1>1, <2>1 DEF WalkInv, StackIsWalk, CyclesTypeOK, Depth, Edge
<1>4. CASE Followed(NextChild) /\ ~ MetBefore(NextChild) /\ Depth # MaxDepth
  BY <1>1, <1>4, PushInv DEF Visit
<1>5. QED
  BY <1>2, <1>3, <1>4

(* So does the return from a call.                                           *)
LEMMA ReturnInv ==
  ASSUME WalkInv, Return
  PROVE  WalkInv'
<1> DEFINE S == [node : Node, met : Nat]
<1>1. /\ stack # <<>> /\ stack' = SubSeq(stack, 1, Depth - 1)
      /\ UNCHANGED <<children, renamed, roots, todo, color, result>>
  BY DEF Return
<1>2. stack \in Seq(S) /\ Depth \in Nat /\ Depth >= 1 /\ Depth = Len(stack)
  BY <1>1, StackShape DEF Depth
<1> HIDE DEF S
<1>3. /\ stack' \in Seq(S) /\ Len(stack') = Depth - 1
      /\ \A k \in 1 .. Depth - 1 : stack'[k] = stack[k]
  BY <1>1, <1>2
<1>4. Depth' = Depth - 1
  BY <1>3 DEF Depth
<1>5. CyclesTypeOK'
  BY <1>1, <1>2, <1>3, <1>4 DEF WalkInv, StackIsWalk, CyclesTypeOK, S
<1>6. QED
  <2>1. \A k \in 1 .. Depth' : k \in 1 .. Depth /\ stack'[k].node = stack[k].node
    BY <1>2, <1>3, <1>4
  <2>2. Depth' \in Nat /\ Depth' <= Depth
    BY <1>2, <1>4
  <2>3. QED
    BY <1>1, <1>2, <1>5, <2>1, <2>2, SameNodesInv

(* And so does every step.                                                   *)
LEMMA CyclesStepInv ==
  ASSUME WalkInv, [CyclesNext]_cyclesVars
  PROVE  WalkInv'
<1>1. ASSUME NEW root \in Node, Begin(root)
      PROVE  WalkInv'
  BY <1>1, BeginInv
<1>2. CASE Answer
  BY <1>2 DEF Answer, WalkInv, StackIsWalk, CyclesTypeOK, Depth, Edge
<1>3. CASE UNCHANGED cyclesVars
  BY <1>3 DEF cyclesVars, WalkInv, StackIsWalk, CyclesTypeOK, Depth, Edge
<1>4. QED
  BY <1>1, <1>2, <1>3, VisitInv, ReturnInv DEF CyclesNext

(* At the start the stack is empty.                                          *)
LEMMA CyclesInitInv ==
  ASSUME CyclesInit
  PROVE  WalkInv
<1>1. Depth = 0
  BY DEF CyclesInit, Depth
<1>2. QED
  BY <1>1 DEF CyclesInit, WalkInv, StackIsWalk, CyclesTypeOK

(* So it always is.                                                          *)
LEMMA WalkInvariant == CyclesSpec => []WalkInv
<1>1. CyclesInit => WalkInv
  BY CyclesInitInv
<1>2. WalkInv /\ [CyclesNext]_cyclesVars => WalkInv'
  BY CyclesStepInv
<1>3. QED
  BY <1>1, <1>2, PTL DEF CyclesSpec

\* The frames of the recursive search are a walk of the graph, and a node on it
\* has the color of its depth unless it is linked to itself, although colors are
\* kept when a call returns.
THEOREM StackIsWalkCorrect == CyclesSpec => []StackIsWalk
<1>1. WalkInv => StackIsWalk
  BY DEF WalkInv
<1>2. QED
  BY <1>1, WalkInvariant, PTL

\* The stack has room for all nodes.
EnoughStack == MaxDepth >= Cardinality(Node)

\* Where no node is linked to itself, the frames are of distinct nodes, and the
\* child that is followed is of none of them.
LEMMA OverflowStep ==
  ASSUME EnoughStack, WalkInv, OverflowOnlyOnLoop, [CyclesNext]_cyclesVars
  PROVE  OverflowOnlyOnLoop'
<1>1. CASE result' = "overflow" /\ result # "overflow"
  <2> DEFINE x == NextChild
             d == Depth
  <2>1. /\ stack # <<>> /\ MoreChildren /\ Followed(x) /\ ~ MetBefore(x)
        /\ Depth = MaxDepth /\ UNCHANGED <<children, renamed>>
    BY <1>1 DEF CyclesNext, Begin, Visit, Return, Answer, cyclesVars
  <2>2. /\ d \in Nat /\ d >= 1 /\ x \in Node /\ Top.node \in Node
        /\ Edge(Top.node, x)
    BY <2>1, NextShape DEF Edge, Followed, NextChild
  <2>3. SUFFICES ASSUME \A n \in Node : ~ Edge(n, n)
                 PROVE  FALSE
    <3>1. children' = children /\ renamed' = renamed
      BY <2>1
    <3>2. QED
      BY <3>1 DEF OverflowOnlyOnLoop, Edge
  <2>4. \A k \in 1 .. d :
          /\ stack[k].node \in Node /\ stack[k].node \in DOMAIN color
          /\ color[stack[k].node] = k
    <3> TAKE k \in 1 .. d
    <3>1. stack[k].node \in Node /\ stack[k].node \in DOMAIN color
      BY StackShape DEF WalkInv
    <3>2. /\ color[stack[k].node] >= k /\ ~ color[stack[k].node] > k
      BY <2>3, <3>1 DEF WalkInv, StackIsWalk
    <3>3. color[stack[k].node] \in 1 .. MaxDepth
      BY <3>1 DEF WalkInv, StackIsWalk, CyclesTypeOK
    <3>4. QED
      BY <3>1, <3>2, <3>3, CyclesAssumption
  <2>5. \A k \in 1 .. d : stack[k].node # x
    <3> SUFFICES ASSUME NEW k \in 1 .. d, stack[k].node = x
                 PROVE  FALSE
      OBVIOUS
    <3>1. x \in DOMAIN color /\ color[x] = k
      BY <2>4
    <3>2. k = d
      BY <2>1, <2>2, <3>1 DEF MetBefore
    <3>3. QED
      BY <2>2, <2>3, <3>2 DEF Top
  <2> DEFINE f == [k \in 1 .. d + 1 |-> IF k = d + 1 THEN x ELSE stack[k].node]
  <2>6. \A k \in 1 .. d + 1 : k = d + 1 \/ k \in 1 .. d
    BY <2>2
  <2>7. f \in [1 .. d + 1 -> Node]
    BY <2>2, <2>4, <2>6
  <2>8. \A j, k \in 1 .. d + 1 : f[j] = f[k] => j = k
    <3> TAKE j, k \in 1 .. d + 1
    <3>1. CASE j \in 1 .. d /\ k \in 1 .. d
      <4>1. f[j] = stack[j].node /\ f[k] = stack[k].node
        BY <2>2, <3>1
      <4>2. QED
        BY <2>4, <3>1, <4>1
    <3>2. CASE j \in 1 .. d /\ k = d + 1
      BY <2>2, <2>5, <3>2
    <3>3. CASE j = d + 1 /\ k \in 1 .. d
      BY <2>2, <2>5, <3>3
    <3>4. QED
      BY <2>6, <3>1, <3>2, <3>3
  <2> HIDE DEF f
  <2>9. /\ IsFiniteSet(1 .. d + 1) /\ Cardinality(1 .. d + 1) = d + 1
    BY <2>2, FS_Interval
  <2>10. /\ IsFiniteSet(Node) /\ Cardinality(Node) \in Nat /\ Cardinality(Node) <= d
    BY <2>1, CyclesAssumption, FS_CardinalityType DEF EnoughStack
  <2>11. Cardinality(Node) < Cardinality(1 .. d + 1)
    BY <2>2, <2>9, <2>10
  <2> DEFINE I == 1 .. d + 1
  <2>12. IsFiniteSet(I) /\ Cardinality(Node) < Cardinality(I) /\ f \in [I -> Node]
    BY <2>7, <2>9, <2>11
  <2> HIDE DEF I
  <2>13. \E j, k \in I : j # k /\ f[j] = f[k]
    BY <2>10, <2>12, FS_PigeonHole
  <2>14. QED
    BY <2>8, <2>13 DEF I
<1>2. CASE result' # "overflow"
  BY <1>2 DEF OverflowOnlyOnLoop
<1>3. CASE result = "overflow"
  <2>1. children' = children /\ renamed' = renamed
    BY DEF CyclesNext, Begin, Visit, Return, Answer, cyclesVars
  <2>2. QED
    BY <1>3, <2>1 DEF OverflowOnlyOnLoop, Edge
<1>4. QED
  BY <1>1, <1>2, <1>3

\* With a stack for as many calls as there are nodes, the search, which marks no
\* node as done, runs out of it only when a node is linked to itself.
THEOREM OverflowCorrect == EnoughStack => (CyclesSpec => []OverflowOnlyOnLoop)
<1> SUFFICES ASSUME EnoughStack
             PROVE  CyclesSpec => []OverflowOnlyOnLoop
  OBVIOUS
<1>1. CyclesInit => OverflowOnlyOnLoop
  BY DEF CyclesInit, OverflowOnlyOnLoop
<1>2. WalkInv /\ OverflowOnlyOnLoop /\ [CyclesNext]_cyclesVars => OverflowOnlyOnLoop'
  BY OverflowStep
<1>3. QED
  BY <1>1, <1>2, WalkInvariant, PTL DEF CyclesSpec

-----------------------------------------------------------------------------
(* What is on a walk, and what a search that returned has cleared.           *)

\* Edge, of any graph.
EdgeIn(ch, rn, a, b) == (\E k \in DOMAIN ch[a] : ch[a][k] = b) /\ b \notin rn

\* A walk of k edges from a to b, in the graph of ch and rn.
Path(ch, rn, a, b, k) ==
  \E f \in [0 .. k -> Node] :
    /\ f[0] = a /\ f[k] = b
    /\ \A i \in 1 .. k : EdgeIn(ch, rn, f[i - 1], f[i])

\* No closed walk is reached from a.
Acyclic(ch, rn, a) ==
  \A b \in Node, k \in 0 .. Cardinality(Node), l \in 1 .. Cardinality(Node) :
    Path(ch, rn, a, b, k) => ~ Path(ch, rn, b, b, l)

(* The walk that stays.                                                      *)
LEMMA PathOfNone ==
  ASSUME NEW ch, NEW rn, NEW a \in Node
  PROVE  /\ Path(ch, rn, a, a, 0)
         /\ \A b \in Node : Path(ch, rn, a, b, 0) => b = a
<1>1. Path(ch, rn, a, a, 0)
  <2> DEFINE f == [i \in 0 .. 0 |-> a]
  <2>1. f \in [0 .. 0 -> Node] /\ f[0] = a /\ 1 .. 0 = {}
    OBVIOUS
  <2> HIDE DEF f
  <2>2. QED
    BY <2>1 DEF Path
<1>2. QED
  BY <1>1 DEF Path

(* A walk goes on along an edge.                                             *)
LEMMA PathThenEdge ==
  ASSUME NEW ch, NEW rn, NEW a \in Node, NEW b \in Node, NEW c \in Node,
         NEW k \in Nat, Path(ch, rn, a, b, k), EdgeIn(ch, rn, b, c)
  PROVE  Path(ch, rn, a, c, k + 1)
<1>1. PICK f \in [0 .. k -> Node] :
        /\ f[0] = a /\ f[k] = b
        /\ \A i \in 1 .. k : EdgeIn(ch, rn, f[i - 1], f[i])
  BY DEF Path
<1> DEFINE g == [i \in 0 .. k + 1 |-> IF i = k + 1 THEN c ELSE f[i]]
<1>2. /\ g \in [0 .. k + 1 -> Node] /\ g[0] = a /\ g[k + 1] = c
      /\ \A i \in 0 .. k : g[i] = f[i]
  BY <1>1
<1> HIDE DEF g
<1>3. ASSUME NEW i \in 1 .. k + 1
      PROVE  EdgeIn(ch, rn, g[i - 1], g[i])
  <2>1. i - 1 \in 0 .. k /\ g[i - 1] = f[i - 1]
    BY <1>2
  <2>2. CASE i = k + 1
    <3>1. i - 1 = k
      BY <2>2
    <3>2. g[i - 1] = b /\ g[i] = c
      BY <1>1, <1>2, <2>1, <2>2, <3>1
    <3>3. QED
      BY <3>2
  <2>3. CASE i # k + 1
    <3>1. i \in 1 .. k /\ i \in 0 .. k
      BY <2>3
    <3>2. QED
      BY <1>1, <1>2, <2>1, <3>1
  <2>4. QED
    BY <2>2, <2>3
<1>4. QED
  BY <1>2, <1>3 DEF Path

(* And a walk of at least one edge ends with one.                            *)
LEMMA PathLast ==
  ASSUME NEW ch, NEW rn, NEW a \in Node, NEW c \in Node, NEW k \in Nat \ {0},
         Path(ch, rn, a, c, k)
  PROVE  \E b \in Node : Path(ch, rn, a, b, k - 1) /\ EdgeIn(ch, rn, b, c)
<1>1. PICK f \in [0 .. k -> Node] :
        /\ f[0] = a /\ f[k] = c
        /\ \A i \in 1 .. k : EdgeIn(ch, rn, f[i - 1], f[i])
  BY DEF Path
<1> DEFINE g == [i \in 0 .. k - 1 |-> f[i]]
<1>2. k - 1 \in 0 .. k /\ k \in 1 .. k /\ f[k - 1] \in Node
  BY <1>1
<1>3. /\ g \in [0 .. k - 1 -> Node] /\ g[0] = a /\ g[k - 1] = f[k - 1]
      /\ \A i \in 1 .. k - 1 : EdgeIn(ch, rn, g[i - 1], g[i])
  <2>1. g \in [0 .. k - 1 -> Node] /\ g[0] = a /\ g[k - 1] = f[k - 1]
    BY <1>1
  <2>2. ASSUME NEW i \in 1 .. k - 1 PROVE EdgeIn(ch, rn, g[i - 1], g[i])
    <3>1. i \in 1 .. k /\ g[i - 1] = f[i - 1] /\ g[i] = f[i]
      OBVIOUS
    <3> HIDE DEF g
    <3>2. QED
      BY <1>1, <3>1
  <2>3. QED
    BY <2>1, <2>2
<1> HIDE DEF g
<1>4. Path(ch, rn, a, f[k - 1], k - 1)
  BY <1>3 DEF Path
<1>5. EdgeIn(ch, rn, f[k - 1], c)
  BY <1>1, <1>2
<1>6. QED
  BY <1>2, <1>4, <1>5

(* It begins with one as well.                                               *)
LEMMA PathFirst ==
  ASSUME NEW ch, NEW rn, NEW a \in Node, NEW c \in Node, NEW k \in Nat \ {0},
         Path(ch, rn, a, c, k)
  PROVE  \E b \in Node : EdgeIn(ch, rn, a, b) /\ Path(ch, rn, b, c, k - 1)
<1>1. PICK f \in [0 .. k -> Node] :
        /\ f[0] = a /\ f[k] = c
        /\ \A i \in 1 .. k : EdgeIn(ch, rn, f[i - 1], f[i])
  BY DEF Path
<1> DEFINE g == [i \in 0 .. k - 1 |-> f[i + 1]]
<1>2. 1 \in 0 .. k /\ 1 \in 1 .. k /\ f[1] \in Node
  BY <1>1
<1>3. /\ g \in [0 .. k - 1 -> Node] /\ g[0] = f[1] /\ g[k - 1] = c
      /\ \A i \in 1 .. k - 1 : EdgeIn(ch, rn, g[i - 1], g[i])
  <2>1. \A i \in 0 .. k - 1 : i + 1 \in 0 .. k
    OBVIOUS
  <2>2. g \in [0 .. k - 1 -> Node] /\ g[0] = f[1] /\ g[k - 1] = c
    BY <1>1, <2>1
  <2>3. ASSUME NEW i \in 1 .. k - 1 PROVE EdgeIn(ch, rn, g[i - 1], g[i])
    <3>1. i + 1 \in 1 .. k /\ (i + 1) - 1 = i
      OBVIOUS
    <3>2. g[i - 1] = f[i] /\ g[i] = f[i + 1]
      OBVIOUS
    <3> HIDE DEF g
    <3>3. EdgeIn(ch, rn, f[(i + 1) - 1], f[i + 1])
      BY <1>1, <3>1
    <3>4. QED
      BY <3>1, <3>2, <3>3
  <2>4. QED
    BY <2>2, <2>3
<1> HIDE DEF g
<1>4. Path(ch, rn, f[1], c, k - 1)
  BY <1>3 DEF Path
<1>5. EdgeIn(ch, rn, a, f[1])
  <2>1. EdgeIn(ch, rn, f[1 - 1], f[1]) /\ 1 - 1 = 0
    BY <1>1, <1>2
  <2>2. QED
    BY <1>1, <2>1
<1>6. QED
  BY <1>2, <1>4, <1>5

\* A node none of whose children leads to a cycle leads to none: a cycle it is
\* itself on goes through a child.
LEMMA AcyclicOfChildren ==
  ASSUME NEW ch, NEW rn, NEW a \in Node,
         \A b \in Node : EdgeIn(ch, rn, a, b) => Acyclic(ch, rn, b)
  PROVE  Acyclic(ch, rn, a)
<1> DEFINE N == Cardinality(Node)
<1>1. N \in Nat
  BY CyclesAssumption, FS_CardinalityType
<1> HIDE DEF N
<1> SUFFICES ASSUME NEW x \in Node, NEW k \in 0 .. N, NEW l \in 1 .. N,
                    Path(ch, rn, a, x, k), Path(ch, rn, x, x, l)
             PROVE  FALSE
  BY DEF Acyclic, N
<1>2. CASE k = 0
  <2>1. x = a
    BY <1>2, PathOfNone
  <2>2. l \in Nat \ {0} /\ l - 1 \in Nat /\ (l - 1) + 1 = l
    BY <1>1
  <2>3. PICK b \in Node : EdgeIn(ch, rn, a, b) /\ Path(ch, rn, b, a, l - 1)
    BY <2>1, <2>2, PathFirst
  <2>4. Path(ch, rn, b, b, (l - 1) + 1)
    BY <2>2, <2>3, PathThenEdge
  <2>5. Path(ch, rn, b, b, 0) /\ 0 \in 0 .. N
    BY <1>1, PathOfNone
  <2>6. QED
    BY <2>2, <2>3, <2>4, <2>5 DEF Acyclic, N
<1>3. CASE k # 0
  <2>1. k \in Nat \ {0} /\ k - 1 \in 0 .. N
    BY <1>1, <1>3
  <2>2. PICK b \in Node : EdgeIn(ch, rn, a, b) /\ Path(ch, rn, b, x, k - 1)
    BY <2>1, PathFirst
  <2>3. QED
    BY <2>1, <2>2 DEF Acyclic, N
<1>4. QED
  BY <1>2, <1>3

(* Walks is a table of the ends of paths.                                    *)
LEMMA WalksArePaths ==
  ASSUME NEW a \in Node, NEW k \in 0 .. MaxWalk
  PROVE  Walks(a)[k] = {b \in Node : Path(children, renamed, a, b, k)}
<1>1. MaxWalk \in Nat
  BY CyclesAssumption, FS_CardinalityType DEF MaxWalk
<1> DEFINE D == 0 .. MaxWalk
           E(x, y) == EdgeIn(children, renamed, x, y)
           P(i) == {b \in Node : Path(children, renamed, a, b, i)}
           T == [i \in D |-> P(i)]
           Of(W) == [i \in D |-> IF i = 0 THEN {a}
                                 ELSE {b \in Node : \E c \in W[i - 1] : E(c, b)}]
<1>2. P(0) = {a}
  BY PathOfNone
<1>3. ASSUME NEW i \in D, i # 0
      PROVE  P(i) = {b \in Node : \E c \in P(i - 1) : E(c, b)}
  <2>1. i \in Nat \ {0} /\ i - 1 \in Nat /\ (i - 1) + 1 = i
    BY <1>1, <1>3
  <2>2. ASSUME NEW b \in Node, Path(children, renamed, a, b, i)
        PROVE  \E c \in P(i - 1) : E(c, b)
    BY <2>1, <2>2, PathLast
  <2>3. ASSUME NEW b \in Node, NEW c \in P(i - 1), E(c, b)
        PROVE  Path(children, renamed, a, b, i)
    <3>1. Path(children, renamed, a, b, (i - 1) + 1)
      BY <2>1, <2>3, PathThenEdge
    <3>2. QED
      BY <2>1, <3>1
  <2>4. QED
    BY <2>2, <2>3
<1>4. \A i \in D : i # 0 => i - 1 \in D
  BY <1>1
<1>5. T = Of(T)
  <2> HIDE DEF E
  <2>1. ASSUME NEW i \in D
        PROVE  T[i] = Of(T)[i]
    <3>1. CASE i = 0
      BY <1>2, <3>1
    <3>2. CASE i # 0
      <4>1. T[i - 1] = P(i - 1) /\ T[i] = P(i)
        BY <1>4, <3>2
      <4> HIDE DEF P, T
      <4>2. QED
        BY <1>3, <3>2, <4>1
    <3>3. QED
      BY <3>1, <3>2
  <2>2. QED
    BY <2>1
<1>6. Walks(a) = CHOOSE W : W = Of(W)
  BY DEF Walks, Edge, EdgeIn
<1> DEFINE V == Walks(a)
<1>7. V = Of(V)
  <2>1. \E W : W = Of(W)
    BY <1>5
  <2> HIDE DEF Of
  <2>2. QED
    BY <1>6, <2>1
<1> DEFINE Q == {i \in D : V[i] = P(i)}
<1>8. 0 \in Q
  <2>1. 0 \in D
    BY <1>1
  <2>2. Of(V)[0] = {a}
    BY <2>1
  <2> HIDE DEF Of, V, P
  <2>3. V[0] = {a}
    BY <1>7, <2>2
  <2>4. QED
    BY <1>2, <2>1, <2>3
<1>9. ASSUME NEW i \in 1 .. MaxWalk, i - 1 \in Q
      PROVE  i \in Q
  <2>1. i \in D /\ i # 0
    BY <1>1
  <2>2. Of(V)[i] = {b \in Node : \E c \in V[i - 1] : E(c, b)}
    BY <2>1
  <2>3. V[i - 1] = P(i - 1)
    BY <1>9
  <2> HIDE DEF Of, V, P, E
  <2>4. V[i] = {b \in Node : \E c \in P(i - 1) : E(c, b)}
    BY <1>7, <2>2, <2>3
  <2>5. QED
    BY <1>3, <2>1, <2>4
<1>10. \A i \in 0 .. MaxWalk : i \in Q
  <2> HIDE DEF Q
  <2>1. QED
    BY <1>1, <1>8, <1>9, UpTo
<1>11. QED
  BY <1>10

\* No cycle is reached through this child.
Cleared(n) == Followed(n) => Acyclic(children, renamed, n)

\* The children a frame met before are cleared; of a frame that called another,
\* the last of them is the node of the call.
FramesInv ==
  /\ \A k \in 1 .. Depth : \A j \in 1 .. stack[k].met :
       (k = Depth \/ j < stack[k].met) => Cleared(children[stack[k].node][j])
  /\ \A k \in 1 .. Depth - 1 :
       /\ stack[k].met >= 1
       /\ children[stack[k].node][stack[k].met] = stack[k + 1].node

\* So is a node whose search ended.
RootsInv ==
  /\ roots \subseteq Node /\ todo \subseteq roots
  /\ stack # <<>> => stack[1].node \in Searched
  /\ \A root \in Searched :
       Acyclic(children, renamed, root) \/ (stack # <<>> /\ stack[1].node = root)
  /\ result = "none" => stack = <<>>

\* A color is the length of a walk from the root of the search, as is the depth
\* of a frame.
ColorsInv ==
  stack # <<>> =>
    /\ \A n \in DOMAIN color : Path(children, renamed, stack[1].node, n, color[n] - 1)
    /\ \A k \in 1 .. Depth : Path(children, renamed, stack[1].node, stack[k].node, k - 1)

CheckedInv == WalkInv /\ FramesInv /\ RootsInv /\ ColorsInv

(* A search begins with nothing met.                                         *)
LEMMA BeginChecked ==
  ASSUME CheckedInv, NEW root \in Node, Begin(root)
  PROVE  FramesInv' /\ RootsInv' /\ ColorsInv'
<1>1. /\ stack' = <<Frame(root)>> /\ color' = FreshColor(root) /\ root \in todo
      /\ todo' = todo \ {root} /\ UNCHANGED <<children, renamed, roots, result>>
      /\ stack = <<>> /\ result = "searching"
  BY DEF Begin
<1>2. Depth' = 1 /\ stack'[1].node = root /\ stack'[1].met = 0 /\ stack' # <<>>
  BY <1>1 DEF Depth, Frame
<1>3. FramesInv'
  BY <1>2 DEF FramesInv
<1>4. RootsInv'
  BY <1>1, <1>2 DEF CheckedInv, RootsInv, Searched
<1>5. ColorsInv'
  <2>1. Path(children, renamed, root, root, 0)
    BY PathOfNone
  <2>2. DOMAIN color' = {root} /\ color'[root] - 1 = 0 /\ 1 - 1 = 0 /\ 1 .. 1 = {1}
    BY <1>1 DEF FreshColor
  <2>3. QED
    BY <1>1, <1>2, <2>1, <2>2 DEF ColorsInv
<1>6. QED
  BY <1>3, <1>4, <1>5

(* The next child is at the end of an edge, if it is followed, and of a walk  *)
(* from the root.                                                            *)
LEMMA NextReached ==
  ASSUME CheckedInv, stack # <<>>, MoreChildren, Followed(NextChild)
  PROVE  /\ stack[1].node \in Node
         /\ Path(children, renamed, stack[1].node, NextChild, Depth)
<1>1. /\ Depth \in Nat /\ Depth >= 1 /\ NextChild \in Node /\ Top.node \in Node
      /\ EdgeIn(children, renamed, Top.node, NextChild)
  BY NextShape DEF EdgeIn, Followed, NextChild, CheckedInv
<1>2. Path(children, renamed, stack[1].node, Top.node, Depth - 1)
  BY <1>1 DEF CheckedInv, ColorsInv, Top
<1>3. stack[1].node \in Node
  BY <1>1, StackShape DEF CheckedInv
<1>4. Depth - 1 \in Nat /\ (Depth - 1) + 1 = Depth
  BY <1>1
<1>5. Path(children, renamed, stack[1].node, NextChild, (Depth - 1) + 1)
  BY <1>1, <1>2, <1>3, <1>4, PathThenEdge
<1>6. QED
  BY <1>3, <1>4, <1>5

(* The roots, and the colors, whatever is met, if the stack keeps its first  *)
(* frame.                                                                    *)
LEMMA SameRoot ==
  ASSUME CheckedInv, stack # <<>>, stack' # <<>>, stack'[1].node = stack[1].node,
         UNCHANGED <<children, renamed, roots, todo>>, result' # "none"
  PROVE  RootsInv'
BY DEF CheckedInv, RootsInv, Searched

(* A child the context does not know is cleared.                             *)
LEMMA SkipChecked ==
  ASSUME CheckedInv, stack # <<>>, MoreChildren, ~ Followed(NextChild),
         stack' = Counted, UNCHANGED <<children, renamed, roots, todo, color, result>>,
         result = "searching"
  PROVE  FramesInv' /\ RootsInv' /\ ColorsInv'
<1>1. WalkInv /\ Depth \in Nat /\ Depth >= 1
  BY NextShape DEF CheckedInv
<1>2. /\ Depth' = Depth /\ stack' # <<>>
      /\ \A k \in 1 .. Depth :
           /\ stack'[k].node = stack[k].node
           /\ stack'[k].met = IF k = Depth THEN stack[k].met + 1 ELSE stack[k].met
  BY <1>1, CountedShape DEF Depth
<1>3. \A k \in 1 .. Depth : stack[k].met \in Nat
  BY <1>1, StackShape
<1>4. FramesInv'
  <2>1. ASSUME NEW k \in 1 .. Depth, NEW j \in 1 .. stack'[k].met,
               k = Depth \/ j < stack'[k].met
        PROVE  Cleared(children[stack[k].node][j])
    <3>1. CASE k = Depth /\ j = stack[k].met + 1
      BY <3>1 DEF Cleared, NextChild, Top
    <3>2. CASE ~ (k = Depth /\ j = stack[k].met + 1)
      <4>1. j \in 1 .. stack[k].met /\ (k = Depth \/ j < stack[k].met)
        BY <1>2, <1>3, <2>1, <3>2
      <4>2. QED
        BY <4>1 DEF CheckedInv, FramesInv
    <3>3. QED
      BY <3>1, <3>2
  <2>2. ASSUME NEW k \in 1 .. Depth - 1
        PROVE  /\ stack'[k].met >= 1
               /\ children[stack'[k].node][stack'[k].met] = stack'[k + 1].node
    <3>1. k \in 1 .. Depth /\ k + 1 \in 1 .. Depth /\ k # Depth
      BY <1>1
    <3>2. stack'[k].met = stack[k].met /\ stack'[k + 1].node = stack[k + 1].node
      BY <1>2, <3>1
    <3>3. QED
      BY <1>2, <3>1, <3>2 DEF CheckedInv, FramesInv
  <2>3. \A n : Cleared(n)' <=> Cleared(n)
    BY DEF Cleared, Followed
  <2>4. QED
    BY <1>2, <2>1, <2>2, <2>3 DEF FramesInv
<1>5. stack'[1].node = stack[1].node /\ 1 \in 1 .. Depth
  BY <1>1, <1>2
<1>6. RootsInv'
  BY <1>2, <1>5, SameRoot
<1>7. ColorsInv'
  BY <1>2, <1>5 DEF CheckedInv, ColorsInv
<1>8. QED
  BY <1>4, <1>6, <1>7

\* A child that is followed is not cleared yet, but it is the one the frame
\* called; its color is the length of the walk through the frames.
LEMMA PushChecked ==
  ASSUME CheckedInv, stack # <<>>, MoreChildren, Followed(NextChild),
         color' = [n \in DOMAIN color \union {NextChild} |->
                     IF n = NextChild THEN Depth + 1 ELSE color[n]],
         stack' = Append(Counted, Frame(NextChild)),
         UNCHANGED <<children, renamed, roots, todo, result>>,
         result = "searching"
  PROVE  FramesInv' /\ RootsInv' /\ ColorsInv'
<1> DEFINE x == NextChild
           S == [node : Node, met : Nat]
           d == Depth
<1>1. WalkInv /\ d \in Nat /\ d >= 1 /\ x \in Node
  BY NextShape DEF CheckedInv
<1>2. Frame(x) \in S /\ Frame(x).node = x /\ Frame(x).met = 0
  BY <1>1 DEF Frame
<1>3. Counted \in Seq(S) /\ Len(Counted) = d
  BY <1>1, CountedShape
<1> HIDE DEF S
<1>4. /\ Len(stack') = d + 1 /\ stack'[d + 1] = Frame(x)
      /\ \A k \in 1 .. d : stack'[k] = Counted[k]
  BY <1>1, <1>2, <1>3
<1>5. /\ Depth' = d + 1 /\ stack' # <<>>
      /\ stack'[d + 1].node = x /\ stack'[d + 1].met = 0
      /\ \A k \in 1 .. d :
           /\ stack'[k].node = stack[k].node
           /\ stack'[k].met = IF k = d THEN stack[k].met + 1 ELSE stack[k].met
  BY <1>1, <1>2, <1>4, CountedShape DEF Depth
<1>6. \A k \in 1 .. d : stack[k].met \in Nat
  BY <1>1, StackShape
<1>7. stack'[1].node = stack[1].node
  BY <1>1, <1>5
<1> HIDE DEF x, d
<1>8. FramesInv'
  <2>1. ASSUME NEW k \in 1 .. d + 1, NEW j \in 1 .. stack'[k].met,
               k = d + 1 \/ j < stack'[k].met
        PROVE  Cleared(children[stack'[k].node][j])
    <3>1. k # d + 1
      <4>1. stack'[d + 1].met = 0 /\ 1 .. 0 = {}
        BY <1>5
      <4>2. QED
        BY <4>1, <2>1
    <3>2. k \in 1 .. d
      BY <1>1, <3>1
    <3>3. j \in 1 .. stack[k].met /\ (k = d \/ j < stack[k].met)
      <4>1. /\ stack[k].met \in Nat /\ j < stack'[k].met
            /\ stack'[k].met = IF k = d THEN stack[k].met + 1 ELSE stack[k].met
        BY <1>5, <1>6, <2>1, <3>1, <3>2
      <4>2. QED
        BY <4>1
    <3>4. Cleared(children[stack[k].node][j])
      BY <3>2, <3>3 DEF CheckedInv, FramesInv, d
    <3>5. QED
      BY <1>5, <3>2, <3>4
  <2>2. ASSUME NEW k \in 1 .. (d + 1) - 1
        PROVE  /\ stack'[k].met >= 1
               /\ children[stack'[k].node][stack'[k].met] = stack'[k + 1].node
    <3>1. k \in 1 .. d
      BY <1>1
    <3>2. CASE k = d
      <4>1. /\ stack'[k].met = stack[k].met + 1 /\ stack'[k].node = stack[k].node
            /\ stack'[k + 1].node = x
        BY <1>5, <3>1, <3>2
      <4>2. children[stack[k].node][stack[k].met + 1] = x
        BY <3>2 DEF NextChild, Top, x, d
      <4>3. QED
        BY <1>6, <3>1, <4>1, <4>2
    <3>3. CASE k # d
      <4>1. k + 1 \in 1 .. d /\ k \in 1 .. d - 1
        BY <1>1, <3>1, <3>3
      <4>2. /\ stack'[k].met = stack[k].met /\ stack'[k].node = stack[k].node
            /\ stack'[k + 1].node = stack[k + 1].node
        BY <1>5, <3>1, <3>3, <4>1
      <4>3. QED
        BY <4>1, <4>2 DEF CheckedInv, FramesInv, d
    <3>4. QED
      BY <3>2, <3>3
  <2>3. \A n : Cleared(n)' <=> Cleared(n)
    BY DEF Cleared, Followed
  <2>4. QED
    BY <1>5, <2>1, <2>2, <2>3 DEF FramesInv
<1>9. RootsInv'
  BY <1>5, <1>7, SameRoot
<1>10. ColorsInv'
  <2>1. Path(children, renamed, stack[1].node, x, d) /\ (d + 1) - 1 = d
    BY <1>1, NextReached DEF x, d
  <2>2. ASSUME NEW n \in DOMAIN color'
        PROVE  Path(children, renamed, stack[1].node, n, color'[n] - 1)
    <3>1. CASE n = x
      <4>1. color'[n] = d + 1
        BY <3>1 DEF x, d
      <4>2. QED
        BY <2>1, <3>1, <4>1
    <3>2. CASE n # x
      <4>1. n \in DOMAIN color /\ color'[n] = color[n]
        BY <2>2, <3>2 DEF x
      <4>2. QED
        BY <4>1 DEF CheckedInv, ColorsInv
    <3>3. QED
      BY <3>1, <3>2
  <2>3. ASSUME NEW k \in 1 .. d + 1
        PROVE  Path(children, renamed, stack[1].node, stack'[k].node, k - 1)
    <3>1. CASE k = d + 1
      BY <1>5, <2>1, <3>1
    <3>2. CASE k # d + 1
      <4>1. k \in 1 .. d
        BY <1>1, <3>2
      <4>2. Path(children, renamed, stack[1].node, stack[k].node, k - 1)
        BY <4>1 DEF CheckedInv, ColorsInv, d
      <4>3. QED
        BY <1>5, <4>1, <4>2
    <3>3. QED
      BY <3>1, <3>2
  <2>4. QED
    BY <1>5, <1>7, <2>2, <2>3 DEF ColorsInv
<1>11. QED
  BY <1>8, <1>9, <1>10

\* The node of a call that returns false is cleared, as are all its children.
LEMMA ReturnChecked ==
  ASSUME CheckedInv, Return
  PROVE  FramesInv' /\ RootsInv' /\ ColorsInv'
<1> DEFINE S == [node : Node, met : Nat]
           d == Depth
           n == stack[d].node
<1>1. /\ stack # <<>> /\ stack' = SubSeq(stack, 1, d - 1) /\ ~ MoreChildren
      /\ UNCHANGED <<children, renamed, roots, todo, color, result>>
      /\ result = "searching"
  BY DEF Return
<1>2. /\ WalkInv /\ stack \in Seq(S) /\ d \in Nat /\ d >= 1 /\ d = Len(stack)
      /\ n \in Node /\ stack[d].met \in Nat
      /\ \A k \in 1 .. d : stack[k].met \in Nat
  BY <1>1, StackShape DEF Depth, CheckedInv
<1> HIDE DEF S
<1>3. /\ Len(stack') = d - 1 /\ Depth' = d - 1
      /\ \A k \in 1 .. d - 1 : stack'[k] = stack[k]
  <2>1. stack' = SubSeq(stack, 1, d - 1) /\ stack \in Seq(S) /\ d = Len(stack)
    BY <1>1, <1>2
  <2>2. d \in Nat /\ d >= 1
    BY <1>2
  <2> HIDE DEF d
  <2>3. Len(stack') = d - 1 /\ \A k \in 1 .. d - 1 : stack'[k] = stack[k]
    BY <2>1, <2>2
  <2>4. QED
    BY <2>3 DEF Depth
<1>4. Acyclic(children, renamed, n)
  <2>1. /\ Len(children[n]) \in Nat /\ ~ stack[d].met < Len(children[n])
        /\ DOMAIN children[n] = 1 .. Len(children[n])
    BY <1>1, <1>2, ChildrenShape DEF MoreChildren, Top
  <2>2. ASSUME NEW b \in Node, EdgeIn(children, renamed, n, b)
        PROVE  Acyclic(children, renamed, b)
    <3>1. PICK j \in 1 .. Len(children[n]) : children[n][j] = b
      BY <2>1, <2>2 DEF EdgeIn
    <3>2. j \in 1 .. stack[d].met /\ d \in 1 .. d
      BY <1>2, <2>1
    <3>3. Cleared(children[n][j])
      BY <3>2 DEF CheckedInv, FramesInv
    <3>4. QED
      BY <2>2, <3>1, <3>3 DEF Cleared, Followed, EdgeIn
  <2> HIDE DEF n
  <2>3. QED
    BY <1>2, <2>2, AcyclicOfChildren
<1> HIDE DEF d
<1>5. FramesInv'
  <2>1. ASSUME NEW k \in 1 .. d - 1, NEW j \in 1 .. stack[k].met,
               k = d - 1 \/ j < stack[k].met
        PROVE  Cleared(children[stack[k].node][j])
    <3>1. k \in 1 .. Depth /\ k \in 1 .. Depth - 1
      BY <1>2 DEF d
    <3>2. CASE j < stack[k].met
      BY <3>1, <3>2 DEF CheckedInv, FramesInv
    <3>3. CASE j = stack[k].met
      <4>1. k = d - 1 /\ k + 1 = d
        BY <1>2, <2>1, <3>3
      <4>2. children[stack[k].node][j] = stack[k + 1].node
        BY <3>1, <3>3 DEF CheckedInv, FramesInv
      <4>3. QED
        BY <1>4, <4>1, <4>2 DEF Cleared
    <3>4. QED
      <4>1. stack[k].met \in Nat
        BY <1>2, <3>1 DEF d
      <4>2. QED
        BY <3>2, <3>3, <4>1
  <2>2. ASSUME NEW k \in 1 .. (d - 1) - 1
        PROVE  /\ stack[k].met >= 1
               /\ children[stack[k].node][stack[k].met] = stack[k + 1].node
               /\ stack'[k] = stack[k] /\ stack'[k + 1] = stack[k + 1]
    <3>1. k \in 1 .. Depth - 1 /\ k \in 1 .. d - 1 /\ k + 1 \in 1 .. d - 1
      BY <1>2 DEF d
    <3>2. QED
      BY <1>3, <3>1 DEF CheckedInv, FramesInv
  <2>3. \A m : Cleared(m)' <=> Cleared(m)
    BY <1>1 DEF Cleared, Followed
  <2>4. QED
    BY <1>1, <1>3, <2>1, <2>2, <2>3 DEF FramesInv
<1>6. stack' # <<>> => d > 1 /\ stack'[1] = stack[1]
  <2>1. CASE d = 1
    BY <1>3, <2>1
  <2>2. CASE d > 1
    BY <1>2, <1>3, <2>2
  <2>3. QED
    BY <1>2, <2>1, <2>2
<1>7. RootsInv'
  <2>1. CASE stack' # <<>>
    <3>1. stack'[1].node = stack[1].node
      BY <1>6, <2>1
    <3>2. QED
      BY <1>1, <2>1, <3>1, SameRoot
  <2>2. CASE stack' = <<>>
    <3>1. Len(stack') = 0
      BY <2>2
    <3>2. d = 1
      <4>1. d \in Nat /\ d - 1 = 0
        BY <1>2, <1>3, <3>1
      <4>2. QED
        BY <4>1
    <3>3. Acyclic(children, renamed, stack[1].node)
      BY <1>4, <3>2
    <3>4. QED
      BY <1>1, <2>2, <3>3 DEF CheckedInv, RootsInv, Searched
  <2>3. QED
    BY <2>1, <2>2
<1>8. ColorsInv'
  <2>1. SUFFICES ASSUME stack' # <<>>
                 PROVE  ColorsInv'
    BY DEF ColorsInv
  <2>2. stack'[1].node = stack[1].node
    BY <1>6, <2>1
  <2>3. ASSUME NEW k \in 1 .. d - 1
        PROVE  /\ stack'[k].node = stack[k].node
               /\ Path(children, renamed, stack[1].node, stack[k].node, k - 1)
    <3>1. k \in 1 .. Depth
      BY <1>2 DEF d
    <3>2. QED
      BY <1>1, <1>3, <3>1 DEF CheckedInv, ColorsInv
  <2>4. QED
    BY <1>1, <1>3, <2>2, <2>3 DEF CheckedInv, ColorsInv
<1>9. QED
  BY <1>5, <1>7, <1>8

(* Every step keeps what was checked.                                        *)
LEMMA CheckedStep ==
  ASSUME CheckedInv, [CyclesNext]_cyclesVars
  PROVE  CheckedInv'
<1>1. WalkInv'
  BY CyclesStepInv DEF CheckedInv
<1>2. ASSUME NEW root \in Node, Begin(root)
      PROVE  CheckedInv'
  BY <1>1, <1>2, BeginChecked DEF CheckedInv
<1>3. CASE Visit
  <2>1. /\ stack # <<>> /\ MoreChildren /\ result = "searching"
        /\ UNCHANGED <<children, renamed, roots, todo>>
    BY <1>3 DEF Visit
  <2>2. CASE ~ Followed(NextChild)
    BY <1>1, <1>3, <2>1, <2>2, SkipChecked DEF Visit, CheckedInv
  <2>3. CASE Followed(NextChild) /\ (MetBefore(NextChild) \/ Depth = MaxDepth)
    <3>1. UNCHANGED <<color, stack>> /\ result' \in {"cycle", "overflow"}
      BY <1>3, <2>3 DEF Visit
    <3>2. QED
      BY <1>1, <2>1, <3>1 DEF CheckedInv, FramesInv, RootsInv, ColorsInv, Cleared,
                              Followed, Searched, Depth
  <2>4. CASE Followed(NextChild) /\ ~ MetBefore(NextChild) /\ Depth # MaxDepth
    BY <1>1, <1>3, <2>1, <2>4, PushChecked DEF Visit, CheckedInv
  <2>5. QED
    BY <2>2, <2>3, <2>4
<1>4. CASE Return
  BY <1>1, <1>4, ReturnChecked DEF CheckedInv
<1>5. CASE Answer
  BY <1>1, <1>5 DEF Answer, CheckedInv, FramesInv, RootsInv, ColorsInv, Cleared,
                    Followed, Searched, Depth
<1>6. CASE UNCHANGED cyclesVars
  BY <1>1, <1>6 DEF cyclesVars, CheckedInv, FramesInv, RootsInv, ColorsInv, Cleared,
                    Followed, Searched, Depth
<1>7. QED
  BY <1>2, <1>3, <1>4, <1>5, <1>6 DEF CyclesNext

(* At the start nothing was searched.                                        *)
LEMMA CheckedInit ==
  ASSUME CyclesInit
  PROVE  CheckedInv
<1>1. stack = <<>> /\ Depth = 0 /\ Searched = {} /\ result # "none"
  BY DEF CyclesInit, Depth, Searched
<1>2. roots \subseteq Node /\ todo \subseteq roots
  BY DEF CyclesInit
<1>3. QED
  BY <1>1, <1>2, CyclesInitInv DEF CheckedInv, FramesInv, RootsInv, ColorsInv

(* So it always holds.                                                       *)
LEMMA CheckedInvariant == CyclesSpec => []CheckedInv
<1>1. CyclesInit => CheckedInv
  BY CheckedInit
<1>2. CheckedInv /\ [CyclesNext]_cyclesVars => CheckedInv'
  BY CheckedStep
<1>3. QED
  BY <1>1, <1>2, PTL DEF CyclesSpec

\* When the search answers that there is no cycle, no closed walk can be reached
\* from a node that was searched: a call that returned false has cleared its
\* node, in whatever order the links were met and although a node is searched
\* again each time it is reached.
THEOREM NoCycleMissedCorrect == CyclesSpec => []NoCycleMissed
<1> DEFINE N == Cardinality(Node)
<1>1. ASSUME CheckedInv
      PROVE  NoCycleMissed
  <2>1. SUFFICES ASSUME result = "none", NEW root \in Searched, NEW n \in OnCycle,
                        Reaches(root, n)
                 PROVE  FALSE
    BY DEF NoCycleMissed
  <2>2. root \in Node /\ n \in Node /\ Acyclic(children, renamed, root)
    BY <1>1, <2>1 DEF CheckedInv, RootsInv, Searched, OnCycle
  <2>3. N \in Nat /\ \A k \in 0 .. N : k \in 0 .. MaxWalk
    BY CyclesAssumption, FS_CardinalityType DEF MaxWalk
  <2>4. PICK k \in 0 .. N : n \in Walks(root)[k]
    BY <2>1 DEF Reaches
  <2>5. PICK l \in 1 .. N : n \in Walks(n)[l]
    BY <2>1 DEF OnCycle
  <2>6. l \in 0 .. N
    BY <2>3
  <2>7. Path(children, renamed, root, n, k)
    BY <2>2, <2>3, <2>4, WalksArePaths
  <2>8. Path(children, renamed, n, n, l)
    BY <2>2, <2>3, <2>5, <2>6, WalksArePaths
  <2>9. QED
    BY <2>2, <2>7, <2>8 DEF Acyclic
<1>2. QED
  BY <1>1, CheckedInvariant, PTL

(* An alarm is raised at a node that was met at another depth.               *)
LEMMA AlarmStep ==
  ASSUME CheckedInv, AlarmsExplained, [CyclesNext]_cyclesVars
  PROVE  AlarmsExplained'
<1>1. CASE result' # "cycle"
  BY <1>1 DEF AlarmsExplained
<1>2. CASE result' = "cycle" /\ result = "cycle"
  <2>1. UNCHANGED cyclesVars
    BY <1>2 DEF CyclesNext, Begin, Visit, Return, Answer
  <2>2. QED
    <3>1. /\ result' = result /\ Searched' = Searched
          /\ \A root : Walks(root)' = Walks(root)
      BY <2>1 DEF cyclesVars, Searched, Walks, Edge
    <3>2. QED
      BY <3>1 DEF AlarmsExplained
<1>3. CASE result' = "cycle" /\ result # "cycle"
  <2> DEFINE x == NextChild
             r == stack[1].node
  <2>1. /\ stack # <<>> /\ MoreChildren /\ Followed(x) /\ MetBefore(x)
        /\ UNCHANGED <<children, renamed, roots, todo>>
    BY <1>3 DEF CyclesNext, Begin, Visit, Return, Answer, cyclesVars
  <2>2. WalkInv /\ Depth \in Nat /\ Depth >= 1 /\ x \in Node
    BY <2>1, NextShape DEF CheckedInv
  <2>3. /\ x \in DOMAIN color /\ color[x] \in 1 .. MaxDepth /\ color[x] < Depth
        /\ Path(children, renamed, r, x, color[x] - 1)
    BY <2>1, <2>2 DEF CheckedInv, ColorsInv, MetBefore, WalkInv, StackIsWalk, CyclesTypeOK
  <2>4. r \in Node /\ Path(children, renamed, r, x, Depth) /\ r \in Searched
    BY <2>1, NextReached DEF CheckedInv, RootsInv
  <2>5. Depth <= MaxDepth
    <3>1. Depth \in 1 .. Depth
      BY <2>2
    <3>2. /\ color[stack[Depth].node] \in 1 .. MaxDepth
          /\ color[stack[Depth].node] >= Depth
      BY <2>2, <3>1 DEF WalkInv, StackIsWalk, CyclesTypeOK
    <3>3. QED
      BY <2>2, <3>2, CyclesAssumption
  <2> HIDE DEF x, r
  <2>6. /\ MaxDepth \in Nat /\ Depth \in 0 .. MaxDepth /\ color[x] - 1 \in 0 .. Depth
        /\ (color[x] - 1) + 2 <= Depth
    BY <2>2, <2>3, <2>5, CyclesAssumption
  <2>7. \A k \in 0 .. MaxDepth : k \in 0 .. MaxWalk
    BY CyclesAssumption, FS_CardinalityType DEF MaxWalk
  <2>8. Depth \in 0 .. MaxWalk /\ color[x] - 1 \in 0 .. MaxWalk
    BY <2>6, <2>7
  <2>9. x \in Walks(r)[color[x] - 1] /\ x \in Walks(r)[Depth]
    BY <2>2, <2>3, <2>4, <2>8, WalksArePaths
  <2>10. \E root \in Searched, n \in Node, k \in 0 .. MaxDepth :
           \E j \in 0 .. k :
             j + 2 <= k /\ n \in Walks(root)[j] /\ n \in Walks(root)[k]
    BY <2>2, <2>4, <2>6, <2>9
  <2>11. Searched' = Searched /\ \A root : Walks(root)' = Walks(root)
    BY <2>1 DEF Searched, Walks, Edge
  <2>12. QED
    BY <2>10, <2>11 DEF AlarmsExplained
<1>4. QED
  BY <1>1, <1>2, <1>3

\* A cycle is reported only where two walks from the node the search began with
\* lead to the same node and differ by two edges or more in their lengths: so a
\* graph in layers is never refused, whatever the order of its links.
THEOREM AlarmsExplainedCorrect == CyclesSpec => []AlarmsExplained
<1>1. CyclesInit => AlarmsExplained
  BY DEF CyclesInit, AlarmsExplained
<1>2. CheckedInv /\ AlarmsExplained /\ [CyclesNext]_cyclesVars => AlarmsExplained'
  BY AlarmStep
<1>3. QED
  BY <1>1, <1>2, CheckedInvariant, PTL DEF CyclesSpec
=============================================================================
