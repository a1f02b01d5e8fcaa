------------------------------ MODULE NodeGraph ------------------------------
(***************************************************************************)
(* NodeSystem: the nodes of one ContextDescriptor, their pins and the      *)
(* links between pins (PinDescriptor.cpp, NodeDescriptor.cpp,              *)
(* ContextDescriptor.cpp).  A link is kept at both of its ends, in a       *)
(* vector of raw pointers, so a pin that is destroyed must be forgotten by *)
(* every pin it was linked to.                                             *)
(*                                                                         *)
(* A pin is <<node, side, name>>: names are unique on a side of a node.    *)
(* A node is where it lives in memory, and an address is used again after  *)
(* the node is destroyed.  Renaming a node is left to NodeCycles, renaming *)
(* a pin, descriptions and nested contexts are left out.                   *)
(***************************************************************************)
EXTENDS Naturals, SequencesExt

CONSTANTS
  Node,     \* addresses of nodes
  Name,     \* names of nodes
  PinName   \* names of pins

VARIABLES
  place,      \* "dead", "own" (of the program) or "context" (in _node_map)
  name_of,    \* the name of a node; the key of _node_map for one in it
  pins,       \* the pins that exist
  single,     \* those of PinType::Single; Thin and Width behave alike
  connected   \* _connected of every pin

nodeVars == <<place, name_of, pins, single, connected>>

Pin == Node \X {"out", "in"} \X PinName
ParentOf(p) == p[1]
SideOf(p) == p[2]

InContext == {n \in Node : place[n] = "context"}
PinsOf(n) == {p \in pins : ParentOf(p) = n}
\* _node_map.contains
Taken(name) == \E n \in InContext : name_of[n] = name

-----------------------------------------------------------------------------
(* Links, as operators on a value L of connected, so that one call can make *)
(* and break several.                                                       *)

\* is_contains_pin
Linked(L, p, q) == \E k \in DOMAIN L[p] : L[p][k] = q

\* Mutant: a pin that goes away is kept by the other end.
BeDisconnectedKept(L, p, q) == L
\* be_disconnected: p forgets q, the first time it is found.
BeDisconnected(L, p, q) ==
  IF Linked(L, p, q)
  THEN LET at == CHOOSE k \in DOMAIN L[p] :
                   L[p][k] = q /\ \A j \in 1 .. k - 1 : L[p][j] # q
       IN  [L EXCEPT ![p] = RemoveAt(@, at)]
  ELSE L

\* disconnect(const PinDescriptor* )
Disconnected(L, p, q) ==
  IF Linked(L, p, q)
  THEN BeDisconnected(BeDisconnected(L, q, p), p, q)
  ELSE L

\* The link of a single pin makes room for another.
Vacated(L, p) ==
  IF p \in single /\ L[p] # <<>> THEN Disconnected(L, p, L[p][1]) ELSE L

\* Mutant: the end that is connected to takes any number of links.
BeConnectedAlways(L, p, q) == [L EXCEPT ![p] = Append(@, q)]
\* be_connected
BeConnected(L, p, q) == [Vacated(L, p) EXCEPT ![p] = Append(@, q)]

\* The calls of connect that fail.
Refused(L, p, q, allow_replace) ==
  \/ q = p
  \/ Linked(L, p, q)
  \/ p \in single /\ L[p] # <<>> /\ ~ allow_replace

\* Mutant: a multiple pin is emptied like a single one.
ConnectedAlone(L, p, q, allow_replace) ==
  IF Refused(L, p, q, allow_replace) THEN L
  ELSE LET room == IF L[p] # <<>> THEN Disconnected(L, p, L[p][1]) ELSE L
       IN  BeConnected([room EXCEPT ![p] = Append(@, q)], q, p)
\* connect
Connected(L, p, q, allow_replace) ==
  IF Refused(L, p, q, allow_replace) THEN L
  ELSE BeConnected([Vacated(L, p) EXCEPT ![p] = Append(@, q)], q, p)

\* disconnect_all, which is all a pin's destructor does.
Cut(L, p) ==
  [FoldLeft(LAMBDA M, q : BeDisconnected(M, q, p), L, L[p]) EXCEPT ![p] = <<>>]

\* The destructors of a set of pins, one after the other.
CutAll(L, P) == FoldLeft(Cut, L, SetToSeq(P))

-----------------------------------------------------------------------------
NodeInit ==
  /\ place = [n \in Node |-> "dead"]
  /\ name_of \in [Node -> Name]
  /\ pins = {}
  /\ single = {}
  /\ connected = [p \in Pin |-> <<>>]

\* Pins P cease to exist.
Drop(P) ==
  /\ pins' = pins \ P
  /\ single' = single \ P
  /\ connected' = CutAll(connected, P)

Live(n) == place[n] # "dead"

\* A node made by the program itself, to be moved into the context later.
MakeNode(n, name) ==
  /\ ~ Live(n)
  /\ place' = [place EXCEPT ![n] = "own"]
  /\ name_of' = [name_of EXCEPT ![n] = name]
  /\ UNCHANGED <<pins, single, connected>>

\* add_node
AddNode(n, name) ==
  /\ ~ Live(n)
  /\ ~ Taken(name)
  /\ place' = [place EXCEPT ![n] = "context"]
  /\ name_of' = [name_of EXCEPT ![n] = name]
  /\ UNCHANGED <<pins, single, connected>>

\* add_node_with_clone: the pins of m without their links, as node n.
AddNodeWithClone(m, n, name) ==
  LET copyOf(P) == {<<n, SideOf(p), p[3]>> : p \in P}
  IN  /\ Live(m)
      /\ ~ Live(n)
      /\ ~ Taken(name)
      /\ place' = [place EXCEPT ![n] = "context"]
      /\ name_of' = [name_of EXCEPT ![n] = name]
      /\ pins' = pins \union copyOf(PinsOf(m))
      /\ single' = single \union copyOf(PinsOf(m) \intersect single)
      /\ UNCHANGED connected

\* add_node_with_move: the node keeps its links, or dies when the name is
\* taken, for it was passed by value.
AddNodeWithMove(n, name) ==
  /\ place[n] = "own"
  /\ IF Taken(name)
     THEN /\ place' = [place EXCEPT ![n] = "dead"]
          /\ Drop(PinsOf(n))
          /\ UNCHANGED name_of
     ELSE /\ place' = [place EXCEPT ![n] = "context"]
          /\ name_of' = [name_of EXCEPT ![n] = name]
          /\ UNCHANGED <<pins, single, connected>>

\* remove_node, or the program's own node going out of scope.
RemoveNode(n) ==
  /\ Live(n)
  /\ place' = [place EXCEPT ![n] = "dead"]
  /\ Drop(PinsOf(n))
  /\ UNCHANGED name_of

\* add_output_pin and add_input_pin
AddPin(p, isSingle) ==
  /\ Live(ParentOf(p))
  /\ p \notin pins
  /\ pins' = pins \union {p}
  /\ single' = IF isSingle THEN single \union {p} ELSE single
  /\ UNCHANGED <<place, name_of, connected>>

\* remove_output_pin and remove_input_pin
RemovePin(p) ==
  /\ p \in pins
  /\ Drop({p})
  /\ UNCHANGED <<place, name_of>>

\* clear_node_output_pin and clear_node_input_pin: every pin of the side goes,
\* whatever pin is named in the call.
ClearPins(n, side) ==
  /\ Live(n)
  /\ Drop({p \in PinsOf(n) : SideOf(p) = side})
  /\ UNCHANGED <<place, name_of>>

\* PinDescriptor::connect, which any two pins can be passed to ...
Connect(p, q, allow_replace) ==
  /\ {p, q} \subseteq pins
  /\ connected' = Connected(connected, p, q, allow_replace)
  /\ UNCHANGED <<place, name_of, pins, single>>

\* ... and add_edge, from an output of the context to an input of it.
IsEdge(p, q) ==
  /\ SideOf(p) = "out" /\ SideOf(q) = "in"
  /\ {p, q} \subseteq pins
  /\ {ParentOf(p), ParentOf(q)} \subseteq InContext

AddEdge(p, q) == IsEdge(p, q) /\ Connect(p, q, FALSE)

\* remove_edge
RemoveEdge(p, q) ==
  /\ IsEdge(p, q)
  /\ connected' = Disconnected(connected, p, q)
  /\ UNCHANGED <<place, name_of, pins, single>>

\* disconnect(uint16_t)
DisconnectAt(p, k) ==
  /\ k \in DOMAIN connected[p]
  /\ connected' = [BeDisconnected(connected, connected[p][k], p)
                     EXCEPT ![p] = RemoveAt(@, k)]
  /\ UNCHANGED <<place, name_of, pins, single>>

\* PinDescriptor::disconnect_all
DisconnectAll(p) ==
  /\ p \in pins
  /\ connected' = Cut(connected, p)
  /\ UNCHANGED <<place, name_of, pins, single>>

NodeNext ==
  \/ \E n \in Node, name \in Name :
       MakeNode(n, name) \/ AddNode(n, name) \/ AddNodeWithMove(n, name)
  \/ \E m, n \in Node, name \in Name : AddNodeWithClone(m, n, name)
  \/ \E n \in Node : RemoveNode(n)
  \/ \E p \in Pin, isSingle \in BOOLEAN : AddPin(p, isSingle)
  \/ \E p \in Pin : RemovePin(p) \/ DisconnectAll(p)
  \/ \E n \in Node, side \in {"out", "in"} : ClearPins(n, side)
  \/ \E p, q \in Pin, allow_replace \in BOOLEAN : Connect(p, q, allow_replace)
  \/ \E p, q \in Pin : AddEdge(p, q) \/ RemoveEdge(p, q)
  \/ \E p \in Pin : \E k \in DOMAIN connected[p] : DisconnectAt(p, k)

NodeSpec == NodeInit /\ [][NodeNext]_nodeVars

-----------------------------------------------------------------------------
(* ContextDescriptor::clone: the nodes are cloned under their names, then   *)
(* for each node of the map, in its order, every link of every input pin is *)
(* added again by the names of its two ends.  The clone of node n is called *)
(* n here.                                                                  *)

\* Mutant: the links of a pin are walked backwards.
InputLinksBackwards(n) ==
  LET P == SetToSeq({p \in PinsOf(n) : SideOf(p) = "in"})
  IN  FoldLeft(LAMBDA s, p :
        s \o [k \in DOMAIN connected[p] |->
                <<connected[p][Len(connected[p]) + 1 - k], p>>], <<>>, P)
\* The links of the input pins of n, as <<other end, input pin>>.
InputLinks(n) ==
  LET P == SetToSeq({p \in PinsOf(n) : SideOf(p) = "in"})
  IN  FoldLeft(LAMBDA s, p :
        s \o [k \in DOMAIN connected[p] |-> <<connected[p][k], p>>], <<>>, P)

\* The output pin add_edge finds for the name of q's node and that of q.
FoundOutput(q) ==
  {r \in pins : /\ ParentOf(r) \in InContext
                /\ name_of[ParentOf(r)] = name_of[ParentOf(q)]
                /\ SideOf(r) = "out" /\ r[3] = q[3]}

\* The links of a clone, when the map is in the given order.
Cloned(order) ==
  LET links == FoldLeft(LAMBDA s, n : s \o InputLinks(n), <<>>, order)
  IN  FoldLeft(LAMBDA L, link :
                 IF FoundOutput(link[1]) = {} THEN L
                 ELSE LET r == CHOOSE r \in FoundOutput(link[1]) : TRUE
                      IN  Connected(L, r, link[2], FALSE),
               [p \in Pin |-> <<>>], links)

-----------------------------------------------------------------------------
\* Types.
NodeTypeOK ==
  /\ place \in [Node -> {"dead", "own", "context"}]
  /\ name_of \in [Node -> Name]
  /\ single \subseteq pins /\ pins \subseteq Pin
  /\ \A p \in Pin : connected[p] \in Seq(Pin)
  /\ \A m, n \in InContext : name_of[m] = name_of[n] => m = n

\* Both ends know of a link, and neither outlives the other: what a pin points
\* to is a pin that exists, of a node that exists, and points back.
LinksSymmetric ==
  /\ NodeTypeOK
  /\ \A p \in pins : Live(ParentOf(p))
  /\ \A p, q \in Pin :
       Linked(connected, p, q) => p \in pins /\ Linked(connected, q, p)

\* No two pins are linked twice and none to itself; were they, breaking the
\* link would leave one end behind.  And "one connect only": a single pin has
\* at most one link, whichever end a connection or a replacement came from.
LinkedOnce ==
  /\ \A p \in Pin : IsInjective(connected[p]) /\ ~ Linked(connected, p, p)
  /\ \A p \in single : Len(connected[p]) <= 1

\* The elements of t are in the order they have in s.
InOrderOf(s, t) ==
  \A j, k \in DOMAIN t : j < k =>
    \E i, l \in DOMAIN s : i < l /\ s[i] = t[j] /\ s[l] = t[k]

\* A connection disturbs nobody else: the links it breaks are those of the two
\* pins themselves, when they are single, and every other pin keeps the order
\* of its links.
ConnectIsLocal ==
  [][\A p, q \in pins, allow_replace \in BOOLEAN :
       Connect(p, q, allow_replace) =>
         \A r \in pins :
           IF r \in {p, q}
           THEN r \in single \/ IsPrefix(connected[r], connected'[r])
           ELSE /\ ToSet(connected'[r]) \in
                     {ToSet(connected[r]), ToSet(connected[r]) \ ({p, q} \intersect single)}
                /\ InOrderOf(connected[r], connected'[r])
    ]_nodeVars

\* A context whose links were all made by add_edge between its own nodes.
OnlyEdges ==
  \A p, q \in Pin : Linked(connected, p, q) => IsEdge(p, q) \/ IsEdge(q, p)

Orders == SetToSeqs(InContext)

\* A clone has the links of the original, and every input pin has them in the
\* same order, whatever order the map is walked in.
CloneExact ==
  OnlyEdges =>
    \A order \in Orders :
      LET C == Cloned(order)
      IN  \A p \in Pin :
            /\ ToSet(C[p]) = ToSet(connected[p])
            /\ SideOf(p) = "in" => C[p] = connected[p]
=============================================================================
