-------------------------- MODULE ComponentRegistry --------------------------
(***************************************************************************)
(* Managers/DensifySystemManager.hpp: the components all collections can   *)
(* use.  A component id is written <<high, low>> as in module Collection:  *)
(* <<0, k>> for a tag or data component, <<a, b>> for the pair of <<0, a>> *)
(* and <<0, b>>.  A data component keeps the address of its layout, of     *)
(* which the layout manager is the owner.  The name of a pair is formatted *)
(* of the names of its halves: nothing keeps a program from giving a tag   *)
(* that very name, nor two pairs of names with commas from having one.     *)
(***************************************************************************)
EXTENDS LayoutManager, Sequences

CONSTANTS
  ComponentName,  \* the names the program gives to tags and data components
  FirstId,        \* the first component id, 2^32 - 1 - WARP_MAX_COMPONENT
  MaxComponent,   \* WARP_MAX_COMPONENT
  NoAddress,      \* the layout of a tag
  PairName        \* "({},{})" of two names

ASSUME ComponentAssumption ==
  /\ FirstId \in Nat \ {0} /\ MaxComponent \in Nat
  /\ NoAddress \notin Address
  /\ DOMAIN PairName = ComponentName \X ComponentName

VARIABLES
  component,        \* _map_component_id_to_component_layout
  component_names,  \* _map_component_name_to_component_id
  id_count,         \* _id_count
  pair_A_to_B,      \* _map_pair_A_to_B
  pair_B_to_A       \* _map_pair_B_to_A

componentVars == <<component, component_names, id_count, pair_A_to_B, pair_B_to_A>>

PureId(k) == <<0, k>>
\* make_pair_component_id, of two pure components
MakePairId(a, b) == <<a[2], b[2]>>

IsPure(id) == component[id].type # "Pair"

ComponentInit ==
  /\ component = [id \in {} |-> NullLayout]
  /\ component_names = [name \in {} |-> PureId(0)]
  /\ id_count = FirstId
  /\ pair_A_to_B = [id \in {} |-> {}]
  /\ pair_B_to_A = [id \in {} |-> {}]

\* Mutant: a name in use is taken over.
NewNameAlways(name) == TRUE
\* The name is not in the map, of components or of pairs.
NewName(name) == name \notin DOMAIN component_names

\* Mutant: one component more.
InPureRangeOrNext(k) == k <= FirstId + MaxComponent
\* is_idx_in_pure_component_range
InPureRange(k) == FirstId <= k /\ k < FirstId + MaxComponent

\* An id is used up when the creation succeeded.
CountAfter(accepted) == IF accepted THEN id_count + 1 ELSE id_count

\* create_tag_component and create_data_component, after the layout's checks.
CreatePure(name, kind, p, layouts) ==
  LET accepted == NewName(name) /\ InPureRange(id_count)
      id       == PureId(id_count)
  IN  /\ id_count' = CountAfter(accepted)
      /\ IF accepted
         THEN /\ component_names' = Extended(component_names, name, id)
              /\ component' = Extended(component, id,
                   [name |-> name, type |-> kind, at |-> <<p>>, of |-> layouts])
         ELSE UNCHANGED <<component_names, component>>
      /\ UNCHANGED <<pair_A_to_B, pair_B_to_A>>

CreateTagComponent(name) == CreatePure(name, "StaticTag", NoAddress, {})

\* Mutant: the pointer is not checked.
ObservableAlways(p) == TRUE
\* The observer of the pointer is valid when a layout is there, be it another
\* than the program got the pointer for; and it must have a name.
Observable(p) == \E id \in LayoutsAt(p) : layout_of[id].name # NoLayoutName

CreateDataComponent(name, p) ==
  IF Observable(p)
  THEN CreatePure(name, "StaticData", p, LayoutsAt(p))
  ELSE UNCHANGED componentVars

\* map[key].insert(value), with an empty set made first
AddedToSet(sets, key, value) ==
  Extended(sets, key, (IF key \in DOMAIN sets THEN sets[key] ELSE {})
                        \union {value})

\* create_pair_component.  The name of the pair is not looked for: it takes
\* over the entry of a tag that has it.
CreatePairComponent(A, B) ==
  LET a  == component_names[A]
      b  == component_names[B]
      id == MakePairId(a, b)
  IN  IF /\ A # B
         /\ {A, B} \subseteq DOMAIN component_names
         /\ IsPure(a) /\ IsPure(b)
         /\ id \notin DOMAIN component
      THEN /\ component_names' = Extended(component_names, PairName[A, B], id)
           /\ component' = Extended(component, id,
                [name |-> PairName[A, B], type |-> "Pair",
                 at |-> component[a].at \o component[b].at,
                 of |-> component[a].of \union component[b].of])
           /\ pair_A_to_B' = AddedToSet(pair_A_to_B, a, b)
           /\ pair_B_to_A' = AddedToSet(pair_B_to_A, b, a)
           /\ UNCHANGED id_count
      ELSE UNCHANGED componentVars

\* A program that erases no layout a component was made of.
NoComponentOf(layout) == \A id \in DOMAIN component : layout \notin component[id].of

-----------------------------------------------------------------------------
\* Tags and data components have consecutive ids up to the end of their range,
\* whatever calls failed between: no call that fails uses up an id.
IdsDense ==
  /\ id_count <= FirstId + MaxComponent
  /\ {id \in DOMAIN component : IsPure(id)} =
       {PureId(k) : k \in FirstId .. id_count - 1}

\* A component is found by its name, or a pair has taken the name over.
FoundByName ==
  /\ \A name \in DOMAIN component_names :
       /\ component_names[name] \in DOMAIN component
       /\ component[component_names[name]].name = name
  /\ \A id \in DOMAIN component :
       LET found == component_names[component[id].name]
       IN  found = id \/ ~ IsPure(found)

\* The two maps of pairs tell the same, and it is the pairs that exist.
PairSetsExact ==
  \A a, b \in {id \in DOMAIN component : IsPure(id)} :
    LET inA == a \in DOMAIN pair_A_to_B /\ b \in pair_A_to_B[a]
        inB == b \in DOMAIN pair_B_to_A /\ a \in pair_B_to_A[b]
    IN  /\ inA <=> MakePairId(a, b) \in DOMAIN component
        /\ inB <=> inA
=============================================================================
