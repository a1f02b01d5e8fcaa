---------------------------- MODULE LayoutManager ----------------------------
(***************************************************************************)
(* Managers/DataLayoutManager.hpp: data layouts, owned under an id that    *)
(* counts up and found under an optional name.  A layout is what the maps  *)
(* know of it: where it is in memory, and its name.  Addresses of erased   *)
(* layouts are used again.  The two creations from a text whose structure  *)
(* does not exist or cannot be laid out change nothing and are left out.   *)
(***************************************************************************)
EXTENDS Naturals, FiniteSets

CONSTANTS
  LayoutName, NoLayoutName,  \* the names of layouts, and the empty one
  Address,                   \* where layouts are
  NullLayout,                \* the null pointer, in _map_id_to_layouts
  MaxLayouts                 \* bound: ids given to layouts

ASSUME LayoutAssumption ==
  /\ NoLayoutName \notin LayoutName
  /\ MaxLayouts \in Nat

VARIABLES
  layout_of,     \* _map_id_to_layouts
  layout_names,  \* _map_name_to_named_layouts
  layout_count   \* _id_counter

layoutVars == <<layout_of, layout_names, layout_count>>

Extended(f, key, value) ==
  [k \in DOMAIN f \union {key} |-> IF k = key THEN value ELSE f[k]]
Without(f, key) == [k \in DOMAIN f \ {key} |-> f[k]]

LayoutIds == {id \in DOMAIN layout_of : layout_of[id] # NullLayout}

\* The layouts at an address, of which there is at most one.
LayoutsAt(p) == {id \in LayoutIds : layout_of[id].ptr = p}
FreeAddresses == {p \in Address : LayoutsAt(p) = {}}

LayoutInit ==
  /\ layout_of = [id \in {} |-> NullLayout]
  /\ layout_names = [name \in {} |-> 0]
  /\ layout_count = 0

\* create_layout_impl refuses a name in use.
Refused(maps, name) == name # NoLayoutName /\ name \in DOMAIN maps.names

\* Mutant: the counter stays.
CountedNever(count) == count
\* _id_counter++, after a creation that succeeded.
Counted(count) == count + 1

\* create_layout, on the maps and the counter.
Created(maps, name, p) ==
  IF Refused(maps, name) THEN maps
  ELSE [layouts |-> Extended(maps.layouts, maps.count, [ptr |-> p, name |-> name]),
        names   |-> IF name = NoLayoutName THEN maps.names
                    ELSE Extended(maps.names, name, maps.count),
        count   |-> Counted(maps.count)]

Maps == [layouts |-> layout_of, names |-> layout_names, count |-> layout_count]

BecomeMaps(maps) ==
  /\ layout_of' = maps.layouts
  /\ layout_names' = maps.names
  /\ layout_count' = maps.count

CreateLayout(name, p) ==
  /\ layout_count < MaxLayouts
  /\ p \in FreeAddresses
  /\ BecomeMaps(Created(Maps, name, p))

\* create_layout_from_code calls create_layout twice.  Without a name it makes
\* two layouts and counts a third time; with one the second call fails, and so
\* does the whole, although the layout is there.
CreateLayoutFromCode(name, p, q) ==
  LET first  == Created(Maps, name, p)
      second == Created(first, name, q)
  IN  /\ layout_count + 3 <= MaxLayouts
      /\ {p, q} \subseteq FreeAddresses /\ p # q
      /\ BecomeMaps(IF second = first THEN second
                    ELSE [second EXCEPT !.count = Counted(@)])

\* get_layout by name: operator[] enters a null layout under an erased id.
GetLayoutByName(name) ==
  /\ name \in DOMAIN layout_names
  /\ layout_of' = IF layout_names[name] \in DOMAIN layout_of THEN layout_of
                  ELSE Extended(layout_of, layout_names[name], NullLayout)
  /\ UNCHANGED <<layout_names, layout_count>>

\* erase(id); a null layout is erased like another.
EraseLayout(id) ==
  /\ layout_of' = Without(layout_of, id)
  /\ UNCHANGED <<layout_names, layout_count>>

\* erase(name)
EraseLayoutName(name) ==
  /\ layout_names' = Without(layout_names, name)
  /\ UNCHANGED <<layout_of, layout_count>>

\* A program that erases the name of a layout before the layout.
NameErasedFirst(id) ==
  \A name \in DOMAIN layout_names : layout_names[name] # id

-----------------------------------------------------------------------------
\* A name never leads to the layout of another name, through erasures by id
\* and by name in any order, and names given again.
NameLeadsToBearer ==
  \A name \in DOMAIN layout_names :
    layout_names[name] \in LayoutIds =>
      layout_of[layout_names[name]].name = name
=============================================================================
