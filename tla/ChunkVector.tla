----------------------------- MODULE ChunkVector -----------------------------
(***************************************************************************)
(* Data/DataLayoutUnorderedUniformChunkVector.hpp: elements of one size in *)
(* pages that never move.  count is kept apart from the pages there are,   *)
(* and reserve, on which the calls that add many elements rest, takes the  *)
(* elements it lacks for elements to add: it makes room for them behind    *)
(* the elements there are, not behind the room there is.  A program that   *)
(* adds many elements to a vector with room left counts elements no page   *)
(* holds.                                                                  *)
(*                                                                         *)
(* erase and move_overlay call a member that a page's pointer does not     *)
(* have; nothing instantiates them, and they are left out.                 *)
(***************************************************************************)
EXTENDS Integers, Sequences

CONSTANTS
  PerPage,   \* _element_count_per_page
  MaxChunk,  \* bound: elements asked for
  Value,     \* what the program stores
  Junk       \* what is in memory not written yet

ASSUME ChunkAssumption == PerPage \in Nat \ {0} /\ MaxChunk \in Nat /\ Junk \notin Value

VARIABLES
  chunk_count, capacity,
  page,     \* _page: the elements in each, or <<>> for a null pointer
  outside,  \* an element beyond the pages, or in a null one, was written
  short     \* history: a call has counted more elements than the capacity

chunkVars == <<chunk_count, capacity, page, outside, short>>

NewPage == [k \in 1 .. PerPage |-> Junk]
CapacityOf(pages) == pages * PerPage
PagesFor(elements) == (elements + PerPage - 1) \div PerPage

\* map_index, and whether the element is there
PageOf(index) == index \div PerPage + 1
SlotOf(index) == (index % PerPage) + 1
Stored(index) == PageOf(index) \in DOMAIN page /\ page[PageOf(index)] # <<>>

ChunkInit ==
  /\ chunk_count = 0
  /\ capacity = 0
  /\ page = <<>>
  /\ outside = FALSE
  /\ short = FALSE

\* Mutant: the division rounds down.
PagesNeededLess(new) == (chunk_count + new - capacity) \div PerPage
\* try_adjust_space: the pages a number of elements needs behind those there are.
PagesNeeded(new) ==
  IF chunk_count + new <= capacity THEN 0
  ELSE PagesFor(chunk_count + new - capacity)

\* new_page
Adjusted(new) ==
  /\ page' = page \o [k \in 1 .. PagesNeeded(new) |-> NewPage]
  /\ capacity' = capacity + CapacityOf(PagesNeeded(new))

\* push_back and push_back_pure.
PushBack(v) ==
  /\ chunk_count < MaxChunk
  /\ chunk_count' = chunk_count + 1
  /\ LET pages == page \o [k \in 1 .. PagesNeeded(1) |-> NewPage]
         at    == PageOf(chunk_count)
         there == at \in DOMAIN pages /\ pages[at] # <<>>
     IN  /\ page' = IF there THEN [pages EXCEPT ![at][SlotOf(chunk_count)] = v]
                    ELSE pages
         /\ outside' = (outside \/ ~ there)
  /\ capacity' = capacity + CapacityOf(PagesNeeded(1))
  /\ UNCHANGED short

\* reserve
Reserved(total) ==
  IF total <= capacity THEN UNCHANGED <<page, capacity>>
  ELSE Adjusted(total - capacity)

Reserve(total) ==
  /\ total <= MaxChunk
  /\ Reserved(total)
  /\ UNCHANGED <<chunk_count, outside, short>>

Counted(total) ==
  /\ chunk_count' = total
  /\ short' = (short \/ total > capacity')
  /\ UNCHANGED outside

PushBackEmpty(new) ==
  /\ chunk_count + new <= MaxChunk
  /\ Reserved(chunk_count + new)
  /\ Counted(chunk_count + new)

\* resize only grows.
Resize(new_count) ==
  /\ new_count <= MaxChunk
  /\ new_count > chunk_count
  /\ Reserved(new_count)
  /\ Counted(new_count)

\* pop_back
ChunkPopBack ==
  /\ chunk_count > 0
  /\ chunk_count' = chunk_count - 1
  /\ UNCHANGED <<capacity, page, outside, short>>

Clear ==
  /\ chunk_count' = 0
  /\ UNCHANGED <<capacity, page, outside, short>>

\* Mutant: the last page is dropped unless it is full.
KeptPagesDown == chunk_count \div PerPage
\* page_count_after_shrink: in whole pages, rounded up.
KeptPages == PagesFor(chunk_count)

\* shrink_to_fit: resizing the vector of pages to more than it has appends
\* null pointers.
ShrinkToFit ==
  /\ KeptPages # Len(page)
  /\ page' = [k \in 1 .. KeptPages |-> IF k \in DOMAIN page THEN page[k] ELSE <<>>]
  /\ capacity' = CapacityOf(KeptPages)
  /\ UNCHANGED <<chunk_count, outside, short>>

ChunkNext ==
  \/ \E v \in Value : PushBack(v)
  \/ \E n \in 1 .. MaxChunk : Reserve(n) \/ PushBackEmpty(n) \/ Resize(n)
  \/ ChunkPopBack \/ Clear \/ ShrinkToFit

ChunkSpec == ChunkInit /\ [][ChunkNext]_chunkVars

-----------------------------------------------------------------------------
\* Types; the capacity is what the pages hold, null ones included.
ChunkTypeOK ==
  /\ chunk_count \in 0 .. MaxChunk
  /\ capacity = PerPage * Len(page)
  /\ \A k \in DOMAIN page :
       page[k] = <<>> \/ page[k] \in [1 .. PerPage -> Value \union {Junk}]

\* Every element counted is in a page, and nothing is written elsewhere.
ElementsStored ==
  /\ ~ outside
  /\ \A index \in 0 .. MaxChunk : index < chunk_count => Stored(index)

\* An element is missing only after a call has left a count above the
\* capacity, both of which it can read: until then every element counted
\* is in a page, through all that grows, pops, clears and shrinks.
StoredUnlessShort ==
  /\ ChunkTypeOK
  /\ ~ short => ElementsStored

\* The elements counted beyond those the pages hold, and the room left.
Lack == chunk_count - capacity
Room == capacity - chunk_count

\* How many elements can be missing: as many as there was room for before the
\* call.  A call on a full vector leaves none missing, and no sequence of calls
\* adds one lack to another.
LackIsFormerRoom ==
  [][Lack' > 0 => Lack' <= Lack \/ Lack' <= Room]_chunkVars

\* What a program stored stays until it is popped, overwritten or cleared: no
\* growth and no shrinking loses or moves an element.
ElementsKept ==
  [][\A index \in 0 .. MaxChunk :
       /\ index < chunk_count /\ index < chunk_count' /\ Stored(index)
       => /\ Stored(index)'
          /\ page'[PageOf(index)][SlotOf(index)] = page[PageOf(index)][SlotOf(index)]
    ]_chunkVars
=============================================================================
