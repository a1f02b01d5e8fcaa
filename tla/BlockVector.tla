----------------------------- MODULE BlockVector -----------------------------
(***************************************************************************)
(* Data/DataLayoutUnorderedBlockVector.cpp on top of                       *)
(* DataBufferUnorderedUniformVector.hpp and DataBufferVector.cpp: elements *)
(* of one size side by side in a buffer that grows, each with a document   *)
(* (a string) beside it, to which the element has a pointer.  What is      *)
(* modelled of documents holds of the blocks of set_data_block: they are   *)
(* kept and moved the same way.  The buffer never runs out of memory.      *)
(***************************************************************************)
EXTENDS Naturals, Sequences

CONSTANTS
  ElementSize,   \* get_data_segment_size of the layout
  MaxElements,   \* bound: elements
  MaxDocuments,  \* bound: documents made, those of popped elements included
  MaxWrites,     \* bound: how often a document changes its address
  Content,       \* what the program stores in an element
  Nothing        \* memory not written yet, or a null pointer

Positions == 0 .. MaxElements - 1
Address == (1 .. MaxDocuments) \X (0 .. MaxWrites)

ASSUME BlockAssumption ==
  /\ ElementSize \in Nat \ {0}
  /\ MaxElements \in Nat /\ MaxDocuments \in Nat /\ MaxWrites \in Nat
  /\ Nothing \notin Content /\ Nothing \notin Address

VARIABLES
  offset,    \* _offset: the bytes in use
  room,      \* total_size: the bytes there are
  element,   \* at each position, the content and the pointer to a document
  document   \* _data_segment_document: the address of each, or Nothing for a null

blockVars == <<offset, room, element, document>>

Count == offset \div ElementSize

BlockInit ==
  /\ offset = 0
  /\ room = 0
  /\ element = [i \in Positions |-> [content |-> Nothing, doc |-> Nothing]]
  /\ document = <<>>

\* push_back_empty of the buffer: by half, or by all that is asked for.
GrownRoom(size) ==
  IF room >= offset + size THEN room
  ELSE IF (3 * room) \div 2 >= offset + size THEN (3 * room) \div 2
  ELSE room + offset + size

\* Mutant: only the documents missing for the elements there are, were some kept.
NewDocumentsReused(n) == IF Len(document) > Count THEN 0 ELSE n
\* One for every new element, also when popped elements left theirs.
NewDocuments(n) == n

\* push_back: the bytes of the new elements are what the memory holds.
PushBackElements(n) ==
  /\ Count + n <= MaxElements
  /\ Len(document) + n <= MaxDocuments
  /\ room' = GrownRoom(n * ElementSize)
  /\ offset' = offset + n * ElementSize
  /\ document' = document \o [k \in 1 .. NewDocuments(n) |-> <<Len(document) + k, 0>>]
  /\ UNCHANGED element

\* DataBufferUnorderedUniformVector::move refuses indices that are valid.
MoveRefused(from, to) == from < Count \/ to < Count

\* move returns true.
Movable(from, to) ==
  from = to \/ (from < Count /\ to < Count /\ ~ MoveRefused(from, to))

\* move: the bytes are copied, the document is moved and leaves a null.
Move(from, to) ==
  /\ element' = [element EXCEPT ![to] = element[from]]
  /\ document' = IF from = to THEN document
                 ELSE [document EXCEPT ![to + 1] = document[from + 1],
                                       ![from + 1] = Nothing]

\* erase: the last element is moved over the one to erase and popped.
Erased(i) ==
  /\ Movable(Count - 1, i)
  /\ Move(Count - 1, i)
  /\ offset' = offset - ElementSize

EraseElement(i) ==
  /\ i < Count
  /\ Erased(i)
  /\ UNCHANGED room

\* pop_back; the document of the element stays.
PopBackElement ==
  /\ Count > 0
  /\ offset' = offset - ElementSize
  /\ UNCHANGED <<room, element, document>>

\* The program writes to an element through at.
Store(i, content) ==
  /\ i < Count
  /\ element' = [element EXCEPT ![i].content = content]
  /\ UNCHANGED <<offset, room, document>>

\* set_data_document keeps the pointer write_string returned.
Pointed(before, after) == after

\* set_data_document: the document is found by the position of the element,
\* and has another address when write_string resized it.
SetDataDocument(i, resized) ==
  /\ i < Count
  /\ i + 1 \in DOMAIN document /\ document[i + 1] # Nothing
  /\ LET before == document[i + 1]
         after  == IF resized THEN <<before[1], before[2] + 1>> ELSE before
     IN  /\ after[2] <= MaxWrites
         /\ document' = [document EXCEPT ![i + 1] = after]
         /\ element' = [element EXCEPT ![i].doc = Pointed(before, after)]
  /\ UNCHANGED <<offset, room>>

BlockNext ==
  \/ \E n \in 1 .. MaxElements : PushBackElements(n)
  \/ \E i \in Positions :
       \/ EraseElement(i)
       \/ \E content \in Content : Store(i, content)
       \/ \E resized \in BOOLEAN : SetDataDocument(i, resized)
  \/ PopBackElement

BlockSpec == BlockInit /\ [][BlockNext]_blockVars

-----------------------------------------------------------------------------
\* Types: the elements are whole and in the memory there is, for growing by
\* half is taken only when it is enough.
ElementsInRoom ==
  /\ offset \in 0 .. MaxElements * ElementSize /\ offset % ElementSize = 0
  /\ offset <= room
  /\ element \in [Positions -> [content : Content \union {Nothing},
                                doc : Address \union {Nothing}]]

\* Every element has its document, and its pointer, once set, is to that one
\* where it is now: no two elements share a document, none points to one that
\* moved, and an element pushed over a popped one finds the one that stayed.
\* (Were move not to refuse every pair, the null an erase leaves would be met
\* by the next element at that position.)
DocumentsOwned ==
  /\ ElementsInRoom
  /\ \A i \in Positions : i < Count =>
       /\ i + 1 \in DOMAIN document
       /\ document[i + 1] # Nothing
       /\ element[i].doc \in {Nothing, document[i + 1]}
       /\ \A j \in Positions :
            /\ j < Count /\ j + 1 \in DOMAIN document
            /\ document[j + 1] = document[i + 1]
            => j = i
=============================================================================
