-------------------------- MODULE ContainersProofs --------------------------
(***************************************************************************)
(* Proofs about ChunkVector and BlockVector, for pages and elements of any *)
(* size, any bounds and any contents: the elements counted are there until *)
(* a call leaves more counted than the capacity, by no more than the room  *)
(* there was, no growth and no shrinking loses or moves one, and every     *)
(* element has the document its pointer is to.                             *)
(***************************************************************************)
EXTENDS ChunkVector, BlockVector, SequenceTheorems, TLAPS

-----------------------------------------------------------------------------
(* Division.                                                                 *)

(* A number is its quotient times the divisor, and a rest.                   *)
LEMMA Division ==
  ASSUME NEW d \in Nat \ {0}, NEW i \in Nat
  PROVE  /\ i \div d \in Nat /\ i % d \in 0 .. d - 1
         /\ i = d * (i \div d) + (i % d)
OBVIOUS

(* Fewer than n times d elements are in the first n pages.                   *)
LEMMA QuotientBelow ==
  ASSUME NEW d \in Nat \ {0}, NEW q \in Nat, NEW r \in 0 .. d - 1, NEW n \in Nat,
         d * q + r < d * n
  PROVE  q < n
<1> SUFFICES ASSUME q >= n PROVE FALSE
  OBVIOUS
<1>1. PICK k \in Nat : q = n + k
  <2>1. q - n \in Nat /\ q = n + (q - n)
    OBVIOUS
  <2>2. QED
    BY <2>1
<1>2. d * q = d * n + d * k /\ d * k >= 0
  BY <1>1
<1>3. QED
  BY <1>2

(* A number is the multiple of the divisor it is between.                    *)
LEMMA QuotientIs ==
  ASSUME NEW d \in Nat \ {0}, NEW q \in Nat, NEW r \in 0 .. d - 1, NEW i \in Nat,
         i = d * q + r
  PROVE  i \div d = q /\ i % d = r
<1>1. /\ i \div d \in Nat /\ i % d \in 0 .. d - 1
      /\ i = d * (i \div d) + (i % d)
  BY Division
<1>2. d * (i \div d) + (i % d) < d * (q + 1) /\ d * q + r < d * (i \div d + 1)
  BY <1>1
<1>3. i \div d < q + 1 /\ q < i \div d + 1
  BY <1>1, <1>2, QuotientBelow
<1>4. i \div d = q
  BY <1>1, <1>3
<1>5. QED
  BY <1>1, <1>4

(* Two elements in the same slot of the same page are one.                   *)
LEMMA SamePlace ==
  ASSUME NEW i \in Nat, NEW j \in Nat, PageOf(i) = PageOf(j), SlotOf(i) = SlotOf(j)
  PROVE  i = j
<1> USE ChunkAssumption
<1>1. \A k \in Nat : /\ k \div PerPage \in Nat /\ k % PerPage \in 0 .. PerPage - 1
                      /\ k = PerPage * (k \div PerPage) + (k % PerPage)
  BY Division
<1>2. i \div PerPage = j \div PerPage /\ i % PerPage = j % PerPage
  <2>1. \A a, b \in Nat : a + 1 = b + 1 => a = b
    OBVIOUS
  <2>2. QED
    BY <1>1, <2>1 DEF PageOf, SlotOf
<1>3. QED
  BY <1>1, <1>2

(* The pages for some elements are enough for them, and as few as are.       *)
LEMMA PagesEnough ==
  ASSUME NEW e \in Nat
  PROVE  /\ PagesFor(e) \in Nat
         /\ e <= PerPage * PagesFor(e)
         /\ \A n \in Nat : e <= PerPage * n => PagesFor(e) <= n
<1> USE ChunkAssumption
<1> DEFINE q == PagesFor(e)
           r == (e + PerPage - 1) % PerPage
<1>1. q \in Nat /\ r \in 0 .. PerPage - 1 /\ e + PerPage - 1 = PerPage * q + r
  <2>1. e + PerPage - 1 \in Nat
    OBVIOUS
  <2>2. QED
    BY <2>1, Division DEF PagesFor
<1> HIDE DEF q, r
<1>2. PerPage * q \in Nat
  BY <1>1
<1>3. e <= PerPage * q
  BY <1>1, <1>2
<1>4. ASSUME NEW n \in Nat, e <= PerPage * n PROVE q <= n
  <2>1. PerPage * q + r < PerPage * (n + 1)
    <3>1. PerPage * (n + 1) = PerPage * n + PerPage /\ PerPage * n \in Nat
      OBVIOUS
    <3>2. QED
      BY <1>1, <1>2, <1>4, <3>1
  <2>2. q < n + 1
    BY <1>1, <2>1, QuotientBelow
  <2>3. QED
    BY <1>1, <2>2
<1>5. QED
  BY <1>1, <1>3, <1>4 DEF q

(* An element has a page and a slot, the page among those for its number.    *)
LEMMA PageShape ==
  ASSUME NEW index \in Nat
  PROVE  /\ PageOf(index) \in Nat \ {0} /\ SlotOf(index) \in 1 .. PerPage
         /\ \A n \in Nat : index < PerPage * n => PageOf(index) <= n
<1> USE ChunkAssumption
<1>1. /\ index \div PerPage \in Nat /\ index % PerPage \in 0 .. PerPage - 1
      /\ index = PerPage * (index \div PerPage) + (index % PerPage)
  BY Division
<1>2. \A n \in Nat : index < PerPage * n => index \div PerPage < n
  BY <1>1, QuotientBelow
<1>3. QED
  BY <1>1, <1>2 DEF PageOf, SlotOf

-----------------------------------------------------------------------------
(* ChunkVector.  The capacity is what the pages hold; until a call counts    *)
(* more than that, no page is a null pointer, since shrinking only takes     *)
(* pages away.                                                               *)

APage == [1 .. PerPage -> Value \union {Junk}]

ChunkInv ==
  /\ short \in BOOLEAN /\ outside \in BOOLEAN
  /\ chunk_count \in 0 .. MaxChunk
  /\ page \in Seq(APage \union {<<>>})
  /\ capacity = PerPage * Len(page)
  /\ ~ short => /\ ~ outside
                /\ chunk_count <= capacity
                /\ \A k \in DOMAIN page : page[k] # <<>>

(* A page is not a null pointer.                                             *)
LEMMA PageIsOne ==
  /\ NewPage \in APage
  /\ \A p \in APage : p # <<>>
  /\ \A p \in APage, k \in 1 .. PerPage, v \in Value : [p EXCEPT ![k] = v] \in APage
<1> USE ChunkAssumption
<1>1. NewPage \in APage
  BY DEF NewPage, APage
<1>2. ASSUME NEW p \in APage PROVE p # <<>>
  <2>1. DOMAIN p = 1 .. PerPage /\ 1 \in 1 .. PerPage
    BY DEF APage
  <2>2. DOMAIN <<>> = {}
    OBVIOUS
  <2>3. QED
    BY <2>1, <2>2
<1>3. \A p \in APage, k \in 1 .. PerPage, v \in Value : [p EXCEPT ![k] = v] \in APage
  BY DEF APage
<1>4. QED
  BY <1>1, <1>2, <1>3

(* New pages are appended: the old ones stay where they are.                 *)
LEMMA PagesAppended ==
  ASSUME NEW pages \in Seq(APage \union {<<>>}), NEW n \in Nat
  PROVE  LET more == pages \o [k \in 1 .. n |-> NewPage]
         IN  /\ more \in Seq(APage \union {<<>>})
             /\ Len(more) = Len(pages) + n
             /\ DOMAIN more = 1 .. Len(more) /\ DOMAIN pages = 1 .. Len(pages)
             /\ \A k \in DOMAIN pages : more[k] = pages[k]
             /\ \A k \in DOMAIN more \ DOMAIN pages : more[k] = NewPage
<1> DEFINE fresh == [k \in 1 .. n |-> NewPage]
<1>1. /\ fresh \in Seq(APage \union {<<>>}) /\ Len(fresh) = n
      /\ \A k \in 1 .. n : fresh[k] = NewPage
  BY PageIsOne
<1> HIDE DEF fresh
<1>2. /\ pages \o fresh \in Seq(APage \union {<<>>})
      /\ Len(pages \o fresh) = Len(pages) + n
      /\ \A k \in 1 .. Len(pages) + n :
           (pages \o fresh)[k] = IF k <= Len(pages) THEN pages[k] ELSE fresh[k - Len(pages)]
  BY <1>1, ConcatProperties
<1>3. /\ Len(pages) \in Nat /\ DOMAIN pages = 1 .. Len(pages)
      /\ DOMAIN (pages \o fresh) = 1 .. Len(pages) + n
  BY <1>2, LenProperties
<1>4. \A k \in 1 .. Len(pages) + n : ~ (k <= Len(pages)) => k - Len(pages) \in 1 .. n
  BY <1>3
<1>5. QED
  BY <1>1, <1>2, <1>3, <1>4 DEF fresh

(* What new_page leaves: no element there is lost or moved, and behind the   *)
(* elements counted there is room for those asked for.                       *)
LEMMA AdjustedKeeps ==
  ASSUME ChunkInv, NEW new \in Nat, Adjusted(new)
  PROVE  /\ PagesNeeded(new) \in Nat
         /\ page' = page \o [k \in 1 .. PagesNeeded(new) |-> NewPage]
         /\ capacity' = PerPage * Len(page') /\ capacity' >= capacity
         /\ capacity' >= chunk_count + new
<1> USE ChunkAssumption
<1>1. chunk_count \in Nat /\ capacity \in Nat
  <2>1. Len(page) \in Nat
    BY LenProperties DEF ChunkInv
  <2>2. QED
    BY <2>1 DEF ChunkInv
<1>2. PagesNeeded(new) \in Nat
  <2>1. CASE chunk_count + new <= capacity
    BY <2>1 DEF PagesNeeded
  <2>2. CASE ~ (chunk_count + new <= capacity)
    <3>1. chunk_count + new - capacity \in Nat
      BY <1>1, <2>2
    <3>2. QED
      BY <2>2, <3>1, PagesEnough DEF PagesNeeded
  <2>3. QED
    BY <2>1, <2>2
<1>3. Len(page') = Len(page) + PagesNeeded(new) /\ Len(page) \in Nat
  BY <1>2, PagesAppended, LenProperties DEF ChunkInv, Adjusted
<1>4. /\ capacity' = capacity + PerPage * PagesNeeded(new)
      /\ capacity' = PerPage * Len(page') /\ PerPage * PagesNeeded(new) \in Nat
  <2>1. PerPage * (Len(page) + PagesNeeded(new)) = PerPage * Len(page) + PerPage * PagesNeeded(new)
    BY <1>2, <1>3
  <2>2. PagesNeeded(new) * PerPage = PerPage * PagesNeeded(new)
    BY <1>2
  <2>3. QED
    BY <1>2, <1>3, <2>1, <2>2 DEF Adjusted, CapacityOf, ChunkInv
<1>5. chunk_count + new <= capacity + PerPage * PagesNeeded(new)
  <2>1. CASE chunk_count + new <= capacity
    BY <1>1, <1>4, <2>1
  <2>2. CASE ~ (chunk_count + new <= capacity)
    <3>1. chunk_count + new - capacity \in Nat
      BY <1>1, <2>2
    <3>2. chunk_count + new - capacity <= PerPage * PagesNeeded(new)
      BY <2>2, <3>1, PagesEnough DEF PagesNeeded
    <3>3. QED
      BY <1>1, <1>4, <3>2
  <2>3. QED
    BY <2>1, <2>2
<1>6. QED
  BY <1>1, <1>2, <1>4, <1>5 DEF Adjusted

\* The old pages are there, as they were, and before any new one.
Extended(pages) ==
  /\ pages \in Seq(APage \union {<<>>})
  /\ Len(page) <= Len(pages)
  /\ DOMAIN pages = 1 .. Len(pages) /\ DOMAIN page = 1 .. Len(page)
  /\ \A k \in DOMAIN page : pages[k] = page[k]
  /\ \A k \in DOMAIN pages \ DOMAIN page : pages[k] = NewPage

(* Appending pages extends.                                                  *)
LEMMA AppendedExtended ==
  ASSUME ChunkInv, NEW n \in Nat
  PROVE  Extended(page \o [k \in 1 .. n |-> NewPage])
<1> DEFINE more == page \o [k \in 1 .. n |-> NewPage]
<1>1. page \in Seq(APage \union {<<>>}) /\ Len(page) \in Nat
  BY LenProperties DEF ChunkInv
<1>2. /\ more \in Seq(APage \union {<<>>})
      /\ Len(more) = Len(page) + n
      /\ DOMAIN more = 1 .. Len(more) /\ DOMAIN page = 1 .. Len(page)
      /\ \A k \in DOMAIN page : more[k] = page[k]
      /\ \A k \in DOMAIN more \ DOMAIN page : more[k] = NewPage
  BY <1>1, PagesAppended
<1> HIDE DEF more
<1>3. Len(page) <= Len(more)
  BY <1>1, <1>2
<1>4. Extended(more)
  BY <1>2, <1>3 DEF Extended
<1>5. QED
  BY <1>4 DEF more

(* What reserve leaves: room for a total that was there already, or for the  *)
(* part of it beyond the capacity, behind the elements counted.              *)
LEMMA ReservedKeeps ==
  ASSUME ChunkInv, NEW total \in Nat, Reserved(total)
  PROVE  /\ Extended(page')
         /\ capacity' = PerPage * Len(page') /\ capacity' >= capacity
         /\ total <= capacity' \/ total - capacity' <= capacity - chunk_count
<1> USE ChunkAssumption
<1>1. Len(page) \in Nat /\ DOMAIN page = 1 .. Len(page) /\ capacity \in Nat
  <2>1. Len(page) \in Nat /\ DOMAIN page = 1 .. Len(page)
    BY LenProperties DEF ChunkInv
  <2>2. QED
    BY <2>1 DEF ChunkInv
<1>2. CASE total <= capacity
  <2>1. page' = page /\ capacity' = capacity
    BY <1>2 DEF Reserved
  <2>2. QED
    BY <1>1, <1>2, <2>1 DEF Extended, ChunkInv
<1>3. CASE ~ (total <= capacity)
  <2>1. total - capacity \in Nat /\ capacity + (total - capacity) = total
    BY <1>1, <1>3
  <2>2. Adjusted(total - capacity)
    BY <1>3 DEF Reserved
  <2>3. /\ PagesNeeded(total - capacity) \in Nat
        /\ page' = page \o [k \in 1 .. PagesNeeded(total - capacity) |-> NewPage]
        /\ capacity' = PerPage * Len(page') /\ capacity' >= capacity
        /\ capacity' >= chunk_count + (total - capacity)
    BY <2>1, <2>2, AdjustedKeeps
  <2>4. Extended(page')
    BY <2>3, AppendedExtended
  <2>5. chunk_count \in Nat /\ capacity' \in Nat
    <3>1. Len(page') \in Nat
      BY <2>4, LenProperties DEF Extended
    <3>2. QED
      BY <2>3, <3>1 DEF ChunkInv
  <2>6. total - capacity' <= capacity - chunk_count
    BY <1>1, <2>1, <2>3, <2>5
  <2>7. QED
    BY <2>3, <2>4, <2>6
<1>4. QED
  BY <1>2, <1>3

(* A pages' list that was only extended has no null pointer it had not.      *)
LEMMA ExtendedPages ==
  ASSUME ChunkInv, NEW pages, Extended(pages)
  PROVE  (\A k \in DOMAIN page : page[k] # <<>>) => \A k \in DOMAIN pages : pages[k] # <<>>
BY PageIsOne DEF Extended

(* A call that only makes room and counts what now fits.                     *)
LEMMA ChunkGrows ==
  ASSUME ChunkInv, NEW total \in Nat, total <= MaxChunk, Reserved(total),
         \/ UNCHANGED <<chunk_count, outside, short>>
         \/ Counted(total)
  PROVE  ChunkInv'
<1> USE ChunkAssumption
<1>1. /\ Extended(page')
      /\ capacity' = PerPage * Len(page') /\ capacity' >= capacity
  BY ReservedKeeps
<1>2. Len(page) \in Nat /\ Len(page') \in Nat /\ capacity \in Nat /\ capacity' \in Nat
  <2>1. Len(page) \in Nat /\ Len(page') \in Nat
    BY <1>1, LenProperties DEF ChunkInv, Extended
  <2>2. QED
    BY <1>1, <2>1 DEF ChunkInv
<1>3. /\ chunk_count' \in 0 .. MaxChunk /\ outside' = outside
      /\ short' \in BOOLEAN
      /\ ~ short' => ~ short /\ chunk_count' <= capacity'
  <2>1. CASE UNCHANGED <<chunk_count, outside, short>>
    BY <1>1, <1>2, <2>1 DEF ChunkInv
  <2>2. CASE Counted(total)
    <3>1. total \in 0 .. MaxChunk
      OBVIOUS
    <3>2. chunk_count' = total /\ outside' = outside /\ short' = (short \/ total > capacity')
      BY <2>2 DEF Counted
    <3>3. short' \in BOOLEAN
      BY <3>2 DEF ChunkInv
    <3>4. ~ short' => ~ short /\ ~ (total > capacity')
      BY <3>2
    <3>5. ~ (total > capacity') => total <= capacity'
      BY <1>2
    <3>6. QED
      BY <3>1, <3>2, <3>3, <3>4, <3>5
  <2>3. QED
    BY <2>1, <2>2
<1>4. ~ short' => ~ short /\ chunk_count' <= capacity'
  BY <1>3
<1>5. ~ short => \A k \in DOMAIN page' : page'[k] # <<>>
  BY <1>1, ExtendedPages DEF ChunkInv
<1>6. QED
  BY <1>1, <1>3, <1>4, <1>5 DEF ChunkInv, Extended

(* push_back: a page is added when there is no room, and the element is in   *)
(* one until elements were counted that no page holds.                       *)
LEMMA ChunkPushes ==
  ASSUME ChunkInv, NEW v \in Value, PushBack(v)
  PROVE  \E pages :
           /\ Extended(pages)
           /\ capacity' = PerPage * Len(pages)
           /\ chunk_count' = chunk_count + 1 /\ chunk_count \in Nat
           /\ ~ short => chunk_count' <= capacity' /\ ~ outside'
           /\ outside' \in BOOLEAN /\ short' = short
           /\ \/ page' = pages
              \/ LET at == PageOf(chunk_count)
                 IN  /\ at \in DOMAIN pages /\ pages[at] # <<>>
                     /\ page' = [pages EXCEPT ![at][SlotOf(chunk_count)] = v]
<1> USE ChunkAssumption
<1> DEFINE pages == page \o [k \in 1 .. PagesNeeded(1) |-> NewPage]
           at    == PageOf(chunk_count)
           there == at \in DOMAIN pages /\ pages[at] # <<>>
<1>1. Len(page) \in Nat /\ DOMAIN page = 1 .. Len(page) /\ capacity \in Nat /\ chunk_count \in Nat
  <2>1. Len(page) \in Nat /\ DOMAIN page = 1 .. Len(page)
    BY LenProperties DEF ChunkInv
  <2>2. QED
    BY <2>1 DEF ChunkInv
<1>2. /\ PagesNeeded(1) \in Nat
      /\ capacity + CapacityOf(PagesNeeded(1)) = PerPage * Len(pages)
      /\ PerPage * Len(pages) >= capacity
      /\ chunk_count = capacity => PerPage * Len(pages) >= capacity + 1
  <2>1. CASE chunk_count + 1 <= capacity
    <3>1. PagesNeeded(1) = 0
      BY <2>1 DEF PagesNeeded
    <3>2. Len(pages) = Len(page)
      BY <1>1, <3>1, PagesAppended DEF ChunkInv
    <3>3. QED
      BY <1>1, <2>1, <3>1, <3>2 DEF CapacityOf, ChunkInv
  <2>2. CASE ~ (chunk_count + 1 <= capacity)
    <3>1. chunk_count + 1 - capacity \in Nat /\ chunk_count + 1 - capacity >= 1
      BY <1>1, <2>2
    <3>2. /\ PagesNeeded(1) = PagesFor(chunk_count + 1 - capacity) /\ PagesNeeded(1) \in Nat
          /\ PerPage * PagesNeeded(1) >= chunk_count + 1 - capacity
      BY <2>2, <3>1, PagesEnough DEF PagesNeeded
    <3>3. Len(pages) = Len(page) + PagesNeeded(1)
      BY <3>2, PagesAppended DEF ChunkInv
    <3>4. PerPage * Len(pages) = PerPage * Len(page) + PerPage * PagesNeeded(1)
      BY <1>1, <3>2, <3>3
    <3>5. PagesNeeded(1) * PerPage = PerPage * PagesNeeded(1) /\ PerPage * PagesNeeded(1) \in Nat
      BY <3>2
    <3>6. capacity = PerPage * Len(page)
      BY DEF ChunkInv
    <3> HIDE DEF pages
    <3>7. QED
      BY <1>1, <3>1, <3>2, <3>4, <3>5, <3>6 DEF CapacityOf
  <2>3. QED
    BY <2>1, <2>2
<1>3. Extended(pages)
  BY <1>2, AppendedExtended
<1>4. ~ short => chunk_count + 1 <= PerPage * Len(pages)
  <2> SUFFICES ASSUME ~ short PROVE chunk_count + 1 <= PerPage * Len(pages)
    OBVIOUS
  <2>1. PerPage * Len(pages) \in Nat /\ chunk_count <= capacity
    <3>1. Len(pages) \in Nat
      BY <1>3, LenProperties DEF Extended
    <3> HIDE DEF pages
    <3>2. QED
      BY <3>1 DEF ChunkInv
  <2> HIDE DEF pages
  <2>2. QED
    BY <1>1, <1>2, <2>1
<1>5. ~ short => there
  <2> SUFFICES ASSUME ~ short PROVE there
    OBVIOUS
  <2>1. Len(pages) \in Nat
    BY <1>3, LenProperties DEF Extended
  <2>2. at \in Nat \ {0} /\ at <= Len(pages)
    <3> HIDE DEF pages
    <3>1. chunk_count < PerPage * Len(pages)
      BY <1>1, <1>4, <2>1
    <3>2. QED
      BY <1>1, <2>1, <3>1, PageShape
  <2>3. at \in DOMAIN pages
    <3> HIDE DEF pages, at
    <3>1. QED
      BY <1>3, <2>1, <2>2 DEF Extended
  <2>4. \A k \in DOMAIN pages : pages[k] # <<>>
    <3> HIDE DEF pages
    <3>1. QED
      BY <1>3, ExtendedPages DEF ChunkInv
  <2>5. QED
    BY <2>3, <2>4
<1>6. /\ page' = IF there THEN [pages EXCEPT ![at][SlotOf(chunk_count)] = v] ELSE pages
      /\ outside' = (outside \/ ~ there)
      /\ capacity' = capacity + CapacityOf(PagesNeeded(1))
      /\ chunk_count' = chunk_count + 1 /\ short' = short
  BY DEF PushBack
<1>7. outside' \in BOOLEAN /\ (~ short => ~ outside')
  BY <1>5, <1>6 DEF ChunkInv
<1> HIDE DEF pages
<1>8. QED
  BY <1>1, <1>2, <1>3, <1>4, <1>6, <1>7

(* Every call keeps the capacity what the pages hold, and the elements       *)
(* within it but one that leaves a count above it.                           *)
LEMMA ChunkInvStep ==
  ASSUME ChunkInv, [ChunkNext]_chunkVars
  PROVE  ChunkInv'
<1> USE ChunkAssumption
<1>1. CASE UNCHANGED chunkVars
  BY <1>1 DEF ChunkInv, chunkVars
<1>2. ASSUME NEW v \in Value, PushBack(v)
      PROVE  ChunkInv'
  <2>1. PICK pages :
           /\ Extended(pages)
           /\ capacity' = PerPage * Len(pages)
           /\ chunk_count' = chunk_count + 1 /\ chunk_count \in Nat
           /\ ~ short => chunk_count' <= capacity' /\ ~ outside'
           /\ outside' \in BOOLEAN /\ short' = short
           /\ \/ page' = pages
              \/ LET at == PageOf(chunk_count)
                 IN  /\ at \in DOMAIN pages /\ pages[at] # <<>>
                     /\ page' = [pages EXCEPT ![at][SlotOf(chunk_count)] = v]
    BY <1>2, ChunkPushes
  <2>2. ~ short => \A k \in DOMAIN pages : pages[k] # <<>>
    BY <2>1, ExtendedPages DEF ChunkInv
  <2>3. chunk_count' \in 0 .. MaxChunk
    BY <1>2, <2>1 DEF PushBack
  <2>4. CASE page' = pages
    BY <2>1, <2>2, <2>3, <2>4 DEF ChunkInv, Extended
  <2>5. ASSUME NEW at, at = PageOf(chunk_count), at \in DOMAIN pages, pages[at] # <<>>,
               page' = [pages EXCEPT ![at][SlotOf(chunk_count)] = v]
        PROVE  ChunkInv'
    <3>1. pages \in Seq(APage \union {<<>>}) /\ DOMAIN pages = 1 .. Len(pages)
      BY <2>1 DEF Extended
    <3>2. pages[at] \in APage
      BY <2>5, <3>1, ElementOfSeq
    <3>3. SlotOf(chunk_count) \in 1 .. PerPage
      BY <2>1, PageShape
    <3>4. [pages[at] EXCEPT ![SlotOf(chunk_count)] = v] \in APage
      BY <3>2, <3>3, PageIsOne
    <3>5. page' = [pages EXCEPT ![at] = [pages[at] EXCEPT ![SlotOf(chunk_count)] = v]]
      BY <2>5
    <3>6. page' \in Seq(APage \union {<<>>}) /\ Len(page') = Len(pages) /\ DOMAIN page' = DOMAIN pages
      BY <2>5, <3>1, <3>4, <3>5, ExceptSeq
    <3>7. ~ short => \A k \in DOMAIN page' : page'[k] # <<>>
      BY <2>2, <3>4, <3>5, <3>6, PageIsOne
    <3>8. QED
      BY <2>1, <2>3, <3>6, <3>7 DEF ChunkInv
  <2>6. QED
    BY <2>1, <2>4, <2>5
<1>3. ASSUME NEW n \in 1 .. MaxChunk, Reserve(n) \/ PushBackEmpty(n) \/ Resize(n)
      PROVE  ChunkInv'
  <2>1. n \in Nat /\ chunk_count + n \in Nat
    BY DEF ChunkInv
  <2>2. CASE Reserve(n)
    BY <2>1, <2>2, ChunkGrows DEF Reserve
  <2>3. CASE PushBackEmpty(n)
    BY <2>1, <2>3, ChunkGrows DEF PushBackEmpty
  <2>4. CASE Resize(n)
    BY <2>1, <2>4, ChunkGrows DEF Resize
  <2>5. QED
    BY <1>3, <2>2, <2>3, <2>4
<1>4. Len(page) \in Nat /\ capacity \in Nat
  <2>1. Len(page) \in Nat
    BY LenProperties DEF ChunkInv
  <2>2. QED
    BY <2>1 DEF ChunkInv
<1>5. CASE ChunkPopBack \/ Clear
  <2>1. UNCHANGED <<capacity, page, outside, short>>
    BY <1>5 DEF ChunkPopBack, Clear
  <2>2. chunk_count' \in 0 .. chunk_count
    BY <1>5 DEF ChunkPopBack, Clear, ChunkInv
  <2>3. QED
    BY <1>4, <2>1, <2>2 DEF ChunkInv
<1>6. CASE ShrinkToFit
  <2>1. /\ page' = [k \in 1 .. KeptPages |-> IF k \in DOMAIN page THEN page[k] ELSE <<>>]
        /\ capacity' = KeptPages * PerPage
        /\ UNCHANGED <<chunk_count, outside, short>>
    BY <1>6 DEF ShrinkToFit, CapacityOf
  <2>2. chunk_count \in Nat /\ DOMAIN page = 1 .. Len(page)
    BY LenProperties DEF ChunkInv
  <2>3. /\ KeptPages \in Nat
        /\ chunk_count <= PerPage * KeptPages
        /\ chunk_count <= PerPage * Len(page) => KeptPages <= Len(page)
    BY <1>4, <2>2, PagesEnough DEF KeptPages
  <2>4. \A k \in 1 .. KeptPages : page'[k] \in APage \union {<<>>}
    BY <2>1, ElementOfSeq DEF ChunkInv
  <2>5. page' \in Seq(APage \union {<<>>}) /\ Len(page') = KeptPages /\ DOMAIN page' = 1 .. KeptPages
    BY <2>1, <2>3, <2>4
  <2>6. capacity' = PerPage * Len(page')
    BY <2>1, <2>3, <2>5
  <2>7. ~ short => \A k \in DOMAIN page' : page'[k] # <<>>
    <3> SUFFICES ASSUME ~ short, NEW k \in DOMAIN page' PROVE page'[k] # <<>>
      OBVIOUS
    <3>1. KeptPages <= Len(page)
      BY <2>3 DEF ChunkInv
    <3>2. k \in DOMAIN page
      BY <1>4, <2>2, <2>3, <2>5, <3>1
    <3>3. QED
      BY <2>1, <2>5, <3>2 DEF ChunkInv
  <2>8. QED
    BY <2>1, <2>3, <2>5, <2>6, <2>7 DEF ChunkInv
<1>7. QED
  BY <1>1, <1>2, <1>3, <1>5, <1>6 DEF ChunkNext

(* No call but a pop or a clear takes an element away or moves it.           *)
LEMMA ChunkKeeps ==
  ASSUME ChunkInv, [ChunkNext]_chunkVars,
         NEW index \in 0 .. MaxChunk, index < chunk_count, index < chunk_count', Stored(index)
  PROVE  /\ Stored(index)'
         /\ page'[PageOf(index)][SlotOf(index)] = page[PageOf(index)][SlotOf(index)]
<1> USE ChunkAssumption
<1> DEFINE there == PageOf(index)
<1>1. there \in DOMAIN page /\ page[there] # <<>> /\ index \in Nat
  BY DEF Stored
<1>2. ASSUME NEW pages, Extended(pages) PROVE there \in DOMAIN pages /\ pages[there] = page[there]
  <2>1. Len(page) \in Nat /\ Len(pages) \in Nat
    BY <1>2, LenProperties DEF ChunkInv, Extended
  <2> HIDE DEF there
  <2>2. QED
    BY <1>1, <1>2, <2>1 DEF Extended
<1>3. CASE page' = page
  BY <1>1, <1>3 DEF Stored
<1>4. ASSUME NEW v \in Value, PushBack(v)
      PROVE  Stored(index)' /\ page'[there][SlotOf(index)] = page[there][SlotOf(index)]
  <2>1. PICK pages :
           /\ Extended(pages)
           /\ capacity' = PerPage * Len(pages)
           /\ chunk_count' = chunk_count + 1 /\ chunk_count \in Nat
           /\ ~ short => chunk_count' <= capacity' /\ ~ outside'
           /\ outside' \in BOOLEAN /\ short' = short
           /\ \/ page' = pages
              \/ LET at == PageOf(chunk_count)
                 IN  /\ at \in DOMAIN pages /\ pages[at] # <<>>
                     /\ page' = [pages EXCEPT ![at][SlotOf(chunk_count)] = v]
    BY <1>4, ChunkPushes
  <2>2. there \in DOMAIN pages /\ pages[there] = page[there] /\ pages[there] # <<>>
    BY <1>1, <1>2, <2>1
  <2>3. CASE page' = pages
    BY <2>2, <2>3 DEF Stored
  <2>4. ASSUME NEW at, at = PageOf(chunk_count), at \in DOMAIN pages, pages[at] # <<>>,
               page' = [pages EXCEPT ![at][SlotOf(chunk_count)] = v]
        PROVE  Stored(index)' /\ page'[there][SlotOf(index)] = page[there][SlotOf(index)]
    <3>1. pages \in Seq(APage \union {<<>>})
      BY <2>1 DEF Extended
    <3>2. pages[at] \in APage
      BY <2>4, <3>1, ElementOfSeq
    <3>3. SlotOf(chunk_count) \in 1 .. PerPage /\ SlotOf(index) \in 1 .. PerPage
      BY <1>1, <2>1, PageShape
    <3>4. at # there \/ SlotOf(chunk_count) # SlotOf(index)
      BY <1>1, <2>1, <2>4, SamePlace
    <3>5. /\ page' = [pages EXCEPT ![at] = [pages[at] EXCEPT ![SlotOf(chunk_count)] = v]]
          /\ [pages[at] EXCEPT ![SlotOf(chunk_count)] = v] # <<>>
      BY <2>4, <3>2, <3>3, PageIsOne
    <3>6. DOMAIN page' = DOMAIN pages
      BY <3>5
    <3>7. page'[there] # <<>> /\ page'[there][SlotOf(index)] = page[there][SlotOf(index)]
      <4> HIDE DEF there
      <4>1. CASE at # there
        BY <2>2, <3>5, <4>1
      <4>2. CASE at = there
        <5>1. SlotOf(chunk_count) # SlotOf(index)
          BY <3>4, <4>2
        <5>2. page'[there] = [pages[at] EXCEPT ![SlotOf(chunk_count)] = v]
          BY <2>2, <3>5, <4>2
        <5>3. page'[there][SlotOf(index)] = pages[at][SlotOf(index)]
          BY <3>2, <3>3, <5>1, <5>2 DEF APage
        <5>4. QED
          BY <2>2, <3>5, <4>2, <5>2, <5>3
      <4>3. QED
        BY <4>1, <4>2
    <3>8. QED
      BY <2>2, <3>6, <3>7 DEF Stored
  <2>5. QED
    BY <2>1, <2>3, <2>4
<1>5. ASSUME NEW total \in Nat, Reserved(total)
      PROVE  Stored(index)' /\ page'[there][SlotOf(index)] = page[there][SlotOf(index)]
  <2>1. Extended(page')
    BY <1>5, ReservedKeeps
  <2>2. QED
    BY <1>1, <1>2, <2>1 DEF Stored
<1>6. CASE ShrinkToFit
  <2>1. page' = [k \in 1 .. KeptPages |-> IF k \in DOMAIN page THEN page[k] ELSE <<>>]
    BY <1>6 DEF ShrinkToFit
  <2>2. chunk_count \in Nat /\ KeptPages \in Nat /\ chunk_count <= PerPage * KeptPages
    <3>1. chunk_count \in Nat
      BY DEF ChunkInv
    <3>2. QED
      BY <3>1, PagesEnough DEF KeptPages
  <2>3. index < PerPage * KeptPages
    <3>1. PerPage * KeptPages \in Nat
      BY <2>2
    <3>2. QED
      BY <1>1, <2>2, <3>1
  <2>4. there \in 1 .. KeptPages
    <3>1. there \in Nat \ {0} /\ there <= KeptPages
      BY <1>1, <2>2, <2>3, PageShape
    <3>2. QED
      BY <2>2, <3>1
  <2> HIDE DEF there
  <2>5. DOMAIN page' = 1 .. KeptPages /\ page'[there] = page[there]
    BY <1>1, <2>1, <2>4
  <2>6. QED
    BY <1>1, <2>4, <2>5 DEF Stored, there
<1>7. ASSUME NEW n \in 1 .. MaxChunk, Reserve(n) \/ PushBackEmpty(n) \/ Resize(n)
      PROVE  Stored(index)' /\ page'[there][SlotOf(index)] = page[there][SlotOf(index)]
  <2>1. n \in Nat /\ chunk_count + n \in Nat
    BY DEF ChunkInv
  <2>2. Reserved(n) \/ Reserved(chunk_count + n)
    BY <1>7 DEF Reserve, PushBackEmpty, Resize
  <2>3. QED
    BY <1>5, <2>1, <2>2
<1>8. QED
  BY <1>3, <1>4, <1>6, <1>7 DEF ChunkNext, ChunkPopBack, Clear, chunkVars

(* The elements counted are in pages, until a call has counted more than the *)
(* capacity.                                                                 *)
LEMMA ChunkInvStored == ChunkInv => StoredUnlessShort
<1> USE ChunkAssumption
<1> SUFFICES ASSUME ChunkInv PROVE StoredUnlessShort
  OBVIOUS
<1>1. Len(page) \in Nat /\ DOMAIN page = 1 .. Len(page) /\ capacity \in Nat
  <2>1. Len(page) \in Nat /\ DOMAIN page = 1 .. Len(page)
    BY LenProperties DEF ChunkInv
  <2>2. QED
    BY <2>1 DEF ChunkInv
<1>2. \A k \in DOMAIN page : page[k] = <<>> \/ page[k] \in [1 .. PerPage -> Value \union {Junk}]
  BY ElementOfSeq DEF ChunkInv, APage
<1>3. ASSUME ~ short, NEW index \in 0 .. MaxChunk, index < chunk_count
      PROVE  Stored(index)
  <2>1. index < PerPage * Len(page)
    <3>1. chunk_count \in Nat /\ chunk_count <= capacity /\ capacity = PerPage * Len(page)
      BY <1>3 DEF ChunkInv
    <3>2. QED
      BY <1>1, <1>3, <3>1
  <2>2. PageOf(index) \in 1 .. Len(page)
    BY <1>1, <2>1, PageShape
  <2>3. QED
    BY <1>1, <1>3, <2>2 DEF Stored, ChunkInv
<1>4. QED
  BY <1>2, <1>3 DEF StoredUnlessShort, ElementsStored, ChunkTypeOK, ChunkInv

(* At first there are no pages.                                              *)
LEMMA ChunkInvInit == ChunkInit => ChunkInv
<1> USE ChunkAssumption
<1> SUFFICES ASSUME ChunkInit PROVE ChunkInv
  OBVIOUS
<1>1. page = <<>> /\ Len(page) = 0 /\ DOMAIN page = {} /\ page \in Seq(APage \union {<<>>})
  BY EmptySeq DEF ChunkInit
<1>2. PerPage * 0 = 0 /\ 0 \in 0 .. MaxChunk
  OBVIOUS
<1>3. /\ short = FALSE /\ outside = FALSE /\ chunk_count = 0
      /\ capacity = PerPage * Len(page) /\ capacity = 0
  <2>1. capacity = 0 /\ PerPage * Len(page) = PerPage * 0
    BY <1>1 DEF ChunkInit
  <2>2. QED
    BY <1>2, <2>1 DEF ChunkInit
<1>4. chunk_count \in 0 .. MaxChunk /\ chunk_count <= capacity
  BY <1>2, <1>3
<1>5. QED
  BY <1>1, <1>3, <1>4 DEF ChunkInv

(* So it is in every reachable state.                                        *)
LEMMA ChunkInvariant == ChunkSpec => []ChunkInv
BY ChunkInvInit, ChunkInvStep, PTL DEF ChunkSpec

(* Until a call has left a count above the capacity, every element counted   *)
(* is in a page and nothing was written elsewhere, whatever the calls were.  *)
THEOREM StoredUnlessShortCorrect == ChunkSpec => []StoredUnlessShort
BY ChunkInvariant, ChunkInvStored, PTL

(* No call leaves more elements missing than there was room for before it,   *)
(* or than were missing.                                                     *)
LEMMA LackStep ==
  ASSUME ChunkInv, [ChunkNext]_chunkVars, Lack' > 0
  PROVE  Lack' <= Lack \/ Lack' <= Room
<1> USE ChunkAssumption
<1>1. /\ chunk_count \in Nat /\ capacity \in Nat
      /\ chunk_count' \in Nat /\ capacity' \in Nat
  <2>1. ChunkInv'
    BY ChunkInvStep
  <2>2. Len(page) \in Nat /\ Len(page)' \in Nat
    BY <2>1, LenProperties DEF ChunkInv
  <2>3. QED
    BY <2>1, <2>2 DEF ChunkInv
<1>0. /\ chunk_count' - capacity' > 0
      /\ chunk_count' - capacity' <= chunk_count - capacity => Lack' <= Lack
      /\ chunk_count' - capacity' <= capacity - chunk_count => Lack' <= Room
  BY DEF Lack, Room
<1>a. ASSUME chunk_count' <= chunk_count, capacity' >= capacity
      PROVE  Lack' <= Lack
  <2>1. \A n, c, m, d \in Nat : m <= n /\ d >= c => m - d <= n - c
    OBVIOUS
  <2>2. QED
    BY <1>0, <1>1, <1>a, <2>1
<1>b. ASSUME chunk_count' <= capacity' PROVE FALSE
  <2>1. \A m, d \in Nat : m - d > 0 => ~ (m <= d)
    OBVIOUS
  <2>2. QED
    BY <1>0, <1>1, <1>b, <2>1
<1>2. CASE UNCHANGED chunkVars
  BY <1>0, <1>1, <1>2 DEF chunkVars
<1>3. ASSUME NEW v \in Value, PushBack(v)
      PROVE  Lack' <= Lack
  <2>1. chunk_count' = chunk_count + 1 /\ capacity' = capacity + CapacityOf(PagesNeeded(1))
    BY <1>3 DEF PushBack
  <2>2. chunk_count + 1 > capacity
    <3> SUFFICES ASSUME chunk_count + 1 <= capacity PROVE FALSE
      BY <1>1
    <3>1. PagesNeeded(1) = 0
      BY DEF PagesNeeded
    <3>2. QED
      BY <1>0, <1>1, <2>1, <3>1 DEF CapacityOf
  <2>3. PagesNeeded(1) \in Nat /\ PagesNeeded(1) * PerPage >= 1
    <3>1. /\ chunk_count + 1 - capacity \in Nat /\ chunk_count + 1 - capacity >= 1
          /\ PagesNeeded(1) = PagesFor(chunk_count + 1 - capacity)
      BY <1>1, <2>2 DEF PagesNeeded
    <3>2. PagesNeeded(1) \in Nat /\ PerPage * PagesNeeded(1) >= chunk_count + 1 - capacity
      BY <3>1, PagesEnough
    <3>3. PagesNeeded(1) * PerPage = PerPage * PagesNeeded(1) /\ PerPage * PagesNeeded(1) \in Nat
      BY <3>2
    <3>4. QED
      BY <1>1, <3>1, <3>2, <3>3
  <2>4. PagesNeeded(1) * PerPage \in Nat
    BY <2>3
  <2>5. QED
    BY <1>0, <1>1, <2>1, <2>3, <2>4 DEF CapacityOf
<1>4. ASSUME NEW total \in Nat, Reserved(total), Counted(total)
      PROVE  Lack' <= Room
  <2>1. total <= capacity' \/ total - capacity' <= capacity - chunk_count
    BY <1>4, ReservedKeeps
  <2>2. chunk_count' = total
    BY <1>4 DEF Counted
  <2>3. QED
    BY <1>0, <1>b, <2>1, <2>2
<1>5. ASSUME NEW n \in 1 .. MaxChunk, Reserve(n) \/ PushBackEmpty(n) \/ Resize(n)
      PROVE  Lack' <= Lack \/ Lack' <= Room
  <2>1. n \in Nat /\ chunk_count + n \in Nat
    BY <1>1
  <2>2. CASE Reserve(n)
    <3>1. chunk_count' = chunk_count /\ capacity' >= capacity
      BY <2>1, <2>2, ReservedKeeps DEF Reserve
    <3>2. chunk_count' <= chunk_count
      BY <1>1, <3>1
    <3>3. QED
      BY <1>a, <3>1, <3>2
  <2>3. CASE PushBackEmpty(n)
    BY <1>4, <2>1, <2>3 DEF PushBackEmpty
  <2>4. CASE Resize(n)
    BY <1>4, <2>1, <2>4 DEF Resize
  <2>5. QED
    BY <1>5, <2>2, <2>3, <2>4
<1>6. CASE ChunkPopBack \/ Clear
  <2>1. capacity' = capacity /\ chunk_count' <= chunk_count
    BY <1>1, <1>6 DEF ChunkPopBack, Clear
  <2>2. capacity' >= capacity
    BY <1>1, <2>1
  <2>3. QED
    BY <1>a, <2>1, <2>2
<1>7. CASE ShrinkToFit
  <2>1. chunk_count' = chunk_count /\ capacity' = KeptPages * PerPage
    BY <1>7 DEF ShrinkToFit, CapacityOf
  <2>2. KeptPages \in Nat /\ chunk_count <= PerPage * KeptPages
    BY <1>1, PagesEnough DEF KeptPages
  <2>3. KeptPages * PerPage = PerPage * KeptPages
    BY <2>2
  <2>4. QED
    BY <1>0, <1>1, <2>1, <2>2, <2>3
<1>8. QED
  BY <1>2, <1>3, <1>5, <1>6, <1>7 DEF ChunkNext

(* At most as many elements are missing as there was room for before the     *)
(* call that counted them, however often the vector grows and shrinks.       *)
THEOREM LackIsFormerRoomCorrect == ChunkSpec => LackIsFormerRoom
<1>1. ChunkInv /\ [ChunkNext]_chunkVars
      => [Lack' > 0 => Lack' <= Lack \/ Lack' <= Room]_chunkVars
  BY LackStep
<1>2. QED
  BY <1>1, ChunkInvariant, PTL DEF ChunkSpec, LackIsFormerRoom

(* What a program stored stays until it is popped, overwritten or cleared,   *)
(* whatever makes room or gives it back.                                     *)
THEOREM ElementsKeptCorrect == ChunkSpec => ElementsKept
<1> DEFINE Keeps == \A index \in 0 .. MaxChunk :
             /\ index < chunk_count /\ index < chunk_count' /\ Stored(index)
             => /\ Stored(index)'
                /\ page'[PageOf(index)][SlotOf(index)] = page[PageOf(index)][SlotOf(index)]
<1>1. ChunkInv /\ [ChunkNext]_chunkVars => [Keeps]_chunkVars
  BY ChunkKeeps
<1>2. QED
  BY <1>1, ChunkInvariant, PTL DEF ChunkSpec, ElementsKept

-----------------------------------------------------------------------------
(* BlockVector.  A document outlives the element it was made for, and an     *)
(* element pushed over a popped one takes its place: so what is said of the  *)
(* elements counted must hold of every position that has a document.         *)

BlockInv ==
  /\ offset \in Nat /\ room \in Nat /\ offset <= room
  /\ Count \in 0 .. MaxElements /\ offset = ElementSize * Count
  /\ element \in [Positions -> [content : Content \union {Nothing},
                                doc : Address \union {Nothing}]]
  /\ document \in Seq(Address) /\ Count <= Len(document)
  /\ \A k \in DOMAIN document : document[k][1] = k
  /\ \A i \in Positions :
       element[i].doc # Nothing =>
         i + 1 \in DOMAIN document /\ element[i].doc = document[i + 1]

(* The buffer grows to what is asked of it, at least.                        *)
LEMMA RoomEnough ==
  ASSUME offset \in Nat, room \in Nat, NEW size \in Nat
  PROVE  GrownRoom(size) \in Nat /\ offset + size <= GrownRoom(size)
BY DEF GrownRoom

(* The number of elements follows from the bytes in use.                     *)
LEMMA CountIs ==
  ASSUME NEW n \in Nat, offset' = ElementSize * n
  PROVE  Count' = n /\ offset' \in Nat
<1> USE BlockAssumption
<1>1. offset' \in Nat /\ offset' = ElementSize * n + 0 /\ 0 \in 0 .. ElementSize - 1
  OBVIOUS
<1>2. offset' \div ElementSize = n
  BY <1>1, QuotientIs
<1>3. QED
  BY <1>1, <1>2 DEF Count

(* erase does something only to the last element: move refuses all others.   *)
LEMMA ErasesLast ==
  ASSUME BlockInv, NEW i \in Positions, EraseElement(i)
  PROVE  Count > 0 /\ offset' = offset - ElementSize /\ UNCHANGED <<room, element, document>>
<1> USE BlockAssumption
<1>1. Count \in Nat /\ i \in Nat /\ i < Count /\ Movable(Count - 1, i)
  BY DEF BlockInv, Positions, EraseElement, Erased
<1>2. Count - 1 = i
  BY <1>1 DEF Movable, MoveRefused
<1>3. element' = [element EXCEPT ![i] = element[i]] /\ document' = document
  BY <1>2 DEF EraseElement, Erased, Move
<1>4. element' = element
  BY <1>3 DEF BlockInv
<1>5. QED
  BY <1>1, <1>3, <1>4 DEF EraseElement, Erased

(* One element less: its document stays.                                     *)
LEMMA BlockPops ==
  ASSUME BlockInv, Count > 0, offset' = offset - ElementSize, UNCHANGED <<room, element, document>>
  PROVE  BlockInv'
<1> USE BlockAssumption
<1>1. Count - 1 \in Nat /\ Count \in Nat /\ Len(document) \in Nat
  BY LenProperties DEF BlockInv
<1>2. offset' = ElementSize * (Count - 1)
  <2>1. ElementSize * (Count - 1) = ElementSize * Count - ElementSize
    BY <1>1
  <2>2. QED
    BY <2>1 DEF BlockInv
<1>3. PICK n \in Nat : n = Count - 1
  BY <1>1
<1>4. Count' = n /\ offset' \in Nat /\ offset' = ElementSize * n
  BY <1>2, <1>3, CountIs
<1>5. n \in 0 .. MaxElements /\ n <= Len(document)
  BY <1>1, <1>3 DEF BlockInv
<1>6. offset' <= room
  BY <1>4 DEF BlockInv
<1>7. QED
  BY <1>4, <1>5, <1>6 DEF BlockInv, Positions

(* New elements find the documents that stayed, or those made for them.      *)
LEMMA BlockPushes ==
  ASSUME BlockInv, NEW n \in 1 .. MaxElements, PushBackElements(n)
  PROVE  BlockInv'
<1> USE BlockAssumption
<1> DEFINE fresh == [k \in 1 .. n |-> <<Len(document) + k, 0>>]
<1>1. Count \in Nat /\ n \in Nat /\ Len(document) \in Nat /\ DOMAIN document = 1 .. Len(document)
  BY LenProperties DEF BlockInv
<1>2. offset' = ElementSize * (Count + n)
  <2>1. ElementSize * (Count + n) = ElementSize * Count + n * ElementSize
    BY <1>1
  <2>2. QED
    BY <2>1 DEF BlockInv, PushBackElements
<1>3. PICK m \in Nat : m = Count + n
  BY <1>1
<1>4. Count' = m /\ offset' \in Nat /\ offset' = ElementSize * m
  BY <1>2, <1>3, CountIs
<1>5. room' \in Nat /\ offset' <= room'
  <2>1. n * ElementSize \in Nat
    BY <1>1
  <2>2. QED
    BY <2>1, RoomEnough DEF BlockInv, PushBackElements
<1>6. fresh \in Seq(Address) /\ Len(fresh) = n
  <2>1. \A k \in 1 .. n : fresh[k] \in Address
    BY <1>1 DEF PushBackElements, Address
  <2>2. QED
    BY <2>1
<1>7. document' = document \o fresh
  BY DEF PushBackElements, NewDocuments
<1> HIDE DEF fresh
<1>8. /\ document' \in Seq(Address) /\ Len(document') = Len(document) + n
      /\ \A k \in 1 .. Len(document) : document'[k] = document[k]
  <2>1. document \in Seq(Address)
    BY DEF BlockInv
  <2>2. /\ document \o fresh \in Seq(Address)
        /\ Len(document \o fresh) = Len(document) + Len(fresh)
        /\ \A k \in 1 .. Len(document) + Len(fresh) :
             (document \o fresh)[k]
               = IF k <= Len(document) THEN document[k] ELSE fresh[k - Len(document)]
    BY <1>6, <2>1, ConcatProperties
  <2>3. QED
    BY <1>1, <1>6, <1>7, <2>2
<1>9. \A k \in DOMAIN document : k \in DOMAIN document' /\ document'[k] = document[k]
  <2>1. DOMAIN document' = 1 .. Len(document) + n
    BY <1>8, LenProperties
  <2>2. QED
    BY <1>1, <1>8, <2>1
<1>10. \A k \in DOMAIN document' : document'[k][1] = k
  <2>1. ASSUME NEW k \in 1 .. Len(document) + n, ~ (k <= Len(document)) PROVE document'[k][1] = k
    <3>1. k - Len(document) \in 1 .. n /\ Len(document) + (k - Len(document)) = k
      BY <1>1, <2>1
    <3>2. document'[k] = fresh[k - Len(document)]
      BY <1>1, <1>6, <1>7, <2>1, ConcatProperties DEF BlockInv
    <3>3. fresh[k - Len(document)] = <<Len(document) + (k - Len(document)), 0>>
      BY <3>1 DEF fresh
    <3>4. QED
      BY <3>1, <3>2, <3>3
  <2>2. DOMAIN document' = 1 .. Len(document) + n
    BY <1>8, LenProperties
  <2>3. ASSUME NEW k \in 1 .. Len(document) + n, k <= Len(document) PROVE document'[k][1] = k
    BY <1>1, <1>8, <2>3 DEF BlockInv
  <2>4. QED
    BY <2>1, <2>2, <2>3
<1>11. m \in 0 .. MaxElements /\ m <= Len(document')
  <2>1. Count <= Len(document) /\ Count + n <= MaxElements
    BY DEF BlockInv, PushBackElements
  <2>2. QED
    BY <1>1, <1>3, <1>8, <2>1
<1>12. element' = element
  BY DEF PushBackElements
<1>13. QED
  BY <1>4, <1>5, <1>8, <1>9, <1>11, <1>12, <1>10 DEF BlockInv, Positions

(* Writing a document keeps it the element's, also when it moves.            *)
LEMMA BlockWrites ==
  ASSUME BlockInv, NEW i \in Positions, NEW resized \in BOOLEAN, SetDataDocument(i, resized)
  PROVE  BlockInv'
<1> USE BlockAssumption
<1> DEFINE before == document[i + 1]
           after  == IF resized THEN <<before[1], before[2] + 1>> ELSE before
<1>1. /\ i \in Nat /\ i + 1 \in DOMAIN document /\ before \in Address /\ after[2] <= MaxWrites
      /\ document' = [document EXCEPT ![i + 1] = after]
      /\ element' = [element EXCEPT ![i].doc = after]
      /\ UNCHANGED <<offset, room>>
  BY ElementOfSeq DEF SetDataDocument, Pointed, BlockInv, Positions
<1>2. after \in Address /\ after # Nothing /\ after[1] = i + 1
  <2>1. before[1] = i + 1
    BY <1>1 DEF BlockInv
  <2>2. after \in Address /\ after[1] = before[1]
    BY <1>1 DEF Address
  <2>3. QED
    BY <2>1, <2>2
<1> HIDE DEF after, before
<1>3. document' \in Seq(Address) /\ Len(document') = Len(document) /\ DOMAIN document' = DOMAIN document
  BY <1>1, <1>2, ExceptSeq DEF BlockInv
<1>4. document'[i + 1] = after /\ \A k \in DOMAIN document : k # i + 1 => document'[k] = document[k]
  BY <1>1
<1>5. /\ element' \in [Positions -> [content : Content \union {Nothing}, doc : Address \union {Nothing}]]
      /\ element'[i].doc = after /\ \A j \in Positions : j # i => element'[j] = element[j]
  BY <1>1, <1>2 DEF BlockInv
<1>6. \A j \in Positions : j + 1 = i + 1 => j = i
  BY DEF Positions
<1>7. \A j \in Positions :
        element'[j].doc # Nothing =>
          j + 1 \in DOMAIN document' /\ element'[j].doc = document'[j + 1]
  BY <1>1, <1>3, <1>4, <1>5, <1>6 DEF BlockInv
<1>8. Count' = Count
  BY <1>1 DEF Count
<1>9. \A k \in DOMAIN document' : document'[k][1] = k
  BY <1>2, <1>3, <1>4 DEF BlockInv
<1>10. QED
  BY <1>1, <1>3, <1>5, <1>7, <1>8, <1>9 DEF BlockInv, Positions

(* Every call keeps a document for every element.                            *)
LEMMA BlockInvStep ==
  ASSUME BlockInv, [BlockNext]_blockVars
  PROVE  BlockInv'
<1>1. CASE UNCHANGED blockVars
  BY <1>1 DEF BlockInv, blockVars, Count, Positions
<1>2. ASSUME NEW n \in 1 .. MaxElements, PushBackElements(n) PROVE BlockInv'
  BY <1>2, BlockPushes
<1>3. ASSUME NEW i \in Positions, EraseElement(i) PROVE BlockInv'
  BY <1>3, ErasesLast, BlockPops
<1>4. ASSUME NEW i \in Positions, NEW content \in Content, Store(i, content) PROVE BlockInv'
  <2>1. /\ UNCHANGED <<offset, room, document>>
        /\ element' = [element EXCEPT ![i].content = content]
    BY <1>4 DEF Store
  <2>2. /\ element' \in [Positions -> [content : Content \union {Nothing}, doc : Address \union {Nothing}]]
        /\ \A j \in Positions : element'[j].doc = element[j].doc
    BY <2>1 DEF BlockInv
  <2>3. Count' = Count
    BY <2>1 DEF Count
  <2>4. QED
    BY <2>1, <2>2, <2>3 DEF BlockInv, Positions
<1>5. ASSUME NEW i \in Positions, NEW resized \in BOOLEAN, SetDataDocument(i, resized) PROVE BlockInv'
  BY <1>5, BlockWrites
<1>6. ASSUME PopBackElement PROVE BlockInv'
  BY <1>6, BlockPops DEF PopBackElement
<1>7. QED
  BY <1>1, <1>2, <1>3, <1>4, <1>5, <1>6 DEF BlockNext

(* At first there are no elements and no documents.                          *)
LEMMA BlockInvInit == BlockInit => BlockInv
<1> USE BlockAssumption
<1> SUFFICES ASSUME BlockInit PROVE BlockInv
  OBVIOUS
<1>1. Count = 0
  <2>1. offset = ElementSize * 0 + 0 /\ offset \in Nat /\ 0 \in 0 .. ElementSize - 1
    BY DEF BlockInit
  <2>2. QED
    BY <2>1, QuotientIs DEF Count
<1>2. document = <<>> /\ document \in Seq(Address) /\ Len(document) = 0
  BY EmptySeq DEF BlockInit
<1>3. element \in [Positions -> [content : Content \union {Nothing}, doc : Address \union {Nothing}]]
  BY DEF BlockInit
<1>4. \A i \in Positions : element[i].doc = Nothing
  BY DEF BlockInit
<1>5. offset = ElementSize * 0 /\ offset = 0 /\ room = 0
  BY DEF BlockInit
<1>6. QED
  BY <1>1, <1>2, <1>3, <1>4, <1>5 DEF BlockInv

(* What DocumentsOwned says of the elements counted.                         *)
LEMMA BlockInvOwned == BlockInv => DocumentsOwned
<1> USE BlockAssumption
<1> SUFFICES ASSUME BlockInv PROVE DocumentsOwned
  OBVIOUS
<1>1. Count \in Nat /\ Len(document) \in Nat /\ DOMAIN document = 1 .. Len(document)
  BY LenProperties DEF BlockInv
<1>2. offset \in 0 .. MaxElements * ElementSize /\ offset % ElementSize = 0
  <2>1. offset = ElementSize * Count + 0 /\ 0 \in 0 .. ElementSize - 1 /\ offset \in Nat
    BY <1>1 DEF BlockInv
  <2>2. offset % ElementSize = 0
    BY <1>1, <2>1, QuotientIs
  <2>3. offset <= MaxElements * ElementSize
    <3>1. PICK k \in Nat : MaxElements = Count + k
      <4>1. MaxElements - Count \in Nat /\ MaxElements = Count + (MaxElements - Count)
        BY <1>1 DEF BlockInv
      <4>2. QED
        BY <4>1
    <3>2. (Count + k) * ElementSize = ElementSize * Count + ElementSize * k /\ ElementSize * k \in Nat
      BY <1>1
    <3>3. ElementSize * Count \in Nat
      BY <1>1
    <3>4. QED
      BY <2>1, <3>1, <3>2, <3>3
  <2>4. QED
    BY <2>1, <2>2, <2>3
<1>3. ASSUME NEW i \in Positions, i < Count
      PROVE  /\ i + 1 \in DOMAIN document
             /\ document[i + 1] # Nothing
             /\ element[i].doc \in {Nothing, document[i + 1]}
             /\ \A j \in Positions : j < Count /\ document[j + 1] = document[i + 1] => j = i
  <2>1. \A j \in Positions : j < Count => j \in Nat /\ j + 1 \in DOMAIN document
    BY <1>1 DEF BlockInv, Positions
  <2>2. document[i + 1] \in Address /\ i + 1 \in DOMAIN document
    BY <1>1, <1>3, <2>1, ElementOfSeq DEF BlockInv
  <2>3. \A j \in Positions : j < Count /\ document[j + 1] = document[i + 1] => j + 1 = i + 1
    BY <1>3, <2>1 DEF BlockInv
  <2>4. \A j \in Positions : j + 1 = i + 1 => j = i
    BY DEF Positions
  <2>5. QED
    BY <1>3, <2>2, <2>3, <2>4 DEF BlockInv
<1>4. QED
  BY <1>2, <1>3 DEF DocumentsOwned, ElementsInRoom, BlockInv

(* So it is in every reachable state.                                        *)
LEMMA BlockInvariant == BlockSpec => []BlockInv
BY BlockInvInit, BlockInvStep, PTL DEF BlockSpec

(* Every element has its document, not a null one, and its pointer, once     *)
(* set, is to that document where it is now.                                 *)
THEOREM DocumentsOwnedCorrect == BlockSpec => []DocumentsOwned
BY BlockInvariant, BlockInvOwned, PTL
=============================================================================
