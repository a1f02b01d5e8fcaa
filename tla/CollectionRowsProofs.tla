------------------------ MODULE CollectionRowsProofs ------------------------
(***************************************************************************)
(* Proofs about Collection, for any components, names, lists and stores:   *)
(* what the walks, the moves and the commands of one call add up to.  The  *)
(* rows of every archetype stay exact through any submit and any removal   *)
(* (RowsInv).  While no entity is removed that has commands, what is       *)
(* pending is worth applying (MatchInv), so the last call on a component   *)
(* wins and the collection implements EntityStore.  Whatever is removed,   *)
(* only the tag of an entity loses its layout: every fault is explained by *)
(* such a tag, by the entity limit or by a copy from another's row.        *)
(***************************************************************************)
EXTENDS CollectionProofs, FoldProofs

-----------------------------------------------------------------------------
(* Rows.  The free rows of an archetype are the vacant ones, each once, and  *)
(* its columns have room for all its rows and for the next r placements.     *)

\* One archetype's side of the table.
Entry == [rows : Seq(Index \union {Vacant}), free : Seq(Nat), columns : Nat]

\* The rows of an archetype that hold no entity.
VacantRows(d) == {r \in 0 .. Len(d.rows) - 1 : d.rows[r + 1] = Vacant}

\* The recorded free rows are the vacant ones, each once.
FreeExact(d) == IsInjective(d.free) /\ Recorded(d.free) = VacantRows(d)

\* The columns have every row, and room for r placements more.
Fits(d, r) ==
  Len(d.rows) <= d.columns /\ Len(d.rows) + r <= d.columns + Len(d.free)

\* Row r of d holds entity i.
Holds(d, r, i) == r < Len(d.rows) /\ d.rows[r + 1] = i

(* What the provers need to know of an archetype's side of the table.        *)
LEMMA EntryShape ==
  ASSUME NEW d \in Entry
  PROVE  /\ d.rows \in Seq(Index \union {Vacant}) /\ d.free \in Seq(Nat) /\ d.columns \in Nat
         /\ Len(d.rows) \in Nat /\ DOMAIN d.rows = 1 .. Len(d.rows)
         /\ Len(d.free) \in Nat /\ DOMAIN d.free = 1 .. Len(d.free)
         /\ \A k \in 1 .. Len(d.free) : d.free[k] \in Nat
BY LenProperties, ElementOfSeq DEF Entry

(* Taking a row by a free one: a vacant row is filled, and no longer free.   *)
LEMMA PlacedInFree ==
  ASSUME NEW d \in Entry, FreeExact(d), NEW i \in Index, d.free # <<>>
  PROVE  LET e == Placed(d, i)
         IN  /\ e \in Entry /\ FreeExact(e)
             /\ e.columns = d.columns
             /\ Len(e.rows) = Len(d.rows)
             /\ Len(e.free) = Len(d.free) - 1
             /\ TargetRow(d) \in Nat
             /\ Holds(e, TargetRow(d), i)
             /\ d.rows[TargetRow(d) + 1] = Vacant
             /\ \A k \in 0 .. Len(d.rows) - 1 :
                  k # TargetRow(d) => e.rows[k + 1] = d.rows[k + 1]
<1> USE CollectionAssumption
<1> DEFINE e == Placed(d, i)
           f == Len(d.free)
           r == LastOf(d.free)
<1>1. /\ Len(d.rows) \in Nat /\ DOMAIN d.rows = 1 .. Len(d.rows)
      /\ f \in Nat /\ DOMAIN d.free = 1 .. f
      /\ d.rows \in Seq(Index \union {Vacant}) /\ d.free \in Seq(Nat)
  BY EntryShape
<1>2. /\ f \in Nat \ {0}
      /\ r \in Nat /\ r = d.free[f]
      /\ ButLast(d.free) \in Seq(Nat)
      /\ Len(ButLast(d.free)) = f - 1
      /\ \A k \in 1 .. f - 1 : ButLast(d.free)[k] = d.free[k]
  BY <1>1, ButLastProperties DEF LastOf
<1>3. TargetRow(d) = r
  BY DEF TargetRow
<1>4. /\ e.rows = [d.rows EXCEPT ![r + 1] = i]
      /\ e.free = ButLast(d.free)
      /\ e.columns = d.columns
      /\ e = [rows |-> e.rows, free |-> e.free, columns |-> e.columns]
  BY <1>3 DEF Placed, Entry
<1>5. r \in VacantRows(d)
  BY <1>1, <1>2 DEF FreeExact, Recorded
<1>6. r + 1 \in 1 .. Len(d.rows) /\ d.rows[r + 1] = Vacant
  BY <1>1, <1>2, <1>5 DEF VacantRows
<1> HIDE DEF e, r, f
<1>7. /\ e.rows \in Seq(Index \union {Vacant})
      /\ Len(e.rows) = Len(d.rows)
      /\ e.rows[r + 1] = i
      /\ \A k \in 1 .. Len(d.rows) : k # r + 1 => e.rows[k] = d.rows[k]
  BY <1>1, <1>4, <1>6, ExceptSeq
<1>8. e \in Entry
  BY <1>2, <1>4, <1>7, EntryShape DEF Entry
<1>9. Len(e.free) = f - 1 /\ DOMAIN e.free = 1 .. f - 1
  BY <1>2, <1>4, <1>8, EntryShape
<1> HIDE DEF f
<1>10. /\ \A k \in 1 .. f - 1 : k \in 1 .. f /\ k # f /\ e.free[k] = d.free[k]
       /\ \A k \in 1 .. f : k \in 1 .. f - 1 \/ k = f
       /\ f \in 1 .. f
  BY <1>2, <1>4
<1>11. \A j, k \in 1 .. f : d.free[j] = d.free[k] => j = k
  BY <1>1 DEF FreeExact, IsInjective
<1>12. IsInjective(e.free)
  BY <1>9, <1>10, <1>11 DEF IsInjective
<1>13. Recorded(e.free) = Recorded(d.free) \ {r}
  <2>1. Recorded(e.free) = {d.free[k] : k \in 1 .. f - 1}
    BY <1>9, <1>10 DEF Recorded
  <2>2. Recorded(d.free) = {d.free[k] : k \in 1 .. f}
    BY <1>1 DEF Recorded
  <2>3. \A k \in 1 .. f - 1 : d.free[k] # r
    BY <1>2, <1>10, <1>11
  <2>4. QED
    BY <1>2, <1>10, <2>1, <2>2, <2>3
<1>14. \A k \in 0 .. Len(d.rows) - 1 :
         k + 1 \in 1 .. Len(d.rows) /\ (k # r => k + 1 # r + 1)
  BY <1>1, <1>2
<1>15. VacantRows(e) = VacantRows(d) \ {r}
  <2>1. \A k \in 0 .. Len(d.rows) - 1 :
          e.rows[k + 1] = Vacant <=> k # r /\ d.rows[k + 1] = Vacant
    BY <1>7, <1>14
  <2>2. QED
    BY <1>7, <2>1 DEF VacantRows
<1>16. Holds(e, r, i)
  BY <1>1, <1>2, <1>6, <1>7 DEF Holds
<1>17. QED
  BY <1>1, <1>2, <1>3, <1>4, <1>6, <1>7, <1>8, <1>9, <1>12, <1>13, <1>14, <1>15, <1>16
  DEF FreeExact, e, f

(* Taking a row when none is free: one more row.                             *)
LEMMA PlacedAtEnd ==
  ASSUME NEW d \in Entry, FreeExact(d), NEW i \in Index, d.free = <<>>
  PROVE  LET e == Placed(d, i)
         IN  /\ e \in Entry /\ FreeExact(e)
             /\ e.columns = d.columns
             /\ Len(e.rows) = Len(d.rows) + 1
             /\ Len(e.free) = 0 /\ Len(d.free) = 0
             /\ TargetRow(d) \in Nat
             /\ Holds(e, TargetRow(d), i)
             /\ TargetRow(d) = Len(d.rows)
             /\ \A k \in 0 .. Len(d.rows) - 1 : e.rows[k + 1] = d.rows[k + 1]
<1> USE CollectionAssumption
<1> DEFINE e == Placed(d, i)
           n == Len(d.rows)
<1>1. /\ n \in Nat /\ DOMAIN d.rows = 1 .. n
      /\ d.rows \in Seq(Index \union {Vacant}) /\ d.free \in Seq(Nat)
  BY EntryShape
<1>2. TargetRow(d) = n
  BY DEF TargetRow
<1>3. /\ e.rows = Append(d.rows, i)
      /\ e.free = d.free
      /\ e.columns = d.columns
      /\ e = [rows |-> e.rows, free |-> e.free, columns |-> e.columns]
  BY DEF Placed, Entry
<1> HIDE DEF e, n
<1>4. /\ e.rows \in Seq(Index \union {Vacant})
      /\ Len(e.rows) = n + 1
      /\ e.rows[n + 1] = i
      /\ \A k \in 1 .. n : e.rows[k] = d.rows[k]
  BY <1>1, <1>3, AppendProperties DEF n
<1>5. e \in Entry
  BY <1>1, <1>3, <1>4, EntryShape DEF Entry
<1>6. VacantRows(e) = VacantRows(d)
  <2>1. \A k \in 0 .. n - 1 : k + 1 \in 1 .. n
    BY <1>1
  <2>2. \A k \in 0 .. n : k \in 0 .. n - 1 \/ k = n
    BY <1>1
  <2>3. 0 .. n - 1 \subseteq 0 .. n /\ (n + 1) - 1 = n
    BY <1>1
  <2>4. Vacant # i
    OBVIOUS
  <2>5. QED
    BY <1>4, <2>1, <2>2, <2>3, <2>4 DEF VacantRows, n
<1>7. FreeExact(e)
  BY <1>3, <1>6 DEF FreeExact
<1>8. Len(d.free) = 0
  BY EmptySeq
<1>9. QED
  BY <1>1, <1>2, <1>3, <1>4, <1>5, <1>7, <1>8 DEF e, n, Holds

(* Leaving a row: it becomes vacant and free.                                *)
LEMMA VacatedRow ==
  ASSUME NEW d \in Entry, FreeExact(d), NEW r \in Nat, NEW i \in Index, Holds(d, r, i)
  PROVE  LET e == Vacated(d, r)
         IN  /\ e \in Entry /\ FreeExact(e)
             /\ e.columns = d.columns
             /\ Len(e.rows) = Len(d.rows)
             /\ Len(e.free) = Len(d.free) + 1
             /\ \A k \in 0 .. Len(d.rows) - 1 : k # r => e.rows[k + 1] = d.rows[k + 1]
<1> USE CollectionAssumption
<1> DEFINE e == Vacated(d, r)
           f == Len(d.free)
<1>1. /\ Len(d.rows) \in Nat /\ DOMAIN d.rows = 1 .. Len(d.rows)
      /\ f \in Nat /\ DOMAIN d.free = 1 .. f
      /\ d.rows \in Seq(Index \union {Vacant}) /\ d.free \in Seq(Nat)
  BY EntryShape
<1>2. /\ e.rows = [d.rows EXCEPT ![r + 1] = Vacant]
      /\ e.free = Append(d.free, r)
      /\ e.columns = d.columns
      /\ e = [rows |-> e.rows, free |-> e.free, columns |-> e.columns]
  <2> DEFINE after == [d.rows EXCEPT ![r + 1] = Vacant]
             freed == Append(d.free, r)
  <2>1. e = [d EXCEPT !.rows = after, !.free = freed]
    BY DEF Vacated, Entry
  <2> HIDE DEF after, freed, e
  <2>2. e.rows = after /\ e.free = freed /\ e.columns = d.columns
    BY <2>1 DEF Entry
  <2>3. e = [rows |-> e.rows, free |-> e.free, columns |-> e.columns]
    BY <2>1 DEF Entry
  <2>4. QED
    BY <2>2, <2>3 DEF after, freed
<1>3. r + 1 \in 1 .. Len(d.rows) /\ d.rows[r + 1] = i
  BY <1>1 DEF Holds
<1> HIDE DEF e, f
<1>4. /\ e.rows \in Seq(Index \union {Vacant})
      /\ Len(e.rows) = Len(d.rows)
      /\ e.rows[r + 1] = Vacant
      /\ \A k \in 1 .. Len(d.rows) : k # r + 1 => e.rows[k] = d.rows[k]
  BY <1>1, <1>2, <1>3, ExceptSeq
<1>5. /\ e.free \in Seq(Nat)
      /\ Len(e.free) = f + 1
      /\ e.free[f + 1] = r
      /\ \A k \in 1 .. f : e.free[k] = d.free[k]
  BY <1>1, <1>2, AppendProperties DEF f
<1>6. e \in Entry
  BY <1>2, <1>4, <1>5, EntryShape DEF Entry
<1>7. DOMAIN e.free = 1 .. f + 1
  BY <1>5, <1>6, EntryShape
<1>8. r \notin VacantRows(d)
  BY <1>3 DEF VacantRows
<1>9. /\ \A k \in 1 .. f : d.free[k] # r
      /\ \A j, k \in 1 .. f : d.free[j] = d.free[k] => j = k
  BY <1>1, <1>8 DEF FreeExact, Recorded, IsInjective
<1>10. /\ \A k \in 1 .. f + 1 : k \in 1 .. f \/ k = f + 1
       /\ 1 .. f \subseteq 1 .. f + 1 /\ f + 1 \in 1 .. f + 1
  BY <1>1
<1>11. IsInjective(e.free)
  BY <1>5, <1>7, <1>9, <1>10 DEF IsInjective
<1>12. Recorded(e.free) = Recorded(d.free) \union {r}
  BY <1>1, <1>5, <1>7, <1>10 DEF Recorded
<1>13. \A k \in 0 .. Len(d.rows) - 1 :
         k + 1 \in 1 .. Len(d.rows) /\ (k # r => k + 1 # r + 1)
  BY <1>1
<1>14. VacantRows(e) = VacantRows(d) \union {r}
  <2>1. r \in 0 .. Len(d.rows) - 1
    BY <1>1, <1>3
  <2>2. \A k \in 0 .. Len(d.rows) - 1 :
          e.rows[k + 1] = Vacant <=> k = r \/ d.rows[k + 1] = Vacant
    BY <1>4, <1>13
  <2>3. QED
    BY <1>4, <2>1, <2>2 DEF VacantRows
<1>15. QED
  BY <1>1, <1>2, <1>4, <1>5, <1>6, <1>11, <1>12, <1>13, <1>14 DEF FreeExact, e, f

(* Writing a row keeps the rows a sequence of entities and vacant places.    *)
LEMMA EntryUpdate ==
  ASSUME NEW d \in Entry, NEW i \in Index \union {Vacant}, NEW r \in Nat
  PROVE  [d.rows EXCEPT ![r + 1] = i] \in Seq(Index \union {Vacant})
<1> DEFINE n == Len(d.rows)
<1>1. n \in Nat /\ d.rows \in [1 .. n -> Index \union {Vacant}]
  BY EntryShape, LenProperties
<1>2. [d.rows EXCEPT ![r + 1] = i] \in [1 .. n -> Index \union {Vacant}]
  BY <1>1
<1>3. QED
  BY <1>1, <1>2, IsASeq

(* Placing an entity keeps the shape of the archetype, exact or not.         *)
LEMMA TakenType ==
  ASSUME NEW d \in Entry, NEW i \in Index
  PROVE  TargetRow(d) \in Nat /\ Placed(d, i) \in Entry
<1>1. d.rows \in Seq(Index \union {Vacant}) /\ d.free \in Seq(Nat) /\ Len(d.rows) \in Nat
  BY EntryShape
<1>2. CASE d.free # <<>>
  <2> DEFINE after == [d.rows EXCEPT ![TargetRow(d) + 1] = i]
             left == ButLast(d.free)
  <2>1. TargetRow(d) \in Nat /\ left \in Seq(Nat)
    BY <1>1, <1>2, ButLastProperties DEF TargetRow
  <2>2. after \in Seq(Index \union {Vacant})
    BY <2>1, EntryUpdate
  <2>3. Placed(d, i) = [d EXCEPT !.rows = after, !.free = left]
    BY <1>2 DEF Placed, Entry
  <2> HIDE DEF after, left
  <2>4. QED
    BY <2>1, <2>2, <2>3 DEF Entry
<1>3. CASE d.free = <<>>
  <2>1. Append(d.rows, i) \in Seq(Index \union {Vacant})
    BY <1>1, AppendProperties
  <2>2. QED
    BY <1>1, <1>3, <2>1 DEF TargetRow, Placed, Entry
<1>4. QED
  BY <1>2, <1>3

(* So does vacating a row.                                                   *)
LEMMA VacatedType ==
  ASSUME NEW d \in Entry, NEW r \in Nat
  PROVE  Vacated(d, r) \in Entry
<1> DEFINE after == [d.rows EXCEPT ![r + 1] = Vacant]
           freed == Append(d.free, r)
<1>1. after \in Seq(Index \union {Vacant})
  BY EntryUpdate
<1>2. freed \in Seq(Nat)
  BY EntryShape, AppendProperties
<1>3. Vacated(d, r) = [d EXCEPT !.rows = after, !.free = freed]
  BY DEF Vacated, Entry
<1> HIDE DEF after, freed
<1>4. QED
  BY <1>1, <1>2, <1>3 DEF Entry

-----------------------------------------------------------------------------
(* One move.  It takes a row of the target and leaves the entity's own row;  *)
(* every other entity stays where it is.                                     *)

\* Where an entity is.
Place == [node : Node, row : Nat]

\* A move of one entity between two archetypes.
MoveType == [from : Node, to : Node, entity : Index, row : Nat]

\* What a submit has made of the rows so far.
MoveState ==
  [table : [Node -> Entry], location : [Index -> Place],
   copied : SUBSET (Nat \X Nat), changed : SUBSET Node, fault : BOOLEAN]

\* Entity i is where its location says.
At(tab, loc, i) == Holds(tab[loc[i].node], loc[i].row, i)

(* A move places the entity in the target, then vacates the row it left.     *)
LEMMA MovedShape ==
  ASSUME NEW s \in MoveState, NEW m \in MoveType, NEW copies \in BOOLEAN
  PROVE  LET t    == Moved(s, m, copies)
             row  == TargetRow(s.table[m.to])
             in   == [s.table EXCEPT ![m.to] = Placed(s.table[m.to], m.entity)]
         IN  /\ t \in MoveState
             /\ row \in Nat
             /\ in \in [Node -> Entry]
             /\ t.table = [in EXCEPT ![m.from] = Vacated(in[m.from], m.row)]
             /\ t.location = [s.location EXCEPT ![m.entity] = [node |-> m.to, row |-> row]]
             /\ t.changed = s.changed
<1> DEFINE row == TargetRow(s.table[m.to])
           in  == [s.table EXCEPT ![m.to] = Placed(s.table[m.to], m.entity)]
           table2 == [in EXCEPT ![m.from] = Vacated(in[m.from], m.row)]
           place == [node |-> m.to, row |-> row]
           location2 == [s.location EXCEPT ![m.entity] = place]
           copied2 == s.copied \union (IF copies THEN {<<m.row, row>>} ELSE {})
           fault2 == s.fault \/ (copies /\ row > s.table[m.from].columns)
<1>1. /\ m.from \in Node /\ m.to \in Node /\ m.entity \in Index /\ m.row \in Nat
      /\ s.table \in [Node -> Entry] /\ s.location \in [Index -> Place]
      /\ s.copied \in SUBSET (Nat \X Nat) /\ s.changed \in SUBSET Node
      /\ s.fault \in BOOLEAN
  BY DEF MoveState, MoveType
<1>2. row \in Nat /\ in \in [Node -> Entry]
  BY <1>1, TakenType
<1>3. Moved(s, m, copies) =
        [s EXCEPT !.table = table2, !.location = location2,
                  !.copied = copied2, !.fault = fault2]
  BY DEF Moved, MoveState
<1> HIDE DEF row, in
<1>4. table2 \in [Node -> Entry]
  BY <1>1, <1>2, VacatedType
<1>5. place \in Place
  BY <1>1, <1>2 DEF Place
<1> HIDE DEF place
<1>6. location2 \in [Index -> Place]
  BY <1>1, <1>5
<1>7. copied2 \in SUBSET (Nat \X Nat) /\ fault2 \in BOOLEAN
  BY <1>1, <1>2
<1> HIDE DEF table2, location2, copied2, fault2
<1>8. Moved(s, m, copies) \in MoveState
  BY <1>3, <1>4, <1>6, <1>7 DEF MoveState
<1>9. /\ Moved(s, m, copies).table = table2
      /\ Moved(s, m, copies).location = location2
      /\ Moved(s, m, copies).changed = s.changed
  BY <1>3 DEF MoveState
<1>10. QED
  BY <1>2, <1>8, <1>9 DEF table2, location2, place, row, in

\* What holds of a table between two moves.
TableExact(tab) == \A n \in Node : FreeExact(tab[n])

(* A placement uses at most one of the rows room was made for.               *)
LEMMA RoomUsed ==
  ASSUME NEW rows \in Nat, NEW free \in Nat, NEW columns \in Nat, NEW r \in Nat,
         rows <= columns, rows + (r + 1) <= columns + free,
         NEW rows2 \in Nat, NEW free2 \in Nat,
         \/ rows2 = rows /\ free2 = free - 1
         \/ rows2 = rows + 1 /\ free2 = 0 /\ free = 0
  PROVE  rows2 <= columns /\ rows2 + r <= columns + free2
OBVIOUS

(* The row an entity moves into, and what placing it leaves as it was.       *)
LEMMA PlacedKeeps ==
  ASSUME NEW tab \in [Node -> Entry], TableExact(tab), NEW n \in Node, NEW i \in Index
  PROVE  LET in  == [tab EXCEPT ![n] = Placed(tab[n], i)]
             row == TargetRow(tab[n])
         IN  /\ in \in [Node -> Entry] /\ TableExact(in)
             /\ row \in Nat
             /\ Holds(in[n], row, i)
             /\ \A k \in Node, r \in Nat, j \in Index :
                  Holds(tab[k], r, j) => Holds(in[k], r, j) /\ (k # n \/ r # row)
             /\ \A k \in Node, r \in Nat : Fits(tab[k], r) /\ k # n => Fits(in[k], r)
             /\ \A r \in Nat : Fits(tab[n], r + 1) => Fits(in[n], r)
<1> USE CollectionAssumption
<1> DEFINE in == [tab EXCEPT ![n] = Placed(tab[n], i)]
           row == TargetRow(tab[n])
           d == tab[n]
           e == Placed(tab[n], i)
<1>1. d \in Entry /\ FreeExact(d)
  BY DEF TableExact
<1>2. /\ e \in Entry /\ FreeExact(e) /\ e.columns = d.columns
      /\ row \in Nat /\ Holds(e, row, i)
      /\ IF d.free # <<>>
         THEN /\ Len(e.rows) = Len(d.rows) /\ Len(e.free) = Len(d.free) - 1
              /\ d.rows[row + 1] = Vacant
              /\ \A k \in 0 .. Len(d.rows) - 1 : k # row => e.rows[k + 1] = d.rows[k + 1]
         ELSE /\ Len(e.rows) = Len(d.rows) + 1 /\ Len(e.free) = 0 /\ Len(d.free) = 0
              /\ row = Len(d.rows)
              /\ \A k \in 0 .. Len(d.rows) - 1 : e.rows[k + 1] = d.rows[k + 1]
  BY <1>1, PlacedInFree, PlacedAtEnd
<1>3. /\ Len(d.rows) \in Nat /\ Len(d.free) \in Nat /\ d.columns \in Nat
      /\ Len(e.rows) \in Nat /\ Len(e.free) \in Nat
  BY <1>1, <1>2, EntryShape
<1>4. ASSUME NEW r \in Nat, NEW j \in Index, Holds(d, r, j)
      PROVE  Holds(e, r, j) /\ r # row
  <2>1. r \in 0 .. Len(d.rows) - 1 /\ r < Len(d.rows) /\ d.rows[r + 1] = j
    BY <1>3, <1>4 DEF Holds
  <2>2. r # row
    BY <1>2, <1>3, <2>1
  <2>3. e.rows[r + 1] = j /\ r < Len(e.rows)
    BY <1>2, <1>3, <2>1, <2>2
  <2>4. QED
    BY <2>2, <2>3 DEF Holds
<1>5. ASSUME NEW r \in Nat, Fits(d, r + 1)
      PROVE  Fits(e, r)
  <2> HIDE DEF d, e
  <2>1. Len(d.rows) <= d.columns /\ Len(d.rows) + (r + 1) <= d.columns + Len(d.free)
    BY <1>5 DEF Fits
  <2>2. \/ Len(e.rows) = Len(d.rows) /\ Len(e.free) = Len(d.free) - 1
        \/ Len(e.rows) = Len(d.rows) + 1 /\ Len(e.free) = 0 /\ Len(d.free) = 0
    BY <1>2
  <2>3. Len(e.rows) <= d.columns /\ Len(e.rows) + r <= d.columns + Len(e.free)
    BY <1>3, <2>1, <2>2, RoomUsed
  <2>4. QED
    BY <1>2, <2>3 DEF Fits
<1>6. /\ in[n] = e
      /\ \A k \in Node : k # n => in[k] = tab[k]
      /\ in \in [Node -> Entry]
  BY <1>2
<1> HIDE DEF in, e, row
<1>7. TableExact(in)
  BY <1>2, <1>6 DEF TableExact
<1>8. \A k \in Node, r \in Nat, j \in Index :
        Holds(tab[k], r, j) => Holds(in[k], r, j) /\ (k # n \/ r # row)
  BY <1>4, <1>6
<1>9. \A k \in Node, r \in Nat : Fits(tab[k], r) /\ k # n => Fits(in[k], r)
  BY <1>6
<1>10. \A r \in Nat : Fits(tab[n], r + 1) => Fits(in[n], r)
  BY <1>5, <1>6
<1>11. QED
  BY <1>2, <1>6, <1>7, <1>8, <1>9, <1>10 DEF in, e, row

(* Vacating a row leaves every other row, and all the room, as they were.    *)
LEMMA VacatedKeeps ==
  ASSUME NEW tab \in [Node -> Entry], TableExact(tab), NEW n \in Node,
         NEW r \in Nat, NEW i \in Index, Holds(tab[n], r, i)
  PROVE  LET out == [tab EXCEPT ![n] = Vacated(tab[n], r)]
         IN  /\ out \in [Node -> Entry] /\ TableExact(out)
             /\ \A k \in Node, q \in Nat, j \in Index :
                  Holds(tab[k], q, j) /\ (k # n \/ q # r) => Holds(out[k], q, j)
             /\ \A k \in Node, q \in Nat : Fits(tab[k], q) => Fits(out[k], q)
<1> DEFINE out == [tab EXCEPT ![n] = Vacated(tab[n], r)]
           d == tab[n]
           e == Vacated(tab[n], r)
<1>1. d \in Entry /\ FreeExact(d)
  BY DEF TableExact
<1>2. /\ e \in Entry /\ FreeExact(e) /\ e.columns = d.columns
      /\ Len(e.rows) = Len(d.rows) /\ Len(e.free) = Len(d.free) + 1
      /\ \A k \in 0 .. Len(d.rows) - 1 : k # r => e.rows[k + 1] = d.rows[k + 1]
  BY <1>1, VacatedRow
<1>3. /\ Len(d.rows) \in Nat /\ Len(d.free) \in Nat /\ d.columns \in Nat
      /\ Len(e.rows) \in Nat /\ Len(e.free) \in Nat
  BY <1>1, <1>2, EntryShape
<1>4. ASSUME NEW q \in Nat, NEW j \in Index, Holds(d, q, j), q # r
      PROVE  Holds(e, q, j)
  <2>1. q \in 0 .. Len(d.rows) - 1 /\ q < Len(d.rows) /\ d.rows[q + 1] = j
    BY <1>3, <1>4 DEF Holds
  <2>2. QED
    BY <1>2, <1>4, <2>1 DEF Holds
<1>5. ASSUME NEW q \in Nat, Fits(d, q)
      PROVE  Fits(e, q)
  BY <1>2, <1>3, <1>5 DEF Fits
<1>6. /\ out[n] = e
      /\ \A k \in Node : k # n => out[k] = tab[k]
      /\ out \in [Node -> Entry]
  BY <1>2
<1> HIDE DEF out, e
<1>7. TableExact(out)
  BY <1>2, <1>6 DEF TableExact
<1>8. QED
  BY <1>4, <1>5, <1>6, <1>7 DEF out, e

(* A move of an entity that is where the move says: it is in the target      *)
(* afterwards, and no other entity is disturbed.                             *)
LEMMA MovedKeeps ==
  ASSUME NEW s \in MoveState, TableExact(s.table), NEW m \in MoveType, NEW copies \in BOOLEAN,
         s.location[m.entity] = [node |-> m.from, row |-> m.row],
         At(s.table, s.location, m.entity)
  PROVE  LET t == Moved(s, m, copies)
         IN  /\ t \in MoveState /\ TableExact(t.table)
             /\ At(t.table, t.location, m.entity)
             /\ t.location[m.entity].node = m.to
             /\ \A j \in Index : j # m.entity =>
                  /\ t.location[j] = s.location[j]
                  /\ At(s.table, s.location, j) => At(t.table, t.location, j)
             /\ t.changed = s.changed
             /\ \A k \in Node, r \in Nat : Fits(s.table[k], r) /\ k # m.to => Fits(t.table[k], r)
             /\ \A r \in Nat : Fits(s.table[m.to], r + 1) => Fits(t.table[m.to], r)
<1> DEFINE t   == Moved(s, m, copies)
           row == TargetRow(s.table[m.to])
           in  == [s.table EXCEPT ![m.to] = Placed(s.table[m.to], m.entity)]
           i   == m.entity
<1>1. /\ m.from \in Node /\ m.to \in Node /\ i \in Index /\ m.row \in Nat
      /\ s.table \in [Node -> Entry] /\ s.location \in [Index -> Place]
  BY DEF MoveState, MoveType
<1>2. /\ t \in MoveState
      /\ t.table = [in EXCEPT ![m.from] = Vacated(in[m.from], m.row)]
      /\ t.location = [s.location EXCEPT ![i] = [node |-> m.to, row |-> row]]
      /\ t.changed = s.changed
  BY MovedShape
<1>3. /\ in \in [Node -> Entry] /\ TableExact(in)
      /\ row \in Nat
      /\ Holds(in[m.to], row, i)
      /\ \A k \in Node, r \in Nat, j \in Index :
           Holds(s.table[k], r, j) => Holds(in[k], r, j) /\ (k # m.to \/ r # row)
      /\ \A k \in Node, r \in Nat : Fits(s.table[k], r) /\ k # m.to => Fits(in[k], r)
      /\ \A r \in Nat : Fits(s.table[m.to], r + 1) => Fits(in[m.to], r)
  BY <1>1, PlacedKeeps
<1> HIDE DEF t, in, row, i
<1>4. Holds(s.table[m.from], m.row, i)
  BY DEF At, i
<1>5. Holds(in[m.from], m.row, i) /\ (m.from # m.to \/ m.row # row)
  BY <1>1, <1>3, <1>4
<1>6. /\ t.table \in [Node -> Entry] /\ TableExact(t.table)
      /\ \A k \in Node, q \in Nat, j \in Index :
           Holds(in[k], q, j) /\ (k # m.from \/ q # m.row) => Holds(t.table[k], q, j)
      /\ \A k \in Node, q \in Nat : Fits(in[k], q) => Fits(t.table[k], q)
  <2> DEFINE out == [in EXCEPT ![m.from] = Vacated(in[m.from], m.row)]
  <2>1. /\ out \in [Node -> Entry] /\ TableExact(out)
        /\ \A k \in Node, q \in Nat, j \in Index :
             Holds(in[k], q, j) /\ (k # m.from \/ q # m.row) => Holds(out[k], q, j)
        /\ \A k \in Node, q \in Nat : Fits(in[k], q) => Fits(out[k], q)
    BY <1>1, <1>3, <1>5, VacatedKeeps
  <2>2. t.table = out
    BY <1>2
  <2> HIDE DEF out
  <2>3. QED
    BY <2>1, <2>2
<1>7. /\ t.location[i].node = m.to /\ t.location[i].row = row
      /\ \A j \in Index : j # i => t.location[j] = s.location[j]
  BY <1>1, <1>2
<1>8. At(t.table, t.location, i)
  BY <1>1, <1>3, <1>5, <1>6, <1>7 DEF At
<1>9. ASSUME NEW j \in Index, j # i, At(s.table, s.location, j)
      PROVE  At(t.table, t.location, j)
  <2> DEFINE k == s.location[j].node
             r == s.location[j].row
  <2>1. k \in Node /\ r \in Nat /\ Holds(s.table[k], r, j)
    BY <1>1, <1>9 DEF At, Place
  <2>2. k # m.from \/ r # m.row
    BY <1>4, <1>9, <2>1 DEF Holds
  <2>3. Holds(t.table[k], r, j)
    BY <1>3, <1>6, <2>1, <2>2
  <2>4. QED
    BY <1>7, <1>9, <2>3 DEF At
<1>10. QED
  BY <1>1, <1>2, <1>3, <1>6, <1>7, <1>8, <1>9 DEF t, i

\* No column was missed but by a copy from a row that is not the entity's.
Excused(t) == t.fault => \E c \in t.copied : c[1] # c[2]

(* An entity's own row is in the columns of its archetype, so a move that    *)
(* misses a column reads another row.                                        *)
LEMMA MovedExcused ==
  ASSUME NEW s \in MoveState, NEW m \in MoveType, NEW copies \in BOOLEAN,
         s.location[m.entity] = [node |-> m.from, row |-> m.row],
         At(s.table, s.location, m.entity), Fits(s.table[m.from], 0), Excused(s)
  PROVE  Excused(Moved(s, m, copies))
<1> DEFINE row == TargetRow(s.table[m.to])
           t == Moved(s, m, copies)
           d == s.table[m.from]
<1>1. /\ row \in Nat /\ m.row \in Nat
      /\ d.columns \in Nat /\ Len(d.rows) \in Nat
      /\ m.row < Len(d.rows) /\ Len(d.rows) <= d.columns
  <2>1. d \in Entry
    BY DEF MoveState, MoveType
  <2>2. row \in Nat
    BY MovedShape
  <2>3. Holds(d, m.row, m.entity)
    BY DEF At
  <2>4. QED
    BY <2>1, <2>2, <2>3, EntryShape DEF MoveType, Holds, Fits
<1>2. /\ t.fault = (s.fault \/ (copies /\ row > d.columns))
      /\ t.copied = s.copied \union (IF copies THEN {<<m.row, row>>} ELSE {})
  BY DEF Moved, MoveState
<1> HIDE DEF row, t, d
<1>3. CASE s.fault
  <2>1. PICK c \in s.copied : c[1] # c[2]
    BY <1>3 DEF Excused
  <2>2. c \in t.copied
    BY <1>2, <2>1
  <2>3. Excused(t)
    BY <2>1, <2>2 DEF Excused
  <2>4. QED
    BY <2>3 DEF t
<1>4. CASE ~ s.fault
  <2>1. SUFFICES ASSUME t.fault PROVE \E c \in t.copied : c[1] # c[2]
    BY DEF Excused, t
  <2>2. copies /\ row > d.columns
    BY <1>2, <1>4, <2>1
  <2>3. <<m.row, row>> \in t.copied /\ m.row # row
    BY <1>1, <1>2, <2>2
  <2>4. QED
    BY <2>3
<1>5. QED
  BY <1>3, <1>4

-----------------------------------------------------------------------------
(* Folds of the collection.  A record and a queue are sets kept in an order: *)
(* what Once, Inserted and Erased keep of them.                              *)

(* Once goes through a list from its first element to its last.              *)
LEMMA OnceRun ==
  ASSUME NEW X, NEW s \in Seq(X)
  PROVE  \E run \in [0 .. Len(s) -> Seq(X)] :
           /\ run[0] = <<>>
           /\ \A k \in 1 .. Len(s) : run[k] = Inserted(run[k - 1], s[k])
           /\ run[Len(s)] = Once(s)
<1> DEFINE n == Len(s)
           S == Seq(X)
           init == <<>>
           Op(r, c) == Inserted(r, c)
           step == [p \in (1 .. n) \X S |-> Op(p[2], s[p[1]])]
           Iter(f) == f = [T \in SUBSET DOMAIN s |->
                             IF T = {} THEN init ELSE Op(f[T \ {Max(T)}], s[Max(T)])]
           iter == CHOOSE f : Iter(f)
<1>1. n \in Nat /\ DOMAIN s = 1 .. n
  BY LenProperties
<1>2. Once(s) = iter[DOMAIN s]
  BY DEF Once, FoldLeft, MapThenFoldSet
<1>3. init \in S /\ \A k \in 1 .. n, r \in S : Op(r, s[k]) \in S
  BY <1>1, EmptySeq, ElementOfSeq, AppendProperties DEF Inserted
<1> HIDE DEF n, S, init, Op
<1>4. /\ step \in [(1 .. n) \X S -> S]
      /\ \A k \in 1 .. n, r \in S : step[<<k, r>>] = Op(r, s[k])
  BY <1>3
<1> HIDE DEF step
<1>5. PICK f : FoldTable(S, n, init, step, f)
  BY <1>1, <1>3, <1>4, FoldTableExists
<1>6. Iter(f)
  BY <1>1, <1>4, <1>5 DEF FoldTable
<1>7. Iter(iter)
  <2> HIDE DEF Iter
  <2>1. QED
    BY <1>6
<1> HIDE DEF iter
<1>8. PICK run : FoldRun(S, n, init, step, run, iter[1 .. n])
  <2>1. iter[{}] = init
    BY <1>7
  <2>2. \A T \in SUBSET (1 .. n) : T # {} /\ iter[T \ {Max(T)}] \in S =>
           iter[T] = step[<<Max(T), iter[T \ {Max(T)}]>>]
    BY <1>1, <1>4, <1>5, <1>7 DEF FoldTable
  <2>3. QED
    BY <1>1, <1>3, <1>4, <2>1, <2>2, FoldRuns
<1>9. \A k \in 1 .. n : run[k] = Op(run[k - 1], s[k])
  <2>1. \A k \in 1 .. n : k - 1 \in 0 .. n
    BY <1>1
  <2>2. QED
    BY <1>4, <1>8, <2>1 DEF FoldRun
<1>10. QED
  BY <1>1, <1>2, <1>8, <1>9 DEF FoldRun, n, S, init, Op

(* A record and a queue are sets kept in an order.                           *)
LEMMA InsertedProperties ==
  ASSUME NEW X, NEW r \in Seq(X), IsInjective(r), NEW c \in X
  PROVE  /\ Inserted(r, c) \in Seq(X)
         /\ IsInjective(Inserted(r, c))
         /\ Recorded(Inserted(r, c)) = Recorded(r) \union {c}
<1>1. Len(r) \in Nat /\ DOMAIN r = 1 .. Len(r)
  BY LenProperties
<1>2. CASE c \in Recorded(r)
  BY <1>2 DEF Inserted
<1>3. CASE c \notin Recorded(r)
  <2> DEFINE q == Inserted(r, c)
             n == Len(r)
  <2>1. q = Append(r, c)
    BY <1>3 DEF Inserted
  <2>2. /\ q \in Seq(X) /\ DOMAIN q = 1 .. n + 1
        /\ q[n + 1] = c
        /\ \A k \in 1 .. n : q[k] = r[k]
    BY <2>1, AppendProperties, LenProperties
  <2> HIDE DEF q, n
  <2>3. \A k \in 1 .. n + 1 : k \in 1 .. n \/ k = n + 1
    BY <1>1 DEF n
  <2>4. 1 .. n \subseteq 1 .. n + 1 /\ n + 1 \in 1 .. n + 1
    BY <1>1 DEF n
  <2>5. Recorded(q) = Recorded(r) \union {c}
    BY <1>1, <2>2, <2>3, <2>4 DEF Recorded, n
  <2>6. \A k \in 1 .. n : r[k] # c
    BY <1>1, <1>3 DEF Recorded, n
  <2>7. IsInjective(q)
    BY <1>1, <2>2, <2>3, <2>6 DEF IsInjective, n
  <2>8. QED
    BY <2>2, <2>5, <2>7 DEF q
<1>4. QED
  BY <1>2, <1>3

(* Erasing what is recorded leaves the rest, each still once.                *)
LEMMA ErasedProperties ==
  ASSUME NEW X, NEW r \in Seq(X), IsInjective(r), NEW c \in Recorded(r)
  PROVE  /\ Erased(r, c) \in Seq(X)
         /\ IsInjective(Erased(r, c))
         /\ Recorded(Erased(r, c)) = Recorded(r) \ {c}
<1> DEFINE n == Len(r)
           at == CHOOSE k \in DOMAIN r : r[k] = c
           q == [k \in 1 .. n - 1 |-> IF k = at THEN LastOf(r) ELSE r[k]]
<1>1. n \in Nat /\ DOMAIN r = 1 .. n /\ \A k \in 1 .. n : r[k] \in X
  BY LenProperties, ElementOfSeq
<1>2. Erased(r, c) = q
  BY DEF Erased
<1>3. at \in 1 .. n /\ r[at] = c
  BY <1>1 DEF Recorded
<1>4. n \in 1 .. n /\ LastOf(r) = r[n]
  BY <1>1, <1>3 DEF LastOf
<1> HIDE DEF n, at
<1>5. \A k \in 1 .. n - 1 : q[k] = r[IF k = at THEN n ELSE k]
  BY <1>4
<1>6. DOMAIN q = 1 .. n - 1
  OBVIOUS
<1>7. n - 1 \in Nat /\ q \in [1 .. n - 1 -> X]
  BY <1>1, <1>4
<1>8. q \in Seq(X)
  BY <1>7, IsASeq
<1> HIDE DEF q
<1>9. \A k \in 1 .. n - 1 : k \in 1 .. n /\ k # n
  BY <1>1
<1>10. \A j, k \in 1 .. n : r[j] = r[k] => j = k
  BY <1>1 DEF IsInjective
<1>11. IsInjective(q)
  BY <1>4, <1>5, <1>6, <1>9, <1>10 DEF IsInjective
<1>12. Recorded(q) \subseteq Recorded(r) \ {c}
  BY <1>1, <1>3, <1>4, <1>5, <1>6, <1>9, <1>10 DEF Recorded
<1>13. ASSUME NEW k \in 1 .. n, r[k] # c
       PROVE  r[k] \in Recorded(q)
  <2>1. CASE k = n
    <3>1. at \in 1 .. n - 1
      BY <1>1, <1>3, <1>13, <2>1
    <3>2. q[at] = r[k]
      BY <1>5, <2>1, <3>1
    <3>3. QED
      BY <1>6, <3>1, <3>2 DEF Recorded
  <2>2. CASE k # n
    <3>1. k \in 1 .. n - 1 /\ k # at
      BY <1>1, <1>3, <1>13, <2>2
    <3>2. q[k] = r[k]
      BY <1>5, <3>1
    <3>3. QED
      BY <1>6, <3>1, <3>2 DEF Recorded
  <2>3. QED
    BY <2>1, <2>2
<1>14. Recorded(r) \ {c} \subseteq Recorded(q)
  BY <1>1, <1>13 DEF Recorded
<1>15. QED
  BY <1>2, <1>8, <1>11, <1>12, <1>14

(* What is left of a list keeps every element of it, once.                   *)
LEMMA OnceProperties ==
  ASSUME NEW X, NEW s \in Seq(X)
  PROVE  Once(s) \in Seq(X) /\ IsInjective(Once(s)) /\ Recorded(Once(s)) = Recorded(s)
<1> DEFINE n == Len(s)
<1>1. PICK run \in [0 .. n -> Seq(X)] :
           /\ run[0] = <<>>
           /\ \A k \in 1 .. n : run[k] = Inserted(run[k - 1], s[k])
           /\ run[n] = Once(s)
  BY OnceRun
<1>2. n \in Nat /\ DOMAIN s = 1 .. n /\ \A k \in 1 .. n : s[k] \in X
  BY LenProperties, ElementOfSeq
<1> HIDE DEF n
<1> DEFINE P == {k \in 0 .. n : IsInjective(run[k]) /\ Recorded(run[k]) = {s[j] : j \in 1 .. k}}
<1>3. 0 \in P
  <2>1. DOMAIN run[0] = {} /\ 1 .. 0 = {} /\ 0 \in 0 .. n
    BY <1>1, <1>2
  <2>2. QED
    BY <2>1 DEF IsInjective, Recorded
<1>4. ASSUME NEW k \in 1 .. n, k - 1 \in P
      PROVE  k \in P
  <2>1. k - 1 \in 0 .. n /\ k \in 0 .. n /\ 1 .. k = (1 .. k - 1) \union {k}
    BY <1>2
  <2>2. /\ IsInjective(run[k]) /\ run[k] = Inserted(run[k - 1], s[k])
        /\ Recorded(run[k]) = Recorded(run[k - 1]) \union {s[k]}
    <3>1. run[k - 1] \in Seq(X) /\ IsInjective(run[k - 1]) /\ s[k] \in X
      BY <1>2, <1>4, <2>1
    <3>2. run[k] = Inserted(run[k - 1], s[k])
      BY <1>1
    <3> DEFINE r == run[k - 1]
               c == s[k]
    <3>3. r \in Seq(X) /\ IsInjective(r) /\ c \in X /\ run[k] = Inserted(r, c)
      BY <3>1, <3>2
    <3> HIDE DEF r, c
    <3>4. /\ IsInjective(run[k])
          /\ Recorded(run[k]) = Recorded(r) \union {c}
      BY <3>3, InsertedProperties
    <3>5. QED
      BY <3>2, <3>4 DEF r, c
  <2>3. {s[j] : j \in 1 .. k} = {s[j] : j \in 1 .. k - 1} \union {s[k]}
    BY <2>1
  <2>4. QED
    BY <1>4, <2>1, <2>2, <2>3
<1>5. n \in P
  <2> HIDE DEF P
  <2>1. \A k \in 0 .. n : k \in P
    BY <1>2, <1>3, <1>4, UpTo
  <2>2. QED
    BY <1>2, <2>1
<1>6. QED
  BY <1>1, <1>2, <1>5 DEF Recorded

-----------------------------------------------------------------------------
(* Walks.  A record is walked along the edges of the graph, which grows on   *)
(* the way.                                                                  *)

\* Where a walk from a node of g may lead.
Walks(g) ==
  {w \in [graph : SoundGraph, node : Node] : Extends(w.graph, g) /\ Exists(w.graph, w.node)}

(* One command leads from a node of a sound graph to one of a graph that     *)
(* extends it.                                                               *)
LEMMA StepSound ==
  ASSUME ArchetypesFit, NEW g \in SoundGraph, NEW w \in Walks(g), NEW command \in Commands
  PROVE  Step(w, command) \in Walks(g)
<1> DEFINE t == Step(w, command)
<1>1. /\ w.graph \in SoundGraph /\ Extends(w.graph, g) /\ Exists(w.graph, w.node)
      /\ command[2] \in Components
  BY DEF Walks, Commands
<1>2. WalkSound(w.graph, t)
  BY <1>1, WalkAddSound, WalkRemoveSound DEF Step
<1>3. t = [graph |-> t.graph, node |-> t.node]
  BY DEF Step, WalkAdd, WalkRemove
<1> HIDE DEF t
<1>4. g \in Graph /\ w.graph \in Graph /\ t.graph \in Graph
  BY <1>1, <1>2 DEF SoundGraph, WalkSound
<1>5. Extends(t.graph, g) /\ t.node \in Node
  <2>1. Extends(t.graph, g)
    BY <1>1, <1>2, <1>4, ExtendsTransitive DEF WalkSound
  <2>2. t.graph.counter \in Node /\ t.node \in 0 .. t.graph.counter
    BY <1>2, <1>4 DEF WalkSound, Exists, Graph
  <2>3. QED
    BY <2>1, <2>2, GraphAssumption DEF Node
<1>6. QED
  BY <1>2, <1>3, <1>5 DEF Walks, WalkSound, t

(* The walk of a record takes its commands in their order.                   *)
LEMMA WalkedRun ==
  ASSUME ArchetypesFit, NEW g \in SoundGraph, NEW i \in Index,
         record[i] \in Seq(Commands), Exists(g, location[i].node)
  PROVE  \E run \in [0 .. Len(record[i]) -> Walks(g)] :
           /\ run[0] = [graph |-> g, node |-> location[i].node]
           /\ \A k \in 1 .. Len(record[i]) : run[k] = Step(run[k - 1], record[i][k])
           /\ run[Len(record[i])] = Walked(g, i)
<1> DEFINE s == record[i]
           n == Len(s)
           S == Walks(g)
           init == [graph |-> g, node |-> location[i].node]
           Op(w, c) == Step(w, c)
           step == [p \in (1 .. n) \X S |-> Op(p[2], s[p[1]])]
           Iter(f) == f = [T \in SUBSET DOMAIN s |->
                             IF T = {} THEN init ELSE Op(f[T \ {Max(T)}], s[Max(T)])]
           iter == CHOOSE f : Iter(f)
<1>1. n \in Nat /\ DOMAIN s = 1 .. n /\ \A k \in 1 .. n : s[k] \in Commands
  BY LenProperties, ElementOfSeq
<1>2. Walked(g, i) = iter[DOMAIN s]
  BY DEF Walked, FoldLeft, MapThenFoldSet
<1>3. init \in S /\ \A k \in 1 .. n, w \in S : Op(w, s[k]) \in S
  <2>1. init \in S
    BY GraphAssumption DEF SoundGraph, Graph, Node, Exists, Walks, Extends
  <2>2. QED
    BY <1>1, <2>1, StepSound
<1> HIDE DEF s, n, S, init, Op
<1>4. /\ step \in [(1 .. n) \X S -> S]
      /\ \A k \in 1 .. n, w \in S : step[<<k, w>>] = Op(w, s[k])
  BY <1>3
<1> HIDE DEF step
<1>5. PICK f : FoldTable(S, n, init, step, f)
  BY <1>1, <1>3, <1>4, FoldTableExists
<1>6. Iter(f)
  BY <1>1, <1>4, <1>5 DEF FoldTable
<1>7. Iter(iter)
  <2> HIDE DEF Iter
  <2>1. QED
    BY <1>6
<1> HIDE DEF iter
<1>8. PICK run : FoldRun(S, n, init, step, run, iter[1 .. n])
  <2>1. iter[{}] = init
    BY <1>7
  <2>2. \A T \in SUBSET (1 .. n) : T # {} /\ iter[T \ {Max(T)}] \in S =>
           iter[T] = step[<<Max(T), iter[T \ {Max(T)}]>>]
    BY <1>1, <1>4, <1>5, <1>7 DEF FoldTable
  <2>3. QED
    BY <1>1, <1>3, <1>4, <2>1, <2>2, FoldRuns
<1>9. \A k \in 1 .. n : run[k] = Op(run[k - 1], s[k])
  <2>1. \A k \in 1 .. n : k - 1 \in 0 .. n
    BY <1>1
  <2>2. QED
    BY <1>4, <1>8, <2>1 DEF FoldRun
<1>10. QED
  BY <1>1, <1>2, <1>8, <1>9 DEF FoldRun, s, n, S, init, Op

(* So does the walk of a whole record.                                       *)
LEMMA WalkedSound ==
  ASSUME ArchetypesFit, NEW g \in SoundGraph, NEW i \in Index,
         record[i] \in Seq(Commands), Exists(g, location[i].node)
  PROVE  Walked(g, i) \in Walks(g)
<1>1. PICK run \in [0 .. Len(record[i]) -> Walks(g)] : run[Len(record[i])] = Walked(g, i)
  BY WalkedRun
<1>2. Len(record[i]) \in 0 .. Len(record[i])
  BY LenProperties
<1>3. QED
  BY <1>1, <1>2

-----------------------------------------------------------------------------
(* The walks of a submit make its moves, one of each entity.                 *)

\* An entity whose pending commands can be walked.
Walkable(i) ==
  record[i] # <<>> => record[i] \in Seq(Commands) /\ Exists(graph, location[i].node)

\* A move of an entity with pending commands, from where it is.
MovesOf ==
  {m \in MoveType : /\ location[m.entity] = [node |-> m.from, row |-> m.row]
                    /\ Exists(graph, m.from)
                    /\ record[m.entity] # <<>>}

\* What the walks of some entities make: each ends at a node that exists.
Walkings ==
  {s \in [graph : SoundGraph, moves : Seq(MovesOf)] :
     /\ Extends(s.graph, graph)
     /\ \A k \in DOMAIN s.moves : Exists(s.graph, s.moves[k].to)}

(* One entity of the queue: its record is walked and one move is made, or,   *)
(* with nothing recorded, nothing is.                                        *)
LEMMA OnePreprocessedSound ==
  ASSUME ArchetypesFit, graph \in SoundGraph, location \in [Index -> Place],
         NEW s \in Walkings, NEW i \in Index, Walkable(i)
  PROVE  /\ OnePreprocessed(s, i) \in Walkings
         /\ record[i] = <<>> => OnePreprocessed(s, i) = s
         /\ record[i] # <<>> => \E m \in MovesOf :
              OnePreprocessed(s, i).moves = Append(s.moves, m) /\ m.entity = i
<1>1. CASE record[i] = <<>>
  BY <1>1 DEF OnePreprocessed
<1>2. CASE record[i] # <<>>
  <2> DEFINE walk == Walked(s.graph, i)
             m == Move(location[i].node, walk.node, i)
             t == [graph |-> walk.graph, moves |-> Append(s.moves, m)]
             n == Len(s.moves)
  <2>1. OnePreprocessed(s, i) = t
    BY <1>2 DEF OnePreprocessed
  <2>2. /\ s.graph \in SoundGraph /\ s.graph \in Graph /\ graph \in Graph
        /\ s.moves \in Seq(MovesOf)
        /\ Extends(s.graph, graph)
        /\ \A k \in DOMAIN s.moves : Exists(s.graph, s.moves[k].to)
        /\ Exists(graph, location[i].node)
        /\ record[i] \in Seq(Commands)
    BY <1>2 DEF Walkings, SoundGraph, Walkable
  <2>3. Exists(s.graph, location[i].node)
    BY <2>2, ExtendsExists
  <2>4. walk \in Walks(s.graph)
    BY <2>2, <2>3, WalkedSound
  <2>5. /\ walk.graph \in SoundGraph /\ walk.graph \in Graph
        /\ Extends(walk.graph, s.graph)
        /\ Exists(walk.graph, walk.node) /\ walk.node \in Node
    BY <2>4 DEF Walks, SoundGraph
  <2> HIDE DEF walk
  <2>6. Extends(walk.graph, graph)
    BY <2>2, <2>5, ExtendsTransitive
  <2>7. /\ m.entity = i /\ m.from = location[i].node /\ m.row = location[i].row
        /\ m.to = walk.node
        /\ m = [from |-> m.from, to |-> m.to, entity |-> m.entity, row |-> m.row]
    BY DEF Move
  <2> HIDE DEF m
  <2>8. m \in MovesOf
    <3>1. location[i] = [node |-> m.from, row |-> m.row] /\ m.from \in Node /\ m.row \in Nat
      BY <2>7 DEF Place
    <3>2. m \in MoveType
      BY <2>5, <2>7, <3>1 DEF MoveType
    <3>3. QED
      BY <1>2, <2>2, <2>7, <3>1, <3>2 DEF MovesOf
  <2>9. /\ n \in Nat /\ DOMAIN s.moves = 1 .. n
        /\ t.moves \in Seq(MovesOf) /\ DOMAIN t.moves = 1 .. n + 1
        /\ t.moves[n + 1] = m
        /\ \A k \in 1 .. n : t.moves[k] = s.moves[k]
    BY <2>2, <2>8, AppendProperties, LenProperties
  <2>10. ASSUME NEW k \in 1 .. n + 1
         PROVE  Exists(walk.graph, t.moves[k].to)
    <3>1. CASE k = n + 1
      BY <2>5, <2>7, <2>9, <3>1
    <3>2. CASE k # n + 1
      <4>1. k \in 1 .. n
        BY <2>9, <3>2
      <4>2. Exists(s.graph, s.moves[k].to)
        BY <2>2, <2>9, <4>1
      <4>3. QED
        BY <2>2, <2>5, <2>9, <4>1, <4>2, ExtendsExists
    <3>3. QED
      BY <3>1, <3>2
  <2>11. t \in Walkings
    BY <2>5, <2>6, <2>9, <2>10 DEF Walkings
  <2>12. t.moves = Append(s.moves, m)
    OBVIOUS
  <2> HIDE DEF t
  <2>13. QED
    BY <1>2, <2>1, <2>7, <2>8, <2>11, <2>12
<1>3. QED
  BY <1>1, <1>2

\* The entities that some moves are of.
Movers(moves) == {moves[k].entity : k \in DOMAIN moves}

\* No entity has two moves.
OneMoveEach(moves) ==
  \A j, k \in DOMAIN moves : moves[j].entity = moves[k].entity => j = k

(* One move more.                                                            *)
LEMMA AppendedMove ==
  ASSUME NEW X, NEW moves \in Seq(X), NEW m \in X
  PROVE  /\ Movers(Append(moves, m)) = Movers(moves) \union {m.entity}
         /\ Recorded(Append(moves, m)) = Recorded(moves) \union {m}
         /\ OneMoveEach(moves) /\ m.entity \notin Movers(moves)
              => OneMoveEach(Append(moves, m))
<1> DEFINE n == Len(moves)
           t == Append(moves, m)
<1>1. /\ n \in Nat /\ DOMAIN moves = 1 .. n
      /\ t \in Seq(X) /\ DOMAIN t = 1 .. n + 1
      /\ t[n + 1] = m
      /\ \A k \in 1 .. n : t[k] = moves[k]
  BY AppendProperties, LenProperties
<1> HIDE DEF n, t
<1>2. /\ \A k \in 1 .. n + 1 : k \in 1 .. n \/ k = n + 1
      /\ 1 .. n \subseteq 1 .. n + 1 /\ n + 1 \in 1 .. n + 1
  BY <1>1
<1>3. Movers(t) = Movers(moves) \union {m.entity}
  BY <1>1, <1>2 DEF Movers
<1>4. Recorded(t) = Recorded(moves) \union {m}
  BY <1>1, <1>2 DEF Recorded
<1>5. ASSUME OneMoveEach(moves), m.entity \notin Movers(moves)
      PROVE  OneMoveEach(t)
  <2>1. \A k \in 1 .. n : moves[k].entity # m.entity
    BY <1>1, <1>5 DEF Movers
  <2>2. \A j, k \in 1 .. n : moves[j].entity = moves[k].entity => j = k
    BY <1>1, <1>5 DEF OneMoveEach
  <2>3. QED
    BY <1>1, <1>2, <2>1, <2>2 DEF OneMoveEach
<1>6. QED
  BY <1>3, <1>4, <1>5 DEF t

(* The queue is walked from its first entity to its last.                    *)
LEMMA PreprocessedRun ==
  ASSUME ArchetypesFit, graph \in SoundGraph, location \in [Index -> Place],
         dirty_entities \in Seq(Index), \A i \in Index : Walkable(i)
  PROVE  \E run \in [0 .. Len(Once(dirty_entities)) -> Walkings] :
           /\ run[0] = [graph |-> graph, moves |-> <<>>]
           /\ \A k \in 1 .. Len(Once(dirty_entities)) :
                run[k] = OnePreprocessed(run[k - 1], Once(dirty_entities)[k])
           /\ run[Len(Once(dirty_entities))] = Preprocessed
<1> DEFINE s == Once(dirty_entities)
           n == Len(s)
           S == Walkings
           init == [graph |-> graph, moves |-> <<>>]
           Op(w, i) == OnePreprocessed(w, i)
           step == [p \in (1 .. n) \X S |-> Op(p[2], s[p[1]])]
           Iter(f) == f = [T \in SUBSET DOMAIN s |->
                             IF T = {} THEN init ELSE Op(f[T \ {Max(T)}], s[Max(T)])]
           iter == CHOOSE f : Iter(f)
<1>1. n \in Nat /\ DOMAIN s = 1 .. n /\ \A k \in 1 .. n : s[k] \in Index
  <2>1. s \in Seq(Index)
    BY OnceProperties
  <2>2. QED
    BY <2>1, LenProperties, ElementOfSeq
<1>2. Preprocessed = iter[DOMAIN s]
  BY DEF Preprocessed, FoldLeft, MapThenFoldSet
<1>3. init \in S /\ \A k \in 1 .. n, w \in S : Op(w, s[k]) \in S
  <2>1. init \in S
    <3>1. /\ init.graph = graph /\ init.moves = <<>> /\ <<>> \in Seq(MovesOf)
          /\ DOMAIN init.moves = {} /\ Extends(graph, graph)
      BY EmptySeq, GraphAssumption DEF SoundGraph, Graph, Node, Extends
    <3>2. QED
      BY <3>1 DEF Walkings
  <2>2. QED
    BY <1>1, <2>1, OnePreprocessedSound
<1> HIDE DEF s, n, S, init, Op
<1>4. /\ step \in [(1 .. n) \X S -> S]
      /\ \A k \in 1 .. n, w \in S : step[<<k, w>>] = Op(w, s[k])
  BY <1>3
<1> HIDE DEF step
<1>5. PICK f : FoldTable(S, n, init, step, f)
  BY <1>1, <1>3, <1>4, FoldTableExists
<1>6. Iter(f)
  BY <1>1, <1>4, <1>5 DEF FoldTable
<1>7. Iter(iter)
  <2> HIDE DEF Iter
  <2>1. QED
    BY <1>6
<1> HIDE DEF iter
<1>8. PICK run : FoldRun(S, n, init, step, run, iter[1 .. n])
  <2>1. iter[{}] = init
    BY <1>7
  <2>2. \A T \in SUBSET (1 .. n) : T # {} /\ iter[T \ {Max(T)}] \in S =>
           iter[T] = step[<<Max(T), iter[T \ {Max(T)}]>>]
    BY <1>1, <1>4, <1>5, <1>7 DEF FoldTable
  <2>3. QED
    BY <1>1, <1>3, <1>4, <2>1, <2>2, FoldRuns
<1>9. \A k \in 1 .. n : run[k] = Op(run[k - 1], s[k])
  <2>1. \A k \in 1 .. n : k - 1 \in 0 .. n
    BY <1>1
  <2>2. QED
    BY <1>4, <1>8, <2>1 DEF FoldRun
<1>10. QED
  BY <1>1, <1>2, <1>8, <1>9 DEF FoldRun, s, n, S, init, Op

(* What the walks of the queue make: one move of every entity of the queue   *)
(* that has commands, and of no other.                                       *)
LEMMA PreprocessedProperties ==
  ASSUME ArchetypesFit, graph \in SoundGraph, location \in [Index -> Place],
         dirty_entities \in Seq(Index), \A i \in Index : Walkable(i)
  PROVE  /\ Preprocessed \in Walkings
         /\ OneMoveEach(Preprocessed.moves)
         /\ Movers(Preprocessed.moves) =
              {i \in Recorded(dirty_entities) : record[i] # <<>>}
<1> DEFINE q == Once(dirty_entities)
           n == Len(q)
           W(k) == {q[j] : j \in 1 .. k}
<1>1. PICK run \in [0 .. n -> Walkings] :
           /\ run[0] = [graph |-> graph, moves |-> <<>>]
           /\ \A k \in 1 .. n : run[k] = OnePreprocessed(run[k - 1], q[k])
           /\ run[n] = Preprocessed
  BY PreprocessedRun
<1>2. /\ n \in Nat /\ DOMAIN q = 1 .. n
      /\ \A k \in 1 .. n : q[k] \in Index
      /\ \A j, k \in 1 .. n : q[j] = q[k] => j = k
      /\ Recorded(dirty_entities) = W(n)
  <2>1. q \in Seq(Index) /\ IsInjective(q) /\ Recorded(q) = Recorded(dirty_entities)
    BY OnceProperties
  <2>2. n \in Nat /\ DOMAIN q = 1 .. n /\ \A k \in 1 .. n : q[k] \in Index
    BY <2>1, LenProperties, ElementOfSeq
  <2>3. QED
    BY <2>1, <2>2 DEF IsInjective, Recorded
<1> HIDE DEF q, n
<1> DEFINE P == {k \in 0 .. n : /\ OneMoveEach(run[k].moves)
                                /\ Movers(run[k].moves) = {i \in W(k) : record[i] # <<>>}}
<1>3. 0 \in P
  <2>1. run[0].moves = <<>> /\ DOMAIN run[0].moves = {} /\ 1 .. 0 = {} /\ 0 \in 0 .. n
    BY <1>1, <1>2
  <2>2. QED
    BY <2>1 DEF OneMoveEach, Movers
<1>4. ASSUME NEW k \in 1 .. n, k - 1 \in P
      PROVE  k \in P
  <2> DEFINE s == run[k - 1]
             t == run[k]
             i == q[k]
  <2>1. k - 1 \in 0 .. n /\ k \in 0 .. n /\ 1 .. k = (1 .. k - 1) \union {k}
    BY <1>2
  <2>2. s \in Walkings /\ i \in Index /\ t = OnePreprocessed(s, i) /\ Walkable(i)
    BY <1>1, <1>2, <2>1
  <2>3. i \notin W(k - 1) /\ W(k) = W(k - 1) \union {i}
    BY <1>2, <2>1
  <2>4. OneMoveEach(s.moves) /\ Movers(s.moves) = {j \in W(k - 1) : record[j] # <<>>}
    BY <1>4
  <2> HIDE DEF s, t, i, W
  <2>5. CASE record[i] = <<>>
    <3>1. t = s
      BY <2>2, <2>5, OnePreprocessedSound
    <3>2. {j \in W(k) : record[j] # <<>>} = {j \in W(k - 1) : record[j] # <<>>}
      BY <2>3, <2>5
    <3>3. QED
      BY <2>1, <2>4, <3>1, <3>2 DEF t
  <2>6. CASE record[i] # <<>>
    <3>1. PICK m \in MovesOf : t.moves = Append(s.moves, m) /\ m.entity = i
      BY <2>2, <2>6, OnePreprocessedSound
    <3>2. s.moves \in Seq(MovesOf)
      BY <2>2 DEF Walkings
    <3>3. Movers(t.moves) = Movers(s.moves) \union {i} /\ OneMoveEach(t.moves)
      BY <2>3, <2>4, <3>1, <3>2, AppendedMove
    <3>4. {j \in W(k) : record[j] # <<>>} = {j \in W(k - 1) : record[j] # <<>>} \union {i}
      BY <2>3, <2>6
    <3>5. QED
      BY <2>1, <2>4, <3>3, <3>4 DEF t
  <2>7. QED
    BY <2>5, <2>6
<1>5. n \in P
  <2> HIDE DEF P
  <2>1. \A k \in 0 .. n : k \in P
    BY <1>2, <1>3, <1>4, UpTo
  <2>2. QED
    BY <1>2, <2>1
<1>6. n \in 0 .. n
  BY <1>2
<1>7. QED
  BY <1>1, <1>2, <1>5, <1>6

-----------------------------------------------------------------------------
(* The moves of a submit are batched by the archetypes they are between.     *)

\* The archetypes a move is between.
KeyOf(m) == <<m.from, m.to>>

\* A move enters the batch of its archetypes.
OneBatched(key, batch, m) ==
  IF <<m.from, m.to>> = key THEN Append(batch, m) ELSE batch

(* A batch is taken from the moves in their order.                           *)
LEMMA BatchRun ==
  ASSUME NEW X, NEW moves \in Seq(X), NEW key
  PROVE  \E run \in [0 .. Len(moves) -> Seq(X)] :
           /\ run[0] = <<>>
           /\ \A k \in 1 .. Len(moves) : run[k] = OneBatched(key, run[k - 1], moves[k])
           /\ run[Len(moves)] = Batch(key, moves)
<1> DEFINE s == moves
           n == Len(s)
           S == Seq(X)
           init == <<>>
           Op(batch, m) == IF <<m.from, m.to>> = key THEN Append(batch, m) ELSE batch
           step == [p \in (1 .. n) \X S |-> Op(p[2], s[p[1]])]
           Iter(f) == f = [T \in SUBSET DOMAIN s |->
                             IF T = {} THEN init ELSE Op(f[T \ {Max(T)}], s[Max(T)])]
           iter == CHOOSE f : Iter(f)
<1>1. n \in Nat /\ DOMAIN s = 1 .. n
  BY LenProperties
<1>2. Batch(key, moves) = iter[DOMAIN s]
  BY DEF Batch, FoldLeft, MapThenFoldSet
<1>3. init \in S /\ \A k \in 1 .. n, r \in S : Op(r, s[k]) \in S
  BY <1>1, EmptySeq, ElementOfSeq, AppendProperties
<1> HIDE DEF s, n, S, init, Op
<1>4. /\ step \in [(1 .. n) \X S -> S]
      /\ \A k \in 1 .. n, r \in S : step[<<k, r>>] = Op(r, s[k])
  BY <1>3
<1> HIDE DEF step
<1>5. PICK f : FoldTable(S, n, init, step, f)
  BY <1>1, <1>3, <1>4, FoldTableExists
<1>6. Iter(f)
  BY <1>1, <1>4, <1>5 DEF FoldTable
<1>7. Iter(iter)
  <2> HIDE DEF Iter
  <2>1. QED
    BY <1>6
<1> HIDE DEF iter
<1>8. PICK run : FoldRun(S, n, init, step, run, iter[1 .. n])
  <2>1. iter[{}] = init
    BY <1>7
  <2>2. \A T \in SUBSET (1 .. n) : T # {} /\ iter[T \ {Max(T)}] \in S =>
           iter[T] = step[<<Max(T), iter[T \ {Max(T)}]>>]
    BY <1>1, <1>4, <1>5, <1>7 DEF FoldTable
  <2>3. QED
    BY <1>1, <1>3, <1>4, <2>1, <2>2, FoldRuns
<1>9. \A k \in 1 .. n : run[k] = Op(run[k - 1], s[k])
  <2>1. \A k \in 1 .. n : k - 1 \in 0 .. n
    BY <1>1
  <2>2. QED
    BY <1>4, <1>8, <2>1 DEF FoldRun
<1>10. QED
  BY <1>1, <1>2, <1>8, <1>9 DEF FoldRun, s, n, S, init, Op, OneBatched

(* A batch has the moves between two archetypes, each entity's once.         *)
LEMMA BatchProperties ==
  ASSUME NEW X, NEW moves \in Seq(X), OneMoveEach(moves), NEW key
  PROVE  /\ Batch(key, moves) \in Seq(X)
         /\ OneMoveEach(Batch(key, moves))
         /\ Recorded(Batch(key, moves)) = {m \in Recorded(moves) : KeyOf(m) = key}
<1> DEFINE n == Len(moves)
           W(k) == {moves[j] : j \in 1 .. k}
           W2(k) == {m \in W(k) : KeyOf(m) = key}
<1>1. PICK run \in [0 .. n -> Seq(X)] :
           /\ run[0] = <<>>
           /\ \A k \in 1 .. n : run[k] = OneBatched(key, run[k - 1], moves[k])
           /\ run[n] = Batch(key, moves)
  BY BatchRun
<1>2. /\ n \in Nat /\ DOMAIN moves = 1 .. n
      /\ \A k \in 1 .. n : moves[k] \in X
      /\ Recorded(moves) = W(n)
  BY LenProperties, ElementOfSeq DEF Recorded
<1>3. \A j, k \in 1 .. n : moves[j].entity = moves[k].entity => j = k
  BY <1>2 DEF OneMoveEach
<1> HIDE DEF n
<1> DEFINE P == {k \in 0 .. n : OneMoveEach(run[k]) /\ Recorded(run[k]) = W2(k)}
<1>4. 0 \in P
  <2>1. run[0] = <<>> /\ DOMAIN run[0] = {} /\ 1 .. 0 = {} /\ 0 \in 0 .. n
    BY <1>1, <1>2
  <2>2. QED
    BY <2>1 DEF OneMoveEach, Recorded
<1>5. ASSUME NEW k \in 1 .. n, k - 1 \in P
      PROVE  k \in P
  <2> DEFINE s == run[k - 1]
             t == run[k]
             m == moves[k]
  <2>1. k - 1 \in 0 .. n /\ k \in 0 .. n /\ 1 .. k = (1 .. k - 1) \union {k}
    BY <1>2
  <2>2. s \in Seq(X) /\ m \in X /\ t = OneBatched(key, s, m)
    BY <1>1, <1>2, <2>1
  <2>3. W(k) = W(k - 1) \union {m} /\ \A e \in W(k - 1) : e.entity # m.entity
    BY <1>2, <1>3, <2>1
  <2>4. OneMoveEach(s) /\ Recorded(s) = W2(k - 1)
    BY <1>5
  <2> HIDE DEF s, t, m, W
  <2>5. CASE KeyOf(m) # key
    <3>1. t = s
      BY <2>2, <2>5 DEF OneBatched, KeyOf
    <3>2. W2(k) = W2(k - 1)
      BY <2>3, <2>5
    <3>3. QED
      BY <2>1, <2>4, <3>1, <3>2 DEF t
  <2>6. CASE KeyOf(m) = key
    <3>1. t = Append(s, m)
      BY <2>2, <2>6 DEF OneBatched, KeyOf
    <3>2. m.entity \notin Movers(s)
      <4>1. \A j \in DOMAIN s : s[j] \in W(k - 1)
        BY <2>4 DEF Recorded
      <4>2. QED
        BY <2>3, <4>1 DEF Movers
    <3>3. OneMoveEach(t) /\ Recorded(t) = Recorded(s) \union {m}
      BY <2>2, <2>4, <3>1, <3>2, AppendedMove
    <3>4. W2(k) = W2(k - 1) \union {m}
      BY <2>3, <2>6
    <3>5. QED
      BY <2>1, <2>4, <3>3, <3>4 DEF t
  <2>7. QED
    BY <2>5, <2>6
<1>6. n \in P
  <2> HIDE DEF P
  <2>1. \A k \in 0 .. n : k \in P
    BY <1>2, <1>4, <1>5, UpTo
  <2>2. QED
    BY <1>2, <2>1
<1>7. n \in 0 .. n
  BY <1>2
<1>8. QED
  BY <1>1, <1>2, <1>6, <1>7

-----------------------------------------------------------------------------
(* The moves of one batch.                                                   *)

(* Room made for a batch is enough for it.                                   *)
LEMMA EmplacedRoom ==
  ASSUME NEW d \in Entry, Fits(d, 0), NEW need \in Nat
  PROVE  /\ Emplaced(d, need) \in Entry
         /\ Emplaced(d, need).rows = d.rows /\ Emplaced(d, need).free = d.free
         /\ Fits(Emplaced(d, need), need)
<1>1. d.columns \in Nat /\ Len(d.rows) \in Nat /\ Len(d.free) \in Nat
  BY EntryShape
<1>2. CASE Len(d.free) > need
  <2>1. Emplaced(d, need) = d
    BY <1>2 DEF Emplaced
  <2>2. QED
    BY <1>1, <1>2, <2>1 DEF Fits
<1>3. CASE ~ (Len(d.free) > need)
  <2> DEFINE c == d.columns + (need - Len(d.free))
             e == Emplaced(d, need)
  <2>1. c \in Nat
    BY <1>1, <1>3
  <2>2. e = [d EXCEPT !.columns = c]
    BY <1>3 DEF Emplaced, Entry
  <2> HIDE DEF e, c
  <2>3. e \in Entry /\ e.rows = d.rows /\ e.free = d.free /\ e.columns = c
    BY <2>1, <2>2 DEF Entry
  <2>4. Fits(e, need)
    BY <1>1, <1>3, <2>3 DEF Fits, c
  <2>5. QED
    BY <2>3, <2>4 DEF e
<1>4. QED
  BY <1>2, <1>3

(* Making room in one archetype disturbs no row of any.                      *)
LEMMA EmplacedKeeps ==
  ASSUME NEW tab \in [Node -> Entry], TableExact(tab), \A n \in Node : Fits(tab[n], 0),
         NEW n \in Node, NEW need \in Nat
  PROVE  LET out == [tab EXCEPT ![n] = Emplaced(tab[n], need)]
         IN  /\ out \in [Node -> Entry] /\ TableExact(out)
             /\ Fits(out[n], need)
             /\ \A k \in Node : k # n => Fits(out[k], 0)
             /\ \A k \in Node, r \in Nat, j \in Index : Holds(tab[k], r, j) => Holds(out[k], r, j)
<1> DEFINE d == tab[n]
           e == Emplaced(tab[n], need)
           out == [tab EXCEPT ![n] = e]
<1>1. /\ e \in Entry /\ e.rows = d.rows /\ e.free = d.free /\ Fits(e, need)
  BY EmplacedRoom
<1> HIDE DEF e
<1>2. out \in [Node -> Entry] /\ out[n] = e /\ \A k \in Node : k # n => out[k] = tab[k]
  BY <1>1
<1> HIDE DEF out
<1>3. TableExact(out)
  BY <1>1, <1>2 DEF TableExact, FreeExact, VacantRows
<1>4. \A k \in Node, r \in Nat, j \in Index : Holds(tab[k], r, j) => Holds(out[k], r, j)
  BY <1>1, <1>2 DEF Holds
<1>5. QED
  BY <1>1, <1>2, <1>3, <1>4 DEF out, e

(* Before a group is moved its target has room for all of it, both           *)
(* archetypes are reported, and no entity has moved.                         *)
LEMMA ReadiedKeeps ==
  ASSUME NEW g, NEW s \in MoveState, TableExact(s.table),
         \A n \in Node : Fits(s.table[n], 0),
         NEW key \in Node \X Node, NEW need \in Nat
  PROVE  LET t == Readied(g, s, key, need)
         IN  /\ t \in MoveState /\ TableExact(t.table)
             /\ Fits(t.table[key[2]], need)
             /\ \A n \in Node : n # key[2] => Fits(t.table[n], 0)
             /\ t.location = s.location
             /\ t.changed = s.changed \union {key[1], key[2]}
             /\ \A j \in Index : At(s.table, s.location, j) => At(t.table, t.location, j)
             /\ Shared(g, key) \subseteq layouts /\ Excused(s) => Excused(t)
<1> DEFINE t == Readied(g, s, key, need)
           d == Emplaced(s.table[key[2]], need)
           out == [s.table EXCEPT ![key[2]] = d]
           fault2 == s.fault \/ ~ (Shared(g, key) \subseteq layouts)
           changed2 == s.changed \union Touched(key[1], key[2])
<1>1. /\ s.table \in [Node -> Entry] /\ s.location \in [Index -> Place]
      /\ s.copied \in SUBSET (Nat \X Nat) /\ s.changed \in SUBSET Node
      /\ s.fault \in BOOLEAN /\ key[1] \in Node /\ key[2] \in Node
  BY DEF MoveState
<1>2. /\ out \in [Node -> Entry] /\ TableExact(out)
      /\ Fits(out[key[2]], need)
      /\ \A n \in Node : n # key[2] => Fits(out[n], 0)
      /\ \A k \in Node, r \in Nat, j \in Index :
           Holds(s.table[k], r, j) => Holds(out[k], r, j)
  BY <1>1, EmplacedKeeps
<1>3. fault2 \in BOOLEAN
  OBVIOUS
<1>4. changed2 = s.changed \union {key[1], key[2]} /\ changed2 \in SUBSET Node
  BY <1>1 DEF Touched
<1>5. t = [s EXCEPT !.table = out, !.fault = fault2, !.changed = changed2]
  BY DEF Readied, MoveState
<1>10. t.fault = fault2 /\ t.copied = s.copied
  BY <1>5 DEF MoveState
<1>11. Shared(g, key) \subseteq layouts /\ Excused(s) => Excused(t)
  <2> HIDE DEF t
  <2>1. QED
    BY <1>10 DEF Excused
<1> HIDE DEF out, fault2, changed2, t
<1>6. t \in MoveState
  BY <1>1, <1>2, <1>3, <1>4, <1>5 DEF MoveState
<1>7. t.table = out /\ t.location = s.location /\ t.changed = changed2
  BY <1>5 DEF MoveState
<1>8. \A j \in Index : At(s.table, s.location, j) => At(t.table, t.location, j)
  BY <1>1, <1>2, <1>7 DEF At, Place
<1>9. QED
  BY <1>2, <1>4, <1>6, <1>7, <1>8, <1>11 DEF t

\* Whether the columns of the old archetype are copied.
Copies(g, key) == \E c \in Shared(g, key) : HasData(c)

(* The moves of a group are made one after another.                          *)
LEMMA GroupRun ==
  ASSUME NEW g, NEW s0, NEW key, NEW moves, Batch(key, moves) \in Seq(MoveType),
         Readied(g, s0, key, Len(Batch(key, moves))) \in MoveState
  PROVE  \E run \in [0 .. Len(Batch(key, moves)) -> MoveState] :
           /\ run[0] = Readied(g, s0, key, Len(Batch(key, moves)))
           /\ \A k \in 1 .. Len(Batch(key, moves)) :
                run[k] = Moved(run[k - 1], Batch(key, moves)[k], Copies(g, key))
           /\ run[Len(Batch(key, moves))] = MovedGroup(g, s0, key, moves)
<1> DEFINE s == Batch(key, moves)
           n == Len(s)
           S == MoveState
           copies == \E c \in Shared(g, key) : HasData(c)
           init == Readied(g, s0, key, Len(s))
           Op(t, m) == Moved(t, m, copies)
           step == [p \in (1 .. n) \X S |-> Op(p[2], s[p[1]])]
           Iter(f) == f = [T \in SUBSET DOMAIN s |->
                             IF T = {} THEN init ELSE Op(f[T \ {Max(T)}], s[Max(T)])]
           iter == CHOOSE f : Iter(f)
<1>1. n \in Nat /\ DOMAIN s = 1 .. n /\ \A k \in 1 .. n : s[k] \in MoveType
  BY LenProperties, ElementOfSeq
<1>2. MovedGroup(g, s0, key, moves) = iter[DOMAIN s]
  BY DEF MovedGroup, FoldLeft, MapThenFoldSet
<1>3. init \in S /\ \A k \in 1 .. n, t \in S : Op(t, s[k]) \in S
  <2>1. copies \in BOOLEAN
    OBVIOUS
  <2> HIDE DEF copies
  <2>2. ASSUME NEW k \in 1 .. n, NEW t \in S
        PROVE  Op(t, s[k]) \in S
    BY <1>1, <2>1, MovedShape
  <2>3. QED
    BY <2>2
<1> HIDE DEF s, n, S, init, Op
<1>4. /\ step \in [(1 .. n) \X S -> S]
      /\ \A k \in 1 .. n, r \in S : step[<<k, r>>] = Op(r, s[k])
  BY <1>3
<1> HIDE DEF step
<1>5. PICK f : FoldTable(S, n, init, step, f)
  BY <1>1, <1>3, <1>4, FoldTableExists
<1>6. Iter(f)
  BY <1>1, <1>4, <1>5 DEF FoldTable
<1>7. Iter(iter)
  <2> HIDE DEF Iter
  <2>1. QED
    BY <1>6
<1> HIDE DEF iter
<1>8. PICK run : FoldRun(S, n, init, step, run, iter[1 .. n])
  <2>1. iter[{}] = init
    BY <1>7
  <2>2. \A T \in SUBSET (1 .. n) : T # {} /\ iter[T \ {Max(T)}] \in S =>
           iter[T] = step[<<Max(T), iter[T \ {Max(T)}]>>]
    BY <1>1, <1>4, <1>5, <1>7 DEF FoldTable
  <2>3. QED
    BY <1>1, <1>3, <1>4, <2>1, <2>2, FoldRuns
<1>9. \A k \in 1 .. n : run[k] = Op(run[k - 1], s[k])
  <2>1. \A k \in 1 .. n : k - 1 \in 0 .. n
    BY <1>1
  <2>2. QED
    BY <1>4, <1>8, <2>1 DEF FoldRun
<1>10. QED
  BY <1>1, <1>2, <1>8, <1>9 DEF FoldRun, s, n, S, init, Op, Copies

\* What entity m.entity was at when its move was decided, it still is.
Awaited(s, m) ==
  /\ s.location[m.entity] = [node |-> m.from, row |-> m.row]
  /\ At(s.table, s.location, m.entity)

\* t follows from s by the first k moves of a batch between two archetypes,
\* with room for the rest of it.
GroupInv(s, key, batch, k, t) ==
  /\ TableExact(t.table)
  /\ Fits(t.table[key[2]], Len(batch) - k)
  /\ \A n \in Node : n # key[2] => Fits(t.table[n], 0)
  /\ t.changed = s.changed \union {key[1], key[2]}
  /\ \A j \in Index : At(s.table, s.location, j) => At(t.table, t.location, j)
  /\ \A a \in 1 .. k : t.location[batch[a].entity].node = key[2]
  /\ \A j \in Index : (\A a \in 1 .. k : batch[a].entity # j) => t.location[j] = s.location[j]

(* One more move of the group.                                               *)
LEMMA GroupStep ==
  ASSUME NEW s \in MoveState, NEW key \in Node \X Node,
         NEW batch \in Seq(MoveType), OneMoveEach(batch),
         \A a \in DOMAIN batch : KeyOf(batch[a]) = key /\ Awaited(s, batch[a]),
         NEW k \in 1 .. Len(batch), NEW t \in MoveState, GroupInv(s, key, batch, k - 1, t),
         NEW copies \in BOOLEAN
  PROVE  /\ GroupInv(s, key, batch, k, Moved(t, batch[k], copies))
         /\ Excused(t) => Excused(Moved(t, batch[k], copies))
<1> DEFINE m == batch[k]
           u == Moved(t, batch[k], copies)
           n == Len(batch)
<1>1. /\ n \in Nat /\ DOMAIN batch = 1 .. n /\ k \in 1 .. n /\ m \in MoveType
      /\ \A a \in 1 .. n : batch[a] \in MoveType
  BY LenProperties, ElementOfSeq
<1> HIDE DEF n
<1>2. /\ m.entity \in Index /\ m.from = key[1] /\ m.to = key[2] /\ m.to \in Node
      /\ Awaited(s, m)
  BY <1>1 DEF MoveType, KeyOf
<1>3. \A a \in 1 .. k - 1 : a \in 1 .. n /\ batch[a].entity # m.entity
  BY <1>1 DEF OneMoveEach
<1>4. /\ k - 1 \in Nat /\ n - k \in Nat /\ n - (k - 1) = (n - k) + 1
      /\ \A a \in 1 .. k : a \in 1 .. k - 1 \/ a = k
      /\ 1 .. k - 1 \subseteq 1 .. k /\ k \in 1 .. k
      /\ \A a \in 1 .. k : a \in 1 .. n
  BY <1>1
<1>5. /\ t.location[m.entity] = [node |-> m.from, row |-> m.row]
      /\ At(t.table, t.location, m.entity)
      /\ TableExact(t.table)
  BY <1>2, <1>3 DEF GroupInv, Awaited
<1>12. Excused(t) => Excused(u)
  <2>1. Fits(t.table[m.from], 0)
    <3>1. t.table[key[2]] \in Entry /\ Fits(t.table[key[2]], n - k + 1)
      BY <1>2, <1>4 DEF GroupInv, MoveState, n
    <3> DEFINE d == t.table[key[2]]
    <3>2. d.columns \in Nat /\ Len(d.rows) \in Nat /\ Len(d.free) \in Nat
      BY <3>1, EntryShape
    <3>3. Len(d.rows) <= d.columns /\ Len(d.rows) + (n - k + 1) <= d.columns + Len(d.free)
      BY <3>1 DEF Fits
    <3> HIDE DEF d
    <3>4. Len(d.rows) + 0 <= d.columns + Len(d.free)
      BY <1>4, <3>2, <3>3
    <3>5. Fits(t.table[key[2]], 0)
      BY <3>3, <3>4 DEF Fits, d
    <3>6. QED
      BY <1>2, <3>5 DEF GroupInv, MoveType
  <2> HIDE DEF m
  <2>2. QED
    BY <1>1, <1>5, <2>1, MovedExcused DEF m
<1> HIDE DEF m
<1>6. /\ TableExact(u.table)
      /\ At(u.table, u.location, m.entity)
      /\ u.location[m.entity].node = m.to
      /\ \A j \in Index : j # m.entity =>
           /\ u.location[j] = t.location[j]
           /\ At(t.table, t.location, j) => At(u.table, u.location, j)
      /\ u.changed = t.changed
      /\ \A x \in Node, r \in Nat : Fits(t.table[x], r) /\ x # m.to => Fits(u.table[x], r)
      /\ \A r \in Nat : Fits(t.table[m.to], r + 1) => Fits(u.table[m.to], r)
  BY <1>1, <1>5, MovedKeeps DEF m
<1> HIDE DEF u
<1>7. Fits(u.table[key[2]], n - k) /\ \A x \in Node : x # key[2] => Fits(u.table[x], 0)
  BY <1>2, <1>4, <1>6 DEF GroupInv, n
<1>8. /\ u.changed = s.changed \union {key[1], key[2]}
      /\ \A j \in Index : At(s.table, s.location, j) => At(u.table, u.location, j)
  BY <1>6 DEF GroupInv
<1>9. ASSUME NEW a \in 1 .. k
      PROVE  u.location[batch[a].entity].node = key[2]
  <2>1. CASE a = k
    BY <1>2, <1>6, <2>1 DEF m
  <2>2. CASE a # k
    <3>1. a \in 1 .. k - 1
      BY <1>4, <2>2
    <3>2. /\ t.location[batch[a].entity].node = key[2]
          /\ batch[a].entity # m.entity /\ batch[a].entity \in Index
      BY <1>1, <1>3, <3>1 DEF GroupInv, MoveType
    <3>3. QED
      BY <1>6, <3>2
  <2>3. QED
    BY <2>1, <2>2
<1>10. ASSUME NEW j \in Index, \A a \in 1 .. k : batch[a].entity # j
       PROVE  u.location[j] = s.location[j]
  <2>1. j # m.entity /\ \A a \in 1 .. k - 1 : batch[a].entity # j
    BY <1>4, <1>10 DEF m
  <2>2. QED
    BY <1>6, <2>1 DEF GroupInv
<1>11. QED
  BY <1>6, <1>7, <1>8, <1>9, <1>10, <1>12 DEF GroupInv, u, n

\* The moves of a batch are to be made between these archetypes, and t comes of
\* making them.
GroupReady(s, key, moves) ==
  /\ TableExact(s.table)
  /\ \A n \in Node : Fits(s.table[n], 0)
  /\ \A m \in Recorded(moves) : KeyOf(m) = key => Awaited(s, m)

\* What a group makes of what it found.
GroupDone(s, key, moves, t) ==
  /\ t \in MoveState /\ TableExact(t.table)
  /\ \A n \in Node : Fits(t.table[n], 0)
  /\ t.changed = s.changed \union {key[1], key[2]}
  /\ \A j \in Index : At(s.table, s.location, j) => At(t.table, t.location, j)
  /\ \A m \in Recorded(moves) : KeyOf(m) = key => t.location[m.entity].node = key[2]
  /\ \A j \in Index :
       (\A m \in Recorded(moves) : KeyOf(m) = key => m.entity # j)
         => t.location[j] = s.location[j]

(* The moves between two archetypes, of entities that are where they were    *)
(* when their moves were decided.                                            *)
LEMMA GroupKeeps ==
  ASSUME NEW g, NEW s \in MoveState, NEW key \in Node \X Node,
         NEW moves \in Seq(MoveType), OneMoveEach(moves), GroupReady(s, key, moves)
  PROVE  /\ GroupDone(s, key, moves, MovedGroup(g, s, key, moves))
         /\ Shared(g, key) \subseteq layouts /\ Excused(s)
              => Excused(MovedGroup(g, s, key, moves))
<1> DEFINE t == MovedGroup(g, s, key, moves)
           batch == Batch(key, moves)
           n == Len(batch)
           r == Readied(g, s, key, n)
<1>1. /\ batch \in Seq(MoveType) /\ OneMoveEach(batch)
      /\ Recorded(batch) = {m \in Recorded(moves) : KeyOf(m) = key}
  BY BatchProperties
<1>2. n \in Nat /\ DOMAIN batch = 1 .. n
  BY <1>1, LenProperties
<1> USE DEF GroupReady
<1>3. /\ r \in MoveState /\ TableExact(r.table)
      /\ Fits(r.table[key[2]], n)
      /\ \A x \in Node : x # key[2] => Fits(r.table[x], 0)
      /\ r.location = s.location
      /\ r.changed = s.changed \union {key[1], key[2]}
      /\ \A j \in Index : At(s.table, s.location, j) => At(r.table, r.location, j)
      /\ Shared(g, key) \subseteq layouts /\ Excused(s) => Excused(r)
  BY <1>2, ReadiedKeeps
<1>4. PICK run \in [0 .. n -> MoveState] :
           /\ run[0] = r
           /\ \A k \in 1 .. n : run[k] = Moved(run[k - 1], batch[k], Copies(g, key))
           /\ run[n] = t
  BY <1>1, <1>3, GroupRun
<1>5. \A a \in 1 .. n : KeyOf(batch[a]) = key /\ Awaited(s, batch[a])
  BY <1>1, <1>2 DEF Recorded
<1> HIDE DEF t, batch, r
<1>6. Copies(g, key) \in BOOLEAN
  BY DEF Copies
<1> DEFINE P == {k \in 0 .. n : /\ GroupInv(s, key, batch, k, run[k])
                                /\ Excused(r) => Excused(run[k])}
<1>7. 0 \in P
  <2>1. 0 \in 0 .. n /\ 1 .. 0 = {} /\ n - 0 = n
    BY <1>2
  <2>2. QED
    BY <1>3, <1>4, <2>1 DEF GroupInv
<1>8. ASSUME NEW k \in 1 .. n, k - 1 \in P
      PROVE  k \in P
  <2>1. k - 1 \in 0 .. n /\ k \in 0 .. n
    BY <1>2
  <2>2. /\ GroupInv(s, key, batch, k - 1, run[k - 1]) /\ run[k - 1] \in MoveState
        /\ Excused(r) => Excused(run[k - 1])
    BY <1>8, <2>1
  <2>3. /\ GroupInv(s, key, batch, k, Moved(run[k - 1], batch[k], Copies(g, key)))
        /\ Excused(r) => Excused(Moved(run[k - 1], batch[k], Copies(g, key)))
    BY <1>1, <1>2, <1>5, <1>6, <2>2, GroupStep
  <2>4. QED
    BY <1>4, <2>1, <2>3
<1>9. GroupInv(s, key, batch, n, t) /\ t \in MoveState /\ (Excused(r) => Excused(t))
  <2> HIDE DEF P
  <2>1. \A k \in 0 .. n : k \in P
    BY <1>2, <1>7, <1>8, UpTo
  <2>2. n \in P /\ n \in 0 .. n
    BY <1>2, <2>1
  <2>3. QED
    BY <1>4, <2>2 DEF P
<1>10. n - n = 0
  BY <1>2
<1>11. \A m \in Recorded(moves) : KeyOf(m) = key => \E a \in 1 .. n : batch[a] = m
  BY <1>1, <1>2 DEF Recorded
<1>12. \A x \in Node : Fits(t.table[x], 0)
  BY <1>9, <1>10 DEF GroupInv
<1>13. \A m \in Recorded(moves) : KeyOf(m) = key => t.location[m.entity].node = key[2]
  BY <1>9, <1>11 DEF GroupInv
<1>14. ASSUME NEW j \in Index, \A m \in Recorded(moves) : KeyOf(m) = key => m.entity # j
       PROVE  t.location[j] = s.location[j]
  <2>1. \A a \in 1 .. n : batch[a] \in Recorded(moves) /\ KeyOf(batch[a]) = key
    BY <1>1, <1>2 DEF Recorded
  <2>2. QED
    BY <1>9, <1>14, <2>1 DEF GroupInv
<1>15. QED
  BY <1>3, <1>9, <1>12, <1>13, <1>14 DEF GroupInv, GroupDone, t

-----------------------------------------------------------------------------
(* All the batches.                                                          *)

(* Making room keeps the shape of the archetype.                             *)
LEMMA EmplacedType ==
  ASSUME NEW d \in Entry, NEW need \in Nat
  PROVE  Emplaced(d, need) \in Entry
<1>1. d.columns \in Nat /\ Len(d.free) \in Nat
  BY EntryShape
<1>2. CASE Len(d.free) > need
  BY <1>2 DEF Emplaced
<1>3. CASE ~ (Len(d.free) > need)
  <2> DEFINE c == d.columns + (need - Len(d.free))
  <2>1. c \in Nat
    BY <1>1, <1>3
  <2>2. Emplaced(d, need) = [d EXCEPT !.columns = c]
    BY <1>3 DEF Emplaced, Entry
  <2> HIDE DEF c
  <2>3. QED
    BY <2>1, <2>2 DEF Entry
<1>4. QED
  BY <1>2, <1>3

(* A group of moves keeps the shape of the table, whatever it finds.         *)
LEMMA GroupType ==
  ASSUME NEW g, NEW s \in MoveState, NEW key \in Node \X Node,
         NEW moves \in Seq(MoveType), OneMoveEach(moves)
  PROVE  MovedGroup(g, s, key, moves) \in MoveState
<1> DEFINE need == Len(Batch(key, moves))
           d == Emplaced(s.table[key[2]], need)
           out == [s.table EXCEPT ![key[2]] = d]
           fault2 == s.fault \/ ~ (Shared(g, key) \subseteq layouts)
           changed2 == s.changed \union Touched(key[1], key[2])
           t == Readied(g, s, key, need)
<1>1. /\ s.table \in [Node -> Entry] /\ s.location \in [Index -> Place]
      /\ s.copied \in SUBSET (Nat \X Nat) /\ s.changed \in SUBSET Node
      /\ s.fault \in BOOLEAN /\ key[1] \in Node /\ key[2] \in Node
  BY DEF MoveState
<1>2. Batch(key, moves) \in Seq(MoveType) /\ need \in Nat
  BY BatchProperties, LenProperties
<1> HIDE DEF need
<1>3. d \in Entry
  BY <1>1, <1>2, EmplacedType
<1>4. t = [s EXCEPT !.table = out, !.fault = fault2, !.changed = changed2]
  BY DEF Readied, MoveState
<1> HIDE DEF d
<1>5. out \in [Node -> Entry] /\ fault2 \in BOOLEAN /\ changed2 \in SUBSET Node
  BY <1>1, <1>3 DEF Touched
<1> HIDE DEF out, fault2, changed2, t
<1>6. t \in MoveState
  BY <1>1, <1>4, <1>5 DEF MoveState
<1>7. \E run \in [0 .. need -> MoveState] : run[need] = MovedGroup(g, s, key, moves)
  BY <1>2, <1>6, GroupRun DEF t, need
<1>8. need \in 0 .. need
  BY <1>2
<1>9. QED
  BY <1>7, <1>8

(* The keys of the groups: the archetypes of every move, each pair once.     *)
LEMMA MoveKeysProperties ==
  ASSUME NEW moves \in Seq(MoveType)
  PROVE  /\ MoveKeys(moves) \in Seq(Node \X Node)
         /\ IsInjective(MoveKeys(moves))
         /\ Recorded(MoveKeys(moves)) = {KeyOf(m) : m \in Recorded(moves)}
<1> DEFINE n == Len(moves)
           s == [k \in DOMAIN moves |-> <<moves[k].from, moves[k].to>>]
<1>1. n \in Nat /\ DOMAIN moves = 1 .. n /\ \A k \in 1 .. n : moves[k] \in MoveType
  BY LenProperties, ElementOfSeq
<1>2. s \in [1 .. n -> Node \X Node]
  BY <1>1 DEF MoveType
<1>3. s \in Seq(Node \X Node)
  BY <1>1, <1>2, IsASeq
<1>4. Recorded(s) = {KeyOf(m) : m \in Recorded(moves)}
  BY <1>1 DEF Recorded, KeyOf
<1>5. MoveKeys(moves) = Once(s)
  BY DEF MoveKeys
<1> HIDE DEF s
<1>6. QED
  BY <1>3, <1>4, <1>5, OnceProperties

(* The groups are moved one after another.                                   *)
LEMMA AllMovedRun ==
  ASSUME NEW pre, pre.moves \in Seq(MoveType), OneMoveEach(pre.moves),
         Unmoved(pre.graph) \in MoveState
  PROVE  \E run \in [0 .. Len(MoveKeys(pre.moves)) -> MoveState] :
           /\ run[0] = Unmoved(pre.graph)
           /\ \A k \in 1 .. Len(MoveKeys(pre.moves)) :
                run[k] = MovedGroup(pre.graph, run[k - 1], MoveKeys(pre.moves)[k], pre.moves)
           /\ run[Len(MoveKeys(pre.moves))] = AllMoved(pre)
<1> DEFINE s == MoveKeys(pre.moves)
           n == Len(s)
           S == MoveState
           init == Unmoved(pre.graph)
           Op(t, key) == MovedGroup(pre.graph, t, key, pre.moves)
           step == [p \in (1 .. n) \X S |-> Op(p[2], s[p[1]])]
           Iter(f) == f = [T \in SUBSET DOMAIN s |->
                             IF T = {} THEN init ELSE Op(f[T \ {Max(T)}], s[Max(T)])]
           iter == CHOOSE f : Iter(f)
<1>1. n \in Nat /\ DOMAIN s = 1 .. n /\ \A k \in 1 .. n : s[k] \in Node \X Node
  <2>1. s \in Seq(Node \X Node)
    BY MoveKeysProperties
  <2>2. QED
    BY <2>1, LenProperties, ElementOfSeq
<1>2. AllMoved(pre) = iter[DOMAIN s]
  BY DEF AllMoved, FoldLeft, MapThenFoldSet
<1>3. init \in S /\ \A k \in 1 .. n, t \in S : Op(t, s[k]) \in S
  BY <1>1, GroupType
<1> HIDE DEF s, n, S, init, Op
<1>4. /\ step \in [(1 .. n) \X S -> S]
      /\ \A k \in 1 .. n, r \in S : step[<<k, r>>] = Op(r, s[k])
  BY <1>3
<1> HIDE DEF step
<1>5. PICK f : FoldTable(S, n, init, step, f)
  BY <1>1, <1>3, <1>4, FoldTableExists
<1>6. Iter(f)
  BY <1>1, <1>4, <1>5 DEF FoldTable
<1>7. Iter(iter)
  <2> HIDE DEF Iter
  <2>1. QED
    BY <1>6
<1> HIDE DEF iter
<1>8. PICK run : FoldRun(S, n, init, step, run, iter[1 .. n])
  <2>1. iter[{}] = init
    BY <1>7
  <2>2. \A T \in SUBSET (1 .. n) : T # {} /\ iter[T \ {Max(T)}] \in S =>
           iter[T] = step[<<Max(T), iter[T \ {Max(T)}]>>]
    BY <1>1, <1>4, <1>5, <1>7 DEF FoldTable
  <2>3. QED
    BY <1>1, <1>3, <1>4, <2>1, <2>2, FoldRuns
<1>9. \A k \in 1 .. n : run[k] = Op(run[k - 1], s[k])
  <2>1. \A k \in 1 .. n : k - 1 \in 0 .. n
    BY <1>1
  <2>2. QED
    BY <1>4, <1>8, <2>1 DEF FoldRun
<1>10. QED
  BY <1>1, <1>2, <1>8, <1>9 DEF FoldRun, s, n, S, init, Op

\* t follows from s by the groups of the first k keys.
AllInv(s, moves, keys, k, t) ==
  /\ TableExact(t.table)
  /\ \A n \in Node : Fits(t.table[n], 0)
  /\ \A j \in Index : At(s.table, s.location, j) => At(t.table, t.location, j)
  /\ t.changed \subseteq s.changed \union UNION {{m.from, m.to} : m \in Recorded(moves)}
  /\ \A a \in 1 .. k, m \in Recorded(moves) : KeyOf(m) = keys[a] =>
       t.location[m.entity].node = m.to /\ {m.from, m.to} \subseteq t.changed
  /\ \A j \in Index :
       (\A a \in 1 .. k, m \in Recorded(moves) : KeyOf(m) = keys[a] => m.entity # j)
         => t.location[j] = s.location[j]

(* One more group: it moves the movers of its key, which no group before it  *)
(* has moved.                                                                *)
LEMMA AllStep ==
  ASSUME NEW g, NEW s \in MoveState, NEW moves \in Seq(MoveType), OneMoveEach(moves),
         \A m \in Recorded(moves) : Awaited(s, m),
         NEW keys \in Seq(Node \X Node), IsInjective(keys),
         Recorded(keys) = {KeyOf(m) : m \in Recorded(moves)},
         NEW k \in 1 .. Len(keys), NEW t \in MoveState, AllInv(s, moves, keys, k - 1, t)
  PROVE  /\ AllInv(s, moves, keys, k, MovedGroup(g, t, keys[k], moves))
         /\ Shared(g, keys[k]) \subseteq layouts /\ Excused(t)
              => Excused(MovedGroup(g, t, keys[k], moves))
<1> DEFINE key == keys[k]
           u == MovedGroup(g, t, key, moves)
           n == Len(keys)
           M == Recorded(moves)
<1>1. /\ n \in Nat /\ DOMAIN keys = 1 .. n /\ k \in 1 .. n
      /\ key \in Node \X Node
  BY LenProperties, ElementOfSeq
<1>2. /\ \A a \in 1 .. k - 1 : a \in 1 .. n /\ keys[a] # key
      /\ \A a \in 1 .. k : a \in 1 .. k - 1 \/ a = k
      /\ 1 .. k - 1 \subseteq 1 .. k /\ k \in 1 .. k
  <2>1. /\ \A a \in 1 .. k - 1 : a \in 1 .. n /\ a # k
        /\ \A a \in 1 .. k : a \in 1 .. k - 1 \/ a = k
        /\ 1 .. k - 1 \subseteq 1 .. k /\ k \in 1 .. k
    <3> HIDE DEF n
    <3>1. QED
      BY <1>1
  <2>2. \A a \in 1 .. n : a # k => keys[a] # key
    BY <1>1 DEF IsInjective
  <2>3. QED
    BY <2>1, <2>2
<1>3. \A m \in M : m \in MoveType /\ m.entity \in Index /\ KeyOf(m) = <<m.from, m.to>>
  <2>1. \A a \in DOMAIN moves : moves[a] \in MoveType
    BY ElementOfSeq, LenProperties
  <2>2. QED
    BY <2>1 DEF Recorded, MoveType, KeyOf
<1>4. \A m1, m2 \in M : m1.entity = m2.entity => m1 = m2
  BY DEF Recorded, OneMoveEach
<1>5. PICK m0 \in M : KeyOf(m0) = key
  <2>1. key \in Recorded(keys)
    BY <1>1 DEF Recorded
  <2>2. QED
    BY <2>1
<1>6. \A m \in M : Awaited(s, m)
  OBVIOUS
<1> HIDE DEF M, n, key
<1>7. ASSUME NEW m \in M, KeyOf(m) = key
      PROVE  Awaited(t, m)
  <2>1. \A a \in 1 .. k - 1, m2 \in M : KeyOf(m2) = keys[a] => m2.entity # m.entity
    BY <1>2, <1>4, <1>7
  <2>2. t.location[m.entity] = s.location[m.entity]
    BY <1>3, <2>1 DEF AllInv, M
  <2>3. QED
    BY <1>3, <1>6, <2>2 DEF Awaited, AllInv
<1>8. /\ TableExact(u.table)
      /\ \A x \in Node : Fits(u.table[x], 0)
      /\ u.changed = t.changed \union {key[1], key[2]}
      /\ \A j \in Index : At(t.table, t.location, j) => At(u.table, u.location, j)
      /\ \A m \in M : KeyOf(m) = key => u.location[m.entity].node = key[2]
      /\ \A j \in Index :
           (\A m \in M : KeyOf(m) = key => m.entity # j) => u.location[j] = t.location[j]
      /\ Shared(g, key) \subseteq layouts /\ Excused(t) => Excused(u)
  <2>1. TableExact(t.table) /\ \A x \in Node : Fits(t.table[x], 0)
    BY DEF AllInv
  <2>2. \A m \in Recorded(moves) : KeyOf(m) = key => Awaited(t, m)
    BY <1>7 DEF M
  <2>3. GroupReady(t, key, moves)
    BY <2>1, <2>2 DEF GroupReady
  <2>4. /\ GroupDone(t, key, moves, u)
        /\ Shared(g, key) \subseteq layouts /\ Excused(t) => Excused(u)
    BY <1>1, <2>3, GroupKeeps
  <2>5. QED
    BY <2>4 DEF GroupDone, M
<1> HIDE DEF u
<1>9. \A j \in Index : At(s.table, s.location, j) => At(u.table, u.location, j)
  BY <1>8 DEF AllInv
<1>10. u.changed \subseteq s.changed \union UNION {{m.from, m.to} : m \in M}
  <2>1. {key[1], key[2]} = {m0.from, m0.to}
    BY <1>3, <1>5
  <2>2. t.changed \subseteq s.changed \union UNION {{m.from, m.to} : m \in M}
    BY DEF AllInv, M
  <2>3. QED
    BY <1>5, <1>8, <2>1, <2>2
<1>11. ASSUME NEW a \in 1 .. k, NEW m \in M, KeyOf(m) = keys[a]
       PROVE  u.location[m.entity].node = m.to /\ {m.from, m.to} \subseteq u.changed
  <2>1. CASE a = k
    BY <1>3, <1>8, <1>11, <2>1 DEF key
  <2>2. CASE a # k
    <3>1. a \in 1 .. k - 1
      BY <1>2, <2>2
    <3>2. t.location[m.entity].node = m.to /\ {m.from, m.to} \subseteq t.changed
      BY <1>11, <3>1 DEF AllInv, M
    <3>3. KeyOf(m) # key
      BY <1>2, <1>11, <3>1
    <3>4. \A m2 \in M : KeyOf(m2) = key => m2.entity # m.entity
      BY <1>4, <3>3
    <3>5. u.location[m.entity] = t.location[m.entity]
      BY <1>3, <1>8, <3>4
    <3>6. QED
      BY <1>8, <3>2, <3>5
  <2>3. QED
    BY <2>1, <2>2
<1>12. ASSUME NEW j \in Index,
              \A a \in 1 .. k, m \in M : KeyOf(m) = keys[a] => m.entity # j
       PROVE  u.location[j] = s.location[j]
  <2>1. \A m \in M : KeyOf(m) = key => m.entity # j
    BY <1>2, <1>12 DEF key
  <2>2. \A a \in 1 .. k - 1, m \in M : KeyOf(m) = keys[a] => m.entity # j
    BY <1>2, <1>12
  <2>3. u.location[j] = t.location[j]
    BY <1>8, <2>1
  <2>4. t.location[j] = s.location[j]
    BY <2>2 DEF AllInv, M
  <2>5. QED
    BY <2>3, <2>4
<1>13. QED
  BY <1>8, <1>9, <1>10, <1>11, <1>12 DEF AllInv, u, M, key

(* All the moves of a submit: every mover is in the archetype its walk led   *)
(* to, both ends of each move are reported, and all else is where it was.    *)
LEMMA AllMovedKeeps ==
  ASSUME NEW pre, pre.moves \in Seq(MoveType), OneMoveEach(pre.moves),
         Unmoved(pre.graph) \in MoveState,
         TableExact(table), \A n \in Node : Fits(table[n], 0),
         \A m \in Recorded(pre.moves) :
           /\ location[m.entity] = [node |-> m.from, row |-> m.row]
           /\ At(table, location, m.entity)
  PROVE  LET t == AllMoved(pre)
         IN  /\ t \in MoveState /\ TableExact(t.table)
             /\ \A n \in Node : Fits(t.table[n], 0)
             /\ \A j \in Index : At(table, location, j) => At(t.table, t.location, j)
             /\ t.changed \subseteq UNION {{m.from, m.to} : m \in Recorded(pre.moves)}
             /\ \A m \in Recorded(pre.moves) :
                  t.location[m.entity].node = m.to /\ {m.from, m.to} \subseteq t.changed
             /\ \A j \in Index \ Movers(pre.moves) : t.location[j] = location[j]
             /\ /\ \A m \in Recorded(pre.moves) : Shared(pre.graph, KeyOf(m)) \subseteq layouts
                /\ Excused(Unmoved(pre.graph))
                => Excused(t)
<1> DEFINE t == AllMoved(pre)
           moves == pre.moves
           keys == MoveKeys(moves)
           n == Len(keys)
           s == Unmoved(pre.graph)
<1>1. /\ keys \in Seq(Node \X Node) /\ IsInjective(keys)
      /\ Recorded(keys) = {KeyOf(m) : m \in Recorded(moves)}
  BY MoveKeysProperties
<1>2. n \in Nat /\ DOMAIN keys = 1 .. n
  BY <1>1, LenProperties
<1>3. s.table = table /\ s.location = location /\ s.changed = {} /\ s \in MoveState
  BY DEF Unmoved
<1>4. PICK run \in [0 .. n -> MoveState] :
           /\ run[0] = s
           /\ \A k \in 1 .. n : run[k] = MovedGroup(pre.graph, run[k - 1], keys[k], moves)
           /\ run[n] = t
  BY AllMovedRun
<1>5. \A m \in Recorded(moves) : Awaited(s, m)
  BY <1>3 DEF Awaited
<1> HIDE DEF t, keys, n, s
<1> DEFINE laid == \A k \in 1 .. n : Shared(pre.graph, keys[k]) \subseteq layouts
           P == {k \in 0 .. n : /\ AllInv(s, moves, keys, k, run[k])
                                /\ laid /\ Excused(s) => Excused(run[k])}
<1>6. 0 \in P
  <2>1. 0 \in 0 .. n /\ 1 .. 0 = {}
    BY <1>2
  <2>2. QED
    BY <1>3, <1>4, <2>1 DEF AllInv
<1>7. ASSUME NEW k \in 1 .. n, k - 1 \in P
      PROVE  k \in P
  <2>1. k - 1 \in 0 .. n /\ k \in 0 .. n
    BY <1>2
  <2>2. /\ AllInv(s, moves, keys, k - 1, run[k - 1]) /\ run[k - 1] \in MoveState
        /\ laid /\ Excused(s) => Excused(run[k - 1])
    BY <1>7, <2>1
  <2>3. /\ AllInv(s, moves, keys, k, MovedGroup(pre.graph, run[k - 1], keys[k], moves))
        /\ laid /\ Excused(s)
             => Excused(MovedGroup(pre.graph, run[k - 1], keys[k], moves))
    BY <1>1, <1>2, <1>3, <1>5, <2>2, AllStep DEF n
  <2>4. QED
    BY <1>4, <2>1, <2>3
<1>8. AllInv(s, moves, keys, n, t) /\ t \in MoveState /\ (laid /\ Excused(s) => Excused(t))
  <2> HIDE DEF P
  <2>1. \A k \in 0 .. n : k \in P
    BY <1>2, <1>6, <1>7, UpTo
  <2>2. n \in P /\ n \in 0 .. n
    BY <1>2, <2>1
  <2>3. QED
    BY <1>4, <2>2 DEF P
<1>9. \A m \in Recorded(moves) : \E a \in 1 .. n : KeyOf(m) = keys[a]
  <2>1. \A m \in Recorded(moves) : KeyOf(m) \in Recorded(keys)
    BY <1>1
  <2>2. QED
    BY <1>2, <2>1 DEF Recorded
<1>10. \A m \in Recorded(moves) :
         t.location[m.entity].node = m.to /\ {m.from, m.to} \subseteq t.changed
  BY <1>8, <1>9 DEF AllInv
<1>11. ASSUME NEW j \in Index \ Movers(moves)
       PROVE  t.location[j] = location[j]
  <2>1. \A m \in Recorded(moves) : m.entity # j
    BY <1>11 DEF Movers, Recorded
  <2>2. QED
    BY <1>3, <1>8, <2>1 DEF AllInv
<1>12. (\A m \in Recorded(moves) : Shared(pre.graph, KeyOf(m)) \subseteq layouts) => laid
  <2>1. \A k \in 1 .. n : keys[k] \in Recorded(keys)
    BY <1>2 DEF Recorded
  <2>2. QED
    BY <1>1, <2>1
<1> HIDE DEF laid
<1>13. QED
  BY <1>3, <1>8, <1>10, <1>11, <1>12 DEF AllInv, t, s

-----------------------------------------------------------------------------
(* Recording.                                                                *)

\* A record: commands in an order, none twice.
Records == {r \in Seq(Commands) : IsInjective(r)}

\* The command that neutralises a call of this type.
Opposite(type, c) == <<IF type = "Add" THEN "Remove" ELSE "Add", c>>

\* A command that would change nothing is dropped.
Effective(i, type, c) ==
  \/ type = "Add" /\ c \notin ComponentsOf(i) /\ c # EntityId(i)
  \/ type = "Remove" /\ c \in ComponentsOf(i)

(* One component of a call: the opposite command goes, or a command that     *)
(* would change the entity is recorded, or nothing is.                       *)
LEMMA OneRecordedProperties ==
  ASSUME NEW i, NEW type \in {"Add", "Remove"}, NEW r \in Records, NEW c \in Components
  PROVE  /\ OneRecorded(i, type, r, c) \in Records
         /\ Recorded(OneRecorded(i, type, r, c)) =
              IF Opposite(type, c) \in Recorded(r) THEN Recorded(r) \ {Opposite(type, c)}
              ELSE IF Effective(i, type, c) THEN Recorded(r) \union {<<type, c>>}
              ELSE Recorded(r)
<1>1. r \in Seq(Commands) /\ IsInjective(r) /\ <<type, c>> \in Commands
  BY DEF Records, Commands
<1>2. CASE Opposite(type, c) \in Recorded(r)
  <2>1. OneRecorded(i, type, r, c) = Erased(r, Opposite(type, c))
    BY <1>2 DEF OneRecorded, Opposite
  <2>2. QED
    BY <1>1, <1>2, <2>1, ErasedProperties DEF Records
<1>3. CASE Opposite(type, c) \notin Recorded(r) /\ Effective(i, type, c)
  <2>1. OneRecorded(i, type, r, c) = Inserted(r, <<type, c>>)
    BY <1>3 DEF OneRecorded, Opposite, Effective
  <2> DEFINE d == <<type, c>>
             q == Inserted(r, d)
  <2>2. d \in Commands
    BY <1>1
  <2> HIDE DEF d
  <2>3. q \in Seq(Commands) /\ IsInjective(q) /\ Recorded(q) = Recorded(r) \union {d}
    BY <1>1, <2>2, InsertedProperties
  <2> HIDE DEF q
  <2>4. q \in Records
    BY <2>3 DEF Records
  <2>5. OneRecorded(i, type, r, c) = q
    BY <2>1 DEF q, d
  <2>6. QED
    BY <1>3, <2>3, <2>4, <2>5 DEF d
<1>4. CASE Opposite(type, c) \notin Recorded(r) /\ ~ Effective(i, type, c)
  BY <1>4 DEF OneRecorded, Opposite, Effective
<1>5. QED
  BY <1>2, <1>3, <1>4

(* The components of a call are recorded in their order.                     *)
LEMMA RecordRun ==
  ASSUME NEW i, record[i] \in Records, NEW type \in {"Add", "Remove"},
         NEW coms \in Seq(Components)
  PROVE  \E run \in [0 .. Len(coms) -> Records] :
           /\ run[0] = record[i]
           /\ \A k \in 1 .. Len(coms) : run[k] = OneRecorded(i, type, run[k - 1], coms[k])
           /\ run[Len(coms)] = AllRecorded(i, type, coms)
<1> DEFINE s == coms
           n == Len(s)
           S == Records
           init == record[i]
           Op(r, c) == OneRecorded(i, type, r, c)
           step == [p \in (1 .. n) \X S |-> Op(p[2], s[p[1]])]
           Iter(f) == f = [T \in SUBSET DOMAIN s |->
                             IF T = {} THEN init ELSE Op(f[T \ {Max(T)}], s[Max(T)])]
           iter == CHOOSE f : Iter(f)
<1>1. n \in Nat /\ DOMAIN s = 1 .. n /\ \A k \in 1 .. n : s[k] \in Components
  BY LenProperties, ElementOfSeq
<1>2. AllRecorded(i, type, coms) = iter[DOMAIN s]
  BY DEF AllRecorded, FoldLeft, MapThenFoldSet
<1>3. init \in S /\ \A k \in 1 .. n, r \in S : Op(r, s[k]) \in S
  BY <1>1, OneRecordedProperties
<1> HIDE DEF s, n, S, init, Op
<1>4. /\ step \in [(1 .. n) \X S -> S]
      /\ \A k \in 1 .. n, r \in S : step[<<k, r>>] = Op(r, s[k])
  BY <1>3
<1> HIDE DEF step
<1>5. PICK f : FoldTable(S, n, init, step, f)
  BY <1>1, <1>3, <1>4, FoldTableExists
<1>6. Iter(f)
  BY <1>1, <1>4, <1>5 DEF FoldTable
<1>7. Iter(iter)
  <2> HIDE DEF Iter
  <2>1. QED
    BY <1>6
<1> HIDE DEF iter
<1>8. PICK run : FoldRun(S, n, init, step, run, iter[1 .. n])
  <2>1. iter[{}] = init
    BY <1>7
  <2>2. \A T \in SUBSET (1 .. n) : T # {} /\ iter[T \ {Max(T)}] \in S =>
           iter[T] = step[<<Max(T), iter[T \ {Max(T)}]>>]
    BY <1>1, <1>4, <1>5, <1>7 DEF FoldTable
  <2>3. QED
    BY <1>1, <1>3, <1>4, <2>1, <2>2, FoldRuns
<1>9. \A k \in 1 .. n : run[k] = Op(run[k - 1], s[k])
  <2>1. \A k \in 1 .. n : k - 1 \in 0 .. n
    BY <1>1
  <2>2. QED
    BY <1>4, <1>8, <2>1 DEF FoldRun
<1>10. QED
  BY <1>1, <1>2, <1>8, <1>9 DEF FoldRun, s, n, S, init, Op

(* A record stays one, each command in it once.                              *)
LEMMA AllRecordedType ==
  ASSUME NEW i, record[i] \in Records, NEW type \in {"Add", "Remove"},
         NEW coms \in Seq(Components)
  PROVE  AllRecorded(i, type, coms) \in Records
<1>1. Len(coms) \in Nat
  BY LenProperties
<1>2. QED
  BY <1>1, RecordRun

-----------------------------------------------------------------------------
(* The invariant of the rows.  An entity that lives, or has commands left of *)
(* one that lived, is where its location says: these are the ones that a     *)
(* submit may move.                                                          *)
RowsInv ==
  /\ graph \in SoundGraph
  /\ location \in [Index -> Place]
  /\ \A i \in Index : Exists(graph, location[i].node)
  /\ table \in [Node -> Entry] /\ TableExact(table)
  /\ \A n \in Node : Fits(table[n], 0)
  /\ DOMAIN record = Index
  /\ \A i \in Index : record[i] \in Records
  /\ dirty_entities \in Seq(Index)
  /\ \A i \in Index : entity_datas[i].alive \/ record[i] # <<>> => At(table, location, i)
  /\ changed \subseteq ExistingNodes
  /\ copied \subseteq Nat \X Nat
  /\ fault \in BOOLEAN

(* A step that touches no rows, no records and brings nothing to life.       *)
LEMMA RowsFrame ==
  ASSUME RowsInv, UNCHANGED <<graph, tableVars>>, fault' \in BOOLEAN,
         \A i \in Index : entity_datas'[i].alive => entity_datas[i].alive
  PROVE  RowsInv'
BY DEF RowsInv, tableVars, ExistingNodes, At, Holds

(* At first there are no rows, no commands and the root alone.               *)
LEMMA RowsInvInit == CollectionInit => RowsInv
<1> SUFFICES ASSUME CollectionInit PROVE RowsInv
  OBVIOUS
<1>1. graph \in SoundGraph /\ graph = EmptyGraph
  BY GraphAssumption DEF CollectionInit, GraphInit, EmptyGraph, SoundGraph, Graph, Node,
     NoNode, Distinct, EdgesLead
<1>2. \A i \in Index : Exists(graph, Root)
  BY <1>1 DEF Exists, EmptyGraph, Root
<1>3. /\ <<>> \in Seq(Index \union {Vacant}) /\ <<>> \in Seq(Nat) /\ <<>> \in Seq(Commands)
      /\ <<>> \in Seq(Index) /\ Len(<<>>) = 0 /\ DOMAIN <<>> = {}
  BY EmptySeq
<1>4. ASSUME NEW n \in Node
      PROVE  table[n] \in Entry /\ FreeExact(table[n]) /\ Fits(table[n], 0)
  <2>1. table[n] = [rows |-> <<>>, free |-> <<>>, columns |-> 0]
    BY DEF CollectionInit
  <2>2. table[n] \in Entry
    BY <1>3, <2>1 DEF Entry
  <2>3. FreeExact(table[n])
    BY <1>3, <2>1 DEF FreeExact, VacantRows, Recorded, IsInjective
  <2>4. Fits(table[n], 0)
    BY <1>3, <2>1 DEF Fits
  <2>5. QED
    BY <2>2, <2>3, <2>4
<1>5. table \in [Node -> Entry] /\ TableExact(table)
  BY <1>4 DEF TableExact, CollectionInit
<1>6. location \in [Index -> Place]
  BY GraphAssumption DEF CollectionInit, Place, Root, Node
<1>7. \A i \in Index : record[i] \in Records
  BY <1>3 DEF CollectionInit, Records, IsInjective
<1>8. QED
  BY <1>1, <1>2, <1>3, <1>4, <1>5, <1>6, <1>7
  DEF CollectionInit, EntityInit, RowsInv, NewSlot

(* An entity that is created takes a row of the root.                        *)
LEMMA RowsCreate ==
  ASSUME StoreInv, RowsInv, NEW name, NEW bit29 \in Bit29, CreateEntity(name, bit29)
  PROVE  RowsInv'
<1> DEFINE named == NameGiven(name) # NoName
           i == NextIndex
<1>1. NewEntity(named, bit29) /\ named \in BOOLEAN
  BY DEF CreateEntity
<1>2. /\ i \in Index
      /\ \A j \in Index : j # i => entity_datas'[j] = entity_datas[j]
      /\ ~ WithinLimit(i) => entity_datas' = entity_datas
  BY <1>1, LiveNew
<1>3. UNCHANGED <<graph, record, dirty_entities, changed, copied>>
  BY DEF CreateEntity
<1>4. CASE ~ WithinLimit(i)
  <2>1. UNCHANGED <<table, location>> /\ fault' = TRUE
    BY <1>4 DEF CreateEntity
  <2>2. QED
    BY <1>2, <1>3, <1>4, <2>1, RowsFrame DEF tableVars
<1>5. CASE WithinLimit(i)
  <2> DEFINE root == Emplaced(table[Root], 1)
             row == TargetRow(root)
             tab == [table EXCEPT ![Root] = root]
             in == [tab EXCEPT ![Root] = Placed(tab[Root], i)]
             place == [node |-> Root, row |-> row]
  <2>1. /\ table' = [table EXCEPT ![Root] = Placed(root, i)]
        /\ location' = [location EXCEPT ![i] = place]
        /\ fault' = fault
    BY <1>5 DEF CreateEntity
  <2>2. Root \in Node /\ table \in [Node -> Entry]
    BY GraphAssumption DEF Root, Node, RowsInv
  <2>3. /\ tab \in [Node -> Entry] /\ TableExact(tab)
        /\ Fits(tab[Root], 1)
        /\ \A k \in Node : k # Root => Fits(tab[k], 0)
        /\ \A k \in Node, r \in Nat, j \in Index :
             Holds(table[k], r, j) => Holds(tab[k], r, j)
    BY <2>2, EmplacedKeeps DEF RowsInv
  <2>4. tab[Root] = root
    BY <2>2
  <2>5. table' = in
    BY <2>1, <2>2, <2>4
  <2> HIDE DEF root
  <2>6. row = TargetRow(tab[Root])
    BY <2>4
  <2> HIDE DEF tab, row
  <2>7. /\ in \in [Node -> Entry] /\ TableExact(in)
        /\ row \in Nat
        /\ Holds(in[Root], row, i)
        /\ \A k \in Node, r \in Nat, j \in Index :
             Holds(tab[k], r, j) => Holds(in[k], r, j)
        /\ \A k \in Node, r \in Nat : Fits(tab[k], r) /\ k # Root => Fits(in[k], r)
        /\ \A r \in Nat : Fits(tab[Root], r + 1) => Fits(in[Root], r)
    BY <1>2, <2>2, <2>3, <2>6, PlacedKeeps
  <2> HIDE DEF in, i
  <2>8. \A k \in Node : Fits(in[k], 0)
    <3>1. 0 \in Nat /\ 0 + 1 = 1
      OBVIOUS
    <3>2. Fits(in[Root], 0)
      BY <2>3, <2>7, <3>1
    <3>3. QED
      BY <2>3, <2>7, <3>1, <3>2
  <2>9. place \in Place
    BY <2>2, <2>7 DEF Place
  <2>10. /\ location' \in [Index -> Place]
         /\ location'[i] = place
         /\ \A j \in Index : j # i => location'[j] = location[j]
    BY <1>2, <2>1, <2>9 DEF RowsInv
  <2>11. Exists(graph, Root)
    BY GraphAssumption DEF RowsInv, SoundGraph, Graph, Node, Exists, Root
  <2>12. \A j \in Index : Exists(graph', location'[j].node)
    BY <1>3, <2>10, <2>11 DEF RowsInv
  <2>13. ASSUME NEW j \in Index, entity_datas'[j].alive \/ record'[j] # <<>>
         PROVE  At(table', location', j)
    <3>1. CASE j = i
      BY <2>5, <2>7, <2>10, <3>1 DEF At
    <3>2. CASE j # i
      <4>1. At(table, location, j)
        BY <1>2, <1>3, <2>13, <3>2 DEF RowsInv, i
      <4>2. location[j].node \in Node /\ location[j].row \in Nat
        BY DEF RowsInv, Place
      <4>3. QED
        BY <2>3, <2>5, <2>7, <2>10, <3>2, <4>1, <4>2 DEF At
    <3>3. QED
      BY <3>1, <3>2
  <2>14. QED
    BY <1>3, <2>1, <2>5, <2>7, <2>8, <2>10, <2>12, <2>13 DEF RowsInv, ExistingNodes
<1>6. QED
  BY <1>4, <1>5

(* Recording changes the record of a live entity and moves none.             *)
LEMMA RowsModify ==
  ASSUME EntityTypeOK, RowsInv, NEW i \in Index, entity_datas[i].alive,
         NEW type \in {"Add", "Remove"}, NEW coms \in Seq(Components),
         Modify(i, type, coms), UNCHANGED <<graph, location, table, changed, copied, fault>>
  PROVE  RowsInv'
<1> DEFINE r == AllRecorded(i, type, coms)
<1>1. record' = [record EXCEPT ![i] = r]
  BY DEF Modify
<1>2. r \in Records
  BY AllRecordedType DEF RowsInv
<1> HIDE DEF r
<1>3. /\ DOMAIN record' = Index /\ record'[i] = r
      /\ \A j \in Index : j # i => record'[j] = record[j]
  BY <1>1 DEF RowsInv
<1>4. dirty_entities' \in Seq(Index)
  <2>1. dirty_entities \in Seq(Index)
    BY DEF RowsInv
  <2>2. Append(dirty_entities, i) \in Seq(Index)
    BY <2>1, AppendProperties
  <2>3. QED
    BY <2>1, <2>2 DEF Modify
<1>5. \A j \in Index : entity_datas'[j].alive = entity_datas[j].alive
  BY DEF Modify, EntityTypeOK, Slot
<1>6. \A j \in Index :
        entity_datas'[j].alive \/ record'[j] # <<>> => At(table', location', j)
  <2>1. \A j \in Index : entity_datas[j].alive \/ record[j] # <<>> => At(table', location', j)
    BY DEF RowsInv, At, Holds
  <2>2. QED
    BY <1>3, <1>5, <2>1
<1>7. QED
  BY <1>2, <1>3, <1>4, <1>6 DEF RowsInv, ExistingNodes

(* What a submit finds and what it makes of it.                              *)
LEMMA SubmitMoves ==
  ASSUME ArchetypesFit, RowsInv
  PROVE  LET pre == Preprocessed
             t   == AllMoved(pre)
         IN  /\ pre \in Walkings
             /\ OneMoveEach(pre.moves)
             /\ Movers(pre.moves) = {i \in Recorded(dirty_entities) : record[i] # <<>>}
             /\ \A m \in Recorded(pre.moves) :
                  m \in MovesOf /\ m \in MoveType /\ Exists(pre.graph, m.to)
             /\ t \in MoveState /\ TableExact(t.table)
             /\ \A n \in Node : Fits(t.table[n], 0)
             /\ \A j \in Index : At(table, location, j) => At(t.table, t.location, j)
             /\ t.changed \subseteq UNION {{m.from, m.to} : m \in Recorded(pre.moves)}
             /\ \A m \in Recorded(pre.moves) :
                  t.location[m.entity].node = m.to /\ {m.from, m.to} \subseteq t.changed
             /\ \A j \in Index \ Movers(pre.moves) : t.location[j] = location[j]
             /\ /\ \A m \in Recorded(pre.moves) : Shared(pre.graph, KeyOf(m)) \subseteq layouts
                /\ Excused(Unmoved(pre.graph))
                => Excused(t)
<1> DEFINE pre == Preprocessed
           moves == pre.moves
<1>1. \A i \in Index : Walkable(i)
  BY DEF RowsInv, Records, Walkable
<1>2. /\ pre \in Walkings
      /\ OneMoveEach(moves)
      /\ Movers(moves) = {i \in Recorded(dirty_entities) : record[i] # <<>>}
  BY <1>1, PreprocessedProperties DEF RowsInv
<1> HIDE DEF pre
<1>3. moves \in Seq(MovesOf) /\ \A k \in DOMAIN moves : Exists(pre.graph, moves[k].to)
  BY <1>2 DEF Walkings
<1>4. DOMAIN moves = 1 .. Len(moves) /\ \A k \in 1 .. Len(moves) : moves[k] \in MovesOf
  BY <1>3, LenProperties, ElementOfSeq
<1>5. \A m \in Recorded(moves) :
        m \in MovesOf /\ m \in MoveType /\ Exists(pre.graph, m.to)
  BY <1>3, <1>4 DEF Recorded, MovesOf
<1>6. moves \in Seq(MoveType)
  <2>1. Len(moves) \in Nat /\ moves \in [1 .. Len(moves) -> MovesOf]
    BY <1>3, LenProperties
  <2>2. moves \in [1 .. Len(moves) -> MoveType]
    BY <2>1 DEF MovesOf
  <2>3. QED
    BY <2>1, <2>2, IsASeq
<1>7. Unmoved(pre.graph) \in MoveState
  <2> DEFINE f == \E n \in graph.counter + 1 .. pre.graph.counter :
                    ~ (pre.graph.comps[n] \subseteq layouts)
  <2>1. f \in BOOLEAN
    OBVIOUS
  <2>2. Unmoved(pre.graph) =
          [table |-> table, location |-> location, copied |-> {}, changed |-> {}, fault |-> f]
    BY DEF Unmoved
  <2> HIDE DEF f
  <2>3. QED
    BY <2>1, <2>2 DEF RowsInv, MoveState
<1>8. \A m \in Recorded(moves) :
        /\ location[m.entity] = [node |-> m.from, row |-> m.row]
        /\ At(table, location, m.entity)
  <2>1. \A m \in Recorded(moves) :
          /\ location[m.entity] = [node |-> m.from, row |-> m.row]
          /\ record[m.entity] # <<>> /\ m.entity \in Index
    BY <1>5 DEF MovesOf, MoveType
  <2>2. QED
    BY <2>1 DEF RowsInv
<1> HIDE DEF moves
<1> DEFINE t == AllMoved(pre)
<1>9. /\ t \in MoveState /\ TableExact(t.table)
      /\ \A n \in Node : Fits(t.table[n], 0)
      /\ \A j \in Index : At(table, location, j) => At(t.table, t.location, j)
      /\ t.changed \subseteq UNION {{m.from, m.to} : m \in Recorded(moves)}
      /\ \A m \in Recorded(moves) :
           t.location[m.entity].node = m.to /\ {m.from, m.to} \subseteq t.changed
      /\ \A j \in Index \ Movers(moves) : t.location[j] = location[j]
      /\ /\ \A m \in Recorded(moves) : Shared(pre.graph, KeyOf(m)) \subseteq layouts
         /\ Excused(Unmoved(pre.graph))
         => Excused(t)
  BY <1>2, <1>6, <1>7, <1>8, AllMovedKeeps DEF RowsInv, moves
<1> HIDE DEF t
<1>10. QED
  BY <1>2, <1>5, <1>9 DEF pre, moves, t

(* A submit keeps the rows exact.                                            *)
LEMMA RowsSubmit ==
  ASSUME ArchetypesFit, RowsInv, Submit
  PROVE  RowsInv'
<1> DEFINE pre == Preprocessed
           t == AllMoved(pre)
           M == Recorded(pre.moves)
<1>1. /\ graph' = pre.graph /\ record' = Emptied
      /\ table' = t.table /\ location' = t.location
      /\ copied' = t.copied /\ changed' = t.changed /\ fault' = t.fault
      /\ dirty_entities' = <<>>
      /\ entity_datas' = [i \in Index |->
            [entity_datas[i] EXCEPT !.dirty = DirtyAfterSubmit(i)]]
  BY DEF Submit
<1>2. /\ pre \in Walkings
      /\ Movers(pre.moves) = {m.entity : m \in M}
      /\ \A m \in M : m \in MovesOf /\ m \in MoveType /\ Exists(pre.graph, m.to)
      /\ t \in MoveState /\ TableExact(t.table)
      /\ \A n \in Node : Fits(t.table[n], 0)
      /\ \A j \in Index : At(table, location, j) => At(t.table, t.location, j)
      /\ t.changed \subseteq UNION {{m.from, m.to} : m \in M}
      /\ \A m \in M : t.location[m.entity].node = m.to
      /\ \A j \in Index \ Movers(pre.moves) : t.location[j] = location[j]
  BY SubmitMoves DEF Movers, Recorded
<1> HIDE DEF pre, t, M
<1>3. /\ pre.graph \in SoundGraph /\ Extends(pre.graph, graph)
      /\ graph \in Graph /\ pre.graph \in Graph
  BY <1>2 DEF Walkings, RowsInv, SoundGraph
<1>4. ASSUME NEW j \in Index
      PROVE  Exists(graph', location'[j].node)
  <2>1. CASE j \in Movers(pre.moves)
    BY <1>1, <1>2, <2>1
  <2>2. CASE j \notin Movers(pre.moves)
    <3>1. location'[j] = location[j] /\ Exists(graph, location[j].node)
      BY <1>1, <1>2, <2>2 DEF RowsInv
    <3>2. QED
      BY <1>1, <1>3, <3>1, ExtendsExists
  <2>3. QED
    BY <2>1, <2>2
<1>5. /\ DOMAIN record' = Index
      /\ \A i \in Index : record'[i] = <<>> \/ record'[i] = record[i]
  BY <1>1 DEF Emptied
<1>6. /\ \A i \in Index : record'[i] \in Records
      /\ \A i \in Index : record'[i] # <<>> => record[i] # <<>>
  <2>1. <<>> \in Records
    BY EmptySeq DEF Records, IsInjective
  <2>2. QED
    BY <1>5, <2>1 DEF RowsInv
<1>7. \A i \in Index : entity_datas'[i].alive => entity_datas[i].alive
  <2>1. ASSUME NEW i \in Index
        PROVE  entity_datas'[i].alive = entity_datas[i].alive
    <3> DEFINE flag == DirtyAfterSubmit(i)
    <3>1. entity_datas'[i] = [entity_datas[i] EXCEPT !.dirty = flag]
      BY <1>1
    <3> HIDE DEF flag
    <3>2. QED
      BY <3>1
  <2>2. QED
    BY <2>1
<1>8. \A i \in Index :
        entity_datas'[i].alive \/ record'[i] # <<>> => At(table', location', i)
  BY <1>1, <1>2, <1>6, <1>7 DEF RowsInv
<1>9. changed' \subseteq ExistingNodes'
  <2>1. ASSUME NEW m \in M
        PROVE  m.from \in 0 .. pre.graph.counter /\ m.to \in 0 .. pre.graph.counter
    <3>1. Exists(graph, m.from) /\ Exists(pre.graph, m.to)
      BY <1>2 DEF MovesOf
    <3>2. Exists(pre.graph, m.from)
      BY <1>3, <3>1, ExtendsExists
    <3>3. QED
      BY <3>1, <3>2 DEF Exists
  <2>2. QED
    BY <1>1, <1>2, <2>1 DEF ExistingNodes
<1>10. /\ table' \in [Node -> Entry] /\ location' \in [Index -> Place]
       /\ copied' \subseteq Nat \X Nat /\ fault' \in BOOLEAN
  BY <1>1, <1>2 DEF MoveState
<1>11. dirty_entities' \in Seq(Index)
  BY <1>1, EmptySeq
<1>12. QED
  BY <1>1, <1>2, <1>3, <1>4, <1>5, <1>6, <1>8, <1>9, <1>10, <1>11 DEF RowsInv

-----------------------------------------------------------------------------
(* The steps of the collection keep its rows exact.                          *)

(* Every step of the collection keeps the rows exact.                        *)
LEMMA RowsInvStep ==
  ASSUME ArchetypesFit, StoreInv, RowsInv, [CollectionNext]_collectionVars
  PROVE  RowsInv'
<1> USE CollectionAssumption
<1>1. ASSUME NEW name \in Names \union {NoName}, NEW bit29 \in Bit29,
             CreateEntity(name, bit29)
      PROVE  RowsInv'
  BY <1>1, RowsCreate
<1>2. ASSUME NEW h \in issued, DestroyEntity(h)
      PROVE  RowsInv'
  <2>1. RemoveEntity(h) /\ UNCHANGED <<graph, tableVars, fault>>
    BY <1>2 DEF DestroyEntity
  <2>2. \A i \in Index : entity_datas'[i].alive => entity_datas[i].alive
    BY <2>1, LiveRemove
  <2>3. fault' \in BOOLEAN
    BY <2>1 DEF RowsInv
  <2>4. QED
    BY <2>1, <2>2, <2>3, RowsFrame
<1>3. ASSUME UNCHANGED <<entityVars, graph, tableVars>>, fault' \in {TRUE, fault}
      PROVE  RowsInv'
  <2>1. fault' \in BOOLEAN
    BY <1>3 DEF RowsInv
  <2>2. UNCHANGED entity_datas
    BY <1>3 DEF entityVars
  <2>3. QED
    BY <1>3, <2>1, <2>2, RowsFrame
<1>4. \A a, nameA, b, L : MakePair(a, nameA, b, L) => fault' \in {TRUE, fault}
  BY DEF MakePair
<1>5. ASSUME NEW s, NEW h, CreatePairWithStatic(s, h)
      PROVE  RowsInv'
  BY <1>3, <1>4, <1>5 DEF CreatePairWithStatic
<1>6. ASSUME NEW hA, NEW hB, CreatePairOfEntities(hA, hB)
      PROVE  RowsInv'
  <2>1. fault' \in {TRUE, fault}
    BY <1>4, <1>6 DEF CreatePairOfEntities
  <2>2. QED
    BY <1>3, <1>6, <2>1 DEF CreatePairOfEntities
<1>7. ASSUME NEW nameA, NEW nameB, CreatePairByName(nameA, nameB)
      PROVE  RowsInv'
  <2>1. fault' \in {TRUE, fault}
    BY <1>4, <1>7 DEF CreatePairByName
  <2>2. QED
    BY <1>3, <1>7, <2>1 DEF CreatePairByName
<1>8. ASSUME NEW h \in issued, NEW coms \in ComLists, NEW type \in {"Add", "Remove"},
             IsAlive(h), Modify(h[1], type, coms),
             UNCHANGED <<graph, location, table, changed, copied, fault>>
      PROVE  RowsInv'
  <2>1. h[1] \in Index /\ entity_datas[h[1]].alive /\ coms \in Seq(Components)
    BY <1>8, HandleShape DEF StoreInv, IsAlive
  <2>2. QED
    BY <1>8, <2>1, RowsModify DEF StoreInv
<1>9. ASSUME NEW h \in issued, NEW coms \in ComLists, RecordAdd(h, coms)
      PROVE  RowsInv'
  <2>1. CASE IsAlive(h) /\ Modify(h[1], "Add", coms)
    BY <1>8, <1>9, <2>1 DEF RecordAdd
  <2>2. CASE UNCHANGED <<record, entity_datas, dirty_entities>>
    BY <1>3, <1>9, <2>2 DEF RecordAdd, entityVars, tableVars
  <2>3. QED
    BY <1>9, <2>1, <2>2 DEF RecordAdd
<1>10. ASSUME NEW h \in issued, NEW coms \in ComLists, RecordRemove(h, coms)
       PROVE  RowsInv'
  <2>1. CASE IsAlive(h) /\ Modify(h[1], "Remove", coms)
    BY <1>8, <1>10, <2>1 DEF RecordRemove
  <2>2. CASE UNCHANGED <<record, entity_datas, dirty_entities>>
    BY <1>3, <1>10, <2>2 DEF RecordRemove, entityVars, tableVars
  <2>3. QED
    BY <1>10, <2>1, <2>2 DEF RecordRemove
<1>11. CASE UNCHANGED collectionVars
  BY <1>3, <1>11 DEF collectionVars
<1>12. QED
  BY <1>1, <1>2, <1>5, <1>6, <1>7, <1>9, <1>10, <1>11, RowsSubmit DEF CollectionNext

(* So they are in every reachable state.                                     *)
LEMMA RowsInvariant == ArchetypesFit => (CollectionSpec => [](StoreInv /\ RowsInv))
<1> SUFFICES ASSUME ArchetypesFit
             PROVE  CollectionSpec => [](StoreInv /\ RowsInv)
  OBVIOUS
<1>1. StoreInv /\ RowsInv /\ [CollectionNext]_collectionVars => StoreInv' /\ RowsInv'
  BY StoreInvStep, RowsInvStep
<1>2. CollectionInit => StoreInv /\ RowsInv
  BY StoreInvInit, RowsInvInit
<1>3. QED
  BY <1>1, <1>2, PTL DEF CollectionSpec

(* The free rows of an archetype are its vacant ones, each free once, and    *)
(* its columns have all its rows, through every submit and removal.          *)
THEOREM RowsAccountedCorrect == ArchetypesFit => (CollectionSpec => []RowsAccounted)
<1> SUFFICES ASSUME ArchetypesFit
             PROVE  CollectionSpec => []RowsAccounted
  OBVIOUS
<1>1. RowsInv => RowsAccounted
  <2> SUFFICES ASSUME RowsInv, NEW n \in ExistingNodes
               PROVE  /\ FreeExact(table[n])
                      /\ Len(table[n].rows) <= table[n].columns
    BY DEF RowsAccounted, FreeExact, VacantRows
  <2>1. n \in Node
    BY GraphAssumption DEF RowsInv, SoundGraph, Graph, Node, ExistingNodes
  <2>2. QED
    BY <2>1 DEF RowsInv, TableExact, Fits
<1>2. QED
  BY <1>1, RowsInvariant, PTL

\* The layouts of dynamic pairs are never erased: an id that names a pair and
\* not an entity was not there before the pair was made.
PairLayouts == \A p \in DOMAIN pair_names : p \in layouts /\ IsPair(p)

(* A step that makes no pair and erases no layout.                           *)
LEMMA PairLayoutsFrame ==
  ASSUME PairLayouts, UNCHANGED pair_names, layouts \subseteq layouts'
  PROVE  PairLayouts'
BY DEF PairLayouts

(* A pair enters its layout with its name.                                   *)
LEMMA MakePairLayouts ==
  ASSUME NamesInv, PairLayouts, NEW a, NEW nameA, NEW b \in Index, NEW L,
         layouts \subseteq L, MakePair(a, nameA, b, L)
  PROVE  PairLayouts'
<1> DEFINE id == <<a, b>>
<1>1. CASE id \in L \/ NoName \in {nameA, name_of[b]}
  BY <1>1, PairLayoutsFrame DEF MakePair, PairId
<1>2. CASE id \notin L /\ NoName \notin {nameA, name_of[b]}
  <2>1. /\ layouts' = L \union {id}
        /\ DOMAIN pair_names' = DOMAIN pair_names \union {id}
    BY <1>2 DEF MakePair, PairId
  <2>2. EntityId(b) \in L
    BY <1>2 DEF NamesInv
  <2>3. IsPair(id)
    BY <1>2, <2>2 DEF IsPair, EntityId
  <2>4. QED
    BY <2>1, <2>3 DEF PairLayouts
<1>3. QED
  BY <1>1, <1>2

(* No step erases the layout of a dynamic pair.                              *)
LEMMA PairLayoutsStep ==
  ASSUME StoreInv, NamesInv, PairLayouts, [CollectionNext]_collectionVars
  PROVE  PairLayouts'
<1>1. ASSUME NEW name, NEW bit29, CreateEntity(name, bit29)
      PROVE  layouts \subseteq layouts' /\ UNCHANGED pair_names
  BY <1>1 DEF CreateEntity, nameVars
<1>2. ASSUME NEW h \in issued, DestroyEntity(h)
      PROVE  PairLayouts'
  <2>1. UNCHANGED pair_names /\ (layouts' = layouts \/ layouts' = layouts \ {EntityId(h[1])})
    BY <1>2 DEF DestroyEntity, ForgetName
  <2>2. ~ IsPair(EntityId(h[1]))
    BY DEF IsPair, EntityId
  <2>3. QED
    BY <2>1, <2>2 DEF PairLayouts
<1>3. ASSUME NEW s \in Static, NEW h \in issued, CreatePairWithStatic(s, h)
      PROVE  PairLayouts'
  <2>1. /\ h[1] \in Index
        /\ MakePair(s, s, h[1], layouts \union Entered(StaticId(s)))
    BY <1>3, HandleShape DEF StoreInv, CreatePairWithStatic
  <2>2. QED
    BY <2>1, MakePairLayouts
<1>4. ASSUME NEW hA \in issued, NEW hB \in issued, CreatePairOfEntities(hA, hB)
      PROVE  PairLayouts'
  <2>1. hB[1] \in Index
    BY HandleShape DEF StoreInv
  <2>2. CASE MakePair(hA[1], name_of[hA[1]], hB[1], layouts)
    BY <2>1, <2>2, MakePairLayouts
  <2>3. CASE UNCHANGED <<layouts, pair_names>>
    BY <2>3, PairLayoutsFrame
  <2>4. QED
    BY <1>4, <2>2, <2>3 DEF CreatePairOfEntities
<1>5. ASSUME NEW nameA \in Names \union Static, NEW nameB \in Names \union Static,
             CreatePairByName(nameA, nameB)
      PROVE  PairLayouts'
  <2> DEFINE L == layouts \union {StaticId(s) : s \in Static \intersect {nameA, nameB}}
             half(name) == IF name \in Static THEN name ELSE id_of[name]
             found == /\ nameB \in Names
                      /\ \A name \in {nameA, nameB} \intersect Names :
                           id_of[name] # Vacant /\ id_of[name] \in LiveIndices
  <2>1. layouts \subseteq L
    OBVIOUS
  <2>2. CASE ~ found
    <3>1. layouts' = L /\ UNCHANGED pair_names
      BY <1>5, <2>2 DEF CreatePairByName
    <3>2. QED
      BY <2>1, <3>1, PairLayoutsFrame
  <2>3. CASE found
    <3>1. MakePair(half(nameA), nameA, half(nameB), L)
      BY <1>5, <2>3 DEF CreatePairByName
    <3>2. half(nameB) \in Index
      BY <2>3 DEF NamesInv, LiveIndices
    <3> HIDE DEF half, L
    <3>3. QED
      BY <2>1, <3>1, <3>2, MakePairLayouts
  <2>4. QED
    BY <2>2, <2>3
<1>6. ASSUME NEW h \in issued, NEW coms, RecordAdd(h, coms)
      PROVE  layouts \subseteq layouts' /\ UNCHANGED pair_names
  BY <1>6 DEF RecordAdd, Registering
<1>7. ASSUME NEW h \in issued, NEW coms, RecordRemove(h, coms)
      PROVE  layouts \subseteq layouts' /\ UNCHANGED pair_names
  BY <1>7 DEF RecordRemove, nameVars
<1>8. CASE Submit
  BY <1>8, PairLayoutsFrame DEF Submit, nameVars
<1>9. CASE UNCHANGED collectionVars
  BY <1>9, PairLayoutsFrame DEF collectionVars, nameVars
<1>10. QED
  BY <1>1, <1>2, <1>3, <1>4, <1>5, <1>6, <1>7, <1>8, <1>9, PairLayoutsFrame
  DEF CollectionNext

(* An entity is where the collection says it is: its row of its archetype    *)
(* holds it, after any submits, removals and slots used again.               *)
THEOREM LocationsExactCorrect == ArchetypesFit => (CollectionSpec => []LocationsExact)
<1> SUFFICES ASSUME ArchetypesFit
             PROVE  CollectionSpec => []LocationsExact
  OBVIOUS
<1>1. CollectionInit => PairLayouts
  BY DEF CollectionInit, PairLayouts
<1>2. StoreInv /\ NamesInv /\ PairLayouts /\ [CollectionNext]_collectionVars => PairLayouts'
  BY PairLayoutsStep
<1>3. StoreInv /\ RowsInv /\ PairLayouts => LocationsExact
  <2> SUFFICES ASSUME StoreInv, RowsInv, PairLayouts PROVE LocationsExact
    OBVIOUS
  <2>1. location \in [Index -> [node : ExistingNodes, row : Row]]
    BY DEF RowsInv, Place, Exists, ExistingNodes, Row
  <2>2. \A n \in Node :
          /\ table[n].rows \in Seq(Index \union {Vacant})
          /\ table[n].free \in Seq(Row)
          /\ table[n].columns \in Nat
    BY DEF RowsInv, Entry, Row
  <2>3. CollectionTypeOK
    BY <2>1, <2>2 DEF CollectionTypeOK, StoreInv, RowsInv, GraphTypeOK, SoundGraph,
       Records, PairLayouts, Row
  <2>4. ASSUME NEW i \in LiveIndices
        PROVE  /\ location[i].row < Len(table[location[i].node].rows)
               /\ table[location[i].node].rows[location[i].row + 1] = i
    BY DEF RowsInv, LiveIndices, At, Holds
  <2>5. QED
    BY <2>3, <2>4 DEF LocationsExact
<1>4. QED
  BY <1>1, <1>2, <1>3, RowsInvariant, NamesInvariant, PTL DEF CollectionSpec

(* A submit reports both archetypes of every move it makes.                  *)
THEOREM MovesReportedCorrect == ArchetypesFit => (CollectionSpec => MovesReported)
<1> SUFFICES ASSUME ArchetypesFit
             PROVE  CollectionSpec => MovesReported
  OBVIOUS
<1>1. ASSUME RowsInv, Submit, NEW i \in Index, location'[i].node # location[i].node
      PROVE  {location[i].node, location'[i].node} \subseteq changed'
  <2> DEFINE pre == Preprocessed
             t == AllMoved(pre)
             M == Recorded(pre.moves)
  <2>1. location' = t.location /\ changed' = t.changed
    BY <1>1 DEF Submit
  <2>2. /\ Movers(pre.moves) = {m.entity : m \in M}
        /\ \A m \in M : m \in MovesOf
        /\ \A m \in M : t.location[m.entity].node = m.to /\ {m.from, m.to} \subseteq t.changed
        /\ \A j \in Index \ Movers(pre.moves) : t.location[j] = location[j]
    BY <1>1, SubmitMoves DEF Movers, Recorded
  <2> HIDE DEF pre, t, M
  <2>3. PICK m \in M : m.entity = i
    BY <1>1, <2>1, <2>2
  <2>4. location[i] = [node |-> m.from, row |-> m.row]
    BY <2>2, <2>3 DEF MovesOf
  <2>5. location[i].node = m.from /\ location'[i].node = m.to
    BY <2>1, <2>2, <2>3, <2>4
  <2>6. QED
    BY <2>1, <2>2, <2>3, <2>5
<1>2. StoreInv /\ RowsInv /\ [CollectionNext]_collectionVars
        => [Submit => \A i \in Index :
              location'[i].node # location[i].node
                => {location[i].node, location'[i].node} \subseteq changed']_collectionVars
  BY <1>1
<1>3. QED
  BY <1>2, RowsInvariant, PTL DEF CollectionSpec, MovesReported

-----------------------------------------------------------------------------
(* Where the walks lead.  The rows are exact whatever is removed when; that  *)
(* the walk of a record leads to what was asked for takes commands that      *)
(* would each change their entity.                                           *)

(* A walk along an exact edge, or to a node made for the list, leads to      *)
(* exactly one component more or one less.                                   *)
LEMMA WalkAddLeads ==
  ASSUME ArchetypesFit, NEW g \in SoundGraph, Exact(g), NEW n, Exists(g, n),
         NEW c \in Components, c \notin g.comps[n]
  PROVE  LET w == WalkAdd(g, n, c)
         IN  Exact(w.graph) /\ w.graph.comps[w.node] = g.comps[n] \union {c}
<1> DEFINE coms == g.comps[n] \union {c}
           made == GetOrCreate(g, coms)
<1>1. /\ g \in Graph /\ Distinct(g) /\ n \in Node /\ coms \in SUBSET Components
  BY GraphAssumption DEF SoundGraph, Graph, Node, Exists
<1>2. Exact(WalkAdd(g, n, c).graph)
  BY <1>1, AlwaysRoom, WalkAddExact
<1>3. CASE g.add[n][c] # NoNode
  BY <1>1, <1>2, <1>3 DEF WalkAdd, Exact, AddEdgesExact
<1>4. CASE g.add[n][c] = NoNode
  <2>1. WalkAdd(g, n, c) = [graph |-> Link(made.graph, n, c, made.node), node |-> made.node]
    BY <1>4 DEF WalkAdd
  <2>2. made.graph.comps[made.node] = coms /\ made.graph \in Graph
    BY <1>1, GetOrCreateSound DEF SoundGraph
  <2> HIDE DEF made, coms
  <2>3. Link(made.graph, n, c, made.node).comps = made.graph.comps
    BY <2>2 DEF Link, Graph
  <2>4. QED
    BY <1>2, <2>1, <2>2, <2>3 DEF coms
<1>5. QED
  BY <1>3, <1>4

(* The same, towards one component less.                                     *)
LEMMA WalkRemoveLeads ==
  ASSUME ArchetypesFit, NEW g \in SoundGraph, Exact(g), NEW n, Exists(g, n),
         NEW c \in Components, c \in g.comps[n]
  PROVE  LET w == WalkRemove(g, n, c)
         IN  Exact(w.graph) /\ w.graph.comps[w.node] = g.comps[n] \ {c}
<1> DEFINE coms == g.comps[n] \ {c}
           made == GetOrCreate(g, coms)
<1>1. /\ g \in Graph /\ Distinct(g) /\ n \in Node /\ coms \in SUBSET Components
  BY GraphAssumption DEF SoundGraph, Graph, Node, Exists
<1>2. Exact(WalkRemove(g, n, c).graph)
  BY <1>1, AlwaysRoom, WalkRemoveExact
<1>3. CASE g.remove[n][c] # NoNode
  BY <1>1, <1>2, <1>3 DEF WalkRemove, Exact, RemoveEdgesExact
<1>4. CASE g.remove[n][c] = NoNode
  <2>1. WalkRemove(g, n, c) = [graph |-> Link(made.graph, made.node, c, n), node |-> made.node]
    BY <1>4 DEF WalkRemove
  <2>2. made.graph.comps[made.node] = coms /\ made.graph \in Graph
    BY <1>1, GetOrCreateSound DEF SoundGraph
  <2> HIDE DEF made, coms
  <2>3. Link(made.graph, made.node, c, n).comps = made.graph.comps
    BY <2>2 DEF Link, Graph
  <2>4. QED
    BY <1>2, <2>1, <2>2, <2>3 DEF coms
<1>5. QED
  BY <1>3, <1>4

\* What a set of commands makes of a list of components.
Applied(coms, commands) ==
  {c \in coms : <<"Remove", c>> \notin commands}
    \union {c \in Components : <<"Add", c>> \in commands}

\* The commands that would change a list.
Matching(coms) == {d \in Commands : d[1] = "Add" <=> d[2] \notin coms}

(* One command that would change the list leads to what the commands so far  *)
(* make of it.                                                               *)
LEMMA StepLeads ==
  ASSUME ArchetypesFit, NEW g \in SoundGraph, NEW w \in Walks(g), Exact(w.graph),
         NEW coms \in SUBSET Components, NEW done \in SUBSET Matching(coms),
         w.graph.comps[w.node] = Applied(coms, done),
         NEW d \in Matching(coms), d \notin done
  PROVE  LET t == Step(w, d)
         IN  Exact(t.graph) /\ t.graph.comps[t.node] = Applied(coms, done \union {d})
<1>1. /\ w.graph \in SoundGraph /\ Exists(w.graph, w.node)
      /\ d = <<d[1], d[2]>> /\ d[1] \in {"Add", "Remove"} /\ d[2] \in Components
      /\ d[1] = "Add" <=> d[2] \notin coms
  BY DEF Walks, Matching, Commands
<1>2. \A c \in Components : /\ <<"Add", c>> \in done => c \notin coms
                            /\ <<"Remove", c>> \in done => c \in coms
  <2>1. ASSUME NEW c \in Components, <<"Add", c>> \in done
        PROVE  c \notin coms
    BY <2>1 DEF Matching
  <2>2. ASSUME NEW c \in Components, <<"Remove", c>> \in done
        PROVE  c \in coms
    BY <2>2 DEF Matching
  <2>3. QED
    BY <2>1, <2>2
<1> DEFINE c == d[2]
<1>3. CASE d[1] = "Add"
  <2>1. d = <<"Add", c>> /\ c \in Components /\ c \notin coms
    BY <1>1, <1>3
  <2>2. Step(w, d) = WalkAdd(w.graph, w.node, c)
    BY <1>3 DEF Step
  <2> HIDE DEF c
  <2>3. c \notin Applied(coms, done)
    BY <2>1 DEF Applied
  <2>4. /\ Exact(Step(w, d).graph)
        /\ Step(w, d).graph.comps[Step(w, d).node] = Applied(coms, done) \union {c}
    BY <1>1, <2>1, <2>2, <2>3, WalkAddLeads
  <2>5. Applied(coms, done) \union {c} = Applied(coms, done \union {d})
    BY <2>1 DEF Applied
  <2>6. QED
    BY <2>4, <2>5
<1>4. CASE d[1] = "Remove"
  <2>1. d = <<"Remove", c>> /\ c \in Components /\ c \in coms
    BY <1>1, <1>4
  <2>2. Step(w, d) = WalkRemove(w.graph, w.node, c)
    BY <1>4 DEF Step
  <2> HIDE DEF c
  <2>3. c \in Applied(coms, done)
    BY <2>1 DEF Applied
  <2>4. /\ Exact(Step(w, d).graph)
        /\ Step(w, d).graph.comps[Step(w, d).node] = Applied(coms, done) \ {c}
    BY <1>1, <2>1, <2>2, <2>3, WalkRemoveLeads
  <2>5. Applied(coms, done) \ {c} = Applied(coms, done \union {d})
    BY <1>2, <2>1 DEF Applied
  <2>6. QED
    BY <2>4, <2>5
<1>5. QED
  BY <1>1, <1>3, <1>4

(* The walk of a record whose commands would all change the entity's         *)
(* components leads to the archetype they ask for.                           *)
LEMMA WalkedLeads ==
  ASSUME ArchetypesFit, NEW g \in SoundGraph, Exact(g), NEW i \in Index,
         record[i] \in Records, Exists(g, location[i].node),
         Recorded(record[i]) \subseteq Matching(g.comps[location[i].node])
  PROVE  LET w == Walked(g, i)
         IN  /\ Exact(w.graph)
             /\ w.graph.comps[w.node]
                  = Applied(g.comps[location[i].node], Recorded(record[i]))
<1> DEFINE r == record[i]
           n == Len(r)
           coms == g.comps[location[i].node]
           Done(k) == {r[j] : j \in 1 .. k}
<1>1. /\ r \in Seq(Commands) /\ n \in Nat /\ DOMAIN r = 1 .. n
      /\ \A j, k \in 1 .. n : r[j] = r[k] => j = k
      /\ \A k \in 1 .. n : r[k] \in Matching(coms)
      /\ Recorded(r) = Done(n)
  BY LenProperties DEF Records, IsInjective, Recorded
<1>2. PICK run \in [0 .. n -> Walks(g)] :
           /\ run[0] = [graph |-> g, node |-> location[i].node]
           /\ \A k \in 1 .. n : run[k] = Step(run[k - 1], r[k])
           /\ run[n] = Walked(g, i)
  BY <1>1, WalkedRun
<1>3. coms \in SUBSET Components
  BY GraphAssumption DEF SoundGraph, Graph, Node, Exists
<1>4. run[0].graph = g /\ run[0].graph.comps[run[0].node] = coms
  BY <1>2
<1> HIDE DEF r, n, coms
<1> DEFINE P == {k \in 0 .. n :
                   /\ Exact(run[k].graph)
                   /\ run[k].graph.comps[run[k].node] = Applied(coms, Done(k))}
<1>5. 0 \in P
  <2>1. Done(0) = {} /\ 0 \in 0 .. n
    BY <1>1
  <2>2. Applied(coms, {}) = coms
    BY DEF Applied
  <2>3. QED
    BY <1>4, <2>1, <2>2
<1>6. ASSUME NEW k \in 1 .. n, k - 1 \in P
      PROVE  k \in P
  <2> DEFINE w == run[k - 1]
             d == r[k]
             done == Done(k - 1)
  <2>1. k - 1 \in 0 .. n /\ k \in 0 .. n /\ 1 .. k = (1 .. k - 1) \union {k}
        /\ \A j \in 1 .. k - 1 : j \in 1 .. n /\ j # k
    BY <1>1
  <2>2. /\ w \in Walks(g) /\ Exact(w.graph)
        /\ w.graph.comps[w.node] = Applied(coms, done)
        /\ d \in Matching(coms) /\ run[k] = Step(w, d)
    BY <1>1, <1>2, <1>6, <2>1
  <2>3. done \in SUBSET Matching(coms) /\ d \notin done /\ Done(k) = done \union {d}
    BY <1>1, <2>1
  <2> HIDE DEF w, d, done, Done
  <2>4. LET t == Step(w, d)
        IN  Exact(t.graph) /\ t.graph.comps[t.node] = Applied(coms, done \union {d})
    BY <1>3, <2>2, <2>3, StepLeads
  <2>5. Exact(run[k].graph) /\ run[k].graph.comps[run[k].node] = Applied(coms, Done(k))
    BY <2>2, <2>3, <2>4
  <2>6. QED
    BY <2>1, <2>5
<1>7. n \in P
  <2> HIDE DEF P
  <2>1. \A k \in 0 .. n : k \in P
    BY <1>1, <1>5, <1>6, UpTo
  <2>2. QED
    BY <1>1, <2>1
<1>8. QED
  BY <1>1, <1>2, <1>7 DEF coms, r

\* What is pending would change its entity, and is of one that lives: so it is
\* while the program removes only entities with nothing pending.
MatchInv ==
  /\ Exact(graph)
  /\ graph.comps[Root] = {}
  /\ \A i \in Index :
       /\ record[i] # <<>> => entity_datas[i].alive
       /\ Recorded(record[i]) \subseteq Matching(ComponentsOf(i))
       /\ <<"Add", EntityId(i)>> \notin Recorded(record[i])
       /\ entity_datas[i].alive => EntityId(i) \notin ComponentsOf(i)

(* What is wanted of an entity is what its record makes of what it has.      *)
LEMMA WantedApplied ==
  \A i \in Index : Wanted(i) = Applied(ComponentsOf(i), Recorded(record[i]))
BY DEF Wanted, Applied

\* The walks made so far are exact.
LedExactly(s) ==
  /\ Exact(s.graph)
  /\ \A k \in DOMAIN s.moves : s.graph.comps[s.moves[k].to] = Wanted(s.moves[k].entity)

(* One entity of the queue is led where its record asks.                     *)
LEMMA OneLeads ==
  ASSUME ArchetypesFit, RowsInv, MatchInv, NEW s \in Walkings, LedExactly(s), NEW i \in Index
  PROVE  LedExactly(OnePreprocessed(s, i))
<1>1. CASE record[i] = <<>>
  BY <1>1 DEF OnePreprocessed
<1>2. CASE record[i] # <<>>
  <2> DEFINE walk == Walked(s.graph, i)
             m == Move(location[i].node, walk.node, i)
             t == [graph |-> walk.graph, moves |-> Append(s.moves, m)]
             n == Len(s.moves)
  <2>1. OnePreprocessed(s, i) = t
    BY <1>2 DEF OnePreprocessed
  <2>2. /\ s.graph \in SoundGraph /\ s.graph \in Graph /\ graph \in Graph
        /\ s.moves \in Seq(MovesOf)
        /\ Extends(s.graph, graph)
        /\ \A k \in DOMAIN s.moves : Exists(s.graph, s.moves[k].to)
        /\ Exists(graph, location[i].node)
        /\ record[i] \in Records /\ record[i] \in Seq(Commands)
    BY DEF Walkings, SoundGraph, RowsInv, Records
  <2>3. /\ Exists(s.graph, location[i].node)
        /\ s.graph.comps[location[i].node] = ComponentsOf(i)
    BY <2>2, ExtendsExists DEF ComponentsOf
  <2>4. walk \in Walks(s.graph)
    BY <2>2, <2>3, WalkedSound
  <2>5. Exact(walk.graph) /\ walk.graph.comps[walk.node] = Wanted(i)
    <3>1. Recorded(record[i]) \subseteq Matching(s.graph.comps[location[i].node])
      BY <2>3 DEF MatchInv
    <3>2. Exact(s.graph)
      BY DEF LedExactly
    <3>3. QED
      BY <2>2, <2>3, <3>1, <3>2, WalkedLeads, WantedApplied
  <2>6. Extends(walk.graph, s.graph) /\ walk.graph \in Graph
    BY <2>4 DEF Walks, SoundGraph
  <2> HIDE DEF walk
  <2>7. m.entity = i /\ m.to = walk.node
    BY DEF Move
  <2>8. m \in {m} \union MovesOf /\ s.moves \in Seq({m} \union MovesOf)
    <3>1. n \in Nat /\ s.moves \in [1 .. n -> MovesOf]
      BY <2>2, LenProperties
    <3> HIDE DEF m, n
    <3>2. s.moves \in [1 .. n -> {m} \union MovesOf]
      BY <3>1
    <3>3. QED
      BY <3>1, <3>2, IsASeq
  <2> HIDE DEF m
  <2>9. /\ n \in Nat /\ DOMAIN s.moves = 1 .. n
        /\ DOMAIN t.moves = 1 .. n + 1
        /\ t.moves[n + 1] = m
        /\ \A k \in 1 .. n : t.moves[k] = s.moves[k]
    BY <2>8, AppendProperties, LenProperties
  <2>10. t.graph = walk.graph
    OBVIOUS
  <2> HIDE DEF t, n
  <2>11. ASSUME NEW k \in 1 .. n + 1
         PROVE  walk.graph.comps[t.moves[k].to] = Wanted(t.moves[k].entity)
    <3>1. CASE k = n + 1
      BY <2>5, <2>7, <2>9, <3>1
    <3>2. CASE k # n + 1
      <4>1. k \in 1 .. n
        BY <2>9, <3>2
      <4>2. /\ Exists(s.graph, s.moves[k].to)
            /\ s.graph.comps[s.moves[k].to] = Wanted(s.moves[k].entity)
        BY <2>2, <2>9, <4>1 DEF LedExactly
      <4>3. QED
        BY <2>2, <2>6, <2>9, <4>1, <4>2, ExtendsExists
    <3>3. QED
      BY <3>1, <3>2
  <2>12. QED
    BY <2>1, <2>5, <2>9, <2>10, <2>11 DEF LedExactly
<1>3. QED
  BY <1>1, <1>2

(* Every move of a submit is to the archetype of what is wanted of its       *)
(* entity.                                                                   *)
LEMMA PreprocessedLeads ==
  ASSUME ArchetypesFit, RowsInv, MatchInv
  PROVE  /\ Exact(Preprocessed.graph)
         /\ \A m \in Recorded(Preprocessed.moves) :
              Preprocessed.graph.comps[m.to] = Wanted(m.entity)
<1> DEFINE q == Once(dirty_entities)
           n == Len(q)
<1>1. \A i \in Index : Walkable(i)
  BY DEF RowsInv, Records, Walkable
<1>2. PICK run \in [0 .. n -> Walkings] :
           /\ run[0] = [graph |-> graph, moves |-> <<>>]
           /\ \A k \in 1 .. n : run[k] = OnePreprocessed(run[k - 1], q[k])
           /\ run[n] = Preprocessed
  BY <1>1, PreprocessedRun DEF RowsInv
<1>3. n \in Nat /\ \A k \in 1 .. n : q[k] \in Index
  <2>1. q \in Seq(Index)
    BY OnceProperties DEF RowsInv
  <2>2. QED
    BY <2>1, LenProperties, ElementOfSeq
<1> HIDE DEF q, n
<1> DEFINE P == {k \in 0 .. n : LedExactly(run[k])}
<1>4. 0 \in P
  <2>1. /\ run[0].graph = graph /\ DOMAIN run[0].moves = {} /\ 0 \in 0 .. n
    BY <1>2, <1>3
  <2>2. QED
    BY <2>1 DEF LedExactly, MatchInv
<1>5. ASSUME NEW k \in 1 .. n, k - 1 \in P
      PROVE  k \in P
  <2>1. k - 1 \in 0 .. n /\ k \in 0 .. n
    BY <1>3
  <2>2. run[k - 1] \in Walkings /\ LedExactly(run[k - 1]) /\ q[k] \in Index
    BY <1>3, <1>5, <2>1
  <2>3. LedExactly(OnePreprocessed(run[k - 1], q[k]))
    BY <2>2, OneLeads
  <2>4. QED
    BY <1>2, <2>1, <2>3
<1>6. LedExactly(Preprocessed)
  <2> HIDE DEF P
  <2>1. \A k \in 0 .. n : k \in P
    BY <1>3, <1>4, <1>5, UpTo
  <2>2. n \in P
    BY <1>3, <2>1
  <2>3. QED
    BY <1>2, <2>2 DEF P
<1>7. QED
  BY <1>6 DEF LedExactly, Recorded

-----------------------------------------------------------------------------
(* What recording makes of what is wanted.                                   *)

\* Commands that would change what entity i has, and never add it to itself.
Pending(i, r) ==
  Recorded(r) \subseteq Matching(ComponentsOf(i)) /\ <<"Add", EntityId(i)>> \notin Recorded(r)

\* What a call of a type makes of a list of components, for entity i.
Asked(i, type, coms, cs) ==
  IF type = "Add" THEN coms \union (cs \ {EntityId(i)}) ELSE coms \ cs

(* One component of a call: what is pending still changes the entity, and    *)
(* asks for what the call says of it.                                        *)
LEMMA OneRecordedLeads ==
  ASSUME NEW i \in Index, NEW type \in {"Add", "Remove"}, NEW r \in Records, NEW c \in Components,
         Pending(i, r), ComponentsOf(i) \subseteq Components, EntityId(i) \notin ComponentsOf(i)
  PROVE  /\ Pending(i, OneRecorded(i, type, r, c))
         /\ Applied(ComponentsOf(i), Recorded(OneRecorded(i, type, r, c))) =
              Asked(i, type, Applied(ComponentsOf(i), Recorded(r)), {c})
<1> DEFINE coms == ComponentsOf(i)
           q == OneRecorded(i, type, r, c)
           e == EntityId(i)
           R == Recorded(r)
<1>1. Recorded(q) = IF Opposite(type, c) \in R THEN R \ {Opposite(type, c)}
                    ELSE IF Effective(i, type, c) THEN R \union {<<type, c>>}
                    ELSE R
  BY OneRecordedProperties
<1>2. /\ R \subseteq Matching(coms) /\ <<"Add", e>> \notin R
      /\ coms \subseteq Components /\ e \notin coms
  BY DEF Pending
<1>3. \A d \in Components : /\ <<"Add", d>> \in R => d \notin coms /\ d # e
                            /\ <<"Remove", d>> \in R => d \in coms
  <2>1. ASSUME NEW d \in Components, <<"Add", d>> \in R
        PROVE  d \notin coms /\ d # e
    BY <1>2, <2>1 DEF Matching
  <2>2. ASSUME NEW d \in Components, <<"Remove", d>> \in R
        PROVE  d \in coms
    BY <1>2, <2>2 DEF Matching
  <2>3. QED
    BY <2>1, <2>2
<1>4. Effective(i, type, c) <=> \/ type = "Add" /\ c \notin coms /\ c # e
                                \/ type = "Remove" /\ c \in coms
  BY DEF Effective
<1>5. <<"Add", c>> \in Commands /\ <<"Remove", c>> \in Commands
  BY DEF Commands
<1> DEFINE Q == Recorded(q)
<1>9. \A d : <<"Add", d>> # <<"Remove", d>> /\ <<"Add", d>> # <<"Remove", c>>
             /\ <<"Remove", d>> # <<"Add", c>>
             /\ (<<"Add", d>> = <<"Add", c>> <=> d = c)
             /\ (<<"Remove", d>> = <<"Remove", c>> <=> d = c)
  OBVIOUS
<1> HIDE DEF coms, q, e, R
<1>6. CASE type = "Add"
  <2>1. Opposite(type, c) = <<"Remove", c>>
    BY <1>6 DEF Opposite
  <2>2. CASE <<"Remove", c>> \in R
    <3>1. Q = R \ {<<"Remove", c>>} /\ c \in coms /\ c # e
      BY <1>1, <1>2, <1>3, <2>1, <2>2
    <3>2. Applied(coms, Q) = Applied(coms, R) \union {c}
      BY <1>2, <1>9, <3>1 DEF Applied
    <3>3. QED
      BY <1>2, <1>6, <3>1, <3>2 DEF Pending, Asked, coms, q, e, R
  <2>3. CASE <<"Remove", c>> \notin R /\ c \notin coms /\ c # e
    <3>1. Q = R \union {<<"Add", c>>}
      BY <1>1, <1>4, <1>6, <2>1, <2>3
    <3>2. Applied(coms, Q) = Applied(coms, R) \union {c}
      BY <1>2, <1>9, <2>3, <3>1 DEF Applied
    <3>3. <<"Add", c>> \in Matching(coms)
      BY <1>5, <2>3 DEF Matching
    <3>4. <<"Add", e>> # <<"Add", c>>
      BY <2>3
    <3>5. QED
      BY <1>2, <1>6, <2>3, <3>1, <3>2, <3>3, <3>4 DEF Pending, Asked, coms, q, e, R
  <2>4. CASE <<"Remove", c>> \notin R /\ (c \in coms \/ c = e)
    <3>1. Q = R
      BY <1>1, <1>4, <1>6, <2>1, <2>4
    <3>2. {c} \ {e} \subseteq Applied(coms, R)
      BY <2>4 DEF Applied
    <3>3. QED
      BY <1>2, <1>6, <3>1, <3>2 DEF Pending, Asked, coms, q, e, R
  <2>5. QED
    BY <2>2, <2>3, <2>4
<1>7. CASE type = "Remove"
  <2>1. Opposite(type, c) = <<"Add", c>> /\ type # "Add"
    BY <1>7 DEF Opposite
  <2>2. CASE <<"Add", c>> \in R
    <3>1. Q = R \ {<<"Add", c>>} /\ c \notin coms
      BY <1>1, <1>3, <2>1, <2>2
    <3>2. Applied(coms, Q) = Applied(coms, R) \ {c}
      BY <1>2, <1>9, <3>1 DEF Applied
    <3>3. QED
      BY <1>2, <2>1, <3>1, <3>2 DEF Pending, Asked, coms, q, e, R
  <2>3. CASE <<"Add", c>> \notin R /\ c \in coms
    <3>1. Q = R \union {<<"Remove", c>>}
      BY <1>1, <1>4, <1>7, <2>1, <2>3
    <3>2. Applied(coms, Q) = Applied(coms, R) \ {c}
      BY <1>2, <1>9, <2>3, <3>1 DEF Applied
    <3>3. <<"Remove", c>> \in Matching(coms)
      BY <1>5, <2>3 DEF Matching
    <3>4. <<"Add", e>> # <<"Remove", c>>
      OBVIOUS
    <3>5. QED
      BY <1>2, <2>1, <3>1, <3>2, <3>3, <3>4 DEF Pending, Asked, coms, q, e, R
  <2>4. CASE <<"Add", c>> \notin R /\ c \notin coms
    <3>1. Q = R
      BY <1>1, <1>4, <1>7, <2>1, <2>4
    <3>2. c \notin Applied(coms, R)
      BY <2>4 DEF Applied
    <3>3. QED
      BY <1>2, <2>1, <3>1, <3>2 DEF Pending, Asked, coms, q, e, R
  <2>5. QED
    BY <2>2, <2>3, <2>4
<1>8. QED
  BY <1>6, <1>7

(* A call leaves only commands that change the entity, and what is wanted of *)
(* it is what was wanted, with or without the components of the call.        *)
LEMMA AllRecordedLeads ==
  ASSUME NEW i \in Index, NEW type \in {"Add", "Remove"}, NEW cs \in Seq(Components),
         record[i] \in Records, Pending(i, record[i]),
         ComponentsOf(i) \subseteq Components, EntityId(i) \notin ComponentsOf(i)
  PROVE  /\ Pending(i, AllRecorded(i, type, cs))
         /\ Applied(ComponentsOf(i), Recorded(AllRecorded(i, type, cs))) =
              Asked(i, type, Applied(ComponentsOf(i), Recorded(record[i])), Recorded(cs))
<1> DEFINE n == Len(cs)
           coms == ComponentsOf(i)
           base == Applied(coms, Recorded(record[i]))
           Done(k) == {cs[j] : j \in 1 .. k}
<1>1. PICK run \in [0 .. n -> Records] :
           /\ run[0] = record[i]
           /\ \A k \in 1 .. n : run[k] = OneRecorded(i, type, run[k - 1], cs[k])
           /\ run[n] = AllRecorded(i, type, cs)
  BY RecordRun
<1>2. /\ n \in Nat /\ DOMAIN cs = 1 .. n /\ \A k \in 1 .. n : cs[k] \in Components
      /\ Recorded(cs) = Done(n)
  BY LenProperties, ElementOfSeq DEF Recorded
<1> HIDE DEF n, base
<1> DEFINE P == {k \in 0 .. n :
                   /\ Pending(i, run[k])
                   /\ Applied(coms, Recorded(run[k])) = Asked(i, type, base, Done(k))}
<1>3. 0 \in P
  <2>1. Done(0) = {} /\ 0 \in 0 .. n
    BY <1>2
  <2>2. QED
    BY <1>1, <2>1 DEF Asked, base
<1>4. ASSUME NEW k \in 1 .. n, k - 1 \in P
      PROVE  k \in P
  <2> DEFINE r == run[k - 1]
             c == cs[k]
             done == Done(k - 1)
  <2>1. k - 1 \in 0 .. n /\ k \in 0 .. n /\ 1 .. k = (1 .. k - 1) \union {k}
    BY <1>2
  <2>2. /\ r \in Records /\ c \in Components /\ run[k] = OneRecorded(i, type, r, c)
        /\ Pending(i, r) /\ Applied(coms, Recorded(r)) = Asked(i, type, base, done)
        /\ Done(k) = done \union {c}
    BY <1>1, <1>2, <1>4, <2>1
  <2> HIDE DEF r, c, done, coms
  <2>3. /\ Pending(i, run[k])
        /\ Applied(coms, Recorded(run[k])) = Asked(i, type, Applied(coms, Recorded(r)), {c})
    BY <2>2, OneRecordedLeads DEF coms
  <2>4. Asked(i, type, Asked(i, type, base, done), {c}) = Asked(i, type, base, done \union {c})
    BY DEF Asked
  <2>5. QED
    BY <2>1, <2>2, <2>3, <2>4 DEF coms
<1>5. n \in P
  <2> HIDE DEF P
  <2>1. \A k \in 0 .. n : k \in P
    BY <1>2, <1>3, <1>4, UpTo
  <2>2. QED
    BY <1>2, <2>1
<1>6. QED
  BY <1>1, <1>2, <1>5 DEF base

-----------------------------------------------------------------------------
(* The steps of the collection keep what is pending worth applying.          *)

(* A step that touches no archetype and no record, and removes nobody with   *)
(* commands.                                                                 *)
LEMMA MatchFrame ==
  ASSUME MatchInv, UNCHANGED <<graph, location, record>>,
         \A i \in Index : /\ entity_datas'[i].alive => entity_datas[i].alive
                          /\ record[i] # <<>> => entity_datas'[i].alive
  PROVE  MatchInv'
BY DEF MatchInv, ComponentsOf

(* What an entity has are components.                                        *)
LEMMA ComponentsTyped ==
  ASSUME RowsInv, NEW i \in Index
  PROVE  ComponentsOf(i) \subseteq Components
BY DEF RowsInv, Place, SoundGraph, Graph, ComponentsOf

(* A new entity has nothing and nothing pending.                             *)
LEMMA MatchCreate ==
  ASSUME StoreInv, RowsInv, MatchInv, NEW name, NEW bit29 \in Bit29, CreateEntity(name, bit29)
  PROVE  MatchInv'
<1> DEFINE named == NameGiven(name) # NoName
           i == NextIndex
<1>1. NewEntity(named, bit29) /\ named \in BOOLEAN
  BY DEF CreateEntity
<1>2. /\ i \in Index /\ ~ entity_datas[i].alive
      /\ \A j \in Index : j # i => entity_datas'[j] = entity_datas[j]
      /\ ~ WithinLimit(i) => entity_datas' = entity_datas
  BY <1>1, LiveNew
<1>3. UNCHANGED <<graph, record>> /\ record[i] = <<>>
  BY <1>2 DEF CreateEntity, MatchInv
<1>4. CASE ~ WithinLimit(i)
  <2>1. UNCHANGED location
    BY <1>4 DEF CreateEntity
  <2>2. QED
    BY <1>2, <1>3, <1>4, <2>1, MatchFrame DEF MatchInv
<1>5. CASE WithinLimit(i)
  <2> DEFINE row == TargetRow(Emplaced(table[Root], 1))
  <2>1. location' = [location EXCEPT ![i] = [node |-> Root, row |-> row]]
    BY <1>5 DEF CreateEntity
  <2> HIDE DEF row, i
  <2>2. /\ location'[i].node = Root
        /\ \A j \in Index : j # i => location'[j] = location[j]
    BY <1>2, <2>1 DEF RowsInv
  <2>6. graph' = graph /\ graph.comps[Root] = {}
    BY <1>3 DEF MatchInv
  <2>3. /\ graph'.comps[location'[i].node] = {}
        /\ \A j \in Index : j # i => ComponentsOf(j)' = ComponentsOf(j)
    BY <2>2, <2>6 DEF ComponentsOf
  <2>4. ASSUME NEW j \in Index
        PROVE  /\ record'[j] # <<>> => entity_datas'[j].alive
               /\ Recorded(record'[j]) \subseteq Matching(ComponentsOf(j)')
               /\ <<"Add", EntityId(j)>> \notin Recorded(record'[j])
               /\ entity_datas'[j].alive => EntityId(j) \notin ComponentsOf(j)'
    <3>1. CASE j = i
      <4>1. record'[j] = <<>> /\ Recorded(<<>>) = {}
        BY <1>3, <3>1 DEF Recorded
      <4>2. ComponentsOf(j)' = {}
        BY <2>3, <3>1 DEF ComponentsOf
      <4>3. QED
        BY <4>1, <4>2
    <3>2. CASE j # i
      BY <1>2, <1>3, <2>3, <3>2 DEF MatchInv
    <3>3. QED
      BY <3>1, <3>2
  <2>5. QED
    BY <1>3, <2>4 DEF MatchInv, Recorded, Matching
<1>6. QED
  BY <1>4, <1>5

\* What recording makes of one entity's record, and of nothing else.
LEMMA ModifyLeads ==
  ASSUME RowsInv, MatchInv, NEW i \in Index, entity_datas[i].alive,
         NEW type \in {"Add", "Remove"}, NEW cs \in Seq(Components),
         Modify(i, type, cs), UNCHANGED <<graph, location>>
  PROVE  /\ \A j \in Index : ComponentsOf(j)' = ComponentsOf(j)
         /\ \A j \in Index : j # i => record'[j] = record[j]
         /\ Pending(i, record'[i])
         /\ Applied(ComponentsOf(i), Recorded(record'[i]))
              = Asked(i, type, Wanted(i), Recorded(cs))
<1> DEFINE r == AllRecorded(i, type, cs)
<1>1. record' = [record EXCEPT ![i] = r]
  BY DEF Modify
<1>2. /\ record[i] \in Records /\ Pending(i, record[i])
      /\ ComponentsOf(i) \subseteq Components /\ EntityId(i) \notin ComponentsOf(i)
  BY ComponentsTyped DEF RowsInv, MatchInv, Pending
<1>3. /\ Pending(i, r)
      /\ Applied(ComponentsOf(i), Recorded(r)) = Asked(i, type, Wanted(i), Recorded(cs))
  BY <1>2, AllRecordedLeads, WantedApplied
<1> HIDE DEF r
<1>4. record'[i] = r /\ \A j \in Index : j # i => record'[j] = record[j]
  BY <1>1 DEF RowsInv
<1>5. QED
  BY <1>3, <1>4 DEF ComponentsOf

(* Recording leaves only commands that change their entity.                  *)
LEMMA MatchModify ==
  ASSUME EntityTypeOK, RowsInv, MatchInv, NEW i \in Index, entity_datas[i].alive,
         NEW type \in {"Add", "Remove"}, NEW cs \in Seq(Components),
         Modify(i, type, cs), UNCHANGED <<graph, location>>
  PROVE  MatchInv'
<1>1. \A j \in Index : entity_datas'[j].alive = entity_datas[j].alive
  BY DEF Modify, EntityTypeOK, Slot
<1>2. /\ \A j \in Index : ComponentsOf(j)' = ComponentsOf(j)
      /\ \A j \in Index : j # i => record'[j] = record[j]
      /\ Pending(i, record'[i])
  BY ModifyLeads
<1>3. ASSUME NEW j \in Index
      PROVE  /\ record'[j] # <<>> => entity_datas'[j].alive
             /\ Recorded(record'[j]) \subseteq Matching(ComponentsOf(j)')
             /\ <<"Add", EntityId(j)>> \notin Recorded(record'[j])
             /\ entity_datas'[j].alive => EntityId(j) \notin ComponentsOf(j)'
  <2>1. CASE j = i
    BY <1>1, <1>2, <2>1 DEF Pending, MatchInv
  <2>2. CASE j # i
    BY <1>1, <1>2, <2>2 DEF MatchInv
  <2>3. QED
    BY <2>1, <2>2
<1>4. QED
  BY <1>3 DEF MatchInv, Recorded, Matching

(* A submit gives every entity it moves what was wanted of it, and leaves    *)
(* the others what they have.                                                *)
LEMMA SubmitLeads ==
  ASSUME ArchetypesFit, RowsInv, MatchInv, Submit
  PROVE  /\ Exact(graph)' /\ graph'.comps[Root] = {}
         /\ \A i \in Index :
              IF i \in Recorded(dirty_entities) /\ record[i] # <<>>
              THEN ComponentsOf(i)' = Wanted(i) /\ record'[i] = <<>>
              ELSE ComponentsOf(i)' = ComponentsOf(i) /\ record'[i] = record[i]
<1> DEFINE pre == Preprocessed
           t == AllMoved(pre)
           M == Recorded(pre.moves)
<1>1. graph' = pre.graph /\ record' = Emptied /\ location' = t.location
  BY DEF Submit
<1>2. /\ pre \in Walkings
      /\ Movers(pre.moves) = {i \in Recorded(dirty_entities) : record[i] # <<>>}
      /\ \A m \in M : t.location[m.entity].node = m.to
      /\ \A j \in Index \ Movers(pre.moves) : t.location[j] = location[j]
  BY SubmitMoves
<1>9. Movers(pre.moves) = {m.entity : m \in M}
  BY DEF Movers, Recorded
<1>3. /\ Exact(pre.graph)
      /\ \A m \in M : pre.graph.comps[m.to] = Wanted(m.entity)
  BY PreprocessedLeads
<1> HIDE DEF pre, t, M
<1>4. /\ Extends(pre.graph, graph)
      /\ graph \in Graph /\ pre.graph \in Graph
  BY <1>2 DEF Walkings, RowsInv, SoundGraph
<1>5. graph'.comps[Root] = {}
  <2>1. Exists(graph, Root)
    BY <1>4, GraphAssumption DEF Graph, Node, Exists, Root
  <2>2. QED
    BY <1>1, <1>4, <2>1, ExtendsExists DEF MatchInv
<1>6. ASSUME NEW i \in Index, i \in Recorded(dirty_entities), record[i] # <<>>
      PROVE  ComponentsOf(i)' = Wanted(i) /\ record'[i] = <<>>
  <2>1. PICK m \in M : m.entity = i
    BY <1>2, <1>6, <1>9
  <2>2. QED
    BY <1>1, <1>2, <1>3, <1>6, <2>1 DEF ComponentsOf, Emptied
<1>7. ASSUME NEW i \in Index, ~ (i \in Recorded(dirty_entities) /\ record[i] # <<>>)
      PROVE  ComponentsOf(i)' = ComponentsOf(i) /\ record'[i] = record[i]
  <2>1. location'[i] = location[i] /\ Exists(graph, location[i].node)
    BY <1>1, <1>2, <1>7 DEF RowsInv
  <2>2. ComponentsOf(i)' = ComponentsOf(i)
    BY <1>1, <1>4, <2>1, ExtendsExists DEF ComponentsOf
  <2>3. QED
    BY <1>1, <1>7, <2>2 DEF Emptied
<1>8. QED
  BY <1>1, <1>3, <1>5, <1>6, <1>7

(* Applying the commands leaves none of the moved, and the others theirs.    *)
LEMMA MatchSubmit ==
  ASSUME ArchetypesFit, EntityTypeOK, RowsInv, MatchInv, Submit
  PROVE  MatchInv'
<1>1. /\ Exact(graph)' /\ graph'.comps[Root] = {}
      /\ \A i \in Index :
           IF i \in Recorded(dirty_entities) /\ record[i] # <<>>
           THEN ComponentsOf(i)' = Wanted(i) /\ record'[i] = <<>>
           ELSE ComponentsOf(i)' = ComponentsOf(i) /\ record'[i] = record[i]
  BY SubmitLeads
<1>2. \A i \in Index : entity_datas'[i].alive = entity_datas[i].alive
  BY SubmitFlags DEF OnlyFlags
<1>3. Recorded(<<>>) = {}
  BY DEF Recorded
<1>4. ASSUME NEW j \in Index
      PROVE  /\ record'[j] # <<>> => entity_datas'[j].alive
             /\ Recorded(record'[j]) \subseteq Matching(ComponentsOf(j)')
             /\ <<"Add", EntityId(j)>> \notin Recorded(record'[j])
             /\ entity_datas'[j].alive => EntityId(j) \notin ComponentsOf(j)'
  <2>1. CASE j \in Recorded(dirty_entities) /\ record[j] # <<>>
    <3>1. ComponentsOf(j)' = Wanted(j) /\ record'[j] = <<>>
      BY <1>1, <2>1
    <3>2. entity_datas[j].alive => EntityId(j) \notin Wanted(j)
      BY DEF Wanted, MatchInv
    <3>3. QED
      BY <1>2, <1>3, <3>1, <3>2
  <2>2. CASE ~ (j \in Recorded(dirty_entities) /\ record[j] # <<>>)
    BY <1>1, <1>2, <2>2 DEF MatchInv
  <2>3. QED
    BY <2>1, <2>2
<1>5. QED
  BY <1>1, <1>4 DEF MatchInv, Recorded, Matching, Exact

(* At first nothing is pending.                                              *)
LEMMA MatchInvInit == CollectionInit => MatchInv
<1> SUFFICES ASSUME CollectionInit PROVE MatchInv
  OBVIOUS
<1>1. graph = EmptyGraph /\ Exact(graph)
  BY GraphAssumption
  DEF CollectionInit, GraphInit, EmptyGraph, Graph, Node, Exact, AddEdgesExact, RemoveEdgesExact
<1>2. graph.comps[Root] = {}
  BY <1>1, GraphAssumption DEF EmptyGraph, Root, Node
<1>3. \A i \in Index : record[i] = <<>> /\ ComponentsOf(i) = {}
  BY <1>2 DEF CollectionInit, ComponentsOf
<1>4. Recorded(<<>>) = {}
  BY DEF Recorded
<1>5. QED
  BY <1>1, <1>2, <1>3, <1>4 DEF MatchInv

(* Every step keeps what is pending about live entities and worth applying,  *)
(* if none is removed that has commands.                                     *)
LEMMA MatchInvStep ==
  ASSUME ArchetypesFit, Removals = "idle", StoreInv, RowsInv, MatchInv,
         [CollectionNext]_collectionVars
  PROVE  MatchInv'
<1> USE CollectionAssumption
<1>1. ASSUME NEW name, NEW bit29 \in Bit29, CreateEntity(name, bit29)
      PROVE  MatchInv'
  BY <1>1, MatchCreate
<1>2. ASSUME NEW h \in issued, DestroyEntity(h)
      PROVE  MatchInv'
  <2>1. RemoveEntity(h) /\ UNCHANGED <<graph, location, record>>
    BY <1>2 DEF DestroyEntity, tableVars
  <2>2. IsAlive(h) => record[h[1]] = <<>>
    BY <1>2 DEF DestroyEntity, MayRemove
  <2>3. \A i \in Index : /\ entity_datas'[i].alive => entity_datas[i].alive
                         /\ record[i] # <<>> => entity_datas'[i].alive
    BY <2>1, <2>2, LiveRemove DEF MatchInv
  <2>4. QED
    BY <2>1, <2>3, MatchFrame
<1>3. ASSUME UNCHANGED <<entity_datas, graph, location, record>>
      PROVE  MatchInv'
  BY <1>3, MatchFrame DEF MatchInv
<1>4. ASSUME NEW s, NEW h, CreatePairWithStatic(s, h)
      PROVE  MatchInv'
  BY <1>3, <1>4 DEF CreatePairWithStatic, entityVars, tableVars
<1>5. ASSUME NEW hA, NEW hB, CreatePairOfEntities(hA, hB)
      PROVE  MatchInv'
  BY <1>3, <1>5 DEF CreatePairOfEntities, entityVars, tableVars
<1>6. ASSUME NEW nameA, NEW nameB, CreatePairByName(nameA, nameB)
      PROVE  MatchInv'
  BY <1>3, <1>6 DEF CreatePairByName, entityVars, tableVars
<1>7. ASSUME NEW h \in issued, NEW coms \in ComLists, NEW type \in {"Add", "Remove"},
             IsAlive(h), Modify(h[1], type, coms), UNCHANGED <<graph, location>>
      PROVE  MatchInv'
  <2>1. h[1] \in Index /\ entity_datas[h[1]].alive /\ coms \in Seq(Components)
    BY <1>7, HandleShape DEF StoreInv, IsAlive
  <2>2. QED
    BY <1>7, <2>1, MatchModify DEF StoreInv
<1>8. ASSUME NEW h \in issued, NEW coms \in ComLists, RecordAdd(h, coms)
      PROVE  MatchInv'
  BY <1>3, <1>7, <1>8 DEF RecordAdd
<1>9. ASSUME NEW h \in issued, NEW coms \in ComLists, RecordRemove(h, coms)
      PROVE  MatchInv'
  BY <1>3, <1>7, <1>9 DEF RecordRemove
<1>10. CASE UNCHANGED collectionVars
  BY <1>3, <1>10 DEF collectionVars, entityVars, tableVars
<1>11. CASE Submit
  BY <1>11, MatchSubmit DEF StoreInv
<1>12. QED
  BY <1>1, <1>2, <1>4, <1>5, <1>6, <1>8, <1>9, <1>10, <1>11 DEF CollectionNext

(* So it is in every reachable state.                                        *)
LEMMA MatchInvariant ==
  ArchetypesFit /\ Removals = "idle"
    => (CollectionSpec => [](StoreInv /\ RowsInv /\ MatchInv))
<1> SUFFICES ASSUME ArchetypesFit, Removals = "idle"
             PROVE  CollectionSpec => [](StoreInv /\ RowsInv /\ MatchInv)
  OBVIOUS
<1>1. StoreInv /\ RowsInv /\ MatchInv /\ [CollectionNext]_collectionVars => MatchInv'
  BY MatchInvStep
<1>2. QED
  BY <1>1, MatchInvInit, RowsInvariant, PTL DEF CollectionSpec

(* What is pending for a live entity would change it, and never both ways,   *)
(* as long as no entity is removed that has commands or is a component.      *)
THEOREM CommandsMatchLocationCorrect ==
  ArchetypesFit /\ Removals = "idle" => (CollectionSpec => []CommandsMatchLocation)
<1> SUFFICES ASSUME ArchetypesFit, Removals = "idle"
             PROVE  CollectionSpec => []CommandsMatchLocation
  OBVIOUS
<1>1. MatchInv => CommandsMatchLocation
  BY DEF MatchInv, CommandsMatchLocation, Matching, Recorded, LiveIndices
<1>2. QED
  BY <1>1, MatchInvariant, PTL

(* The last call on a component wins, in whatever order commands neutralised *)
(* or repeated each other before.                                            *)
THEOREM LastCommandWinsCorrect ==
  ArchetypesFit /\ Removals = "idle" => (CollectionSpec => LastCommandWins)
<1> SUFFICES ASSUME ArchetypesFit, Removals = "idle"
             PROVE  CollectionSpec => LastCommandWins
  OBVIOUS
<1>1. ASSUME StoreInv, RowsInv, MatchInv, NEW h \in LiveHandles, NEW coms \in ComLists,
             NEW type \in {"Add", "Remove"}, Modify(h[1], type, coms), UNCHANGED <<graph, location>>
      PROVE  Wanted(h[1])' = Asked(h[1], type, Wanted(h[1]), Recorded(coms))
  <2> DEFINE i == h[1]
  <2>1. i \in Index /\ entity_datas[i].alive /\ coms \in Seq(Components)
    BY CollectionAssumption DEF LiveHandles, LiveIndices, HandleOf
  <2> HIDE DEF i
  <2>2. /\ ComponentsOf(i)' = ComponentsOf(i)
        /\ Applied(ComponentsOf(i), Recorded(record'[i]))
             = Asked(i, type, Wanted(i), Recorded(coms))
    BY <1>1, <2>1, ModifyLeads DEF i
  <2>3. Wanted(i)' = Applied(ComponentsOf(i), Recorded(record'[i]))
    BY <2>2 DEF Wanted, Applied, Recorded
  <2>4. QED
    BY <2>2, <2>3 DEF i
<1>2. ASSUME NEW h \in LiveHandles, StoreInv PROVE IsAlive(h)
  BY <1>2, EntityVectorAssumption DEF LiveHandles, LiveIndices, HandleOf, IsAlive, StoreInv, EntityTypeOK, Index
<1>3. StoreInv /\ RowsInv /\ MatchInv
        => \A h \in LiveHandles, coms \in ComLists :
             /\ RecordAdd(h, coms) /\ (\A k \in DOMAIN coms : Found(coms[k]))
                  => Wanted(h[1])' = Wanted(h[1]) \union (Recorded(coms) \ {EntityId(h[1])})
             /\ RecordRemove(h, coms) /\ Recorded(coms) \subseteq layouts
                  => Wanted(h[1])' = Wanted(h[1]) \ Recorded(coms)
  <2> SUFFICES ASSUME StoreInv, RowsInv, MatchInv, NEW h \in LiveHandles, NEW coms \in ComLists
               PROVE  /\ RecordAdd(h, coms) /\ (\A k \in DOMAIN coms : Found(coms[k]))
                           => Wanted(h[1])' = Wanted(h[1]) \union (Recorded(coms) \ {EntityId(h[1])})
                      /\ RecordRemove(h, coms) /\ Recorded(coms) \subseteq layouts
                           => Wanted(h[1])' = Wanted(h[1]) \ Recorded(coms)
    OBVIOUS
  <2>1. ASSUME RecordAdd(h, coms), \A k \in DOMAIN coms : Found(coms[k])
        PROVE  Modify(h[1], "Add", coms) /\ UNCHANGED <<graph, location>>
    BY <1>2, <2>1 DEF RecordAdd
  <2>2. ASSUME RecordRemove(h, coms), Recorded(coms) \subseteq layouts
        PROVE  Modify(h[1], "Remove", coms) /\ UNCHANGED <<graph, location>>
    BY <1>2, <2>2 DEF RecordRemove, Recorded
  <2>3. /\ "Add" \in {"Add", "Remove"} /\ "Remove" \in {"Add", "Remove"} /\ "Add" # "Remove"
    OBVIOUS
  <2>4. ASSUME Modify(h[1], "Add", coms), UNCHANGED <<graph, location>>
        PROVE  Wanted(h[1])' = Wanted(h[1]) \union (Recorded(coms) \ {EntityId(h[1])})
    <3>1. Wanted(h[1])' = Asked(h[1], "Add", Wanted(h[1]), Recorded(coms))
      BY <1>1, <2>3, <2>4
    <3>2. QED
      BY <3>1 DEF Asked
  <2>5. ASSUME Modify(h[1], "Remove", coms), UNCHANGED <<graph, location>>
        PROVE  Wanted(h[1])' = Wanted(h[1]) \ Recorded(coms)
    <3>1. Wanted(h[1])' = Asked(h[1], "Remove", Wanted(h[1]), Recorded(coms))
      BY <1>1, <2>3, <2>5
    <3>2. QED
      BY <2>3, <3>1 DEF Asked
  <2>6. QED
    BY <2>1, <2>2, <2>4, <2>5
<1>4. QED
  BY <1>3, MatchInvariant, PTL DEF LastCommandWins

(* The refinement of EntityStore, step by step: what a live entity has and   *)
(* what it will have are those of its archetype and of its pending commands. *)
Has == [h \in LiveHandles |-> ComponentsOf(h[1])]

\* What a live entity will have.
Wants == [h \in LiveHandles |-> Wanted(h[1])]

(* A live handle is that of a live slot, and every live slot has one.        *)
LEMMA LiveShape ==
  ASSUME StoreInv, NEW h
  PROVE  /\ h \in LiveHandles => /\ h[1] \in Index /\ entity_datas[h[1]].alive
                                 /\ h = HandleOf(h[1])
         /\ \A i \in Index : entity_datas[i].alive => HandleOf(i) \in LiveHandles
BY DEF LiveHandles, LiveIndices, HandleOf, StoreInv

\* The handles that live after a step that keeps every version.
LEMMA LiveKept ==
  ASSUME StoreInv, StoreInv',
         \A i \in Index : /\ entity_datas'[i].alive = entity_datas[i].alive
                          /\ entity_datas'[i].version = entity_datas[i].version
  PROVE  LiveHandles' = LiveHandles
<1>1. LiveIndices = {i \in Index : entity_datas[i].alive}
  BY DEF LiveIndices, StoreInv
<1>2. LiveIndices' = {i \in Index : entity_datas'[i].alive}
  BY DEF LiveIndices, StoreInv
<1>3. \A i \in Index : HandleOf(i)' = HandleOf(i)
  BY DEF HandleOf
<1>4. LiveIndices' = LiveIndices /\ LiveIndices \subseteq Index
  BY <1>1, <1>2
<1>5. LiveHandles = {HandleOf(i) : i \in LiveIndices}
  BY DEF LiveHandles
<1>6. LiveHandles' = {HandleOf(i)' : i \in LiveIndices'}
  BY DEF LiveHandles
<1>7. QED
  BY <1>3, <1>4, <1>5, <1>6

(* A step that touches no slot, archetype, location or record is none of the *)
(* store's.                                                                  *)
LEMMA StoreStutters ==
  ASSUME StoreInv, UNCHANGED <<entity_datas, graph, location, record>>, StoreInv'
  PROVE  UNCHANGED <<Has, Wants>>
<1>1. LiveHandles' = LiveHandles
  BY LiveKept
<1>2. \A h : ComponentsOf(h[1])' = ComponentsOf(h[1]) /\ Wanted(h[1])' = Wanted(h[1])
  BY DEF ComponentsOf, Wanted, Recorded
<1>3. Has' = [h \in LiveHandles' |-> ComponentsOf(h[1])'] /\ Wants' = [h \in LiveHandles' |-> Wanted(h[1])']
  BY DEF Has, Wants
<1>4. QED
  BY <1>1, <1>2, <1>3 DEF Has, Wants

(* At first nobody lives.                                                    *)
LEMMA StoreInits == CollectionInit => Store!StoreInit
<1> SUFFICES ASSUME CollectionInit PROVE Store!StoreInit
  OBVIOUS
<1>1. LiveHandles = {}
  BY DEF CollectionInit, EntityInit, LiveHandles, LiveIndices, NewSlot
<1>2. QED
  BY <1>1 DEF Store!StoreInit

\* What a slot has, and will have, depends on its own location and record.
LEMMA SlotKept ==
  ASSUME UNCHANGED graph, NEW i, location'[i] = location[i], record'[i] = record[i]
  PROVE  ComponentsOf(i)' = ComponentsOf(i) /\ Wanted(i)' = Wanted(i)
<1>1. ComponentsOf(i)' = ComponentsOf(i)
  BY DEF ComponentsOf
<1>2. QED
  BY <1>1 DEF Wanted, Recorded

(* A creation that finds a slot brings a handle to life that has and wants   *)
(* nothing.                                                                  *)
LEMMA StoreCreates ==
  ASSUME StoreInv, StoreInv', RowsInv, MatchInv, NEW name, NEW bit29 \in Bit29,
         CreateEntity(name, bit29)
  PROVE  \/ \E h \in Handle : Store!Create(h)
         \/ UNCHANGED <<Has, Wants>>
<1> DEFINE named == NameGiven(name) # NoName
<1>1. NewEntity(named, bit29) /\ named \in BOOLEAN
  BY DEF CreateEntity
<1> HIDE DEF named
<1>7. PICK i \in Index : i = NextIndex
  BY <1>1, LiveNew
<1>8. PICK h : h = HandleOf(i)
  OBVIOUS
<1>2. /\ i \in Index /\ ~ entity_datas[i].alive
      /\ \A j \in Index : j # i => entity_datas'[j] = entity_datas[j]
      /\ IF WithinLimit(i)
         THEN entity_datas'[i] = [version |-> entity_datas[i].version, alive |-> TRUE,
                                  named |-> named, dirty |-> bit29]
         ELSE entity_datas' = entity_datas
  BY <1>1, <1>7, LiveNew
<1>3. UNCHANGED <<graph, record>> /\ record[i] = <<>> /\ graph.comps[Root] = {}
  BY <1>2 DEF CreateEntity, MatchInv
<1>4. CASE ~ WithinLimit(i)
  <2>1. UNCHANGED location
    BY <1>4, <1>7 DEF CreateEntity
  <2>2. QED
    BY <1>2, <1>3, <1>4, <2>1, StoreStutters
<1>5. CASE WithinLimit(i)
  <2> DEFINE row == TargetRow(Emplaced(table[Root], 1))
  <2>1. location' = [location EXCEPT ![i] = [node |-> Root, row |-> row]]
    BY <1>5, <1>7 DEF CreateEntity
  <2> HIDE DEF row
  <2>2. /\ location'[i].node = Root
        /\ \A j \in Index : j # i => location'[j] = location[j]
    BY <1>2, <2>1 DEF RowsInv
  <2>3. ComponentsOf(i)' = {} /\ Wanted(i)' = {}
    <3>1. record'[i] = <<>> /\ Recorded(<<>>) = {}
      BY <1>3 DEF Recorded
    <3>2. ComponentsOf(i)' = {}
      BY <1>3, <2>2 DEF ComponentsOf
    <3>3. Recorded(record[i])' = {}
      BY <3>1 DEF Recorded
    <3>4. QED
      BY <3>2, <3>3 DEF Wanted
  <2>4. \A j \in Index : j # i => ComponentsOf(j)' = ComponentsOf(j) /\ Wanted(j)' = Wanted(j)
    BY <1>3, <2>2, SlotKept
  <2>5. /\ LiveHandles' = LiveHandles \union {h} /\ h \notin LiveHandles /\ h \in Handle /\ h[1] = i
    <3>1. entity_datas'[i].alive /\ entity_datas'[i].version = entity_datas[i].version
      BY <1>2, <1>5
    <3>2. LiveIndices = {j \in Index : entity_datas[j].alive}
      BY DEF LiveIndices, StoreInv
    <3>3. LiveIndices' = {j \in Index : entity_datas'[j].alive}
      BY DEF LiveIndices, StoreInv
    <3>4. LiveIndices' = LiveIndices \union {i} /\ i \notin LiveIndices /\ LiveIndices \subseteq Index
      BY <1>2, <3>1, <3>2, <3>3
    <3>5. \A j \in Index : HandleOf(j)' = HandleOf(j) /\ HandleOf(j)[1] = j
      BY <1>2, <3>1 DEF HandleOf
    <3>6. LiveHandles = {HandleOf(j) : j \in LiveIndices}
      BY DEF LiveHandles
    <3>7. LiveHandles' = {HandleOf(j)' : j \in LiveIndices'}
      BY DEF LiveHandles
    <3>8. h = HandleOf(i)
      BY <1>8
    <3>9. LiveHandles' = LiveHandles \union {h}
      BY <1>2, <3>4, <3>5, <3>6, <3>7, <3>8
    <3>10. h \notin LiveHandles
      BY <1>2, <3>4, <3>5, <3>6, <3>8
    <3>11. h \in Handle
      BY <1>2, <3>8 DEF HandleOf, Handle, StoreInv, EntityTypeOK, Slot
    <3>12. QED
      BY <1>2, <3>5, <3>8, <3>9, <3>10, <3>11
  <2>6. \A k \in LiveHandles : k[1] \in Index /\ k[1] # i
    BY <1>2, LiveShape
  <2>7. /\ Has' = [k \in LiveHandles' |-> ComponentsOf(k[1])']
        /\ Wants' = [k \in LiveHandles' |-> Wanted(k[1])']
    BY DEF Has, Wants
  <2>8. /\ Has' = [k \in LiveHandles \union {h} |-> IF k = h THEN {} ELSE Has[k]]
        /\ Wants' = [k \in LiveHandles \union {h} |-> IF k = h THEN {} ELSE Wants[k]]
    BY <2>3, <2>4, <2>5, <2>6, <2>7 DEF Has, Wants
  <2>9. Store!Create(h)
    BY <2>5, <2>8 DEF Store!Create, Store!Live, Has, Wants
  <2>10. QED
    BY <2>5, <2>9
<1>6. QED
  BY <1>4, <1>5

(* A removal that is not refused ends a live handle.                         *)
LEMMA StoreDestroys ==
  ASSUME StoreInv, StoreInv', NEW h \in issued, DestroyEntity(h)
  PROVE  Store!Destroy(h) \/ UNCHANGED <<Has, Wants>>
<1> DEFINE i == h[1]
<1>1. RemoveEntity(h) /\ UNCHANGED <<graph, location, record>>
  BY DEF DestroyEntity, tableVars
<1>2. /\ i \in Index
      /\ \A j \in Index : j # i => entity_datas'[j] = entity_datas[j]
      /\ IF IsAlive(h) THEN ~ entity_datas'[i].alive ELSE entity_datas' = entity_datas
  BY <1>1, LiveRemove
<1>3. CASE ~ IsAlive(h)
  BY <1>1, <1>2, <1>3, StoreStutters
<1>4. CASE IsAlive(h)
  <2>1. entity_datas[i].alive /\ h = HandleOf(i)
    <3>1. h \in Handle
      BY DEF StoreInv, EntityTypeOK
    <3>2. QED
      BY <1>4, <3>1 DEF IsAlive, HandleOf, Handle
  <2> HIDE DEF i
  <2>2. /\ LiveHandles' = LiveHandles \ {h} /\ h \in LiveHandles
    <3>2. LiveIndices = {j \in Index : entity_datas[j].alive}
      BY DEF LiveIndices, StoreInv
    <3>3. LiveIndices' = {j \in Index : entity_datas'[j].alive}
      BY DEF LiveIndices, StoreInv
    <3>4. LiveIndices' = LiveIndices \ {i} /\ i \in LiveIndices /\ LiveIndices \subseteq Index
      BY <1>2, <1>4, <2>1, <3>2, <3>3
    <3>5. \A j \in Index : /\ HandleOf(j)[1] = j
                           /\ j # i => HandleOf(j)' = HandleOf(j)
      BY <1>2 DEF HandleOf
    <3>6. LiveHandles = {HandleOf(j) : j \in LiveIndices}
      BY DEF LiveHandles
    <3>7. LiveHandles' = {HandleOf(j)' : j \in LiveIndices'}
      BY DEF LiveHandles
    <3>8. LiveHandles' = {HandleOf(j) : j \in LiveIndices \ {i}}
      BY <3>4, <3>5, <3>7
    <3>9. QED
      BY <2>1, <3>4, <3>5, <3>6, <3>8
  <2>3. \A k : ComponentsOf(k)' = ComponentsOf(k) /\ Wanted(k)' = Wanted(k)
    BY <1>1, SlotKept
  <2>4. /\ Has' = [k \in LiveHandles' |-> ComponentsOf(k[1])']
        /\ Wants' = [k \in LiveHandles' |-> Wanted(k[1])']
    BY DEF Has, Wants
  <2>5. /\ Has' = [k \in LiveHandles \ {h} |-> Has[k]]
        /\ Wants' = [k \in LiveHandles \ {h} |-> Wants[k]]
    BY <2>2, <2>3, <2>4 DEF Has, Wants
  <2>6. QED
    BY <2>2, <2>5 DEF Store!Destroy, Store!Live, Has, Wants
<1>5. QED
  BY <1>3, <1>4

(* A call on a live entity changes what it will have, as asked, and what     *)
(* nobody has.                                                               *)
LEMMA StoreRecords ==
  ASSUME StoreInv, StoreInv', RowsInv, MatchInv, NEW h \in issued, IsAlive(h),
         NEW type \in {"Add", "Remove"}, NEW cs \in Seq(Components),
         Modify(h[1], type, cs), UNCHANGED <<graph, location, free_index, size, issued, removed>>
  PROVE  \E k \in LiveHandles, coms \in SUBSET Components : Store!Ask(k, coms)
<1> DEFINE i == h[1]
           coms == IF type = "Add" THEN Recorded(cs) \ {EntityId(i)} ELSE Recorded(cs)
           w == Asked(i, type, Wanted(i), Recorded(cs))
<1>1. /\ i \in Index /\ entity_datas[i].alive /\ h = HandleOf(i)
  <2>1. h \in Handle
    BY DEF StoreInv, EntityTypeOK
  <2>2. QED
    BY <2>1 DEF IsAlive, HandleOf, Handle
<1>2. coms \in SUBSET Components
  <2>1. \A k \in DOMAIN cs : cs[k] \in Components
    BY ElementOfSeq, LenProperties
  <2>2. QED
    BY <2>1 DEF Recorded
<1> HIDE DEF i
<1>3. LiveHandles' = LiveHandles /\ h \in LiveHandles
  <2>1. OnlyFlags
    BY <1>1, ModifyFlags DEF StoreInv, i
  <2>2. LiveHandles' = LiveHandles
    BY <2>1, LiveKept DEF OnlyFlags
  <2>3. QED
    BY <1>1, <2>2, LiveShape
<1>4. /\ \A j \in Index : ComponentsOf(j)' = ComponentsOf(j)
      /\ \A j \in Index : j # i => record'[j] = record[j]
      /\ Applied(ComponentsOf(i), Recorded(record'[i])) = w
  BY <1>1, ModifyLeads DEF i
<1>5. Wanted(i)' = w
  BY <1>1, <1>4 DEF Wanted, Applied, Recorded
<1>6. w = IF type = "Add" THEN Wanted(i) \union coms ELSE Wanted(i) \ coms
  BY DEF Asked
<1> HIDE DEF w, coms
<1>7. \A j \in Index : j # i => Wanted(j)' = Wanted(j)
  BY <1>4 DEF Wanted, Recorded
<1>8. \A k \in LiveHandles : k[1] \in Index /\ (k[1] = i => k = h)
  BY <1>1, LiveShape
<1>9. h[1] = i
  BY DEF i
<1>10. /\ Has' = [k \in LiveHandles' |-> ComponentsOf(k[1])']
       /\ Wants' = [k \in LiveHandles' |-> Wanted(k[1])']
  BY DEF Has, Wants
<1>11. Has' = Has
  BY <1>3, <1>4, <1>8, <1>10 DEF Has
<1>12. Wants' = [Wants EXCEPT ![h] = w] /\ Wants[h] = Wanted(i)
  BY <1>3, <1>5, <1>7, <1>8, <1>9, <1>10 DEF Wants
<1>13. Store!Ask(h, coms)
  BY <1>3, <1>6, <1>11, <1>12 DEF Store!Ask, Store!Record, Store!Live, Has, Wants
<1>14. QED
  BY <1>2, <1>3, <1>13

(* A submit gives every live entity what it will have: nobody is left out of *)
(* the queue.                                                                *)
LEMMA StoreApplies ==
  ASSUME ArchetypesFit, StoreInv, StoreInv', RowsInv, MatchInv, QueueInv, Submit
  PROVE  Store!Apply
<1>1. \A i \in Index :
        IF i \in Recorded(dirty_entities) /\ record[i] # <<>>
        THEN ComponentsOf(i)' = Wanted(i) /\ record'[i] = <<>>
        ELSE ComponentsOf(i)' = ComponentsOf(i) /\ record'[i] = record[i]
  BY SubmitLeads
<1>2. ASSUME NEW i \in Index
      PROVE  ComponentsOf(i)' = Wanted(i) /\ Wanted(i)' = Wanted(i)
  <2>1. record[i] # <<>> => i \in Recorded(dirty_entities)
    BY DEF QueueInv
  <2>2. ComponentsOf(i) \subseteq Components
    BY ComponentsTyped
  <2>3. ASSUME record[i] = <<>> PROVE Wanted(i) = ComponentsOf(i)
    BY <2>2, <2>3 DEF Wanted, Recorded
  <2>4. ComponentsOf(i)' = Wanted(i) /\ record'[i] = <<>>
    BY <1>1, <2>1, <2>3
  <2>5. Wanted(i)' = ComponentsOf(i)'
    BY <2>4 DEF Wanted, Recorded
  <2>6. QED
    BY <2>4, <2>5
<1>3. LiveHandles' = LiveHandles
  <2>1. OnlyFlags
    BY SubmitFlags DEF StoreInv
  <2>2. QED
    BY <2>1, LiveKept DEF OnlyFlags
<1>4. \A k \in LiveHandles : k[1] \in Index
  BY LiveShape
<1>5. /\ Has' = [k \in LiveHandles' |-> ComponentsOf(k[1])']
      /\ Wants' = [k \in LiveHandles' |-> Wanted(k[1])']
  BY DEF Has, Wants
<1>6. Has' = Wants /\ Wants' = Wants
  BY <1>2, <1>3, <1>4, <1>5 DEF Wants
<1>7. QED
  BY <1>6 DEF Store!Apply, Has, Wants

(* Every step of the collection is one of the store, or none.                *)
LEMMA StoreSimulates ==
  ASSUME ArchetypesFit, StoreInv, StoreInv', RowsInv, MatchInv, QueueInv,
         [CollectionNext]_collectionVars
  PROVE  Store!StoreNext \/ UNCHANGED <<Has, Wants>>
<1> USE CollectionAssumption
<1>1. ASSUME NEW name, NEW bit29 \in Bit29, CreateEntity(name, bit29)
      PROVE  Store!StoreNext \/ UNCHANGED <<Has, Wants>>
  BY <1>1, StoreCreates DEF Store!StoreNext
<1>2. ASSUME NEW h \in issued, DestroyEntity(h)
      PROVE  Store!StoreNext \/ UNCHANGED <<Has, Wants>>
  <2>1. h \in Handle
    BY DEF StoreInv, EntityTypeOK
  <2>2. QED
    BY <1>2, <2>1, StoreDestroys DEF Store!StoreNext
<1>3. ASSUME UNCHANGED <<entity_datas, graph, location, record>>
      PROVE  UNCHANGED <<Has, Wants>>
  BY <1>3, StoreStutters
<1>4. ASSUME NEW s, NEW h, CreatePairWithStatic(s, h)
      PROVE  UNCHANGED <<Has, Wants>>
  BY <1>3, <1>4 DEF CreatePairWithStatic, entityVars, tableVars
<1>5. ASSUME NEW hA, NEW hB, CreatePairOfEntities(hA, hB)
      PROVE  UNCHANGED <<Has, Wants>>
  BY <1>3, <1>5 DEF CreatePairOfEntities, entityVars, tableVars
<1>6. ASSUME NEW nameA, NEW nameB, CreatePairByName(nameA, nameB)
      PROVE  UNCHANGED <<Has, Wants>>
  BY <1>3, <1>6 DEF CreatePairByName, entityVars, tableVars
<1>7. ASSUME NEW h \in issued, NEW coms \in ComLists, NEW type \in {"Add", "Remove"},
             IsAlive(h), Modify(h[1], type, coms),
             UNCHANGED <<graph, location, free_index, size, issued, removed>>
      PROVE  Store!StoreNext
  <2>1. coms \in Seq(Components)
    OBVIOUS
  <2>2. \E k \in LiveHandles, cs \in SUBSET Components : Store!Ask(k, cs)
    BY <1>7, <2>1, StoreRecords
  <2>3. Store!Live = LiveHandles
    BY DEF Store!Live
  <2>4. QED
    BY <2>2, <2>3 DEF Store!StoreNext
<1>8. ASSUME NEW h \in issued, NEW coms \in ComLists, RecordAdd(h, coms)
      PROVE  Store!StoreNext \/ UNCHANGED <<Has, Wants>>
  BY <1>3, <1>7, <1>8 DEF RecordAdd
<1>9. ASSUME NEW h \in issued, NEW coms \in ComLists, RecordRemove(h, coms)
      PROVE  Store!StoreNext \/ UNCHANGED <<Has, Wants>>
  BY <1>3, <1>7, <1>9 DEF RecordRemove
<1>10. CASE UNCHANGED collectionVars
  BY <1>3, <1>10 DEF collectionVars, entityVars, tableVars
<1>11. CASE Submit
  BY <1>11, StoreApplies DEF Store!StoreNext
<1>12. QED
  BY <1>1, <1>2, <1>4, <1>5, <1>6, <1>8, <1>9, <1>10, <1>11 DEF CollectionNext

(* Collection implements EntityStore: a live entity has what the last submit *)
(* left it with, and will have what the calls since asked for, whatever the  *)
(* order of the queue, the paths of the walks and the batches of the moves.  *)
(* The program removes only entities with nothing pending that are nobody's  *)
(* component, and makes none whose id is another's with bit 29.              *)
THEOREM ImplementsStoreCorrect ==
  ArchetypesFit /\ Removals = "idle" /\ Bit29 \subseteq {FALSE}
    => (CollectionSpec => ImplementsStore)
<1> SUFFICES ASSUME ArchetypesFit, Removals = "idle", Bit29 \subseteq {FALSE}
             PROVE  CollectionSpec => ImplementsStore
  OBVIOUS
<1> DEFINE Inv == StoreInv /\ RowsInv /\ MatchInv
<1>1. StoreInv /\ QueueInv /\ [CollectionNext]_collectionVars => QueueInv'
  BY QueueInvStep
<1>2. Inv /\ Inv' /\ QueueInv /\ [CollectionNext]_collectionVars
        => [Store!StoreNext]_(Store!storeVars)
  BY StoreSimulates DEF Store!storeVars, Has, Wants
<1>3. CollectionSpec => []Inv
  BY MatchInvariant
<1>4. Inv => StoreInv
  OBVIOUS
<1> HIDE DEF Inv
<1>5. QED
  BY <1>1, <1>2, <1>3, <1>4, QueueInvInit, StoreInits, PTL
  DEF CollectionSpec, ImplementsStore, Store!StoreSpec

-----------------------------------------------------------------------------
(* Faults.  A submit dereferences the layout of every component of a new     *)
(* archetype and of every one two archetypes share.  A component in an       *)
(* archetype or in a command had a layout when it got there, and only the    *)
(* tag of an entity loses its own.                                           *)

\* Every component of every archetype is in a set of layouts.
Registered(g, L) == \A n \in 0 .. g.counter : g.comps[n] \subseteq L

(* A node made for registered components is registered.                      *)
LEMMA GetOrCreateRegistered ==
  ASSUME NEW g \in Graph, NEW L, Registered(g, L), NEW coms \in SUBSET Components,
         coms \subseteq L, Room(g, coms)
  PROVE  Registered(GetOrCreate(g, coms).graph, L)
<1> USE GraphAssumption
<1>1. CASE Known(g, coms) # {}
  BY <1>1 DEF GetOrCreate
<1>2. CASE Known(g, coms) = {}
  <2> DEFINE h == [g EXCEPT !.counter = NextId(g), !.comps[NextId(g)] = coms]
  <2>1. GetOrCreate(g, coms).graph = h
    BY <1>2 DEF GetOrCreate
  <2>2. /\ g.counter \in Nat /\ g.counter + 1 \in Node
        /\ g.comps \in [Node -> SUBSET Components]
    BY <1>2 DEF Graph, Node, Room
  <2>3. /\ h.counter = g.counter + 1
        /\ h.comps = [g.comps EXCEPT ![g.counter + 1] = coms]
    BY DEF Graph, NextId
  <2> HIDE DEF h
  <2>4. ASSUME NEW n \in 0 .. h.counter
        PROVE  h.comps[n] \subseteq L
    <3>1. n \in Node /\ (n = g.counter + 1 \/ n \in 0 .. g.counter)
      BY <2>2, <2>3 DEF Node
    <3>2. QED
      BY <2>2, <2>3, <3>1 DEF Registered
  <2>5. QED
    BY <2>1, <2>4 DEF Registered
<1>3. QED
  BY <1>1, <1>2

(* One command about a registered component.                                 *)
LEMMA StepRegistered ==
  ASSUME ArchetypesFit, NEW g \in SoundGraph, NEW w \in Walks(g), NEW L,
         Registered(w.graph, L), NEW d \in Commands, d[2] \in L
  PROVE  Registered(Step(w, d).graph, L)
<1> DEFINE h == w.graph
           n == w.node
           c == d[2]
           up == GetOrCreate(h, h.comps[n] \union {c})
           down == GetOrCreate(h, h.comps[n] \ {c})
<1>1. /\ h \in Graph /\ Distinct(h) /\ n \in Node /\ n \in 0 .. h.counter /\ c \in Components
      /\ h.comps[n] \subseteq L /\ h.comps[n] \in SUBSET Components
  BY DEF Walks, SoundGraph, Graph, Exists, Commands, Registered
<1>2. /\ up.graph \in Graph /\ Registered(up.graph, L)
      /\ down.graph \in Graph /\ Registered(down.graph, L)
  BY <1>1, AlwaysRoom, GetOrCreateProperties, GetOrCreateRegistered
<1>3. \A f \in Graph : \A a, x, b : Registered(f, L) => Registered(Link(f, a, x, b), L)
  BY DEF Registered, Link, Graph
<1> HIDE DEF up, down
<1>4. Registered(WalkAdd(h, n, c).graph, L)
  BY <1>2, <1>3 DEF WalkAdd, up
<1>5. Registered(WalkRemove(h, n, c).graph, L)
  BY <1>2, <1>3 DEF WalkRemove, down
<1>6. QED
  BY <1>4, <1>5 DEF Step

(* A record of such commands.                                                *)
LEMMA WalkedRegistered ==
  ASSUME ArchetypesFit, NEW g \in SoundGraph, NEW i \in Index,
         record[i] \in Seq(Commands), Exists(g, location[i].node),
         NEW L, Registered(g, L), \A k \in DOMAIN record[i] : record[i][k][2] \in L
  PROVE  Registered(Walked(g, i).graph, L)
<1> DEFINE r == record[i]
           n == Len(r)
<1>1. /\ n \in Nat /\ DOMAIN r = 1 .. n
      /\ \A k \in 1 .. n : r[k] \in Commands /\ r[k][2] \in L
  BY LenProperties, ElementOfSeq
<1>2. PICK run \in [0 .. n -> Walks(g)] :
           /\ run[0] = [graph |-> g, node |-> location[i].node]
           /\ \A k \in 1 .. n : run[k] = Step(run[k - 1], r[k])
           /\ run[n] = Walked(g, i)
  BY WalkedRun
<1> HIDE DEF r, n
<1> DEFINE P == {k \in 0 .. n : Registered(run[k].graph, L)}
<1>3. 0 \in P
  BY <1>1, <1>2
<1>4. ASSUME NEW k \in 1 .. n, k - 1 \in P
      PROVE  k \in P
  <2>1. k - 1 \in 0 .. n /\ k \in 0 .. n
    BY <1>1
  <2>2. run[k - 1] \in Walks(g) /\ Registered(run[k - 1].graph, L)
    BY <1>4, <2>1
  <2>3. Registered(Step(run[k - 1], r[k]).graph, L)
    BY <1>1, <2>2, StepRegistered
  <2>4. QED
    BY <1>2, <2>1, <2>3
<1>5. n \in P
  <2> HIDE DEF P
  <2>1. \A k \in 0 .. n : k \in P
    BY <1>1, <1>3, <1>4, UpTo
  <2>2. QED
    BY <1>1, <2>1
<1>6. QED
  BY <1>2, <1>5

\* What has a layout, or is the tag of an entity and may have lost it.
EverLaid == layouts \union {EntityId(i) : i \in Index}

\* Every pending command is about such a component.
RecordsRegistered == \A i \in Index : \A k \in DOMAIN record[i] : record[i][k][2] \in EverLaid

(* All the records of the queue.                                             *)
LEMMA PreprocessedRegistered ==
  ASSUME ArchetypesFit, RowsInv, Registered(graph, EverLaid), RecordsRegistered
  PROVE  Registered(Preprocessed.graph, EverLaid)
<1> DEFINE q == Once(dirty_entities)
           n == Len(q)
<1>1. \A i \in Index : Walkable(i)
  BY DEF RowsInv, Records, Walkable
<1>2. PICK run \in [0 .. n -> Walkings] :
           /\ run[0] = [graph |-> graph, moves |-> <<>>]
           /\ \A k \in 1 .. n : run[k] = OnePreprocessed(run[k - 1], q[k])
           /\ run[n] = Preprocessed
  BY <1>1, PreprocessedRun DEF RowsInv
<1>3. n \in Nat /\ \A k \in 1 .. n : q[k] \in Index
  <2>1. q \in Seq(Index)
    BY OnceProperties DEF RowsInv
  <2>2. QED
    BY <2>1, LenProperties, ElementOfSeq
<1> HIDE DEF q, n
<1> DEFINE P == {k \in 0 .. n : Registered(run[k].graph, EverLaid)}
<1>4. 0 \in P
  BY <1>2, <1>3
<1>5. ASSUME NEW k \in 1 .. n, k - 1 \in P
      PROVE  k \in P
  <2> DEFINE s == run[k - 1]
             i == q[k]
  <2>1. k - 1 \in 0 .. n /\ k \in 0 .. n
    BY <1>3
  <2>2. s \in Walkings /\ Registered(s.graph, EverLaid) /\ i \in Index /\ run[k] = OnePreprocessed(s, i)
    BY <1>2, <1>3, <1>5, <2>1
  <2> HIDE DEF s, i
  <2>3. /\ s.graph \in SoundGraph /\ s.graph \in Graph /\ graph \in Graph
        /\ Extends(s.graph, graph) /\ Exists(graph, location[i].node)
        /\ record[i] \in Seq(Commands)
    BY <2>2 DEF Walkings, SoundGraph, RowsInv, Records
  <2>4. Exists(s.graph, location[i].node)
    BY <2>3, ExtendsExists
  <2>5. Registered(Walked(s.graph, i).graph, EverLaid)
    BY <2>2, <2>3, <2>4, WalkedRegistered DEF RecordsRegistered
  <2>6. Registered(OnePreprocessed(s, i).graph, EverLaid)
    BY <2>2, <2>5 DEF OnePreprocessed
  <2>7. QED
    BY <2>1, <2>2, <2>6
<1>6. n \in P
  <2> HIDE DEF P
  <2>1. \A k \in 0 .. n : k \in P
    BY <1>3, <1>4, <1>5, UpTo
  <2>2. QED
    BY <1>3, <2>1
<1>7. QED
  BY <1>2, <1>6

(* A submit of components that all have their layouts misses none of them.   *)
LEMMA SubmitExcused ==
  ASSUME ArchetypesFit, RowsInv, Registered(Preprocessed.graph, layouts)
  PROVE  Excused(AllMoved(Preprocessed))
<1> DEFINE pre == Preprocessed
           M == Recorded(pre.moves)
<1>1. /\ pre \in Walkings
      /\ \A m \in M : m \in MovesOf /\ m \in MoveType
      /\ /\ \A m \in M : Shared(pre.graph, KeyOf(m)) \subseteq layouts
         /\ Excused(Unmoved(pre.graph))
         => Excused(AllMoved(pre))
  BY SubmitMoves
<1> HIDE DEF pre, M
<1>2. /\ pre.graph \in Graph /\ graph \in Graph /\ Extends(pre.graph, graph)
      /\ Registered(pre.graph, layouts)
  BY <1>1 DEF Walkings, RowsInv, SoundGraph, pre
<1>3. Excused(Unmoved(pre.graph))
  <2>1. graph.counter \in Nat /\ pre.graph.counter \in Nat
    BY <1>2, GraphAssumption DEF Graph, Node
  <2>2. \A k \in graph.counter + 1 .. pre.graph.counter : pre.graph.comps[k] \subseteq layouts
    BY <1>2, <2>1 DEF Registered
  <2>3. ~ Unmoved(pre.graph).fault
    BY <2>2 DEF Unmoved
  <2>4. QED
    BY <2>3 DEF Excused
<1>4. ASSUME NEW m \in M
      PROVE  Shared(pre.graph, KeyOf(m)) \subseteq layouts
  <2>1. Exists(graph, m.from)
    BY <1>1 DEF MovesOf
  <2>2. Exists(pre.graph, m.from)
    BY <1>2, <2>1, ExtendsExists
  <2>3. pre.graph.comps[m.from] \subseteq layouts
    BY <1>2, <2>2 DEF Registered, Exists
  <2>4. QED
    BY <2>3 DEF Shared, KeyOf
<1>5. QED
  BY <1>1, <1>3, <1>4 DEF pre

(* A call on one component records nothing of another.                       *)
LEMMA OneRecordedWithin ==
  ASSUME NEW i, NEW type \in {"Add", "Remove"}, NEW r \in Records, NEW c \in Components
  PROVE  Recorded(OneRecorded(i, type, r, c)) \subseteq Recorded(r) \union {<<type, c>>}
BY OneRecordedProperties

\* A call's commands are about components of the call, or about those of before.
LEMMA AllRecordedRegistered ==
  ASSUME NEW i, record[i] \in Records, NEW type \in {"Add", "Remove"},
         NEW cs \in Seq(Components), NEW L,
         \A d \in Recorded(record[i]) : d[2] \in L, \A k \in DOMAIN cs : cs[k] \in L
  PROVE  \A d \in Recorded(AllRecorded(i, type, cs)) : d[2] \in L
<1> DEFINE n == Len(cs)
<1>1. PICK run \in [0 .. n -> Records] :
           /\ run[0] = record[i]
           /\ \A k \in 1 .. n : run[k] = OneRecorded(i, type, run[k - 1], cs[k])
           /\ run[n] = AllRecorded(i, type, cs)
  BY RecordRun
<1>2. n \in Nat /\ \A k \in 1 .. n : cs[k] \in Components /\ cs[k] \in L
  BY LenProperties, ElementOfSeq
<1> HIDE DEF n
<1> DEFINE P == {k \in 0 .. n : \A d \in Recorded(run[k]) : d[2] \in L}
<1>3. 0 \in P
  BY <1>1, <1>2
<1>4. ASSUME NEW k \in 1 .. n, k - 1 \in P
      PROVE  k \in P
  <2> DEFINE r == run[k - 1]
             c == cs[k]
  <2>1. k - 1 \in 0 .. n /\ k \in 0 .. n
    BY <1>2
  <2>2. /\ r \in Records /\ c \in Components /\ c \in L /\ run[k] = OneRecorded(i, type, r, c)
        /\ \A d \in Recorded(r) : d[2] \in L
    BY <1>1, <1>2, <1>4, <2>1
  <2> HIDE DEF r, c
  <2>3. Recorded(OneRecorded(i, type, r, c)) \subseteq Recorded(r) \union {<<type, c>>}
    BY <2>2, OneRecordedWithin
  <2>4. QED
    BY <2>1, <2>2, <2>3
<1>5. n \in P
  <2> HIDE DEF P
  <2>1. \A k \in 0 .. n : k \in P
    BY <1>2, <1>3, <1>4, UpTo
  <2>2. QED
    BY <1>2, <2>1
<1>6. QED
  BY <1>1, <1>5

-----------------------------------------------------------------------------
(* The steps of the collection: what is in use had its layout.               *)

\* An entity whose tag has a layout has a name, and a fault has one of its
\* reasons.
LayoutsInv ==
  /\ Registered(graph, EverLaid)
  /\ RecordsRegistered
  /\ \A i \in Index : EntityId(i) \in layouts => name_of[i] \in Names
  /\ FaultsExplained

(* A step that erases no layout, enters none of an entity without a name,    *)
(* and makes no fault.                                                       *)
LEMMA LayoutsFrame ==
  ASSUME LayoutsInv, UNCHANGED <<graph, record, name_of>>, layouts \subseteq layouts',
         \A i \in Index : EntityId(i) \in layouts' => EntityId(i) \in layouts \/ name_of[i] \in Names,
         ~ fault'
  PROVE  LayoutsInv'
BY DEF LayoutsInv, Registered, RecordsRegistered, EverLaid, FaultsExplained

(* Making a pair of two that have names.                                     *)
LEMMA MakePairFaultless ==
  ASSUME LayoutsInv, NamesInv, ~ fault, UNCHANGED <<graph, record, name_of>>,
         NEW a, NEW nameA, NEW b \in Index, NEW L,
         layouts \subseteq L, nameA # NoName, name_of[b] # NoName,
         \A i \in Index : EntityId(i) \in L => EntityId(i) \in layouts \/ name_of[i] \in Names,
         MakePair(a, nameA, b, L)
  PROVE  LayoutsInv'
<1>1. /\ ~ fault'
      /\ layouts' = L \/ layouts' = L \union {<<a, b>>}
  BY DEF MakePair, PairId
<1>2. name_of[b] \in Names
  BY DEF NamesInv
<1>3. \A i \in Index : EntityId(i) \in layouts' => EntityId(i) \in layouts \/ name_of[i] \in Names
  BY <1>1, <1>2 DEF EntityId
<1>4. QED
  BY <1>1, <1>3, LayoutsFrame

(* No entity has the id of a static component or of a pair of them.          *)
LEMMA StaticApart ==
  ASSUME NEW i \in Index
  PROVE  /\ \A s \in Static : EntityId(i) # StaticId(s)
         /\ EntityId(i) \notin StaticPairs
<1>1. ASSUME EntityId(i) \in StaticPairs PROVE FALSE
  <2>1. i \in Static
    BY <1>1, CollectionAssumption DEF EntityId
  <2>2. QED
    BY <2>1, CollectionAssumption
<1>2. QED
  BY <1>1, CollectionAssumption DEF EntityId, StaticId

(* A component enters no layout of an entity.                                *)
LEMMA EnteredApart ==
  ASSUME NEW i \in Index, NEW c
  PROVE  EntityId(i) \notin Entered(c)
<1>1. CASE c \in StaticPairs
  <2>1. c[1] \in Static /\ c[2] \in Static
    BY <1>1, CollectionAssumption
  <2>2. QED
    BY <1>1, <2>1, StaticApart DEF Entered
<1>2. CASE c \notin StaticPairs
  BY <1>2, StaticApart DEF Entered, Found, StaticIds
<1>3. QED
  BY <1>1, <1>2

(* A creation enters a layout only with a name, and is refused a slot only   *)
(* beyond the limit.                                                         *)
LEMMA LayoutsCreate ==
  ASSUME StoreInv, NamesInv, LayoutsInv,
         NEW name \in Names \union {NoName}, NEW bit29 \in Bit29, CreateEntity(name, bit29)
  PROVE  LayoutsInv'
<1> USE CollectionAssumption, EntityVectorAssumption
<1>1. PICK i \in Index : /\ i = NextIndex /\ ~ entity_datas[i].alive
                         /\ i < size' /\ size' \in Nat
  <2>1. NewEntity(NameGiven(name) # NoName, bit29)
    BY DEF CreateEntity
  <2>2. QED
    BY <2>1, LiveNew
<1>2. UNCHANGED <<graph, record>> /\ ~ fault
  BY DEF CreateEntity
<1>3. CASE ~ WithinLimit(i)
  <2>1. UNCHANGED <<layouts, name_of>>
    BY <1>1, <1>3 DEF CreateEntity, nameVars
  <2>2. size' > EntityLimitCount + 1
    BY <1>1, <1>3 DEF WithinLimit, Index
  <2>3. QED
    BY <1>2, <2>1, <2>2
    DEF LayoutsInv, Registered, RecordsRegistered, EverLaid, FaultsExplained
<1>4. CASE WithinLimit(i) /\ NameGiven(name) = NoName
  <2>1. UNCHANGED <<layouts, name_of>> /\ ~ fault'
    BY <1>1, <1>2, <1>4 DEF CreateEntity
  <2>2. QED
    BY <1>2, <2>1, LayoutsFrame
<1>5. CASE WithinLimit(i) /\ NameGiven(name) # NoName
  <2>1. /\ layouts' = layouts \union {EntityId(i)}
        /\ name_of' = [name_of EXCEPT ![i] = NameGiven(name)]
        /\ NameGiven(name) \in Names
        /\ ~ fault'
    BY <1>1, <1>2, <1>5 DEF CreateEntity, NameGiven
  <2>2. \A j \in Index : EntityId(j) \in layouts' => name_of'[j] \in Names
    BY <2>1 DEF LayoutsInv, NamesInv, EntityId
  <2>3. QED
    BY <1>2, <2>1, <2>2
    DEF LayoutsInv, Registered, RecordsRegistered, EverLaid, FaultsExplained
<1>6. QED
  BY <1>3, <1>4, <1>5

(* A removal erases the layout of the entity's tag alone.                    *)
LEMMA LayoutsDestroy ==
  ASSUME StoreInv, NamesInv, LayoutsInv, NEW h \in issued, DestroyEntity(h)
  PROVE  LayoutsInv'
<1> DEFINE i == h[1]
<1>1. UNCHANGED <<graph, record>> /\ ~ fault' /\ i \in Index
  BY HandleShape DEF DestroyEntity, tableVars, StoreInv
<1>2. CASE IsAlive(h) /\ entity_datas[i].named
  <2>1. /\ layouts' = layouts \ {EntityId(i)}
        /\ \A j \in Index : j # i => name_of'[j] = name_of[j]
    BY <1>2 DEF DestroyEntity, ForgetName, NamesInv
  <2>2. EverLaid' = EverLaid
    BY <1>1, <2>1 DEF EverLaid
  <2>3. \A j \in Index : EntityId(j) \in layouts' => name_of'[j] \in Names
    BY <2>1 DEF LayoutsInv, EntityId
  <2>4. QED
    BY <1>1, <2>2, <2>3 DEF LayoutsInv, Registered, RecordsRegistered, FaultsExplained
<1>3. CASE ~ (IsAlive(h) /\ entity_datas[i].named)
  <2>1. UNCHANGED <<layouts, name_of>>
    BY <1>3 DEF DestroyEntity
  <2>2. QED
    BY <1>1, <2>1, LayoutsFrame DEF LayoutsInv
<1>4. QED
  BY <1>2, <1>3

(* The three calls that make a pair.                                         *)
LEMMA LayoutsPairs ==
  ASSUME StoreInv, NamesInv, LayoutsInv,
         \/ \E s \in Static, h \in issued : CreatePairWithStatic(s, h)
         \/ \E hA, hB \in issued : CreatePairOfEntities(hA, hB)
         \/ \E nameA, nameB \in Names \union Static : CreatePairByName(nameA, nameB)
  PROVE  LayoutsInv'
<1> USE CollectionAssumption
<1>1. ASSUME NEW s \in Static, NEW h \in issued, CreatePairWithStatic(s, h)
      PROVE  LayoutsInv'
  <2> DEFINE L == layouts \union Entered(StaticId(s))
  <2>1. /\ h[1] \in Index /\ UNCHANGED <<graph, record, name_of>>
        /\ MakePair(s, s, h[1], L)
        /\ entity_datas[h[1]].alive /\ entity_datas[h[1]].named /\ ~ fault
    BY <1>1, HandleShape DEF StoreInv, CreatePairWithStatic, tableVars, IsAlive
  <2>2. name_of[h[1]] # NoName /\ s # NoName
    BY <2>1 DEF NamesInv
  <2>3. \A i \in Index : EntityId(i) \in L => EntityId(i) \in layouts
    BY EnteredApart
  <2>4. layouts \subseteq L
    OBVIOUS
  <2> HIDE DEF L
  <2>5. QED
    BY <2>1, <2>2, <2>3, <2>4, MakePairFaultless
<1>2. ASSUME NEW hA \in issued, NEW hB \in issued, CreatePairOfEntities(hA, hB)
      PROVE  LayoutsInv'
  <2>1. hA[1] \in Index /\ hB[1] \in Index /\ UNCHANGED <<graph, record, name_of>> /\ ~ fault
    BY <1>2, HandleShape DEF StoreInv, CreatePairOfEntities, tableVars
  <2>2. CASE /\ IsAlive(hB) /\ EntityId(hB[1]) \in layouts
             /\ IsAlive(hA) /\ EntityId(hA[1]) \in layouts
    <3>1. MakePair(hA[1], name_of[hA[1]], hB[1], layouts)
      BY <1>2, <2>2 DEF CreatePairOfEntities
    <3>2. name_of[hA[1]] # NoName /\ name_of[hB[1]] # NoName
      BY <2>1, <2>2 DEF LayoutsInv
    <3>3. QED
      BY <2>1, <3>1, <3>2, MakePairFaultless
  <2>3. CASE UNCHANGED <<layouts, pair_names, fault>>
    BY <2>1, <2>3, LayoutsFrame DEF LayoutsInv
  <2>4. QED
    BY <1>2, <2>2, <2>3 DEF CreatePairOfEntities
<1>3. ASSUME NEW nameA \in Names \union Static, NEW nameB \in Names \union Static,
             CreatePairByName(nameA, nameB)
      PROVE  LayoutsInv'
  <2> DEFINE L == layouts \union {StaticId(s) : s \in Static \intersect {nameA, nameB}}
             half(name) == IF name \in Static THEN name ELSE id_of[name]
             found == /\ nameB \in Names
                      /\ \A name \in {nameA, nameB} \intersect Names :
                           id_of[name] # Vacant /\ id_of[name] \in LiveIndices
  <2>1. layouts \subseteq L /\ UNCHANGED <<graph, record, name_of>> /\ ~ fault
    BY <1>3 DEF CreatePairByName, tableVars
  <2>2. \A i \in Index : EntityId(i) \in L => EntityId(i) \in layouts
    BY StaticApart
  <2>3. CASE ~ found
    <3>1. layouts' = L /\ UNCHANGED fault
      BY <1>3, <2>3 DEF CreatePairByName
    <3>2. QED
      BY <2>1, <2>2, <3>1, LayoutsFrame DEF LayoutsInv
  <2>4. CASE found
    <3>1. MakePair(half(nameA), nameA, half(nameB), L)
      BY <1>3, <2>4 DEF CreatePairByName
    <3>2. nameB \notin Static /\ id_of[nameB] \in Index /\ name_of[id_of[nameB]] = nameB
      BY <2>4 DEF NamesInv, LiveIndices
    <3>3. half(nameB) \in Index /\ name_of[half(nameB)] # NoName /\ nameA # NoName
      BY <2>4, <3>2
    <3> HIDE DEF half, L
    <3>4. QED
      BY <2>1, <2>2, <3>1, <3>3, MakePairFaultless
  <2>5. QED
    BY <2>3, <2>4
<1>4. QED
  BY <1>1, <1>2, <1>3

(* Recording commands about components with layouts.                         *)
LEMMA LayoutsModify ==
  ASSUME RowsInv, LayoutsInv, NEW i \in Index, NEW type \in {"Add", "Remove"},
         NEW cs \in Seq(Components), \A k \in DOMAIN cs : cs[k] \in layouts',
         Modify(i, type, cs), UNCHANGED <<graph, name_of>>, ~ fault',
         layouts \subseteq layouts',
         \A j \in Index : EntityId(j) \in layouts' => EntityId(j) \in layouts
  PROVE  LayoutsInv'
<1> DEFINE r == AllRecorded(i, type, cs)
<1>1. record' = [record EXCEPT ![i] = r] /\ record[i] \in Records
  BY DEF Modify, RowsInv
<1>2. \A d \in Recorded(record[i]) : d[2] \in EverLaid'
  BY DEF LayoutsInv, RecordsRegistered, Recorded, EverLaid
<1>3. PICK L : L = EverLaid'
  OBVIOUS
<1>4. \A d \in Recorded(r) : d[2] \in L
  <2>1. \A k \in DOMAIN cs : cs[k] \in L
    BY <1>3 DEF EverLaid
  <2>2. QED
    BY <1>1, <1>2, <1>3, <2>1, AllRecordedRegistered
<1> HIDE DEF r
<1>5. \A j \in Index : record'[j] = IF j = i THEN r ELSE record[j]
  BY <1>1 DEF RowsInv
<1>6. \A j \in Index : \A k \in DOMAIN record'[j] : record'[j][k][2] \in EverLaid'
  <2>1. \A j \in Index : \A k \in DOMAIN record[j] : record[j][k][2] \in EverLaid'
    BY DEF LayoutsInv, RecordsRegistered, EverLaid
  <2>2. QED
    BY <1>3, <1>4, <1>5, <2>1 DEF Recorded
<1>7. QED
  BY <1>6 DEF LayoutsInv, Registered, RecordsRegistered, EverLaid, FaultsExplained

(* The calls that record enter the layouts of what they are given, or        *)
(* refuse.                                                                   *)
LEMMA LayoutsRecords ==
  ASSUME StoreInv, RowsInv, LayoutsInv, NEW h \in issued, NEW cs \in ComLists,
         RecordAdd(h, cs) \/ RecordRemove(h, cs)
  PROVE  LayoutsInv'
<1>1. h[1] \in Index /\ cs \in Seq(Components)
  BY CollectionAssumption, HandleShape DEF StoreInv
<1>2. CASE RecordAdd(h, cs)
  <2>1. /\ layouts' = Registering(cs) /\ layouts \subseteq layouts'
        /\ UNCHANGED <<graph, name_of>> /\ ~ fault'
    BY <1>2 DEF RecordAdd, Registering
  <2>2. \A j \in Index : EntityId(j) \in layouts' => EntityId(j) \in layouts
    BY <2>1, EnteredApart DEF Registering
  <2>3. CASE (\A k \in DOMAIN cs : Found(cs[k])) /\ IsAlive(h)
    <3>1. DOMAIN cs = 1 .. Len(cs) /\ Len(cs) \in Nat
      BY <1>1, LenProperties
    <3>2. \A k \in DOMAIN cs : \A j \in 1 .. k : j \in DOMAIN cs
      BY <3>1
    <3>3. \A k \in DOMAIN cs : cs[k] \in layouts \/ cs[k] \in Entered(cs[k])
      BY <2>3 DEF Entered
    <3>4. \A k \in DOMAIN cs : cs[k] \in layouts'
      BY <2>1, <2>3, <3>2, <3>3 DEF Registering
    <3>5. Modify(h[1], "Add", cs)
      BY <1>2, <2>3 DEF RecordAdd
    <3>6. QED
      BY <1>1, <2>1, <2>2, <3>4, <3>5, LayoutsModify
  <2>4. CASE ~ ((\A k \in DOMAIN cs : Found(cs[k])) /\ IsAlive(h))
    BY <1>2, <2>1, <2>2, <2>4, LayoutsFrame DEF RecordAdd, LayoutsInv
  <2>5. QED
    BY <2>3, <2>4
<1>3. CASE RecordRemove(h, cs)
  <2>1. UNCHANGED <<graph, layouts, name_of>> /\ ~ fault'
    BY <1>3 DEF RecordRemove, nameVars
  <2>2. CASE (\A k \in DOMAIN cs : cs[k] \in layouts) /\ IsAlive(h)
    <3>1. Modify(h[1], "Remove", cs)
      BY <1>3, <2>2 DEF RecordRemove
    <3>2. QED
      BY <1>1, <2>1, <2>2, <3>1, LayoutsModify
  <2>3. CASE ~ ((\A k \in DOMAIN cs : cs[k] \in layouts) /\ IsAlive(h))
    BY <1>3, <2>1, <2>3, LayoutsFrame DEF RecordRemove, LayoutsInv
  <2>4. QED
    BY <2>2, <2>3
<1>4. QED
  BY <1>2, <1>3

(* A submit faults for a lost tag or by a copy from another row.             *)
LEMMA LayoutsSubmit ==
  ASSUME ArchetypesFit, RowsInv, LayoutsInv, Submit
  PROVE  LayoutsInv'
<1>1. /\ graph' = Preprocessed.graph /\ fault' = AllMoved(Preprocessed).fault
      /\ copied' = AllMoved(Preprocessed).copied
      /\ record' = Emptied /\ UNCHANGED <<layouts, name_of>>
  BY DEF Submit, nameVars
<1>2. Registered(graph', EverLaid) /\ EverLaid' = EverLaid
  BY <1>1, PreprocessedRegistered DEF LayoutsInv, EverLaid
<1>3. \A i \in Index : record'[i] = <<>> \/ record'[i] = record[i]
  BY <1>1 DEF Emptied
<1>4. DOMAIN <<>> = {}
  OBVIOUS
<1>5. \A i \in Index : \A k \in DOMAIN record'[i] : record'[i][k][2] \in EverLaid
  BY <1>3, <1>4 DEF LayoutsInv, RecordsRegistered
<1>6. FaultsExplained'
  <2>1. CASE Registered(graph', layouts)
    BY <1>1, <2>1, SubmitExcused DEF Excused, FaultsExplained
  <2>2. CASE ~ Registered(graph', layouts)
    <3>1. PICK n \in 0 .. graph'.counter : ~ (graph'.comps[n] \subseteq layouts)
      BY <2>2 DEF Registered
    <3>2. PICK c \in graph'.comps[n] : c \notin layouts
      BY <3>1
    <3>3. c \in EverLaid
      BY <1>2, <3>1, <3>2 DEF Registered
    <3>4. LostTag(c)'
      BY <1>1, <3>2, <3>3 DEF EverLaid, LostTag
    <3>5. QED
      BY <3>1, <3>2, <3>4 DEF FaultsExplained, ExistingNodes
  <2>3. QED
    BY <2>1, <2>2
<1>7. QED
  BY <1>1, <1>2, <1>5, <1>6 DEF LayoutsInv, Registered, RecordsRegistered

(* A null pointer is dereferenced for its three reasons only: an entity      *)
(* beyond the limit, an archetype of the tag of an entity that is gone, or a *)
(* copy from a row that is not the entity's.  Nothing is asked of what the   *)
(* program removes, of its components or of its size.                        *)
THEOREM FaultsExplainedCorrect ==
  ArchetypesFit => (CollectionSpec => []FaultsExplained)
<1> SUFFICES ASSUME ArchetypesFit
             PROVE  CollectionSpec => []FaultsExplained
  OBVIOUS
<1>1. CollectionInit => LayoutsInv
  BY GraphAssumption DEF CollectionInit, GraphInit, EmptyGraph, LayoutsInv, Registered,
     RecordsRegistered, Node, FaultsExplained
<1>2. ASSUME StoreInv, RowsInv, NamesInv, LayoutsInv, [CollectionNext]_collectionVars
      PROVE  LayoutsInv'
  <2>1. CASE UNCHANGED collectionVars
    BY <1>2, <2>1 DEF collectionVars, entityVars, tableVars, nameVars, LayoutsInv,
       Registered, RecordsRegistered, EverLaid, FaultsExplained, ExistingNodes, LostTag
  <2>2. QED
    BY <1>2, <2>1, LayoutsCreate, LayoutsDestroy, LayoutsPairs, LayoutsRecords, LayoutsSubmit
    DEF CollectionNext
<1>3. LayoutsInv => FaultsExplained
  BY DEF LayoutsInv
<1>4. QED
  BY <1>1, <1>2, <1>3, RowsInvariant, NamesInvariant, PTL DEF CollectionSpec
=============================================================================
