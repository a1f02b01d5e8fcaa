--------------------------- MODULE CollectionProofs ---------------------------
(***************************************************************************)
(* Proofs about Collection and its two parts, for any components, names,   *)
(* lists and stores.  First the entity store alone, by the EntitySpec of   *)
(* EntityVector, and the graph of archetypes alone, by the GraphSpec of    *)
(* ArchetypeGraph.  Then what outlives one call of the collection and is   *)
(* trusted by a later one: the store keeps its invariants below it, names  *)
(* lead to their bearers, pairs keep the names of what they were made of,  *)
(* commands are queued.  What the walks, the moves and the commands of one *)
(* call add up to is the subject of CollectionRowsProofs.                  *)
(***************************************************************************)
EXTENDS Collection, FiniteSetTheorems, SequenceTheorems, TLAPS

-----------------------------------------------------------------------------
(* EntityVector, for every entity limit, version width and store size.       *)
(* Types and the free-list discipline hold outright; that a removed handle   *)
(* stays invalid needs the versions not to wrap.                             *)

\* No slot is removed so often that its uint32_t version comes round again.
NoWrap == MaxVersion + 1 < VersionModulus

Slot == [version : Version, alive : BOOLEAN, named : BOOLEAN, dirty : BOOLEAN]

-----------------------------------------------------------------------------
(* pop_back on a vector: one element shorter, the others where they were.   *)
LEMMA ButLastProperties ==
  ASSUME NEW S, NEW s \in Seq(S), s # <<>>
  PROVE  /\ Len(s) \in Nat \ {0}
         /\ LastOf(s) \in S
         /\ ButLast(s) \in Seq(S)
         /\ Len(ButLast(s)) = Len(s) - 1
         /\ \A k \in 1 .. Len(s) - 1 : ButLast(s)[k] = s[k]
<1>1. Len(s) \in Nat \ {0}
  BY EmptySeq, LenProperties
<1>2. LastOf(s) \in S
  BY <1>1, ElementOfSeq DEF LastOf
<1>3. /\ Len(s) - 1 \in Nat
      /\ ButLast(s) \in [1 .. Len(s) - 1 -> S]
  BY <1>1, ElementOfSeq DEF ButLast
<1>4. ButLast(s) \in Seq(S) /\ Len(ButLast(s)) = Len(s) - 1
  BY <1>3, IsASeq, LenProperties
<1>5. QED
  BY <1>1, <1>2, <1>4 DEF ButLast

(* The slot a creation takes is a slot of the store.                        *)
LEMMA NextIndexInRange ==
  ASSUME EntityTypeOK, free_index # <<>> \/ size < MaxSize
  PROVE  /\ NextIndex \in Index
         /\ Taken \in Seq(Index)
<1> USE EntityVectorAssumption
<1>1. CASE free_index # <<>>
  BY <1>1, ButLastProperties DEF EntityTypeOK, NextIndex, Taken
<1>2. CASE free_index = <<>>
  BY <1>2 DEF EntityTypeOK, NextIndex, Taken, Index
<1>3. QED
  BY <1>1, <1>2

(* The version after a removal is a version.                                *)
LEMMA NextVersionType ==
  ASSUME NEW v \in Version
  PROVE  NextVersion(v) \in Version
  BY EntityVectorAssumption DEF NextVersion, Version

-----------------------------------------------------------------------------
(* Types: creations and removals keep the store well formed.                *)
LEMMA EntityTypeInit == EntityInit => EntityTypeOK
<1> SUFFICES ASSUME EntityInit PROVE EntityTypeOK
  OBVIOUS
<1>1. 0 \in Version
  BY EntityVectorAssumption DEF Version
<1>2. QED
  BY <1>1, EmptySeq, EntityVectorAssumption
  DEF EntityInit, EntityTypeOK, NewSlot, Handle

(* new_entity keeps the types, from the free list or a new slot.             *)
LEMMA EntityTypeNew ==
  ASSUME EntityTypeOK, NEW named \in BOOLEAN, NEW bit29 \in Bit29,
         NewEntity(named, bit29)
  PROVE  EntityTypeOK'
<1> USE EntityVectorAssumption
<1>1. NextIndex \in Index /\ Taken \in Seq(Index)
  BY NextIndexInRange DEF NewEntity
<1>2. free_index' \in Seq(Index)
  BY <1>1 DEF NewEntity
<1>3. size' \in 0 .. MaxSize
  BY DEF NewEntity, Grown, EntityTypeOK
<1>4. CASE WithinLimit(NextIndex)
  <2>1. entity_datas[NextIndex].version \in Version
    BY <1>1 DEF EntityTypeOK
  <2>2. entity_datas' \in [Index -> Slot]
    <3> DEFINE slot == [version |-> entity_datas[NextIndex].version,
                        alive |-> TRUE, named |-> named, dirty |-> bit29]
    <3>1. slot \in Slot
      BY <2>1 DEF Slot
    <3>2. entity_datas' = [entity_datas EXCEPT ![NextIndex] = slot]
      BY <1>4 DEF NewEntity
    <3>3. QED
      BY <3>1, <3>2 DEF EntityTypeOK, Slot
  <2>3. HandleOf(NextIndex) \in Handle
    BY <1>1, <2>1 DEF HandleOf, Handle
  <2>4. issued' \subseteq Handle /\ removed' \subseteq issued'
    BY <1>4, <2>3 DEF NewEntity, EntityTypeOK
  <2>5. QED
    BY <1>2, <1>3, <2>2, <2>4 DEF EntityTypeOK, Slot
<1>5. CASE ~ WithinLimit(NextIndex)
  BY <1>2, <1>3, <1>5 DEF NewEntity, EntityTypeOK
<1>6. QED
  BY <1>4, <1>5

(* remove_entity keeps them.                                                 *)
LEMMA EntityTypeRemove ==
  ASSUME EntityTypeOK, NEW h \in issued, RemoveEntity(h)
  PROVE  EntityTypeOK'
<1>1. CASE ~ IsAlive(h) /\ UNCHANGED entityVars
  BY <1>1 DEF EntityTypeOK, entityVars
<1>2. CASE IsAlive(h) /\ ~ UNCHANGED entityVars
  <2>1. h[1] \in Index
    BY DEF EntityTypeOK, Handle
  <2>2. Cleared(entity_datas[h[1]]) \in Slot
    BY <2>1, NextVersionType DEF Cleared, NewSlot, Slot, EntityTypeOK
  <2>3. entity_datas' \in [Index -> Slot]
    BY <1>2, <2>1, <2>2 DEF RemoveEntity, EntityTypeOK, Slot
  <2>4. free_index' \in Seq(Index)
    BY <1>2, <2>1, AppendProperties DEF RemoveEntity, Freed, EntityTypeOK
  <2>5. QED
    BY <1>2, <2>3, <2>4 DEF RemoveEntity, EntityTypeOK, Slot
<1>3. QED
  BY <1>1, <1>2 DEF RemoveEntity, EntityTypeOK, entityVars

(* So does every step.                                                       *)
LEMMA EntityTypeStep == EntityTypeOK /\ [EntityNext]_entityVars => EntityTypeOK'
<1>1. ASSUME EntityTypeOK, UNCHANGED entityVars PROVE EntityTypeOK'
  BY <1>1 DEF EntityTypeOK, entityVars
<1>2. QED
  BY <1>1, EntityTypeNew, EntityTypeRemove DEF EntityNext

(* Type correctness of the entity store.                                    *)
THEOREM EntityTypeCorrect == EntitySpec => []EntityTypeOK
  BY EntityTypeInit, EntityTypeStep, PTL DEF EntitySpec

-----------------------------------------------------------------------------
(* The free list.  A creation pops the last slot and brings it to life; the *)
(* other free slots stay dead because the list has no repetition.  A        *)
(* removal pushes a slot that was alive, hence not on the list.             *)
LEMMA FreeListNew ==
  ASSUME EntityTypeOK, FreeListSound,
         NEW named \in BOOLEAN, NEW bit29 \in Bit29, NewEntity(named, bit29)
  PROVE  FreeListSound'
<1> USE EntityVectorAssumption
<1>1. free_index \in Seq(Index) /\ size \in Nat
  BY DEF EntityTypeOK
<1>2. \A i \in Index : i # NextIndex => entity_datas'[i] = entity_datas[i]
  BY DEF NewEntity, EntityTypeOK
<1>3. size <= size'
  BY <1>1 DEF NewEntity, Grown
<1>4. CASE free_index # <<>>
  <2>1. /\ Len(free_index) \in Nat \ {0}
        /\ Len(ButLast(free_index)) = Len(free_index) - 1
        /\ \A k \in 1 .. Len(free_index) - 1 : ButLast(free_index)[k] = free_index[k]
        /\ ButLast(free_index) \in Seq(Index)
    BY <1>1, <1>4, ButLastProperties
  <2>2. free_index' = ButLast(free_index) /\ NextIndex = free_index[Len(free_index)]
    BY <1>4 DEF NewEntity, Taken, NextIndex, LastOf
  <2>3. /\ DOMAIN free_index' = 1 .. Len(free_index) - 1
        /\ DOMAIN free_index = 1 .. Len(free_index)
        /\ \A k \in 1 .. Len(free_index) - 1 : free_index'[k] = free_index[k]
    BY <1>1, <2>1, <2>2, LenProperties
  <2>4. ASSUME NEW k \in DOMAIN free_index'
        PROVE  free_index'[k] < size' /\ ~ entity_datas'[free_index'[k]].alive
    <3>1. k \in DOMAIN free_index /\ k # Len(free_index) /\ Len(free_index) \in DOMAIN free_index
      BY <2>1, <2>3
    <3>2. free_index[k] \in Index /\ free_index[k] # NextIndex
      BY <1>1, <2>2, <3>1, ElementOfSeq, LenProperties DEF FreeListSound
    <3>3. free_index[k] < size /\ ~ entity_datas[free_index[k]].alive
      BY <3>1 DEF FreeListSound
    <3>4. QED
      BY <1>1, <1>2, <1>3, <2>3, <3>2, <3>3 DEF NewEntity, Grown, Index
  <2>5. ASSUME NEW k \in DOMAIN free_index', NEW l \in DOMAIN free_index',
               free_index'[k] = free_index'[l]
        PROVE  k = l
    BY <2>1, <2>3, <2>5 DEF FreeListSound
  <2>6. QED
    BY <2>4, <2>5 DEF FreeListSound
<1>5. CASE free_index = <<>>
  <2>1. free_index' = <<>>
    BY <1>5 DEF NewEntity, Taken
  <2>2. DOMAIN free_index' = {}
    BY <2>1
  <2>3. QED
    BY <2>2 DEF FreeListSound
<1>6. QED
  BY <1>4, <1>5

(* The slot removed was alive, so it is not on the list yet.                 *)
LEMMA FreeListRemove ==
  ASSUME EntityTypeOK, FreeListSound, NEW h \in issued, RemoveEntity(h)
  PROVE  FreeListSound'
<1>1. CASE UNCHANGED entityVars
  BY <1>1 DEF FreeListSound, entityVars
<1>2. CASE IsAlive(h) /\ ~ UNCHANGED entityVars
  <2>1. h[1] \in Index /\ free_index \in Seq(Index) /\ size \in Nat
    BY DEF EntityTypeOK, Handle
  <2> DEFINE n == Len(free_index)
  <2>2. /\ free_index' = Append(free_index, h[1])
        /\ size' = size
        /\ entity_datas' = [entity_datas EXCEPT ![h[1]] = Cleared(@)]
    BY <1>2 DEF RemoveEntity, Freed
  <2>3. /\ n \in Nat
        /\ DOMAIN free_index = 1 .. n
        /\ DOMAIN free_index' = 1 .. n + 1
        /\ \A k \in 1 .. n : free_index'[k] = free_index[k]
        /\ free_index'[n + 1] = h[1]
    BY <2>1, <2>2, AppendProperties, LenProperties
  <2>4. \A k \in 1 .. n : free_index[k] \in Index /\ free_index[k] # h[1]
    BY <1>2, <2>1, <2>3, ElementOfSeq DEF FreeListSound, IsAlive
  <2>5. ~ entity_datas'[h[1]].alive
    BY <2>1, <2>2 DEF Cleared, NewSlot, EntityTypeOK
  <2>6. ASSUME NEW k \in 1 .. n + 1
        PROVE  free_index'[k] < size' /\ ~ entity_datas'[free_index'[k]].alive
    <3>1. CASE k = n + 1
      BY <1>2, <2>2, <2>3, <2>5, <3>1 DEF IsAlive
    <3>2. CASE k \in 1 .. n
      <4>1. entity_datas'[free_index[k]] = entity_datas[free_index[k]]
        BY <2>1, <2>2, <2>4, <3>2 DEF EntityTypeOK
      <4>2. QED
        BY <2>2, <2>3, <3>2, <4>1 DEF FreeListSound
    <3>3. QED
      BY <2>3, <3>1, <3>2
  <2>7. ASSUME NEW k \in 1 .. n + 1, NEW l \in 1 .. n + 1, free_index'[k] = free_index'[l]
        PROVE  k = l
    <3>1. k \in 1 .. n \/ k = n + 1
      BY <2>3
    <3>2. l \in 1 .. n \/ l = n + 1
      BY <2>3
    <3>3. QED
      BY <2>3, <2>4, <2>7, <3>1, <3>2 DEF FreeListSound
  <2>8. QED
    BY <2>3, <2>6, <2>7 DEF FreeListSound
<1>3. QED
  BY <1>1, <1>2 DEF RemoveEntity

(* The list stays sound: it loses its head or gains a dead slot.             *)
LEMMA FreeListStep ==
  EntityTypeOK /\ FreeListSound /\ [EntityNext]_entityVars => FreeListSound'
<1>1. ASSUME FreeListSound, UNCHANGED entityVars PROVE FreeListSound'
  BY <1>1 DEF FreeListSound, entityVars
<1>2. QED
  BY <1>1, FreeListNew, FreeListRemove DEF EntityNext

(* No slot is ever free twice, or free and alive: two creations can never   *)
(* be given the same slot.                                                  *)
THEOREM FreeListCorrect == EntitySpec => []FreeListSound
<1>1. EntityInit => FreeListSound
  BY DEF EntityInit, FreeListSound
<1>2. QED
  BY <1>1, EntityTypeCorrect, FreeListStep, PTL DEF EntitySpec

-----------------------------------------------------------------------------
(* No slot is lost: a creation brings the slot it takes to life unless the  *)
(* entity limit refuses it, a removal gives the slot back.                  *)
LEMMA NoSlotLostNew ==
  ASSUME EntityTypeOK, NoSlotLost,
         NEW named \in BOOLEAN, NEW bit29 \in Bit29, NewEntity(named, bit29)
  PROVE  NoSlotLost'
<1> USE EntityVectorAssumption
<1>1. free_index \in Seq(Index) /\ size \in Nat /\ NextIndex \in Index
  BY NextIndexInRange DEF EntityTypeOK, NewEntity
<1>2. /\ \A i \in Index : i # NextIndex => entity_datas'[i] = entity_datas[i]
      /\ entity_datas'[NextIndex].alive \/ NextIndex > EntityLimitCount
  BY <1>1 DEF NewEntity, EntityTypeOK, WithinLimit, Index
<1>3. SUFFICES ASSUME NEW i \in Index, i < size', i # NextIndex
               PROVE  entity_datas[i].alive \/ i \in FreeSlots' \/ i > EntityLimitCount
  BY <1>2 DEF NoSlotLost
<1>4. CASE free_index # <<>>
  <2>1. i < size
    BY <1>3, <1>4 DEF NewEntity, Grown
  <2>2. /\ Len(free_index) \in Nat \ {0}
        /\ free_index' = ButLast(free_index)
        /\ DOMAIN free_index = 1 .. Len(free_index)
        /\ NextIndex = free_index[Len(free_index)]
    BY <1>1, <1>4, ButLastProperties, LenProperties DEF NewEntity, Taken, NextIndex, LastOf
  <2>3. ASSUME NEW k \in DOMAIN free_index, free_index[k] = i
        PROVE  i \in FreeSlots'
    <3>1. k \in 1 .. Len(free_index) - 1
      BY <1>3, <2>2, <2>3
    <3>2. QED
      BY <2>2, <2>3, <3>1 DEF ButLast, FreeSlots
  <2>4. QED
    BY <2>1, <2>3 DEF NoSlotLost, FreeSlots
<1>5. CASE free_index = <<>>
  <2>1. size' = size + 1 /\ NextIndex = size
    BY <1>5 DEF NewEntity, Grown, NextIndex
  <2>2. i < size
    BY <1>1, <1>3, <2>1 DEF Index
  <2>3. FreeSlots = {}
    BY <1>5 DEF FreeSlots
  <2>4. QED
    BY <2>2, <2>3 DEF NoSlotLost
<1>6. QED
  BY <1>4, <1>5

(* A slot that dies is on the list, or was refused by the limit.             *)
LEMMA NoSlotLostRemove ==
  ASSUME EntityTypeOK, NoSlotLost, NEW h \in issued, RemoveEntity(h)
  PROVE  NoSlotLost'
<1>1. CASE UNCHANGED entityVars
  BY <1>1 DEF NoSlotLost, FreeSlots, entityVars
<1>2. CASE IsAlive(h) /\ ~ UNCHANGED entityVars
  <2>1. h[1] \in Index /\ free_index \in Seq(Index)
    BY DEF EntityTypeOK, Handle
  <2>2. /\ size' = size
        /\ free_index' = Append(free_index, h[1])
        /\ \A i \in Index : i # h[1] => entity_datas'[i] = entity_datas[i]
    BY <1>2, <2>1 DEF RemoveEntity, Freed, EntityTypeOK
  <2>3. /\ Len(free_index) \in Nat
        /\ DOMAIN free_index = 1 .. Len(free_index)
        /\ DOMAIN free_index' = 1 .. Len(free_index) + 1
        /\ \A k \in 1 .. Len(free_index) : free_index'[k] = free_index[k]
        /\ free_index'[Len(free_index) + 1] = h[1]
    BY <2>1, <2>2, AppendProperties, LenProperties
  <2>4. FreeSlots' = FreeSlots \union {h[1]}
    BY <2>3 DEF FreeSlots
  <2>5. QED
    BY <2>2, <2>4 DEF NoSlotLost
<1>3. QED
  BY <1>1, <1>2 DEF RemoveEntity

(* Every created slot is alive, free, or was refused by the entity limit.   *)
THEOREM NoSlotLostCorrect == EntitySpec => []NoSlotLost
<1>1. EntityInit => NoSlotLost
  BY EntityVectorAssumption DEF EntityInit, NoSlotLost, Index
<1>2. EntityTypeOK /\ NoSlotLost /\ [EntityNext]_entityVars => NoSlotLost'
  <2>1. ASSUME NoSlotLost, UNCHANGED entityVars PROVE NoSlotLost'
    BY <2>1 DEF NoSlotLost, FreeSlots, entityVars
  <2>2. QED
    BY <2>1, NoSlotLostNew, NoSlotLostRemove DEF EntityNext
<1>3. QED
  BY <1>1, <1>2, EntityTypeCorrect, PTL DEF EntitySpec

-----------------------------------------------------------------------------
(* Handles.  The strengthening: an issued handle is never ahead of its      *)
(* slot's version, and it is strictly behind once the slot is dead or the   *)
(* handle was removed.                                                      *)
HandleInv ==
  /\ \A h \in issued :
        /\ h[2] <= entity_datas[h[1]].version
        /\ ~ entity_datas[h[1]].alive => h[2] < entity_datas[h[1]].version
  /\ \A h \in removed : h[2] < entity_datas[h[1]].version

(* The handle given is of a version that nobody has of the slot.             *)
LEMMA HandleInvNew ==
  ASSUME EntityTypeOK, HandleInv,
         NEW named \in BOOLEAN, NEW bit29 \in Bit29, NewEntity(named, bit29)
  PROVE  HandleInv'
<1> USE EntityVectorAssumption
<1>1. NextIndex \in Index
  BY NextIndexInRange DEF NewEntity
<1>2. /\ \A i \in Index : /\ entity_datas'[i].version = entity_datas[i].version
                          /\ entity_datas[i].alive => entity_datas'[i].alive
      /\ removed' = removed
  BY <1>1 DEF NewEntity, EntityTypeOK
<1>3. \A h \in issued : h[1] \in Index /\ h[2] \in Nat
  BY DEF EntityTypeOK, Handle, Version
<1>4. CASE WithinLimit(NextIndex)
  <2>1. /\ issued' = issued \union {HandleOf(NextIndex)}
        /\ entity_datas'[NextIndex].alive
    BY <1>1, <1>4 DEF NewEntity, EntityTypeOK
  <2>2. entity_datas[NextIndex].version \in Nat
    BY <1>1 DEF EntityTypeOK, Version
  <2>3. QED
    BY <1>1, <1>2, <1>3, <2>1, <2>2 DEF HandleInv, HandleOf, EntityTypeOK
<1>5. CASE ~ WithinLimit(NextIndex)
  BY <1>5 DEF NewEntity, HandleInv
<1>6. QED
  BY <1>4, <1>5

(* The version goes up: no handle given before is of the new one.            *)
LEMMA HandleInvRemove ==
  ASSUME NoWrap, EntityTypeOK, HandleInv, NEW h \in issued, RemoveEntity(h)
  PROVE  HandleInv'
<1> USE EntityVectorAssumption
<1>1. CASE UNCHANGED entityVars
  BY <1>1 DEF HandleInv, entityVars
<1>2. CASE IsAlive(h) /\ ~ UNCHANGED entityVars
  <2>1. h[1] \in Index /\ h[2] \in Nat /\ h[2] = entity_datas[h[1]].version
    BY <1>2 DEF EntityTypeOK, Handle, Version, IsAlive
  <2>2. h[2] <= MaxVersion
    BY <1>2 DEF RemoveEntity
  <2>3. NextVersion(h[2]) = h[2] + 1
    BY <2>1, <2>2 DEF NextVersion, NoWrap
  <2>4. /\ entity_datas'[h[1]].version = h[2] + 1
        /\ \A i \in Index : i # h[1] => entity_datas'[i] = entity_datas[i]
        /\ issued' = issued
        /\ removed' = removed \union {h}
    BY <1>2, <2>1, <2>3 DEF RemoveEntity, Cleared, NewSlot, EntityTypeOK
  <2>5. \A g \in issued : g[1] \in Index /\ g[2] \in Nat
    BY DEF EntityTypeOK, Handle, Version
  <2>6. ASSUME NEW g \in issued
        PROVE  /\ g[2] <= entity_datas'[g[1]].version
               /\ ~ entity_datas'[g[1]].alive => g[2] < entity_datas'[g[1]].version
    BY <2>1, <2>4, <2>5 DEF HandleInv
  <2>7. ASSUME NEW g \in removed'
        PROVE  g[2] < entity_datas'[g[1]].version
    <3>1. g \in issued
      BY <2>4 DEF EntityTypeOK
    <3>2. QED
      BY <2>1, <2>4, <2>5, <3>1 DEF HandleInv
  <2>8. QED
    BY <2>4, <2>6, <2>7 DEF HandleInv
<1>3. QED
  BY <1>1, <1>2 DEF RemoveEntity

(* While no version wraps, every step keeps the handles apart.               *)
LEMMA HandleInvStep ==
  ASSUME NoWrap
  PROVE  EntityTypeOK /\ HandleInv /\ [EntityNext]_entityVars => HandleInv'
<1>1. ASSUME HandleInv, UNCHANGED entityVars PROVE HandleInv'
  BY <1>1 DEF HandleInv, entityVars
<1>2. QED
  BY <1>1, HandleInvNew, HandleInvRemove DEF EntityNext

(* At the start no handle was given.                                         *)
LEMMA HandleInvInit == EntityInit => HandleInv
  BY DEF EntityInit, HandleInv

(* A removed handle is never valid again, as long as no slot is removed so  *)
(* often that its version wraps.                                            *)
THEOREM StaleHandleCorrect ==
  ASSUME NoWrap
  PROVE  EntitySpec => []StaleHandleRejected
<1>1. EntityTypeOK /\ HandleInv => StaleHandleRejected
  <2> SUFFICES ASSUME EntityTypeOK, HandleInv, NEW h \in removed, IsAlive(h)
               PROVE  FALSE
    BY DEF StaleHandleRejected
  <2>1. h[2] \in Nat /\ h[2] = entity_datas[h[1]].version
    BY EntityVectorAssumption DEF EntityTypeOK, Handle, Version, IsAlive
  <2>2. QED
    BY <2>1 DEF HandleInv
<1>2. QED
  BY <1>1, HandleInvInit, HandleInvStep, EntityTypeCorrect, PTL DEF EntitySpec

(* No creation returns a handle that was returned before, under the same    *)
(* assumption.                                                              *)
THEOREM FreshHandleCorrect ==
  ASSUME NoWrap
  PROVE  EntitySpec => FreshHandle
<1> DEFINE Fresh == \A i \in Index :
      ~ entity_datas[i].alive /\ entity_datas'[i].alive
        => <<i, entity_datas'[i].version>> \notin issued
<1>1. EntityTypeOK /\ HandleInv /\ [EntityNext]_entityVars => [Fresh]_entityVars
  <2> SUFFICES ASSUME EntityTypeOK, HandleInv, EntityNext,
                      NEW i \in Index, ~ entity_datas[i].alive, entity_datas'[i].alive
               PROVE  <<i, entity_datas'[i].version>> \notin issued
    OBVIOUS
  <2> USE EntityVectorAssumption
  <2>1. entity_datas[i].version \in Nat
    BY DEF EntityTypeOK, Version
  <2>2. <<i, entity_datas[i].version>> \notin issued
    BY <2>1 DEF HandleInv
  <2>3. entity_datas'[i].version = entity_datas[i].version
    <3>1. ASSUME NEW named \in BOOLEAN, NEW bit29 \in Bit29, NewEntity(named, bit29)
          PROVE  entity_datas'[i].version = entity_datas[i].version
      <4>1. NextIndex \in Index
        BY <3>1, NextIndexInRange DEF NewEntity
      <4>2. QED
        BY <3>1, <4>1 DEF NewEntity, EntityTypeOK
    <3>2. ASSUME NEW h \in issued, RemoveEntity(h)
          PROVE  FALSE
      <4>1. h[1] \in Index
        BY DEF EntityTypeOK, Handle
      <4>2. ~ entity_datas'[h[1]].alive \/ UNCHANGED entityVars
        BY <3>2, <4>1 DEF RemoveEntity, Cleared, NewSlot, EntityTypeOK
      <4>3. QED
        BY <3>2, <4>1, <4>2 DEF RemoveEntity, EntityTypeOK, entityVars
    <3>3. QED
      BY <3>1, <3>2 DEF EntityNext
  <2>4. QED
    BY <2>2, <2>3
<1>2. QED
  BY <1>1, HandleInvInit, HandleInvStep, EntityTypeCorrect, PTL
  DEF EntitySpec, FreshHandle

-----------------------------------------------------------------------------
(* ArchetypeGraph, for every set of components and number of nodes: the      *)
(* graph stays well formed and its cached edges exact, whatever walks are    *)
(* made over it.                                                             *)

\* What an exact graph is, as one predicate of a graph.
Exact(g) == AddEdgesExact(g) /\ RemoveEdgesExact(g)

\* A list that has a node, or for which one can still be created.
Room(g, coms) == Known(g, coms) # {} \/ g.counter < MaxNode

-----------------------------------------------------------------------------
(* Looking a list up, or creating its node, yields a node with that list    *)
(* and disturbs neither the existing nodes nor any edge.                    *)
LEMMA GetOrCreateProperties ==
  ASSUME NEW g \in Graph, NEW coms \in SUBSET Components, Room(g, coms)
  PROVE  LET r == GetOrCreate(g, coms)
         IN  /\ r.graph \in Graph
             /\ g.counter <= r.graph.counter
             /\ r.node \in 0 .. r.graph.counter
             /\ r.graph.comps[r.node] = coms
             /\ \A n \in 0 .. g.counter : r.graph.comps[n] = g.comps[n]
             /\ r.graph.add = g.add
             /\ r.graph.remove = g.remove
<1> DEFINE r == GetOrCreate(g, coms)
<1> USE GraphAssumption
<1>1. CASE Known(g, coms) # {}
  <2>1. r.graph = g /\ r.node \in Known(g, coms)
    BY <1>1 DEF GetOrCreate
  <2>2. QED
    BY <2>1 DEF Known, Graph, Node
<1>2. CASE Known(g, coms) = {}
  <2> DEFINE h == [g EXCEPT !.counter = @ + 1, !.comps[g.counter + 1] = coms]
  <2>1. r.graph = h /\ r.node = g.counter + 1
    BY <1>2 DEF GetOrCreate, NextId
  <2>2. g.counter + 1 \in Node
    BY <1>2 DEF Graph, Node, Room
  <2>3. /\ h.counter = g.counter + 1
        /\ h.comps = [g.comps EXCEPT ![g.counter + 1] = coms]
        /\ h.add = g.add
        /\ h.remove = g.remove
    BY DEF Graph
  <2>4. h \in Graph
    BY <2>2 DEF Graph
  <2> HIDE DEF h, r
  <2>5. QED
    BY <2>1, <2>2, <2>3, <2>4 DEF Graph, Node, r
<1>3. QED
  BY <1>1, <1>2

(* Linking two nodes whose lists differ by c keeps the edges exact.         *)
LEMMA LinkExact ==
  ASSUME NEW g \in Graph, Exact(g), NEW c \in Components,
         NEW lower \in Node, NEW upper \in Node,
         Exists(g, lower), Exists(g, upper),
         c \notin g.comps[lower],
         g.comps[upper] = g.comps[lower] \union {c}
  PROVE  Link(g, lower, c, upper) \in Graph /\ Exact(Link(g, lower, c, upper))
<1> DEFINE h == Link(g, lower, c, upper)
<1>1. /\ h.counter = g.counter
      /\ h.comps = g.comps
      /\ h.add = [g.add EXCEPT ![lower][c] = upper]
      /\ h.remove = [g.remove EXCEPT ![upper][c] = lower]
  BY DEF Link, Graph
<1>2. h \in Graph
  BY DEF Link, Graph
<1> HIDE DEF h
<1>3. AddEdgesExact(h)
  <2> SUFFICES ASSUME NEW n \in Node, NEW d \in Components, h.add[n][d] # NoNode
               PROVE  /\ Exists(h, n) /\ Exists(h, h.add[n][d])
                      /\ d \notin h.comps[n]
                      /\ h.comps[h.add[n][d]] = h.comps[n] \union {d}
    BY DEF AddEdgesExact
  <2>1. CASE n = lower /\ d = c
    BY <1>1, <2>1 DEF Exists, Graph
  <2>2. CASE ~ (n = lower /\ d = c)
    <3>1. h.add[n][d] = g.add[n][d]
      BY <1>1, <2>2 DEF Graph
    <3>2. QED
      BY <1>1, <3>1 DEF Exact, AddEdgesExact, Exists
  <2>3. QED
    BY <2>1, <2>2
<1>4. RemoveEdgesExact(h)
  <2> SUFFICES ASSUME NEW n \in Node, NEW d \in Components, h.remove[n][d] # NoNode
               PROVE  /\ Exists(h, n) /\ Exists(h, h.remove[n][d])
                      /\ d \in h.comps[n]
                      /\ h.comps[h.remove[n][d]] = h.comps[n] \ {d}
    BY DEF RemoveEdgesExact
  <2>1. CASE n = upper /\ d = c
    BY <1>1, <2>1 DEF Exists, Graph
  <2>2. CASE ~ (n = upper /\ d = c)
    <3>1. h.remove[n][d] = g.remove[n][d]
      BY <1>1, <2>2 DEF Graph
    <3>2. QED
      BY <1>1, <3>1 DEF Exact, RemoveEdgesExact, Exists
  <2>3. QED
    BY <2>1, <2>2
<1>5. QED
  BY <1>2, <1>3, <1>4 DEF h, Exact

(* Growing the graph by a lookup keeps the edges exact: every edge joins    *)
(* existing nodes, whose lists do not change.                               *)
LEMMA GetOrCreateExact ==
  ASSUME NEW g \in Graph, Exact(g), NEW coms \in SUBSET Components,
         Room(g, coms)
  PROVE  Exact(GetOrCreate(g, coms).graph)
<1> DEFINE h == GetOrCreate(g, coms).graph
<1>1. /\ h \in Graph
      /\ g.counter <= h.counter
      /\ \A n \in 0 .. g.counter : h.comps[n] = g.comps[n]
      /\ h.add = g.add
      /\ h.remove = g.remove
  BY GetOrCreateProperties
<1> HIDE DEF h
<1>2. g.counter \in Int /\ h.counter \in Int
  BY <1>1, GraphAssumption DEF Graph, Node
<1>3. AddEdgesExact(h)
  BY <1>1, <1>2 DEF Exact, AddEdgesExact, Exists
<1>4. RemoveEdgesExact(h)
  BY <1>1, <1>2 DEF Exact, RemoveEdgesExact, Exists
<1>5. QED
  BY <1>3, <1>4 DEF h, Exact

(* What a walk from node n relies on after a lookup.                        *)
LEMMA LookupFromNode ==
  ASSUME NEW g \in Graph, Exact(g), NEW n \in Node, Exists(g, n),
         NEW coms \in SUBSET Components, Room(g, coms)
  PROVE  LET made == GetOrCreate(g, coms)
         IN  /\ made.graph \in Graph
             /\ Exact(made.graph)
             /\ made.node \in Node
             /\ Exists(made.graph, made.node)
             /\ Exists(made.graph, n)
             /\ made.graph.comps[made.node] = coms
             /\ made.graph.comps[n] = g.comps[n]
<1> DEFINE made == GetOrCreate(g, coms)
<1>1. /\ made.graph \in Graph
      /\ g.counter <= made.graph.counter
      /\ made.node \in 0 .. made.graph.counter
      /\ made.graph.comps[made.node] = coms
      /\ \A m \in 0 .. g.counter : made.graph.comps[m] = g.comps[m]
  BY GetOrCreateProperties
<1>2. Exact(made.graph)
  BY GetOrCreateExact
<1> HIDE DEF made
<1>3. /\ g.counter \in Nat
      /\ made.graph.counter \in Nat
      /\ made.graph.counter <= MaxNode
  BY <1>1, GraphAssumption DEF Graph, Node
<1>4. n \in 0 .. g.counter
  BY DEF Exists
<1>5. made.node \in Node /\ Exists(made.graph, made.node) /\ Exists(made.graph, n)
  BY <1>1, <1>3, <1>4, GraphAssumption DEF Exists, Node
<1>6. QED
  BY <1>1, <1>2, <1>4, <1>5 DEF made

-----------------------------------------------------------------------------
(* Adding a component the node lacks.                                       *)
LEMMA WalkAddExact ==
  ASSUME NEW g \in Graph, Exact(g), NEW n \in Node, Exists(g, n),
         NEW c \in Components, c \notin g.comps[n], Room(g, g.comps[n] \union {c})
  PROVE  WalkAdd(g, n, c).graph \in Graph /\ Exact(WalkAdd(g, n, c).graph)
<1>1. CASE g.add[n][c] # NoNode
  BY <1>1 DEF WalkAdd
<1>2. CASE g.add[n][c] = NoNode
  <2> DEFINE coms == g.comps[n] \union {c}
             made == GetOrCreate(g, coms)
  <2>1. coms \in SUBSET Components /\ Room(g, coms)
    BY DEF Graph
  <2> HIDE DEF coms
  <2>2. /\ made.graph \in Graph
        /\ Exact(made.graph)
        /\ made.node \in Node
        /\ Exists(made.graph, made.node)
        /\ Exists(made.graph, n)
        /\ made.graph.comps[made.node] = coms
        /\ made.graph.comps[n] = g.comps[n]
    BY <2>1, LookupFromNode
  <2>3. WalkAdd(g, n, c).graph = Link(made.graph, n, c, made.node)
    BY <1>2 DEF WalkAdd, coms
  <2> HIDE DEF made
  <2>4. QED
    BY <2>2, <2>3, LinkExact DEF coms
<1>3. QED
  BY <1>1, <1>2

(* Removing a component the node has.                                       *)
LEMMA WalkRemoveExact ==
  ASSUME NEW g \in Graph, Exact(g), NEW n \in Node, Exists(g, n),
         NEW c \in Components, c \in g.comps[n], Room(g, g.comps[n] \ {c})
  PROVE  WalkRemove(g, n, c).graph \in Graph /\ Exact(WalkRemove(g, n, c).graph)
<1>1. CASE g.remove[n][c] # NoNode
  BY <1>1 DEF WalkRemove
<1>2. CASE g.remove[n][c] = NoNode
  <2> DEFINE coms == g.comps[n] \ {c}
             made == GetOrCreate(g, coms)
  <2>1. coms \in SUBSET Components /\ Room(g, coms)
    BY DEF Graph
  <2> HIDE DEF coms
  <2>2. /\ made.graph \in Graph
        /\ Exact(made.graph)
        /\ made.node \in Node
        /\ Exists(made.graph, made.node)
        /\ Exists(made.graph, n)
        /\ made.graph.comps[made.node] = coms
        /\ made.graph.comps[n] = g.comps[n]
    BY <2>1, LookupFromNode
  <2>3. WalkRemove(g, n, c).graph = Link(made.graph, made.node, c, n)
    BY <1>2 DEF WalkRemove, coms
  <2>4. c \notin coms /\ g.comps[n] = coms \union {c}
    BY DEF coms
  <2> HIDE DEF made
  <2>5. QED
    BY <2>2, <2>3, <2>4, LinkExact
<1>3. QED
  BY <1>1, <1>2

-----------------------------------------------------------------------------
(* The cached edges are exact in every reachable graph: following "add c"   *)
(* gains exactly c, following "remove c" loses exactly c.                   *)
THEOREM GraphCorrect == GraphSpec => [](GraphTypeOK /\ EdgesExact)
<1> DEFINE Inv == graph \in Graph /\ Exact(graph)
<1>1. GraphInit => Inv
  BY GraphAssumption
  DEF GraphInit, EmptyGraph, Graph, Node, Exact, AddEdgesExact, RemoveEdgesExact
<1>2. Inv /\ [GraphNext]_graph => Inv'
  <2> SUFFICES ASSUME Inv, [GraphNext]_graph PROVE Inv'
    OBVIOUS
  <2>1. ASSUME NEW n \in Node, NEW c \in Components, AddWalk(n, c) PROVE Inv'
    BY <2>1, WalkAddExact DEF AddWalk, Room
  <2>2. ASSUME NEW n \in Node, NEW c \in Components, RemoveWalk(n, c) PROVE Inv'
    BY <2>2, WalkRemoveExact DEF RemoveWalk, Room
  <2>3. CASE UNCHANGED graph
    BY <2>3
  <2>4. QED
    BY <2>1, <2>2, <2>3 DEF GraphNext
<1>3. Inv => GraphTypeOK /\ EdgesExact
  BY DEF GraphTypeOK, EdgesExact, Exact
<1>4. QED
  BY <1>1, <1>2, <1>3, PTL DEF GraphSpec

-----------------------------------------------------------------------------
\* NodesDistinct, as a predicate of a graph.
Distinct(g) ==
  \A m, n \in 1 .. g.counter : g.comps[m] = g.comps[n] => m = n

(* A node is created only for a list no node but the root has.              *)
LEMMA GetOrCreateDistinct ==
  ASSUME NEW g \in Graph, Distinct(g), NEW coms \in SUBSET Components,
         Room(g, coms)
  PROVE  Distinct(GetOrCreate(g, coms).graph)
<1> USE GraphAssumption
<1>1. CASE Known(g, coms) # {}
  BY <1>1 DEF GetOrCreate
<1>2. CASE Known(g, coms) = {}
  <2> DEFINE h == [g EXCEPT !.counter = NextId(g), !.comps[NextId(g)] = coms]
  <2>1. GetOrCreate(g, coms).graph = h
    BY <1>2 DEF GetOrCreate
  <2>2. /\ g.counter \in Nat
        /\ g.counter + 1 \in Node
        /\ g.comps \in [Node -> SUBSET Components]
    BY <1>2 DEF Graph, Node, Room
  <2>3. /\ h.counter = g.counter + 1
        /\ h.comps = [g.comps EXCEPT ![g.counter + 1] = coms]
    BY DEF Graph, NextId
  <2> HIDE DEF h
  <2>4. \A n \in 1 .. g.counter : h.comps[n] = g.comps[n] /\ h.comps[n] # coms
    BY <1>2, <2>2, <2>3 DEF Known, Node
  <2>5. h.comps[g.counter + 1] = coms
    BY <2>2, <2>3
  <2>6. \A n \in 1 .. h.counter : n \in 1 .. g.counter \/ n = g.counter + 1
    BY <2>2, <2>3
  <2>7. Distinct(h)
    BY <2>4, <2>5, <2>6 DEF Distinct
  <2>8. QED
    BY <2>1, <2>7
<1>3. QED
  BY <1>1, <1>2

(* Linking two nodes does not change their lists.                           *)
LEMMA LinkDistinct ==
  ASSUME NEW g \in Graph, Distinct(g), NEW lower, NEW c, NEW upper
  PROVE  Distinct(Link(g, lower, c, upper))
<1>1. /\ Link(g, lower, c, upper).counter = g.counter
      /\ Link(g, lower, c, upper).comps = g.comps
  BY DEF Link, Graph
<1>2. QED
  BY <1>1 DEF Distinct

(* No two archetypes but the root share a component list, whatever walks    *)
(* are made: entities with the same components share one archetype.         *)
THEOREM GraphNodesDistinct == GraphSpec => []NodesDistinct
<1>1. GraphInit => NodesDistinct
  BY DEF GraphInit, EmptyGraph, NodesDistinct
<1>2. GraphTypeOK /\ NodesDistinct /\ [GraphNext]_graph => NodesDistinct'
  <2> SUFFICES ASSUME GraphTypeOK, Distinct(graph), [GraphNext]_graph
               PROVE  Distinct(graph')
    BY DEF Distinct, NodesDistinct
  <2> graph \in Graph
    BY DEF GraphTypeOK
  <2>1. ASSUME NEW n \in Node, NEW c \in Components, AddWalk(n, c)
        PROVE  Distinct(graph')
    <3> DEFINE made == GetOrCreate(graph, graph.comps[n] \union {c})
    <3>1. graph.comps[n] \union {c} \in SUBSET Components
      BY DEF Graph
    <3>2. made.graph \in Graph /\ Distinct(made.graph)
      BY <2>1, <3>1, GetOrCreateProperties, GetOrCreateDistinct DEF AddWalk, Room
    <3>3. graph' = graph \/ graph' = Link(made.graph, n, c, made.node)
      BY <2>1 DEF AddWalk, WalkAdd
    <3>4. QED
      BY <3>2, <3>3, LinkDistinct
  <2>2. ASSUME NEW n \in Node, NEW c \in Components, RemoveWalk(n, c)
        PROVE  Distinct(graph')
    <3> DEFINE made == GetOrCreate(graph, graph.comps[n] \ {c})
    <3>1. graph.comps[n] \ {c} \in SUBSET Components
      BY DEF Graph
    <3>2. made.graph \in Graph /\ Distinct(made.graph)
      BY <2>2, <3>1, GetOrCreateProperties, GetOrCreateDistinct DEF RemoveWalk, Room
    <3>3. graph' = graph \/ graph' = Link(made.graph, made.node, c, n)
      BY <2>2 DEF RemoveWalk, WalkRemove
    <3>4. QED
      BY <3>2, <3>3, LinkDistinct
  <2>3. CASE UNCHANGED graph
    BY <2>3
  <2>4. QED
    BY <2>1, <2>2, <2>3 DEF GraphNext
<1>3. QED
  BY <1>1, <1>2, GraphCorrect, PTL DEF GraphSpec

-----------------------------------------------------------------------------
(* The walks a submit makes go from any node that exists and for any        *)
(* component, checked or not: whatever the commands are, they keep a graph  *)
(* whose edges lead to existing nodes, and change no node's list.           *)

\* A number of nodes that bounds nothing: one for every list, and the root.
ArchetypesFit ==
  IsFiniteSet(SUBSET Components) /\ Cardinality(SUBSET Components) <= MaxNode

EdgesLead(g) ==
  \A n \in Node, c \in Components :
    /\ g.add[n][c] # NoNode => Exists(g, g.add[n][c])
    /\ g.remove[n][c] # NoNode => Exists(g, g.remove[n][c])

SoundGraph == {g \in Graph : Distinct(g) /\ EdgesLead(g)}

\* h has every node of g, with its list.
Extends(h, g) ==
  g.counter <= h.counter /\ \A n \in 0 .. g.counter : h.comps[n] = g.comps[n]

(* There is always room: the lists of the nodes created so far are distinct. *)
LEMMA AlwaysRoom ==
  ASSUME ArchetypesFit, NEW g \in Graph, Distinct(g), NEW coms \in SUBSET Components
  PROVE  Room(g, coms)
<1> USE GraphAssumption
<1> SUFFICES ASSUME Known(g, coms) = {} PROVE g.counter < MaxNode
  BY DEF Room
<1> DEFINE lists == (SUBSET Components) \ {coms}
           f == [n \in 1 .. g.counter |-> g.comps[n]]
<1>1. g.counter \in Nat /\ g.comps \in [Node -> SUBSET Components] /\ g.counter <= MaxNode
  BY DEF Graph, Node
<1>2. /\ IsFiniteSet(lists)
      /\ Cardinality(lists) = Cardinality(SUBSET Components) - 1
      /\ Cardinality(SUBSET Components) \in Nat
  BY FS_RemoveElement, FS_CardinalityType DEF ArchetypesFit
<1>3. f \in [1 .. g.counter -> lists]
  BY <1>1 DEF Known, Node
<1>4. f \in Injection(1 .. g.counter, lists)
  BY <1>3 DEF Injection, IsInjective, Distinct
<1>5. Cardinality(1 .. g.counter) = g.counter
  BY <1>1, FS_Interval
<1> HIDE DEF lists, f
<1>6. g.counter <= Cardinality(lists)
  BY <1>2, <1>4, <1>5, FS_Injection
<1>7. QED
  BY <1>1, <1>2, <1>6 DEF ArchetypesFit

(* The archetype of a set of components, found or created, is of that set.   *)
LEMMA GetOrCreateSound ==
  ASSUME ArchetypesFit, NEW g \in SoundGraph, NEW coms \in SUBSET Components
  PROVE  LET r == GetOrCreate(g, coms)
         IN  /\ r.graph \in SoundGraph
             /\ Extends(r.graph, g)
             /\ Exists(r.graph, r.node)
             /\ r.graph.comps[r.node] = coms
<1> DEFINE r == GetOrCreate(g, coms)
<1>1. g \in Graph /\ Distinct(g) /\ EdgesLead(g) /\ Room(g, coms)
  BY AlwaysRoom DEF SoundGraph
<1>2. /\ r.graph \in Graph
      /\ g.counter <= r.graph.counter
      /\ r.node \in 0 .. r.graph.counter
      /\ r.graph.comps[r.node] = coms
      /\ \A n \in 0 .. g.counter : r.graph.comps[n] = g.comps[n]
      /\ r.graph.add = g.add
      /\ r.graph.remove = g.remove
  BY <1>1, GetOrCreateProperties
<1>3. Distinct(r.graph)
  BY <1>1, GetOrCreateDistinct
<1> HIDE DEF r
<1>4. g.counter \in Int /\ r.graph.counter \in Int
  BY <1>1, <1>2, GraphAssumption DEF Graph, Node
<1>5. EdgesLead(r.graph)
  BY <1>1, <1>2, <1>4 DEF EdgesLead, Exists
<1>6. QED
  BY <1>2, <1>3, <1>5 DEF r, SoundGraph, Extends, Exists

(* An edge to the archetype with one component more, and back.               *)
LEMMA LinkSound ==
  ASSUME NEW g \in SoundGraph, NEW c \in Components, NEW lower, NEW upper,
         Exists(g, lower), Exists(g, upper)
  PROVE  Link(g, lower, c, upper) \in SoundGraph /\ Extends(Link(g, lower, c, upper), g)
<1> DEFINE h == Link(g, lower, c, upper)
<1>1. g \in Graph /\ Distinct(g) /\ EdgesLead(g)
  BY DEF SoundGraph
<1>2. g.counter \in Int /\ lower \in Node /\ upper \in Node
  BY <1>1, GraphAssumption DEF Graph, Node, Exists
<1>3. /\ h.counter = g.counter
      /\ h.comps = g.comps
      /\ h.add = [g.add EXCEPT ![lower][c] = upper]
      /\ h.remove = [g.remove EXCEPT ![upper][c] = lower]
  BY <1>1 DEF Link, Graph
<1>4. h \in Graph
  BY <1>1, <1>2 DEF Link, Graph
<1>5. Distinct(h)
  BY <1>1, LinkDistinct
<1> HIDE DEF h
<1>6. EdgesLead(h)
  <2>1. ASSUME NEW n \in Node, NEW d \in Components
        PROVE  /\ h.add[n][d] \in {upper, g.add[n][d]}
               /\ h.remove[n][d] \in {lower, g.remove[n][d]}
    BY <1>1, <1>3 DEF Graph
  <2>2. QED
    BY <1>1, <1>3, <2>1 DEF EdgesLead, Exists
<1>7. QED
  BY <1>2, <1>3, <1>4, <1>5, <1>6 DEF h, SoundGraph, Extends

(* A graph that grew twice grew.                                             *)
LEMMA ExtendsTransitive ==
  ASSUME NEW f \in Graph, NEW g \in Graph, NEW h \in Graph, Extends(g, f), Extends(h, g)
  PROVE  Extends(h, f)
<1>1. f.counter \in Int /\ g.counter \in Int /\ h.counter \in Int
  BY GraphAssumption DEF Graph, Node
<1>2. QED
  BY <1>1 DEF Extends

(* A node stays in a graph that grows, with its components.                  *)
LEMMA ExtendsExists ==
  ASSUME NEW g \in Graph, NEW h \in Graph, Extends(h, g), NEW n, Exists(g, n)
  PROVE  Exists(h, n) /\ h.comps[n] = g.comps[n] /\ n \in Node
<1>1. g.counter \in Int /\ h.counter \in Int /\ g.counter <= MaxNode
  BY GraphAssumption DEF Graph, Node
<1>2. QED
  BY <1>1, GraphAssumption DEF Extends, Exists, Node

\* What a walk promises of the graph and the node it returns.
WalkSound(g, walk) ==
  walk.graph \in SoundGraph /\ Extends(walk.graph, g) /\ Exists(walk.graph, walk.node)

(* A step along a component added ends with one component more.              *)
LEMMA WalkAddSound ==
  ASSUME ArchetypesFit, NEW g \in SoundGraph, NEW n, Exists(g, n), NEW c \in Components
  PROVE  WalkSound(g, WalkAdd(g, n, c))
<1>1. g \in Graph /\ EdgesLead(g) /\ n \in Node /\ Extends(g, g)
  BY GraphAssumption DEF SoundGraph, Graph, Node, Exists, Extends
<1>2. CASE g.add[n][c] # NoNode
  BY <1>1, <1>2 DEF WalkAdd, WalkSound, EdgesLead
<1>3. CASE g.add[n][c] = NoNode
  <2> DEFINE coms == g.comps[n] \union {c}
             made == GetOrCreate(g, coms)
  <2>1. coms \in SUBSET Components
    BY <1>1 DEF Graph
  <2>2. WalkAdd(g, n, c) = [graph |-> Link(made.graph, n, c, made.node), node |-> made.node]
    BY <1>3 DEF WalkAdd
  <2> HIDE DEF coms
  <2>3. /\ made.graph \in SoundGraph /\ made.graph \in Graph
        /\ Extends(made.graph, g)
        /\ Exists(made.graph, made.node)
    BY <2>1, GetOrCreateSound DEF SoundGraph
  <2> HIDE DEF made
  <2> DEFINE h == Link(made.graph, n, c, made.node)
  <2>4. Exists(made.graph, n)
    BY <1>1, <2>3, ExtendsExists
  <2>5. h \in SoundGraph /\ h \in Graph /\ Extends(h, made.graph)
    BY <2>3, <2>4, LinkSound DEF SoundGraph
  <2> HIDE DEF h
  <2>6. Extends(h, g) /\ Exists(h, made.node)
    BY <1>1, <2>3, <2>5, ExtendsTransitive, ExtendsExists
  <2>7. QED
    BY <2>2, <2>5, <2>6 DEF WalkSound, h
<1>4. QED
  BY <1>2, <1>3

(* A step along a component removed ends with one component less.            *)
LEMMA WalkRemoveSound ==
  ASSUME ArchetypesFit, NEW g \in SoundGraph, NEW n, Exists(g, n), NEW c \in Components
  PROVE  WalkSound(g, WalkRemove(g, n, c))
<1>1. g \in Graph /\ EdgesLead(g) /\ n \in Node /\ Extends(g, g) /\ Exists(g, Root)
  BY GraphAssumption DEF SoundGraph, Graph, Node, Exists, Extends, Root
<1>2. CASE g.comps[n] = {}
  BY <1>1, <1>2 DEF WalkRemove, WalkSound
<1>3. CASE g.comps[n] # {} /\ g.remove[n][c] # NoNode
  BY <1>1, <1>3 DEF WalkRemove, WalkSound, EdgesLead
<1>4. CASE g.comps[n] # {} /\ g.remove[n][c] = NoNode
  <2> DEFINE coms == g.comps[n] \ {c}
             made == GetOrCreate(g, coms)
  <2>1. coms \in SUBSET Components
    BY <1>1 DEF Graph
  <2>2. WalkRemove(g, n, c) = [graph |-> Link(made.graph, made.node, c, n), node |-> made.node]
    BY <1>4 DEF WalkRemove
  <2> HIDE DEF coms
  <2>3. /\ made.graph \in SoundGraph /\ made.graph \in Graph
        /\ Extends(made.graph, g)
        /\ Exists(made.graph, made.node)
    BY <2>1, GetOrCreateSound DEF SoundGraph
  <2> HIDE DEF made
  <2> DEFINE h == Link(made.graph, made.node, c, n)
  <2>4. Exists(made.graph, n)
    BY <1>1, <2>3, ExtendsExists
  <2>5. h \in SoundGraph /\ h \in Graph /\ Extends(h, made.graph)
    BY <2>3, <2>4, LinkSound DEF SoundGraph
  <2> HIDE DEF h
  <2>6. Extends(h, g) /\ Exists(h, made.node)
    BY <1>1, <2>3, <2>5, ExtendsTransitive, ExtendsExists
  <2>7. QED
    BY <2>2, <2>5, <2>6 DEF WalkSound, h
<1>5. QED
  BY <1>2, <1>3, <1>4

-----------------------------------------------------------------------------
(* Collection.                                                               *)

-----------------------------------------------------------------------------
(* The entity store.  A step of the collection creates an entity, removes    *)
(* one, or only sets and clears dirty flags.                                 *)

StoreInv ==
  /\ EntityTypeOK
  /\ FreeListSound
  /\ \A i \in Index : entity_datas[i].alive => i < size

OnlyFlags ==
  /\ UNCHANGED <<free_index, size, issued, removed>>
  /\ entity_datas' \in [Index -> Slot]
  /\ \A i \in Index :
       /\ entity_datas'[i].version = entity_datas[i].version
       /\ entity_datas'[i].alive = entity_datas[i].alive
       /\ entity_datas'[i].named = entity_datas[i].named

(* A handle that was given is of an index of the store.                      *)
LEMMA HandleShape ==
  ASSUME EntityTypeOK, NEW h \in issued
  PROVE  h[1] \in Index
BY DEF EntityTypeOK, Handle

(* What leaves the store alone sets no more than flags.                      *)
LEMMA SameFlags ==
  ASSUME EntityTypeOK, UNCHANGED entityVars
  PROVE  OnlyFlags
BY DEF EntityTypeOK, entityVars, OnlyFlags, Slot

(* A recorded command sets no more than the dirty flag.                      *)
LEMMA ModifyFlags ==
  ASSUME EntityTypeOK, NEW i \in Index, NEW type, NEW coms,
         Modify(i, type, coms), UNCHANGED <<free_index, size, issued, removed>>
  PROVE  OnlyFlags
<1>1. CASE entity_datas[i].dirty
  BY <1>1, SameFlags DEF Modify, entityVars
<1>2. CASE ~ entity_datas[i].dirty
  <2> DEFINE d == [entity_datas[i] EXCEPT !.dirty = TRUE]
  <2>1. entity_datas' = [entity_datas EXCEPT ![i] = d]
    BY <1>2 DEF Modify
  <2>2. /\ d \in Slot
        /\ d.version = entity_datas[i].version
        /\ d.alive = entity_datas[i].alive
        /\ d.named = entity_datas[i].named
    BY DEF EntityTypeOK, Slot
  <2> HIDE DEF d
  <2>3. QED
    BY <2>1, <2>2 DEF OnlyFlags, EntityTypeOK, Slot
<1>3. QED
  BY <1>1, <1>2

(* A submit clears no more than dirty flags.                                 *)
LEMMA SubmitFlags ==
  ASSUME EntityTypeOK, Submit
  PROVE  OnlyFlags
<1>1. /\ entity_datas' = [i \in Index |->
            [entity_datas[i] EXCEPT !.dirty = DirtyAfterSubmit(i)]]
      /\ UNCHANGED <<free_index, size, issued, removed>>
  BY DEF Submit
<1>2. ASSUME NEW i \in Index
      PROVE  DirtyAfterSubmit(i) \in BOOLEAN
  BY DEF DirtyAfterSubmit
<1>3. ASSUME NEW i \in Index
      PROVE  /\ entity_datas'[i] \in Slot
             /\ entity_datas'[i].version = entity_datas[i].version
             /\ entity_datas'[i].alive = entity_datas[i].alive
             /\ entity_datas'[i].named = entity_datas[i].named
  <2> DEFINE flag == DirtyAfterSubmit(i)
  <2>1. flag \in BOOLEAN
    BY <1>2
  <2>2. entity_datas'[i] = [entity_datas[i] EXCEPT !.dirty = flag]
    BY <1>1
  <2> HIDE DEF flag
  <2>3. QED
    BY <2>1, <2>2 DEF EntityTypeOK, Slot
<1>4. entity_datas' \in [Index -> Slot]
  <2>1. DOMAIN entity_datas' = Index /\ entity_datas' = [i \in Index |-> entity_datas'[i]]
    BY <1>1
  <2>2. QED
    BY <1>3, <2>1
<1>5. QED
  BY <1>1, <1>3, <1>4 DEF OnlyFlags

(* What a step of the collection is to the store below it.                   *)
LEMMA StoreStep ==
  ASSUME EntityTypeOK, [CollectionNext]_collectionVars
  PROVE  \/ \E named \in BOOLEAN, bit29 \in Bit29 : NewEntity(named, bit29)
         \/ \E h \in issued : RemoveEntity(h)
         \/ OnlyFlags
<1>1. ASSUME NEW name \in Names \union {NoName}, NEW bit29 \in Bit29,
             CreateEntity(name, bit29)
      PROVE  \E named \in BOOLEAN : NewEntity(named, bit29)
  BY <1>1 DEF CreateEntity
<1>2. ASSUME NEW h \in issued, DestroyEntity(h)
      PROVE  RemoveEntity(h)
  BY <1>2 DEF DestroyEntity
<1>3. ASSUME NEW s, NEW h, CreatePairWithStatic(s, h)
      PROVE  UNCHANGED entityVars
  BY <1>3 DEF CreatePairWithStatic
<1>4. ASSUME NEW hA, NEW hB, CreatePairOfEntities(hA, hB)
      PROVE  UNCHANGED entityVars
  BY <1>4 DEF CreatePairOfEntities
<1>5. ASSUME NEW nameA, NEW nameB, CreatePairByName(nameA, nameB)
      PROVE  UNCHANGED entityVars
  BY <1>5 DEF CreatePairByName
<1>6. ASSUME NEW h \in issued, NEW coms, RecordAdd(h, coms)
      PROVE  OnlyFlags
  BY <1>6, HandleShape, ModifyFlags, SameFlags DEF RecordAdd, entityVars
<1>7. ASSUME NEW h \in issued, NEW coms, RecordRemove(h, coms)
      PROVE  OnlyFlags
  BY <1>7, HandleShape, ModifyFlags, SameFlags DEF RecordRemove, entityVars
<1>8. CASE UNCHANGED collectionVars
  BY <1>8, SameFlags DEF collectionVars
<1>9. QED
  BY <1>1, <1>2, <1>3, <1>4, <1>5, <1>6, <1>7, <1>8, SameFlags, SubmitFlags
  DEF CollectionNext

\* The slot a creation takes is dead, and the others stay as they are.
LEMMA LiveNew ==
  ASSUME StoreInv, NEW named \in BOOLEAN, NEW bit29 \in Bit29, NewEntity(named, bit29)
  PROVE  /\ NextIndex \in Index
         /\ ~ entity_datas[NextIndex].alive
         /\ NextIndex < size'
         /\ \A i \in Index : i # NextIndex => entity_datas'[i] = entity_datas[i]
         /\ IF WithinLimit(NextIndex)
            THEN entity_datas'[NextIndex] =
                   [version |-> entity_datas[NextIndex].version, alive |-> TRUE,
                    named |-> named, dirty |-> bit29]
            ELSE entity_datas' = entity_datas
         /\ size \in Nat /\ size' \in Nat /\ size <= size'
<1> USE EntityVectorAssumption
<1>1. NextIndex \in Index
  BY NextIndexInRange DEF NewEntity, StoreInv
<1>2. ~ entity_datas[NextIndex].alive /\ NextIndex < size'
  <2>1. CASE free_index # <<>>
    <3>1. Len(free_index) \in DOMAIN free_index
      BY <2>1, ButLastProperties, LenProperties DEF StoreInv, EntityTypeOK
    <3>2. QED
      BY <2>1, <3>1 DEF NextIndex, LastOf, FreeListSound, StoreInv, NewEntity, Grown
  <2>2. CASE free_index = <<>>
    BY <1>1, <2>2 DEF NextIndex, StoreInv, EntityTypeOK, NewEntity, Grown, Index
  <2>3. QED
    BY <2>1, <2>2
<1>3. size \in Nat /\ size' \in Nat /\ size <= size'
  BY DEF StoreInv, EntityTypeOK, NewEntity, Grown
<1>4. QED
  BY <1>1, <1>2, <1>3 DEF NewEntity, StoreInv, EntityTypeOK

\* A slot is emptied, or nothing happens.
LEMMA LiveRemove ==
  ASSUME StoreInv, NEW h \in issued, RemoveEntity(h)
  PROVE  /\ h[1] \in Index /\ size' = size
         /\ \A i \in Index : i # h[1] => entity_datas'[i] = entity_datas[i]
         /\ IF IsAlive(h)
            THEN ~ entity_datas'[h[1]].alive /\ ~ entity_datas'[h[1]].dirty
            ELSE entity_datas' = entity_datas
<1>1. h[1] \in Index
  BY HandleShape DEF StoreInv
<1>2. QED
  BY <1>1 DEF RemoveEntity, StoreInv, EntityTypeOK, Cleared, NewSlot, entityVars

(* So the store keeps its invariants below the collection.                   *)
LEMMA StoreInvStep ==
  ASSUME StoreInv, [CollectionNext]_collectionVars
  PROVE  StoreInv'
<1>1. ASSUME NEW named \in BOOLEAN, NEW bit29 \in Bit29, NewEntity(named, bit29)
      PROVE  StoreInv'
  <2>1. EntityTypeOK' /\ FreeListSound'
    BY <1>1, EntityTypeNew, FreeListNew DEF StoreInv
  <2>2. ASSUME NEW i \in Index, entity_datas'[i].alive
        PROVE  i < size'
    <3>1. CASE i = NextIndex
      BY <1>1, <3>1, LiveNew
    <3>2. CASE i # NextIndex
      <4>1. i < size
        BY <1>1, <2>2, <3>2, LiveNew DEF StoreInv
      <4>2. size \in Nat /\ size' \in Nat /\ size <= size'
        BY <1>1, LiveNew
      <4>3. QED
        BY <4>1, <4>2, EntityVectorAssumption DEF Index
    <3>3. QED
      BY <3>1, <3>2
  <2>3. QED
    BY <2>1, <2>2 DEF StoreInv
<1>2. ASSUME NEW h \in issued, RemoveEntity(h)
      PROVE  StoreInv'
  <2>1. EntityTypeOK' /\ FreeListSound'
    BY <1>2, EntityTypeRemove, FreeListRemove DEF StoreInv
  <2>2. QED
    BY <1>2, <2>1, LiveRemove DEF StoreInv
<1>3. CASE OnlyFlags
  <2>1. \A k \in DOMAIN free_index : free_index[k] \in Index
    BY ElementOfSeq, LenProperties DEF StoreInv, EntityTypeOK
  <2>2. QED
    BY <1>3, <2>1 DEF OnlyFlags, StoreInv, EntityTypeOK, FreeListSound, Slot
<1>4. QED
  BY <1>1, <1>2, <1>3, StoreStep DEF StoreInv

(* The collection starts with an empty store.                                *)
LEMMA StoreInvInit == CollectionInit => StoreInv
<1> SUFFICES ASSUME CollectionInit PROVE StoreInv
  OBVIOUS
<1>1. EntityTypeOK /\ FreeListSound
  BY EntityTypeInit DEF CollectionInit, EntityInit, FreeListSound
<1>2. QED
  BY <1>1 DEF StoreInv, CollectionInit, EntityInit, NewSlot

(* The entity store is sound in every state of the collection.               *)
LEMMA StoreInvariant == CollectionSpec => []StoreInv
BY StoreInvInit, StoreInvStep, PTL DEF CollectionSpec

-----------------------------------------------------------------------------
(* Names.  What a slot is called and what a name leads to are inverse, and   *)
(* a slot has a name exactly while a named entity lives in it.               *)

NamesInv ==
  /\ id_of \in [Names -> Index \union {Vacant}]
  /\ name_of \in [Index -> Names \union {NoName}]
  /\ \A i \in Index :
       entity_datas[i].alive /\ entity_datas[i].named <=> name_of[i] \in Names
  /\ \A i \in Index : name_of[i] \in Names =>
       EntityId(i) \in layouts /\ id_of[name_of[i]] = i
  /\ \A s \in Names : id_of[s] # Vacant =>
       name_of[id_of[s]] = s /\ s \notin Static

(* Steps that touch no name.                                                 *)
LEMMA NamesFrame ==
  ASSUME NamesInv, UNCHANGED <<id_of, name_of>>, layouts \subseteq layouts',
         \A i \in Index : /\ entity_datas'[i].alive = entity_datas[i].alive
                          /\ entity_datas'[i].named = entity_datas[i].named
  PROVE  NamesInv'
BY DEF NamesInv

(* An entity is created under its name, if it is free.                       *)
LEMMA NamesCreate ==
  ASSUME StoreInv, NamesInv, NEW name \in Names \union {NoName}, NEW bit29 \in Bit29,
         CreateEntity(name, bit29)
  PROVE  NamesInv'
<1> DEFINE given == NameGiven(name)
           i == NextIndex
<1> USE CollectionAssumption
<1>1. /\ NewEntity(given # NoName, bit29) /\ (given # NoName) \in BOOLEAN
      /\ given # NoName => /\ given \in Names /\ given \notin Static
                           /\ id_of[given] = Vacant
  BY DEF CreateEntity, NameGiven, NameTaken
<1>2. /\ i \in Index /\ ~ entity_datas[i].alive
      /\ \A j \in Index : j # i => entity_datas'[j] = entity_datas[j]
  BY <1>1, LiveNew
<1>3. name_of[i] \notin Names
  BY <1>2 DEF NamesInv
<1>4. CASE ~ WithinLimit(i)
  <2>1. UNCHANGED nameVars
    BY <1>4 DEF CreateEntity
  <2>2. entity_datas' = entity_datas
    BY <1>1, <1>4, LiveNew
  <2>3. QED
    BY <2>1, <2>2, NamesFrame DEF nameVars
<1>5. CASE WithinLimit(i)
  <2>1. /\ entity_datas'[i].alive
        /\ entity_datas'[i].named = (given # NoName)
    <3> DEFINE named == given # NoName
    <3>1. named \in BOOLEAN /\ NewEntity(named, bit29)
      BY <1>1
    <3> HIDE DEF named
    <3>2. entity_datas'[i] = [version |-> entity_datas[i].version, alive |-> TRUE,
                              named |-> named, dirty |-> bit29]
      BY <1>5, <3>1, LiveNew
    <3>3. entity_datas'[i].alive /\ entity_datas'[i].named = named
      BY <3>2
    <3>4. QED
      BY <3>3 DEF named
  <2>2. CASE given = NoName
    <3>1. UNCHANGED <<layouts, id_of, name_of>>
      BY <1>5, <2>2 DEF CreateEntity
    <3>2. \A j \in Index :
            entity_datas'[j].alive /\ entity_datas'[j].named
              <=> entity_datas[j].alive /\ entity_datas[j].named
      BY <1>2, <2>1, <2>2
    <3>3. QED
      BY <3>1, <3>2 DEF NamesInv
  <2>3. CASE given # NoName
    <3>1. /\ layouts' = layouts \union {EntityId(i)}
          /\ id_of' = [id_of EXCEPT ![given] = i]
          /\ name_of' = [name_of EXCEPT ![i] = given]
      BY <1>5, <2>3 DEF CreateEntity
    <3> HIDE DEF given, i
    <3>2. /\ id_of' \in [Names -> Index \union {Vacant}]
          /\ name_of' \in [Index -> Names \union {NoName}]
          /\ name_of'[i] = given /\ id_of'[given] = i
          /\ \A j \in Index : j # i => name_of'[j] = name_of[j]
          /\ \A s \in Names : s # given => id_of'[s] = id_of[s]
      BY <1>1, <1>2, <2>3, <3>1 DEF NamesInv
    <3>3. \A j \in Index :
            entity_datas'[j].alive /\ entity_datas'[j].named <=> name_of'[j] \in Names
      BY <1>1, <1>2, <2>1, <2>3, <3>2 DEF NamesInv
    <3>4. \A j \in Index : name_of'[j] \in Names =>
            EntityId(j) \in layouts' /\ id_of'[name_of'[j]] = j
      BY <1>1, <2>3, <3>1, <3>2 DEF NamesInv
    <3>5. \A s \in Names : id_of'[s] # Vacant =>
            name_of'[id_of'[s]] = s /\ s \notin Static
      <4> SUFFICES ASSUME NEW s \in Names, id_of'[s] # Vacant
                   PROVE  name_of'[id_of'[s]] = s /\ s \notin Static
        OBVIOUS
      <4>1. CASE s = given
        BY <1>1, <2>3, <3>2, <4>1
      <4>2. CASE s # given
        <5>1. id_of[s] \in Index /\ name_of[id_of[s]] = s /\ s \notin Static
          BY <3>2, <4>2 DEF NamesInv
        <5>2. QED
          BY <1>3, <3>2, <4>2, <5>1
      <4>3. QED
        BY <4>1, <4>2
    <3>6. QED
      BY <3>2, <3>3, <3>4, <3>5 DEF NamesInv
  <2>4. QED
    BY <2>2, <2>3
<1>6. QED
  BY <1>4, <1>5

(* An entity's name goes with it, and no other.                              *)
LEMMA NamesDestroy ==
  ASSUME StoreInv, NamesInv, NEW h \in issued, DestroyEntity(h)
  PROVE  NamesInv'
<1> DEFINE i == h[1]
<1> USE CollectionAssumption
<1>1. /\ i \in Index
      /\ \A j \in Index : j # i => entity_datas'[j] = entity_datas[j]
      /\ IF IsAlive(h) THEN ~ entity_datas'[i].alive ELSE entity_datas' = entity_datas
  BY LiveRemove DEF DestroyEntity
<1>2. CASE IsAlive(h) /\ entity_datas[i].named
  <2>1. ForgetName(i) /\ entity_datas[i].alive
    BY <1>2 DEF DestroyEntity, IsAlive
  <2> DEFINE name == name_of[i]
  <2>2. name \in Names /\ id_of[name] = i
    BY <1>1, <1>2, <2>1 DEF NamesInv
  <2>3. /\ id_of' = [id_of EXCEPT ![name] = Vacant]
        /\ name_of' = [name_of EXCEPT ![i] = NoName]
        /\ layouts' = layouts \ {EntityId(i)}
    BY <2>1 DEF ForgetName
  <2>4. /\ id_of' \in [Names -> Index \union {Vacant}]
        /\ name_of' \in [Index -> Names \union {NoName}]
        /\ name_of'[i] = NoName /\ id_of'[name] = Vacant
        /\ \A j \in Index : j # i => name_of'[j] = name_of[j]
        /\ \A s \in Names : s # name => id_of'[s] = id_of[s]
    BY <1>1, <2>2, <2>3 DEF NamesInv
  <2>5. \A j \in Index :
          entity_datas'[j].alive /\ entity_datas'[j].named <=> name_of'[j] \in Names
    BY <1>1, <1>2, <2>4 DEF NamesInv
  <2>6. \A j \in Index : name_of'[j] \in Names =>
          EntityId(j) \in layouts' /\ id_of'[name_of'[j]] = j
    <3> SUFFICES ASSUME NEW j \in Index, name_of'[j] \in Names
                 PROVE  EntityId(j) \in layouts' /\ id_of'[name_of'[j]] = j
      OBVIOUS
    <3>1. j # i /\ name_of'[j] = name_of[j]
      BY <2>4
    <3>2. EntityId(j) \in layouts /\ id_of[name_of[j]] = j
      BY <3>1 DEF NamesInv
    <3>3. EntityId(j) # EntityId(i)
      BY <3>1 DEF EntityId
    <3>4. name_of[j] # name
      BY <2>2, <3>1, <3>2
    <3>5. QED
      BY <2>3, <2>4, <3>1, <3>2, <3>3, <3>4
  <2>7. \A s \in Names : id_of'[s] # Vacant =>
          name_of'[id_of'[s]] = s /\ s \notin Static
    BY <2>2, <2>4 DEF NamesInv
  <2>8. QED
    BY <2>4, <2>5, <2>6, <2>7 DEF NamesInv
<1>3. CASE ~ (IsAlive(h) /\ entity_datas[i].named)
  <2>1. UNCHANGED <<layouts, id_of, name_of>>
    BY <1>3 DEF DestroyEntity
  <2>2. \A j \in Index :
          entity_datas'[j].alive /\ entity_datas'[j].named
            <=> entity_datas[j].alive /\ entity_datas[j].named
    BY <1>1, <1>3
  <2>3. QED
    BY <2>1, <2>2 DEF NamesInv
<1>4. QED
  BY <1>2, <1>3

\* The other calls give and take no names, and erase no layout.
LEMMA OtherCalls ==
  ASSUME StoreInv, [CollectionNext]_collectionVars
  PROVE  \/ \E name \in Names \union {NoName}, bit29 \in Bit29 : CreateEntity(name, bit29)
         \/ \E h \in issued : DestroyEntity(h)
         \/ /\ OnlyFlags
            /\ UNCHANGED <<id_of, name_of>>
            /\ layouts \subseteq layouts'
<1>1. \A a, nameA, b, L : layouts \subseteq L /\ MakePair(a, nameA, b, L) => layouts \subseteq layouts'
  BY DEF MakePair
<1>2. ASSUME NEW s, NEW h, CreatePairWithStatic(s, h)
      PROVE  UNCHANGED <<entityVars, id_of, name_of>> /\ layouts \subseteq layouts'
  BY <1>1, <1>2 DEF CreatePairWithStatic
<1>3. ASSUME NEW hA, NEW hB, CreatePairOfEntities(hA, hB)
      PROVE  UNCHANGED <<entityVars, id_of, name_of>> /\ layouts \subseteq layouts'
  BY <1>1, <1>3 DEF CreatePairOfEntities
<1>4. ASSUME NEW nameA, NEW nameB, CreatePairByName(nameA, nameB)
      PROVE  UNCHANGED <<entityVars, id_of, name_of>> /\ layouts \subseteq layouts'
  BY <1>1, <1>4 DEF CreatePairByName
<1>5. ASSUME NEW h \in issued, NEW coms, RecordAdd(h, coms)
      PROVE  OnlyFlags /\ UNCHANGED <<id_of, name_of>> /\ layouts \subseteq layouts'
  <2>1. layouts \subseteq Registering(coms)
    BY DEF Registering
  <2>2. QED
    BY <1>5, <2>1, HandleShape, ModifyFlags, SameFlags DEF RecordAdd, entityVars, StoreInv
<1>6. ASSUME NEW h \in issued, NEW coms, RecordRemove(h, coms)
      PROVE  OnlyFlags /\ UNCHANGED <<id_of, name_of, layouts>>
  BY <1>6, HandleShape, ModifyFlags, SameFlags DEF RecordRemove, entityVars, nameVars, StoreInv
<1>7. CASE Submit
  BY <1>7, SubmitFlags DEF Submit, nameVars, StoreInv
<1>8. CASE UNCHANGED collectionVars
  BY <1>8, SameFlags DEF collectionVars, nameVars, StoreInv
<1>9. QED
  BY <1>2, <1>3, <1>4, <1>5, <1>6, <1>7, <1>8, SameFlags DEF CollectionNext, StoreInv

(* Every call keeps the two maps of names inverse to each other.             *)
LEMMA NamesInvStep ==
  ASSUME StoreInv, NamesInv, [CollectionNext]_collectionVars
  PROVE  NamesInv'
BY OtherCalls, NamesCreate, NamesDestroy, NamesFrame DEF OnlyFlags

(* At the start there are no names.                                          *)
LEMMA NamesInvInit == CollectionInit => NamesInv
BY CollectionAssumption DEF CollectionInit, EntityInit, NamesInv, NewSlot

(* So they always are.                                                       *)
LEMMA NamesInvariant == CollectionSpec => [](StoreInv /\ NamesInv)
BY StoreInvInit, StoreInvStep, NamesInvInit, NamesInvStep, PTL DEF CollectionSpec

(* A name leads to the live entity that bears it, and back, through removals *)
(* and slots used again.                                                     *)
THEOREM NamesResolveCorrect == CollectionSpec => []NamesResolve
<1>1. StoreInv /\ NamesInv => NamesResolve
  BY CollectionAssumption DEF StoreInv, NamesInv, NamesResolve, LiveIndices
<1>2. QED
  BY <1>1, NamesInvariant, PTL

-----------------------------------------------------------------------------
(* Handles, in the collection as in the store alone.                         *)

LEMMA HandlesStep ==
  ASSUME NoWrap, StoreInv, HandleInv, [CollectionNext]_collectionVars
  PROVE  HandleInv'
<1>1. CASE OnlyFlags
  <2>1. \A h \in issued : h[1] \in Index
    BY HandleShape DEF StoreInv
  <2>2. removed \subseteq issued
    BY DEF StoreInv, EntityTypeOK
  <2>3. QED
    BY <1>1, <2>1, <2>2 DEF OnlyFlags, HandleInv
<1>2. QED
  BY <1>1, StoreStep, HandleInvNew, HandleInvRemove DEF StoreInv

(* So no handle given is ahead of its slot, while no version wraps.          *)
LEMMA HandlesInvariant ==
  NoWrap => (CollectionSpec => [](StoreInv /\ HandleInv))
<1> SUFFICES ASSUME NoWrap
             PROVE  CollectionSpec => [](StoreInv /\ HandleInv)
  OBVIOUS
<1>1. CollectionInit => HandleInv
  BY HandleInvInit DEF CollectionInit
<1>2. StoreInv /\ HandleInv /\ [CollectionNext]_collectionVars => HandleInv'
  BY HandlesStep
<1>3. QED
  BY <1>1, <1>2, StoreInvariant, PTL DEF CollectionSpec

(* No handle of a removed entity is valid again, whatever the collection     *)
(* does with its slot, while no version wraps.                               *)
THEOREM CollectionHandlesCorrect ==
  NoWrap => (CollectionSpec => []StaleHandleRejected)
<1> SUFFICES ASSUME NoWrap
             PROVE  CollectionSpec => []StaleHandleRejected
  OBVIOUS
<1>1. StoreInv /\ HandleInv => StaleHandleRejected
  <2> SUFFICES ASSUME EntityTypeOK, HandleInv, NEW h \in removed, IsAlive(h)
               PROVE  FALSE
    BY DEF StaleHandleRejected, StoreInv
  <2>1. h[2] \in Nat /\ h[2] = entity_datas[h[1]].version
    BY EntityVectorAssumption DEF EntityTypeOK, Handle, Version, IsAlive
  <2>2. QED
    BY <2>1 DEF HandleInv
<1>2. QED
  BY <1>1, HandlesInvariant, PTL

(* A command recorded, or refused, sets no more than flags.                  *)
LEMMA RecordFlags ==
  ASSUME StoreInv, NEW h \in issued, NEW coms,
         RecordAdd(h, coms) \/ RecordRemove(h, coms)
  PROVE  OnlyFlags
BY HandleShape, ModifyFlags, SameFlags DEF RecordAdd, RecordRemove, entityVars, StoreInv

-----------------------------------------------------------------------------
(* Pairs.  A half that is an entity was alive when the pair was made of it,  *)
(* so its handle was given; while it lives, its name does not change; and    *)
(* once it is gone, no version of its slot makes the handle valid again.     *)

HalfKept(half, made, name) ==
  IF half \in Index
  THEN /\ made \in issued /\ made[1] = half
       /\ IsAlive(made) => name = name_of[half]
  ELSE made = half /\ name = half

LiveIssued == \A i \in Index : entity_datas[i].alive => HandleOf(i) \in issued

PairsInv ==
  /\ LiveIssued
  /\ \A p \in DOMAIN pair_names : \A k \in 1 .. 2 :
       HalfKept(p[k], pair_names[p].made_of[k], pair_names[p].names[k])

(* A half keeps its name through a step that sets flags only.                *)
LEMMA HalfFlags ==
  ASSUME StoreInv, OnlyFlags, UNCHANGED name_of,
         NEW half, NEW made, NEW name, HalfKept(half, made, name)
  PROVE  HalfKept(half, made, name)'
<1>1. CASE half \in Index
  BY <1>1 DEF HalfKept, OnlyFlags, IsAlive
<1>2. CASE half \notin Index
  BY <1>2 DEF HalfKept
<1>3. QED
  BY <1>1, <1>2

(* Steps that touch no pair and no name.                                     *)
LEMMA PairsFrame ==
  ASSUME StoreInv, PairsInv, OnlyFlags, UNCHANGED <<pair_names, name_of>>
  PROVE  PairsInv'
<1>1. LiveIssued'
  BY DEF PairsInv, LiveIssued, OnlyFlags, HandleOf
<1>2. ASSUME NEW p \in DOMAIN pair_names, NEW k \in 1 .. 2
      PROVE  HalfKept(p[k], pair_names[p].made_of[k], pair_names[p].names[k])'
  <2> DEFINE made == pair_names[p].made_of[k]
             name == pair_names[p].names[k]
  <2>1. HalfKept(p[k], made, name)
    BY DEF PairsInv
  <2>2. pair_names' = pair_names
    OBVIOUS
  <2>3. ASSUME NEW x, NEW y, HalfKept(p[k], x, y)
        PROVE  HalfKept(p[k], x, y)'
    BY <2>3, HalfFlags
  <2>4. QED
    BY <2>1, <2>2, <2>3 DEF HalfKept, IsAlive
<1>3. QED
  BY <1>1, <1>2 DEF PairsInv

(* A pair gets the names of the entities and components it is made of.       *)
LEMMA MakePairInv ==
  ASSUME StoreInv, NamesInv, PairsInv, UNCHANGED entityVars, UNCHANGED name_of,
         NEW a, NEW nameA, NEW b \in LiveIndices, NEW L,
         IF a \in Index THEN a \in LiveIndices /\ nameA = name_of[a] ELSE nameA = a,
         MakePair(a, nameA, b, L)
  PROVE  PairsInv'
<1> DEFINE id == <<a, b>>
<1>0. OnlyFlags
  BY SameFlags DEF StoreInv
<1>1. CASE UNCHANGED pair_names
  BY <1>0, <1>1, PairsFrame
<1>2. CASE ~ UNCHANGED pair_names
  <2> DEFINE made == [names |-> <<nameA, name_of[b]>>,
                      made_of |-> <<Bearer(a), Bearer(b)>>]
  <2>1. pair_names' = [p \in DOMAIN pair_names \union {id} |->
                         IF p = id THEN made ELSE pair_names[p]]
    BY <1>2 DEF MakePair, PairId
  <2>2. LiveIssued' /\ LiveIssued
    BY <1>0 DEF PairsInv, LiveIssued, OnlyFlags, HandleOf
  <2>3. HalfKept(a, Bearer(a), nameA) /\ HalfKept(b, Bearer(b), name_of[b])
    BY <2>2 DEF HalfKept, Bearer, HandleOf, LiveIssued, LiveIndices
  <2>4. ASSUME NEW half, NEW x, NEW y, HalfKept(half, x, y)
        PROVE  HalfKept(half, x, y)'
    BY <1>0, <2>4, HalfFlags
  <2>5. id[1] = a /\ id[2] = b /\ made.names[1] = nameA /\ made.names[2] = name_of[b]
        /\ made.made_of[1] = Bearer(a) /\ made.made_of[2] = Bearer(b)
    OBVIOUS
  <2> HIDE DEF id, made
  <2>6. ASSUME NEW p \in DOMAIN pair_names', NEW k \in 1 .. 2
        PROVE  HalfKept(p[k], pair_names'[p].made_of[k], pair_names'[p].names[k])
    <3>1. CASE p = id
      <4>1. pair_names'[p] = made
        BY <2>1, <3>1
      <4>2. k = 1 \/ k = 2
        OBVIOUS
      <4>3. QED
        BY <2>3, <2>5, <3>1, <4>1, <4>2
    <3>2. CASE p # id
      BY <2>1, <3>2 DEF PairsInv
    <3>3. QED
      BY <3>1, <3>2
  <2>7. \A p \in DOMAIN pair_names' : \A k \in 1 .. 2 :
          HalfKept(p[k], pair_names[p].made_of[k], pair_names[p].names[k])'
    BY <2>6 DEF HalfKept, IsAlive, entityVars
  <2>8. QED
    BY <2>2, <2>7 DEF PairsInv
<1>3. QED
  BY <1>1, <1>2

(* The calls that make pairs make them of components and live entities.      *)
LEMMA PairCallsInv ==
  ASSUME StoreInv, NamesInv, PairsInv,
         \/ \E s \in Static, h \in issued : CreatePairWithStatic(s, h)
         \/ \E hA, hB \in issued : CreatePairOfEntities(hA, hB)
         \/ \E nameA, nameB \in Names \union Static : CreatePairByName(nameA, nameB)
  PROVE  PairsInv'
<1> USE CollectionAssumption
<1>0. \A h \in issued : IsAlive(h) => h[1] \in LiveIndices
  BY HandleShape DEF StoreInv, IsAlive, LiveIndices
<1>1. ASSUME NEW s \in Static, NEW h \in issued, CreatePairWithStatic(s, h)
      PROVE  PairsInv'
  <2>1. h[1] \in LiveIndices /\ s \notin Index
    BY <1>0, <1>1 DEF CreatePairWithStatic
  <2>2. /\ MakePair(s, s, h[1], layouts \union Entered(StaticId(s)))
        /\ UNCHANGED entityVars /\ UNCHANGED name_of
    BY <1>1 DEF CreatePairWithStatic
  <2>3. QED
    BY <2>1, <2>2, MakePairInv
<1>2. ASSUME NEW hA \in issued, NEW hB \in issued, CreatePairOfEntities(hA, hB)
      PROVE  PairsInv'
  <2>1. UNCHANGED entityVars /\ UNCHANGED name_of
    BY <1>2 DEF CreatePairOfEntities
  <2>2. CASE UNCHANGED pair_names
    BY <2>1, <2>2, PairsFrame, SameFlags DEF StoreInv
  <2>3. CASE ~ UNCHANGED pair_names
    <3>1. /\ hA[1] \in LiveIndices /\ hB[1] \in LiveIndices
          /\ MakePair(hA[1], name_of[hA[1]], hB[1], layouts)
      BY <1>0, <1>2, <2>3 DEF CreatePairOfEntities
    <3>2. hA[1] \in Index
      BY <3>1 DEF LiveIndices
    <3>3. QED
      BY <2>1, <3>1, <3>2, MakePairInv
  <2>4. QED
    BY <2>2, <2>3
<1>3. ASSUME NEW nameA \in Names \union Static, NEW nameB \in Names \union Static,
             CreatePairByName(nameA, nameB)
      PROVE  PairsInv'
  <2> DEFINE L == layouts \union {StaticId(s) : s \in Static \intersect {nameA, nameB}}
             half(name) == IF name \in Static THEN name ELSE id_of[name]
             found == /\ nameB \in Names
                      /\ \A name \in {nameA, nameB} \intersect Names :
                           id_of[name] # Vacant /\ id_of[name] \in LiveIndices
  <2>1. UNCHANGED entityVars /\ UNCHANGED name_of
    BY <1>3 DEF CreatePairByName
  <2>2. CASE ~ found
    <3>1. UNCHANGED pair_names
      BY <1>3, <2>2 DEF CreatePairByName
    <3>2. QED
      BY <2>1, <3>1, PairsFrame, SameFlags DEF StoreInv
  <2>3. CASE found
    <3>1. MakePair(half(nameA), nameA, half(nameB), L)
      BY <1>3, <2>3 DEF CreatePairByName
    <3>2. \A name \in {nameA, nameB} \intersect Names :
            /\ name \notin Static
            /\ id_of[name] \in LiveIndices
            /\ name_of[id_of[name]] = name
      BY <2>3 DEF NamesInv
    <3>3. /\ half(nameB) \in LiveIndices
          /\ IF half(nameA) \in Index
             THEN half(nameA) \in LiveIndices /\ nameA = name_of[half(nameA)]
             ELSE nameA = half(nameA)
      <4>1. half(nameB) \in LiveIndices
        BY <2>3, <3>2
      <4>2. CASE nameA \in Static
        BY <4>1, <4>2
      <4>3. CASE nameA \notin Static
        BY <3>2, <4>1, <4>3 DEF LiveIndices
      <4>4. QED
        BY <4>2, <4>3
    <3> HIDE DEF half, L
    <3>4. QED
      BY <2>1, <3>1, <3>3, MakePairInv
  <2>4. QED
    BY <2>2, <2>3
<1>4. QED
  BY <1>1, <1>2, <1>3

(* An entity created is none that a pair was made of: the handles given of   *)
(* its slot are of lower versions.                                           *)
LEMMA PairsCreate ==
  ASSUME HandleInv, StoreInv, NamesInv, PairsInv,
         NEW given \in Names \union {NoName}, NEW bit29 \in Bit29,
         CreateEntity(given, bit29)
  PROVE  PairsInv'
<1> DEFINE i == NextIndex
<1>1. NewEntity(NameGiven(given) # NoName, bit29)
  BY DEF CreateEntity
<1>2. /\ i \in Index /\ ~ entity_datas[i].alive
      /\ \A j \in Index : j # i => entity_datas'[j] = entity_datas[j]
      /\ entity_datas'[i].version = entity_datas[i].version
      /\ entity_datas'[i].alive => HandleOf(i) \in issued'
      /\ issued \subseteq issued'
  <2>1. /\ i \in Index /\ ~ entity_datas[i].alive
        /\ \A j \in Index : j # i => entity_datas'[j] = entity_datas[j]
    BY <1>1, LiveNew
  <2>2. CASE WithinLimit(i)
    <3>1. /\ entity_datas'[i] = [version |-> entity_datas[i].version, alive |-> TRUE,
                                 named |-> (NameGiven(given) # NoName), dirty |-> bit29]
          /\ issued' = issued \union {HandleOf(i)}
      BY <1>1, <2>2, LiveNew DEF NewEntity
    <3>2. QED
      BY <2>1, <3>1
  <2>3. CASE ~ WithinLimit(i)
    BY <1>1, <2>1, <2>3 DEF NewEntity
  <2>4. QED
    BY <2>2, <2>3
<1>3. /\ pair_names' = pair_names
      /\ \A j \in Index : j # i => name_of'[j] = name_of[j]
  BY <1>2 DEF CreateEntity, nameVars, NamesInv
<1>4. LiveIssued'
  BY <1>2 DEF LiveIssued, PairsInv, HandleOf
<1> HIDE DEF i
<1>5. ASSUME NEW half, NEW made, NEW name, HalfKept(half, made, name)
      PROVE  HalfKept(half, made, name)'
  <2>1. CASE half \notin Index
    BY <1>5, <2>1 DEF HalfKept
  <2>2. CASE half = i
    <3>1. made \in issued /\ made[1] = i /\ made[2] < entity_datas[i].version
      BY <1>2, <1>5, <2>2 DEF HalfKept, HandleInv
    <3>2. made[2] \in Nat /\ entity_datas[i].version \in Nat
      BY <1>2, <3>1, EntityVectorAssumption DEF StoreInv, EntityTypeOK, Handle, Version
    <3>3. entity_datas'[made[1]].version # made[2]
      BY <1>2, <3>1, <3>2
    <3>4. QED
      BY <1>2, <2>2, <3>1, <3>3 DEF HalfKept, IsAlive
  <2>3. CASE half \in Index /\ half # i
    <3>1. made \in issued /\ made[1] = half
      BY <1>5, <2>3 DEF HalfKept
    <3>2. IsAlive(made)' => IsAlive(made)
      BY <1>2, <2>3, <3>1 DEF IsAlive, StoreInv
    <3>3. QED
      BY <1>2, <1>3, <1>5, <2>3, <3>1, <3>2 DEF HalfKept
  <2>4. QED
    BY <2>1, <2>2, <2>3
<1>6. ASSUME NEW p \in DOMAIN pair_names, NEW k \in 1 .. 2
      PROVE  HalfKept(p[k], pair_names[p].made_of[k], pair_names[p].names[k])'
  <2>1. PICK made, name : /\ made = pair_names[p].made_of[k]
                          /\ name = pair_names[p].names[k]
    OBVIOUS
  <2>2. HalfKept(p[k], made, name)
    BY <2>1 DEF PairsInv
  <2>3. HalfKept(p[k], made, name)'
    BY <1>5, <2>2
  <2>4. QED
    BY <1>3, <2>1, <2>3 DEF HalfKept, IsAlive
<1>7. QED
  BY <1>3, <1>4, <1>6 DEF PairsInv

(* An entity removed leaves the names of the other entities as they are.     *)
LEMMA PairsDestroy ==
  ASSUME StoreInv, NamesInv, PairsInv, NEW h \in issued, DestroyEntity(h)
  PROVE  PairsInv'
<1> DEFINE i == h[1]
<1>1. /\ pair_names' = pair_names /\ issued' = issued /\ i \in Index /\ size' = size
      /\ \A j \in Index : j # i => entity_datas'[j] = entity_datas[j]
      /\ IF IsAlive(h) THEN ~ entity_datas'[i].alive ELSE entity_datas' = entity_datas
  BY LiveRemove DEF DestroyEntity, RemoveEntity, entityVars
<1>2. \A j \in Index : j # i \/ ~ IsAlive(h) => name_of'[j] = name_of[j]
  BY <1>1 DEF DestroyEntity, ForgetName, NamesInv
<1>3. LiveIssued'
  BY <1>1 DEF LiveIssued, PairsInv, HandleOf
<1> HIDE DEF i
<1>4. ASSUME NEW half, NEW made, NEW name, HalfKept(half, made, name)
      PROVE  HalfKept(half, made, name)'
  <2>1. CASE half \notin Index
    BY <1>4, <2>1 DEF HalfKept
  <2>2. CASE half = i /\ IsAlive(h)
    BY <1>1, <1>4, <2>2 DEF HalfKept, IsAlive
  <2>3. CASE half \in Index /\ (half # i \/ ~ IsAlive(h))
    <3>1. entity_datas'[half] = entity_datas[half] /\ name_of'[half] = name_of[half]
      BY <1>1, <1>2, <2>3
    <3>2. QED
      BY <1>1, <1>4, <2>3, <3>1 DEF HalfKept, IsAlive
  <2>4. QED
    BY <2>1, <2>2, <2>3
<1>5. ASSUME NEW p \in DOMAIN pair_names, NEW k \in 1 .. 2
      PROVE  HalfKept(p[k], pair_names[p].made_of[k], pair_names[p].names[k])'
  <2>1. HalfKept(p[k], pair_names[p].made_of[k], pair_names[p].names[k])
    BY DEF PairsInv
  <2>2. QED
    BY <1>1, <1>4, <2>1 DEF HalfKept, IsAlive
<1>6. QED
  BY <1>1, <1>3, <1>5 DEF PairsInv

(* Every call keeps the names of the pairs.                                  *)
LEMMA PairsInvStep ==
  ASSUME HandleInv, StoreInv, NamesInv, PairsInv, [CollectionNext]_collectionVars
  PROVE  PairsInv'
<1>1. ASSUME NEW h \in issued, NEW coms, RecordAdd(h, coms)
      PROVE  PairsInv'
  BY <1>1, RecordFlags, PairsFrame DEF RecordAdd
<1>2. ASSUME NEW h \in issued, NEW coms, RecordRemove(h, coms)
      PROVE  PairsInv'
  BY <1>2, RecordFlags, PairsFrame DEF RecordRemove, nameVars
<1>3. CASE Submit
  BY <1>3, SubmitFlags, PairsFrame DEF Submit, nameVars, StoreInv
<1>4. CASE UNCHANGED collectionVars
  BY <1>4, SameFlags, PairsFrame DEF collectionVars, nameVars, StoreInv
<1>5. QED
  BY <1>1, <1>2, <1>3, <1>4, PairsCreate, PairsDestroy, PairCallsInv DEF CollectionNext

(* At the start there are no dynamic pairs.                                  *)
LEMMA PairsInvInit == CollectionInit => PairsInv
BY DEF CollectionInit, EntityInit, PairsInv, LiveIssued, NewSlot

(* A pair has the names of the entities it was made of as long as they live, *)
(* whatever is removed and whoever gets their slots and names, while no      *)
(* version wraps: the pair of a reused slot is of its former entity, whose   *)
(* handle is never valid again.                                              *)
THEOREM PairNamesKeptCorrect ==
  NoWrap => (CollectionSpec => []PairNamesKept)
<1> SUFFICES ASSUME NoWrap
             PROVE  CollectionSpec => []PairNamesKept
  OBVIOUS
<1>1. HandleInv /\ StoreInv /\ NamesInv /\ PairsInv /\ [CollectionNext]_collectionVars => PairsInv'
  BY PairsInvStep
<1>2. PairsInv => PairNamesKept
  BY DEF PairsInv, PairNamesKept, HalfKept
<1>3. QED
  BY <1>1, <1>2, NamesInvariant, HandlesInvariant, PairsInvInit, PTL DEF CollectionSpec

-----------------------------------------------------------------------------
(* The queue.  A slot is queued when it has commands or its flag is set,     *)
(* alive or not: removal clears the flag and leaves the rest.                *)

QueueInv ==
  /\ dirty_entities \in Seq(Index)
  /\ DOMAIN record = Index
  /\ \A i \in Index :
       record[i] # <<>> \/ entity_datas[i].dirty => i \in Recorded(dirty_entities)

(* Steps that leave the commands alone and make nobody dirty.                *)
LEMMA QueueFrame ==
  ASSUME QueueInv, UNCHANGED <<record, dirty_entities>>,
         \A i \in Index : entity_datas'[i].dirty => entity_datas[i].dirty
  PROVE  QueueInv'
BY DEF QueueInv, Recorded

(* An entity with commands is queued, and one that is dirty is already.      *)
LEMMA ModifyQueue ==
  ASSUME EntityTypeOK, QueueInv, NEW i \in Index, NEW type, NEW coms,
         Modify(i, type, coms)
  PROVE  QueueInv'
<1> DEFINE commands == AllRecorded(i, type, coms)
<1>1. record' = [record EXCEPT ![i] = commands]
  BY DEF Modify
<1> HIDE DEF commands
<1>2. DOMAIN record' = Index /\ \A j \in Index : j # i => record'[j] = record[j]
  BY <1>1 DEF QueueInv
<1>3. CASE entity_datas[i].dirty
  <2>1. UNCHANGED <<entity_datas, dirty_entities>>
    BY <1>3 DEF Modify
  <2>2. QED
    BY <1>2, <1>3, <2>1 DEF QueueInv, Recorded
<1>4. CASE ~ entity_datas[i].dirty
  <2>1. /\ dirty_entities' = Append(dirty_entities, i)
        /\ entity_datas' = [entity_datas EXCEPT ![i].dirty = TRUE]
    BY <1>4 DEF Modify
  <2>2. \A j \in Index : j # i => entity_datas'[j] = entity_datas[j]
    BY <2>1 DEF EntityTypeOK
  <2>3. /\ Len(dirty_entities) \in Nat
        /\ DOMAIN dirty_entities = 1 .. Len(dirty_entities)
        /\ dirty_entities' \in Seq(Index)
        /\ DOMAIN dirty_entities' = 1 .. Len(dirty_entities) + 1
        /\ \A k \in 1 .. Len(dirty_entities) : dirty_entities'[k] = dirty_entities[k]
        /\ dirty_entities'[Len(dirty_entities) + 1] = i
    BY <2>1, AppendProperties, LenProperties DEF QueueInv
  <2>4. Recorded(dirty_entities)' = Recorded(dirty_entities) \union {i}
    BY <2>3 DEF Recorded
  <2>5. QED
    BY <1>2, <2>2, <2>3, <2>4 DEF QueueInv
<1>5. QED
  BY <1>3, <1>4

(* A submit leaves no commands and an empty queue.                           *)
LEMMA SubmitQueue ==
  ASSUME QueueInv, Submit
  PROVE  QueueInv'
<1>1. /\ record' = Emptied /\ dirty_entities' = <<>>
      /\ entity_datas' = [i \in Index |->
            [entity_datas[i] EXCEPT !.dirty = DirtyAfterSubmit(i)]]
  BY DEF Submit
<1>2. ASSUME NEW i \in Index
      PROVE  record'[i] = <<>> /\ ~ entity_datas'[i].dirty
  <2> DEFINE flag == DirtyAfterSubmit(i)
  <2>1. ~ flag
    BY DEF DirtyAfterSubmit, QueueInv
  <2>2. entity_datas'[i] = [entity_datas[i] EXCEPT !.dirty = flag]
    BY <1>1
  <2>3. record'[i] = <<>>
    BY <1>1 DEF Emptied, QueueInv
  <2> HIDE DEF flag
  <2>4. QED
    BY <2>1, <2>2, <2>3
<1>3. dirty_entities' \in Seq(Index) /\ DOMAIN record' = Index
  BY <1>1, EmptySeq DEF Emptied
<1>4. QED
  BY <1>2, <1>3 DEF QueueInv

(* Every call keeps what is pending queued.                                  *)
LEMMA QueueInvStep ==
  ASSUME Bit29 \subseteq {FALSE}, StoreInv, QueueInv, [CollectionNext]_collectionVars
  PROVE  QueueInv'
<1>1. ASSUME NEW name \in Names \union {NoName}, NEW bit29 \in Bit29,
             CreateEntity(name, bit29)
      PROVE  QueueInv'
  <2> DEFINE named == NameGiven(name) # NoName
  <2>1. NewEntity(named, bit29) /\ named \in BOOLEAN /\ bit29 = FALSE
    BY <1>1 DEF CreateEntity
  <2> HIDE DEF named
  <2>2. ASSUME NEW i \in Index, entity_datas'[i].dirty
        PROVE  entity_datas[i].dirty
    <3>1. CASE i = NextIndex /\ WithinLimit(i)
      <4>1. entity_datas'[i] = [version |-> entity_datas[i].version, alive |-> TRUE,
                                named |-> named, dirty |-> FALSE]
        BY <2>1, <3>1, LiveNew
      <4>2. QED
        BY <2>2, <4>1
    <3>2. CASE i # NextIndex
      BY <2>1, <2>2, <3>2, LiveNew
    <3>3. CASE ~ WithinLimit(NextIndex)
      BY <2>1, <2>2, <3>3, LiveNew
    <3>4. QED
      BY <3>1, <3>2, <3>3
  <2>3. UNCHANGED <<record, dirty_entities>>
    BY <1>1 DEF CreateEntity
  <2>4. QED
    BY <2>2, <2>3, QueueFrame
<1>2. ASSUME NEW h \in issued, DestroyEntity(h)
      PROVE  QueueInv'
  <2>1. RemoveEntity(h) /\ UNCHANGED <<record, dirty_entities>>
    BY <1>2 DEF DestroyEntity, tableVars
  <2>2. \A i \in Index : entity_datas'[i].dirty => entity_datas[i].dirty
    BY <2>1, LiveRemove
  <2>3. QED
    BY <2>1, <2>2, QueueFrame
<1>3. ASSUME NEW s, NEW h, CreatePairWithStatic(s, h)
      PROVE  UNCHANGED <<entity_datas, record, dirty_entities>>
  BY <1>3 DEF CreatePairWithStatic, entityVars, tableVars
<1>4. ASSUME NEW hA, NEW hB, CreatePairOfEntities(hA, hB)
      PROVE  UNCHANGED <<entity_datas, record, dirty_entities>>
  BY <1>4 DEF CreatePairOfEntities, entityVars, tableVars
<1>5. ASSUME NEW nameA, NEW nameB, CreatePairByName(nameA, nameB)
      PROVE  UNCHANGED <<entity_datas, record, dirty_entities>>
  BY <1>5 DEF CreatePairByName, entityVars, tableVars
<1>6. ASSUME NEW h \in issued, NEW coms, RecordAdd(h, coms)
      PROVE  QueueInv'
  BY <1>6, HandleShape, ModifyQueue, QueueFrame DEF RecordAdd, StoreInv
<1>7. ASSUME NEW h \in issued, NEW coms, RecordRemove(h, coms)
      PROVE  QueueInv'
  BY <1>7, HandleShape, ModifyQueue, QueueFrame DEF RecordRemove, StoreInv
<1>8. CASE UNCHANGED collectionVars
  BY <1>8, QueueFrame DEF collectionVars, entityVars, tableVars
<1>9. QED
  BY <1>1, <1>2, <1>3, <1>4, <1>5, <1>6, <1>7, <1>8, QueueFrame, SubmitQueue
  DEF CollectionNext

(* At the start nothing is pending.                                          *)
LEMMA QueueInvInit == CollectionInit => QueueInv
BY EmptySeq DEF CollectionInit, EntityInit, QueueInv, NewSlot

(* A live entity with pending commands is queued for the next submit, as     *)
(* long as no caller sets the bit of the flag that says so.                  *)
THEOREM NoCommandStrandedCorrect ==
  Bit29 \subseteq {FALSE} => (CollectionSpec => []NoCommandStranded)
<1> SUFFICES ASSUME Bit29 \subseteq {FALSE}
             PROVE  CollectionSpec => []NoCommandStranded
  OBVIOUS
<1>1. StoreInv /\ QueueInv /\ [CollectionNext]_collectionVars => QueueInv'
  BY QueueInvStep
<1>2. QueueInv => NoCommandStranded
  BY DEF QueueInv, NoCommandStranded, LiveIndices
<1>3. QED
  BY <1>1, <1>2, StoreInvariant, QueueInvInit, PTL DEF CollectionSpec
===============================================================================
