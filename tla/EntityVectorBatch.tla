-------------------------- MODULE EntityVectorBatch --------------------------
(***************************************************************************)
(* The bulk creation of EntityVector, new_entities, which Collection's     *)
(* commnad_create_entities calls.  It indexes _entity_datas with the loop  *)
(* counter instead of the slot it is about and advances _size twice, so    *)
(* the store can claim slots it never allocated.  data_len, the length of  *)
(* _entity_datas, is therefore a variable of its own here.                 *)
(*                                                                         *)
(* A behaviour is followed up to its first access beyond data_len, which   *)
(* is undefined: the guards below keep every access within the vector.     *)
(***************************************************************************)
EXTENDS EntityVector

CONSTANTS
  BatchCounts,  \* bound: the sizes of the batches callers ask for
  Garbage       \* values the uninitialised new_count_required may hold

VARIABLE data_len   \* _entity_datas.size()

batchVars == <<free_index, entity_datas, size, issued, removed, data_len>>

\* fetch_next_idx_vec_for_new_entities serves the whole batch from the free
\* list; its caller's new_count_required is then never written.
ServedByFreeList(count) == free_index # <<>> /\ count <= Len(free_index)

\* The slots of a batch: the tail of the free list, or all of it followed by
\* new slots.
FetchedSlots(count) ==
  IF ServedByFreeList(count)
  THEN SubSeq(free_index, Len(free_index) - count + 1, Len(free_index))
  ELSE free_index \o [k \in 1 .. count - Len(free_index) |-> size + k - 1]

BatchInit == EntityInit /\ data_len = 0

\* try_adjust_space(1) runs when the free list is empty.
BatchNewEntity(named, bit29) ==
  /\ NewEntity(named, bit29)
  /\ data_len' = IF free_index # <<>> THEN data_len ELSE data_len + 1
  /\ NextIndex < data_len'

\* new_entities: slots come from the fetch, flags and versions from the
\* first count elements of the vector.
NewEntities(count, bit29, garbage) ==
  LET served  == ServedByFreeList(count)
      fresh   == IF served THEN garbage ELSE count - Len(free_index)
      slots   == FetchedSlots(count)
      fetched == IF served THEN size ELSE size + fresh
  IN  /\ size' = fetched + fresh
      /\ size' <= MaxSize
      /\ data_len' = data_len + fresh
      /\ count <= data_len'
      /\ free_index' = IF served
                       THEN SubSeq(free_index, 1, Len(free_index) - count)
                       ELSE <<>>
      /\ entity_datas' = [i \in Index |->
           IF i < count
           THEN [version |-> entity_datas[i].version, alive |-> TRUE,
                 named |-> FALSE, dirty |-> bit29]
           ELSE entity_datas[i]]
      /\ issued' = issued \union
           {<<slots[k], entity_datas[k - 1].version>> : k \in 1 .. count}
      /\ UNCHANGED removed

BatchRemoveEntity(h) ==
  /\ h[1] < data_len
  /\ RemoveEntity(h)
  /\ UNCHANGED data_len

BatchNext ==
  \/ \E named \in BOOLEAN, bit29 \in Bit29 : BatchNewEntity(named, bit29)
  \/ \E count \in BatchCounts, bit29 \in Bit29, garbage \in Garbage :
       NewEntities(count, bit29, garbage)
  \/ \E h \in issued : BatchRemoveEntity(h)

BatchSpec == BatchInit /\ [][BatchNext]_batchVars

-----------------------------------------------------------------------------
\* Every handle a creation returns, alone or in a batch, names a live entity:
\* the callers go on to record components on all of them.
CreatedAlive == [][\A h \in issued' \ issued : IsAlive(h)']_batchVars

=============================================================================
