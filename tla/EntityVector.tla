---------------------------- MODULE EntityVector ----------------------------
(***************************************************************************)
(* The generational entity store of the archetype ECS: class EntityVector  *)
(* of DensifySystem/Collection.hpp.  An entity is a slot of _entity_datas  *)
(* plus a version; a handle is valid while the slot is alive and carries   *)
(* the handle's version.  Removing an entity bumps the version and pushes  *)
(* the slot on a LIFO free list, from which the next creation pops it.     *)
(*                                                                         *)
(* This module has the operations that Collection performs on one entity   *)
(* at a time; EntityVectorBatch adds the bulk operations.                  *)
(***************************************************************************)
EXTENDS Naturals, Sequences

CONSTANTS
  EntityLimitCount,  \* EntityVector::EntityLimitCount
  VersionModulus,    \* 2^32 in the code: a version is a uint32_t
  MaxVersion,        \* bound: no slot is removed at a version above this one
  MaxSize,           \* bound: the store never grows beyond this many slots
  Bit29              \* values bit 29 takes in the callers' flag argument

ASSUME EntityVectorAssumption ==
  /\ EntityLimitCount \in Nat
  /\ VersionModulus \in Nat \ {0}
  /\ MaxVersion \in Nat
  /\ MaxSize \in Nat \ {0}
  /\ Bit29 \subseteq BOOLEAN

VARIABLES
  free_index,    \* _free_index
  entity_datas,  \* _entity_datas: version and the three system bits of _flag
  size,          \* _size
  issued,        \* history: every handle a creation returned
  removed        \* history: every handle a removal accepted

entityVars == <<free_index, entity_datas, size, issued, removed>>

Index == 0 .. MaxSize - 1
Version == 0 .. VersionModulus - 1
Handle == Index \X Version

\* A slot resize() has just appended: version 0, every flag bit clear.
NewSlot == [version |-> 0, alive |-> FALSE, named |-> FALSE, dirty |-> FALSE]

-----------------------------------------------------------------------------
\* get_entity_if_alive: in range, same version, bit 31 set.
IsAlive(h) ==
  /\ h[1] < size
  /\ entity_datas[h[1]].version = h[2]
  /\ entity_datas[h[1]].alive

LiveIndices == {i \in Index : i < size /\ entity_datas[i].alive}

HandleOf(i) == <<i, entity_datas[i].version>>

LastOf(s) == s[Len(s)]
ButLast(s) == [k \in 1 .. Len(s) - 1 |-> s[k]]

\* The slot the next creation takes: the last one freed, else a new one.
NextIndex == IF free_index # <<>> THEN LastOf(free_index) ELSE size

\* "index > EntityLimitCount" is refused.
WithinLimit(i) == i <= EntityLimitCount

\* Mutant: a recycled slot keeps the version of the entity it held.
NextVersionStuck(v) == v
\* ref._version++ on a uint32_t
NextVersion(v) == IF v + 1 = VersionModulus THEN 0 ELSE v + 1

\* Mutant: creation reads the free list without popping it.
TakenKeepsSlot == free_index
\* The free list after a creation: pop_back, or nothing to pop.
Taken == IF free_index # <<>> THEN ButLast(free_index) ELSE free_index

Grown == IF free_index # <<>> THEN size ELSE size + 1

\* Mutant: removal forgets to recycle the slot.
FreedDropped(i) == free_index
Freed(i) == Append(free_index, i)

\* The slot after its entity is removed: next version, flag = 0.
Cleared(d) == [NewSlot EXCEPT !.version = NextVersion(d.version)]

-----------------------------------------------------------------------------
EntityInit ==
  /\ free_index = <<>>
  /\ entity_datas = [i \in Index |-> NewSlot]
  /\ size = 0
  /\ issued = {}
  /\ removed = {}

\* new_entity.  The flag is overwritten by the alive bit, the named bit and
\* flag & 0x3FFFFFFF, a mask that lets the caller's bit 29 through.
NewEntity(named, bit29) ==
  LET i == NextIndex
  IN  /\ free_index # <<>> \/ size < MaxSize
      /\ free_index' = Taken
      /\ size' = Grown
      /\ IF WithinLimit(i)
         THEN /\ entity_datas' = [entity_datas EXCEPT ![i] =
                   [version |-> entity_datas[i].version, alive |-> TRUE,
                    named |-> named, dirty |-> bit29]]
              /\ issued' = issued \union {HandleOf(i)}
         ELSE UNCHANGED <<entity_datas, issued>>
      /\ UNCHANGED removed

\* remove_entity, called with any handle the program ever got: it refuses a
\* handle that is not valid and returns false.
RemoveEntity(h) ==
  \/ /\ IsAlive(h)
     /\ h[2] <= MaxVersion
     /\ entity_datas' = [entity_datas EXCEPT ![h[1]] = Cleared(@)]
     /\ free_index' = Freed(h[1])
     /\ removed' = removed \union {h}
     /\ UNCHANGED <<size, issued>>
  \/ /\ ~ IsAlive(h)
     /\ UNCHANGED entityVars

EntityNext ==
  \/ \E named \in BOOLEAN, bit29 \in Bit29 : NewEntity(named, bit29)
  \/ \E h \in issued : RemoveEntity(h)

EntitySpec == EntityInit /\ [][EntityNext]_entityVars
-----------------------------------------------------------------------------
\* Types of the store.
EntityTypeOK ==
  /\ free_index \in Seq(Index)
  /\ entity_datas \in [Index -> [version : Version, alive : BOOLEAN,
                                named : BOOLEAN, dirty : BOOLEAN]]
  /\ size \in 0 .. MaxSize
  /\ issued \subseteq Handle
  /\ removed \subseteq issued

FreeSlots == {free_index[k] : k \in DOMAIN free_index}

\* The free list holds distinct slots, all created and all dead: a slot on it
\* twice, or alive on it, would be given to two entities at once.
FreeListSound ==
  /\ \A k \in DOMAIN free_index :
        /\ free_index[k] < size
        /\ ~ entity_datas[free_index[k]].alive
  /\ \A k, l \in DOMAIN free_index : free_index[k] = free_index[l] => k = l

\* No slot is lost: one that is neither alive nor free was refused by the
\* entity limit, and no create/remove sequence consumes memory otherwise.
NoSlotLost ==
  \A i \in Index : i < size =>
    \/ entity_datas[i].alive
    \/ i \in FreeSlots
    \/ i > EntityLimitCount

\* A handle whose entity was removed never becomes valid again, however often
\* its slot is recycled: is_entity_alived answers false for it forever.
StaleHandleRejected == \A h \in removed : ~ IsAlive(h)

\* A slot that comes alive does so under a handle no caller holds yet, so no
\* two entities ever share a handle.
FreshHandle ==
  [][\A i \in Index :
        ~ entity_datas[i].alive /\ entity_datas'[i].alive
          => <<i, entity_datas'[i].version>> \notin issued]_entityVars
=============================================================================
