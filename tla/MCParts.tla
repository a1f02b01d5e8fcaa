------------------------------- MODULE MCParts -------------------------------
(***************************************************************************)
(* The parts a collection is made of, each by itself: the entity store,    *)
(* small enough for a slot to be recycled several times; the graph of      *)
(* archetypes over three components, so that the eight component lists are *)
(* reached along different walks; and the vector its columns are, with the *)
(* other vector of the engine.  None knows of another, so that a behaviour *)
(* uses one of them.                                                       *)
(***************************************************************************)
EXTENDS EntityVector, ArchetypeGraph, ChunkVector, BlockVector, TLC

\* Component ids are interchangeable.
Symmetry == Permutations(Components)

PartsInit == EntityInit /\ GraphInit /\ ChunkInit /\ BlockInit

PartsNext ==
  \/ /\ GraphInit /\ ChunkInit /\ BlockInit
     /\ EntityNext
     /\ UNCHANGED <<graph, chunkVars, blockVars>>
  \/ /\ EntityInit /\ ChunkInit /\ BlockInit
     /\ GraphNext
     /\ UNCHANGED <<entityVars, chunkVars, blockVars>>
  \/ /\ EntityInit /\ GraphInit /\ BlockInit
     /\ ChunkNext
     /\ UNCHANGED <<entityVars, graph, blockVars>>
  \/ /\ EntityInit /\ GraphInit /\ ChunkInit
     /\ BlockNext
     /\ UNCHANGED <<entityVars, graph, chunkVars>>

PartsSpec == PartsInit /\ [][PartsNext]_<<entityVars, graph, chunkVars, blockVars>>
=============================================================================
