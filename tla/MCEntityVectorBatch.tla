------------------------ MODULE MCEntityVectorBatch ------------------------
(* Model-checking instance of EntityVectorBatch: batches of one or two      *)
(* entities on a store with room for a few of them.                         *)
EXTENDS EntityVectorBatch
=============================================================================
