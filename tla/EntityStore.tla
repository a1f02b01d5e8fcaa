---------------------------- MODULE EntityStore ----------------------------
(***************************************************************************)
(* What a Collection promises the program that owns it, without            *)
(* archetypes, rows, dirty lists or command records: a live entity has a   *)
(* set of components; a recorded command changes what the entity will      *)
(* have, the last command on a component winning; a submit makes it so.    *)
(* Collection is shown to implement this specification.                    *)
(***************************************************************************)
CONSTANTS
  StoreHandle,     \* the entity handles
  StoreComponent   \* the component ids

VARIABLES
  has,     \* live handle -> the components the entity has
  wanted   \* live handle -> the components it will have after a submit

storeVars == <<has, wanted>>

Live == DOMAIN has

StoreInit ==
  /\ has = [h \in {} |-> {}]
  /\ wanted = [h \in {} |-> {}]

\* A new entity has no components, whatever its slot held before.
Create(h) ==
  /\ h \notin Live
  /\ has' = [k \in Live \union {h} |-> IF k = h THEN {} ELSE has[k]]
  /\ wanted' = [k \in Live \union {h} |-> IF k = h THEN {} ELSE wanted[k]]

Destroy(h) ==
  /\ h \in Live
  /\ has' = [k \in Live \ {h} |-> has[k]]
  /\ wanted' = [k \in Live \ {h} |-> wanted[k]]

Record(h, coms) ==
  /\ h \in Live
  /\ wanted' = [wanted EXCEPT ![h] = coms]
  /\ UNCHANGED has

\* A call touches one entity and the components it names, all the same way.
Ask(h, coms) ==
  \/ Record(h, wanted[h] \union coms)
  \/ Record(h, wanted[h] \ coms)

Apply ==
  /\ has' = wanted
  /\ UNCHANGED wanted

StoreNext ==
  \/ \E h \in StoreHandle : Create(h) \/ Destroy(h)
  \/ \E h \in Live, coms \in SUBSET StoreComponent : Ask(h, coms)
  \/ Apply

StoreSpec == StoreInit /\ [][StoreNext]_storeVars
=============================================================================
