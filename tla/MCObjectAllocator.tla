--------------------------- MODULE MCObjectAllocator --------------------------
(* ObjectAllocator with two threads, two types and two blocks.              *)
EXTENDS ObjectAllocator

CONSTANTS t1, t2, T1, T2

MCThread == {t1, t2}
MCType == {T1, T2}
MCAddress == {1, 2}

\* One setup of those that differ by the names of threads and types only: two
\* threads that make objects of one type, of a type each, or of both; and one
\* that calls alone.
MCInit ==
  /\ AllocInit
  /\ \/ callers = Thread /\ \A t \in Thread : types_of[t] = {T1}
     \/ callers = Thread /\ types_of[t1] = {T1} /\ types_of[t2] = {T2}
     \/ callers = Thread /\ \A t \in Thread : types_of[t] = Type
     \/ callers = {t1} /\ types_of[t1] = Type /\ types_of[t2] = {T1}

\* Threads that both make both types are followed for two objects.
MCObjects ==
  IF callers = Thread /\ types_of[t1] = Type THEN 2 ELSE MaxObjects

\* The first block is the first address: blocks differ by name only.
MCNext ==
  /\ AllocNext
  /\ Len(objects') + Cardinality(Pending') <= MCObjects
  /\ objects' # <<>> => objects'[1].ptr = 1

MCSpec ==
  MCInit /\ [][MCNext]_allocVars /\ \A t \in Thread : WF_allocVars(Step(t))
=============================================================================
