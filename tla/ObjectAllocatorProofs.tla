------------------------ MODULE ObjectAllocatorProofs ------------------------
(***************************************************************************)
(* Proofs about ObjectAllocator, for any threads, types, addresses and     *)
(* number of objects.  First the maps, which are exact whatever types the  *)
(* threads make objects of.  Then the order objects are numbered in, and   *)
(* what follows for their observers while no two threads add to the        *)
(* counter at once: because all have the lock of one type, or because one  *)
(* thread calls alone, with as many types as it likes.                     *)
(***************************************************************************)
EXTENDS ObjectAllocator, FiniteSetTheorems, TLAPS

Places == {"idle", "new", "add", "insert", "construct", "delete",
           "observe", "read", "lookup"}
\* A thread that owns a block: it is not in use yet, or not any more.
Holding == {"add", "insert", "construct", "delete"}
\* A thread that has its type's lock.
Locking == {"add", "insert"}

Values == [type : Type \union {NoThread}, ptr : Address \union {0},
           id : Nat, object : Nat]
Made == [type : Type, ptr : Address, by : Thread]

Shape ==
  /\ pc \in [Thread -> Places] /\ local \in [Thread -> Values]
  /\ DOMAIN lock = Type /\ DOMAIN map = Type
  /\ counter \in Nat
  /\ memory \in [Address -> [id : Nat, object : Nat]]
  /\ objects \in Seq(Made)
  /\ DOMAIN block \subseteq Address
  /\ \A p \in DOMAIN block : block[p] \in 1 .. Len(objects)
  /\ constructed \subseteq 1 .. Len(objects) /\ alive \subseteq constructed
  /\ observer \in [Thread -> Values]
  /\ \A t \in Thread :
       /\ pc[t] # "idle" => local[t].type \in Type
       /\ pc[t] \in Holding \union {"observe", "read"} => local[t].ptr \in Address
       /\ pc[t] \in Holding => local[t].object \in 1 .. Len(objects)

AllocInv ==
  /\ types_of \in [Thread -> SUBSET Type] /\ callers \subseteq Thread
  /\ Shape

-----------------------------------------------------------------------------
(* Types.                                                                    *)

LEMMA NoneValue == None \in Values /\ None.object = 0 /\ None.ptr = 0
BY DEF None, Values

(* What is recorded of an object.                                            *)
LEMMA ObjectShape ==
  ASSUME Shape, NEW o \in 1 .. Len(objects)
  PROVE  objects[o] \in Made
BY DEF Shape

\* Only objects, blocks, constructed and alive concern the rest of Shape.
LEMMA ShapeGoto ==
  ASSUME Shape, NEW t \in Thread, NEW at \in Places, NEW value \in Values,
         Goto(t, at, value),
         at # "idle" => value.type \in Type,
         at \in Holding \union {"observe", "read"} => value.ptr \in Address,
         at \in Holding => value.object \in 1 .. Len(objects'),
         Len(objects) <= Len(objects'), Len(objects') \in Nat
  PROVE  /\ pc' \in [Thread -> Places] /\ local' \in [Thread -> Values]
         /\ \A u \in Thread :
              /\ pc'[u] # "idle" => local'[u].type \in Type
              /\ pc'[u] \in Holding \union {"observe", "read"}
                   => local'[u].ptr \in Address
              /\ pc'[u] \in Holding => local'[u].object \in 1 .. Len(objects')
<1>1. pc' = [pc EXCEPT ![t] = at] /\ local' = [local EXCEPT ![t] = value]
  BY DEF Goto
<1>2. pc' \in [Thread -> Places] /\ local' \in [Thread -> Values]
  BY <1>1 DEF Shape
<1>3. ASSUME NEW u \in Thread
      PROVE  /\ pc'[u] # "idle" => local'[u].type \in Type
             /\ pc'[u] \in Holding \union {"observe", "read"}
                  => local'[u].ptr \in Address
             /\ pc'[u] \in Holding => local'[u].object \in 1 .. Len(objects')
  <2>1. CASE u = t
    <3>1. pc'[u] = at /\ local'[u] = value
      BY <1>1, <2>1 DEF Shape
    <3>2. QED
      BY <3>1
  <2>2. CASE u # t
    <3>1. pc'[u] = pc[u] /\ local'[u] = local[u]
      BY <1>1, <2>2 DEF Shape
    <3>2. Len(objects) \in Nat
      BY DEF Shape
    <3>3. QED
      BY <3>1, <3>2 DEF Shape
  <2>3. QED
    BY <2>1, <2>2
<1>4. QED
  BY <1>2, <1>3

(* A step between places where a thread owns no block keeps the types.       *)
LEMMA ShapeMove ==
  ASSUME Shape, NEW t \in Thread, NEW at \in Places \ Holding, NEW value \in Values,
         Goto(t, at, value),
         at # "idle" => value.type \in Type,
         at \in {"observe", "read"} => value.ptr \in Address,
         UNCHANGED heapVars, observer' \in [Thread -> Values]
  PROVE  Shape'
<1>1. UNCHANGED <<lock, map, counter, memory, objects, block, constructed, alive>>
  BY DEF heapVars
<1>2. Len(objects) \in Nat
  BY DEF Shape
<1>3. /\ pc' \in [Thread -> Places] /\ local' \in [Thread -> Values]
      /\ \A u \in Thread :
           /\ pc'[u] # "idle" => local'[u].type \in Type
           /\ pc'[u] \in Holding \union {"observe", "read"}
                => local'[u].ptr \in Address
           /\ pc'[u] \in Holding => local'[u].object \in 1 .. Len(objects')
  BY <1>1, <1>2, ShapeGoto
<1>4. QED
  BY <1>1, <1>3 DEF Shape

-----------------------------------------------------------------------------
(* Steps of a thread that owns no block, before and after: they change its   *)
(* place, its local variables and perhaps its observer.                      *)

IsMove(t, at, value, ob) ==
  /\ pc[t] \notin Holding /\ Goto(t, at, value)
  /\ at # "idle" => value.type \in Type
  /\ at \in {"observe", "read"} => value.ptr \in Address
  /\ observer' = [observer EXCEPT ![t] = ob]
  /\ UNCHANGED <<setup, heapVars>>

(* Such a step keeps the invariant, with what it may observe.                *)
LEMMA MoveInv ==
  ASSUME AllocInv, NEW t \in Thread, NEW at \in Places \ Holding,
         NEW value \in Values, NEW ob \in Values, IsMove(t, at, value, ob)
  PROVE  AllocInv'
<1>1. UNCHANGED <<types_of, callers, lock, map, counter, memory, objects, block,
                  constructed, alive>>
  BY DEF IsMove, heapVars, setup
<1>2. Shape'
  <2>1. observer' \in [Thread -> Values]
    BY DEF AllocInv, Shape, IsMove
  <2>2. QED
    BY <2>1, ShapeMove DEF IsMove, AllocInv
<1>4. QED
  BY <1>1, <1>2 DEF AllocInv

\* The steps of a call that are such moves.
LEMMA MoveStepInv ==
  ASSUME AllocInv, NEW t \in Thread,
         \/ New(t)
         \/ \E T \in Type : LookUp(t, T)
         \/ FinishLookUp(t)
         \/ \E o \in constructed : Observe(t, o)
         \/ Test(t)
         \/ Read(t)
  PROVE  AllocInv'
<1> USE NoneValue
<1>1. observer[t] \in Values /\ observer = [observer EXCEPT ![t] = observer[t]]
  BY DEF AllocInv, Shape
<1>3. ASSUME NEW T \in types_of[t], Room, Begin(t, "new", [None EXCEPT !.type = T])
      PROVE  AllocInv'
  <2> DEFINE value == [None EXCEPT !.type = T]
  <2>1. T \in Type /\ value \in Values /\ value.type = T
    BY DEF AllocInv, Values, None
  <2>2. IsMove(t, "new", value, observer[t])
    BY <1>1, <1>3, <2>1 DEF IsMove, Begin, MayCall, Holding, heapVars
  <2>3. QED
    BY <1>1, <2>1, <2>2, MoveInv DEF Places, Holding
<1>4. ASSUME NEW T \in Type, LookUp(t, T)
      PROVE  AllocInv'
  <2> DEFINE value == [None EXCEPT !.type = T]
  <2>1. value \in Values /\ value.type = T
    BY DEF Values, None
  <2>2. IsMove(t, "lookup", value, observer[t])
    BY <1>1, <1>4, <2>1 DEF IsMove, LookUp, MayCall, Holding, heapVars
  <2>3. QED
    BY <1>1, <2>1, <2>2, MoveInv DEF Places, Holding
<1>5. CASE FinishLookUp(t)
  <2>1. IsMove(t, "idle", None, observer[t])
    BY <1>1, <1>5 DEF IsMove, FinishLookUp, Holding, heapVars
  <2>2. QED
    BY <1>1, <2>1, MoveInv DEF Places, Holding
<1>6. ASSUME NEW o \in constructed, Observe(t, o)
      PROVE  AllocInv'
  <2> DEFINE value == [None EXCEPT !.type = objects[o].type, !.ptr = objects[o].ptr]
  <2>1. o \in 1 .. Len(objects) /\ objects[o] \in Made
    BY ObjectShape DEF AllocInv, Shape
  <2>2. /\ value \in Values
        /\ value.type = objects[o].type /\ value.type \in Type
        /\ value.ptr = objects[o].ptr /\ value.ptr \in Address
    BY <2>1 DEF Values, None, Made
  <2>3. IsMove(t, "observe", value, observer[t])
    BY <1>1, <1>6, <2>2 DEF IsMove, Observe, Begin, MayCall, Holding, heapVars
  <2>4. QED
    BY <1>1, <2>2, <2>3, MoveInv DEF Places, Holding
<1>7. CASE Test(t)
  <2>1. local[t] \in Values /\ local[t].type \in Type /\ local[t].ptr \in Address
    BY <1>7 DEF Test, AllocInv, Shape, Holding
  <2>2. \/ IsMove(t, "read", local[t], observer[t])
        \/ IsMove(t, "idle", None, None)
    BY <1>1, <1>7, <2>1 DEF IsMove, Test, Holding, heapVars
  <2>3. QED
    BY <1>1, <2>1, <2>2, MoveInv DEF Places, Holding
<1>8. CASE Read(t)
  <2> DEFINE p == local[t].ptr
             ob == [type |-> local[t].type, ptr |-> p,
                    id |-> memory[p].id, object |-> memory[p].object]
  <2>1. /\ p \in Address /\ local[t].type \in Type
        /\ memory[p] \in [id : Nat, object : Nat]
    BY <1>8 DEF Read, AllocInv, Shape, Holding
  <2>2. ob \in Values
    BY <2>1 DEF Values
  <2>3. IsMove(t, "idle", None, ob)
    BY <1>8 DEF IsMove, Read, Holding, heapVars
  <2>4. QED
    BY <2>2, <2>3, MoveInv DEF Places, Holding
<1>9. QED
  BY <1>3, <1>4, <1>5, <1>6, <1>7, <1>8 DEF New

-----------------------------------------------------------------------------
(* Allocation and deallocation.                                              *)

LEMMA GotoOthers ==
  ASSUME Shape, NEW t \in Thread, NEW at, NEW value, Goto(t, at, value)
  PROVE  \A u \in Thread :
           \/ u # t /\ pc'[u] = pc[u] /\ local'[u] = local[u]
           \/ u = t /\ pc'[u] = at /\ local'[u] = value
BY DEF Shape, Goto

(* A block that was free, and the counter as it is before the increment.     *)
LEMMA MallocInv ==
  ASSUME AllocInv, NEW t \in Thread, NEW p \in Address, Malloc(t, p)
  PROVE  AllocInv'
<1> DEFINE U == local[t].type
           o == Len(objects) + 1
           new == [type |-> U, ptr |-> p, by |-> t]
           value == [type |-> U, ptr |-> p, id |-> counter, object |-> o]
<1>1. /\ pc[t] = "new" /\ lock[U] = NoThread /\ p \notin DOMAIN block
      /\ lock' = [lock EXCEPT ![U] = t]
      /\ objects' = Append(objects, new)
      /\ Goto(t, "add", value)
      /\ UNCHANGED <<types_of, callers, map, counter, memory, constructed, alive, observer>>
  BY DEF Malloc, Free, setup
<1>2. /\ DOMAIN block' = DOMAIN block \union {p}
      /\ block'[p] = o
      /\ \A q \in DOMAIN block : block'[q] = block[q]
  BY <1>1 DEF Malloc
<1>3. /\ Shape /\ types_of \in [Thread -> SUBSET Type] /\ callers \subseteq Thread
      /\ Len(objects) \in Nat
      /\ U \in Type /\ value \in Values /\ counter \in Nat
  BY <1>1 DEF AllocInv, Shape, Values
<1>4. /\ objects' \in Seq(Made)
      /\ Len(objects') = o
      /\ objects'[o] = new
      /\ \A k \in 1 .. Len(objects) : objects'[k] = objects[k]
  <2> DEFINE S == Made
  <2>1. objects \in Seq(S) /\ new \in S
    BY <1>3 DEF Shape, Made
  <2> HIDE DEF S, new
  <2>2. /\ objects' \in Seq(S)
        /\ Len(objects') = Len(objects) + 1
        /\ objects'[Len(objects) + 1] = new
        /\ \A k \in 1 .. Len(objects) : objects'[k] = objects[k]
    BY <1>1, <2>1
  <2>3. QED
    BY <2>2 DEF S
<1>5. \A u \in Thread :
        \/ u # t /\ pc'[u] = pc[u] /\ local'[u] = local[u]
        \/ u = t /\ pc'[u] = "add" /\ local'[u] = value
  BY <1>1, <1>3, GotoOthers
<1> HIDE DEF new
<1>6. Shape'
  <2>1. /\ pc' \in [Thread -> Places] /\ local' \in [Thread -> Values]
        /\ \A u \in Thread :
             /\ pc'[u] # "idle" => local'[u].type \in Type
             /\ pc'[u] \in Holding \union {"observe", "read"}
                  => local'[u].ptr \in Address
             /\ pc'[u] \in Holding => local'[u].object \in 1 .. Len(objects')
    <3>1. /\ value.type \in Type /\ value.ptr \in Address
          /\ value.object \in 1 .. Len(objects')
          /\ Len(objects) <= Len(objects') /\ Len(objects') \in Nat
      BY <1>3, <1>4
    <3>2. QED
      BY <1>1, <1>3, <3>1, ShapeGoto DEF Places
  <2>2. /\ DOMAIN block' \subseteq Address
        /\ \A q \in DOMAIN block' : block'[q] \in 1 .. Len(objects')
    BY <1>2, <1>3, <1>4 DEF Shape
  <2>3. constructed' \subseteq 1 .. Len(objects')
    BY <1>1, <1>3, <1>4 DEF Shape
  <2>4. QED
    BY <1>1, <1>3, <1>4, <2>1, <2>2, <2>3 DEF Shape
<1>8. QED
  BY <1>1, <1>3, <1>6 DEF AllocInv

(* Inside the lock: the counter, then the map.                               *)
LEMMA WriteCounterInv ==
  ASSUME AllocInv, NEW t \in Thread, WriteCounter(t)
  PROVE  AllocInv'
<1> DEFINE value == [local[t] EXCEPT !.id = Added(t)]
<1>1. /\ pc[t] = "add" /\ counter' = local[t].id + 1
      /\ Goto(t, "insert", value)
      /\ UNCHANGED <<types_of, callers, lock, map, memory, objects, block,
                     constructed, alive, observer>>
  BY DEF WriteCounter, Added, setup
<1>2. /\ Shape /\ types_of \in [Thread -> SUBSET Type] /\ callers \subseteq Thread
      /\ Len(objects) \in Nat
      /\ local[t] \in Values /\ local[t].id \in Nat
  BY DEF AllocInv, Shape, Values
<1>3. /\ value \in Values /\ value.type = local[t].type /\ value.ptr = local[t].ptr
      /\ value.object = local[t].object /\ value.id = counter'
  BY <1>1, <1>2 DEF Values, Added
<1> HIDE DEF value
<1>4. \A u \in Thread :
        \/ u # t /\ pc'[u] = pc[u] /\ local'[u] = local[u]
        \/ u = t /\ pc'[u] = "insert" /\ local'[u] = value
  BY <1>1, <1>2, GotoOthers
<1>5. Shape'
  <2>1. /\ pc' \in [Thread -> Places] /\ local' \in [Thread -> Values]
        /\ \A u \in Thread :
             /\ pc'[u] # "idle" => local'[u].type \in Type
             /\ pc'[u] \in Holding \union {"observe", "read"}
                  => local'[u].ptr \in Address
             /\ pc'[u] \in Holding => local'[u].object \in 1 .. Len(objects')
    <3>1. /\ local[t].type \in Type /\ local[t].ptr \in Address
          /\ local[t].object \in 1 .. Len(objects)
      BY <1>1, <1>2 DEF Shape, Holding
    <3>2. QED
      BY <1>1, <1>2, <1>3, <3>1, ShapeGoto DEF Places
  <2>2. QED
    BY <1>1, <1>2, <2>1 DEF Shape
<1>7. QED
  BY <1>1, <1>2, <1>5 DEF AllocInv

LEMMA InsertInv ==
  ASSUME AllocInv, NEW t \in Thread, NEW id \in Nat, Insert(t, id)
  PROVE  AllocInv'
<1> DEFINE U == local[t].type
           p == local[t].ptr
<1>1. /\ pc[t] = "insert" /\ id \in {local[t].id, counter}
      /\ map' = [map EXCEPT ![U] = [q \in DOMAIN map[U] \union {p} |->
                                      IF q = p THEN id ELSE map[U][q]]]
      /\ lock' = [lock EXCEPT ![U] = NoThread]
      /\ Goto(t, "construct", local[t])
      /\ UNCHANGED <<types_of, callers, counter, memory, objects, block,
                     constructed, alive, observer>>
  BY DEF Insert, Returned, setup, AllocInv, Shape
<1>2. /\ Shape /\ types_of \in [Thread -> SUBSET Type] /\ callers \subseteq Thread
      /\ Len(objects) \in Nat
      /\ local[t] \in Values /\ U \in Type /\ p \in Address
      /\ local[t].object \in 1 .. Len(objects)
  BY <1>1 DEF AllocInv, Shape, Holding
<1>3. \A u \in Thread :
        \/ u # t /\ pc'[u] = pc[u] /\ local'[u] = local[u]
        \/ u = t /\ pc'[u] = "construct" /\ local'[u] = local[u]
  BY <1>1, <1>2, GotoOthers
<1>4. Shape'
  <2>1. /\ pc' \in [Thread -> Places] /\ local' \in [Thread -> Values]
        /\ \A u \in Thread :
             /\ pc'[u] # "idle" => local'[u].type \in Type
             /\ pc'[u] \in Holding \union {"observe", "read"}
                  => local'[u].ptr \in Address
             /\ pc'[u] \in Holding => local'[u].object \in 1 .. Len(objects')
    BY <1>1, <1>2, ShapeGoto DEF Places
  <2>2. QED
    BY <1>1, <1>2, <2>1 DEF Shape
<1>6. QED
  BY <1>1, <1>2, <1>4 DEF AllocInv

(* The object in its block, and out of it.                                   *)
LEMMA ConstructInv ==
  ASSUME AllocInv, NEW t \in Thread, Construct(t)
  PROVE  AllocInv'
<1> DEFINE o == local[t].object
           p == local[t].ptr
<1>1. /\ pc[t] = "construct"
      /\ memory' = [memory EXCEPT ![p] = [id |-> counter, object |-> o]]
      /\ constructed' = constructed \union {o} /\ alive' = alive \union {o}
      /\ Goto(t, "idle", None)
      /\ UNCHANGED <<types_of, callers, lock, map, counter, objects, block, observer>>
  BY DEF Construct, setup
<1>2. /\ Shape /\ types_of \in [Thread -> SUBSET Type] /\ callers \subseteq Thread
      /\ Len(objects) \in Nat
      /\ p \in Address /\ o \in 1 .. Len(objects) /\ counter \in Nat
  BY <1>1 DEF AllocInv, Shape, Holding
<1>3. \A u \in Thread :
        \/ u # t /\ pc'[u] = pc[u] /\ local'[u] = local[u]
        \/ u = t /\ pc'[u] = "idle" /\ local'[u] = None
  BY <1>1, <1>2, GotoOthers
<1>4. Shape'
  <2>1. /\ pc' \in [Thread -> Places] /\ local' \in [Thread -> Values]
        /\ \A u \in Thread :
             /\ pc'[u] # "idle" => local'[u].type \in Type
             /\ pc'[u] \in Holding \union {"observe", "read"}
                  => local'[u].ptr \in Address
             /\ pc'[u] \in Holding => local'[u].object \in 1 .. Len(objects')
    BY <1>1, <1>2, NoneValue, ShapeGoto DEF Places, Holding
  <2>2. memory' \in [Address -> [id : Nat, object : Nat]]
    BY <1>1, <1>2 DEF Shape
  <2>3. QED
    BY <1>1, <1>2, <2>1, <2>2 DEF Shape
<1>6. QED
  BY <1>1, <1>2, <1>4 DEF AllocInv

LEMMA DestroyInv ==
  ASSUME AllocInv, NEW t \in Thread, NEW o \in alive, Destroy(t, o)
  PROVE  AllocInv'
<1> DEFINE value == [type |-> objects[o].type, ptr |-> objects[o].ptr,
                     id |-> 0, object |-> o]
<1>1. /\ pc[t] = "idle" /\ alive' = alive \ {o}
      /\ Goto(t, "delete", value)
      /\ UNCHANGED <<types_of, callers, lock, map, counter, memory, objects, block,
                     constructed, observer>>
  BY DEF Destroy, MayCall, setup
<1>2. /\ Shape /\ types_of \in [Thread -> SUBSET Type] /\ callers \subseteq Thread
      /\ Len(objects) \in Nat
      /\ o \in 1 .. Len(objects)
  BY DEF AllocInv, Shape
<1>3. objects[o] \in Made
  BY <1>2, ObjectShape
<1>4. /\ value \in Values /\ value.type \in Type /\ value.ptr \in Address
  BY <1>2, <1>3 DEF Values, Made
<1>5. \A u \in Thread :
        \/ u # t /\ pc'[u] = pc[u] /\ local'[u] = local[u]
        \/ u = t /\ pc'[u] = "delete" /\ local'[u] = value
  BY <1>1, <1>2, GotoOthers
<1>6. Shape'
  <2>1. /\ pc' \in [Thread -> Places] /\ local' \in [Thread -> Values]
        /\ \A u \in Thread :
             /\ pc'[u] # "idle" => local'[u].type \in Type
             /\ pc'[u] \in Holding \union {"observe", "read"}
                  => local'[u].ptr \in Address
             /\ pc'[u] \in Holding => local'[u].object \in 1 .. Len(objects')
    BY <1>1, <1>2, <1>4, ShapeGoto DEF Places
  <2>2. QED
    BY <1>1, <1>2, <2>1 DEF Shape
<1>8. QED
  BY <1>1, <1>2, <1>6 DEF AllocInv

LEMMA DeallocateInv ==
  ASSUME AllocInv, NEW t \in Thread, Deallocate(t)
  PROVE  AllocInv'
<1> DEFINE U == local[t].type
           p == local[t].ptr
<1>1. /\ pc[t] = "delete"
      /\ block' = [q \in DOMAIN block \ {p} |-> block[q]]
      /\ map' = [map EXCEPT ![U] = [q \in DOMAIN map[U] \ {p} |-> map[U][q]]]
      /\ Goto(t, "idle", None)
      /\ UNCHANGED <<types_of, callers, lock, counter, memory, objects,
                     constructed, alive, observer>>
  BY DEF Deallocate, Erased, setup, AllocInv, Shape
<1>2. /\ Shape /\ types_of \in [Thread -> SUBSET Type] /\ callers \subseteq Thread
      /\ Len(objects) \in Nat
      /\ U \in Type /\ p \in Address
  BY <1>1 DEF AllocInv, Shape, Holding
<1>3. \A u \in Thread :
        \/ u # t /\ pc'[u] = pc[u] /\ local'[u] = local[u]
        \/ u = t /\ pc'[u] = "idle" /\ local'[u] = None
  BY <1>1, <1>2, GotoOthers
<1>4. Shape'
  <2>1. /\ pc' \in [Thread -> Places] /\ local' \in [Thread -> Values]
        /\ \A u \in Thread :
             /\ pc'[u] # "idle" => local'[u].type \in Type
             /\ pc'[u] \in Holding \union {"observe", "read"}
                  => local'[u].ptr \in Address
             /\ pc'[u] \in Holding => local'[u].object \in 1 .. Len(objects')
    BY <1>1, <1>2, NoneValue, ShapeGoto DEF Places, Holding
  <2>2. QED
    BY <1>1, <1>2, <2>1 DEF Shape
<1>6. QED
  BY <1>1, <1>2, <1>4 DEF AllocInv

-----------------------------------------------------------------------------
(* The specification.                                                        *)

LEMMA FrameInv ==
  ASSUME AllocInv, UNCHANGED <<types_of, callers, pc, local, heapVars, observer>>
  PROVE  AllocInv'
<1>1. Shape'
  BY DEF AllocInv, Shape, heapVars
<1>3. QED
  BY <1>1 DEF AllocInv

(* At the start nobody is in a call.                                         *)
LEMMA AllocInitInv ==
  ASSUME AllocInit
  PROVE  AllocInv
<1> USE NoneValue
<1>1. /\ \A t \in Thread : pc[t] = "idle" /\ local[t] = None /\ observer[t] = None
      /\ counter = 0 /\ objects = <<>> /\ Len(objects) = 0
      /\ DOMAIN block = {} /\ constructed = {} /\ alive = {}
      /\ DOMAIN map = Type /\ DOMAIN lock = Type
      /\ \A T \in Type : DOMAIN map[T] = {}
      /\ \A p \in Address : memory[p].id = 0
  BY DEF AllocInit
<1>2. Shape
  BY <1>1 DEF AllocInit, Shape, Places, Holding
<1>3. types_of \in [Thread -> SUBSET Type] /\ callers \subseteq Thread
  BY DEF AllocInit
<1>4. QED
  BY <1>2, <1>3 DEF AllocInv

(* Every step keeps the invariant.                                           *)
LEMMA AllocStepInv ==
  ASSUME AllocInv, [AllocNext]_allocVars
  PROVE  AllocInv'
<1>1. CASE Stop
  BY <1>1, FrameInv DEF Stop, setup
<1>2. ASSUME NEW t \in Thread,
             StartInstance(t) \/ AddAllocator(t) \/ FinishInstance(t)
      PROVE  AllocInv'
  BY <1>2, FrameInv DEF StartInstance, AddAllocator, FinishInstance, setup
<1>3. ASSUME NEW t \in Thread,
             \/ New(t)
             \/ \E T \in Type : LookUp(t, T)
             \/ FinishLookUp(t)
             \/ \E o \in constructed : Observe(t, o)
             \/ Test(t)
             \/ Read(t)
      PROVE  AllocInv'
  BY <1>3, MoveStepInv
<1>4. ASSUME NEW t \in Thread, \E p \in Address : Malloc(t, p)
      PROVE  AllocInv'
  BY <1>4, MallocInv
<1>5. ASSUME NEW t \in Thread, WriteCounter(t)
      PROVE  AllocInv'
  BY <1>5, WriteCounterInv
<1>6. ASSUME NEW t \in Thread, \E id \in 0 .. MaxObjects : Insert(t, id)
      PROVE  AllocInv'
  BY <1>6, InsertInv, AllocatorAssumption
<1>7. ASSUME NEW t \in Thread, Construct(t)
      PROVE  AllocInv'
  BY <1>7, ConstructInv
<1>8. ASSUME NEW t \in Thread, \E o \in alive : Destroy(t, o)
      PROVE  AllocInv'
  BY <1>8, DestroyInv
<1>9. ASSUME NEW t \in Thread, Deallocate(t)
      PROVE  AllocInv'
  BY <1>9, DeallocateInv
<1>10. CASE UNCHANGED allocVars
  BY <1>10, FrameInv DEF allocVars, heapVars
<1>11. QED
  BY <1>1, <1>2, <1>3, <1>4, <1>5, <1>6, <1>7, <1>8, <1>9, <1>10
     DEF AllocNext, Step

-----------------------------------------------------------------------------
(* The maps, whatever types the threads make objects of.                     *)

\* A thread whose object is not constructed yet.
Making == {"add", "insert", "construct"}

\* Every block allocated is of one living object or of one thread in a call,
\* and of the type it was allocated for; a living object's memory is its own.
OwnedInv ==
  /\ \A t \in Thread : pc[t] \in Holding =>
       /\ local[t].object \notin alive
       /\ objects[local[t].object].ptr = local[t].ptr
       /\ objects[local[t].object].type = local[t].type
       /\ local[t].ptr \in DOMAIN block
       /\ block[local[t].ptr] = local[t].object
       /\ pc[t] \in Making => local[t].object \notin constructed
  /\ \A t, u \in Thread :
       pc[t] \in Holding /\ pc[u] \in Holding /\ local[t].object = local[u].object
         => t = u
  /\ \A o \in alive :
       /\ objects[o].ptr \in DOMAIN block /\ block[objects[o].ptr] = o
       /\ memory[objects[o].ptr].object = o

\* What was read of an object is of one that was constructed there.
ReadInv ==
  /\ \A p \in Address : memory[p].object # 0 =>
       memory[p].object \in constructed /\ objects[memory[p].object].ptr = p
  /\ \A t \in Thread : observer[t].object # 0 =>
       /\ observer[t].object \in constructed
       /\ objects[observer[t].object].ptr = observer[t].ptr
       /\ observer[t].type \in Type

EntryInv ==
  /\ \A U \in Type : \A p \in DOMAIN map[U] :
       p \in DOMAIN block /\ objects[block[p]].type = U
  /\ \A o \in alive : objects[o].ptr \in DOMAIN map[objects[o].type]
  /\ \A t \in Thread : pc[t] = "construct" => local[t].ptr \in DOMAIN map[local[t].type]

LockInv ==
  \A U \in Type : lock[U] # NoThread =>
    lock[U] \in Thread /\ pc[lock[U]] \in Locking /\ local[lock[U]].type = U

\* Two threads may read the same value of the counter, and one write back what
\* the other has long passed: still no id is above the number of objects, and
\* none is 0.
IdInv ==
  /\ counter <= Len(objects)
  /\ \A t \in Thread : pc[t] = "add" => local[t].id + 1 <= Len(objects)
  /\ \A t \in Thread : pc[t] = "insert" =>
       local[t].id \in 1 .. Len(objects) /\ counter >= 1
  /\ \A U \in Type : \A p \in DOMAIN map[U] : map[U][p] \in 1 .. Len(objects)

RoomInv == Len(objects) + Cardinality(Pending) <= MaxObjects

MapsInv == OwnedInv /\ ReadInv /\ EntryInv /\ LockInv /\ IdInv /\ RoomInv

(* The threads about to allocate are finitely many.                          *)
LEMMA PendingFinite == IsFiniteSet(Pending)
<1>1. Pending \subseteq Thread
  BY DEF Pending
<1>2. QED
  BY <1>1, FS_Subset, AllocatorAssumption

(* Nothing of an object is 0.                                                *)
LEMMA ObjectsCounted ==
  ASSUME Shape
  PROVE  /\ Len(objects) \in Nat
         /\ 0 \notin alive /\ alive \subseteq constructed
         /\ constructed \subseteq 1 .. Len(objects)
         /\ \A o \in constructed : objects[o].ptr \in Address /\ objects[o].type \in Type
<1>1. Len(objects) \in Nat /\ alive \subseteq constructed
      /\ constructed \subseteq 1 .. Len(objects)
  BY DEF Shape
<1>2. \A o \in 1 .. Len(objects) : objects[o].ptr \in Address /\ objects[o].type \in Type
  BY ObjectShape DEF Made
<1>3. QED
  BY <1>1, <1>2

(* Steps that touch no call and no memory.                                   *)
LEMMA MapsFrame ==
  ASSUME MapsInv, UNCHANGED <<pc, local, heapVars, observer>>
  PROVE  MapsInv'
<1>1. UNCHANGED <<pc, local, lock, map, counter, memory, objects, block,
                  constructed, alive, observer>>
  BY DEF heapVars
<1>2. OwnedInv' /\ ReadInv' /\ EntryInv' /\ LockInv' /\ IdInv'
  BY <1>1 DEF MapsInv, OwnedInv, ReadInv, EntryInv, LockInv, IdInv
<1>3. RoomInv'
  BY <1>1 DEF MapsInv, RoomInv, Pending
<1>5. QED
  BY <1>2, <1>3 DEF MapsInv

\* A step of a thread that owns no block, before and after: what it needs of
\* its new place, and of the observer it may have made.
Roams(t, at, value, ob) ==
  /\ pc[t] \notin Holding \union {"new"} /\ Goto(t, at, value)
  /\ at = "new" => Room
  /\ observer' = [observer EXCEPT ![t] = ob]
  /\ ob.object # 0 =>
       ob.object \in constructed /\ objects[ob.object].ptr = ob.ptr /\ ob.type \in Type
  /\ UNCHANGED heapVars

(* They keep the maps exact.                                                *)
LEMMA RoamMaps ==
  ASSUME AllocInv, MapsInv, NEW t \in Thread, NEW at \in Places \ Holding,
         NEW value, NEW ob, Roams(t, at, value, ob)
  PROVE  MapsInv'
<1>1. UNCHANGED <<lock, map, counter, memory, objects, block,
                  constructed, alive>>
  BY DEF Roams, heapVars
<1>2. Shape /\ pc[t] \notin Holding
  BY DEF AllocInv, Roams
<1>3. \A u \in Thread :
        \/ u # t /\ pc'[u] = pc[u] /\ local'[u] = local[u] /\ observer'[u] = observer[u]
        \/ u = t /\ pc'[u] = at /\ local'[u] = value /\ observer'[u] = ob
  BY <1>2, GotoOthers DEF Roams, Shape
<1>4. \A u \in Thread :
        /\ pc'[u] \in Holding =>
             u # t /\ pc'[u] = pc[u] /\ local'[u] = local[u]
        /\ pc[u] \in Holding => pc'[u] = pc[u] /\ local'[u] = local[u]
  BY <1>2, <1>3
<1>5. OwnedInv'
  BY <1>1, <1>4 DEF MapsInv, OwnedInv
<1>6. ReadInv'
  <2>1. \A u \in Thread : observer'[u].object # 0 =>
          /\ observer'[u].object \in constructed
          /\ objects[observer'[u].object].ptr = observer'[u].ptr
          /\ observer'[u].type \in Type
    BY <1>3 DEF MapsInv, ReadInv, Roams
  <2>2. QED
    BY <1>1, <2>1 DEF MapsInv, ReadInv
<1>7. EntryInv'
  BY <1>1, <1>4 DEF MapsInv, EntryInv, Holding
<1>8. LockInv'
  BY <1>1, <1>4 DEF MapsInv, LockInv, Holding, Locking
<1>9. IdInv'
  BY <1>1, <1>4 DEF MapsInv, IdInv, Holding
<1>10. RoomInv'
  <2>1. Len(objects') \in Nat /\ Len(objects') = Len(objects)
    BY <1>1, <1>2 DEF Shape
  <2>2. Cardinality(Pending) \in Nat
    BY PendingFinite, FS_CardinalityType
  <2>3. CASE at # "new"
    <3>1. Pending' = Pending
      BY <1>3, <2>3 DEF Pending, Roams
    <3>2. QED
      BY <1>1, <3>1 DEF MapsInv, RoomInv
  <2>4. CASE at = "new"
    <3>1. Pending' = Pending \union {t} /\ t \notin Pending
      BY <1>3, <2>4 DEF Pending, Roams
    <3>2. Cardinality(Pending') = Cardinality(Pending) + 1
      BY <3>1, PendingFinite, FS_AddElement
    <3>3. Len(objects) + Cardinality(Pending) < MaxObjects
      BY <2>4 DEF Roams, Room
    <3>4. QED
      BY <2>1, <2>2, <3>2, <3>3, AllocatorAssumption DEF RoomInv
  <2>5. QED
    BY <2>3, <2>4
<1>12. QED
  BY <1>5, <1>6, <1>7, <1>8, <1>9, <1>10 DEF MapsInv

(* The steps of a call that are such.                                        *)
LEMMA RoamStepMaps ==
  ASSUME AllocInv, MapsInv, NEW t \in Thread,
         \/ New(t)
         \/ \E T \in Type : LookUp(t, T)
         \/ FinishLookUp(t)
         \/ \E o \in constructed : Observe(t, o)
         \/ Test(t)
         \/ Read(t)
  PROVE  MapsInv'
<1> USE NoneValue
<1>1. /\ observer = [observer EXCEPT ![t] = observer[t]]
      /\ observer[t].object # 0 =>
           /\ observer[t].object \in constructed
           /\ objects[observer[t].object].ptr = observer[t].ptr
           /\ observer[t].type \in Type
  BY DEF AllocInv, Shape, MapsInv, ReadInv
<1>2. CASE New(t)
  <2>1. PICK T \in Type :
          Room /\ Begin(t, "new", [None EXCEPT !.type = T])
    BY <1>2 DEF New, AllocInv
  <2>2. Roams(t, "new", [None EXCEPT !.type = T], observer[t])
    BY <1>1, <2>1 DEF Roams, Begin, MayCall, Holding, heapVars
  <2>3. QED
    BY <2>2, RoamMaps DEF Places, Holding
<1>3. ASSUME NEW T \in Type, LookUp(t, T)
      PROVE  MapsInv'
  <2>1. Roams(t, "lookup", [None EXCEPT !.type = T], observer[t])
    BY <1>1, <1>3 DEF Roams, LookUp, MayCall, Holding, heapVars
  <2>2. QED
    BY <2>1, RoamMaps DEF Places, Holding
<1>4. CASE FinishLookUp(t)
  <2>1. Roams(t, "idle", None, observer[t])
    BY <1>1, <1>4 DEF Roams, FinishLookUp, Holding, heapVars
  <2>2. QED
    BY <2>1, RoamMaps DEF Places, Holding
<1>5. ASSUME NEW o \in constructed, Observe(t, o)
      PROVE  MapsInv'
  <2>1. Roams(t, "observe", [None EXCEPT !.type = objects[o].type,
                                         !.ptr = objects[o].ptr], observer[t])
    BY <1>1, <1>5 DEF Roams, Observe, Begin, MayCall, Holding, heapVars
  <2>2. QED
    BY <2>1, RoamMaps DEF Places, Holding
<1>6. CASE Test(t)
  <2>1. CASE local[t].ptr \in DOMAIN map[local[t].type]
    <3>1. Roams(t, "read", local[t], observer[t])
      BY <1>1, <1>6, <2>1 DEF Roams, Test, Holding, heapVars
    <3>2. QED
      BY <3>1, RoamMaps DEF Places, Holding
  <2>2. CASE local[t].ptr \notin DOMAIN map[local[t].type]
    <3>1. Roams(t, "idle", None, None)
      BY <1>6, <2>2 DEF Roams, Test, Holding, heapVars
    <3>2. QED
      BY <3>1, RoamMaps DEF Places, Holding
  <2>3. QED
    BY <2>1, <2>2
<1>7. CASE Read(t)
  <2> DEFINE p == local[t].ptr
             ob == [type |-> local[t].type, ptr |-> p,
                    id |-> memory[p].id, object |-> memory[p].object]
  <2>1. pc[t] = "read" /\ p \in Address /\ local[t].type \in Type
    BY <1>7 DEF Read, AllocInv, Shape
  <2>2. ob.object # 0 =>
          /\ ob.object \in constructed /\ objects[ob.object].ptr = ob.ptr
          /\ ob.type \in Type
    BY <2>1 DEF MapsInv, ReadInv
  <2>3. observer' = [observer EXCEPT ![t] = ob]
    BY <1>7 DEF Read
  <2>4. Roams(t, "idle", None, ob)
    <3> HIDE DEF ob
    <3>1. QED
      BY <1>7, <2>1, <2>2, <2>3 DEF Roams, Read, Holding, heapVars
  <2>5. QED
    BY <2>4, RoamMaps DEF Places, Holding
<1>8. QED
  BY <1>2, <1>3, <1>4, <1>5, <1>6, <1>7

(* The block is fresh and so is the object's number.                         *)
LEMMA MallocMaps ==
  ASSUME AllocInv, MapsInv, NEW t \in Thread, NEW p \in Address, Malloc(t, p)
  PROVE  MapsInv'
<1> DEFINE U == local[t].type
           o == Len(objects) + 1
           new == [type |-> U, ptr |-> p, by |-> t]
           value == [type |-> U, ptr |-> p, id |-> counter, object |-> o]
<1>1. /\ pc[t] = "new" /\ lock[U] = NoThread /\ p \notin DOMAIN block
      /\ lock' = [lock EXCEPT ![U] = t]
      /\ objects' = Append(objects, new)
      /\ Goto(t, "add", value)
      /\ UNCHANGED <<map, counter, memory, constructed, alive, observer>>
  BY DEF Malloc, Free, setup
<1>2. /\ DOMAIN block' = DOMAIN block \union {p}
      /\ block'[p] = o
      /\ \A q \in DOMAIN block : block'[q] = block[q]
  BY <1>1 DEF Malloc
<1>3. /\ Shape /\ Len(objects) \in Nat /\ counter \in Nat /\ U \in Type
      /\ alive \subseteq constructed /\ constructed \subseteq 1 .. Len(objects)
      /\ \A q \in DOMAIN block : block[q] \in 1 .. Len(objects)
      /\ \A u \in Thread : pc[u] \in Holding => local[u].object \in 1 .. Len(objects)
  <2>1. Shape
    BY DEF AllocInv
  <2>2. Len(objects) \in Nat /\ counter \in Nat
    BY <2>1 DEF Shape
  <2>3. U \in Type
    BY <1>1, <2>1 DEF Shape
  <2>4. /\ alive \subseteq constructed /\ constructed \subseteq 1 .. Len(objects)
        /\ \A q \in DOMAIN block : block[q] \in 1 .. Len(objects)
    BY <2>1 DEF Shape
  <2>5. \A u \in Thread : pc[u] \in Holding => local[u].object \in 1 .. Len(objects)
    BY <2>1 DEF Shape
  <2>6. QED
    BY <2>1, <2>2, <2>3, <2>4, <2>5
<1>4. /\ Len(objects') = o
      /\ objects'[o].type = U /\ objects'[o].ptr = p
      /\ \A k \in 1 .. Len(objects) : objects'[k] = objects[k]
  <2> DEFINE S == Made
  <2>1. objects \in Seq(S) /\ new \in S /\ new.type = U /\ new.ptr = p
    BY <1>3 DEF Shape, Made
  <2> HIDE DEF S, new
  <2>2. QED
    BY <1>1, <2>1
<1>5. \A u \in Thread :
        \/ u # t /\ pc'[u] = pc[u] /\ local'[u] = local[u]
        \/ u = t /\ pc'[u] = "add" /\ local'[u] = value
  BY <1>1, <1>3, GotoOthers
<1>6. /\ value.type = U /\ value.ptr = p /\ value.id = counter /\ value.object = o
  OBVIOUS
<1> HIDE DEF new, value
<1>7. OwnedInv'
  <2>1. \A u \in Thread : pc'[u] \in Holding =>
          /\ local'[u].object \notin alive
          /\ objects'[local'[u].object].ptr = local'[u].ptr
          /\ objects'[local'[u].object].type = local'[u].type
          /\ local'[u].ptr \in DOMAIN block'
          /\ block'[local'[u].ptr] = local'[u].object
          /\ pc'[u] \in Making => local'[u].object \notin constructed
    <3> TAKE u \in Thread
    <3>1. CASE u = t
      BY <1>2, <1>3, <1>4, <1>5, <1>6, <3>1
    <3>2. CASE u # t
      <4>1. pc'[u] = pc[u] /\ local'[u] = local[u]
        BY <1>5, <3>2
      <4>2. QED
        BY <1>2, <1>3, <1>4, <4>1 DEF MapsInv, OwnedInv
    <3>3. QED
      BY <3>1, <3>2
  <2>2. \A u, v \in Thread :
          pc'[u] \in Holding /\ pc'[v] \in Holding
            /\ local'[u].object = local'[v].object => u = v
    BY <1>3, <1>5, <1>6 DEF MapsInv, OwnedInv
  <2>3. \A k \in alive :
          /\ objects'[k].ptr \in DOMAIN block' /\ block'[objects'[k].ptr] = k
          /\ memory[objects'[k].ptr].object = k
    BY <1>2, <1>3, <1>4 DEF MapsInv, OwnedInv
  <2>4. QED
    BY <1>1, <2>1, <2>2, <2>3 DEF OwnedInv
<1>8. ReadInv'
  BY <1>1, <1>3, <1>4 DEF MapsInv, ReadInv
<1>9. EntryInv'
  <2>1. \A V \in Type : \A q \in DOMAIN map[V] :
          q \in DOMAIN block' /\ objects'[block'[q]].type = V
    BY <1>2, <1>3, <1>4 DEF MapsInv, EntryInv
  <2>2. \A k \in alive : objects'[k].ptr \in DOMAIN map[objects'[k].type]
    BY <1>3, <1>4 DEF MapsInv, EntryInv
  <2>3. QED
    BY <1>1, <1>5, <2>1, <2>2 DEF MapsInv, EntryInv
<1>10. LockInv'
  <2>1. \A V \in Type : \/ V = U /\ lock'[V] = t
                        \/ V # U /\ lock'[V] = lock[V]
    BY <1>1, <1>3 DEF Shape
  <2>2. pc[t] \notin Locking
    BY <1>1 DEF Locking
  <2>3. QED
    BY <1>5, <1>6, <2>1, <2>2 DEF MapsInv, LockInv, Locking
<1>11. IdInv'
  <2>1. counter' <= Len(objects')
    BY <1>1, <1>3, <1>4 DEF MapsInv, IdInv
  <2>2. \A u \in Thread : pc'[u] = "add" => local'[u].id + 1 <= Len(objects')
    <3> TAKE u \in Thread
    <3>1. local[u].id \in Nat
      BY <1>3 DEF Shape, Values
    <3>2. CASE u = t
      BY <1>3, <1>4, <1>5, <1>6, <3>2 DEF MapsInv, IdInv
    <3>3. CASE u # t
      BY <1>3, <1>4, <1>5, <3>1, <3>3 DEF MapsInv, IdInv
    <3>4. QED
      BY <3>2, <3>3
  <2>3. \A u \in Thread : pc'[u] = "insert" =>
          local'[u].id \in 1 .. Len(objects') /\ counter' >= 1
    BY <1>1, <1>3, <1>4, <1>5 DEF MapsInv, IdInv
  <2>4. \A V \in Type : \A q \in DOMAIN map'[V] : map'[V][q] \in 1 .. Len(objects')
    BY <1>1, <1>3, <1>4 DEF MapsInv, IdInv
  <2>5. QED
    BY <2>1, <2>2, <2>3, <2>4 DEF IdInv
<1>12. RoomInv'
  <2>1. Pending' = Pending \ {t} /\ t \in Pending
    BY <1>1, <1>5 DEF Pending
  <2>2. Cardinality(Pending') = Cardinality(Pending) - 1
    BY <2>1, PendingFinite, FS_RemoveElement
  <2>3. Cardinality(Pending) \in Nat
    BY PendingFinite, FS_CardinalityType
  <2>4. QED
    BY <1>3, <1>4, <2>2, <2>3, AllocatorAssumption DEF MapsInv, RoomInv
<1>14. QED
  BY <1>7, <1>8, <1>9, <1>10, <1>11, <1>12 DEF MapsInv

(* The counter is written: no more than one above what it was when the last  *)
(* object was allocated.                                                     *)
LEMMA WriteCounterMaps ==
  ASSUME AllocInv, MapsInv, NEW t \in Thread, WriteCounter(t)
  PROVE  MapsInv'
<1> DEFINE value == [local[t] EXCEPT !.id = Added(t)]
<1>1. /\ pc[t] = "add" /\ counter' = local[t].id + 1
      /\ Goto(t, "insert", value)
      /\ UNCHANGED <<lock, map, memory, objects, block,
                     constructed, alive, observer>>
  BY DEF WriteCounter, Added, setup
<1>2. /\ Shape /\ Len(objects) \in Nat /\ local[t] \in Values /\ local[t].id \in Nat
  BY DEF AllocInv, Shape, Values
<1>3. /\ value.type = local[t].type /\ value.ptr = local[t].ptr
      /\ value.object = local[t].object /\ value.id = counter'
  BY <1>1, <1>2 DEF Values, Added
<1> HIDE DEF value
<1>4. \A u \in Thread :
        \/ u # t /\ pc'[u] = pc[u] /\ local'[u] = local[u]
        \/ u = t /\ pc'[u] = "insert" /\ local'[u] = value
  BY <1>1, <1>2, GotoOthers
<1>5. \A u \in Thread :
        /\ pc'[u] \in Holding <=> pc[u] \in Holding
        /\ pc'[u] \in Making <=> pc[u] \in Making
        /\ pc'[u] \in Locking <=> pc[u] \in Locking
        /\ local'[u].type = local[u].type /\ local'[u].ptr = local[u].ptr
        /\ local'[u].object = local[u].object
  BY <1>1, <1>3, <1>4 DEF Holding, Making, Locking
<1>6. OwnedInv'
  BY <1>1, <1>5 DEF MapsInv, OwnedInv
<1>7. ReadInv'
  BY <1>1 DEF MapsInv, ReadInv
<1>8. EntryInv'
  BY <1>1, <1>4 DEF MapsInv, EntryInv
<1>9. LockInv'
  BY <1>1, <1>5 DEF MapsInv, LockInv
<1>10. IdInv'
  <2>1. counter' <= Len(objects) /\ counter' >= 1 /\ counter' \in Nat
    BY <1>1, <1>2 DEF MapsInv, IdInv
  <2>2. \A u \in Thread : pc'[u] = "insert" => local'[u].id \in 1 .. Len(objects)
    BY <1>2, <1>3, <1>4, <2>1 DEF MapsInv, IdInv
  <2>3. \A u \in Thread : pc'[u] = "add" => local'[u].id + 1 <= Len(objects)
    BY <1>4 DEF MapsInv, IdInv
  <2>4. QED
    BY <1>1, <2>1, <2>2, <2>3 DEF MapsInv, IdInv
<1>11. RoomInv'
  <2>1. Pending' = Pending
    BY <1>1, <1>4 DEF Pending
  <2>2. QED
    BY <1>1, <2>1 DEF MapsInv, RoomInv
<1>13. QED
  BY <1>6, <1>7, <1>8, <1>9, <1>10, <1>11 DEF MapsInv

(* The map gets an entry at the block of the object being made.              *)
LEMMA InsertMaps ==
  ASSUME AllocInv, MapsInv, NEW t \in Thread, NEW id \in Nat, Insert(t, id)
  PROVE  MapsInv'
<1> DEFINE U == local[t].type
           p == local[t].ptr
<1>1. /\ pc[t] = "insert" /\ id \in {local[t].id, counter}
      /\ map' = [map EXCEPT ![U] = [q \in DOMAIN map[U] \union {p} |->
                                      IF q = p THEN id ELSE map[U][q]]]
      /\ lock' = [lock EXCEPT ![U] = NoThread]
      /\ Goto(t, "construct", local[t])
      /\ UNCHANGED <<counter, memory, objects, block,
                     constructed, alive, observer>>
  BY DEF Insert, Returned, setup, AllocInv, Shape
<1>2. /\ Shape /\ Len(objects) \in Nat /\ U \in Type /\ p \in Address /\ counter \in Nat
      /\ local[t].object \in 1 .. Len(objects)
  BY <1>1 DEF AllocInv, Shape, Holding
<1>3. \A u \in Thread :
        \/ u # t /\ pc'[u] = pc[u] /\ local'[u] = local[u]
        \/ u = t /\ pc'[u] = "construct" /\ local'[u] = local[u]
  BY <1>1, <1>2, GotoOthers
<1>4. /\ DOMAIN map'[U] = DOMAIN map[U] \union {p}
      /\ map'[U][p] = id
      /\ \A q \in DOMAIN map[U] : q # p => map'[U][q] = map[U][q]
      /\ \A V \in Type : V # U => map'[V] = map[V]
  BY <1>1, <1>2 DEF Shape
<1>5. /\ p \in DOMAIN block /\ block[p] = local[t].object
      /\ objects[local[t].object].ptr = p /\ objects[local[t].object].type = U
      /\ local[t].object \notin alive
  BY <1>1 DEF MapsInv, OwnedInv, Holding
<1>6. OwnedInv'
  <2>1. \A u \in Thread :
          /\ pc'[u] \in Holding <=> pc[u] \in Holding
          /\ pc'[u] \in Making <=> pc[u] \in Making
          /\ local'[u] = local[u]
    BY <1>1, <1>3 DEF Holding, Making
  <2>2. QED
    BY <1>1, <2>1 DEF MapsInv, OwnedInv
<1>7. ReadInv'
  BY <1>1 DEF MapsInv, ReadInv
<1>8. EntryInv'
  <2>1. \A V \in Type : \A q \in DOMAIN map'[V] :
          q \in DOMAIN block /\ objects[block[q]].type = V
    BY <1>4, <1>5 DEF MapsInv, EntryInv
  <2>2. \A V \in Type : DOMAIN map[V] \subseteq DOMAIN map'[V]
    BY <1>4
  <2>3. \A k \in alive : objects[k].ptr \in DOMAIN map'[objects[k].type]
    BY <1>2, <2>2, ObjectsCounted DEF MapsInv, EntryInv
  <2>4. \A u \in Thread : pc'[u] = "construct" =>
          local'[u].ptr \in DOMAIN map'[local'[u].type]
    <3> SUFFICES ASSUME NEW u \in Thread, pc'[u] = "construct"
                 PROVE  local'[u].ptr \in DOMAIN map'[local'[u].type]
      OBVIOUS
    <3>1. CASE u = t
      BY <1>3, <1>4, <3>1
    <3>2. CASE u # t
      <4>1. pc[u] = "construct" /\ local'[u] = local[u]
        BY <1>3, <3>2
      <4>2. local[u].type \in Type
        BY <1>2, <4>1 DEF Shape
      <4>3. QED
        BY <2>2, <4>1, <4>2 DEF MapsInv, EntryInv
    <3>3. QED
      BY <3>1, <3>2
  <2>5. QED
    BY <1>1, <2>1, <2>3, <2>4 DEF EntryInv
<1>9. LockInv'
  <2>1. \A V \in Type : \/ V = U /\ lock'[V] = NoThread
                        \/ V # U /\ lock'[V] = lock[V]
    BY <1>1, <1>2 DEF Shape
  <2>2. QED
    BY <1>3, <2>1 DEF MapsInv, LockInv
<1>10. IdInv'
  <2>1. id \in 1 .. Len(objects)
    BY <1>1, <1>2 DEF MapsInv, IdInv
  <2>2. \A V \in Type : \A q \in DOMAIN map'[V] : map'[V][q] \in 1 .. Len(objects)
    BY <1>4, <2>1 DEF MapsInv, IdInv
  <2>3. QED
    BY <1>1, <1>3, <2>2 DEF MapsInv, IdInv
<1>11. RoomInv'
  <2>1. Pending' = Pending
    BY <1>1, <1>3 DEF Pending
  <2>2. QED
    BY <1>1, <2>1 DEF MapsInv, RoomInv
<1>13. QED
  BY <1>6, <1>7, <1>8, <1>9, <1>10, <1>11 DEF MapsInv

(* The object comes alive in its block.                                      *)
LEMMA ConstructMaps ==
  ASSUME AllocInv, MapsInv, NEW t \in Thread, Construct(t)
  PROVE  MapsInv'
<1> USE NoneValue
<1> DEFINE o == local[t].object
           p == local[t].ptr
<1>1. /\ pc[t] = "construct"
      /\ memory' = [memory EXCEPT ![p] = [id |-> counter, object |-> o]]
      /\ constructed' = constructed \union {o} /\ alive' = alive \union {o}
      /\ Goto(t, "idle", None)
      /\ UNCHANGED <<lock, map, counter, objects, block, observer>>
  BY DEF Construct, setup
<1>2. /\ Shape /\ Len(objects) \in Nat
      /\ p \in Address /\ o \in 1 .. Len(objects) /\ counter \in Nat
  BY <1>1 DEF AllocInv, Shape, Holding
<1>3. \A u \in Thread :
        \/ u # t /\ pc'[u] = pc[u] /\ local'[u] = local[u]
        \/ u = t /\ pc'[u] = "idle" /\ local'[u] = None
  BY <1>1, <1>2, GotoOthers
<1>4. /\ memory'[p].id = counter /\ memory'[p].object = o
      /\ \A q \in Address : q # p => memory'[q] = memory[q]
  BY <1>1, <1>2 DEF Shape
<1>5. /\ p \in DOMAIN block /\ block[p] = o /\ objects[o].ptr = p
      /\ objects[o].type = local[t].type
      /\ o \notin alive /\ o \notin constructed
  BY <1>1 DEF MapsInv, OwnedInv, Holding, Making
<1>6. \A u \in Thread : pc'[u] \in Holding =>
        u # t /\ pc[u] \in Holding /\ pc'[u] = pc[u] /\ local'[u] = local[u]
          /\ local[u].object # o
  BY <1>1, <1>3, <1>5 DEF MapsInv, OwnedInv, Holding
<1>7. \A k \in alive : objects[k].ptr # p /\ objects[k].ptr \in Address
  BY <1>2, <1>5, ObjectsCounted DEF MapsInv, OwnedInv
<1>8. OwnedInv'
  <2>1. \A k \in alive' :
          /\ objects[k].ptr \in DOMAIN block /\ block[objects[k].ptr] = k
          /\ memory'[objects[k].ptr].object = k
    BY <1>1, <1>4, <1>5, <1>7 DEF MapsInv, OwnedInv
  <2>2. QED
    BY <1>1, <1>6, <2>1 DEF MapsInv, OwnedInv
<1>9. ReadInv'
  <2>1. \A q \in Address : memory'[q].object # 0 =>
          memory'[q].object \in constructed' /\ objects[memory'[q].object].ptr = q
    BY <1>1, <1>4, <1>5 DEF MapsInv, ReadInv
  <2>2. QED
    BY <1>1, <2>1 DEF MapsInv, ReadInv
<1>10. EntryInv'
  <2>1. \A k \in alive' : objects[k].ptr \in DOMAIN map[objects[k].type]
    BY <1>1, <1>5 DEF MapsInv, EntryInv
  <2>2. QED
    BY <1>1, <1>3, <2>1 DEF MapsInv, EntryInv
<1>11. LockInv'
  <2>1. \A V \in Type : lock[V] # NoThread => lock[V] # t
    BY <1>1 DEF MapsInv, LockInv, Locking
  <2>2. QED
    BY <1>1, <1>3, <2>1 DEF MapsInv, LockInv
<1>12. IdInv'
  BY <1>1, <1>3 DEF MapsInv, IdInv
<1>13. RoomInv'
  <2>1. Pending' = Pending
    BY <1>1, <1>3 DEF Pending
  <2>2. QED
    BY <1>1, <2>1 DEF MapsInv, RoomInv
<1>15. QED
  BY <1>8, <1>9, <1>10, <1>11, <1>12, <1>13 DEF MapsInv

(* A living object is about to go; it keeps its block until the end.         *)
LEMMA DestroyMaps ==
  ASSUME AllocInv, MapsInv, NEW t \in Thread, NEW o \in alive, Destroy(t, o)
  PROVE  MapsInv'
<1> DEFINE value == [type |-> objects[o].type, ptr |-> objects[o].ptr,
                     id |-> 0, object |-> o]
<1>1. /\ pc[t] = "idle" /\ alive' = alive \ {o}
      /\ Goto(t, "delete", value)
      /\ UNCHANGED <<lock, map, counter, memory, objects, block,
                     constructed, observer>>
  BY DEF Destroy, MayCall, setup
<1>2. Shape
  BY DEF AllocInv
<1>3. \A u \in Thread :
        \/ u # t /\ pc'[u] = pc[u] /\ local'[u] = local[u]
        \/ u = t /\ pc'[u] = "delete" /\ local'[u] = value
  BY <1>1, <1>2, GotoOthers
<1>4. /\ value.type = objects[o].type /\ value.ptr = objects[o].ptr /\ value.object = o
  OBVIOUS
<1> HIDE DEF value
<1>5. /\ objects[o].ptr \in DOMAIN block /\ block[objects[o].ptr] = o
      /\ \A u \in Thread : pc[u] \in Holding => local[u].object # o
  BY DEF MapsInv, OwnedInv
<1>6. OwnedInv'
  <2>1. \A u \in Thread : pc'[u] \in Holding =>
          /\ local'[u].object \notin alive'
          /\ objects[local'[u].object].ptr = local'[u].ptr
          /\ objects[local'[u].object].type = local'[u].type
          /\ local'[u].ptr \in DOMAIN block
          /\ block[local'[u].ptr] = local'[u].object
          /\ pc'[u] \in Making => local'[u].object \notin constructed
    <3> TAKE u \in Thread
    <3>1. CASE u = t
      BY <1>1, <1>3, <1>4, <1>5, <3>1 DEF Making
    <3>2. CASE u # t
      <4>1. pc'[u] = pc[u] /\ local'[u] = local[u]
        BY <1>3, <3>2
      <4>2. QED
        BY <1>1, <4>1 DEF MapsInv, OwnedInv
    <3>3. QED
      BY <3>1, <3>2
  <2>2. \A u, v \in Thread :
          pc'[u] \in Holding /\ pc'[v] \in Holding
            /\ local'[u].object = local'[v].object => u = v
    BY <1>3, <1>4, <1>5 DEF MapsInv, OwnedInv
  <2>3. QED
    BY <1>1, <2>1, <2>2 DEF MapsInv, OwnedInv
<1>7. ReadInv'
  BY <1>1 DEF MapsInv, ReadInv
<1>8. EntryInv'
  BY <1>1, <1>3 DEF MapsInv, EntryInv
<1>9. LockInv'
  <2>1. \A V \in Type : lock[V] # NoThread => lock[V] # t
    BY <1>1 DEF MapsInv, LockInv, Locking
  <2>2. QED
    BY <1>1, <1>3, <2>1 DEF MapsInv, LockInv
<1>10. IdInv'
  BY <1>1, <1>3 DEF MapsInv, IdInv
<1>11. RoomInv'
  <2>1. Pending' = Pending
    BY <1>1, <1>3 DEF Pending
  <2>2. QED
    BY <1>1, <2>1 DEF MapsInv, RoomInv
<1>13. QED
  BY <1>6, <1>7, <1>8, <1>9, <1>10, <1>11 DEF MapsInv

(* Block and entry go together; no other type has an entry there.            *)
LEMMA DeallocateMaps ==
  ASSUME AllocInv, MapsInv, NEW t \in Thread, Deallocate(t)
  PROVE  MapsInv'
<1> USE NoneValue
<1> DEFINE U == local[t].type
           p == local[t].ptr
<1>1. /\ pc[t] = "delete"
      /\ block' = [q \in DOMAIN block \ {p} |-> block[q]]
      /\ map' = [map EXCEPT ![U] = [q \in DOMAIN map[U] \ {p} |-> map[U][q]]]
      /\ Goto(t, "idle", None)
      /\ UNCHANGED <<lock, counter, memory, objects,
                     constructed, alive, observer>>
  BY DEF Deallocate, Erased, setup, AllocInv, Shape
<1>2. /\ Shape /\ U \in Type /\ p \in Address
  BY <1>1 DEF AllocInv, Shape, Holding
<1>3. \A u \in Thread :
        \/ u # t /\ pc'[u] = pc[u] /\ local'[u] = local[u]
        \/ u = t /\ pc'[u] = "idle" /\ local'[u] = None
  BY <1>1, <1>2, GotoOthers
<1>4. /\ p \in DOMAIN block /\ block[p] = local[t].object
      /\ objects[local[t].object].type = U /\ local[t].object \notin alive
  BY <1>1 DEF MapsInv, OwnedInv, Holding
<1>5. \A u \in Thread : pc'[u] \in Holding =>
        /\ u # t /\ pc[u] \in Holding /\ pc'[u] = pc[u] /\ local'[u] = local[u]
        /\ local[u].ptr # p
  <2> SUFFICES ASSUME NEW u \in Thread, pc'[u] \in Holding
               PROVE  /\ u # t /\ pc[u] \in Holding /\ pc'[u] = pc[u]
                      /\ local'[u] = local[u] /\ local[u].ptr # p
    OBVIOUS
  <2>1. u # t /\ pc[u] \in Holding /\ pc'[u] = pc[u] /\ local'[u] = local[u]
    BY <1>3 DEF Holding
  <2>2. local[u].object # local[t].object /\ block[local[u].ptr] = local[u].object
    BY <1>1, <2>1 DEF MapsInv, OwnedInv, Holding
  <2>3. QED
    BY <1>4, <2>1, <2>2
<1>6. \A k \in alive : objects[k].ptr # p
  BY <1>4 DEF MapsInv, OwnedInv
<1>7. \A V \in Type : /\ DOMAIN map'[V] = DOMAIN map[V] \ {p}
                      /\ \A q \in DOMAIN map'[V] : map'[V][q] = map[V][q]
  <2> TAKE V \in Type
  <2>1. CASE V = U
    BY <1>1, <1>2, <2>1 DEF Shape
  <2>2. CASE V # U
    <3>1. p \notin DOMAIN map[V]
      BY <1>4, <2>2 DEF MapsInv, EntryInv
    <3>2. map'[V] = map[V]
      BY <1>1, <1>2, <2>2 DEF Shape
    <3>3. QED
      BY <3>1, <3>2
  <2>3. QED
    BY <2>1, <2>2
<1>8. OwnedInv'
  BY <1>1, <1>5, <1>6 DEF MapsInv, OwnedInv
<1>9. ReadInv'
  BY <1>1 DEF MapsInv, ReadInv
<1>10. EntryInv'
  <2>1. \A V \in Type : \A q \in DOMAIN map'[V] :
          q \in DOMAIN block' /\ objects[block'[q]].type = V
    BY <1>1, <1>7 DEF MapsInv, EntryInv
  <2>2. \A k \in alive : objects[k].ptr \in DOMAIN map'[objects[k].type]
    BY <1>2, <1>6, <1>7, ObjectsCounted DEF MapsInv, EntryInv
  <2>3. \A u \in Thread : pc'[u] = "construct" =>
          local'[u].ptr \in DOMAIN map'[local'[u].type]
    <3> SUFFICES ASSUME NEW u \in Thread, pc'[u] = "construct"
                 PROVE  local'[u].ptr \in DOMAIN map'[local'[u].type]
      OBVIOUS
    <3>1. pc[u] = "construct" /\ local'[u] = local[u] /\ local[u].ptr # p
      BY <1>5 DEF Holding
    <3>2. local[u].type \in Type
      BY <1>2, <3>1 DEF Shape
    <3>3. QED
      BY <1>7, <3>1, <3>2 DEF MapsInv, EntryInv
  <2>4. QED
    BY <1>1, <2>1, <2>2, <2>3 DEF EntryInv
<1>11. LockInv'
  <2>1. \A V \in Type : lock[V] # NoThread => lock[V] # t
    BY <1>1 DEF MapsInv, LockInv, Locking
  <2>2. QED
    BY <1>1, <1>3, <2>1 DEF MapsInv, LockInv
<1>12. IdInv'
  <2>1. \A V \in Type : \A q \in DOMAIN map'[V] : map'[V][q] \in 1 .. Len(objects)
    BY <1>7 DEF MapsInv, IdInv
  <2>2. QED
    BY <1>1, <1>3, <2>1 DEF MapsInv, IdInv
<1>13. RoomInv'
  <2>1. Pending' = Pending
    BY <1>1, <1>3 DEF Pending
  <2>2. QED
    BY <1>1, <2>1 DEF MapsInv, RoomInv
<1>15. QED
  BY <1>8, <1>9, <1>10, <1>11, <1>12, <1>13 DEF MapsInv

(* At the start nobody is in a call and nothing is allocated.                *)
LEMMA MapsInit ==
  ASSUME AllocInit
  PROVE  MapsInv
<1> USE NoneValue
<1>1. /\ \A t \in Thread : pc[t] = "idle" /\ local[t] = None /\ observer[t] = None
      /\ counter = 0 /\ objects = <<>> /\ Len(objects) = 0
      /\ DOMAIN block = {} /\ constructed = {} /\ alive = {}
      /\ \A T \in Type : DOMAIN map[T] = {} /\ lock[T] = NoThread
      /\ \A p \in Address : memory[p].object = 0
  BY DEF AllocInit
<1>2. OwnedInv /\ ReadInv /\ EntryInv /\ LockInv /\ IdInv
  BY <1>1 DEF OwnedInv, ReadInv, EntryInv, LockInv, IdInv, Holding
<1>3. RoomInv
  <2>1. Pending = {}
    BY <1>1 DEF Pending
  <2>2. Cardinality(Pending) = 0
    BY <2>1, FS_EmptySet
  <2>3. QED
    BY <1>1, <2>2, AllocatorAssumption DEF RoomInv
<1>4. QED
  BY <1>2, <1>3 DEF MapsInv

(* Every step keeps the maps exact.                                          *)
LEMMA MapsStep ==
  ASSUME AllocInv, MapsInv, [AllocNext]_allocVars
  PROVE  MapsInv'
<1>1. CASE Stop
  BY <1>1, MapsFrame DEF Stop
<1>2. ASSUME NEW t \in Thread,
             StartInstance(t) \/ AddAllocator(t) \/ FinishInstance(t)
      PROVE  MapsInv'
  BY <1>2, MapsFrame DEF StartInstance, AddAllocator, FinishInstance
<1>3. ASSUME NEW t \in Thread,
             \/ New(t)
             \/ \E T \in Type : LookUp(t, T)
             \/ FinishLookUp(t)
             \/ \E o \in constructed : Observe(t, o)
             \/ Test(t)
             \/ Read(t)
      PROVE  MapsInv'
  BY <1>3, RoamStepMaps
<1>4. ASSUME NEW t \in Thread, \E p \in Address : Malloc(t, p)
      PROVE  MapsInv'
  BY <1>4, MallocMaps
<1>5. ASSUME NEW t \in Thread, WriteCounter(t)
      PROVE  MapsInv'
  BY <1>5, WriteCounterMaps
<1>6. ASSUME NEW t \in Thread, \E id \in 0 .. MaxObjects : Insert(t, id)
      PROVE  MapsInv'
  BY <1>6, InsertMaps, AllocatorAssumption
<1>7. ASSUME NEW t \in Thread, Construct(t)
      PROVE  MapsInv'
  BY <1>7, ConstructMaps
<1>8. ASSUME NEW t \in Thread, \E o \in alive : Destroy(t, o)
      PROVE  MapsInv'
  BY <1>8, DestroyMaps
<1>9. ASSUME NEW t \in Thread, Deallocate(t)
      PROVE  MapsInv'
  BY <1>9, DeallocateMaps
<1>10. CASE UNCHANGED allocVars
  BY <1>10, MapsFrame DEF allocVars, heapVars
<1>11. QED
  BY <1>1, <1>2, <1>3, <1>4, <1>5, <1>6, <1>7, <1>8, <1>9, <1>10
     DEF AllocNext, Step

-----------------------------------------------------------------------------
(* What is remembered of the calls, whatever types they are of.              *)

OneType(T) == \A t \in Thread : types_of[t] = {T}

\* Who calls, who has which lock, and what follows for programs of one type.
CallInv ==
  /\ \A t \in Thread :
       /\ pc[t] # "idle" => t \in callers
       /\ pc[t] \in Locking => lock[local[t].type] = t
  /\ \A T \in Type : OneType(T) =>
       /\ \A t \in Thread : pc[t] \notin {"idle", "lookup"} => local[t].type = T
       /\ \A o \in 1 .. Len(objects) : objects[o].type = T

\* A block is of the last object allocated at its address; and a thread
\* allocates nothing between the allocation of an object and its constructor.
NumberInv ==
  /\ \A p \in DOMAIN block :
       /\ objects[block[p]].ptr = p
       /\ \A k \in block[p] + 1 .. Len(objects) : objects[k].ptr # p
  /\ \A t \in Thread : pc[t] \in Making =>
       /\ objects[local[t].object].by = t
       /\ \A k \in local[t].object + 1 .. Len(objects) : objects[k].by # t

HistoryInv == CallInv /\ NumberInv

LEMMA HistoryFrame ==
  ASSUME HistoryInv, UNCHANGED <<setup, pc, local, lock, objects, block>>
  PROVE  HistoryInv'
<1>1. CallInv'
  BY DEF HistoryInv, CallInv, OneType, setup
<1>2. NumberInv'
  BY DEF HistoryInv, NumberInv
<1>3. QED
  BY <1>1, <1>2 DEF HistoryInv

(* A step of t that allocates nothing.                                       *)
LEMMA HistoryKept ==
  ASSUME AllocInv, HistoryInv, NEW t \in Thread, NEW at, NEW value,
         Goto(t, at, value), UNCHANGED <<setup, objects>>,
         at # "idle" => t \in callers,
         at \in Locking => lock'[value.type] = t,
         \A u \in Thread \ {t} : pc[u] \in Locking => lock'[local[u].type] = u,
         at \in Making => pc[t] \in Making /\ value.object = local[t].object,
         \A T \in Type : OneType(T) /\ at \notin {"idle", "lookup"} => value.type = T,
         DOMAIN block' \subseteq DOMAIN block,
         \A q \in DOMAIN block' : block'[q] = block[q]
  PROVE  HistoryInv'
<1>1. \A u \in Thread :
        \/ u # t /\ pc'[u] = pc[u] /\ local'[u] = local[u]
        \/ u = t /\ pc'[u] = at /\ local'[u] = value
  BY GotoOthers DEF AllocInv
<1>2. types_of' = types_of /\ callers' = callers /\ objects' = objects
  BY DEF setup
<1>3. CallInv'
  <2>1. ASSUME NEW u \in Thread
        PROVE  /\ pc'[u] # "idle" => u \in callers
               /\ pc'[u] \in Locking => lock'[local'[u].type] = u
    <3>1. CASE u = t
      BY <1>1, <3>1
    <3>2. CASE u # t
      BY <1>1, <3>2 DEF HistoryInv, CallInv
    <3>3. QED
      BY <3>1, <3>2
  <2>2. ASSUME NEW T \in Type, OneType(T)
        PROVE  /\ \A u \in Thread : pc'[u] \notin {"idle", "lookup"} => local'[u].type = T
               /\ \A o \in 1 .. Len(objects) : objects[o].type = T
    BY <1>1, <2>2 DEF HistoryInv, CallInv
  <2>3. QED
    BY <1>2, <2>1, <2>2 DEF CallInv, OneType
<1>4. NumberInv'
  <2>1. ASSUME NEW u \in Thread, pc'[u] \in Making
        PROVE  pc[u] \in Making /\ local'[u].object = local[u].object
    BY <1>1, <2>1
  <2>2. QED
    BY <1>2, <2>1 DEF HistoryInv, NumberInv
<1>5. QED
  BY <1>3, <1>4 DEF HistoryInv

(* The steps that keep the locks, and enter none.                            *)
LEMMA HistoryRoam ==
  ASSUME AllocInv, HistoryInv, NEW t \in Thread, NEW at, NEW value,
         Goto(t, at, value), UNCHANGED <<setup, lock, objects, block>>,
         at # "idle" => t \in callers,
         at \notin Making,
         \A T \in Type : OneType(T) /\ at \notin {"idle", "lookup"} => value.type = T
  PROVE  HistoryInv'
<1>1. \A u \in Thread \ {t} : pc[u] \in Locking => lock'[local[u].type] = u
  BY DEF HistoryInv, CallInv
<1>2. at \notin Locking
  BY DEF Making, Locking
<1>3. QED
  BY <1>1, <1>2, HistoryKept

(* The new object is the last, at its address and of its thread.             *)
LEMMA HistoryMalloc ==
  ASSUME AllocInv, HistoryInv, NEW t \in Thread, NEW p \in Address, Malloc(t, p)
  PROVE  HistoryInv'
<1> DEFINE U == local[t].type
           o == Len(objects) + 1
           new == [type |-> U, ptr |-> p, by |-> t]
           value == [type |-> U, ptr |-> p, id |-> counter, object |-> o]
<1>1. /\ pc[t] = "new" /\ lock[U] = NoThread /\ p \notin DOMAIN block
      /\ lock' = [lock EXCEPT ![U] = t]
      /\ objects' = Append(objects, new)
      /\ Goto(t, "add", value)
      /\ UNCHANGED <<types_of, callers>>
  BY DEF Malloc, Free, setup
<1>2. /\ DOMAIN block' = DOMAIN block \union {p} /\ block'[p] = o
      /\ \A q \in DOMAIN block : block'[q] = block[q]
  BY <1>1 DEF Malloc
<1>3. /\ Shape /\ Len(objects) \in Nat /\ U \in Type /\ objects \in Seq(Made)
      /\ DOMAIN lock = Type /\ NoThread \notin Thread
      /\ \A q \in DOMAIN block : block[q] \in 1 .. Len(objects)
      /\ \A u \in Thread : pc[u] \in Holding => local[u].object \in 1 .. Len(objects)
  BY <1>1, AllocatorAssumption DEF AllocInv, Shape
<1>4. /\ Len(objects') = o
      /\ objects'[o].type = U /\ objects'[o].ptr = p /\ objects'[o].by = t
      /\ \A k \in 1 .. Len(objects) : objects'[k] = objects[k]
  <2>1. new \in Made
    BY <1>3 DEF Made
  <2> HIDE DEF new
  <2>2. /\ Len(objects') = o /\ objects'[o] = new
        /\ \A k \in 1 .. Len(objects) : objects'[k] = objects[k]
    BY <1>1, <1>3, <2>1
  <2>3. QED
    BY <2>2 DEF new
<1>5. \A u \in Thread :
        \/ u # t /\ pc'[u] = pc[u] /\ local'[u] = local[u]
        \/ u = t /\ pc'[u] = "add" /\ local'[u] = value
  BY <1>1, <1>3, GotoOthers
<1>6. value.type = U /\ value.object = o
  OBVIOUS
<1> HIDE DEF new, value
<1>7. CallInv'
  <2>1. ASSUME NEW u \in Thread
        PROVE  /\ pc'[u] # "idle" => u \in callers
               /\ pc'[u] \in Locking => lock'[local'[u].type] = u
    <3>1. CASE u = t
      BY <1>1, <1>3, <1>5, <1>6, <3>1 DEF HistoryInv, CallInv
    <3>2. CASE u # t
      <4>1. pc[u] \in Locking => lock[local[u].type] = u /\ local[u].type # U
        BY <1>1, <1>3 DEF HistoryInv, CallInv
      <4>2. pc[u] \in Locking => local[u].type \in Type
        BY <1>3 DEF Shape, Locking
      <4>3. QED
        BY <1>1, <1>3, <1>5, <3>2, <4>1, <4>2 DEF HistoryInv, CallInv
    <3>3. QED
      BY <3>1, <3>2
  <2>2. ASSUME NEW T \in Type, OneType(T)
        PROVE  /\ \A u \in Thread : pc'[u] \notin {"idle", "lookup"} => local'[u].type = T
               /\ \A k \in 1 .. Len(objects') : objects'[k].type = T
    <3>1. U = T
      BY <1>1, <2>2 DEF HistoryInv, CallInv
    <3>2. \A k \in 1 .. Len(objects') : k \in 1 .. Len(objects) \/ k = o
      BY <1>3, <1>4
    <3>3. QED
      BY <1>4, <1>5, <1>6, <2>2, <3>1, <3>2 DEF HistoryInv, CallInv
  <2>3. QED
    BY <1>1, <2>1, <2>2 DEF CallInv, OneType
<1>8. NumberInv'
  <2>1. ASSUME NEW q \in DOMAIN block'
        PROVE  /\ objects'[block'[q]].ptr = q
               /\ \A k \in block'[q] + 1 .. Len(objects') : objects'[k].ptr # q
    <3>1. CASE q = p
      BY <1>2, <1>3, <1>4, <3>1
    <3>2. CASE q # p
      <4>1. q \in DOMAIN block /\ block'[q] = block[q] /\ block[q] \in 1 .. Len(objects)
        BY <1>2, <1>3, <3>2
      <4>2. \A k \in block[q] + 1 .. Len(objects) : objects[k].ptr # q
        BY <4>1 DEF HistoryInv, NumberInv
      <4>3. ASSUME NEW k \in block[q] + 1 .. Len(objects')
            PROVE  objects'[k].ptr # q
        <5>1. CASE k = o
          BY <1>4, <3>2, <5>1
        <5>2. CASE k # o
          <6>1. k \in block[q] + 1 .. Len(objects) /\ k \in 1 .. Len(objects)
            BY <1>3, <1>4, <4>1, <5>2
          <6>2. QED
            BY <1>4, <4>2, <6>1
        <5>3. QED
          BY <5>1, <5>2
      <4>4. QED
        BY <1>4, <4>1, <4>3 DEF HistoryInv, NumberInv
    <3>3. QED
      BY <3>1, <3>2
  <2>2. ASSUME NEW u \in Thread, pc'[u] \in Making
        PROVE  /\ objects'[local'[u].object].by = u
               /\ \A k \in local'[u].object + 1 .. Len(objects') : objects'[k].by # u
    <3>1. CASE u = t
      BY <1>3, <1>4, <1>5, <1>6, <3>1
    <3>2. CASE u # t
      <4>1. /\ pc[u] \in Making /\ local'[u] = local[u]
            /\ local[u].object \in 1 .. Len(objects)
        BY <1>3, <1>5, <2>2, <3>2 DEF Making, Holding
      <4>2. /\ objects[local[u].object].by = u
            /\ \A k \in local[u].object + 1 .. Len(objects) : objects[k].by # u
        BY <4>1 DEF HistoryInv, NumberInv
      <4>3. ASSUME NEW k \in local[u].object + 1 .. Len(objects')
            PROVE  objects'[k].by # u
        <5>1. CASE k = o
          BY <1>4, <3>2, <5>1
        <5>2. CASE k # o
          <6>1. k \in local[u].object + 1 .. Len(objects) /\ k \in 1 .. Len(objects)
            BY <1>3, <1>4, <4>1, <5>2
          <6>2. QED
            BY <1>4, <4>2, <6>1
        <5>3. QED
          BY <5>1, <5>2
      <4>4. QED
        BY <1>4, <4>1, <4>2, <4>3
    <3>3. QED
      BY <3>1, <3>2
  <2>3. QED
    BY <2>1, <2>2 DEF NumberInv
<1>9. QED
  BY <1>7, <1>8 DEF HistoryInv

(* At the start nothing was called.                                          *)
LEMMA HistoryInit ==
  ASSUME AllocInit
  PROVE  HistoryInv
<1>1. /\ \A t \in Thread : pc[t] = "idle"
      /\ Len(objects) = 0 /\ DOMAIN block = {}
  BY DEF AllocInit
<1>2. QED
  BY <1>1 DEF HistoryInv, CallInv, NumberInv, Locking, Making

(* Every step keeps what is remembered.                                      *)
LEMMA HistoryStep ==
  ASSUME AllocInv, HistoryInv, [AllocNext]_allocVars
  PROVE  HistoryInv'
<1> USE NoneValue
<1>1. CASE Stop
  BY <1>1, HistoryFrame DEF Stop, heapVars
<1>2. ASSUME NEW t \in Thread,
             StartInstance(t) \/ AddAllocator(t) \/ FinishInstance(t)
      PROVE  HistoryInv'
  BY <1>2, HistoryFrame DEF StartInstance, AddAllocator, FinishInstance, heapVars
<1>3. ASSUME NEW t \in Thread, New(t)
      PROVE  HistoryInv'
  <2>1. PICK T \in types_of[t] : Begin(t, "new", [None EXCEPT !.type = T])
    BY <1>3 DEF New
  <2> DEFINE value == [None EXCEPT !.type = T]
  <2>2. value.type = T
    BY DEF None
  <2>3. \A U \in Type : OneType(U) => value.type = U
    BY <2>1, <2>2 DEF OneType
  <2> HIDE DEF value
  <2>4. Goto(t, "new", value) /\ t \in callers /\ UNCHANGED <<setup, lock, objects, block>>
    BY <2>1 DEF Begin, MayCall, heapVars, value
  <2>5. QED
    BY <2>3, <2>4, HistoryRoam DEF Making
<1>4. ASSUME NEW t \in Thread, NEW T \in Type, LookUp(t, T)
      PROVE  HistoryInv'
  <2>1. /\ Goto(t, "lookup", [None EXCEPT !.type = T]) /\ t \in callers
        /\ UNCHANGED <<setup, lock, objects, block>>
    BY <1>4 DEF LookUp, MayCall, heapVars
  <2>2. QED
    BY <2>1, HistoryRoam DEF Making
<1>5. ASSUME NEW t \in Thread, FinishLookUp(t)
      PROVE  HistoryInv'
  <2>1. Goto(t, "idle", None) /\ UNCHANGED <<setup, lock, objects, block>>
    BY <1>5 DEF FinishLookUp, heapVars
  <2>2. QED
    BY <2>1, HistoryRoam DEF Making
<1>6. ASSUME NEW t \in Thread, NEW o \in constructed, Observe(t, o)
      PROVE  HistoryInv'
  <2> DEFINE value == [None EXCEPT !.type = objects[o].type, !.ptr = objects[o].ptr]
  <2>1. /\ Goto(t, "observe", value) /\ t \in callers
        /\ UNCHANGED <<setup, lock, objects, block>>
    BY <1>6 DEF Observe, Begin, MayCall, heapVars
  <2>2. o \in 1 .. Len(objects) /\ value.type = objects[o].type
    BY DEF AllocInv, Shape, None
  <2> HIDE DEF value
  <2>3. \A T \in Type : OneType(T) => value.type = T
    BY <2>2 DEF HistoryInv, CallInv
  <2>4. QED
    BY <2>1, <2>3, HistoryRoam DEF Making
<1>7. ASSUME NEW t \in Thread, Test(t)
      PROVE  HistoryInv'
  <2>1. /\ pc[t] = "observe" /\ UNCHANGED <<setup, lock, objects, block>>
        /\ Goto(t, "read", local[t]) \/ Goto(t, "idle", None)
    BY <1>7 DEF Test, heapVars
  <2>2. t \in callers /\ \A T \in Type : OneType(T) => local[t].type = T
    BY <2>1 DEF HistoryInv, CallInv
  <2>3. QED
    BY <2>1, <2>2, HistoryRoam DEF Making
<1>8. ASSUME NEW t \in Thread, Read(t)
      PROVE  HistoryInv'
  <2>1. Goto(t, "idle", None) /\ UNCHANGED <<setup, lock, objects, block>>
    BY <1>8 DEF Read, heapVars
  <2>2. QED
    BY <2>1, HistoryRoam DEF Making
<1>9. ASSUME NEW t \in Thread, \E p \in Address : Malloc(t, p)
      PROVE  HistoryInv'
  BY <1>9, HistoryMalloc
<1>10. ASSUME NEW t \in Thread, WriteCounter(t)
       PROVE  HistoryInv'
  <2> DEFINE value == [local[t] EXCEPT !.id = Added(t)]
  <2>1. /\ pc[t] = "add" /\ Goto(t, "insert", value)
        /\ UNCHANGED <<setup, lock, objects, block>>
    BY <1>10 DEF WriteCounter
  <2>2. value.type = local[t].type /\ value.object = local[t].object
    BY DEF AllocInv, Shape, Values
  <2> HIDE DEF value
  <2>3. /\ t \in callers /\ lock[local[t].type] = t
        /\ \A T \in Type : OneType(T) => local[t].type = T
        /\ \A u \in Thread : pc[u] \in Locking => lock[local[u].type] = u
    BY <2>1 DEF HistoryInv, CallInv, Locking
  <2>4. QED
    BY <2>1, <2>2, <2>3, HistoryKept DEF Making
<1>11. ASSUME NEW t \in Thread, NEW id, Insert(t, id)
       PROVE  HistoryInv'
  <2> DEFINE U == local[t].type
  <2>1. /\ pc[t] = "insert" /\ Goto(t, "construct", local[t])
        /\ lock' = [lock EXCEPT ![U] = NoThread]
        /\ UNCHANGED <<setup, objects, block>>
    BY <1>11 DEF Insert
  <2>2. /\ t \in callers /\ lock[U] = t
        /\ \A T \in Type : OneType(T) => U = T
        /\ \A u \in Thread : pc[u] \in Locking => lock[local[u].type] = u
    BY <2>1 DEF HistoryInv, CallInv, Locking
  <2>3. \A u \in Thread \ {t} : pc[u] \in Locking => lock'[local[u].type] = u
    <3> SUFFICES ASSUME NEW u \in Thread \ {t}, pc[u] \in Locking
                 PROVE  lock'[local[u].type] = u
      OBVIOUS
    <3>1. local[u].type \in Type /\ DOMAIN lock = Type
      BY DEF AllocInv, Shape, Locking
    <3>2. QED
      BY <2>1, <2>2, <3>1
  <2>4. QED
    BY <2>1, <2>2, <2>3, HistoryKept DEF Making, Locking
<1>12. ASSUME NEW t \in Thread, Construct(t)
       PROVE  HistoryInv'
  <2>1. Goto(t, "idle", None) /\ UNCHANGED <<setup, lock, objects, block>>
    BY <1>12 DEF Construct
  <2>2. QED
    BY <2>1, HistoryRoam DEF Making
<1>13. ASSUME NEW t \in Thread, NEW o \in alive, Destroy(t, o)
       PROVE  HistoryInv'
  <2> DEFINE value == [type |-> objects[o].type, ptr |-> objects[o].ptr,
                       id |-> 0, object |-> o]
  <2>1. /\ Goto(t, "delete", value) /\ t \in callers
        /\ UNCHANGED <<setup, lock, objects, block>>
    BY <1>13 DEF Destroy, MayCall
  <2>2. o \in 1 .. Len(objects) /\ value.type = objects[o].type
    BY DEF AllocInv, Shape
  <2> HIDE DEF value
  <2>3. \A T \in Type : OneType(T) => value.type = T
    BY <2>2 DEF HistoryInv, CallInv
  <2>4. QED
    BY <2>1, <2>3, HistoryRoam DEF Making
<1>14. ASSUME NEW t \in Thread, Deallocate(t)
       PROVE  HistoryInv'
  <2>1. /\ Goto(t, "idle", None) /\ UNCHANGED <<setup, lock, objects>>
        /\ block' = [q \in DOMAIN block \ {local[t].ptr} |-> block[q]]
    BY <1>14 DEF Deallocate
  <2>2. \A u \in Thread : pc[u] \in Locking => lock'[local[u].type] = u
    BY <2>1 DEF HistoryInv, CallInv
  <2>3. QED
    BY <2>1, <2>2, HistoryKept DEF Making, Locking
<1>15. CASE UNCHANGED allocVars
  BY <1>15, HistoryFrame DEF allocVars, setup
<1>16. QED
  BY <1>1, <1>2, <1>3, <1>4, <1>5, <1>6, <1>7, <1>8, <1>9, <1>10, <1>11, <1>12,
     <1>13, <1>14, <1>15 DEF AllocNext, Step

-----------------------------------------------------------------------------
(* While no two threads add to the counter at once, objects are numbered in  *)
(* the order they are allocated in.                                          *)

\* id was read at p as the id of an object: it is the object's number, or that
\* of an object another thread allocated since, elsewhere.
Between(object, id, p) ==
  /\ id \in object .. Len(objects)
  /\ \A k \in object + 1 .. id :
       objects[k].ptr # p /\ objects[k].by # objects[object].by

CountInv ==
  /\ \A t \in Thread : pc[t] \in Locking =>
       local[t].id = counter /\ local[t].object = Len(objects)
  /\ (\E t \in Thread : pc[t] = "add") => counter + 1 = Len(objects)
  /\ (\A t \in Thread : pc[t] # "add") => counter = Len(objects)
  /\ \A U \in Type : \A p \in DOMAIN map[U] : map[U][p] = block[p]

BetweenInv ==
  /\ \A p \in Address : memory[p].object # 0 =>
       Between(memory[p].object, memory[p].id, p)
  /\ \A t \in Thread : observer[t].object # 0 =>
       Between(observer[t].object, observer[t].id, observer[t].ptr)

\* What a living object is read as has its type.
KindInv ==
  \A t \in Thread :
    /\ pc[t] = "read" /\ memory[local[t].ptr].object \in alive =>
         objects[memory[local[t].ptr].object].type = local[t].type
    /\ observer[t].object \in alive =>
         objects[observer[t].object].type = observer[t].type

SerialInv == OneAdder => CountInv /\ BetweenInv /\ KindInv

(* One thread at most is between its read of the counter and the unlock.     *)
LEMMA OneAdding ==
  ASSUME AllocInv, HistoryInv, OneAdder, NEW t \in Thread
  PROVE  /\ pc[t] \in Locking => \A u \in Thread : pc[u] \in Locking => u = t
         /\ pc[t] = "new" /\ lock[local[t].type] = NoThread
              => \A u \in Thread : pc[u] \notin Locking
<1>1. CASE \E T \in Type : OneType(T)
  <2>1. PICK T \in Type : OneType(T)
    BY <1>1
  <2>2. \A u \in Thread : pc[u] \in Locking \union {"new"} => local[u].type = T
    BY <2>1 DEF HistoryInv, CallInv, Locking
  <2>3. \A u \in Thread : pc[u] \in Locking => lock[T] = u
    BY <2>2 DEF HistoryInv, CallInv
  <2>4. QED
    BY <2>2, <2>3, AllocatorAssumption
<1>2. CASE Cardinality(callers) = 1
  <2>1. IsFiniteSet(callers)
    BY FS_Subset, AllocatorAssumption DEF AllocInv
  <2>2. PICK s : callers = {s}
    BY <1>2, <2>1, FS_Singleton
  <2>3. \A u \in Thread : pc[u] # "idle" => u = s
    BY <2>2 DEF HistoryInv, CallInv
  <2>4. QED
    BY <2>3 DEF Locking
<1>3. QED
  BY <1>1, <1>2 DEF OneAdder, OneType

LEMMA SerialFrame ==
  ASSUME SerialInv, UNCHANGED <<setup, pc, local, heapVars, observer>>
  PROVE  SerialInv'
<1>1. UNCHANGED <<types_of, callers, pc, local, map, counter, memory, objects, block,
                  alive, observer>>
  BY DEF setup, heapVars
<1>2. SUFFICES ASSUME OneAdder
               PROVE  (CountInv /\ BetweenInv /\ KindInv)'
  BY <1>1 DEF SerialInv, OneAdder
<1>3. CountInv'
  BY <1>1, <1>2 DEF SerialInv, CountInv
<1>4. BetweenInv'
  BY <1>1, <1>2 DEF SerialInv, BetweenInv, Between
<1>5. KindInv'
  BY <1>1, <1>2 DEF SerialInv, KindInv
<1>6. QED
  BY <1>3, <1>4, <1>5

\* What an observer may be, once it is made.
Sound(ob) ==
  /\ ob.object # 0 => Between(ob.object, ob.id, ob.ptr)
  /\ ob.object \in alive => objects[ob.object].type = ob.type

(* A step of t that takes and leaves no lock, writes no memory, and enters   *)
(* nothing in a map.                                                         *)
LEMMA SerialKept ==
  ASSUME AllocInv, SerialInv, NEW t \in Thread, NEW at, NEW value, NEW ob,
         Goto(t, at, value), pc[t] \notin Locking, at \notin Locking,
         UNCHANGED <<setup, counter, memory, objects>>,
         alive' \subseteq alive,
         \A U \in Type : /\ DOMAIN map'[U] \subseteq DOMAIN map[U]
                         /\ \A q \in DOMAIN map'[U] : /\ map'[U][q] = map[U][q]
                                                      /\ block'[q] = block[q],
         at = "read" /\ memory[value.ptr].object \in alive
           => objects[memory[value.ptr].object].type = value.type,
         observer' = [observer EXCEPT ![t] = ob],
         OneAdder => Sound(ob)
  PROVE  SerialInv'
<1>1. \A u \in Thread :
        \/ u # t /\ pc'[u] = pc[u] /\ local'[u] = local[u]
        \/ u = t /\ pc'[u] = at /\ local'[u] = value
  BY GotoOthers DEF AllocInv
<1>2. UNCHANGED <<types_of, callers, counter, memory, objects>>
  BY DEF setup
<1>3. SUFFICES ASSUME OneAdder
               PROVE  (CountInv /\ BetweenInv /\ KindInv)'
  BY <1>2 DEF SerialInv, OneAdder
<1>4. \A u \in Thread : observer'[u] = observer[u] \/ observer'[u] = ob
  BY DEF AllocInv, Shape
<1>5. \A u \in Thread : Sound(observer'[u])
  <2>1. \A u \in Thread : Sound(observer[u])
    BY <1>3 DEF SerialInv, BetweenInv, KindInv, Sound
  <2>2. QED
    BY <1>3, <1>4, <2>1
<1>6. CountInv'
  <2>1. \A u \in Thread : pc'[u] \in Locking \/ pc[u] \in Locking =>
          pc'[u] = pc[u] /\ local'[u] = local[u]
    BY <1>1
  <2>2. \A u \in Thread : pc'[u] = "add" <=> pc[u] = "add"
    BY <2>1 DEF Locking
  <2>3. QED
    BY <1>2, <1>3, <2>1, <2>2 DEF SerialInv, CountInv
<1>7. BetweenInv'
  BY <1>2, <1>3, <1>5 DEF SerialInv, BetweenInv, Between, Sound
<1>8. KindInv'
  <2>1. \A u \in Thread :
          pc'[u] = "read" /\ memory[local'[u].ptr].object \in alive =>
            objects[memory[local'[u].ptr].object].type = local'[u].type
    BY <1>1, <1>3 DEF SerialInv, KindInv
  <2>2. QED
    BY <1>2, <1>5, <2>1 DEF KindInv, Sound
<1>9. QED
  BY <1>6, <1>7, <1>8

(* Calls that begin, look, or end without a trace.                           *)
LEMMA SerialRoam ==
  ASSUME AllocInv, MapsInv, SerialInv, NEW t \in Thread,
         \/ New(t)
         \/ \E T \in Type : LookUp(t, T)
         \/ FinishLookUp(t)
         \/ \E o \in constructed : Observe(t, o)
         \/ Test(t)
         \/ Read(t)
  PROVE  SerialInv'
<1> USE NoneValue
<1>1. UNCHANGED <<setup, map, counter, memory, objects, block, alive>>
  BY DEF New, LookUp, FinishLookUp, Observe, Test, Read, Begin, heapVars
<1>2. /\ observer = [observer EXCEPT ![t] = observer[t]]
      /\ OneAdder => Sound(observer[t]) /\ Sound(None)
  BY ObjectsCounted DEF AllocInv, Shape, SerialInv, BetweenInv, KindInv, Sound
<1>3. /\ alive' \subseteq alive
      /\ \A U \in Type : /\ DOMAIN map'[U] \subseteq DOMAIN map[U]
                         /\ \A q \in DOMAIN map'[U] : /\ map'[U][q] = map[U][q]
                                                      /\ block'[q] = block[q]
  BY <1>1
<1>4. ASSUME NEW at \in {"new", "lookup", "observe", "idle"}, NEW value,
             Goto(t, at, value), pc[t] \notin Locking, observer' = observer
      PROVE  SerialInv'
  <2>1. observer' = [observer EXCEPT ![t] = observer[t]]
    BY <1>2, <1>4
  <2>2. QED
    BY <1>1, <1>2, <1>3, <1>4, <2>1, SerialKept DEF Locking
<1>5. CASE \/ New(t)
           \/ \E T \in Type : LookUp(t, T)
           \/ FinishLookUp(t)
           \/ \E o \in constructed : Observe(t, o)
  <2>1. /\ pc[t] \in {"idle", "lookup"} /\ observer' = observer
        /\ \E at \in {"new", "lookup", "observe", "idle"} : \E value : Goto(t, at, value)
    BY <1>5 DEF New, LookUp, FinishLookUp, Observe, Begin, MayCall
  <2>2. QED
    BY <1>4, <2>1 DEF Locking
<1>6. CASE Test(t)
  <2>1. pc[t] = "observe" /\ local[t].ptr \in Address /\ local[t].type \in Type
    BY <1>6 DEF Test, AllocInv, Shape
  <2>2. CASE local[t].ptr \in DOMAIN map[local[t].type]
    <3> DEFINE p == local[t].ptr
               o == memory[p].object
    <3>1. ASSUME o \in alive
          PROVE  objects[o].type = local[t].type
      <4>1. o # 0
        BY <3>1, ObjectsCounted DEF AllocInv
      <4>2. objects[o].ptr = p /\ block[p] = o
        BY <2>1, <3>1, <4>1 DEF MapsInv, ReadInv, OwnedInv
      <4>3. objects[block[p]].type = local[t].type
        BY <2>1, <2>2 DEF MapsInv, EntryInv
      <4>4. QED
        BY <4>2, <4>3
    <3>2. Goto(t, "read", local[t]) /\ observer' = [observer EXCEPT ![t] = observer[t]]
      BY <1>2, <1>6, <2>2 DEF Test
    <3>3. pc[t] \notin Locking /\ "read" \notin Locking
      BY <2>1 DEF Locking
    <3>4. QED
      BY <1>1, <1>2, <1>3, <3>1, <3>2, <3>3, SerialKept
  <2>3. CASE local[t].ptr \notin DOMAIN map[local[t].type]
    <3>1. Goto(t, "idle", None) /\ observer' = [observer EXCEPT ![t] = None]
      BY <1>6, <2>3 DEF Test
    <3>2. QED
      BY <1>1, <1>2, <1>3, <2>1, <3>1, SerialKept DEF Locking
  <2>4. QED
    BY <2>2, <2>3
<1>7. CASE Read(t)
  <2> DEFINE p == local[t].ptr
             ob == [type |-> local[t].type, ptr |-> p,
                    id |-> memory[p].id, object |-> memory[p].object]
  <2>1. /\ pc[t] = "read" /\ p \in Address /\ Goto(t, "idle", None)
        /\ observer' = [observer EXCEPT ![t] = ob]
    BY <1>7 DEF Read, AllocInv, Shape
  <2>2. /\ ob.object = memory[p].object /\ ob.id = memory[p].id
        /\ ob.ptr = p /\ ob.type = local[t].type
    OBVIOUS
  <2> HIDE DEF ob
  <2>3. OneAdder => Sound(ob)
    BY <2>1, <2>2 DEF SerialInv, BetweenInv, KindInv, Sound
  <2>4. QED
    BY <1>1, <1>3, <2>1, <2>3, SerialKept DEF Locking
<1>8. QED
  BY <1>5, <1>6, <1>7

(* The lock was free, so nobody adds: the counter has the number of the last *)
(* object, and the new one is the next.                                      *)
LEMMA SerialMalloc ==
  ASSUME AllocInv, MapsInv, HistoryInv, SerialInv,
         NEW t \in Thread, NEW p \in Address, Malloc(t, p)
  PROVE  SerialInv'
<1> DEFINE U == local[t].type
           o == Len(objects) + 1
           new == [type |-> U, ptr |-> p, by |-> t]
           value == [type |-> U, ptr |-> p, id |-> counter, object |-> o]
<1>1. /\ pc[t] = "new" /\ lock[U] = NoThread /\ p \notin DOMAIN block
      /\ objects' = Append(objects, new)
      /\ Goto(t, "add", value)
      /\ UNCHANGED <<types_of, callers, map, counter, memory, alive, observer>>
  BY DEF Malloc, Free, setup
<1>2. \A q \in DOMAIN block : block'[q] = block[q]
  BY <1>1 DEF Malloc
<1>3. /\ Shape /\ Len(objects) \in Nat /\ U \in Type /\ objects \in Seq(Made)
      /\ alive \subseteq constructed /\ constructed \subseteq 1 .. Len(objects)
      /\ counter \in Nat
  BY <1>1 DEF AllocInv, Shape
<1>4. /\ Len(objects') = o
      /\ \A k \in 1 .. Len(objects) : objects'[k] = objects[k]
  <2>1. new \in Made
    BY <1>3 DEF Made
  <2> HIDE DEF new
  <2>2. QED
    BY <1>1, <1>3, <2>1
<1>5. \A u \in Thread :
        \/ u # t /\ pc'[u] = pc[u] /\ local'[u] = local[u]
        \/ u = t /\ pc'[u] = "add" /\ local'[u] = value
  BY <1>1, <1>3, GotoOthers
<1>6. value.id = counter /\ value.object = o
  OBVIOUS
<1> HIDE DEF new, value
<1>7. SUFFICES ASSUME OneAdder
               PROVE  (CountInv /\ BetweenInv /\ KindInv)'
  BY <1>1 DEF SerialInv, OneAdder
<1>8. /\ \A u \in Thread : pc[u] \notin Locking
      /\ CountInv /\ BetweenInv /\ KindInv
  BY <1>1, <1>7, OneAdding DEF SerialInv
<1>9. counter = Len(objects)
  BY <1>8 DEF CountInv, Locking
<1>10. CountInv'
  <2>1. \A u \in Thread : pc'[u] \in Locking =>
          local'[u].id = counter /\ local'[u].object = Len(objects')
    BY <1>4, <1>5, <1>6, <1>8
  <2>2. counter + 1 = Len(objects') /\ pc'[t] = "add"
    BY <1>4, <1>5, <1>9
  <2>3. \A V \in Type : \A q \in DOMAIN map[V] : map[V][q] = block'[q]
    BY <1>2, <1>8 DEF CountInv, MapsInv, EntryInv
  <2>4. QED
    BY <1>1, <2>1, <2>2, <2>3 DEF CountInv
<1>11. ASSUME NEW object \in 1 .. Len(objects), NEW id, NEW q,
              Between(object, id, q)
       PROVE  Between(object, id, q)'
  <2>1. id \in object .. Len(objects') /\ id \in 1 .. Len(objects)
    BY <1>3, <1>4, <1>11 DEF Between
  <2>2. \A k \in object + 1 .. id : k \in 1 .. Len(objects)
    BY <1>3, <2>1
  <2>3. QED
    BY <1>4, <1>11, <2>1, <2>2 DEF Between
<1>12. BetweenInv'
  <2>1. ASSUME NEW q \in Address, memory'[q].object # 0
        PROVE  Between(memory[q].object, memory[q].id, q)'
    <3>1. /\ memory[q].object \in 1 .. Len(objects)
          /\ Between(memory[q].object, memory[q].id, q)
      BY <1>1, <1>3, <1>8, <2>1 DEF MapsInv, ReadInv, BetweenInv
    <3>2. QED
      BY <1>1, <1>11, <3>1
  <2>2. ASSUME NEW u \in Thread, observer'[u].object # 0
        PROVE  Between(observer[u].object, observer[u].id, observer[u].ptr)'
    <3>1. /\ observer[u].object \in 1 .. Len(objects)
          /\ Between(observer[u].object, observer[u].id, observer[u].ptr)
      BY <1>1, <1>3, <1>8, <2>2 DEF MapsInv, ReadInv, BetweenInv
    <3>2. QED
      BY <1>1, <1>11, <3>1
  <2>3. QED
    BY <2>1, <2>2 DEF BetweenInv
<1>13. KindInv'
  <2>1. \A u \in Thread : pc'[u] = "read" => pc[u] = "read" /\ local'[u] = local[u]
    BY <1>5
  <2>2. \A k \in alive : objects'[k] = objects[k]
    BY <1>3, <1>4
  <2>3. ASSUME NEW u \in Thread
        PROVE  /\ pc'[u] = "read" /\ memory[local'[u].ptr].object \in alive =>
                    objects'[memory[local'[u].ptr].object].type = local'[u].type
               /\ observer[u].object \in alive =>
                    objects'[observer[u].object].type = observer[u].type
    <3>1. /\ pc[u] = "read" /\ memory[local[u].ptr].object \in alive =>
               objects[memory[local[u].ptr].object].type = local[u].type
          /\ observer[u].object \in alive =>
               objects[observer[u].object].type = observer[u].type
      BY <1>8 DEF KindInv
    <3>2. QED
      BY <2>1, <2>2, <3>1
  <2>4. QED
    BY <1>1, <2>3 DEF KindInv
<1>14. QED
  BY <1>10, <1>12, <1>13

(* What is written back is the number of the object it is added for.         *)
LEMMA SerialWriteCounter ==
  ASSUME AllocInv, HistoryInv, SerialInv, NEW t \in Thread, WriteCounter(t)
  PROVE  SerialInv'
<1> DEFINE value == [local[t] EXCEPT !.id = Added(t)]
<1>1. /\ pc[t] = "add" /\ counter' = local[t].id + 1
      /\ Goto(t, "insert", value)
      /\ UNCHANGED <<types_of, callers, map, memory, objects, block, alive, observer>>
  BY DEF WriteCounter, Added, setup
<1>2. Shape /\ local[t] \in Values
  BY DEF AllocInv, Shape
<1>3. value.id = counter' /\ value.object = local[t].object
  BY <1>1, <1>2 DEF Values, Added
<1> HIDE DEF value
<1>4. \A u \in Thread :
        \/ u # t /\ pc'[u] = pc[u] /\ local'[u] = local[u]
        \/ u = t /\ pc'[u] = "insert" /\ local'[u] = value
  BY <1>1, <1>2, GotoOthers
<1>5. SUFFICES ASSUME OneAdder
               PROVE  (CountInv /\ BetweenInv /\ KindInv)'
  BY <1>1 DEF SerialInv, OneAdder
<1>6. /\ \A u \in Thread : pc[u] \in Locking => u = t
      /\ CountInv /\ BetweenInv /\ KindInv
  BY <1>1, <1>5, OneAdding DEF SerialInv, Locking
<1>7. CountInv'
  <2>1. counter' = Len(objects) /\ local[t].object = Len(objects)
    BY <1>1, <1>6 DEF CountInv, Locking
  <2>2. \A u \in Thread : pc'[u] # "add" /\ (pc'[u] \in Locking => u = t)
    BY <1>4, <1>6 DEF Locking
  <2>3. QED
    BY <1>1, <1>3, <1>4, <1>6, <2>1, <2>2 DEF CountInv
<1>8. BetweenInv'
  BY <1>1, <1>6 DEF BetweenInv, Between
<1>9. KindInv'
  <2>1. \A u \in Thread : pc'[u] = "read" => pc[u] = "read" /\ local'[u] = local[u]
    BY <1>4
  <2>2. QED
    BY <1>1, <1>6, <2>1 DEF KindInv
<1>10. QED
  BY <1>7, <1>8, <1>9

(* Whether add returns what it wrote or what is there by now, it is the      *)
(* number of the object.                                                     *)
LEMMA SerialInsert ==
  ASSUME AllocInv, MapsInv, HistoryInv, SerialInv, NEW t \in Thread, NEW id,
         Insert(t, id)
  PROVE  SerialInv'
<1> DEFINE U == local[t].type
           p == local[t].ptr
<1>1. /\ pc[t] = "insert" /\ id \in {local[t].id, counter}
      /\ map' = [map EXCEPT ![U] = [q \in DOMAIN map[U] \union {p} |->
                                      IF q = p THEN id ELSE map[U][q]]]
      /\ Goto(t, "construct", local[t])
      /\ UNCHANGED <<types_of, callers, counter, memory, objects, block,
                     alive, observer>>
  BY DEF Insert, Returned, setup, AllocInv, Shape
<1>2. Shape /\ U \in Type /\ DOMAIN map = Type
  BY <1>1 DEF AllocInv, Shape
<1>3. \A u \in Thread :
        \/ u # t /\ pc'[u] = pc[u] /\ local'[u] = local[u]
        \/ u = t /\ pc'[u] = "construct" /\ local'[u] = local[u]
  BY <1>1, <1>2, GotoOthers
<1>4. SUFFICES ASSUME OneAdder
               PROVE  (CountInv /\ BetweenInv /\ KindInv)'
  BY <1>1 DEF SerialInv, OneAdder
<1>5. /\ \A u \in Thread : pc[u] \in Locking => u = t
      /\ CountInv /\ BetweenInv /\ KindInv
  BY <1>1, <1>4, OneAdding DEF SerialInv, Locking
<1>6. CountInv'
  <2>1. id = counter /\ counter = Len(objects) /\ local[t].object = Len(objects)
    BY <1>1, <1>5 DEF CountInv, Locking
  <2>2. block[p] = id
    BY <1>1, <2>1 DEF MapsInv, OwnedInv, Holding
  <2>3. \A V \in Type : \A q \in DOMAIN map'[V] : map'[V][q] = block[q]
    BY <1>1, <1>2, <1>5, <2>2 DEF CountInv
  <2>4. \A u \in Thread : pc'[u] \notin Locking
    BY <1>3, <1>5 DEF Locking
  <2>5. QED
    BY <1>1, <2>1, <2>3, <2>4 DEF CountInv, Locking
<1>7. BetweenInv'
  BY <1>1, <1>5 DEF BetweenInv, Between
<1>8. KindInv'
  <2>1. \A u \in Thread : pc'[u] = "read" => pc[u] = "read" /\ local'[u] = local[u]
    BY <1>3
  <2>2. QED
    BY <1>1, <1>5, <2>1 DEF KindInv
<1>9. QED
  BY <1>6, <1>7, <1>8

(* The counter is the object's number or, if others allocated since, that of *)
(* one of theirs; and nobody is about to read the object as of another type. *)
LEMMA SerialConstruct ==
  ASSUME AllocInv, MapsInv, HistoryInv, SerialInv, NEW t \in Thread, Construct(t)
  PROVE  SerialInv'
<1> DEFINE o == local[t].object
           p == local[t].ptr
<1>1. /\ pc[t] = "construct"
      /\ memory' = [memory EXCEPT ![p] = [id |-> counter, object |-> o]]
      /\ alive' = alive \union {o}
      /\ Goto(t, "idle", None)
      /\ UNCHANGED <<types_of, callers, map, counter, objects, block, observer>>
  BY DEF Construct, setup
<1>2. /\ Shape /\ Len(objects) \in Nat /\ counter \in Nat
      /\ p \in Address /\ o \in 1 .. Len(objects)
      /\ memory \in [Address -> [id : Nat, object : Nat]]
      /\ alive \subseteq constructed
  BY <1>1 DEF AllocInv, Shape, Holding
<1>3. \A u \in Thread :
        \/ u # t /\ pc'[u] = pc[u] /\ local'[u] = local[u]
        \/ u = t /\ pc'[u] = "idle" /\ local'[u] = None
  BY <1>1, <1>2, GotoOthers
<1>4. /\ memory'[p].id = counter /\ memory'[p].object = o
      /\ \A q \in Address : q # p => memory'[q] = memory[q]
  BY <1>1, <1>2
<1>5. /\ block[p] = o /\ p \in DOMAIN block /\ objects[o].type = local[t].type
      /\ o \notin constructed /\ o # 0
  BY <1>1, <1>2 DEF MapsInv, OwnedInv, Holding, Making
<1>6. SUFFICES ASSUME OneAdder
               PROVE  (CountInv /\ BetweenInv /\ KindInv)'
  BY <1>1 DEF SerialInv, OneAdder
<1>7. CountInv /\ BetweenInv /\ KindInv
  BY <1>6 DEF SerialInv
<1>8. CountInv'
  <2>1. \A u \in Thread : pc'[u] \in Locking =>
          pc[u] \in Locking /\ pc'[u] = pc[u] /\ local'[u] = local[u]
    BY <1>3 DEF Locking
  <2>2. \A u \in Thread : pc'[u] = "add" <=> pc[u] = "add"
    BY <1>1, <1>3
  <2>3. QED
    BY <1>1, <1>7, <2>1, <2>2 DEF CountInv
<1>9. Between(o, counter, p)
  <2>1. counter \in o .. Len(objects)
    <3>1. CASE \E u \in Thread : pc[u] = "add"
      <4>1. PICK u \in Thread : pc[u] = "add"
        BY <3>1
      <4>2. local[u].object = Len(objects) /\ counter + 1 = Len(objects)
        BY <1>7, <4>1 DEF CountInv, Locking
      <4>3. local[u].object # o
        BY <1>1, <4>1 DEF MapsInv, OwnedInv, Holding
      <4>4. QED
        BY <1>2, <4>2, <4>3
    <3>2. CASE \A u \in Thread : pc[u] # "add"
      BY <1>2, <1>7, <3>2 DEF CountInv
    <3>3. QED
      BY <3>1, <3>2
  <2>2. /\ \A k \in o + 1 .. Len(objects) : objects[k].ptr # p /\ objects[k].by # t
        /\ objects[o].by = t
    BY <1>1, <1>5 DEF HistoryInv, NumberInv, Making
  <2>3. \A k \in o + 1 .. counter : k \in o + 1 .. Len(objects)
    BY <1>2, <2>1
  <2>4. QED
    BY <2>1, <2>2, <2>3 DEF Between
<1>10. BetweenInv'
  <2>1. ASSUME NEW q \in Address, memory'[q].object # 0
        PROVE  Between(memory'[q].object, memory'[q].id, q)
    BY <1>4, <1>7, <1>9, <2>1 DEF BetweenInv
  <2>2. QED
    BY <1>1, <1>7, <2>1 DEF BetweenInv, Between
<1>11. KindInv'
  <2>1. ASSUME NEW u \in Thread, pc'[u] = "read", memory'[local'[u].ptr].object \in alive'
        PROVE  objects[memory'[local'[u].ptr].object].type = local'[u].type
    <3>1. u # t /\ pc[u] = "read" /\ local'[u] = local[u] /\ local[u].ptr \in Address
      BY <1>2, <1>3, <2>1 DEF Shape
    <3>2. CASE local[u].ptr = p
      <4>1. CASE \E T \in Type : OneType(T)
        <5>1. local[u].type = local[t].type
          BY <1>1, <3>1, <4>1 DEF HistoryInv, CallInv
        <5>2. QED
          BY <1>4, <1>5, <3>1, <3>2, <5>1
      <4>2. CASE Cardinality(callers) = 1
        <5>1. IsFiniteSet(callers)
          BY FS_Subset, AllocatorAssumption DEF AllocInv
        <5>2. PICK s : callers = {s}
          BY <4>2, <5>1, FS_Singleton
        <5>3. u = s /\ t = s
          BY <1>1, <3>1, <5>2 DEF HistoryInv, CallInv
        <5>4. QED
          BY <3>1, <5>3
      <4>3. QED
        BY <1>6, <4>1, <4>2 DEF OneAdder, OneType
    <3>3. CASE local[u].ptr # p
      <4> DEFINE k == memory[local[u].ptr].object
      <4>1. memory'[local[u].ptr] = memory[local[u].ptr]
        BY <1>4, <3>1, <3>3
      <4>2. k # o
        BY <1>5, <3>1 DEF MapsInv, ReadInv
      <4>3. k \in alive
        BY <1>1, <2>1, <3>1, <4>1, <4>2
      <4>4. QED
        BY <1>7, <3>1, <4>1, <4>3 DEF KindInv
    <3>4. QED
      BY <3>2, <3>3
  <2>2. ASSUME NEW u \in Thread, observer[u].object \in alive'
        PROVE  objects[observer[u].object].type = observer[u].type
    <3>1. observer[u].object # o
      BY <1>5 DEF MapsInv, ReadInv
    <3>2. QED
      BY <1>1, <1>7, <2>2, <3>1 DEF KindInv
  <2>3. QED
    BY <1>1, <2>1, <2>2 DEF KindInv
<1>12. QED
  BY <1>8, <1>10, <1>11

(* What goes leaves the rest as it is.                                       *)
LEMMA SerialDelete ==
  ASSUME AllocInv, MapsInv, SerialInv, NEW t \in Thread,
         Deallocate(t) \/ \E o \in alive : Destroy(t, o)
  PROVE  SerialInv'
<1>1. /\ observer' = [observer EXCEPT ![t] = observer[t]]
      /\ OneAdder => Sound(observer[t])
      /\ UNCHANGED <<setup, counter, memory, objects>>
  BY DEF AllocInv, Shape, SerialInv, BetweenInv, KindInv, Sound, Deallocate, Destroy
<1>2. ASSUME NEW o \in alive, Destroy(t, o)
      PROVE  SerialInv'
  <2> DEFINE value == [type |-> objects[o].type, ptr |-> objects[o].ptr,
                       id |-> 0, object |-> o]
  <2>1. /\ pc[t] = "idle" /\ Goto(t, "delete", value)
        /\ alive' \subseteq alive /\ map' = map /\ block' = block
    BY <1>2 DEF Destroy, MayCall
  <2> HIDE DEF value
  <2>2. /\ pc[t] \notin Locking /\ "delete" \notin Locking
        /\ \A U \in Type : /\ DOMAIN map'[U] \subseteq DOMAIN map[U]
                           /\ \A q \in DOMAIN map'[U] : /\ map'[U][q] = map[U][q]
                                                        /\ block'[q] = block[q]
    BY <2>1 DEF Locking
  <2>3. QED
    BY <1>1, <2>1, <2>2, SerialKept
<1>3. CASE Deallocate(t)
  <2> DEFINE U == local[t].type
             p == local[t].ptr
  <2>1. /\ pc[t] = "delete" /\ Goto(t, "idle", None) /\ alive' = alive
        /\ block' = [q \in DOMAIN block \ {p} |-> block[q]]
        /\ map' = [map EXCEPT ![U] = [q \in DOMAIN map[U] \ {p} |-> map[U][q]]]
    BY <1>3 DEF Deallocate, Erased, AllocInv, Shape
  <2>2. /\ U \in Type /\ DOMAIN map = Type
        /\ block[p] = local[t].object /\ objects[local[t].object].type = U
    BY <2>1 DEF AllocInv, Shape, MapsInv, OwnedInv, Holding
  <2>3. ASSUME NEW V \in Type
        PROVE  /\ DOMAIN map'[V] \subseteq DOMAIN map[V]
               /\ \A q \in DOMAIN map'[V] :
                    map'[V][q] = map[V][q] /\ block'[q] = block[q]
    <3>1. \A q \in DOMAIN map[V] : q \in DOMAIN block
      BY DEF MapsInv, EntryInv
    <3>2. CASE V = U
      BY <2>1, <2>2, <3>1, <3>2
    <3>3. CASE V # U
      <4>1. p \notin DOMAIN map[V]
        BY <2>2, <3>3 DEF MapsInv, EntryInv
      <4>2. QED
        BY <2>1, <2>2, <3>1, <3>3, <4>1
    <3>4. QED
      BY <3>2, <3>3
  <2>4. QED
    BY <1>1, <2>1, <2>3, SerialKept DEF Locking
<1>4. QED
  BY <1>2, <1>3

(* At the start the counter is 0, as the number of objects.                  *)
LEMMA SerialInit ==
  ASSUME AllocInit
  PROVE  SerialInv
<1> USE NoneValue
<1>1. /\ \A t \in Thread : pc[t] = "idle" /\ observer[t] = None
      /\ counter = 0 /\ Len(objects) = 0 /\ alive = {}
      /\ \A T \in Type : DOMAIN map[T] = {}
      /\ \A p \in Address : memory[p].object = 0
  BY DEF AllocInit
<1>2. QED
  BY <1>1 DEF SerialInv, CountInv, BetweenInv, KindInv, Locking

ExactInv == AllocInv /\ MapsInv /\ HistoryInv /\ SerialInv

(* Every step keeps the order.                                               *)
LEMMA SerialStep ==
  ASSUME ExactInv, [AllocNext]_allocVars
  PROVE  SerialInv'
<1> USE DEF ExactInv
<1>1. CASE Stop
  BY <1>1, SerialFrame DEF Stop
<1>2. ASSUME NEW t \in Thread,
             StartInstance(t) \/ AddAllocator(t) \/ FinishInstance(t)
      PROVE  SerialInv'
  BY <1>2, SerialFrame DEF StartInstance, AddAllocator, FinishInstance
<1>3. ASSUME NEW t \in Thread,
             \/ New(t)
             \/ \E T \in Type : LookUp(t, T)
             \/ FinishLookUp(t)
             \/ \E o \in constructed : Observe(t, o)
             \/ Test(t)
             \/ Read(t)
      PROVE  SerialInv'
  BY <1>3, SerialRoam
<1>4. ASSUME NEW t \in Thread, \E p \in Address : Malloc(t, p)
      PROVE  SerialInv'
  BY <1>4, SerialMalloc
<1>5. ASSUME NEW t \in Thread, WriteCounter(t)
      PROVE  SerialInv'
  BY <1>5, SerialWriteCounter
<1>6. ASSUME NEW t \in Thread, \E id \in 0 .. MaxObjects : Insert(t, id)
      PROVE  SerialInv'
  BY <1>6, SerialInsert
<1>7. ASSUME NEW t \in Thread, Construct(t)
      PROVE  SerialInv'
  BY <1>7, SerialConstruct
<1>8. ASSUME NEW t \in Thread, Deallocate(t) \/ \E o \in alive : Destroy(t, o)
      PROVE  SerialInv'
  BY <1>8, SerialDelete
<1>9. CASE UNCHANGED allocVars
  BY <1>9, SerialFrame DEF allocVars, setup, heapVars
<1>10. QED
  BY <1>1, <1>2, <1>3, <1>4, <1>5, <1>6, <1>7, <1>8, <1>9 DEF AllocNext, Step

(* So all of it always holds.                                                *)
LEMMA ExactInvariant == AllocSpec => []ExactInv
<1>1. AllocInit => ExactInv
  BY AllocInitInv, MapsInit, HistoryInit, SerialInit DEF ExactInv
<1>2. ExactInv /\ [AllocNext]_allocVars => ExactInv'
  BY AllocStepInv, MapsStep, HistoryStep, SerialStep DEF ExactInv
<1>3. QED
  BY <1>1, <1>2, PTL DEF AllocSpec

-----------------------------------------------------------------------------
(* The properties.                                                           *)

\* The map of a type has exactly the blocks of its objects, from the end of
\* allocate to the end of deallocate, whatever types the threads use and
\* however their unprotected increments of the counter overtake each other;
\* and while no two threads add at once, each under an id of its own.
THEOREM MapsCorrect == AllocSpec => []MapsExact
<1>1. ExactInv => MapsExact
  <2> SUFFICES ASSUME ExactInv
               PROVE  MapsExact
    OBVIOUS
  <2> USE DEF ExactInv
  <2>1. Len(objects) \in Nat /\ Len(objects) <= MaxObjects
    <3>1. Cardinality(Pending) \in Nat
      BY PendingFinite, FS_CardinalityType
    <3>2. QED
      BY <3>1, ObjectsCounted, AllocatorAssumption DEF AllocInv, MapsInv, RoomInv
  <2>2. AllocTypeOK
    <3>1. counter \in 0 .. MaxObjects
      BY <2>1, AllocatorAssumption DEF AllocInv, Shape, MapsInv, IdInv
    <3>2. \A T \in Type : \A p \in DOMAIN map[T] : map[T][p] \in 1 .. MaxObjects
      BY <2>1, AllocatorAssumption DEF MapsInv, IdInv
    <3>3. alive \subseteq constructed /\ constructed \subseteq DOMAIN objects
      BY DEF AllocInv, Shape
    <3>4. \A T \in Type : lock[T] # NoThread =>
            pc[lock[T]] \in {"add", "insert"} /\ local[lock[T]].type = T
      BY DEF MapsInv, LockInv, Locking
    <3>5. QED
      BY <3>1, <3>2, <3>3, <3>4 DEF AllocTypeOK
  <2>3. IdsUnique
    <3> SUFFICES ASSUME OneAdder, NEW T \in Type, NEW U \in Type,
                        NEW p \in DOMAIN map[T], NEW q \in DOMAIN map[U],
                        map[T][p] = map[U][q]
                 PROVE  T = U /\ p = q
      BY DEF IdsUnique
    <3>1. block[p] = block[q] /\ p \in DOMAIN block /\ q \in DOMAIN block
      BY DEF SerialInv, CountInv, MapsInv, EntryInv
    <3>2. objects[block[p]].ptr = p /\ objects[block[q]].ptr = q
      BY <3>1 DEF HistoryInv, NumberInv
    <3>3. objects[block[p]].type = T /\ objects[block[q]].type = U
      BY DEF MapsInv, EntryInv
    <3>4. QED
      BY <3>1, <3>2, <3>3
  <2>4. QED
    BY <2>2, <2>3 DEF MapsExact, MapsInv, EntryInv
<1>2. QED
  BY <1>1, ExactInvariant, PTL

(* An id in the map of the object that has the block now is its number, and  *)
(* that of no other object that had the block.                               *)
LEMMA NumberOfOne ==
  ASSUME AllocInv, NEW object \in Nat, NEW id \in Nat, NEW p,
         Between(object, id, p), objects[id].ptr = p
  PROVE  object = id
<1>1. Len(objects) \in Nat
  BY ObjectsCounted DEF AllocInv
<1>2. QED
  BY <1>1 DEF Between

\* An observer that is valid is valid for the object it was made of: a block
\* that is freed and used again never answers for its former object.
THEOREM ObserverCorrect == AllocSpec => []ObserverExact
<1>1. ExactInv => ObserverExact
  <2> SUFFICES ASSUME ExactInv, OneAdder, NEW t \in Thread, Vaild(observer[t])
               PROVE  block[observer[t].ptr] = observer[t].object
    BY DEF ObserverExact
  <2> USE DEF ExactInv
  <2> DEFINE ob == observer[t]
  <2>1. /\ ob.object # 0 /\ ob.ptr \in DOMAIN map[ob.type]
        /\ map[ob.type][ob.ptr] = ob.id
        /\ ob.type \in Type /\ ob.object \in Nat /\ ob.id \in Nat
    BY DEF Vaild, MapsInv, ReadInv, AllocInv, Shape, Values
  <2>2. ob.ptr \in DOMAIN block /\ block[ob.ptr] = ob.id
    BY <2>1 DEF SerialInv, CountInv, MapsInv, EntryInv
  <2>3. objects[ob.id].ptr = ob.ptr /\ Between(ob.object, ob.id, ob.ptr)
    BY <2>1, <2>2 DEF HistoryInv, NumberInv, SerialInv, BetweenInv
  <2>4. QED
    BY <2>1, <2>2, <2>3, NumberOfOne
<1>2. QED
  BY <1>1, ExactInvariant, PTL

\* An entry of the map that was not what an observer read does not become it:
\* the entry that is made is of an object nobody can have read.
LEMMA StaysInvalid ==
  ASSUME ExactInv, AllocNext, OneAdder, NEW t \in Thread,
         observer'[t] = observer[t], ~ Vaild(observer[t])
  PROVE  ~ Vaild(observer[t])'
<1> USE DEF ExactInv
<1> DEFINE ob == observer[t]
           T == ob.type
<1>1. SUFFICES ASSUME ob.object # 0, ob.ptr \in DOMAIN map'[T],
                      map'[T][ob.ptr] = ob.id
               PROVE  FALSE
  BY DEF Vaild
<1>2. /\ ob.object \in constructed /\ T \in Type
      /\ Between(ob.object, ob.id, ob.ptr)
      /\ ob.object \in Nat /\ ob.id \in Nat
      /\ ~ (ob.ptr \in DOMAIN map[T] /\ map[T][ob.ptr] = ob.id)
  BY <1>1 DEF MapsInv, ReadInv, SerialInv, BetweenInv, Vaild, AllocInv, Shape, Values
<1>3. CASE UNCHANGED map
  BY <1>1, <1>2, <1>3
<1>4. ASSUME NEW u \in Thread, NEW id, Insert(u, id)
      PROVE  FALSE
  <2> DEFINE U == local[u].type
             p == local[u].ptr
  <2>1. /\ pc[u] = "insert" /\ id \in {local[u].id, counter}
        /\ map' = [map EXCEPT ![U] = [q \in DOMAIN map[U] \union {p} |->
                                        IF q = p THEN id ELSE map[U][q]]]
    BY <1>4 DEF Insert, Returned, AllocInv, Shape
  <2>2. U \in Type /\ DOMAIN map = Type
    BY <2>1 DEF AllocInv, Shape
  <2>3. T = U /\ ob.ptr = p /\ ob.id = id
    BY <1>1, <1>2, <2>1, <2>2
  <2>4. id = counter /\ counter = Len(objects) /\ local[u].object = Len(objects)
    <3>1. \A v \in Thread : pc[v] # "add"
      BY <2>1, OneAdding DEF Locking
    <3>2. QED
      BY <2>1, <3>1 DEF SerialInv, CountInv, Locking
  <2>5. objects[ob.id].ptr = ob.ptr /\ local[u].object \notin constructed
    BY <2>1, <2>3, <2>4 DEF MapsInv, OwnedInv, Holding, Making
  <2>6. ob.object = ob.id
    BY <1>2, <2>5, NumberOfOne
  <2>7. QED
    BY <1>2, <2>3, <2>4, <2>5, <2>6
<1>5. ASSUME NEW u \in Thread, Deallocate(u)
      PROVE  FALSE
  <2> DEFINE U == local[u].type
  <2>1. map' = [map EXCEPT ![U] = [q \in DOMAIN map[U] \ {local[u].ptr} |-> map[U][q]]]
    BY <1>5 DEF Deallocate, Erased, AllocInv, Shape
  <2>2. U \in Type /\ DOMAIN map = Type
    BY <1>5 DEF Deallocate, AllocInv, Shape
  <2>3. QED
    BY <1>1, <1>2, <2>1, <2>2
<1>6. \/ UNCHANGED map
      \/ \E u \in Thread : Deallocate(u) \/ \E id \in 0 .. MaxObjects : Insert(u, id)
  BY DEF AllocNext, Stop, Step, StartInstance, AddAllocator, FinishInstance, New,
         Begin, LookUp, FinishLookUp, Malloc, WriteCounter, Construct, Destroy,
         Observe, Test, Read, heapVars
<1>7. QED
  BY <1>3, <1>4, <1>5, <1>6

\* An observer that was found invalid is never valid again, whatever is
\* allocated at its address later.
THEOREM NeverValidAgainCorrect == AllocSpec => NeverValidAgain
<1> DEFINE A == OneAdder => \A t \in Thread :
                  observer'[t] = observer[t] /\ ~ Vaild(observer[t])
                    => ~ Vaild(observer[t])'
<1>1. ExactInv /\ [AllocNext]_allocVars => [A]_allocVars
  BY StaysInvalid
<1>2. QED
  BY <1>1, ExactInvariant, PTL DEF AllocSpec, NeverValidAgain

\* The observer of a living object is valid, unless another thread allocated
\* between the object's allocation and its constructor.  A thread that calls
\* alone never makes its own observers invalid, whatever types it makes objects
\* of, and in whatever order.
THEOREM ObserverCompleteCorrect == AllocSpec => []ObserverComplete
<1>1. ExactInv => ObserverComplete
  <2> SUFFICES ASSUME ExactInv, OneAdder, NEW t \in Thread,
                      observer[t].object \in alive, ~ Vaild(observer[t])
               PROVE  \E o \in observer[t].object + 1 .. observer[t].id :
                        objects[o].by # objects[observer[t].object].by
    BY DEF ObserverComplete
  <2> USE DEF ExactInv
  <2> DEFINE ob == observer[t]
             o == ob.object
  <2>1. o # 0 /\ ob.type \in Type /\ objects[o].ptr = ob.ptr /\ objects[o].type = ob.type
    BY ObjectsCounted DEF AllocInv, MapsInv, ReadInv, SerialInv, KindInv
  <2>2. ob.ptr \in DOMAIN map[ob.type] /\ block[ob.ptr] = o
    BY <2>1 DEF MapsInv, EntryInv, OwnedInv
  <2>3. map[ob.type][ob.ptr] = o
    BY <2>1, <2>2 DEF SerialInv, CountInv
  <2>4. ob.id # o
    BY <2>1, <2>2, <2>3 DEF Vaild
  <2>5. /\ Between(o, ob.id, ob.ptr)
        /\ o \in Nat /\ ob.id \in Nat /\ Len(objects) \in Nat
    BY <2>1, ObjectsCounted DEF SerialInv, BetweenInv, AllocInv, Shape, Values
  <2>6. ob.id \in o + 1 .. ob.id
    BY <2>4, <2>5 DEF Between
  <2>7. objects[ob.id].by # objects[o].by
    BY <2>5, <2>6 DEF Between
  <2>8. QED
    BY <2>6, <2>7
<1>2. QED
  BY <1>1, ExactInvariant, PTL
=============================================================================
