--------------------------- MODULE ObjectAllocator ---------------------------
(***************************************************************************)
(* Core/Allocator.hpp, Core/Object.cpp and Core/observer_ptr.hpp, called   *)
(* from several threads: one allocator per type, made on first use and     *)
(* entered in AllocatorGroup, with a reader-writer lock and a map from     *)
(* address to id; an id counter all types share; objects that take their   *)
(* own id from the counter when they are constructed; and observers, which *)
(* remember an address and an object's id and ask the map whether the      *)
(* object is still there.                                                  *)
(*                                                                         *)
(* The counter is a plain integer: its increment is a read and a write, as *)
(* the build compiles it, protected by nothing between two types.  A freed *)
(* block keeps its bytes until they are written: the allocator's own link  *)
(* is in the first word, where the object has its virtual table.           *)
(***************************************************************************)
EXTENDS Naturals, Sequences, FiniteSets

CONSTANTS
  Thread, Type, Address,
  NoThread,    \* nobody: of a lock, or of a constructor
  MaxObjects   \* bound: objects allocated in a behaviour

ASSUME AllocatorAssumption ==
  /\ IsFiniteSet(Thread) /\ NoThread \notin Thread
  /\ MaxObjects \in Nat

VARIABLES
  types_of,    \* the types each thread makes objects of, fixed from the start
  callers,     \* the threads that call at all, fixed from the start
  quiet,       \* the program begins no more calls
  pc, local,   \* where each thread is in its call, and its local variables
  guard,       \* of each static allocator: how far it is made, and by whom
  group,       \* _allocators_map: the types registered
  group_lock,  \* the readers of the group's lock; a writer takes one step
  lock,        \* the writer of each allocator's lock; readers take one step
  map,         \* _allocations_map of each type: address -> id
  counter,     \* _id_counter
  memory,      \* at each address, the last _id written and the object it was of
  objects,     \* history: type, address and maker of every object allocated
  block,       \* history: the object each block is allocated for
  constructed, \* history: the objects that were constructed
  alive,       \* history: those not destroyed yet
  observer     \* the last observer each thread made

allocVars == <<types_of, callers, quiet, pc, local, guard, group, group_lock, lock, map,
               counter, memory, objects, block, constructed, alive, observer>>
setup == <<types_of, callers>>
registryVars == <<guard, group, group_lock>>
heapVars == <<lock, map, counter, memory, objects, block, constructed, alive>>

None == [type |-> NoThread, ptr |-> 0, id |-> 0, object |-> 0]
Free == Address \ DOMAIN block

AllocInit ==
  /\ types_of \in [Thread -> (SUBSET Type) \ {{}}]
  /\ \/ callers = Thread
     \/ \E t \in Thread : callers = {t}
  /\ quiet = FALSE
  /\ pc = [t \in Thread |-> "idle"]
  /\ local = [t \in Thread |-> None]
  /\ guard = [T \in Type |-> [at |-> "none", by |-> NoThread]]
  /\ group = {}
  /\ group_lock = {}
  /\ lock = [T \in Type |-> NoThread]
  /\ map = [T \in Type |-> [p \in {} |-> 0]]
  /\ counter = 0
  /\ memory = [p \in Address |-> [id |-> 0, object |-> 0]]
  /\ objects = <<>>
  /\ block = [p \in {} |-> 0]
  /\ constructed = {}
  /\ alive = {}
  /\ observer = [t \in Thread |-> None]

Goto(t, at, value) ==
  /\ pc' = [pc EXCEPT ![t] = at]
  /\ local' = [local EXCEPT ![t] = value]

\* A thread between two calls may begin one.
MayCall(t) == ~ quiet /\ t \in callers /\ pc[t] = "idle"

Begin(t, call, value) ==
  /\ MayCall(t)
  /\ Goto(t, call, value)
  /\ UNCHANGED <<setup, quiet, registryVars, heapVars, observer>>

-----------------------------------------------------------------------------
(* get_instance: a static local, whose first caller constructs it while the *)
(* others wait at its guard.  Every call below goes through it.             *)

NeedsInstance(t) == pc[t] \in {"new", "observe", "lookup"}
HasInstance(t) == guard[local[t].type].at = "done"

StartInstance(t) ==
  LET T == local[t].type
  IN  /\ NeedsInstance(t)
      /\ guard[T].at = "none"
      /\ guard' = [guard EXCEPT ![T] = [at |-> "started", by |-> t]]
      /\ UNCHANGED <<setup, quiet, pc, local, group, group_lock, heapVars, observer>>

\* add_allocator, under the write lock of the group.
AddAllocator(t) ==
  LET T == local[t].type
  IN  /\ NeedsInstance(t)
      /\ guard[T] = [at |-> "started", by |-> t]
      /\ group_lock = {}
      /\ group' = group \union {T}
      /\ guard' = [guard EXCEPT ![T].at = "added"]
      /\ UNCHANGED <<setup, quiet, pc, local, group_lock, heapVars, observer>>

\* The rest of the constructor, after which the guard opens.
FinishInstance(t) ==
  LET T == local[t].type
  IN  /\ NeedsInstance(t)
      /\ guard[T] = [at |-> "added", by |-> t]
      /\ guard' = [guard EXCEPT ![T] = [at |-> "done", by |-> NoThread]]
      /\ UNCHANGED <<setup, quiet, pc, local, group, group_lock, heapVars, observer>>

\* Mutant: get_allocator does not look whether the type is registered.
KnownAlways(T) == TRUE
\* _allocators_map.contains
Known(T) == T \in group

\* AllocatorGroup::get_allocator<T>: the read lock is held until it returns,
\* also while it waits for the allocator's guard.
LookUp(t, T) ==
  /\ MayCall(t)
  /\ Known(T)
  /\ group_lock' = group_lock \union {t}
  /\ Goto(t, "lookup", [None EXCEPT !.type = T])
  /\ UNCHANGED <<setup, quiet, guard, group, heapVars, observer>>

FinishLookUp(t) ==
  /\ pc[t] = "lookup" /\ HasInstance(t)
  /\ group_lock' = group_lock \ {t}
  /\ Goto(t, "idle", None)
  /\ UNCHANGED <<setup, quiet, guard, group, heapVars, observer>>

-----------------------------------------------------------------------------
(* new: Allocator::allocate under the type's write lock, then Object().     *)

\* Memory does not run out: no call begins without a block and a number left.
Pending == {u \in Thread : pc[u] = "new"}
Room ==
  /\ Cardinality(Pending) < Cardinality(Free)
  /\ Len(objects) + Cardinality(Pending) < MaxObjects

New(t) ==
  \E T \in types_of[t] : Room /\ Begin(t, "new", [None EXCEPT !.type = T])

\* mi_malloc, and the read of the counter that its increment starts with.
Malloc(t, p) ==
  LET T == local[t].type
  IN  /\ pc[t] = "new" /\ HasInstance(t)
      /\ lock[T] = NoThread
      /\ p \in Free
      /\ lock' = [lock EXCEPT ![T] = t]
      /\ objects' = Append(objects, [type |-> T, ptr |-> p, by |-> t])
      /\ block' = [q \in DOMAIN block \union {p} |->
                     IF q = p THEN Len(objects) + 1 ELSE block[q]]
      /\ Goto(t, "add", [type |-> T, ptr |-> p, id |-> counter,
                         object |-> Len(objects) + 1])
      /\ UNCHANGED <<setup, quiet, registryVars, map, counter, memory,
                     constructed, alive, observer>>

\* The value the increment writes back.
Added(t) == local[t].id + 1

WriteCounter(t) ==
  /\ pc[t] = "add"
  /\ counter' = Added(t)
  /\ Goto(t, "insert", [local[t] EXCEPT !.id = Added(t)])
  /\ UNCHANGED <<setup, quiet, registryVars, lock, map, memory, objects, block,
                 constructed, alive, observer>>

\* Mutant: add returns the value before the increment.
ReturnedBefore(t) == {local[t].id - 1}
\* add returns _id_counter: the value it wrote, or what is there by now.
Returned(t) == {local[t].id, counter}

\* The map gets the id; the lock is released.
Insert(t, id) ==
  LET T == local[t].type
      p == local[t].ptr
  IN  /\ pc[t] = "insert"
      /\ id \in Returned(t)
      /\ map' = [map EXCEPT ![T] = [q \in DOMAIN @ \union {p} |->
                                      IF q = p THEN id ELSE @[q]]]
      /\ lock' = [lock EXCEPT ![T] = NoThread]
      /\ Goto(t, "construct", local[t])
      /\ UNCHANGED <<setup, quiet, registryVars, counter, memory, objects, block,
                     constructed, alive, observer>>

\* Object::Object takes what the counter is now.
Construct(t) ==
  LET o == local[t].object
  IN  /\ pc[t] = "construct"
      /\ memory' = [memory EXCEPT ![local[t].ptr] = [id |-> counter, object |-> o]]
      /\ constructed' = constructed \union {o}
      /\ alive' = alive \union {o}
      /\ Goto(t, "idle", None)
      /\ UNCHANGED <<setup, quiet, registryVars, lock, map, counter, objects,
                     block, observer>>

-----------------------------------------------------------------------------
(* delete: the destructor, then Allocator::deallocate.  Between its free and *)
(* its erase nobody sees the map, for the lock is held.                     *)

Destroy(t, o) ==
  /\ MayCall(t)
  /\ o \in alive
  /\ alive' = alive \ {o}
  /\ Goto(t, "delete", [type |-> objects[o].type, ptr |-> objects[o].ptr,
                        id |-> 0, object |-> o])
  /\ UNCHANGED <<setup, quiet, registryVars, lock, map, counter, memory, objects,
                 block, constructed, observer>>

\* Mutant: the map keeps the address of a freed block.
ErasedNever(M, p) == M
\* _allocations_map.erase
Erased(M, p) == [q \in DOMAIN M \ {p} |-> M[q]]

Deallocate(t) ==
  LET T == local[t].type
  IN  /\ pc[t] = "delete"
      /\ lock[T] = NoThread
      /\ block' = [q \in DOMAIN block \ {local[t].ptr} |-> block[q]]
      /\ map' = [map EXCEPT ![T] = Erased(@, local[t].ptr)]
      /\ Goto(t, "idle", None)
      /\ UNCHANGED <<setup, quiet, registryVars, lock, counter, memory, objects,
                     constructed, alive, observer>>

-----------------------------------------------------------------------------
(* observer_ptr(T* ): the pointer was got when its object was there, which  *)
(* it need not be any more.                                                 *)

Observe(t, o) ==
  /\ o \in constructed
  /\ Begin(t, "observe", [None EXCEPT !.type = objects[o].type,
                                      !.ptr = objects[o].ptr])

\* is_ptr_vaild, under the read lock
Test(t) ==
  /\ pc[t] = "observe" /\ HasInstance(t)
  /\ lock[local[t].type] = NoThread
  /\ IF local[t].ptr \in DOMAIN map[local[t].type]
     THEN /\ Goto(t, "read", local[t])
          /\ UNCHANGED observer
     ELSE /\ Goto(t, "idle", None)
          /\ observer' = [observer EXCEPT ![t] = None]
  /\ UNCHANGED <<setup, quiet, registryVars, heapVars>>

\* get_object_id, with no lock: of whatever the block holds by now.
Read(t) ==
  LET p == local[t].ptr
  IN  /\ pc[t] = "read"
      /\ observer' = [observer EXCEPT ![t] =
                        [type |-> local[t].type, ptr |-> p,
                         id |-> memory[p].id, object |-> memory[p].object]]
      /\ Goto(t, "idle", None)
      /\ UNCHANGED <<setup, quiet, registryVars, heapVars>>

\* Mutant: the address alone is compared.
VaildByAddress(ob) == ob.object # 0 /\ ob.ptr \in DOMAIN map[ob.type]
\* Allocator::is_object_vaild, asked of an observer.
Vaild(ob) ==
  /\ ob.object # 0
  /\ ob.ptr \in DOMAIN map[ob.type]
  /\ map[ob.type][ob.ptr] = ob.id

\* The program begins no more calls; those under way go on.
Stop ==
  /\ ~ quiet
  /\ quiet' = TRUE
  /\ UNCHANGED <<setup, pc, local, registryVars, heapVars, observer>>

\* The steps inside a call, which the scheduler gives every thread; tbb's lock
\* is modelled by when it can be taken, not by who is next.
Step(t) ==
  \/ StartInstance(t) \/ AddAllocator(t) \/ FinishInstance(t)
  \/ FinishLookUp(t)
  \/ \E p \in Address : Malloc(t, p)
  \/ WriteCounter(t)
  \/ \E id \in 0 .. MaxObjects : Insert(t, id)
  \/ Construct(t)
  \/ Deallocate(t)
  \/ Test(t) \/ Read(t)

AllocNext ==
  \/ \E t \in Thread :
       \/ New(t)
       \/ \E T \in Type : LookUp(t, T)
       \/ \E o \in alive : Destroy(t, o)
       \/ \E o \in constructed : Observe(t, o)
       \/ Step(t)
  \/ Stop

AllocSpec ==
  AllocInit /\ [][AllocNext]_allocVars /\ \A t \in Thread : WF_allocVars(Step(t))

-----------------------------------------------------------------------------
\* No two threads add to the counter at once: all make objects of one type,
\* and have its lock while they add, or one thread alone calls.
OneAdder ==
  \/ \E T \in Type : \A t \in Thread : types_of[t] = {T}
  \/ Cardinality(callers) = 1

\* Types.
AllocTypeOK ==
  /\ counter \in 0 .. MaxObjects
  /\ \A T \in Type : \A p \in DOMAIN map[T] : map[T][p] \in 1 .. MaxObjects
  /\ alive \subseteq constructed /\ constructed \subseteq DOMAIN objects
  /\ \A T \in Type : lock[T] # NoThread =>
       pc[lock[T]] \in {"add", "insert"} /\ local[lock[T]].type = T

\* No two objects have one id, of one type or of two, while no two threads add
\* at once.
IdsUnique ==
  OneAdder => \A T, U \in Type : \A p \in DOMAIN map[T], q \in DOMAIN map[U] :
                map[T][p] = map[U][q] => T = U /\ p = q

\* A block is in the map of its type from the end of allocate to the end of
\* deallocate, under an id of its own, whatever order the threads free and
\* reuse addresses in.
MapsExact ==
  /\ AllocTypeOK
  /\ IdsUnique
  /\ \A o \in alive : objects[o].ptr \in DOMAIN map[objects[o].type]
  /\ \A T \in Type : \A p \in DOMAIN map[T] :
       p \in DOMAIN block /\ objects[block[p]].type = T

\* An observer that is valid is valid for the object it was made of: a block
\* that is freed and used again never answers for its former object.
ObserverExact ==
  OneAdder => \A t \in Thread :
    Vaild(observer[t]) => block[observer[t].ptr] = observer[t].object

\* An observer that was found invalid stays so, whatever is allocated later.
NeverValidAgain ==
  [][OneAdder => \A t \in Thread :
       observer'[t] = observer[t] /\ ~ Vaild(observer[t]) => ~ Vaild(observer[t])'
    ]_allocVars

\* The observer of a living object is valid, unless another thread allocated
\* between the object's allocation, which enters one id, and its constructor,
\* which takes the counter as it is by then: objects are numbered as they are
\* allocated.  A thread that calls alone never makes its own observers invalid,
\* whatever types it makes objects of.
ObserverComplete ==
  OneAdder => \A t \in Thread :
    LET ob == observer[t]
    IN  ob.object \in alive =>
          \/ Vaild(ob)
          \/ \E o \in ob.object + 1 .. ob.id : objects[o].by # objects[ob.object].by

\* Calls do not wait on one another for ever, at the guards of the static
\* allocators, at the group's lock and at those of the allocators: once no more
\* begin, all return.
CallsReturn == quiet ~> \A t \in Thread : pc[t] = "idle"
=============================================================================
