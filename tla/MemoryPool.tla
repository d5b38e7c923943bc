------------------------------ MODULE MemoryPool ------------------------------
(***************************************************************************)
(* The pool of buffers of include/thermite/memory/memory_pool.hpp and its  *)
(* users, the memory handles of include/thermite/memory/memory.hpp.        *)
(*                                                                         *)
(* A bucket is a stack of arrays of one length: rent_memory takes the slot *)
(* at _index, and makes the array itself when the slot is empty;           *)
(* return_memory puts an array back below _index.  Both do so under the    *)
(* bucket's lock, so each is one step; the allocation is outside the lock  *)
(* and a step of its own.  Handles belong to different threads.            *)
(***************************************************************************)
EXTENDS BucketIndex, FiniteSets

CONSTANTS
  MaxLength,   \* the pool's max_length
  MaxArrays,   \* the pool's max_arrays: slots of a bucket
  Handles,     \* the memory objects of the program
  Amounts,     \* sizes they ask for
  Sizes,       \* sizes get_bucket_index is compared with its definition for
  WrapSizes,   \* sizes of the vectors that are wrapped without a pool
  Moves,       \* are handles moved from?
  MaxAllocs    \* bound: how many arrays are ever allocated

ASSUME MemoryPoolAssumption ==
  /\ MaxLength \in Nat /\ MaxArrays \in Nat /\ MaxAllocs \in Nat
  /\ Amounts \subseteq Nat /\ WrapSizes \subseteq Nat
  /\ \A n \in Sizes : IsSize(n)
  /\ Moves \in BOOLEAN

VARIABLES
  slots,   \* _buffers of each bucket; 0 is nullptr
  index,   \* _index of each bucket
  held,    \* the handles
  allocs,  \* how many arrays were allocated: they are numbered from 1
  fate     \* "terminated" by an exception in a destructor; history: "irregular" once
           \* a handle was moved from or wraps a vector, or the length of an array it
           \* got is not right for its bucket, or the bucket was exhausted; or "regular"

vars == <<slots, index, held, allocs, fate>>

-----------------------------------------------------------------------------
Buckets == 0 .. GetBucketIndex(MaxLength)

Null == 0
Wild == -1

NoHandle == [st |-> "none", array |-> Null, len |-> 0, owned |-> FALSE,
             pooled |-> FALSE]

Set(h, memory) == held' = [held EXCEPT ![h] = memory]

-----------------------------------------------------------------------------
(* memory(size): the constructor rents.  A size beyond the last bucket is  *)
(* an array of the handle's own.                                           *)
RentCustom(h) ==
  /\ held[h].st = "none" /\ allocs < MaxAllocs
  /\ \E n \in Amounts :
       /\ GetBucketIndex(n) \notin Buckets
       /\ Set(h, [st |-> "held", array |-> allocs + 1, len |-> n, owned |-> TRUE,
                 pooled |-> TRUE])
  /\ allocs' = allocs + 1
  /\ UNCHANGED <<slots, index, fate>>

Rented(b, array, st) ==
  [st |-> st, array |-> array, len |-> GetMaxSize(b), owned |-> FALSE, pooled |-> TRUE]

RentKeepsSlot(h) ==
  /\ held[h].st = "none"
  /\ \E n \in Amounts : LET b == GetBucketIndex(n) IN
       /\ b \in Buckets /\ index[b] < MaxArrays
       /\ fate' = IF GetBucketIndex(GetMaxSize(b)) = b THEN fate ELSE "irregular"
       /\ LET buffer == slots[b][index[b]] IN
            Set(h, Rented(b, buffer, IF buffer = Null THEN "renting" ELSE "held"))
       /\ index' = [index EXCEPT ![b] = @ + 1]
  /\ UNCHANGED <<slots, allocs>>

(* bucket::rent_memory under the lock.                                     *)
Rent(h) ==
  /\ held[h].st = "none"
  /\ \E n \in Amounts : LET b == GetBucketIndex(n) IN
       /\ b \in Buckets /\ index[b] < MaxArrays
       /\ fate' = IF GetBucketIndex(GetMaxSize(b)) = b THEN fate ELSE "irregular"
       /\ LET buffer == slots[b][index[b]] IN
            Set(h, Rented(b, buffer, IF buffer = Null THEN "renting" ELSE "held"))
       /\ slots' = [slots EXCEPT ![b][index[b]] = Null]
       /\ index' = [index EXCEPT ![b] = @ + 1]
  /\ UNCHANGED allocs

(* new T[_length], after the lock is released.                             *)
Allocate(h) ==
  /\ held[h].st = "renting" /\ allocs < MaxAllocs
  /\ Set(h, [held[h] EXCEPT !.st = "held", !.array = allocs + 1])
  /\ allocs' = allocs + 1
  /\ UNCHANGED <<slots, index, fate>>

(* A bucket with nothing left returns all the same: an optional that is    *)
(* always engaged, around a buffer pointer nobody initialised.  It is what *)
(* an earlier call left behind, or nonsense.  The loop over the next       *)
(* bucket and the fallback after it are never reached.                     *)
RentExhausted(h) ==
  /\ held[h].st = "none"
  /\ \E n \in Amounts, leftover \in {Wild} \cup 1 .. allocs :
       LET b == GetBucketIndex(n) IN
       /\ b \in Buckets /\ index[b] >= MaxArrays
       /\ Set(h, Rented(b, leftover, "held"))
  /\ fate' = "irregular"
  /\ UNCHANGED <<slots, index, allocs>>

(* memory(vector): the array stays the vector's, and _pool is left         *)
(* uninitialised.                                                          *)
Wrap(h) ==
  /\ held[h].st = "none"
  /\ \E n \in WrapSizes, leftover \in BOOLEAN :
       Set(h, [st |-> "held", array |-> Wild, len |-> n, owned |-> FALSE,
               pooled |-> leftover])
  /\ fate' = "irregular"
  /\ UNCHANGED <<slots, index, allocs>>

(* The defaulted move copies the pointers and leaves them where they were. *)
Move(h) ==
  /\ Moves /\ held[h].st = "held"
  /\ \E g \in Handles : held[g].st = "none" /\ Set(g, held[h])
  /\ fate' = "irregular"
  /\ UNCHANGED <<slots, index, allocs>>

-----------------------------------------------------------------------------
(* ~memory hands a pooled array to the pool.  Where it goes depends only   *)
(* on its length.                                                          *)
Class(h) == GetBucketIndex(held[h].len)

DroppedButKept(h) == held[h].st = "held" /\ UNCHANGED held

Dropped(h) ==
  /\ held[h].st = "held"
  /\ Set(h, NoHandle)

(* Nothing to put back: no pool, a length beyond the last bucket, or a     *)
(* bucket that is full.  An array of the handle's own is deleted.          *)
DropIgnored(h) ==
  /\ \/ ~held[h].pooled
     \/ Class(h) \notin Buckets
     \/ held[h].len = GetMaxSize(Class(h)) /\ index[Class(h)] = 0
  /\ Dropped(h)
  /\ UNCHANGED <<slots, index, allocs, fate>>

PutBackUncounted(b, array) ==
  /\ slots' = [slots EXCEPT ![b][index[b] - 1] = array]
  /\ UNCHANGED index

PutBack(b, array) ==
  /\ slots' = [slots EXCEPT ![b][index[b] - 1] = array]
  /\ index' = [index EXCEPT ![b] = @ - 1]

(* bucket::return_memory under the lock.                                   *)
Return(h) ==
  /\ held[h].pooled /\ Class(h) \in Buckets
  /\ held[h].len = GetMaxSize(Class(h)) /\ index[Class(h)] # 0
  /\ PutBack(Class(h), held[h].array)
  /\ Dropped(h)
  /\ UNCHANGED <<allocs, fate>>

(* "memory was not from this pool" thrown in a destructor.                 *)
ReturnRefused(h) ==
  /\ held[h].st = "held" /\ held[h].pooled /\ Class(h) \in Buckets
  /\ held[h].len # GetMaxSize(Class(h))
  /\ fate' = "terminated"
  /\ UNCHANGED <<slots, index, held, allocs>>

-----------------------------------------------------------------------------
Init ==
  /\ slots = [b \in Buckets |-> [i \in 0 .. MaxArrays - 1 |-> Null]]
  /\ index = [b \in Buckets |-> 0]
  /\ held = [h \in Handles |-> NoHandle]
  /\ allocs = 0
  /\ fate = "regular"

Step(h) ==
  \/ RentCustom(h) \/ Rent(h) \/ Allocate(h) \/ RentExhausted(h) \/ Wrap(h)
  \/ Move(h) \/ DropIgnored(h) \/ Return(h) \/ ReturnRefused(h)

Next == fate # "terminated" /\ \E h \in Handles : Step(h)

Spec == Init /\ [][Next]_vars

-----------------------------------------------------------------------------
(* Whatever the handles do, an index stays within its bucket, and a pointer *)
(* that is not wild is that of an array that was allocated.                *)
TypeOK ==
  /\ slots \in [Buckets -> [0 .. MaxArrays - 1 -> {Wild} \cup 0 .. allocs]]
  /\ index \in [Buckets -> 0 .. MaxArrays]
  /\ held \in [Handles -> [st : {"none", "renting", "held"},
                           array : {Wild} \cup 0 .. allocs, len : Nat,
                           owned : BOOLEAN, pooled : BOOLEAN]]
  /\ allocs \in 0 .. MaxAllocs
  /\ fate \in {"regular", "irregular", "terminated"}

Holds(h) == held[h].st = "held"

(* Nobody shares an array, though the lock is released before it is        *)
(* allocated: it is in one handle or in one slot that can be rented, as    *)
(* long as nothing irregular has happened.                                 *)
Exclusive ==
  fate = "regular" =>
  /\ \A h, g \in Handles :
       Holds(h) /\ Holds(g) /\ held[h].array = held[g].array => h = g
  /\ \A h \in Handles, b \in Buckets : Holds(h) =>
       \A i \in index[b] .. MaxArrays - 1 : slots[b][i] # held[h].array
  /\ \A b, c \in Buckets :
       \A i \in index[b] .. MaxArrays - 1, j \in index[c] .. MaxArrays - 1 :
         slots[b][i] # Null /\ slots[b][i] = slots[c][j] => b = c /\ i = j

(* A bucket has room for exactly what was rented from it: as long as       *)
(* nothing irregular has happened, no array that comes back finds its      *)
(* bucket full, and none is put into another bucket.                       *)
Balanced ==
  fate = "regular" =>
  \A b \in Buckets :
    index[b] = Cardinality({h \in Handles : /\ held[h].st # "none"
                                            /\ ~held[h].owned /\ held[h].pooled
                                            /\ held[h].len = GetMaxSize(b)})

(* The slots below _index are empty, whatever the handles do, so putting   *)
(* an array back never overwrites one that waits in the pool.              *)
TakenSlotsEmpty ==
  \A b \in Buckets : \A i \in 0 .. index[b] - 1 : slots[b][i] = Null

(* Every size goes to the smallest class that has room for it.  That does  *)
(* not depend on the state, so TLC need only evaluate it at the beginning. *)
SmallestFit == allocs = 0 => \A n \in Sizes : LeastClass(n)
=============================================================================
