-------------------------- MODULE MemoryPoolProofs --------------------------
(***************************************************************************)
(* Theorems about MemoryPool, for every number and use of the handles,     *)
(* every number of slots and every set of sizes.                           *)
(***************************************************************************)
EXTENDS MemoryPool, FiniteSetTheorems, TLAPS

-----------------------------------------------------------------------------
(* What the buckets need: each index points into its slots or just past    *)
(* them, and the slots below it are empty.                                 *)
BucketsOK ==
  /\ slots \in [Buckets -> [0 .. MaxArrays - 1 -> Int]]
  /\ index \in [Buckets -> 0 .. MaxArrays]

StackInv ==
  /\ BucketsOK
  /\ allocs \in Nat
  /\ \A h \in Handles : held[h].array \in Int
  /\ held \in [Handles -> [st : {"none", "renting", "held"},
                           array : Int, len : Int,
                           owned : BOOLEAN, pooled : BOOLEAN]]
  /\ TakenSlotsEmpty

LEMMA BucketNumbers == \A b \in Buckets : b \in Nat
  BY DEF Buckets

(* Writing one slot of one bucket.                                         *)
LEMMA SlotChanged ==
  ASSUME BucketsOK, NEW b \in Buckets, NEW i \in 0 .. MaxArrays - 1, NEW v \in Int,
         slots' = [slots EXCEPT ![b][i] = v]
  PROVE  /\ slots' \in [Buckets -> [0 .. MaxArrays - 1 -> Int]]
         /\ \A c \in Buckets, j \in 0 .. MaxArrays - 1 :
              slots'[c][j] = IF c = b /\ j = i THEN v ELSE slots[c][j]
<1> DEFINE row == [slots[b] EXCEPT ![i] = v]
<1>1. slots' = [slots EXCEPT ![b] = row]
  OBVIOUS
<1>2. /\ row \in [0 .. MaxArrays - 1 -> Int]
      /\ \A j \in 0 .. MaxArrays - 1 : row[j] = IF j = i THEN v ELSE slots[b][j]
  BY DEF BucketsOK
<1> HIDE DEF row
<1> QED
  BY <1>1, <1>2 DEF BucketsOK

(* Taking the array at the index leaves the slot empty and below the index. *)
LEMMA SlotTaken ==
  ASSUME BucketsOK, TakenSlotsEmpty, NEW b \in Buckets,
         index[b] < MaxArrays,
         slots' = [slots EXCEPT ![b][index[b]] = Null],
         index' = [index EXCEPT ![b] = @ + 1]
  PROVE  BucketsOK' /\ TakenSlotsEmpty'
<1>1. index[b] \in 0 .. MaxArrays /\ index[b] \in 0 .. MaxArrays - 1
  BY MemoryPoolAssumption DEF BucketsOK
<1>0. Null \in Int
  BY DEF Null
<1>2. /\ slots' \in [Buckets -> [0 .. MaxArrays - 1 -> Int]]
      /\ \A c \in Buckets, j \in 0 .. MaxArrays - 1 :
           slots'[c][j] = IF c = b /\ j = index[b] THEN Null ELSE slots[c][j]
  BY <1>0, <1>1, SlotChanged
<1>3. /\ index' \in [Buckets -> 0 .. MaxArrays]
      /\ \A c \in Buckets : index'[c] = IF c = b THEN index[b] + 1 ELSE index[c]
  BY <1>1, MemoryPoolAssumption DEF BucketsOK
<1>4. ASSUME NEW c \in Buckets, NEW j \in 0 .. index'[c] - 1 PROVE slots'[c][j] = Null
  <2>1. index'[c] \in 0 .. MaxArrays /\ index[c] \in 0 .. MaxArrays
    BY <1>3 DEF BucketsOK
  <2>2. j \in 0 .. MaxArrays - 1
    BY <2>1, MemoryPoolAssumption
  <2>3. slots'[c][j] = IF c = b /\ j = index[b] THEN Null ELSE slots[c][j]
    BY <1>2, <2>2
  <2> QED
    BY <1>1, <1>3, <2>1, <2>2, <2>3 DEF TakenSlotsEmpty, Null
<1> QED
  BY <1>2, <1>3, <1>4 DEF BucketsOK, TakenSlotsEmpty

(* Putting one back fills the slot that is then at the index.              *)
LEMMA SlotFilled ==
  ASSUME BucketsOK, TakenSlotsEmpty, NEW b \in Buckets, NEW v \in Int,
         index[b] # 0,
         slots' = [slots EXCEPT ![b][index[b] - 1] = v],
         index' = [index EXCEPT ![b] = @ - 1]
  PROVE  BucketsOK' /\ TakenSlotsEmpty'
<1>1. index[b] \in 0 .. MaxArrays /\ index[b] - 1 \in 0 .. MaxArrays - 1
  BY MemoryPoolAssumption DEF BucketsOK
<1>2. /\ slots' \in [Buckets -> [0 .. MaxArrays - 1 -> Int]]
      /\ \A c \in Buckets, j \in 0 .. MaxArrays - 1 :
           slots'[c][j] = IF c = b /\ j = index[b] - 1 THEN v ELSE slots[c][j]
  BY <1>1, SlotChanged
<1>3. /\ index' \in [Buckets -> 0 .. MaxArrays]
      /\ \A c \in Buckets : index'[c] = IF c = b THEN index[b] - 1 ELSE index[c]
  BY <1>1, MemoryPoolAssumption DEF BucketsOK
<1>4. ASSUME NEW c \in Buckets, NEW j \in 0 .. index'[c] - 1 PROVE slots'[c][j] = Null
  <2>1. index'[c] \in 0 .. MaxArrays /\ index[c] \in 0 .. MaxArrays
    BY <1>3 DEF BucketsOK
  <2>2. j \in 0 .. MaxArrays - 1
    BY <2>1, MemoryPoolAssumption
  <2>3. slots'[c][j] = IF c = b /\ j = index[b] - 1 THEN v ELSE slots[c][j]
    BY <1>2, <2>2
  <2> QED
    BY <1>1, <1>3, <2>1, <2>2, <2>3 DEF TakenSlotsEmpty, Null
<1> QED
  BY <1>2, <1>3, <1>4 DEF BucketsOK, TakenSlotsEmpty

LEMMA StackStep == StackInv /\ [Next]_vars => StackInv'
<1> SUFFICES ASSUME StackInv, [Next]_vars PROVE StackInv'
  OBVIOUS
<1> USE MemoryPoolAssumption, BucketNumbers
        DEF StackInv, BucketsOK, TakenSlotsEmpty, Set, Null, Wild
<1>1. ASSUME NEW h \in Handles, RentCustom(h) PROVE StackInv'
  BY <1>1 DEF RentCustom
<1>2. ASSUME NEW h \in Handles, Rent(h) PROVE StackInv'
  <2> PICK n \in Amounts :
        LET b == GetBucketIndex(n) IN
        /\ b \in Buckets /\ index[b] < MaxArrays
        /\ LET buffer == slots[b][index[b]] IN
             Set(h, Rented(b, buffer, IF buffer = Null THEN "renting" ELSE "held"))
        /\ slots' = [slots EXCEPT ![b][index[b]] = Null]
        /\ index' = [index EXCEPT ![b] = @ + 1]
    BY <1>2 DEF Rent
  <2> DEFINE b == GetBucketIndex(n)
             buffer == slots[b][index[b]]
  <2>1. b \in Buckets /\ index[b] \in 0 .. MaxArrays - 1 /\ buffer \in Int
    OBVIOUS
  <2>2. /\ slots' = [slots EXCEPT ![b][index[b]] = Null]
        /\ index' = [index EXCEPT ![b] = @ + 1]
        /\ held' = [held EXCEPT ![h] =
                      Rented(b, buffer, IF buffer = Null THEN "renting" ELSE "held")]
        /\ UNCHANGED allocs
    BY <1>2 DEF Rent
  <2> HIDE DEF b, buffer
  <2>3. BucketsOK' /\ TakenSlotsEmpty'
    BY <2>1, <2>2, SlotTaken
  <2>4. Rented(b, buffer, IF buffer = Null THEN "renting" ELSE "held")
          \in [st : {"none", "renting", "held"}, array : Int, len : Int,
               owned : BOOLEAN, pooled : BOOLEAN]
    BY <2>1 DEF Rented, GetMaxSize
  <2> QED
    BY <2>2, <2>3, <2>4
<1>3. ASSUME NEW h \in Handles, Allocate(h) PROVE StackInv'
  <2>1. /\ held' = [held EXCEPT ![h] = [held[h] EXCEPT !.st = "held",
                                                     !.array = allocs + 1]]
        /\ allocs' = allocs + 1 /\ UNCHANGED <<slots, index>>
    BY <1>3 DEF Allocate
  <2>2. allocs + 1 \in Int
    OBVIOUS
  <2>3. [held[h] EXCEPT !.st = "held", !.array = allocs + 1]
          \in [st : {"none", "renting", "held"}, array : Int, len : Int,
               owned : BOOLEAN, pooled : BOOLEAN]
    BY <2>2
  <2> QED
    BY <2>1, <2>3
<1>4. ASSUME NEW h \in Handles, RentExhausted(h) PROVE StackInv'
  BY <1>4 DEF RentExhausted, Rented, GetMaxSize
<1>5. ASSUME NEW h \in Handles, Wrap(h) PROVE StackInv'
  BY <1>5 DEF Wrap
<1>6. ASSUME NEW h \in Handles, Move(h) PROVE StackInv'
  BY <1>6 DEF Move
<1>7. ASSUME NEW h \in Handles, DropIgnored(h) PROVE StackInv'
  BY <1>7 DEF DropIgnored, Dropped, NoHandle
<1>8. ASSUME NEW h \in Handles, Return(h) PROVE StackInv'
  <2> DEFINE b == Class(h)
  <2>1. /\ b \in Buckets /\ index[b] # 0
        /\ slots' = [slots EXCEPT ![b][index[b] - 1] = held[h].array]
        /\ index' = [index EXCEPT ![b] = @ - 1]
        /\ held' = [held EXCEPT ![h] = NoHandle]
        /\ UNCHANGED allocs
    BY <1>8 DEF Return, PutBack, Dropped
  <2> HIDE DEF b
  <2>2. index[b] - 1 \in 0 .. MaxArrays - 1 /\ held[h].array \in Int
    BY <2>1
  <2>3. BucketsOK' /\ TakenSlotsEmpty'
    BY <2>1, <2>2, SlotFilled
  <2> QED
    BY <2>1, <2>3 DEF NoHandle
<1>9. ASSUME NEW h \in Handles, ReturnRefused(h) PROVE StackInv'
  BY <1>9 DEF ReturnRefused
<1>10. CASE UNCHANGED vars
  BY <1>10 DEF vars
<1> QED
  BY <1>1, <1>2, <1>3, <1>4, <1>5, <1>6, <1>7, <1>8, <1>9, <1>10 DEF Next, Step

(* The slots below a bucket's index stay empty, whatever the handles do:   *)
(* also when they are moved from, wrap foreign vectors or exhaust it.      *)
THEOREM NothingOverwritten == Spec => []TakenSlotsEmpty
<1>1. Init => StackInv
  BY MemoryPoolAssumption
  DEF Init, StackInv, BucketsOK, TakenSlotsEmpty, NoHandle, Null
<1>2. StackInv => TakenSlotsEmpty
  BY DEF StackInv
<1> QED
  BY <1>1, <1>2, StackStep, PTL DEF Spec

-----------------------------------------------------------------------------
(* Arrays: those allocated so far, and the two that are none.              *)
Arrays == {Wild} \cup 0 .. allocs

MemoryOf(arrays) ==
  [st : {"none", "renting", "held"}, array : arrays, len : Nat,
   owned : BOOLEAN, pooled : BOOLEAN]

LEMMA TypesStep == StackInv /\ TypeOK /\ [Next]_vars => TypeOK'
<1> SUFFICES ASSUME StackInv, TypeOK, [Next]_vars PROVE TypeOK'
  OBVIOUS
<1> USE MemoryPoolAssumption, BucketNumbers
<1>0. StackInv' /\ index' \in [Buckets -> 0 .. MaxArrays]
  BY StackStep DEF StackInv, BucketsOK
<1>a. /\ allocs \in 0 .. MaxAllocs /\ allocs <= allocs
      /\ fate \in {"regular", "irregular", "terminated"}
  BY DEF TypeOK
<1>1. ASSUME allocs' \in 0 .. MaxAllocs, allocs <= allocs',
             NEW h \in Handles, NEW m \in MemoryOf(Arrays'),
             held' = [held EXCEPT ![h] = m]
      PROVE  held' \in [Handles -> MemoryOf(Arrays')]
  <2>1. Arrays \subseteq Arrays'
    BY <1>1 DEF Arrays, TypeOK
  <2>2. held \in [Handles -> MemoryOf(Arrays')]
    BY <2>1 DEF TypeOK, MemoryOf, Arrays
  <2> QED
    BY <1>1, <2>2
<1>2. ASSUME UNCHANGED slots, allocs' \in 0 .. MaxAllocs, allocs <= allocs'
      PROVE  slots' \in [Buckets -> [0 .. MaxArrays - 1 -> Arrays']]
  BY <1>2 DEF TypeOK, Arrays
<1>3. ASSUME NEW b \in Buckets, NEW i \in 0 .. MaxArrays - 1, NEW v \in Arrays,
             slots' = [slots EXCEPT ![b][i] = v], UNCHANGED allocs
      PROVE  slots' \in [Buckets -> [0 .. MaxArrays - 1 -> Arrays']]
  BY <1>3 DEF TypeOK, Arrays
<1> DEFINE Typed ==
      /\ slots' \in [Buckets -> [0 .. MaxArrays - 1 -> Arrays']]
      /\ held' \in [Handles -> MemoryOf(Arrays')]
      /\ allocs' \in 0 .. MaxAllocs
      /\ fate' \in {"regular", "irregular", "terminated"}
<1>4. ASSUME UNCHANGED slots, allocs' \in 0 .. MaxAllocs, allocs <= allocs',
             NEW h \in Handles, NEW m \in MemoryOf(Arrays'),
             held' = [held EXCEPT ![h] = m],
             fate' \in {"regular", "irregular", "terminated"}
      PROVE  Typed
  BY <1>1, <1>2, <1>4
<1> SUFFICES Typed
  BY <1>0 DEF TypeOK, MemoryOf, Arrays
<1> HIDE DEF Typed
<1>5. ASSUME NEW h \in Handles, RentCustom(h) PROVE Typed
  <2> PICK n \in Amounts :
        held' = [held EXCEPT ![h] = [st |-> "held", array |-> allocs + 1, len |-> n,
                                     owned |-> TRUE, pooled |-> TRUE]]
    BY <1>5 DEF RentCustom, Set
  <2> DEFINE m == [st |-> "held", array |-> allocs + 1, len |-> n,
                   owned |-> TRUE, pooled |-> TRUE]
  <2>1. /\ UNCHANGED slots /\ allocs' \in 0 .. MaxAllocs /\ allocs <= allocs'
        /\ fate' \in {"regular", "irregular", "terminated"}
    BY <1>5 DEF RentCustom, TypeOK
  <2>2. m \in MemoryOf(Arrays')
    BY <1>5 DEF RentCustom, MemoryOf, Arrays, TypeOK
  <2>3. held' = [held EXCEPT ![h] = m]
    OBVIOUS
  <2> HIDE DEF m
  <2> QED
    BY <1>4, <2>1, <2>2, <2>3
<1>6. ASSUME NEW h \in Handles, Rent(h) PROVE Typed
  <2> PICK n \in Amounts :
        LET b == GetBucketIndex(n) IN
        /\ b \in Buckets /\ index[b] < MaxArrays
        /\ LET buffer == slots[b][index[b]] IN
             Set(h, Rented(b, buffer, IF buffer = Null THEN "renting" ELSE "held"))
        /\ slots' = [slots EXCEPT ![b][index[b]] = Null]
    BY <1>6 DEF Rent
  <2> DEFINE b == GetBucketIndex(n)
             buffer == slots[b][index[b]]
             m == Rented(b, buffer, IF buffer = Null THEN "renting" ELSE "held")
  <2>1. /\ b \in Buckets /\ index[b] \in 0 .. MaxArrays - 1
        /\ slots' = [slots EXCEPT ![b][index[b]] = Null]
        /\ held' = [held EXCEPT ![h] = m]
    BY DEF Set, StackInv, BucketsOK
  <2> HIDE DEF b
  <2>2. buffer \in Arrays
    BY <2>1 DEF TypeOK, Arrays
  <2>3. UNCHANGED allocs /\ fate' \in {"regular", "irregular", "terminated"}
    BY <1>6 DEF Rent, TypeOK
  <2>4. Arrays' = Arrays /\ Null \in Arrays /\ GetMaxSize(b) \in Nat
    BY <2>1, <2>3 DEF Arrays, Null, TypeOK, GetMaxSize
  <2> HIDE DEF buffer
  <2>5. m \in MemoryOf(Arrays')
    BY <2>2, <2>4 DEF MemoryOf, Rented
  <2> HIDE DEF m
  <2>6. held' \in [Handles -> MemoryOf(Arrays')]
    BY <1>a, <1>1, <2>1, <2>3, <2>5
  <2>7. slots' \in [Buckets -> [0 .. MaxArrays - 1 -> Arrays']]
    BY <1>3, <2>1, <2>3, <2>4
  <2> QED
    BY <1>a, <2>3, <2>6, <2>7 DEF Typed
<1>7. ASSUME NEW h \in Handles, Allocate(h) PROVE Typed
  <2> DEFINE m == [held[h] EXCEPT !.st = "held", !.array = allocs + 1]
  <2>1. /\ UNCHANGED <<slots, fate>> /\ held' = [held EXCEPT ![h] = m]
        /\ allocs' = allocs + 1 /\ allocs' \in 0 .. MaxAllocs
    BY <1>7 DEF Allocate, Set, TypeOK
  <2>2. held[h] \in MemoryOf(Arrays)
    BY DEF MemoryOf, Arrays, TypeOK
  <2>3. allocs <= allocs' /\ allocs + 1 \in Arrays' /\ Arrays \subseteq Arrays'
    BY <1>a, <2>1 DEF Arrays
  <2>4. m \in MemoryOf(Arrays')
    BY <2>2, <2>3 DEF MemoryOf
  <2>5. fate' \in {"regular", "irregular", "terminated"}
    BY <1>a, <2>1
  <2> HIDE DEF m
  <2> QED
    BY <1>4, <2>1, <2>3, <2>4, <2>5
<1>8. ASSUME NEW h \in Handles, RentExhausted(h) PROVE Typed
  <2> PICK n \in Amounts, leftover \in {Wild} \cup 1 .. allocs :
        /\ GetBucketIndex(n) \in Buckets
        /\ Set(h, Rented(GetBucketIndex(n), leftover, "held"))
    BY <1>8 DEF RentExhausted
  <2> DEFINE b == GetBucketIndex(n)
             m == Rented(b, leftover, "held")
  <2>1. /\ UNCHANGED <<slots, allocs>> /\ held' = [held EXCEPT ![h] = m]
        /\ fate' \in {"regular", "irregular", "terminated"} /\ b \in Nat
    BY <1>8 DEF RentExhausted, Set
  <2> HIDE DEF b
  <2>2. m \in MemoryOf(Arrays')
    BY <2>1 DEF MemoryOf, Arrays, TypeOK, Rented, GetMaxSize
  <2> HIDE DEF m
  <2> QED
    BY <1>a, <1>4, <2>1, <2>2
<1>9. ASSUME NEW h \in Handles, Wrap(h) PROVE Typed
  <2> PICK n \in WrapSizes, leftover \in BOOLEAN :
        Set(h, [st |-> "held", array |-> Wild, len |-> n, owned |-> FALSE,
                pooled |-> leftover])
    BY <1>9 DEF Wrap
  <2> DEFINE m == [st |-> "held", array |-> Wild, len |-> n, owned |-> FALSE,
                   pooled |-> leftover]
  <2>1. /\ UNCHANGED <<slots, allocs>> /\ held' = [held EXCEPT ![h] = m]
        /\ fate' \in {"regular", "irregular", "terminated"}
    BY <1>9 DEF Wrap, Set
  <2>2. Wild \in Arrays' /\ n \in Nat
    BY DEF Arrays
  <2>3. m \in [st : {"none", "renting", "held"}, array : Arrays', len : Nat,
               owned : BOOLEAN, pooled : BOOLEAN]
    BY <2>2
  <2>4. m \in MemoryOf(Arrays')
    BY <2>3 DEF MemoryOf
  <2> HIDE DEF m
  <2> QED
    BY <1>a, <1>4, <2>1, <2>4
<1>10. ASSUME NEW h \in Handles, Move(h) PROVE Typed
  <2> PICK g \in Handles : held' = [held EXCEPT ![g] = held[h]]
    BY <1>10 DEF Move, Set
  <2>1. /\ UNCHANGED <<slots, allocs>> /\ fate' \in {"regular", "irregular", "terminated"}
    BY <1>10 DEF Move
  <2>2. held[h] \in MemoryOf(Arrays')
    BY <2>1 DEF MemoryOf, Arrays, TypeOK
  <2> QED
    BY <1>a, <1>4, <2>1, <2>2
<1>11. NoHandle \in MemoryOf(Arrays) /\ (UNCHANGED allocs => Arrays' = Arrays)
  BY DEF NoHandle, MemoryOf, Arrays, Null, TypeOK
<1>12. ASSUME NEW h \in Handles, DropIgnored(h) PROVE Typed
  <2>1. UNCHANGED <<slots, allocs, fate>> /\ held' = [held EXCEPT ![h] = NoHandle]
    BY <1>12 DEF DropIgnored, Dropped, Set
  <2> QED
    BY <1>a, <1>4, <1>11, <2>1
<1>13. ASSUME NEW h \in Handles, Return(h) PROVE Typed
  <2> DEFINE b == Class(h)
  <2>1. /\ b \in Buckets /\ index[b] # 0
        /\ slots' = [slots EXCEPT ![b][index[b] - 1] = held[h].array]
        /\ held' = [held EXCEPT ![h] = NoHandle]
        /\ UNCHANGED <<allocs, fate>>
    BY <1>13 DEF Return, PutBack, Dropped, Set
  <2> HIDE DEF b
  <2>2. index[b] - 1 \in 0 .. MaxArrays - 1 /\ held[h].array \in Arrays
    BY <2>1 DEF StackInv, BucketsOK, TypeOK, Arrays
  <2>3. slots' \in [Buckets -> [0 .. MaxArrays - 1 -> Arrays']]
    BY <1>3, <2>1, <2>2
  <2>4. held' \in [Handles -> MemoryOf(Arrays')]
    BY <1>a, <1>1, <1>11, <2>1
  <2> QED
    BY <1>a, <2>1, <2>3, <2>4 DEF Typed
<1>14. ASSUME \/ UNCHANGED vars
              \/ \E h \in Handles : ReturnRefused(h)
       PROVE  Typed
  <2>1. UNCHANGED <<slots, held, allocs>> /\ fate' \in {"regular", "irregular", "terminated"}
    BY <1>14 DEF vars, ReturnRefused, TypeOK
  <2> QED
    BY <1>11, <2>1 DEF Typed, TypeOK, MemoryOf, Arrays
<1> QED
  BY <1>5, <1>6, <1>7, <1>8, <1>9, <1>10, <1>12, <1>13, <1>14 DEF Next, Step

(* For any handles, sizes and misuse, an index stays within its bucket,    *)
(* and every pointer is null, that of an allocated array, or one that      *)
(* nobody initialised.                                                     *)
THEOREM TypeCorrect == Spec => []TypeOK
<1>1. Init => StackInv /\ TypeOK
  BY MemoryPoolAssumption
  DEF Init, StackInv, BucketsOK, TakenSlotsEmpty, NoHandle, Null, TypeOK
<1> QED
  BY <1>1, StackStep, TypesStep, PTL DEF Spec
-----------------------------------------------------------------------------
(* Who has an array.  The prover is given it apart from the records, whose *)
(* Boolean fields it cannot handle together with the numbers.              *)
Has(h, array) == Holds(h) /\ held[h].array = array

Waits(b, i, array) == i >= index[b] /\ slots[b][i] = array

(* As long as nothing irregular has happened a handle has an array of its  *)
(* own, and so has every slot that can be rented.                          *)
OneOwner ==
  fate = "regular" =>
  /\ \A h \in Handles : ~ Has(h, Null)
  /\ \A h, g \in Handles, a \in Int : Has(h, a) /\ Has(g, a) => h = g
  /\ \A h \in Handles, a \in Int, b \in Buckets, i \in 0 .. MaxArrays - 1 :
       ~ (Has(h, a) /\ Waits(b, i, a))
  /\ \A b, c \in Buckets, i, j \in 0 .. MaxArrays - 1, a \in Int :
       a # Null /\ Waits(b, i, a) /\ Waits(c, j, a) => b = c /\ i = j

LEMMA OwnerExclusive == TypeOK /\ OneOwner => Exclusive
<1> SUFFICES ASSUME TypeOK, OneOwner, fate = "regular" PROVE Exclusive
  BY DEF Exclusive
<1>1. /\ \A h \in Handles : held[h].array \in Int
      /\ \A b \in Buckets : index[b] \in 0 .. MaxArrays
      /\ \A b \in Buckets, i \in 0 .. MaxArrays - 1 : slots[b][i] \in Int
  BY MemoryPoolAssumption DEF TypeOK, Wild
<1>2. \A h, g \in Handles :
        Holds(h) /\ Holds(g) /\ held[h].array = held[g].array => h = g
  BY <1>1 DEF OneOwner, Has
<1>3. ASSUME NEW h \in Handles, NEW b \in Buckets, Holds(h),
             NEW i \in index[b] .. MaxArrays - 1
      PROVE  slots[b][i] # held[h].array
  <2>1. i \in 0 .. MaxArrays - 1 /\ i >= index[b]
    BY <1>1
  <2> QED
    BY <1>1, <1>3, <2>1 DEF OneOwner, Has, Waits
<1>4. ASSUME NEW b \in Buckets, NEW c \in Buckets, NEW i \in index[b] .. MaxArrays - 1,
             NEW j \in index[c] .. MaxArrays - 1,
             slots[b][i] # Null, slots[b][i] = slots[c][j]
      PROVE  b = c /\ i = j
  <2>1. /\ i \in 0 .. MaxArrays - 1 /\ i >= index[b]
        /\ j \in 0 .. MaxArrays - 1 /\ j >= index[c]
    BY <1>1
  <2> QED
    BY <1>1, <1>4, <2>1 DEF OneOwner, Waits
<1> QED
  BY <1>2, <1>3, <1>4 DEF Exclusive

LEMMA OthersKeep ==
  ASSUME NEW h \in Handles, \A g \in Handles : g # h => held'[g] = held[g]
  PROVE  \A g \in Handles, a \in Int : g # h => (Has(g, a)' <=> Has(g, a))
  BY DEF Holds, Has

LEMMA RentedSlots ==
  ASSUME BucketsOK, NEW b \in Buckets, index[b] < MaxArrays,
         slots' = [slots EXCEPT ![b][index[b]] = Null]
  PROVE  \A c \in Buckets, j \in 0 .. MaxArrays - 1 :
           slots'[c][j] = IF c = b /\ j = index[b] THEN Null ELSE slots[c][j]
<1>1. index[b] \in 0 .. MaxArrays - 1 /\ Null \in Int
  BY MemoryPoolAssumption DEF BucketsOK, Null
<1> QED
  BY <1>1, SlotChanged

LEMMA OwnerStep == StackInv /\ TypeOK /\ OneOwner /\ [Next]_vars => OneOwner'
<1> SUFFICES ASSUME StackInv, TypeOK, OneOwner, [Next]_vars, fate' = "regular"
             PROVE  OneOwner'
  BY DEF OneOwner
<1> USE MemoryPoolAssumption
<1>a. /\ allocs \in Nat
      /\ \A h \in Handles : held[h].array \in {Wild} \cup 0 .. allocs
      /\ \A b \in Buckets : index[b] \in 0 .. MaxArrays
      /\ \A b \in Buckets, i \in 0 .. MaxArrays - 1 : slots[b][i] \in {Wild} \cup 0 .. allocs
  BY DEF TypeOK
<1>b. BucketsOK /\ Null = 0 /\ Wild = -1
  BY DEF StackInv, Null, Wild
<1>d. DOMAIN held = Handles /\ DOMAIN slots = Buckets /\ DOMAIN index = Buckets
  BY DEF TypeOK
<1>c. fate = "regular" => 
      /\ \A h \in Handles : ~ Has(h, Null)
      /\ \A h, g \in Handles, a \in Int : Has(h, a) /\ Has(g, a) => h = g
      /\ \A h \in Handles, a \in Int, b \in Buckets, i \in 0 .. MaxArrays - 1 :
           ~ (Has(h, a) /\ Waits(b, i, a))
      /\ \A b, c \in Buckets, i, j \in 0 .. MaxArrays - 1, a \in Int :
           a # Null /\ Waits(b, i, a) /\ Waits(c, j, a) => b = c /\ i = j
  BY DEF OneOwner
(* A handle that gets a fresh array. *)
<1>1. ASSUME fate = "regular", NEW h \in Handles, UNCHANGED <<slots, index>>,
             \A g \in Handles, a \in Int : g # h => (Has(g, a)' <=> Has(g, a)),
             \A a \in Int : Has(h, a)' => a = allocs + 1
      PROVE  OneOwner'
  <2>1. \A b \in Buckets, i \in Int, a \in Int : Waits(b, i, a)' <=> Waits(b, i, a)
    BY <1>1 DEF Waits
  <2>2. /\ \A g \in Handles : ~ Has(g, allocs + 1)
        /\ \A b \in Buckets, i \in 0 .. MaxArrays - 1 : ~ Waits(b, i, allocs + 1)
    BY <1>a, <1>b DEF Has, Waits
  <2> QED
    BY <1>a, <1>b, <1>c, <1>1, <2>1, <2>2 DEF OneOwner
(* A handle that has none any more. *)
<1>2. ASSUME fate = "regular", NEW h \in Handles, UNCHANGED <<slots, index>>,
             \A g \in Handles, a \in Int : g # h => (Has(g, a)' <=> Has(g, a)),
             \A a \in Int : ~ Has(h, a)'
      PROVE  OneOwner'
  BY <1>1, <1>2, <1>a
<1>3. ASSUME NEW h \in Handles, RentCustom(h) PROVE OneOwner'
  <2> PICK n \in Amounts :
        held' = [held EXCEPT ![h] = [st |-> "held", array |-> allocs + 1, len |-> n,
                                     owned |-> TRUE, pooled |-> TRUE]]
    BY <1>3 DEF RentCustom, Set
  <2> DEFINE m == [st |-> "held", array |-> allocs + 1, len |-> n,
                   owned |-> TRUE, pooled |-> TRUE]
  <2>0. held' = [held EXCEPT ![h] = m] /\ m.array = allocs + 1
    OBVIOUS
  <2> HIDE DEF m
  <2>1. /\ \A g \in Handles, a \in Int : g # h => (Has(g, a)' <=> Has(g, a))
        /\ held'[h].array = allocs + 1
    BY <2>0, <1>d, OthersKeep
  <2> QED
    BY <1>1, <1>3, <2>1 DEF RentCustom, Has
<1>4. ASSUME NEW h \in Handles, Rent(h) PROVE OneOwner'
  <2> DEFINE From(b) ==
        LET buffer == slots[b][index[b]] IN
        Rented(b, buffer, IF buffer = Null THEN "renting" ELSE "held")
  <2>0. \E b \in Buckets : /\ index[b] < MaxArrays
                          /\ held' = [held EXCEPT ![h] = From(b)]
                          /\ slots' = [slots EXCEPT ![b][index[b]] = Null]
                          /\ index' = [index EXCEPT ![b] = @ + 1]
    BY <1>4 DEF Rent, Set
  <2> HIDE DEF From
  <2> PICK b \in Buckets : /\ index[b] < MaxArrays
                          /\ held' = [held EXCEPT ![h] = From(b)]
                          /\ slots' = [slots EXCEPT ![b][index[b]] = Null]
                          /\ index' = [index EXCEPT ![b] = @ + 1]
    BY <2>0
  <2> DEFINE k == index[b]
             buffer == slots[b][k]
             m == From(b)
  <2>1. /\ b \in Buckets /\ k \in 0 .. MaxArrays - 1
        /\ index' = [index EXCEPT ![b] = @ + 1]
        /\ held' = [held EXCEPT ![h] = m]
        /\ m.array = buffer /\ m.st = IF buffer = Null THEN "renting" ELSE "held"
    BY <1>a DEF From, Rented
  <2>2. fate = "regular" /\ held[h].st = "none"
    BY <1>4 DEF Rent
  <2> HIDE DEF m, k
  <2>3. \A c \in Buckets, j \in 0 .. MaxArrays - 1 :
          slots'[c][j] = IF c = b /\ j = k THEN Null ELSE slots[c][j]
    BY <1>b, RentedSlots DEF k
  <2>4. \A c \in Buckets : index'[c] = IF c = b THEN k + 1 ELSE index[c]
    BY <1>b, <2>1 DEF BucketsOK, k
  <2>5. /\ \A g \in Handles, a \in Int : g # h => (Has(g, a)' <=> Has(g, a))
        /\ held'[h] = m
    BY <2>1, <1>d, OthersKeep
  <2>6. \A a \in Int : Has(h, a)' => a = buffer /\ a # Null
    BY <2>1, <2>5 DEF Has, Holds
  <2>7. \A c \in Buckets, j \in 0 .. MaxArrays - 1, a \in Int :
          Waits(c, j, a)' => Waits(c, j, a) /\ ~ (c = b /\ j = k)
    BY <1>a, <2>1, <2>3, <2>4 DEF Waits, k
  <2>8. Waits(b, k, buffer) /\ buffer \in Int
    BY <1>a, <1>b, <2>1 DEF Waits, k
  <2> HIDE DEF buffer
  <2>9. \A g \in Handles : ~ Has(g, Null)'
    BY <1>b, <1>c, <2>2, <2>5, <2>6
  <2>10. \A g, f \in Handles, a \in Int : Has(f, a)' /\ Has(g, a)' => f = g
    BY <1>c, <2>1, <2>2, <2>5, <2>6, <2>8
  <2>11. \A g \in Handles, a \in Int, c \in Buckets, j \in 0 .. MaxArrays - 1 :
           ~ (Has(g, a)' /\ Waits(c, j, a)')
    BY <1>c, <2>1, <2>2, <2>5, <2>6, <2>7, <2>8
  <2>12. \A c, d \in Buckets, i, j \in 0 .. MaxArrays - 1, a \in Int :
           a # Null /\ Waits(c, i, a)' /\ Waits(d, j, a)' => c = d /\ i = j
    BY <1>c, <2>2, <2>7
  <2> QED
    BY <2>9, <2>10, <2>11, <2>12 DEF OneOwner, Null
<1>5. ASSUME NEW h \in Handles, Allocate(h) PROVE OneOwner'
  <2> DEFINE m == [held[h] EXCEPT !.st = "held", !.array = allocs + 1]
  <2>1. held' = [held EXCEPT ![h] = m] /\ m.array = allocs + 1
    BY <1>5 DEF Allocate, Set, TypeOK
  <2> HIDE DEF m
  <2>2. /\ \A g \in Handles, a \in Int : g # h => (Has(g, a)' <=> Has(g, a))
        /\ held'[h].array = allocs + 1
    BY <2>1, <1>d, OthersKeep
  <2> QED
    BY <1>1, <1>5, <2>2 DEF Allocate, Has
<1>6. ASSUME NEW h \in Handles,
             RentExhausted(h) \/ Wrap(h) \/ Move(h) \/ ReturnRefused(h)
      PROVE  FALSE
  BY <1>6 DEF RentExhausted, Wrap, Move, ReturnRefused
<1>7. ASSUME NEW h \in Handles, held' = [held EXCEPT ![h] = NoHandle]
      PROVE  /\ \A g \in Handles, a \in Int : g # h => (Has(g, a)' <=> Has(g, a))
             /\ \A a \in Int : ~ Has(h, a)'
  <2>1. held'[h] = NoHandle
    BY <1>7, <1>d
  <2> QED
    BY <1>7, <2>1, <1>d, OthersKeep DEF Has, Holds, NoHandle
<1>8. ASSUME NEW h \in Handles, DropIgnored(h) PROVE OneOwner'
  BY <1>2, <1>7, <1>8 DEF DropIgnored, Dropped, Set
<1>9. ASSUME NEW h \in Handles, Return(h) PROVE OneOwner'
  <2> DEFINE b == Class(h)
             k == index[b] - 1
             array == held[h].array
  <2>1. /\ b \in Buckets /\ index[b] # 0
        /\ slots' = [slots EXCEPT ![b][k] = array]
        /\ index' = [index EXCEPT ![b] = @ - 1]
        /\ held' = [held EXCEPT ![h] = NoHandle]
        /\ fate = "regular" /\ Holds(h)
    BY <1>9 DEF Return, PutBack, Dropped, Set, Holds
  <2> HIDE DEF b
  <2>2. k \in 0 .. MaxArrays - 1 /\ index[b] = k + 1 /\ array \in Int
    BY <1>a, <1>b, <2>1
  <2>3. \A c \in Buckets, j \in 0 .. MaxArrays - 1 :
          slots'[c][j] = IF c = b /\ j = k THEN array ELSE slots[c][j]
    BY <1>b, <2>1, <2>2, SlotChanged
  <2>4. \A c \in Buckets : index'[c] = IF c = b THEN k ELSE index[c]
    BY <1>b, <2>1 DEF BucketsOK
  <2>5. Has(h, array)
    BY <2>1 DEF Has
  <2>6. \A c \in Buckets, j \in 0 .. MaxArrays - 1, a \in Int :
          Waits(c, j, a)' => Waits(c, j, a) \/ (c = b /\ j = k /\ a = array)
    BY <1>a, <2>1, <2>2, <2>3, <2>4 DEF Waits
  <2>7. \A g \in Handles, a \in Int : Has(g, a)' => g # h /\ Has(g, a)
    BY <1>7, <2>1
  <2> HIDE DEF k, array
  <2>8. \A g \in Handles : ~ Has(g, Null)'
    BY <1>b, <1>c, <2>1, <2>7
  <2>9. \A g, f \in Handles, a \in Int : Has(f, a)' /\ Has(g, a)' => f = g
    BY <1>c, <2>1, <2>7
  <2>10. \A g \in Handles, a \in Int, c \in Buckets, j \in 0 .. MaxArrays - 1 :
           ~ (Has(g, a)' /\ Waits(c, j, a)')
    BY <1>c, <2>1, <2>2, <2>5, <2>6, <2>7
  <2>11. \A c, d \in Buckets, i, j \in 0 .. MaxArrays - 1, a \in Int :
           a # Null /\ Waits(c, i, a)' /\ Waits(d, j, a)' => c = d /\ i = j
    BY <1>c, <2>1, <2>2, <2>5, <2>6
  <2> QED
    BY <2>8, <2>9, <2>10, <2>11 DEF OneOwner, Null
<1>10. CASE UNCHANGED vars
  <2>1. UNCHANGED <<slots, index, held, fate>>
    BY <1>10 DEF vars
  <2> QED
    BY <2>1 DEF OneOwner, Has, Holds, Waits
<1> QED
  BY <1>3, <1>4, <1>5, <1>6, <1>8, <1>9, <1>10 DEF Next, Step

(* As long as no handle was moved from or wraps a vector, and no bucket    *)
(* was exhausted, two handles never have one array, and none is in a       *)
(* handle and in a slot that can be rented, though bucket::rent_memory     *)
(* allocates after it has released the lock.                               *)
THEOREM ArraysExclusive == Spec => []Exclusive
<1>1. Init => StackInv /\ TypeOK /\ OneOwner
  BY MemoryPoolAssumption
  DEF Init, StackInv, BucketsOK, TakenSlotsEmpty, NoHandle, Null, TypeOK,
      OneOwner, Has, Holds, Waits
<1> QED
  BY <1>1, StackStep, TypesStep, OwnerStep, OwnerExclusive, PTL DEF Spec
-----------------------------------------------------------------------------
(* What a bucket has lent, and the count of it.                            *)
Lends(h, b) ==
  /\ held[h].st # "none" /\ ~held[h].owned /\ held[h].pooled
  /\ held[h].len = GetMaxSize(b)

Lent(b) == {h \in Handles : Lends(h, b)}

Counted(b) == IsFiniteSet(Lent(b)) /\ index[b] = Cardinality(Lent(b))

(* A handle in use has an array that goes back to the bucket it is from,   *)
(* or one that no bucket takes; and every index counts what is lent.       *)
Accounts ==
  fate = "regular" =>
  /\ \A h \in Handles : held[h].st # "none" =>
       IF Class(h) \in Buckets THEN Lends(h, Class(h))
                               ELSE \A b \in Buckets : ~ Lends(h, b)
  /\ \A b \in Buckets : Counted(b)

LEMMA AccountsBalanced == Accounts => Balanced
  BY DEF Accounts, Balanced, Counted, Lent, Lends

(* No length is that of two buckets.                                       *)
LEMMA LendsOne ==
  ASSUME NEW h \in Handles, NEW b \in Buckets, NEW c \in Buckets, Lends(h, b), Lends(h, c)
  PROVE  b = c
<1>1. b \in Nat /\ c \in Nat /\ GetMaxSize(b) = GetMaxSize(c)
  BY BucketNumbers DEF Lends
<1> QED
  BY <1>1 DEF GetMaxSize

LEMMA CountKept ==
  ASSUME NEW b, Counted(b), index'[b] = index[b],
         \A g \in Handles : Lends(g, b)' <=> Lends(g, b)
  PROVE  Counted(b)'
<1>1. Lent(b)' = Lent(b)
  BY DEF Lent
<1> QED
  BY <1>1 DEF Counted

LEMMA CountTaken ==
  ASSUME NEW b, NEW h \in Handles, Counted(b), index'[b] = index[b] + 1,
         ~ Lends(h, b), Lends(h, b)',
         \A g \in Handles : g # h => (Lends(g, b)' <=> Lends(g, b))
  PROVE  Counted(b)'
<1>1. Lent(b)' = Lent(b) \cup {h} /\ h \notin Lent(b)
  BY DEF Lent
<1>2. /\ IsFiniteSet(Lent(b) \cup {h})
      /\ Cardinality(Lent(b) \cup {h}) = Cardinality(Lent(b)) + 1
  BY <1>1, FS_AddElement DEF Counted
<1> QED
  BY <1>1, <1>2 DEF Counted

LEMMA CountGiven ==
  ASSUME NEW b, NEW h \in Handles, Counted(b), index'[b] = index[b] - 1,
         Lends(h, b), ~ Lends(h, b)',
         \A g \in Handles : g # h => (Lends(g, b)' <=> Lends(g, b))
  PROVE  Counted(b)'
<1>1. Lent(b)' = Lent(b) \ {h} /\ h \in Lent(b)
  BY DEF Lent
<1>2. /\ IsFiniteSet(Lent(b) \ {h})
      /\ Cardinality(Lent(b) \ {h}) = Cardinality(Lent(b)) - 1
  BY <1>1, FS_RemoveElement DEF Counted
<1> QED
  BY <1>1, <1>2 DEF Counted

LEMMA LendsOthers ==
  ASSUME NEW h \in Handles, \A g \in Handles : g # h => held'[g] = held[g]
  PROVE  \A g \in Handles : g # h =>
           /\ (held[g].st # "none")' <=> held[g].st # "none"
           /\ Class(g)' = Class(g)
           /\ \A b \in Buckets : Lends(g, b)' <=> Lends(g, b)
  BY DEF Lends, Class

LEMMA AccountsStep == StackInv /\ TypeOK /\ Accounts /\ [Next]_vars => Accounts'
<1> SUFFICES ASSUME StackInv, TypeOK, Accounts, [Next]_vars, fate' = "regular"
             PROVE  Accounts'
  BY DEF Accounts
<1>a. DOMAIN held = Handles /\ DOMAIN index = Buckets
  BY DEF TypeOK
<1>b. \A b \in Buckets : index[b] \in 0 .. MaxArrays
  BY DEF TypeOK
<1> DEFINE InOrder(h) ==
      held[h].st # "none" =>
       IF Class(h) \in Buckets THEN Lends(h, Class(h))
                               ELSE \A b \in Buckets : ~ Lends(h, b)
<1>c. fate = "regular" =>
      (\A h \in Handles : InOrder(h)) /\ \A b \in Buckets : Counted(b)
  BY DEF Accounts
<1> HIDE DEF InOrder
<1>d. ASSUME NEW h \in Handles, fate = "regular",
             \A g \in Handles : g # h => held'[g] = held[g], InOrder(h)'
      PROVE  /\ \A g \in Handles : InOrder(g)'
             /\ \A g \in Handles, b \in Buckets : g # h => (Lends(g, b)' <=> Lends(g, b))
  <2>1. \A g \in Handles, b \in Buckets : g # h => (Lends(g, b)' <=> Lends(g, b))
    BY <1>d, LendsOthers
  <2>2. ASSUME NEW g \in Handles, g # h PROVE InOrder(g)'
    <3>1. /\ (held[g].st # "none")' <=> held[g].st # "none"
          /\ Class(g)' = Class(g)
          /\ \A b \in Buckets : Lends(g, b)' <=> Lends(g, b)
      BY <1>d, <2>2, LendsOthers
    <3>2. InOrder(g)
      BY <1>c, <1>d
    <3> QED
      BY <3>1, <3>2 DEF InOrder
  <2> QED
    BY <1>d, <2>1, <2>2
(* Nothing is lent or comes back. *)
<1>1. ASSUME NEW h \in Handles, fate = "regular", UNCHANGED index,
             \A g \in Handles : g # h => held'[g] = held[g], InOrder(h)',
             \A b \in Buckets : Lends(h, b)' <=> Lends(h, b)
      PROVE  Accounts'
  <2>1. /\ \A g \in Handles : InOrder(g)'
        /\ \A g \in Handles, b \in Buckets : g # h => (Lends(g, b)' <=> Lends(g, b))
    BY <1>1, <1>d
  <2>2. ASSUME NEW b \in Buckets PROVE Counted(b)'
    <3>1. \A g \in Handles : Lends(g, b)' <=> Lends(g, b)
      BY <1>1, <2>1
    <3>2. Counted(b) /\ index'[b] = index[b]
      BY <1>1, <1>c
    <3> QED
      BY <3>1, <3>2, CountKept
  <2> QED
    BY <2>1, <2>2 DEF Accounts, InOrder
<1>2. ASSUME NEW h \in Handles, RentCustom(h) PROVE Accounts'
  <2> PICK n \in Amounts :
        /\ GetBucketIndex(n) \notin Buckets
        /\ held' = [held EXCEPT ![h] = [st |-> "held", array |-> allocs + 1, len |-> n,
                                        owned |-> TRUE, pooled |-> TRUE]]
    BY <1>2 DEF RentCustom, Set
  <2>1. /\ \A g \in Handles : g # h => held'[g] = held[g]
        /\ held'[h] = [st |-> "held", array |-> allocs + 1, len |-> n,
                       owned |-> TRUE, pooled |-> TRUE]
    BY <1>a
  <2>2. \A b \in Buckets : ~ Lends(h, b)'
    BY <2>1 DEF Lends
  <2>3. \A b \in Buckets : ~ Lends(h, b)
    BY <1>2 DEF RentCustom, Lends
  <2>4. Class(h)' \notin Buckets
    BY <2>1 DEF Class
  <2>5. InOrder(h)'
    BY <2>2, <2>4 DEF InOrder
  <2>6. fate = "regular" /\ UNCHANGED index
    BY <1>2 DEF RentCustom
  <2> QED
    BY <1>1, <2>1, <2>2, <2>3, <2>5, <2>6
<1>3. ASSUME NEW h \in Handles, Rent(h) PROVE Accounts'
  <2> DEFINE From(b) ==
        LET buffer == slots[b][index[b]] IN
        Rented(b, buffer, IF buffer = Null THEN "renting" ELSE "held")
  <2>0. \E b \in Buckets : /\ GetBucketIndex(GetMaxSize(b)) = b
                          /\ held' = [held EXCEPT ![h] = From(b)]
                          /\ index' = [index EXCEPT ![b] = @ + 1]
    BY <1>3 DEF Rent, Set
  <2>1. fate = "regular" /\ held[h].st = "none"
    BY <1>3 DEF Rent
  <2>2. \A b \in Buckets : /\ From(b).st # "none" /\ ~From(b).owned /\ From(b).pooled
                           /\ From(b).len = GetMaxSize(b)
    BY DEF Rented
  <2> HIDE DEF From
  <2> PICK b \in Buckets : /\ GetBucketIndex(GetMaxSize(b)) = b
                          /\ held' = [held EXCEPT ![h] = From(b)]
                          /\ index' = [index EXCEPT ![b] = @ + 1]
    BY <2>0
  <2>3. held'[h] = From(b) /\ \A g \in Handles : g # h => held'[g] = held[g]
    BY <1>a
  <2>4. index'[b] = index[b] + 1 /\ \A c \in Buckets : c # b => index'[c] = index[c]
    BY <1>a
  <2>5. Lends(h, b)' /\ \A c \in Buckets : ~ Lends(h, c)
    BY <2>1, <2>2, <2>3 DEF Lends
  <2>6. Class(h)' = b
    BY <2>2, <2>3 DEF Class
  <2>7. InOrder(h)'
    BY <2>5, <2>6 DEF InOrder
  <2>8. /\ \A g \in Handles : InOrder(g)'
        /\ \A g \in Handles, c \in Buckets : g # h => (Lends(g, c)' <=> Lends(g, c))
    BY <1>d, <2>1, <2>3, <2>7
  <2>9. Counted(b)'
    BY <1>c, <2>1, <2>4, <2>5, <2>8, CountTaken
  <2>10. ASSUME NEW c \in Buckets, c # b PROVE Counted(c)'
    <3>1. ~ Lends(h, c)'
      <4>1. GetMaxSize(c) # GetMaxSize(b)
        BY <2>10, BucketNumbers DEF GetMaxSize
      <4> QED
        BY <2>2, <2>3, <4>1 DEF Lends
    <3> QED
      BY <1>c, <2>1, <2>4, <2>5, <2>8, <2>10, <3>1, CountKept
  <2> QED
    BY <2>8, <2>9, <2>10 DEF Accounts, InOrder
<1>4. ASSUME NEW h \in Handles, Allocate(h) PROVE Accounts'
  <2> DEFINE m == [held[h] EXCEPT !.st = "held", !.array = allocs + 1]
  <2>1. /\ held' = [held EXCEPT ![h] = m] /\ held[h].st = "renting"
        /\ fate = "regular" /\ UNCHANGED index
    BY <1>4 DEF Allocate, Set
  <2>2. /\ m.st = "held" /\ m.owned = held[h].owned /\ m.pooled = held[h].pooled
        /\ m.len = held[h].len
    BY <2>1 DEF TypeOK
  <2> HIDE DEF m
  <2>3. held'[h] = m /\ \A g \in Handles : g # h => held'[g] = held[g]
    BY <1>a, <2>1
  <2>4. \A b \in Buckets : Lends(h, b)' <=> Lends(h, b)
    BY <2>1, <2>2, <2>3 DEF Lends
  <2>5. Class(h)' = Class(h)
    BY <2>2, <2>3 DEF Class
  <2>6. InOrder(h)'
    BY <1>c, <2>1, <2>4, <2>5 DEF InOrder
  <2> QED
    BY <1>1, <2>1, <2>3, <2>4, <2>6
<1>5. ASSUME NEW h \in Handles,
             RentExhausted(h) \/ Wrap(h) \/ Move(h) \/ ReturnRefused(h)
      PROVE  FALSE
  BY <1>5 DEF RentExhausted, Wrap, Move, ReturnRefused
<1>6. ASSUME NEW h \in Handles, held' = [held EXCEPT ![h] = NoHandle]
      PROVE  /\ \A g \in Handles : g # h => held'[g] = held[g]
             /\ InOrder(h)' /\ \A b \in Buckets : ~ Lends(h, b)'
  <2>1. held'[h] = NoHandle /\ \A g \in Handles : g # h => held'[g] = held[g]
    BY <1>a, <1>6
  <2> QED
    BY <2>1 DEF InOrder, Lends, NoHandle
<1>7. ASSUME NEW h \in Handles, DropIgnored(h) PROVE Accounts'
  <2>1. /\ held' = [held EXCEPT ![h] = NoHandle] /\ held[h].st = "held"
        /\ fate = "regular" /\ UNCHANGED index
    BY <1>7 DEF DropIgnored, Dropped, Set
  <2>2. ASSUME NEW b \in Buckets, Lends(h, b) PROVE FALSE
    <3>1. InOrder(h)
      BY <1>c, <2>1
    <3>2. Class(h) \in Buckets /\ Lends(h, Class(h))
      BY <2>1, <2>2, <3>1 DEF InOrder
    <3>3. held[h].pooled
      BY <3>2 DEF Lends
    <3>4. index[Class(h)] = 0
      BY <1>7, <3>2, <3>3 DEF DropIgnored
    <3>5. h \in Lent(Class(h)) /\ Counted(Class(h))
      BY <1>c, <2>1, <3>2 DEF Lent
    <3> QED
      BY <3>4, <3>5, FS_EmptySet DEF Counted
  <2> QED
    BY <1>1, <1>6, <2>1, <2>2
<1>8. ASSUME NEW h \in Handles, Return(h) PROVE Accounts'
  <2>1. /\ held' = [held EXCEPT ![h] = NoHandle] /\ held[h].st # "none"
        /\ fate = "regular" /\ Class(h) \in Buckets
        /\ index' = [index EXCEPT ![Class(h)] = @ - 1]
    BY <1>8 DEF Return, PutBack, Dropped, Set
  <2>2. InOrder(h)
    BY <1>c, <2>1
  <2> PICK b \in Buckets : Lends(h, b) /\ index' = [index EXCEPT ![b] = @ - 1]
    BY <2>1, <2>2 DEF InOrder
  <2>3. Lends(h, b) /\ index' = [index EXCEPT ![b] = @ - 1]
    OBVIOUS
  <2>4. /\ \A g \in Handles : g # h => held'[g] = held[g]
        /\ InOrder(h)' /\ \A c \in Buckets : ~ Lends(h, c)'
    BY <1>6, <2>1
  <2>5. index'[b] = index[b] - 1 /\ \A c \in Buckets : c # b => index'[c] = index[c]
    BY <1>a, <2>3
  <2>6. /\ \A g \in Handles : InOrder(g)'
        /\ \A g \in Handles, c \in Buckets : g # h => (Lends(g, c)' <=> Lends(g, c))
    BY <1>d, <2>1, <2>4
  <2>7. Counted(b)'
    <3>1. \A g \in Handles : g # h => (Lends(g, b)' <=> Lends(g, b))
      BY <2>1, <2>6
    <3>2. Counted(b) /\ ~ Lends(h, b)' /\ index'[b] = index[b] - 1
      BY <1>c, <2>1, <2>4, <2>5
    <3> QED
      BY <2>3, <3>1, <3>2, CountGiven
  <2>8. ASSUME NEW c \in Buckets, c # b PROVE Counted(c)'
    <3>1. ~ Lends(h, c)
      BY <2>1, <2>3, <2>8, LendsOne
    <3>2. \A g \in Handles : Lends(g, c)' <=> Lends(g, c)
      BY <2>4, <2>6, <3>1
    <3>3. Counted(c) /\ index'[c] = index[c]
      BY <1>c, <2>1, <2>5, <2>8
    <3> QED
      BY <3>2, <3>3, CountKept
  <2> QED
    BY <2>6, <2>7, <2>8 DEF Accounts, InOrder
<1>9. CASE UNCHANGED vars
  <2>1. UNCHANGED <<index, held, fate>>
    BY <1>9 DEF vars
  <2>2. \A b \in Buckets : Lent(b)' = Lent(b)
    BY <2>1 DEF Lent, Lends
  <2> QED
    BY <2>1, <2>2 DEF Accounts, Counted, Lends, Class
<1> QED
  BY <1>2, <1>3, <1>4, <1>5, <1>7, <1>8, <1>9 DEF Next, Step

(* As long as nothing irregular has happened a bucket's _index counts the  *)
(* arrays it has lent, one by one, also those that are not allocated yet:  *)
(* no array that comes back finds its bucket full or goes to another one.  *)
THEOREM PoolBalanced == Spec => []Balanced
<1>1. Init => StackInv /\ TypeOK
  BY MemoryPoolAssumption
  DEF Init, StackInv, BucketsOK, TakenSlotsEmpty, NoHandle, Null, TypeOK
<1>2. Init => Accounts
  <2> SUFFICES ASSUME Init PROVE Accounts
    OBVIOUS
  <2>1. \A h \in Handles : held[h].st = "none"
    BY DEF Init, NoHandle
  <2>2. \A b \in Buckets : Lent(b) = {} /\ index[b] = 0
    BY <2>1 DEF Lent, Lends, Init
  <2> QED
    BY <2>1, <2>2, FS_EmptySet DEF Accounts, Counted
<1> QED
  BY <1>1, <1>2, StackStep, TypesStep, AccountsStep, AccountsBalanced, PTL DEF Spec

-----------------------------------------------------------------------------
(* Adding the width of a halving to the exponent.                          *)
LEMMA Powers ==
  /\ TwoTo(0) = 1 /\ TwoTo(1) = 2
  /\ \A k \in 0 .. 28 : TwoTo(k) \in Nat \ {0}
  /\ \A k \in 0 .. 27 : TwoTo(k + 1) = TwoTo(k) * TwoTo(1)
  /\ \A k \in 0 .. 26 : TwoTo(k + 2) = TwoTo(k) * TwoTo(2)
  /\ \A k \in 0 .. 24 : TwoTo(k + 4) = TwoTo(k) * TwoTo(4)
  /\ \A k \in 0 .. 20 : TwoTo(k + 8) = TwoTo(k) * TwoTo(8)
  /\ TwoTo(0 + 16) = TwoTo(0) * TwoTo(16)
  /\ TwoTo(2) = TwoTo(1) * TwoTo(1) /\ TwoTo(4) = TwoTo(2) * TwoTo(2)
  /\ TwoTo(8) = TwoTo(4) * TwoTo(4) /\ TwoTo(16) = TwoTo(8) * TwoTo(8)
  /\ TwoTo(28) <= TwoTo(16) * TwoTo(16)
<1>1. \A k \in 0 .. 27 : TwoTo(k) \in Nat \ {0} /\ TwoTo(k + 1) \in Nat \ {0} /\ TwoTo(k + 1) = TwoTo(k) * 2
  BY PowersOfTwo
<1>2. \A k \in 0 .. 28 : TwoTo(k) \in Nat \ {0}
  <2>1. ASSUME NEW k \in 0 .. 28 PROVE TwoTo(k) \in Nat \ {0}
    <3>1. CASE k \in 0 .. 27
      BY <1>1, <3>1
    <3>2. CASE k = 28
      <4>1. TwoTo(27 + 1) \in Nat \ {0} /\ 27 + 1 = 28
        BY <1>1
      <4> QED BY <3>2, <4>1
    <3> QED BY <3>1, <3>2
  <2> QED BY <2>1
<1>3. ASSUME NEW k \in 0 .. 26 PROVE TwoTo(k + 2) = TwoTo(k) * 4
  <2>1. TwoTo(k + 1) = TwoTo(k) * 2 /\ TwoTo((k + 1) + 1) = TwoTo(k + 1) * 2 /\ TwoTo(k) \in Nat
    BY <1>1
  <2>2. (k + 1) + 1 = k + 2
    OBVIOUS
  <2> QED BY <2>1, <2>2
<1>4. ASSUME NEW k \in 0 .. 24 PROVE TwoTo(k + 4) = TwoTo(k) * 16
  <2>1. TwoTo(k + 2) = TwoTo(k) * 4 /\ TwoTo((k + 2) + 2) = TwoTo(k + 2) * 4 /\ TwoTo(k) \in Nat
    BY <1>1, <1>3
  <2>2. (k + 2) + 2 = k + 4
    OBVIOUS
  <2> QED BY <2>1, <2>2
<1>5. ASSUME NEW k \in 0 .. 20 PROVE TwoTo(k + 8) = TwoTo(k) * 256
  <2>1. TwoTo(k + 4) = TwoTo(k) * 16 /\ TwoTo((k + 4) + 4) = TwoTo(k + 4) * 16 /\ TwoTo(k) \in Nat
    BY <1>1, <1>4
  <2>2. (k + 4) + 4 = k + 8
    OBVIOUS
  <2> QED BY <2>1, <2>2
<1>6. TwoTo(0) = 1 /\ TwoTo(0 + 1) = TwoTo(0) * 2 /\ TwoTo(0 + 2) = TwoTo(0) * 4 /\ TwoTo(0 + 4) = TwoTo(0) * 16
      /\ TwoTo(0 + 8) = TwoTo(0) * 256
  BY <1>1, <1>3, <1>4, <1>5, PowersOfTwo
<1>7. TwoTo(1) = 2 /\ TwoTo(2) = 4 /\ TwoTo(4) = 16 /\ TwoTo(8) = 256
  BY <1>6
<1>8. TwoTo(16) = 256 * 256 /\ TwoTo(12) = 16 * 256 /\ TwoTo(20) = (16 * 256) * 256 /\ TwoTo(28) = ((16 * 256) * 256) * 256
  <2>1. TwoTo(8 + 8) = TwoTo(8) * 256 /\ TwoTo(4 + 8) = TwoTo(4) * 256 /\ TwoTo(12 + 8) = TwoTo(12) * 256
        /\ TwoTo(20 + 8) = TwoTo(20) * 256
    BY <1>5
  <2> QED BY <1>7, <2>1, SMT
<1>9. TwoTo(28) <= TwoTo(16) * TwoTo(16)
  BY <1>8, SMT
<1>10. TwoTo(0 + 16) = TwoTo(0) * TwoTo(16)
  BY <1>6, <1>8
<1> QED BY <1>1, <1>2, <1>3, <1>4, <1>5, <1>6, <1>7, <1>8, <1>9, <1>10

(* The same for one width at a time.                                       *)
LEMMA Plus1 ==
  \A k \in 0 .. 27 : TwoTo(k) \in Nat \ {0} /\ TwoTo(k + 1) = TwoTo(k) * TwoTo(1)
<1> TAKE k \in 0 .. 27
<1>1. k \in 0 .. 28
  OBVIOUS
<1>2. TwoTo(k) \in Nat \ {0}
  BY <1>1, Powers
<1>3. TwoTo(k + 1) = TwoTo(k) * TwoTo(1)
  BY Powers
<1> QED BY <1>2, <1>3

LEMMA Plus2 ==
  \A k \in 0 .. 26 : TwoTo(k) \in Nat \ {0} /\ TwoTo(k + 2) = TwoTo(k) * TwoTo(2)
<1> TAKE k \in 0 .. 26
<1>1. k \in 0 .. 28
  OBVIOUS
<1>2. TwoTo(k) \in Nat \ {0}
  BY <1>1, Powers
<1>3. TwoTo(k + 2) = TwoTo(k) * TwoTo(2)
  BY Powers
<1> QED BY <1>2, <1>3

LEMMA Plus4 ==
  \A k \in 0 .. 24 : TwoTo(k) \in Nat \ {0} /\ TwoTo(k + 4) = TwoTo(k) * TwoTo(4)
<1> TAKE k \in 0 .. 24
<1>1. k \in 0 .. 28
  OBVIOUS
<1>2. TwoTo(k) \in Nat \ {0}
  BY <1>1, Powers
<1>3. TwoTo(k + 4) = TwoTo(k) * TwoTo(4)
  BY Powers
<1> QED BY <1>2, <1>3

LEMMA Plus8 ==
  \A k \in 0 .. 20 : TwoTo(k) \in Nat \ {0} /\ TwoTo(k + 8) = TwoTo(k) * TwoTo(8)
<1> TAKE k \in 0 .. 20
<1>1. k \in 0 .. 28
  OBVIOUS
<1>2. TwoTo(k) \in Nat \ {0}
  BY <1>1, Powers
<1>3. TwoTo(k + 8) = TwoTo(k) * TwoTo(8)
  BY Powers
<1> QED BY <1>2, <1>3

LEMMA Widths ==
  /\ TwoTo(0) = 1 /\ TwoTo(1) = 2
  /\ \A k \in {1, 2, 4, 8, 16, 28} : TwoTo(k) \in Nat \ {0}
  /\ TwoTo(0 + 16) = TwoTo(0) * TwoTo(16)
  /\ TwoTo(2) = TwoTo(1) * TwoTo(1) /\ TwoTo(4) = TwoTo(2) * TwoTo(2)
  /\ TwoTo(8) = TwoTo(4) * TwoTo(4) /\ TwoTo(16) = TwoTo(8) * TwoTo(8)
  /\ TwoTo(28) <= TwoTo(16) * TwoTo(16)
<1>1. \A k \in 0 .. 28 : TwoTo(k) \in Nat \ {0}
  BY Powers
<1>2. \A k \in {1, 2, 4, 8, 16, 28} : TwoTo(k) \in Nat \ {0}
  BY <1>1
<1> QED BY <1>2, Powers

(* What is left to halve is the size divided by the power of two of what   *)
(* was found, and not nothing unless nothing was found.                    *)
Halved(size, found) ==
  /\ found.remaining \in Nat /\ found.index \in Nat
  /\ TwoTo(found.index) * found.remaining <= size
  /\ size < TwoTo(found.index) * (found.remaining + 1)
  /\ found.index > 0 => found.remaining > 0

(* Dividing twice is dividing by the product.                              *)
LEMMA HalvedAgain ==
  ASSUME NEW p \in Nat \ {0}, NEW q \in Nat \ {0}, NEW size \in Nat, NEW rest \in Nat,
         p * rest <= size, size < p * (rest + 1)
  PROVE  /\ rest \div q \in Nat
         /\ (p * q) * (rest \div q) <= size
         /\ size < (p * q) * ((rest \div q) + 1)
         /\ rest >= q => rest \div q > 0
<1> DEFINE d == rest \div q
<1>1. d \in Nat /\ q * d <= rest /\ rest + 1 <= q * (d + 1)
  OBVIOUS
<1>2. rest >= q => d > 0
  OBVIOUS
<1> HIDE DEF d
<1>3. \A x, y \in Nat : x <= y => p * x <= p * y
  OBVIOUS
<1>4. q * d \in Nat /\ q * (d + 1) \in Nat
  BY <1>1
<1>5. p * (q * d) <= p * rest /\ p * (rest + 1) <= p * (q * (d + 1))
  BY <1>1, <1>3, <1>4
<1>6. p * (q * d) = (p * q) * d /\ p * (q * (d + 1)) = (p * q) * (d + 1)
  BY <1>1
<1>7. (p * q) * d <= size /\ size < (p * q) * (d + 1)
  <2> DEFINE a == p * (q * d)
             b == p * (q * (d + 1))
             c == p * rest
             e == p * (rest + 1)
  <2>1. a \in Nat /\ b \in Nat /\ c \in Nat /\ e \in Nat
    BY <1>1, <1>4
  <2>2. a <= c /\ e <= b /\ c <= size /\ size < e
    BY <1>5
  <2> HIDE DEF a, b, c, e
  <2>3. a <= size /\ size < b
    BY <2>1, <2>2
  <2> QED BY <1>6, <2>3 DEF a, b
<1> QED BY <1>1, <1>2, <1>7 DEF d

LEMMA NarrowHalves ==
  ASSUME NEW size \in Nat, NEW found, NEW bits \in Nat \ {0}, Halved(size, found),
         NEW p \in Nat \ {0}, NEW q \in Nat \ {0},
         TwoTo(found.index) = p, TwoTo(bits) = q,
         found.remaining >= q => TwoTo(found.index + bits) = p * q
  PROVE  Halved(size, Narrow(found, bits))
<1> DEFINE rest == found.remaining
<1>1. rest \in Nat /\ found.index \in Nat /\ p * rest <= size /\ size < p * (rest + 1)
  BY DEF Halved
<1>2. CASE rest >= q
  <2> DEFINE next == [remaining |-> rest \div q, index |-> found.index + bits]
  <2>1. Narrow(found, bits) = next
    BY <1>1, <1>2 DEF Narrow
  <2>2. next.remaining = rest \div q /\ next.index = found.index + bits
    OBVIOUS
  <2>3. TwoTo(next.index) = p * q
    BY <1>2, <2>2
  <2> HIDE DEF next, rest
  <2>4. /\ rest \div q \in Nat
        /\ (p * q) * (rest \div q) <= size
        /\ size < (p * q) * ((rest \div q) + 1)
        /\ rest \div q > 0
    BY <1>1, <1>2, HalvedAgain
  <2>5. next.index \in Nat
    BY <1>1, <2>2
  <2> QED BY <2>1, <2>2, <2>3, <2>4, <2>5 DEF Halved
<1>3. CASE ~(rest >= q)
  BY <1>1, <1>3 DEF Narrow
<1> QED BY <1>2, <1>3

LEMMA NarrowedTo ==
  ASSUME NEW size \in Nat, NEW found, NEW bits \in Nat \ {0}, Halved(size, found),
         found.remaining < TwoTo(bits) * TwoTo(bits),
         TwoTo(bits) \in Nat \ {0}, TwoTo(found.index) \in Nat \ {0},
         TwoTo(found.index + bits) = TwoTo(found.index) * TwoTo(bits)
  PROVE  LET next == Narrow(found, bits)
         IN /\ Halved(size, next) /\ next.remaining < TwoTo(bits)
            /\ next.index \in {found.index, found.index + bits}
<1> DEFINE q == TwoTo(bits)
<1>0. q \in Nat \ {0} /\ found.remaining < q * q /\ TwoTo(bits) = q
  OBVIOUS
<1> HIDE DEF q
<1>1. Halved(size, Narrow(found, bits))
  BY <1>0, NarrowHalves
<1> DEFINE rest == found.remaining
<1>2. rest \in Nat
  BY DEF Halved
<1>3. CASE rest >= q
  <2>1. Narrow(found, bits) = [remaining |-> rest \div q, index |-> found.index + bits]
    BY <1>0, <1>2, <1>3 DEF Narrow
  <2>2. rest \in 0 .. q * q - 1
    BY <1>0, <1>2
  <2> HIDE DEF rest
  <2>3. rest \div q < q
    BY <1>0, <2>2
  <2> QED BY <1>0, <1>1, <2>1, <2>3
<1>4. CASE ~(rest >= q)
  BY <1>0, <1>1, <1>2, <1>4 DEF Narrow
<1> QED BY <1>3, <1>4

(* The five halvings find the logarithm, rounded up.                       *)
LEMMA LogarithmFound ==
  ASSUME NEW size \in Nat, size < TwoTo(28)
  PROVE  LET b == Logarithm(size)
         IN /\ b \in 0 .. 28 /\ TwoTo(b) \in Nat /\ size < TwoTo(b)
            /\ b > 0 => TwoTo(b - 1) \in Nat /\ TwoTo(b - 1) <= size
<1> DEFINE all == [remaining |-> size, index |-> 0]
           f16 == Narrow(all, 16)
           f8 == Narrow(f16, 8)
           f4 == Narrow(f8, 4)
           f2 == Narrow(f4, 2)
           f1 == Narrow(f2, 1)
<1>1. Logarithm(size) = f1.index + f1.remaining
  BY DEF Logarithm
<1>2. Halved(size, all) /\ all.remaining < TwoTo(16) * TwoTo(16) /\ all.index \in {0}
  <2>1. all.remaining = size /\ all.index = 0
    OBVIOUS
  <2>2. size < TwoTo(16) * TwoTo(16)
    <3>1. TwoTo(28) \in Nat /\ TwoTo(16) * TwoTo(16) \in Nat /\ TwoTo(28) <= TwoTo(16) * TwoTo(16)
      BY Widths
    <3> QED BY <3>1
  <2>3. TwoTo(all.index) * all.remaining = size /\ TwoTo(all.index) * (all.remaining + 1) = size + 1
    BY <2>1, Widths
  <2> HIDE DEF all
  <2> QED BY <2>1, <2>2, <2>3 DEF Halved
<1> HIDE DEF all
<1>3. Halved(size, f16) /\ f16.remaining < TwoTo(16) /\ f16.index \in {0, 16}
  <2> DEFINE k == all.index
  <2>1. TwoTo(16) \in Nat \ {0} /\ all.remaining < TwoTo(16) * TwoTo(16)
    BY <1>2, Widths
  <2>2. k \in {0}
    BY <1>2
  <2> HIDE DEF k
  <2>3. TwoTo(k) \in Nat \ {0} /\ TwoTo(k + 16) = TwoTo(k) * TwoTo(16)
    BY <2>2, Widths
  <2>4. f16.remaining < TwoTo(16) /\ f16.index \in {k, k + 16} /\ Halved(size, f16)
    BY <1>2, <2>1, <2>3, NarrowedTo DEF k
  <2> HIDE DEF f16
  <2> QED BY <2>2, <2>4
<1> HIDE DEF f16
<1>4. Halved(size, f8) /\ f8.remaining < TwoTo(8) /\ f8.index \in {0, 8, 16, 24}
  <2> DEFINE k == f16.index
  <2>1. TwoTo(8) \in Nat \ {0} /\ f16.remaining < TwoTo(8) * TwoTo(8)
    BY <1>3, Widths
  <2>2. k \in {0, 16}
    BY <1>3
  <2> HIDE DEF k
  <2>3. TwoTo(k) \in Nat \ {0} /\ TwoTo(k + 8) = TwoTo(k) * TwoTo(8)
    BY <2>2, Plus8
  <2>4. f8.remaining < TwoTo(8) /\ f8.index \in {k, k + 8} /\ Halved(size, f8)
    BY <1>3, <2>1, <2>3, NarrowedTo DEF k
  <2> HIDE DEF f8
  <2> QED BY <2>2, <2>4
<1> HIDE DEF f8
<1>5. Halved(size, f4) /\ f4.remaining < TwoTo(4) /\ f4.index \in {0, 4, 8, 12, 16, 20, 24}
  <2> DEFINE k == f8.index
  <2>1. TwoTo(4) \in Nat \ {0} /\ f8.remaining < TwoTo(4) * TwoTo(4)
    BY <1>4, Widths
  <2>2. k \in {0, 8, 16, 24}
    BY <1>4
  <2> HIDE DEF k
  <2>3. TwoTo(k) \in Nat \ {0} /\ TwoTo(k + 4) = TwoTo(k) * TwoTo(4)
    BY <2>2, Plus4
  <2>4. f4.remaining < TwoTo(4) /\ f4.index \in {k, k + 4} /\ Halved(size, f4)
    BY <1>4, <2>1, <2>3, NarrowedTo DEF k
  <2> HIDE DEF f4
  <2>5. f4.index # 28
    <3>1. SUFFICES ASSUME f4.index = 28 PROVE FALSE
      OBVIOUS
    <3>2. f4.remaining \in Nat \ {0} /\ TwoTo(28) * f4.remaining <= size
      BY <2>4, <3>1 DEF Halved
    <3>3. TwoTo(28) \in Nat
      BY Widths
    <3> QED BY <3>2, <3>3
  <2> QED BY <2>2, <2>4, <2>5
<1> HIDE DEF f4
<1>6. Halved(size, f2) /\ f2.remaining < TwoTo(2) /\ f2.index \in {0, 2, 4, 6, 8, 10, 12, 14, 16, 18, 20, 22, 24, 26}
  <2> DEFINE k == f4.index
  <2>1. TwoTo(2) \in Nat \ {0} /\ f4.remaining < TwoTo(2) * TwoTo(2)
    BY <1>5, Widths
  <2>2. k \in {0, 4, 8, 12, 16, 20, 24}
    BY <1>5
  <2> HIDE DEF k
  <2>3. TwoTo(k) \in Nat \ {0} /\ TwoTo(k + 2) = TwoTo(k) * TwoTo(2)
    BY <2>2, Plus2
  <2>4. f2.remaining < TwoTo(2) /\ f2.index \in {k, k + 2} /\ Halved(size, f2)
    BY <1>5, <2>1, <2>3, NarrowedTo DEF k
  <2> HIDE DEF f2
  <2> QED BY <2>2, <2>4
<1> HIDE DEF f2
<1>7. Halved(size, f1) /\ f1.remaining < TwoTo(1) /\ f1.index \in 0 .. 27
  <2> DEFINE k == f2.index
  <2>1. TwoTo(1) \in Nat \ {0} /\ f2.remaining < TwoTo(1) * TwoTo(1)
    BY <1>6, Widths
  <2>2. k \in {0, 2, 4, 6, 8, 10, 12, 14, 16, 18, 20, 22, 24, 26}
    BY <1>6
  <2> HIDE DEF k
  <2>3. TwoTo(k) \in Nat \ {0} /\ TwoTo(k + 1) = TwoTo(k) * TwoTo(1)
    BY <2>2, Plus1
  <2>4. f1.remaining < TwoTo(1) /\ f1.index \in {k, k + 1} /\ Halved(size, f1)
    BY <1>6, <2>1, <2>3, NarrowedTo DEF k
  <2> HIDE DEF f1
  <2> QED BY <2>2, <2>4
<1> HIDE DEF f1
<1> DEFINE i == f1.index
           rest == f1.remaining
<1>8. i \in 0 .. 27 /\ rest < 2 /\ rest \in Nat
  BY <1>7, Widths DEF Halved
<1>9. /\ Logarithm(size) = i + rest
      /\ TwoTo(i) * rest <= size /\ size < TwoTo(i) * (rest + 1)
      /\ i > 0 => rest > 0
  BY <1>1, <1>7 DEF Halved
<1> HIDE DEF i, rest
<1> DEFINE p == TwoTo(i)
<1>10. p \in Nat \ {0} /\ TwoTo(i + 1) = p * 2
  BY <1>8, Plus1, Widths
<1>11. CASE rest = 0
  <2>1. i = 0 /\ Logarithm(size) = 0 /\ size < p
    BY <1>8, <1>9, <1>10, <1>11
  <2> QED BY <1>10, <2>1
<1>12. CASE rest = 1
  <2>1. Logarithm(size) = i + 1 /\ (i + 1) - 1 = i /\ i + 1 \in 0 .. 28
    BY <1>8, <1>9, <1>12
  <2>2. size < TwoTo(i + 1) /\ TwoTo(i + 1) \in Nat /\ p <= size
    BY <1>9, <1>10, <1>12
  <2> QED BY <1>10, <2>1, <2>2
<1> QED BY <1>8, <1>11, <1>12

(* get_bucket_index is the index of the smallest class that has room.      *)
LEMMA LeastClassFound == \A n : IsSize(n) => LeastClass(n)
<1> SUFFICES ASSUME NEW n, IsSize(n) PROVE LeastClass(n)
  OBVIOUS
<1> DEFINE size == (n - 1) \div 16
           b == Logarithm(size)
<1>1. n \in Nat \ {0} /\ size \in Nat /\ size < TwoTo(28)
  BY DEF IsSize
<1>2. 16 * size <= n - 1 /\ n - 1 < 16 * (size + 1)
  BY <1>1
<1>3. GetBucketIndex(n) = b
  BY <1>1 DEF GetBucketIndex
<1> HIDE DEF size
<1>4. /\ b \in 0 .. 28 /\ TwoTo(b) \in Nat /\ size < TwoTo(b)
      /\ b > 0 => TwoTo(b - 1) \in Nat /\ TwoTo(b - 1) <= size
  BY <1>1, LogarithmFound
<1> HIDE DEF b
<1>5. n <= 16 * TwoTo(b)
  BY <1>1, <1>2, <1>4
<1>6. b > 0 => n > 16 * TwoTo(b - 1)
  BY <1>1, <1>2, <1>4
<1> QED BY <1>3, <1>5, <1>6 DEF LeastClass

(* For every size of 32 bits, not only for those that TLC tries: the index *)
(* that the five halvings find is that of the smallest class with room.    *)
THEOREM EveryFitIsSmallest == Spec => []SmallestFit
<1>1. SmallestFit
  BY LeastClassFound, MemoryPoolAssumption DEF SmallestFit
<1> QED BY <1>1, PTL
=============================================================================
