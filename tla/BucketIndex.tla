----------------------------- MODULE BucketIndex -----------------------------
(***************************************************************************)
(* Which bucket of the memory pool serves a size, and how long the arrays  *)
(* of a bucket are: get_bucket_index and get_max_size of                   *)
(* include/thermite/memory/memory_pool.hpp.                                *)
(***************************************************************************)
EXTENDS Integers

TwoTo(k) == 2^k

(* The powers of two that occur, one from the other.                       *)
ASSUME PowersOfTwo ==
  TwoTo(0) = 1 /\ \A k \in 0 .. 27 : TwoTo(k) \in Nat \ {0} /\ TwoTo(k + 1) = 2 * TwoTo(k)

(* get_bucket_index: the binary logarithm of (max_length - 1) >> 4 plus    *)
(* one, found by halving the width five times.  For zero the subtraction   *)
(* wraps around.                                                           *)
Narrow(found, bits) ==
  IF found.remaining > TwoTo(bits) - 1
  THEN [remaining |-> found.remaining \div TwoTo(bits), index |-> found.index + bits]
  ELSE found

Logarithm(remaining) ==
  LET all == [remaining |-> remaining, index |-> 0]
      found == Narrow(Narrow(Narrow(Narrow(Narrow(all, 16), 8), 4), 2), 1)
  IN  found.index + found.remaining

BoundaryAbove(maxLength) == Logarithm(maxLength \div 16)

GetBucketIndex(maxLength) ==
  Logarithm(IF maxLength = 0 THEN TwoTo(28) - 1 ELSE (maxLength - 1) \div 16)

(* get_max_size: position << 16.                                           *)
GetMaxSize(position) == position * 65536

-----------------------------------------------------------------------------
(* The sizes of 32 bits, but for zero.                                     *)
IsSize(n) == n \in Nat \ {0} /\ (n - 1) \div 16 < TwoTo(28)

(* The index is the least one whose class, of 16, 32, 64 ... elements, has *)
(* room for the size.                                                      *)
LeastClass(n) ==
  LET b == GetBucketIndex(n)
  IN  n <= 16 * TwoTo(b) /\ (b > 0 => n > 16 * TwoTo(b - 1))
=============================================================================
