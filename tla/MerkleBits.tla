----------------------------- MODULE MerkleBits -----------------------------
(***************************************************************************)
(* The bit arithmetic of pkg/merkle (src/unnamed/part_001) on unsigned     *)
(* integers, stated by what it computes: x >> k is x \div 2^k, and the     *)
(* math/bits functions are defined from their meaning, without recursion,  *)
(* so that the modules using them can be proved about.                     *)
(***************************************************************************)
EXTENDS Naturals, FiniteSets

\* isOdd / isEven.
IsOdd(num) == num % 2 = 1
IsEven(num) == num % 2 = 0

\* bits.Len64(a ^ b): the bit length of a XOR b, which is the least k such
\* that a and b agree above their k low-end bits (a >> k = b >> k).
DiffLen(a, b) ==
  CHOOSE k \in 0..(a + b) :
    /\ a \div 2^k = b \div 2^k
    /\ \A j \in 0..(k - 1) : a \div 2^j # b \div 2^j

\* bits.OnesCount64(x): the number of one bits of x.
OnesCount(x) == Cardinality({j \in 0..x : IsOdd(x \div 2^j)})

\* bits.TrailingZeros64(x) for x > 0: the number of zero bits below the
\* least significant one bit.
TrailingZeros(x) ==
  CHOOSE k \in 0..x : IsOdd(x \div 2^k) /\ \A j \in 0..(k - 1) : IsEven(x \div 2^j)

\* pathLength(index, size): k is the number of iterations until fn = sn,
\* after which one sibling is read per remaining one bit of fn.
pathLength(index, size) ==
  LET k == DiffLen(index, size - 1)
  IN  k + OnesCount(index \div 2^k)
=============================================================================
