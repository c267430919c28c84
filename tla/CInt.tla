--------------------------------- MODULE CInt ---------------------------------
(***************************************************************************)
(* 32-bit two's-complement int arithmetic as the client programs' builds   *)
(* do it: a product or sum that leaves the range wraps modulo 2^32, and a  *)
(* long converted to int keeps its low 32 bits.  Every intermediate value  *)
(* stays inside TLC's own 32-bit range.                                    *)
(***************************************************************************)
EXTENDS Integers

MaxInt == (2^30 - 1) + 2^30
MinInt == -(2^30) - 2^30

(* The low 32 bits of a * b as an int, for an int a and 0 <= b < 2^15.     *)
(* a is split into 16-bit halves so no partial product leaves the range.   *)
Int32Mul(a, b) ==
  LET lo  == a % 2^16
      hi  == (a - lo) \div 2^16
      low == lo * b
      h   == (hi * b + low \div 2^16) % 2^16
  IN IF h >= 2^15 THEN (h - 2^16) * 2^16 + (low % 2^16)
     ELSE h * 2^16 + (low % 2^16)

(* (int)(a * 2^k) for 0 <= k <= 30: the multiplications by 2^10 at most   *)
(* that a left shift or a scale by K, M or G amounts to.                   *)
RECURSIVE Int32Scale(_, _)
Int32Scale(a, k) ==
  IF k <= 10 THEN Int32Mul(a, 2^k) ELSE Int32Scale(Int32Mul(a, 2^10), k - 10)

(* a + b for ints, wrapped.                                                *)
Int32Add(a, b) ==
  CASE a > 0 /\ b > MaxInt - a -> (a + MinInt) + (b + MinInt)
    [] a < 0 /\ b < MinInt - a -> (a - MinInt) + (b - MinInt)
    [] OTHER -> a + b
=============================================================================
