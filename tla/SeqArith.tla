------------------------------ MODULE SeqArith ------------------------------
(***************************************************************************)
(* The 32-bit sequence number arithmetic of include/tcp.h, over a sequence *)
(* space of SeqSpace numbers (2^32 in the code).  A comparison is the sign *)
(* of a signed difference.  Past half the space that difference overflows, *)
(* which C leaves undefined; the Makefile compiles without optimisation,   *)
(* and the binary beside it subtracts and tests the sign, so the           *)
(* difference wraps.                                                       *)
(***************************************************************************)
EXTENDS Integers

CONSTANT SeqSpace

ASSUME SeqSpaceAssumption == SeqSpace \in Nat \ {0} /\ SeqSpace % 2 = 0

SeqNum == 0..(SeqSpace - 1)

Plus(a, n) == (a + n) % SeqSpace

(***************************************************************************)
(* The signed value of a 32-bit difference a - b.                          *)
(***************************************************************************)
Diff(a, b) == LET d == (a - b) % SeqSpace
              IN IF d < SeqSpace \div 2 THEN d ELSE d - SeqSpace

less_than_32b(a, b)        == Diff(a, b) < 0
less_or_equal_32b(a, b)    == Diff(a, b) <= 0
greater_than_32b(a, b)     == Diff(a, b) > 0
greater_or_equal_32b(a, b) == Diff(a, b) >= 0
=============================================================================
