------------------------------- MODULE Words -------------------------------
(***************************************************************************)
(* Symbolic words, with which two implementations of one function are      *)
(* compared for every input at once.  A word of 32 bits is the exclusive   *)
(* or of its atoms, and stands for it as their set; 64 bits are two words, *)
(* a block of 128 bits is four, the lowest first.  An atom is the result   *)
(* of an operation whose arguments are all that is known of it: two atoms  *)
(* are equal when the operation and the arguments are.                     *)
(***************************************************************************)
EXTENDS Naturals

Zero == {}
Xor(x, y) == (x \ y) \cup (y \ x)
Not(x) == Xor(x, {<<"ones">>})

Pair(lo, hi) == [i \in 0..1 |-> IF i = 0 THEN lo ELSE hi]
Half(block, h) == [i \in 0..1 |-> block[2 * h + i]]
Join(lo, hi) == [i \in 0..3 |-> IF i < 2 THEN lo[i] ELSE hi[i - 2]]
ZeroPair == Pair(Zero, Zero)
ZeroBlock == Join(ZeroPair, ZeroPair)

XorPair(x, y) == [i \in 0..1 |-> Xor(x[i], y[i])]
XorBlock(x, y) == [i \in 0..3 |-> Xor(x[i], y[i])]

(* Sums of 32 and 64 bits, and of the two halves of a block apart. *)
Sum(x, y) == {<<"sum", {x, y}>>}
AddPair(x, y) == [i \in 0..1 |-> {<<"add", i, {x, y}>>}]
AddBlock(x, y) == Join(AddPair(Half(x, 0), Half(y, 0)), AddPair(Half(x, 1), Half(y, 1)))

(* The product of 64 by 64 bits. *)
MulLow(x, y) == [i \in 0..1 |-> {<<"mul", i, {x, y}>>}]
MulHigh(x, y) == [i \in 0..1 |-> {<<"mul", i + 2, {x, y}>>}]

(* Table t of the AES tables (saes_table, t_fn0 .. t_fn3), at byte b of x. *)
T(t, b, x) == {<<"table", t, b, x>>}
Column(x0, x1, x2, x3) == Xor(Xor(T(0, 0, x0), T(1, 1, x1)), Xor(T(2, 2, x2), T(3, 3, x3)))

(* int_sqrt_v2 and fast_sqrt_v2; the low 32 bits are all that is used.  The
   quotient and the rest of 64 by 32 bits, as one word of 64. *)
SquareRoot(n) == {<<"sqrt", n>>}
Divide(n, d) == [i \in 0..1 |-> {<<IF i = 0 THEN "quotient" ELSE "rest", n, d>>}]
Divisor(x) == {<<"divisor", x>>}            \* ... | 0x80000001
DivideHeavy(n, d) == [i \in 0..1 |-> {<<"quotient of heavy", i, n, d>>}]

(* Register i after the random program of a block has run on r. *)
RandomMath(r) == [i \in 0..3 |-> {<<"program", i, r>>}]

(* Of the four blocks of a group, the one whose address differs in bit 4, in bit
   5, or in both. *)
Beside(b, n) ==
    LET first  == IF b % 2 = 0 THEN b + 1 ELSE b - 1
        Over(x) == IF x % 4 < 2 THEN x + 2 ELSE x - 2
    IN  CASE n = 1 -> first [] n = 2 -> Over(b) [] n = 3 -> Over(first)

(* The bits of byte 11 that the tweak of variant 1 adds; cn/xtl has its own. *)
Fork(variant, x) == {<<"fork", variant = "XTL", x>>}
=============================================================================
