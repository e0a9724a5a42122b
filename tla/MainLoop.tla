------------------------------ MODULE MainLoop ------------------------------
(***************************************************************************)
(* The main loop of CryptoNight as the CPU computes it, the reference that *)
(* shares are verified with: cryptonight_single_hash in                    *)
(* crypto/CryptoNight_x86.h, with the macros of CryptoNight_monero.h.      *)
(*                                                                         *)
(* The loop is entered with the state the keccak of the input leaves, or   *)
(* with any contents of its registers, which is every later iteration.     *)
(* What a word of the scratchpad is addressed by is symbolic, so each      *)
(* access may go to any block.  The scratchpad has a few groups of four    *)
(* blocks, 64 bytes, the unit of the shuffle of variant 2.                 *)
(***************************************************************************)
EXTENDS Words, Algorithms

CONSTANTS
    Groups,     \* bound: groups of the scratchpad
    Rounds,     \* bound: iterations after the entry
    Lane        \* which of the hashes that are computed together this is

Blocks == 0..(4 * Groups - 1)
Kinds == {k \in Kind : Hashable(k) /\ Base(k.variant) # "GPU"}

VARIABLES
    kind,       \* ALGO and VARIANT of the template
    pc,         \* where the iteration is
    round,      \* iterations done
    reg,        \* the local variables
    mem         \* ctx->memory

vars == <<kind, pc, round, reg, mem>>
base == Base(kind.variant)
IsR == cn_is_cryptonight_r(kind.variant)
-----------------------------------------------------------------------------
(* Symbols: 32-bit words of the keccak state, of the input, of the scratchpad. *)
State(i) == {<<"state", Lane, i>>}
StateBlock(i) == [j \in 0..3 |-> State(i + j)]
Input(i) == {<<"input", Lane, i>>}
Memory == [b \in Blocks |-> [j \in 0..3 |-> {<<"memory", Lane, b, j>>}]]
Unknown(name) == [j \in 0..3 |-> {<<"any", Lane, name, j>>}]
UnknownWord(name) == {<<"any", Lane, name, 0>>}

(* Registers of another variant are not there: they are zero. *)
OnlyIf(condition, block) == IF condition THEN block ELSE ZeroBlock
OnlyPairIf(condition, pair) == IF condition THEN pair ELSE ZeroPair
OnlyWordIf(condition, word) == IF condition THEN word ELSE Zero

(* VARIANT1_INIT, VARIANT2_INIT, VARIANT4_RANDOM_MATH_INIT and what follows. *)
Prepared ==
    [a    |-> XorBlock(StateBlock(0), StateBlock(8)),
     b0   |-> XorBlock(StateBlock(4), StateBlock(12)),
     b1   |-> OnlyIf(base = "2", XorBlock(StateBlock(16), StateBlock(20))),
     c    |-> ZeroBlock,
     idx  |-> Xor(State(0), State(8)),
     div  |-> OnlyPairIf(base = "2" /\ ~IsR, Pair(State(24), State(25))),
     sqrt |-> OnlyWordIf(base = "2" /\ ~IsR, State(26)),
     r    |-> OnlyIf(IsR, StateBlock(24)),
     mc   |-> OnlyPairIf(base = "1", Pair(Xor(Input(35), State(48)), Xor(Input(39), State(49))))]

(* Outside of cn-heavy the next address is always the low word of a. *)
Arbitrary ==
    [a    |-> Unknown("a"),
     b0   |-> Unknown("b0"),
     b1   |-> OnlyIf(base = "2", Unknown("b1")),
     c    |-> ZeroBlock,
     idx  |-> IF kind.algo = "HEAVY" THEN UnknownWord("idx") ELSE Unknown("a")[0],
     div  |-> OnlyPairIf(base = "2" /\ ~IsR, Half(Unknown("div"), 0)),
     sqrt |-> OnlyWordIf(base = "2" /\ ~IsR, UnknownWord("sqrt")),
     r    |-> OnlyIf(IsR, Unknown("r")),
     mc   |-> Prepared.mc]

Init ==
    /\ kind \in Kinds
    /\ pc = "first"
    /\ round = 0
    /\ reg \in {Prepared, Arbitrary}
    /\ mem = Memory
-----------------------------------------------------------------------------
(* soft_aesenc *)
AesRound(x, key) ==
    [i \in 0..3 |-> Xor(key[i], Column(x[i], x[(i + 1) % 4], x[(i + 2) % 4], x[(i + 3) % 4]))]

(* aes_round_tweak_div: a column is xored into the input before the next one. *)
AesRoundTweakDiv(in, key) ==
    LET k[i \in 0..3] ==
          LET X(j) == IF j < 4 THEN Not(in[j]) ELSE Xor(Not(in[j - 4]), k[j - 4])
          IN  Xor(key[i], Column(X(i), X(i + 1), X(i + 2), X(i + 3)))
    IN  k

Chunk(m, b, n) == m[Beside(b, n)]

(* The stores of VARIANT2_SHUFFLE and VARIANT2_SHUFFLE2.  The loads of the
   first are reversed for cn/rwz, the stores of the second, which is the same;
   chunk1 is the block beside it, or that with the product added. *)
Shuffle(m, b, chunk1, a, b0, b1) ==
    LET reverse == kind.variant = "RWZ"
        chunk3  == Chunk(m, b, 3)
    IN  [m EXCEPT ![Beside(b, 1)] = AddBlock(IF reverse THEN chunk1 ELSE chunk3, b1),
                  ![Beside(b, 2)] = AddBlock(IF reverse THEN chunk3 ELSE chunk1, b0),
                  ![Beside(b, 3)] = AddBlock(Chunk(m, b, 2), a)]

(* What variant 4 adds to c in each of the two. *)
Mixed(m, b, c) ==
    IF kind.variant = "4"
    THEN XorBlock(XorBlock(c, Chunk(m, b, 3)), XorBlock(Chunk(m, b, 1), Chunk(m, b, 2)))
    ELSE c

(* cryptonight_monero_tweak: byte 11 is in the third word. *)
Tweaked(block) == [block EXCEPT ![2] = Xor(@, Fork(kind.variant, block[2]))]

(* From the load to the first store. *)
FirstHalf(g, m, p) ==
    LET aes == IF kind.variant = "TUBE" THEN AesRoundTweakDiv(m[p], g.a) ELSE AesRound(m[p], g.a)
        c   == IF base = "2" THEN Mixed(m, p, aes) ELSE aes
        m2  == IF base = "2" THEN Shuffle(m, p, Chunk(m, p, 1), g.a, g.b0, g.b1) ELSE m
        out == XorBlock(g.b0, c)
    IN  [reg |-> [g EXCEPT !.c = c, !.idx = c[0]],
         mem |-> [m2 EXCEPT ![p] = IF base = "1" THEN Tweaked(out) ELSE out]]

(* VARIANT2_INTEGER_MATH *)
IntegerMath(g) ==
    LET d == Divisor(Sum(g.c[0], {<<"twice", g.sqrt>>}))
        q == Divide(Half(g.c, 1), d)
    IN  [g EXCEPT !.div = q, !.sqrt = SquareRoot(AddPair(Half(g.c, 0), q))]

(* VARIANT4_RANDOM_MATH, and what variant 4 adds to a. *)
RandomInputs(g) ==
    LET shared == <<g.r[0], g.r[1], g.r[2], g.r[3], g.a[0], g.a[2], g.b0[0], g.b1[0]>>
    IN  IF kind.variant = "4" THEN Append(shared, g.b1[2]) ELSE shared

RunProgram(g) ==
    LET r == RandomMath(RandomInputs(g))
    IN  [g EXCEPT !.r = r,
                  !.a = IF kind.variant = "4" THEN XorBlock(@, Join(Pair(r[2], r[3]), Pair(r[0], r[1])))
                        ELSE @]

(* The low word of the block, with the results of the iteration before. *)
Low(g, block) ==
    LET cl == Half(block, 0)
    IN  IF base # "2" THEN cl
        ELSE IF IsR THEN XorPair(cl, Pair(Sum(g.r[0], g.r[1]), Sum(g.r[2], g.r[3])))
        ELSE XorPair(XorPair(cl, g.div), Pair(Zero, g.sqrt))

(* From the second load to the second store. *)
SecondHalf(g, m, q) ==
    LET cl   == Low(g, m[q])
        g2   == IF base # "2" THEN g ELSE IF IsR THEN RunProgram(g) ELSE IntegerMath(g)
        hi   == MulHigh(Half(g.c, 0), cl)
        lo   == MulLow(Half(g.c, 0), cl)
        res  == IF base = "2" /\ kind.variant # "4"
                THEN XorBlock(Join(hi, lo), Chunk(m, q, 2)) ELSE Join(hi, lo)
        one  == IF kind.variant = "4" THEN Chunk(m, q, 1)
                ELSE XorBlock(Chunk(m, q, 1), Join(hi, lo))
        m2   == IF base = "2" THEN Shuffle(m, q, one, g.a, g.b0, g.b1) ELSE m
        c    == IF base = "2" THEN Mixed(m, q, g.c) ELSE g.c
        sum  == AddBlock(g2.a, res)
        high == IF base # "1" THEN Half(sum, 1)
                ELSE IF kind.variant \in {"TUBE", "RTO"}
                THEN XorPair(XorPair(Half(sum, 1), g.mc), Half(sum, 0))
                ELSE XorPair(Half(sum, 1), g.mc)
        a    == XorBlock(sum, Join(cl, Half(m[q], 1)))
    IN  [reg |-> [g2 EXCEPT !.a = a, !.idx = a[0], !.b0 = c,
                            !.b1 = IF base = "2" THEN g.b0 ELSE @, !.c = ZeroBlock],
         mem |-> [m2 EXCEPT ![q] = Join(Half(sum, 0), high)]]

(* The division of cn-heavy. *)
HeavyDivision(g, m, b) ==
    LET n == Half(m[b], 0)
        d == m[b][2]
        q == DivideHeavy(n, d)
    IN  [reg |-> [g EXCEPT !.idx = Xor(IF kind.variant = "XHV" THEN Not(d) ELSE d, q[0])],
         mem |-> [m EXCEPT ![b] = Join(XorPair(n, q), Half(m[b], 1))]]
-----------------------------------------------------------------------------
Becomes(result) == reg' = result.reg /\ mem' = result.mem

First ==
    /\ pc = "first" /\ round < Rounds
    /\ \E p \in Blocks : Becomes(FirstHalf(reg, mem, p))
    /\ pc' = "second"
    /\ UNCHANGED <<kind, round>>

Second ==
    /\ pc = "second"
    /\ \E q \in Blocks : Becomes(SecondHalf(reg, mem, q))
    /\ pc' = IF kind.algo = "HEAVY" THEN "heavy" ELSE "first"
    /\ round' = IF kind.algo = "HEAVY" THEN round ELSE round + 1
    /\ UNCHANGED kind

Heavy ==
    /\ pc = "heavy"
    /\ \E b \in Blocks : Becomes(HeavyDivision(reg, mem, b))
    /\ pc' = "first"
    /\ round' = round + 1
    /\ UNCHANGED kind

Next == First \/ Second \/ Heavy
Spec == Init /\ [][Next]_vars
=============================================================================
