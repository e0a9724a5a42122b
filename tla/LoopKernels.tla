---------------------------- MODULE LoopKernels ----------------------------
(***************************************************************************)
(* The main loop of CryptoNight as the cards compute it, with four threads *)
(* for a hash (cryptonight_core_gpu_phase2_quad) or with two               *)
(* (cryptonight_core_gpu_phase2_double in nvidia/cuda_core.cu, and the     *)
(* kernel of nvidia/CryptonightR.cu, which is compiled for each block).    *)
(* Every iteration may be the last of a launch: the registers go through   *)
(* the arrays d_ctx_a and d_ctx_b, which the hashes of a launch share.     *)
(*                                                                         *)
(* The threads of a hash run in lockstep, as the code expects: a value is  *)
(* written by all of them before one of them reads it.                     *)
(***************************************************************************)
EXTENDS Words, Algorithms

CONSTANTS
    Groups, Rounds,     \* as in MainLoop
    Hashes              \* bound: hashes of a launch, device_blocks * device_threads

ASSUME KernelsAssumption == Hashes \in Nat \ {0} /\ Groups \in Nat \ {0} /\ Rounds \in Nat

Lane   == 0
Blocks == 0..(4 * Groups - 1)
Threads == 0..(Hashes - 1)

VARIABLES
    kind,       \* ALGO and VARIANT of the template
    thread,     \* which hash of the launch this is
    pc,         \* where the iteration is
    round,      \* iterations done
    gpu,        \* the registers of its threads
    mem         \* its part of d_long_state

kernelVars == <<kind, thread, pc, round, gpu, mem>>
kernel == Kernel(kind)
base   == Base(kind.variant)
heavy  == kind.algo = "HEAVY"

-----------------------------------------------------------------------------
(* Symbols, those of MainLoop. *)
State(i) == {<<"state", Lane, i>>}
StateBlock(i) == [j \in 0..3 |-> State(i + j)]
Input(i) == {<<"input", Lane, i>>}
Memory == [b \in Blocks |-> [j \in 0..3 |-> {<<"memory", Lane, b, j>>}]]
Unknown(name) == [j \in 0..3 |-> {<<"any", Lane, name, j>>}]
UnknownWord(name) == {<<"any", Lane, name, 0>>}
BySub(f) == Join(f[0], f[1])                \* the halves of two threads
Halves(block) == [sub \in 0..1 |-> Half(block, sub)]

-----------------------------------------------------------------------------
(* d_ctx_a and d_ctx_b: words of the hash t of a launch, by their index. *)

(* cryptonight_extra_cpu_init: how many words are allocated. *)
CtxWords == IF heavy THEN 4 * Hashes + Hashes ELSE 16 * Hashes

Words(from, block) == [i \in from..from + 3 |-> block[i - from]]

(* cryptonight_extra_gpu_prepare *)
PreparedB(t) ==
    LET b0 == XorBlock(StateBlock(4), StateBlock(12))
        b1 == XorBlock(StateBlock(16), StateBlock(20))
    IN  CASE PrepareLayout(kind) = "four" -> Words(4 * t, b0)
          [] PrepareLayout(kind) = "division" -> Words(16 * t, b0) @@ Words(16 * t + 4, b1)
               @@ Words(16 * t + 8, StateBlock(24))
          [] PrepareLayout(kind) = "registers" -> Words(16 * t, b0) @@ Words(16 * t + 4, b1)
               @@ Words(16 * t + 8, StateBlock(24)) @@ Words(16 * t + 12, StateBlock(28))
PreparedA == XorBlock(StateBlock(0), StateBlock(8))

(* The end of a kernel, if bfactor > 0. *)
StoredB(g, t) ==
    CASE kernel = "quad" ->
           Words(4 * t, g.d[1]) @@ (IF heavy THEN (4 * Hashes + t :> g.idx) ELSE <<>>)
      [] kernel = "double" -> Words(16 * t, BySub(g.b0)) @@ Words(16 * t + 4, BySub(g.b1))
           @@ (16 * t + 8 :> g.div[0]) @@ (16 * t + 9 :> g.div[1]) @@ (16 * t + 10 :> g.sqrt)
      [] kernel = "generated" -> Words(16 * t, BySub(g.b0)) @@ Words(16 * t + 4, BySub(g.b1))
           @@ Words(16 * t + 8, g.r)

(* The tweak of variant 1: the bytes before the nonce in the input, the nonce of
   this hash, and the last words of the state. *)
Tweak == IF base = "1"
         THEN Pair(Xor(Input(35), State(48)), Xor(Input(39), State(49))) ELSE ZeroPair

(* The beginning of a kernel; part is partidx. *)
Loaded(a, ctxB, t, part) ==
    LET B(from) == [i \in 0..3 |-> ctxB[from + i]]
    IN  CASE kernel = "quad" ->
               [a |-> a, d |-> Pair(ZeroBlock, B(4 * t)), x |-> 0, tweak |-> Tweak,
                idx |-> IF heavy /\ part # 0 THEN ctxB[4 * Hashes + t] ELSE a[0]]
          [] kernel = "double" ->
               [a |-> Halves(a), b0 |-> Halves(B(16 * t)), b1 |-> Halves(B(16 * t + 4)),
                cx |-> Halves(ZeroBlock), div |-> Half(B(16 * t + 8), 0),
                sqrt |-> ctxB[16 * t + 10], idx |-> a[0]]
          [] kernel = "generated" ->
               [a |-> Halves(a), b0 |-> Halves(B(16 * t)), b1 |-> Halves(B(16 * t + 4)),
                cx |-> Halves(ZeroBlock), r |-> B(16 * t + 8), idx |-> a[0]]

(* The other hashes of the launch, which write the same arrays. *)
Other(f) == [i \in DOMAIN f |-> {<<"other", i>>}]
OthersStored(F(_)) ==
    FoldFunction(LAMBDA f, all : Other(f) @@ all, <<>>, [t \in Threads \ {thread} |-> F(t)])

(* Registers with any contents.  The two buffers of the four threads take turns. *)
ArbitraryRegisters ==
    CASE kernel = "quad" ->
           {[a |-> Unknown("a"), d |-> IF x = 0 THEN Pair(ZeroBlock, Unknown("b0")) ELSE Pair(Unknown("b0"), ZeroBlock),
             x |-> x, tweak |-> Tweak,
             idx |-> IF heavy THEN UnknownWord("idx") ELSE Unknown("a")[0]] : x \in 0..1}
      [] kernel = "double" ->
           {[a |-> Halves(Unknown("a")), b0 |-> Halves(Unknown("b0")), b1 |-> Halves(Unknown("b1")),
             cx |-> Halves(ZeroBlock), div |-> Half(Unknown("div"), 0),
             sqrt |-> UnknownWord("sqrt"), idx |-> Unknown("a")[0]]}
      [] kernel = "generated" ->
           {[a |-> Halves(Unknown("a")), b0 |-> Halves(Unknown("b0")), b1 |-> Halves(Unknown("b1")),
             cx |-> Halves(ZeroBlock), r |-> Unknown("r"), idx |-> Unknown("a")[0]]}

KernelInit ==
    /\ kind \in {k \in Kind : isValid(k.algo, k.variant) /\ Dispatch(k) \notin {"none", "GPU"}}
    /\ thread \in Threads
    /\ pc = "first"
    /\ round = 0
    /\ gpu \in ArbitraryRegisters
               \cup {Loaded(PreparedA, OthersStored(PreparedB) @@ PreparedB(thread), thread, 0)}
    /\ mem = Memory
-----------------------------------------------------------------------------
(* Four threads for a hash: thread `sub' has word sub of each block, and gets
   the words of the others with shuffle<4>. *)

(* The columns of cn-heavy/tube, thread i in round i; k[sub] are the words that
   thread sub sees, its own first. *)
TubeRound(a, s, i) ==
    LET d == Xor(a[i], Column(s.k[i][0], s.k[i][1], s.k[i][2], s.k[i][3]))
    IN  [d |-> [s.d EXCEPT ![i] = d],
         k |-> IF i = 3 THEN s.k
               ELSE [sub \in 0..3 |-> [s.k[sub] EXCEPT ![(4 - sub + i) % 4] = Xor(s.k[i][0], d)]]]

Columns(a, cell) ==
    IF kind.variant = "TUBE"
    THEN FoldLeft(LAMBDA s, i : TubeRound(a, s, i),
                  [d |-> ZeroBlock,
                   k |-> [sub \in 0..3 |-> [n \in 0..3 |-> Not(cell[(sub + n) % 4])]]],
                  <<0, 1, 2, 3>>).d
    ELSE [sub \in 0..3 |->
            Xor(a[sub], Column(cell[sub], cell[(sub + 1) % 4], cell[(sub + 2) % 4], cell[(sub + 3) % 4]))]

QuadFirst(g, m, p) ==
    LET d == [g.d EXCEPT ![g.x] = Columns(g.a, m[p])]
        z == [sub \in 0..3 |-> Xor(d[0][sub], d[1][sub])]
        fork_7 == Xor(z[2], Fork(kind.variant, z[2]))
    IN  [gpu |-> [g EXCEPT !.d = d, !.idx = d[g.x][0]],
         mem |-> [m EXCEPT ![p] = IF base = "1" THEN [z EXCEPT ![2] = fork_7] ELSE z]]

QuadSecond(g, m, q) ==
    LET t1 == Half(g.d[g.x], 0)
        zz == Half(m[q], 0)
        t2 == [sub \in 0..3 |->
                 AddPair(Half(g.a, sub \div 2), IF sub \div 2 = 1 THEN MulLow(t1, zz) ELSE MulHigh(t1, zz))]
        res == [sub \in 0..3 |-> t2[sub][sub % 2]]
        update == [sub \in 0..3 |-> IF sub < 2 THEN res[sub] ELSE Xor(res[sub], g.tweak[sub % 2])]
        value  == [sub \in 0..3 |-> IF sub < 2 THEN update[sub] ELSE Xor(update[sub], update[sub % 2])]
        a == XorBlock(m[q], res)
    IN  [gpu |-> [g EXCEPT !.a = a, !.idx = a[0], !.x = 1 - @],
         mem |-> [m EXCEPT ![q] = CASE base # "1" -> res
                                    [] kind.variant \in {"TUBE", "RTO"} -> value
                                    [] OTHER -> update]]

(* cn-heavy: every thread divides, the odd ones store. *)
QuadHeavy(g, m, b) ==
    LET n == Half(m[b], 0)
        d == m[b][2]
        q == DivideHeavy(n, d)
    IN  [gpu |-> [g EXCEPT !.idx = Xor(IF kind.variant = "XHV" THEN Not(d) ELSE d, q[0])],
         mem |-> [m EXCEPT ![b] = Join(XorPair(n, q), Half(m[b], 1))]]
-----------------------------------------------------------------------------
(* Two threads for a hash: thread `sub' has half sub of each block. *)

HalfBeside(m, b, n, sub) == Half(m[Beside(b, n)], sub)

(* Both shuffles: what the two threads store beside block b. *)
ShuffleHalves(m, b, chunk1, a, g) ==
    LET reverse == kernel = "double" /\ kind.variant = "RWZ"
        Stored(n, sub) ==
          CASE n = 1 -> AddPair(IF reverse THEN chunk1[sub] ELSE HalfBeside(m, b, 3, sub), g.b1[sub])
            [] n = 2 -> AddPair(IF reverse THEN HalfBeside(m, b, 3, sub) ELSE chunk1[sub], g.b0[sub])
            [] n = 3 -> AddPair(HalfBeside(m, b, 2, sub), a[sub])
    IN  [x \in Blocks |->
           IF \E n \in 1..3 : x = Beside(b, n)
           THEN LET n == CHOOSE n \in 1..3 : x = Beside(b, n) IN Join(Stored(n, 0), Stored(n, 1))
           ELSE m[x]]

XorChunks(m, b, cx) ==
    IF kernel = "generated" /\ kind.variant = "4"
    THEN [sub \in 0..1 |->
            XorPair(cx[sub], XorPair(HalfBeside(m, b, 1, sub),
                                     XorPair(HalfBeside(m, b, 2, sub), HalfBeside(m, b, 3, sub))))]
    ELSE cx

DoubleFirst(g, m, p) ==
    LET x(sub) == Half(m[p], sub)
        y(sub) == Half(m[p], (sub + 1) % 2)
        aes == [sub \in 0..1 |->
                  XorPair(g.a[sub], Pair(Column(x(sub)[0], x(sub)[1], y(sub)[0], y(sub)[1]),
                                         Column(x(sub)[1], y(sub)[0], y(sub)[1], x(sub)[0])))]
        cx == XorChunks(m, p, aes)
        m2 == ShuffleHalves(m, p, [sub \in 0..1 |-> HalfBeside(m, p, 1, sub)], g.a, g)
    IN  [gpu |-> [g EXCEPT !.cx = cx, !.idx = cx[0][0]],
         mem |-> [m2 EXCEPT ![p] = Join(XorPair(cx[0], g.b0[0]), XorPair(cx[1], g.b0[1]))]]

(* What the thread with the upper half computes before the product: the new
   registers, and the low half of the block. *)
Mathematics(g, cl) ==
    IF kernel = "double"
    THEN LET dd == Divisor(Sum(g.cx[0][0], {<<"twice", g.sqrt>>}))
             q  == Divide(g.cx[1], dd)
         IN  [gpu |-> [g EXCEPT !.div = q, !.sqrt = SquareRoot(AddPair(g.cx[0], q))],
              cl  |-> XorPair(cl, Pair(g.div[0], Xor(g.div[1], g.sqrt)))]
    ELSE LET in == <<g.r[0], g.r[1], g.r[2], g.r[3], g.a[0][0], g.a[1][0], g.b0[0][0], g.b1[0][0]>>
             r  == RandomMath(IF kind.variant = "4" THEN Append(in, g.b1[1][0]) ELSE in)
         IN  [gpu |-> [g EXCEPT !.r = r],
              cl  |-> XorPair(cl, Pair(Sum(g.r[0], g.r[1]), Sum(g.r[2], g.r[3])))]

(* Mutant of DoubleSecond: the shuffle adds the new value of a, not the one saved. *)
DoubleSecondNewA(g, m, q) ==
    LET math == Mathematics(g, Half(m[q], 0))
        h    == math.gpu
        plain == kernel = "generated" /\ kind.variant = "4"
        a1   == IF plain THEN [sub \in 0..1 |-> XorPair(g.a[sub], IF sub = 0 THEN Pair(h.r[2], h.r[3])
                                                                  ELSE Pair(h.r[0], h.r[1]))]
                ELSE g.a
        product == [sub \in 0..1 |-> IF sub = 0 THEN MulHigh(g.cx[0], math.cl) ELSE MulLow(g.cx[0], math.cl)]
        chunk1 == [sub \in 0..1 |-> IF plain THEN HalfBeside(m, q, 1, sub)
                                    ELSE XorPair(HalfBeside(m, q, 1, sub), product[sub])]
        res == [sub \in 0..1 |-> IF plain THEN product[sub]
                                 ELSE XorPair(product[sub], HalfBeside(m, q, 2, sub))]
        sum == [sub \in 0..1 |-> AddPair(a1[sub], res[sub])]
        m2  == ShuffleHalves(m, q, chunk1, a1, g)
        c   == [sub \in 0..1 |-> IF sub = 0 THEN math.cl ELSE Half(m[q], 1)]
        a2  == [sub \in 0..1 |-> XorPair(sum[sub], c[sub])]
    IN  [gpu |-> [h EXCEPT !.a = a2, !.b0 = XorChunks(m, q, g.cx), !.b1 = g.b0,
                           !.cx = Halves(ZeroBlock), !.idx = a2[0][0]],
         mem |-> [m2 EXCEPT ![q] = BySub(sum)]]

DoubleSecond(g, m, q) ==
    LET math == Mathematics(g, Half(m[q], 0))
        h    == math.gpu
        plain == kernel = "generated" /\ kind.variant = "4"
        a1   == IF plain THEN [sub \in 0..1 |-> XorPair(g.a[sub], IF sub = 0 THEN Pair(h.r[2], h.r[3])
                                                                  ELSE Pair(h.r[0], h.r[1]))]
                ELSE g.a
        product == [sub \in 0..1 |-> IF sub = 0 THEN MulHigh(g.cx[0], math.cl) ELSE MulLow(g.cx[0], math.cl)]
        chunk1 == [sub \in 0..1 |-> IF plain THEN HalfBeside(m, q, 1, sub)
                                    ELSE XorPair(HalfBeside(m, q, 1, sub), product[sub])]
        res == [sub \in 0..1 |-> IF plain THEN product[sub]
                                 ELSE XorPair(product[sub], HalfBeside(m, q, 2, sub))]
        sum == [sub \in 0..1 |-> AddPair(a1[sub], res[sub])]
        m2  == ShuffleHalves(m, q, chunk1, g.a, g)
        c   == [sub \in 0..1 |-> IF sub = 0 THEN math.cl ELSE Half(m[q], 1)]
        a2  == [sub \in 0..1 |-> XorPair(sum[sub], c[sub])]
    IN  [gpu |-> [h EXCEPT !.a = a2, !.b0 = XorChunks(m, q, g.cx), !.b1 = g.b0,
                           !.cx = Halves(ZeroBlock), !.idx = a2[0][0]],
         mem |-> [m2 EXCEPT ![q] = BySub(sum)]]
-----------------------------------------------------------------------------
Become(result) == gpu' = result.gpu /\ mem' = result.mem

KernelFirst ==
    /\ pc = "first" /\ round < Rounds
    /\ \E p \in Blocks :
         Become(IF kernel = "quad" THEN QuadFirst(gpu, mem, p) ELSE DoubleFirst(gpu, mem, p))
    /\ pc' = "second"
    /\ UNCHANGED <<kind, thread, round>>

KernelSecond ==
    /\ pc = "second"
    /\ \E q \in Blocks :
         Become(IF kernel = "quad" THEN QuadSecond(gpu, mem, q) ELSE DoubleSecond(gpu, mem, q))
    /\ pc' = IF heavy THEN "heavy" ELSE "first"
    /\ round' = IF heavy THEN round ELSE round + 1
    /\ UNCHANGED <<kind, thread>>

KernelHeavy ==
    /\ pc = "heavy"
    /\ \E b \in Blocks : Become(QuadHeavy(gpu, mem, b))
    /\ pc' = "first"
    /\ round' = round + 1
    /\ UNCHANGED <<kind, thread>>

(* The end of a launch, and the next one: after two iterations of the kernel
   with four threads, whose buffers are then as they were. *)
A(g) == IF kernel = "quad" THEN g.a ELSE BySub(g.a)
Stale == [i \in 0..(CtxWords - 1) |-> {<<"stale", i>>}]

Relaunch ==
    /\ pc = "first"
    /\ kernel = "quad" => gpu.x = 0
    /\ LET Mine(t) == StoredB(gpu, t)
       IN  gpu' = Loaded(A(gpu), OthersStored(Mine) @@ Mine(thread) @@ Stale, thread, 1)
    /\ UNCHANGED <<kind, thread, pc, round, mem>>

KernelNext == KernelFirst \/ KernelSecond \/ KernelHeavy \/ Relaunch
KernelSpec == KernelInit /\ [][KernelNext]_kernelVars
-----------------------------------------------------------------------------
(* The registers of the threads, as the local variables of the CPU. *)
registers ==
    LET quad == [a    |-> gpu.a,
                 b0   |-> gpu.d[1 - gpu.x],
                 b1   |-> ZeroBlock,
                 c    |-> IF pc = "second" THEN gpu.d[gpu.x] ELSE ZeroBlock,
                 idx  |-> gpu.idx,
                 div  |-> ZeroPair, sqrt |-> Zero, r |-> ZeroBlock,
                 mc   |-> gpu.tweak]
        double == [a |-> BySub(gpu.a), b0 |-> BySub(gpu.b0), b1 |-> BySub(gpu.b1),
                   c |-> BySub(gpu.cx), idx |-> gpu.idx,
                   div  |-> IF kernel = "double" THEN gpu.div ELSE ZeroPair,
                   sqrt |-> IF kernel = "double" THEN gpu.sqrt ELSE Zero,
                   r    |-> IF kernel = "double" THEN ZeroBlock ELSE gpu.r,
                   mc   |-> ZeroPair]
    IN  IF kernel = "quad" THEN quad ELSE double

Cpu == INSTANCE MainLoop
         WITH Groups <- Groups, Rounds <- Rounds, Lane <- Lane,
              kind <- kind, pc <- pc, round <- round, reg <- registers, mem <- mem

(* Every iteration on a card is one on the CPU: the two agree on the registers
   and on the scratchpad for every variant, and a new launch changes nothing.
   The arrays have room for what the kernels of the variant keep in them. *)
CtxInBounds ==
    \A t \in Threads : DOMAIN PreparedB(t) \cup DOMAIN StoredB(gpu, t) \subseteq 0..(CtxWords - 1)
KernelsHashLikeCpu == Cpu!Spec /\ []CtxInBounds
=============================================================================
