-------------------------------- MODULE CnGpu --------------------------------
(***************************************************************************)
(* cn/gpu, which has its own filling of the scratchpad and its own main    *)
(* loop of floating point, three times: for the cards with 16 threads to a *)
(* hash (nvidia/cuda_cryptonight_gpu.hpp), and for the CPU with SSSE3 and  *)
(* with AVX2 (crypto/cn_gpu_ssse3.cpp, crypto/cn_gpu_avx.cpp).             *)
(*                                                                         *)
(* The three run side by side on the same scratchpad.  A floating point    *)
(* number is symbolic: addition commutes and nothing else is known of it,  *)
(* so the order of the sums has to be the same.  What is computed from     *)
(* four numbers, a constant and the last sum is one operation, its text is *)
(* the same in the three.  The threads of a hash run in lockstep.          *)
(***************************************************************************)
EXTENDS Words

CONSTANTS
    GpuGroups,      \* bound: groups of 64 bytes of the scratchpad
    GpuRounds,      \* bound: iterations, 49152 in the code
    GpuPages,       \* bound: pages of 512 bytes that are filled
    GpuThreads      \* bound: threads that fill them, 32 in the code

VARIABLES
    gpuSplit,       \* bfactor
    gpuStage, gpuPart, gpuRound,    \* what runs, the launch and the iteration in it
    kept,           \* roundVs and roundS, in d_ctx_a and d_ctx_b
    card, sse, avx, \* the registers and the scratchpad of each
    filled          \* the pages, of the card and of the CPU

gpuVars == <<gpuSplit, gpuStage, gpuPart, gpuRound, kept, card, sse, avx, filled>>

Four == 0..3
FAdd(x, y) == <<"fadd", {x, y}>>
AddV(u, v) == [j \in Four |-> FAdd(u[j], v[j])]
ZeroV == [j \in Four |-> <<"float", 0>>]
Float(block) == [j \in Four |-> <<"of int", block[j]>>]         \* _mm_cvtepi32_ps
XorOf(words) == Xor(Xor(words[0], words[1]), Xor(words[2], words[3]))
-----------------------------------------------------------------------------
(* sub_round, as the card and SSSE3 have it: what is added to n and d, and the
   next c. *)
FMul(x, y) == <<"fmul", {x, y}>>
Masked(and, x, or) == <<"masked", and, x, or>>
fma_break(x) == Masked("FEFFFFFF", x, "00800000")
sub_round(n0, n1, n2, n3, rnd_c, n, d, c) ==
    LET m1 == FAdd(n1, c)
        n4 == FMul(n0, c)
        nn == fma_break(FMul(m1, FMul(n4, n4)))
        m3 == <<"fsub", n3, c>>
        d4 == FMul(n2, c)
        dd == fma_break(FMul(m3, FMul(d4, d4)))
        fed == FAdd(FAdd(c, rnd_c), <<"float", 734375>>)
    IN  <<FAdd(n, nn), FAdd(d, dd), FAdd(fed, Masked("807FFFFF", FAdd(nn, dd), "40000000"))>>

(* sub_round of AVX2. *)
Cubed(x, y, c) == fma_break(FMul(x, FMul(FMul(y, c), FMul(y, c))))
sub_round_avx(n0, n1, n2, n3, rnd_c, n, d, c) ==
    LET nn == Cubed(FAdd(n1, c), n0, c)
        dd == Cubed(<<"fsub", n3, c>>, n2, c)
        r  == Masked("807FFFFF", FAdd(nn, dd), "40000000")
    IN  <<FAdd(n, nn), FAdd(d, dd), FAdd(FAdd(FAdd(c, rnd_c), <<"float", 734375>>), r)>>

(* single_compute, four times eight sub_rounds: component by component. *)
Compute(n, cnt, rc) == [j \in Four |-> <<"compute", <<n[0][j], n[1][j], n[2][j], n[3][j]>>, cnt, rc[j]>>]

(* A vector of integers as its 16 bytes, each a byte of a word. *)
Bytes(r) == [p \in 0..15 |-> <<"int", r[p \div 4], p % 4>>]
WordsOf(bytes) == [i \in Four |-> {<<"bytes", [k \in Four |-> bytes[4 * i + k]]>>}]

(* The card: word by word, with the bytes of the next word. *)
AlignR(r, rot) ==
    LET Byte(i, k) == IF k < 4 - rot THEN <<"int", r[i], k + rot>>
                      ELSE <<"int", r[(i + 1) % 4], k + rot - 4>>
    IN  WordsOf([p \in 0..15 |-> Byte(p \div 4, p % 4)])

(* The CPU: shifted by 16 - rot to the left, or by rot to the right. *)
Rotate(r, rot) ==
    WordsOf([p \in 0..15 |-> IF p >= 16 - rot THEN Bytes(r)[p - (16 - rot)] ELSE Bytes(r)[p + rot]])

(* From the sum of an iteration to the next one's constant and address. *)
Abs(v)    == [j \in Four |-> <<"abs", v[j]>>]
Next64(v) == [j \in Four |-> <<"fdiv", v[j], 64>>]
Scaled(v) == [j \in Four |-> {<<"scaled", v[j]>>}]
-----------------------------------------------------------------------------
(* The card. *)
look == [tid \in 0..15 |->
    << <<0, 1, 2, 3>>, <<0, 2, 3, 1>>, <<0, 3, 1, 2>>, <<0, 3, 2, 1>>,
       <<1, 0, 2, 3>>, <<1, 2, 3, 0>>, <<1, 3, 0, 2>>, <<1, 3, 2, 0>>,
       <<2, 1, 0, 3>>, <<2, 0, 3, 1>>, <<2, 3, 1, 0>>, <<2, 3, 0, 1>>,
       <<3, 1, 2, 0>>, <<3, 2, 0, 1>>, <<3, 0, 1, 2>>, <<3, 0, 2, 1>> >>[tid + 1]]
(* In units of 1/128. *)
ccnt == [tid \in 0..15 |->
    <<172, 164, 174, 175, 183, 179, 177, 167, 181, 163, 161, 165, 169, 173, 171, 187>>[tid + 1]]

(* single_comupte_wrap *)
single_comupte_wrap(smem, tid, rc) ==
    Compute([k \in Four |-> Float(smem[look[tid][k + 1]])], ccnt[tid], rc)

(* Mutant of CardSums: the sums are added one after another. *)
CardSumsInOrder(va, tid) ==
    LET v(k) == va[16 * (tid \div 4) + (tid % 4) + 4 * k]
    IN  FAdd(FAdd(FAdd(v(0), v(1)), v(2)), v(3))

(* Four numbers of shared memory that are four words apart, in pairs. *)
CardSums(va, tid) ==
    LET v(k) == va[16 * (tid \div 4) + (tid % 4) + 4 * k]
    IN  FAdd(FAdd(v(0), v(1)), FAdd(v(2), v(3)))

(* cryptonight_core_gpu_phase2_gpu: one iteration of the 16 threads of a hash;
   smemVa is addressed by the number, the first sums overwrite its start. *)
CardStep(m, g) ==
    LET smem == m.lpad[g]
        r    == [tid \in 0..15 |-> single_comupte_wrap(smem, tid, m.vs)]
        out  == [tid \in 0..15 |-> AlignR(r[tid], tid % 4)]
        outXor == [tid \in 0..15 |-> XorOf([k \in Four |-> out[4 * (tid \div 4) + k][tid % 4]])]
        va   == [f \in 0..63 |-> r[f \div 4][f % 4]]
        va1  == [f \in 0..63 |-> IF f < 16 THEN CardSums(va, f) ELSE va[f]]
        vs   == Abs([j \in Four |-> CardSums(va1, j)])
        out2 == [j \in Four |-> Xor(XorOf([b \in Four |-> outXor[4 * b + j]]), Scaled(vs)[j])]
    IN  [lpad |-> [m.lpad EXCEPT ![g] =
                     [b \in Four |-> [bb \in Four |-> Xor(outXor[4 * b + bb], smem[b][bb])]]],
         vs |-> Next64(vs),
         s |-> XorOf(out2)]
-----------------------------------------------------------------------------
(* SSSE3: the sum of a row is of two pairs, each begun by an even rotation. *)
Row4(n, order, cnt, rc) ==
    LET r == [rot \in Four |-> Compute([k \in Four |-> n[order[rot + 1][k + 1]]], cnt[rot + 1], rc)]
    IN  [sum |-> AddV(AddV(r[0], r[1]), AddV(r[2], r[3])),
         out |-> [j \in Four |-> XorOf([rot \in Four |-> Rotate(r[rot], rot)[j]])]]

(* The words are xored in two shuffles. *)
Folded(v) ==
    LET a == [j \in Four |-> Xor(v[j], v[3 - j])]
        b == [j \in Four |-> Xor(a[j], a[(j + 1) % 2])]
    IN  b[0]

SseStep(m, g) ==
    LET v   == m.lpad[g]
        n   == [k \in Four |-> Float(v[k])]
        row == << Row4(n, <<<<0, 1, 2, 3>>, <<0, 2, 3, 1>>, <<0, 3, 1, 2>>, <<0, 3, 2, 1>>>>, <<172, 164, 174, 175>>, m.vs),
                  Row4(n, <<<<1, 0, 2, 3>>, <<1, 2, 3, 0>>, <<1, 3, 0, 2>>, <<1, 3, 2, 0>>>>, <<183, 179, 177, 167>>, m.vs),
                  Row4(n, <<<<2, 1, 0, 3>>, <<2, 0, 3, 1>>, <<2, 3, 1, 0>>, <<2, 3, 0, 1>>>>, <<181, 163, 161, 165>>, m.vs),
                  Row4(n, <<<<3, 1, 2, 0>>, <<3, 2, 0, 1>>, <<3, 0, 1, 2>>, <<3, 0, 2, 1>>>>, <<169, 173, 171, 187>>, m.vs) >>
        sum == Abs(AddV(AddV(row[1].sum, row[2].sum), AddV(row[3].sum, row[4].sum)))
        out2 == [j \in Four |-> XorOf([b \in Four |-> row[b + 1].out[j]])]
    IN  [lpad |-> [m.lpad EXCEPT ![g] = [b \in Four |-> XorBlock(v[b], row[b + 1].out)]],
         vs |-> Next64(sum),
         s |-> Folded([j \in Four |-> Xor(Scaled(sum)[j], out2[j])])]
-----------------------------------------------------------------------------
(* AVX2: two rows at once, in the lower and the upper half of a register. *)
Both(lo, hi) == [lo |-> lo, hi |-> hi]
Permute(a, b, low, high) ==
    LET Select(n) == CASE n = 0 -> a.lo [] n = 1 -> a.hi [] n = 2 -> b.lo [] n = 3 -> b.hi
    IN  Both(Select(low), Select(high))
AddB(x, y) == Both(AddV(x.lo, y.lo), AddV(x.hi, y.hi))
XorB(x, y) == Both(XorBlock(x.lo, y.lo), XorBlock(x.hi, y.hi))

double_compute(n, lcnt, hcnt, rc) ==
    Both(Compute([k \in Four |-> n[k + 1].lo], lcnt, rc.lo),
         Compute([k \in Four |-> n[k + 1].hi], hcnt, rc.hi))

Rows2(args, lcnt, hcnt, rc) ==
    LET r == [rot \in Four |-> double_compute(args[rot + 1], lcnt[rot + 1], hcnt[rot + 1], rc)]
    IN  [sum |-> AddB(AddB(r[0], r[1]), AddB(r[2], r[3])),
         out |-> Both([j \in Four |-> XorOf([rot \in Four |-> Rotate(r[rot].lo, rot)[j]])],
                      [j \in Four |-> XorOf([rot \in Four |-> Rotate(r[rot].hi, rot)[j]])])]

AvxStep(m, g) ==
    LET v01 == Both(m.lpad[g][0], m.lpad[g][1])
        v23 == Both(m.lpad[g][2], m.lpad[g][3])
        n01 == Both(Float(v01.lo), Float(v01.hi))
        n23 == Both(Float(v23.lo), Float(v23.hi))
        n10 == Permute(n01, n01, 1, 0)
        n22 == Permute(n23, n23, 0, 0)
        n33 == Permute(n23, n23, 1, 1)
        n11 == Permute(n01, n01, 1, 1)
        n02 == Permute(n01, n23, 0, 2)
        n30 == Permute(n01, n23, 3, 0)
        rc  == Both(m.vs, m.vs)
        first  == Rows2(<< <<n01, n10, n22, n33>>, <<n01, n22, n33, n10>>,
                           <<n01, n33, n10, n22>>, <<n01, n33, n22, n10>> >>,
                        <<172, 164, 174, 175>>, <<183, 179, 177, 167>>, rc)
        second == Rows2(<< <<n23, n11, n02, n30>>, <<n23, n02, n30, n11>>,
                           <<n23, n30, n11, n02>>, <<n23, n30, n02, n11>> >>,
                        <<181, 163, 161, 165>>, <<169, 173, 171, 187>>, rc)
        o   == XorB(first.out, second.out)
        out2 == XorB(Permute(o, o, 1, 0), o).lo
        pairs == AddB(Permute(first.sum, second.sum, 0, 3), Permute(first.sum, second.sum, 1, 2))
        sum == Abs(AddB(pairs, Permute(pairs, pairs, 1, 0)).lo)
    IN  [lpad |-> [m.lpad EXCEPT ![g] =
                    LET a == XorB(v01, first.out) b == XorB(v23, second.out)
                    IN  [k \in Four |-> <<a.lo, a.hi, b.lo, b.hi>>[k + 1]]],
         vs |-> Next64(sum),
         s |-> Folded([j \in Four |-> Xor(Scaled(sum)[j], out2[j])])]
-----------------------------------------------------------------------------
(* A page: 160, 176 and 176 bytes of three keccaks of the state, whose first
   word the number of the page is xored into. *)
Keccaked(page, n) == <<"keccak", n, page>>
NoWord == <<"nothing">>
generate_512(page) ==       \* in copies of 16 bytes
    [w \in 0..63 |-> IF w \div 2 < 10 THEN <<Keccaked(page, 1), w>>
                     ELSE IF w \div 2 < 21 THEN <<Keccaked(page, 2), w - 20>>
                     ELSE <<Keccaked(page, 3), w - 42>>]
cn_explode_scratchpad_gpu ==
    [p \in 0..GpuPages - 1 |->
        [w \in 0..63 |-> IF 8 * w < 160 THEN <<Keccaked(p, 1), w>>
                         ELSE IF 8 * w < 160 + 176 THEN <<Keccaked(p, 2), w - 160 \div 8>>
                         ELSE <<Keccaked(p, 3), w - (160 + 176) \div 8>>]]
(* cn_explode_gpu: each thread has every GpuThreads-th page. *)
PagesOf(t) == {p \in 0..GpuPages - 1 : p >= t /\ (p - t) % GpuThreads = 0}
-----------------------------------------------------------------------------
Lpad0 == [g \in 0..GpuGroups - 1 |-> [b \in Four |-> [j \in Four |-> {<<"lpad", g, b, j>>}]]]
Fresh0 == [lpad |-> Lpad0, vs |-> ZeroV, s |-> {<<"state", 0>>}]
NothingKept == [vs |-> ZeroV, s |-> Zero]
launches == 2 ^ gpuSplit
batchsize == (2 * GpuRounds) \div (2 ^ (1 + gpuSplit))

GpuInit ==
    /\ gpuSplit \in 0..1 /\ gpuStage = "explode" /\ gpuPart = 0 /\ gpuRound = 0
    /\ kept = NothingKept
    /\ card = Fresh0 /\ sse = Fresh0 /\ avx = Fresh0
    /\ filled = [p \in 0..GpuPages - 1 |-> [w \in 0..63 |-> <<NoWord, w>>]]

Explode ==
    /\ gpuStage = "explode" /\ gpuRound < GpuThreads
    /\ filled' = [p \in DOMAIN filled |-> IF p \in PagesOf(gpuRound) THEN generate_512(p) ELSE filled[p]]
    /\ gpuRound' = IF gpuRound + 1 = GpuThreads THEN 0 ELSE gpuRound + 1
    /\ gpuStage' = IF gpuRound + 1 = GpuThreads THEN "loop" ELSE "explode"
    /\ UNCHANGED <<gpuSplit, gpuPart, kept, card, sse, avx>>

Iterate ==
    /\ gpuStage = "loop" /\ gpuRound < batchsize
    /\ \E g \in 0..GpuGroups - 1 :
        /\ card' = CardStep(card, g)
        /\ sse' = SseStep(sse, g)
        /\ avx' = AvxStep(avx, g)
    /\ gpuRound' = gpuRound + 1
    /\ UNCHANGED <<gpuSplit, gpuStage, gpuPart, kept, filled>>

(* The end of a launch, and the start of the next. *)
EndOfLaunch ==
    /\ gpuStage = "loop" /\ gpuRound = batchsize
    /\ kept' = IF gpuPart # launches - 1 THEN [vs |-> card.vs, s |-> card.s] ELSE kept
    /\ IF gpuPart = launches - 1
       THEN gpuStage' = "done" /\ UNCHANGED <<gpuPart, gpuRound, card>>
       ELSE /\ gpuPart' = gpuPart + 1 /\ gpuRound' = 0
            /\ card' = [card EXCEPT !.vs = kept'.vs, !.s = kept'.s]
            /\ UNCHANGED gpuStage
    /\ UNCHANGED <<gpuSplit, sse, avx, filled>>

GpuNext == Explode \/ Iterate \/ EndOfLaunch
GpuSpec == GpuInit /\ [][GpuNext]_gpuVars
-----------------------------------------------------------------------------
(* The cards, the CPU with SSSE3 and the CPU with AVX2 fill the scratchpad   *)
(* alike, and have the same scratchpad, sum and next address after every     *)
(* iteration, wherever the card's launches are split.                        *)
CnGpuAlike ==
    /\ card = sse /\ sse = avx
    /\ gpuStage = "loop" => filled = cn_explode_scratchpad_gpu
    /\ gpuStage = "explode" =>
        LET x(i) == <<"float", i>>
        IN  sub_round(x(0), x(1), x(2), x(3), x(4), x(5), x(6), x(7))
             = sub_round_avx(x(0), x(1), x(2), x(3), x(4), x(5), x(6), x(7))
=============================================================================
