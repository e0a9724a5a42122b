---------------------------- MODULE Verification ----------------------------
(***************************************************************************)
(* The check of a batch of shares on the CPU: the work of                  *)
(* Workers::onResult, Mem::create and release, and which main loop         *)
(* cryptonight_single_hash and cryptonight_single_hash_asm run in the      *)
(* context that the shares of a batch have in common.  A context keeps the *)
(* code that was last generated in it.                                     *)
(***************************************************************************)
EXTENDS Algorithms

CONSTANT Heights        \* blocks that shares may be of

VARIABLES
    m_algorithm,    \* CryptoNight's, of the start of the program
    m_av,           \* hardware or software AES
    algos,          \* the algorithms of the configurations so far
    ctx,            \* the context of the batch, or NoContext
    ran             \* history: the share that was hashed last, and how

checkVars == <<m_algorithm, m_av, algos, ctx, ran>>

NoContext == [size |-> 0]
NothingRan == [loop |-> "nothing"]

(* What the pools of an algorithm give jobs of: see HasFunctions of Settings. *)
JobsOf(algo) ==
    {j \in [algo : {algo}, variant : Variant, height : Heights] :
        Hashable([algo |-> algo, variant |-> j.variant])}

CheckInit ==
    /\ m_algorithm \in Algo
    /\ m_av \in {"hardware", "software"}
    /\ algos = {m_algorithm}
    /\ ctx = NoContext
    /\ ran = NothingRan

(* A reload with another algorithm: the miner goes on with the old one. *)
Reconfigure ==
    /\ algos = {m_algorithm}            \* bound: one such reload
    /\ \E a \in Algo \ algos : algos' = algos \cup {a}
    /\ UNCHANGED <<m_algorithm, m_av, ctx, ran>>

(* Mem::create: pages of 2 MiB for the algorithm of the first share; no code yet. *)
Created(algo) ==
    [size |-> 2 * MiB * ((cn_select_memory(algo) + 2 * MiB - 1) \div (2 * MiB)),
     first |-> algo, variant |-> "MAX", height |-> -1]

-----------------------------------------------------------------------------
(* func_table: hardware AES takes the assembler for these. *)
ByAssembler(k) == m_av = "hardware" /\ Base(k.variant) = "2"

(* The software loop has generated code too, for CryptonightR only. *)
ByGenerated(k) == cn_is_cryptonight_r(k.variant)

(* Mutant of Match: the context has code of that variant. *)
MatchVariant(c, j) == c.variant = j.variant

(* cryptonight_r_data::match *)
Match(c, j) == c.variant = j.variant /\ c.height = j.height

(* The context after the code for a share is there. *)
Compiled(c, j) ==
    IF ByGenerated(j) /\ ~Match(c, j) THEN [c EXCEPT !.variant = j.variant, !.height = j.height] ELSE c

(* cryptonight_single_hash_asm: without a branch for the variant no loop is run. *)
AssemblerLoop(v) ==
    CASE v = "2" -> [loop |-> "cnv2", iter |-> Iter, mask |-> cn_select_mask("CN")]
      [] v \in {"HALF", "TRTL", "ZLS", "DOUBLE"} -> [loop |-> "cnv2", iter |-> Patched(v).iter, mask |-> Patched(v).mask]
      [] v = "RWZ" -> [loop |-> "rwz"]
      [] OTHER -> [loop |-> "none"]

(* The loop of a function in func_table. *)
LoopRun(k, c) ==
    CASE ~Hashable(k) -> [loop |-> "null"]
      [] Hashable(k) /\ ByGenerated(k) -> [loop |-> "generated", variant |-> c.variant, height |-> c.height]
      [] Hashable(k) /\ ~ByGenerated(k) /\ ByAssembler(k) -> AssemblerLoop(k.variant)
      [] OTHER -> [loop |-> "compiled", algo |-> k.algo, variant |-> k.variant]

(* CryptoNight::hash: fn takes the algorithm from the start of the program, and
   its function uses as much of the memory as that has. *)
HashShare(c, j) ==
    LET k  == [algo |-> m_algorithm, variant |-> j.variant]
        c2 == IF Hashable(k) THEN Compiled(c, j) ELSE c
    IN  /\ ctx' = c2
        /\ ran' = [loop |-> LoopRun(k, c2), job |-> j, used |-> cn_select_memory(m_algorithm)]
        /\ UNCHANGED <<m_algorithm, m_av, algos>>

(* A null function ends the program. *)
NullCalled == ran # NothingRan /\ ran.loop.loop = "null"

FirstShare ==
    /\ ctx = NoContext /\ ~NullCalled
    /\ \E a \in algos : \E j \in JobsOf(a) : HashShare(Created(a), j)

FurtherShare ==
    /\ ctx # NoContext /\ ~NullCalled
    /\ \E a \in algos : \E j \in JobsOf(a) : HashShare(ctx, j)

(* Mem::release *)
ReleaseContext ==
    /\ ctx # NoContext /\ ~NullCalled
    /\ ctx' = NoContext
    /\ UNCHANGED <<m_algorithm, m_av, algos, ran>>

CheckNext == Reconfigure \/ FirstShare \/ FurtherShare \/ ReleaseContext

CheckSpec == CheckInit /\ [][CheckNext]_checkVars
-----------------------------------------------------------------------------
(* A share of the algorithm the program was started with is checked by the loop
   of its own variant, with the constants of that, and code that was generated
   for its own block: whatever else is in its batch. *)
RunsOwnLoop ==
    ran # NothingRan /\ ran.job.algo = m_algorithm =>
        LET j == ran.job
        IN  \/ ran.loop = [loop |-> "compiled", algo |-> j.algo, variant |-> j.variant]
            \/ ran.loop = [loop |-> "generated", variant |-> j.variant, height |-> j.height]
            \/ ran.loop = [loop |-> "rwz"] /\ j.variant = "RWZ"
            \/ /\ Base(j.variant) = "2" /\ j.variant # "RWZ"
               /\ ran.loop = [loop |-> "cnv2",
                              iter |-> TemplateIter([algo |-> j.algo, variant |-> j.variant]),
                              mask |-> cn_select_mask(j.algo)]

(* A hash stays in the memory of its batch, if the first share of that is of the
   algorithm the program was started with: after a reload it need not be. *)
ScratchpadFits ==
    ctx # NoContext /\ ctx.first = m_algorithm => ran.used <= ctx.size

(* A share is checked as what it is, in memory that is its batch's own. *)
CheckedByOwnLoop == RunsOwnLoop /\ ScratchpadFits
=============================================================================
