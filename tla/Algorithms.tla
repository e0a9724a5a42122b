----------------------------- MODULE Algorithms -----------------------------
(***************************************************************************)
(* The algorithms and their variants: the enumerations (common/xmrig.h),   *)
(* their names (common/crypto/Algorithm.cpp), their parameters             *)
(* (crypto/CryptoNight_constants.h), and which of them the CPU             *)
(* (crypto/CryptoNight.cpp) and the cards (nvidia/cuda_core.cu) can hash,  *)
(* in a build without any of the XMRIG_NO_ options.                        *)
(***************************************************************************)
EXTENDS Naturals, Sequences, SequencesExt

(* The enumerations; the position is the value, less one. *)
AlgoNames == <<"CN", "LITE", "HEAVY", "PICO">>
VariantNames ==
    <<"0", "1", "TUBE", "XTL", "MSR", "XHV", "XAO", "RTO", "2", "HALF", "TRTL",
      "GPU", "WOW", "4", "RWZ", "ZLS", "DOUBLE">>

Algo    == ToSet(AlgoNames)
Variant == ToSet(VariantNames)
AutoVariant == "AUTO"
Invalid == "INVALID"
AlgoNumber(a)    == CHOOSE i \in 0..3 : AlgoNames[i + 1] = a
VariantNumber(v) == CHOOSE i \in 0..16 : VariantNames[i + 1] = v
Kind == [algo : Algo, variant : Variant]

-----------------------------------------------------------------------------
(* Names. *)

Row(name, short, algo, variant) ==
    [name |-> name, short |-> short, algo |-> algo, variant |-> variant]

algorithms ==
  << Row("cryptonight", "cn", "CN", AutoVariant),
     Row("cryptonight/0", "cn/0", "CN", "0"),
     Row("cryptonight/1", "cn/1", "CN", "1"),
     Row("cryptonight/xtl", "cn/xtl", "CN", "XTL"),
     Row("cryptonight/msr", "cn/msr", "CN", "MSR"),
     Row("cryptonight/xao", "cn/xao", "CN", "XAO"),
     Row("cryptonight/rto", "cn/rto", "CN", "RTO"),
     Row("cryptonight/2", "cn/2", "CN", "2"),
     Row("cryptonight/half", "cn/half", "CN", "HALF"),
     Row("cryptonight/xtlv9", "cn/xtlv9", "CN", "HALF"),
     Row("cryptonight/wow", "cn/wow", "CN", "WOW"),
     Row("cryptonight/r", "cn/r", "CN", "4"),
     Row("cryptonight/rwz", "cn/rwz", "CN", "RWZ"),
     Row("cryptonight/zls", "cn/zls", "CN", "ZLS"),
     Row("cryptonight/double", "cn/double", "CN", "DOUBLE"),
     Row("cryptonight-lite", "cn-lite", "LITE", AutoVariant),
     Row("cryptonight-light", "cn-light", "LITE", AutoVariant),
     Row("cryptonight-lite/0", "cn-lite/0", "LITE", "0"),
     Row("cryptonight-lite/1", "cn-lite/1", "LITE", "1"),
     Row("cryptonight-heavy", "cn-heavy", "HEAVY", AutoVariant),
     Row("cryptonight-heavy/0", "cn-heavy/0", "HEAVY", "0"),
     Row("cryptonight-heavy/xhv", "cn-heavy/xhv", "HEAVY", "XHV"),
     Row("cryptonight-heavy/tube", "cn-heavy/tube", "HEAVY", "TUBE"),
     Row("cryptonight-pico/trtl", "cn-pico/trtl", "PICO", "TRTL"),
     Row("cryptonight-pico", "cn-pico", "PICO", "TRTL"),
     Row("cryptonight-turtle", "cn-trtl", "PICO", "TRTL"),
     Row("cryptonight-ultralite", "cn-ultralite", "PICO", "TRTL"),
     Row("cryptonight_turtle", "cn_turtle", "PICO", "TRTL"),
     Row("cryptonight/gpu", "cn/gpu", "CN", "GPU") >>

variants ==
    <<"0", "1", "tube", "xtl", "msr", "xhv", "xao", "rto", "2", "half", "trtl",
      "gpu", "wow", "r", "rwz", "zls", "double">>

RowsOf(algo, variant) ==
    {i \in DOMAIN algorithms : algorithms[i].algo = algo /\ algorithms[i].variant = variant}
FirstRow(rows) == algorithms[CHOOSE i \in rows : \A j \in rows : i <= j]

isValid(algo, variant) ==
    \E i \in DOMAIN algorithms : algorithms[i].algo = algo /\ algorithms[i].variant = variant

Name(algo, variant, short) ==
    LET rows == RowsOf(algo, variant)
    IN  IF rows = {} THEN "invalid"
        ELSE IF short THEN FirstRow(rows).short ELSE FirstRow(rows).name

(* The first row with the name, short or long; case is ignored by the code. *)
Named(row, text) == text \in {row.name, row.short}
KindOf(row) == [algo |-> row.algo, variant |-> row.variant]
parseAlgorithm(text) ==
    LET rows == {i \in DOMAIN algorithms : Named(algorithms[i], text)}
    IN  IF rows = {} THEN [algo |-> Invalid, variant |-> AutoVariant] ELSE KindOf(FirstRow(rows))

parseVariant(text) ==
    IF \E i \in 1..Len(variants) : variants[i] = text
    THEN VariantNames[CHOOSE i \in 1..Len(variants) : variants[i] = text]
    ELSE IF text = "xtlv9" THEN "HALF" ELSE AutoVariant

(* Mutant of parseVariantNumber: the number is taken as the enumeration's. *)
parseVariantByNumber(n) == IF n \in 0..2 THEN VariantNames[n + 1] ELSE AutoVariant

(* A number, -1..2, in the options or a job of a pool. *)
parseVariantNumber(n) ==
    CASE n = 2 -> "2" [] n \in 0..1 -> VariantNames[n + 1] [] OTHER -> AutoVariant

variantName(v) == IF v = AutoVariant THEN "auto" ELSE variants[VariantNumber(v) + 1]

setAlgo(algo, variant) ==
    [algo    |-> algo,
     variant |-> IF algo = "PICO" /\ variant = AutoVariant THEN "TRTL" ELSE variant]

-----------------------------------------------------------------------------
(* Parameters: what the templates are compiled with, and what the runtime *)
(* versions of the same functions return.                                 *)

MiB == 1048576

cn_select_memory(algo) ==
    CASE algo = "CN" -> 2 * MiB [] algo = "LITE" -> MiB
      [] algo = "HEAVY" -> 4 * MiB [] algo = "PICO" -> MiB \div 4 [] OTHER -> 0

cn_select_mask(algo) ==
    CASE algo = "CN" -> 2097136 [] algo = "LITE" -> 1048560
      [] algo = "HEAVY" -> 4194288 [] algo = "PICO" -> 131056 [] OTHER -> 0

Iter == 524288      \* CRYPTONIGHT_ITER, 0x80000

(* cn_select_iter<ALGO, VARIANT>: zero where there is no specialisation. *)
TemplateIter(k) ==
    CASE k.algo = "CN" ->
           CASE k.variant \in {"0", "1", "2", "WOW", "4", "XTL", "RTO"} -> Iter
             [] k.variant \in {"HALF", "MSR"} -> Iter \div 2
             [] k.variant \in {"XAO", "DOUBLE"} -> 2 * Iter
             [] k.variant \in {"RWZ", "ZLS"} -> (Iter \div 4) * 3
             [] k.variant = "GPU" -> 49152
             [] OTHER -> 0
      [] k.algo = "LITE" -> IF k.variant \in {"0", "1"} THEN Iter \div 2 ELSE 0
      [] k.algo = "HEAVY" -> IF k.variant \in {"0", "XHV", "TUBE"} THEN Iter \div 2 ELSE 0
      [] k.algo = "PICO" -> IF k.variant = "TRTL" THEN Iter \div 8 ELSE 0

(* cn_base_variant: which of the three main loops. *)
Base(v) ==
    CASE v \in {"1", "TUBE", "XTL", "MSR", "RTO"} -> "1"
      [] v \in {"2", "HALF", "TRTL", "WOW", "4", "RWZ", "ZLS", "DOUBLE"} -> "2"
      [] v = "GPU" -> "GPU"
      [] OTHER -> "0"

cn_is_cryptonight_r(v) == v \in {"WOW", "4"}

-----------------------------------------------------------------------------
(* Who hashes what. *)

(* func_table: the entries that are not null, with hardware and software AES
   alike. *)
Hashable(k) ==
    CASE k.algo = "CN" -> k.variant \notin {"TUBE", "XHV", "TRTL"}
      [] k.algo = "LITE" -> k.variant \in {"0", "1"}
      [] k.algo = "HEAVY" -> k.variant \in {"0", "TUBE", "XHV"}
      [] k.algo = "PICO" -> k.variant = "TRTL"

(* The place of a function in func_table; av is 1 for hardware AES, 2 else. *)
FunctionIndex(k, av) ==
    Len(VariantNames) * 2 * AlgoNumber(k.algo) + 2 * VariantNumber(k.variant) + av - 1

(* selfTest: the variants whose hash is compared with a known one before the
   miner starts, for the algorithm of the configuration. *)
SelfTested(algo) ==
    CASE algo = "CN" -> {"0", "1", "2", "XTL", "MSR", "XAO", "RTO", "HALF", "WOW", "4",
                         "RWZ", "ZLS", "DOUBLE", "GPU"}
      [] algo = "LITE" -> {"0", "1"}
      [] algo = "HEAVY" -> {"0", "XHV", "TUBE"}
      [] algo = "PICO" -> {"TRTL"}

(* cryptonight_single_hash_wrapper: where assembler is used, the loop is a copy
   of the one of variant 2 whose constants patchCode replaces, the one of RWZ,
   or the code generated for the block. *)
Patched(v) ==
    CASE v = "HALF" -> [iter |-> Iter \div 2, mask |-> cn_select_mask("CN")]
      [] v = "TRTL" -> [iter |-> Iter \div 8, mask |-> cn_select_mask("PICO")]
      [] v = "ZLS" -> [iter |-> (Iter \div 4) * 3, mask |-> cn_select_mask("CN")]
      [] v = "DOUBLE" -> [iter |-> 2 * Iter, mask |-> cn_select_mask("CN")]
      [] OTHER -> [iter |-> Iter, mask |-> cn_select_mask("CN")]

(* Where the copies are put in the executable memory: the four loops of each. *)
PatchSlot(v, loop) ==
    4096 * (4 * (CHOOSE i \in 0..3 : <<"HALF", "TRTL", "ZLS", "DOUBLE">>[i + 1] = v) + loop)

(* cryptonight_gpu_hash: the variant whose kernels are launched.  For one it
   does not know it launches none, and cn-pico is always hashed as TRTL. *)
Dispatch(k) ==
    CASE k.algo = "CN" -> IF k.variant \in {"TUBE", "XHV", "TRTL"} THEN "none" ELSE k.variant
      [] k.algo = "LITE" -> IF k.variant \in {"0", "1"} THEN k.variant ELSE "none"
      [] k.algo = "HEAVY" -> IF k.variant \in {"0", "TUBE", "XHV"} THEN k.variant ELSE "none"
      [] k.algo = "PICO" -> "TRTL"

(* cryptonight_extra_cpu_prepare: the layout in which the state is handed to
   the main loop. *)
PrepareLayout(k) ==
    CASE k.algo = "HEAVY" -> "four"
      [] k.algo # "HEAVY" /\ cn_is_cryptonight_r(k.variant) -> "registers"
      [] k.algo # "HEAVY" /\ k.variant \in {"2", "HALF", "TRTL", "RWZ", "ZLS", "DOUBLE"} -> "division"
      [] OTHER -> "four"

(* cryptonight_core_gpu_hash: the kernel of the main loop. *)
Kernel(k) ==
    CASE cn_is_cryptonight_r(Dispatch(k)) -> "generated"
      [] Dispatch(k) = "GPU" -> "gpu"
      [] Base(Dispatch(k)) = "2" /\ ~cn_is_cryptonight_r(Dispatch(k)) -> "double"
      [] OTHER -> "quad"
=============================================================================
