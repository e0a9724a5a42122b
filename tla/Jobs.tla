-------------------------------- MODULE Jobs --------------------------------
(***************************************************************************)
(* A job of a pool (common/net/Job.cpp, Client::parseJob): the algorithm   *)
(* it is hashed with follows from the pool's, from the version in the      *)
(* first byte of the blob and from what the job itself names.              *)
(***************************************************************************)
EXTENDS Pools

(* variant(): the one in use since the block version. *)
VariantOf(a, version) ==
    CASE a.algo = "CN" -> IF version >= 10 THEN "4" ELSE IF version >= 8 THEN "2" ELSE "1"
      [] a.algo = "LITE" -> "1"
      [] a.algo = "HEAVY" -> "0"
      [] OTHER -> a.variant

(* The variants that forks of a coin have replaced, by their first block
   version; before and after it. *)
Replaced(a, version) ==
    CASE a.variant = "XTL" /\ version >= 9 -> SetVariant(a, "HALF")
      [] a.variant = "MSR" /\ version >= 8 -> SetVariant(a, "HALF")
      [] a.variant = "WOW" /\ version < 11 -> SetVariant(a, "2")
      [] a.variant = "RWZ" /\ version < 12 -> SetVariant(a, "2")
      [] a.variant = "ZLS" /\ version < 8  -> SetVariant(a, "2")
      [] OTHER -> a

(* setBlob: a pool without a variant leaves it to the version. *)
BlobSet(a, version) ==
    LET known == IF a.variant = AutoVariant THEN SetVariant(a, VariantOf(a, version)) ELSE a
    IN  IF known.forced THEN known ELSE Replaced(known, version)

setAlgorithm(a, value, version) ==
    LET named == AlgorithmParsed(a, value)
    IN  IF named.variant = AutoVariant THEN SetVariant(named, VariantOf(named, version)) ELSE named

(* parseJob up to verifyAlgorithm; a blob or target that does not parse ends it
   earlier, with no job either. *)
JobAlgorithm(p, params) ==
    LET blob  == BlobSet(p.algorithm, params.version)
        named == IF params.algo = Null THEN blob ELSE setAlgorithm(blob, params.algo, params.version)
    IN  VariantParsed(named, params.variant)

parseJob(p, params) ==
    LET a == JobAlgorithm(p, params)
    IN  [accepted |-> params.wellFormed /\ isCompatible(p, a), algorithm |-> a]
=============================================================================
