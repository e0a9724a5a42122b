--------------------------- MODULE SettingsProofs ---------------------------
(***************************************************************************)
(* Theorems about Settings, for any command line, files and jobs, with     *)
(* their proofs: that the jobs that are let in can be hashed, and that a   *)
(* configuration that is saved is read back as it was.                     *)
(*                                                                         *)
(* First what the names of algorithms are read as, and the rows of their   *)
(* table; then one pool, as it is parsed, adjusted, written and read       *)
(* again; then the lists of pools, which the code goes through in loops    *)
(* that are folds here, and so take the lemmas of LoopProofs; and last the *)
(* inductive invariant, step by step.                                      *)
(***************************************************************************)
EXTENDS LoopProofs, Settings

-----------------------------------------------------------------------------
(* A row is of an algorithm, with a variant that can be hashed or none.     *)
Kinds == [algo : Algo, variant : Variant \cup {AutoVariant}]

(* The algorithms that the CPU has a function for: each with a variant      *)
(* that is tested at the start, or with none yet; cn-pico has the one       *)
(* variant.                                                                 *)
HasHash(k) ==
    \/ k.algo = "CN" /\ k.variant \in SelfTested("CN") \cup {AutoVariant}
    \/ k.algo = "LITE" /\ k.variant \in SelfTested("LITE") \cup {AutoVariant}
    \/ k.algo = "HEAVY" /\ k.variant \in SelfTested("HEAVY") \cup {AutoVariant}
    \/ k.algo = "PICO" /\ k.variant = "TRTL"

(* The variants there are, by name.                                         *)
LEMMA VariantIs == Variant = {"0", "1", "TUBE", "XTL", "MSR", "XHV", "XAO", "RTO", "2", "HALF", "TRTL",
      "GPU", "WOW", "4", "RWZ", "ZLS", "DOUBLE"}
  BY DEF Variant, VariantNames, ToSet

(* The table of algorithms (Algorithm.cpp) names none that cannot be        *)
(* hashed.                                                                  *)
LEMMA RowsHashed ==
    /\ DOMAIN algorithms = 1..29
    /\ \A i \in 1..29 : HasHash(algorithms[i])
  BY DEF algorithms, Row, HasHash, SelfTested, AutoVariant

(* What Algorithm::isValid accepts can be hashed,                           *)
LEMMA ValidHashed ==
    ASSUME NEW a, NEW v, isValid(a, v)
    PROVE  HasHash([algo |-> a, variant |-> v])
  BY RowsHashed, SMTT(30) DEF isValid, HasHash

(* and what can be hashed it accepts.                                       *)
LEMMA HashedValid ==
    ASSUME NEW k, HasHash(k)
    PROVE  isValid(k.algo, k.variant)
  <1> DEFINE Is(i, a, v) == algorithms[i].algo = a /\ algorithms[i].variant = v
  <1>1. /\ Is(1, "CN", "AUTO") /\ Is(2, "CN", "0") /\ Is(3, "CN", "1") /\ Is(4, "CN", "XTL")
        /\ Is(5, "CN", "MSR") /\ Is(6, "CN", "XAO") /\ Is(7, "CN", "RTO") /\ Is(8, "CN", "2")
        /\ Is(9, "CN", "HALF") /\ Is(11, "CN", "WOW") /\ Is(12, "CN", "4") /\ Is(13, "CN", "RWZ")
        /\ Is(14, "CN", "ZLS") /\ Is(15, "CN", "DOUBLE") /\ Is(16, "LITE", "AUTO") /\ Is(18, "LITE", "0")
        /\ Is(19, "LITE", "1") /\ Is(20, "HEAVY", "AUTO") /\ Is(21, "HEAVY", "0") /\ Is(22, "HEAVY", "XHV")
        /\ Is(23, "HEAVY", "TUBE") /\ Is(24, "PICO", "TRTL") /\ Is(29, "CN", "GPU")
    BY DEF algorithms, Row, AutoVariant
  <1>2. \A i \in 1..29 : Is(i, k.algo, k.variant) => isValid(k.algo, k.variant)
    BY RowsHashed DEF isValid
  <1> HIDE DEF Is
  <1> QED BY <1>1, <1>2, SMTT(30) DEF HasHash, SelfTested, AutoVariant

(* Of what can be hashed with a variant, the mask is within the memory,     *)
(* there is a function, it is tested at the start, and the cards run that   *)
(* variant.                                                                 *)
LEMMA HashedKind ==
    ASSUME NEW k \in Kinds, HasHash(k), k.variant # AutoVariant
    PROVE  /\ cn_select_mask(k.algo) < cn_select_memory(k.algo)
           /\ Hashable(k) /\ k.variant \in SelfTested(k.algo)
           /\ Dispatch(k) = k.variant
  BY DEF HasHash, SelfTested, Hashable, Dispatch, cn_select_mask, cn_select_memory, MiB, Kinds, AutoVariant

(* The index of a function is within the table of CnHash.                   *)
LEMMA FunctionPlace ==
    ASSUME NEW k \in Kind, NEW av \in 1..2
    PROVE  FunctionIndex(k, av) \in 0..(2 * Len(VariantNames) * Len(AlgoNames) - 1)
  <1>1. AlgoNumber(k.algo) \in 0..3
    <2>1. \E i \in 0..3 : AlgoNames[i + 1] = k.algo
      <3>1. PICK j \in 1..4 : AlgoNames[j] = k.algo
        BY DEF Kind, Algo, AlgoNames, ToSet
      <3> QED BY <3>1
    <2> QED BY <2>1 DEF AlgoNumber
  <1>2. VariantNumber(k.variant) \in 0..16
    <2>1. \E i \in 0..16 : VariantNames[i + 1] = k.variant
      <3>1. PICK j \in 1..17 : VariantNames[j] = k.variant
        BY DEF Kind, Variant, VariantNames, ToSet
      <3> QED BY <3>1
    <2> QED BY <2>1 DEF VariantNumber
  <1>3. Len(VariantNames) = 17 /\ Len(AlgoNames) = 4
    BY DEF VariantNames, AlgoNames
  <1> QED BY <1>1, <1>2, <1>3 DEF FunctionIndex

(* The loops that are patched for a variant have the iterations and the     *)
(* mask of the compiled ones.                                               *)
LEMMA PatchFits ==
    ASSUME NEW k \in Kinds, HasHash(k), k.variant \in PatchedVariants
    PROVE  Patched(k.variant) = [iter |-> TemplateIter(k), mask |-> cn_select_mask(k.algo)]
  BY DEF HasHash, SelfTested, PatchedVariants, Patched, TemplateIter, cn_select_mask, Iter, AutoVariant

(* No two loops have one place in the executable memory.                    *)
LEMMA PatchPlaces ==
    ASSUME NEW v \in PatchedVariants, NEW w \in PatchedVariants, NEW i \in 0..3, NEW j \in 0..3,
           PatchSlot(v, i) = PatchSlot(w, j)
    PROVE  v = w /\ i = j
  <1> DEFINE Copy(x) == CHOOSE n \in 0..3 : <<"HALF", "TRTL", "ZLS", "DOUBLE">>[n + 1] = x
  <1>1. ASSUME NEW x \in PatchedVariants
        PROVE  Copy(x) \in 0..3 /\ <<"HALF", "TRTL", "ZLS", "DOUBLE">>[Copy(x) + 1] = x
    <2>1. \E n \in 0..3 : <<"HALF", "TRTL", "ZLS", "DOUBLE">>[n + 1] = x
      <3>1. /\ <<"HALF", "TRTL", "ZLS", "DOUBLE">>[0 + 1] = "HALF"
            /\ <<"HALF", "TRTL", "ZLS", "DOUBLE">>[1 + 1] = "TRTL"
            /\ <<"HALF", "TRTL", "ZLS", "DOUBLE">>[2 + 1] = "ZLS"
            /\ <<"HALF", "TRTL", "ZLS", "DOUBLE">>[3 + 1] = "DOUBLE"
        OBVIOUS
      <3> QED BY <3>1 DEF PatchedVariants
    <2> QED BY <2>1
  <1>2. 4096 * (4 * Copy(v) + i) = 4096 * (4 * Copy(w) + j)
    BY DEF PatchSlot
  <1> HIDE DEF Copy
  <1>3. Copy(v) \in 0..3 /\ Copy(w) \in 0..3
    BY <1>1
  <1>4. Copy(v) = Copy(w) /\ i = j
    <2>1. \A a, b, x, y \in 0..3 : 4096 * (4 * a + x) = 4096 * (4 * b + y) => a = b /\ x = y
      OBVIOUS
    <2> DEFINE a == Copy(v)
               b == Copy(w)
    <2>2. a \in 0..3 /\ b \in 0..3 /\ 4096 * (4 * a + i) = 4096 * (4 * b + j)
      BY <1>2, <1>3
    <2> HIDE DEF a, b
    <2>3. a = b /\ i = j
      BY <2>1, <2>2
    <2> QED BY <2>3 DEF a, b
  <1> QED BY <1>1, <1>4

(* An algorithm as it is kept, and a pool, of the types there are.          *)
KnownAlgorithms == [algo : Algo \cup {Invalid}, variant : Variant \cup {AutoVariant}, forced : BOOLEAN]
AnyPool ==
    [enabled : BOOLEAN, nicehash : BOOLEAN, tls : BOOLEAN, keepAlive : Nat, host : Names,
     port : Nat, url : Urls, user : Names, fingerprint : Names,
     algorithm : KnownAlgorithms, algorithms : SUBSET Kinds]
Unnamed(p) == p.algorithm.algo = Invalid

(* The row that a search finds is the first of those it looks for.          *)
LEMMA FirstIs ==
    ASSUME NEW rows \in SUBSET (1..29), rows # {}
    PROVE  \E i \in rows : FirstRow(rows) = algorithms[i] /\ \A j \in rows : i <= j
  <1>1. \E i \in rows : \A j \in rows : i <= j
    <2>1. rows \subseteq Nat
      OBVIOUS
    <2> QED BY <2>1, LeastOf
  <1> DEFINE m == CHOOSE i \in rows : \A j \in rows : i <= j
  <1>2. m \in rows /\ \A j \in rows : m <= j
    BY <1>1
  <1> QED BY <1>2 DEF FirstRow

(* A name is of no algorithm, or of one that can be hashed.                 *)
LEMMA AlgorithmNamed ==
    ASSUME NEW name
    PROVE  \/ parseAlgorithm(name) = [algo |-> Invalid, variant |-> AutoVariant]
           \/ parseAlgorithm(name) \in Kinds /\ HasHash(parseAlgorithm(name))
  <1> DEFINE rows == {i \in DOMAIN algorithms : name \in {algorithms[i].name, algorithms[i].short}}
  <1>1. parseAlgorithm(name) = IF rows = {} THEN [algo |-> Invalid, variant |-> AutoVariant]
                               ELSE [algo |-> FirstRow(rows).algo, variant |-> FirstRow(rows).variant]
    BY DEF parseAlgorithm, Named, KindOf
  <1>2. ASSUME rows # {}
        PROVE  \E i \in 1..29 : FirstRow(rows) = algorithms[i]
    <2>1. rows \in SUBSET (1..29)
      BY RowsHashed
    <2> HIDE DEF rows
    <2> QED BY <1>2, <2>1, FirstIs
  <1> HIDE DEF rows
  <1>3. ASSUME NEW i \in 1..29 PROVE HasHash(algorithms[i]) /\ HasHash([algo |-> algorithms[i].algo, variant |-> algorithms[i].variant])
    BY RowsHashed DEF HasHash
  <1>4. \A k : HasHash([algo |-> k.algo, variant |-> k.variant]) => [algo |-> k.algo, variant |-> k.variant] \in Kinds
    BY VariantIs, AlgoIs DEF HasHash, SelfTested, Kinds
  <1>5. ASSUME rows # {}
        PROVE  parseAlgorithm(name) \in Kinds /\ HasHash(parseAlgorithm(name))
    <2>1. PICK i \in 1..29 : FirstRow(rows) = algorithms[i]
      BY <1>2, <1>5
    <2>2. parseAlgorithm(name) = [algo |-> algorithms[i].algo, variant |-> algorithms[i].variant]
      BY <1>1, <1>5, <2>1
    <2> QED BY <1>3, <1>4, <2>2
  <1> QED BY <1>1, <1>5

(* There are seventeen names of variants,                                   *)
LEMMA VariantsIs == Len(variants) = 17 /\ DOMAIN variants = 1..17
  BY DEF variants

(* each of a variant;                                                       *)
LEMMA VariantNamesIn == \A i \in 1..17 : VariantNames[i] \in Variant
  BY DEF Variant, VariantNames, ToSet

(* a text is of one of them or leaves the variant open,                     *)
LEMMA VariantNamed == \A name : parseVariant(name) \in Variant \cup {AutoVariant}
  <1> SUFFICES ASSUME NEW name PROVE parseVariant(name) \in Variant \cup {AutoVariant}
    OBVIOUS
  <1> DEFINE m == CHOOSE i \in 1..Len(variants) : variants[i] = name
  <1>1. CASE \E i \in 1..Len(variants) : variants[i] = name
    <2>1. m \in 1..17
      BY <1>1, VariantsIs
    <2>2. parseVariant(name) = VariantNames[m]
      BY <1>1 DEF parseVariant
    <2> HIDE DEF m
    <2> QED BY <2>1, <2>2, VariantNamesIn
  <1>2. CASE ~\E i \in 1..Len(variants) : variants[i] = name
    <2>1. parseVariant(name) = IF name = "xtlv9" THEN "HALF" ELSE AutoVariant
      BY <1>2 DEF parseVariant
    <2> QED BY <2>1, VariantIs
  <1> QED BY <1>1, <1>2

(* and so do the numbers of the configuration.                              *)
LEMMA VariantNumbered == \A n \in -1..2 : parseVariantNumber(n) \in Variant \cup {AutoVariant}
  BY VariantNamesIn, VariantIs DEF parseVariantNumber

(* A parsed algorithm is known; unless it is invalid it can be hashed.      *)
LEMMA AlgorithmsParsed ==
    ASSUME NEW a \in KnownAlgorithms, NEW value \in JsonValues
    PROVE  /\ AlgorithmParsed(a, value) \in KnownAlgorithms
           /\ AlgorithmParsed(a, value).algo # Invalid => HasHash(Plain(AlgorithmParsed(a, value)))
  <1> DEFINE k == parseAlgorithm(value.text)
  <1>1. \/ k = [algo |-> Invalid, variant |-> AutoVariant]
        \/ k \in Kinds /\ HasHash(k)
    BY AlgorithmNamed
  <1>2. AlgorithmParsed(a, value) = [algo |-> k.algo, variant |-> k.variant, forced |-> a.forced \/ value.forced]
    BY DEF AlgorithmParsed
  <1> HIDE DEF k
  <1>3. (a.forced \/ value.forced) \in BOOLEAN
    OBVIOUS
  <1>4. AlgorithmParsed(a, value) \in KnownAlgorithms
    BY <1>1, <1>2 DEF KnownAlgorithms, Kinds, JsonValues
  <1>5. ASSUME k \in Kinds, HasHash(k) PROVE HasHash(Plain(AlgorithmParsed(a, value)))
    BY <1>2, <1>5 DEF Plain, HasHash
  <1>6. CASE k = [algo |-> Invalid, variant |-> AutoVariant]
    BY <1>2, <1>4, <1>6
  <1> QED BY <1>1, <1>4, <1>5, <1>6

(* A parsed variant is known and leaves the algorithm.                      *)
LEMMA VariantsParsed ==
    ASSUME NEW a \in KnownAlgorithms, NEW value \in JsonValues
    PROVE  /\ VariantParsed(a, value) \in KnownAlgorithms
           /\ VariantParsed(a, value).algo = a.algo
  <1>1. CASE value.type = "string"
    <2>1. VariantParsed(a, value) = [a EXCEPT !.variant = parseVariant(value.text), !.forced = @ \/ value.forced]
      BY <1>1 DEF VariantParsed
    <2> DEFINE f == a.forced \/ value.forced
               v == parseVariant(value.text)
    <2>2. f \in BOOLEAN /\ v \in Variant \cup {AutoVariant}
      BY VariantNamed
    <2>3. VariantParsed(a, value) = [a EXCEPT !.variant = v, !.forced = f]
      BY <2>1
    <2> HIDE DEF f, v
    <2> QED BY <2>2, <2>3 DEF KnownAlgorithms
  <1>2. CASE value.type # "string" /\ value.type = "int" /\ value.number \in -1..2
    <2>1. VariantParsed(a, value) = [a EXCEPT !.variant = parseVariantNumber(value.number)]
      BY <1>2 DEF VariantParsed, SetVariant
    <2> QED BY <2>1, <1>2, VariantNumbered DEF KnownAlgorithms, JsonValues
  <1>3. CASE value.type # "string" /\ ~(value.type = "int" /\ value.number \in -1..2)
    <2>1. VariantParsed(a, value) = a
      BY <1>3 DEF VariantParsed
    <2> QED BY <2>1
  <1> QED BY <1>1, <1>2, <1>3

-----------------------------------------------------------------------------
(* The empty text and that of no host are among the texts.                  *)
LEMMA NamesIn == "" \in Names /\ "null" \in Names
  BY NamesAssumption

(* A new pool is of its type and has no algorithm.                          *)
LEMMA NewIn == NewPool \in AnyPool /\ Unnamed(NewPool) /\ InvalidAlgorithm \in KnownAlgorithms
  <1>1. NoUrl \in Urls
    <2>1. NoUrl = [scheme |-> "", host |-> "", port |-> NoPort, brackets |-> "none"]
      BY DEF NoUrl, Url
    <2> QED BY <2>1, NamesIn DEF Urls
  <1>2. InvalidAlgorithm \in KnownAlgorithms
    BY DEF InvalidAlgorithm, KnownAlgorithms
  <1>3. NewPool \in AnyPool
    <2>1. "null" \in Names
      BY NamesIn
    <2>2. NewPool = [enabled |-> TRUE, nicehash |-> FALSE, tls |-> FALSE, keepAlive |-> 0,
                     host |-> "null", port |-> 3333, url |-> NoUrl, user |-> "null",
                     fingerprint |-> "null", algorithm |-> InvalidAlgorithm, algorithms |-> {}]
      BY DEF NewPool, NoHost, kDefaultPort
    <2> QED BY <1>1, <1>2, <2>1, <2>2 DEF AnyPool
  <1> QED BY <1>2, <1>3 DEF NewPool, Unnamed, InvalidAlgorithm

(* So is one whose address is parsed, which leaves its algorithm,           *)
LEMMA AddressParsed ==
    ASSUME NEW p \in AnyPool, NEW url \in Urls
    PROVE  /\ parse(p, url).pool \in AnyPool /\ parse(p, url).ok \in BOOLEAN
           /\ parse(p, url).pool.algorithm = p.algorithm
  <1> DEFINE s == Schemed(p, url)
             r == Addressed(s, url)
  <1>1. s \in AnyPool /\ s.algorithm = p.algorithm
    BY DEF Schemed, AnyPool
  <1> HIDE DEF s
  <1>2. r \in AnyPool /\ r.algorithm = p.algorithm
    <2>1. (IF url.port = NoPort THEN s.port ELSE url.port % 65536) \in Nat
      BY <1>1 DEF Urls, AnyPool, NoPort
    <2> DEFINE port == IF url.port = NoPort THEN s.port ELSE url.port % 65536
    <2>2. r = [s EXCEPT !.url = url, !.host = url.host, !.port = port]
      BY DEF Addressed
    <2>3. url.host \in Names /\ port \in Nat
      BY <2>1 DEF Urls
    <2> HIDE DEF r, port
    <2> QED BY <1>1, <2>2, <2>3 DEF AnyPool
  <1>3. [s EXCEPT !.url = url] \in AnyPool /\ [s EXCEPT !.url = url].algorithm = p.algorithm
    BY <1>1 DEF AnyPool
  <1> DEFINE known == url.scheme \in {"", "stratum+tcp", "stratum+ssl"}
  <1> HIDE DEF r
  <1>4. parse(p, url) =
          IF ~known THEN [pool |-> p, ok |-> FALSE]
          ELSE IF url.host = "" THEN [pool |-> s, ok |-> FALSE]
          ELSE IF url.brackets \in {"bracket", "port"} THEN [pool |-> [s EXCEPT !.url = url], ok |-> FALSE]
          ELSE [pool |-> r, ok |-> TRUE]
    BY DEF parse, s, r
  <1> HIDE DEF known
  <1> DEFINE q == [s EXCEPT !.url = url]
  <1> HIDE DEF q
  <1>5. \E x \in {p, s, q, r}, b \in BOOLEAN : parse(p, url) = [pool |-> x, ok |-> b]
    BY <1>4 DEF q
  <1>6. \A x \in {p, s, q, r} : x \in AnyPool /\ x.algorithm = p.algorithm
    BY <1>1, <1>2, <1>3 DEF q
  <1> QED BY <1>5, <1>6

(* one whose keepalive is set,                                              *)
LEMMA KeepAlive ==
    ASSUME NEW p \in AnyPool, NEW n \in Int, NEW b \in BOOLEAN
    PROVE  /\ setKeepAlive(p, n) \in AnyPool /\ setKeepAlive(p, n).algorithm = p.algorithm
           /\ KeepAliveEnabled(p, b) \in AnyPool /\ KeepAliveEnabled(p, b).algorithm = p.algorithm
           /\ setKeepAlive(p, n) = [p EXCEPT !.keepAlive = IF n >= 0 THEN n ELSE 0]
  <1>1. \A m \in Int : /\ setKeepAlive(p, m) \in AnyPool
                       /\ setKeepAlive(p, m).algorithm = p.algorithm
    <2> SUFFICES ASSUME NEW m \in Int
                 PROVE  setKeepAlive(p, m) \in AnyPool /\ setKeepAlive(p, m).algorithm = p.algorithm
      OBVIOUS
    <2> DEFINE k == IF m >= 0 THEN m ELSE 0
    <2>1. k \in Nat
      OBVIOUS
    <2>2. setKeepAlive(p, m) = [p EXCEPT !.keepAlive = k]
      BY DEF setKeepAlive
    <2> HIDE DEF k
    <2> QED BY <2>1, <2>2 DEF AnyPool
  <1>2. (IF b THEN kKeepAliveTimeout ELSE 0) \in Int
    BY DEF kKeepAliveTimeout
  <1> QED BY <1>1, <1>2 DEF KeepAliveEnabled, setKeepAlive

(* and one of a file, which has no algorithm yet.                           *)
LEMMA ObjectsIn ==
    ASSUME NEW object \in PoolObjects
    PROVE  PoolOf(object) \in AnyPool /\ Unnamed(PoolOf(object))
  <1> DEFINE first == parse(NewPool, object.url)
             p == [first.pool EXCEPT !.user = getText(object.user), !.nicehash = getBool(object.nicehash, FALSE)]
             k == CASE object.keepalive.type = "int" -> setKeepAlive(p, object.keepalive.number)
                    [] object.keepalive.type = "bool" -> KeepAliveEnabled(p, object.keepalive.number = 1)
                    [] OTHER -> p
  <1>1. first.pool \in AnyPool /\ Unnamed(first.pool)
    BY NewIn, AddressParsed DEF PoolObjects, Unnamed
  <1>2. \A v \in JsonValues, b \in BOOLEAN : getText(v) \in Names /\ getBool(v, b) \in BOOLEAN
    <2> SUFFICES ASSUME NEW v \in JsonValues, NEW b \in BOOLEAN
                 PROVE  getText(v) \in Names /\ getBool(v, b) \in BOOLEAN
      OBVIOUS
    <2>1. getText(v) \in Names
      BY NamesIn DEF getText, JsonValues
    <2>2. (v.number = 1) \in BOOLEAN
      OBVIOUS
    <2>3. getBool(v, b) = (v.number = 1) \/ getBool(v, b) = b
      BY Zenon DEF getBool
    <2>4. getBool(v, b) \in BOOLEAN
      BY Zenon, <2>2, <2>3
    <2> QED BY <2>1, <2>4
  <1>3. p \in AnyPool /\ p.algorithm = first.pool.algorithm
    <2> DEFINE u == getText(object.user)
               n == getBool(object.nicehash, FALSE)
    <2>1. u \in Names /\ n \in BOOLEAN
      BY <1>2 DEF PoolObjects
    <2>2. p = [first.pool EXCEPT !.user = u, !.nicehash = n]
      OBVIOUS
    <2> HIDE DEF p, first, u, n
    <2> QED BY <1>1, <2>1, <2>2 DEF AnyPool
  <1>4. k \in AnyPool /\ k.algorithm = first.pool.algorithm
    <2>1. object.keepalive.number \in Int
      BY DEF PoolObjects, JsonValues
    <2> HIDE DEF p, first
    <2> DEFINE b == object.keepalive.number = 1
    <2>2. setKeepAlive(p, object.keepalive.number) \in AnyPool /\ setKeepAlive(p, object.keepalive.number).algorithm = first.pool.algorithm
      BY <1>3, <2>1, KeepAlive
    <2>3. KeepAliveEnabled(p, b) \in AnyPool /\ KeepAliveEnabled(p, b).algorithm = first.pool.algorithm
      <3>1. b \in BOOLEAN
        OBVIOUS
      <3> HIDE DEF b
      <3> QED BY <1>3, <3>1, KeepAlive
    <2>4. k = IF object.keepalive.type = "int" THEN setKeepAlive(p, object.keepalive.number)
              ELSE IF object.keepalive.type = "bool" THEN KeepAliveEnabled(p, b) ELSE p
      OBVIOUS
    <2> HIDE DEF k, b
    <2> QED BY <1>3, <2>2, <2>3, <2>4
  <1> DEFINE a == VariantParsed(k.algorithm, object.variant)
             e == getBool(object.enabled, TRUE)
             t == getBool(object.tls, FALSE)
             f == getText(object.fingerprint)
  <1>5. PoolOf(object) = IF ~first.ok THEN first.pool
                         ELSE [k EXCEPT !.algorithm = a, !.enabled = e, !.tls = t, !.fingerprint = f]
    BY DEF PoolOf
  <1> HIDE DEF k, first
  <1>6. e \in BOOLEAN /\ t \in BOOLEAN /\ f \in Names
    BY <1>2 DEF PoolObjects
  <1>7. a \in KnownAlgorithms /\ a.algo = Invalid
    <2>1. k.algorithm \in KnownAlgorithms /\ k.algorithm.algo = Invalid /\ object.variant \in JsonValues
      BY <1>1, <1>4 DEF AnyPool, Unnamed, PoolObjects
    <2> QED BY <2>1, VariantsParsed
  <1> HIDE DEF a, e, t, f
  <1>8. CASE ~first.ok
    BY <1>1, <1>5, <1>8
  <1>9. CASE first.ok
    <2>1. PoolOf(object) = [k EXCEPT !.algorithm = a, !.enabled = e, !.tls = t, !.fingerprint = f]
      BY <1>5, <1>9
    <2>2. [k EXCEPT !.algorithm = a, !.enabled = e, !.tls = t, !.fingerprint = f] \in AnyPool
      BY <1>4, <1>6, <1>7 DEF AnyPool
    <2>3. [k EXCEPT !.algorithm = a, !.enabled = e, !.tls = t, !.fingerprint = f].algorithm = a
      BY <1>4 DEF AnyPool
    <2> QED BY <1>7, <2>1, <2>2, <2>3 DEF Unnamed
  <1> QED BY <1>8, <1>9

-----------------------------------------------------------------------------
(* A pool that the threads can serve: it has their algorithm, is one of     *)
(* those its own jobs may be of, and all of those are of that algorithm     *)
(* and can be hashed.                                                       *)
FitsPool(p, algo) ==
    /\ p.algorithm.algo = algo /\ Plain(p.algorithm) \in p.algorithms
    /\ \A k \in p.algorithms : HasHash(k) /\ k.algo = algo

(* What can be hashed is of a known algorithm and variant,                  *)
LEMMA KindsKnown ==
    ASSUME NEW k, HasHash(k)
    PROVE  k.algo \in Algo /\ k.variant \in Variant \cup {AutoVariant} /\ k.algo # Invalid
BY VariantIs, AlgoIs DEF HasHash, SelfTested, Invalid

(* as are the variants that rebuild() offers.                               *)
LEMMA OfferedIn == Offered \subseteq Variant \cup {AutoVariant}
  BY VariantIs DEF Offered

(* An algorithm is valid when it can be hashed.                             *)
LEMMA ValidIs ==
    ASSUME NEW a \in KnownAlgorithms
    PROVE  Valid(a) <=> HasHash(Plain(a))
  <1>1. Valid(a) => HasHash(Plain(a))
    BY ValidHashed DEF Valid, Plain
  <1>2. ASSUME HasHash(Plain(a)) PROVE Valid(a)
    <2>1. isValid(Plain(a).algo, Plain(a).variant) /\ Plain(a).algo # Invalid
      BY <1>2, HashedValid, KindsKnown
    <2> QED BY <2>1 DEF Valid, Plain
  <1> QED BY <1>1, <1>2

(* setVariant replaces the variant,                                         *)
LEMMA SetsVariant ==
    ASSUME NEW a \in KnownAlgorithms, NEW v \in Variant \cup {AutoVariant}
    PROVE  /\ SetVariant(a, v) \in KnownAlgorithms
           /\ SetVariant(a, v) = [algo |-> a.algo, variant |-> v, forced |-> a.forced]
  <1>1. SetVariant(a, v) = [a EXCEPT !.variant = v]
    BY DEF SetVariant
  <1> QED BY <1>1 DEF KnownAlgorithms

(* setAlgo the algorithm; cn-pico has its variant at once.                  *)
LEMMA SetsAlgo ==
    ASSUME NEW a \in KnownAlgorithms, NEW algo \in Algo \cup {Invalid}
    PROVE  /\ SetAlgo(a, algo) \in KnownAlgorithms
           /\ SetAlgo(a, algo) = [algo |-> algo, forced |-> a.forced,
                                  variant |-> IF algo = "PICO" /\ a.variant = AutoVariant THEN "TRTL" ELSE a.variant]
  <1> DEFINE v == IF algo = "PICO" /\ a.variant = AutoVariant THEN "TRTL" ELSE a.variant
  <1>1. SetAlgo(a, algo) = [a EXCEPT !.algo = algo, !.variant = v]
    BY DEF SetAlgo, setAlgo
  <1>2. v \in Variant \cup {AutoVariant}
    BY VariantIs DEF KnownAlgorithms
  <1> HIDE DEF v
  <1>3. /\ SetAlgo(a, algo) \in KnownAlgorithms
        /\ SetAlgo(a, algo) = [algo |-> algo, forced |-> a.forced, variant |-> v]
    BY <1>1, <1>2 DEF KnownAlgorithms
  <1> QED BY <1>3 DEF v

(* rebuild() lets the jobs of a valid pool have variants of its own         *)
(* algorithm that can be hashed, and those of another none; it changes      *)
(* nothing else.                                                            *)
LEMMA Rebuilt ==
    ASSUME NEW p \in AnyPool
    PROVE  /\ rebuild(p) \in AnyPool
           /\ rebuild(p) = [p EXCEPT !.algorithms = rebuild(p).algorithms]
           /\ rebuild(p).algorithm = p.algorithm
           /\ ~Valid(p.algorithm) => rebuild(p).algorithms = {}
           /\ Valid(p.algorithm) => FitsPool(rebuild(p), p.algorithm.algo)
  <1> DEFINE offers == UNION {addVariant(p, v) : v \in Offered}
             ks == IF ~Valid(p.algorithm) THEN {} ELSE {Plain(p.algorithm)} \cup offers
  <1>1. rebuild(p) = [p EXCEPT !.algorithms = ks]
    BY DEF rebuild
  <1>2. \A k \in offers : k \in Kinds /\ HasHash(k) /\ k.algo = p.algorithm.algo
    <2> SUFFICES ASSUME NEW v \in Offered, NEW k \in addVariant(p, v)
                 PROVE  k \in Kinds /\ HasHash(k) /\ k.algo = p.algorithm.algo
      OBVIOUS
    <2>1. k = setAlgo(p.algorithm.algo, v) /\ isValid(k.algo, k.variant)
      BY DEF addVariant
    <2>2. k = [algo |-> k.algo, variant |-> k.variant] /\ k.algo = p.algorithm.algo
      BY <2>1 DEF setAlgo
    <2>3. HasHash([algo |-> k.algo, variant |-> k.variant])
      BY <2>1, ValidHashed
    <2>4. HasHash(k)
      BY <2>2, <2>3
    <2> QED BY <2>2, <2>4, KindsKnown DEF Kinds
  <1>3. p.algorithm \in KnownAlgorithms
    BY DEF AnyPool
  <1>4. ASSUME Valid(p.algorithm)
        PROVE  Plain(p.algorithm) \in Kinds /\ HasHash(Plain(p.algorithm)) /\ Plain(p.algorithm).algo = p.algorithm.algo
    <2>1. HasHash(Plain(p.algorithm))
      BY <1>3, <1>4, ValidIs
    <2> QED BY <2>1, KindsKnown DEF Plain, Kinds
  <1> HIDE DEF offers
  <1>5. ks \in SUBSET Kinds
    BY <1>2, <1>4
  <1>6. Valid(p.algorithm) => Plain(p.algorithm) \in ks /\ \A k \in ks : HasHash(k) /\ k.algo = p.algorithm.algo
    BY <1>2, <1>4
  <1>7. ~Valid(p.algorithm) => ks = {}
    OBVIOUS
  <1> HIDE DEF ks
  <1>8. rebuild(p) \in AnyPool /\ rebuild(p).algorithm = p.algorithm /\ rebuild(p).algorithms = ks
    BY <1>1, <1>5 DEF AnyPool
  <1> QED BY <1>1, <1>6, <1>7, <1>8 DEF FitsPool

(* What the adjustment makes of an algorithm is known, and the same or      *)
(* invalid.                                                                 *)
LEMMA AdjustedIn ==
    ASSUME NEW a \in KnownAlgorithms, NEW v \in Variant \cup {AutoVariant}, NEW valid \in BOOLEAN
    PROVE  /\ Adjusted(a, v, valid) \in KnownAlgorithms
           /\ Adjusted(a, v, valid).algo \in {a.algo, Invalid}
  <1>1. SetVariant(a, v) \in KnownAlgorithms /\ SetVariant(a, v).algo = a.algo
    BY SetsVariant
  <1>2. SetAlgo(SetVariant(a, v), Invalid) \in KnownAlgorithms /\ SetAlgo(SetVariant(a, v), Invalid).algo = Invalid
    BY <1>1, SetsAlgo
  <1> QED BY <1>1, <1>2 DEF Adjusted

(* A pool that is adjusted is of its type.                                  *)
LEMMA PoolChanged ==
    ASSUME NEW p \in AnyPool, NEW a \in KnownAlgorithms, NEW t \in BOOLEAN
    PROVE  /\ [p EXCEPT !.keepAlive = 0, !.algorithm = a] \in AnyPool
           /\ [p EXCEPT !.keepAlive = 0, !.algorithm = a].algorithm = a
           /\ [p EXCEPT !.keepAlive = 0, !.nicehash = TRUE, !.tls = t, !.algorithm = a] \in AnyPool
           /\ [p EXCEPT !.keepAlive = 0, !.nicehash = TRUE, !.tls = t, !.algorithm = a].algorithm = a
  <1> DEFINE q == [p EXCEPT !.keepAlive = 0]
  <1>1. q \in AnyPool
    <2>1. 0 \in Nat
      OBVIOUS
    <2> QED BY <2>1 DEF AnyPool
  <1>2. /\ [p EXCEPT !.keepAlive = 0, !.algorithm = a] = [q EXCEPT !.algorithm = a]
        /\ [p EXCEPT !.keepAlive = 0, !.nicehash = TRUE, !.tls = t, !.algorithm = a]
              = [q EXCEPT !.nicehash = TRUE, !.tls = t, !.algorithm = a]
    OBVIOUS
  <1> HIDE DEF q
  <1> QED BY <1>1, <1>2 DEF AnyPool

(* A pool of NiceHash keeps its algorithm or loses it,                      *)
LEMMA NiceHashIn ==
    ASSUME NEW p \in AnyPool
    PROVE  NiceHashPool(p) \in AnyPool /\ NiceHashPool(p).algorithm.algo \in {p.algorithm.algo, Invalid}
  <1> DEFINE is == NiceHashVariant(p)
             valid == p.algorithm.algo = is.algo /\ p.host = is.host
             a == Adjusted(p.algorithm, is.variant, valid)
             t == p.port > 33000
  <1>1. is.variant \in Variant \cup {AutoVariant}
    BY VariantIs DEF NiceHashVariant, AnyPool, KnownAlgorithms
  <1>2. a \in KnownAlgorithms /\ a.algo \in {p.algorithm.algo, Invalid}
    <2>1. valid \in BOOLEAN /\ p.algorithm \in KnownAlgorithms
      BY DEF AnyPool
    <2> HIDE DEF is, valid
    <2> QED BY <1>1, <2>1, AdjustedIn
  <1>3. NiceHashPool(p) = [p EXCEPT !.keepAlive = 0, !.nicehash = TRUE, !.tls = t, !.algorithm = a]
    BY DEF NiceHashPool
  <1>4. t \in BOOLEAN
    OBVIOUS
  <1> HIDE DEF a, t
  <1> DEFINE r == [p EXCEPT !.keepAlive = 0, !.nicehash = TRUE, !.tls = t, !.algorithm = a]
  <1>5. r \in AnyPool /\ r.algorithm = a
    BY Zenon, <1>2, <1>4, PoolChanged
  <1>6. NiceHashPool(p) = r
    BY <1>3
  <1> HIDE DEF r
  <1> QED BY <1>2, <1>5, <1>6

(* and so does one of MinerGate.                                            *)
LEMMA MinerGateIn ==
    ASSUME NEW p \in AnyPool
    PROVE  MinerGatePool(p) \in AnyPool /\ MinerGatePool(p).algorithm.algo \in {p.algorithm.algo, Invalid}
  <1> DEFINE cn == p.algorithm.algo = "CN"
             lite == p.algorithm.algo = "LITE"
             v == IF p.port = 45700 THEN AutoVariant ELSE "0"
             a == IF p.host = "xmr.pool.minergate.com" THEN Adjusted(p.algorithm, v, cn)
                  ELSE IF p.host = "aeon.pool.minergate.com" /\ p.port = 45690 THEN Adjusted(p.algorithm, "1", lite)
                  ELSE SetVariant(p.algorithm, "1")
  <1>0. MinerGateAlgorithm(p) = a
    BY DEF MinerGateAlgorithm
  <1>1. MinerGatePool(p) = [p EXCEPT !.keepAlive = 0, !.algorithm = a]
    BY <1>0 DEF MinerGatePool
  <1>2. v \in Variant \cup {AutoVariant} /\ "1" \in Variant /\ cn \in BOOLEAN /\ lite \in BOOLEAN
    BY VariantIs
  <1>3. p.algorithm \in KnownAlgorithms
    BY DEF AnyPool
  <1>4. /\ Adjusted(p.algorithm, v, cn) \in KnownAlgorithms
        /\ Adjusted(p.algorithm, v, cn).algo \in {p.algorithm.algo, Invalid}
    <2> HIDE DEF v, cn
    <2> QED BY <1>2, <1>3, AdjustedIn
  <1>5. /\ Adjusted(p.algorithm, "1", lite) \in KnownAlgorithms
        /\ Adjusted(p.algorithm, "1", lite).algo \in {p.algorithm.algo, Invalid}
    <2> HIDE DEF lite
    <2> QED BY <1>2, <1>3, AdjustedIn
  <1>6. SetVariant(p.algorithm, "1") \in KnownAlgorithms /\ SetVariant(p.algorithm, "1").algo = p.algorithm.algo
    BY <1>2, <1>3, SetsVariant
  <1> HIDE DEF cn, lite, v
  <1>7. a \in KnownAlgorithms /\ a.algo \in {p.algorithm.algo, Invalid}
    BY <1>4, <1>5, <1>6
  <1> HIDE DEF a
  <1> DEFINE r == [p EXCEPT !.keepAlive = 0, !.algorithm = a]
  <1>8. r \in AnyPool /\ r.algorithm = a
    BY Zenon, <1>7, PoolChanged
  <1>9. MinerGatePool(p) = r
    BY <1>1
  <1> HIDE DEF r
  <1> QED BY <1>7, <1>8, <1>9

(* The default of a variant that is left open, which some algorithms        *)
(* have.                                                                    *)
LEMMA DefaultIn ==
    ASSUME NEW a \in KnownAlgorithms
    PROVE  /\ DefaultVariant(a) \in KnownAlgorithms /\ DefaultVariant(a).algo = a.algo
           /\ DefaultVariant(a).forced = a.forced
           /\ DefaultVariant(a).variant = IF a.variant # AutoVariant THEN a.variant
                                          ELSE IF a.algo = "HEAVY" THEN "0" ELSE IF a.algo = "LITE" THEN "1" ELSE AutoVariant
  <1>1. \A v \in {"0", "1"} : /\ SetVariant(a, v) \in KnownAlgorithms
                              /\ SetVariant(a, v) = [algo |-> a.algo, variant |-> v, forced |-> a.forced]
    BY SetsVariant, VariantIs
  <1> QED BY <1>1 DEF DefaultVariant

(* Whatever the host, the adjusted pool has the algorithm it had, or an     *)
(* invalid one.                                                             *)
LEMMA VariantAdjusted ==
    ASSUME NEW p \in AnyPool, NEW hint \in Variant \cup {AutoVariant}
    PROVE  /\ adjustVariant(p, hint) \in AnyPool
           /\ adjustVariant(p, hint).algorithm.algo \in {p.algorithm.algo, Invalid}
  <1> DEFINE a == IF hint # AutoVariant THEN SetVariant(p.algorithm, hint) ELSE DefaultVariant(p.algorithm)
             q == [p EXCEPT !.algorithm = a]
  <1>1. adjustVariant(p, hint) \in {NiceHashPool(p), MinerGatePool(p), q}
    BY DEF adjustVariant
  <1>2. a \in KnownAlgorithms /\ a.algo = p.algorithm.algo
    <2>1. p.algorithm \in KnownAlgorithms
      BY DEF AnyPool
    <2> QED BY <2>1, SetsVariant, DefaultIn
  <1> HIDE DEF a
  <1>3. q \in AnyPool /\ q.algorithm.algo = p.algorithm.algo
    BY <1>2 DEF AnyPool
  <1> HIDE DEF q
  <1> QED BY <1>1, <1>3, NiceHashIn, MinerGateIn

(* A pool without an algorithm that is adjusted to the configuration's      *)
(* fits it when it is enabled.                                              *)
LEMMA AdjustFits ==
    ASSUME NEW p \in AnyPool, Unnamed(p), NEW a \in KnownAlgorithms
    PROVE  /\ adjust(p, a) \in AnyPool
           /\ isEnabled(adjust(p, a)) => FitsPool(adjust(p, a), a.algo)
  <1> DEFINE n == SetAlgo(p.algorithm, a.algo)
             q == [p EXCEPT !.algorithm = n]
             r == adjustVariant(q, a.variant)
  <1>1. p.algorithm \in KnownAlgorithms /\ a.algo \in Algo \cup {Invalid} /\ a.variant \in Variant \cup {AutoVariant}
    BY DEF AnyPool, KnownAlgorithms
  <1>2. n \in KnownAlgorithms /\ n.algo = a.algo
    BY <1>1, SetsAlgo
  <1> HIDE DEF n
  <1>3. q \in AnyPool /\ q.algorithm = n
    BY <1>2 DEF AnyPool
  <1> HIDE DEF q
  <1>4. r \in AnyPool /\ r.algorithm.algo \in {a.algo, Invalid}
    BY <1>1, <1>2, <1>3, VariantAdjusted
  <1>5. ~Valid(p.algorithm)
    BY DEF Unnamed, Valid
  <1>6. adjust(p, a) = IF isValidPool(p) THEN rebuild(r) ELSE p
    BY <1>5 DEF adjust, q, n
  <1> HIDE DEF r
  <1>7. CASE ~isValidPool(p)
    BY <1>6, <1>7 DEF isEnabled
  <1>8. CASE isValidPool(p)
    <2>1. adjust(p, a) = rebuild(r)
      BY <1>6, <1>8
    <2>2. rebuild(r) \in AnyPool /\ rebuild(r).algorithm = r.algorithm /\ (Valid(r.algorithm) => FitsPool(rebuild(r), r.algorithm.algo))
      BY <1>4, Rebuilt
    <2>3. isEnabled(rebuild(r)) => Valid(r.algorithm) /\ r.algorithm.algo # Invalid
      BY <2>2 DEF isEnabled, Valid
    <2> QED BY <1>4, <2>1, <2>2, <2>3
  <1> QED BY <1>7, <1>8

-----------------------------------------------------------------------------
(* An address that Pool::parse accepts; its port; a pool that has such an   *)
(* address; a pool that has none yet.                                       *)
WellFormed(url) ==
    /\ url.scheme \in {"", "stratum+tcp", "stratum+ssl"} /\ url.host # ""
    /\ url.brackets \notin {"bracket", "port"}
PortOf(url) == IF url.port = NoPort THEN kDefaultPort ELSE url.port % 65536
Addressable(p) == WellFormed(p.url) /\ p.host = p.url.host /\ p.port = PortOf(p.url)
Blank(p) == p.host = NoHost /\ p.port = kDefaultPort

(* A pool as the command line or a file makes it, before it is adjusted.    *)
RawPool(p) == Unnamed(p) /\ (isValidPool(p) => Addressable(p)) /\ (~isValidPool(p) => Blank(p))

(* The same connection.                                                     *)
SameAddress(p, q) == p.host = q.host /\ p.port = q.port /\ p.url = q.url

(* A change that leaves the address and the algorithm leaves the pool as    *)
(* raw and as valid as it was.                                              *)
LEMMA RawKept ==
    ASSUME NEW p, NEW q, RawPool(p), SameAddress(p, q), q.algorithm.algo = p.algorithm.algo
    PROVE  RawPool(q) /\ (isValidPool(p) <=> isValidPool(q))
  <1>1. /\ Unnamed(q) /\ (isValidPool(p) <=> isValidPool(q))
        /\ (Addressable(p) <=> Addressable(q)) /\ (Blank(p) <=> Blank(q))
    BY DEF RawPool, SameAddress, Unnamed, isValidPool, Addressable, Blank
  <1> QED BY <1>1 DEF RawPool

(* A pool without an address is not valid.                                  *)
LEMMA BlankIs == \A p : Blank(p) => ~isValidPool(p)
  BY DEF Blank, isValidPool

(* A new pool is raw and has no address.                                    *)
LEMMA NewRaw == RawPool(NewPool) /\ Blank(NewPool)
  BY NewIn, BlankIs DEF RawPool, Blank, NewPool

(* Pool::parse fails and leaves a pool without an address, or sets one      *)
(* and succeeds.                                                            *)
LEMMA AddressTaken ==
    ASSUME NEW p \in AnyPool, Unnamed(p), Blank(p), NEW url \in Urls
    PROVE  /\ ~WellFormed(url) => ~parse(p, url).ok /\ Blank(parse(p, url).pool)
           /\ WellFormed(url) => /\ parse(p, url).ok /\ Addressable(parse(p, url).pool)
                                 /\ parse(p, url).pool = [p EXCEPT !.url = url, !.host = url.host, !.port = PortOf(url),
                                                                   !.tls = IF url.scheme = "" THEN @ ELSE url.scheme = "stratum+ssl"]
  <1> DEFINE s == Schemed(p, url)
             r == Addressed(s, url)
             known == url.scheme \in {"", "stratum+tcp", "stratum+ssl"}
             q == [s EXCEPT !.url = url]
             t == IF url.scheme = "" THEN p.tls ELSE url.scheme = "stratum+ssl"
  <1>1. s \in AnyPool /\ s.algorithm = p.algorithm /\ Blank(s)
    BY DEF Schemed, AnyPool, Blank
  <1>2. s = [p EXCEPT !.tls = t]
    BY DEF Schemed, AnyPool
  <1> HIDE DEF s, t
  <1>3. r = [s EXCEPT !.url = url, !.host = url.host, !.port = PortOf(url)]
    BY <1>1 DEF Addressed, AnyPool, Blank, PortOf
  <1>4. r = [p EXCEPT !.url = url, !.host = url.host, !.port = PortOf(url), !.tls = t]
    BY <1>2, <1>3 DEF AnyPool
  <1>5. Blank(q)
    BY <1>1 DEF AnyPool, Blank
  <1> HIDE DEF r, q
  <1>6. parse(p, url) =
          IF ~known THEN [pool |-> p, ok |-> FALSE]
          ELSE IF url.host = "" THEN [pool |-> s, ok |-> FALSE]
          ELSE IF url.brackets \in {"bracket", "port"} THEN [pool |-> q, ok |-> FALSE]
          ELSE [pool |-> r, ok |-> TRUE]
    BY DEF parse, s, r, q
  <1>7. ASSUME WellFormed(url)
        PROVE  parse(p, url) = [pool |-> r, ok |-> TRUE] /\ Addressable(r)
    <2>1. parse(p, url) = [pool |-> r, ok |-> TRUE]
      BY <1>6, <1>7 DEF WellFormed
    <2>2. r.url = url /\ r.host = url.host /\ r.port = PortOf(url)
      BY <1>4 DEF AnyPool
    <2> QED BY <1>7, <2>1, <2>2 DEF Addressable
  <1>8. ASSUME ~WellFormed(url)
        PROVE  ~parse(p, url).ok /\ Blank(parse(p, url).pool)
    <2>1. \E x \in {p, s, q} : parse(p, url) = [pool |-> x, ok |-> FALSE]
      BY <1>6, <1>8 DEF WellFormed
    <2>2. \A x \in {p, s, q} : Blank(x)
      BY <1>1, <1>5
    <2> QED BY <2>1, <2>2
  <1> QED BY <1>4, <1>7, <1>8 DEF t

(* A pool of its parts: the provers take it apart more easily than a        *)
(* record.                                                                  *)
Made(en, ni, tl, ka, ho, po, ur, us, fi, al, ks) ==
    [enabled |-> en, nicehash |-> ni, tls |-> tl, keepAlive |-> ka, host |-> ho, port |-> po, url |-> ur,
     user |-> us, fingerprint |-> fi, algorithm |-> al, algorithms |-> ks]

(* The parts of a pool that is made of parts are those,                     *)
LEMMA MadeIs ==
    ASSUME NEW en, NEW ni, NEW tl, NEW ka, NEW ho, NEW po, NEW ur, NEW us, NEW fi, NEW al, NEW ks
    PROVE  LET p == Made(en, ni, tl, ka, ho, po, ur, us, fi, al, ks)
           IN  p.enabled = en /\ p.nicehash = ni /\ p.tls = tl /\ p.keepAlive = ka /\ p.host = ho /\ p.port = po
               /\ p.url = ur /\ p.user = us /\ p.fingerprint = fi /\ p.algorithm = al /\ p.algorithms = ks
  BY DEF Made

(* and every pool is made of its own.                                       *)
LEMMA PoolsMade ==
    ASSUME NEW p \in AnyPool
    PROVE  p = Made(p.enabled, p.nicehash, p.tls, p.keepAlive, p.host, p.port, p.url, p.user, p.fingerprint, p.algorithm, p.algorithms)
  BY DEF Made, AnyPool

(* Replacing some fields is replacing one after the other.                  *)
LEMMA Nested ==
    ASSUME NEW p, NEW a, NEW b, NEW c, NEW d
    PROVE  /\ [p EXCEPT !.user = a, !.nicehash = b] = [[p EXCEPT !.user = a] EXCEPT !.nicehash = b]
           /\ [p EXCEPT !.url = a, !.host = b, !.port = c, !.tls = d] = [[[[p EXCEPT !.url = a] EXCEPT !.host = b] EXCEPT !.port = c] EXCEPT !.tls = d]
           /\ [p EXCEPT !.algorithm = a, !.enabled = b, !.tls = c, !.fingerprint = d] = [[[[p EXCEPT !.algorithm = a] EXCEPT !.enabled = b] EXCEPT !.tls = c] EXCEPT !.fingerprint = d]
  OBVIOUS

(* The keepalive that a value of a file gives.                              *)
KeepAliveOf(value) ==
    CASE value.type = "int" -> IF value.number >= 0 THEN value.number ELSE 0
      [] value.type = "bool" -> IF value.number = 1 THEN kKeepAliveTimeout ELSE 0
      [] OTHER -> 0

(* The pool of an object of a file, part by part; without an address it     *)
(* has none.                                                                *)
LEMMA PoolOfIs ==
    ASSUME NEW object, object.url \in Urls
    PROVE  /\ ~WellFormed(object.url) => Blank(PoolOf(object))
           /\ WellFormed(object.url) =>
                PoolOf(object) = Made(getBool(object.enabled, TRUE), getBool(object.nicehash, FALSE), getBool(object.tls, FALSE),
                                      KeepAliveOf(object.keepalive), object.url.host, PortOf(object.url), object.url,
                                      getText(object.user), getText(object.fingerprint),
                                      VariantParsed(InvalidAlgorithm, object.variant), {})
  <1> DEFINE first == parse(NewPool, object.url)
             p == [first.pool EXCEPT !.user = getText(object.user), !.nicehash = getBool(object.nicehash, FALSE)]
             k == CASE object.keepalive.type = "int" -> setKeepAlive(p, object.keepalive.number)
                    [] object.keepalive.type = "bool" -> KeepAliveEnabled(p, object.keepalive.number = 1)
                    [] OTHER -> p
             n == KeepAliveOf(object.keepalive)
  <1>1. object.url \in Urls
    OBVIOUS
  <1>2. PoolOf(object) = IF ~first.ok THEN first.pool
                         ELSE [k EXCEPT !.algorithm = VariantParsed(k.algorithm, object.variant),
                                        !.enabled = getBool(object.enabled, TRUE),
                                        !.tls = getBool(object.tls, FALSE),
                                        !.fingerprint = getText(object.fingerprint)]
    BY DEF PoolOf
  <1>3. ASSUME ~WellFormed(object.url) PROVE Blank(PoolOf(object))
    <2>1. ~first.ok /\ Blank(first.pool)
      BY <1>1, <1>3, NewIn, NewRaw, AddressTaken
    <2> HIDE DEF k, first
    <2> QED BY <1>2, <2>1
  <1>4. ASSUME WellFormed(object.url)
        PROVE  PoolOf(object) = Made(getBool(object.enabled, TRUE), getBool(object.nicehash, FALSE), getBool(object.tls, FALSE),
                                        KeepAliveOf(object.keepalive), object.url.host, PortOf(object.url), object.url,
                                        getText(object.user), getText(object.fingerprint),
                                        VariantParsed(InvalidAlgorithm, object.variant), {})
    <2> DEFINE url == object.url
               h == url.host
               o == PortOf(url)
               t == IF url.scheme = "" THEN NewPool.tls ELSE url.scheme = "stratum+ssl"
               u == getText(object.user)
               c == getBool(object.nicehash, FALSE)
               a == VariantParsed(InvalidAlgorithm, object.variant)
               e == getBool(object.enabled, TRUE)
               tt == getBool(object.tls, FALSE)
               f == getText(object.fingerprint)
               yes == TRUE
               no == FALSE
    <2>1. first.ok /\ first.pool = [NewPool EXCEPT !.url = url, !.host = h, !.port = o, !.tls = t]
      BY <1>1, <1>4, NewIn, NewRaw, AddressTaken
    <2>2. NewPool = Made(yes, no, no, 0, NoHost, kDefaultPort, NoUrl, "null", "null", InvalidAlgorithm, {})
      BY DEF NewPool, Made
    <2>3. p = [first.pool EXCEPT !.user = u, !.nicehash = c]
      OBVIOUS
    <2> HIDE DEF first, t, url, h, o, u, c, p, yes, no
    <2>4. first.pool = Made(yes, no, t, 0, h, o, url, "null", "null", InvalidAlgorithm, {})
      <3> DEFINE q1 == [NewPool EXCEPT !.url = url]
                 q2 == [q1 EXCEPT !.host = h]
                 q3 == [q2 EXCEPT !.port = o]
      <3>1. first.pool = [q3 EXCEPT !.tls = t]
        BY <2>1, Nested
      <3>2. q1 = Made(yes, no, no, 0, NoHost, kDefaultPort, url, "null", "null", InvalidAlgorithm, {})
        BY <2>2 DEF Made
      <3> HIDE DEF q1
      <3>3. q2 = Made(yes, no, no, 0, h, kDefaultPort, url, "null", "null", InvalidAlgorithm, {})
        BY <3>2 DEF Made
      <3> HIDE DEF q2
      <3>4. q3 = Made(yes, no, no, 0, h, o, url, "null", "null", InvalidAlgorithm, {})
        BY <3>3 DEF Made
      <3> HIDE DEF q3
      <3> QED BY <3>1, <3>4 DEF Made
    <2>5. p = Made(yes, c, t, 0, h, o, url, u, "null", InvalidAlgorithm, {})
      <3>1. p = [[first.pool EXCEPT !.user = u] EXCEPT !.nicehash = c]
        BY <2>3, Nested
      <3>2. [first.pool EXCEPT !.user = u] = Made(yes, no, t, 0, h, o, url, u, "null", InvalidAlgorithm, {})
        BY <2>4 DEF Made
      <3> DEFINE q == [first.pool EXCEPT !.user = u]
      <3>3. q = Made(yes, no, t, 0, h, o, url, u, "null", InvalidAlgorithm, {}) /\ p = [q EXCEPT !.nicehash = c]
        BY <3>1, <3>2
      <3> HIDE DEF q
      <3> QED BY <3>3 DEF Made
    <2>6. k = Made(yes, c, t, n, h, o, url, u, "null", InvalidAlgorithm, {})
      <3>1. CASE object.keepalive.type = "int"
        <4>1. k = setKeepAlive(p, object.keepalive.number)
          BY <3>1
        <4>2. n = IF object.keepalive.number >= 0 THEN object.keepalive.number ELSE 0
          BY <3>1 DEF KeepAliveOf
        <4>3. k = [p EXCEPT !.keepAlive = n]
          BY <4>1, <4>2 DEF setKeepAlive
        <4> HIDE DEF k, n
        <4> QED BY <2>5, <4>3 DEF Made
      <3>2. CASE object.keepalive.type # "int" /\ object.keepalive.type = "bool"
        <4>1. k = KeepAliveEnabled(p, object.keepalive.number = 1)
          BY <3>2
        <4>2. n = IF object.keepalive.number = 1 THEN 60 ELSE 0
          BY <3>2 DEF KeepAliveOf, kKeepAliveTimeout
        <4>3. k = [p EXCEPT !.keepAlive = n]
          BY <4>1, <4>2 DEF setKeepAlive, KeepAliveEnabled, kKeepAliveTimeout
        <4> HIDE DEF k, n
        <4> QED BY <2>5, <4>3 DEF Made
      <3>3. CASE object.keepalive.type # "int" /\ object.keepalive.type # "bool"
        <4>1. k = p
          BY <3>3
        <4>2. n = 0
          BY <3>3 DEF KeepAliveOf
        <4> HIDE DEF k, n
        <4> QED BY <2>5, <4>1, <4>2
      <3> QED BY <3>1, <3>2, <3>3
    <2> HIDE DEF k, n
    <2>7. k.algorithm = InvalidAlgorithm
      BY <2>6, MadeIs
    <2>8. PoolOf(object) = [k EXCEPT !.algorithm = a, !.enabled = e, !.tls = tt, !.fingerprint = f]
      BY <1>2, <2>1, <2>7
    <2> HIDE DEF a, e, tt, f
    <2>9. PoolOf(object) = Made(e, c, tt, n, h, o, url, u, f, a, {})
      <3> DEFINE q1 == [k EXCEPT !.algorithm = a]
                 q2 == [q1 EXCEPT !.enabled = e]
                 q3 == [q2 EXCEPT !.tls = tt]
      <3>1. PoolOf(object) = [q3 EXCEPT !.fingerprint = f]
        BY <2>8, Nested
      <3>2. q1 = Made(yes, c, t, n, h, o, url, u, "null", a, {})
        BY <2>6 DEF Made
      <3> HIDE DEF q1
      <3>3. q2 = Made(e, c, t, n, h, o, url, u, "null", a, {})
        BY <3>2 DEF Made
      <3> HIDE DEF q2
      <3>4. q3 = Made(e, c, tt, n, h, o, url, u, "null", a, {})
        BY <3>3 DEF Made
      <3> HIDE DEF q3
      <3> QED BY <3>1, <3>4 DEF Made
    <2> QED BY <2>9 DEF a, e, tt, f, c, u, n, url, h, o
  <1> QED BY <1>3, <1>4

(* A valid pool of a file is raw.                                           *)
LEMMA ObjectsRaw ==
    ASSUME NEW object \in PoolObjects
    PROVE  isValidPool(PoolOf(object)) => RawPool(PoolOf(object))
  <1>0. object.url \in Urls
    BY DEF PoolObjects
  <1>1. WellFormed(object.url) => Addressable(PoolOf(object))
    <2> SUFFICES ASSUME WellFormed(object.url) PROVE Addressable(PoolOf(object))
      OBVIOUS
    <2>1. \E e, c, t, n, u, f, a :
              PoolOf(object) = Made(e, c, t, n, object.url.host, PortOf(object.url), object.url, u, f, a, {})
      BY <1>0, PoolOfIs
    <2>2. PoolOf(object).url = object.url /\ PoolOf(object).host = object.url.host
          /\ PoolOf(object).port = PortOf(object.url)
      BY <2>1, MadeIs
    <2> QED BY <2>2 DEF Addressable
  <1> QED BY <1>0, <1>1, PoolOfIs, ObjectsIn, BlankIs DEF RawPool

-----------------------------------------------------------------------------
(* No two variants have one name,                                           *)
LEMMA VariantsDiffer == \A i, j \in 1..17 : (variants[i] = variants[j] \/ VariantNames[i] = VariantNames[j]) => i = j
  BY DEF variants, VariantNames

(* so that a variant that is written is read as itself, whether it is       *)
(* written as a number or by name.                                          *)
LEMMA VariantRound ==
    ASSUME NEW v \in Variant \cup {AutoVariant}
    PROVE  VariantParsed(InvalidAlgorithm, VariantJSON(v)) = [algo |-> Invalid, variant |-> v, forced |-> FALSE]
  <1>1. \A n \in -1..2 : VariantParsed(InvalidAlgorithm, Number(n)) =
              [algo |-> Invalid, variant |-> parseVariantNumber(n), forced |-> FALSE]
    BY DEF VariantParsed, InvalidAlgorithm, Number, Value, SetVariant
  <1>2. \A name : VariantParsed(InvalidAlgorithm, Text(name)) =
              [algo |-> Invalid, variant |-> parseVariant(name), forced |-> FALSE]
    BY DEF VariantParsed, InvalidAlgorithm, Text, Value
  <1>3. CASE v \in {AutoVariant, "0", "1", "2"}
    <2>1. \/ VariantJSON(v) = Number(-1) /\ v = AutoVariant
          \/ VariantJSON(v) = Number(0) /\ v = "0"
          \/ VariantJSON(v) = Number(1) /\ v = "1"
          \/ VariantJSON(v) = Number(2) /\ v = "2"
      BY <1>3 DEF VariantJSON, AutoVariant
    <2>2. /\ parseVariantNumber(-1) = AutoVariant /\ parseVariantNumber(0) = "0"
          /\ parseVariantNumber(1) = "1" /\ parseVariantNumber(2) = "2"
      BY DEF parseVariantNumber, VariantNames
    <2> QED BY <1>1, <2>1, <2>2
  <1>4. CASE v \notin {AutoVariant, "0", "1", "2"}
    <2> DEFINE n == VariantNumber(v) + 1
               name == variants[n]
               m == CHOOSE i \in 1..Len(variants) : variants[i] = name
    <2>1. VariantJSON(v) = Text(name)
      BY <1>4 DEF VariantJSON, variantName
    <2>2. n \in 1..17 /\ VariantNames[n] = v
      <3>1. \E j \in 1..17 : VariantNames[j] = v
        BY <1>4 DEF Variant, VariantNames, ToSet
      <3>2. \E i \in 0..16 : VariantNames[i + 1] = v
        <4>1. PICK j \in 1..17 : VariantNames[j] = v
          BY <3>1
        <4>2. j - 1 \in 0..16 /\ (j - 1) + 1 = j
          OBVIOUS
        <4> QED BY <4>1, <4>2
      <3> DEFINE x == VariantNumber(v)
      <3>3. x \in 0..16 /\ VariantNames[x + 1] = v
        BY <3>2 DEF VariantNumber
      <3> HIDE DEF x
      <3>4. x + 1 \in 1..17
        BY <3>3
      <3> QED BY <3>3, <3>4 DEF x
    <2>3. \E i \in 1..Len(variants) : variants[i] = name
      BY <2>2, VariantsIs
    <2>4. m \in 1..17 /\ variants[m] = name
      BY <2>3, VariantsIs
    <2>5. m = n
      <3> HIDE DEF m, n
      <3> QED BY <2>2, <2>4, VariantsDiffer
    <2>6. parseVariant(name) = VariantNames[m]
      BY <2>3 DEF parseVariant
    <2> HIDE DEF name, m, n
    <2> QED BY <1>2, <2>1, <2>2, <2>5, <2>6
  <1> QED BY <1>3, <1>4

(* No name or short name of the table is that of another row,               *)
LEMMA NamesDiffer == \A i, j \in 1..29 : algorithms[i].name \in {algorithms[j].name, algorithms[j].short} => i = j
  BY SMTT(60) DEF algorithms, Row

(* so that an algorithm that is written is read as itself.                  *)
LEMMA NameRound ==
    ASSUME NEW a, NEW v, isValid(a, v)
    PROVE  parseAlgorithm(Name(a, v, FALSE)) = [algo |-> a, variant |-> v]
  <1> DEFINE rows == RowsOf(a, v)
             name == Name(a, v, FALSE)
             named == {i \in DOMAIN algorithms : name \in {algorithms[i].name, algorithms[i].short}}
  <1>1. rows \in SUBSET (1..29) /\ rows # {}
    BY RowsHashed DEF isValid, RowsOf
  <1>2. name = FirstRow(rows).name
    BY <1>1 DEF Name
  <1>3. \A i \in rows : algorithms[i].algo = a /\ algorithms[i].variant = v
    BY DEF RowsOf
  <1> HIDE DEF rows
  <1>4. PICK i \in rows : FirstRow(rows) = algorithms[i]
    BY <1>1, FirstIs
  <1>5. name = algorithms[i].name
    BY <1>2, <1>4, Zenon
  <1> HIDE DEF name
  <1>6. i \in 1..29
    BY <1>1
  <1>7. i \in named /\ \A j \in named : j = i
    BY <1>5, <1>6, NamesDiffer, RowsHashed, Zenon
  <1>8. named \in SUBSET (1..29) /\ named # {}
    BY <1>7, RowsHashed
  <1>9. parseAlgorithm(name) = [algo |-> FirstRow(named).algo, variant |-> FirstRow(named).variant]
    BY <1>8 DEF parseAlgorithm, Named, KindOf
  <1> HIDE DEF named
  <1>10. PICK j \in named : FirstRow(named) = algorithms[j]
    BY <1>8, FirstIs
  <1>11. FirstRow(named) = algorithms[i]
    BY <1>7, <1>10
  <1>12. parseAlgorithm(name) = [algo |-> a, variant |-> v]
    BY <1>3, <1>9, <1>11
  <1> QED BY <1>12 DEF name

(* A pool that is written and read again is the same but for its            *)
(* algorithm, which is not written, and for the flag of its variant.        *)
LEMMA ReadBack ==
    ASSUME NEW p \in AnyPool, Addressable(p)
    PROVE  PoolOf(PoolJSON(p)) =
                Made(p.enabled, p.nicehash, p.tls, p.keepAlive, p.host, p.port, p.url, p.user, p.fingerprint,
                     [algo |-> Invalid, variant |-> p.algorithm.variant, forced |-> FALSE], {})
  <1> DEFINE o == PoolJSON(p)
  <1>1. /\ o.url = p.url /\ o.user = TextOrNull(p.user) /\ o.fingerprint = TextOrNull(p.fingerprint)
        /\ o.nicehash = Bool(p.nicehash) /\ o.tls = Bool(p.tls) /\ o.enabled = Bool(p.enabled)
        /\ o.keepalive = KeepAliveJSON(p) /\ o.variant = VariantJSON(p.algorithm.variant)
    BY DEF PoolJSON
  <1> HIDE DEF o
  <1>2. p.url \in Urls /\ WellFormed(p.url) /\ p.host = p.url.host /\ p.port = PortOf(p.url)
    BY DEF Addressable, AnyPool
  <1>3. \A s : getText(TextOrNull(s)) = s
    BY DEF getText, TextOrNull, Text, Null, Value
  <1>4. \A b, d \in BOOLEAN : getBool(Bool(b), d) = b
    BY DEF getBool, Bool, Value
  <1>5. KeepAliveOf(KeepAliveJSON(p)) = p.keepAlive
    <2>1. CASE p.keepAlive = 0
      BY <2>1 DEF KeepAliveJSON, KeepAliveOf, kKeepAliveTimeout, Bool, Value
    <2>2. CASE p.keepAlive = 60
      BY <2>2 DEF KeepAliveJSON, KeepAliveOf, kKeepAliveTimeout, Bool, Value
    <2>3. CASE p.keepAlive \notin {0, 60}
      BY <2>3 DEF KeepAliveJSON, KeepAliveOf, kKeepAliveTimeout, Number, Value, AnyPool
    <2> QED BY <2>1, <2>2, <2>3
  <1>6. VariantParsed(InvalidAlgorithm, VariantJSON(p.algorithm.variant)) = [algo |-> Invalid, variant |-> p.algorithm.variant, forced |-> FALSE]
    BY VariantRound DEF AnyPool, KnownAlgorithms
  <1>7. p.enabled \in BOOLEAN /\ p.nicehash \in BOOLEAN /\ p.tls \in BOOLEAN
    BY DEF AnyPool
  <1>8. PoolOf(o) = Made(getBool(o.enabled, TRUE), getBool(o.nicehash, FALSE), getBool(o.tls, FALSE),
                         KeepAliveOf(o.keepalive), o.url.host, PortOf(o.url), o.url, getText(o.user),
                         getText(o.fingerprint), VariantParsed(InvalidAlgorithm, o.variant), {})
    BY <1>1, <1>2, PoolOfIs
  <1>9. getBool(o.enabled, TRUE) = p.enabled /\ getBool(o.nicehash, FALSE) = p.nicehash /\ getBool(o.tls, FALSE) = p.tls
    BY <1>1, <1>4, <1>7
  <1> QED BY <1>1, <1>2, <1>3, <1>5, <1>6, <1>8, <1>9 DEF o

(* The variant as setAlgo leaves it.                                        *)
ToPico(algo, v) == IF algo = "PICO" /\ v = AutoVariant THEN "TRTL" ELSE v

(* Two pools that the adjustment makes the same: those of one address and one   *)
(* algorithm, of which the second has the variant that the first is given.  *)
Follows(x, y, z) ==
    /\ x \in AnyPool /\ y \in AnyPool /\ z \in AnyPool /\ SameAddress(x, y)
    /\ x.algorithm.algo = y.algorithm.algo
    /\ x.algorithm.variant = ToPico(x.algorithm.algo, x.algorithm.variant)
    /\ y.algorithm.variant = ToPico(x.algorithm.algo, z.algorithm.variant)

(* The variant and the algorithm that are adjusted,                         *)
LEMMA AdjustedAgain ==
    ASSUME NEW a \in KnownAlgorithms, NEW v \in Variant \cup {AutoVariant}, NEW valid \in BOOLEAN
    PROVE  /\ Adjusted(a, v, valid).variant = v
           /\ Adjusted(a, v, valid).algo = IF valid THEN a.algo ELSE Invalid
  <1>1. SetVariant(a, v) \in KnownAlgorithms /\ SetVariant(a, v) = [algo |-> a.algo, variant |-> v, forced |-> a.forced]
    BY SetsVariant
  <1>2. SetAlgo(SetVariant(a, v), Invalid).algo = Invalid /\ SetAlgo(SetVariant(a, v), Invalid).variant = v
    BY <1>1, SetsAlgo DEF Invalid
  <1> QED BY <1>1, <1>2 DEF Adjusted

(* those of a pool of NiceHash that is adjusted twice,                      *)
LEMMA NiceHashAgain ==
    ASSUME NEW x, NEW y, Follows(x, y, NiceHashPool(x))
    PROVE  /\ NiceHashPool(y).algorithm.algo = NiceHashPool(x).algorithm.algo
           /\ NiceHashPool(y).algorithm.variant = NiceHashPool(x).algorithm.variant
  <1> DEFINE Is(p) == NiceHashVariant(p)
             valid(p) == p.algorithm.algo = Is(p).algo /\ p.host = Is(p).host
  <1>1. ASSUME NEW p \in AnyPool
        PROVE  /\ NiceHashPool(p).algorithm.variant = Is(p).variant
               /\ NiceHashPool(p).algorithm.algo = IF valid(p) THEN p.algorithm.algo ELSE Invalid
    <2> DEFINE b == valid(p)
               v == Is(p).variant
               a == Adjusted(p.algorithm, v, b)
    <2>1. v \in Variant \cup {AutoVariant}
      BY VariantIs DEF NiceHashVariant, AnyPool, KnownAlgorithms
    <2>2. b \in BOOLEAN /\ p.algorithm \in KnownAlgorithms
      BY DEF AnyPool
    <2>3. NiceHashPool(p).algorithm = a
      BY DEF NiceHashPool, AnyPool
    <2> HIDE DEF b, v
    <2>4. a.variant = v /\ a.algo = IF b THEN p.algorithm.algo ELSE Invalid
      BY <2>1, <2>2, AdjustedAgain
    <2> QED BY <2>3, <2>4 DEF b, v
  <1>2. x \in AnyPool /\ y \in AnyPool /\ x.host = y.host /\ x.port = y.port /\ x.algorithm.algo = y.algorithm.algo
    BY DEF Follows, SameAddress
  <1> DEFINE ports == {3355, 33355, 3363, 33363, 3364, 3367, 33367}
  <1>3. CASE x.port \in ports
    <2>1. Is(x) = Is(y)
      BY <1>2, <1>3 DEF NiceHashVariant
    <2> HIDE DEF Is
    <2> QED BY <1>1, <1>2, <2>1
  <1>4. CASE x.port \notin ports
    <2>1. \A p \in {x, y} : Is(p) = [variant |-> p.algorithm.variant, algo |-> p.algorithm.algo, host |-> p.host]
      BY <1>2, <1>4 DEF NiceHashVariant
    <2>2. valid(x) /\ valid(y)
      BY <2>1
    <2>3. Is(x).variant = x.algorithm.variant /\ Is(y).variant = y.algorithm.variant
      BY <2>1
    <2>4. NiceHashPool(x).algorithm.variant = x.algorithm.variant
      BY <1>1, <1>2, <2>3
    <2>5. y.algorithm.variant = x.algorithm.variant
      BY <2>4 DEF Follows
    <2> HIDE DEF Is, valid
    <2> QED BY <1>1, <1>2, <2>2, <2>3, <2>5
  <1> QED BY <1>3, <1>4

(* of one of MinerGate,                                                     *)
LEMMA MinerGateAgain ==
    ASSUME NEW x, NEW y, Follows(x, y, MinerGatePool(x))
    PROVE  /\ MinerGatePool(y).algorithm.algo = MinerGatePool(x).algorithm.algo
           /\ MinerGatePool(y).algorithm.variant = MinerGatePool(x).algorithm.variant
  <1>1. ASSUME NEW p \in AnyPool
        PROVE  /\ MinerGatePool(p).algorithm.variant =
                      IF p.host = "xmr.pool.minergate.com" THEN IF p.port = 45700 THEN AutoVariant ELSE "0" ELSE "1"
               /\ MinerGatePool(p).algorithm.algo =
                      IF p.host = "xmr.pool.minergate.com" THEN IF p.algorithm.algo = "CN" THEN "CN" ELSE Invalid
                      ELSE IF p.host = "aeon.pool.minergate.com" /\ p.port = 45690
                           THEN IF p.algorithm.algo = "LITE" THEN "LITE" ELSE Invalid
                      ELSE p.algorithm.algo
    <2> DEFINE cn == p.algorithm.algo = "CN"
               lite == p.algorithm.algo = "LITE"
               v == IF p.port = 45700 THEN AutoVariant ELSE "0"
               a == IF p.host = "xmr.pool.minergate.com" THEN Adjusted(p.algorithm, v, cn)
                    ELSE IF p.host = "aeon.pool.minergate.com" /\ p.port = 45690 THEN Adjusted(p.algorithm, "1", lite)
                    ELSE SetVariant(p.algorithm, "1")
    <2>1. MinerGatePool(p).algorithm = MinerGateAlgorithm(p)
      BY DEF MinerGatePool, AnyPool
    <2>2. MinerGateAlgorithm(p) = a
      BY DEF MinerGateAlgorithm
    <2>3. v \in Variant \cup {AutoVariant} /\ "1" \in Variant /\ cn \in BOOLEAN /\ lite \in BOOLEAN
      BY VariantIs
    <2>4. p.algorithm \in KnownAlgorithms
      BY DEF AnyPool
    <2>5. Adjusted(p.algorithm, v, cn).variant = v /\ Adjusted(p.algorithm, v, cn).algo = IF cn THEN p.algorithm.algo ELSE Invalid
      <3> HIDE DEF v, cn
      <3> QED BY <2>3, <2>4, AdjustedAgain
    <2>6. Adjusted(p.algorithm, "1", lite).variant = "1" /\ Adjusted(p.algorithm, "1", lite).algo = IF lite THEN p.algorithm.algo ELSE Invalid
      <3> HIDE DEF lite
      <3> QED BY <2>3, <2>4, AdjustedAgain
    <2>7. SetVariant(p.algorithm, "1").variant = "1" /\ SetVariant(p.algorithm, "1").algo = p.algorithm.algo
      BY <2>3, <2>4, SetsVariant
    <2> QED BY <2>1, <2>2, <2>5, <2>6, <2>7
  <1>2. x \in AnyPool /\ y \in AnyPool /\ x.host = y.host /\ x.port = y.port /\ x.algorithm.algo = y.algorithm.algo
    BY DEF Follows, SameAddress
  <1> QED BY <1>1, <1>2

(* any other host: the variant of the configuration, or the default;        *)
Hinted(p, hint) ==
    [p EXCEPT !.algorithm = IF hint # AutoVariant THEN SetVariant(@, hint) ELSE DefaultVariant(@)]

(* of which the second adjustment changes nothing either.                   *)
LEMMA DefaultAgain ==
    ASSUME NEW x, NEW y, NEW hint \in Variant \cup {AutoVariant}, NEW z, NEW w,
           z = Hinted(x, hint), w = Hinted(y, hint), Follows(x, y, z)
    PROVE  w.algorithm.algo = z.algorithm.algo /\ w.algorithm.variant = z.algorithm.variant
  <1> DEFINE New(a) == IF hint # AutoVariant THEN SetVariant(a, hint) ELSE DefaultVariant(a)
  <1>1. x \in AnyPool /\ y \in AnyPool /\ x.algorithm \in KnownAlgorithms /\ y.algorithm \in KnownAlgorithms
    BY DEF Follows, AnyPool
  <1>2. z.algorithm = New(x.algorithm) /\ w.algorithm = New(y.algorithm)
    BY <1>1 DEF AnyPool, Hinted
  <1>3. /\ y.algorithm.algo = x.algorithm.algo
        /\ x.algorithm.variant = ToPico(x.algorithm.algo, x.algorithm.variant)
        /\ y.algorithm.variant = ToPico(x.algorithm.algo, New(x.algorithm).variant)
    BY <1>2 DEF Follows
  <1>4. CASE hint # AutoVariant
    <2>1. \A a \in KnownAlgorithms : New(a).algo = a.algo /\ New(a).variant = hint
      BY <1>4, SetsVariant
    <2> HIDE DEF New
    <2> QED BY <1>1, <1>2, <1>3, <2>1
  <1>5. CASE hint = AutoVariant
    <2>1. \A a \in KnownAlgorithms :
              /\ New(a).algo = a.algo
              /\ New(a).variant = IF a.variant # AutoVariant THEN a.variant
                                  ELSE IF a.algo = "HEAVY" THEN "0" ELSE IF a.algo = "LITE" THEN "1" ELSE AutoVariant
      BY <1>5, DefaultIn
    <2> HIDE DEF New
    <2> QED BY <1>1, <1>2, <1>3, <2>1 DEF ToPico, AutoVariant
  <1> QED BY <1>4, <1>5

-----------------------------------------------------------------------------
(* What a connection is made with, all but the algorithm.                   *)
SameUser(p, q) == SameAddress(p, q) /\ p.enabled = q.enabled /\ p.user = q.user /\ p.fingerprint = q.fingerprint
SameChannel(p, q) == p.keepAlive = q.keepAlive /\ p.nicehash = q.nicehash /\ p.tls = q.tls
SameAlgorithm(p, q) == p.algorithm.algo = q.algorithm.algo /\ p.algorithm.variant = q.algorithm.variant
Alike(p, q) == SameUser(p, q) /\ SameChannel(p, q) /\ SameAlgorithm(p, q)

(* Pool::isEqual compares no more than that.                                *)
LEMMA AlikeEqual ==
    ASSUME NEW p \in AnyPool, NEW q \in AnyPool, Alike(p, q)
    PROVE  isEqual(p, q)
  <1> DEFINE plain(x) == [algo |-> x.algorithm.algo, variant |-> x.algorithm.variant, forced |-> FALSE]
  <1>1. ASSUME NEW x \in AnyPool
        PROVE  Compared(x) = Made(x.enabled, x.nicehash, x.tls, x.keepAlive, x.host, x.port, x.url, x.user,
                                  x.fingerprint, plain(x), {})
    <2> DEFINE no == FALSE
               a == [x.algorithm EXCEPT !.forced = no]
               y == [x EXCEPT !.algorithms = {}]
               none == {}
    <2>1. a = plain(x)
      <3> DEFINE l == x.algorithm
      <3>1. l \in KnownAlgorithms /\ a = [l EXCEPT !.forced = no]
        BY DEF AnyPool
      <3> HIDE DEF a, l, no
      <3>2. a = [algo |-> l.algo, variant |-> l.variant, forced |-> no]
        BY <3>1 DEF KnownAlgorithms
      <3> QED BY <3>2 DEF l, no
    <2>2. Compared(x) = [y EXCEPT !.algorithm = a]
      BY DEF Compared
    <2>3. y = Made(x.enabled, x.nicehash, x.tls, x.keepAlive, x.host, x.port, x.url, x.user, x.fingerprint, x.algorithm, none)
      <3> DEFINE e == x.enabled
                 n == x.nicehash
                 t == x.tls
                 k == x.keepAlive
                 h == x.host
                 o == x.port
                 u == x.url
                 s == x.user
                 f == x.fingerprint
                 l == x.algorithm
                 ls == x.algorithms
      <3>1. x = Made(e, n, t, k, h, o, u, s, f, l, ls)
        BY PoolsMade
      <3>2. y = [x EXCEPT !.algorithms = none]
        OBVIOUS
      <3> HIDE DEF e, n, t, k, h, o, u, s, f, l, ls, y, none
      <3>3. y = Made(e, n, t, k, h, o, u, s, f, l, none)
        BY <3>1, <3>2 DEF Made
      <3> QED BY <3>3 DEF e, n, t, k, h, o, u, s, f, l
    <2> DEFINE e == x.enabled
               n == x.nicehash
               t == x.tls
               k == x.keepAlive
               h == x.host
               o == x.port
               u == x.url
               s == x.user
               f == x.fingerprint
               l == x.algorithm
               c == plain(x)
    <2>4. y = Made(e, n, t, k, h, o, u, s, f, l, none)
      BY <2>3
    <2>5. Compared(x) = [y EXCEPT !.algorithm = c]
      BY <2>1, <2>2
    <2> HIDE DEF e, n, t, k, h, o, u, s, f, l, c, y, none
    <2>6. Compared(x) = Made(e, n, t, k, h, o, u, s, f, c, none)
      BY <2>4, <2>5 DEF Made
    <2> QED BY <2>6 DEF e, n, t, k, h, o, u, s, f, c, none
  <1>2. plain(p) = plain(q)
    BY DEF Alike, SameAlgorithm
  <1>3. /\ p.enabled = q.enabled /\ p.nicehash = q.nicehash /\ p.tls = q.tls /\ p.keepAlive = q.keepAlive
        /\ p.host = q.host /\ p.port = q.port /\ p.url = q.url /\ p.user = q.user /\ p.fingerprint = q.fingerprint
    BY DEF Alike, SameUser, SameChannel, SameAddress
  <1> HIDE DEF plain
  <1> QED BY <1>1, <1>2, <1>3 DEF isEqual

(* The algorithm is no part of the connection,                              *)
LEMMA AlgorithmReplaced ==
    ASSUME NEW p \in AnyPool, NEW a
    PROVE  LET q == [p EXCEPT !.algorithm = a] IN SameUser(p, q) /\ SameChannel(p, q) /\ q.algorithm = a
  BY DEF AnyPool, SameUser, SameChannel, SameAddress

(* and the list of algorithms is not compared.                              *)
LEMMA ListReplaced ==
    ASSUME NEW p \in AnyPool, NEW ks
    PROVE  LET q == [p EXCEPT !.algorithms = ks] IN Alike(p, q)
  BY DEF AnyPool, Alike, SameAlgorithm, SameUser, SameChannel, SameAddress

(* What the adjustment leaves of a pool.                                    *)
Yes == TRUE
Secure(p) == p.port > 33000
Kept(p, z) ==
    /\ SameUser(p, z)
    /\ p.host \in NiceHash => z.keepAlive = 0 /\ z.nicehash = Yes /\ z.tls = Secure(p)
    /\ p.host \notin NiceHash => z.nicehash = p.nicehash /\ z.tls = p.tls
    /\ p.host \notin NiceHash /\ p.host \in MinerGate => z.keepAlive = 0
    /\ p.host \notin NiceHash /\ p.host \notin MinerGate => z.keepAlive = p.keepAlive

(* The adjustment of the variant changes no more than these, by the host    *)
(* and the port.                                                            *)
LEMMA VariantKeeps ==
    ASSUME NEW p \in AnyPool, NEW hint
    PROVE  Kept(p, adjustVariant(p, hint))
  <1> DEFINE z == adjustVariant(p, hint)
  <1>1. CASE p.host \in NiceHash
    <2> DEFINE is == NiceHashVariant(p)
               valid == p.algorithm.algo = is.algo /\ p.host = is.host
               a == Adjusted(p.algorithm, is.variant, valid)
               t == Secure(p)
               yes == Yes
    <2>1. z = NiceHashPool(p)
      BY <1>1 DEF adjustVariant, NiceHash, MinerGate
    <2>2. NiceHashPool(p) = [p EXCEPT !.keepAlive = 0, !.nicehash = yes, !.tls = t, !.algorithm = a]
      BY DEF NiceHashPool, Secure, Yes
    <2> HIDE DEF z, a, t, yes
    <2>3. z = [p EXCEPT !.keepAlive = 0, !.nicehash = yes, !.tls = t, !.algorithm = a]
      BY <2>1, <2>2
    <2>4. SameUser(p, z) /\ z.keepAlive = 0 /\ z.nicehash = yes /\ z.tls = t
      BY <2>3 DEF AnyPool, SameUser, SameAddress
    <2>5. Kept(p, z)
      BY <1>1, <2>4 DEF Kept, t, yes
    <2> QED BY <2>5 DEF z
  <1>2. CASE p.host \notin NiceHash /\ p.host \in MinerGate
    <2> DEFINE a == MinerGateAlgorithm(p)
    <2>1. z = [p EXCEPT !.keepAlive = 0, !.algorithm = a]
      BY <1>2 DEF adjustVariant, MinerGatePool
    <2> HIDE DEF z, a
    <2>2. SameUser(p, z) /\ z.keepAlive = 0 /\ z.nicehash = p.nicehash /\ z.tls = p.tls
      BY <2>1 DEF AnyPool, SameUser, SameAddress
    <2>3. Kept(p, z)
      BY <1>2, <2>2 DEF Kept
    <2> QED BY <2>3 DEF z
  <1>3. CASE p.host \notin NiceHash /\ p.host \notin MinerGate
    <2> DEFINE a == IF hint # AutoVariant THEN SetVariant(p.algorithm, hint) ELSE DefaultVariant(p.algorithm)
    <2>1. z = [p EXCEPT !.algorithm = a]
      BY <1>3 DEF adjustVariant
    <2> HIDE DEF z, a
    <2>2. SameUser(p, z) /\ z.keepAlive = p.keepAlive /\ z.nicehash = p.nicehash /\ z.tls = p.tls
      BY <2>1 DEF AnyPool, SameUser, SameAddress
    <2>3. Kept(p, z)
      BY <1>3, <2>2 DEF Kept
    <2> QED BY <2>3 DEF z
  <1> QED BY <1>1, <1>2, <1>3

(* Two pools of which one follows the other are adjusted to one             *)
(* algorithm.                                                               *)
LEMMA AdjustSame ==
    ASSUME NEW x, NEW y, NEW hint \in Variant \cup {AutoVariant}, Follows(x, y, adjustVariant(x, hint))
    PROVE  SameAlgorithm(adjustVariant(x, hint), adjustVariant(y, hint))
  <1> DEFINE z == adjustVariant(x, hint)
             w == adjustVariant(y, hint)
  <1>1. x.host = y.host
    BY DEF Follows, SameAddress
  <1>2. CASE x.host \in NiceHash
    <2>1. z = NiceHashPool(x) /\ w = NiceHashPool(y)
      <3>1. \A p : p.host \in NiceHash => adjustVariant(p, hint) = NiceHashPool(p)
        BY DEF adjustVariant, NiceHash, MinerGate
      <3> QED BY <1>1, <1>2, <3>1
    <2> QED BY <2>1, NiceHashAgain DEF SameAlgorithm
  <1>3. CASE x.host \notin NiceHash /\ x.host \in MinerGate
    <2>1. z = MinerGatePool(x) /\ w = MinerGatePool(y)
      BY <1>1, <1>3 DEF adjustVariant
    <2> QED BY <2>1, MinerGateAgain DEF SameAlgorithm
  <1>4. CASE x.host \notin NiceHash /\ x.host \notin MinerGate
    <2>1. z = Hinted(x, hint) /\ w = Hinted(y, hint)
      BY <1>1, <1>4 DEF adjustVariant, Hinted
    <2> HIDE DEF z, w
    <2>2. Follows(x, y, z)
      BY DEF z
    <2>3. w.algorithm.algo = z.algorithm.algo /\ w.algorithm.variant = z.algorithm.variant
      BY <2>1, <2>2, DefaultAgain
    <2>4. SameAlgorithm(z, w)
      BY <2>3 DEF SameAlgorithm
    <2> QED BY <2>4 DEF z, w
  <1> QED BY <1>2, <1>3, <1>4

(* A raw pool that is adjusted, written, read again and adjusted again,     *)
(* by the same algorithm, is equal to what was written: neither the         *)
(* port's nor the host's rules apply differently the second time.           *)
LEMMA SavedPoolSame ==
    ASSUME NEW p \in AnyPool, RawPool(p), isValidPool(p),
           NEW a \in KnownAlgorithms, NEW b \in KnownAlgorithms, Plain(a) = Plain(b)
    PROVE  LET q == PoolOf(PoolJSON(adjust(p, a)))
           IN  /\ q \in AnyPool /\ isValidPool(q) /\ Alike(adjust(p, a), adjust(q, b))
               /\ adjust(q, b) \in AnyPool
  <1> DEFINE algo == a.algo
             hint == a.variant
             n == SetAlgo(p.algorithm, algo)
             x == [p EXCEPT !.algorithm = n]
             z == adjustVariant(x, hint)
             s == adjust(p, a)
             read == [algo |-> Invalid, variant |-> z.algorithm.variant, forced |-> FALSE]
             q == PoolOf(PoolJSON(s))
             m == SetAlgo(q.algorithm, algo)
             y == [q EXCEPT !.algorithm = m]
             w == adjustVariant(y, hint)
             r == adjust(q, b)
  <1>1. algo \in Algo \cup {Invalid} /\ hint \in Variant \cup {AutoVariant} /\ b.algo = algo /\ b.variant = hint
    BY DEF KnownAlgorithms, Plain
  <1>2. Unnamed(p) /\ Addressable(p) /\ p.algorithm \in KnownAlgorithms
    BY DEF RawPool, AnyPool
  <1> HIDE DEF algo, hint
  <1>3. n \in KnownAlgorithms /\ n.algo = algo /\ n.variant = ToPico(algo, p.algorithm.variant)
    BY <1>1, <1>2, SetsAlgo DEF ToPico
  <1> HIDE DEF n
  <1>4. x \in AnyPool /\ SameUser(p, x) /\ SameChannel(p, x) /\ x.algorithm = n
    <2>1. x \in AnyPool
      BY <1>3 DEF AnyPool
    <2> QED BY <2>1, AlgorithmReplaced
  <1>5. s = rebuild(z)
    BY <1>2 DEF adjust, Unnamed, Valid, s, z, x, n, algo, hint
  <1> HIDE DEF x
  <1>6. z \in AnyPool
    BY <1>1, <1>4, VariantAdjusted
  <1> HIDE DEF s
  <1>7. s \in AnyPool /\ s.algorithm = z.algorithm /\ Alike(z, s)
    <2>1. s = [z EXCEPT !.algorithms = s.algorithms] /\ s \in AnyPool /\ s.algorithm = z.algorithm
      BY <1>5, <1>6, Rebuilt
    <2> DEFINE ks == s.algorithms
    <2> HIDE DEF ks
    <2>2. s = [z EXCEPT !.algorithms = ks]
      BY <2>1 DEF ks
    <2> HIDE DEF z
    <2>3. Alike(z, s)
      BY <1>6, <2>2, ListReplaced
    <2> QED BY <2>1, <2>3
  <1>8. Kept(x, z) /\ SameUser(x, z)
    <2>1. Kept(x, z)
      BY <1>4, VariantKeeps
    <2> HIDE DEF z
    <2> QED BY <2>1 DEF Kept
  <1>9. SameUser(p, s) /\ SameAddress(p, s)
    BY <1>4, <1>7, <1>8 DEF Alike, SameUser, SameAddress
  <1>10. Addressable(s)
    BY <1>2, <1>9 DEF SameAddress, Addressable
  <1>11. q = Made(s.enabled, s.nicehash, s.tls, s.keepAlive, s.host, s.port, s.url, s.user, s.fingerprint, read, {})
    BY <1>7, <1>10, ReadBack
  <1>12. read \in KnownAlgorithms
    BY <1>6 DEF AnyPool, KnownAlgorithms
  <1> HIDE DEF read, q
  <1>13. SameUser(s, q) /\ SameChannel(s, q) /\ q.algorithm = read
    BY <1>11, MadeIs DEF SameUser, SameChannel, SameAddress
  <1>14. q \in AnyPool
    BY <1>7, <1>11, <1>12 DEF Made, AnyPool
  <1>15. q.algorithm \in KnownAlgorithms /\ q.algorithm.algo = Invalid /\ q.algorithm.variant = z.algorithm.variant
    BY <1>12, <1>13 DEF read
  <1>16. isValidPool(q)
    BY <1>9, <1>13 DEF SameUser, SameAddress, isValidPool
  <1>17. m \in KnownAlgorithms /\ m.algo = algo /\ m.variant = ToPico(algo, z.algorithm.variant)
    BY <1>1, <1>15, SetsAlgo DEF ToPico
  <1>18. r = rebuild(w)
    BY <1>1, <1>15, <1>16 DEF adjust, Valid, r, w, y, m
  <1> HIDE DEF m
  <1>19. y \in AnyPool /\ SameUser(q, y) /\ SameChannel(q, y) /\ y.algorithm = m
    <2>1. y \in AnyPool
      BY <1>14, <1>17 DEF AnyPool
    <2> QED BY <1>14, <2>1, AlgorithmReplaced
  <1> HIDE DEF y
  <1>20. w \in AnyPool
    BY <1>1, <1>19, VariantAdjusted
  <1>21. SameAddress(x, y) /\ x.host = y.host /\ x.port = y.port
    BY <1>4, <1>9, <1>13, <1>19 DEF SameUser, SameAddress
  <1>22. Follows(x, y, z)
    BY <1>3, <1>4, <1>6, <1>17, <1>19, <1>21 DEF Follows, ToPico
  <1>23. SameAlgorithm(z, w)
    BY <1>1, <1>22, AdjustSame
  <1>24. Kept(y, w) /\ SameUser(y, w)
    <2>1. Kept(y, w)
      BY <1>19, VariantKeeps
    <2> HIDE DEF w
    <2> QED BY <2>1 DEF Kept
  <1>25. SameUser(z, w)
    BY <1>7, <1>13, <1>19, <1>24 DEF Alike, SameUser, SameAddress
  <1>26. SameChannel(z, y)
    BY <1>7, <1>13, <1>19 DEF Alike, SameChannel
  <1>27. SameChannel(z, w)
    <2> DEFINE t == Secure(x)
               yes == Yes
    <2> HIDE DEF z, w
    <2>1. /\ x.host \in NiceHash => z.keepAlive = 0 /\ z.nicehash = yes /\ z.tls = t
          /\ x.host \notin NiceHash /\ x.host \in MinerGate => z.keepAlive = 0
      BY <1>8 DEF Kept
    <2>2. /\ y.host \in NiceHash => w.keepAlive = 0 /\ w.nicehash = yes /\ w.tls = t
          /\ y.host \notin NiceHash => w.nicehash = y.nicehash /\ w.tls = y.tls
          /\ y.host \notin NiceHash /\ y.host \in MinerGate => w.keepAlive = 0
          /\ y.host \notin NiceHash /\ y.host \notin MinerGate => w.keepAlive = y.keepAlive
      <3>1. Secure(y) = t
        BY <1>21 DEF Secure
      <3> QED BY <1>24, <3>1 DEF Kept
    <2> HIDE DEF t, yes
    <2> QED BY <1>21, <1>26, <2>1, <2>2 DEF SameChannel
  <1>28. r \in AnyPool /\ Alike(w, r)
    <2> HIDE DEF r, w
    <2>1. r = [w EXCEPT !.algorithms = r.algorithms] /\ r \in AnyPool
      BY <1>18, <1>20, Rebuilt
    <2> DEFINE ks == r.algorithms
    <2> HIDE DEF ks
    <2>2. r = [w EXCEPT !.algorithms = ks]
      BY <2>1 DEF ks
    <2> QED BY <1>20, <2>1, <2>2, ListReplaced
  <1>29. Alike(s, r)
    BY <1>7, <1>23, <1>25, <1>27, <1>28 DEF Alike, SameUser, SameChannel, SameAlgorithm, SameAddress
  <1> QED BY <1>14, <1>16, <1>28, <1>29 DEF s, r, q

-----------------------------------------------------------------------------
(* The algorithm of a job is one of those known.                            *)
LEMMA JobIn ==
    ASSUME NEW p \in AnyPool, NEW params \in Params
    PROVE  JobAlgorithm(p, params) \in KnownAlgorithms
  <1> DEFINE blob == BlobSet(p.algorithm, params.version)
             named == IF params.algo = Null THEN blob ELSE setAlgorithm(blob, params.algo, params.version)
  <1>1. p.algorithm \in KnownAlgorithms /\ params.algo \in JsonValues /\ params.variant \in JsonValues
    BY SettingsAssumption DEF AnyPool
  <1>2. \A a \in KnownAlgorithms : \A version : VariantOf(a, version) \in Variant \cup {AutoVariant}
    <2> SUFFICES ASSUME NEW a \in KnownAlgorithms, NEW version
                 PROVE  VariantOf(a, version) \in Variant \cup {AutoVariant}
      OBVIOUS
    <2>1. VariantOf(a, version) \in {"4", "2", "1", "0", a.variant}
      BY DEF VariantOf
    <2> QED BY <2>1, VariantIs DEF KnownAlgorithms
  <1>3. ASSUME NEW a \in KnownAlgorithms, NEW version
        PROVE  SetVariant(a, VariantOf(a, version)) \in KnownAlgorithms /\ Replaced(a, version) \in KnownAlgorithms
    <2>1. \A v \in Variant : SetVariant(a, v) \in KnownAlgorithms
      BY SetsVariant
    <2>2. "HALF" \in Variant /\ "2" \in Variant
      BY VariantIs
    <2>3. Replaced(a, version) \in {SetVariant(a, "HALF"), SetVariant(a, "2"), a}
      BY DEF Replaced
    <2> QED BY <1>2, <2>1, <2>2, <2>3, SetsVariant
  <1>4. blob \in KnownAlgorithms
    BY <1>1, <1>3 DEF BlobSet
  <1> HIDE DEF blob
  <1>5. named \in KnownAlgorithms
    <2> DEFINE a == AlgorithmParsed(blob, params.algo)
    <2>1. a \in KnownAlgorithms
      BY <1>1, <1>4, AlgorithmsParsed
    <2>2. setAlgorithm(blob, params.algo, params.version) \in {a, SetVariant(a, VariantOf(a, params.version))}
      BY DEF setAlgorithm
    <2> HIDE DEF a
    <2> QED BY <1>3, <1>4, <2>1, <2>2
  <1>6. JobAlgorithm(p, params) = VariantParsed(named, params.variant)
    BY DEF JobAlgorithm, blob
  <1> HIDE DEF named
  <1> QED BY <1>1, <1>5, <1>6, VariantsParsed

(* A job that a pool of an algorithm may give is of that, and can be hashed. *)
LEMMA JobHashed ==
    ASSUME NEW p \in AnyPool, NEW algo, FitsPool(p, algo), NEW params \in Params,
           parseJob(p, params).accepted
    PROVE  LET a == parseJob(p, params).algorithm
           IN  a \in KnownAlgorithms /\ HasHash(Plain(a)) /\ a.algo = algo
  <1> DEFINE a == parseJob(p, params).algorithm
  <1>1. a = JobAlgorithm(p, params) /\ isCompatible(p, a)
    BY DEF parseJob
  <1>2. a \in KnownAlgorithms
    BY <1>1, JobIn
  <1> HIDE DEF a
  <1>3. Plain(a) \in p.algorithms
    BY <1>1 DEF isCompatible, FitsPool
  <1>4. HasHash(Plain(a)) /\ Plain(a).algo = algo
    BY <1>3 DEF FitsPool
  <1> QED BY <1>2, <1>4 DEF Plain, a

(* A job that can be hashed satisfies all that its threads take for granted. *)
LEMMA HashedRuns ==
    ASSUME NEW a \in KnownAlgorithms, HasHash(Plain(a)), a.variant # AutoVariant
    PROVE  LET k == [algo |-> a.algo, variant |-> a.variant]
           IN  /\ cn_select_mask(a.algo) < cn_select_memory(a.algo)
               /\ Hashable(k) /\ k.variant \in SelfTested(k.algo) /\ Dispatch(k) = k.variant
               /\ \A av \in 1..2 : FunctionIndex(k, av) \in 0..(2 * Len(VariantNames) * Len(AlgoNames) - 1)
               /\ a.variant \in PatchedVariants =>
                    Patched(a.variant) = [iter |-> TemplateIter(Plain(a)), mask |-> cn_select_mask(a.algo)]
  <1> DEFINE k == Plain(a)
  <1>1. k.algo = a.algo /\ k.variant = a.variant /\ k = [algo |-> a.algo, variant |-> a.variant]
    BY DEF Plain
  <1>2. k \in Kinds /\ k \in Kind
    BY <1>1, KindsKnown DEF Kinds, Kind
  <1>3. HasHash(k)
    OBVIOUS
  <1> HIDE DEF k
  <1>4. cn_select_mask(k.algo) < cn_select_memory(k.algo) /\ Hashable(k) /\ k.variant \in SelfTested(k.algo) /\ Dispatch(k) = k.variant
    BY <1>1, <1>2, <1>3, HashedKind
  <1>5. \A av \in 1..2 : FunctionIndex(k, av) \in 0..(2 * Len(VariantNames) * Len(AlgoNames) - 1)
    BY <1>2, FunctionPlace
  <1>6. k.variant \in PatchedVariants => Patched(k.variant) = [iter |-> TemplateIter(k), mask |-> cn_select_mask(k.algo)]
    BY <1>2, <1>3, PatchFits
  <1>7. Plain(a) = k
    BY DEF k
  <1> QED BY <1>1, <1>4, <1>5, <1>6, <1>7

(* A pool of which the algorithm is set to that of a job fits it.           *)
LEMMA FixedFits ==
    ASSUME NEW p \in AnyPool, NEW a \in KnownAlgorithms, HasHash(Plain(a))
    PROVE  setPoolAlgo(p, a) \in AnyPool /\ FitsPool(setPoolAlgo(p, a), a.algo)
  <1> DEFINE q == [p EXCEPT !.algorithm = a]
  <1>1. q \in AnyPool /\ q.algorithm = a
    BY DEF AnyPool
  <1>2. setPoolAlgo(p, a) = rebuild(q)
    BY DEF setPoolAlgo
  <1> HIDE DEF q
  <1> QED BY <1>1, <1>2, Rebuilt, ValidIs

(* So is that of a donation.                                                *)
LEMMA DonationFits ==
    ASSUME NEW algo \in Algo
    PROVE  LET p == adjust([NewPool EXCEPT !.host = DonateHost], [algo |-> algo, variant |-> AutoVariant])
           IN  p \in AnyPool /\ FitsPool(p, algo)
  <1> DEFINE q == [NewPool EXCEPT !.host = DonateHost]
             n == SetAlgo(q.algorithm, algo)
             x == [q EXCEPT !.algorithm = n]
             d == DefaultVariant(n)
             z == adjustVariant(x, AutoVariant)
             p == adjust(q, [algo |-> algo, variant |-> AutoVariant])
  <1>1. q \in AnyPool /\ q.algorithm = InvalidAlgorithm /\ q.host = DonateHost /\ q.port = 3333
    <2>1. DonateHost \in Names
      BY SettingsAssumption
    <2>2. NewPool.algorithm = InvalidAlgorithm /\ NewPool.port = 3333 /\ NewPool \in AnyPool
      BY NewIn DEF NewPool, kDefaultPort
    <2> DEFINE h == DonateHost
    <2> HIDE DEF h
    <2>3. q = [NewPool EXCEPT !.host = h] /\ h \in Names
      BY <2>1 DEF h
    <2> HIDE DEF q
    <2>4. q \in AnyPool /\ q.algorithm = NewPool.algorithm /\ q.host = h /\ q.port = NewPool.port
      BY <2>2, <2>3 DEF AnyPool
    <2> QED BY <2>2, <2>4 DEF h
  <1> HIDE DEF q
  <1>2. n \in KnownAlgorithms /\ n.algo = algo /\ n.variant = IF algo = "PICO" THEN "TRTL" ELSE AutoVariant
    <2>1. InvalidAlgorithm \in KnownAlgorithms /\ InvalidAlgorithm.variant = AutoVariant
      BY NewIn DEF InvalidAlgorithm
    <2> QED BY <1>1, <2>1, SetsAlgo
  <1> HIDE DEF n
  <1>3. x \in AnyPool /\ x.algorithm = n /\ x.host = DonateHost
    BY <1>1, <1>2 DEF AnyPool
  <1>4. p = rebuild(z)
    <2>1. isValidPool(q) /\ ~Valid(q.algorithm)
      BY <1>1 DEF isValidPool, NoHost, DonateHost, InvalidAlgorithm, Valid
    <2> QED BY <2>1 DEF adjust, x, n
  <1> HIDE DEF x
  <1>5. z = [x EXCEPT !.algorithm = d]
    BY <1>3 DEF adjustVariant, NiceHash, MinerGate, DonateHost
  <1>6. d \in KnownAlgorithms /\ d.algo = algo /\ HasHash(Plain(d))
    <2>1. d \in KnownAlgorithms /\ d.algo = algo
          /\ d.variant = IF n.variant # AutoVariant THEN n.variant
                         ELSE IF n.algo = "HEAVY" THEN "0" ELSE IF n.algo = "LITE" THEN "1" ELSE AutoVariant
      BY <1>2, DefaultIn
    <2> HIDE DEF d
    <2>2. algo \in {"CN", "LITE", "HEAVY", "PICO"}
      BY AlgoIs
    <2> QED BY <1>2, <2>1, <2>2 DEF HasHash, SelfTested, Plain, AutoVariant
  <1> HIDE DEF d, z, p
  <1>7. z \in AnyPool /\ z.algorithm = d
    BY <1>3, <1>5, <1>6 DEF AnyPool
  <1>8. p \in AnyPool /\ FitsPool(p, algo)
    BY <1>4, <1>6, <1>7, Rebuilt, ValidIs
  <1> QED BY <1>8 DEF p, q

-----------------------------------------------------------------------------
(* The list of pools, and the ranges of its counts; one that is raw, of     *)
(* which a pool that is not valid is the only one; and the lists that files *)
(* give.                                                                    *)
RetryCounts == 1..1000
RetryPauses == 1..3600
PoolLists == [data : Seq(AnyPool), retries : RetryCounts, retryPause : RetryPauses]
Raw(pools) ==
    /\ \A i \in DOMAIN pools.data : RawPool(pools.data[i])
    /\ (\A i \in DOMAIN pools.data : isValidPool(pools.data[i])) \/ Len(pools.data) = 1
RawLists == {s \in Seq(AnyPool) : \A i \in DOMAIN s : RawPool(s[i]) /\ isValidPool(s[i])}

(* One pool of a file after the other.                                       *)
LEMMA LoadPoolsFold ==
    ASSUME NEW V, NEW O, <<>> \in V, \A v \in V, o \in O : loadPool(v, o) \in V, NEW objects \in Seq(O)
    PROVE  \E F : /\ F[0] = <<>> /\ \A k \in 0..Len(objects) : F[k] \in V
                  /\ \A k \in 1..Len(objects) : F[k] = loadPool(F[k - 1], objects[k])
                  /\ F[Len(objects)] = FoldLeft(loadPool, <<>>, objects)
  <1> DEFINE n == Len(objects)
             G == [i \in 1..n |-> [v \in V |-> loadPool(v, objects[i])]]
             Equation(f) ==
                 f = [T \in SUBSET DOMAIN objects |-> IF T = {} THEN <<>> ELSE loadPool(f[T \ {Max(T)}], objects[Max(T)])]
             iter == CHOOSE f : Equation(f)
  <1>1. n \in Nat /\ DOMAIN objects = 1..n /\ \A i \in 1..n : objects[i] \in O
    BY LenProperties, ElementOfSeq
  <1>3. FoldLeft(loadPool, <<>>, objects) = iter[DOMAIN objects]
    BY DEF FoldLeft, MapThenFoldSet
  <1>4. \E f : Equation(f)
    <2>1. <<>> \in V /\ G \in [1..n -> [V -> V]]
      BY <1>1
    <2>2. PICK f : Folds(f, n, V, <<>>, G)
      <3> HIDE DEF n, G
      <3> QED BY <1>1, <2>1, FoldExists
    <2>3. ASSUME NEW T \in SUBSET (1..n)
          PROVE  f[T] = IF T = {} THEN <<>> ELSE loadPool(f[T \ {Max(T)}], objects[Max(T)])
      <3>1. CASE T # {}
        <4>1. Max(T) \in 1..n /\ f[T \ {Max(T)}] \in V
          BY <1>1, <2>2, <3>1, MaximumOf DEF Folds
        <4> QED BY <2>2, <3>1, <4>1 DEF Folds
      <3>2. CASE T = {}
        BY <2>2, <3>2 DEF Folds
      <3> QED BY <3>1, <3>2
    <2>4. f = [T \in SUBSET (1..n) |-> IF T = {} THEN <<>> ELSE loadPool(f[T \ {Max(T)}], objects[Max(T)])]
      BY <2>2, <2>3 DEF Folds
    <2> QED BY <1>1, <2>4
  <1>5. Equation(iter)
    BY <1>4
  <1> DEFINE F == [k \in 0..n |-> iter[1..k]]
  <1> HIDE DEF iter
  <1>6. F[0] = <<>>
    BY <1>1, <1>5
  <1>7. ASSUME NEW k \in 1..n PROVE F[k] = loadPool(F[k - 1], objects[k])
    <2> DEFINE T == 1..k
    <2>0. k \in Nat \ {0}
      BY <1>1
    <2>1. Max(T) = k /\ T \ {k} = 1..(k - 1) /\ T # {}
      BY <2>0, MaxOfInterval, Zenon
    <2>2. T \in SUBSET (1..n) /\ k - 1 \in 0..n /\ k \in 0..n
      BY <1>1
    <2> HIDE DEF T
    <2>3. iter[T] = IF T = {} THEN <<>> ELSE loadPool(iter[T \ {Max(T)}], objects[Max(T)])
      BY <1>1, <1>5, <2>2
    <2> QED BY <2>1, <2>2, <2>3 DEF T
  <1>8. F[n] = FoldLeft(loadPool, <<>>, objects)
    BY <1>1, <1>3
  <1>9. \A k \in 0..n : F[k] \in V
    <2> DEFINE W == {k \in 0..n : F[k] \in V}
    <2> HIDE DEF F, n
    <2>1. 0 \in W
      BY <1>1, <1>6
    <2>2. ASSUME NEW k \in 1..n, k - 1 \in W PROVE k \in W
      BY <1>1, <1>7, <2>2
    <2> HIDE DEF W
    <2>3. \A k \in 0..n : k \in W
      BY <1>1, <2>1, <2>2, UpTo
    <2> QED BY <2>3 DEF W
  <1> QED BY <1>1, <1>6, <1>7, <1>8, <1>9

(* The pools of a file that are kept are valid, and none has an algorithm.    *)
LEMMA FilePoolsRaw ==
    ASSUME NEW objects \in Seq(PoolObjects)
    PROVE  FoldLeft(loadPool, <<>>, objects) \in RawLists
  <1>1. <<>> \in RawLists
    BY DEF RawLists
  <1>2. ASSUME NEW v \in RawLists, NEW o \in PoolObjects
        PROVE  loadPool(v, o) \in RawLists
    <2> DEFINE p == PoolOf(o)
    <2>1. p \in AnyPool /\ (isValidPool(p) => RawPool(p))
      BY ObjectsIn, ObjectsRaw
    <2>2. loadPool(v, o) = IF isValidPool(p) THEN Append(v, p) ELSE v
      BY DEF loadPool
    <2> HIDE DEF p
    <2>3. v \in Seq(AnyPool) /\ Len(v) \in Nat /\ DOMAIN v = 1..Len(v)
      BY LenProperties DEF RawLists
    <2>4. ASSUME isValidPool(p) PROVE Append(v, p) \in RawLists
      <3>1. Append(v, p) \in Seq(AnyPool) /\ DOMAIN Append(v, p) = 1..(Len(v) + 1)
        BY <2>1, <2>3
      <3>2. \A i \in 1..(Len(v) + 1) : Append(v, p)[i] = IF i <= Len(v) THEN v[i] ELSE p
        BY <2>3
      <3> DEFINE s == Append(v, p)
      <3>3. \A i \in DOMAIN v : RawPool(v[i]) /\ isValidPool(v[i])
        BY DEF RawLists
      <3>4. ASSUME NEW i \in DOMAIN s PROVE RawPool(s[i]) /\ isValidPool(s[i])
        <4>1. i \in 1..(Len(v) + 1) /\ (i <= Len(v) => i \in DOMAIN v)
          BY <2>3, <3>1
        <4>2. s[i] = IF i <= Len(v) THEN v[i] ELSE p
          BY <3>2, <4>1
        <4> HIDE DEF s
        <4>3. CASE i <= Len(v)
          BY <3>3, <4>1, <4>2, <4>3
        <4>4. CASE ~(i <= Len(v))
          BY <2>1, <2>4, <4>2, <4>4
        <4> QED BY <4>3, <4>4
      <3> HIDE DEF s
      <3>5. s \in RawLists
        BY <3>1, <3>4 DEF s, RawLists
      <3> QED BY <3>5 DEF s
    <2> QED BY <2>2, <2>4
  <1>3. PICK F : /\ \A k \in 0..Len(objects) : F[k] \in RawLists
                 /\ F[Len(objects)] = FoldLeft(loadPool, <<>>, objects)
    BY <1>1, <1>2, LoadPoolsFold
  <1>4. Len(objects) \in 0..Len(objects)
    BY LenProperties
  <1> QED BY <1>3, <1>4

(* When all are valid, all are kept, in their order.                         *)
LEMMA AllPoolsLoaded ==
    ASSUME NEW objects, NEW n \in Nat, objects = [i \in 1..n |-> objects[i]],
           \A i \in 1..n : PoolOf(objects[i]) \in AnyPool /\ isValidPool(PoolOf(objects[i]))
    PROVE  FoldLeft(loadPool, <<>>, objects) = [i \in 1..n |-> PoolOf(objects[i])]
  <1> DEFINE O == {objects[i] : i \in 1..n}
             V == Seq(AnyPool)
  <1>1. objects \in Seq(O) /\ Len(objects) = n
    <2>1. objects \in [1..n -> O]
      OBVIOUS
    <2> QED BY <2>1
  <1>2. \A o \in O : PoolOf(o) \in AnyPool /\ isValidPool(PoolOf(o))
    OBVIOUS
  <1> HIDE DEF O
  <1>3. <<>> \in V /\ \A v \in V, o \in O : loadPool(v, o) \in V
    BY <1>2 DEF loadPool
  <1>4. PICK F : /\ F[0] = <<>> /\ \A k \in 0..n : F[k] \in V
                 /\ \A k \in 1..n : F[k] = loadPool(F[k - 1], objects[k])
                 /\ F[n] = FoldLeft(loadPool, <<>>, objects)
    <2> HIDE DEF V
    <2>1. \E F : /\ F[0] = <<>> /\ \A k \in 0..Len(objects) : F[k] \in V
                 /\ \A k \in 1..Len(objects) : F[k] = loadPool(F[k - 1], objects[k])
                 /\ F[Len(objects)] = FoldLeft(loadPool, <<>>, objects)
      BY <1>1, <1>3, LoadPoolsFold
    <2> QED BY <1>1, <2>1
  <1> DEFINE P(i) == PoolOf(objects[i])
             W == {k \in 0..n : Len(F[k]) = k /\ \A i \in 1..k : F[k][i] = P(i)}
  <1>5. \A i \in 1..n : P(i) \in AnyPool /\ isValidPool(P(i))
    OBVIOUS
  <1>6. \A k \in 1..n : F[k] = Append(F[k - 1], P(k))
    <2> SUFFICES ASSUME NEW k \in 1..n PROVE F[k] = Append(F[k - 1], P(k))
      OBVIOUS
    <2> QED BY <1>4, <1>5 DEF loadPool
  <1> HIDE DEF P
  <1>7. 0 \in W
    BY <1>4
  <1>8. ASSUME NEW k \in 1..n, k - 1 \in W PROVE k \in W
    <2>1. F[k - 1] \in V /\ Len(F[k - 1]) = k - 1 /\ \A i \in 1..(k - 1) : F[k - 1][i] = P(i)
      BY <1>4, <1>8
    <2>2. Len(F[k]) = k
      BY <1>5, <1>6, <2>1
    <2>3. ASSUME NEW i \in 1..k PROVE F[k][i] = P(i)
      <3> DEFINE s == F[k - 1]
                 q == P(k)
      <3>1. F[k] = Append(s, q) /\ s \in Seq(AnyPool) /\ Len(s) = k - 1 /\ q \in AnyPool
        BY <1>5, <1>6, <2>1
      <3>2. i <= k - 1 => s[i] = P(i)
        BY <2>1
      <3>3. i > k - 1 => q = P(i)
        <4>1. i > k - 1 => i = k
          OBVIOUS
        <4> QED BY <4>1
      <3> HIDE DEF s, q
      <3>4. Append(s, q)[i] = IF i <= k - 1 THEN s[i] ELSE q
        BY <3>1
      <3> QED BY <3>1, <3>2, <3>3, <3>4
    <2> QED BY <2>2, <2>3
  <1> HIDE DEF W
  <1>9. n \in W
    BY <1>7, <1>8, UpTo
  <1>10. F[n] \in V /\ Len(F[n]) = n /\ \A i \in 1..n : F[n][i] = P(i)
    BY <1>4, <1>9 DEF W
  <1>11. F[n] = [i \in 1..n |-> P(i)]
    <2> DEFINE s == F[n]
    <2>1. s \in V /\ Len(s) = n /\ \A i \in 1..n : s[i] = P(i)
      BY <1>10
    <2> HIDE DEF s
    <2>2. s = [i \in 1..Len(s) |-> s[i]]
      BY <2>1
    <2> QED BY <2>1, <2>2 DEF s
  <1> QED BY <1>4, <1>11 DEF P

(* A list with other pools is a list.                                       *)
LEMMA DataReplaced ==
    ASSUME NEW pools \in PoolLists, NEW t \in Seq(AnyPool)
    PROVE  [pools EXCEPT !.data = t] \in PoolLists /\ [pools EXCEPT !.data = t].data = t
  <1> DEFINE S == Seq(AnyPool)
  <1>1. pools \in [data : S, retries : RetryCounts, retryPause : RetryPauses] /\ t \in S
    BY DEF PoolLists
  <1> HIDE DEF S
  <1> DEFINE R == RetryCounts
             U == RetryPauses
  <1>2. pools \in [data : S, retries : R, retryPause : U]
    BY <1>1
  <1> HIDE DEF R, U
  <1>3. /\ [pools EXCEPT !.data = t] \in [data : S, retries : R, retryPause : U]
        /\ [pools EXCEPT !.data = t].data = t
    BY <1>1, <1>2
  <1>4. PoolLists = [data : S, retries : R, retryPause : U]
    BY DEF S, R, U, PoolLists
  <1> QED BY <1>3, <1>4, Zenon

(* The pool that options are for is a pool, and raw when the list is.       *)
LEMMA CurrentIn ==
    ASSUME NEW pools \in PoolLists
    PROVE  current(pools) \in AnyPool /\ (Raw(pools) => RawPool(current(pools)))
  <1> DEFINE s == pools.data
             n == Len(s)
  <1>1. s \in Seq(AnyPool) /\ n \in Nat /\ DOMAIN s = 1..n /\ (s = <<>> <=> n = 0)
    BY DEF PoolLists
  <1>2. CASE n = 0
    <2>1. current(pools) = NewPool
      BY <1>1, <1>2 DEF current
    <2> QED BY <2>1, NewIn, NewRaw
  <1>3. CASE n # 0
    <2>1. current(pools) = s[n] /\ n \in DOMAIN s
      BY <1>1, <1>3 DEF current, Last
    <2> HIDE DEF s
    <2>2. s[n] \in AnyPool
      BY <1>1, <2>1
    <2> QED BY <2>1, <2>2 DEF Raw, s
  <1> QED BY <1>2, <1>3

(* The list with that pool replaced.                                        *)
LEMMA CurrentSet ==
    ASSUME NEW pools \in PoolLists, NEW p \in AnyPool
    PROVE  /\ SetCurrent(pools, p) \in PoolLists
           /\ Raw(pools) /\ RawPool(p) /\ (isValidPool(current(pools)) => isValidPool(p)) => Raw(SetCurrent(pools, p))
           /\ SetCurrent(pools, p).data # <<>> /\ Last(SetCurrent(pools, p).data) = p
  <1> DEFINE s == pools.data
             n == Len(s)
             t == IF s = <<>> THEN <<p>> ELSE Append(Front(s), p)
             m == IF n = 0 THEN 1 ELSE n
             q == SetCurrent(pools, p)
  <1>1. s \in Seq(AnyPool) /\ n \in Nat /\ DOMAIN s = 1..n /\ (s = <<>> <=> n = 0)
    BY DEF PoolLists
  <1>2. q = [pools EXCEPT !.data = t]
    BY DEF SetCurrent
  <1> HIDE DEF s, q
  <1>3. t \in Seq(AnyPool) /\ Len(t) = m /\ t[m] = p /\ \A i \in 1..(m - 1) : t[i] = s[i]
    <2>1. CASE n = 0
      <3>1. t = <<p>>
        BY <1>1, <2>1
      <3> HIDE DEF t
      <3> QED BY <2>1, <3>1
    <2>2. CASE n # 0
      <3> DEFINE f == Front(s)
      <3>1. t = Append(f, p)
        BY <1>1, <2>2
      <3>2. f = SubSeq(s, 1, n - 1)
        BY DEF Front
      <3>3. f \in Seq(AnyPool) /\ Len(f) = n - 1 /\ \A i \in 1..(n - 1) : f[i] = s[i]
        BY <1>1, <2>2, <3>2
      <3> HIDE DEF f, t, n
      <3> QED BY <1>1, <2>2, <3>1, <3>3
    <2> QED BY <2>1, <2>2
  <1> HIDE DEF t
  <1>4. q \in PoolLists /\ q.data = t
    BY <1>2, <1>3, DataReplaced
  <1>5. m \in Nat /\ m # 0 /\ DOMAIN t = 1..m
    <2>1. DOMAIN t = 1..Len(t)
      <3>1. t \in Seq(AnyPool)
        BY <1>3
      <3> QED BY ONLY <3>1
    <2> HIDE DEF n
    <2> QED BY <1>1, <1>3, <2>1
  <1>6. t # <<>> /\ Last(t) = p
    <2>1. Last(t) = t[Len(t)]
      BY DEF Last
    <2> QED BY <1>3, <1>5, <2>1
  <1>7. ASSUME Raw(pools), RawPool(p), isValidPool(current(pools)) => isValidPool(p)
        PROVE  Raw(q)
    <2>1. \A i \in 1..n : RawPool(s[i])
      BY <1>1, <1>7 DEF Raw, s
    <2>2. ASSUME NEW i \in 1..m PROVE RawPool(t[i])
      <3>1. CASE i = m
        BY <1>3, <1>7, <3>1
      <3>2. CASE i # m
        <4>1. i \in 1..(m - 1) /\ i \in 1..n
          <5> HIDE DEF n
          <5> QED BY <1>1, <3>2
        <4> QED BY <1>3, <2>1, <4>1
      <3> QED BY <3>1, <3>2
    <2>3. CASE m = 1
      BY <1>3, <1>4, <1>5, <2>2, <2>3 DEF Raw
    <2>4. CASE m # 1
      <3>1. n # 0 /\ n # 1 /\ m = n
        BY <1>1, <2>4
      <3>2. \A i \in 1..n : isValidPool(s[i])
        BY <1>1, <1>7, <3>1 DEF Raw, s
      <3>3. current(pools) = s[n] /\ n \in 1..n
        BY <1>1, <3>1 DEF current, Last, s
      <3>4. isValidPool(p)
        BY <1>7, <3>2, <3>3
      <3>5. ASSUME NEW i \in 1..m PROVE isValidPool(t[i])
        <4>1. CASE i = m
          BY <1>3, <3>4, <4>1
        <4>2. CASE i # m
          <5>1. i \in 1..(m - 1) /\ i \in 1..n
            <6> HIDE DEF n
            <6> QED BY <1>1, <3>1, <4>2
          <5> QED BY <1>3, <3>2, <5>1
        <4> QED BY <4>1, <4>2
      <3> QED BY <1>4, <1>5, <2>2, <3>5 DEF Raw
    <2> QED BY <2>3, <2>4
  <1> QED BY <1>4, <1>6, <1>7 DEF q

(* An address begins a pool, or completes the one that has none.            *)
LEMMA UrlSet ==
    ASSUME NEW pools \in PoolLists, NEW url \in Urls
    PROVE  /\ setUrl(pools, url).pools \in PoolLists
           /\ Raw(pools) /\ setUrl(pools, url).ok => Raw(setUrl(pools, url).pools)
  <1> DEFINE s == pools.data
             n == Len(s)
             r == setUrl(pools, url)
  <1>1. s \in Seq(AnyPool) /\ n \in Nat /\ DOMAIN s = 1..n /\ (s = <<>> <=> n = 0)
    BY DEF PoolLists
  <1>2. n # 0 => current(pools) = s[n] /\ Last(s) = s[n] /\ n \in 1..n
    BY <1>1 DEF current, Last
  <1>3. CASE s = <<>> \/ isValidPool(Last(s))
    <2> DEFINE p == parse(NewPool, url).pool
               t == Append(s, p)
               q == [pools EXCEPT !.data = t]
    <2>1. p \in AnyPool /\ p.algorithm = NewPool.algorithm
      BY NewIn, AddressParsed
    <2>2. r = [pools |-> IF isValidPool(p) THEN q ELSE pools, ok |-> isValidPool(p)]
      BY <1>3 DEF setUrl
    <2>3. isValidPool(p) => RawPool(p)
      <3>1. ~WellFormed(url) => Blank(p)
        BY NewIn, NewRaw, AddressTaken
      <3>2. WellFormed(url) => Addressable(p)
        BY NewIn, NewRaw, AddressTaken
      <3>3. Unnamed(p)
        BY <2>1, NewIn DEF Unnamed
      <3> HIDE DEF p
      <3> QED BY <3>1, <3>2, <3>3, BlankIs DEF RawPool
    <2> HIDE DEF p, r
    <2>4. t \in Seq(AnyPool) /\ Len(t) = n + 1 /\ DOMAIN t = 1..(n + 1) /\ \A i \in 1..(n + 1) : t[i] = IF i <= n THEN s[i] ELSE p
      <3> HIDE DEF s
      <3>1. s \in Seq(AnyPool) /\ Len(s) = n
        BY <1>1
      <3> HIDE DEF n
      <3> QED BY <1>1, <2>1, <3>1
    <2> HIDE DEF t
    <2>5. q \in PoolLists /\ q.data = t
      BY <2>4, DataReplaced
    <2> HIDE DEF q
    <2>6. ASSUME Raw(pools), isValidPool(p) PROVE Raw(q)
      <3>1. \A i \in 1..n : RawPool(s[i]) /\ isValidPool(s[i])
        <4>1. \A i \in 1..n : RawPool(s[i])
          BY <1>1, <2>6 DEF Raw
        <4>2. CASE n = 0
          BY <4>2
        <4>3. CASE n = 1
          BY <1>1, <1>2, <1>3, <4>1, <4>3
        <4>4. CASE n # 0 /\ n # 1
          BY <1>1, <2>6, <4>1, <4>4 DEF Raw
        <4> QED BY <4>2, <4>3, <4>4
      <3>2. ASSUME NEW i \in 1..(n + 1) PROVE RawPool(t[i]) /\ isValidPool(t[i])
        <4>1. CASE i <= n
          BY <2>4, <3>1, <4>1
        <4>2. CASE ~(i <= n)
          BY <2>3, <2>4, <2>6, <4>2
        <4> QED BY <4>1, <4>2
      <3> QED BY <2>4, <2>5, <3>2 DEF Raw
    <2>7. r.pools \in PoolLists /\ (Raw(pools) /\ r.ok => Raw(r.pools))
      BY <2>2, <2>5, <2>6
    <2> QED BY <2>7 DEF r
  <1>4. CASE ~(s = <<>> \/ isValidPool(Last(s)))
    <2> DEFINE c == current(pools)
               p == parse(c, url).pool
               q == SetCurrent(pools, p)
    <2>1. c \in AnyPool /\ ~isValidPool(c) /\ (Raw(pools) => RawPool(c))
      BY <1>1, <1>2, <1>4, CurrentIn
    <2> HIDE DEF c
    <2>2. p \in AnyPool /\ p.algorithm = c.algorithm
      BY <2>1, AddressParsed
    <2>3. r = [pools |-> q, ok |-> isValidPool(Last(q.data))]
      BY <1>4 DEF setUrl, c
    <2>4. ASSUME Raw(pools), isValidPool(p) PROVE RawPool(p)
      <3>1. Blank(c) /\ Unnamed(c)
        BY <2>1, <2>4 DEF RawPool
      <3>2. ~WellFormed(url) => Blank(p)
        BY <2>1, <3>1, AddressTaken
      <3>3. WellFormed(url) => Addressable(p)
        BY <2>1, <3>1, AddressTaken
      <3>4. Unnamed(p)
        BY <2>2, <3>1 DEF Unnamed
      <3> HIDE DEF p
      <3> QED BY <2>4, <3>2, <3>3, <3>4, BlankIs DEF RawPool
    <2> HIDE DEF p, r
    <2>5. q \in PoolLists /\ Last(q.data) = p /\ (Raw(pools) /\ RawPool(p) => Raw(q))
      BY <2>1, <2>2, CurrentSet DEF c
    <2> HIDE DEF q
    <2>6. r.pools \in PoolLists /\ (Raw(pools) /\ r.ok => Raw(r.pools))
      BY <2>3, <2>4, <2>5
    <2> QED BY <2>6 DEF r
  <1> QED BY <1>3, <1>4

(* An option of the last pool that is not its address.                       *)
LEMMA OptionKeeps ==
    ASSUME NEW pools \in PoolLists, NEW p \in AnyPool, SameAddress(current(pools), p),
           p.algorithm.algo = current(pools).algorithm.algo
    PROVE  SetCurrent(pools, p) \in PoolLists /\ (Raw(pools) => Raw(SetCurrent(pools, p)))
  <1>1. Raw(pools) => RawPool(p) /\ (isValidPool(current(pools)) <=> isValidPool(p))
    BY CurrentIn, RawKept
  <1> QED BY <1>1, CurrentSet

(* Of the adjusted list, every enabled pool fits the algorithm.             *)
LEMMA PoolsAdjusted ==
    ASSUME NEW pools \in PoolLists, Raw(pools), NEW a \in KnownAlgorithms
    PROVE  LET q == adjustPools(pools, a)
           IN  /\ q \in PoolLists /\ q = [pools EXCEPT !.data = q.data]
               /\ DOMAIN q.data = DOMAIN pools.data /\ Len(q.data) = Len(pools.data)
               /\ \A i \in DOMAIN pools.data : q.data[i] = adjust(pools.data[i], a)
               /\ \A i \in DOMAIN pools.data : isEnabled(q.data[i]) => FitsPool(q.data[i], a.algo)
  <1> DEFINE s == pools.data
             n == Len(s)
             t == [i \in DOMAIN s |-> adjust(s[i], a)]
             q == adjustPools(pools, a)
  <1>1. s \in Seq(AnyPool) /\ n \in Nat /\ DOMAIN s = 1..n
    BY DEF PoolLists
  <1>2. \A i \in DOMAIN s : adjust(s[i], a) \in AnyPool /\ (isEnabled(adjust(s[i], a)) => FitsPool(adjust(s[i], a), a.algo))
    <2> SUFFICES ASSUME NEW i \in DOMAIN s
                 PROVE  adjust(s[i], a) \in AnyPool /\ (isEnabled(adjust(s[i], a)) => FitsPool(adjust(s[i], a), a.algo))
      OBVIOUS
    <2>1. s[i] \in AnyPool /\ Unnamed(s[i])
      BY <1>1 DEF Raw, RawPool
    <2> QED BY <2>1, AdjustFits
  <1>3. t \in Seq(AnyPool) /\ DOMAIN t = DOMAIN s /\ Len(t) = n
    <2>1. t \in [1..n -> AnyPool]
      BY <1>1, <1>2
    <2> QED BY <1>1, <2>1
  <1>4. q = [pools EXCEPT !.data = t]
    BY DEF adjustPools
  <1>5. \A i \in DOMAIN s : t[i] = adjust(s[i], a)
    OBVIOUS
  <1> HIDE DEF t, q
  <1>6. q \in PoolLists /\ q.data = t
    BY <1>3, <1>4, DataReplaced
  <1>7. q = [pools EXCEPT !.data = q.data]
    BY <1>4, <1>6
  <1> QED BY <1>2, <1>3, <1>5, <1>6, <1>7 DEF q

(* Pools::active is not 0 when some pool is enabled.                        *)
LEMMA SomeActive ==
    ASSUME NEW pools \in PoolLists
    PROVE  active(pools) # 0 <=> \E i \in DOMAIN pools.data : isEnabled(pools.data[i])
  <1> DEFINE T == {i \in DOMAIN pools.data : isEnabled(pools.data[i])}
  <1>1. DOMAIN pools.data = 1..Len(pools.data) /\ Len(pools.data) \in Nat
    BY DEF PoolLists
  <1>2. IsFiniteSet(T)
    <2> DEFINE n == Len(pools.data)
    <2>1. IsFiniteSet(1..n)
      BY <1>1, FS_Interval
    <2>2. T \subseteq 1..n
      BY <1>1
    <2> HIDE DEF T, n
    <2> QED BY <2>1, <2>2, FS_Subset
  <1>3. active(pools) = Cardinality(T)
    BY DEF active
  <1>4. Cardinality(T) = 0 <=> T = {}
    <2> HIDE DEF T
    <2> QED BY <1>2, FS_EmptySet
  <1> QED BY <1>3, <1>4

-----------------------------------------------------------------------------
(* Numbers in their ranges or as they were at first; configurations; and    *)
(* those that are ready to be used: adjusted from raw pools, one of which   *)
(* is enabled.                                                              *)
ValidNumbers ==
    {f \in [NumberKeys -> Int] : \A key \in NumberKeys : f[key] \in Allowed(key) \cup {DefaultNumbers[key]}}
Configs ==
    [algorithm : KnownAlgorithms, pools : PoolLists, numbers : ValidNumbers, state : {"none", "ready", "error"}]
Ready(c) ==
    /\ c \in Configs /\ c.state = "ready" /\ Valid(c.algorithm) /\ active(c.pools) # 0
    /\ \E raw \in PoolLists : Raw(raw) /\ c.pools = adjustPools(raw, c.algorithm)

(* A list and a configuration of their parts.                               *)
ListMade(s, n, m) == [data |-> s, retries |-> n, retryPause |-> m]
ConfigMade(a, pools, numbers, state) ==
    [algorithm |-> a, pools |-> pools, numbers |-> numbers, state |-> state]

(* Each is made of its own parts.                                           *)
LEMMA MadeOfParts ==
    ASSUME NEW c \in Configs
    PROVE  /\ c = ConfigMade(c.algorithm, c.pools, c.numbers, c.state)
           /\ c.pools = ListMade(c.pools.data, c.pools.retries, c.pools.retryPause)
  <1>1. c.pools \in PoolLists
    BY DEF Configs
  <1>2. \A q \in PoolLists : q = ListMade(q.data, q.retries, q.retryPause)
    BY DEF PoolLists, ListMade
  <1>3. c = ConfigMade(c.algorithm, c.pools, c.numbers, c.state)
    BY DEF Configs, ConfigMade
  <1> QED BY <1>1, <1>2, <1>3

(* A field that is replaced is another part.                                *)
LEMMA Replaces ==
    ASSUME NEW a, NEW q, NEW n, NEW s, NEW x
    PROVE  /\ [ConfigMade(a, q, n, s) EXCEPT !.algorithm = x] = ConfigMade(x, q, n, s)
           /\ [ConfigMade(a, q, n, s) EXCEPT !.pools = x] = ConfigMade(a, x, n, s)
           /\ [ConfigMade(a, q, n, s) EXCEPT !.numbers = x] = ConfigMade(a, q, x, s)
           /\ [ConfigMade(a, q, n, s) EXCEPT !.state = x] = ConfigMade(a, q, n, x)
           /\ [ListMade(a, q, n) EXCEPT !.data = x] = ListMade(x, q, n)
           /\ [ListMade(a, q, n) EXCEPT !.retries = x] = ListMade(a, x, n)
           /\ [ListMade(a, q, n) EXCEPT !.retryPause = x] = ListMade(a, q, x)
  BY DEF ConfigMade, ListMade

(* The parts of one that is made of parts are those.                        *)
LEMMA ConfigParts ==
    ASSUME NEW a, NEW q, NEW n, NEW s
    PROVE  LET c == ConfigMade(a, q, n, s) IN c.algorithm = a /\ c.pools = q /\ c.numbers = n /\ c.state = s
  BY DEF ConfigMade

(* It is of its type when its parts are,                                    *)
LEMMA ConfigTyped ==
    ASSUME NEW a \in KnownAlgorithms, NEW q \in PoolLists, NEW n \in ValidNumbers, NEW s \in {"none", "ready", "error"}
    PROVE  ConfigMade(a, q, n, s) \in Configs
  BY DEF ConfigMade, Configs

(* and only then.                                                           *)
LEMMA ConfigIn ==
    ASSUME NEW c \in Configs
    PROVE  c.algorithm \in KnownAlgorithms /\ c.pools \in PoolLists /\ c.numbers \in ValidNumbers /\ c.state \in {"none", "ready", "error"}
  BY DEF Configs

(* A configuration that is done is not touched again.                       *)
LEMMA FinalizedStays ==
    ASSUME NEW c
    PROVE  /\ c.state = "ready" => finalize(c) = [config |-> c, ok |-> TRUE]
           /\ c.state = "error" => finalize(c) = [config |-> c, ok |-> FALSE]
           /\ c.state = "none" /\ ~Valid(c.algorithm) => finalize(c) = [config |-> c, ok |-> FALSE]
  BY DEF finalize

(* One that was not has its pools adjusted.                                  *)
LEMMA FinalizedAdjusts ==
    ASSUME NEW a, NEW q, NEW n, Valid(a)
    PROVE  LET s == IF active(adjustPools(q, a)) = 0 THEN "error" ELSE "ready"
           IN  finalize(ConfigMade(a, q, n, "none")) =
                    [config |-> ConfigMade(a, adjustPools(q, a), n, s), ok |-> active(adjustPools(q, a)) # 0]
  <1> DEFINE c == ConfigMade(a, q, n, "none")
             d == [c EXCEPT !.pools = adjustPools(@, c.algorithm)]
             r == adjustPools(q, a)
  <1>1. c.algorithm = a /\ c.pools = q /\ c.state = "none"
    BY ConfigParts
  <1>2. d = ConfigMade(a, r, n, "none")
    <2> DEFINE x == adjustPools(c.pools, c.algorithm)
    <2>1. x = r
      BY <1>1
    <2>2. d = [c EXCEPT !.pools = x]
      OBVIOUS
    <2> HIDE DEF x, r, d
    <2> QED BY <2>1, <2>2 DEF ConfigMade
  <1>3. d.pools = r
    BY <1>2, ConfigParts
  <1>4. finalize(c) = IF active(d.pools) = 0 THEN [config |-> [d EXCEPT !.state = "error"], ok |-> FALSE]
                      ELSE [config |-> [d EXCEPT !.state = "ready"], ok |-> TRUE]
    BY <1>1 DEF finalize
  <1> HIDE DEF c, d, r
  <1>5. [d EXCEPT !.state = "error"] = ConfigMade(a, r, n, "error") /\ [d EXCEPT !.state = "ready"] = ConfigMade(a, r, n, "ready")
    BY <1>2 DEF ConfigMade
  <1>6. CASE active(r) = 0
    BY <1>3, <1>4, <1>5, <1>6 DEF c, r
  <1>7. CASE active(r) # 0
    BY <1>3, <1>4, <1>5, <1>7 DEF c, r
  <1> QED BY <1>6, <1>7

(* CommonConfig::finalize makes a raw configuration ready, or fails, and    *)
(* then every time.                                                         *)
LEMMA Finalizes ==
    ASSUME NEW c \in Configs, c.state = "none" => Raw(c.pools)
    PROVE  LET f == finalize(c)
           IN  /\ f.config \in Configs /\ f.ok \in BOOLEAN
               /\ f.ok => f.config.state = "ready" /\ finalize(f.config) = [config |-> f.config, ok |-> TRUE]
               /\ ~f.ok => ~finalize(f.config).ok
               /\ f.ok /\ c.state = "none" => Ready(f.config)
  <1> DEFINE f == finalize(c)
             a == c.algorithm
             q == c.pools
             n == c.numbers
             r == adjustPools(q, a)
  <1>1. a \in KnownAlgorithms /\ q \in PoolLists /\ n \in ValidNumbers /\ c.state \in {"none", "ready", "error"}
    BY ConfigIn
  <1>2. CASE c.state = "ready"
    <2>1. f = [config |-> c, ok |-> TRUE]
      BY <1>2, FinalizedStays
    <2> HIDE DEF f
    <2>2. f.config = c /\ f.ok = TRUE
      BY <2>1
    <2> QED BY <1>2, <2>1, <2>2 DEF f
  <1>3. CASE c.state = "error" \/ (c.state = "none" /\ ~Valid(a))
    <2>1. f = [config |-> c, ok |-> FALSE]
      BY <1>3, FinalizedStays
    <2> HIDE DEF f
    <2>2. f.config = c /\ f.ok = FALSE
      BY <2>1
    <2> QED BY <2>1, <2>2 DEF f
  <1>4. CASE c.state = "none" /\ Valid(a)
    <2> DEFINE s == IF active(r) = 0 THEN "error" ELSE "ready"
               d == ConfigMade(a, r, n, s)
    <2>1. c = ConfigMade(a, q, n, "none")
      BY <1>4, MadeOfParts
    <2>2. f = [config |-> d, ok |-> active(r) # 0]
      <3> DEFINE e == ConfigMade(a, q, n, "none")
      <3>1. finalize(e) = [config |-> d, ok |-> active(r) # 0]
        <4> HIDE DEF a, q, n
        <4> QED BY <1>4, FinalizedAdjusts
      <3>2. c = e
        BY <2>1
      <3> HIDE DEF e, d, a, r
      <3> QED BY <3>1, <3>2
    <2>3. r \in PoolLists
      BY <1>1, <1>4, PoolsAdjusted
    <2>4. s \in {"none", "ready", "error"}
      OBVIOUS
    <2>5. d.algorithm = a /\ d.pools = r /\ d.state = s /\ d \in Configs
      <3> HIDE DEF a, r, n, s
      <3> QED BY <1>1, <2>3, <2>4, ConfigParts, ConfigTyped
    <2> HIDE DEF f, r, d
    <2>6. f.config = d /\ f.ok = (active(r) # 0)
      BY <2>2
    <2>7. CASE active(r) # 0
      <3>1. f.ok = TRUE /\ d.state = "ready"
        BY <2>5, <2>6, <2>7
      <3>2. Ready(d)
        BY <1>1, <1>4, <2>5, <2>7, <3>1 DEF Ready, r
      <3>3. finalize(d) = [config |-> d, ok |-> TRUE]
        BY <3>1, FinalizedStays
      <3> QED BY <2>5, <2>6, <3>1, <3>2, <3>3 DEF f
    <2>8. CASE active(r) = 0
      <3>1. f.ok = FALSE /\ d.state = "error"
        BY <2>5, <2>6, <2>8
      <3>2. finalize(d) = [config |-> d, ok |-> FALSE]
        BY <3>1, FinalizedStays
      <3>3. ~finalize(d).ok
        BY <3>2
      <3> QED BY <2>5, <2>6, <3>1, <3>3 DEF f
    <2> QED BY <2>7, <2>8
  <1> QED BY <1>1, <1>2, <1>3, <1>4

(* The numbers of a file.                                                   *)
LEMMA Keyed ==
    /\ \A key \in NumberKeys : key \notin {"retries", "retry-pause", "keepalive"}
    /\ "retries" \in FileNumbers /\ "retry-pause" \in FileNumbers /\ NumberKeys \subseteq FileNumbers
    /\ FileNumbers = NumberKeys \cup {"retries", "retry-pause"}
  BY DEF NumberKeys, FileNumbers

(* Those of a new configuration are allowed.                                *)
LEMMA DefaultNumbersIn == DefaultNumbers \in ValidNumbers
  <1> DEFINE Default(key) ==
          CASE key = "donate-level" -> 5 [] key = "max-gpu-temp" -> 75 [] key = "gpu-temp-falloff" -> 10
            [] key = "gpu-fan-level" -> 0 [] key = "api-port" -> 0 [] key = "print-time" -> 60
  <1>2. DefaultNumbers = [key \in NumberKeys |-> Default(key)]
    BY DEF DefaultNumbers
  <1>3. \A key \in NumberKeys : Default(key) \in Int
    BY DEF NumberKeys
  <1> HIDE DEF Default
  <1>4. DefaultNumbers \in [NumberKeys -> Int]
    BY <1>2, <1>3
  <1> QED BY <1>4 DEF ValidNumbers

(* A list of its parts.                                                     *)
LEMMA ListIn ==
    ASSUME NEW t \in Seq(AnyPool), NEW i \in RetryCounts, NEW j \in RetryPauses
    PROVE  ListMade(t, i, j) \in PoolLists /\ ListMade(t, i, j).data = t
  BY DEF ListMade, PoolLists

(* A configuration with other pools,                                        *)
LEMMA PoolsReplaced ==
    ASSUME NEW c \in Configs, NEW q \in PoolLists
    PROVE  LET d == [c EXCEPT !.pools = q]
           IN  d \in Configs /\ d.pools = q /\ d.state = c.state /\ d.algorithm = c.algorithm /\ d.numbers = c.numbers
  <1> DEFINE d == [c EXCEPT !.pools = q]
  <1>1. d = ConfigMade(c.algorithm, q, c.numbers, c.state)
    <2> DEFINE a == c.algorithm
               p == c.pools
               n == c.numbers
               s == c.state
    <2>1. c = ConfigMade(a, p, n, s)
      BY MadeOfParts
    <2> HIDE DEF a, p, n, s
    <2>2. d = ConfigMade(a, q, n, s)
      BY <2>1 DEF ConfigMade
    <2> QED BY <2>2 DEF a, n, s
  <1> HIDE DEF d
  <1>2. d \in Configs
    <2> DEFINE a == c.algorithm
               n == c.numbers
               s == c.state
    <2>1. a \in KnownAlgorithms /\ n \in ValidNumbers /\ s \in {"none", "ready", "error"}
      BY ConfigIn
    <2> HIDE DEF a, n, s
    <2>2. ConfigMade(a, q, n, s) \in Configs
      BY <2>1, ConfigTyped
    <2> QED BY <1>1, <2>2 DEF a, n, s
  <1> QED BY <1>1, <1>2, ConfigParts DEF d

(* and one with another algorithm.                                          *)
LEMMA AlgorithmReplacedIn ==
    ASSUME NEW c \in Configs, NEW a \in KnownAlgorithms
    PROVE  LET d == [c EXCEPT !.algorithm = a]
           IN  d \in Configs /\ d.pools = c.pools /\ d.state = c.state
  <1> DEFINE d == [c EXCEPT !.algorithm = a]
  <1>1. d = ConfigMade(a, c.pools, c.numbers, c.state)
    <2> DEFINE b == c.algorithm
               p == c.pools
               n == c.numbers
               s == c.state
    <2>1. c = ConfigMade(b, p, n, s)
      BY MadeOfParts
    <2> HIDE DEF b, p, n, s
    <2>2. d = ConfigMade(a, p, n, s)
      BY <2>1 DEF ConfigMade
    <2> QED BY <2>2 DEF p, n, s
  <1> HIDE DEF d
  <1>2. d \in Configs
    <2> DEFINE p == c.pools
               n == c.numbers
               s == c.state
    <2>1. p \in PoolLists /\ n \in ValidNumbers /\ s \in {"none", "ready", "error"}
      BY ConfigIn
    <2> HIDE DEF p, n, s
    <2>2. ConfigMade(a, p, n, s) \in Configs
      BY <2>1, ConfigTyped
    <2> QED BY <1>1, <2>2 DEF p, n, s
  <1> QED BY <1>1, <1>2, ConfigParts DEF d

(* The retries of a list are in their range, and leave its pools.           *)
LEMMA RetriesSet ==
    ASSUME NEW q \in PoolLists, NEW n
    PROVE  /\ setRetries(q, n) \in PoolLists /\ setRetries(q, n).data = q.data
           /\ setRetries(q, n) = ListMade(q.data, IF n \in RetryCounts THEN n ELSE q.retries, q.retryPause)
           /\ setRetryPause(q, n) \in PoolLists /\ setRetryPause(q, n).data = q.data
           /\ setRetryPause(q, n) = ListMade(q.data, q.retries, IF n \in RetryPauses THEN n ELSE q.retryPause)
  <1> DEFINE s == q.data
             r == q.retries
             m == q.retryPause
             x == IF n \in RetryCounts THEN n ELSE r
             y == IF n \in RetryPauses THEN n ELSE m
  <1>1. s \in Seq(AnyPool) /\ r \in RetryCounts /\ m \in RetryPauses /\ q = ListMade(s, r, m)
    BY DEF PoolLists, ListMade
  <1> HIDE DEF s, r, m
  <1>2. setRetries(q, n) = ListMade(s, x, m)
    BY <1>1 DEF setRetries, ListMade, RetryCounts
  <1>3. setRetryPause(q, n) = ListMade(s, r, y)
    BY <1>1 DEF setRetryPause, ListMade, RetryPauses
  <1>4. x \in RetryCounts /\ y \in RetryPauses
    BY <1>1
  <1> HIDE DEF x, y
  <1>5. ListMade(s, x, m) \in PoolLists /\ ListMade(s, x, m).data = s
    BY <1>1, <1>4 DEF ListMade, PoolLists
  <1>6. ListMade(s, r, y) \in PoolLists /\ ListMade(s, r, y).data = s
    BY <1>1, <1>4 DEF ListMade, PoolLists
  <1>7. /\ setRetries(q, n) \in PoolLists /\ setRetries(q, n).data = s
        /\ setRetryPause(q, n) \in PoolLists /\ setRetryPause(q, n).data = s
    BY <1>2, <1>3, <1>5, <1>6
  <1>8. setRetries(q, n) = ListMade(s, x, m) /\ setRetryPause(q, n) = ListMade(s, r, y)
    BY <1>2, <1>3
  <1> QED BY <1>7, <1>8, Zenon DEF s, r, m, x, y

(* The keepalive of the last pool changes nothing but that.                 *)
LEMMA KeepAliveSet ==
    ASSUME NEW q \in PoolLists, NEW n \in Int
    PROVE  LET p == SetCurrent(q, setKeepAlive(current(q), n)) IN p \in PoolLists /\ (Raw(q) => Raw(p))
  <1> DEFINE c == current(q)
             p == setKeepAlive(c, n)
  <1>1. c \in AnyPool
    BY CurrentIn
  <1> HIDE DEF c
  <1>2. p \in AnyPool /\ p.algorithm = c.algorithm /\ p = [c EXCEPT !.keepAlive = IF n >= 0 THEN n ELSE 0]
    BY <1>1, KeepAlive
  <1>3. SameAddress(c, p)
    BY <1>1, <1>2 DEF AnyPool, SameAddress
  <1> HIDE DEF p
  <1>4. SetCurrent(q, p) \in PoolLists /\ (Raw(q) => Raw(SetCurrent(q, p)))
    BY <1>2, <1>3, OptionKeeps DEF c
  <1> QED BY <1>4 DEF p, c

(* parseInt leaves a configuration that is raw raw, and none out of its     *)
(* range.                                                                   *)
LEMMA IntParsed ==
    ASSUME NEW c \in Configs, NEW key \in FileNumbers \cup {"keepalive"}, NEW n \in Int
    PROVE  LET d == parseInt(c, key, n)
           IN  d \in Configs /\ d.state = c.state /\ (Raw(c.pools) => Raw(d.pools))
  <1> DEFINE d == parseInt(c, key, n)
  <1>1. c.pools \in PoolLists /\ c.numbers \in ValidNumbers
    BY ConfigIn
  <1>2. ASSUME NEW q \in PoolLists, d = [c EXCEPT !.pools = q], Raw(c.pools) => Raw(q)
        PROVE  d \in Configs /\ d.state = c.state /\ (Raw(c.pools) => Raw(d.pools))
    <2> HIDE DEF d
    <2> QED BY <1>2, PoolsReplaced
  <1>3. CASE key = "retries"
    <2> DEFINE q == setRetries(c.pools, n)
    <2>1. d = [c EXCEPT !.pools = q]
      BY <1>3 DEF parseInt, NumberKeys
    <2>2. q \in PoolLists /\ (Raw(c.pools) => Raw(q))
      <3>1. q \in PoolLists /\ q.data = c.pools.data
        BY <1>1, RetriesSet
      <3> HIDE DEF q
      <3> QED BY <3>1 DEF Raw
    <2> HIDE DEF d, q
    <2> QED BY <1>2, <2>1, <2>2 DEF d
  <1>4. CASE key = "retry-pause"
    <2> DEFINE q == setRetryPause(c.pools, n)
    <2>1. d = [c EXCEPT !.pools = q]
      BY <1>4 DEF parseInt, NumberKeys
    <2>2. q \in PoolLists /\ (Raw(c.pools) => Raw(q))
      <3>1. q \in PoolLists /\ q.data = c.pools.data
        BY <1>1, RetriesSet
      <3> HIDE DEF q
      <3> QED BY <3>1 DEF Raw
    <2> HIDE DEF d, q
    <2> QED BY <1>2, <2>1, <2>2 DEF d
  <1>5. CASE key = "keepalive"
    <2> DEFINE q == SetCurrent(c.pools, setKeepAlive(current(c.pools), n))
    <2>1. d = [c EXCEPT !.pools = q]
      BY <1>5 DEF parseInt, NumberKeys
    <2>2. q \in PoolLists /\ (Raw(c.pools) => Raw(q))
      BY <1>1, KeepAliveSet
    <2> HIDE DEF d, q
    <2> QED BY <1>2, <2>1, <2>2 DEF d
  <1>6. CASE key \in NumberKeys
    <2>1. d = IF n \in Allowed(key) THEN [c EXCEPT !.numbers[key] = n] ELSE c
      BY <1>6, Keyed DEF parseInt
    <2> DEFINE a == c.algorithm
               p == c.pools
               f == c.numbers
               s == c.state
               g == [f EXCEPT ![key] = n]
    <2>2. c = ConfigMade(a, p, f, s) /\ a \in KnownAlgorithms /\ p \in PoolLists /\ f \in ValidNumbers /\ s \in {"none", "ready", "error"}
      BY MadeOfParts, ConfigIn
    <2> HIDE DEF a, p, f, s, d
    <2>3. [c EXCEPT !.numbers[key] = n] = ConfigMade(a, p, g, s)
      BY <2>2 DEF ConfigMade
    <2>4. n \in Allowed(key) => g \in ValidNumbers
      BY <1>6, <2>2 DEF ValidNumbers
    <2> HIDE DEF g
    <2>5. n \in Allowed(key) => d \in Configs /\ d.state = s /\ d.pools = p
      BY <2>1, <2>2, <2>3, <2>4, ConfigParts, ConfigTyped
    <2> QED BY <2>1, <2>5 DEF d, s, p
  <1> QED BY <1>3, <1>4, <1>5, <1>6, Keyed

-----------------------------------------------------------------------------
(* The number that a value gives, or the one there was.                     *)
TookNumber(key, old, value) ==
    IF value.type = "int" /\ value.number \in Allowed(key) THEN value.number ELSE old
TookRange(range, old, value) ==
    IF value.type = "int" /\ value.number \in range THEN value.number ELSE old
(* What a file makes of a configuration before it is finalized.             *)
Filed(c, doc) ==
    ConfigMade(IF doc.algo = Null THEN c.algorithm ELSE AlgorithmParsed(c.algorithm, doc.algo),
               ListMade(FoldLeft(loadPool, <<>>, doc.pools),
                        TookRange(RetryCounts, c.pools.retries, doc.numbers["retries"]),
                        TookRange(RetryPauses, c.pools.retryPause, doc.numbers["retry-pause"])),
               [key \in NumberKeys |-> TookNumber(key, c.numbers[key], doc.numbers[key])],
               c.state)

(* parseJSON of a key sets the number when it is allowed.                   *)
LEMMA NumberTook ==
    ASSUME NEW c \in Configs, NEW key \in NumberKeys, NEW v
    PROVE  parseJSON(c, key, v).numbers[key] = TookNumber(key, c.numbers[key], v)
  <1> DEFINE n == v.number
             a == c.algorithm
             p == c.pools
             f == c.numbers
             s == c.state
             g == [f EXCEPT ![key] = n]
             e == [c EXCEPT !.numbers[key] = n]
  <1>1. c = ConfigMade(a, p, f, s) /\ f \in ValidNumbers
    BY MadeOfParts, ConfigIn
  <1>2. parseInt(c, key, n) = IF n \in Allowed(key) THEN e ELSE c
    BY Keyed DEF parseInt
  <1>3. parseJSON(c, key, v) = IF v.type = "int" THEN parseInt(c, key, n) ELSE c
    BY DEF parseJSON
  <1> HIDE DEF n, a, p, f, s
  <1>4. e = ConfigMade(a, p, g, s)
    BY <1>1 DEF ConfigMade
  <1>5. g[key] = n
    BY <1>1 DEF ValidNumbers
  <1> HIDE DEF g, e
  <1>6. e.numbers[key] = n
    BY <1>4, <1>5, ConfigParts
  <1> QED BY <1>2, <1>3, <1>6 DEF TookNumber, n

(* What is taken is in the range,                                           *)
LEMMA TookInRange ==
    ASSUME NEW S, NEW r \in S, NEW v
    PROVE  TookRange(S, r, v) \in S
  BY DEF TookRange

(* and what the range has is taken.                                         *)
LEMMA TookWritten ==
    ASSUME NEW S, NEW n \in S, NEW old
    PROVE  TookRange(S, old, Number(n)) = n
  <1> DEFINE v == Number(n)
  <1>1. v.type = "int" /\ v.number = n
    BY DEF Number, Value
  <1> HIDE DEF v
  <1>2. TookRange(S, old, v) = n
    BY <1>1 DEF TookRange
  <1> QED BY <1>2 DEF v

(* The retries of a list that is made of its parts,                         *)
LEMMA RetriesOfMade ==
    ASSUME NEW data, NEW r, NEW m, NEW n
    PROVE  /\ setRetries(ListMade(data, r, m), n) = ListMade(data, IF n \in RetryCounts THEN n ELSE r, m)
           /\ setRetryPause(ListMade(data, r, m), n) = ListMade(data, r, IF n \in RetryPauses THEN n ELSE m)
  <1> DEFINE q == ListMade(data, r, m)
             x == IF n \in RetryCounts THEN n ELSE r
             y == IF n \in RetryPauses THEN n ELSE m
  <1>1. q = [data |-> data, retries |-> r, retryPause |-> m]
    BY DEF ListMade
  <1> HIDE DEF q
  <1>2. setRetries(q, n) = [q EXCEPT !.retries = x] /\ setRetryPause(q, n) = [q EXCEPT !.retryPause = y]
    BY <1>1 DEF setRetries, setRetryPause, RetryCounts, RetryPauses
  <1> HIDE DEF x, y
  <1>3. setRetries(q, n) = ListMade(data, x, m) /\ setRetryPause(q, n) = ListMade(data, r, y)
    BY <1>1, <1>2 DEF ListMade
  <1> QED BY <1>3, Zenon DEF q, x, y

(* and what parseJSON makes of a value.                                     *)
LEMMA ParsedAsInt ==
    ASSUME NEW c, NEW key, NEW v
    PROVE  parseJSON(c, key, v) = IF v.type = "int" THEN parseInt(c, key, v.number) ELSE c
  BY Zenon DEF parseJSON

(* A key that holds an integer sets its part of the pool list.              *)
LEMMA RetriesOfFile ==
    ASSUME NEW a, NEW data, NEW r, NEW m, NEW f, NEW s, NEW v
    PROVE  parseJSON(ConfigMade(a, ListMade(data, r, m), f, s), "retries", v)
           = ConfigMade(a, ListMade(data, TookRange(RetryCounts, r, v), m), f, s)
  <1> DEFINE n == v.number
             q == ListMade(data, r, m)
             c == ConfigMade(a, q, f, s)
             x == TookRange(RetryCounts, r, v)
             p == ListMade(data, x, m)
             d == parseJSON(c, "retries", v)
  <1> SUFFICES d = ConfigMade(a, p, f, s)
    OBVIOUS
  <1>1. x = IF v.type = "int" /\ n \in RetryCounts THEN n ELSE r
    BY DEF TookRange
  <1>2. d = IF v.type = "int" THEN parseInt(c, "retries", n) ELSE c
    BY ParsedAsInt, Zenon
  <1>3. setRetries(q, n) = ListMade(data, IF n \in RetryCounts THEN n ELSE r, m)
    BY RetriesOfMade
  <1> HIDE DEF n, x, d
  <1>4. parseInt(c, "retries", n) = [c EXCEPT !.pools = setRetries(@, n)]
    <2> HIDE DEF c
    <2> QED BY DEF parseInt, NumberKeys
  <1>5. [c EXCEPT !.pools = setRetries(@, n)] = ConfigMade(a, setRetries(q, n), f, s)
    <2> HIDE DEF q
    <2> QED BY DEF ConfigMade
  <1> HIDE DEF q, c
  <1>6. CASE v.type = "int"
    <2>1. p = setRetries(q, n)
      BY <1>1, <1>3, <1>6
    <2> HIDE DEF p
    <2>2. d = parseInt(c, "retries", n)
      BY <1>2, <1>6
    <2> DEFINE e == [c EXCEPT !.pools = setRetries(@, n)]
    <2>3. d = e /\ e = ConfigMade(a, p, f, s)
      BY <1>4, <1>5, <2>1, <2>2
    <2> QED BY <2>3, Zenon
  <1>7. CASE v.type # "int"
    <2>1. x = r /\ d = c
      BY <1>1, <1>2, <1>7
    <2> QED BY <2>1 DEF c, q
  <1> QED BY <1>6, <1>7

LEMMA RetryPauseOfFile ==
    ASSUME NEW a, NEW data, NEW r, NEW m, NEW f, NEW s, NEW v
    PROVE  parseJSON(ConfigMade(a, ListMade(data, r, m), f, s), "retry-pause", v)
           = ConfigMade(a, ListMade(data, r, TookRange(RetryPauses, m, v)), f, s)
  <1> DEFINE n == v.number
             q == ListMade(data, r, m)
             c == ConfigMade(a, q, f, s)
             y == TookRange(RetryPauses, m, v)
             p == ListMade(data, r, y)
             d == parseJSON(c, "retry-pause", v)
  <1> SUFFICES d = ConfigMade(a, p, f, s)
    OBVIOUS
  <1>1. y = IF v.type = "int" /\ n \in RetryPauses THEN n ELSE m
    BY DEF TookRange
  <1>2. d = IF v.type = "int" THEN parseInt(c, "retry-pause", n) ELSE c
    BY ParsedAsInt, Zenon
  <1>3. setRetryPause(q, n) = ListMade(data, r, IF n \in RetryPauses THEN n ELSE m)
    BY RetriesOfMade
  <1> HIDE DEF n, y, d
  <1>4. parseInt(c, "retry-pause", n) = [c EXCEPT !.pools = setRetryPause(@, n)]
    <2> HIDE DEF c
    <2> QED BY DEF parseInt, NumberKeys
  <1>5. [c EXCEPT !.pools = setRetryPause(@, n)] = ConfigMade(a, setRetryPause(q, n), f, s)
    <2> HIDE DEF q
    <2> QED BY DEF ConfigMade
  <1> HIDE DEF q, c
  <1>6. CASE v.type = "int"
    <2>1. p = setRetryPause(q, n)
      BY <1>1, <1>3, <1>6
    <2> HIDE DEF p
    <2>2. d = parseInt(c, "retry-pause", n)
      BY <1>2, <1>6
    <2> DEFINE e == [c EXCEPT !.pools = setRetryPause(@, n)]
    <2>3. d = e /\ e = ConfigMade(a, p, f, s)
      BY <1>4, <1>5, <2>1, <2>2
    <2> QED BY <2>3, Zenon
  <1>7. CASE v.type # "int"
    <2>1. y = m /\ d = c
      BY <1>1, <1>2, <1>7
    <2> QED BY <2>1 DEF c, q
  <1> QED BY <1>6, <1>7

(* The options of a file are independent of each other: loadFromJSON sets   *)
(* each part of the configuration by its own, and finalizes it.             *)
LEMMA LoadIs ==
    ASSUME NEW c \in Configs, NEW doc
    PROVE  loadFromJSON(c, doc) = finalize(Filed(c, doc))
  <1> DEFINE named == IF doc.algo = Null THEN c ELSE [c EXCEPT !.algorithm = AlgorithmParsed(@, doc.algo)]
             nn == [key \in NumberKeys |-> parseJSON(c, key, doc.numbers[key]).numbers[key]]
             numbered == [named EXCEPT !.numbers = nn]
             tried  == parseJSON(numbered, "retries", doc.numbers["retries"])
             paused == parseJSON(tried, "retry-pause", doc.numbers["retry-pause"])
             last == [paused EXCEPT !.pools = loadPools(@, doc.pools)]
             b == c.algorithm
             p == c.pools
             f == c.numbers
             s == c.state
             a == IF doc.algo = Null THEN b ELSE AlgorithmParsed(b, doc.algo)
             data == p.data
             r == p.retries
             m == p.retryPause
             x == TookRange(RetryCounts, r, doc.numbers["retries"])
             y == TookRange(RetryPauses, m, doc.numbers["retry-pause"])
             t == FoldLeft(loadPool, <<>>, doc.pools)
             tt == [key \in NumberKeys |-> TookNumber(key, f[key], doc.numbers[key])]
  <1>1. c = ConfigMade(b, p, f, s) /\ p = ListMade(data, r, m) /\ f \in ValidNumbers
    BY MadeOfParts, ConfigIn
  <1>2. loadFromJSON(c, doc) = finalize(last)
    BY DEF loadFromJSON
  <1>3. Filed(c, doc) = ConfigMade(a, ListMade(t, x, y), tt, s)
    BY DEF Filed
  <1>4. nn = tt
    <2> DEFINE FromFile(key) == parseJSON(c, key, doc.numbers[key]).numbers[key]
               Took(key) == TookNumber(key, f[key], doc.numbers[key])
    <2>1. \A key \in NumberKeys : FromFile(key) = Took(key)
      BY NumberTook
    <2>2. nn = [key \in NumberKeys |-> FromFile(key)] /\ tt = [key \in NumberKeys |-> Took(key)]
      OBVIOUS
    <2> HIDE DEF FromFile, Took, nn, tt
    <2> QED BY <2>1, <2>2
  <1>5. named = ConfigMade(a, p, f, s)
    <2>1. CASE doc.algo = Null
      BY <1>1, <2>1
    <2>2. CASE doc.algo # Null
      <3>1. named = [c EXCEPT !.algorithm = a]
        BY <2>2
      <3> HIDE DEF named, a, b, p, f, s
      <3> QED BY <1>1, <3>1 DEF ConfigMade
    <2> QED BY <2>1, <2>2
  <1> HIDE DEF named, a, b, p, f, s, nn, tt, data, r, m
  <1>6. numbered = ConfigMade(a, p, tt, s)
    BY <1>4, <1>5 DEF ConfigMade
  <1> HIDE DEF numbered
  <1>7. tried = ConfigMade(a, ListMade(data, x, m), tt, s)
    <2> HIDE DEF tt
    <2>1. numbered = ConfigMade(a, ListMade(data, r, m), tt, s)
      BY <1>1, <1>6, Zenon
    <2> QED BY <2>1, RetriesOfFile
  <1> HIDE DEF tried, x
  <1>8. paused = ConfigMade(a, ListMade(data, x, y), tt, s)
    <2> HIDE DEF tt
    <2> QED BY <1>7, RetryPauseOfFile
  <1> HIDE DEF paused, y
  <1>9. last = ConfigMade(a, ListMade(t, x, y), tt, s)
    <2> DEFINE l == loadPools(paused.pools, doc.pools)
    <2>1. paused.pools = ListMade(data, x, y)
      BY <1>8, ConfigParts
    <2>2. l = ListMade(t, x, y)
      <3>1. l = [paused.pools EXCEPT !.data = t]
        BY DEF loadPools
      <3> HIDE DEF l, t
      <3> QED BY <2>1, <3>1 DEF ListMade
    <2>3. last = [paused EXCEPT !.pools = l]
      OBVIOUS
    <2> HIDE DEF l, t, last
    <2> QED BY <1>8, <2>2, <2>3 DEF ConfigMade
  <1> HIDE DEF last
  <1> QED BY <1>2, <1>3, <1>9

(* The parts of a list are of their types.                                  *)
LEMMA PartsOfList ==
    ASSUME NEW q \in PoolLists
    PROVE  q.data \in Seq(AnyPool) /\ q.retries \in RetryCounts /\ q.retryPause \in RetryPauses
  BY DEF PoolLists

(* A new configuration is raw.                                              *)
LEMMA NewConfigIn == NewConfig \in Configs /\ NewConfig.state = "none" /\ Raw(NewConfig.pools)
  <1> DEFINE a == [algo |-> "CN", variant |-> AutoVariant, forced |-> FALSE]
             none == "none"
  <1>1. a \in KnownAlgorithms
    <2>1. "CN" \in Algo
      BY AlgoIs
    <2> QED BY <2>1 DEF KnownAlgorithms
  <1>2. NewPools = ListMade(<<>>, 5, 5) /\ <<>> \in Seq(AnyPool)
    BY DEF NewPools, ListMade
  <1>3. NewPools \in PoolLists /\ NewPools.data = <<>>
    BY <1>2 DEF ListMade, PoolLists, RetryCounts, RetryPauses
  <1>4. NewConfig = ConfigMade(a, NewPools, DefaultNumbers, none)
    BY DEF NewConfig, ConfigMade
  <1>5. none \in {"none", "ready", "error"}
    OBVIOUS
  <1> HIDE DEF a, none
  <1>6. NewConfig \in Configs /\ NewConfig.state = none /\ NewConfig.pools = NewPools
    BY <1>1, <1>3, <1>4, <1>5, DefaultNumbersIn, ConfigTyped, ConfigParts
  <1>7. Raw(NewPools)
    BY <1>3 DEF Raw
  <1> QED BY <1>6, <1>7 DEF none

(* A list that a file gives is raw.                                         *)
LEMMA RawListIs ==
    ASSUME NEW t \in RawLists, NEW q, q.data = t
    PROVE  Raw(q)
  BY DEF RawLists, Raw

(* What a file holds is of the types there are.                              *)
LEMMA FiledIn ==
    ASSUME NEW c \in Configs, NEW doc \in Documents
    PROVE  Filed(c, doc) \in Configs /\ Filed(c, doc).state = c.state /\ Raw(Filed(c, doc).pools)
  <1> DEFINE a == IF doc.algo = Null THEN c.algorithm ELSE AlgorithmParsed(c.algorithm, doc.algo)
             t == FoldLeft(loadPool, <<>>, doc.pools)
             x == TookRange(RetryCounts, c.pools.retries, doc.numbers["retries"])
             y == TookRange(RetryPauses, c.pools.retryPause, doc.numbers["retry-pause"])
             Took(key) == TookNumber(key, c.numbers[key], doc.numbers[key])
             f == [key \in NumberKeys |-> Took(key)]
             q == ListMade(t, x, y)
  <1>1. doc.algo \in JsonValues /\ doc.numbers \in [FileNumbers -> JsonValues] /\ doc.pools \in Seq(PoolObjects)
    BY SettingsAssumption
  <1>2. c.algorithm \in KnownAlgorithms /\ c.pools \in PoolLists /\ c.numbers \in ValidNumbers
    BY ConfigIn
  <1>3. a \in KnownAlgorithms
    BY <1>1, <1>2, AlgorithmsParsed
  <1>4. t \in RawLists
    BY <1>1, FilePoolsRaw
  <1>5. t \in Seq(AnyPool)
    <2> HIDE DEF t
    <2> QED BY <1>4 DEF RawLists
  <1>6. x \in RetryCounts /\ y \in RetryPauses
    <2> DEFINE p == c.pools
               n == p.retries
               m == p.retryPause
               v == doc.numbers["retries"]
               w == doc.numbers["retry-pause"]
    <2>1. x = TookRange(RetryCounts, n, v) /\ y = TookRange(RetryPauses, m, w)
      OBVIOUS
    <2> HIDE DEF p, v, w, t, f, a, q, x, y, Took
    <2>2. p \in PoolLists
      BY <1>2, Zenon DEF p
    <2>3. n \in RetryCounts /\ m \in RetryPauses
      BY <2>2, PartsOfList
    <2> HIDE DEF n, m
    <2>4. TookRange(RetryCounts, n, v) \in RetryCounts /\ TookRange(RetryPauses, m, w) \in RetryPauses
      BY <2>3, TookInRange
    <2> QED BY <2>1, <2>4
  <1>7. f \in ValidNumbers
    <2>1. ASSUME NEW key \in NumberKeys
          PROVE  Took(key) \in Int /\ Took(key) \in Allowed(key) \cup {DefaultNumbers[key]}
      <3>1. key \in FileNumbers
        BY Keyed
      <3>2. doc.numbers[key].number \in Int
        BY <1>1, <3>1 DEF JsonValues
      <3> QED BY <1>2, <3>2 DEF TookNumber, ValidNumbers
    <2> HIDE DEF Took
    <2> QED BY <2>1 DEF ValidNumbers
  <1> HIDE DEF a, t, x, y, f
  <1>8. q \in PoolLists /\ q.data = t
    BY <1>5, <1>6 DEF ListMade, PoolLists
  <1>9. Raw(q)
    BY <1>4, <1>8, RawListIs
  <1>10. Filed(c, doc) = ConfigMade(a, q, f, c.state)
    BY DEF Filed, a, t, x, y, f
  <1> HIDE DEF q
  <1>11. Filed(c, doc) \in Configs
    BY <1>3, <1>7, <1>8, <1>10, ConfigIn, ConfigTyped
  <1> QED BY <1>9, <1>10, <1>11, ConfigParts

(* A file that loads makes a configuration ready; one that does not fails   *)
(* again when it is finalized.                                              *)
LEMMA FileLoads ==
    ASSUME NEW c \in Configs, NEW doc \in Documents
    PROVE  LET r == loadFromJSON(c, doc)
           IN  /\ r.config \in Configs
               /\ r.ok => r.config.state = "ready" /\ finalize(r.config) = [config |-> r.config, ok |-> TRUE]
               /\ ~r.ok => ~finalize(r.config).ok
               /\ r.ok /\ c.state = "none" => Ready(r.config)
  <1> DEFINE d == Filed(c, doc)
  <1>1. loadFromJSON(c, doc) = finalize(d)
    BY LoadIs
  <1>2. d \in Configs /\ d.state = c.state /\ Raw(d.pools)
    BY FiledIn
  <1> HIDE DEF d
  <1>3. /\ finalize(d).config \in Configs
        /\ finalize(d).ok => finalize(d).config.state = "ready" /\ finalize(finalize(d).config) = [config |-> finalize(d).config, ok |-> TRUE]
        /\ ~finalize(d).ok => ~finalize(finalize(d).config).ok
        /\ finalize(d).ok /\ d.state = "none" => Ready(finalize(d).config)
    BY <1>2, Finalizes
  <1> QED BY <1>1, <1>2, <1>3

-----------------------------------------------------------------------------
(* A number that is written is read as itself, also one that is not         *)
(* allowed but the default.                                                 *)
LEMMA NumbersRead ==
    ASSUME NEW f \in ValidNumbers, NEW key \in NumberKeys
    PROVE  TookNumber(key, DefaultNumbers[key], Number(f[key])) = f[key]
  BY DEF TookNumber, Number, Value, ValidNumbers

(* What save() writes, and a new configuration reads, is the same but for   *)
(* the algorithms of the pools and the flag of its own.                     *)
LEMMA WrittenFiled ==
    ASSUME NEW c \in Configs, Valid(c.algorithm),
           \A i \in DOMAIN c.pools.data : /\ PoolOf(PoolJSON(c.pools.data[i])) \in AnyPool
                                          /\ isValidPool(PoolOf(PoolJSON(c.pools.data[i])))
    PROVE  \E a \in KnownAlgorithms :
            /\ Plain(a) = Plain(c.algorithm)
            /\ Filed(NewConfig, Written(c)) =
                ConfigMade(a, ListMade([i \in DOMAIN c.pools.data |-> PoolOf(PoolJSON(c.pools.data[i]))],
                                       c.pools.retries, c.pools.retryPause),
                           c.numbers, "none")
  <1> DEFINE doc == Written(c)
             s == c.pools.data
             n == Len(s)
             name == Name(c.algorithm.algo, c.algorithm.variant, FALSE)
             a == AlgorithmParsed(NewConfig.algorithm, doc.algo)
             f == c.numbers
             objects == PoolsJSON(c.pools)
             t == [i \in DOMAIN s |-> PoolOf(PoolJSON(s[i]))]
  <1>1. c.algorithm \in KnownAlgorithms /\ c.pools \in PoolLists /\ f \in ValidNumbers
    BY ConfigIn
  <1>2. s \in Seq(AnyPool) /\ n \in Nat /\ DOMAIN s = 1..n
    BY <1>1 DEF PoolLists
  <1>3. /\ doc.algo = Text(name) /\ doc.pools = objects
        /\ doc.numbers["retries"] = Number(c.pools.retries)
        /\ doc.numbers["retry-pause"] = Number(c.pools.retryPause)
        /\ \A key \in NumberKeys : doc.numbers[key] = Number(f[key])
    BY Keyed DEF Written
  <1> HIDE DEF doc
  <1>4. a \in KnownAlgorithms /\ Plain(a) = Plain(c.algorithm) /\ doc.algo # Null
    <2>1. parseAlgorithm(name) = [algo |-> c.algorithm.algo, variant |-> c.algorithm.variant]
      BY NameRound DEF Valid
    <2>2. NewConfig.algorithm.forced = FALSE
      BY DEF NewConfig
    <2> HIDE DEF name
    <2>3. Text(name).text = name /\ Text(name).forced = FALSE /\ Text(name) # Null
      BY DEF Text, Value, Null
    <2>4. a = [algo |-> c.algorithm.algo, variant |-> c.algorithm.variant, forced |-> FALSE]
      <3> DEFINE v == doc.algo
                 b == NewConfig.algorithm
                 no == FALSE
      <3>1. v.text = name /\ v.forced = no /\ b.forced = no
        BY <1>3, <2>2, <2>3
      <3>2. a = [algo |-> parseAlgorithm(v.text).algo, variant |-> parseAlgorithm(v.text).variant,
                 forced |-> b.forced \/ v.forced]
        BY DEF AlgorithmParsed
      <3>3. (b.forced \/ v.forced) = no
        BY <3>1
      <3> HIDE DEF v, a, b, no
      <3>4. a = [algo |-> c.algorithm.algo, variant |-> c.algorithm.variant, forced |-> no]
        BY <2>1, <3>1, <3>2, <3>3
      <3> QED BY <3>4 DEF no
    <2> HIDE DEF a
    <2> QED BY <1>1, <1>3, <2>3, <2>4 DEF KnownAlgorithms, Plain
  <1>5. TookRange(RetryCounts, NewConfig.pools.retries, doc.numbers["retries"]) = c.pools.retries
    <2> DEFINE old == NewConfig.pools.retries
               q == c.pools
               m == q.retries
    <2> HIDE DEF old, q
    <2>1. m \in RetryCounts
      <3>1. q \in PoolLists
        BY <1>1 DEF q
      <3> QED BY <3>1, PartsOfList
    <2>2. doc.numbers["retries"] = Number(m)
      BY <1>3 DEF q
    <2> HIDE DEF m
    <2>3. TookRange(RetryCounts, old, Number(m)) = m
      BY <2>1, TookWritten
    <2> QED BY <2>2, <2>3 DEF old, m, q
  <1>6. TookRange(RetryPauses, NewConfig.pools.retryPause, doc.numbers["retry-pause"]) = c.pools.retryPause
    <2> DEFINE old == NewConfig.pools.retryPause
               q == c.pools
               m == q.retryPause
    <2> HIDE DEF old, q
    <2>1. m \in RetryPauses
      <3>1. q \in PoolLists
        BY <1>1 DEF q
      <3> QED BY <3>1, PartsOfList
    <2>2. doc.numbers["retry-pause"] = Number(m)
      BY <1>3 DEF q
    <2> HIDE DEF m
    <2>3. TookRange(RetryPauses, old, Number(m)) = m
      BY <2>1, TookWritten
    <2> QED BY <2>2, <2>3 DEF old, m, q
  <1>7. [key \in NumberKeys |-> TookNumber(key, NewConfig.numbers[key], doc.numbers[key])] = f
    <2> DEFINE Took(key) == TookNumber(key, NewConfig.numbers[key], doc.numbers[key])
    <2>1. NewConfig.numbers = DefaultNumbers
      BY DEF NewConfig
    <2>2. \A key \in NumberKeys : Took(key) = f[key]
      BY <1>1, <1>3, <2>1, NumbersRead
    <2>3. f = [key \in NumberKeys |-> f[key]]
      BY <1>1 DEF ValidNumbers
    <2> HIDE DEF Took, f
    <2>4. [key \in NumberKeys |-> Took(key)] = f
      BY <2>2, <2>3
    <2> QED BY <2>4 DEF Took
  <1>8. FoldLeft(loadPool, <<>>, doc.pools) = t
    <2>1. objects = [i \in 1..n |-> PoolJSON(s[i])]
      BY <1>2 DEF PoolsJSON
    <2>2. \A i \in 1..n : objects[i] = PoolJSON(s[i])
      BY <2>1
    <2>3. \A i \in 1..n : PoolOf(objects[i]) \in AnyPool /\ isValidPool(PoolOf(objects[i]))
      BY <1>2, <2>2
    <2>4. objects = [i \in 1..n |-> objects[i]]
      BY <2>1
    <2> HIDE DEF objects, n
    <2>5. FoldLeft(loadPool, <<>>, objects) = [i \in 1..n |-> PoolOf(objects[i])]
      BY <1>2, <2>3, <2>4, AllPoolsLoaded
    <2>6. [i \in 1..n |-> PoolOf(objects[i])] = t
      BY <1>2, <2>2
    <2> QED BY <1>3, <2>5, <2>6
  <1>9. NewConfig.state = "none"
    BY NewConfigIn
  <1>10. Filed(NewConfig, doc) = ConfigMade(a, ListMade(t, c.pools.retries, c.pools.retryPause), f, "none")
    <2> HIDE DEF t, f
    <2> QED BY <1>4, <1>5, <1>6, <1>7, <1>8, <1>9 DEF Filed
  <1> QED BY <1>4, <1>10 DEF doc

(* Pools that are alike are enabled alike.                                  *)
LEMMA AlikeEnabled ==
    ASSUME NEW p, NEW q, Alike(p, q)
    PROVE  isEnabled(p) <=> isEnabled(q)
  BY DEF Alike, SameUser, SameAddress, SameAlgorithm, isEnabled, isValidPool, Valid

(* A configuration that is ready is the same when it is written and read    *)
(* again.                                                                   *)
LEMMA SavedReads ==
    ASSUME NEW c, Ready(c)
    PROVE  LET again == loadFromJSON(NewConfig, Written(c))
           IN  /\ again.ok
               /\ samePools(again.config.pools, c.pools)
               /\ again.config.numbers = c.numbers
               /\ Plain(again.config.algorithm) = Plain(c.algorithm)
  <1> DEFINE a == c.algorithm
             s == c.pools.data
             n == Len(s)
             f == c.numbers
             r == c.pools.retries
             m == c.pools.retryPause
             Reread(i) == PoolOf(PoolJSON(s[i]))
  <1>1. PICK raw \in PoolLists : Raw(raw) /\ c.pools = adjustPools(raw, a)
    BY DEF Ready
  <1> DEFINE data == raw.data
  <1>2. c \in Configs /\ Valid(a) /\ active(c.pools) # 0
    BY DEF Ready
  <1>3. a \in KnownAlgorithms /\ c.pools \in PoolLists
    BY <1>2, ConfigIn
  <1>4. /\ DOMAIN s = DOMAIN data /\ Len(s) = Len(data)
        /\ \A i \in DOMAIN data : s[i] = adjust(data[i], a)
    BY <1>1, <1>3, PoolsAdjusted
  <1>5. /\ s \in Seq(AnyPool) /\ data \in Seq(AnyPool) /\ n \in Nat
        /\ DOMAIN s = 1..n /\ DOMAIN data = 1..n
    BY <1>1, <1>3, <1>4, PartsOfList, LenProperties
  <1>6. \A i \in 1..n : data[i] \in AnyPool /\ RawPool(data[i])
    BY <1>1, <1>5, ElementOfSeq DEF Raw
  <1>7. PICK e \in 1..n : isEnabled(s[e])
    <2>1. \E i \in DOMAIN c.pools.data : isEnabled(c.pools.data[i])
      BY <1>2, <1>3, SomeActive
    <2> QED BY <1>5, <2>1
  <1> HIDE DEF s, data, n
  <1>8. \A i \in 1..n : isValidPool(data[i])
    <2>1. CASE \A i \in DOMAIN raw.data : isValidPool(raw.data[i])
      BY <1>5, <2>1 DEF data
    <2>2. CASE Len(raw.data) = 1
      <3>1. n = 1 /\ e = 1
        BY <1>4, <1>7, <2>2 DEF n, data
      <3>2. s[1] = adjust(data[1], a) /\ isEnabled(s[1])
        BY <1>4, <1>5, <1>7, <3>1
      <3>3. ~isValidPool(data[1]) => s[1] = data[1]
        BY <3>2 DEF adjust
      <3>4. isValidPool(data[1])
        BY <3>2, <3>3 DEF isEnabled
      <3> QED BY <3>1, <3>4
    <2> QED BY <1>1, <2>1, <2>2 DEF Raw
  <1>9. ASSUME NEW b \in KnownAlgorithms, Plain(b) = Plain(a), NEW i \in 1..n
        PROVE  /\ Reread(i) \in AnyPool /\ isValidPool(Reread(i))
               /\ Alike(s[i], adjust(Reread(i), b)) /\ adjust(Reread(i), b) \in AnyPool
    <2> DEFINE p == data[i]
    <2>1. p \in AnyPool /\ RawPool(p) /\ isValidPool(p) /\ s[i] = adjust(p, a)
      BY <1>4, <1>5, <1>6, <1>8
    <2> HIDE DEF p, a
    <2>2. LET q == PoolOf(PoolJSON(adjust(p, a)))
          IN  q \in AnyPool /\ isValidPool(q) /\ Alike(adjust(p, a), adjust(q, b)) /\ adjust(q, b) \in AnyPool
      BY <1>3, <1>9, <2>1, SavedPoolSame
    <2> QED BY <2>1, <2>2
  <1> DEFINE t == [i \in 1..n |-> Reread(i)]
  <1> HIDE DEF Reread
  <1>10. PICK b \in KnownAlgorithms :
            Plain(b) = Plain(a) /\ Filed(NewConfig, Written(c)) = ConfigMade(b, ListMade(t, r, m), f, "none")
    <2>1. \A i \in DOMAIN c.pools.data : PoolOf(PoolJSON(c.pools.data[i])) \in AnyPool
                                         /\ isValidPool(PoolOf(PoolJSON(c.pools.data[i])))
      BY <1>3, <1>5, <1>9 DEF Reread, s
    <2>2. [i \in DOMAIN c.pools.data |-> PoolOf(PoolJSON(c.pools.data[i]))] = t
      BY <1>5 DEF Reread, s
    <2> HIDE DEF t
    <2> QED BY <1>2, <2>1, <2>2, WrittenFiled
  <1> DEFINE u == [i \in 1..n |-> adjust(Reread(i), b)]
             q == ListMade(t, r, m)
             z == ListMade(u, r, m)
  <1>11. Valid(b)
    BY <1>2, <1>10 DEF Valid, Plain
  <1>12. adjustPools(q, b) = z
    <2>1. q.data = t /\ DOMAIN t = 1..n
      BY DEF ListMade
    <2>2. [i \in DOMAIN q.data |-> adjust(q.data[i], b)] = u
      BY <2>1
    <2> DEFINE x == [i \in DOMAIN q.data |-> adjust(q.data[i], b)]
    <2>3. adjustPools(q, b) = [q EXCEPT !.data = x]
      BY DEF adjustPools
    <2>4. x = u
      BY <2>2, Zenon
    <2>5. q.retries = r /\ q.retryPause = m /\ q = ListMade(t, r, m)
      BY DEF ListMade
    <2> HIDE DEF x, t, u, q, r, m
    <2>6. [q EXCEPT !.data = x] = ListMade(x, r, m)
      BY <2>5 DEF ListMade
    <2> QED BY <2>3, <2>4, <2>6
  <1>13. u \in Seq(AnyPool) /\ Len(u) = n /\ DOMAIN u = 1..n /\ \A i \in 1..n : Alike(s[i], u[i]) /\ u[i] \in AnyPool
    <2> DEFINE New(i) == adjust(Reread(i), b)
    <2>1. \A i \in 1..n : New(i) \in AnyPool /\ Alike(s[i], New(i))
      BY <1>9, <1>10
    <2> HIDE DEF New
    <2>2. LET w == [i \in 1..n |-> New(i)]
          IN  w \in Seq(AnyPool) /\ Len(w) = n /\ DOMAIN w = 1..n /\ \A i \in 1..n : Alike(s[i], w[i]) /\ w[i] \in AnyPool
      BY <1>5, <2>1
    <2> QED BY <2>2 DEF New
  <1> HIDE DEF t, u
  <1>14. z \in PoolLists /\ z.data = u /\ z.retries = r /\ z.retryPause = m
    <2>1. r \in RetryCounts /\ m \in RetryPauses
      BY <1>3, PartsOfList
    <2> HIDE DEF r, m
    <2>2. z \in PoolLists
      BY <1>13, <2>1 DEF ListMade, PoolLists
    <2> QED BY <2>2 DEF ListMade
  <1>15. active(z) # 0
    <2>1. isEnabled(u[e])
      BY <1>7, <1>13, AlikeEnabled
    <2> HIDE DEF z
    <2> QED BY <1>13, <1>14, <2>1, SomeActive
  <1> HIDE DEF q, z, a, f, r, m
  <1>16. finalize(ConfigMade(b, q, f, "none")) = [config |-> ConfigMade(b, z, f, "ready"), ok |-> TRUE]
    <2> DEFINE yes == active(z) # 0
    <2>1. finalize(ConfigMade(b, q, f, "none")) = [config |-> ConfigMade(b, z, f, "ready"), ok |-> yes]
      BY <1>11, <1>12, <1>15, FinalizedAdjusts
    <2>2. yes = TRUE
      BY <1>15
    <2> HIDE DEF yes
    <2> QED BY <2>1, <2>2
  <1>17. loadFromJSON(NewConfig, Written(c)) = [config |-> ConfigMade(b, z, f, "ready"), ok |-> TRUE]
    BY <1>10, <1>16, LoadIs, NewConfigIn DEF q
  <1>18. samePools(z, c.pools)
    <2>1. \A i \in 1..n : isEqual(u[i], s[i])
      <3>1. \A i \in 1..n : isEqual(s[i], u[i])
        BY <1>5, <1>13, AlikeEqual, ElementOfSeq
      <3> QED BY <3>1 DEF isEqual
    <2>2. Len(u) = Len(s) /\ DOMAIN u = 1..n
      BY <1>13 DEF n
    <2> QED BY <1>14, <2>1, <2>2 DEF samePools, s, r, m
  <1> DEFINE new == ConfigMade(b, z, f, "ready")
  <1>19. new.pools = z /\ new.numbers = f /\ new.algorithm = b
    BY ConfigParts
  <1> HIDE DEF new
  <1>20. loadFromJSON(NewConfig, Written(c)).ok = TRUE /\ loadFromJSON(NewConfig, Written(c)).config = new
    BY <1>17 DEF new
  <1> QED BY <1>10, <1>18, <1>19, <1>20 DEF a, f

-----------------------------------------------------------------------------
(* What the options of a pool, but its address, leave of it.                *)
Stays(p, q) == q \in AnyPool /\ SameAddress(p, q) /\ q.algorithm.algo = p.algorithm.algo

(* No option of a pool but its address touches its address or its           *)
(* algorithm.                                                               *)
LEMMA PoolOptions ==
    ASSUME NEW p \in AnyPool, NEW user \in Names, NEW value \in JsonValues, NEW yes \in BOOLEAN
    PROVE  /\ Stays(p, [p EXCEPT !.user = user]) /\ Stays(p, VariantOption(p, value))
           /\ Stays(p, KeepAliveEnabled(p, yes)) /\ Stays(p, [p EXCEPT !.tls = yes])
           /\ Stays(p, [p EXCEPT !.nicehash = yes])
  <1> DEFINE a == VariantParsed(p.algorithm, value)
             n == IF yes THEN kKeepAliveTimeout ELSE 0
  <1>1. Stays(p, [p EXCEPT !.user = user])
    BY DEF AnyPool, SameAddress, Stays
  <1>2. a \in KnownAlgorithms /\ a.algo = p.algorithm.algo
    BY VariantsParsed DEF AnyPool
  <1>3. Stays(p, VariantOption(p, value))
    <2>1. VariantOption(p, value) = [p EXCEPT !.algorithm = a]
      BY DEF VariantOption
    <2> HIDE DEF a
    <2>2. Stays(p, [p EXCEPT !.algorithm = a])
      BY <1>2 DEF AnyPool, SameAddress, Stays
    <2> QED BY <2>1, <2>2
  <1>4. Stays(p, KeepAliveEnabled(p, yes))
    <2>1. n \in Int /\ KeepAliveEnabled(p, yes) = setKeepAlive(p, n)
      BY DEF KeepAliveEnabled, kKeepAliveTimeout
    <2> HIDE DEF n
    <2> DEFINE m == IF n >= 0 THEN n ELSE 0
    <2>2. KeepAliveEnabled(p, yes) = [p EXCEPT !.keepAlive = m] /\ m \in Nat
      BY <2>1 DEF setKeepAlive
    <2> HIDE DEF m
    <2>3. Stays(p, [p EXCEPT !.keepAlive = m])
      BY <2>2 DEF AnyPool, SameAddress, Stays
    <2> QED BY <2>2, <2>3
  <1>5. Stays(p, [p EXCEPT !.tls = yes])
    BY DEF AnyPool, SameAddress, Stays
  <1>6. Stays(p, [p EXCEPT !.nicehash = yes])
    BY DEF AnyPool, SameAddress, Stays
  <1> QED BY <1>1, <1>3, <1>4, <1>5, <1>6

(* The state and the pools, as far as they are not addressed, of what an    *)
(* option makes of a configuration.                                         *)
StaysLike(c, d) == d \in Configs /\ d.state = c.state /\ (Raw(c.pools) => Raw(d.pools))

(* The options of the last pool keep a configuration raw,                   *)
LEMMA CurrentReplaced ==
    ASSUME NEW c \in Configs, NEW p, Stays(current(c.pools), p)
    PROVE  StaysLike(c, [c EXCEPT !.pools = SetCurrent(@, p)])
  <1> DEFINE q == SetCurrent(c.pools, p)
  <1>1. q \in PoolLists /\ (Raw(c.pools) => Raw(q))
    BY ConfigIn, OptionKeeps DEF Stays
  <1> HIDE DEF q
  <1>2. StaysLike(c, [c EXCEPT !.pools = q])
    BY <1>1, PoolsReplaced DEF StaysLike
  <1> QED BY <1>2 DEF q

(* What CommonConfig::parseString and parseBoolean make of a                *)
(* configuration.                                                           *)
Optioned(c, o) ==
    CASE o.key = "algo" -> [c EXCEPT !.algorithm = AlgorithmParsed(@, o.value)]
      [] o.key = "user" ->
            [c EXCEPT !.pools = SetCurrent(@, [current(@) EXCEPT !.user = o.value.text])]
      [] o.key = "variant" ->
            [c EXCEPT !.pools = SetCurrent(@, VariantOption(current(@), o.value))]
      [] o.key \in {"keepalive", "tls", "nicehash"} -> parseBoolean(c, o.key, TRUE)
      [] o.key \in FileNumbers -> parseInt(c, o.key, o.value.number)

(* as every option does but --url and --config.                             *)
LEMMA OptionStays ==
    ASSUME NEW c \in Configs, NEW o \in Options,
           o.key \in {"algo", "user", "variant", "keepalive", "tls", "nicehash"} \cup FileNumbers
    PROVE  StaysLike(c, Optioned(c, o))
  <1> DEFINE p == current(c.pools)
             d == Optioned(c, o)
  <1>1. o.value \in JsonValues /\ o.value.text \in Names /\ o.value.number \in Int
    BY SettingsAssumption DEF JsonValues
  <1>2. c.pools \in PoolLists /\ c.algorithm \in KnownAlgorithms
    BY ConfigIn
  <1>3. p \in AnyPool
    BY <1>2, CurrentIn
  <1> DEFINE yes == TRUE
  <1>4. /\ Stays(p, [p EXCEPT !.user = o.value.text]) /\ Stays(p, VariantOption(p, o.value))
        /\ Stays(p, KeepAliveEnabled(p, yes)) /\ Stays(p, [p EXCEPT !.tls = yes])
        /\ Stays(p, [p EXCEPT !.nicehash = yes])
    <2>1. yes \in BOOLEAN
      OBVIOUS
    <2> HIDE DEF yes, p
    <2> QED BY <1>1, <1>3, <2>1, PoolOptions
  <1> HIDE DEF d
  <1>5. CASE o.key = "algo"
    <2> DEFINE a == AlgorithmParsed(c.algorithm, o.value)
    <2>1. d = [c EXCEPT !.algorithm = a]
      BY <1>5 DEF Optioned, d, FileNumbers, NumberKeys
    <2>2. a \in KnownAlgorithms
      BY <1>1, <1>2, AlgorithmsParsed
    <2> HIDE DEF a
    <2> QED BY <2>1, <2>2, AlgorithmReplacedIn DEF StaysLike, d
  <1>6. CASE o.key = "user"
    <2> DEFINE q == [p EXCEPT !.user = o.value.text]
    <2>1. d = [c EXCEPT !.pools = SetCurrent(@, q)]
      BY <1>6 DEF Optioned, d, FileNumbers, NumberKeys
    <2>2. StaysLike(c, [c EXCEPT !.pools = SetCurrent(@, q)])
      BY <1>4, CurrentReplaced
    <2> QED BY <2>1, <2>2 DEF d
  <1>7. CASE o.key = "variant"
    <2> DEFINE q == VariantOption(p, o.value)
    <2>1. d = [c EXCEPT !.pools = SetCurrent(@, q)]
      BY <1>7 DEF Optioned, d, FileNumbers, NumberKeys
    <2>2. StaysLike(c, [c EXCEPT !.pools = SetCurrent(@, q)])
      BY <1>4, CurrentReplaced
    <2> QED BY <2>1, <2>2 DEF d
  <1>8. CASE o.key \in {"keepalive", "tls", "nicehash"}
    <2>1. d = parseBoolean(c, o.key, yes)
      BY <1>8 DEF Optioned, d, FileNumbers, NumberKeys
    <2> HIDE DEF yes
    <2> DEFINE New(q) == [c EXCEPT !.pools = SetCurrent(@, q)]
    <2>2. \/ d = New(KeepAliveEnabled(p, yes)) \/ d = New([p EXCEPT !.tls = yes])
          \/ d = New([p EXCEPT !.nicehash = yes])
      BY <1>8, <2>1 DEF parseBoolean
    <2>3. \A q : Stays(p, q) => StaysLike(c, New(q))
      BY CurrentReplaced
    <2> HIDE DEF New
    <2> QED BY <1>4, <2>2, <2>3 DEF d
  <1>9. CASE o.key \in FileNumbers
    <2>1. d = parseInt(c, o.key, o.value.number)
      BY <1>9 DEF Optioned, d, FileNumbers, NumberKeys
    <2> QED BY <1>1, <1>9, <2>1, IntParsed DEF StaysLike, d
  <1> QED BY <1>5, <1>6, <1>7, <1>8, <1>9

-----------------------------------------------------------------------------
(* A job that was let in is of the configuration's algorithm and can be     *)
(* hashed.                                                                  *)
JobRight ==
    /\ job.from = "pool" => job.accepted
    /\ job.accepted /\ ~late =>
        /\ job.algorithm \in KnownAlgorithms /\ HasHash(Plain(job.algorithm))
        /\ job.algorithm.algo = config.algorithm.algo

(* While options are parsed, the configuration is raw or ready; when the    *)
(* program runs, it is ready, unless an option came after --config.         *)
ConfigRight ==
    /\ loader \in {"options", "running", "failed"}
    /\ loader = "options" => /\ config \in Configs /\ config.state \in {"none", "ready"}
                             /\ config.state = "none" => Raw(config.pools)
    /\ loader = "running" => config.state = "ready"
    /\ loader # "failed" /\ config.state = "ready" /\ ~late => Ready(config)

(* The inductive invariant of the configuration and its jobs.               *)
LoadInv == ConfigRight /\ (loader # "running" => job = NoJob) /\ JobRight

(* Without a job nothing is said of it.                                     *)
LEMMA NoJobRight == job = NoJob => JobRight
  BY DEF NoJob, JobRight

(* The invariant holds at first,                                            *)
LEMMA LoadStarts == Init => LoadInv
  BY NewConfigIn, NoJobRight DEF Init, LoadInv, ConfigRight

(* an option keeps it,                                                      *)
LEMMA OptionInv ==
    ASSUME LoadInv, NEW o \in Options, parseOption(o)
    PROVE  LoadInv'
  <1> DEFINE d == Optioned(config, o)
  <1>1. /\ config' = d /\ loader = "options" /\ loader' = loader /\ job' = job
        /\ config.state = "ready" => late'
        /\ o.key \in {"algo", "user", "variant", "keepalive", "tls", "nicehash"} \cup FileNumbers
    BY DEF parseOption, Option, Optioned
  <1>2. /\ config \in Configs /\ config.state \in {"none", "ready"}
        /\ config.state = "none" => Raw(config.pools)
        /\ job = NoJob
    BY <1>1 DEF LoadInv, ConfigRight
  <1>3. StaysLike(config, d)
    BY <1>1, <1>2, OptionStays
  <1> HIDE DEF d
  <1>4. ConfigRight'
    BY <1>1, <1>2, <1>3 DEF ConfigRight, StaysLike
  <1>5. JobRight'
    BY <1>1, <1>2 DEF NoJob, JobRight
  <1> QED BY <1>1, <1>2, <1>4, <1>5 DEF LoadInv

(* an address,                                                              *)
LEMMA UrlInv ==
    ASSUME LoadInv, NEW o \in Options, parseUrl(o)
    PROVE  LoadInv'
  <1> DEFINE set == setUrl(config.pools, o.url)
             q == set.pools
  <1>1. /\ config' = [config EXCEPT !.pools = q] /\ loader = "options" /\ job' = job
        /\ loader' = IF set.ok THEN loader ELSE "failed"
        /\ config.state = "ready" => late'
    BY DEF parseUrl, Option
  <1>2. /\ config \in Configs /\ config.state \in {"none", "ready"}
        /\ config.state = "none" => Raw(config.pools)
        /\ job = NoJob
    BY <1>1 DEF LoadInv, ConfigRight
  <1>3. config.pools \in PoolLists /\ o.url \in Urls
    BY <1>2, ConfigIn, SettingsAssumption
  <1>4. q \in PoolLists /\ (Raw(config.pools) /\ set.ok => Raw(q))
    BY <1>3, UrlSet
  <1> HIDE DEF set, q
  <1>5. config' \in Configs /\ config'.pools = q /\ config'.state = config.state
    BY <1>1, <1>2, <1>4, PoolsReplaced
  <1>6. ConfigRight'
    BY <1>1, <1>2, <1>4, <1>5 DEF ConfigRight
  <1>7. JobRight'
    BY <1>1, <1>2 DEF NoJob, JobRight
  <1>8. loader' # "running"
    BY <1>1
  <1> QED BY <1>1, <1>2, <1>6, <1>7, <1>8 DEF LoadInv

(* a file that is named among the options.                                  *)
LEMMA FileInv ==
    ASSUME LoadInv, NEW o \in Options, loadFromFile(o)
    PROVE  LoadInv'
  <1>1. /\ loader = "options" /\ job' = job /\ (config.state = "ready" => late')
        /\ \/ \E doc \in Documents : /\ config' = loadFromJSON(config, doc).config
                                     /\ loader' = IF loadFromJSON(config, doc).ok THEN loader ELSE "failed"
           \/ loader' = "failed" /\ config' = config
    BY DEF loadFromFile, Option
  <1>2. config \in Configs /\ config.state \in {"none", "ready"} /\ job = NoJob
    BY <1>1 DEF LoadInv, ConfigRight
  <1>3. JobRight'
    BY <1>1, <1>2 DEF NoJob, JobRight
  <1>4. loader' # "running"
    BY <1>1
  <1>5. ConfigRight'
    <2>1. CASE loader' = "failed"
      BY <2>1 DEF ConfigRight
    <2>2. ASSUME NEW doc \in Documents, config' = loadFromJSON(config, doc).config,
                 loader' = IF loadFromJSON(config, doc).ok THEN loader ELSE "failed"
          PROVE  ConfigRight'
      <3> DEFINE r == loadFromJSON(config, doc)
      <3>1. /\ r.config \in Configs
            /\ r.ok => r.config.state = "ready"
            /\ r.ok /\ config.state = "none" => Ready(r.config)
        BY <1>2, FileLoads
      <3>2. config' = r.config /\ loader' = IF r.ok THEN loader ELSE "failed"
        BY <2>2
      <3> HIDE DEF r
      <3>3. CASE r.ok
        <4>1. loader' = "options" /\ config' \in Configs /\ config'.state = "ready"
          BY <1>1, <3>1, <3>2, <3>3
        <4>2. ~late' => Ready(config')
          BY <1>1, <1>2, <3>1, <3>2, <3>3
        <4>3. Ready(config)' <=> Ready(config')
          BY DEF Ready
        <4> QED BY <4>1, <4>2, <4>3 DEF ConfigRight
      <3>4. CASE ~r.ok
        BY <2>1, <3>2, <3>4
      <3> QED BY <3>3, <3>4
    <2> QED BY <1>1, <2>1, <2>2
  <1> QED BY <1>1, <1>2, <1>3, <1>4, <1>5 DEF LoadInv

(* A file that is loaded alone makes a new configuration ready or fails.    *)
LEMMA FileAlone ==
    ASSUME NEW doc \in Documents
    PROVE  LET r == LoadedFrom[doc]
           IN  /\ r.ok => r.config.state = "ready" /\ finalize(r.config) = [config |-> r.config, ok |-> TRUE] /\ Ready(r.config)
               /\ ~r.ok => ~finalize(r.config).ok
  <1> DEFINE r == loadFromJSON(NewConfig, doc)
  <1>1. LoadedFrom[doc] = r
    BY DEF LoadedFrom
  <1>2. /\ r.ok => r.config.state = "ready" /\ finalize(r.config) = [config |-> r.config, ok |-> TRUE]
        /\ ~r.ok => ~finalize(r.config).ok
        /\ r.ok => Ready(r.config)
    BY NewConfigIn, FileLoads
  <1> HIDE DEF r
  <1> QED BY <1>1, <1>2

(* The end of ConfigLoader::load keeps the invariant, whichever             *)
(* configuration it ends with,                                              *)
LEMMA LoadEndsInv ==
    ASSUME LoadInv, load
    PROVE  LoadInv'
  <1> DEFINE first == finalize(config)
  <1>1. loader = "options" /\ job' = job /\ late' = IF first.ok THEN late ELSE FALSE
    BY DEF load
  <1>2. /\ config \in Configs /\ config.state \in {"none", "ready"} /\ job = NoJob
        /\ config.state = "none" => Raw(config.pools)
        /\ config.state = "ready" /\ ~late => Ready(config)
    BY <1>1 DEF LoadInv, ConfigRight
  <1>3. JobRight'
    BY <1>1, <1>2 DEF NoJob, JobRight
  <1>4. CASE first.ok /\ config' = first.config /\ loader' = "running"
    <2>1. config'.state = "ready" /\ (config.state = "none" => Ready(config'))
      BY <1>2, <1>4, Finalizes
    <2>2. config.state = "ready" => first.config = config
      BY FinalizedStays
    <2>3. ~late' => Ready(config')
      BY <1>1, <1>2, <1>4, <2>1, <2>2
    <2>4. Ready(config)' <=> Ready(config')
      BY DEF Ready
    <2>5. ConfigRight'
      BY <1>4, <2>1, <2>3, <2>4 DEF ConfigRight
    <2> QED BY <1>1, <1>2, <1>3, <1>4, <2>5 DEF LoadInv
  <1>5. ASSUME NEW doc \in Documents,
               config' = finalize(LoadedFrom[doc].config).config,
               loader' = IF finalize(LoadedFrom[doc].config).ok THEN "running" ELSE "failed"
        PROVE  LoadInv'
    <2> DEFINE r == LoadedFrom[doc]
               s == finalize(r.config)
    <2>1. /\ r.ok => r.config.state = "ready" /\ s = [config |-> r.config, ok |-> TRUE] /\ Ready(r.config)
          /\ ~r.ok => ~s.ok
      BY FileAlone
    <2>2. config' = s.config /\ loader' = IF s.ok THEN "running" ELSE "failed"
      BY <1>5
    <2> HIDE DEF r, s
    <2>3. CASE s.ok
      <3>1. s.config = r.config /\ Ready(r.config) /\ r.config.state = "ready"
        BY <2>1, <2>3
      <3>2. loader' = "running" /\ Ready(config') /\ config'.state = "ready"
        BY <2>2, <2>3, <3>1
      <3>3. Ready(config)' <=> Ready(config')
        BY DEF Ready
      <3>4. ConfigRight'
        BY <3>2, <3>3 DEF ConfigRight
      <3> QED BY <1>1, <1>2, <1>3, <3>2, <3>4 DEF LoadInv
    <2>4. CASE ~s.ok
      <3>1. loader' = "failed"
        BY <2>2, <2>4
      <3>2. ConfigRight'
        BY <3>1 DEF ConfigRight
      <3> QED BY <1>1, <1>2, <1>3, <3>1, <3>2 DEF LoadInv
    <2> QED BY <2>3, <2>4
  <1>6. CASE loader' = "failed"
    <2>1. ConfigRight'
      BY <1>6 DEF ConfigRight
    <2> QED BY <1>1, <1>2, <1>3, <1>6, <2>1 DEF LoadInv
  <1> QED BY <1>4, <1>5, <1>6 DEF load

(* a file that has changed,                                                 *)
LEMMA ReloadInv ==
    ASSUME LoadInv, reload
    PROVE  LoadInv'
  <1>1. PICK doc \in Documents : LoadedFrom[doc].ok /\ config' = LoadedFrom[doc].config
    BY DEF reload
  <1>2. loader = "running" /\ loader' = loader /\ job' = NoJob
    BY DEF reload
  <1>3. Ready(config') /\ config'.state = "ready"
    BY <1>1, FileAlone
  <1>4. Ready(config)' <=> Ready(config')
    BY DEF Ready
  <1>5. ConfigRight'
    BY <1>2, <1>3, <1>4 DEF ConfigRight
  <1>6. JobRight'
    BY <1>2 DEF NoJob, JobRight
  <1> QED BY <1>2, <1>5, <1>6 DEF LoadInv

-----------------------------------------------------------------------------
(* The pools of a configuration that is in use.                             *)
LEMMA ReadyFits ==
    ASSUME NEW c, Ready(c)
    PROVE  /\ c.algorithm \in KnownAlgorithms /\ c.algorithm.algo \in Algo
           /\ Enabled(c.pools) # {}
           /\ \A p \in Enabled(c.pools) : p \in AnyPool /\ FitsPool(p, c.algorithm.algo)
  <1>1. /\ c \in Configs /\ Valid(c.algorithm) /\ active(c.pools) # 0
    BY DEF Ready
  <1>2. PICK raw \in PoolLists : Raw(raw) /\ c.pools = adjustPools(raw, c.algorithm)
    BY DEF Ready
  <1>3. c.algorithm \in KnownAlgorithms /\ c.pools \in PoolLists
    BY <1>1, ConfigIn
  <1>4. c.algorithm.algo \in Algo
    BY <1>1, <1>3 DEF KnownAlgorithms, Valid
  <1> DEFINE s == c.pools.data
  <1>5. s \in Seq(AnyPool) /\ DOMAIN s = DOMAIN raw.data
        /\ \A i \in DOMAIN s : isEnabled(s[i]) => FitsPool(s[i], c.algorithm.algo)
    BY <1>2, <1>3, PoolsAdjusted, PartsOfList
  <1>6. \E i \in DOMAIN s : isEnabled(s[i])
    BY <1>1, <1>3, SomeActive
  <1>7. \A p : p \in Enabled(c.pools) <=> \E i \in DOMAIN s : p = s[i] /\ isEnabled(s[i])
    BY DEF Enabled, ToSet
  <1>8. \A i \in DOMAIN s : s[i] \in AnyPool
    <2> HIDE DEF s
    <2> QED BY <1>5, ElementOfSeq, LenProperties
  <1> HIDE DEF s
  <1>9. \A p \in Enabled(c.pools) : p \in AnyPool /\ FitsPool(p, c.algorithm.algo)
    BY <1>5, <1>7, <1>8
  <1>10. Enabled(c.pools) # {}
    BY <1>6, <1>7
  <1> QED BY <1>3, <1>4, <1>9, <1>10

(* A job that is let in is one of those that its pool may give, so that     *)
(* it keeps the invariant,                                                  *)
LEMMA JobInv ==
    ASSUME LoadInv, onJob
    PROVE  LoadInv'
  <1>1. PICK p \in Enabled(config.pools), params \in Params :
          /\ parseJob(p, params).accepted
          /\ job' = [accepted |-> TRUE, from |-> "pool", algorithm |-> parseJob(p, params).algorithm]
    BY DEF onJob
  <1>2. loader = "running" /\ loader' = loader /\ config' = config /\ late' = late /\ config.state = "ready"
    BY DEF onJob, LoadInv, ConfigRight
  <1>3. job'.accepted /\ job'.algorithm = parseJob(p, params).algorithm
    BY <1>1
  <1>4. ~late => LET a == job'.algorithm
                 IN  a \in KnownAlgorithms /\ HasHash(Plain(a)) /\ a.algo = config.algorithm.algo
    <2> SUFFICES ASSUME ~late
                 PROVE  LET a == job'.algorithm
                        IN  a \in KnownAlgorithms /\ HasHash(Plain(a)) /\ a.algo = config.algorithm.algo
      OBVIOUS
    <2>1. Ready(config)
      BY <1>2 DEF LoadInv, ConfigRight
    <2>2. p \in AnyPool /\ FitsPool(p, config.algorithm.algo)
      BY <2>1, ReadyFits
    <2> QED BY <1>1, <1>3, <2>2, JobHashed
  <1>5. JobRight'
    BY <1>2, <1>3, <1>4 DEF JobRight
  <1>6. ConfigRight'
    BY <1>2 DEF LoadInv, ConfigRight, Ready
  <1> QED BY <1>2, <1>5, <1>6 DEF LoadInv

(* and so is that of a donation, of which the pool follows the algorithm    *)
(* of the user's job.                                                       *)
LEMMA DonationJobInv ==
    ASSUME LoadInv, onDonationJob
    PROVE  LoadInv'
  <1>1. PICK params \in Params :
          /\ parseJob(DonationPool, params).accepted
          /\ job' = [accepted |-> TRUE, from |-> "donation", algorithm |-> parseJob(DonationPool, params).algorithm]
    BY DEF onDonationJob
  <1>2. /\ loader = "running" /\ loader' = loader /\ config' = config /\ late' = late /\ config.state = "ready"
    BY DEF onDonationJob, LoadInv, ConfigRight
  <1>3. job'.accepted /\ job'.from # "pool" /\ job'.algorithm = parseJob(DonationPool, params).algorithm
    BY <1>1
  <1>4. ~late => LET a == job'.algorithm
                 IN  a \in KnownAlgorithms /\ HasHash(Plain(a)) /\ a.algo = config.algorithm.algo
    <2> SUFFICES ASSUME ~late
                 PROVE  LET a == job'.algorithm
                        IN  a \in KnownAlgorithms /\ HasHash(Plain(a)) /\ a.algo = config.algorithm.algo
      OBVIOUS
    <2> DEFINE algo == config.algorithm.algo
               adjusted == adjust([NewPool EXCEPT !.host = DonateHost], [algo |-> algo, variant |-> AutoVariant])
    <2>1. Ready(config)
      BY <1>2 DEF LoadInv, ConfigRight
    <2>2. algo \in Algo
      BY <2>1, ReadyFits
    <2>3. adjusted \in AnyPool /\ FitsPool(adjusted, algo)
      BY <2>2, DonationFits
    <2>4. DonationPool = IF job.from = "pool" THEN setPoolAlgo(adjusted, job.algorithm) ELSE adjusted
      BY DEF DonationPool
    <2>5. job.from = "pool" => /\ job.algorithm \in KnownAlgorithms /\ HasHash(Plain(job.algorithm))
                               /\ job.algorithm.algo = algo
      BY DEF LoadInv, JobRight
    <2> HIDE DEF adjusted, algo
    <2>6. DonationPool \in AnyPool /\ FitsPool(DonationPool, algo)
      <3>1. CASE job.from = "pool"
        BY <2>3, <2>4, <2>5, <3>1, FixedFits
      <3>2. CASE job.from # "pool"
        BY <2>3, <2>4, <3>2
      <3> QED BY <3>1, <3>2
    <2> QED BY <1>1, <1>3, <2>6, JobHashed DEF algo
  <1>5. JobRight'
    BY <1>2, <1>3, <1>4 DEF JobRight
  <1>6. ConfigRight'
    BY <1>2 DEF LoadInv, ConfigRight, Ready
  <1> QED BY <1>2, <1>5, <1>6 DEF LoadInv

(* The invariant holds in every state.                                      *)
LEMMA LoadHolds == Spec => []LoadInv
  <1>1. LoadInv /\ [Next]_vars => LoadInv'
    <2> SUFFICES ASSUME LoadInv, [Next]_vars
                 PROVE  LoadInv'
      OBVIOUS
    <2>1. ASSUME NEW o \in Options, parseOption(o) \/ parseUrl(o) \/ loadFromFile(o)
          PROVE  LoadInv'
      BY <2>1, OptionInv, UrlInv, FileInv
    <2>2. CASE load \/ reload \/ onJob \/ onDonationJob
      BY <2>2, LoadEndsInv, ReloadInv, JobInv, DonationJobInv
    <2>3. CASE UNCHANGED vars
      BY <2>3 DEF vars, LoadInv, ConfigRight, JobRight, Ready
    <2> QED BY <2>1, <2>2, <2>3 DEF Next
  <1> QED BY <1>1, LoadStarts, PTL DEF Spec

(* The pools in use fit the algorithm that the threads were made for, and   *)
(* every job that Client::parseJob lets in, of a pool or of a donation,     *)
(* has a function that was tested, a place in the table of them, a          *)
(* kernel, a loop with the right constants and the memory it needs.         *)
THEOREM JobsHashed == Spec => []JobsCanBeHashed
  <1>1. LoadInv => UsedPoolsFit
    <2> SUFFICES ASSUME LoadInv, loader = "running", ~late
                 PROVE  /\ Enabled(config.pools) # {}
                        /\ \A p \in Enabled(config.pools) :
                              p.algorithm.algo = config.algorithm.algo /\ Plain(p.algorithm) \in p.algorithms
      BY DEF UsedPoolsFit
    <2>1. Ready(config)
      BY DEF LoadInv, ConfigRight
    <2> QED BY <2>1, ReadyFits DEF FitsPool
  <1>2. LoadInv => HasFunctions
    <2> SUFFICES ASSUME LoadInv, job.accepted, ~late, job.algorithm.variant # AutoVariant
                 PROVE  HasFunctions
      BY DEF HasFunctions
    <2> DEFINE a == job.algorithm
    <2>1. a \in KnownAlgorithms /\ HasHash(Plain(a)) /\ a.algo = config.algorithm.algo
      BY DEF LoadInv, JobRight
    <2>2. a.variant # AutoVariant
      OBVIOUS
    <2> DEFINE k == [algo |-> a.algo, variant |-> a.variant]
    <2>3. /\ cn_select_mask(a.algo) < cn_select_memory(a.algo)
          /\ Hashable(k) /\ k.variant \in SelfTested(k.algo) /\ Dispatch(k) = k.variant
          /\ \A av \in 1..2 : FunctionIndex(k, av) \in 0..(2 * Len(VariantNames) * Len(AlgoNames) - 1)
      <3> HIDE DEF a
      <3> QED BY <2>1, <2>2, HashedRuns
    <2>4. [algo |-> config.algorithm.algo, variant |-> job.algorithm.variant] = k
      BY <2>1
    <2> QED BY <2>1, <2>3, <2>4 DEF HasFunctions
  <1>3. LoadInv => PatchesFit
    <2> SUFFICES ASSUME LoadInv, job.accepted, ~late, job.algorithm.variant \in PatchedVariants
                 PROVE  /\ Patched(job.algorithm.variant) = [iter |-> TemplateIter(Plain(job.algorithm)),
                                                             mask |-> cn_select_mask(job.algorithm.algo)]
                        /\ \A w \in PatchedVariants, i, j \in 0..3 :
                              PatchSlot(job.algorithm.variant, i) = PatchSlot(w, j) => job.algorithm.variant = w /\ i = j
      BY DEF PatchesFit
    <2> DEFINE a == job.algorithm
    <2>1. a \in KnownAlgorithms /\ HasHash(Plain(a)) /\ a.variant \in PatchedVariants
      BY DEF LoadInv, JobRight
    <2>2. a.variant # AutoVariant
      BY <2>1 DEF PatchedVariants, AutoVariant
    <2> HIDE DEF a
    <2>3. Patched(a.variant) = [iter |-> TemplateIter(Plain(a)), mask |-> cn_select_mask(a.algo)]
      BY <2>1, <2>2, HashedRuns
    <2> QED BY <2>1, <2>3, PatchPlaces DEF a
  <1> QED BY <1>1, <1>2, <1>3, LoadHolds, PTL DEF JobsCanBeHashed

(* A configuration that is saved and loaded is equal to the one in use,     *)
(* so that the reload that follows the save does not start the pools        *)
(* again, and none of its numbers changes.                                  *)
THEOREM SavedStays == Spec => []SavedIsSame
  <1>1. LoadInv => SavedIsSame
    <2> SUFFICES ASSUME LoadInv, loader = "running", ~late
                 PROVE  LET again == loadFromJSON(NewConfig, Written(config))
                        IN  /\ again.ok
                            /\ samePools(again.config.pools, config.pools)
                            /\ again.config.numbers = config.numbers
                            /\ Plain(again.config.algorithm) = Plain(config.algorithm)
      BY DEF SavedIsSame
    <2>1. Ready(config)
      BY DEF LoadInv, ConfigRight
    <2> QED BY <2>1, SavedReads
  <1> QED BY <1>1, LoadHolds, PTL

=============================================================================
