------------------------------- MODULE Pools -------------------------------
(***************************************************************************)
(* The user's pools (base/net/Pool.cpp, base/net/Pools.cpp): how an        *)
(* address and the options of a pool are parsed, which algorithm each pool *)
(* is mined with, which other algorithms its jobs may ask for, and how     *)
(* pools are written to the configuration.                                 *)
(*                                                                         *)
(* A host is one of a few names that the code tells apart by parts of      *)
(* them; user names, passwords and fingerprints are opaque.                *)
(***************************************************************************)
EXTENDS Algorithms, Integers, FiniteSets

CONSTANT Names      \* the texts there are: schemes, hosts, users, names of algorithms

ASSUME NamesAssumption == {"", "null"} \subseteq Names

NiceHash   == {"cryptonight.nicehash.com", "cryptonightv7.nicehash.com",
               "cryptonightv8.nicehash.com", "cryptonightheavy.nicehash.com"}
MinerGate  == {"xmr.pool.minergate.com", "aeon.pool.minergate.com", "bcn.pool.minergate.com"}
NoHost     == "null"

(* JsonValues of the configuration file; Null is also that of a missing member. *)
JsonValues == [type : {"null", "int", "bool", "string"}, number : Int, text : Names, forced : BOOLEAN]
Value(type, number, text, forced) == [type |-> type, number |-> number, text |-> text, forced |-> forced]
Null     == Value("null", 0, "", FALSE)
Number(n) == Value("int", n, "", FALSE)
Bool(b)  == Value("bool", IF b THEN 1 ELSE 0, "", FALSE)
Text(s)  == Value("string", 0, s, FALSE)
ForcedText(s) == Value("string", 0, s, TRUE)        \* "!" before the name
getBool(value, default) == IF value.type = "bool" THEN value.number = 1 ELSE default
getText(value) == IF value.type = "string" THEN value.text ELSE "null"

-----------------------------------------------------------------------------
(* Algorithms with the flag that forbids to replace their variant; nothing
   ever clears it. *)
InvalidAlgorithm == [algo |-> Invalid, variant |-> AutoVariant, forced |-> FALSE]
Plain(a)  == [algo |-> a.algo, variant |-> a.variant]
Valid(a)  == a.algo # Invalid /\ isValid(a.algo, a.variant)
SetVariant(a, v) == [a EXCEPT !.variant = v]
SetAlgo(a, algo) ==
    LET k == setAlgo(algo, a.variant) IN [a EXCEPT !.algo = k.algo, !.variant = k.variant]

AlgorithmParsed(a, value) ==
    LET k == parseAlgorithm(value.text)
    IN  [algo |-> k.algo, variant |-> k.variant, forced |-> a.forced \/ value.forced]

VariantParsed(a, value) ==
    CASE value.type = "string" ->
           [a EXCEPT !.variant = parseVariant(value.text), !.forced = @ \/ value.forced]
      [] value.type = "int" /\ value.number \in -1..2 -> SetVariant(a, parseVariantNumber(value.number))
      [] OTHER -> a

-----------------------------------------------------------------------------
(* A pool. *)

kDefaultPort == 3333
kKeepAliveTimeout == 60

(* An address: the scheme, "" for none; the host, "" when the address ends there
   or a slash follows; the port, absent as NoPort; and what else an address in
   brackets lacks.  The port is cut to 16 bits. *)
NoPort == -1
Url(scheme, host, port) == [scheme |-> scheme, host |-> host, port |-> port, brackets |-> "none"]
Bracketed(host, port, lacks) == [scheme |-> "", host |-> host, port |-> port, brackets |-> lacks]
NoUrl == Url("", "", NoPort)
Urls == [scheme : Names, host : Names, port : Nat \cup {NoPort}, brackets : {"none", "bracket", "port"}]

NewPool ==
    [enabled |-> TRUE, nicehash |-> FALSE, tls |-> FALSE, keepAlive |-> 0,
     host |-> NoHost, port |-> kDefaultPort, url |-> NoUrl, user |-> "null",
     fingerprint |-> "null", algorithm |-> InvalidAlgorithm, algorithms |-> {}]

isValidPool(p) == p.host # NoHost /\ p.port > 0
isEnabled(p)   == p.enabled /\ isValidPool(p) /\ Valid(p.algorithm)
isCompatible(p, a) == p.algorithms = {} \/ Plain(a) \in p.algorithms

(* isEqual compares all but the algorithms that follow from the algorithm, and
   of that the flag is not looked at. *)
Compared(p) == [p EXCEPT !.algorithms = {}, !.algorithm = [@ EXCEPT !.forced = FALSE]]
isEqual(p, q) == Compared(p) = Compared(q)


Schemed(p, url) == IF url.scheme = "" THEN p ELSE [p EXCEPT !.tls = url.scheme = "stratum+ssl"]
Addressed(p, url) ==
    [p EXCEPT !.url = url, !.host = url.host,
              !.port = IF url.port = NoPort THEN @ ELSE url.port % 65536]

(* parse: what the pool is afterwards, and whether it has succeeded. *)
parse(p, url) ==
    LET known == url.scheme \in {"", "stratum+tcp", "stratum+ssl"}
    IN  CASE ~known -> [pool |-> p, ok |-> FALSE]
          [] known /\ url.host = "" -> [pool |-> Schemed(p, url), ok |-> FALSE]
          [] known /\ url.host # "" /\ url.brackets \in {"bracket", "port"} ->    \* "]", or ":" after it, is missing
                [pool |-> [Schemed(p, url) EXCEPT !.url = url], ok |-> FALSE]
          [] OTHER -> [pool |-> Addressed(Schemed(p, url), url), ok |-> TRUE]

setKeepAlive(p, n) == [p EXCEPT !.keepAlive = IF n >= 0 THEN n ELSE 0]
KeepAliveEnabled(p, enable) == setKeepAlive(p, IF enable THEN kKeepAliveTimeout ELSE 0)

VariantOption(p, value) == [p EXCEPT !.algorithm = VariantParsed(@, value)]

PoolObjects ==
    [url : Urls, user : JsonValues, nicehash : JsonValues, keepalive : JsonValues, variant : JsonValues,
     enabled : JsonValues, tls : JsonValues, fingerprint : JsonValues]

(* A pool of the configuration file.  The address of one without any is not
   looked for: such files are not modelled, as the code then reads from null. *)
PoolOf(object) ==
    LET parsed == parse(NewPool, object.url)
        p == [parsed.pool EXCEPT !.user = getText(object.user), !.nicehash = getBool(object.nicehash, FALSE)]
        k == CASE object.keepalive.type = "int" -> setKeepAlive(p, object.keepalive.number)
               [] object.keepalive.type = "bool" -> KeepAliveEnabled(p, object.keepalive.number = 1)
               [] OTHER -> p
    IN  IF ~parsed.ok THEN parsed.pool
        ELSE [k EXCEPT !.algorithm = VariantParsed(@, object.variant),
                       !.enabled = getBool(object.enabled, TRUE),
                       !.tls = getBool(object.tls, FALSE),
                       !.fingerprint = getText(object.fingerprint)]

(* How a pool is written; a forced variant is written without its "!". *)
TextOrNull(s) == IF s = "null" THEN Null ELSE Text(s)
KeepAliveJSON(p) ==
    IF p.keepAlive \in {0, kKeepAliveTimeout} THEN Bool(p.keepAlive > 0) ELSE Number(p.keepAlive)
VariantJSON(v) ==
    CASE v = AutoVariant -> Number(-1) [] v = "0" -> Number(0) [] v = "1" -> Number(1) [] v = "2" -> Number(2)
      [] OTHER -> Text(variantName(v))
PoolJSON(p) ==
    [url |-> p.url, user |-> TextOrNull(p.user), nicehash |-> Bool(p.nicehash),
     keepalive |-> KeepAliveJSON(p), variant |-> VariantJSON(p.algorithm.variant),
     enabled |-> Bool(p.enabled), tls |-> Bool(p.tls), fingerprint |-> TextOrNull(p.fingerprint)]

-----------------------------------------------------------------------------
(* The algorithm of a pool. *)

(* nicehash.com: each port is for one variant, and for one algorithm by name. *)
NiceHashVariant(p) ==
    CASE p.port \in {3355, 33355} -> [variant |-> "0", algo |-> "CN", host |-> "cryptonight.nicehash.com"]
      [] p.port \in {3363, 33363} -> [variant |-> "1", algo |-> "CN", host |-> "cryptonightv7.nicehash.com"]
      [] p.port = 3364 -> [variant |-> "0", algo |-> "HEAVY", host |-> "cryptonightheavy.nicehash.com"]
      [] p.port \in {3367, 33367} -> [variant |-> "2", algo |-> "CN", host |-> "cryptonightv8.nicehash.com"]
      [] OTHER -> [variant |-> p.algorithm.variant, algo |-> p.algorithm.algo, host |-> p.host]
Adjusted(a, variant, valid) ==
    IF valid THEN SetVariant(a, variant) ELSE SetAlgo(SetVariant(a, variant), Invalid)

NiceHashPool(p) ==
    LET is == NiceHashVariant(p)
    IN  [p EXCEPT !.keepAlive = 0, !.nicehash = TRUE, !.tls = p.port > 33000,
                  !.algorithm = Adjusted(@, is.variant, @.algo = is.algo /\ p.host = is.host)]

(* minergate.com: xmr.pool is cn, aeon.pool at its port cn-lite. *)
MinerGateAlgorithm(p) ==
    CASE p.host = "xmr.pool.minergate.com" ->
            Adjusted(p.algorithm, IF p.port = 45700 THEN AutoVariant ELSE "0", p.algorithm.algo = "CN")
      [] p.host = "aeon.pool.minergate.com" /\ p.port = 45690 ->
            Adjusted(p.algorithm, "1", p.algorithm.algo = "LITE")
      [] OTHER -> SetVariant(p.algorithm, "1")
MinerGatePool(p) == [p EXCEPT !.keepAlive = 0, !.algorithm = MinerGateAlgorithm(p)]

DefaultVariant(a) ==
    IF a.variant # AutoVariant THEN a
    ELSE CASE a.algo = "HEAVY" -> SetVariant(a, "0")
           [] a.algo = "LITE" -> SetVariant(a, "1")
           [] OTHER -> a

adjustVariant(p, hint) ==
    CASE p.host \in NiceHash  -> NiceHashPool(p)
      [] p.host \in MinerGate -> MinerGatePool(p)
      [] OTHER -> [p EXCEPT !.algorithm = IF hint # AutoVariant THEN SetVariant(@, hint) ELSE DefaultVariant(@)]

(* rebuild: its own algorithm, and the variants of it that jobs may ask for. *)
Offered == {"4", "WOW", "2", "1", "0", "HALF", "XTL", "TUBE", "MSR", "XHV", "XAO", "RTO",
            "GPU", "RWZ", "ZLS", "DOUBLE", AutoVariant}
(* Mutant of rebuild: the variants of every algorithm. *)
rebuildForAny(p) ==
    [p EXCEPT !.algorithms =
        IF ~Valid(p.algorithm) THEN {}
        ELSE {[algo |-> a, variant |-> v] : a \in Algo, v \in Offered}]

addVariant(p, v) ==
    {k \in {setAlgo(p.algorithm.algo, v)} : isValid(k.algo, k.variant)}

rebuild(p) ==
    [p EXCEPT !.algorithms =
        IF ~Valid(p.algorithm) THEN {}
        ELSE {Plain(p.algorithm)} \cup UNION {addVariant(p, v) : v \in Offered}]

(* adjust: with the algorithm of the configuration, unless it has one. *)
adjust(p, algorithm) ==
    IF ~isValidPool(p) THEN p
    ELSE rebuild(IF Valid(p.algorithm) THEN p
                 ELSE adjustVariant([p EXCEPT !.algorithm = SetAlgo(@, algorithm.algo)], algorithm.variant))

setPoolAlgo(p, algorithm) == rebuild([p EXCEPT !.algorithm = algorithm])

-----------------------------------------------------------------------------
(* The list of pools: data, retries, retryPause. *)

NewPools == [data |-> <<>>, retries |-> 5, retryPause |-> 5]

(* current(): the options of a pool are for the last one, if need be a new one. *)
current(pools) == IF pools.data = <<>> THEN NewPool ELSE Last(pools.data)
SetCurrent(pools, p) ==
    [pools EXCEPT !.data = IF @ = <<>> THEN <<p>> ELSE Append(Front(@), p)]

setUrl(pools, url) ==
    IF pools.data = <<>> \/ isValidPool(Last(pools.data))
    THEN LET parsed == parse(NewPool, url).pool
         IN  [pools |-> IF isValidPool(parsed) THEN [pools EXCEPT !.data = Append(@, parsed)] ELSE pools,
              ok |-> isValidPool(parsed)]
    ELSE LET changed == SetCurrent(pools, parse(current(pools), url).pool)
         IN  [pools |-> changed, ok |-> isValidPool(Last(changed.data))]

(* load: of the pools of the file, those that are valid. *)
loadPool(data, object) ==
    IF isValidPool(PoolOf(object)) THEN Append(data, PoolOf(object)) ELSE data
loadPools(pools, objects) == [pools EXCEPT !.data = FoldLeft(loadPool, <<>>, objects)]

adjustPools(pools, algorithm) ==
    [pools EXCEPT !.data = [i \in DOMAIN @ |-> adjust(@[i], algorithm)]]

(* The pools a strategy is created with: a single one has SinglePoolStrategy. *)
Enabled(pools) == {p \in ToSet(pools.data) : isEnabled(p)}
active(pools)  == Cardinality({i \in DOMAIN pools.data : isEnabled(pools.data[i])})

samePools(p, q) ==
    /\ p.retries = q.retries /\ p.retryPause = q.retryPause
    /\ Len(p.data) = Len(q.data)
    /\ \A i \in DOMAIN p.data : isEqual(p.data[i], q.data[i])

PoolsJSON(pools) == [i \in DOMAIN pools.data |-> PoolJSON(pools.data[i])]
setRetries(pools, n) == IF n \in 1..1000 THEN [pools EXCEPT !.retries = n] ELSE pools
setRetryPause(pools, n) == IF n \in 1..3600 THEN [pools EXCEPT !.retryPause = n] ELSE pools
=============================================================================
