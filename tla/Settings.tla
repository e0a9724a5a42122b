------------------------------ MODULE Settings ------------------------------
(***************************************************************************)
(* The configuration from the command line to the jobs it lets in          *)
(* (common/config/CommonConfig.cpp, common/config/ConfigLoader.cpp,        *)
(* core/Config.cpp).  Options are parsed one by one, --config among them   *)
(* loads a file; then the configuration is finalized, once; a file that    *)
(* changes makes a new one.  Jobs are then accepted by the algorithms of   *)
(* its pools, and hashed by the functions and kernels of its algorithm.    *)
(***************************************************************************)
EXTENDS Jobs

CONSTANTS
    Options,        \* the options a command line may hold
    Documents,      \* the configuration files
    Params,         \* the jobs that pools send
    MaxOptions      \* bounds the command line

(* The numbers of a file, and those of them that are not the pools'. *)
NumberKeys == {"donate-level", "max-gpu-temp", "gpu-temp-falloff", "gpu-fan-level",
               "api-port", "print-time"}
FileNumbers == NumberKeys \cup {"retries", "retry-pause"}

DonateHost == "other"

ASSUME SettingsAssumption ==
    /\ DonateHost \in Names
    /\ Options \subseteq [key : STRING, value : JsonValues, url : Urls]
    /\ Documents \subseteq [algo : JsonValues, numbers : [FileNumbers -> JsonValues], pools : Seq(PoolObjects)]
    /\ Params \subseteq [wellFormed : BOOLEAN, version : Nat, algo : JsonValues, variant : JsonValues]

VARIABLES
    loader,          \* "options", "running", "failed"
    config,
    parsed,         \* how many options have been parsed
    late,           \* history: one was parsed after the configuration was ready
    job             \* the last job

vars == <<loader, config, parsed, late, job>>

-----------------------------------------------------------------------------
(* Numbers and their ranges (parseInt). *)

kMinimumDonateLevel == 1
Allowed(key) ==
    CASE key = "donate-level" -> kMinimumDonateLevel..99
      [] key \in {"max-gpu-temp", "gpu-temp-falloff"} -> 1..100
      [] key = "gpu-fan-level" -> -1..100
      [] key = "api-port" -> 1..65536
      [] key = "print-time" -> 0..3600
DefaultNumbers ==
    [key \in NumberKeys |->
        CASE key = "donate-level" -> 5 [] key = "max-gpu-temp" -> 75 [] key = "gpu-temp-falloff" -> 10
          [] key = "gpu-fan-level" -> 0 [] key = "api-port" -> 0 [] key = "print-time" -> 60]

NewConfig ==
    [algorithm |-> [algo |-> "CN", variant |-> AutoVariant, forced |-> FALSE],
     pools |-> NewPools, numbers |-> DefaultNumbers, state |-> "none"]

parseInt(c, key, n) ==
    CASE key = "retries" -> [c EXCEPT !.pools = setRetries(@, n)]
      [] key = "retry-pause" -> [c EXCEPT !.pools = setRetryPause(@, n)]
      [] key = "keepalive" -> [c EXCEPT !.pools = SetCurrent(@, setKeepAlive(current(@), n))]
      [] key \in NumberKeys -> IF n \in Allowed(key) THEN [c EXCEPT !.numbers[key] = n] ELSE c

parseBoolean(c, key, enable) ==
    CASE key = "keepalive" -> [c EXCEPT !.pools = SetCurrent(@, KeepAliveEnabled(current(@), enable))]
      [] key = "tls" -> [c EXCEPT !.pools = SetCurrent(@, [current(@) EXCEPT !.tls = enable])]
      [] key = "nicehash" -> [c EXCEPT !.pools = SetCurrent(@, [current(@) EXCEPT !.nicehash = enable])]

(* finalize: the pools are adjusted to the algorithm once; it fails for good. *)
finalize(c) ==
    LET adjusted == [c EXCEPT !.pools = adjustPools(@, c.algorithm)]
    IN  CASE c.state = "ready" -> [config |-> c, ok |-> TRUE]
          [] c.state = "error" -> [config |-> c, ok |-> FALSE]
          [] c.state = "none" /\ ~Valid(c.algorithm) -> [config |-> c, ok |-> FALSE]
          [] OTHER ->
                IF active(adjusted.pools) = 0
                THEN [config |-> [adjusted EXCEPT !.state = "error"], ok |-> FALSE]
                ELSE [config |-> [adjusted EXCEPT !.state = "ready"], ok |-> TRUE]

(* loadFromJSON: the options of the file, each of which sets what is its own, then
   the pools, which replace those there are, then finalize. *)
parseJSON(c, key, value) ==
    IF value.type = "int" THEN parseInt(c, key, value.number) ELSE c
loadFromJSON(c, doc) ==
    LET named == IF doc.algo = Null THEN c
                 ELSE [c EXCEPT !.algorithm = AlgorithmParsed(@, doc.algo)]
        numbered == [named EXCEPT !.numbers =
                        [key \in NumberKeys |-> parseJSON(c, key, doc.numbers[key]).numbers[key]]]
        tried  == parseJSON(numbered, "retries", doc.numbers["retries"])
        paused == parseJSON(tried, "retry-pause", doc.numbers["retry-pause"])
    IN  finalize([paused EXCEPT !.pools = loadPools(@, doc.pools)])

(* getJSON: what save() writes. *)
Written(c) ==
    [algo |-> Text(Name(c.algorithm.algo, c.algorithm.variant, FALSE)),
     numbers |-> [key \in FileNumbers |->
                    CASE key = "retries" -> Number(c.pools.retries)
                      [] key = "retry-pause" -> Number(c.pools.retryPause)
                      [] OTHER -> Number(c.numbers[key])],
     pools |-> PoolsJSON(c.pools)]

-----------------------------------------------------------------------------
(* The command line. *)

(* What each file alone makes of a new configuration. *)
LoadedFrom == [doc \in Documents |-> loadFromJSON(NewConfig, doc)]

NoJob == [accepted |-> FALSE, from |-> "none", algorithm |-> InvalidAlgorithm]

Init ==
    /\ loader = "options" /\ config = NewConfig /\ parsed = 0 /\ late = FALSE /\ job = NoJob

Option(o) ==
    /\ loader = "options" /\ parsed < MaxOptions
    /\ parsed' = parsed + 1
    /\ late' = (late \/ config.state = "ready")
    /\ UNCHANGED job

(* parseString of a value, parseBoolean of a switch. *)
parseOption(o) ==
    /\ Option(o)
    /\ o.key \in {"algo", "user", "variant", "keepalive", "tls", "nicehash"} \cup FileNumbers
    /\ config' =
        CASE o.key = "algo" -> [config EXCEPT !.algorithm = AlgorithmParsed(@, o.value)]
          [] o.key = "user" ->
                [config EXCEPT !.pools = SetCurrent(@, [current(@) EXCEPT !.user = o.value.text])]
          [] o.key = "variant" ->
                [config EXCEPT !.pools = SetCurrent(@, VariantOption(current(@), o.value))]
          [] o.key \in {"keepalive", "tls", "nicehash"} -> parseBoolean(config, o.key, TRUE)
          [] o.key \in FileNumbers -> parseInt(config, o.key, o.value.number)
    /\ UNCHANGED loader

parseUrl(o) ==
    /\ Option(o) /\ o.key = "url"
    /\ LET set == setUrl(config.pools, o.url)
       IN  /\ config' = [config EXCEPT !.pools = set.pools]
           /\ loader' = IF set.ok THEN loader ELSE "failed"

(* --config: a file that cannot be read, or gives no pool, ends the program. *)
loadFromFile(o) ==
    /\ Option(o) /\ o.key = "config"
    /\ \/ \E doc \in Documents :
            LET loaded == loadFromJSON(config, doc)
            IN  /\ config' = loaded.config
                /\ loader' = IF loaded.ok THEN loader ELSE "failed"
       \/ loader' = "failed" /\ UNCHANGED config

(* The end of ConfigLoader::load: options that make no configuration are
   forgotten, and the file beside the program is loaded. *)
load ==
    /\ loader = "options"
    /\ LET first == finalize(config)
       IN  \/ /\ first.ok
              /\ config' = first.config /\ loader' = "running"
           \/ /\ ~first.ok
              /\ \E doc \in Documents :
                    LET second == finalize(LoadedFrom[doc].config)
                    IN  /\ config' = second.config
                        /\ loader' = IF second.ok THEN "running" ELSE "failed"
           \/ /\ ~first.ok
              /\ config' = finalize(NewConfig).config /\ loader' = "failed"
    /\ late' = IF finalize(config).ok THEN late ELSE FALSE
    /\ parsed' = MaxOptions
    /\ UNCHANGED job

(* The file has changed (or was written by the API): a configuration that loads
   takes the place of the old one. *)
reload ==
    /\ loader = "running"
    /\ \E doc \in Documents : LoadedFrom[doc].ok /\ config' = LoadedFrom[doc].config
    /\ late' = FALSE /\ job' = NoJob
    /\ UNCHANGED <<loader, parsed>>

(* A job of a pool that the strategy was given; one that is refused changes
   nothing (the connection is closed). *)
onJob ==
    /\ loader = "running"
    /\ \E pool \in Enabled(config.pools), params \in Params :
        LET r == parseJob(pool, params)
        IN  r.accepted /\ job' = [accepted |-> TRUE, from |-> "pool", algorithm |-> r.algorithm]
    /\ UNCHANGED <<loader, config, parsed, late>>

(* The pool of a donation has the algorithm of the configuration, and from the
   user's first job on that of the user's jobs. *)
DonationPool ==
    LET adjusted == adjust([NewPool EXCEPT !.host = DonateHost],
                           [algo |-> config.algorithm.algo, variant |-> AutoVariant])
    IN  IF job.from = "pool" THEN setPoolAlgo(adjusted, job.algorithm) ELSE adjusted

onDonationJob ==
    /\ loader = "running" /\ job.from # "donation"
    /\ \E pool \in {DonationPool}, params \in Params :
        LET r == parseJob(pool, params)
        IN  r.accepted /\ job' = [accepted |-> TRUE, from |-> "donation", algorithm |-> r.algorithm]
    /\ UNCHANGED <<loader, config, parsed, late>>

Next ==
    \/ \E o \in Options : parseOption(o) \/ parseUrl(o) \/ loadFromFile(o)
    \/ load \/ reload \/ onJob \/ onDonationJob

Spec == Init /\ [][Next]_vars

-----------------------------------------------------------------------------
(* The pools that are used have the algorithm that the threads hash and that *)
(* the memory is for, and each names the variants its jobs may have; unless  *)
(* an option came after --config, which the pools of the file do not follow. *)
UsedPoolsFit ==
    loader = "running" /\ ~late /\ job = NoJob =>
        /\ Enabled(config.pools) # {}
        /\ \A p \in Enabled(config.pools) :
                p.algorithm.algo = config.algorithm.algo /\ Plain(p.algorithm) \in p.algorithms

(* Every job that gets in, of a pool or of a donation, can be hashed: the    *)
(* CPU has a function for it, that function was tested at the start, and the *)
(* cards have a kernel for it, all under the algorithm of the configuration,  *)
(* and in the memory that was taken for that one.                            *)
(* A job that says its variant is none of those known is the exception.      *)
HasFunctions ==
    job.accepted /\ ~late /\ job.algorithm.variant # AutoVariant =>
        LET k == [algo |-> config.algorithm.algo, variant |-> job.algorithm.variant]
        IN  /\ job.algorithm.algo = k.algo
            /\ cn_select_mask(job.algorithm.algo) < cn_select_memory(config.algorithm.algo)
            /\ Hashable(k) /\ k.variant \in SelfTested(k.algo)
            /\ Dispatch(k) = k.variant
            /\ \A av \in 1..2 : FunctionIndex(k, av) \in 0..(2 * Len(VariantNames) * Len(AlgoNames) - 1)

(* The assembler loops that are patched for a job's variant do what the      *)
(* compiled ones do, and each has its own place in the executable memory.    *)
PatchedVariants == {"HALF", "TRTL", "ZLS", "DOUBLE"}
PatchesFit ==
    job.accepted /\ ~late /\ job.algorithm.variant \in PatchedVariants =>
        LET v == job.algorithm.variant
        IN  /\ Patched(v) = [iter |-> TemplateIter(Plain(job.algorithm)),
                             mask |-> cn_select_mask(job.algorithm.algo)]
            /\ \A w \in PatchedVariants, i, j \in 0..3 :
                    PatchSlot(v, i) = PatchSlot(w, j) => v = w /\ i = j

(* A configuration that is saved and loaded is the same: the pools are equal *)
(* to those in use, so that a reload does not start them again, and every    *)
(* number stays.                                                             *)
SavedIsSame ==
    loader = "running" /\ ~late /\ job = NoJob =>
        LET again == loadFromJSON(NewConfig, Written(config))
        IN  /\ again.ok
            /\ samePools(again.config.pools, config.pools)
            /\ again.config.numbers = config.numbers
            /\ Plain(again.config.algorithm) = Plain(config.algorithm)

(* The pools fit the configuration, and whatever job they give can be hashed *)
(* by the functions, the loops and the kernels of its algorithm.             *)
JobsCanBeHashed == UsedPoolsFit /\ HasFunctions /\ PatchesFit
=============================================================================
