----------------------------- MODULE MCSettings -----------------------------
(* The configuration: its pools and jobs, its threads, the rates that are   *)
(* shown for them, and the connection to a pool as it is configured.  In a  *)
(* behaviour one of the machines runs and the others stay where they start. *)
(*                                                                          *)
(* Settings: command lines of three options, and files of two pools: each   *)
(* way of naming an algorithm, a pool of each kind of host, and jobs on     *)
(* both sides of every block version that changes the variant.              *)
(* Threads: cards of each generation with little memory and much, command   *)
(* lines of two options, files written by others.                           *)
(* Hashrate: one card, and a ring that is overwritten.                      *)
(* Stream: lines of two, one and three pieces, more than the buffer of TLS  *)
(* or the room of the other one takes at once.                              *)
(* Targets: words of eight bits.                                            *)
EXTENDS Settings, Threads, Hashrate, Stream, Targets

VARIABLE machine

MCNames == STRING

Opt(key, value, url) == [key |-> key, value |-> value, url |-> url]
Plain3333 == Url("", "pool", 3333)

MCOptions ==
    {Opt("algo", Text(name), NoUrl) :
        name \in {"cryptonight", "cn/wow", "cn-lite", "cryptonight-heavy", "cryptonight-turtle", "unknown"}}
    \cup {Opt("algo", ForcedText("cn/xtl"), NoUrl)}
    \cup {Opt("variant", value, NoUrl) : value \in {Text("rwz"), ForcedText("msr"), Text("1"), Text("2")}}
    \cup {Opt("url", Null, url) :
            url \in {Plain3333, Url("stratum+ssl", "other", NoPort), Url("http", "pool", 80),
                     Url("", "cryptonightheavy.nicehash.com", 3364), Bracketed("other", NoPort, "port")}}
    \cup {Opt(key, Null, NoUrl) : key \in {"keepalive", "config"}}
    \cup {Opt("user", Text("me"), NoUrl), Opt("gpu-fan-level", Number(-1), NoUrl),
          Opt("retries", Number(0), NoUrl)}

Object(url, variant, keepalive, tls) ==
    [url |-> url, user |-> Text("me"), nicehash |-> Null, keepalive |-> keepalive, variant |-> variant,
     enabled |-> Null, tls |-> tls, fingerprint |-> Null]
MCObjects ==
    {Object(Plain3333, variant, Null, Null) : variant \in {Null, Text("zls"), ForcedText("xtl"), Number(2)}}
    \cup {Object(Url("stratum+ssl", "other", 443), Null, Number(30), Null),
          Object(Url("", "cryptonightv8.nicehash.com", 33367), Null, Bool(TRUE), Bool(FALSE)),
          Object(Url("", "xmr.pool.minergate.com", 45700), Null, Null, Bool(TRUE)),
          [Object(Plain3333, Null, Null, Null) EXCEPT !.enabled = Bool(FALSE)]}
NoNumbers == [key \in FileNumbers |-> Null]
MCDocuments ==
    {[algo |-> algo, numbers |-> [NoNumbers EXCEPT !["print-time"] = Number(0)], pools |-> <<object>>] :
        algo \in {Null, Text("cryptonight-heavy")}, object \in MCObjects}
    \cup {[algo |-> Text("cryptonight-lite"), numbers |-> NoNumbers, pools |-> <<one, two>>] :
            one \in {o \in MCObjects : o.url # Plain3333}, two \in {Object(Plain3333, Number(1), Null, Null)}}

MCParams ==
    {[wellFormed |-> TRUE, version |-> version, algo |-> algo, variant |-> variant] :
        version \in {7, 8, 10, 11, 12},
        algo \in {Null, Text("cn/xtl"), Text("cn"), Text("cn-heavy")},
        variant \in {Null, Number(1), Text("xhv"), Text("unknown")}}

-----------------------------------------------------------------------------
Mb == GiB \div 1024
Pci(domain, bus) == [domain |-> domain, bus |-> bus, device |-> 0]
Gpu(major, mpcount, free, pci) ==
    [major |-> major, mpcount |-> mpcount, free |-> free * Mb, pci |-> pci, usable |-> TRUE]
Pascal == Gpu(6, 10, 3900, Pci(0, 1))
Turing == Gpu(7, 46, 7800, Pci(0, 2))
TwinDomain == Gpu(6, 20, 7800, Pci(1, 1))
Maxwell == Gpu(5, 5, 850, Pci(0, 3))
Fermi == Gpu(2, 15, 1300, Pci(0, 4))
Tiny == Gpu(5, 3, 100, Pci(0, 5))
MCRigs ==
    {[cards |-> cards, nvml |-> nvml] :
        cards \in {<<Pascal, TwinDomain>>, <<Maxwell>>, <<[Maxwell EXCEPT !.free = 300 * Mb]>>, <<[Turing EXCEPT !.usable = FALSE], Fermi>>},
        nvml \in {<<>>, <<Pci(0, 2), Pci(1, 1), Pci(0, 1), Pci(0, 3)>>}}
    \cup {[cards |-> cards, nvml |-> <<Pci(0, 2)>>] : cards \in {<<Turing>>, <<Tiny>>}}
MCLaunchKinds ==
    {[algo |-> algo, variants |-> {AutoVariant}] : algo \in Algo} \cup {[algo |-> "CN", variants |-> {"1"}]}

CudaOpt(key, value) == [key |-> key, value |-> value]
TxB(count, blocks) == [threads |-> count, blocks |-> blocks]
MCLaunchOptions ==
    {CudaOpt("cuda-launch", <<TxB(8, 30), TxB(0, 15)>>), CudaOpt("cuda-launch", <<TxB(200, 4)>>),
     CudaOpt("cuda-devices", <<0>>), CudaOpt("cuda-devices", <<1, 7, 0>>),
     CudaOpt("cuda-bfactor", <<8, 20>>), CudaOpt("cuda-bfactor", <<12>>),
     CudaOpt("cuda-bsleep", <<25>>), CudaOpt("cuda-affinity", <<2, -1>>),
     CudaOpt("cuda-max-threads", 16), CudaOpt("cuda-max-threads", 0), CudaOpt("max-gpu-usage", 50)}

FileThread(index, count, blocks, bfactor, sync) ==
    [index |-> index, threads |-> count, blocks |-> blocks, bfactor |-> bfactor, bsleep |-> 0,
     sync_mode |-> sync, affine_to_cpu |-> -1]
MCThreadFiles ==
    {<<FileThread(0, -1, -1, 0, 3)>>, <<FileThread(0, 16, -1, 13, 0), FileThread(3, 8, 8, 0, 3)>>,
     <<FileThread(0, -2, 60, 0, 3), FileThread(0, 8, 12, 6, 9)>>}

ThreadsAtRest ==
    /\ ThreadsInit
    /\ rig = CHOOSE r \in Rigs : TRUE
    /\ launchKind = CHOOSE k \in LaunchKinds : TRUE

MCBatchSizes == [c \in 1..CardsHashing |-> 2]

MCLineSizes == <<2, 1, 3>>
StreamAtRest == StreamInit /\ ~pool.secure

TargetsAtRest == TargetsInit /\ text = <<>> /\ stack[1] = 0

MCInit ==
    \/ machine = "settings" /\ Init /\ ThreadsAtRest /\ HashrateInit /\ StreamAtRest /\ TargetsAtRest
    \/ machine = "threads" /\ Init /\ ThreadsInit /\ HashrateInit /\ StreamAtRest /\ TargetsAtRest
    \/ machine = "rates" /\ Init /\ ThreadsAtRest /\ HashrateInit /\ StreamAtRest /\ TargetsAtRest
    \/ machine = "stream" /\ Init /\ ThreadsAtRest /\ HashrateInit /\ StreamInit /\ TargetsAtRest
    \/ machine = "targets" /\ Init /\ ThreadsAtRest /\ HashrateInit /\ StreamAtRest /\ TargetsInit

RunSettings == machine = "settings" /\ Next /\ UNCHANGED <<machine, threadsVars, rateVars, streamVars, targetVars>>
RunThreads == machine = "threads" /\ ThreadsNext /\ UNCHANGED <<machine, vars, rateVars, streamVars, targetVars>>
RunRates == machine = "rates" /\ HashrateNext /\ UNCHANGED <<machine, vars, threadsVars, streamVars, targetVars>>
RunStream == machine = "stream" /\ StreamNext /\ UNCHANGED <<machine, vars, threadsVars, rateVars, targetVars>>
RunTargets == machine = "targets" /\ TargetsNext /\ UNCHANGED <<machine, vars, threadsVars, rateVars, streamVars>>
MCNext == RunSettings \/ RunThreads \/ RunRates \/ RunStream \/ RunTargets
=============================================================================
