------------------------------ MODULE Threads ------------------------------
(***************************************************************************)
(* What each card is told to run: the launch options (nvidia/CudaCLI.cpp), *)
(* the threads of the configuration (core/Config.cpp,                      *)
(* workers/CudaThread.cpp), the values chosen for a card                   *)
(* (nvidia/cuda_extra.cu), and the memory each GPU thread then takes and   *)
(* keeps, through reloads of the configuration, in a build for Linux.      *)
(*                                                                         *)
(* The cards, their driver and NVML are outside of the program: a rig is   *)
(* the cards in the order of CUDA, with the memory that is free while      *)
(* nothing is mined, and the addresses of cards in the order of NVML.      *)
(* Memory is counted in words of 8 bytes.                                  *)
(***************************************************************************)
EXTENDS Algorithms, Integers

CONSTANTS
    Rigs,               \* the machines
    LaunchKinds,        \* algorithm of the configuration, variants of its pools
    LaunchOptions,      \* the options a command line may hold
    ThreadFiles,        \* the "threads" of files that others write
    MaxLaunchOptions    \* bounds the command line

(* What cards there are: NVML has no address twice, and a card before Pascal
   (major 6) has up to 24 multiprocessors, any other up to 512. *)
Address == [domain : Nat, bus : Nat, device : Nat]
Card == [major : Nat \ {0, 1}, mpcount : Nat \ {0}, free : Nat, pci : Address, usable : BOOLEAN]
IsRig(r) ==
    /\ r.cards \in Seq(Card) /\ r.nvml \in Seq(Address)
    /\ \A i \in DOMAIN r.cards : r.cards[i].mpcount <= IF r.cards[i].major < 6 THEN 24 ELSE 512
    /\ \A n, m \in DOMAIN r.nvml : r.nvml[n] = r.nvml[m] => n = m

(* Of the numbers of an option, those that have a use: strtoul takes a minus sign
   for a bfactor and a bsleep as well. *)
IsLaunchOption(option) ==
    CASE option.key = "cuda-launch" -> option.value \in Seq([threads : Int, blocks : Int])
      [] option.key = "cuda-devices" -> option.value \in Seq(Int)
      [] option.key \in {"cuda-bfactor", "cuda-bsleep"} -> option.value \in Seq(Nat)
      [] option.key = "cuda-affinity" -> option.value \in Seq(Int)
      [] option.key = "cuda-max-threads" -> option.value \in Int
      [] option.key = "max-gpu-usage" -> option.value \in Nat
      [] OTHER -> FALSE

(* A file with "blocks": 0 beside "threads": -1 divides by zero.           *)
ThreadObjects ==
    [index : Nat, threads : Int, blocks : Int, bfactor : Int, bsleep : Int, sync_mode : Nat,
     affine_to_cpu : Int]
ASSUME ThreadsAssumption ==
    /\ \A r \in Rigs : IsRig(r)
    /\ \A kind \in LaunchKinds : kind.algo \in Algo
    /\ \A option \in LaunchOptions : IsLaunchOption(option)
    /\ MaxLaunchOptions \in Nat
    /\ \A file \in ThreadFiles :
        /\ file \in Seq(ThreadObjects)
        /\ \A i \in DOMAIN file : file[i].threads = -1 => file[i].blocks # 0

VARIABLES
    rig, launchKind,
    cli,        \* m_cudaCLI, and the limits of automatic threads
    stage,      \* "options", "ready", "mining", "dead"
    given,      \* how many options have been parsed
    threads,    \* m_threads of the configuration in use
    miners,     \* the GPU threads and their memory: "none", "held" or "lost"
    foreign,    \* history: a file was loaded that the program had not written
    automatic   \* history: the program chose the threads itself

threadsVars == <<rig, launchKind, cli, stage, given, threads, miners, foreign, automatic>>

-----------------------------------------------------------------------------
(* Cards. *)

Words8(bytes) == bytes \div 8
GiB == Words8(1024 * MiB)
TiB == 2147483647           \* more than any card has
Reserved == Words8(128 * MiB + 200)
HashMemory(algo) == Words8(cn_select_memory(algo))

CardCount == Len(rig.cards)
CardAt(index) == rig.cards[index + 1]

(* cryptonight_extra_cpu_init: all that is allocated for one thread. *)
Allocated(algo, thread) ==
    LET state == IF algo = "HEAVY" THEN 400 ELSE 200
        ctx_b == IF algo = "HEAVY" THEN 20 ELSE 64
    IN  thread.blocks * thread.threads
            * (HashMemory(algo) + Words8(state + 160 + 160 + 128 + 16 + ctx_b))

Holding(ms, index) == {i \in DOMAIN ms : ms[i].memory = "held" /\ ms[i].thread.index = index}
FreeOn(ms, index) ==
    CardAt(index).free - FoldSet(LAMBDA i, sum : sum + Allocated(launchKind.algo, ms[i].thread),
                                 0, Holding(ms, index))

(* cudaDeviceReset: all that this process holds on the card is gone. *)
Reset(ms, index) ==
    [i \in DOMAIN ms |-> IF i \in Holding(ms, index) THEN [ms[i] EXCEPT !.memory = "lost"] ELSE ms[i]]

-----------------------------------------------------------------------------
(* cuda_get_deviceinfo. *)

isCNv2 ==
    \/ launchKind.algo = "PICO"
    \/ launchKind.algo = "CN" /\ launchKind.variants \cap {"2", AutoVariant, "HALF", "WOW"} # {}

maxMemUsage(card) ==
    CASE card.major = 6 /\ card.mpcount < 15 -> 2 * GiB
      [] card.major = 6 /\ card.mpcount \in 15..20 -> 4 * GiB
      [] card.major \in 3..5 -> 2 * GiB
      [] card.major = 2 -> GiB
      [] OTHER -> TiB

(* The difference is unsigned: with less than the reserve it is very large. *)
limitedMemory(card, free) ==
    IF free < Reserved \/ maxMemUsage(card) < free - Reserved
    THEN maxMemUsage(card) ELSE free - Reserved

perThread(algo) ==
    HashMemory(algo) + Words8(16192 + 680) + (IF algo = "HEAVY" THEN Words8(50 * 4) ELSE 0)

(* The choice for Monero's variant 2 on cards before Pascal. *)
OldCardFits(card, limited) ==
    8 * card.mpcount * 4 * HashMemory(launchKind.algo) < limited

AutoLaunch(card, blocks, free, v2) ==
    LET limited == limitedMemory(card, free)
        most == (limited \div perThread(launchKind.algo)) \div blocks
        even == 2 * (most \div 2)
    IN  IF v2 /\ card.major < 6 /\ OldCardFits(card, limited)
        THEN [blocks |-> 8 * card.mpcount, threads |-> 4]
        ELSE [blocks |-> blocks,
              threads |-> IF card.major = 2 /\ even > 64 THEN 64 ELSE even]

(* What it makes of a launch, with what it does to the memory of the card. *)
DeviceInfo(ms, t, v2) ==
    LET exists == t.index \in 0..(CardCount - 1)
        card == CardAt(t.index)
        blocks == IF t.blocks = -1 THEN card.mpcount * (IF card.major < 3 THEN 2 ELSE 3) ELSE t.blocks
        auto == AutoLaunch(card, blocks, FreeOn(ms, t.index), v2)
    IN  CASE ~exists -> [ok |-> FALSE, thread |-> t, miners |-> ms]
          [] exists /\ t.threads # -1 ->
                [ok |-> TRUE, thread |-> [t EXCEPT !.blocks = blocks], miners |-> ms]
          [] exists /\ t.threads = -1 /\ ~card.usable -> [ok |-> FALSE, thread |-> t, miners |-> ms]
          [] exists /\ t.threads = -1 /\ card.usable ->
                [ok |-> TRUE, miners |-> Reset(ms, t.index),
                 thread |-> [t EXCEPT !.blocks = auto.blocks, !.threads = auto.threads]]

-----------------------------------------------------------------------------
(* The command line. *)

NewCli ==
    [devices |-> <<>>, threads |-> <<>>, blocks |-> <<>>, bfactors |-> <<>>, bsleeps |-> <<>>,
     affinity |-> <<>>, maxThreads |-> 64, maxUsage |-> 100]

Positive(n) == IF n > 0 THEN n ELSE -1
parseLaunch(c, launches) ==
    [c EXCEPT !.threads = @ \o [i \in DOMAIN launches |-> Positive(launches[i].threads)],
              !.blocks = @ \o [i \in DOMAIN launches |-> Positive(launches[i].blocks)]]
parseDevice(devices, n) == IF n < CardCount THEN Append(devices, n) ELSE devices
parseDevices(c, list) == [c EXCEPT !.devices = FoldLeft(parseDevice, @, list)]

CliParsed(c, option) ==
    CASE option.key = "cuda-launch" -> parseLaunch(c, option.value)
      [] option.key = "cuda-devices" -> parseDevices(c, option.value)
      [] option.key = "cuda-bfactor" -> [c EXCEPT !.bfactors = @ \o option.value]
      [] option.key = "cuda-bsleep" -> [c EXCEPT !.bsleeps = @ \o option.value]
      [] option.key = "cuda-affinity" -> [c EXCEPT !.affinity = @ \o option.value]
      [] option.key = "cuda-max-threads" -> [c EXCEPT !.maxThreads = option.value]
      [] option.key = "max-gpu-usage" -> [c EXCEPT !.maxUsage = option.value]

(* The value for the i-th device; the last is for all that follow. *)
get(list, i, default) ==
    IF list = <<>> THEN default ELSE IF i > Len(list) THEN Last(list) ELSE list[i]

Thread(index, count, blocks, bfactor, bsleep, affinity) ==
    [index |-> index, threads |-> count, blocks |-> blocks, bfactor |-> bfactor, bsleep |-> bsleep,
     syncMode |-> 3, affinity |-> affinity, nvmlId |-> -1]

(* One launch after the other, where s holds the threads and the miners. *)
Launched(s, t, v2) ==
    LET info == DeviceInfo(s.miners, t, v2)
    IN  IF info.ok THEN [threads |-> Append(s.threads, info.thread), miners |-> info.miners] ELSE s
Configured(s, launches, v2) == FoldLeft(LAMBDA sum, t : Launched(sum, t, v2), s, launches)

AllCards == [i \in 1..CardCount |-> i - 1]
setup(c, s) ==
    LET devices == IF c.devices = <<>> THEN AllCards ELSE c.devices
    IN  Configured(s, [i \in DOMAIN devices |->
                        Thread(devices[i], get(c.threads, i, -1), get(c.blocks, i, -1),
                               get(c.bfactors, i, 0), get(c.bsleeps, i, 0), get(c.affinity, i, -1))],
                   isCNv2)

autoConf(c, s) ==
    Configured(s, [i \in 1..CardCount |->
                    Thread(AllCards[i], -1, -1, get(c.bfactors, 1, 0), get(c.bsleeps, 1, 0), -1)],
               isCNv2)

(* The percentages of the model are exact in floating point. *)
limit(t, c) ==
    CASE c.maxThreads > 0 /\ t.threads > c.maxThreads -> [t EXCEPT !.threads = c.maxThreads]
      [] c.maxThreads <= 0 /\ c.maxUsage < 100 -> [t EXCEPT !.threads = (@ * c.maxUsage) \div 100]
      [] OTHER -> t

-----------------------------------------------------------------------------
(* Mutant: what was asked for is saved, not what was chosen. *)
ThreadObjectAsked(t) ==
    [index |-> t.index, threads |-> -1, blocks |-> -1, bfactor |-> t.bfactor,
     bsleep |-> t.bsleep, sync_mode |-> t.syncMode, affine_to_cpu |-> t.affinity]

(* The "threads" of a file. *)
ThreadObject(t) ==
    [index |-> t.index, threads |-> t.threads, blocks |-> t.blocks, bfactor |-> t.bfactor,
     bsleep |-> t.bsleep, sync_mode |-> t.syncMode, affine_to_cpu |-> t.affinity]
toConfig(ts) == [i \in DOMAIN ts |-> ThreadObject(ts[i])]

setBFactor(bfactor) == IF bfactor \in 0..12 THEN bfactor ELSE 0
CudaThread(object) ==
    [Thread(object.index, object.threads, object.blocks, setBFactor(object.bfactor), object.bsleep,
            object.affine_to_cpu)
        EXCEPT !.syncMode = IF object.sync_mode > 3 THEN 3 ELSE object.sync_mode]

parseThread(s, object) ==
    LET t == CudaThread(object)
    IN  IF t.blocks >= -1 /\ t.threads >= -1 /\ t.bsleep >= 0 THEN Launched(s, t, FALSE) ELSE s
parseThreads(s, file) == FoldLeft(parseThread, s, file)

-----------------------------------------------------------------------------
(* NvmlApi::bind: the first thread that has the address gets the number. *)
SamePci(a, b) == a.domain = b.domain /\ a.bus = b.bus /\ a.device = b.device
BoundAt(ts, n) == {i \in DOMAIN ts : SamePci(CardAt(ts[i].index).pci, rig.nvml[n])}
bind(ts) ==
    [i \in DOMAIN ts |->
        LET ids == {n \in DOMAIN rig.nvml : i \in BoundAt(ts, n) /\ \A j \in BoundAt(ts, n) : i <= j}
        IN  IF ids = {} THEN ts[i] ELSE [ts[i] EXCEPT !.nvmlId = CHOOSE n \in ids : \A m \in ids : m <= n]]

(* Config::finalize, after that of the base class has succeeded. *)
Automatic(c, s) == s.threads = <<>> /\ (CardCount = 0 \/ (c.devices = <<>> /\ c.threads = <<>>))
Finalized(c, s) ==
    LET auto == autoConf(c, s)
        made == CASE Automatic(c, s) ->
                        [auto EXCEPT !.threads = [i \in DOMAIN @ |-> limit(@[i], c)]]
                  [] s.threads = <<>> /\ ~Automatic(c, s) -> setup(c, s)
                  [] OTHER -> s
    IN  [made EXCEPT !.threads = bind(@)]

LoadedThreads(file, ms) == parseThreads([threads |-> <<>>, miners |-> ms], file)

-----------------------------------------------------------------------------
ThreadsInit ==
    /\ rig \in Rigs /\ launchKind \in LaunchKinds
    /\ cli = NewCli /\ stage = "options" /\ given = 0
    /\ threads = <<>> /\ miners = <<>> /\ foreign = FALSE /\ automatic = FALSE

ParseCuda(option) ==
    /\ stage = "options" /\ given < MaxLaunchOptions
    /\ given' = given + 1
    /\ cli' = CliParsed(cli, option)
    /\ UNCHANGED <<rig, launchKind, stage, threads, miners, foreign, automatic>>

(* The configuration is made: Workers::start makes a GPU thread for each. *)
FinalizeThreads ==
    /\ stage = "options"
    /\ \E file \in ThreadFiles \cup {<<>>} :
        LET read == LoadedThreads(file, <<>>)
            made == Finalized(cli, read)
        IN  /\ threads' = made.threads
            /\ automatic' = Automatic(cli, read)
            /\ miners' = [i \in DOMAIN made.threads |->
                            [thread |-> made.threads[i], memory |-> "none"]]
            /\ foreign' = (file # <<>>)
    /\ stage' = "ready"
    /\ UNCHANGED <<rig, launchKind, cli, given>>

(* CudaWorker::start: the card is reset and the memory taken; without it the
   exception that is thrown ends the program. *)
StartMiner(i) ==
    LET t == miners[i].thread
        info == DeviceInfo(miners, t, FALSE)
        empty == Reset(info.miners, t.index)
    IN  /\ stage \in {"ready", "mining"} /\ miners[i].memory = "none"
        /\ IF Allocated(launchKind.algo, t) > FreeOn(empty, t.index)
           THEN stage' = "dead" /\ UNCHANGED miners
           ELSE stage' = "mining" /\ miners' = [empty EXCEPT ![i].memory = "held"]
        /\ UNCHANGED <<rig, launchKind, cli, given, threads, foreign, automatic>>

(* A kernel that cannot be launched, or has no memory, throws as well: phase 1
   and 3 have eight threads of the card for one of ours. *)
Launchable(t) == t.blocks > 0 /\ 8 * t.threads \in 1..(IF CardAt(t.index).major < 3 THEN 512 ELSE 1024)
Batch(i) ==
    /\ stage = "mining" /\ miners[i].memory # "none"
    /\ ~(miners[i].memory = "held" /\ Launchable(miners[i].thread))
    /\ stage' = "dead"
    /\ UNCHANGED <<rig, launchKind, cli, given, threads, miners, foreign, automatic>>

(* The file has changed while the cards work.  The new configuration has no
   command line, and the GPU threads keep what they were started with. *)
ReloadThreads ==
    /\ stage = "mining"
    /\ \E file \in ThreadFiles \cup {<<>>, toConfig(threads)} :
        LET read == LoadedThreads(file, miners)
            made == Finalized(NewCli, read)
        IN  /\ threads' = made.threads /\ miners' = made.miners
            /\ automatic' = (Automatic(NewCli, read) \/ (automatic /\ file = toConfig(threads)))
            /\ foreign' = (foreign \/ file # toConfig(threads))
    /\ UNCHANGED <<rig, launchKind, cli, stage, given>>

ThreadsNext ==
    \/ \E option \in LaunchOptions : ParseCuda(option)
    \/ FinalizeThreads \/ ReloadThreads
    \/ \E i \in DOMAIN miners : StartMiner(i) \/ Batch(i)

ThreadsSpec == ThreadsInit /\ [][ThreadsNext]_threadsVars

-----------------------------------------------------------------------------
Roomy(algo, card) ==
    card.free >= Reserved + 2 * perThread(algo) * card.mpcount * 3

(* Where each thread is automatic and each card has memory for two hashes   *)
(* per block, what is chosen can run: it fits in the memory that is free,   *)
(* with all the buffers of a hash that the choice does not count, and the   *)
(* kernels can be launched, so the program does not end.                    *)
AutomaticRuns ==
    automatic /\ ~foreign /\ cli.maxThreads \in 1..128 /\ cli.maxThreads # 1
    /\ (\A i \in 1..CardCount : Roomy(launchKind.algo, rig.cards[i])) =>
        /\ stage # "dead"
        /\ \A i \in DOMAIN miners :
            LET t == miners[i].thread
            IN  Launchable(t) /\ Allocated(launchKind.algo, t) <= CardAt(t.index).free

(* A GPU thread keeps its memory for as long as it hashes, though making a  *)
(* configuration may reset the card: reading the threads that the program   *)
(* has saved itself does not.  A card that is named twice is the exception. *)
NamedOnce == \A i, j \in DOMAIN miners : miners[i].thread.index = miners[j].thread.index => i = j
MemoryIsKept ==
    ~foreign /\ NamedOnce => \A i \in DOMAIN miners : miners[i].memory # "lost"

(* The threads that are saved are loaded as they were, and bound to the same *)
(* number of NVML, whichever of the three ways made them.  A bfactor above   *)
(* 12, which only the command line takes, is the exception.                  *)
SavedThreadsStay ==
    stage \in {"ready", "mining"} /\ threads # <<>> /\ (\A i \in DOMAIN threads : threads[i].bfactor <= 12) =>
        Finalized(NewCli, LoadedThreads(toConfig(threads), miners)).threads = threads

(* Health is read from the card that the thread runs on, and a card that     *)
(* NVML knows is read by some thread.                                        *)
BoundToOwnCard ==
    /\ \A i \in DOMAIN threads : threads[i].nvmlId # -1 =>
            rig.nvml[threads[i].nvmlId] = CardAt(threads[i].index).pci
    /\ \A i \in DOMAIN threads : \A n \in DOMAIN rig.nvml :
            rig.nvml[n] = CardAt(threads[i].index).pci =>
                \E j \in DOMAIN threads : threads[j].nvmlId = n

(* What the cards are told to run, they run: it can start, keeps its memory, *)
(* is still the same after saving, and is told its own card's temperature.   *)
CardsRun == AutomaticRuns /\ MemoryIsKept /\ SavedThreadsStay /\ BoundToOwnCard
=============================================================================
