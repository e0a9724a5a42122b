# TLA+ models of cn8cardsaver

cn8cardsaver is a CUDA miner of the xmrig-nvidia family that protects the cards
it runs on: a stratum client with backup pools, a donation timer, a dispatcher
that hands jobs to one thread per GPU, and, in each of these threads, a control
loop that reads the temperature of the card, drives its fan and slows the card
down when it is too hot.  The same hash is computed three times over, by
kernels on the cards, by machine code that is generated for every block, and by
the CPU, which checks every share before it is sent.  This directory holds TLA+
modules of that program, TLC configurations that check them, and theorems about
them that TLAPS checks.

Source paths below are relative to `src/` of the repository (`workers/…` is
`src/workers/…`); `PROJECT.json` maps every definition to its lines.

## 1. The system

### Threads

| Thread | What it runs | Shares with the others |
|---|---|---|
| main loop (libuv) | sockets, timers, the file watch, microhttpd, console, signals, strategies, Network, `Workers::setJob/pause/setEnabled/stop/onResult/onTick` | `m_job` under `m_rwlock`; `m_paused`, `m_sequence` as atomics; `m_queue` under `m_mutex` |
| one per GPU (`CudaWorker::start`) | hash loop, `NvmlUtils::DoCooling` before every batch, kernels and their programs | reads job, pause and sequence number; pushes shares and calls `uv_async_send`; publishes its count and time of hashing; the cache of programs |
| background compiler (`CudaCryptonightR_gen.cpp`) | the program of the next block | the queue of tasks, the cache and the build lock |
| libuv's thread pool | `getaddrinfo`; the verification of shares (`Workers::onResult`) | a request belongs to the pool until its callback runs on the main loop |

Strategies, clients, reload and API never meet on two threads: these are
callbacks of the main loop, and what is hard about them is the order in which
libuv calls them, with the file, the pools and the clients changing in between.

### Components

| Component | State it keeps | What makes it correct | Modules |
|---|---|---|---|
| Workers (`workers/Workers.cpp`) | `m_job`, `m_active`, `m_enabled`, `m_paused`, `m_sequence`, `m_queue` | the GPUs run exactly when there is work and the user wants it; a new job, a pause and a stop reach every GPU; no call blocks the loop | `Workers`, `Shares`, `Verification`, `Hashrate` |
| CudaWorker (`workers/CudaWorker.cpp`) | `m_job`, `m_sequence`, `m_nonce`, `m_pausedJob`, `m_pausedNonce` | no nonce mined twice, by one card or by two; no stale job mined | `Workers`, `Nonces` |
| Cooling (`nvidia/NvmlUtils.cpp`) | `CoolingContext`; mode and level of the card's fan | a hot card is throttled until it has cooled, a cool one is not, the fan is given back | `Cooling` |
| Client (`common/net/Client.cpp`) | `m_state`, `m_socket`, `m_resolver`, `m_failures`, `m_expire`, `m_results`, `m_job`, `m_recvBuf` | never without an event to come, no handle used twice, no callback to a deleted client; lines come out as they went in | `Clients`, `Shares`, `Stream`, `Jobs` |
| Tls (`common/net/Tls.cpp`) | the session, `m_ready` | nothing is heard from, or told to, a server that fails the check | `Stream` |
| FailoverStrategy | `m_active`, `m_index`, the clients | one pool at a time, the primary whenever it is there, some pool whenever one is there | `Failover`, `Preference` |
| SinglePoolStrategy, DonateStrategy | `m_active`, `m_timer`, `m_stop` | a donation ends, keeps to its schedule and costs the user nothing else | `Donation` |
| Network, NetworkState | the two strategies; the counters, `topDiff` | whom the Workers mine for; a share goes to the pool of its job and is counted once | `Donation`, `Failover`, `Shares` |
| Controller, ConfigLoader, Watcher | the Config in force, the file, the watch | what the user writes is in force in the end | `Reload`, `Control` |
| Api, Httpd, HttpRequest | connections and their bodies | only whole, authorised documents change anything; no body is lost | `Http`, `Control` |
| Config, CommonConfig, Pool(s), Json | the options | what is configured is consistent, and is the same after saving and loading | `Pools`, `Settings` |
| CudaThread, CudaCLI, NvmlApi | what each card runs | the choice can start on the card, keeps its memory, and is bound to the right sensor | `Threads` |
| Job, JobResult, Algorithm | algorithm, target, nonce of a job | every job that is let in can be hashed, and its shares have its difficulty | `Jobs`, `Targets`, `Algorithms`, `Nonces` |
| Hashrate | a ring of samples per thread | the rate shown is the rate hashed | `Hashrate` |
| CryptonightR programs | the cache, the tasks, the module on a card | a card hashes with the program of its own block | `Programs` |
| Random programs | the code drawn for a block | interpreter, machine code and card compute the same | `RandomMath`, `MachineCode` |
| Kernels and the CPU hash | scratchpad, registers, arrays of a launch | the card computes the CPU's hash for every variant | `MainLoop`, `LoopKernels`, `Scratchpad`, `CnGpu`, `Words` |
| Mem and the check of shares | the context of a batch | a share is checked by the loop of its own variant and block | `Verification` |
| App, Console, Signals | – | commands are calls of Workers in any order | `Workers` (partly) |
| Log, Platform, Process, Summary; vendored code | – | – | not modelled |

The life of a job and of its shares ties them together:

    pool -> Tls -> Client.read/parse -> Client.parseJob -> Strategy.onJob
         -> Network.setJob -> Workers.setJob -> CudaWorker.consumeJob
         -> batches of hashes, with DoCooling between them
            (CryptonightR_get_program, cryptonight_gpu_hash)
         -> Workers.submit -> onResult -> thread pool (CryptoNight::hash)
         -> Network.onJobResult -> Strategy.submit -> Client.submit -> pool
         -> Client.parseResponse -> Network.onResultAccepted -> NetworkState.add

### What is hard

* `setJob`, `pause` and `setEnabled` write several flags, one after the other,
  while the GPU threads read them; `consumeJob` reads the job and its sequence
  number separately.
* A lookup, a connection attempt, a timeout, a retry and a late answer of one
  client meet in any order, and `disconnect` does not stop all of them.
* A donation starts, ends, and is stopped five seconds later, while either
  pool comes and goes and the user's strategy reports in between.
* Any request to the X server, which controls the fan, may fail while others
  succeed; the rounding of the sleep factor must neither end nor run away.
* A share is queued, verified and answered while the connection and the login
  it belongs to change.
* The file may change between any two of the calls by which it is read and
  watched; a document is put in pieces, each with a new request object.
* Two cards and a background thread want the program of one block, and old
  programs are dropped by the height of whoever asks.
* Every variant of the hash exists several times, split over two, four or
  sixteen threads and over launches that end after any iteration.
* The algorithm of a pool comes from options, file, host name, port and job.

`PROJECT.json` lists these under `hazards`, each at its line with the
properties that would catch it going wrong.

## 2. The modules

Every step of the main loop that runs without returning to libuv is one action,
unless another thread can see it half done; then it is split at every access to
what they share.

### The dispatch: Workers, Nonces, Shares, Verification, Hashrate

**Workers** (`MCWorkers`, `CardsProofs`).  The main loop (`mpc`) runs one call
at a time: a job of the user's pool, of the donation's, the resumption of the
user's job after a donation, a pause for want of a pool, the pause and resume
commands, the health command, and `stop`. A call is split before each write to
`m_sequence` and `m_paused`. A GPU thread (`pc`) is `CudaWorker::start` and
`consumeJob`, split at every read of these.  `wjob`, `wseq`, `nonce`,
`pausedJob`, `pausedNonce` are the members of CudaWorker; `rjob` and `mining`
its local state; `done` is a history variable that counts what a thread has
hashed of each job. A job is its id, the login it came from and its pool.
`leaked` is the read lock that `printHealth` keeps when NVML is missing: a later
`setJob` then blocks.

**Nonces** (`MCHash`, `HashProofs`) is the arithmetic that Workers leaves out:
where the threads start in a job (in the byte that a NiceHash pool leaves free,
or in the whole word), how a batch moves a thread on, what a donation saves.
`hashed` is the history of the nonces, `long` marks a job that has outlasted the
part of a thread.

**Shares** (`MCShares`, `SharesProofs`).  Submission by the GPU threads (push and
wake-up are two steps), the baton the loop makes of the queue (`jobs`, and the
`results` that the thread pool confirms of them, batons in any order), the
Client's submit, ping and login with their sequence numbers, the pool's answers,
which it may repeat, and `NetworkState::add`.
Connections come and go freely here: `Failover` and `Donation` say how.
`counted`, `best` and `given` are history variables.

**Verification** (`MCHash`, `HashProofs`) is the inside of that check:
`Mem::create` and `release`, which function and which loop the table gives for a
share, and the code that stays in the context of a batch.  The pools may have
been reloaded with another algorithm, which CryptoNight's own never follows.

**Hashrate** (`MCSettings`, `HashProofs`).  A GPU thread stores count and time in
two steps, the timer loads them in two steps, and `calc` looks back through the
ring.

### The pools: Clients, Preference, Failover, Donation, Stream

`Clients` is the Client object as a record and its methods as operators on the
record; it has no variables, so that `Failover` and `Donation` can both use it.
**Failover** (`MCFailover`, `FailoverProofs`) is FailoverStrategy over `N`
clients, with every listener callback done in the step of the client that makes
it, the `Network::onConfigChanged` that deletes it, and `servers`, the world.
**Preference** is what the strategy promises: the miner works for at most one
pool, and leaves a pool that serves it only for the primary. Failover implements
it (`Prefers`), with `mining` mapped to the variable of the same name.

**Donation** (`MCDonation`, `DonationProofs`): DonateStrategy over
SinglePoolStrategy over one Client, beside the user's strategy, of which only
`isActive()` and the reports are seen, and the part of Network that decides
which job the Workers get (`mined`). `rested` and `dropped` are history
variables.

**Stream** (`MCSettings`, `LoopProofs`): the buffer of a Client, the records of TLS and the
next connection of the same Client. The pool writes lines of several pieces;
TCP delivers any number of pieces at once, a record is read when it is whole.

### The configuration: Pools, Jobs, Targets, Settings, Threads, Reload, Http, Control

**Pools** and **Jobs** have the setters, the parsing and the adjustments as
operators; **Algorithms** has the tables of names, memory, iterations, functions
and kernels. **Settings** (`MCSettings`, `SettingsProofs`) drives them: a
command line, option by option, the files it names, one reload, and then the
jobs of the pools.  A text is a name that the code tells apart, of the set `Names` (`STRING` in the run); hosts are
those of NiceHash and MinerGate with their ports, and others.

**Threads** (`MCSettings`, `LoopProofs`) is what each card is told to run: options, the threads of a file, the
values `cuda_extra.cu` chooses for a card, the saved form, and the memory that a
GPU thread takes and keeps.  A rig is a list of cards with their free memory,
and their order in NVML.

**Targets** is `setTarget`: the text of a target into a number of half the width
or the full one, difficulty and back, the comparison, and what is counted.

**Reload** is the watch, the loading and the listeners, one system call per step
where the file can change in between. **Http** is a request in its calls by
microhttpd: headers, parts, end. **Control** composes the two on one main loop,
where a document that is put is saved and then found by the watch, or taken at
once when the file is not watched.

### The hash: Programs, RandomMath, MachineCode, MainLoop, LoopKernels, Scratchpad, CnGpu

Words of the hash are symbolic (`Words`): a word of 32 bits is the set of the
atoms it is the exclusive or of, and an atom is an operation with its arguments.
Two texts that agree on symbolic words agree on every input, whatever AES,
multiplication or division compute; what is checked is the structure, which is
what differs between the implementations.

* **MainLoop** is one iteration of the CPU's loop for every variant;
  **LoopKernels** the kernels with four threads, with two, and the one that is
  compiled for a block, with the arrays that carry a hash over the end of a
  launch.  `Cpu == INSTANCE MainLoop` is the refinement: `KernelsHashLikeCpu`.
* **Scratchpad** is what is before and after the loop: key schedule, filling,
  folding in several launches (twice for the heavy variants), and the report.
* **CnGpu** is cn/gpu three times, for the card, for SSSE3 and for AVX2.
* **RandomMath** (`MCPrograms`, `LoopProofs`) draws the program of a block from
  a stream of bytes; **MachineCode** runs it three ways: interpreter, stitched code, text for the
  card.
* **Programs** (`MCPrograms`, `HashProofs`) is the cache of compiled programs and
  its users.

### MC modules

`MCHash`, `MCSettings` and `MCPrograms` hold several machines that share no
variables, and a variable `machine` that says which of them runs: in a behaviour
one machine runs and the others stay where they start (`…AtRest` fixes one
initial state for them, so that nothing is multiplied).  The properties of a
resting machine are checked in that state only, those of the running machine in
every state.

## 3. The runs

Passing runs check invariants, action and liveness properties together, two per
component where liveness needs a smaller world. The violation run checks one
thing that the program says of itself and does not do, and is a finding.

| Run | Shows |
|---|---|
| `workers` | the flags agree between calls (`RunsIffWanted`); no nonce is mined twice across donations and pauses (`NoNonceTwice`); a thread mines a stale job only through the two ways `StaleOnlyFromConsume` names; a pause parks every thread that is not just waking up; a job reaches every thread; with NVML every call returns; `stop` ends threads it meets in their hash loops |
| `workers_stop_hangs` (finding) | a thread that is in `consumeJob` on its way out of the pause loop stores the 0 of `stop` as its own sequence number, and `join` never returns |
| `cooling` | whatever requests the X server refuses: a card over the limit is throttled by every pass that can read its fan, sleeps if and only if it is throttled, and is released only below the falloff; an automatic fan is given back if no request for its mode was refused |
| `cooling_live` | a card that stays cool is released; the fan of a card that stays hot reaches full speed; a dropping temperature slows the fan |
| `failover` | with pools that behave in any way, and retries that overtake attempts under way, FailoverStrategy implements `Preference`, and no pool in use is left without an event to come |
| `failover_live` | unless a retry overtakes an attempt that `disconnect` left running: the miner works for the active pool, nobody else serves it, no handle is used twice, a deleted client has no socket; a primary that is back for good is active for good; of two pools, one that is up gets the miner; without keepalive a pool that falls silent is given up |
| `donation` | outside a donation the user's pool has the Workers; the donation's next event is always due; donations keep to the schedule and have a connection until the donation's pool drops one that serves; donations end and the user's pool is mined for again, whatever the donation's pool does |
| `shares` | a share is in one place and counted once (`OnePlace`), its answer is its own (`Credited`), the best shares are kept, it goes to the pool and login it is for (`SentToItsLogin`), and none is left in the queue or in a batch |
| `control` | two connections of the API and an editor: what is written into a watched file is in force in the end (`ChangesArrive`); a client changes something only by a whole document with the token (`OnlyWhatWasPut`); bodies are accounted for |
| `programs` | a card hashes with the very program of its block (`MinesItsProgram`); nothing is compiled twice; what a card is about to need is not dropped; no card waits for ever and every task is taken up, even if compilations fail; whatever is drawn, the generator keeps to its arrays, draws nothing that folds, ends, and means the same to interpreter, machine code and card |
| `hash` | the cards share the nonces of a job; each iteration on a card is one on the CPU, for every variant and kernel; scratchpad, key schedule and report agree; the three cn/gpu agree to the order of their sums; the shares of a batch are each checked by the loop of their own variant and block, in memory that is large enough |
| `settings` | the pools in use and their jobs fit the algorithm, and every job let in has a function, a self-test and a kernel; assembler loops are patched right; what is saved loads as the same; what is chosen for a card runs there, keeps its memory and its sensor; the rate is true to within two batches; a connection hears the lines that were written, and only of the pool that was verified; the difficulty counted is the one asked for |

A property that several promises make up is the conjunction of named parts,
which the exceptions and the theorems below speak of by name:

| Property | Parts |
|---|---|
| `TakesEffect` (Workers) | `CallReturns`, `JobReachesAll`, `PauseParks`, `StopWhileMiningExits` |
| `Throttled`, `FollowsTemperature` (Cooling) | `SleepsIffCooling`, `HotIsThrottled`; `Released`, `FanReachesFull`, `DroppingSlowsFan` |
| `OnePoolServes`, `HandlesSafe`, `FailedPoolsAreLeft` (Failover) | `MinesForActive`, `ServedIsActive`; `HandlesOwned`, `CallbackFindsClient`; `SomePoolServes`, `SilenceTimesOut` |
| `OrderlyUntilDropped`, `UserReturns` (Donation) | `OnSchedule`, `DonatesToSomebody`, `HandlesOwned`; `DonationEnds`, `MainReturns` |
| `CountedOnce` (Shares) | `TypeOK`, `OnePlace`, `Credited`, `TopIsBest` |
| `CacheKept`, `ProgramsArrive` (Programs) | `CompiledOnce`, `NeededIsKept`; `GetsProgram`, `TakenUp` |
| `DrawsPrograms` (RandomMath), `OneMeaning` (MachineCode) | `ArraysSuffice`, `NothingToFold`, `AttemptEnds`; `SameMeaning`, `WellStitched` |
| `OwnNonces` (Nonces) | `NoncesDisjoint`, `PrefixKept` |
| `KernelsHashLikeCpu` (LoopKernels), `LaunchLikeCpu` (Scratchpad) | the refinement, `CtxInBounds`; `ScratchpadLikeCpu`, `ReportedAreBelow` |
| `CheckedByOwnLoop` (Verification) | `RunsOwnLoop`, `ScratchpadFits` |
| `JobsCanBeHashed` (Settings), `CardsRun` (Threads) | `UsedPoolsFit`, `HasFunctions`, `PatchesFit`; `AutomaticRuns`, `MemoryIsKept`, `SavedThreadsStay`, `BoundToOwnCard` |
| `RateIsTrue` (Hashrate), `HearsItsPool` (Stream), `CountsDifficulty` (Targets) | `CountsWindow`, `RingSuffices`; `LinesInOrder`, `HeardOnlyVerified`; `AsksDifficulty`, `SharesReachDifficulty` |

Every property has a mutant in `PROJECT.json`: a definition with a plausible
mistake in it, next to the one it stands for in the module, with which the
property does not hold.

### Exceptions the properties name

Where the code is known not to keep a promise in one narrow case, the property
of a passing run excludes that case by name, so that it still speaks of every
other one. They are worth knowing for whoever changes this code.

The dispatch:

* `PauseParks`: a thread on its way out of its pause loop may read, as its own,
  the number that a new pause has just set, and mines through that pause
  (`CudaWorker.cpp:145`; `isPaused` is not looked at in the hash loop).
* `CallReturns` is checked with NVML: without it `printHealth` returns with the
  read lock held (`Workers.cpp:147`), and the next `setJob` never returns.
* `NoncesDisjoint`, `PrefixKept`: a job that outlasts the part of a card
  (`long`) runs into the next card's, and with a NiceHash pool into the byte the
  pool has fixed; nothing in the code stops it (`CudaWorker.cpp:216`).
* `ScratchpadFits`, `RunsOwnLoop`: after a reload with another algorithm
  `CryptoNight::m_algorithm`, like the cards, stays what it was. Memory of a
  batch is sized by the algorithm of its first share, and may then be too small;
  a variant the old algorithm has no function for is a null call.
* Each batch leaves its 16 KiB of executable memory behind (`Mem.cpp:54`).
* `CountsWindow`: to within two batches, since a sample may pair the count of one
  with the time of another.  `onTick` gives up at the first thread that is not
  ready: the cards after it have no rate, rather than a wrong one.

Cooling:

* `HotIsThrottled` speaks of a pass that has read the fan (`ticked = "full"`).
  A query that fails ends the pass before the temperature is looked at: a card
  whose fan cannot be read is never throttled (`NvmlUtils.cpp:620`). Throttled
  means put to sleep before every batch: a hot card mines on between its sleeps.
* `DroppingSlowsFan`: a fan at exactly 50 % is neither slowed nor handed back
  (`NvmlUtils.cpp:692`).
* `FanGivenBack`: the program takes the fan's mode over to try it even if fan
  control is disabled (`NvmlUtils.cpp:137`); a refused request may leave it so.

Pools:

* `NeverForgotten`: a name that `getaddrinfo` refuses at once (`BadHosts`,
  `Client.cpp:489`) and an address to which `uv_tcp_connect` fails at once (a
  "dead" socket, `Client.cpp:592`) leave the client without any event to come.
* `PrimaryReturns`, `SomePoolServes`: a pool that refuses the login but keeps
  the connection, or answers nothing (`"odd"`), stops the failover
  (`Client.cpp:778`). `SomePoolServes` is checked with two pools: of three, a
  backup before the active one is passed over (`FailoverStrategy.cpp:147`).
* `SilenceTimesOut` is checked without keepalive: with it, pings put off the
  timeout of a silent pool for ever (`Client.cpp:173`).
* `CallbackFindsClient` is about sockets: `deleteLater` frees a client whose
  lookup is in flight (`Client.cpp:149`).
* `DonatesToSomebody`, `HandlesOwned` and `OnSchedule` of `Donation` hold until
  the donation's pool has dropped a connection that served (`dropped`): one
  lost as the donation ends comes back before the delayed stop and starts
  another donation.
* `LinesInOrder` over TLS holds for a pool that writes each line in a record of
  its own, none longer than the buffer (`Framed`): every result of `SSL_read` is
  parsed as a line of its own.

Configuration:

* `ChangesArrive`: the watch is set again after the file has been read, and an
  edit in between is lost; a watch on a file that is absent is dead (`dropped`).
  A PUT that cannot be saved is answered 200 (`unsaved`).
* `OnlyWhatWasPut`: the body of an empty PUT is read from memory that was never
  written. `BodiesOwned`: the body of an upload that is broken off is never freed.
* `UsedPoolsFit`, `SavedIsSame`: options after `--config` are parsed when the
  configuration is complete, and its pools do not follow them (`late`).
* `HasFunctions`: a job that names an unknown variant is let in with AUTO,
  for which there is no function.
* `MemoryIsKept`: a reload of a file that was not written by the program, or
  has threads of −1, resets cards that are mining (`foreign`); a card named
  twice loses the memory of one of its threads (`NamedOnce`).
* `AutomaticRuns`: on a card with less free memory than the reserve of
  128 MiB the subtraction wraps, and with less than two hashes per block there
  are no threads, which ends the program (`Roomy`).
* `SavedThreadsStay`: a bfactor above 12 is taken from the command line and
  refused in a file.
* `AsksDifficulty`: a target that is neither 8 nor 16 digits long is read beyond
  its end, where the stack is as it happens to be. `SharesReachDifficulty`: a
  difficulty of more than 32 bits is cut; a hash whose compared word is zero
  divides by zero (`Job.h:96`).

Programs:

* `GetsProgram` and `TakenUp` hold while the program runs (`Running`): a driver
  call that fails throws in a GPU thread, nobody catches it, and all cards stop.

### Bounds, and why they are enough

* `Workers`: GPU threads touch only the main loop's state, so one thread shows
  every behaviour of a thread. `MaxCalls` = 4 is enough for a job, a donation,
  its end, and one of a pause, a resume or a health command, in any order;
  `MaxIds` = 3 for two jobs of the donation within one of the user's; a nonce
  is counted in batches and saturates at `MaxBatches` = 2 (the
  theorem `NoNonceMinedTwice` has no bound).
* `Nonces`: a word of 20 nonces of which 10 are free, two cards with batches of
  2 and 4: neither part is a multiple of both, so the last batches of both
  kinds of job overrun (the theorems have no bound).
* `Cooling`: temperatures below the falloff, between it and the limit, and over
  the limit; one even and one odd automatic fan level. The cap of the sleep is
  200 ms instead of 9999: from 100 it is reached in two steps, of which the cap
  cuts the second, and coming down from it passes a value below the first one
  (88), from which throttling ends or the sleep grows again.
* `Failover`: two pools give every order of a primary and a backup. `Retries`
  is 2: below, at, and beyond the first failure. Failures are capped there,
  since the code only compares them with it.
* `Donation`: the one pool and the two retries its constructor sets.
* `Shares`: two shares, two threads, the user's primary pool with two logins,
  its backup and the donation's (pool -1), which gives the same id as the
  primary. Sequence numbers are bounded by `MaxSequence` for logins and pings.
* `Control`: two connections with two requests in all, two edits, three
  configurations of which two differ in their pools and one in `watch`;
  documents of one and two parts, and a body over the capacity.
* `Programs`: heights up to 3 for a program to be dropped, current and
  compiled ahead; two cards of one architecture. For the generator three drawn
  instructions and what pads them, two registers that change, one that does not
  and R8; the numbers of its loops are constants with the code's in comments
  (`MaxRetries`, `MaxIterations`: 3).
* `hash`: two groups of the scratchpad and one iteration from any contents of
  the registers, so that every iteration is covered; two hashes of a launch for
  the arrays they share; launches of the scratchpad that split its rows;
  `MaxResults` = 2 of three hashes for a full report.  Two heights, and every
  algorithm, variant and kind of AES, with one reload of the algorithm.
* `settings`: command lines of three options and files of two pools; rigs with
  cards of each generation, with little memory and much, in another order in
  NVML; a ring of 4 samples that is overwritten within `MaxTime`; lines of one
  to three pieces in buffers of 5 and 3, two connections; words of 8 bits
  (`HalfDigits` = 4), every text of every length. Memory is counted in words of
  8 bytes so that it fits TLC's integers.
* Deadlock is checked in `workers`, `cooling`, `failover`, `donation` and
  `shares`.  `Exited`, `Closed` of `Cooling` and `Ended` are the ends of the
  program, or, in `Shares`, of the bounds.  `control`, `programs`, `hash` and
  `settings` really stop: the bounds on requests, heights, time or lines are
  used up, a hash is complete, or a driver call has ended the program.

### Assumptions about the environment

* `Odd`, `BadHosts`, `NoRoute` name the pools that may misbehave, whose name
  `getaddrinfo` refuses at once, and to which there may be no route.
* `Overtake = FALSE` (`failover_live`): a retry does not come before an attempt
  that `disconnect` did not stop is over.  If it does, the resolver and the
  socket are used twice; what then happens is undefined and is not followed
  further.  The retry is not the only way to it: `onClose` of the active pool
  connects the next pool at once, whatever that pool's client is doing.  What
  the handles and `OnePoolServes` need is therefore a property of the behaviour,
  `NoOvertaking`: no step connects a client whose attempt is under way.  With
  two pools and more than one retry `Overtake = FALSE` is enough for it, which is
  a theorem; with three pools, with one retry, with a backup that refuses a login
  and keeps the connection, or with no route to it, it is not.
* `Logins` in `Shares`: two pools of the user never give the same id. A share
  is submitted to the active pool, and only its login id is compared.
* `SinglePool = FALSE` in `Donation`: the user has several pools, hence a
  FailoverStrategy, which reports its stop at once. A SinglePoolStrategy is
  deleted before its connection is closed, its pause never comes, and the
  Workers go on with the old pool's job until the new pool sends one.
* The threads of a hash on a card run in lockstep, as the kernels expect of a
  warp: nothing in the code guarantees it on cards that schedule threads
  independently.
* Nobody takes a whole period of the timer (500 ms) between two loads, or two
  stores, of `Hashrate`, and a batch takes at least such a period.
* `ThreadsAssumption` excludes a file with "blocks" 0 and "threads" −1, which
  divides by zero, and a bfactor or bsleep below zero on the command line, which
  `strtoul` takes and a file does not keep. NVML has each address once, and a
  card has at most 24 multiprocessors before Pascal and 512 since: with more, the
  constants in `cuda_get_deviceinfo` could leave a block less than two hashes.

### Fairness

* GPU threads: weak fairness of each thread's next step; threads are run by the
  operating system, and none waits for another but in `join`.
* The main loop: weak fairness of the rest of a call that has begun.
* Callbacks: weak fairness of what stays enabled until it runs (a lookup, a
  connection attempt, an answer that has arrived, a close).  Strong fairness of
  what a timer does (timeout, retry, donation timer, delayed stop): the
  guard that libuv runs timers before it polls switches these off and on in
  every iteration of the loop, and a timer that is due is run in the next one.
* A pool that stays up answers and sends new blocks (weak fairness of
  `Accepted`, `NewBlock`).  No fairness is assumed of anything a pool or a user
  is free not to do: `Turn`, the commands, `Reload`, `Edit`, a new request.
* `Shares`: weak fairness of the loop's and the thread pool's work taken
  together, which suffices as shares are finite in number.
* `Control`: weak fairness of the event of the watch, the delayed load and the
  new watch; strong fairness of the handler of a connection, since microhttpd is
  run from a timer of the loop that is off while another callback runs.
* `Programs`: weak fairness of each thread's steps outside the build lock, and
  strong fairness of taking the lock, which other threads take again and again.
* The generator: weak fairness of its next step, for it is a plain loop.

## 4. Theorems

| Theorem | States | From |
|---|---|---|
| `CardsProofs!TypeCorrect` | `Spec => []TypeOK` | `WorkersAssumption` |
| `CardsProofs!RunsExactlyWhenWanted` | `Spec => []RunsIffWanted` | the same |
| `CardsProofs!NoNonceMinedTwice` | `Spec => []NoNonceTwice` | the same |
| `CardsProofs!StalesInConsumeOnly` | `Spec => StaleOnlyFromConsume` | the same |
| `CardsProofs!CoolingTyped` | `CoolingSpec => []CoolingTypeOK` | `CoolingAssumption` |
| `CardsProofs!SleepsExactlyWhenCooling` | `CoolingSpec => []SleepsIffCooling` | the same |
| `CardsProofs!ThrottlesHotCards` | `CoolingSpec => []HotIsThrottled` | the same |
| `CardsProofs!ThrottlesAndSleeps` | `CoolingSpec => []Throttled` | the same |
| `CardsProofs!ThrottlesUntilCool` | `CoolingSpec => Hysteresis` | the same |
| `CardsProofs!GivesFanBack` | `CoolingSpec => []FanGivenBack` | the same |
| `FailoverProofs!TypeCorrect` | `Spec => []TypeOK` | `RetriesAssumption`, `FailoverAssumption` |
| `FailoverProofs!IndexFollowsActive` | `Spec => []IndexIsActive` | the same |
| `FailoverProofs!ImplementsPreference` | `Spec => Prefers` | the same |
| `FailoverProofs!NobodyForgotten` | `Spec => []NeverForgotten` | the same |
| `FailoverProofs!HandlesAreSafe` | `Spec /\ NoOvertaking => []HandlesSafe` | the same |
| `FailoverProofs!OneServes` | `Spec /\ NoOvertaking => []OnePoolServes` | the same |
| `FailoverProofs!NothingOvertakes` | `Spec => NoOvertaking` | the same, and `Backed` |
| `FailoverProofs!TwoPoolsTakeTurns` | `Spec => [](OnePoolServes /\ HandlesSafe)` | the same, and `Backed` |
| `DonationProofs!NeverForgets` | `Spec => []AlwaysScheduled` | `RetriesAssumption`, `DonationAssumption` |
| `DonationProofs!DonatesInOrder` | `Spec => OrderlyUntilDropped` | the same |
| `DonationProofs!UserHasTheWorkers` | `Spec => []MinesForMain` | the same, and `~SinglePool` |
| `HashProofs!KeepsToOwn` | `NoncesSpec => []OwnNonces` | `NoncesAssumption`, `EmptyIdAssumption` |
| `HashProofs!Disjoint` | `NoncesSpec => []NoncesDisjoint` | the same |
| `HashProofs!KeepsPrefix` | `NoncesSpec => []PrefixKept` | the same |
| `HashProofs!ProgramsTyped` | `Spec => []TypeOK` of Programs | `ProgramsAssumption` |
| `HashProofs!EachMinesItsProgram` | `Spec => []MinesItsProgram` | the same |
| `HashProofs!EachCompiledOnce` | `Spec => []CompiledOnce` | the same |
| `HashProofs!KeepsNeeded` | `Spec => NeededIsKept` | the same |
| `HashProofs!KeepsCache` | `Spec => CacheKept` | the same |
| `HashProofs!ChecksByOwnLoop` | `CheckSpec => []CheckedByOwnLoop` | — |
| `HashProofs!RateTrue` | `HashrateSpec => []RateIsTrue` | `HashrateAssumption` |
| `SharesProofs!CountsOnce` | `Spec => []CountedOnce` | `SharesAssumption`, `LoginsDiffer` |
| `SharesProofs!SendsToItsLogin` | `Spec => SentToItsLogin` | the same |
| `ControlProofs!TypeCorrect` | `Spec => []TypeOK` | `ControlAssumption` |
| `ControlProofs!MinesConfigured` | `Spec => []MinesConfiguredPools` | the same |
| `ControlProofs!BodiesAccounted` | `Spec => []BodiesOwned` | the same |
| `ControlProofs!PutsOnlyDocuments` | `Spec => OnlyWhatWasPut` | the same |
| `LoopProofs!HearsOwnPool` | `StreamSpec => []HearsItsPool` | `StreamAssumption` |
| `LoopProofs!DifficultyCounts` | `TargetsSpec => []CountsDifficulty` | `TargetsAssumption` |
| `LoopProofs!MeansOne` | `MathSpec => []OneMeaning` | `GeneratorAssumption` |
| `LoopProofs!DrawsWell` | `MathSpec => [](ArraysSuffice /\ NothingToFold)` | the same |
| `LoopProofs!RunsAsTold` | `ThreadsSpec => []CardsRun` | `ThreadsAssumption` |
| `SettingsProofs!JobsHashed` | `Spec => []JobsCanBeHashed` | `NamesAssumption`, `SettingsAssumption` |
| `SettingsProofs!SavedStays` | `Spec => []SavedIsSame` | the same |

The types, `IndexIsActive` and `MinesConfiguredPools` are theorems only: no run
lists them.  The theorems hold for any number of GPU threads, calls, jobs,
nonces, shares, batches, pools, logins, retries, cards, samples, heights,
connections, requests, edits, options and files, and for any temperatures.  Nothing is assumed
but the named assumptions on the constants, `~SinglePool` of `UserHasTheWorkers`,
`Backed` (two pools, more than one retry, `~Overtake`, a backup that is not odd
and has a route), and `NoOvertaking`, which is a hypothesis on the behaviour, is
discussed above, and follows from `Backed`.

* `RunsIffWanted` is not inductive: it speaks only of the moments between
  calls.  `FlagsInv` adds what `m_paused` is at each point inside a call.
* `NoNonceTwice` needs `JobsInv`: the saved job and nonce of a thread agree
  with what it has hashed, a thread that mines a job of the donation has its
  saved job untouched, and the counts of jobs it has not seen are zero.
* `StaleOnlyFromConsume` is an action property, and most of its proof is that
  a step of the main loop makes no thread stale: one that changes the job is
  followed by one that changes `m_sequence`.  That needs `AheadInv`: until
  `stop()` no thread has stored a number that is still to come.
* `Nonces`: `Within` says that what a thread has hashed of a job that is not
  `long` lies in its own part, between its start and where it is (`NextOwn`) or
  where it was saved (`Paused`), and `Fresh` that a job it has not seen has
  none.  That the parts are disjoint is `x \div n * i` being monotone in `i`,
  which a lemma states once, since the solver has no products of variables.
* `Cooling`: the sleep factor is zero exactly when the card is not being cooled,
  after every part of a pass (`Slept`); the fan is in the mode the context
  believes, unless a request for it was refused (`FanInv`).  Each branch of
  `DoCooling` is an operator on the context with a lemma of its own.
* For the refinement of `Preference` the invariant is type correctness,
  `mining = active` and `IndexIsActive`.  Each callback is a function from one
  record of the strategy's variables to the next, so a lemma per callback
  (`OnCloseKeeps`, `LoginSuccessKeeps`) states what it preserves and what it does
  to the pool worked for; the refinement follows, step by step, from the second
  part.
* `NeverForgotten` needs `AwaitInv`: a strategy that has not been started has
  new clients (`Started`); until it is deleted its clients have their listener
  (`Listens`), and the primary and the client at `m_index` have a retry, a
  lookup or a socket to come (`Awaited`).  Every operation of a client either
  keeps that or is followed by `reconnect` in the same step.
* The handles need `HandleInv`: each client is `Coherent` (its state says what
  its resolver, its socket and its timer may be doing), a pool that serves is
  the active one, pools beyond `m_index` have not been asked or have been
  disconnected (`Sound`), and what a deleted strategy has left is closing
  (`Released`).  There is one lemma per operation on `Coherent`.  A
  step that would connect a client whose attempt is under way breaks it, hence
  `NoOvertaking`: the theorems show that nothing else does.
* That nothing overtakes two pools needs `PairInv`: while what `disconnect` left
  of the backup is not over, the primary has failed once at most since its
  login, and then waits for a retry (`AtFirst`), which waits for the backup; and
  a backup that was disconnected has no connection that would last (`Parting`).
* For `Donation`: the timer runs whenever the strategy donates or the delayed
  stop is due, and otherwise the client is `Trying` (a connection, a lookup or
  a retry is due and `disconnect` has not been called). `Carried` says that an
  operation of the client does not give up, and has a lemma per operation.
  `OrderlyUntilDropped` rests on `Phases`: until a serving connection is lost,
  the timer and the delayed stop tell what the client is doing (quiet, trying
  with the idle time over, serving), so the delayed stop cannot meet the next
  donation; and the client is `Coherent`, by the same lemmas as in `Failover`.
  Each of the two modules has a copy of those it needs.
* `Shares`: `Types`; each client knows of a share only what it has sent, under a
  number it has given once (`Sound`); a share is in the queue, in a batch or in a
  note of a client, in one of these only, and none of them is counted yet
  (`Placed`); the list of the best is in descending order and has, down to each
  difficulty, as many as were accepted or is full (`Ranked`).  Each action has a
  lemma that names the place a share leaves and the one it gets to.
* `Verification`: `CheckInv` says that the context of a batch has room for the
  algorithm it was made for, and that the loop of a share that is checked is the
  one of its own variant and block (`OwnLoop`).  The guards of `LoopRun` are
  written to exclude each other, so that the prover can tell the cases apart.
* `Hashrate`: `RateInv` relates what a thread has stored to what it has finished
  (`Published`), what the timer has loaded of that (`HalfRead`), the samples of
  the ring, in order of their time, to both (`Sampled`), and says that the ring
  holds the newest of them (`Kept`).
* `Programs`: a builder that has passed the second look at the cache under the
  build lock wants a program that is not cached, and no other is between that
  look and the end of its compilation (`Locked`, `Wants`); what a card was given
  is the program of its job (`Wanted`, `Got`), so what it loads is too (`Mines`).
* `Control`: the connection of a client is idle or a live request whose upload,
  if it has one, is a PUT that was admitted with its headers (`ConnInv`); the
  number of bodies is that of the open uploads and the aborted ones, of which
  there are no more than requests (`CountInv`), which makes the sets finite that
  `Cardinality` counts.

The proofs about the loops over data, in `LoopProofs` and in `SettingsProofs`, which
extends it, need induction, and the
induction theorems of the library take an operator, which no prover here can
instantiate.  What they rest on needs none: a set of naturals that is not empty
has a least element, and so has a set of subsets of a finite set.  An induction
is then a set, of the numbers for which a statement fails, and its least
element.  The first part of the module derives from it induction up to a bound
(`UpTo`), and that `FoldLeft`, which the community module defines by the `CHOOSE`
of a recursive function, is its first value after no element and one step more
after each.

* `Stream`: what a Client has in `recvBuf` and `readBio`, what is on its way and
  what the pool has still to write are, one after the other, the pool's text in
  order after the lines heard (`Flowing`), whatever the sizes of the lines and
  the pieces that TCP makes of them; with TLS, for a pool that puts each line in
  one record that fits (`Framed`).  The buffers of a connection are empty when
  the next begins (`Emptied`), and a server that is not the one configured gets
  to no state in which it is heard (`Unheard`).  The loop that cuts lines is a
  fold, whose lemma says that it takes exactly the whole lines.
* `Targets`: `m_diff` is `Full \div m_target` always, and the target of half
  the width is `Full \div (Half \div n)` of the number `n` in the text
  (`TargetsInv`).  The difficulty of the pool is then what is counted for a share,
  by `Full = Half * (Half + 2)`, for any width; that a text of digits is a number
  below `2^w` is an induction over the digits.
* `OneMeaning`: every drawn instruction is `Proper` (no ADD, SUB or XOR of a
  register with itself, no constant as the source of MUL, ROR and ROL), and for
  these the index of a fragment is one-to-one, so the fragment found is the
  instruction's own.  `SameRegisters`: the processor's registers are the
  interpreter's, and `rcx` has the value of the register that `prev_rot_src`
  names, which is what makes the omitted `mov ecx` right.  Both, and the text for
  the card, by induction over a program of any length.
* `NothingToFold`: the attempt knows, for each register, the opcode of the
  instruction that wrote it last, and the value its source had, as long as that
  source has not been written again (`Known`); the test in the loop then excludes
  what folds, with any instructions between the two.

* `CardsRun`: a configuration is `bind` of settled threads, which leave nothing to
  be chosen; a reload of what was saved finds the same, so no card is reset
  (`SavedStay`), while anything else a step does to the GPU threads is to take
  memory (`OnlyLost`).  The automatic choice takes the cards in their order, each
  once and with nothing held there (`Rising`), so that `cudaDeviceReset` of one
  thread never is that of another; and what it chooses fits: the hashes by
  `blocks * threads * perThread <= limited`, the buffers beside them because
  `perThread` counts more than is allocated, and on cards before Pascal, where the
  choice is another, out of the 128 MB that are kept back (`ChosenFits`).
* `Settings`: a list of pools is raw (`Raw`) until it is adjusted: no pool has an
  algorithm, and each has the address that was parsed into its host and port, but
  for one pool alone, which may have none.  New configurations are raw, every
  option and every file keeps them so (`OptionStays`, `UrlSet`, `FilePoolsRaw`),
  and a configuration that is ready is a raw one adjusted to its own algorithm,
  with an enabled pool (`Ready`).  That, while no option came after `--config`,
  and that jobs are of its algorithm, is the invariant (`LoadInv`).
  `JobsCanBeHashed`: adjusting leaves a pool with the configuration's algorithm or
  an invalid one, whichever rules of NiceHash and MinerGate apply, and `rebuild`
  offers only variants of that which `Algorithm::isValid` accepts (`AdjustFits`);
  by the tables, these are those with a tested function, a kernel and a loop
  (`HashedRuns`).  `SavedIsSame`: names, numbers of variants and addresses are read
  as they were written (`NameRound`, `VariantRound`, `ReadBack`), the numbers are
  allowed or the defaults, and the rules that have set a pool's variant set the
  same one again (`SavedPoolSame`), so that `isEqual` finds no difference.  Pools
  and lists of them are taken apart into their fields for the provers (`Made`,
  `ConfigMade`).

### Only model-checked

* All liveness properties: `ENABLED` and liveness under fairness are out of the
  prover's reach; so `AttemptEnds`, the other half of `DrawsPrograms`.
* The modules on symbolic words: `KernelsHashLikeCpu`, `LaunchLikeCpu`,
  `CnGpuAlike`.  They compare terms of a fixed structure, one variant after the
  other; the prover has no evaluation, and TLC has every case of it.

## 5. What is not modelled

* The arithmetic of the hash: AES tables, division by reciprocals, square roots,
  floating point, keccak and the four final hashes are one symbolic operation
  each; a wrong constant in them is seen by the self-tests of the program, not
  here. `INT64_MIN / -1` in cn-heavy is not followed.
* The CPU's double to quintuple hashes, which nothing in this program calls, and
  the text of the assembler loops.
* The texts of options, URLs, JSON and identities beyond what the code tells
  apart; the blob of a job beyond its version and its nonce.
* The replies of the API and all other output: log, summary, `printHashrate`,
  `printHealth` beyond its lock.  Three stale pointers and values are read only
  there (see `hazards`).
* The start-up and the walk over libuv's handles at exit in `App`; a share that
  is found after `stop` has closed `m_async`.
* A part of a message that `uv_try_write` does not take, which the code loses.
* The temperature limits after a reload: they are copied once (`App.cpp:127`).
* The Windows branches (NvAPI, console colours); log files, huge pages, signals
  and other calls of the operating system; the vendored code.

## 6. What is left

The plan of this project is carried out in the order dispatch, cooling, pools,
donation, shares, programs, configuration, API, hash.  What would add most next:

1. The composition of `Workers` with `Donation`, whose `mined` is the sequence
   of calls `Workers` gets, with an abstract specification of what the GPUs are
   told.
2. `Workers::stop` together with the shares still in the queue and in batches,
   and the closing of the handles that follows.
3. Kernels without the assumption of lockstep, for cards that schedule the
   threads of a warp independently.
