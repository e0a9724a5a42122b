------------------------------ MODULE Programs ------------------------------
(***************************************************************************)
(* The programs of CryptonightR: every block height has a random program   *)
(* of its own, which nvidia/CudaCryptonightR_gen.cpp compiles, caches and, *)
(* for the next height, compiles ahead in a background thread.  The GPU    *)
(* threads ask for theirs in cryptonight_gpu_hash (nvidia/cuda_core.cu).   *)
(*                                                                         *)
(* A step is one critical section of the code, or the work between two.    *)
(* The order of the cache is not modelled: an entry is looked up by its    *)
(* key, and removal replaces it by the last one.                           *)
(***************************************************************************)
EXTENDS Naturals, Sequences, FiniteSets

CONSTANTS
    Threads,        \* the GPU threads
    Arch,           \* [Threads -> the compute capability of their card]
    Variants,       \* VARIANT_WOW and VARIANT_4, or one of them
    CompileFails,   \* NVRTC may fail
    Behind,         \* a pool may be one block behind
    MaxHeight       \* bound: blocks found of each chain

ASSUME ProgramsAssumption ==
    /\ MaxHeight \in Nat \ {0}
    /\ CompileFails \in BOOLEAN /\ Behind \in BOOLEAN
    /\ DOMAIN Arch = Threads
    /\ {"background", "nobody"} \cap Threads = {}

Archs    == {Arch[g] : g \in Threads}
Kernels  == [variant : Variants, height : 1..MaxHeight + 1]
Programs == [variant : Variants, height : 1..MaxHeight + 1, arch : Archs]

Background == "background"
Builders   == Threads \cup {Background}
NoKernel   == [variant |-> "auto", height |-> 0]     \* CudaWorker's constructor
NoProgram  == [variant |-> "none", height |-> 0, arch |-> "none"]
For(k, a)  == [variant |-> k.variant, height |-> k.height, arch |-> a]

VARIABLES
    tip,        \* the height of each chain, as the pools know it
    pc,         \* where a builder is
    program,    \* the program a builder wants
    ptx,        \* the code it got, named by the program it was compiled from
    job,        \* the kernel the job of a GPU thread needs
    kernel,     \* nvid_ctx: kernel_variant and kernel_height
    module,     \* nvid_ctx: the code loaded on the card
    cache,      \* CryptonightR_cache: how many entries each program has
    builder,    \* who holds CryptonightR_build_mutex
    tasks,      \* background_tasks, not yet taken
    batch       \* the background thread's own `tasks'

gpuVars   == <<job, kernel, module>>
taskVars  == <<tasks, batch>>
buildVars == <<pc, program, ptx, cache, builder>>
vars == <<tip, buildVars, gpuVars, taskVars>>

TypeOK ==
    /\ tip \in [Variants -> 1..MaxHeight]
    /\ pc \in [Builders -> {"hash", "sleep", "lookup", "evict", "build", "compile",
                            "load", "crashed"}]
    /\ program \in [Builders -> Programs \cup {NoProgram}]
    /\ ptx \in [Builders -> Programs \cup {NoProgram}]
    /\ job \in [Threads -> Kernels \cup {NoKernel}]
    /\ kernel \in [Threads -> Kernels \cup {NoKernel}]
    /\ module \in [Threads -> Programs \cup {NoProgram}]
    /\ cache \in [Programs -> Nat]
    /\ builder \in Builders \cup {"nobody"}
    /\ tasks \in Seq(Programs)
    /\ batch \in Seq(Programs)

Init ==
    /\ tip = [v \in Variants |-> 1]
    /\ pc = [b \in Builders |-> IF b = Background THEN "sleep" ELSE "hash"]
    /\ program = [b \in Builders |-> NoProgram]
    /\ ptx = [b \in Builders |-> NoProgram]
    /\ job = [g \in Threads |-> NoKernel]
    /\ kernel = [g \in Threads |-> NoKernel]
    /\ module = [g \in Threads |-> NoProgram]
    /\ cache = [p \in Programs |-> 0]
    /\ builder = "nobody"
    /\ tasks = <<>>
    /\ batch = <<>>

(* An exception of CU_CHECK leaves the thread function and ends the process. *)
Running == \A g \in Threads : pc[g] # "crashed"

(* A pool announces the next block of a chain. *)
Extend(v) ==
    /\ Running
    /\ tip[v] < MaxHeight
    /\ tip' = [tip EXCEPT ![v] = @ + 1]
    /\ UNCHANGED <<buildVars, gpuVars, taskVars>>

Goto(b, label) == pc' = [pc EXCEPT ![b] = label]

(* The job a GPU thread hashes for the next batch: of the last block, or, from
   a pool that is behind, of the one before. *)
Announced(v) == {tip[v]} \cup IF Behind THEN {tip[v] - 1} \ {0} ELSE {}

NeedsProgram(g, k) == kernel[g] # k

Hash(g) ==
    /\ Running
    /\ pc[g] = "hash"
    /\ \E v \in Variants : \E h \in Announced(v) :
         LET k == [variant |-> v, height |-> h]
         IN  /\ NeedsProgram(g, k)
             /\ job' = [job EXCEPT ![g] = k]
             /\ program' = [program EXCEPT ![g] = For(k, Arch[g])]
    /\ module' = [module EXCEPT ![g] = NoProgram]           \* cuModuleUnload
    /\ Goto(g, "lookup")
    /\ UNCHANGED <<tip, ptx, kernel, cache, builder, taskVars>>

(* CryptonightR_get_program returns the code p, or none; the background thread
   throws it away. *)
Return(b, p) ==
    /\ program' = [program EXCEPT ![b] = NoProgram]
    /\ ptx' = [ptx EXCEPT ![b] = IF b = Background THEN NoProgram ELSE p]
    /\ Goto(b, IF b = Background THEN "sleep" ELSE "load")

(* Mutant of Matches: the height is not compared. *)
MatchesAnyHeight(e, p) == e.variant = p.variant /\ e.arch = p.arch

Matches(e, p) == e.variant = p.variant /\ e.height = p.height /\ e.arch = p.arch
Found(p) == {e \in Programs : cache[e] > 0 /\ Matches(e, p)}

(* The first search of the cache. *)
Lookup(b) ==
    /\ Running
    /\ pc[b] = "lookup"
    /\ \/ \E e \in Found(program[b]) : Return(b, e)
       \/ /\ Found(program[b]) = {}
          /\ Goto(b, "evict")
          /\ UNCHANGED <<program, ptx>>
    /\ UNCHANGED <<tip, cache, builder, gpuVars, taskVars>>

(* Mutant of IsOld: the program of the block before is old. *)
IsOldEarly(e, p) == e.variant = p.variant /\ e.height + 1 < p.height

(* CryptonightR_build_program: programs of old blocks are dropped. *)
IsOld(e, p) == e.variant = p.variant /\ e.height + 2 < p.height

Evict(b) ==
    /\ Running
    /\ pc[b] = "evict"
    /\ cache' = [e \in Programs |-> IF IsOld(e, program[b]) THEN 0 ELSE cache[e]]
    /\ Goto(b, "build")
    /\ UNCHANGED <<tip, program, ptx, builder, gpuVars, taskVars>>

(* It takes the build lock and searches again, for a program that another
   builder has added while it waited. *)
Recheck(b) ==
    /\ Running
    /\ pc[b] = "build"
    /\ builder = "nobody"
    /\ \/ \E e \in Found(program[b]) : Return(b, e) /\ builder' = builder
       \/ /\ Found(program[b]) = {}
          /\ builder' = b
          /\ Goto(b, "compile")
          /\ UNCHANGED <<program, ptx>>
    /\ UNCHANGED <<tip, cache, gpuVars, taskVars>>

(* Mutant of Compile: a failed compilation leaves the lock taken. *)
CompileKeepsLock(b) ==
    /\ Running
    /\ pc[b] = "compile"
    /\ \/ /\ cache' = [cache EXCEPT ![program[b]] = @ + 1]
          /\ builder' = "nobody"
          /\ Return(b, program[b])
       \/ CompileFails /\ Return(b, NoProgram) /\ UNCHANGED <<builder, cache>>
    /\ UNCHANGED <<tip, gpuVars, taskVars>>

(* NVRTC compiles it; a call that fails leaves no code. *)
Compile(b) ==
    /\ Running
    /\ pc[b] = "compile"
    /\ builder' = "nobody"
    /\ \/ /\ cache' = [cache EXCEPT ![program[b]] = @ + 1]
          /\ Return(b, program[b])
       \/ CompileFails /\ Return(b, NoProgram) /\ cache' = cache
    /\ UNCHANGED <<tip, gpuVars, taskVars>>

(* background_exec; the first task starts the background thread. *)
Enqueue(p) == tasks' = Append(tasks, p)

Load(g) ==
    /\ Running
    /\ pc[g] = "load"
    /\ ptx' = [ptx EXCEPT ![g] = NoProgram]
    /\ \/ /\ ptx[g] = NoProgram              \* cuModuleLoadDataEx fails: CU_CHECK
          /\ Goto(g, "crashed")
          /\ UNCHANGED <<module, kernel, tasks>>
       \/ /\ ptx[g] # NoProgram
          /\ module' = [module EXCEPT ![g] = ptx[g]]
          /\ kernel' = [kernel EXCEPT ![g] = job[g]]
          /\ Enqueue([For(job[g], Arch[g]) EXCEPT !.height = @ + 1])
          /\ Goto(g, "hash")
    /\ UNCHANGED <<tip, program, cache, builder, job, batch>>

(* background_thread_proc: all tasks at once, *)
TakeTasks ==
    /\ Running
    /\ pc[Background] = "sleep" /\ batch = <<>>
    /\ tasks # <<>>
    /\ batch' = tasks
    /\ tasks' = <<>>
    /\ UNCHANGED <<tip, buildVars, gpuVars>>

(* and one after the other. *)
NextTask ==
    /\ Running
    /\ pc[Background] = "sleep" /\ batch # <<>>
    /\ program' = [program EXCEPT ![Background] = Head(batch)]
    /\ batch' = Tail(batch)
    /\ Goto(Background, "lookup")
    /\ UNCHANGED <<tip, ptx, cache, builder, gpuVars, tasks>>

Build(b) == Lookup(b) \/ Evict(b) \/ Recheck(b) \/ Compile(b)

Next ==
    \/ \E v \in Variants : Extend(v)
    \/ \E g \in Threads : Hash(g) \/ Load(g)
    \/ \E b \in Builders : Build(b)
    \/ TakeTasks \/ NextTask

Spec == Init /\ [][Next]_vars

(* The system schedules every thread, and a mutex is not held from a waiting
   thread for ever: the build lock is free again and again. *)
Fairness ==
    /\ \A b \in Builders : WF_vars(Lookup(b) \/ Evict(b) \/ Compile(b)) /\ SF_vars(Recheck(b))
    /\ \A g \in Threads : WF_vars(Load(g))
    /\ WF_vars(TakeTasks) /\ WF_vars(NextTask)

FairSpec == Spec /\ Fairness
-----------------------------------------------------------------------------
(* A card hashes with the code of the very program its job needs, compiled for
   its own architecture: shares computed with another one are all rejected. *)
MinesItsProgram ==
    \A g \in Threads : pc[g] = "hash" /\ kernel[g] # NoKernel =>
        /\ kernel[g] = job[g]
        /\ module[g] = For(job[g], Arch[g])

(* No program is in the cache twice, although two cards and the background
   thread may want the same one at the same time. *)
CompiledOnce == \A p \in Programs : cache[p] <= 1

(* The code a program was asked for is, once it is cached, still there when
   the card of that architecture reaches its height: only blocks that are at
   least two old are dropped. *)
NeededIsKept ==
    [][\A p \in Programs : cache[p] > 0 /\ p.height >= tip[p.variant] - 1 => cache'[p] > 0]_vars

(* A card that needs a program gets it, and the card does not wait for ever
   for the background thread. *)
GetsProgram ==
    \A g \in Threads : pc[g] = "lookup" ~> pc[g] = "hash" \/ ~Running

(* Every program that was asked for ahead is taken up by the background thread. *)
TakenUp == tasks # <<>> ~> tasks = <<>> \/ ~Running

(* The cache never has a program twice, and keeps what is still needed.      *)
CacheKept == []CompiledOnce /\ NeededIsKept

(* Who needs a program comes to have it, a card and the background thread.   *)
ProgramsArrive == GetsProgram /\ TakenUp
=============================================================================
