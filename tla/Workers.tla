------------------------------- MODULE Workers -------------------------------
(***************************************************************************)
(* Dispatch of jobs from the main loop to the GPU threads: the statics of  *)
(* workers/Workers.cpp and the thread function of workers/CudaWorker.cpp.  *)
(*                                                                         *)
(* The main loop runs one call at a time; a call is split at every access  *)
(* to m_job, m_paused and m_sequence, the state the GPU threads read       *)
(* without the loop's knowledge.  A GPU thread is split the same way.      *)
(*                                                                         *)
(* A job is known by the three fields the dispatch looks at: its id, the   *)
(* id of the stratum session it came from, and its pool (-1 for the        *)
(* donation pool, -2 for the job nobody has set yet).  A nonce is counted  *)
(* in batches, from 0 when a thread starts a job.                          *)
(***************************************************************************)
EXTENDS Integers

CONSTANTS
    Threads,        \* the GPU threads, one per configured device
    NvmlAvailable,  \* NvmlApi::isAvailable(): the NVML library was loaded
    IdsRepeat,      \* a pool may name its current job alike in a new session
    MaxCalls,       \* bound: calls the main loop makes before stop()
    MaxIds,         \* bound: job ids handed out
    MaxBatches      \* bound: batches counted per job (the count saturates)

ASSUME WorkersAssumption ==
    /\ NvmlAvailable \in BOOLEAN
    /\ IdsRepeat \in BOOLEAN
    /\ MaxCalls \in Nat
    /\ MaxIds \in Nat
    /\ MaxBatches \in Nat

NoJob == [id |-> 0, clientId |-> 0, poolId |-> -2]

MainJobs   == [id : 1..MaxIds, clientId : 1..MaxCalls, poolId : {0}]
DonateJobs == [id : 1..MaxIds, clientId : {0}, poolId : {-1}]
Jobs == {NoJob} \cup MainJobs \cup DonateJobs

VARIABLES
    mpc,         \* where the main loop is
    calls,       \* calls made so far, bounded by MaxCalls
    lastId,      \* the last job id a pool handed out
    mainJob,     \* the last job of the user's pools that setJob stored
    m_job, m_active, m_enabled, m_paused, m_sequence,   \* Workers.h statics
    leaked,      \* a read lock of m_rwlock was taken and never released
    pc,          \* where each GPU thread is
    wjob, wseq, nonce, pausedJob, pausedNonce,  \* CudaWorker members
    rjob,        \* the local `job' of consumeJob
    mining,      \* consumeJob returns to the hash loop, not to the outer loop
    done         \* history: batches each thread has hashed of each job

mainVars   == <<mpc, calls, lastId, mainJob, m_job, m_active, m_enabled, leaked>>
flags      == <<m_paused, m_sequence>>
threadVars == <<pc, wjob, wseq, nonce, pausedJob, pausedNonce, rjob, mining, done>>
vars       == <<mainVars, flags, threadVars>>

MainStates == {"loop", "setJob.sequence", "setJob.paused", "bump", "blocked",
               "stop.sequence", "join", "exited"}
ThreadStates == {"setup", "test", "ifPaused", "paused", "wake", "readJob",
                 "readSequence", "outdated", "hash", "exit"}

-----------------------------------------------------------------------------
(* The state right after Workers::start: paused, sequence 1, every thread   *)
(* created and none of them past its GPU set-up.                            *)
Init ==
    /\ mpc = "loop" /\ calls = 0 /\ lastId = 0 /\ mainJob = NoJob
    /\ m_job = NoJob /\ m_active = FALSE /\ m_enabled = TRUE
    /\ m_paused = 1 /\ m_sequence = 1 /\ leaked = FALSE
    /\ pc = [w \in Threads |-> "setup"]
    /\ wjob = [w \in Threads |-> NoJob]
    /\ wseq = [w \in Threads |-> 0]
    /\ nonce = [w \in Threads |-> 0]
    /\ pausedJob = [w \in Threads |-> NoJob]
    /\ pausedNonce = [w \in Threads |-> 0]
    /\ rjob = [w \in Threads |-> NoJob]
    /\ mining = [w \in Threads |-> FALSE]
    /\ done = [w \in Threads |-> [j \in Jobs |-> 0]]

-----------------------------------------------------------------------------
(* The main loop.                                                           *)

Call == mpc = "loop" /\ calls < MaxCalls /\ calls' = calls + 1

(* Mutant of SetJob: forgets that the user has paused.                      *)
SetJobAlways(job) ==
    IF leaked
    THEN mpc' = "blocked" /\ UNCHANGED <<m_job, m_active, mainJob>>
    ELSE /\ m_job' = job
         /\ m_active' = TRUE
         /\ mainJob' = IF job.poolId = -1 THEN mainJob ELSE job
         /\ mpc' = "setJob.sequence"

(* Workers::setJob up to its first atomic: the write lock (which a leaked   *)
(* read lock keeps for ever), m_job and the two flags only the main loop    *)
(* reads.  While disabled by the user nothing else happens.                 *)
SetJob(job) ==
    IF leaked
    THEN mpc' = "blocked" /\ UNCHANGED <<m_job, m_active, mainJob>>
    ELSE /\ m_job' = job
         /\ m_active' = TRUE
         /\ mainJob' = IF job.poolId = -1 THEN mainJob ELSE job
         /\ mpc' = IF m_enabled THEN "setJob.sequence" ELSE "loop"

(* A new job of the user's pool, in the current session or a new one.       *)
SetMainJob ==
    \E client \in {mainJob.clientId, mainJob.clientId + 1} :
        /\ Call
        /\ lastId < MaxIds
        /\ client # 0
        /\ lastId' = lastId + 1
        /\ SetJob([id |-> lastId + 1, clientId |-> client, poolId |-> 0])
        /\ UNCHANGED <<m_enabled, leaked, flags, threadVars>>

(* A job of the donation pool: setJob overwrites its pool with -1.          *)
SetDonateJob ==
    /\ Call
    /\ lastId < MaxIds
    /\ lastId' = lastId + 1
    /\ SetJob([id |-> lastId + 1, clientId |-> 0, poolId |-> -1])
    /\ UNCHANGED <<m_enabled, leaked, flags, threadVars>>

(* The donation is over and the strategy passes its pool's job again: the   *)
(* very same one, or, after a new login meanwhile, one of the same name.    *)
ResumeMainJob ==
    \E client \in {mainJob.clientId} \cup
                  (IF IdsRepeat THEN {mainJob.clientId + 1} ELSE {}) :
        /\ Call
        /\ m_job.poolId = -1
        /\ mainJob # NoJob
        /\ SetJob([mainJob EXCEPT !.clientId = client])
        /\ UNCHANGED <<lastId, m_enabled, leaked, flags, threadVars>>

(* Mutant of SetJobSequence: the sequence number stands still.              *)
SetJobSequenceForgotten ==
    /\ mpc = "setJob.sequence"
    /\ mpc' = "setJob.paused"
    /\ UNCHANGED <<calls, lastId, mainJob, m_job, m_active, m_enabled, leaked,
                   flags, threadVars>>

SetJobSequence ==
    /\ mpc = "setJob.sequence"
    /\ m_sequence' = m_sequence + 1
    /\ mpc' = "setJob.paused"
    /\ UNCHANGED <<calls, lastId, mainJob, m_job, m_active, m_enabled, leaked,
                   m_paused, threadVars>>

SetJobPaused ==
    /\ mpc = "setJob.paused"
    /\ m_paused' = 0
    /\ mpc' = "loop"
    /\ UNCHANGED <<calls, lastId, mainJob, m_job, m_active, m_enabled, leaked,
                   m_sequence, threadVars>>

(* Workers::pause: no pool has work.                                        *)
Pause ==
    /\ Call
    /\ m_active' = FALSE
    /\ m_paused' = 1
    /\ mpc' = "bump"
    /\ UNCHANGED <<lastId, mainJob, m_job, m_enabled, leaked, m_sequence, threadVars>>

(* Workers::setEnabled: the pause and resume commands of the console.       *)
SetEnabled ==
    /\ Call
    /\ m_enabled' = ~m_enabled
    /\ IF m_active
       THEN /\ m_paused' = IF m_enabled' THEN 0 ELSE 1
            /\ mpc' = "bump"
       ELSE UNCHANGED <<m_paused, mpc>>
    /\ UNCHANGED <<lastId, mainJob, m_job, m_active, leaked, m_sequence, threadVars>>

(* The m_sequence++ that ends pause and setEnabled.                         *)
Bump ==
    /\ mpc = "bump"
    /\ m_sequence' = m_sequence + 1
    /\ mpc' = "loop"
    /\ UNCHANGED <<calls, lastId, mainJob, m_job, m_active, m_enabled, leaked,
                   m_paused, threadVars>>

(* Workers::printHealth: without NVML it returns with the read lock held.   *)
PrintHealth ==
    /\ Call
    /\ leaked' = (leaked \/ ~NvmlAvailable)
    /\ UNCHANGED <<mpc, lastId, mainJob, m_job, m_active, m_enabled, flags, threadVars>>

(* Workers::stop: m_paused, then m_sequence, then join every thread.        *)
Stop ==
    /\ mpc = "loop"
    /\ m_paused' = 0
    /\ mpc' = "stop.sequence"
    /\ UNCHANGED <<calls, lastId, mainJob, m_job, m_active, m_enabled, leaked,
                   m_sequence, threadVars>>

StopSequence ==
    /\ mpc = "stop.sequence"
    /\ m_sequence' = 0
    /\ mpc' = "join"
    /\ UNCHANGED <<calls, lastId, mainJob, m_job, m_active, m_enabled, leaked,
                   m_paused, threadVars>>

Join ==
    /\ mpc = "join"
    /\ \A w \in Threads : pc[w] = "exit"
    /\ mpc' = "exited"
    /\ UNCHANGED <<calls, lastId, mainJob, m_job, m_active, m_enabled, leaked,
                   flags, threadVars>>

-----------------------------------------------------------------------------
(* A GPU thread.                                                            *)

Goto(w, from, to) == pc[w] = from /\ pc' = [pc EXCEPT ![w] = to]

ThreadLocal == <<wjob, wseq, nonce, pausedJob, pausedNonce, rjob, mining, done>>

(* CudaWorker::start: the device is set up, or the thread ends at once.     *)
Setup(w) ==
    /\ \E to \in {"test", "exit"} : Goto(w, "setup", to)
    /\ UNCHANGED <<mainVars, flags, ThreadLocal>>

(* while (Workers::sequence() > 0)                                          *)
Test(w) ==
    /\ Goto(w, "test", IF m_sequence > 0 THEN "ifPaused" ELSE "exit")
    /\ UNCHANGED <<mainVars, flags, ThreadLocal>>

IfPaused(w) ==
    /\ Goto(w, "ifPaused", IF m_paused = 1 THEN "paused" ELSE "outdated")
    /\ UNCHANGED <<mainVars, flags, ThreadLocal>>

(* The 200 ms sleeps end at the first look that finds m_paused 0.           *)
Awake(w) ==
    /\ m_paused # 1
    /\ Goto(w, "paused", "wake")
    /\ UNCHANGED <<mainVars, flags, ThreadLocal>>

Wake(w) ==
    /\ Goto(w, "wake", IF m_sequence = 0 THEN "exit" ELSE "readJob")
    /\ mining' = [mining EXCEPT ![w] = TRUE]
    /\ UNCHANGED <<mainVars, flags, wjob, wseq, nonce, pausedJob, pausedNonce, rjob, done>>

(* consumeJob takes the job first and the sequence number second.           *)
ReadJob(w) ==
    /\ Goto(w, "readJob", "readSequence")
    /\ rjob' = [rjob EXCEPT ![w] = m_job]
    /\ UNCHANGED <<mainVars, flags, wjob, wseq, nonce, pausedJob, pausedNonce, mining, done>>

SameJob(w)  == wjob[w].id = rjob[w].id /\ wjob[w].clientId = rjob[w].clientId
(* Mutant of Saves: a second donation job overwrites the saved one.         *)
SavesAlways(w) == rjob[w].poolId = -1
Saves(w)    == rjob[w].poolId = -1 /\ wjob[w].poolId >= 0
Resumes(w)  == wjob[w].poolId = -1 /\ rjob[w].poolId >= 0 /\ rjob[w].id = pausedJob[w].id

(* What consumeJob does with a job that is not the one being mined.         *)
TakeJob(w) ==
    /\ IF Saves(w)
       THEN /\ pausedJob' = [pausedJob EXCEPT ![w] = wjob[w]]
            /\ pausedNonce' = [pausedNonce EXCEPT ![w] = nonce[w]]
       ELSE UNCHANGED <<pausedJob, pausedNonce>>
    /\ IF Resumes(w)
       THEN /\ wjob' = [wjob EXCEPT ![w] = pausedJob[w]]
            /\ nonce' = [nonce EXCEPT ![w] = pausedNonce[w]]
       ELSE /\ wjob' = [wjob EXCEPT ![w] = rjob[w]]
            /\ nonce' = [nonce EXCEPT ![w] = 0]

(* Mutant of ReadSequence: returns for the same job before the sequence     *)
(* number is stored.                                                        *)
ReadSequenceTooLate(w) ==
    /\ Goto(w, "readSequence", IF mining[w] THEN "outdated" ELSE "test")
    /\ IF SameJob(w)
       THEN UNCHANGED <<wseq, wjob, nonce, pausedJob, pausedNonce>>
       ELSE wseq' = [wseq EXCEPT ![w] = m_sequence] /\ TakeJob(w)
    /\ UNCHANGED <<mainVars, flags, rjob, mining, done>>

(* The rest of consumeJob: keep the job, or save the user's job before a    *)
(* donation, resume the saved one after it, or start the new job's range.   *)
ReadSequence(w) ==
    /\ Goto(w, "readSequence", IF mining[w] THEN "outdated" ELSE "test")
    /\ wseq' = [wseq EXCEPT ![w] = m_sequence]
    /\ IF SameJob(w)
       THEN UNCHANGED <<wjob, nonce, pausedJob, pausedNonce>>
       ELSE TakeJob(w)
    /\ UNCHANGED <<mainVars, flags, rjob, mining, done>>

(* while (!Workers::isOutdated(m_sequence))                                 *)
Outdated(w) ==
    /\ Goto(w, "outdated", IF m_sequence # wseq[w] THEN "readJob" ELSE "hash")
    /\ mining' = [mining EXCEPT ![w] = FALSE]
    /\ UNCHANGED <<mainVars, flags, wjob, wseq, nonce, pausedJob, pausedNonce, rjob, done>>

Next1(n) == IF n < MaxBatches THEN n + 1 ELSE n

(* One batch on the GPU and the step of m_nonce past it.                    *)
HashBatch(w) ==
    /\ Goto(w, "hash", "outdated")
    /\ nonce' = [nonce EXCEPT ![w] = Next1(@)]
    /\ done' = [done EXCEPT ![w][wjob[w]] = Next1(@)]
    /\ UNCHANGED <<mainVars, flags, wjob, wseq, pausedJob, pausedNonce, rjob, mining>>

-----------------------------------------------------------------------------
Calls == SetMainJob \/ SetDonateJob \/ ResumeMainJob \/ Pause \/ SetEnabled
         \/ PrintHealth \/ Stop
Continue == SetJobSequence \/ SetJobPaused \/ Bump \/ StopSequence \/ Join
ThreadStep(w) == Setup(w) \/ Test(w) \/ IfPaused(w) \/ Awake(w) \/ Wake(w)
                 \/ ReadJob(w) \/ ReadSequence(w) \/ Outdated(w) \/ HashBatch(w)

(* After the last join the process ends; a loop that waits for a lock that  *)
(* is never released waits on, though all of its GPU threads may have ended.*)
Exited == mpc \in {"exited", "blocked"} /\ UNCHANGED vars

Next == Calls \/ Continue \/ (\E w \in Threads : ThreadStep(w)) \/ Exited

Spec == Init /\ [][Next]_vars

(* The main loop finishes a call it has begun, and the operating system     *)
(* keeps scheduling every GPU thread.  Nobody has to make any call.         *)
Fairness == WF_vars(Continue) /\ \A w \in Threads : WF_vars(ThreadStep(w))

FairSpec == Spec /\ Fairness

-----------------------------------------------------------------------------
(* Properties.                                                              *)

MainTypeOK ==
    /\ mpc \in MainStates /\ calls \in 0..MaxCalls /\ lastId \in 0..MaxIds
    /\ mainJob \in {NoJob} \cup MainJobs /\ mainJob.clientId <= calls
    /\ m_job \in Jobs
    /\ m_active \in BOOLEAN /\ m_enabled \in BOOLEAN /\ leaked \in BOOLEAN
    /\ m_paused \in {0, 1} /\ m_sequence \in Nat

ThreadTypeOK ==
    /\ pc \in [Threads -> ThreadStates]
    /\ wjob \in [Threads -> Jobs]
    /\ wseq \in [Threads -> Nat]
    /\ nonce \in [Threads -> 0..MaxBatches]
    /\ pausedJob \in [Threads -> {NoJob} \cup MainJobs]
    /\ pausedNonce \in [Threads -> 0..MaxBatches]
    /\ rjob \in [Threads -> Jobs]
    /\ mining \in [Threads -> BOOLEAN]
    /\ done \in [Threads -> [Jobs -> 0..MaxBatches]]

TypeOK == MainTypeOK /\ ThreadTypeOK

(* Between calls the GPUs run exactly when some pool has given work and the *)
(* user has not paused: setJob, pause and setEnabled may come in any order. *)
RunsIffWanted == mpc = "loop" => (m_paused = 0 <=> (m_active /\ m_enabled))

(* A thread's nonce for its job is the number of batches it ever hashed of  *)
(* that job: no range is mined twice or skipped, however often donations    *)
(* interrupt it (save and resume of CudaWorker).                            *)
NoNonceTwice == \A w \in Threads : nonce[w] = done[w][wjob[w]]

(* A thread mines something other than the current job although it thinks   *)
(* itself up to date and no change of the sequence number is under way.     *)
Stale(w) ==
    /\ m_active /\ m_enabled /\ m_sequence # 0 /\ mpc \notin {"setJob.sequence", "bump"}
    /\ pc[w] \in {"test", "ifPaused", "outdated", "hash"} /\ wseq[w] = m_sequence
    /\ <<wjob[w].id, wjob[w].clientId>> # <<m_job.id, m_job.clientId>>

(* The only ways into that state: setJob ran as a whole between the two     *)
(* reads of consumeJob, or resume() took a job of the same name but of an   *)
(* older session.  No other order of setJob, pause and setEnabled leaves a  *)
(* GPU on an old job.                                                       *)
StaleOnlyFromConsume ==
    [][\A w \in Threads : Stale(w)' => \/ Stale(w)
                                       \/ /\ pc[w] = "readSequence"
                                          /\ \/ rjob[w] # m_job
                                             \/ Resumes(w) /\ rjob[w] # pausedJob[w]]_vars

Parked(w) == pc[w] \in {"paused", "exit"}
Mining(w) == pc[w] \in {"outdated", "hash"} /\ wseq[w] = m_sequence

(* On its way from the pause loop into the hash loop.                       *)
Waking(w) == pc[w] = "wake" \/ mining[w]

(* A pause parks every GPU that is not, at that moment, waking up from the  *)
(* last one.                                                                *)
PauseParks == \A w \in Threads :
    (m_paused = 1 /\ mpc = "bump" /\ ~Waking(w)) ~> (Parked(w) \/ m_paused = 0)

(* A job reaches every GPU: after setJob each thread comes to mine at the   *)
(* new sequence number, unless the number moves on or the thread has ended. *)
JobReachesAll ==
    \A n \in 1..(MaxCalls + 1), w \in Threads :
        (m_sequence = n /\ m_paused = 0 /\ mpc = "loop") ~>
            (m_sequence # n \/ mpc = "stop.sequence" \/ Mining(w) \/ pc[w] = "exit")

(* A thread that was in its hash loop, with a sequence number it has read,  *)
(* sees the 0 of stop(): such a miner always exits.                         *)
Caught(w) == \/ pc[w] = "exit"
             \/ /\ wseq[w] # 0 /\ ~Waking(w)
                /\ pc[w] \in {"outdated", "hash", "readJob", "readSequence"}
StopWhileMiningExits ==
    (mpc = "stop.sequence" /\ \A w \in Threads : Caught(w)) ~> (mpc = "exited")

(* Every stop() ends: the join of each thread returns.                      *)
StopExits == (mpc = "stop.sequence") ~> (mpc = "exited")

(* Every call the main loop begins returns to the loop or ends the process. *)
CallReturns == (mpc # "loop") ~> (mpc \in {"loop", "join", "exited"})

(* Every call comes back, and what it asks for reaches every GPU: a job, a  *)
(* pause and a stop, but for the threads that are waking up from a pause.   *)
TakesEffect == CallReturns /\ JobReachesAll /\ PauseParks /\ StopWhileMiningExits
=============================================================================
