------------------------------- MODULE Nonces -------------------------------
(***************************************************************************)
(* How the GPU threads share the nonces of a job (workers/CudaWorker.cpp): *)
(* where each thread starts, how a batch moves it on, and what is saved    *)
(* while the donation's job is hashed.  Module Workers has the order of    *)
(* these steps and counts batches; here is the arithmetic.                 *)
(***************************************************************************)
EXTENDS Integers

CONSTANTS
    m_threads,          \* the number of GPU threads
    NonceSpace,         \* 2^32 in the code: m_nonce is a uint32_t
    FreeSpace,          \* 2^24: what a pool of NiceHash leaves to the miner
    BatchSize,          \* device_blocks * device_threads of each thread
    NonceJobs           \* the jobs that the Workers may be given

Workers == 0..(m_threads - 1)
UserJobs == {j \in NonceJobs : j.poolId >= 0}

(* What the pool has fixed of a nonce: its first byte in the code. *)
Prefix(nonce) == nonce - (nonce % FreeSpace)

ASSUME NoncesAssumption ==
    /\ m_threads \in Nat \ {0} /\ NonceSpace \in Nat \ {0} /\ FreeSpace \in Nat \ {0}
    /\ BatchSize \in [Workers -> Nat \ {0}]
    /\ \A j \in NonceJobs :
          /\ j.poolId \in Int /\ j.poolId >= -1 /\ j.nicehash \in BOOLEAN
          /\ j.nonce \in Nat /\ Prefix(j.nonce) \in Nat
          /\ Prefix(j.nonce) + FreeSpace <= NonceSpace

(* The job of the constructor, whose id no pool gives. *)
EmptyJob == [id |-> "", clientId |-> "", poolId |-> -2, nicehash |-> FALSE, nonce |-> 0]
ASSUME EmptyIdAssumption == \A j \in NonceJobs : j.id # ""

VARIABLES
    given,          \* Workers::m_job
    m_job,          \* of each thread, like the next three
    m_pausedJob,
    m_nonce,
    m_pausedNonce,
    begun,          \* history: nonces hashed since a thread began on a job
    hashed,         \* history: the nonces of a job that a thread ever hashed
    long            \* history: a thread hashed more of a job than its share

nonceVars == <<given, m_job, m_pausedJob, m_nonce, m_pausedNonce, begun, hashed, long>>

-----------------------------------------------------------------------------
(* 0xffffffU / m_threads and 0xffffffffU / m_threads *)
Share(j) == (IF j.nicehash THEN FreeSpace - 1 ELSE NonceSpace - 1) \div m_threads

(* Where thread t starts. *)
First(j, t) == (IF j.nicehash THEN Prefix(j.nonce) ELSE 0) + Share(j) * t

NoncesInit ==
    /\ given \in NonceJobs
    /\ m_job = [t \in Workers |-> EmptyJob]
    /\ m_pausedJob = [t \in Workers |-> EmptyJob]
    /\ m_nonce = [t \in Workers |-> 0] /\ m_pausedNonce = [t \in Workers |-> 0]
    /\ begun = [t \in Workers |-> [j \in NonceJobs |-> 0]]
    /\ hashed = [t \in Workers |-> [j \in NonceJobs |-> {}]]
    /\ long = [t \in Workers |-> [j \in NonceJobs |-> FALSE]]

(* Workers::setJob *)
Give(j) ==
    /\ given' = j
    /\ UNCHANGED <<m_job, m_pausedJob, m_nonce, m_pausedNonce, begun, hashed, long>>

-----------------------------------------------------------------------------
(* consumeJob *)
SameJob(t) == m_job[t].id = given.id /\ m_job[t].clientId = given.clientId

(* Mutant of Save: the nonce is not saved with the job. *)
SaveJobOnly(t) ==
    /\ m_pausedJob' = [m_pausedJob EXCEPT ![t] =
                          IF given.poolId = -1 /\ m_job[t].poolId >= 0 THEN m_job[t] ELSE @]
    /\ UNCHANGED m_pausedNonce

(* save: the user's job, before one of the donation *)
Save(t) ==
    IF given.poolId = -1 /\ m_job[t].poolId >= 0
    THEN /\ m_pausedJob' = [m_pausedJob EXCEPT ![t] = m_job[t]]
         /\ m_pausedNonce' = [m_pausedNonce EXCEPT ![t] = m_nonce[t]]
    ELSE UNCHANGED <<m_pausedJob, m_pausedNonce>>

CanResume(t) ==
    m_job[t].poolId = -1 /\ given.poolId >= 0 /\ given.id = m_pausedJob[t].id

Resume(t) ==
    /\ ~SameJob(t) /\ CanResume(t)
    /\ m_job' = [m_job EXCEPT ![t] = m_pausedJob[t]]
    /\ m_nonce' = [m_nonce EXCEPT ![t] = m_pausedNonce[t]]
    /\ UNCHANGED <<given, m_pausedJob, m_pausedNonce, begun, hashed, long>>

Begin(t) ==
    /\ ~SameJob(t) /\ ~CanResume(t)
    /\ Save(t)
    /\ m_job' = [m_job EXCEPT ![t] = given]
    /\ m_nonce' = [m_nonce EXCEPT ![t] = First(given, t) % NonceSpace]
    /\ begun' = [begun EXCEPT ![t][given] = 0]
    /\ UNCHANGED <<given, hashed, long>>

(* One turn of the hash loop, for a job that may be outdated.  Bound: until  *)
(* a batch goes beyond the share.                                           *)
HashBatch(t) ==
    LET j == m_job[t] IN
    /\ j \in NonceJobs
    /\ ~long[t][j]
    /\ hashed' = [hashed EXCEPT ![t][j] =
                      @ \cup {(m_nonce[t] + k) % NonceSpace : k \in 0..BatchSize[t] - 1}]
    /\ m_nonce' = [m_nonce EXCEPT ![t] = (m_nonce[t] + BatchSize[t]) % NonceSpace]
    /\ begun' = [begun EXCEPT ![t][j] = @ + BatchSize[t]]
    /\ long' = [long EXCEPT ![t][j] = @ \/ begun[t][j] + BatchSize[t] > Share(j)]
    /\ UNCHANGED <<given, m_job, m_pausedJob, m_pausedNonce>>

NoncesNext ==
    \/ \E j \in NonceJobs : Give(j)
    \/ \E t \in Workers : Resume(t) \/ Begin(t) \/ HashBatch(t)

NoncesSpec == NoncesInit /\ [][NoncesNext]_nonceVars

-----------------------------------------------------------------------------
(* No nonce of a job is hashed by two cards, whatever the sizes of their     *)
(* batches and however often a job is set, paused for a donation and         *)
(* resumed - as long as the job does not outlast the share of one of them.   *)
NoncesDisjoint ==
    \A t, u \in Workers, j \in NonceJobs :
        t # u /\ ~long[t][j] /\ ~long[u][j] => hashed[t][j] \cap hashed[u][j] = {}

(* With the same exception, no card leaves the nonces that a pool of         *)
(* NiceHash fixed for this miner: it would refuse the others.                *)
PrefixKept ==
    \A t \in Workers, j \in NonceJobs :
        j.nicehash /\ ~long[t][j] =>
            \A n \in hashed[t][j] : Prefix(j.nonce) <= n /\ n < Prefix(j.nonce) + FreeSpace

(* Every card keeps to nonces of its own.                                    *)
OwnNonces == NoncesDisjoint /\ PrefixKept
=============================================================================
