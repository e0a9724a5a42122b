----------------------------- MODULE CardsProofs -----------------------------
(***************************************************************************)
(* Proofs about the GPU threads: the dispatch of jobs to them (Workers),   *)
(* for any set of threads and any bounds, and the control loop of a card   *)
(* (Cooling), for every limit and falloff, every cap on the sleep,         *)
(* whatever temperatures the card takes, and whichever requests the X      *)
(* server refuses.                                                         *)
(*                                                                         *)
(* TypeOK is inductive.  RunsIffWanted needs to know what the flags are    *)
(* while a call is half done (FlagsInv).  NoNonceTwice needs to know that  *)
(* a job a thread has left for good is never offered to it again, which    *)
(* rests on where that job may still be held: in m_job, in the strategy's  *)
(* mainJob, or in the local copy a consumeJob has already read (JobsInv).  *)
(* StaleOnlyFromConsume needs that no thread is ahead of the sequence      *)
(* number (AheadInv).  The properties of Cooling need IInv, of which each  *)
(* branch of DoCooling has a lemma of its own.                             *)
(***************************************************************************)
EXTENDS Workers, Cooling, TLAPS

LEMMA JobFacts ==
    /\ \A j \in Jobs : j.id \in Int /\ j.clientId \in Int /\ j.poolId \in {-2, -1, 0}
    /\ \A j \in Jobs : j.poolId = 0 <=> j \in MainJobs
    /\ \A j \in Jobs : j.poolId = -1 <=> j \in DonateJobs
    /\ \A j \in Jobs : j.poolId = -2 <=> j = NoJob
    /\ NoJob \in Jobs
  BY WorkersAssumption DEF Jobs, MainJobs, DonateJobs, NoJob

(* The two fields consumeJob compares tell any two jobs apart.              *)
LEMMA JobsDiffer ==
    \A i, j \in Jobs : (i.id = j.id /\ i.clientId = j.clientId) <=> i = j
  BY WorkersAssumption DEF Jobs, MainJobs, DonateJobs, NoJob

-----------------------------------------------------------------------------
(* Types.                                                                   *)

(* What setJob does to the types, for a job of either kind.                 *)
LEMMA SetJobType ==
    ASSUME MainTypeOK, Call, NEW job \in MainJobs \cup DonateJobs,
           job.clientId <= calls', SetJob(job)
    PROVE  /\ calls' \in 0..MaxCalls
           /\ mainJob' \in {NoJob} \cup MainJobs /\ mainJob'.clientId <= calls'
           /\ m_job' \in Jobs /\ m_active' \in BOOLEAN /\ mpc' \in MainStates
  <1>1. calls' \in 0..MaxCalls /\ calls <= calls'
    BY WorkersAssumption DEF MainTypeOK, Call
  <1>2. job \in Jobs
    BY DEF Jobs
  <1>3. mainJob.clientId \in Int /\ mainJob.clientId <= calls'
    BY <1>1, WorkersAssumption DEF MainTypeOK, MainJobs, NoJob
  <1>4. job.poolId # -1 => job \in MainJobs
    BY DEF DonateJobs
  <1>5. QED
    BY <1>1, <1>2, <1>3, <1>4 DEF SetJob, MainTypeOK, MainStates

LEMMA SetMainJobType == MainTypeOK /\ SetMainJob => MainTypeOK'
  <1> SUFFICES ASSUME MainTypeOK,
                      NEW client \in {mainJob.clientId, mainJob.clientId + 1},
                      Call, lastId < MaxIds, client # 0, lastId' = lastId + 1,
                      SetJob([id |-> lastId + 1, clientId |-> client, poolId |-> 0]),
                      UNCHANGED <<m_enabled, leaked, flags, threadVars>>
               PROVE  MainTypeOK'
    BY DEF SetMainJob
  <1>1. client \in 1..calls' /\ calls' \in 0..MaxCalls /\ lastId + 1 \in 1..MaxIds
    BY WorkersAssumption DEF MainTypeOK, Call, MainJobs, NoJob
  <1>2. [id |-> lastId + 1, clientId |-> client, poolId |-> 0] \in MainJobs
    BY <1>1, WorkersAssumption DEF MainJobs
  <1>3. QED
    BY <1>1, <1>2, SetJobType DEF MainTypeOK, flags

LEMMA SetDonateJobType == MainTypeOK /\ SetDonateJob => MainTypeOK'
  <1> SUFFICES ASSUME MainTypeOK, SetDonateJob PROVE MainTypeOK'
    OBVIOUS
  <1>1. lastId + 1 \in 1..MaxIds /\ 0 <= calls'
    BY WorkersAssumption DEF MainTypeOK, SetDonateJob, Call
  <1>2. [id |-> lastId + 1, clientId |-> 0, poolId |-> -1] \in DonateJobs
    BY <1>1 DEF DonateJobs
  <1>3. QED
    BY <1>1, <1>2, SetJobType DEF SetDonateJob, MainTypeOK, flags

LEMMA ResumeMainJobType == MainTypeOK /\ ResumeMainJob => MainTypeOK'
  <1> SUFFICES ASSUME MainTypeOK,
                      NEW client \in {mainJob.clientId, mainJob.clientId + 1},
                      Call, mainJob # NoJob,
                      SetJob([mainJob EXCEPT !.clientId = client]),
                      UNCHANGED <<lastId, m_enabled, leaked, flags, threadVars>>
               PROVE  MainTypeOK'
    BY DEF ResumeMainJob
  <1>1. client \in 1..calls' /\ calls' \in 0..MaxCalls
    BY WorkersAssumption DEF MainTypeOK, Call, MainJobs
  <1>2. [mainJob EXCEPT !.clientId = client] \in MainJobs
    BY <1>1, WorkersAssumption DEF MainTypeOK, MainJobs
  <1>3. [mainJob EXCEPT !.clientId = client].clientId = client
    BY <1>2 DEF MainTypeOK, MainJobs
  <1> DEFINE job == [mainJob EXCEPT !.clientId = client]
  <1>4. job \in MainJobs \cup DonateJobs /\ job.clientId <= calls' /\ SetJob(job)
    BY <1>1, <1>2, <1>3
  <1> HIDE DEF job
  <1>5. /\ mainJob' \in {NoJob} \cup MainJobs /\ mainJob'.clientId <= calls'
        /\ m_job' \in Jobs /\ m_active' \in BOOLEAN /\ mpc' \in MainStates
    BY <1>4, SetJobType
  <1>6. QED
    BY <1>1, <1>5 DEF MainTypeOK, flags

(* A step of the main loop leaves the threads alone, and the other way      *)
(* round, so each half of TypeOK is looked at under its own steps only.     *)
LEMMA MainStepType == MainTypeOK /\ (Calls \/ Continue) => MainTypeOK'
  <1> SUFFICES ASSUME MainTypeOK, Calls \/ Continue PROVE MainTypeOK'
    OBVIOUS
  <1>1. CASE SetMainJob BY <1>1, SetMainJobType
  <1>2. CASE SetDonateJob BY <1>2, SetDonateJobType
  <1>3. CASE ResumeMainJob BY <1>3, ResumeMainJobType
  <1>0. mainJob.clientId \in Int
    BY DEF MainTypeOK, MainJobs, NoJob
  <1> USE DEF MainTypeOK, MainStates, flags
  <1>4. CASE Pause
    <2>1. calls' \in 0..MaxCalls /\ mainJob'.clientId <= calls'
      BY <1>0, <1>4, WorkersAssumption DEF Pause, Call
    <2>2. m_active' \in BOOLEAN /\ m_paused' \in {0, 1} /\ mpc' \in MainStates
      BY <1>4 DEF Pause
    <2>3. QED BY <1>4, <2>1, <2>2 DEF Pause
  <1>5. CASE SetEnabled BY <1>0, <1>5, WorkersAssumption DEF SetEnabled, Call
  <1>6. CASE PrintHealth BY <1>0, <1>6, WorkersAssumption DEF PrintHealth, Call
  <1>7. CASE Stop BY <1>7 DEF Stop
  <1>8. CASE SetJobSequence BY <1>8 DEF SetJobSequence
  <1>9. CASE SetJobPaused BY <1>9 DEF SetJobPaused
  <1>10. CASE Bump BY <1>10 DEF Bump
  <1>11. CASE StopSequence BY <1>11 DEF StopSequence
  <1>12. CASE Join BY <1>12 DEF Join
  <1>13. QED
    BY <1>1, <1>2, <1>3, <1>4, <1>5, <1>6, <1>7, <1>8, <1>9, <1>10, <1>11, <1>12
       DEF Calls, Continue

LEMMA MainKeepsThreads == Calls \/ Continue => UNCHANGED threadVars
  BY DEF Calls, Continue, SetMainJob, SetDonateJob, ResumeMainJob, Pause,
         SetEnabled, PrintHealth, Stop, SetJobSequence, SetJobPaused, Bump,
         StopSequence, Join

LEMMA ThreadKeepsMain ==
    \A w \in Threads : ThreadStep(w) => UNCHANGED <<mainVars, flags>>
  BY DEF ThreadStep, Setup, Test, IfPaused, Awake, Wake, ReadJob, ReadSequence,
         Outdated, HashBatch

LEMMA TakeJobType ==
    ASSUME ThreadTypeOK, NEW w \in Threads, TakeJob(w)
    PROVE  /\ wjob' \in [Threads -> Jobs]
           /\ nonce' \in [Threads -> 0..MaxBatches]
           /\ pausedJob' \in [Threads -> {NoJob} \cup MainJobs]
           /\ pausedNonce' \in [Threads -> 0..MaxBatches]
  <1>1. Saves(w) => wjob[w] \in MainJobs
    BY JobFacts, SMTT(30) DEF Saves, ThreadTypeOK
  <1>2. pausedJob[w] \in Jobs /\ 0 \in 0..MaxBatches
    BY WorkersAssumption DEF ThreadTypeOK, Jobs
  <1>3. QED
    BY <1>1, <1>2, ZenonT(30) DEF TakeJob, ThreadTypeOK

LEMMA ThreadStepType ==
    ASSUME TypeOK, NEW w \in Threads, ThreadStep(w)
    PROVE  ThreadTypeOK'
  <1> USE DEF ThreadTypeOK, ThreadStates, Goto, ThreadLocal
  <1>1. CASE Setup(w) BY <1>1 DEF Setup, TypeOK
  <1>2. CASE Test(w) BY <1>2 DEF Test, TypeOK
  <1>3. CASE IfPaused(w) BY <1>3 DEF IfPaused, TypeOK
  <1>4. CASE Awake(w) BY <1>4 DEF Awake, TypeOK
  <1>5. CASE Wake(w) BY <1>5 DEF Wake, TypeOK
  <1>6. CASE ReadJob(w) BY <1>6 DEF ReadJob, TypeOK, MainTypeOK
  <1>7. CASE ReadSequence(w)
    <2>1. wseq' \in [Threads -> Nat] /\ pc' \in [Threads -> ThreadStates]
      BY <1>7 DEF ReadSequence, TypeOK, MainTypeOK
    <2>2. CASE SameJob(w) BY <1>7, <2>1, <2>2 DEF ReadSequence, TypeOK
    <2>3. CASE ~SameJob(w)
      <3>1. TakeJob(w) /\ UNCHANGED <<rjob, mining, done>>
        BY <1>7, <2>3 DEF ReadSequence
      <3>2. QED
        BY <2>1, <3>1, TakeJobType DEF TypeOK
    <2>4. QED BY <2>2, <2>3
  <1>8. CASE Outdated(w) BY <1>8 DEF Outdated, TypeOK
  <1>9. CASE HashBatch(w)
    <2>1. \A n \in 0..MaxBatches : Next1(n) \in 0..MaxBatches
      BY WorkersAssumption DEF Next1
    <2>2. QED
      BY <1>9, <2>1 DEF HashBatch, TypeOK
  <1>10. QED
    BY <1>1, <1>2, <1>3, <1>4, <1>5, <1>6, <1>7, <1>8, <1>9 DEF ThreadStep

LEMMA NextType == TypeOK /\ [Next]_vars => TypeOK'
  <1> SUFFICES ASSUME TypeOK, [Next]_vars PROVE TypeOK'
    OBVIOUS
  <1>1. CASE Calls \/ Continue
    <2>1. MainTypeOK' BY <1>1, MainStepType DEF TypeOK
    <2>2. ThreadTypeOK'
      BY <1>1, MainKeepsThreads DEF TypeOK, ThreadTypeOK, threadVars
    <2>3. QED BY <2>1, <2>2 DEF TypeOK
  <1>2. ASSUME NEW w \in Threads, ThreadStep(w) PROVE TypeOK'
    <2>1. MainTypeOK'
      BY <1>2, ThreadKeepsMain DEF TypeOK, MainTypeOK, mainVars, flags
    <2>2. ThreadTypeOK' BY <1>2, ThreadStepType
    <2>3. QED BY <2>1, <2>2 DEF TypeOK
  <1>3. CASE UNCHANGED vars
    BY <1>3 DEF TypeOK, MainTypeOK, ThreadTypeOK, vars, mainVars, flags, threadVars
  <1>4. QED
    BY <1>1, <1>2, <1>3 DEF Next, Exited

LEMMA InitType == Init => TypeOK
  <1> SUFFICES ASSUME Init PROVE TypeOK
    OBVIOUS
  <1>1. MainTypeOK
    <2>1. calls \in 0..MaxCalls /\ lastId \in 0..MaxIds /\ mpc \in MainStates
      BY WorkersAssumption DEF Init, MainStates
    <2>2. mainJob = NoJob /\ mainJob.clientId <= calls
      BY DEF Init, NoJob
    <2>3. QED
      BY <2>1, <2>2, JobFacts DEF Init, MainTypeOK
  <1>2. ThreadTypeOK
    BY WorkersAssumption, JobFacts DEF Init, ThreadTypeOK, ThreadStates
  <1>3. QED BY <1>1, <1>2 DEF TypeOK

(* Every variable keeps its type: in particular a job of the donation pool  *)
(* is never mistaken for one of the user's pools.                           *)
THEOREM TypeCorrect == Spec => []TypeOK
  <1>1. QED BY InitType, NextType, PTL DEF Spec

-----------------------------------------------------------------------------
(* The flags between and within the calls of the main loop.                 *)

FlagsInv ==
    /\ mpc \in {"loop", "bump"} => (m_paused = 0 <=> (m_active /\ m_enabled))
    /\ mpc \in {"setJob.sequence", "setJob.paused"} => m_active /\ m_enabled

(* Between calls the GPUs run exactly when a pool has given work and the    *)
(* user has not paused, after any sequence of setJob, pause and setEnabled. *)
THEOREM RunsExactlyWhenWanted == Spec => []RunsIffWanted
  <1>1. Init => FlagsInv
    BY DEF Init, FlagsInv
  <1>2. TypeOK /\ FlagsInv /\ [Next]_vars => FlagsInv'
    <2> SUFFICES ASSUME TypeOK, FlagsInv, [Next]_vars PROVE FlagsInv'
      OBVIOUS
    <2> USE DEF FlagsInv, TypeOK, MainTypeOK, Call, SetJob, flags
    <2>1. CASE SetMainJob BY <2>1 DEF SetMainJob
    <2>2. CASE SetDonateJob BY <2>2 DEF SetDonateJob
    <2>3. CASE ResumeMainJob BY <2>3 DEF ResumeMainJob
    <2>4. CASE Pause BY <2>4 DEF Pause
    <2>5. CASE SetEnabled BY <2>5 DEF SetEnabled
    <2>6. CASE PrintHealth BY <2>6 DEF PrintHealth
    <2>7. CASE Stop BY <2>7 DEF Stop
    <2>8. CASE Continue
      BY <2>8 DEF Continue, SetJobSequence, SetJobPaused, Bump, StopSequence, Join
    <2>9. ASSUME NEW w \in Threads, ThreadStep(w) PROVE FlagsInv'
      BY <2>9, ThreadKeepsMain DEF mainVars
    <2>10. CASE UNCHANGED vars BY <2>10 DEF vars, mainVars
    <2>11. QED
      BY <2>1, <2>2, <2>3, <2>4, <2>5, <2>6, <2>7, <2>8, <2>9, <2>10
         DEF Next, Calls, Exited
  <1>3. FlagsInv => RunsIffWanted
    BY DEF FlagsInv, RunsIffWanted
  <1>4. QED BY <1>1, <1>2, <1>3, TypeCorrect, PTL DEF Spec

-----------------------------------------------------------------------------
(* Where a job can be, and the accounting of nonces.                        *)

(* Handed out already.                                                      *)
Seen(j) == j.id <= lastId /\ j.clientId <= mainJob.clientId

(* A thread may read it, now or after the strategy passes it once more.     *)
CanCome(j) == j = m_job \/ (j = mainJob /\ j # NoJob)

(* The thread has mined it and keeps it no longer.                          *)
Gone(w, j) ==
    /\ done[w][j] > 0 /\ j # wjob[w]
    /\ ~(wjob[w].poolId = -1 /\ j = pausedJob[w])

MainJobsInv ==
    /\ m_job.poolId = 0 => m_job = mainJob
    /\ m_job = NoJob => mainJob = NoJob
    /\ Seen(m_job) /\ Seen(mainJob)

(* What the local copy of consumeJob says of the jobs the thread would      *)
(* give up for it.                                                          *)
CopyInv(w) ==
    pc[w] = "readSequence" =>
        /\ rjob[w] = NoJob => wjob[w] = NoJob
        /\ (rjob[w] # wjob[w] /\ ~(wjob[w].poolId = 0 /\ rjob[w].poolId = -1))
              => ~CanCome(wjob[w])
        /\ (wjob[w].poolId = -1 /\ rjob[w].poolId = 0 /\ rjob[w].id # pausedJob[w].id)
              => ~CanCome(pausedJob[w])

GoneInv(w) ==
    \A j \in Jobs : Gone(w, j) => ~CanCome(j) /\ (pc[w] = "readSequence" => j # rjob[w])

SeenInv(w) ==
    /\ Seen(wjob[w]) /\ Seen(pausedJob[w]) /\ Seen(rjob[w])
    /\ \A j \in Jobs : done[w][j] > 0 => Seen(j)

NonceInv(w) ==
    /\ nonce[w] = done[w][wjob[w]]
    /\ (wjob[w].poolId = -1 /\ pausedJob[w] # NoJob)
          => pausedNonce[w] = done[w][pausedJob[w]]

StartInv(w) ==
    /\ m_job = NoJob => wjob[w] = NoJob
    /\ wjob[w] = NoJob => pausedJob[w] = NoJob

ThreadInv(w) == CopyInv(w) /\ GoneInv(w) /\ SeenInv(w) /\ NonceInv(w) /\ StartInv(w)

JobsInv == MainJobsInv /\ \A w \in Threads : ThreadInv(w)

(* setJob offers no job that was handed out before, except the one the      *)
(* strategy holds.                                                          *)
LEMMA SetJobOffers ==
    ASSUME TypeOK, MainJobsInv, NEW job \in MainJobs \cup DonateJobs, SetJob(job),
           lastId' \in Int, lastId <= lastId', job.id <= lastId',
           job \in MainJobs => mainJob.clientId <= job.clientId,
           job = mainJob \/ ~Seen(job)
    PROVE  /\ \A j \in Jobs : Seen(j) => Seen(j)'
           /\ \A j \in Jobs : CanCome(j)' => CanCome(j) \/ ~Seen(j)
           /\ m_job' = NoJob => m_job = NoJob
           /\ MainJobsInv'
  <1>1. job \in Jobs /\ job # NoJob /\ mainJob \in Jobs /\ m_job \in Jobs
    BY JobFacts DEF Jobs, TypeOK, MainTypeOK, MainJobs, DonateJobs, NoJob
  <1>2. mainJob' \in Jobs /\ mainJob.clientId <= mainJob'.clientId
    BY <1>1, JobFacts DEF SetJob
  <1>3. \A j \in Jobs : Seen(j) => Seen(j)'
    BY <1>1, <1>2, JobFacts DEF Seen, TypeOK, MainTypeOK
  <1>4. CASE leaked
    BY <1>1, <1>3, <1>4 DEF SetJob, CanCome, MainJobsInv, Seen
  <1>5. CASE ~leaked
    <2>1. m_job' = job /\ mainJob' = IF job.poolId = -1 THEN mainJob ELSE job
      BY <1>5 DEF SetJob
    <2>2. \A j \in Jobs : CanCome(j)' => CanCome(j) \/ ~Seen(j)
      BY <1>1, <2>1 DEF CanCome
    <2>3. MainJobsInv'
      <3>1. job.poolId = -1 => job.clientId = 0 /\ 0 <= mainJob.clientId
        BY JobFacts, <1>1, WorkersAssumption DEF DonateJobs, TypeOK, MainTypeOK, MainJobs, NoJob
      <3>2. Seen(job)'
        BY <1>1, <2>1, <3>1, JobFacts DEF Seen
      <3>3. Seen(mainJob)'
        BY <1>1, <1>3, <2>1, <3>2 DEF MainJobsInv, Seen
      <3>4. QED
        BY <1>1, <2>1, <3>2, <3>3, JobFacts DEF MainJobsInv, Seen
    <2>4. QED BY <1>1, <1>3, <2>1, <2>2, <2>3
  <1>6. QED BY <1>4, <1>5

Offers ==
    /\ \A j \in Jobs : Seen(j) => Seen(j)'
    /\ \A j \in Jobs : CanCome(j)' => CanCome(j) \/ ~Seen(j)
    /\ m_job' = NoJob => m_job = NoJob
    /\ MainJobsInv'

LEMMA MainStepOffers ==
    ASSUME TypeOK, MainJobsInv, Calls \/ Continue PROVE Offers
  <1>0. /\ lastId \in Int /\ mainJob.clientId \in Nat /\ mainJob.id \in Int
        /\ mainJob \in Jobs /\ MaxIds \in Nat
    BY WorkersAssumption DEF TypeOK, MainTypeOK, MainJobs, NoJob, Jobs
  <1>1. CASE SetMainJob
    <2> PICK client \in {mainJob.clientId, mainJob.clientId + 1} :
               /\ Call /\ lastId < MaxIds /\ client # 0 /\ lastId' = lastId + 1
               /\ SetJob([id |-> lastId + 1, clientId |-> client, poolId |-> 0])
      BY <1>1 DEF SetMainJob
    <2> DEFINE job == [id |-> lastId + 1, clientId |-> client, poolId |-> 0]
    <2>1. client \in 1..MaxCalls /\ lastId + 1 \in 1..MaxIds
      BY <1>0, WorkersAssumption DEF TypeOK, MainTypeOK, Call
    <2>2. job \in MainJobs /\ job.id = lastId + 1 /\ job.clientId = client
      BY <2>1, WorkersAssumption DEF MainJobs
    <2>3. ~Seen(job) BY <1>0, <2>2 DEF Seen
    <2>4. SetJob(job) /\ lastId' = lastId + 1 /\ mainJob.clientId <= client
      BY <1>0
    <2> HIDE DEF job
    <2>5. QED BY <1>0, <2>2, <2>3, <2>4, SetJobOffers DEF Offers
  <1>2. CASE SetDonateJob
    <2> DEFINE job == [id |-> lastId + 1, clientId |-> 0, poolId |-> -1]
    <2>1. lastId' = lastId + 1 /\ lastId + 1 \in 1..MaxIds /\ SetJob(job)
      BY <1>0, <1>2 DEF SetDonateJob, TypeOK, MainTypeOK
    <2>2. job \in DonateJobs /\ job.id = lastId + 1 /\ job \notin MainJobs
      BY <2>1 DEF DonateJobs, MainJobs
    <2>3. ~Seen(job) BY <1>0, <2>2 DEF Seen
    <2> HIDE DEF job
    <2>4. QED BY <1>0, <2>1, <2>2, <2>3, SetJobOffers DEF Offers
  <1>3. CASE ResumeMainJob
    <2> PICK client \in {mainJob.clientId, mainJob.clientId + 1} :
               /\ Call /\ mainJob # NoJob /\ SetJob([mainJob EXCEPT !.clientId = client])
               /\ lastId' = lastId
      BY <1>3 DEF ResumeMainJob
    <2> DEFINE job == [mainJob EXCEPT !.clientId = client]
    <2>1. mainJob \in MainJobs /\ client \in 1..MaxCalls
      BY <1>0, WorkersAssumption DEF TypeOK, MainTypeOK, Call, MainJobs
    <2>2. job \in MainJobs /\ job.id = mainJob.id /\ job.clientId = client
      BY <2>1 DEF MainJobs
    <2>3. job = mainJob \/ ~Seen(job)
      <3>1. CASE client = mainJob.clientId BY <2>1, <3>1 DEF MainJobs
      <3>2. CASE client = mainJob.clientId + 1 BY <1>0, <2>2, <3>2 DEF Seen
      <3>3. QED BY <3>1, <3>2
    <2>4. SetJob(job) /\ lastId' = lastId /\ mainJob.clientId <= client
      BY <1>0
    <2> HIDE DEF job
    <2>5. mainJob.id <= lastId BY DEF MainJobsInv, Seen
    <2>6. QED BY <1>0, <2>2, <2>3, <2>4, <2>5, SetJobOffers DEF Offers
  <1>4. CASE Pause \/ SetEnabled \/ PrintHealth \/ Stop \/ Continue
    <2>1. UNCHANGED <<lastId, mainJob, m_job>>
      BY <1>4 DEF Pause, SetEnabled, PrintHealth, Stop, Continue, SetJobSequence,
                  SetJobPaused, Bump, StopSequence, Join, mainVars
    <2>2. QED BY <2>1 DEF Offers, Seen, CanCome, MainJobsInv
  <1>5. QED BY <1>1, <1>2, <1>3, <1>4 DEF Calls

LEMMA MainStepJobs ==
    ASSUME TypeOK, JobsInv, Calls \/ Continue PROVE JobsInv'
  <1>1. Offers /\ UNCHANGED threadVars
    BY MainStepOffers, MainKeepsThreads DEF JobsInv
  <1>2. ASSUME NEW w \in Threads PROVE ThreadInv(w)'
    <2>1. /\ ThreadInv(w)
          /\ wjob[w] \in Jobs /\ pausedJob[w] \in Jobs /\ rjob[w] \in Jobs
      BY JobFacts DEF JobsInv, TypeOK, ThreadTypeOK, Jobs
    <2>2. SeenInv(w)'
      BY <1>1, <2>1 DEF Offers, ThreadInv, SeenInv, threadVars
    <2>3. CopyInv(w)'
      BY <1>1, <2>1 DEF Offers, ThreadInv, SeenInv, CopyInv, threadVars
    <2>4. GoneInv(w)'
      <3>1. \A j \in Jobs : Gone(w, j)' => Gone(w, j) /\ Seen(j)
        BY <1>1, <2>1 DEF Gone, threadVars, ThreadInv, SeenInv
      <3>2. QED BY <1>1, <2>1, <3>1 DEF Offers, ThreadInv, GoneInv, threadVars
    <2>5. NonceInv(w)' BY <1>1, <2>1 DEF ThreadInv, NonceInv, threadVars
    <2>6. StartInv(w)' BY <1>1, <2>1 DEF Offers, ThreadInv, StartInv, threadVars
    <2>7. QED BY <2>2, <2>3, <2>4, <2>5, <2>6 DEF ThreadInv
  <1>3. QED BY <1>1, <1>2 DEF JobsInv, Offers

(* A thread that takes a job starts one it never mined, or goes on with the *)
(* saved one where it stopped.                                              *)
LEMMA TakeJobJobs ==
    ASSUME TypeOK, JobsInv, NEW w \in Threads, pc[w] = "readSequence", ~SameJob(w),
           TakeJob(w), UNCHANGED <<mainVars, rjob, done>>, pc'[w] # "readSequence"
    PROVE  ThreadInv(w)'
  <1> DEFINE W == wjob[w]
             R == rjob[w]
             P == pausedJob[w]
  <1>1. /\ W \in Jobs /\ R \in Jobs /\ P \in {NoJob} \cup MainJobs /\ P \in Jobs
        /\ W # R /\ m_job \in Jobs
        /\ done[w] \in [Jobs -> 0..MaxBatches]
    <2>1. W \in Jobs /\ R \in Jobs /\ P \in {NoJob} \cup MainJobs
          /\ m_job \in Jobs /\ done[w] \in [Jobs -> 0..MaxBatches]
      BY DEF TypeOK, MainTypeOK, ThreadTypeOK
    <2>2. P \in Jobs BY <2>1 DEF Jobs
    <2>3. W # R BY <2>1, JobsDiffer DEF SameJob
    <2>4. QED BY <2>1, <2>2, <2>3
  <1>2. CopyInv(w) /\ GoneInv(w) /\ SeenInv(w) /\ NonceInv(w) /\ StartInv(w)
    BY DEF JobsInv, ThreadInv
  <1>3. R # NoJob /\ (R.poolId = 0 \/ R.poolId = -1)
    BY <1>1, <1>2, JobFacts DEF CopyInv
  <1>4. /\ wjob'[w] = IF Resumes(w) THEN P ELSE R
        /\ nonce'[w] = IF Resumes(w) THEN pausedNonce[w] ELSE 0
        /\ pausedJob'[w] = IF Saves(w) THEN W ELSE P
        /\ pausedNonce'[w] = IF Saves(w) THEN nonce[w] ELSE pausedNonce[w]
        /\ done' = done /\ rjob' = rjob
    BY DEF TakeJob, TypeOK, ThreadTypeOK
  <1>5. /\ \A j : Seen(j)' <=> Seen(j)
        /\ \A j : CanCome(j)' <=> CanCome(j)
        /\ m_job' = m_job
    BY DEF Seen, CanCome, mainVars
  <1>6. Resumes(w) => P \in MainJobs /\ W.poolId = -1 /\ R.poolId = 0
    <2>1. R.poolId = 0 => R.id # 0
      BY <1>1, JobFacts DEF MainJobs
    <2>2. QED
      BY <1>1, <1>3, <2>1, JobFacts DEF Resumes, NoJob
  <1>7. Saves(w) <=> (W.poolId = 0 /\ R.poolId = -1)
    BY <1>1, JobFacts DEF Saves
  <1>8. SeenInv(w)'
    BY <1>1, <1>2, <1>4, <1>5 DEF SeenInv
  <1>9. CopyInv(w)'
    BY DEF CopyInv
  <1>10. ~Resumes(w) => done[w][R] = 0
    <2> SUFFICES ASSUME ~Resumes(w), done[w][R] # 0 PROVE FALSE
      OBVIOUS
    <2>1. done[w][R] > 0
      BY <1>1, WorkersAssumption
    <2>2. ~Gone(w, R)
      BY <1>1, <1>2 DEF GoneInv
    <2>3. W.poolId = -1 /\ R = P
      BY <1>1, <2>1, <2>2 DEF Gone
    <2>4. P \in MainJobs /\ R.poolId = 0
      BY <1>1, <1>3, <2>3, JobFacts
    <2>5. QED BY <2>3, <2>4 DEF Resumes
  <1>11. NonceInv(w)'
    <2>1. CASE Resumes(w)
      <3>1. P # NoJob /\ P.poolId = 0
        BY <1>1, <1>6, <2>1, JobFacts
      <3>2. pausedNonce[w] = done[w][P]
        BY <1>2, <1>6, <2>1, <3>1 DEF NonceInv
      <3>3. QED BY <1>4, <2>1, <3>1, <3>2 DEF NonceInv
    <2>2. CASE ~Resumes(w)
      <3>1. CASE Saves(w)
        <4>1. nonce[w] = done[w][W] BY <1>2 DEF NonceInv
        <4>2. QED BY <1>4, <1>10, <2>2, <3>1, <4>1 DEF NonceInv
      <3>2. CASE ~Saves(w)
        <4>1. R.poolId = -1 => W.poolId = -1 \/ W = NoJob
          BY <1>1, <1>7, <3>2, JobFacts
        <4>2. R.poolId = -1 /\ P # NoJob => pausedNonce[w] = done[w][P]
          BY <1>2, <4>1 DEF NonceInv, StartInv
        <4>3. QED BY <1>4, <1>10, <2>2, <3>2, <4>2 DEF NonceInv
      <3>3. QED BY <3>1, <3>2
    <2>3. QED BY <2>1, <2>2
  <1>12. StartInv(w)'
    <2>1. m_job # NoJob
      <3>1. CASE W = NoJob
        <4>1. W.poolId = -2 /\ ~CanCome(W)
          BY <1>1, <1>2, <3>1, JobFacts DEF CopyInv
        <4>2. QED BY <3>1, <4>1 DEF CanCome
      <3>2. CASE W # NoJob BY <1>2, <3>2 DEF StartInv
      <3>3. QED BY <3>1, <3>2
    <2>2. wjob'[w] # NoJob
      BY <1>1, <1>3, <1>4, <1>6, JobFacts
    <2>3. QED BY <1>5, <2>1, <2>2 DEF StartInv
  <1>13. GoneInv(w)'
    <2> SUFFICES ASSUME NEW j \in Jobs, Gone(w, j)' PROVE ~CanCome(j)
      BY <1>5 DEF GoneInv
    <2>1. /\ done[w][j] > 0 /\ j # wjob'[w]
          /\ ~(wjob'[w].poolId = -1 /\ j = pausedJob'[w])
      BY <1>4 DEF Gone
    <2>2. CASE Gone(w, j) BY <1>2, <2>2 DEF GoneInv
    <2>3. CASE j = W
      <3>1. ~(W.poolId = 0 /\ R.poolId = -1)
        <4> SUFFICES ASSUME W.poolId = 0, R.poolId = -1 PROVE FALSE
          OBVIOUS
        <4>1. Saves(w) /\ ~Resumes(w) BY <1>6, <1>7
        <4>2. QED BY <1>4, <2>1, <2>3, <4>1
      <3>2. QED BY <1>1, <1>2, <2>3, <3>1 DEF CopyInv
    <2>4. CASE W.poolId = -1 /\ j = P
      <3>1. ~Saves(w) BY <1>7, <2>4
      <3>2. ~Resumes(w) BY <1>4, <2>1, <2>4
      <3>3. R.poolId # -1 BY <1>4, <2>1, <2>4, <3>1, <3>2
      <3>4. R.poolId = 0 /\ R.id # P.id
        BY <1>3, <2>4, <3>2, <3>3 DEF Resumes
      <3>5. QED BY <1>2, <2>4, <3>4 DEF CopyInv
    <2>5. QED BY <2>1, <2>2, <2>3, <2>4 DEF Gone
  <1>14. QED BY <1>8, <1>9, <1>11, <1>12, <1>13 DEF ThreadInv

LEMMA ReadJobJobs ==
    ASSUME TypeOK, JobsInv, NEW w \in Threads, ReadJob(w)
    PROVE  ThreadInv(w)'
  <1>1. /\ pc'[w] = "readSequence" /\ rjob'[w] = m_job
        /\ wjob' = wjob /\ pausedJob' = pausedJob /\ nonce' = nonce
        /\ pausedNonce' = pausedNonce /\ done' = done
        /\ m_job' = m_job /\ mainJob' = mainJob /\ lastId' = lastId
    BY DEF ReadJob, Goto, TypeOK, ThreadTypeOK, mainVars
  <1>2. CopyInv(w) /\ GoneInv(w) /\ SeenInv(w) /\ NonceInv(w) /\ StartInv(w) /\ MainJobsInv
    BY DEF JobsInv, ThreadInv
  <1>3. SeenInv(w)' /\ NonceInv(w)' /\ StartInv(w)'
    BY <1>1, <1>2 DEF SeenInv, Seen, NonceInv, StartInv, MainJobsInv
  <1>4. GoneInv(w)'
    BY <1>1, <1>2 DEF GoneInv, Gone, CanCome
  <1>5. CopyInv(w)'
    <2>1. /\ wjob[w] \in Jobs /\ m_job \in Jobs /\ mainJob \in {NoJob} \cup MainJobs
          /\ pausedJob[w] \in {NoJob} \cup MainJobs
      BY DEF TypeOK, MainTypeOK, ThreadTypeOK
    <2>2. m_job = NoJob => wjob[w] = NoJob
      BY <1>2 DEF StartInv
    <2>3. (m_job # wjob[w] /\ ~(wjob[w].poolId = 0 /\ m_job.poolId = -1))
             => ~CanCome(wjob[w])
      <3> SUFFICES ASSUME m_job # wjob[w], ~(wjob[w].poolId = 0 /\ m_job.poolId = -1),
                          wjob[w] = mainJob, mainJob # NoJob
                   PROVE  FALSE
        BY DEF CanCome
      <3>1. wjob[w].poolId = 0 /\ m_job # NoJob
        BY <2>1, <2>2, JobFacts
      <3>2. m_job.poolId = 0 BY <2>1, <3>1, JobFacts
      <3>3. QED BY <1>2, <3>2 DEF MainJobsInv
    <2>4. (wjob[w].poolId = -1 /\ m_job.poolId = 0 /\ m_job.id # pausedJob[w].id)
             => ~CanCome(pausedJob[w])
      BY <1>2 DEF MainJobsInv, CanCome
    <2>5. QED BY <1>1, <2>2, <2>3, <2>4 DEF CopyInv, CanCome
  <1>6. QED BY <1>3, <1>4, <1>5 DEF ThreadInv

LEMMA HashBatchJobs ==
    ASSUME TypeOK, JobsInv, NEW w \in Threads, HashBatch(w)
    PROVE  ThreadInv(w)'
  <1>1. /\ pc'[w] = "outdated" /\ nonce'[w] = Next1(nonce[w])
        /\ done'[w] = [done[w] EXCEPT ![wjob[w]] = Next1(done[w][wjob[w]])]
        /\ wjob' = wjob /\ pausedJob' = pausedJob /\ pausedNonce' = pausedNonce
        /\ rjob' = rjob /\ m_job' = m_job /\ mainJob' = mainJob /\ lastId' = lastId
    BY DEF HashBatch, Goto, TypeOK, ThreadTypeOK, mainVars
  <1>2. GoneInv(w) /\ SeenInv(w) /\ NonceInv(w) /\ StartInv(w)
    BY DEF JobsInv, ThreadInv
  <1>3. /\ wjob[w] \in Jobs /\ pausedJob[w] \in Jobs
        /\ pausedJob[w] \in {NoJob} \cup MainJobs
        /\ done[w] \in [Jobs -> 0..MaxBatches]
    BY JobFacts DEF TypeOK, ThreadTypeOK, Jobs
  <1>4. /\ done'[w][wjob[w]] = Next1(done[w][wjob[w]])
        /\ \A j \in Jobs : j # wjob[w] => done'[w][j] = done[w][j]
    BY <1>1, <1>3
  <1>5. SeenInv(w)'
    BY <1>1, <1>2, <1>4 DEF SeenInv, Seen
  <1>6. NonceInv(w)'
    <2>1. wjob[w].poolId = -1 /\ pausedJob[w] # NoJob => pausedJob[w] # wjob[w]
      BY <1>3, JobFacts
    <2>2. QED BY <1>1, <1>2, <1>3, <1>4, <2>1 DEF NonceInv
  <1>7. GoneInv(w)'
    BY <1>1, <1>2, <1>4 DEF GoneInv, Gone, CanCome
  <1>8. CopyInv(w)' /\ StartInv(w)'
    BY <1>1, <1>2 DEF CopyInv, StartInv
  <1>9. QED BY <1>5, <1>6, <1>7, <1>8 DEF ThreadInv

(* A thread's step keeps the invariant of the thread itself.                *)
LEMMA OwnStepJobs ==
    ASSUME TypeOK, JobsInv, NEW w \in Threads, ThreadStep(w)
    PROVE  ThreadInv(w)'
  <1>1. CASE ReadJob(w) BY <1>1, ReadJobJobs
  <1>2. CASE HashBatch(w) BY <1>2, HashBatchJobs
  <1>3. CASE ReadSequence(w) /\ ~SameJob(w)
    <2>1. /\ pc[w] = "readSequence" /\ pc'[w] # "readSequence"
          /\ TakeJob(w) /\ UNCHANGED <<mainVars, rjob, done>>
      BY <1>3 DEF ReadSequence, Goto, TypeOK, ThreadTypeOK
    <2>2. QED BY <1>3, <2>1, TakeJobJobs
  <1>4. CASE \/ Setup(w) \/ Test(w) \/ IfPaused(w) \/ Awake(w) \/ Wake(w) \/ Outdated(w)
             \/ ReadSequence(w) /\ SameJob(w)
    <2>1. /\ pc'[w] # "readSequence"
          /\ UNCHANGED <<mainVars, wjob, nonce, pausedJob, pausedNonce, rjob, done>>
      BY <1>4 DEF Setup, Test, IfPaused, Awake, Wake, Outdated, ReadSequence, Goto,
                  ThreadLocal, TypeOK, ThreadTypeOK
    <2>2. ThreadInv(w) BY DEF JobsInv
    <2>3. QED
      BY <2>1, <2>2 DEF ThreadInv, CopyInv, GoneInv, SeenInv, NonceInv, StartInv,
                        Seen, CanCome, Gone, mainVars
  <1>5. QED BY <1>1, <1>2, <1>3, <1>4 DEF ThreadStep

(* ... and touches nothing of the others.                                   *)
LEMMA OthersStepJobs ==
    ASSUME TypeOK, JobsInv, NEW w \in Threads, ThreadStep(w),
           NEW v \in Threads, v # w
    PROVE  ThreadInv(v)'
  <1>1. /\ pc'[v] = pc[v] /\ wjob'[v] = wjob[v] /\ nonce'[v] = nonce[v]
        /\ pausedJob'[v] = pausedJob[v] /\ pausedNonce'[v] = pausedNonce[v]
        /\ rjob'[v] = rjob[v] /\ done'[v] = done[v]
    BY DEF ThreadStep, Setup, Test, IfPaused, Awake, Wake, ReadJob, ReadSequence,
           TakeJob, Outdated, HashBatch, Goto, ThreadLocal, TypeOK, ThreadTypeOK
  <1>2. m_job' = m_job /\ mainJob' = mainJob /\ lastId' = lastId
    BY ThreadKeepsMain DEF mainVars
  <1>3. ThreadInv(v) BY DEF JobsInv
  <1>4. QED
    BY <1>1, <1>2, <1>3 DEF ThreadInv, CopyInv, GoneInv, SeenInv, NonceInv, StartInv,
                            Seen, CanCome, Gone

LEMMA NextJobs == TypeOK /\ JobsInv /\ [Next]_vars => JobsInv'
  <1> SUFFICES ASSUME TypeOK, JobsInv, [Next]_vars PROVE JobsInv'
    OBVIOUS
  <1>1. CASE Calls \/ Continue BY <1>1, MainStepJobs
  <1>2. ASSUME NEW w \in Threads, ThreadStep(w) PROVE JobsInv'
    <2>1. \A v \in Threads : ThreadInv(v)'
      BY <1>2, OwnStepJobs, OthersStepJobs
    <2>2. MainJobsInv'
      BY <1>2, ThreadKeepsMain DEF JobsInv, MainJobsInv, Seen, mainVars
    <2>3. QED BY <2>1, <2>2 DEF JobsInv
  <1>3. CASE UNCHANGED vars
    BY <1>3 DEF vars, mainVars, flags, threadVars, JobsInv, MainJobsInv, ThreadInv,
                CopyInv, GoneInv, SeenInv, NonceInv, StartInv, Seen, CanCome, Gone
  <1>4. QED BY <1>1, <1>2, <1>3 DEF Next, Exited

LEMMA InitJobs == Init => JobsInv
  <1> SUFFICES ASSUME Init PROVE JobsInv
    OBVIOUS
  <1>1. MainJobsInv
    BY DEF Init, MainJobsInv, Seen, NoJob
  <1>2. ASSUME NEW w \in Threads PROVE ThreadInv(w)
    BY JobFacts DEF Init, ThreadInv, CopyInv, GoneInv, SeenInv, NonceInv, StartInv,
                    Seen, CanCome, Gone, NoJob
  <1>3. QED BY <1>1, <1>2 DEF JobsInv

(* A thread's nonce for its job is the number of batches it ever hashed of  *)
(* that job: whatever donations, pauses and new sessions interrupt it, no   *)
(* thread mines a range twice or leaves one out (save and resume).          *)
THEOREM NoNonceMinedTwice == Spec => []NoNonceTwice
  <1>1. JobsInv => NoNonceTwice
    BY DEF JobsInv, ThreadInv, NonceInv, NoNonceTwice
  <1>2. QED BY <1>1, InitJobs, NextJobs, TypeCorrect, PTL DEF Spec

-----------------------------------------------------------------------------
(* Threads that mine something stale.                                       *)

(* The sequence number is 0 only after stop(), and until then no thread has *)
(* stored a number that is still to come, or any before it is set up.       *)
AheadInv ==
    /\ m_sequence = 0 <=> mpc \in {"join", "exited"}
    /\ \A w \in Threads : /\ m_sequence # 0 => wseq[w] <= m_sequence
                          /\ pc[w] = "setup" => wseq[w] = 0

LEMMA InitAhead == Init => AheadInv
  BY DEF Init, AheadInv

LEMMA MainStepAhead == TypeOK /\ AheadInv /\ (Calls \/ Continue) => AheadInv'
  <1> SUFFICES ASSUME TypeOK, AheadInv, Calls \/ Continue PROVE AheadInv'
    OBVIOUS
  <1>1. UNCHANGED <<wseq, pc>> /\ m_sequence \in Nat /\ \A w \in Threads : wseq[w] \in Nat
    BY MainKeepsThreads DEF threadVars, TypeOK, MainTypeOK, ThreadTypeOK
  <1>2. \/ UNCHANGED m_sequence /\ (mpc' \in {"join", "exited"} <=> mpc \in {"join", "exited"})
        \/ m_sequence' = m_sequence + 1 /\ mpc \in {"setJob.sequence", "bump"}
           /\ mpc' \in {"setJob.paused", "loop"}
        \/ m_sequence' = 0 /\ mpc' = "join"
    <2>1. CASE SetMainJob \/ SetDonateJob \/ ResumeMainJob
      BY <2>1 DEF SetMainJob, SetDonateJob, ResumeMainJob, Call, SetJob, flags
    <2>2. CASE Pause \/ SetEnabled \/ PrintHealth \/ Stop
      BY <2>2 DEF Pause, SetEnabled, PrintHealth, Stop, Call, flags
    <2>3. CASE Continue
      BY <2>3 DEF Continue, SetJobSequence, SetJobPaused, Bump, StopSequence, Join, flags
    <2> QED BY <2>1, <2>2, <2>3 DEF Calls
  <1> QED BY <1>1, <1>2 DEF AheadInv

LEMMA ThreadStepAhead ==
    ASSUME TypeOK, AheadInv, NEW w \in Threads, ThreadStep(w)
    PROVE  AheadInv'
  <1>1. UNCHANGED <<m_sequence, mpc>> /\ m_sequence \in Nat
    BY ThreadKeepsMain DEF mainVars, flags, TypeOK, MainTypeOK
  <1>2. \A v \in Threads : \/ wseq'[v] = wseq[v] /\ (pc'[v] = "setup" => pc[v] = "setup")
                           \/ wseq'[v] = m_sequence /\ pc'[v] # "setup"
    <2> USE DEF TypeOK, ThreadTypeOK, Goto, ThreadLocal
    <2>1. CASE ReadSequence(w) BY <2>1 DEF ReadSequence
    <2>2. CASE Setup(w) BY <2>2 DEF Setup
    <2>3. CASE Test(w) \/ IfPaused(w) \/ Awake(w) \/ Wake(w)
      BY <2>3 DEF Test, IfPaused, Awake, Wake
    <2>4. CASE ReadJob(w) \/ Outdated(w) \/ HashBatch(w)
      BY <2>4 DEF ReadJob, Outdated, HashBatch
    <2> QED BY <2>1, <2>2, <2>3, <2>4 DEF ThreadStep
  <1> QED BY <1>1, <1>2 DEF AheadInv

LEMMA NextAhead == TypeOK /\ AheadInv /\ [Next]_vars => AheadInv'
  <1>1. AheadInv /\ UNCHANGED vars => AheadInv'
    BY DEF AheadInv, vars, mainVars, flags, threadVars
  <1> QED BY <1>1, MainStepAhead, ThreadStepAhead DEF Next, Exited

(* How a thread may come to mine a stale job.                               *)
Slipped(w) ==
    \/ Stale(w)
    \/ /\ pc[w] = "readSequence"
       /\ rjob[w] # m_job \/ (Resumes(w) /\ rjob[w] # pausedJob[w])

(* A step of the main loop makes no thread stale: one that changes the job  *)
(* is followed by one that changes the sequence number.                     *)
LEMMA MainStepStale ==
    ASSUME TypeOK, AheadInv, Calls \/ Continue, NEW w \in Threads, Stale(w)'
    PROVE  Stale(w)
  <1>1. UNCHANGED <<wseq, pc, wjob>> /\ m_sequence \in Nat /\ wseq[w] \in Nat
    BY MainKeepsThreads DEF threadVars, TypeOK, MainTypeOK, ThreadTypeOK
  <1>2. m_active' /\ m_enabled' /\ mpc' \notin {"setJob.sequence", "bump"} /\ m_sequence' # 0
        /\ wseq[w] = m_sequence'
    BY <1>1 DEF Stale
  <1>3. mpc \notin {"join", "exited"} => m_sequence' # m_sequence + 1
    BY <1>1, <1>2 DEF AheadInv
  <1>4. UNCHANGED <<m_active, m_enabled, m_sequence, m_job>> /\ mpc \notin {"setJob.sequence", "bump"}
    <2>1. CASE SetMainJob \/ SetDonateJob \/ ResumeMainJob
      BY <1>2, <2>1 DEF SetMainJob, SetDonateJob, ResumeMainJob, Call, SetJob, flags
    <2>2. CASE Pause \/ SetEnabled \/ PrintHealth \/ Stop
      BY <1>2, <2>2 DEF Pause, SetEnabled, PrintHealth, Stop, Call, flags, TypeOK, MainTypeOK
    <2>3. CASE Continue
      BY <1>2, <1>3, <2>3
         DEF Continue, SetJobSequence, SetJobPaused, Bump, StopSequence, Join, flags
    <2> QED BY <2>1, <2>2, <2>3 DEF Calls
  <1> QED BY <1>1, <1>4 DEF Stale

(* A thread becomes stale only in consumeJob.                               *)
LEMMA ThreadStepStale ==
    ASSUME TypeOK, AheadInv, NEW v \in Threads, ThreadStep(v), NEW w \in Threads, Stale(w)'
    PROVE  Slipped(w)
  <1>1. UNCHANGED <<m_active, m_enabled, m_sequence, m_job, mpc>> /\ m_sequence \in Nat
    BY ThreadKeepsMain DEF mainVars, flags, TypeOK, MainTypeOK
  <1>2. /\ pc \in [Threads -> ThreadStates] /\ wjob \in [Threads -> Jobs]
        /\ wseq \in [Threads -> Nat] /\ rjob \in [Threads -> Jobs]
    BY DEF TypeOK, ThreadTypeOK
  <1>3. CASE ReadSequence(v) /\ v = w
    <2>1. SUFFICES ASSUME rjob[w] = m_job, Resumes(w) => rjob[w] = pausedJob[w] PROVE FALSE
      BY <1>3 DEF Slipped, ReadSequence, Goto
    <2>2. wjob'[w].id = m_job.id /\ wjob'[w].clientId = m_job.clientId
      <3>1. CASE SameJob(w) BY <1>3, <2>1, <3>1 DEF ReadSequence, SameJob
      <3>2. CASE ~SameJob(w) /\ Resumes(w)
        BY <1>2, <1>3, <2>1, <3>2 DEF ReadSequence, TakeJob
      <3>3. CASE ~SameJob(w) /\ ~Resumes(w)
        BY <1>2, <1>3, <2>1, <3>3 DEF ReadSequence, TakeJob
      <3> QED BY <3>1, <3>2, <3>3
    <2> QED BY <1>1, <2>2 DEF Stale
  <1>4. CASE ~(ReadSequence(v) /\ v = w)
    <2>1. UNCHANGED <<wjob[w], wseq[w]>>
      <3>1. CASE ReadSequence(v) /\ v # w
        BY <1>2, <3>1 DEF ReadSequence, TakeJob
      <3>2. CASE ~ReadSequence(v)
        BY <3>2 DEF ThreadStep, ThreadLocal, Setup, Test, IfPaused, Awake, Wake, ReadJob,
                    Outdated, HashBatch
      <3> QED BY <1>4, <3>1, <3>2
    <2>2. pc'[w] \in {"test", "ifPaused", "outdated", "hash"} =>
              pc[w] \in {"test", "ifPaused", "outdated", "hash"} \/ pc[w] = "setup"
      <3> USE <1>2 DEF Goto
      <3>1. CASE v # w
        BY <3>1 DEF ThreadStep, Setup, Test, IfPaused, Awake, Wake, ReadJob, ReadSequence,
                    Outdated, HashBatch
      <3>2. CASE v = w /\ (Setup(w) \/ Test(w) \/ IfPaused(w) \/ Awake(w) \/ Wake(w))
        BY <3>2 DEF Setup, Test, IfPaused, Awake, Wake
      <3>3. CASE v = w /\ (ReadJob(w) \/ Outdated(w) \/ HashBatch(w))
        BY <3>3 DEF ReadJob, Outdated, HashBatch
      <3> QED BY <1>4, <3>1, <3>2, <3>3 DEF ThreadStep
    <2>3. pc[w] # "setup"
      BY <1>1, <2>1 DEF AheadInv, Stale
    <2> QED BY <1>1, <2>1, <2>2, <2>3 DEF Stale, Slipped
  <1> QED BY <1>3, <1>4

(* A thread mines an old job only if setJob ran as a whole between the two  *)
(* reads of its consumeJob, or if it resumes a job of the same name from an *)
(* older session: no other order of setJob, pause, resume and stop, for any *)
(* number of GPU threads and calls.                                         *)
THEOREM StalesInConsumeOnly == Spec => StaleOnlyFromConsume
  <1>1. TypeOK /\ AheadInv /\ [Next]_vars =>
            [\A w \in Threads : Stale(w)' => \/ Stale(w)
                                             \/ /\ pc[w] = "readSequence"
                                                /\ \/ rjob[w] # m_job
                                                   \/ Resumes(w) /\ rjob[w] # pausedJob[w]]_vars
    <2> SUFFICES ASSUME TypeOK, AheadInv, Next, NEW w \in Threads, Stale(w)', ~(UNCHANGED vars)
                 PROVE  Slipped(w)
      BY Zenon DEF Slipped
    <2>1. CASE Calls \/ Continue
      BY <2>1, MainStepStale DEF Slipped
    <2>2. ASSUME NEW v \in Threads, ThreadStep(v) PROVE Slipped(w)
      BY <2>2, ThreadStepStale
    <2> QED BY <2>1, <2>2 DEF Next, Exited
  <1> QED BY <1>1, InitAhead, NextAhead, TypeCorrect, PTL DEF Spec, StaleOnlyFromConsume

-----------------------------------------------------------------------------
(* The control loop of a card.                                              *)


Cards == [temp : Temps, auto : BOOLEAN, level : 0..100]

(* A pass from one fan order to the next. *)
States == [c : Contexts, g : Cards, level : Int]

Slept(c) == /\ c.NeedsCooling => c.SleepFactor \in 66..MaxSleepFactor
            /\ ~c.NeedsCooling => c.SleepFactor = 0
Knows(c, g) == c.IsFanControlEnabled => (c.FanIsAutomatic <=> g.auto)

(* What an order to the fan, or none, leaves as it was: temperature and       *)
(* throttling; unless a request for the mode is refused, the code knows the  *)
(* mode afterwards.                                                          *)
After(s, r, bad) ==
    /\ r \in States
    /\ r.c.NeedsCooling = s.c.NeedsCooling /\ r.c.SleepFactor = s.c.SleepFactor
    /\ r.c.IsFanControlEnabled = s.c.IsFanControlEnabled
    /\ r.g.temp = s.g.temp
    /\ ~s.c.IsFanControlEnabled => r.c = s.c /\ r.g = s.g
    /\ ~Modal(bad) /\ Knows(s.c, s.g) => Knows(r.c, r.g)

-----------------------------------------------------------------------------
(* The fan of a card whose mode is changed, or whose level is set.           *)
LEMMA SetModeKeeps ==
    ASSUME NEW g \in Cards, NEW auto \in BOOLEAN, NEW bad
    PROVE  /\ SetMode(g, auto, bad) \in Cards
           /\ SetMode(g, auto, bad).temp = g.temp
           /\ "mode" \notin bad => SetMode(g, auto, bad).auto = auto
  BY DEF SetMode, Cards

LEMMA SetLevelKeeps ==
    ASSUME NEW g \in Cards, NEW level \in 0..100, NEW bad
    PROVE  /\ SetLevel(g, level, bad) \in Cards
           /\ SetLevel(g, level, bad).temp = g.temp
           /\ SetLevel(g, level, bad).auto = g.auto
  BY DEF SetLevel, Cards

LEMMA FanContextKeeps ==
    ASSUME NEW c \in Contexts, NEW percent \in Int
    PROVE  LET r == FanContext(c, percent) IN
           /\ r \in Contexts
           /\ r.NeedsCooling = c.NeedsCooling /\ r.SleepFactor = c.SleepFactor
           /\ r.LastTemp = c.LastTemp /\ r.IsFanControlEnabled = c.IsFanControlEnabled
           /\ c.IsFanControlEnabled => (r.FanIsAutomatic <=> Clamped(percent) = 0)
           /\ ~c.IsFanControlEnabled => r = c
  BY DEF FanContext, Contexts

LEMMA FanCardKeeps ==
    ASSUME NEW c \in Contexts, NEW g \in Cards, NEW percent \in Int, NEW bad
    PROVE  LET r == FanCard(c, g, percent, bad) IN
           /\ r \in Cards /\ r.temp = g.temp
           /\ ~c.IsFanControlEnabled => r = g
           /\ c.IsFanControlEnabled /\ "mode" \notin bad /\ Knows(c, g) 
                  => (r.auto <=> Clamped(percent) = 0)
           /\ c.IsFanControlEnabled /\ "mode" \notin bad /\ Clamped(percent) = 0 => r.auto
  <1>1. Clamped(percent) \in 0..100
    BY DEF Clamped
  <1>2. c.FanIsAutomatic \in BOOLEAN /\ c.IsFanControlEnabled \in BOOLEAN
    BY DEF Contexts
  <1>3. CASE ~c.IsFanControlEnabled
    BY <1>3 DEF FanCard
  <1>4. CASE c.IsFanControlEnabled /\ Clamped(percent) = 0
    <2>1. FanCard(c, g, percent, bad) = SetMode(g, TRUE, bad)
      BY <1>4 DEF FanCard
    <2> QED BY <1>4, <2>1, SetModeKeeps
  <1>5. CASE c.IsFanControlEnabled /\ Clamped(percent) # 0
    <2> DEFINE m == IF c.FanIsAutomatic THEN SetMode(g, FALSE, bad) ELSE g
    <2>1. FanCard(c, g, percent, bad) = SetLevel(m, Clamped(percent), bad)
      BY <1>5 DEF FanCard
    <2>2. m \in Cards /\ m.temp = g.temp
      BY <1>2, SetModeKeeps
    <2>3. "mode" \notin bad /\ Knows(c, g) => m.auto = FALSE
      <3>1. g.auto \in BOOLEAN
        BY DEF Cards
      <3> QED BY <1>2, <1>5, <3>1, SetModeKeeps DEF Knows
    <2> DEFINE r == SetLevel(m, Clamped(percent), bad)
    <2> HIDE DEF m
    <2>4. r \in Cards /\ r.temp = g.temp /\ r.auto = m.auto
      BY <1>1, <2>2, SetLevelKeeps
    <2>5. "mode" \notin bad /\ Knows(c, g) => (r.auto <=> Clamped(percent) = 0)
      BY <1>5, <2>3, <2>4
    <2>6. FanCard(c, g, percent, bad) = r
      BY <2>1
    <2> HIDE DEF r
    <2> QED BY <1>5, <2>6, <2>4, <2>5
  <1> QED BY <1>2, <1>3, <1>4, <1>5

LEMMA OrderKeeps ==
    ASSUME NEW s \in States, NEW given \in BOOLEAN, NEW level \in Int, NEW bad
    PROVE  After(s, Order(s, given, level, bad), bad)
  <1>1. s.c \in Contexts /\ s.g \in Cards
    BY DEF States
  <1>2. CASE ~given
    BY <1>2 DEF Order, After
  <1>3. CASE given
    <2> DEFINE c == FanContext(s.c, level)  g == FanCard(s.c, s.g, level, bad)
    <2>1. Order(s, given, level, bad) = [c |-> c, g |-> g, level |-> level]
      BY <1>3 DEF Order
    <2>2. /\ c \in Contexts /\ g \in Cards /\ g.temp = s.g.temp
          /\ c.NeedsCooling = s.c.NeedsCooling /\ c.SleepFactor = s.c.SleepFactor
          /\ c.LastTemp = s.c.LastTemp /\ c.IsFanControlEnabled = s.c.IsFanControlEnabled
          /\ ~s.c.IsFanControlEnabled => c = s.c /\ g = s.g
      BY <1>1, FanContextKeeps, FanCardKeeps
    <2>3. ASSUME ~Modal(bad), Knows(s.c, s.g) PROVE Knows(c, g)
      <3>1. "mode" \notin bad
        BY <2>3 DEF Modal
      <3>2. ASSUME c.IsFanControlEnabled
            PROVE  (c.FanIsAutomatic <=> Clamped(level) = 0) /\ (g.auto <=> Clamped(level) = 0)
        BY <1>1, <2>2, <2>3, <3>1, <3>2, FanContextKeeps, FanCardKeeps
      <3> QED BY <3>2 DEF Knows
    <2> HIDE DEF c, g
    <2> QED BY <2>1, <2>2, <2>3 DEF States, After
  <1> QED BY <1>2, <1>3

-----------------------------------------------------------------------------
(* Throttling begins with a sleep, on a card above the limit. *)
LEMMA JudgeKeeps ==
    ASSUME NEW c \in Contexts, Slept(c), NEW temp \in Nat
    PROVE  LET r == Judge(c, temp) IN
           /\ r \in Contexts /\ Slept(r)
           /\ temp > maxtemp => r.NeedsCooling
           /\ c.NeedsCooling => r.NeedsCooling
           /\ r.IsFanControlEnabled = c.IsFanControlEnabled
           /\ r.FanIsAutomatic = c.FanIsAutomatic /\ r.LastTemp = c.LastTemp
  <1>1. MaxSleepFactor \in Nat /\ 100 \in 66..MaxSleepFactor /\ 100 \in 0..MaxSleepFactor
    BY CoolingAssumption
  <1>2. CASE temp > maxtemp /\ c.NeedsCooling
    <2>1. Judge(c, temp) = [c EXCEPT !.NeedsCooling = TRUE, !.SleepFactor = c.SleepFactor]
      BY <1>2 DEF Judge
    <2> QED BY <1>2, <2>1 DEF Contexts, Slept
  <1>3. CASE temp > maxtemp /\ ~c.NeedsCooling
    <2>1. Judge(c, temp) = [c EXCEPT !.NeedsCooling = TRUE, !.SleepFactor = 100]
      BY <1>3 DEF Judge, StartSleepFactor
    <2> QED BY <1>1, <1>3, <2>1 DEF Contexts, Slept
  <1>4. CASE ~(temp > maxtemp)
    BY <1>4 DEF Judge
  <1> QED BY <1>2, <1>3, <1>4

(* Throttling ends with the sleep, or goes on with two thirds of it ... *)
LEMMA RelaxKeeps ==
    ASSUME NEW c \in Contexts, Slept(c), c.NeedsCooling
    PROVE  LET r == Relax(c) IN
           /\ r \in Contexts /\ Slept(r)
           /\ r.IsFanControlEnabled = c.IsFanControlEnabled
           /\ r.FanIsAutomatic = c.FanIsAutomatic /\ r.LastTemp = c.LastTemp
  <1>1. c.SleepFactor \in 0..MaxSleepFactor /\ MaxSleepFactor \in Nat
    BY CoolingAssumption DEF Contexts
  <1>2. c.SleepFactor > 100 => (c.SleepFactor * 2) \div 3 \in 66..MaxSleepFactor
    BY <1>1
  <1>3. CASE c.SleepFactor > 100
    <2>1. Relax(c) = [c EXCEPT !.NeedsCooling = TRUE, !.SleepFactor = (c.SleepFactor * 2) \div 3]
      <3>1. (c.SleepFactor > 100) = TRUE /\ ~(c.SleepFactor <= 100)
        BY <1>1, <1>3
      <3> QED BY <3>1, Zenon DEF Relax, StartSleepFactor
    <2>2. (c.SleepFactor * 2) \div 3 \in 0..MaxSleepFactor
      BY <1>1, <1>2, <1>3
    <2> QED BY <1>2, <1>3, <2>1, <2>2 DEF Contexts, Slept
  <1>4. CASE ~(c.SleepFactor > 100)
    <2>1. Relax(c) = [c EXCEPT !.NeedsCooling = FALSE, !.SleepFactor = 0]
      <3>1. (c.SleepFactor > 100) = FALSE /\ c.SleepFactor <= 100
        BY <1>1, <1>4
      <3> QED BY <3>1, Zenon DEF Relax, StartSleepFactor
    <2>2. 0 \in 0..MaxSleepFactor
      BY <1>1
    <2> QED BY <2>1, <2>2 DEF Contexts, Slept
  <1> QED BY <1>3, <1>4

(* ... or with half as much again. *)
LEMMA TightenKeeps ==
    ASSUME NEW c \in Contexts, Slept(c), c.NeedsCooling
    PROVE  LET r == Tighten(c) IN
           /\ r \in Contexts /\ Slept(r) /\ r.NeedsCooling
           /\ r.IsFanControlEnabled = c.IsFanControlEnabled
           /\ r.FanIsAutomatic = c.FanIsAutomatic /\ r.LastTemp = c.LastTemp
  <1>1. c.SleepFactor \in 66..MaxSleepFactor /\ MaxSleepFactor \in Nat /\ MaxSleepFactor >= 100
    BY CoolingAssumption DEF Slept
  <1>2. (c.SleepFactor * 3) \div 2 \in Nat /\ (c.SleepFactor * 3) \div 2 >= 66
    BY <1>1
  <1> QED BY <1>1, <1>2 DEF Tighten, Contexts, Slept

(* A pass that has both readings throttles a card above the limit, ends      *)
(* throttling only below the falloff, and does not lose track of the fan.    *)
LEMMA PassKeeps ==
    ASSUME NEW s \in States, Slept(s.c), NEW bad, fanlevel \in Int
    PROVE  LET r == Pass(s, bad) IN
           /\ r \in States /\ Slept(r.c)
           /\ r.g.temp = s.g.temp
           /\ r.c.IsFanControlEnabled = s.c.IsFanControlEnabled
           /\ s.g.temp > maxtemp => r.c.NeedsCooling
           /\ s.c.NeedsCooling /\ ~r.c.NeedsCooling => s.g.temp < Low
           /\ ~s.c.IsFanControlEnabled => r.g = s.g
           /\ ~Modal(bad) /\ Knows(s.c, s.g) => Knows(r.c, r.g)
  <1> DEFINE temp == s.g.temp
             free == fanlevel = 0
             c1 == Judge(s.c, temp)
             c2 == IF Cooled(c1, temp) THEN Relax(c1)
                   ELSE IF Heating(c1, temp) THEN Tighten(c1) ELSE c1
             s1 == [s EXCEPT !.c = c2]
             s2 == Order(s1, free /\ Cooled(c1, temp), Slower(s.level), bad)
             s3 == Order(s2, free /\ c2.NeedsCooling, Raised(s2.level), bad)
             r == Order(s3, free /\ Dropping(s3.c, temp) /\ s3.level # FanAutoDefault,
                        Settled(s3.level), bad)
  <1>0. r = Pass(s, bad)
    BY DEF Pass
  <1>1. s.c \in Contexts /\ s.g \in Cards /\ s.level \in Int /\ temp \in Nat
    BY CoolingAssumption DEF States, Cards
  <1>2. /\ c1 \in Contexts /\ Slept(c1)
        /\ temp > maxtemp => c1.NeedsCooling
        /\ s.c.NeedsCooling => c1.NeedsCooling
        /\ c1.IsFanControlEnabled = s.c.IsFanControlEnabled
        /\ c1.FanIsAutomatic = s.c.FanIsAutomatic
    BY <1>1, JudgeKeeps
  <1> HIDE DEF c1
  <1>3. temp > maxtemp => ~Cooled(c1, temp)
    BY <1>1, CoolingAssumption DEF Cooled, Low
  <1>4. /\ c2 \in Contexts /\ Slept(c2)
        /\ temp > maxtemp => c2.NeedsCooling
        /\ c1.NeedsCooling /\ ~c2.NeedsCooling => temp < Low
        /\ c2.IsFanControlEnabled = c1.IsFanControlEnabled
        /\ c2.FanIsAutomatic = c1.FanIsAutomatic
    <2>1. CASE Cooled(c1, temp)
      BY <1>2, <1>3, <2>1, RelaxKeeps DEF Cooled
    <2>2. CASE ~Cooled(c1, temp) /\ Heating(c1, temp)
      BY <1>2, <2>2, TightenKeeps DEF Heating
    <2>3. CASE ~Cooled(c1, temp) /\ ~Heating(c1, temp)
      BY <1>2, <2>3
    <2> QED BY <2>1, <2>2, <2>3
  <1> HIDE DEF c2
  <1>5. /\ s1 \in States /\ s1.c = c2 /\ s1.g = s.g /\ s1.level = s.level
        /\ ~Modal(bad) /\ Knows(s.c, s.g) => Knows(s1.c, s1.g)
    BY <1>1, <1>2, <1>4 DEF States, Knows
  <1> HIDE DEF s1
  <1>6. After(s1, s2, bad)
    <2>1. Slower(s.level) \in Int /\ (free /\ Cooled(c1, temp)) \in BOOLEAN
      BY <1>1 DEF Slower, FanFactor
    <2> QED BY <1>5, <2>1, OrderKeeps
  <1> HIDE DEF s2
  <1>7. After(s2, s3, bad)
    <2>1. s2 \in States /\ s2.level \in Int
      BY <1>6 DEF After, States
    <2>2. Raised(s2.level) \in Int /\ (free /\ c2.NeedsCooling) \in BOOLEAN
      BY <2>1, <1>4 DEF Raised, FanFactor
    <2> QED BY <2>1, <2>2, OrderKeeps
  <1> HIDE DEF s3
  <1>8. After(s3, r, bad)
    <2>1. s3 \in States /\ s3.level \in Int
      BY <1>7 DEF After, States
    <2>2. /\ Settled(s3.level) \in Int
          /\ (free /\ Dropping(s3.c, temp) /\ s3.level # FanAutoDefault) \in BOOLEAN
      BY <2>1 DEF Settled, FanFactor, FanAutoDefault
    <2> QED BY <2>1, <2>2, OrderKeeps
  <1> HIDE DEF r
  <1>11. After(s1, r, bad)
    BY <1>6, <1>7, <1>8 DEF After
  <1>12. /\ r.c.NeedsCooling = c2.NeedsCooling /\ r.c.SleepFactor = c2.SleepFactor
         /\ r \in States /\ r.g.temp = s.g.temp
         /\ r.c.IsFanControlEnabled = s.c.IsFanControlEnabled
         /\ ~s.c.IsFanControlEnabled => r.g = s.g
         /\ ~Modal(bad) /\ Knows(s.c, s.g) => Knows(r.c, r.g)
    BY <1>2, <1>4, <1>5, <1>11 DEF After
  <1>13. Slept(r.c)
    BY <1>4, <1>12 DEF Slept
  <1>14. /\ temp > maxtemp => r.c.NeedsCooling
         /\ s.c.NeedsCooling /\ ~r.c.NeedsCooling => temp < Low
    BY <1>2, <1>4, <1>12
  <1> QED BY <1>0, <1>12, <1>13, <1>14

-----------------------------------------------------------------------------
(* FanGivenBack, and what it rests on: before the start fan control is not   *)
(* enabled, and a fan that is not controlled is as it was found.             *)
FanInv ==
    /\ phase = "start" => ~cool.IsFanControlEnabled
    /\ ~refused => /\ phase = "closed" /\ startAuto => gpu.auto
                   /\ Knows(cool, gpu)
                   /\ ~cool.IsFanControlEnabled => (gpu.auto <=> startAuto)

IInv == CoolingTypeOK /\ Slept(cool) /\ HotIsThrottled /\ FanInv

(* The types that the lemmas above speak of. *)
LEMMA Typed ==
    ASSUME CoolingTypeOK
    PROVE  /\ cool \in Contexts /\ gpu \in Cards /\ fanlevel \in Int
           /\ gpu.temp \in Nat /\ maxtemp \in Nat
           /\ [c |-> cool, g |-> gpu, level |-> 0] \in States
  <1>1. cool \in Contexts /\ gpu \in Cards
    BY DEF CoolingTypeOK, Cards
  <1>2. gpu.temp \in Nat /\ maxtemp \in Nat
    <2>1. gpu.temp \in Temps /\ Temps \subseteq Nat
      BY <1>1, CoolingAssumption DEF Cards
    <2>2. maxtemp \in Nat
      BY CoolingAssumption
    <2>3. gpu.temp \in Nat
      BY <2>1, Zenon
    <2> QED BY <2>2, <2>3
  <1>3. fanlevel \in Int
    BY CoolingAssumption DEF CoolingTypeOK
  <1>4. [c |-> cool, g |-> gpu, level |-> 0] \in States
    BY <1>1 DEF States
  <1> QED BY <1>1, <1>2, <1>3, <1>4

LEMMA InitInv == CoolingInit => IInv
  <1> SUFFICES ASSUME CoolingInit PROVE IInv
    OBVIOUS
  <1> USE DEF CoolingInit
  <1>1. CoolingTypeOK
    <2>1. cool \in Contexts
      <3>1. 0 \in 0..MaxSleepFactor /\ -1 \in {-1, 0} /\ 0 \in Nat
        BY CoolingAssumption
      <3> QED BY <3>1 DEF Contexts
    <2>2. gpu \in [temp : Temps, auto : BOOLEAN, level : 0..100] /\ startAuto \in BOOLEAN
      BY CoolingAssumption
    <2> QED BY <2>1, <2>2 DEF CoolingTypeOK
  <1>2. Slept(cool) /\ HotIsThrottled
    BY DEF Slept, HotIsThrottled
  <1>3. FanInv
    BY DEF FanInv, Knows
  <1> QED BY <1>1, <1>2, <1>3 DEF IInv

LEMMA NoControlInv == ASSUME IInv, NoControl PROVE IInv'
  BY DEF IInv, NoControl, CoolingTypeOK, Slept, HotIsThrottled, FanInv, Knows

LEMMA NVCtrlInitInv == ASSUME IInv, NVCtrlInit PROVE IInv'
  <1>1. PICK bad \in Refusals :
          LET auto == "query" \notin bad /\ gpu.auto
              manual == SetMode(gpu, FALSE, bad)
          IN  /\ cool' = [cool EXCEPT !.Card = 0, !.FanIsAutomatic = auto,
                                      !.IsFanControlEnabled = "mode" \notin bad]
              /\ gpu' = IF auto THEN SetMode(manual, TRUE, bad) ELSE manual
              /\ refused' = Modal(bad)
    BY DEF NVCtrlInit
  <1> DEFINE auto == "query" \notin bad /\ gpu.auto
             manual == SetMode(gpu, FALSE, bad)
  <1>2. /\ phase = "start" /\ phase' = "cool" /\ UNCHANGED <<fanlevel, startAuto, ticked, slept>>
        /\ CoolingTypeOK /\ Slept(cool) /\ auto \in BOOLEAN
        /\ cool \in Contexts /\ gpu \in Cards /\ gpu.auto \in BOOLEAN
    BY Typed DEF NVCtrlInit, IInv, Cards
  <1>3. /\ cool' \in Contexts
        /\ cool'.NeedsCooling = cool.NeedsCooling /\ cool'.SleepFactor = cool.SleepFactor
        /\ cool'.FanIsAutomatic = auto
        /\ cool'.IsFanControlEnabled <=> "mode" \notin bad
    BY <1>1, <1>2 DEF Contexts
  <1>4. /\ gpu' \in Cards
        /\ "mode" \notin bad => (gpu'.auto <=> auto)
    <2>1. manual \in Cards /\ ("mode" \notin bad => manual.auto = FALSE)
      BY <1>2, SetModeKeeps
    <2>2. CASE auto
      BY <1>1, <2>1, <2>2, SetModeKeeps
    <2>3. CASE ~auto
      BY <1>1, <2>1, <2>3
    <2> QED BY <2>2, <2>3
  <1>5. CoolingTypeOK'
    <2>1. refused' \in BOOLEAN
      BY <1>1 DEF Modal
    <2> QED BY <1>2, <1>3, <1>4, <2>1 DEF CoolingTypeOK, Cards
  <1>6. Slept(cool)' /\ HotIsThrottled'
    BY <1>2, <1>3 DEF Slept, HotIsThrottled
  <1>7. FanInv'
    <2>1. refused' \/ ("mode" \notin bad /\ (auto <=> gpu.auto))
      BY <1>1 DEF Modal
    <2> QED BY <1>2, <1>3, <1>4, <2>1 DEF FanInv, Knows
  <1> QED BY <1>5, <1>6, <1>7 DEF IInv

LEMMA CoolEarlyInv == ASSUME IInv, CoolEarly PROVE IInv'
  BY DEF IInv, CoolEarly, CoolingTypeOK, Slept, HotIsThrottled, FanInv, Knows

(* A full pass, and what it does to the throttling. *)
LEMMA CoolTickInv ==
    ASSUME IInv, CoolTick
    PROVE  IInv' /\ (cool.NeedsCooling /\ ~cool'.NeedsCooling => gpu.temp < Low)
  <1>1. PICK bad \in Refusals, auto \in AutoLevels :
          /\ LET s1 == Order([c |-> cool, g |-> gpu, level |-> 0],
                             fanlevel > 0, fanlevel, bad)
                 s2 == [s1 EXCEPT !.level = Reported(s1.g, auto)]
                 s3 == Pass(s2, bad)
             IN  IF s1.c.IsFanControlEnabled /\ "read" \notin bad
                 THEN /\ cool' = [s3.c EXCEPT !.LastTemp = gpu.temp]
                      /\ gpu' = s3.g
                      /\ ticked' = "full" /\ slept' = s3.c.NeedsCooling
                 ELSE /\ cool' = s1.c /\ gpu' = s1.g
                      /\ ticked' = "blind" /\ slept' = FALSE
          /\ refused' = (refused \/ Modal(bad))
    BY DEF CoolTick
  <1> DEFINE s0 == [c |-> cool, g |-> gpu, level |-> 0]
             s1 == Order(s0, fanlevel > 0, fanlevel, bad)
             s2 == [s1 EXCEPT !.level = Reported(s1.g, auto)]
             s3 == Pass(s2, bad)
  <1>2. /\ phase = "cool" /\ phase' = "hash" /\ UNCHANGED <<fanlevel, startAuto>>
        /\ CoolingTypeOK /\ Slept(cool) /\ FanInv
        /\ cool \in Contexts /\ gpu \in Cards /\ fanlevel \in Int /\ s0 \in States
        /\ s0.c = cool /\ s0.g = gpu /\ gpu.temp \in Nat /\ maxtemp \in Nat
    BY Typed DEF CoolTick, IInv
  <1>3. After(s0, s1, bad)
    <2>1. (fanlevel > 0) \in BOOLEAN
      OBVIOUS
    <2> HIDE DEF s0
    <2> QED BY <1>2, <2>1, OrderKeeps
  <1>4. auto \in 0..100
    BY CoolingAssumption
  <1>5. /\ refused' = (refused \/ Modal(bad))
        /\ \/ /\ cool' = [s3.c EXCEPT !.LastTemp = gpu.temp] /\ gpu' = s3.g
              /\ ticked' = "full" /\ slept' = s3.c.NeedsCooling
           \/ cool' = s1.c /\ gpu' = s1.g /\ ticked' = "blind" /\ slept' = FALSE
    BY <1>1
  <1> HIDE DEF s1
  <1>6. /\ s2 \in States /\ s2.c = s1.c /\ s2.g = s1.g /\ s1.c \in Contexts /\ s1.g \in Cards
    <2>1. Reported(s1.g, auto) \in Int
      BY <1>3, <1>4 DEF Reported, After, States, Cards
    <2> QED BY <1>3, <2>1 DEF After, States
  <1> HIDE DEF s2
  <1>7. /\ Slept(s1.c) /\ s1.g.temp = gpu.temp /\ s1.c.NeedsCooling = cool.NeedsCooling
        /\ s1.c.IsFanControlEnabled = cool.IsFanControlEnabled
        /\ ~cool.IsFanControlEnabled => s1.g = gpu
        /\ ~Modal(bad) /\ Knows(cool, gpu) => Knows(s1.c, s1.g)
    BY <1>2, <1>3 DEF After, Slept
  <1>8. /\ s3 \in States /\ Slept(s3.c) /\ s3.g.temp = gpu.temp
        /\ s3.c.IsFanControlEnabled = cool.IsFanControlEnabled
        /\ gpu.temp > maxtemp => s3.c.NeedsCooling
        /\ cool.NeedsCooling /\ ~s3.c.NeedsCooling => gpu.temp < Low
        /\ ~cool.IsFanControlEnabled => s3.g = gpu
        /\ ~Modal(bad) /\ Knows(cool, gpu) => Knows(s3.c, s3.g)
    BY <1>2, <1>6, <1>7, PassKeeps
  <1> HIDE DEF s3, s0
  <1>9. /\ cool' \in Contexts /\ gpu' \in Cards /\ Slept(cool') /\ gpu'.temp = gpu.temp
        /\ cool'.IsFanControlEnabled = cool.IsFanControlEnabled
        /\ ~cool.IsFanControlEnabled => gpu' = gpu
        /\ ~Modal(bad) /\ Knows(cool, gpu) => Knows(cool', gpu')
        /\ ticked' \in {"full", "blind"} /\ slept' \in BOOLEAN
        /\ ticked' = "full" /\ gpu.temp > maxtemp => slept'
        /\ cool.NeedsCooling /\ ~cool'.NeedsCooling => gpu.temp < Low
    <2>1. CASE /\ cool' = [s3.c EXCEPT !.LastTemp = gpu.temp] /\ gpu' = s3.g
               /\ ticked' = "full" /\ slept' = s3.c.NeedsCooling
      <3>1. s3.c \in Contexts /\ s3.g \in Cards
        BY <1>8 DEF States
      <3>2. /\ cool' \in Contexts /\ s3.c.NeedsCooling \in BOOLEAN
            /\ cool'.NeedsCooling = s3.c.NeedsCooling /\ cool'.SleepFactor = s3.c.SleepFactor
            /\ cool'.IsFanControlEnabled = s3.c.IsFanControlEnabled
            /\ cool'.FanIsAutomatic = s3.c.FanIsAutomatic
        BY <1>2, <2>1, <3>1 DEF Contexts
      <3>3. Slept(cool') /\ (Knows(s3.c, s3.g) => Knows(cool', gpu'))
        BY <1>8, <2>1, <3>2 DEF Slept, Knows
      <3> QED BY <1>8, <2>1, <3>1, <3>2, <3>3
    <2>2. CASE cool' = s1.c /\ gpu' = s1.g /\ ticked' = "blind" /\ slept' = FALSE
      BY <1>6, <1>7, <2>2
    <2> QED BY <1>5, <2>1, <2>2
  <1>10. CoolingTypeOK'
    <2>1. refused' \in BOOLEAN
      BY <1>5
    <2> QED BY <1>2, <1>9, <2>1 DEF CoolingTypeOK, Cards
  <1>11. HotIsThrottled'
    BY <1>2, <1>9 DEF HotIsThrottled
  <1>12. FanInv'
    <2>1. ASSUME ~refused' PROVE ~refused /\ ~Modal(bad)
      BY <1>5, <2>1
    <2>2. ASSUME ~refused' PROVE Knows(cool', gpu') /\ (~cool'.IsFanControlEnabled => (gpu'.auto <=> startAuto))
      BY <1>2, <1>9, <2>1, <2>2 DEF FanInv
    <2> QED BY <1>2, <2>2 DEF FanInv
  <1> QED BY <1>9, <1>10, <1>11, <1>12 DEF IInv

LEMMA BatchRunsInv == ASSUME IInv, BatchRuns PROVE IInv'
  <1>1. PICK t \in Temps : gpu' = [gpu EXCEPT !.temp = t]
    BY DEF BatchRuns
  <1>2. gpu' \in Cards /\ gpu'.auto = gpu.auto
    BY <1>1, Typed DEF IInv, Cards
  <1> QED BY <1>2 DEF IInv, BatchRuns, CoolingTypeOK, Cards, Slept, HotIsThrottled, FanInv, Knows

LEMMA NVCtrlCloseInv == ASSUME IInv, NVCtrlClose PROVE IInv' /\ cool'.NeedsCooling = cool.NeedsCooling
  <1>1. /\ phase = "cool" /\ phase' = "closed" /\ UNCHANGED <<fanlevel, startAuto, ticked, slept>>
        /\ CoolingTypeOK /\ Slept(cool) /\ FanInv /\ cool \in Contexts /\ gpu \in Cards
    BY Typed DEF NVCtrlClose, IInv
  <1>2. CASE cool.FanIsAutomatic
    <2>1. UNCHANGED <<cool, gpu, refused>>
      BY <1>2 DEF NVCtrlClose
    <2>2. FanInv'
      BY <1>1, <1>2, <2>1 DEF FanInv, Knows
    <2> QED BY <1>1, <2>1, <2>2 DEF IInv, CoolingTypeOK, Slept, HotIsThrottled
  <1>3. CASE ~cool.FanIsAutomatic
    <2>1. PICK bad \in Refusals : /\ cool' = FanContext(cool, 0)
                                  /\ gpu' = FanCard(cool, gpu, 0, bad)
                                  /\ refused' = (refused \/ Modal(bad))
      BY <1>3 DEF NVCtrlClose
    <2>2. Clamped(0) = 0 /\ 0 \in Int
      BY DEF Clamped
    <2>3. /\ cool' \in Contexts /\ gpu' \in Cards
          /\ cool'.NeedsCooling = cool.NeedsCooling /\ cool'.SleepFactor = cool.SleepFactor
          /\ cool'.IsFanControlEnabled = cool.IsFanControlEnabled
          /\ cool.IsFanControlEnabled => cool'.FanIsAutomatic
          /\ ~cool.IsFanControlEnabled => cool' = cool /\ gpu' = gpu
          /\ cool.IsFanControlEnabled /\ "mode" \notin bad => gpu'.auto
      BY <1>1, <2>1, <2>2, FanContextKeeps, FanCardKeeps
    <2>4. ~refused' => ~refused /\ "mode" \notin bad
      BY <2>1 DEF Modal
    <2>5. FanInv'
      BY <1>1, <2>3, <2>4 DEF FanInv, Knows
    <2>6. CoolingTypeOK'
      <3>1. refused' \in BOOLEAN
        BY <2>1
      <3> QED BY <1>1, <2>3, <3>1 DEF CoolingTypeOK, Cards
    <2> QED BY <1>1, <2>3, <2>5, <2>6 DEF IInv, Slept, HotIsThrottled
  <1> QED BY <1>2, <1>3

-----------------------------------------------------------------------------
LEMMA NextInv ==
    ASSUME IInv, [CoolingNext]_coolingVars
    PROVE  IInv' /\ (cool.NeedsCooling /\ ~cool'.NeedsCooling => gpu.temp < Low)
  <1>1. CASE NoControl
    BY <1>1, NoControlInv DEF NoControl
  <1>2. CASE NVCtrlInit
    <2>1. phase = "start" /\ cool'.NeedsCooling = cool.NeedsCooling
      BY <1>2, Typed DEF NVCtrlInit, IInv, Contexts
    <2> QED BY <1>2, <2>1, NVCtrlInitInv
  <1>3. CASE CoolEarly
    BY <1>3, CoolEarlyInv DEF CoolEarly
  <1>4. CASE CoolTick
    BY <1>4, CoolTickInv
  <1>5. CASE BatchRuns
    BY <1>5, BatchRunsInv DEF BatchRuns
  <1>6. CASE NVCtrlClose
    BY <1>6, NVCtrlCloseInv
  <1>7. CASE Closed \/ UNCHANGED coolingVars
    BY <1>7 DEF Closed, coolingVars, IInv, CoolingTypeOK, Slept, HotIsThrottled, FanInv, Knows
  <1> QED BY <1>1, <1>2, <1>3, <1>4, <1>5, <1>6, <1>7 DEF CoolingNext

THEOREM Invariance == CoolingSpec => []IInv
  BY InitInv, NextInv, PTL DEF CoolingSpec

(* Every variable of the control loop keeps its type: the sleep stays in its *)
(* cap and the fan in 0..100.                                                *)
THEOREM CoolingTyped == CoolingSpec => []CoolingTypeOK
  <1>1. IInv => CoolingTypeOK
    BY DEF IInv
  <1> QED BY Invariance, <1>1, PTL

(* A card sleeps between its batches, 66 ms or more, exactly while DoCooling *)
(* finds that it needs cooling, for any limits and any cap.                  *)
THEOREM SleepsExactlyWhenCooling == CoolingSpec => []SleepsIffCooling
  <1>1. IInv => SleepsIffCooling
    BY DEF IInv, Slept, SleepsIffCooling
  <1> QED BY Invariance, <1>1, PTL

(* A pass of DoCooling that can read the fan throttles a card above the      *)
(* limit, whatever its history and whatever the X server refuses.            *)
THEOREM ThrottlesHotCards == CoolingSpec => []HotIsThrottled
  <1>1. IInv => HotIsThrottled
    BY DEF IInv
  <1> QED BY Invariance, <1>1, PTL

(* The two together: between its batches a card sleeps while it is cooled,   *)
(* and it is cooled once it was found hot.                                   *)
THEOREM ThrottlesAndSleeps == CoolingSpec => []Throttled
  BY SleepsExactlyWhenCooling, ThrottlesHotCards, PTL DEF Throttled

(* Throttling ends only on a card that is the falloff below the limit.       *)
THEOREM ThrottlesUntilCool == CoolingSpec => Hysteresis
  BY Invariance, NextInv, PTL DEF CoolingSpec, Hysteresis

(* A fan that was automatic is given back by NVCtrlClose, and until then the *)
(* code knows its mode, unless a request for the mode was refused.           *)
THEOREM GivesFanBack == CoolingSpec => []FanGivenBack
  <1>1. IInv => FanGivenBack
    BY DEF IInv, FanInv, FanGivenBack, Knows
  <1> QED BY Invariance, <1>1, PTL
=============================================================================
