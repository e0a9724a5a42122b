----------------------------- MODULE HashProofs -----------------------------
(***************************************************************************)
(* What the cards hash, how it is checked and how it is counted.           *)
(*                                                                         *)
(* Nonces: no nonce of a job is hashed by two cards, and none leaves the   *)
(* prefix that a pool of NiceHash fixed: for any number of GPU threads,    *)
(* any sizes of their batches and any jobs.                                *)
(*                                                                         *)
(* Programs: a card mines with its own program, none is compiled twice,    *)
(* and none is dropped that is still needed: for any number of GPU         *)
(* threads, cards of any architectures, and chains of any length.          *)
(*                                                                         *)
(* Verification: a share is checked by the loop of its own variant, in     *)
(* memory that is its batch's own: for any blocks.                         *)
(*                                                                         *)
(* Hashrate: the rate that is shown is that of the hashes in the window:   *)
(* for any number of GPU threads, sizes of batches and of the ring.        *)
(***************************************************************************)
EXTENDS Nonces, Programs, Verification, Hashrate, SequenceTheorems, WellFoundedInduction,
        TLAPS

-----------------------------------------------------------------------------
(* Nonces.                                                                 *)

(* The nonces that are a thread's own. *)
Own(j, t) == First(j, t)..(First(j, t) + Share(j) - 1)

NoncesTypes ==
    /\ given \in NonceJobs
    /\ m_job \in [Workers -> NonceJobs \cup {EmptyJob}]
    /\ m_pausedJob \in [Workers -> UserJobs \cup {EmptyJob}]
    /\ m_nonce \in [Workers -> Nat] /\ m_pausedNonce \in [Workers -> Nat]
    /\ begun \in [Workers -> [NonceJobs -> Nat]]
    /\ hashed \in [Workers -> [NonceJobs -> SUBSET Nat]]
    /\ long \in [Workers -> [NonceJobs -> BOOLEAN]]

(* While a job does not outlast a thread's share, the thread's next nonce is *)
(* the one after those it hashed, in its own range ...                       *)
InShare(t, j) == ~long[t][j] => begun[t][j] <= Share(j) /\ hashed[t][j] \subseteq Own(j, t)
NextOwn(t) ==
    m_job[t] \in NonceJobs /\ ~long[t][m_job[t]] =>
        m_nonce[t] = First(m_job[t], t) + begun[t][m_job[t]]

(* ... and so it is for the user's job that a donation interrupted.          *)
Paused(t) ==
    m_job[t].poolId = -1 /\ m_pausedJob[t] \in NonceJobs /\ ~long[t][m_pausedJob[t]] =>
        m_pausedNonce[t] = First(m_pausedJob[t], t) + begun[t][m_pausedJob[t]]
Fresh(t) == m_job[t] = EmptyJob => m_pausedJob[t] = EmptyJob

NoncesInv ==
    /\ NoncesTypes
    /\ \A t \in Workers : NextOwn(t) /\ Paused(t) /\ Fresh(t) /\ \A j \in NonceJobs : InShare(t, j)

-----------------------------------------------------------------------------
(* Division rounds down. *)
LEMMA DivTimes ==
    ASSUME NEW a \in Nat, NEW n \in Nat \ {0}
    PROVE  a \div n \in Nat /\ (a \div n) * n <= a
  OBVIOUS

(* A product of natural numbers grows with each of them. *)
LEMMA Grows ==
    ASSUME NEW s \in Nat, NEW t \in Nat, NEW u \in Nat, t < u
    PROVE  s * t \in Nat /\ s * t + s <= s * u
  <1>1. PICK d \in Nat : u = t + 1 + d
    <2>1. u - t - 1 \in Nat /\ u = t + 1 + (u - t - 1)
      OBVIOUS
    <2> QED BY <2>1
  <1>2. s * u = s * t + s + s * d
    BY <1>1
  <1>3. s * d \in Nat /\ s * t \in Nat
    BY <1>1
  <1> QED BY <1>2, <1>3

(* The shares of all threads fit: into the free part of a nonce of NiceHash, *)
(* or into all of it.                                                        *)
LEMMA SharesFit ==
    ASSUME NEW j \in NonceJobs
    PROVE  /\ Share(j) \in Nat
           /\ j.nicehash => Share(j) * m_threads <= FreeSpace - 1
           /\ ~j.nicehash => Share(j) * m_threads <= NonceSpace - 1
  <1>1. FreeSpace - 1 \in Nat /\ NonceSpace - 1 \in Nat /\ m_threads \in Nat \ {0}
    BY NoncesAssumption
  <1>2. CASE j.nicehash
    BY <1>1, <1>2, DivTimes DEF Share
  <1>3. CASE ~j.nicehash
    BY <1>1, <1>3, DivTimes DEF Share
  <1> QED BY <1>2, <1>3

(* Every range lies below the last nonce, and in the prefix. *)
LEMMA OwnFits ==
    ASSUME NEW j \in NonceJobs, NEW t \in Workers
    PROVE  /\ First(j, t) \in Nat /\ Share(j) \in Nat
           /\ First(j, t) + Share(j) <= NonceSpace - 1
           /\ j.nicehash => /\ Prefix(j.nonce) <= First(j, t)
                            /\ First(j, t) + Share(j) <= Prefix(j.nonce) + FreeSpace - 1
  <1>1. t \in Nat /\ t < m_threads /\ m_threads \in Nat
    BY NoncesAssumption DEF Workers
  <1>2. Share(j) \in Nat
    BY SharesFit
  <1>3. Share(j) * t \in Nat /\ Share(j) * t + Share(j) <= Share(j) * m_threads
    BY <1>1, <1>2, Grows
  <1>4. /\ Prefix(j.nonce) \in Nat /\ Prefix(j.nonce) + FreeSpace <= NonceSpace
        /\ FreeSpace \in Nat /\ NonceSpace \in Nat
    BY NoncesAssumption
  <1> HIDE DEF Prefix
  <1> DEFINE P == Prefix(j.nonce)  S == Share(j)  T == Share(j) * t  M == Share(j) * m_threads
  <1>5. CASE j.nicehash
    <2>1. First(j, t) = P + T
      BY <1>5 DEF First
    <2>2. M <= FreeSpace - 1
      BY <1>5, SharesFit
    <2>3. P \in Nat /\ S \in Nat /\ T \in Nat /\ T + S <= M /\ M \in Nat
      BY <1>1, <1>2, <1>3, <1>4
    <2> HIDE DEF P, S, T, M
    <2>4. P + T \in Nat /\ P + T + S <= NonceSpace - 1 /\ P <= P + T /\ P + T + S <= P + FreeSpace - 1
      BY <2>2, <2>3, <1>4 DEF P
    <2> QED BY <2>1, <2>4, <1>2, <1>5 DEF P, S
  <1>6. CASE ~j.nicehash
    <2>1. First(j, t) = 0 + T
      BY <1>6 DEF First
    <2>2. M <= NonceSpace - 1
      BY <1>6, SharesFit
    <2>3. S \in Nat /\ T \in Nat /\ T + S <= M /\ M \in Nat
      BY <1>1, <1>2, <1>3
    <2> HIDE DEF S, T, M
    <2>4. 0 + T \in Nat /\ 0 + T + S <= NonceSpace - 1
      BY <2>2, <2>3, <1>4
    <2> QED BY <2>1, <2>4, <1>2, <1>6 DEF S
  <1> QED BY <1>5, <1>6

(* The ranges of two threads do not meet. *)
LEMMA OwnDisjoint ==
    ASSUME NEW j \in NonceJobs, NEW t \in Workers, NEW u \in Workers, t # u
    PROVE  Own(j, t) \cap Own(j, u) = {}
  <1>1. ASSUME NEW a \in Workers, NEW b \in Workers, a < b
        PROVE  First(j, a) + Share(j) <= First(j, b)
    <2>1. a \in Nat /\ b \in Nat
      BY NoncesAssumption DEF Workers
    <2>2. Share(j) \in Nat
      BY SharesFit
    <2>3. /\ Share(j) * a \in Nat /\ Share(j) * b \in Nat
          /\ Share(j) * a + Share(j) <= Share(j) * b
      BY <2>1, <2>2, <1>1, Grows
    <2> DEFINE P == IF j.nicehash THEN Prefix(j.nonce) ELSE 0
               A == Share(j) * a  B == Share(j) * b  S == Share(j)
    <2>4. P \in Nat /\ First(j, a) = P + A /\ First(j, b) = P + B
      BY NoncesAssumption DEF First
    <2>5. A \in Nat /\ B \in Nat /\ S \in Nat /\ A + S <= B
      BY <2>2, <2>3
    <2> HIDE DEF P, A, B, S
    <2>6. P + A + S <= P + B
      BY <2>4, <2>5
    <2> QED BY <2>4, <2>6 DEF S
  <1>2. t \in Int /\ u \in Int
    BY NoncesAssumption DEF Workers
  <1>3. /\ First(j, t) \in Nat /\ First(j, u) \in Nat /\ Share(j) \in Nat
    BY OwnFits
  <1>4. First(j, t) + Share(j) <= First(j, u) \/ First(j, u) + Share(j) <= First(j, t)
    <2>1. CASE t < u
      BY <1>1, <2>1
    <2>2. CASE u < t
      BY <1>1, <2>2
    <2> QED BY <1>2, <2>1, <2>2
  <1> QED BY <1>3, <1>4 DEF Own

-----------------------------------------------------------------------------
LEMMA InitNonces == NoncesInit => NoncesInv
  <1> SUFFICES ASSUME NoncesInit PROVE NoncesInv
    OBVIOUS
  <1> USE DEF NoncesInit
  <1>1. NoncesTypes
    BY DEF NoncesTypes
  <1>2. ASSUME NEW t \in Workers PROVE NextOwn(t) /\ Paused(t) /\ Fresh(t)
    <2>1. m_job[t] = EmptyJob /\ m_pausedJob[t] = EmptyJob /\ EmptyJob.id = ""
      BY DEF EmptyJob
    <2>2. EmptyJob \notin NonceJobs
      BY <2>1, EmptyIdAssumption
    <2> QED BY <2>1, <2>2 DEF NextOwn, Paused, Fresh
  <1>3. ASSUME NEW t \in Workers, NEW j \in NonceJobs PROVE InShare(t, j)
    BY SharesFit DEF InShare
  <1> QED BY <1>1, <1>2, <1>3 DEF NoncesInv

(* A batch that stays in the share lies in the thread's own range. *)
LEMMA BatchOwn ==
    ASSUME NEW j \in NonceJobs, NEW t \in Workers, NEW done \in Nat, NEW size \in Nat,
           done + size <= Share(j)
    PROVE  /\ {(First(j, t) + done + k) % NonceSpace : k \in 0..size - 1} \subseteq Own(j, t)
           /\ (First(j, t) + done + size) % NonceSpace = First(j, t) + done + size
  <1>1. /\ First(j, t) \in Nat /\ Share(j) \in Nat /\ NonceSpace \in Nat
        /\ First(j, t) + Share(j) <= NonceSpace - 1
    BY OwnFits, NoncesAssumption
  <1>2. ASSUME NEW n \in Nat, n <= NonceSpace - 1 PROVE n % NonceSpace = n
    BY <1>1, <1>2
  <1> DEFINE F == First(j, t)  S == Share(j)
  <1>3. F \in Nat /\ S \in Nat /\ F + S <= NonceSpace - 1 /\ done + size <= S /\ Own(j, t) = F..(F + S - 1)
    BY <1>1 DEF Own
  <1> HIDE DEF F, S
  <1>4. ASSUME NEW k \in 0..size - 1
        PROVE  (F + done + k) % NonceSpace \in F..(F + S - 1)
    <2>1. F + done + k \in Nat /\ F + done + k <= F + S - 1 /\ F + done + k <= NonceSpace - 1
          /\ F <= F + done + k
      BY <1>1, <1>3
    <2>2. (F + done + k) % NonceSpace = F + done + k
      BY <2>1, <1>2
    <2> QED BY <2>1, <2>2, <1>3
  <1>5. F + done + size \in Nat /\ F + done + size <= NonceSpace - 1
    BY <1>1, <1>3
  <1>6. (F + done + size) % NonceSpace = F + done + size
    BY <1>5, <1>2
  <1> QED BY <1>3, <1>4, <1>6 DEF F

(* What is not touched of a thread's state is as good as before. *)
LEMMA Untouched ==
    ASSUME NoncesInv, NEW t \in Workers,
           m_job'[t] = m_job[t], m_pausedJob'[t] = m_pausedJob[t], m_nonce'[t] = m_nonce[t],
           m_pausedNonce'[t] = m_pausedNonce[t], begun'[t] = begun[t], hashed'[t] = hashed[t],
           long'[t] = long[t]
    PROVE  NextOwn(t)' /\ Paused(t)' /\ Fresh(t)' /\ \A j \in NonceJobs : InShare(t, j)'
  <1>1. NextOwn(t) /\ Paused(t) /\ Fresh(t) /\ \A j \in NonceJobs : InShare(t, j)
    BY DEF NoncesInv
  <1> QED BY <1>1 DEF NextOwn, Paused, Fresh, InShare

LEMMA GiveNonces == ASSUME NoncesInv, NEW j \in NonceJobs, Give(j) PROVE NoncesInv'
  <1>1. NoncesTypes'
    BY DEF NoncesInv, NoncesTypes, Give
  <1>2. \A t \in Workers : NextOwn(t)' /\ Paused(t)' /\ Fresh(t)' /\ \A i \in NonceJobs : InShare(t, i)'
    BY Untouched DEF Give
  <1> QED BY <1>1, <1>2 DEF NoncesInv

(* The jobs of the user and of the donation are told apart. *)
LEMMA Owners ==
    ASSUME NoncesInv, NEW t \in Workers
    PROVE  /\ m_job[t] \in NonceJobs \/ m_job[t] = EmptyJob
           /\ m_pausedJob[t] \in NonceJobs => m_pausedJob[t].poolId # -1
           /\ m_pausedJob[t] \in NonceJobs \/ m_pausedJob[t] = EmptyJob
           /\ EmptyJob \notin NonceJobs /\ EmptyJob.poolId = -2 /\ EmptyJob.id = ""
  <1>1. EmptyJob.poolId = -2 /\ EmptyJob.id = ""
    BY DEF EmptyJob
  <1>2. EmptyJob \notin NonceJobs
    BY <1>1, EmptyIdAssumption
  <1>3. m_job[t] \in NonceJobs \cup {EmptyJob} /\ m_pausedJob[t] \in UserJobs \cup {EmptyJob}
    BY DEF NoncesInv, NoncesTypes
  <1>4. ASSUME NEW j \in NonceJobs, j.poolId >= 0 PROVE j.poolId # -1
    BY <1>4, NoncesAssumption
  <1> QED BY <1>1, <1>2, <1>3, <1>4 DEF UserJobs

LEMMA ResumeNonces == ASSUME NoncesInv, NEW t \in Workers, Resume(t) PROVE NoncesInv'
  <1> USE DEF Resume
  <1>1. m_pausedJob[t] \in NonceJobs
    <2>1. given.id # ""
      BY EmptyIdAssumption DEF NoncesInv, NoncesTypes
    <2> QED BY <2>1, Owners DEF CanResume
  <1>2. NoncesTypes'
    BY <1>1 DEF NoncesInv, NoncesTypes
  <1>3. ASSUME NEW u \in Workers
        PROVE  NextOwn(u)' /\ Paused(u)' /\ Fresh(u)' /\ \A j \in NonceJobs : InShare(u, j)'
    <2>1. CASE u # t
      BY <2>1, Untouched DEF NoncesInv, NoncesTypes
    <2>2. CASE u = t
      <3>1. m_job'[t] = m_pausedJob[t] /\ m_nonce'[t] = m_pausedNonce[t]
        BY DEF NoncesInv, NoncesTypes
      <3>2. NextOwn(t)'
        <4>1. Paused(t) /\ m_job[t].poolId = -1
          BY DEF NoncesInv, CanResume
        <4> QED BY <1>1, <3>1, <4>1 DEF NextOwn, Paused
      <3>3. Paused(t)'
        BY <1>1, <3>1, Owners DEF Paused
      <3>4. Fresh(t)'
        BY <1>1, <3>1, Owners DEF Fresh
      <3>5. \A j \in NonceJobs : InShare(t, j)'
        BY DEF NoncesInv, InShare
      <3> QED BY <2>2, <3>2, <3>3, <3>4, <3>5
    <2> QED BY <2>1, <2>2
  <1> QED BY <1>2, <1>3 DEF NoncesInv

LEMMA BeginNonces == ASSUME NoncesInv, NEW t \in Workers, Begin(t) PROVE NoncesInv'
  <1> USE DEF Begin
  <1>1. given \in NonceJobs /\ First(given, t) \in Nat
        /\ First(given, t) % NonceSpace = First(given, t)
    <2>1. given \in NonceJobs
      BY DEF NoncesInv, NoncesTypes
    <2>2. 0 + 0 <= Share(given) /\ First(given, t) \in Nat
      BY <2>1, OwnFits
    <2>3. (First(given, t) + 0 + 0) % NonceSpace = First(given, t) + 0 + 0
      BY <2>1, <2>2, BatchOwn
    <2> QED BY <2>1, <2>2, <2>3
  <1>2. CASE given.poolId = -1 /\ m_job[t].poolId >= 0
    <2>1. m_job[t] \in UserJobs
      <3>1. m_job[t] # EmptyJob
        <4>1. EmptyJob.poolId = -2
          BY Owners
        <4>2. ~(EmptyJob.poolId >= 0)
          BY <4>1
        <4> QED BY <1>2, <4>2
      <3>2. m_job[t] \in NonceJobs
        BY <3>1, Owners
      <3> QED BY <1>2, <3>2 DEF UserJobs
    <2>2. /\ m_pausedJob' = [m_pausedJob EXCEPT ![t] = m_job[t]]
          /\ m_pausedNonce' = [m_pausedNonce EXCEPT ![t] = m_nonce[t]]
      BY <1>2 DEF Save
    <2>3. NoncesTypes'
      BY <1>1, <2>1, <2>2 DEF NoncesInv, NoncesTypes
    <2>4. ASSUME NEW u \in Workers
          PROVE  NextOwn(u)' /\ Paused(u)' /\ Fresh(u)' /\ \A j \in NonceJobs : InShare(u, j)'
      <3>1. CASE u # t
        BY <2>2, <3>1, Untouched DEF NoncesInv, NoncesTypes
      <3>2. CASE u = t
        <4>1. /\ m_job'[t] = given /\ m_nonce'[t] = First(given, t) /\ begun'[t][given] = 0
              /\ m_pausedJob'[t] = m_job[t] /\ m_pausedNonce'[t] = m_nonce[t]
              /\ \A j \in NonceJobs \ {given} : begun'[t][j] = begun[t][j]
              /\ UNCHANGED <<hashed, long>>
          BY <1>1, <2>2 DEF NoncesInv, NoncesTypes
        <4>2. NextOwn(t)'
          BY <1>1, <4>1 DEF NextOwn
        <4>3. Paused(t)'
          <5>1. m_job[t] \in NonceJobs \ {given}
            BY <1>2, <2>1, NoncesAssumption DEF UserJobs
          <5>2. NextOwn(t)
            BY DEF NoncesInv
          <5> QED BY <4>1, <5>1, <5>2 DEF NextOwn, Paused
        <4>4. Fresh(t)'
          BY <1>1, <4>1, Owners DEF Fresh
        <4>5. ASSUME NEW j \in NonceJobs PROVE InShare(t, j)'
          BY <4>1, SharesFit DEF NoncesInv, InShare
        <4> QED BY <3>2, <4>2, <4>3, <4>4, <4>5
      <3> QED BY <3>1, <3>2
    <2> QED BY <2>3, <2>4 DEF NoncesInv
  <1>3. CASE ~(given.poolId = -1 /\ m_job[t].poolId >= 0)
    <2>1. UNCHANGED <<m_pausedJob, m_pausedNonce>>
      BY <1>3 DEF Save
    <2>2. NoncesTypes'
      BY <1>1, <2>1 DEF NoncesInv, NoncesTypes
    <2>3. ASSUME NEW u \in Workers
          PROVE  NextOwn(u)' /\ Paused(u)' /\ Fresh(u)' /\ \A j \in NonceJobs : InShare(u, j)'
      <3>1. CASE u # t
        BY <2>1, <3>1, Untouched DEF NoncesInv, NoncesTypes
      <3>2. CASE u = t
        <4>1. /\ m_job'[t] = given /\ m_nonce'[t] = First(given, t) /\ begun'[t][given] = 0
              /\ \A j \in NonceJobs \ {given} : begun'[t][j] = begun[t][j]
              /\ UNCHANGED <<hashed, long>>
          BY <1>1 DEF NoncesInv, NoncesTypes
        <4>2. NextOwn(t)'
          BY <1>1, <4>1 DEF NextOwn
        <4>3. Paused(t)'
          <5> SUFFICES ASSUME given.poolId = -1, m_pausedJob[t] \in NonceJobs, ~long[t][m_pausedJob[t]]
                       PROVE  m_pausedNonce[t] = First(m_pausedJob[t], t) + begun'[t][m_pausedJob[t]]
            BY <2>1, <4>1 DEF Paused
          <5>1. m_pausedJob[t] \in NonceJobs \ {given}
            BY Owners
          <5>2. m_job[t].poolId = -1
            <6>1. m_job[t] # EmptyJob
              BY Owners DEF NoncesInv, Fresh
            <6>2. m_job[t] \in NonceJobs
              BY <6>1, Owners
            <6>3. m_job[t].poolId \in Int /\ m_job[t].poolId >= -1
              BY <6>2, NoncesAssumption
            <6>4. ~(m_job[t].poolId >= 0)
              BY <1>3
            <6> QED BY <6>3, <6>4
          <5>3. Paused(t)
            BY DEF NoncesInv
          <5> QED BY <4>1, <5>1, <5>2, <5>3 DEF Paused
        <4>4. Fresh(t)'
          BY <1>1, <4>1, Owners DEF Fresh
        <4>5. ASSUME NEW j \in NonceJobs PROVE InShare(t, j)'
          BY <4>1, SharesFit DEF NoncesInv, InShare
        <4> QED BY <3>2, <4>2, <4>3, <4>4, <4>5
      <3> QED BY <3>1, <3>2
    <2> QED BY <2>2, <2>3 DEF NoncesInv
  <1> QED BY <1>2, <1>3

LEMMA HashNonces == ASSUME NoncesInv, NEW t \in Workers, HashBatch(t) PROVE NoncesInv'
  <1> DEFINE j == m_job[t]  size == BatchSize[t]  done == begun[t][j]
             taken == {(m_nonce[t] + k) % NonceSpace : k \in 0..size - 1}
  <1>1. j \in NonceJobs /\ size \in Nat /\ done \in Nat /\ NonceSpace \in Nat \ {0}
        /\ m_nonce[t] \in Nat /\ long[t][j] \in BOOLEAN
    <2>1. m_job[t] \in NonceJobs /\ m_nonce[t] \in Nat
      BY DEF HashBatch, NoncesInv, NoncesTypes
    <2>2. begun[t] \in [NonceJobs -> Nat] /\ long[t] \in [NonceJobs -> BOOLEAN]
      BY DEF NoncesInv, NoncesTypes
    <2>3. size \in Nat /\ NonceSpace \in Nat \ {0}
      BY NoncesAssumption
    <2> QED BY <2>1, <2>2, <2>3
  <1>2. /\ hashed'[t][j] = hashed[t][j] \cup taken
        /\ m_nonce'[t] = (m_nonce[t] + size) % NonceSpace
        /\ begun'[t][j] = done + size
        /\ long'[t][j] = (long[t][j] \/ done + size > Share(j))
    BY <1>1 DEF HashBatch, NoncesInv, NoncesTypes
  <1>3. /\ \A i \in NonceJobs \ {j} : /\ hashed'[t][i] = hashed[t][i] /\ begun'[t][i] = begun[t][i]
                                       /\ long'[t][i] = long[t][i]
        /\ UNCHANGED <<given, m_job, m_pausedJob, m_pausedNonce>>
        /\ \A u \in Workers \ {t} : /\ hashed'[u] = hashed[u] /\ begun'[u] = begun[u]
                                    /\ long'[u] = long[u] /\ m_nonce'[u] = m_nonce[u]
    BY <1>1 DEF HashBatch, NoncesInv, NoncesTypes
  <1>4. NoncesTypes'
    <2>1. taken \in SUBSET Nat /\ (m_nonce[t] + size) % NonceSpace \in Nat /\ done + size \in Nat
      BY <1>1
    <2>2. (long[t][j] \/ done + size > Share(j)) \in BOOLEAN
      OBVIOUS
    <2>3. /\ hashed' \in [Workers -> [NonceJobs -> SUBSET Nat]]
          /\ m_nonce' \in [Workers -> Nat]
          /\ begun' \in [Workers -> [NonceJobs -> Nat]]
      BY <1>1, <2>1 DEF HashBatch, NoncesInv, NoncesTypes
    <2>4. long' \in [Workers -> [NonceJobs -> BOOLEAN]]
      BY <1>1, <2>2 DEF HashBatch, NoncesInv, NoncesTypes
    <2> QED BY <1>3, <2>3, <2>4 DEF NoncesInv, NoncesTypes
  <1>5. ASSUME ~long'[t][j]
        PROVE  /\ ~long[t][j] /\ done + size <= Share(j) /\ done <= Share(j)
               /\ m_nonce[t] = First(j, t) + done
               /\ taken \subseteq Own(j, t)
               /\ (m_nonce[t] + size) % NonceSpace = First(j, t) + (done + size)
    <2>1. Share(j) \in Nat /\ First(j, t) \in Nat
      BY <1>1, OwnFits
    <2>2. ~long[t][j] /\ ~(done + size > Share(j))
      BY <1>2, <1>5
    <2>3. done + size <= Share(j) /\ done <= Share(j)
      BY <1>1, <2>1, <2>2
    <2>4. m_nonce[t] = First(j, t) + done
      BY <1>1, <2>2 DEF NoncesInv, NextOwn
    <2>5. /\ taken \subseteq Own(j, t)
          /\ (First(j, t) + done + size) % NonceSpace = First(j, t) + done + size
      BY <1>1, <2>3, <2>4, BatchOwn
    <2>6. First(j, t) + done + size = First(j, t) + (done + size)
      BY <1>1, <2>1
    <2> QED BY <2>2, <2>3, <2>4, <2>5, <2>6
  <1> HIDE DEF size, done, taken
  <1>6. ASSUME NEW u \in Workers
        PROVE  NextOwn(u)' /\ Paused(u)' /\ Fresh(u)' /\ \A i \in NonceJobs : InShare(u, i)'
    <2>1. CASE u # t
      BY <1>3, <2>1, Untouched
    <2>2. CASE u = t
      <3>1. m_job'[t] = j /\ m_pausedJob'[t] = m_pausedJob[t] /\ m_pausedNonce'[t] = m_pausedNonce[t]
        BY <1>3
      <3>2. NextOwn(t)'
        BY <1>2, <1>5, <3>1 DEF NextOwn
      <3>3. Paused(t)'
        <4> SUFFICES ASSUME m_job[t].poolId = -1, m_pausedJob[t] \in NonceJobs,
                            ~long'[t][m_pausedJob[t]]
                     PROVE  m_pausedNonce[t] = First(m_pausedJob[t], t) + begun'[t][m_pausedJob[t]]
          BY <3>1 DEF Paused
        <4>1. m_pausedJob[t] \in NonceJobs \ {j}
          BY Owners
        <4>2. Paused(t)
          BY DEF NoncesInv
        <4> QED BY <1>3, <4>1, <4>2 DEF Paused
      <3>4. Fresh(t)'
        BY <1>1, <3>1, Owners DEF Fresh
      <3>5. ASSUME NEW i \in NonceJobs PROVE InShare(t, i)'
        <4>1. InShare(t, i)
          BY DEF NoncesInv
        <4>2. CASE i = j
          BY <1>2, <1>5, <4>1, <4>2 DEF InShare
        <4>3. CASE i # j
          BY <1>3, <4>1, <4>3 DEF InShare
        <4> QED BY <4>2, <4>3
      <3> QED BY <2>2, <3>2, <3>3, <3>4, <3>5
    <2> QED BY <2>1, <2>2
  <1> QED BY <1>4, <1>6 DEF NoncesInv

-----------------------------------------------------------------------------
(* A batch begins where the thread's last one ended, in all behaviours.      *)
THEOREM NoncesInvariance == NoncesSpec => []NoncesInv
  <1>1. NoncesInv /\ [NoncesNext]_nonceVars => NoncesInv'
    <2> SUFFICES ASSUME NoncesInv, [NoncesNext]_nonceVars PROVE NoncesInv'
      OBVIOUS
    <2>1. CASE \E j \in NonceJobs : Give(j)
      BY <2>1, GiveNonces
    <2>2. ASSUME NEW t \in Workers, Resume(t) PROVE NoncesInv'
      BY <2>2, ResumeNonces
    <2>3. ASSUME NEW t \in Workers, Begin(t) PROVE NoncesInv'
      BY <2>3, BeginNonces
    <2>4. ASSUME NEW t \in Workers, HashBatch(t) PROVE NoncesInv'
      BY <2>4, HashNonces
    <2>5. CASE UNCHANGED nonceVars
      BY <2>5 DEF nonceVars, NoncesInv, NoncesTypes, NextOwn, Paused, Fresh, InShare
    <2> QED BY <2>1, <2>2, <2>3, <2>4, <2>5 DEF NoncesNext
  <1> QED BY InitNonces, <1>1, PTL DEF NoncesSpec

(* No two cards hash the same nonce of a job that outlasts the share of      *)
(* neither: CudaWorker::consumeJob, save and resume, for any number of       *)
(* threads, any sizes of their batches and any jobs.                         *)
THEOREM Disjoint == NoncesSpec => []NoncesDisjoint
  <1>1. NoncesInv => NoncesDisjoint
    <2> SUFFICES ASSUME NoncesInv, NEW t \in Workers, NEW u \in Workers, NEW j \in NonceJobs,
                        t # u, ~long[t][j], ~long[u][j]
                 PROVE  hashed[t][j] \cap hashed[u][j] = {}
      BY DEF NoncesDisjoint
    <2>1. hashed[t][j] \subseteq Own(j, t) /\ hashed[u][j] \subseteq Own(j, u)
      BY DEF NoncesInv, InShare
    <2> QED BY <2>1, OwnDisjoint
  <1> QED BY NoncesInvariance, <1>1, PTL

(* No card leaves the nonces that a pool of NiceHash fixed for this miner,   *)
(* with the same exception.                                                  *)
THEOREM KeepsPrefix == NoncesSpec => []PrefixKept
  <1>1. NoncesInv => PrefixKept
    <2> SUFFICES ASSUME NoncesInv, NEW t \in Workers, NEW j \in NonceJobs, j.nicehash, ~long[t][j],
                        NEW n \in hashed[t][j]
                 PROVE  Prefix(j.nonce) <= n /\ n < Prefix(j.nonce) + FreeSpace
      BY DEF PrefixKept
    <2>1. n \in Own(j, t)
      BY DEF NoncesInv, InShare
    <2>2. /\ First(j, t) \in Nat /\ Share(j) \in Nat /\ Prefix(j.nonce) <= First(j, t)
          /\ First(j, t) + Share(j) <= Prefix(j.nonce) + FreeSpace - 1
      BY OwnFits
    <2>3. Prefix(j.nonce) \in Nat /\ FreeSpace \in Nat
      BY NoncesAssumption
    <2> HIDE DEF Prefix
    <2>4. n \in Nat /\ First(j, t) <= n /\ n <= First(j, t) + Share(j) - 1
      BY <2>1, <2>2 DEF Own
    <2> QED BY <2>2, <2>3, <2>4
  <1> QED BY NoncesInvariance, <1>1, PTL

(* Each card keeps to nonces of its own: those of no other card, and of a    *)
(* NiceHash job none that the pool gave to others.                           *)
THEOREM KeepsToOwn == NoncesSpec => []OwnNonces
  BY Disjoint, KeepsPrefix, PTL DEF OwnNonces

-----------------------------------------------------------------------------
(* Programs.                                                               *)

Wanting == {"lookup", "evict", "build", "compile"}

(* The programs that can be asked for: at most one block ahead of the chain. *)
Soon == {p \in Programs : p.height <= tip[p.variant] + 1}

Reached == {k \in Kernels : k.height <= tip[k.variant]}

(* A builder that searches or compiles knows what it wants; who compiles     *)
(* holds the lock, and has not found the program.                            *)
Wants(b)  == pc[b] \in Wanting => program[b] \in Soon
Locked(b) == pc[b] = "compile" => builder = b /\ cache[program[b]] = 0

(* A GPU thread wants the program of its job, gets that or none, and mines   *)
(* with it.                                                                  *)
Wanted(g) == pc[g] \in Wanting => job[g] \in Reached /\ program[g] = For(job[g], Arch[g])
Got(g)    == pc[g] = "load" => job[g] \in Reached /\ ptx[g] \in {NoProgram, For(job[g], Arch[g])}
Mines(g)  == pc[g] = "hash" /\ kernel[g] # NoKernel =>
                 kernel[g] = job[g] /\ module[g] = For(job[g], Arch[g])

ProgramsInv ==
    /\ TypeOK
    /\ tasks \in Seq(Soon) /\ batch \in Seq(Soon)
    /\ \A b \in Builders : Wants(b) /\ Locked(b)
    /\ \A g \in Threads : Wanted(g) /\ Got(g) /\ Mines(g)
    /\ CompiledOnce

-----------------------------------------------------------------------------
LEMMA SeqGrows ==
    ASSUME NEW S, NEW T, S \subseteq T, NEW s \in Seq(S)
    PROVE  s \in Seq(T)
  OBVIOUS

(* The background thread is not one of the GPU threads. *)
LEMMA Apart ==
    /\ Background \in Builders /\ Threads \subseteq Builders
    /\ Background \notin Threads /\ "nobody" \notin Builders
  BY ProgramsAssumption DEF Background, Builders

(* The program of a kernel on a card. *)
LEMMA ForTyped ==
    ASSUME NEW k \in Kernels, NEW g \in Threads
    PROVE  /\ For(k, Arch[g]) \in Programs
           /\ For(k, Arch[g]).height = k.height /\ For(k, Arch[g]).variant = k.variant
           /\ k.height \in Nat /\ k.variant \in Variants
  BY ProgramsAssumption DEF For, Kernels, Programs, Archs

(* What is found is the program that was looked for. *)
LEMMA FoundIsIt ==
    ASSUME NEW p \in Programs, NEW e \in Found(p)
    PROVE  e = p
  BY DEF Found, Matches, Programs

LEMMA NotFound ==
    ASSUME cache \in [Programs -> Nat], NEW p \in Programs, Found(p) = {}
    PROVE  cache[p] = 0
  BY DEF Found, Matches

LEMMA NothingYet == NoKernel \notin Kernels /\ NoProgram \notin Programs
  BY DEF NoKernel, Kernels, NoProgram, Programs

-----------------------------------------------------------------------------
LEMMA InitPrograms == Init => ProgramsInv
  <1> SUFFICES ASSUME Init PROVE ProgramsInv
    OBVIOUS
  <1> USE DEF Init
  <1>1. TypeOK
    <2>1. 1 \in 1..MaxHeight
      BY ProgramsAssumption
    <2>2. tasks \in Seq(Programs) /\ batch \in Seq(Programs)
      BY EmptySeq
    <2>3. pc \in [Builders -> {"hash", "sleep", "lookup", "evict", "build", "compile", "load", "crashed"}]
      OBVIOUS
    <2> QED BY <2>1, <2>2, <2>3 DEF TypeOK
  <1>2. tasks \in Seq(Soon) /\ batch \in Seq(Soon)
    BY EmptySeq
  <1>3. \A b \in Builders : Wants(b) /\ Locked(b)
    BY DEF Wants, Locked, Wanting
  <1>4. \A g \in Threads : Wanted(g) /\ Got(g) /\ Mines(g)
    BY Apart DEF Wanted, Got, Mines, Wanting
  <1>5. CompiledOnce
    BY DEF CompiledOnce
  <1> QED BY <1>1, <1>2, <1>3, <1>4, <1>5 DEF ProgramsInv

LEMMA ExtendInv == ASSUME ProgramsInv, NEW v \in Variants, Extend(v) PROVE ProgramsInv'
  <1> USE DEF Extend, buildVars, gpuVars, taskVars
  <1>1. tip' \in [Variants -> 1..MaxHeight] /\ \A w \in Variants : tip'[w] >= tip[w] /\ tip[w] \in Nat
    BY ProgramsAssumption DEF ProgramsInv, TypeOK
  <1>2. TypeOK'
    BY <1>1 DEF ProgramsInv, TypeOK
  <1>3. Soon \subseteq Soon' /\ Reached \subseteq Reached'
    <2>1. ASSUME NEW p \in Soon PROVE p \in Soon'
      <3>1. p \in Programs /\ p.variant \in Variants /\ p.height \in Nat /\ p.height <= tip[p.variant] + 1
        BY ProgramsAssumption DEF Soon, Programs
      <3>2. tip[p.variant] + 1 <= tip'[p.variant] + 1 /\ tip'[p.variant] \in Nat /\ tip[p.variant] \in Nat
        BY <1>1, <3>1
      <3> QED BY <3>1, <3>2 DEF Soon
    <2>2. ASSUME NEW k \in Reached PROVE k \in Reached'
      <3>1. k \in Kernels /\ k.variant \in Variants /\ k.height \in Nat /\ k.height <= tip[k.variant]
        BY ProgramsAssumption DEF Reached, Kernels
      <3>2. tip[k.variant] <= tip'[k.variant] /\ tip'[k.variant] \in Nat /\ tip[k.variant] \in Nat
        BY <1>1, <3>1
      <3> QED BY <3>1, <3>2 DEF Reached
    <2> QED BY <2>1, <2>2
  <1>4. (tasks \in Seq(Soon) /\ batch \in Seq(Soon))'
    BY <1>3, SeqGrows DEF ProgramsInv
  <1>5. \A b \in Builders : (Wants(b) /\ Locked(b))'
    BY <1>3 DEF ProgramsInv, Wants, Locked
  <1>6. \A g \in Threads : (Wanted(g) /\ Got(g) /\ Mines(g))'
    BY <1>3 DEF ProgramsInv, Wanted, Got, Mines
  <1>7. CompiledOnce'
    BY DEF ProgramsInv, CompiledOnce
  <1> QED BY <1>2, <1>4, <1>5, <1>6, <1>7 DEF ProgramsInv

(* What a step does not touch of a builder is as good as before, while       *)
(* nothing is added to the cache.                                            *)
LEMMA OthersKeep ==
    ASSUME ProgramsInv, NEW b \in Builders, UNCHANGED tip,
           pc'[b] = pc[b], program'[b] = program[b], builder' = builder \/ pc[b] # "compile",
           \A p \in Programs : cache'[p] = cache[p] \/ cache'[p] = 0
    PROVE  /\ (Wants(b) /\ Locked(b))'
           /\ b \in Threads /\ UNCHANGED <<job[b], ptx[b], kernel[b], module[b]>> =>
                  (Wanted(b) /\ Got(b) /\ Mines(b))'
  <1>1. Soon' = Soon /\ Reached' = Reached
    BY DEF Soon, Reached
  <1>2. Wants(b) /\ Locked(b)
    BY DEF ProgramsInv
  <1>3. pc[b] = "compile" => program[b] \in Programs
    BY <1>2 DEF Wants, Wanting, Soon
  <1>4. (Wants(b) /\ Locked(b))'
    BY <1>1, <1>2, <1>3 DEF Wants, Locked
  <1>5. ASSUME b \in Threads, UNCHANGED <<job[b], ptx[b], kernel[b], module[b]>>
        PROVE  (Wanted(b) /\ Got(b) /\ Mines(b))'
    BY <1>1, <1>5 DEF ProgramsInv, Wanted, Got, Mines
  <1> QED BY <1>4, <1>5

-----------------------------------------------------------------------------
(* The GPU threads between two batches. *)

LEMMA HashInv == ASSUME ProgramsInv, NEW g \in Threads, Hash(g) PROVE ProgramsInv'
  <1>0. PICK v \in Variants : \E h \in Announced(v) :
          /\ job' = [job EXCEPT ![g] = [variant |-> v, height |-> h]]
          /\ program' = [program EXCEPT ![g] = For([variant |-> v, height |-> h], Arch[g])]
    BY DEF Hash
  <1>1. PICK h \in Announced(v) :
          /\ job' = [job EXCEPT ![g] = [variant |-> v, height |-> h]]
          /\ program' = [program EXCEPT ![g] = For([variant |-> v, height |-> h], Arch[g])]
    BY <1>0
  <1> DEFINE k == [variant |-> v, height |-> h]
  <1>2. h \in 1..MaxHeight + 1 /\ h <= tip[v] /\ tip[v] \in Nat
    <2>1. tip[v] \in 1..MaxHeight /\ MaxHeight \in Nat
      BY ProgramsAssumption DEF ProgramsInv, TypeOK
    <2>2. h = tip[v] \/ (h = tip[v] - 1 /\ h # 0)
      BY DEF Announced
    <2> QED BY <2>1, <2>2
  <1>3. k \in Kernels /\ k \in Reached /\ For(k, Arch[g]) \in Soon
    <2>1. k \in Kernels /\ k.height = h /\ k.variant = v
      BY <1>2 DEF Kernels
    <2> QED BY <1>2, <2>1, ForTyped DEF Reached, Soon
  <1>4. /\ job' = [job EXCEPT ![g] = k] /\ program' = [program EXCEPT ![g] = For(k, Arch[g])]
        /\ module' = [module EXCEPT ![g] = NoProgram] /\ pc' = [pc EXCEPT ![g] = "lookup"]
        /\ UNCHANGED <<tip, ptx, kernel, cache, builder, tasks, batch>> /\ pc[g] = "hash"
    BY <1>1 DEF Hash, Goto, taskVars
  <1> HIDE DEF k
  <1>5. g \in Builders /\ Soon' = Soon /\ Reached' = Reached
    BY <1>4, Apart DEF Soon, Reached
  <1>6. TypeOK'
    <2>1. For(k, Arch[g]) \in Programs
      BY <1>3 DEF Soon
    <2> QED BY <1>3, <1>4, <1>5, <2>1 DEF ProgramsInv, TypeOK
  <1>7. ASSUME NEW b \in Builders
        PROVE  (Wants(b) /\ Locked(b))' /\ (b \in Threads => (Wanted(b) /\ Got(b) /\ Mines(b))')
    <2>1. CASE b = g
      <3>1. /\ pc'[g] = "lookup" /\ program'[g] = For(k, Arch[g]) /\ job'[g] = k
        BY <1>4, <1>5 DEF ProgramsInv, TypeOK
      <3> QED BY <1>3, <1>5, <2>1, <3>1 DEF Wants, Locked, Wanted, Got, Mines
    <2>2. CASE b # g
      <3>1. /\ pc'[b] = pc[b] /\ program'[b] = program[b]
            /\ b \in Threads => UNCHANGED <<job[b], ptx[b], kernel[b], module[b]>>
        BY <1>4, <2>2 DEF ProgramsInv, TypeOK
      <3> QED BY <1>4, <3>1, OthersKeep
    <2> QED BY <2>1, <2>2
  <1>8. CompiledOnce' /\ (tasks \in Seq(Soon) /\ batch \in Seq(Soon))'
    BY <1>4, <1>5 DEF ProgramsInv, CompiledOnce
  <1> QED BY <1>6, <1>7, <1>8, Apart DEF ProgramsInv

LEMMA LoadInv == ASSUME ProgramsInv, NEW g \in Threads, Load(g) PROVE ProgramsInv'
  <1>1. /\ UNCHANGED <<tip, program, cache, builder, job, batch>> /\ pc[g] = "load"
        /\ ptx' = [ptx EXCEPT ![g] = NoProgram] /\ g \in Builders
    BY Apart DEF Load
  <1>2. Soon' = Soon /\ Reached' = Reached
    BY <1>1 DEF Soon, Reached
  <1>3. /\ job[g] \in Reached /\ ptx[g] \in {NoProgram, For(job[g], Arch[g])}
        /\ job[g] \in Kernels /\ Mines(g) /\ TypeOK
    BY <1>1 DEF ProgramsInv, Got, Reached
  <1>4. CASE ptx[g] = NoProgram /\ pc' = [pc EXCEPT ![g] = "crashed"] /\ UNCHANGED <<module, kernel, tasks>>
    <2>1. TypeOK'
      BY <1>1, <1>4 DEF ProgramsInv, TypeOK
    <2>2. ASSUME NEW b \in Builders
          PROVE  (Wants(b) /\ Locked(b))' /\ (b \in Threads => (Wanted(b) /\ Got(b) /\ Mines(b))')
      <3>1. CASE b = g
        <4>1. pc'[g] = "crashed"
          BY <1>1, <1>4 DEF ProgramsInv, TypeOK
        <4> QED BY <3>1, <4>1 DEF Wants, Locked, Wanted, Got, Mines, Wanting
      <3>2. CASE b # g
        <4>1. /\ pc'[b] = pc[b] /\ program'[b] = program[b]
              /\ b \in Threads => UNCHANGED <<job[b], ptx[b], kernel[b], module[b]>>
          BY <1>1, <1>4, <3>2 DEF ProgramsInv, TypeOK
        <4> QED BY <1>1, <4>1, OthersKeep
      <3> QED BY <3>1, <3>2
    <2>3. CompiledOnce' /\ (tasks \in Seq(Soon) /\ batch \in Seq(Soon))'
      BY <1>1, <1>2, <1>4 DEF ProgramsInv, CompiledOnce
    <2> QED BY <2>1, <2>2, <2>3, Apart DEF ProgramsInv
  <1>5. CASE /\ ptx[g] # NoProgram
             /\ module' = [module EXCEPT ![g] = ptx[g]]
             /\ kernel' = [kernel EXCEPT ![g] = job[g]]
             /\ Enqueue([For(job[g], Arch[g]) EXCEPT !.height = @ + 1])
             /\ pc' = [pc EXCEPT ![g] = "hash"]
    <2> DEFINE own == For(job[g], Arch[g])  next == [own EXCEPT !.height = @ + 1]
    <2>1. /\ own \in Programs /\ own.height = job[g].height /\ own.variant = job[g].variant
          /\ job[g].height \in Nat /\ job[g].variant \in Variants
      BY <1>3, ForTyped
    <2>2. /\ tip[job[g].variant] \in 1..MaxHeight /\ job[g].height <= tip[job[g].variant]
          /\ MaxHeight \in Nat /\ job[g].height \in 1..MaxHeight + 1
      BY <1>3, <2>1, ProgramsAssumption DEF Reached, TypeOK, Kernels
    <2>3. next \in Soon
      <3>1. own.height + 1 \in 1..MaxHeight + 1
        BY <2>1, <2>2
      <3>2. next \in Programs /\ next.height = own.height + 1 /\ next.variant = own.variant
        BY <2>1, <3>1 DEF Programs
      <3> HIDE DEF next, own
      <3>3. next.height <= tip[next.variant] + 1
        BY <2>1, <2>2, <3>2
      <3> QED BY <3>2, <3>3 DEF Soon
    <2>4. tasks' = Append(tasks, next) /\ ptx[g] = own
      BY <1>3, <1>5 DEF Enqueue
    <2> HIDE DEF next
    <2>5. tasks' \in Seq(Soon) /\ tasks' \in Seq(Programs)
      <3>1. tasks' \in Seq(Soon)
        BY <2>3, <2>4, AppendProperties DEF ProgramsInv
      <3>2. Soon \subseteq Programs
        BY DEF Soon
      <3> QED BY <3>1, <3>2, SeqGrows
    <2>6. TypeOK'
      BY <1>1, <1>3, <1>5, <2>1, <2>4, <2>5 DEF TypeOK
    <2>7. ASSUME NEW b \in Builders
          PROVE  (Wants(b) /\ Locked(b))' /\ (b \in Threads => (Wanted(b) /\ Got(b) /\ Mines(b))')
      <3>1. CASE b = g
        <4>1. pc'[g] = "hash" /\ kernel'[g] = job'[g] /\ job'[g] = job[g] /\ module'[g] = own
          BY <1>1, <1>3, <1>5, <2>4 DEF TypeOK
        <4> QED BY <3>1, <4>1 DEF Wants, Locked, Wanted, Got, Mines, Wanting
      <3>2. CASE b # g
        <4>1. /\ pc'[b] = pc[b] /\ program'[b] = program[b]
              /\ b \in Threads => UNCHANGED <<job[b], ptx[b], kernel[b], module[b]>>
          BY <1>1, <1>3, <1>5, <3>2 DEF TypeOK
        <4> QED BY <1>1, <4>1, OthersKeep
      <3> QED BY <3>1, <3>2
    <2>8. CompiledOnce' /\ (tasks \in Seq(Soon) /\ batch \in Seq(Soon))'
      BY <1>1, <1>2, <2>5 DEF ProgramsInv, CompiledOnce
    <2> QED BY <2>6, <2>7, <2>8, Apart DEF ProgramsInv
  <1> QED BY <1>4, <1>5 DEF Load, Goto

-----------------------------------------------------------------------------
(* The builders. *)

(* What is returned is the program that was asked for, or none. *)
LEMMA ReturnKeeps ==
    ASSUME ProgramsInv, NEW b \in Builders, pc[b] \in Wanting, NEW p \in {NoProgram, program[b]}, Return(b, p),
           UNCHANGED <<tip, job, kernel, module>>
    PROVE  /\ pc' \in [Builders -> {"hash", "sleep", "lookup", "evict", "build", "compile", "load", "crashed"}]
           /\ program' \in [Builders -> Programs \cup {NoProgram}]
           /\ ptx' \in [Builders -> Programs \cup {NoProgram}]
           /\ (Wants(b) /\ Locked(b))'
           /\ b \in Threads => (Wanted(b) /\ Got(b) /\ Mines(b))'
           /\ \A c \in Builders \ {b} : UNCHANGED <<pc[c], program[c], ptx[c]>>
  <1>1. /\ program' = [program EXCEPT ![b] = NoProgram]
        /\ ptx' = [ptx EXCEPT ![b] = IF b = Background THEN NoProgram ELSE p]
        /\ pc' = [pc EXCEPT ![b] = IF b = Background THEN "sleep" ELSE "load"]
    BY DEF Return, Goto
  <1>2. program[b] \in Programs \cup {NoProgram} /\ TypeOK
    BY DEF ProgramsInv, TypeOK
  <1>3. pc'[b] = "sleep" \/ pc'[b] = "load"
    BY <1>1, <1>2 DEF TypeOK
  <1>4. (Wants(b) /\ Locked(b))'
    BY <1>3 DEF Wants, Locked, Wanting
  <1>5. ASSUME b \in Threads PROVE (Wanted(b) /\ Got(b) /\ Mines(b))'
    <2>1. b # Background /\ Reached' = Reached
      BY <1>5, Apart DEF Reached
    <2>2. ptx'[b] = p /\ pc'[b] = "load" /\ UNCHANGED job
      BY <1>1, <1>2, <2>1 DEF TypeOK
    <2>3. job[b] \in Reached /\ program[b] = For(job[b], Arch[b])
      BY <1>5 DEF ProgramsInv, Wanted
    <2> QED BY <2>1, <2>2, <2>3 DEF Wanted, Got, Mines, Wanting
  <1> QED BY <1>1, <1>2, <1>4, <1>5 DEF TypeOK

LEMMA LookupInv == ASSUME ProgramsInv, NEW b \in Builders, Lookup(b) PROVE ProgramsInv'
  <1>1. /\ UNCHANGED <<tip, cache, builder, job, kernel, module, tasks, batch>> /\ pc[b] = "lookup"
        /\ pc[b] \in Wanting
    BY DEF Lookup, gpuVars, taskVars, Wanting
  <1>2. Soon' = Soon /\ Reached' = Reached /\ TypeOK
    BY <1>1 DEF Soon, Reached, ProgramsInv
  <1>3. program[b] \in Programs
    BY <1>1 DEF ProgramsInv, Wants, Soon
  <1>4. CASE \E e \in Found(program[b]) : Return(b, e)
    <2>1. Return(b, program[b])
      BY <1>3, <1>4, FoundIsIt
    <2>2. /\ pc' \in [Builders -> {"hash", "sleep", "lookup", "evict", "build", "compile", "load", "crashed"}]
          /\ program' \in [Builders -> Programs \cup {NoProgram}]
          /\ ptx' \in [Builders -> Programs \cup {NoProgram}]
          /\ (Wants(b) /\ Locked(b))'
          /\ b \in Threads => (Wanted(b) /\ Got(b) /\ Mines(b))'
          /\ \A c \in Builders \ {b} : UNCHANGED <<pc[c], program[c], ptx[c]>>
      BY <1>1, <2>1, ReturnKeeps
    <2>3. ASSUME NEW c \in Builders, c # b
          PROVE  (Wants(c) /\ Locked(c))' /\ (c \in Threads => (Wanted(c) /\ Got(c) /\ Mines(c))')
      BY <1>1, <2>2, <2>3, OthersKeep
    <2>4. TypeOK' /\ CompiledOnce' /\ (tasks \in Seq(Soon) /\ batch \in Seq(Soon))'
      BY <1>1, <1>2, <2>2 DEF TypeOK, ProgramsInv, CompiledOnce
    <2> QED BY <2>2, <2>3, <2>4, Apart DEF ProgramsInv
  <1>5. CASE pc' = [pc EXCEPT ![b] = "evict"] /\ UNCHANGED <<program, ptx>>
    <2>1. ASSUME NEW c \in Builders
          PROVE  (Wants(c) /\ Locked(c))' /\ (c \in Threads => (Wanted(c) /\ Got(c) /\ Mines(c))')
      <3>1. CASE c = b
        <4>1. pc'[b] = "evict" /\ Wants(b) /\ (b \in Threads => Wanted(b))
          BY <1>2, <1>5 DEF TypeOK, ProgramsInv
        <4> QED BY <1>1, <1>2, <1>5, <3>1, <4>1 DEF Wants, Locked, Wanted, Got, Mines, Wanting
      <3>2. CASE c # b
        <4>1. pc'[c] = pc[c]
          BY <1>2, <1>5, <3>2 DEF TypeOK
        <4> QED BY <1>1, <1>5, <4>1, OthersKeep
      <3> QED BY <3>1, <3>2
    <2>2. TypeOK' /\ CompiledOnce' /\ (tasks \in Seq(Soon) /\ batch \in Seq(Soon))'
      BY <1>1, <1>2, <1>5 DEF TypeOK, ProgramsInv, CompiledOnce
    <2> QED BY <2>1, <2>2, Apart DEF ProgramsInv
  <1> QED BY <1>4, <1>5 DEF Lookup, Goto

LEMMA EvictInv ==
    ASSUME ProgramsInv, NEW b \in Builders, Evict(b)
    PROVE  /\ ProgramsInv'
           /\ \A p \in Programs : cache[p] > 0 /\ p.height >= tip[p.variant] - 1 => cache'[p] > 0
  <1>1. /\ UNCHANGED <<tip, program, ptx, builder, job, kernel, module, tasks, batch>> /\ pc[b] = "evict"
        /\ pc[b] \in Wanting /\ pc' = [pc EXCEPT ![b] = "build"]
        /\ cache' = [e \in Programs |-> IF IsOld(e, program[b]) THEN 0 ELSE cache[e]]
    BY DEF Evict, gpuVars, taskVars, Wanting, Goto
  <1>2. Soon' = Soon /\ Reached' = Reached /\ TypeOK
    BY <1>1 DEF Soon, Reached, ProgramsInv
  <1>3. \A p \in Programs : cache'[p] = cache[p] \/ cache'[p] = 0
    BY <1>1
  <1>4. TypeOK'
    <2>1. cache' \in [Programs -> Nat]
      BY <1>1, <1>2 DEF TypeOK
    <2>2. pc' \in [Builders -> {"hash", "sleep", "lookup", "evict", "build", "compile", "load", "crashed"}]
      BY <1>1, <1>2 DEF TypeOK
    <2> QED BY <1>1, <1>2, <2>1, <2>2 DEF TypeOK
  <1>5. ASSUME NEW c \in Builders
        PROVE  (Wants(c) /\ Locked(c))' /\ (c \in Threads => (Wanted(c) /\ Got(c) /\ Mines(c))')
    <2>1. CASE c = b
      <3>1. pc'[b] = "build" /\ Wants(b) /\ (b \in Threads => Wanted(b))
        BY <1>1, <1>2 DEF TypeOK, ProgramsInv
      <3> QED BY <1>1, <1>2, <2>1, <3>1 DEF Wants, Locked, Wanted, Got, Mines, Wanting
    <2>2. CASE c # b
      <3>1. pc'[c] = pc[c]
        BY <1>1, <1>2, <2>2 DEF TypeOK
      <3> QED BY <1>1, <1>3, <3>1, OthersKeep
    <2> QED BY <2>1, <2>2
  <1>6. CompiledOnce'
    <2>1. \A p \in Programs : cache[p] <= 1
      BY DEF ProgramsInv, CompiledOnce
    <2>2. \A p \in Programs : cache'[p] <= 1
      BY <1>3, <2>1
    <2> QED BY <2>2 DEF CompiledOnce
  <1>7. (tasks \in Seq(Soon) /\ batch \in Seq(Soon))'
    BY <1>1, <1>2 DEF ProgramsInv
  <1>8. ASSUME NEW p \in Programs, cache[p] > 0, p.height >= tip[p.variant] - 1
        PROVE  cache'[p] > 0
    <2> DEFINE w == program[b]
    <2>1. w \in Programs /\ w.height <= tip[w.variant] + 1
      BY <1>1 DEF ProgramsInv, Wants, Soon
    <2>2. /\ p.variant \in Variants /\ p.height \in Nat /\ w.variant \in Variants /\ w.height \in Nat
          /\ tip[p.variant] \in Nat \ {0}
      BY <1>2, <2>1, ProgramsAssumption DEF Programs, TypeOK
    <2>3. ~(p.variant = w.variant /\ p.height + 2 < w.height)
      BY <1>8, <2>1, <2>2
    <2> QED BY <1>1, <1>8, <2>3 DEF IsOld
  <1> QED BY <1>4, <1>5, <1>6, <1>7, <1>8, Apart DEF ProgramsInv

LEMMA RecheckInv == ASSUME ProgramsInv, NEW b \in Builders, Recheck(b) PROVE ProgramsInv'
  <1>1. /\ UNCHANGED <<tip, cache, job, kernel, module, tasks, batch>> /\ pc[b] = "build"
        /\ pc[b] \in Wanting /\ builder = "nobody"
    BY DEF Recheck, gpuVars, taskVars, Wanting
  <1>2. Soon' = Soon /\ Reached' = Reached /\ TypeOK
    BY <1>1 DEF Soon, Reached, ProgramsInv
  <1>3. program[b] \in Programs
    BY <1>1 DEF ProgramsInv, Wants, Soon
  <1>4. \A c \in Builders : pc[c] # "compile"
    BY <1>1, Apart DEF ProgramsInv, Locked
  <1>5. CASE \E e \in Found(program[b]) : Return(b, e) /\ builder' = builder
    <2>1. Return(b, program[b]) /\ builder' = builder
      BY <1>3, <1>5, FoundIsIt
    <2>2. /\ pc' \in [Builders -> {"hash", "sleep", "lookup", "evict", "build", "compile", "load", "crashed"}]
          /\ program' \in [Builders -> Programs \cup {NoProgram}]
          /\ ptx' \in [Builders -> Programs \cup {NoProgram}]
          /\ (Wants(b) /\ Locked(b))'
          /\ b \in Threads => (Wanted(b) /\ Got(b) /\ Mines(b))'
          /\ \A c \in Builders \ {b} : UNCHANGED <<pc[c], program[c], ptx[c]>>
      BY <1>1, <2>1, ReturnKeeps
    <2>3. ASSUME NEW c \in Builders, c # b
          PROVE  (Wants(c) /\ Locked(c))' /\ (c \in Threads => (Wanted(c) /\ Got(c) /\ Mines(c))')
      BY <1>1, <2>1, <2>2, <2>3, OthersKeep
    <2>4. TypeOK' /\ CompiledOnce' /\ (tasks \in Seq(Soon) /\ batch \in Seq(Soon))'
      BY <1>1, <1>2, <2>1, <2>2 DEF TypeOK, ProgramsInv, CompiledOnce
    <2> QED BY <2>2, <2>3, <2>4, Apart DEF ProgramsInv
  <1>6. CASE /\ Found(program[b]) = {} /\ builder' = b
             /\ pc' = [pc EXCEPT ![b] = "compile"] /\ UNCHANGED <<program, ptx>>
    <2>1. ASSUME NEW c \in Builders
          PROVE  (Wants(c) /\ Locked(c))' /\ (c \in Threads => (Wanted(c) /\ Got(c) /\ Mines(c))')
      <3>1. CASE c = b
        <4>1. cache[program[b]] = 0
          BY <1>2, <1>3, <1>6, NotFound DEF TypeOK
        <4>2. pc'[b] = "compile" /\ Wants(b) /\ (b \in Threads => Wanted(b))
          BY <1>2, <1>6 DEF TypeOK, ProgramsInv
        <4> QED BY <1>1, <1>2, <1>6, <3>1, <4>1, <4>2 DEF Wants, Locked, Wanted, Got, Mines, Wanting
      <3>2. CASE c # b
        <4>1. pc'[c] = pc[c]
          BY <1>2, <1>6, <3>2 DEF TypeOK
        <4> QED BY <1>1, <1>4, <1>6, <4>1, OthersKeep
      <3> QED BY <3>1, <3>2
    <2>2. TypeOK' /\ CompiledOnce' /\ (tasks \in Seq(Soon) /\ batch \in Seq(Soon))'
      BY <1>1, <1>2, <1>6 DEF TypeOK, ProgramsInv, CompiledOnce
    <2> QED BY <2>1, <2>2, Apart DEF ProgramsInv
  <1> QED BY <1>5, <1>6 DEF Recheck, Goto

(* Only the holder of the lock adds to the cache, what it has not found. *)
LEMMA CompileInv ==
    ASSUME ProgramsInv, NEW b \in Builders, Compile(b)
    PROVE  ProgramsInv' /\ \A p \in Programs : cache[p] > 0 => cache'[p] > 0
  <1>1. /\ UNCHANGED <<tip, job, kernel, module, tasks, batch>> /\ pc[b] = "compile"
        /\ pc[b] \in Wanting /\ builder' = "nobody"
    BY DEF Compile, gpuVars, taskVars, Wanting
  <1>2. Soon' = Soon /\ Reached' = Reached /\ TypeOK
    BY <1>1 DEF Soon, Reached, ProgramsInv
  <1>3. program[b] \in Programs /\ builder = b /\ cache[program[b]] = 0
    BY <1>1 DEF ProgramsInv, Wants, Soon, Locked
  <1>4. /\ \E p \in {NoProgram, program[b]} : Return(b, p)
        /\ cache' = cache \/ cache' = [cache EXCEPT ![program[b]] = @ + 1]
    BY DEF Compile
  <1>5. /\ pc' \in [Builders -> {"hash", "sleep", "lookup", "evict", "build", "compile", "load", "crashed"}]
        /\ program' \in [Builders -> Programs \cup {NoProgram}]
        /\ ptx' \in [Builders -> Programs \cup {NoProgram}]
        /\ (Wants(b) /\ Locked(b))'
        /\ b \in Threads => (Wanted(b) /\ Got(b) /\ Mines(b))'
        /\ \A c \in Builders \ {b} : UNCHANGED <<pc[c], program[c], ptx[c]>>
    BY <1>1, <1>4, ReturnKeeps
  <1>6. /\ cache' \in [Programs -> Nat]
        /\ \A p \in Programs : cache'[p] <= 1 /\ (cache[p] > 0 => cache'[p] > 0)
    <2>1. cache \in [Programs -> Nat] /\ \A p \in Programs : cache[p] <= 1
      BY <1>2 DEF TypeOK, ProgramsInv, CompiledOnce
    <2>2. CASE cache' = cache
      BY <2>1, <2>2
    <2>3. CASE cache' = [cache EXCEPT ![program[b]] = @ + 1]
      <3>1. cache' = [cache EXCEPT ![program[b]] = 1]
        BY <1>3, <2>3
      <3> QED BY <1>3, <2>1, <3>1
    <2> QED BY <1>4, <2>2, <2>3
  <1>7. ASSUME NEW c \in Builders, c # b
        PROVE  (Wants(c) /\ Locked(c))' /\ (c \in Threads => (Wanted(c) /\ Got(c) /\ Mines(c))')
    <2>1. pc[c] # "compile" /\ pc'[c] = pc[c]
      BY <1>3, <1>5, <1>7 DEF ProgramsInv, Locked
    <2>2. Wants(c) /\ (c \in Threads => Wanted(c) /\ Got(c) /\ Mines(c))
      BY DEF ProgramsInv
    <2> QED BY <1>1, <1>2, <1>5, <1>7, <2>1, <2>2 DEF Wants, Locked, Wanted, Got, Mines
  <1>8. TypeOK' /\ CompiledOnce' /\ (tasks \in Seq(Soon) /\ batch \in Seq(Soon))'
    BY <1>1, <1>2, <1>5, <1>6 DEF TypeOK, ProgramsInv, CompiledOnce
  <1> QED BY <1>5, <1>6, <1>7, <1>8, Apart DEF ProgramsInv

-----------------------------------------------------------------------------
(* The background thread. *)

LEMMA TakeTasksInv == ASSUME ProgramsInv, TakeTasks PROVE ProgramsInv'
  <1> USE DEF TakeTasks, buildVars, gpuVars
  <1>1. Soon' = Soon /\ Reached' = Reached
    BY DEF Soon, Reached
  <1>2. /\ tasks' \in Seq(Soon) /\ tasks' \in Seq(Programs)
        /\ batch' \in Seq(Soon) /\ batch' \in Seq(Programs)
    BY EmptySeq DEF ProgramsInv, TypeOK
  <1>3. TypeOK' /\ CompiledOnce'
    BY <1>2 DEF ProgramsInv, TypeOK, CompiledOnce
  <1>4. \A b \in Builders : (Wants(b) /\ Locked(b))'
    BY <1>1 DEF ProgramsInv, Wants, Locked
  <1>5. \A g \in Threads : (Wanted(g) /\ Got(g) /\ Mines(g))'
    BY <1>1 DEF ProgramsInv, Wanted, Got, Mines
  <1> QED BY <1>1, <1>2, <1>3, <1>4, <1>5 DEF ProgramsInv

LEMMA NextTaskInv == ASSUME ProgramsInv, NextTask PROVE ProgramsInv'
  <1>1. /\ UNCHANGED <<tip, ptx, cache, builder, job, kernel, module, tasks>>
        /\ pc[Background] = "sleep" /\ batch # <<>>
        /\ program' = [program EXCEPT ![Background] = Head(batch)]
        /\ batch' = Tail(batch)
        /\ pc' = [pc EXCEPT ![Background] = "lookup"]
    BY DEF NextTask, gpuVars, Goto
  <1>2. Soon' = Soon /\ Reached' = Reached /\ Soon \subseteq Programs /\ TypeOK
    BY <1>1 DEF Soon, Reached, ProgramsInv
  <1>3. Head(batch) \in Soon /\ Tail(batch) \in Seq(Soon)
    BY <1>1, HeadTailProperties DEF ProgramsInv
  <1>4. Tail(batch) \in Seq(Programs)
    BY <1>2, <1>3, SeqGrows
  <1>5. TypeOK' /\ CompiledOnce' /\ (tasks \in Seq(Soon) /\ batch \in Seq(Soon))'
    BY <1>1, <1>2, <1>3, <1>4, Apart DEF ProgramsInv, TypeOK, CompiledOnce
  <1>6. ASSUME NEW c \in Builders
        PROVE  (Wants(c) /\ Locked(c))' /\ (c \in Threads => (Wanted(c) /\ Got(c) /\ Mines(c))')
    <2>1. CASE c = Background
      <3>1. pc'[c] = "lookup" /\ program'[c] = Head(batch) /\ c \notin Threads
        BY <1>1, <1>2, <2>1, Apart DEF TypeOK
      <3> QED BY <1>2, <1>3, <3>1 DEF Wants, Locked
    <2>2. CASE c # Background
      <3>1. pc'[c] = pc[c] /\ program'[c] = program[c]
        BY <1>1, <1>2, <2>2 DEF TypeOK
      <3> QED BY <1>1, <3>1, OthersKeep
    <2> QED BY <2>1, <2>2
  <1> QED BY <1>5, <1>6, Apart DEF ProgramsInv

-----------------------------------------------------------------------------
LEMMA NextPrograms ==
    ASSUME ProgramsInv, [Next]_vars
    PROVE  /\ ProgramsInv'
           /\ \A p \in Programs : cache[p] > 0 /\ p.height >= tip[p.variant] - 1 => cache'[p] > 0
  <1>1. ASSUME NEW v \in Variants, Extend(v) PROVE ProgramsInv' /\ UNCHANGED cache
    BY <1>1, ExtendInv DEF Extend, buildVars
  <1>2. ASSUME NEW g \in Threads, Hash(g) \/ Load(g) PROVE ProgramsInv' /\ UNCHANGED cache
    BY <1>2, HashInv, LoadInv DEF Hash, Load
  <1>3. ASSUME NEW b \in Builders, Lookup(b) \/ Recheck(b) PROVE ProgramsInv' /\ UNCHANGED cache
    BY <1>3, LookupInv, RecheckInv DEF Lookup, Recheck
  <1>4. ASSUME NEW b \in Builders, Evict(b)
        PROVE  /\ ProgramsInv'
               /\ \A p \in Programs : cache[p] > 0 /\ p.height >= tip[p.variant] - 1 => cache'[p] > 0
    BY <1>4, EvictInv
  <1>5. ASSUME NEW b \in Builders, Compile(b)
        PROVE  ProgramsInv' /\ \A p \in Programs : cache[p] > 0 => cache'[p] > 0
    BY <1>5, CompileInv
  <1>6. CASE TakeTasks \/ NextTask
    <2>1. UNCHANGED cache
      BY <1>6 DEF TakeTasks, NextTask, buildVars
    <2> QED BY <1>6, <2>1, TakeTasksInv, NextTaskInv
  <1>7. CASE UNCHANGED vars
    <2>1. UNCHANGED <<tip, pc, program, ptx, cache, builder, job, kernel, module, tasks, batch>>
      BY <1>7 DEF vars, buildVars, gpuVars, taskVars
    <2>2. Soon' = Soon /\ Reached' = Reached
      BY <2>1 DEF Soon, Reached
    <2>3. TypeOK' /\ CompiledOnce' /\ (tasks \in Seq(Soon) /\ batch \in Seq(Soon))'
      BY <2>1, <2>2 DEF ProgramsInv, TypeOK, CompiledOnce
    <2>4. \A b \in Builders : (Wants(b) /\ Locked(b))'
      BY <2>1, <2>2 DEF ProgramsInv, Wants, Locked
    <2>5. \A g \in Threads : (Wanted(g) /\ Got(g) /\ Mines(g))'
      BY <2>1, <2>2 DEF ProgramsInv, Wanted, Got, Mines
    <2> QED BY <2>1, <2>3, <2>4, <2>5 DEF ProgramsInv
  <1> QED BY <1>1, <1>2, <1>3, <1>4, <1>5, <1>6, <1>7 DEF Next, Build

THEOREM ProgramsInvariance == Spec => []ProgramsInv
  BY InitPrograms, NextPrograms, PTL DEF Spec

(* Every variable of the programs' cache and its users keeps its type. *)
THEOREM ProgramsTyped == Spec => []TypeOK
  <1>1. ProgramsInv => TypeOK
    BY DEF ProgramsInv
  <1> QED BY ProgramsInvariance, <1>1, PTL

(* The code loaded on a card that hashes is that of its job, for its own     *)
(* architecture: cryptonight_gpu_hash with CryptonightR_get_program.         *)
THEOREM EachMinesItsProgram == Spec => []MinesItsProgram
  <1>1. ProgramsInv => MinesItsProgram
    BY DEF ProgramsInv, Mines, MinesItsProgram
  <1> QED BY ProgramsInvariance, <1>1, PTL

(* CryptonightR_build_program adds no program to the cache a second time,    *)
(* however many threads ask for it at once.                                  *)
THEOREM EachCompiledOnce == Spec => []CompiledOnce
  <1>1. ProgramsInv => CompiledOnce
    BY DEF ProgramsInv
  <1> QED BY ProgramsInvariance, <1>1, PTL

(* What is dropped from the cache is at least two blocks old. *)
THEOREM KeepsNeeded == Spec => NeededIsKept
  BY ProgramsInvariance, NextPrograms, PTL DEF Spec, NeededIsKept

(* CryptonightR_get_program fills its cache without repetition, and empties  *)
(* it only of what no card of the last two blocks asks for.                  *)
THEOREM KeepsCache == Spec => CacheKept
  BY EachCompiledOnce, KeepsNeeded, PTL DEF CacheKept

-----------------------------------------------------------------------------
(* Verification.                                                           *)

(* The context of a batch, and the memory it was made with. *)
Context == [size : Nat, first : Algo, variant : Variant \cup {"MAX"}, height : Heights \cup {-1}]

(* How a share of the program's own algorithm has to be checked. *)
OwnLoop(loop, j) ==
    \/ loop = [loop |-> "compiled", algo |-> j.algo, variant |-> j.variant]
    \/ loop = [loop |-> "generated", variant |-> j.variant, height |-> j.height]
    \/ loop = [loop |-> "rwz"] /\ j.variant = "RWZ"
    \/ /\ Base(j.variant) = "2" /\ j.variant # "RWZ"
       /\ loop = [loop |-> "cnv2",
                  iter |-> TemplateIter([algo |-> j.algo, variant |-> j.variant]),
                  mask |-> cn_select_mask(j.algo)]

(* Every context has room for the algorithm it was made for, and one that is  *)
(* in use has been used by a hash of the program's algorithm.                 *)
CheckInv ==
    /\ m_algorithm \in Algo /\ m_av \in {"hardware", "software"} /\ algos \subseteq Algo
    /\ ctx # NoContext =>
          /\ ctx \in Context /\ cn_select_memory(ctx.first) <= ctx.size
          /\ ran.used = cn_select_memory(m_algorithm)
    /\ ran # NothingRan /\ ran.job.algo = m_algorithm => OwnLoop(ran.loop, ran.job)

(* The enumerations, spelled out. *)
LEMMA AlgosAre == Algo = {"CN", "LITE", "HEAVY", "PICO"}
  BY DEF Algo, AlgoNames, ToSet

LEMMA VariantsAre ==
    Variant = {"0", "1", "TUBE", "XTL", "MSR", "XHV", "XAO", "RTO", "2", "HALF", "TRTL",
               "GPU", "WOW", "4", "RWZ", "ZLS", "DOUBLE"}
  BY DEF Variant, VariantNames, ToSet

(* A new context holds whole pages of 2 MiB, enough for its first share. *)
LEMMA CreatedFits ==
    ASSUME NEW a \in Algo
    PROVE  Created(a) \in Context /\ cn_select_memory(a) <= Created(a).size
  <1> DEFINE n == cn_select_memory(a)  page == 2 * MiB
  <1>1. page \in Nat \ {0} /\ n \in Nat
    BY SMT, AlgosAre DEF MiB, cn_select_memory
  <1>2. Created(a) = [size |-> page * ((n + page - 1) \div page), first |-> a, variant |-> "MAX", height |-> -1]
    BY DEF Created
  <1> HIDE DEF n, page
  <1>3. page * ((n + page - 1) \div page) \in Nat /\ n <= page * ((n + page - 1) \div page)
    BY <1>1
  <1> QED BY <1>2, <1>3 DEF Context, n

(* The code for a share is there before it is hashed. *)
LEMMA CompiledHasCode ==
    ASSUME NEW a \in Algo, NEW j \in JobsOf(a), NEW c \in Context
    PROVE  /\ Compiled(c, j) \in Context
           /\ Compiled(c, j).first = c.first /\ Compiled(c, j).size = c.size
           /\ ByGenerated(j) => Compiled(c, j).variant = j.variant /\ Compiled(c, j).height = j.height
  BY DEF Compiled, Match, Context, JobsOf

(* The loop that func_table has for a share is its own: where that is one of  *)
(* the patched copies, with the constants of the template.                    *)
LEMMA OwnLoopRun ==
    ASSUME NEW j \in JobsOf(m_algorithm), m_algorithm \in Algo, m_av \in {"hardware", "software"},
           NEW c \in Context,
           ByGenerated(j) => c.variant = j.variant /\ c.height = j.height
    PROVE  OwnLoop(LoopRun([algo |-> m_algorithm, variant |-> j.variant], c), j)
  <1> DEFINE k == [algo |-> m_algorithm, variant |-> j.variant]
  <1>1. Hashable(k) /\ k.algo = m_algorithm /\ k.variant = j.variant /\ j.algo = m_algorithm
        /\ j.variant \in Variant
    BY DEF JobsOf
  <1> HIDE DEF k
  <1>2. CASE ByGenerated(k)
    <2>1. LoopRun(k, c) = [loop |-> "generated", variant |-> c.variant, height |-> c.height]
      BY <1>1, <1>2 DEF LoopRun
    <2>2. c.variant = j.variant /\ c.height = j.height
      BY <1>1, <1>2 DEF ByGenerated
    <2> QED BY <2>1, <2>2, Zenon DEF OwnLoop, k
  <1>3. CASE ~ByGenerated(k) /\ ~ByAssembler(k)
    <2>1. LoopRun(k, c) = [loop |-> "compiled", algo |-> k.algo, variant |-> k.variant]
      BY <1>1, <1>3 DEF LoopRun
    <2> QED BY <1>1, <2>1, Zenon DEF OwnLoop, k
  <1>4. CASE ~ByGenerated(k) /\ ByAssembler(k)
    <2>1. LoopRun(k, c) = AssemblerLoop(j.variant)
      BY <1>1, <1>4 DEF LoopRun
    <2>2. j.variant \in {"2", "HALF", "TRTL", "RWZ", "ZLS", "DOUBLE"}
      BY <1>1, <1>4, VariantsAre DEF ByAssembler, ByGenerated, cn_is_cryptonight_r, Base
    <2>3. k = [algo |-> j.algo, variant |-> j.variant]
      BY <1>1 DEF k
    <2>4. CASE j.variant = "RWZ"
      <3>1. AssemblerLoop(j.variant) = [loop |-> "rwz"]
        BY <2>4 DEF AssemblerLoop
      <3> QED BY <2>1, <2>4, <3>1, Zenon DEF OwnLoop, k
    <2>5. CASE j.variant # "RWZ"
      <3>1. Base(j.variant) = "2"
        BY <2>2, <2>5 DEF Base
      <3>2. AssemblerLoop(j.variant) = [loop |-> "cnv2", iter |-> TemplateIter(k), mask |-> cn_select_mask(j.algo)]
        <4>1. j.algo = IF j.variant = "TRTL" THEN "PICO" ELSE "CN"
          BY <1>1, <2>2, <2>5, AlgosAre DEF Hashable
        <4> QED BY <1>1, <2>2, <2>5, <4>1 DEF AssemblerLoop, Patched, TemplateIter
      <3> QED BY <2>1, <2>3, <2>5, <3>1, <3>2, Zenon DEF OwnLoop, k
    <2> QED BY <2>4, <2>5
  <1> QED BY <1>2, <1>3, <1>4 DEF k

(* The hash of a share of any algorithm of the configurations so far. *)
LEMMA HashShareInv ==
    ASSUME CheckInv, NEW a \in algos, NEW j \in JobsOf(a), NEW c \in Context,
           cn_select_memory(c.first) <= c.size, HashShare(c, j)
    PROVE  CheckInv'
  <1> DEFINE k == [algo |-> m_algorithm, variant |-> j.variant]
             c2 == IF Hashable(k) THEN Compiled(c, j) ELSE c
  <1>1. /\ ctx' = c2 /\ UNCHANGED <<m_algorithm, m_av, algos>>
        /\ ran' = [loop |-> LoopRun(k, c2), job |-> j, used |-> cn_select_memory(m_algorithm)]
    BY DEF HashShare
  <1>2. a \in Algo /\ j.algo = a
    BY DEF CheckInv, JobsOf
  <1>3. c2 \in Context /\ c2.first = c.first /\ c2.size = c.size
    BY <1>2, CompiledHasCode
  <1>4. ASSUME j.algo = m_algorithm PROVE OwnLoop(LoopRun(k, c2), j)
    <2>1. Hashable(k) /\ j \in JobsOf(m_algorithm)
      BY <1>2, <1>4 DEF JobsOf
    <2>2. ByGenerated(j) => c2.variant = j.variant /\ c2.height = j.height
      BY <1>2, <2>1, CompiledHasCode
    <2> QED BY <1>3, <2>1, <2>2, OwnLoopRun DEF CheckInv
  <1> HIDE DEF k, c2
  <1>5. ran'.job = j /\ ran'.loop = LoopRun(k, c2) /\ ran'.used = cn_select_memory(m_algorithm)
    BY <1>1
  <1>6. ctx' \in Context /\ cn_select_memory(ctx'.first) <= ctx'.size
    BY <1>1, <1>3
  <1>7. ran'.job.algo = m_algorithm' => OwnLoop(ran'.loop, ran'.job)
    BY <1>1, <1>4, <1>5
  <1> QED BY <1>1, <1>5, <1>6, <1>7 DEF CheckInv

(* Workers::onResult checks a share of the algorithm the program was started  *)
(* with by the loop of its own variant, with code for its own block, and in   *)
(* memory that is large enough: for any blocks, and whatever else is in the   *)
(* batch or came with a reload.                                               *)
THEOREM ChecksByOwnLoop == CheckSpec => []CheckedByOwnLoop
  <1>1. CheckInit => CheckInv
    BY DEF CheckInit, CheckInv
  <1>2. CheckInv /\ [CheckNext]_checkVars => CheckInv'
    <2> SUFFICES ASSUME CheckInv, [CheckNext]_checkVars PROVE CheckInv'
      OBVIOUS
    <2>1. CASE Reconfigure
      <3>1. algos' \subseteq Algo
        BY <2>1 DEF Reconfigure, CheckInv
      <3> QED BY <2>1, <3>1 DEF Reconfigure, CheckInv
    <2>2. CASE FirstShare
      <3>1. PICK a \in algos : \E j \in JobsOf(a) : HashShare(Created(a), j)
        BY <2>2 DEF FirstShare
      <3>2. a \in Algo
        BY DEF CheckInv
      <3>3. Created(a).first = a
        BY DEF Created
      <3> QED BY <3>1, <3>2, <3>3, CreatedFits, HashShareInv
    <2>3. CASE FurtherShare
      <3>1. PICK a \in algos : \E j \in JobsOf(a) : HashShare(ctx, j)
        BY <2>3 DEF FurtherShare
      <3>2. ctx \in Context /\ cn_select_memory(ctx.first) <= ctx.size
        BY <2>3 DEF FurtherShare, CheckInv
      <3> QED BY <3>1, <3>2, HashShareInv
    <2>4. CASE ReleaseContext
      BY <2>4 DEF ReleaseContext, CheckInv
    <2>5. CASE UNCHANGED checkVars
      BY <2>5 DEF checkVars, CheckInv
    <2> QED BY <2>1, <2>2, <2>3, <2>4, <2>5 DEF CheckNext
  <1>3. CheckInv => CheckedByOwnLoop
    <2> SUFFICES ASSUME CheckInv PROVE RunsOwnLoop /\ ScratchpadFits
      BY DEF CheckedByOwnLoop
    <2>1. RunsOwnLoop
      BY DEF CheckInv, RunsOwnLoop, OwnLoop
    <2>2. ScratchpadFits
      BY DEF CheckInv, ScratchpadFits
    <2> QED BY <2>1, <2>2
  <1> QED BY <1>1, <1>2, <1>3, PTL DEF CheckSpec

-----------------------------------------------------------------------------
(* Hashrate.                                                               *)

(* The types of the counters of a GPU thread, of a ring and of a sample.     *)
CounterType == [ready : BOOLEAN, mined : Nat, hashCount : Nat, timestamp : Nat, at : Nat,
                unstored : SUBSET {"count", "stamp"}]
RingType == [counts : [Buckets -> Nat], stamps : [Buckets -> Nat], top : Buckets]
Sample == [count : Nat, stamp : Nat]
HalfType == [count : Nat \cup {-1}, stamp : Nat \cup {-1}]

RateTypes ==
    /\ now \in 1..MaxTime /\ tick \in 0..CardsHashing /\ ticked \in BOOLEAN
    /\ half \in HalfType
    /\ worker \in [Hashing -> CounterType]
    /\ ring \in [Hashing -> RingType]
    /\ samples \in [Hashing -> Seq(Sample)]
    /\ finished \in [Hashing -> [1..MaxTime -> Nat]]

(* A count, and a time, that card c may have published in this period. *)
CountNow(c, n) ==
    \/ n = worker[c].mined
    \/ worker[c].at = now /\ n = worker[c].mined - BatchSizes[c]
StampNow(c, s) ==
    \/ s = worker[c].at
    \/ worker[c].at = now /\ s < now /\ (s > 0 => finished[c][s] = worker[c].mined - BatchSizes[c])

(* What a thread has published: both of its last batch, or one of them still  *)
(* of the batch before, and that only in the period of the last batch.        *)
Published(c) ==
    /\ worker[c].at <= now
    /\ worker[c].at > 0 => finished[c][worker[c].at] = worker[c].mined
    /\ worker[c].unstored # {} => worker[c].at = now
    /\ CountNow(c, worker[c].hashCount) /\ StampNow(c, worker[c].timestamp)
    /\ "count" \in worker[c].unstored \/ worker[c].hashCount = worker[c].mined
    /\ "stamp" \in worker[c].unstored \/ worker[c].timestamp = worker[c].at

(* What the timer has read of a sample, not older than any sample before.     *)
HalfRead ==
    /\ tick # 0 => ticked
    /\ half # NotRead => tick # 0 /\ worker[tick].ready
    /\ half.count # -1 =>
          /\ CountNow(tick, half.count)
          /\ half.count <= worker[tick].hashCount
          /\ \A i \in 1..Len(samples[tick]) : samples[tick][i].count <= half.count
    /\ half.stamp # -1 =>
          /\ StampNow(tick, half.stamp)
          /\ half.stamp <= worker[tick].timestamp
          /\ \A i \in 1..Len(samples[tick]) : samples[tick][i].stamp <= half.stamp

(* One, as long as card c may still be sampled in this period.               *)
Lag(c) == IF ~ticked \/ (tick # 0 /\ tick <= c) THEN 1 ELSE 0

(* The samples go back in time and in count, at least one period each, and    *)
(* each of them is wrong by one batch at most.                                *)
Sampled(c) == \A i \in 1..Len(samples[c]) :
    /\ samples[c][i].count <= worker[c].hashCount
    /\ samples[c][i].stamp <= worker[c].timestamp
    /\ samples[c][i].stamp <= now - i + 1 - Lag(c)
    /\ samples[c][i].stamp # 0 =>
          samples[c][i].count - finished[c][samples[c][i].stamp] \in -BatchSizes[c]..BatchSizes[c]
    /\ \A k \in 1..i : samples[c][i].count <= samples[c][k].count /\ samples[c][i].stamp <= samples[c][k].stamp

(* The ring holds the newest samples, and zeros where there is none yet.     *)
Back(top, i) == (top + kBucketSize - i) % kBucketSize
Kept(c) == \A i \in 1..kBucketSize :
    LET b == Back(ring[c].top, i)
    IN  /\ ring[c].counts[b] = IF i <= Len(samples[c]) THEN samples[c][i].count ELSE 0
        /\ ring[c].stamps[b] = IF i <= Len(samples[c]) THEN samples[c][i].stamp ELSE 0

(* The inductive invariant. *)
RateInv == RateTypes /\ HalfRead /\ \A c \in Hashing : Published(c) /\ Sampled(c) /\ Kept(c)

-----------------------------------------------------------------------------
(* The bucket that is i before the top of the ring, and the one after it. *)
LEMMA BackBucket ==
    ASSUME NEW top \in Buckets, NEW i \in 1..kBucketSize
    PROVE  Back(top, i) \in Buckets /\ Back(top, i) = IF i <= top THEN top - i ELSE top + kBucketSize - i
  <1>1. kBucketSize \in Nat \ {0} /\ top \in 0..kBucketSize - 1
    BY HashrateAssumption DEF Buckets
  <1>2. CASE i <= top
    <2>1. top + kBucketSize - i = 1 * kBucketSize + (top - i) /\ top - i \in 0..kBucketSize - 1
      BY <1>1, <1>2
    <2> QED BY <1>1, <1>2, <2>1 DEF Back, Buckets
  <1>3. CASE ~(i <= top)
    <2>1. top + kBucketSize - i \in 0..kBucketSize - 1
      BY <1>1, <1>3
    <2> QED BY <1>1, <1>3, <2>1 DEF Back, Buckets
  <1> QED BY <1>2, <1>3

(* What follows the last bucket is the first one. *)
LEMMA NextTopBucket ==
    ASSUME NEW top \in Buckets
    PROVE  NextTop(top) \in Buckets /\ NextTop(top) = IF top = kBucketSize - 1 THEN 0 ELSE top + 1
  <1>1. kBucketSize \in Nat \ {0} /\ top \in 0..kBucketSize - 1
    BY HashrateAssumption DEF Buckets
  <1> QED BY <1>1 DEF NextTop, Buckets

(* After a sample is added, the one that was i before the top is i + 1 before *)
(* it, and the oldest one is gone.                                            *)
LEMMA BackShifts ==
    ASSUME NEW top \in Buckets
    PROVE  /\ Back(NextTop(top), 1) = top
           /\ \A i \in 1..kBucketSize - 1 : Back(NextTop(top), i + 1) = Back(top, i) /\ Back(top, i) # top
  <1>1. kBucketSize \in Nat \ {0, 1} /\ top \in 0..kBucketSize - 1
    BY HashrateAssumption DEF Buckets
  <1>2. Back(NextTop(top), 1) = top
    BY <1>1, NextTopBucket, BackBucket
  <1>3. ASSUME NEW i \in 1..kBucketSize - 1
        PROVE  Back(NextTop(top), i + 1) = Back(top, i) /\ Back(top, i) # top
    <2>1. i \in 1..kBucketSize /\ i + 1 \in 1..kBucketSize
      BY <1>1
    <2>2. Back(top, i) = IF i <= top THEN top - i ELSE top + kBucketSize - i
      BY <2>1, BackBucket
    <2>3. /\ NextTop(top) \in Buckets
          /\ NextTop(top) = IF top = kBucketSize - 1 THEN 0 ELSE top + 1
      BY NextTopBucket
    <2>4. Back(NextTop(top), i + 1) =
            IF i + 1 <= NextTop(top) THEN NextTop(top) - (i + 1) ELSE NextTop(top) + kBucketSize - (i + 1)
      BY <2>1, <2>3, BackBucket
    <2> QED BY <1>1, <2>1, <2>2, <2>3, <2>4
  <1> QED BY <1>2, <1>3

(* A sequence with one more element in front. *)
LEMMA Prepended ==
    ASSUME NEW seq \in Seq(Sample), NEW e \in Sample
    PROVE  /\ <<e>> \o seq \in Seq(Sample) /\ Len(<<e>> \o seq) = Len(seq) + 1
           /\ (<<e>> \o seq)[1] = e
           /\ \A i \in 1..Len(seq) : (<<e>> \o seq)[i + 1] = seq[i]
  <1>1. Len(<<e>>) = 1
    OBVIOUS
  <1> QED BY <1>1

-----------------------------------------------------------------------------
LEMMA InitRate == HashrateInit => RateInv
  <1> SUFFICES ASSUME HashrateInit PROVE RateInv
    OBVIOUS
  <1> USE DEF HashrateInit
  <1>1. NewWorker \in CounterType /\ NotRead \in HalfType
    BY DEF NewWorker, CounterType, NotRead, HalfType
  <1>2. 0 \in Buckets /\ 1 \in 1..MaxTime /\ 0 \in 0..CardsHashing
    BY HashrateAssumption DEF Buckets
  <1>3. [counts |-> [b \in Buckets |-> 0], stamps |-> [b \in Buckets |-> 0], top |-> 0] \in RingType
    BY <1>2 DEF RingType
  <1>4. RateTypes
    <2>1. ring \in [Hashing -> RingType] /\ worker \in [Hashing -> CounterType]
      BY <1>1, <1>3
    <2>2. samples \in [Hashing -> Seq(Sample)]
      OBVIOUS
    <2>3. finished \in [Hashing -> [1..MaxTime -> Nat]]
      OBVIOUS
    <2> QED BY <1>1, <1>2, <2>1, <2>2, <2>3 DEF RateTypes
  <1>5. HalfRead
    BY DEF HalfRead, NotRead
  <1>6. ASSUME NEW c \in Hashing PROVE Published(c) /\ Sampled(c) /\ Kept(c)
    <2>1. /\ worker[c] = NewWorker /\ samples[c] = <<>> /\ Len(samples[c]) = 0
          /\ ring[c].counts = [b \in Buckets |-> 0] /\ ring[c].stamps = [b \in Buckets |-> 0]
          /\ ring[c].top = 0
      BY <1>6
    <2>2. Published(c)
      BY <2>1 DEF Published, CountNow, StampNow, NewWorker
    <2>3. Sampled(c)
      BY <2>1 DEF Sampled
    <2>4. Kept(c)
      BY <1>2, <2>1, BackBucket DEF Kept
    <2> QED BY <2>2, <2>3, <2>4
  <1> QED BY <1>4, <1>5, <1>6 DEF RateInv

(* The types of one sample. *)
LEMMA SampleTypes ==
    ASSUME RateTypes, NEW c \in Hashing, NEW i \in 1..Len(samples[c])
    PROVE  /\ samples[c][i] \in Sample /\ i \in Nat /\ now \in Nat
           /\ samples[c][i].count \in Nat /\ samples[c][i].stamp \in Nat
  <1>1. samples[c] \in Seq(Sample) /\ now \in Nat
    BY DEF RateTypes
  <1>2. samples[c][i] \in Sample
    BY <1>1
  <1> QED BY <1>1, <1>2 DEF Sample

(* Nothing changes for a card whose counters, ring and samples do not.       *)
LEMMA CardUntouched ==
    ASSUME NEW c \in Hashing, Published(c), Sampled(c), Kept(c), RateTypes,
           now' = now, worker'[c] = worker[c], ring'[c] = ring[c], samples'[c] = samples[c],
           finished'[c] = finished[c], Lag(c)' <= Lag(c)
    PROVE  Published(c)' /\ Sampled(c)' /\ Kept(c)'
  <1>1. Published(c)' /\ Kept(c)'
    BY DEF Published, CountNow, StampNow, Kept
  <1>2. Sampled(c)'
    <2> SUFFICES ASSUME NEW i \in 1..Len(samples[c])
                 PROVE  samples[c][i].stamp <= now - i + 1 - Lag(c)'
      BY DEF Sampled
    <2>1. samples[c][i].stamp <= now - i + 1 - Lag(c)
      BY DEF Sampled
    <2>2. samples[c][i].stamp \in Nat /\ now \in Nat /\ i \in Nat
      BY SampleTypes
    <2>3. Lag(c) \in {0, 1} /\ Lag(c)' \in {0, 1}
      BY DEF Lag
    <2> QED BY <2>1, <2>2, <2>3
  <1> QED BY <1>1, <1>2

LEMMA PassRate == ASSUME RateInv, Pass PROVE RateInv'
  <1> USE DEF Pass
  <1>1. RateTypes'
    <2>1. now + 1 \in 1..MaxTime
      BY HashrateAssumption DEF RateInv, RateTypes
    <2> QED BY <2>1 DEF RateInv, RateTypes
  <1>2. half = NotRead
    BY DEF RateInv, HalfRead
  <1>3. HalfRead'
    BY <1>2 DEF HalfRead, NotRead
  <1>4. ASSUME NEW c \in Hashing PROVE Published(c)' /\ Sampled(c)' /\ Kept(c)'
    <2>1. /\ worker[c].unstored = {} /\ worker[c].at <= now /\ worker[c].at \in Nat /\ now \in Nat
          /\ worker[c].hashCount = worker[c].mined /\ worker[c].timestamp = worker[c].at
      BY DEF RateInv, RateTypes, CounterType, Published
    <2>2. Published(c)'
      BY <2>1 DEF RateInv, Published, CountNow, StampNow
    <2>3. Kept(c)'
      BY DEF RateInv, Kept
    <2>4. Sampled(c)'
      <3> SUFFICES ASSUME NEW i \in 1..Len(samples[c])
                   PROVE  samples[c][i].stamp <= now' - i + 1 - Lag(c)'
        BY DEF RateInv, Sampled
      <3>1. samples[c][i].stamp <= now - i + 1 - Lag(c)
        BY DEF RateInv, Sampled
      <3>2. samples[c][i].stamp \in Nat /\ now \in Nat /\ i \in Nat
        BY SampleTypes DEF RateInv
      <3>3. Lag(c) \in {0, 1} /\ Lag(c)' \in {0, 1}
        BY DEF Lag
      <3> HIDE DEF Lag
      <3> QED BY ONLY <3>1, <3>2, <3>3, now' = now + 1
    <2> QED BY <2>2, <2>3, <2>4
  <1> QED BY <1>1, <1>3, <1>4 DEF RateInv

LEMMA BeginTickRate == ASSUME RateInv, BeginTick PROVE RateInv'
  <1> USE DEF BeginTick
  <1>1. RateTypes'
    BY HashrateAssumption DEF RateInv, RateTypes
  <1>2. half = NotRead
    BY DEF RateInv, HalfRead
  <1>3. HalfRead'
    BY <1>2 DEF HalfRead, NotRead
  <1>4. ASSUME NEW c \in Hashing PROVE Lag(c)' <= Lag(c)
    BY DEF Lag
  <1> QED BY <1>1, <1>3, <1>4, CardUntouched DEF RateInv

LEMMA GiveUpRate == ASSUME RateInv, GiveUp PROVE RateInv'
  <1> USE DEF GiveUp
  <1>1. RateTypes'
    BY HashrateAssumption DEF RateInv, RateTypes
  <1>2. half = NotRead /\ ticked
    BY DEF RateInv, HalfRead
  <1>3. HalfRead'
    BY <1>2 DEF HalfRead, NotRead
  <1>4. ASSUME NEW c \in Hashing PROVE Lag(c)' <= Lag(c)
    BY <1>2 DEF Lag
  <1> QED BY <1>1, <1>3, <1>4, CardUntouched DEF RateInv

(* A step that only changes the counters of one thread.                      *)
LEMMA CounterTypes ==
    ASSUME RateTypes, NEW c \in Hashing
    PROVE  /\ worker[c] \in CounterType /\ worker[c].ready \in BOOLEAN /\ worker[c].mined \in Nat
           /\ worker[c].hashCount \in Nat /\ worker[c].timestamp \in Nat /\ worker[c].at \in Nat
           /\ worker[c].unstored \subseteq {"count", "stamp"} /\ BatchSizes[c] \in Nat \ {0}
           /\ now \in Nat /\ now \in 1..MaxTime
  <1>1. worker[c] \in CounterType
    BY DEF RateTypes
  <1>2. BatchSizes[c] \in Nat \ {0}
    BY HashrateAssumption DEF Hashing
  <1> QED BY <1>1, <1>2 DEF CounterType, RateTypes

(* ... so that what was published keeps its meaning.                         *)
LEMMA CounterStep ==
    ASSUME RateInv, NEW c \in Hashing,
           UNCHANGED <<now, tick, half, ticked, ring, samples>>,
           RateTypes', Published(c)',
           \A d \in Hashing \ {c} : worker'[d] = worker[d] /\ finished'[d] = finished[d],
           worker[c].ready => worker'[c].ready,
           worker[c].hashCount <= worker'[c].hashCount, worker[c].timestamp <= worker'[c].timestamp,
           \A n \in Nat : n <= worker[c].hashCount /\ CountNow(c, n) => CountNow(c, n)',
           \A n \in Nat : n <= worker[c].timestamp /\ StampNow(c, n) => StampNow(c, n)',
           \A n \in Nat : n # 0 /\ n <= worker[c].timestamp => finished'[c][n] = finished[c][n]
    PROVE  RateInv'
  <1>0. /\ worker[c].hashCount \in Nat /\ worker[c].timestamp \in Nat
        /\ worker'[c].hashCount \in Nat /\ worker'[c].timestamp \in Nat
    <2>1. worker'[c] \in CounterType
      BY DEF RateTypes
    <2> QED BY <2>1, CounterTypes DEF RateInv, CounterType
  <1>1. ASSUME NEW d \in Hashing \ {c} PROVE Published(d)' /\ Sampled(d)' /\ Kept(d)'
    <2>1. Lag(d)' <= Lag(d)
      BY DEF Lag
    <2> QED BY <2>1, CardUntouched DEF RateInv
  <1>2. Kept(c)'
    BY DEF RateInv, Kept
  <1>3. Sampled(c)'
    <2> SUFFICES ASSUME NEW i \in 1..Len(samples[c])
                 PROVE  /\ samples[c][i].count <= worker'[c].hashCount
                        /\ samples[c][i].stamp <= worker'[c].timestamp
                        /\ samples[c][i].stamp # 0 =>
                              finished'[c][samples[c][i].stamp] = finished[c][samples[c][i].stamp]
      BY DEF RateInv, Sampled, Lag
    <2>1. samples[c][i].count \in Nat /\ samples[c][i].stamp \in Nat
      BY SampleTypes DEF RateInv
    <2>2. samples[c][i].count <= worker[c].hashCount /\ samples[c][i].stamp <= worker[c].timestamp
      BY DEF RateInv, Sampled
    <2> QED BY <1>0, <2>1, <2>2, SMTT(30)
  <1>4. HalfRead'
    <2>0. HalfRead /\ half.count \in Nat \cup {-1} /\ half.stamp \in Nat \cup {-1}
      BY DEF RateInv, RateTypes, HalfType
    <2>1. CASE tick = c
      <3>1. ASSUME half.count # -1
            PROVE  CountNow(c, half.count)' /\ half.count <= worker'[c].hashCount
        BY <1>0, <2>0, <2>1, <3>1 DEF HalfRead
      <3>2. ASSUME half.stamp # -1
            PROVE  StampNow(c, half.stamp)' /\ half.stamp <= worker'[c].timestamp
        BY <1>0, <2>0, <2>1, <3>2 DEF HalfRead
      <3> QED BY <2>0, <2>1, <3>1, <3>2 DEF HalfRead
    <2>2. CASE tick # c
      <3>1. CASE half = NotRead
        BY <2>0, <3>1 DEF HalfRead, NotRead
      <3>2. CASE half # NotRead
        <4>1. tick \in Hashing \ {c}
          BY <2>0, <2>2, <3>2 DEF HalfRead, RateInv, RateTypes, Hashing
        <4> QED BY <2>0, <4>1 DEF HalfRead, CountNow, StampNow
      <3> QED BY <3>1, <3>2
    <2> QED BY <2>1, <2>2
  <1> QED BY <1>1, <1>2, <1>3, <1>4 DEF RateInv

LEMMA onReadyRate == ASSUME RateInv, NEW c \in Hashing, onReady(c) PROVE RateInv'
  <1> USE DEF onReady
  <1>1. worker' = [worker EXCEPT ![c] = [worker[c] EXCEPT !.ready = TRUE]]
    BY DEF RateInv, RateTypes
  <1>2. worker[c] \in CounterType /\ worker \in [Hashing -> CounterType]
    BY DEF RateInv, RateTypes
  <1>3. /\ worker'[c] = [worker[c] EXCEPT !.ready = TRUE] /\ worker'[c] \in CounterType
        /\ \A d \in Hashing \ {c} : worker'[d] = worker[d]
    BY <1>1, <1>2, ZenonT(30) DEF CounterType
  <1>4. RateTypes'
    BY <1>1, <1>2, <1>3 DEF RateInv, RateTypes
  <1>5. /\ worker'[c].mined = worker[c].mined /\ worker'[c].hashCount = worker[c].hashCount
        /\ worker'[c].timestamp = worker[c].timestamp /\ worker'[c].at = worker[c].at
        /\ worker'[c].unstored = worker[c].unstored /\ worker'[c].ready
    BY <1>2, <1>3 DEF CounterType
  <1>6. Published(c)'
    BY <1>5 DEF RateInv, Published, CountNow, StampNow
  <1>7. worker[c].hashCount <= worker'[c].hashCount /\ worker[c].timestamp <= worker'[c].timestamp
    BY <1>5, CounterTypes DEF RateInv
  <1> QED BY <1>3, <1>4, <1>5, <1>6, <1>7, CounterStep DEF CountNow, StampNow

LEMMA FinishBatchRate == ASSUME RateInv, NEW c \in Hashing, FinishBatch(c) PROVE RateInv'
  <1> DEFINE w == worker[c]  B == BatchSizes[c]
             v == [w EXCEPT !.mined = w.mined + B, !.at = now, !.unstored = {"count", "stamp"}]
  <1>1. w \in CounterType /\ worker \in [Hashing -> CounterType] /\ B \in Nat \ {0} /\ now \in 1..MaxTime
        /\ w.mined \in Nat /\ w.at \in Nat /\ w.hashCount \in Nat /\ w.timestamp \in Nat
        /\ now \in Nat /\ MaxTime \in Nat /\ w.mined + B \in Nat
    <2>1. MaxTime \in Nat /\ worker \in [Hashing -> CounterType]
      BY HashrateAssumption DEF RateInv, RateTypes
    <2> QED BY <2>1, CounterTypes DEF RateInv
  <1>2. worker' = [worker EXCEPT ![c] = v]
    BY <1>1 DEF FinishBatch
  <1> HIDE DEF B
  <1>3. v \in CounterType /\ v.mined = w.mined + B /\ v.at = now /\ v.unstored = {"count", "stamp"}
        /\ v.hashCount = w.hashCount /\ v.timestamp = w.timestamp /\ v.ready = w.ready
    <2> HIDE DEF w
    <2>1. {"count", "stamp"} \in SUBSET {"count", "stamp"}
      OBVIOUS
    <2> QED BY <1>1, <2>1 DEF CounterType
  <1>4. /\ w.at < now /\ w.hashCount = w.mined /\ w.timestamp = w.at
        /\ w.at > 0 => finished[c][w.at] = w.mined
    BY DEF FinishBatch, RateInv, Published
  <1> HIDE DEF w, v
  <1>5. worker'[c] = v /\ \A d \in Hashing \ {c} : worker'[d] = worker[d]
    BY <1>1, <1>2 DEF w
  <1>6. /\ finished \in [Hashing -> [1..MaxTime -> Nat]]
        /\ finished' = [finished EXCEPT ![c] = [finished[c] EXCEPT ![now] = w.mined + B]]
        /\ UNCHANGED <<now, tick, half, ticked, ring, samples>>
    BY DEF FinishBatch, w, B, RateInv, RateTypes
  <1>7. /\ finished' \in [Hashing -> [1..MaxTime -> Nat]]
        /\ finished'[c][now] = w.mined + B
        /\ \A n \in 1..MaxTime : n # now => finished'[c][n] = finished[c][n]
        /\ \A d \in Hashing \ {c} : finished'[d] = finished[d]
    <2>1. finished[c] \in [1..MaxTime -> Nat]
      BY <1>6
    <2> DEFINE f == [finished[c] EXCEPT ![now] = w.mined + B]
    <2>2. f \in [1..MaxTime -> Nat] /\ f[now] = w.mined + B /\ \A n \in 1..MaxTime : n # now => f[n] = finished[c][n]
      BY <1>1, <2>1
    <2> HIDE DEF f
    <2>3. finished' = [finished EXCEPT ![c] = f]
      BY <1>6 DEF f
    <2> QED BY <1>6, <2>2, <2>3
  <1>8. RateTypes'
    <2>1. worker' \in [Hashing -> CounterType]
      BY <1>1, <1>2, <1>3
    <2> QED BY <1>6, <1>7, <2>1 DEF RateInv, RateTypes
  <1>9. \A n \in Nat : n # 0 /\ n <= w.timestamp => finished'[c][n] = finished[c][n]
    <2> SUFFICES ASSUME NEW n \in Nat, n # 0, n <= w.timestamp PROVE finished'[c][n] = finished[c][n]
      OBVIOUS
    <2>1. n \in 1..MaxTime /\ n # now
      BY <1>1, <1>4
    <2> QED BY <1>7, <2>1
  <1>10. ASSUME NEW n \in Nat, n = w.at PROVE StampNow(c, n)'
    <2>1. n < now /\ (n > 0 => finished'[c][n] = (w.mined + B) - B)
      <3>1. n > 0 => finished'[c][n] = w.mined
        BY <1>1, <1>4, <1>9, <1>10
      <3>2. w.mined = (w.mined + B) - B
        BY <1>1
      <3> QED BY <1>4, <1>10, <3>1, <3>2
    <2>2. worker'[c].at = now /\ worker'[c].mined = w.mined + B
      BY <1>3, <1>5
    <2> QED BY <1>6, <2>1, <2>2, Zenon DEF StampNow, B
  <1>11. ASSUME NEW n \in Nat, n = w.mined PROVE CountNow(c, n)'
    <2>1. n = (w.mined + B) - B
      BY <1>1, <1>11
    <2>2. worker'[c].at = now /\ worker'[c].mined = w.mined + B
      BY <1>3, <1>5
    <2>3. n = worker'[c].mined - BatchSizes[c]
      BY <2>1, <2>2 DEF B
    <2>4. now' = now
      BY <1>6
    <2> QED BY <2>2, <2>3, <2>4 DEF CountNow
  <1>12. Published(c)'
    <2>1. now <= now
      BY <1>1
    <2>2. worker'[c].hashCount = w.mined /\ worker'[c].timestamp = w.at
      BY <1>3, <1>4, <1>5
    <2>3. CountNow(c, worker[c].hashCount)' /\ StampNow(c, worker[c].timestamp)'
      BY <1>1, <1>10, <1>11, <2>2
    <2> QED BY <1>3, <1>5, <1>6, <1>7, <2>1, <2>3 DEF Published
  <1>13. ASSUME NEW n \in Nat, CountNow(c, n) PROVE CountNow(c, n)'
    <2>1. n = w.mined
      BY <1>1, <1>4, <1>13 DEF CountNow, w
    <2> QED BY <1>11, <2>1
  <1>14. ASSUME NEW n \in Nat, StampNow(c, n) PROVE StampNow(c, n)'
    <2>1. n = w.at
      BY <1>1, <1>4, <1>14 DEF StampNow, w
    <2> QED BY <1>10, <2>1
  <1>15. /\ worker[c].hashCount <= worker'[c].hashCount /\ worker[c].timestamp <= worker'[c].timestamp
         /\ worker[c].ready => worker'[c].ready
    BY <1>1, <1>3, <1>5 DEF w
  <1>16. /\ \A d \in Hashing \ {c} : worker'[d] = worker[d] /\ finished'[d] = finished[d]
         /\ \A n \in Nat : n # 0 /\ n <= worker[c].timestamp => finished'[c][n] = finished[c][n]
    BY <1>5, <1>7, <1>9 DEF w
  <1> QED BY ONLY RateInv, c \in Hashing, <1>6, <1>8, <1>12, <1>13, <1>14, <1>15, <1>16, CounterStep

LEMMA storeStatsRate == ASSUME RateInv, NEW c \in Hashing, storeStats(c) PROVE RateInv'
  <1> DEFINE w == worker[c]
  <1>1. PICK what \in w.unstored :
            worker' = [worker EXCEPT ![c] =
                         [w EXCEPT !.unstored = w.unstored \ {what},
                                   !.hashCount = IF what = "count" THEN w.mined ELSE w.hashCount,
                                   !.timestamp = IF what = "stamp" THEN w.at ELSE w.timestamp]]
    <2>1. worker \in [Hashing -> CounterType]
      BY DEF RateInv, RateTypes
    <2>2. PICK what \in w.unstored :
            worker' = [worker EXCEPT ![c].unstored = @ \ {what},
                                     ![c].hashCount = IF what = "count" THEN worker[c].mined ELSE @,
                                     ![c].timestamp = IF what = "stamp" THEN worker[c].at ELSE @]
      BY DEF storeStats
    <2>3. worker[c] \in CounterType
      BY <2>1
    <2> QED BY <2>1, <2>2, <2>3 DEF CounterType
  <1> DEFINE v == [w EXCEPT !.unstored = w.unstored \ {what},
                            !.hashCount = IF what = "count" THEN w.mined ELSE w.hashCount,
                            !.timestamp = IF what = "stamp" THEN w.at ELSE w.timestamp]
  <1>2. /\ w \in CounterType /\ worker \in [Hashing -> CounterType] /\ BatchSizes[c] \in Nat \ {0}
        /\ now \in Nat /\ w.mined \in Nat /\ w.at \in Nat /\ w.hashCount \in Nat /\ w.timestamp \in Nat
        /\ w.unstored \subseteq {"count", "stamp"}
    BY CounterTypes DEF RateInv, RateTypes
  <1>3. /\ v \in CounterType /\ v.mined = w.mined /\ v.at = w.at /\ v.ready = w.ready
        /\ v.unstored = w.unstored \ {what}
        /\ v.hashCount = IF what = "count" THEN w.mined ELSE w.hashCount
        /\ v.timestamp = IF what = "stamp" THEN w.at ELSE w.timestamp
    BY <1>2 DEF CounterType
  <1>4. /\ w.at = now /\ w.at <= now /\ (w.at > 0 => finished[c][w.at] = w.mined)
        /\ CountNow(c, w.hashCount) /\ StampNow(c, w.timestamp)
        /\ "count" \in w.unstored \/ w.hashCount = w.mined
        /\ "stamp" \in w.unstored \/ w.timestamp = w.at
    BY <1>1 DEF RateInv, Published
  <1>5. w.hashCount <= w.mined /\ w.timestamp <= w.at
    BY <1>2, <1>4 DEF CountNow, StampNow
  <1> HIDE DEF w, v
  <1>6. worker'[c] = v /\ \A d \in Hashing \ {c} : worker'[d] = worker[d]
    BY <1>1, <1>2 DEF w, v
  <1>7. UNCHANGED <<now, tick, half, ticked, ring, samples, finished>>
    BY DEF storeStats
  <1>8. RateTypes'
    <2>1. worker' \in [Hashing -> CounterType]
      BY <1>1, <1>2, <1>3 DEF v
    <2> QED BY <1>7, <2>1 DEF RateInv, RateTypes
  <1>9. \A n \in Nat : (CountNow(c, n) => CountNow(c, n)') /\ (StampNow(c, n) => StampNow(c, n)')
    BY <1>3, <1>6, <1>7 DEF CountNow, StampNow, w
  <1>10. CountNow(c, worker[c].hashCount)' /\ StampNow(c, worker[c].timestamp)'
    <2>1. \A n \in Nat : (n = w.mined => CountNow(c, n)') /\ (n = w.at => StampNow(c, n)')
      BY <1>3, <1>6, <1>7 DEF CountNow, StampNow
    <2>2. worker'[c].hashCount = v.hashCount /\ worker'[c].timestamp = v.timestamp
      BY <1>6
    <2>3. v.hashCount \in {w.mined, w.hashCount} /\ v.timestamp \in {w.at, w.timestamp}
      BY <1>3
    <2> QED BY <1>2, <1>4, <1>9, <2>1, <2>2, <2>3
  <1>11. Published(c)'
    <2>1. worker'[c].at <= now /\ (worker'[c].at > 0 => finished[c][worker'[c].at] = worker'[c].mined)
          /\ worker'[c].at = now
      BY <1>3, <1>4, <1>6
    <2>2. "count" \in worker'[c].unstored \/ worker'[c].hashCount = worker'[c].mined
      BY <1>3, <1>4, <1>6
    <2>3. "stamp" \in worker'[c].unstored \/ worker'[c].timestamp = worker'[c].at
      BY <1>3, <1>4, <1>6
    <2> QED BY <1>7, <1>10, <2>1, <2>2, <2>3 DEF Published
  <1>12. /\ worker[c].hashCount <= worker'[c].hashCount /\ worker[c].timestamp <= worker'[c].timestamp
         /\ worker[c].ready => worker'[c].ready
    BY <1>2, <1>3, <1>5, <1>6 DEF w
  <1> QED BY <1>6, <1>7, <1>8, <1>9, <1>11, <1>12, CounterStep

(* A read of one of the two leaves the cards as they were.                   *)
LEMMA ReadStep ==
    ASSUME RateInv, UNCHANGED <<now, worker, tick, ticked, ring, samples, finished>>,
           half' \in HalfType, HalfRead'
    PROVE  RateInv'
  <1>1. RateTypes'
    BY DEF RateInv, RateTypes
  <1>2. ASSUME NEW c \in Hashing PROVE Lag(c)' <= Lag(c)
    BY DEF Lag
  <1> QED BY <1>1, <1>2, CardUntouched DEF RateInv

LEMMA ReadCountRate == ASSUME RateInv, ReadCount PROVE RateInv'
  <1>1. /\ tick \in Hashing /\ worker[tick].ready /\ half \in HalfType /\ half.count = -1
        /\ half' = [half EXCEPT !.count = worker[tick].hashCount]
        /\ UNCHANGED <<now, worker, tick, ticked, ring, samples, finished>>
    BY DEF ReadCount, RateInv, RateTypes, Hashing
  <1>2. worker[tick].hashCount \in Nat
    BY <1>1, CounterTypes DEF RateInv
  <1>3. half' \in HalfType /\ half'.count = worker[tick].hashCount /\ half'.stamp = half.stamp
    BY <1>1, <1>2 DEF HalfType
  <1>4. /\ CountNow(tick, worker[tick].hashCount)
        /\ \A i \in 1..Len(samples[tick]) : samples[tick][i].count <= worker[tick].hashCount
    BY <1>1 DEF RateInv, Published, Sampled
  <1>5. HalfRead'
    <2>1. worker[tick].hashCount <= worker[tick].hashCount
      BY <1>2
    <2>2. /\ tick # 0 /\ ticked
          /\ half.stamp # -1 =>
                /\ StampNow(tick, half.stamp) /\ half.stamp <= worker[tick].timestamp
                /\ \A i \in 1..Len(samples[tick]) : samples[tick][i].stamp <= half.stamp
      BY <1>1, HashrateAssumption DEF RateInv, HalfRead, Hashing
    <2> QED BY <1>1, <1>3, <1>4, <2>1, <2>2 DEF HalfRead, CountNow, StampNow
  <1> QED BY <1>1, <1>3, <1>5, ReadStep

LEMMA ReadStampRate == ASSUME RateInv, ReadStamp PROVE RateInv'
  <1>1. /\ tick \in Hashing /\ worker[tick].ready /\ half \in HalfType /\ half.stamp = -1
        /\ half' = [half EXCEPT !.stamp = worker[tick].timestamp]
        /\ UNCHANGED <<now, worker, tick, ticked, ring, samples, finished>>
    BY DEF ReadStamp, RateInv, RateTypes, Hashing
  <1>2. worker[tick].timestamp \in Nat
    BY <1>1, CounterTypes DEF RateInv
  <1>3. half' \in HalfType /\ half'.stamp = worker[tick].timestamp /\ half'.count = half.count
    BY <1>1, <1>2 DEF HalfType
  <1>4. /\ StampNow(tick, worker[tick].timestamp)
        /\ \A i \in 1..Len(samples[tick]) : samples[tick][i].stamp <= worker[tick].timestamp
    BY <1>1 DEF RateInv, Published, Sampled
  <1>5. HalfRead'
    <2>1. worker[tick].timestamp <= worker[tick].timestamp
      BY <1>2
    <2>2. /\ tick # 0 /\ ticked
          /\ half.count # -1 =>
                /\ CountNow(tick, half.count) /\ half.count <= worker[tick].hashCount
                /\ \A i \in 1..Len(samples[tick]) : samples[tick][i].count <= half.count
      BY <1>1, HashrateAssumption DEF RateInv, HalfRead, Hashing
    <2> QED BY <1>1, <1>3, <1>4, <2>1, <2>2 DEF HalfRead, CountNow, StampNow
  <1> QED BY <1>1, <1>3, <1>5, ReadStep

(* A count and a time of one period differ by one batch at most.             *)
LEMMA SampleTrue ==
    ASSUME RateInv, NEW c \in Hashing, NEW n \in Nat, NEW s \in Nat, CountNow(c, n), StampNow(c, s)
    PROVE  s <= now /\ (s # 0 => n - finished[c][s] \in -BatchSizes[c]..BatchSizes[c])
  <1>1. /\ worker[c].mined \in Nat /\ worker[c].at \in Nat /\ BatchSizes[c] \in Nat \ {0} /\ now \in Nat
    BY CounterTypes DEF RateInv
  <1>2. worker[c].at <= now /\ (worker[c].at > 0 => finished[c][worker[c].at] = worker[c].mined)
    BY DEF RateInv, Published
  <1>3. s <= now
    BY <1>1, <1>2 DEF StampNow
  <1>4. s # 0 => finished[c][s] = worker[c].mined \/ finished[c][s] = worker[c].mined - BatchSizes[c]
    BY <1>1, <1>2 DEF StampNow
  <1>5. s # 0 => (finished[c][s] = worker[c].mined \/ n = worker[c].mined \/ n = worker[c].mined - BatchSizes[c])
    BY <1>4 DEF CountNow
  <1>6. n = worker[c].mined \/ n = worker[c].mined - BatchSizes[c]
    BY DEF CountNow
  <1> QED BY <1>1, <1>3, <1>4, <1>6

LEMMA addRate == ASSUME RateInv, add PROVE RateInv'
  <1> DEFINE c == tick  top == ring[tick].top
  <1>1. /\ half \in HalfType /\ half.count # -1 /\ half.stamp # -1 /\ half' = NotRead
        /\ UNCHANGED <<now, worker, ticked, finished>>
        /\ samples' = [samples EXCEPT ![tick] = <<half>> \o samples[tick]]
        /\ tick' = IF tick = CardsHashing THEN 0 ELSE tick + 1
    BY DEF add, RateInv, RateTypes
  <1>2. half \in Sample /\ half.count \in Nat /\ half.stamp \in Nat
    BY <1>1 DEF HalfType, Sample
  <1>3. /\ tick \in Hashing /\ ticked /\ CountNow(tick, half.count) /\ StampNow(tick, half.stamp)
        /\ half.count <= worker[tick].hashCount /\ half.stamp <= worker[tick].timestamp
        /\ \A i \in 1..Len(samples[tick]) : /\ samples[tick][i].count <= half.count
                                            /\ samples[tick][i].stamp <= half.stamp
    <2>1. half # NotRead
      BY <1>1 DEF NotRead
    <2>2. HalfRead /\ tick \in 0..CardsHashing
      BY DEF RateInv, RateTypes
    <2>3. tick # 0 /\ tick \in Hashing
      BY <2>1, <2>2, HashrateAssumption DEF HalfRead, Hashing
    <2> QED BY <1>1, <2>2, <2>3 DEF HalfRead
  <1>4. /\ ring \in [Hashing -> RingType] /\ ring[tick] \in RingType /\ top \in Buckets
        /\ ring[tick].counts \in [Buckets -> Nat] /\ ring[tick].stamps \in [Buckets -> Nat]
    BY <1>3 DEF RateInv, RateTypes, RingType
  <1> DEFINE r == [ring[tick] EXCEPT !.counts = [ring[tick].counts EXCEPT ![top] = half.count],
                                     !.stamps = [ring[tick].stamps EXCEPT ![top] = half.stamp],
                                     !.top = NextTop(top)]
  <1>5. ring' = [ring EXCEPT ![tick] = r]
    BY <1>3, <1>4 DEF add, RingType
  <1>6. r \in RingType
    <2>1. NextTop(top) \in Buckets
      BY <1>4, NextTopBucket
    <2> QED BY <1>2, <1>4, <2>1 DEF RingType
  <1>7. RateTypes'
    <2>1. ring' \in [Hashing -> RingType]
      BY <1>4, <1>5, <1>6
    <2>2. samples' \in [Hashing -> Seq(Sample)]
      <3>1. samples \in [Hashing -> Seq(Sample)] /\ samples[tick] \in Seq(Sample)
        BY <1>3 DEF RateInv, RateTypes
      <3>2. <<half>> \o samples[tick] \in Seq(Sample)
        BY <1>2, <3>1, Prepended
      <3> QED BY <1>1, <3>1, <3>2
    <2>3. tick' \in 0..CardsHashing
      BY <1>1, <1>3, HashrateAssumption DEF Hashing
    <2>4. half' \in HalfType
      BY <1>1 DEF NotRead, HalfType
    <2> QED BY <1>1, <2>1, <2>2, <2>3, <2>4 DEF RateInv, RateTypes
  <1>8. HalfRead'
    BY <1>1, <1>3 DEF HalfRead, NotRead
  <1> HIDE DEF r
  <1>9. ASSUME NEW d \in Hashing, d # tick PROVE Published(d)' /\ Sampled(d)' /\ Kept(d)'
    <2>1. ring'[d] = ring[d] /\ samples'[d] = samples[d]
      BY <1>1, <1>5, <1>9 DEF RateInv, RateTypes
    <2>2. Lag(d)' <= Lag(d)
      BY <1>1, <1>3, <1>9, HashrateAssumption DEF Lag, Hashing
    <2> QED BY <1>1, <2>1, <2>2, CardUntouched DEF RateInv
  <1>10. /\ samples[tick] \in Seq(Sample) /\ samples'[tick] \in Seq(Sample) /\ samples'[tick][1] = half
         /\ Len(samples[tick]) \in Nat /\ Len(samples'[tick]) = Len(samples[tick]) + 1
         /\ \A i \in 1..Len(samples[tick]) : samples'[tick][i + 1] = samples[tick][i]
    <2>1. samples \in [Hashing -> Seq(Sample)] /\ samples[tick] \in Seq(Sample)
      BY <1>3 DEF RateInv, RateTypes
    <2>2. samples'[tick] = <<half>> \o samples[tick]
      BY <1>1, <1>3, <2>1
    <2> QED BY <1>2, <2>1, <2>2, Prepended
  <1>11. \A k \in 1..Len(samples'[tick]) :
            k = 1 \/ (k - 1 \in 1..Len(samples[tick]) /\ samples'[tick][k] = samples[tick][k - 1])
    <2> SUFFICES ASSUME NEW k \in 1..Len(samples'[tick]), k # 1
                 PROVE  k - 1 \in 1..Len(samples[tick]) /\ samples'[tick][k] = samples[tick][k - 1]
      OBVIOUS
    <2>1. k - 1 \in 1..Len(samples[tick]) /\ (k - 1) + 1 = k
      BY <1>10
    <2>2. samples'[tick][(k - 1) + 1] = samples[tick][k - 1]
      BY <1>10, <2>1
    <2> QED BY <2>1, <2>2
  <1>12. ASSUME NEW e, e = tick PROVE Published(e)' /\ Sampled(e)' /\ Kept(e)'
    <2>1. Published(e)'
      BY <1>1, <1>3, <1>12 DEF RateInv, Published, CountNow, StampNow
    <2>2. Lag(e)' = 0 /\ Lag(tick) = 1
      BY <1>1, <1>3, <1>12, HashrateAssumption DEF Lag, Hashing
    <2>3. Sampled(e)'
      <3> SUFFICES ASSUME NEW k \in 1..Len(samples'[tick])
                   PROVE  LET x == samples'[tick][k]
                          IN  /\ x.count <= worker[tick].hashCount /\ x.stamp <= worker[tick].timestamp
                              /\ x.stamp <= now - k + 1 - 0
                              /\ x.stamp # 0 => x.count - finished[tick][x.stamp] \in -BatchSizes[tick]..BatchSizes[tick]
                              /\ \A j \in 1..k : /\ x.count <= samples'[tick][j].count
                                                 /\ x.stamp <= samples'[tick][j].stamp
        BY <1>1, <1>12, <2>2 DEF Sampled
      <3>1. now \in Nat
        BY DEF RateInv, RateTypes
      <3>2. CASE k = 1
        <4>1. half.stamp <= now /\ (half.stamp # 0 =>
                  half.count - finished[tick][half.stamp] \in -BatchSizes[tick]..BatchSizes[tick])
          BY <1>2, <1>3, SampleTrue
        <4> QED BY <1>2, <1>3, <1>10, <3>1, <3>2, <4>1
      <3>3. CASE k # 1
        <4> DEFINE i == k - 1
        <4>1. i \in 1..Len(samples[tick]) /\ samples'[tick][k] = samples[tick][i] /\ k = i + 1 /\ i \in Nat
          BY <1>11, <3>3
        <4>2. samples[tick][i].count \in Nat /\ samples[tick][i].stamp \in Nat
          BY <1>3, <4>1, SampleTypes DEF RateInv
        <4> HIDE DEF i
        <4>3. /\ samples[tick][i].count <= worker[tick].hashCount
              /\ samples[tick][i].stamp <= worker[tick].timestamp
              /\ samples[tick][i].stamp <= now - i + 1 - 1
              /\ samples[tick][i].stamp # 0 =>
                    samples[tick][i].count - finished[tick][samples[tick][i].stamp] \in -BatchSizes[tick]..BatchSizes[tick]
              /\ \A j \in 1..i : /\ samples[tick][i].count <= samples[tick][j].count
                                 /\ samples[tick][i].stamp <= samples[tick][j].stamp
          BY <1>3, <2>2, <4>1 DEF RateInv, Sampled
        <4>4. samples[tick][i].stamp <= now - k + 1 - 0
          BY <3>1, <4>1, <4>2, <4>3
        <4>5. ASSUME NEW j \in 1..k
              PROVE  /\ samples[tick][i].count <= samples'[tick][j].count
                     /\ samples[tick][i].stamp <= samples'[tick][j].stamp
          <5>1. CASE j = 1
            BY <1>3, <1>10, <4>1, <5>1
          <5>2. CASE j # 1
            <6>1. j - 1 \in 1..i /\ j \in 1..Len(samples'[tick])
              BY <4>1, <5>2
            <6>2. samples'[tick][j] = samples[tick][j - 1]
              BY <1>11, <5>2, <6>1
            <6> QED BY <4>3, <6>1, <6>2
          <5> QED BY <5>1, <5>2
        <4> QED BY <4>1, <4>3, <4>4, <4>5
      <3> QED BY <3>2, <3>3
    <2>4. Kept(e)'
      <3>1. /\ ring'[tick].top = NextTop(top)
            /\ ring'[tick].counts = [ring[tick].counts EXCEPT ![top] = half.count]
            /\ ring'[tick].stamps = [ring[tick].stamps EXCEPT ![top] = half.stamp]
        BY <1>3, <1>4, <1>5 DEF r
      <3> SUFFICES ASSUME NEW k \in 1..kBucketSize
                   PROVE  LET b == Back(NextTop(top), k)
                          IN  /\ ring'[tick].counts[b] = IF k <= Len(samples'[tick]) THEN samples'[tick][k].count ELSE 0
                              /\ ring'[tick].stamps[b] = IF k <= Len(samples'[tick]) THEN samples'[tick][k].stamp ELSE 0
        BY <1>12, <3>1 DEF Kept, Back
      <3>2. kBucketSize \in Nat
        BY HashrateAssumption
      <3>3. CASE k = 1
        BY <1>4, <1>10, <3>1, <3>3, BackShifts
      <3>4. CASE k # 1
        <4> DEFINE i == k - 1  b == Back(top, i)
        <4>1. i \in 1..kBucketSize - 1 /\ i \in 1..kBucketSize /\ k = i + 1
          BY <3>2, <3>4
        <4>2. Back(NextTop(top), k) = b /\ b # top /\ b \in Buckets
          <5>1. Back(NextTop(top), i + 1) = b /\ b # top
            BY <1>4, <4>1, BackShifts
          <5>2. b \in Buckets
            BY <1>4, <4>1, BackBucket
          <5> QED BY <4>1, <5>1, <5>2
        <4>3. ring'[tick].counts[b] = ring[tick].counts[b] /\ ring'[tick].stamps[b] = ring[tick].stamps[b]
          BY <1>4, <3>1, <4>2
        <4>4. /\ ring[tick].counts[b] = IF i <= Len(samples[tick]) THEN samples[tick][i].count ELSE 0
              /\ ring[tick].stamps[b] = IF i <= Len(samples[tick]) THEN samples[tick][i].stamp ELSE 0
          BY <1>3, <4>1 DEF RateInv, Kept
        <4> HIDE DEF b, i
        <4>5. i <= Len(samples[tick]) <=> k <= Len(samples'[tick])
          BY <1>10, <4>1
        <4>6. i <= Len(samples[tick]) => samples'[tick][k] = samples[tick][i]
          BY <1>10, <4>1
        <4> QED BY <4>2, <4>3, <4>4, <4>5, <4>6
      <3> QED BY <3>3, <3>4
    <2> QED BY <2>1, <2>3, <2>4
  <1>13. \A d \in Hashing : Published(d)' /\ Sampled(d)' /\ Kept(d)'
    BY <1>9, <1>12
  <1> QED BY <1>7, <1>8, <1>13 DEF RateInv

-----------------------------------------------------------------------------
(* Where calc stops, in the samples of the ring or in any others.            *)
Stops(seq, window) == {i \in DOMAIN seq : seq[i].stamp = 0 \/ ~Within(seq[i].stamp, window)}
FirstStop(seq, window) ==
    IF Stops(seq, window) = {} THEN 0
    ELSE CHOOSE i \in Stops(seq, window) : \A j \in Stops(seq, window) : i <= j

(* The rate, by where calc stops. *)
LEMMA RateByStop ==
    ASSUME NEW seq, NEW window
    PROVE  LET first == FirstStop(seq, window)
           IN  Rate(seq, window) =
                 IF first <= 1 \/ seq[first].stamp = 0 \/ seq[1].stamp = seq[first - 1].stamp
                 THEN NoRate
                 ELSE [known |-> TRUE, newest |-> seq[1].stamp, oldest |-> seq[first - 1].stamp,
                       hashes |-> seq[1].count - seq[first - 1].count]
  BY DEF Rate, FirstStop, Stops

(* A set of natural numbers that is not empty has a least element. *)
LEMMA LeastExists ==
    ASSUME NEW T, T \subseteq Nat, T # {}
    PROVE  \E i \in T : \A j \in T : i <= j
  <1>1. PICK i \in T : \A j \in T : ~(<<j, i>> \in OpToRel(<, Nat))
    BY NatLessThanWellFounded, WFMin
  <1>2. ASSUME NEW j \in T PROVE i <= j
    <2>1. i \in Nat /\ j \in Nat
      OBVIOUS
    <2>2. ~(j < i)
      BY <1>1, <2>1 DEF OpToRel
    <2> QED BY <2>1, <2>2
  <1> QED BY <1>2

(* calc stops at the first place where it can. *)
LEMMA FirstStopLeast ==
    ASSUME NEW n \in Nat, NEW seq, DOMAIN seq = 1..n, NEW window, Stops(seq, window) # {}
    PROVE  /\ FirstStop(seq, window) \in Stops(seq, window)
           /\ \A j \in Stops(seq, window) : FirstStop(seq, window) <= j
  <1>1. Stops(seq, window) \subseteq Nat
    BY DEF Stops
  <1>2. \E i \in Stops(seq, window) : \A j \in Stops(seq, window) : i <= j
    BY <1>1, LeastExists
  <1> HIDE DEF Stops
  <1> QED BY <1>2 DEF FirstStop

LEMMA FirstStopAt ==
    ASSUME NEW n \in Nat, NEW seq, DOMAIN seq = 1..n, NEW window,
           NEW f \in Stops(seq, window), \A j \in 1..f - 1 : j \notin Stops(seq, window)
    PROVE  FirstStop(seq, window) = f
  <1> DEFINE g == FirstStop(seq, window)
  <1>1. g \in Stops(seq, window) /\ g <= f
    BY FirstStopLeast
  <1>2. g \in 1..n /\ f \in 1..n
    BY <1>1 DEF Stops
  <1> QED BY <1>1, <1>2

(* The samples that calc can look at are those of the ring, and behind them   *)
(* the ring is empty.                                                         *)
LEMMA RingHolds ==
    ASSUME RateInv, NEW c \in Hashing
    PROVE  /\ DOMAIN InRing(c) = 1..kBucketSize - 1 /\ kBucketSize - 1 \in Nat
           /\ DOMAIN samples[c] = 1..Len(samples[c]) /\ Len(samples[c]) \in Nat
           /\ \A i \in 1..kBucketSize - 1 :
                 /\ i <= Len(samples[c]) => /\ InRing(c)[i].count = samples[c][i].count
                                            /\ InRing(c)[i].stamp = samples[c][i].stamp
                 /\ i > Len(samples[c]) => InRing(c)[i].stamp = 0
  <1>1. kBucketSize \in Nat \ {0} /\ kBucketSize - 1 \in Nat
    BY HashrateAssumption
  <1>2. samples[c] \in Seq(Sample)
    BY DEF RateInv, RateTypes
  <1>3. Kept(c)
    BY DEF RateInv
  <1>4. ASSUME NEW i \in 1..kBucketSize - 1
        PROVE  /\ InRing(c)[i].count = IF i <= Len(samples[c]) THEN samples[c][i].count ELSE 0
               /\ InRing(c)[i].stamp = IF i <= Len(samples[c]) THEN samples[c][i].stamp ELSE 0
    <2>1. i \in 1..kBucketSize
      BY <1>1
    <2>2. /\ InRing(c)[i].count = ring[c].counts[Back(ring[c].top, i)]
          /\ InRing(c)[i].stamp = ring[c].stamps[Back(ring[c].top, i)]
      BY DEF InRing, Back
    <2> QED BY <1>3, <2>1, <2>2 DEF Kept
  <1>5. Len(samples[c]) \in Nat /\ DOMAIN samples[c] = 1..Len(samples[c])
    BY <1>2
  <1>6. DOMAIN InRing(c) = 1..kBucketSize - 1
    BY DEF InRing
  <1>7. ASSUME NEW i \in 1..kBucketSize - 1, i > Len(samples[c]) PROVE ~(i <= Len(samples[c]))
    BY <1>5, <1>7
  <1> QED BY <1>1, <1>4, <1>5, <1>6, <1>7

(* One sample in a period: the one at position window + 2 is too old.         *)
LEMMA TooOld ==
    ASSUME RateInv, NEW c \in Hashing, NEW window \in Windows, window + 2 <= Len(samples[c])
    PROVE  window + 2 \in Stops(samples[c], window)
  <1>1. window \in Nat /\ Len(samples[c]) \in Nat /\ DOMAIN samples[c] = 1..Len(samples[c])
    BY HashrateAssumption, RingHolds
  <1>2. window + 2 \in 1..Len(samples[c])
    BY <1>1
  <1>3. samples[c][window + 2].stamp <= now - (window + 2) + 1 - Lag(c)
    BY <1>2 DEF RateInv, Sampled
  <1>4. now \in Nat /\ samples[c][window + 2].stamp \in Nat
    BY <1>2, SampleTypes DEF RateInv
  <1>5. Lag(c) \in {0, 1}
    BY DEF Lag
  <1>6. ~(now - samples[c][window + 2].stamp <= window)
    BY <1>1, <1>3, <1>4, <1>5
  <1> QED BY <1>1, <1>2, <1>6 DEF Stops, Within

(* The ring's rate is that of all samples. *)
LEMMA SuffixSame ==
    ASSUME RateInv, NEW c \in Hashing, NEW window \in Windows
    PROVE  calc(c, window) = Rate(samples[c], window)
  <1> DEFINE R == InRing(c)  S == samples[c]  n == Len(samples[c])  m == kBucketSize - 1
  <1>1. /\ DOMAIN R = 1..m /\ m \in Nat /\ DOMAIN S = 1..n /\ n \in Nat
        /\ \A i \in 1..m : i <= n => R[i].count = S[i].count /\ R[i].stamp = S[i].stamp
        /\ \A i \in 1..m : i > n => R[i].stamp = 0
    BY RingHolds
  <1>2. window \in Nat /\ window + 2 <= m
    BY HashrateAssumption
  <1>3. window + 2 <= n => window + 2 \in Stops(S, window)
    BY TooOld
  <1> HIDE DEF R, S, n, m
  <1>4. \A i \in 1..m : i <= n => (i \in Stops(R, window) <=> i \in Stops(S, window))
    BY <1>1 DEF Stops
  <1>5. CASE Stops(S, window) = {}
    <2>1. n + 1 \in 1..m /\ n < n + 1
      BY <1>1, <1>2, <1>3, <1>5
    <2>2. R[n + 1].stamp = 0 /\ n + 1 \in Stops(R, window)
      BY <1>1, <2>1 DEF Stops
    <2>3. \A j \in 1..(n + 1) - 1 : j \notin Stops(R, window)
      BY <1>1, <1>4, <1>5, <2>1
    <2>4. FirstStop(R, window) = n + 1
      BY <1>1, <2>2, <2>3, FirstStopAt
    <2>5. Rate(R, window) = NoRate
      BY <2>2, <2>4, RateByStop
    <2>6. FirstStop(S, window) = 0
      BY <1>5 DEF FirstStop
    <2>7. Rate(S, window) = NoRate
      BY <2>6, RateByStop
    <2> QED BY <2>5, <2>7 DEF calc, R, S
  <1>6. CASE Stops(S, window) # {}
    <2> DEFINE f == FirstStop(S, window)
    <2>1. f \in Stops(S, window) /\ \A j \in Stops(S, window) : f <= j
      BY <1>1, <1>6, FirstStopLeast
    <2>2. f \in 1..n
      BY <1>1, <2>1 DEF Stops
    <2> HIDE DEF f
    <2>3. f \in 1..m
      <3>1. CASE window + 2 <= n
        BY <1>1, <1>2, <1>3, <2>1, <2>2, <3>1
      <3>2. CASE ~(window + 2 <= n)
        BY <1>1, <1>2, <2>2, <3>2
      <3> QED BY <3>1, <3>2
    <2>4. f \in Stops(R, window)
      BY <1>4, <2>1, <2>2, <2>3
    <2>5. ASSUME NEW j \in 1..f - 1 PROVE j \notin Stops(R, window)
      <3>1. j \in 1..m /\ j <= n /\ ~(f <= j)
        BY <1>1, <2>2, <2>3
      <3> QED BY <1>4, <2>1, <3>1
    <2>6. FirstStop(R, window) = f
      BY <1>1, <2>4, <2>5, FirstStopAt
    <2>7. \A i \in 1..f : R[i].count = S[i].count /\ R[i].stamp = S[i].stamp
      BY <1>1, <2>2, <2>3
    <2>8. CASE f <= 1
      BY <2>6, <2>8, RateByStop DEF calc, R, S, f
    <2>9. CASE ~(f <= 1)
      <3>1. 1 \in 1..f /\ f - 1 \in 1..f /\ f \in 1..f
        BY <2>2, <2>9
      <3>2. /\ R[1].count = S[1].count /\ R[1].stamp = S[1].stamp /\ R[f].stamp = S[f].stamp
            /\ R[f - 1].count = S[f - 1].count /\ R[f - 1].stamp = S[f - 1].stamp
        BY <2>7, <3>1
      <3>3. Rate(R, window) = IF f <= 1 \/ R[f].stamp = 0 \/ R[1].stamp = R[f - 1].stamp
                              THEN NoRate
                              ELSE [known |-> TRUE, newest |-> R[1].stamp, oldest |-> R[f - 1].stamp,
                                    hashes |-> R[1].count - R[f - 1].count]
        BY <2>6, RateByStop
      <3>4. Rate(S, window) = IF f <= 1 \/ S[f].stamp = 0 \/ S[1].stamp = S[f - 1].stamp
                              THEN NoRate
                              ELSE [known |-> TRUE, newest |-> S[1].stamp, oldest |-> S[f - 1].stamp,
                                    hashes |-> S[1].count - S[f - 1].count]
        BY RateByStop DEF f
      <3> QED BY <3>2, <3>3, <3>4 DEF calc, R, S
    <2> QED BY <2>8, <2>9
  <1> QED BY <1>5, <1>6

(* The rate of any samples that keep the invariant. *)
LEMMA CountsTrue ==
    ASSUME RateInv, NEW c \in Hashing, NEW window \in Windows, Rate(samples[c], window).known
    PROVE  LET r == Rate(samples[c], window)
               true == finished[c][r.newest] - finished[c][r.oldest]
           IN  /\ r.newest - r.oldest \in 1..window /\ r.hashes >= 0
               /\ r.hashes - true \in -(2 * BatchSizes[c])..(2 * BatchSizes[c])
  <1> DEFINE S == samples[c]  n == Len(samples[c])  f == FirstStop(samples[c], window)
             F == finished[c]  B == BatchSizes[c]
  <1>1. DOMAIN S = 1..n /\ n \in Nat /\ window \in Nat
    BY RingHolds, HashrateAssumption
  <1>2. /\ ~(f <= 1) /\ S[1].stamp # S[f - 1].stamp
        /\ Rate(S, window) = [known |-> TRUE, newest |-> S[1].stamp, oldest |-> S[f - 1].stamp,
                              hashes |-> S[1].count - S[f - 1].count]
    BY RateByStop DEF NoRate
  <1>3. f \in Stops(S, window) /\ \A j \in Stops(S, window) : f <= j
    <2>1. Stops(S, window) # {}
      BY <1>2 DEF FirstStop
    <2> QED BY <1>1, <2>1, FirstStopLeast
  <1>4. f \in 1..n
    BY <1>1, <1>3 DEF Stops
  <1> HIDE DEF f
  <1>5. /\ f - 1 \in 1..n /\ 1 \in 1..n /\ 1 \in 1..f - 1 /\ ~(f <= 1) /\ ~(f <= f - 1)
    BY <1>1, <1>2, <1>4
  <1>6. 1 \notin Stops(S, window) /\ f - 1 \notin Stops(S, window)
    BY <1>3, <1>5
  <1> DEFINE new == S[1]  old == S[f - 1]
  <1>7. /\ new.stamp # 0 /\ now - new.stamp <= window /\ old.stamp # 0 /\ now - old.stamp <= window
    BY <1>1, <1>5, <1>6 DEF Stops, Within
  <1>8. /\ new.count \in Nat /\ new.stamp \in Nat /\ old.count \in Nat /\ old.stamp \in Nat /\ now \in Nat
    BY <1>5, SampleTypes DEF RateInv
  <1>9. /\ old.count <= new.count /\ old.stamp <= new.stamp
        /\ new.count - F[new.stamp] \in -B..B /\ old.count - F[old.stamp] \in -B..B
        /\ new.stamp <= now - 1 + 1 - Lag(c)
    BY <1>5, <1>7 DEF RateInv, Sampled
  <1>10. Lag(c) \in {0, 1} /\ B \in Nat
    BY CounterTypes DEF Lag, RateInv
  <1>11. new.stamp <= now
    BY <1>8, <1>9, <1>10
  <1>12. F \in [1..MaxTime -> Nat] /\ now \in 1..MaxTime /\ MaxTime \in Nat
    BY HashrateAssumption DEF RateInv, RateTypes
  <1>13. new.stamp \in 1..MaxTime /\ old.stamp \in 1..MaxTime
    <2>1. new.stamp # 0 /\ old.stamp # 0 /\ new.stamp <= now /\ old.stamp <= new.stamp
      BY <1>7, <1>9, <1>11
    <2>2. new.stamp \in Nat /\ old.stamp \in Nat
      BY <1>8
    <2>3. now <= MaxTime /\ now \in Nat /\ MaxTime \in Nat
      BY <1>8, <1>12
    <2> HIDE DEF new, old
    <2> QED BY <2>1, <2>2, <2>3
  <1>14. F[new.stamp] \in Nat /\ F[old.stamp] \in Nat
    BY <1>12, <1>13
  <1> HIDE DEF S, F, B, n
  <1>15. new.stamp # old.stamp
    BY <1>2
  <1> HIDE DEF new, old
  <1>16. new.stamp - old.stamp \in 1..window
    BY <1>1, <1>7, <1>8, <1>9, <1>11, <1>15, SMTT(30)
  <1>17. /\ new.count - old.count >= 0
         /\ (new.count - old.count) - (F[new.stamp] - F[old.stamp]) \in -(2 * B)..(2 * B)
    BY <1>8, <1>9, <1>10, <1>14
  <1>18. /\ Rate(S, window).newest = new.stamp /\ Rate(S, window).oldest = old.stamp
         /\ Rate(S, window).hashes = new.count - old.count
    BY <1>2 DEF new, old
  <1> QED BY <1>16, <1>17, <1>18 DEF S, F, B

(* In all behaviours a sample's count and time differ by one batch at most,  *)
(* and the ring holds the newest ones: storeStats and onTick, in any order.  *)
THEOREM RateInvariance == HashrateSpec => []RateInv
  <1>1. RateInv /\ [HashrateNext]_rateVars => RateInv'
    <2> SUFFICES ASSUME RateInv, [HashrateNext]_rateVars PROVE RateInv'
      OBVIOUS
    <2>1. ASSUME NEW c \in Hashing, onReady(c) \/ FinishBatch(c) \/ storeStats(c) PROVE RateInv'
      BY <2>1, onReadyRate, FinishBatchRate, storeStatsRate
    <2>2. CASE UNCHANGED rateVars
      <3>1. RateTypes' /\ HalfRead'
        BY <2>2 DEF rateVars, RateInv, RateTypes, HalfRead, CountNow, StampNow
      <3>2. ASSUME NEW c \in Hashing PROVE Lag(c)' <= Lag(c)
        BY <2>2 DEF rateVars, Lag
      <3> QED BY <2>2, <3>1, <3>2, CardUntouched DEF rateVars, RateInv
    <2> QED BY <2>1, <2>2, PassRate, BeginTickRate, GiveUpRate, ReadCountRate, ReadStampRate, addRate
            DEF HashrateNext
  <1> QED BY InitRate, <1>1, PTL DEF HashrateSpec

(* The rate that Hashrate::calc shows is of hashes done within its window,    *)
(* wrong by two batches at most, and the ring is long enough for it: for any  *)
(* number of GPU threads, any sizes of their batches and of the ring, and     *)
(* whatever the order in which counts and times are stored and read.          *)
THEOREM RateTrue == HashrateSpec => []RateIsTrue
  <1>1. RateInv => RateIsTrue
    <2> SUFFICES ASSUME RateInv PROVE CountsWindow /\ RingSuffices
      BY DEF RateIsTrue
    <2>1. RingSuffices
      BY SuffixSame DEF RingSuffices
    <2>2. CountsWindow
      BY SuffixSame, CountsTrue DEF CountsWindow
    <2> QED BY <2>1, <2>2
  <1> QED BY RateInvariance, <1>1, PTL
=============================================================================
