------------------------------ MODULE Hashrate ------------------------------
(***************************************************************************)
(* The rate that is shown for a card (workers/Hashrate.cpp): each GPU      *)
(* thread publishes its count of hashes and the time of its last batch,    *)
(* the timer of the main loop samples both into a ring, and the rate over  *)
(* a window is computed from the samples of the ring.                      *)
(*                                                                         *)
(* The two are separate atomics without an order between them, so a sample *)
(* may hold the count of one batch and the time of another.                *)
(***************************************************************************)
EXTENDS Integers, SequencesExt

CONSTANTS
    CardsHashing,   \* how many GPU threads
    kBucketSize,    \* the size of the ring, 4096 in the code
    BatchSizes,     \* the hashes of a batch, for each GPU thread
    Windows,        \* the windows, in periods of the timer
    MaxTime         \* bounds the clock, in periods of the timer

ASSUME HashrateAssumption ==
    /\ CardsHashing \in Nat \ {0} /\ kBucketSize \in Nat \ {0, 1} /\ MaxTime \in Nat \ {0}
    /\ BatchSizes \in [1..CardsHashing -> Nat \ {0}]
    /\ \A w \in Windows : w \in Nat /\ w + 3 <= kBucketSize

VARIABLES
    now,        \* the clock
    worker,     \* for each GPU thread: its CudaWorker
    tick,       \* the card that the timer is sampling, 0 between its calls
    half,       \* what has been read of that sample
    ticked,     \* the timer has run in this period
    ring,       \* m_counts, m_timestamps, m_top
    samples,    \* history: all samples of each card
    finished    \* history: the count after the batch of each time

rateVars == <<now, worker, tick, half, ticked, ring, samples, finished>>

Hashing == 1..CardsHashing
Buckets == 0..(kBucketSize - 1)
NotRead == [count |-> -1, stamp |-> -1]

(* m_count, m_hashCount, m_timestamp; and what storeStats has still to store:
   the time it read, and which of the two. *)
NewWorker == [ready |-> FALSE, mined |-> 0, hashCount |-> 0, timestamp |-> 0, at |-> 0, unstored |-> {}]

HashrateInit ==
    /\ now = 1 /\ tick = 0 /\ half = NotRead /\ ticked = FALSE
    /\ worker = [c \in Hashing |-> NewWorker]
    /\ ring = [c \in Hashing |-> [counts |-> [b \in Buckets |-> 0], stamps |-> [b \in Buckets |-> 0], top |-> 0]]
    /\ samples = [c \in Hashing |-> <<>>]
    /\ finished = [c \in Hashing |-> [s \in 1..MaxTime |-> 0]]

(* Nobody takes a whole period between two of its loads or stores; and the
   model has one batch in a period. *)
Pass ==
    /\ now < MaxTime /\ tick = 0 /\ \A c \in Hashing : worker[c].unstored = {}
    /\ now' = now + 1 /\ ticked' = FALSE
    /\ UNCHANGED <<worker, tick, half, ring, samples, finished>>

-----------------------------------------------------------------------------
(* The GPU threads. *)

onReady(c) ==
    /\ ~worker[c].ready
    /\ worker' = [worker EXCEPT ![c].ready = TRUE]
    /\ UNCHANGED <<now, tick, half, ticked, ring, samples, finished>>

(* The end of a batch, up to the reading of the clock in storeStats. *)
FinishBatch(c) ==
    /\ worker[c].ready /\ worker[c].unstored = {} /\ worker[c].at < now
    /\ worker' = [worker EXCEPT ![c].mined = @ + BatchSizes[c], ![c].at = now,
                                ![c].unstored = {"count", "stamp"}]
    /\ finished' = [finished EXCEPT ![c][now] = worker[c].mined + BatchSizes[c]]
    /\ UNCHANGED <<now, tick, half, ticked, ring, samples>>

storeStats(c) ==
    /\ \E what \in worker[c].unstored :
        worker' = [worker EXCEPT ![c].unstored = @ \ {what},
                                 ![c].hashCount = IF what = "count" THEN worker[c].mined ELSE @,
                                 ![c].timestamp = IF what = "stamp" THEN worker[c].at ELSE @]
    /\ UNCHANGED <<now, tick, half, ticked, ring, samples, finished>>

-----------------------------------------------------------------------------
(* The timer. *)

BeginTick ==
    /\ tick = 0 /\ ~ticked
    /\ tick' = 1 /\ ticked' = TRUE
    /\ UNCHANGED <<now, worker, half, ring, samples, finished>>

(* onTick gives up at the first thread that is not there yet. *)
GiveUp ==
    /\ tick # 0 /\ ~worker[tick].ready
    /\ tick' = 0
    /\ UNCHANGED <<now, worker, half, ticked, ring, samples, finished>>

(* The arguments of add, in either order. *)
ReadCount ==
    /\ tick # 0 /\ worker[tick].ready /\ half.count = -1
    /\ half' = [half EXCEPT !.count = worker[tick].hashCount]
    /\ UNCHANGED <<now, worker, tick, ticked, ring, samples, finished>>

ReadStamp ==
    /\ tick # 0 /\ worker[tick].ready /\ half.stamp = -1
    /\ half' = [half EXCEPT !.stamp = worker[tick].timestamp]
    /\ UNCHANGED <<now, worker, tick, ticked, ring, samples, finished>>

NextTop(top) == (top + 1) % kBucketSize

add ==
    /\ half.count # -1 /\ half.stamp # -1
    /\ LET top == ring[tick].top
       IN  ring' = [ring EXCEPT ![tick].counts[top] = half.count, ![tick].stamps[top] = half.stamp,
                                ![tick].top = NextTop(top)]
    /\ samples' = [samples EXCEPT ![tick] = <<half>> \o @]
    /\ half' = NotRead
    /\ tick' = IF tick = CardsHashing THEN 0 ELSE tick + 1
    /\ UNCHANGED <<now, worker, ticked, finished>>

HashrateNext ==
    \/ Pass \/ BeginTick \/ GiveUp \/ ReadCount \/ ReadStamp \/ add
    \/ \E c \in Hashing : onReady(c) \/ FinishBatch(c) \/ storeStats(c)

HashrateSpec == HashrateInit /\ [][HashrateNext]_rateVars

-----------------------------------------------------------------------------
(* calc: the samples from the newest on, up to an empty one or one that is  *)
(* too old; without one that is too old the window is not full.             *)
NoRate == [known |-> FALSE, newest |-> 0, oldest |-> 0, hashes |-> 0]

(* Mutant: the sample that is too old counts as well. *)
WithinLate(stamp, window) == now - stamp <= window + 1
Within(stamp, window) == now - stamp <= window

Rate(seq, window) ==
    LET stop == {i \in DOMAIN seq : seq[i].stamp = 0 \/ ~Within(seq[i].stamp, window)}
        first == IF stop = {} THEN 0 ELSE CHOOSE i \in stop : \A j \in stop : i <= j
    IN  IF first <= 1 \/ seq[first].stamp = 0 \/ seq[1].stamp = seq[first - 1].stamp
        THEN NoRate
        ELSE [known |-> TRUE, newest |-> seq[1].stamp, oldest |-> seq[first - 1].stamp,
              hashes |-> seq[1].count - seq[first - 1].count]

(* The newest is before m_top; the bucket at m_top itself is not looked at. *)
InRing(c) ==
    [i \in 1..(kBucketSize - 1) |->
        LET b == (ring[c].top + kBucketSize - i) % kBucketSize
        IN  [count |-> ring[c].counts[b], stamp |-> ring[c].stamps[b]]]

calc(c, window) == Rate(InRing(c), window)

(* The rate is of hashes done within the window: no less than none, and     *)
(* wrong by no more than the batch that each of its two samples may have    *)
(* too much or too little.                                                  *)
CountsWindow ==
    \A c \in Hashing, window \in Windows :
        LET r == calc(c, window)
            true == finished[c][r.newest] - finished[c][r.oldest]
        IN  r.known =>
                /\ r.newest - r.oldest \in 1..window /\ r.hashes >= 0
                /\ r.hashes - true \in -(2 * BatchSizes[c])..(2 * BatchSizes[c])

(* The ring is long enough: no window needs a sample that has been          *)
(* overwritten, nor meets one that is newer than it should be.              *)
RingSuffices ==
    \A c \in Hashing, window \in Windows : calc(c, window) = Rate(samples[c], window)

(* The rate that is shown is that of the hashes in the window.              *)
RateIsTrue == CountsWindow /\ RingSuffices
=============================================================================
