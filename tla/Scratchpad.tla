----------------------------- MODULE Scratchpad -----------------------------
(***************************************************************************)
(* A launch on a card from the input to the nonces it reports, without the *)
(* main loop: cryptonight_extra_gpu_prepare, cryptonight_core_gpu_phase1,  *)
(* cryptonight_core_gpu_phase3, cryptonight_extra_gpu_final and the calls  *)
(* of them in nvidia/cuda_core.cu and nvidia/cuda_extra.cu, beside         *)
(* cn_explode_scratchpad and cn_implode_scratchpad of the CPU in           *)
(* crypto/CryptoNight_x86.h.                                               *)
(*                                                                         *)
(* One hash is followed by its blocks, eight to a row of the scratchpad.   *)
(* A block is symbolic, ten rounds of AES are one operation on it.  Of the *)
(* other hashes of the launch it is only told which are below the target.  *)
(***************************************************************************)
EXTENDS Words, Sequences, FiniteSets

CONSTANTS
    Rows,           \* bound: rows of the scratchpad
    PreRounds,      \* bound: the rounds before and after in cn-heavy, 16 in the code
    LaunchSize,     \* bound: hashes of a launch
    MaxResults,     \* bound: nonces a launch reports, 10 in the code
    Nonces          \* bound: how many nonces there are, 2^32 in the code

ASSUME ScratchpadAssumption ==
    /\ Rows \in {4, 8, 16} /\ PreRounds \in Nat /\ LaunchSize \in Nat /\ MaxResults \in Nat
    /\ Nonces \in Nat \ {0}

VARIABLES
    use,            \* which kernels: "plain", "heavy" or "gpu"
    split,          \* bfactorOneThree
    stage,          \* the next launch
    part,           \* and which one of its kind
    state,          \* blocks 4..11 of d_ctx_state
    state2,         \* and of d_ctx_state2
    pad,            \* d_long_state
    startNonce, below, resnonce     \* the first nonce; the hashes below the target; the report

padVars == <<use, split, stage, part, state, state2, pad, startNonce, below, resnonce>>

EightBlocks == 0..7
Line(name) == [c \in EightBlocks |-> {<<name, c>>}]
NoPad == [r \in 0..Rows - 1 |-> Line("nothing")]
-----------------------------------------------------------------------------
(* Ten rounds with the keys of either set, and what cn-heavy adds. *)
Rounds10(set, x) == {<<"rounds", set, x>>}
RoundsOf(set, text) == [c \in EightBlocks |-> Rounds10(set, text[c])]
mix_and_propagate(x) == [c \in EightBlocks |-> Xor(x[c], x[(c + 1) % 8])]
Stirred(set, text) ==
    LET f[n \in 0..PreRounds] ==
          IF n = 0 THEN text ELSE mix_and_propagate(RoundsOf(set, f[n - 1]))
    IN  f[PreRounds]

(* cn_explode_scratchpad *)
Exploded(heavy, input) ==
    LET f[r \in 0..Rows] ==
          IF r = 0 THEN IF heavy THEN Stirred(1, input) ELSE input ELSE RoundsOf(1, f[r - 1])
    IN  [r \in 0..Rows - 1 |-> f[r + 1]]

(* cn_implode_scratchpad *)
Imploded(heavy, memory, output) ==
    LET Taken(x, r) ==
          LET y == RoundsOf(2, [c \in EightBlocks |-> Xor(memory[r % Rows][c], x[c])])
          IN  IF heavy THEN mix_and_propagate(y) ELSE y
        f[r \in 0..2 * Rows] == IF r = 0 THEN output ELSE Taken(f[r - 1], r - 1)
    IN  IF heavy THEN Stirred(2, f[2 * Rows]) ELSE f[Rows]
-----------------------------------------------------------------------------
(* The keys: eight words follow from eight.  SBox is one byte of a word, sent *)
(* through the table and put in another place. *)
SBox(from, to, x) == <<"sbox", from, to, x>>
Rcon(r) == {<<"rcon", r>>}

(* aes_genkey_sub: _mm_aeskeygenassist_si128 is the word and the word rotated. *)
SubWord(x)    == {SBox(b, b, x) : b \in 0..3}
Rotated(x, r) == Xor({SBox(b, (b + 3) % 4, x) : b \in 0..3}, Rcon(r))
sl_xor(x) == [i \in 0..3 |-> IF i = 0 THEN x[0] ELSE IF i = 1 THEN Xor(x[0], x[1])
                             ELSE IF i = 2 THEN Xor(Xor(x[0], x[1]), x[2])
                             ELSE Xor(Xor(x[0], x[1]), Xor(x[2], x[3]))]
aes_genkey_sub(key, r) ==
    LET lo == [i \in 0..3 |-> Xor(sl_xor(key)[i], Rotated(key[7], r))]
        hi == [i \in 0..3 |-> Xor(sl_xor([j \in 0..3 |-> key[4 + j]])[i], SubWord(lo[3]))]
    IN  [i \in 0..7 |-> IF i < 4 THEN lo[i] ELSE hi[i - 4]]

(* cryptonight_aes_set_key: word by word, rotated before the table. *)
SubRotated(x) == {SBox((b + 1) % 4, b, x) : b \in 0..3}
cryptonight_aes_set_key(key, r) ==
    LET k[i \in 0..15] ==
          IF i < 8 THEN key[i]
          ELSE Xor(k[i - 8], CASE i % 8 = 0 -> Xor(SubRotated(k[i - 1]), Rcon(r))
                               [] i % 8 = 4 -> SubWord(k[i - 1])
                               [] OTHER -> k[i - 1])
    IN  [i \in 0..7 |-> k[i + 8]]
-----------------------------------------------------------------------------
(* The input with the nonce of a hash at byte 39. *)
HashedNonce(thread) == (startNonce + thread) % Nonces
heavyPad == use = "heavy"

PadInit ==
    /\ use \in {"plain", "heavy", "gpu"}
    /\ split \in 0..2
    /\ stage = "prepare" /\ part = 0
    /\ state = Line("state") /\ state2 = Line("nothing") /\ pad = NoPad
    /\ startNonce \in 0..Nonces - 1
    /\ below = {} /\ resnonce = <<>>

Launched(next) ==
    /\ stage' = next
    /\ part' = 0
    /\ UNCHANGED <<use, split, startNonce>>

(* cryptonight_extra_gpu_prepare: cn-heavy has a second state for phase 1. *)
Prepare ==
    /\ stage = "prepare"
    /\ state2' = IF heavyPad THEN Stirred(1, state) ELSE state2
    /\ Launched(IF use = "gpu" THEN "main" ELSE "phase1")
    /\ UNCHANGED <<state, pad, below, resnonce>>

(* The kernels of phase 1 and 3 are split in 2^split launches. *)
Batch == Rows \div (2 ^ split)
partcountOneThree == 2 ^ split
SplitLaunch(count, next) ==
    /\ part < count
    /\ part' = IF part + 1 = count THEN 0 ELSE part + 1
    /\ stage' = IF part + 1 = count THEN next ELSE stage
    /\ UNCHANGED <<use, split, startNonce, below, resnonce>>

(* cryptonight_core_gpu_phase1: each of eight threads has a column; a launch
   goes on with the last row of the one before. *)
Phase1 ==
    /\ stage = "phase1"
    /\ SplitLaunch(partcountOneThree, "main")
    /\ LET start == part * Batch
           text == IF part # 0 THEN pad[start - 1] ELSE IF heavyPad THEN state2 ELSE state
           f[i \in start..start + Batch] == IF i = start THEN text ELSE RoundsOf(1, f[i - 1])
       IN  pad' = [r \in DOMAIN pad |-> IF r \in start..start + Batch - 1 THEN f[r + 1] ELSE pad[r]]
    /\ UNCHANGED <<state, state2>>

(* The main loop leaves any scratchpad. *)
Main ==
    /\ stage = "main"
    /\ pad' = [r \in DOMAIN pad |-> [c \in EightBlocks |-> {<<"scrambled", r, c>>}]]
    /\ Launched("phase3")
    /\ UNCHANGED <<state, state2, below, resnonce>>

(* Mutant of Phase3Launches: cn-heavy goes over the scratchpad once. *)
Phase3LaunchesOnce == partcountOneThree

(* cn-heavy, and cn/gpu that uses its kernel, go over the scratchpad twice. *)
Phase3Launches == IF use = "plain" THEN partcountOneThree ELSE 2 * partcountOneThree

(* cryptonight_core_gpu_phase3: with the word of the next thread. *)
Phase3 ==
    /\ stage = "phase3"
    /\ SplitLaunch(Phase3Launches, "final")
    /\ LET start == (part % partcountOneThree) * Batch
           f[i \in start..start + Batch] ==
             IF i = start THEN state
             ELSE LET text == RoundsOf(2, [c \in EightBlocks |-> Xor(f[i - 1][c], pad[i - 1][c])])
                  IN  IF use = "plain" THEN text ELSE [c \in EightBlocks |-> Xor(text[c], text[(c + 1) % 8])]
       IN  state' = f[start + Batch]
    /\ UNCHANGED <<state2, pad>>

(* atomicInc gives each hash a place; the first ones are kept, and the host
   adds the first nonce. *)
Report(order) ==
    LET rescount == IF Len(order) > MaxResults THEN MaxResults ELSE Len(order)
    IN  [i \in 1..rescount |-> HashedNonce(order[i])]

Orders(S) == {o \in [1..Cardinality(S) -> S] : \A i, j \in DOMAIN o : i # j => o[i] # o[j]}

(* cryptonight_extra_gpu_final and cryptonight_gpu_extra_gpu_final, then
   cryptonight_extra_cpu_final. *)
Final ==
    /\ stage = "final"
    /\ state' = IF use = "plain" THEN state ELSE Stirred(2, state)
    /\ \E S \in SUBSET (0..LaunchSize - 1) :
        /\ below' = S
        /\ \E order \in Orders(S) : resnonce' = Report(order)
    /\ Launched("done")
    /\ UNCHANGED <<state2, pad>>

PadNext == Prepare \/ Phase1 \/ Main \/ Phase3 \/ Final
PadSpec == PadInit /\ [][PadNext]_padVars
-----------------------------------------------------------------------------
(* However the launches are split, the main loop starts with the scratchpad  *)
(* that the CPU starts it with, and what is hashed at the end is what the    *)
(* CPU would have hashed; both expand a key to the same round keys.          *)
ScratchpadLikeCpu ==
    /\ stage = "main" /\ use # "gpu" => pad = Exploded(heavyPad, state)
    /\ stage = "done" => state = Imploded(use # "plain", pad, Line("state"))
    /\ stage = "prepare" =>
        LET key == [i \in 0..7 |-> {<<"key", i>>}]
        IN  \A r \in 0..3 : aes_genkey_sub(key, r) = cryptonight_aes_set_key(key, r)

(* Every nonce that a launch reports is that of a hash below the target and  *)
(* is reported once, though the nonces wrap around; and as many are reported *)
(* as there is room for.                                                     *)
ReportedAreBelow ==
    stage = "done" /\ LaunchSize <= Nonces =>
        /\ \A i \in DOMAIN resnonce : resnonce[i] \in {HashedNonce(t) : t \in below}
        /\ \A i, j \in DOMAIN resnonce : resnonce[i] = resnonce[j] => i = j
        /\ Len(resnonce) = Cardinality(below) \/ Len(resnonce) = MaxResults

(* A launch starts and ends the main loop like the CPU, and reports what the *)
(* CPU would take for shares.                                                *)
LaunchLikeCpu == ScratchpadLikeCpu /\ ReportedAreBelow
=============================================================================
