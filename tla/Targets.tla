------------------------------ MODULE Targets ------------------------------
(***************************************************************************)
(* The target of a job and the difficulty that is counted for its shares:  *)
(* setTarget and toDiff of common/net/Job, actualDiff of net/JobResult.h,  *)
(* and the comparison of CryptoNight::hash.  The pool writes a number in   *)
(* hexadecimal, its lowest byte first, in half the width of the words that *)
(* are compared or in full.  Here a digit is a bit and a byte two of them. *)
(***************************************************************************)
EXTENDS Integers, Sequences, SequencesExt, Functions

CONSTANT HalfDigits     \* bound: 8 in the code

ASSUME TargetsAssumption == HalfDigits \in Nat /\ HalfDigits > 0 /\ HalfDigits % 2 = 0

NoDigit == 2            \* a character that is no digit
Power[n \in 0..(2 * HalfDigits)] == IF n = 0 THEN 1 ELSE 2 * Power[n - 1]
Half == Power[HalfDigits] - 1
Full == Power[2 * HalfDigits] - 1

VARIABLES
    text,       \* what the pool sends
    stack,      \* what is where setTarget puts its array
    result,     \* "no" until setTarget returns, then its result
    m_target, m_diff,
    word        \* the part of a hash that is compared, or -1

targetVars == <<text, stack, result, m_target, m_diff, word>>

(* Texts(n): n characters.  parseJob gives setTarget no null pointer. *)
Texts(n) == [1..n -> {0, 1, NoDigit}]
Numbers == UNION {[1..n -> {0, 1}] : n \in 0..(2 * HalfDigits)}
TooLong == [i \in 1..(2 * HalfDigits + 1) |-> 1]
Sent == Numbers \cup Texts(3) \cup Texts(HalfDigits) \cup {TooLong}

TargetsInit ==
    /\ text \in Sent
    /\ stack \in {[i \in 1..(2 * HalfDigits) |-> d] : d \in {0, 1, NoDigit}}
    /\ result = "no" /\ m_target = 0 /\ m_diff = 0 /\ word = -1

IsHex(in, n) == \A i \in 1..n : in[i] # NoDigit

(* fromHex into a number whose lowest byte comes first.  It stops after the byte
   of a character that is no digit, which counts as a zero. *)
Place(i) == IF i % 2 = 1 THEN i ELSE i - 2      \* the first digit of a byte is its higher one
Values(in, n) ==
    LET Byte(i) == (i + 1) \div 2
        Reached == {i \in 1..n : \A b \in 1..n : in[b] = NoDigit => Byte(i) <= Byte(b)}
    IN  [i \in 1..n |-> IF i \in Reached /\ in[i] # NoDigit THEN in[i] * Power[Place(i)] ELSE 0]
fromHex(in, n) == SumFunctionOnSet(Values(in, n), 1..n)

toDiff(target) == Full \div target

(* Mutant of Widened: the number is compared as it is. *)
NotWidened(tmp) == tmp

(* A number of half the width becomes the target that its difficulty has. *)
Widened(tmp) == Full \div (Half \div tmp)

(* What is read: the text, and beyond its end what the array held. *)
Read(n) == [i \in 1..n |-> IF i <= Len(text) THEN text[i] ELSE stack[i]]

SetTarget ==
    /\ result = "no"
    /\ LET n      == IF Len(text) <= HalfDigits THEN HalfDigits ELSE 2 * HalfDigits
           in     == Read(n)
           number == fromHex(in, n)
       IN  \/ /\ Len(text) <= 2 * HalfDigits /\ IsHex(in, n) /\ number # 0
              /\ result' = "true"
              /\ m_target' = IF n = HalfDigits THEN Widened(number) ELSE number
              /\ m_diff' = toDiff(m_target')
           \/ /\ Len(text) > 2 * HalfDigits
              /\ result' = "false" /\ UNCHANGED <<m_target, m_diff>>
           \/ /\ Len(text) <= 2 * HalfDigits /\ ~(IsHex(in, n) /\ number # 0)
              /\ result' = "false"
              /\ m_target' = IF n = HalfDigits THEN m_target ELSE number
              /\ UNCHANGED m_diff
    /\ UNCHANGED <<text, stack, word>>

(* A hash of the job: those at the bounds.  None ends in a word of zeros, which
   has no difficulty. *)
Hashed ==
    /\ result = "true" /\ word = -1
    /\ word' \in {1, m_target - 1, m_target, m_target + 1, Full} \cap 1..Full
    /\ UNCHANGED <<text, stack, result, m_target, m_diff>>

TargetsNext == SetTarget \/ Hashed

TargetsSpec == TargetsInit /\ [][TargetsNext]_targetVars

(* CryptoNight::hash *)
IsShare == word < m_target

(* The difficulty of a job, as a JobResult has it: in half the width. *)
diff == m_diff % (Half + 1)

actualDiff == toDiff(word)
-----------------------------------------------------------------------------
(* The difficulty that a pool asks for with a number of half the width is the
   one that is shown and counted, although the target has been widened and
   divided again. *)
AsksDifficulty ==
    result = "true" /\ Len(text) = HalfDigits => diff = Half \div fromHex(text, HalfDigits)

(* A hash that is taken for a share has reached the difficulty of the job, and
   one that has more than it is taken.  What a text of another length means
   depends on the stack; a difficulty beyond half the width is cut. *)
SharesReachDifficulty ==
    word # -1 /\ diff = m_diff =>
        /\ IsShare => actualDiff >= diff
        /\ actualDiff > diff => IsShare

(* The difficulty that is shown and counted is the one that the pool asked for,
   and what has it is a share. *)
CountsDifficulty == AsksDifficulty /\ SharesReachDifficulty
=============================================================================
