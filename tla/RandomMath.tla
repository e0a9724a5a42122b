----------------------------- MODULE RandomMath -----------------------------
(***************************************************************************)
(* The generator of random programs of cn/wow and cn/r                     *)
(* (crypto/variant4_random_math.h, v4_random_math_init): each block height *)
(* has a program, drawn byte by byte from a stream of hashes, that fits    *)
(* the pipelines of an abstract processor.  The bytes of the stream are    *)
(* arbitrary; the same generator serves the CPU, the cards and every other *)
(* miner, so what it accepts is part of the algorithm.                     *)
(*                                                                         *)
(* The numbers of the processor and of the loops are constants: the code's *)
(* are in the comments.                                                    *)
(***************************************************************************)
EXTENDS Integers, Sequences, FiniteSets, FiniteSetsExt

CONSTANTS
    TOTAL_LATENCY,          \* 45
    NUM_INSTRUCTIONS_MIN,   \* 60
    NUM_INSTRUCTIONS_MAX,   \* 70
    MaxRetries,             \* 64
    MaxIterations,          \* 256
    MaxGap,                 \* 7
    DataSize,               \* 32 bytes of data from one hash
    Opcodes, Dsts, Srcs     \* the fields of the random bytes that are tried

ASSUME GeneratorAssumption ==
    /\ NUM_INSTRUCTIONS_MIN \in Nat \ {0} /\ NUM_INSTRUCTIONS_MAX \in Nat
    /\ NUM_INSTRUCTIONS_MAX >= NUM_INSTRUCTIONS_MIN
    /\ TOTAL_LATENCY \in Nat /\ MaxRetries \in Nat /\ MaxIterations \in Nat /\ MaxGap \in Nat
    /\ DataSize \in Nat /\ DataSize >= 4
    /\ Opcodes \subseteq 0..7 /\ Dsts \subseteq 0..3 /\ Srcs \subseteq 0..7

VARIABLES
    variant,        \* "WOW" or "4"
    phase,          \* "draw" (the first loop), "pad" (the second), "done"
    code,           \* the instructions so far; in the code, code[0 .. code_size - 1]
    drawn,          \* prev_code_size: how many of them were drawn
    data_index,     \* the bytes of the hash that are used up
    attempt         \* what each turn of the outer loop starts afresh

mathVars == <<variant, phase, code, drawn, data_index, attempt>>

Registers == 0..8       \* R0-R3 change, R4-R8 do not
Outputs   == 0..3

op_latency(op) == CASE op = "MUL" -> 3 [] op \in {"ADD", "ROR", "ROL"} -> 2 [] OTHER -> 1
asic_op_latency(op) == IF op = "MUL" THEN 3 ELSE 1
op_ALUs(op) == IF op = "MUL" THEN 1 ELSE 3
IsRotation(op) == op \in {"ROR", "ROL"}

Instruction(op, dst, src, C) == [opcode |-> op, dst_index |-> dst, src_index |-> src, C |-> C]

(* inst_data: the value of a register, named by the instruction that wrote it,
   and the opcode and the source's value of that instruction.  The registers
   that do not change have one name, as none of their values is ever new. *)
NoInstruction(r) == [value |-> IF r < 4 THEN r ELSE 255, opcode |-> IF r < 4 THEN "MUL" ELSE "none",
                     source |-> IF r < 4 THEN 0 ELSE 255]

FreshAttempt ==
    [latency        |-> [r \in Registers |-> 0],
     asic_latency   |-> [r \in Registers |-> 0],
     inst_data      |-> [r \in Registers |-> NoInstruction(r)],
     alu_busy       |-> {},
     rotated        |-> [r \in Outputs |-> FALSE],
     rotate_count   |-> 0,
     num_retries    |-> 0,
     total_iterations |-> 0,
     r8_used        |-> variant = "WOW"]

MathInit ==
    /\ variant \in {"WOW", "4"} /\ phase = "draw"
    /\ code = <<>> /\ drawn = 0 /\ data_index = DataSize
    /\ attempt = FreshAttempt

-----------------------------------------------------------------------------
(* check_data, and the n bytes taken: too few are left, so hash them anew. *)
Taken(index, n) == IF index + n > DataSize THEN n ELSE index + n

(* The opcode of three bits; rotations take a second byte for the direction. *)
Decoded(bits, direction) ==
    CASE bits <= 2 -> "MUL" [] bits = 3 -> "ADD" [] bits = 4 -> "SUB"
      [] bits = 5 -> direction [] OTHER -> "XOR"

(* A register added to, taken from or xored with itself is replaced. *)
Source(op, a, b) ==
    IF op \in {"ADD", "SUB", "XOR"} /\ a = b
    THEN IF variant = "WOW" THEN a + 4 ELSE 8
    ELSE b

(* Mutant of Foldable: the registers are compared, not their values. *)
FoldableByRegister(op, a, b) ==
    \/ IsRotation(op) /\ attempt.rotated[a]
    \/ op # "MUL" /\ attempt.inst_data[a].opcode = op /\ attempt.inst_data[a].source = b

(* What could be folded into the instruction before it. *)
Foldable(op, a, b) ==
    \/ IsRotation(op) /\ attempt.rotated[a]
    \/ op # "MUL" /\ attempt.inst_data[a].opcode = op
                  /\ attempt.inst_data[a].source = attempt.inst_data[b].value

(* The pipelines that can take the instruction in a cycle. *)
Free(op, cycle) ==
    {i \in 0..op_ALUs(op) - 1 :
        /\ <<cycle, i>> \notin attempt.alu_busy
        /\ op = "ADD" => <<cycle + 1, i>> \notin attempt.alu_busy
        /\ IsRotation(op) => cycle >= attempt.rotate_count * op_latency(op)}

Later(x, y) == IF x > y THEN x ELSE y

(* The first such cycle once both operands are there; else the end. *)
Start(op, a, b) ==
    LET ready == Later(attempt.latency[a], attempt.latency[b])
        cycles == {n \in ready..TOTAL_LATENCY - 1 : Free(op, n) # {}}
    IN  IF cycles = {} THEN Later(ready, TOTAL_LATENCY) ELSE Min(cycles)

Iterated == [attempt EXCEPT !.total_iterations = @ + 1]

(* The instruction takes its place, and ADD its constant, four bytes of data. *)
Emit(op, a, b, at) ==
    LET alu  == Max(Free(op, at))
        done == at + op_latency(op)
    IN  /\ attempt' = [Iterated EXCEPT
              !.rotate_count = IF IsRotation(op) THEN @ + 1 ELSE @,
              !.alu_busy = @ \cup {<<at, alu>>} \cup (IF op = "ADD" THEN {<<at + 1, alu>>} ELSE {}),
              !.latency[a] = done,
              !.asic_latency[a] = Later(@, attempt.asic_latency[b]) + asic_op_latency(op),
              !.rotated[a] = IsRotation(op),
              !.inst_data[a] = [value |-> Len(code), opcode |-> op,
                                source |-> attempt.inst_data[b].value],
              !.r8_used = @ \/ b = 8]
        /\ code' = Append(code, Instruction(op, a, b, IF op = "ADD" THEN <<"C", Len(code)>> ELSE <<>>))
        /\ phase' = IF Len(code') >= NUM_INSTRUCTIONS_MIN THEN "pad" ELSE phase
        /\ drawn' = Len(code')

(* One turn of the first loop, with the bytes that the stream has next. *)
Draw ==
    /\ phase = "draw"
    /\ \E r \in Outputs : attempt.latency[r] < TOTAL_LATENCY
    /\ attempt.num_retries < MaxRetries
    /\ attempt.total_iterations < MaxIterations
    /\ \E bits \in Opcodes, a \in Dsts, src \in Srcs, direction \in {"ROR", "ROL"} :
        LET op == Decoded(bits, direction)
            b  == Source(op, a, src)
            at == Start(op, a, b)
            index == Taken(Taken(data_index, 1), IF bits = 5 THEN 1 ELSE 0)
        IN  /\ bits # 5 => direction = "ROR"
            /\ \/ /\ Foldable(op, a, b) \/ at > attempt.latency[a] + MaxGap
                  /\ attempt' = Iterated
                  /\ data_index' = index
                  /\ UNCHANGED <<phase, code, drawn>>
               \/ /\ ~Foldable(op, a, b) /\ at <= attempt.latency[a] + MaxGap
                  /\ at + op_latency(op) > TOTAL_LATENCY
                  /\ attempt' = [Iterated EXCEPT !.num_retries = @ + 1]
                  /\ data_index' = index
                  /\ UNCHANGED <<phase, code, drawn>>
               \/ /\ ~Foldable(op, a, b) /\ at <= attempt.latency[a] + MaxGap
                  /\ at + op_latency(op) <= TOTAL_LATENCY
                  /\ Emit(op, a, b, at)
                  /\ data_index' = IF op = "ADD" THEN Taken(index, 4) ELSE index
    /\ UNCHANGED variant

(* The first loop ends without enough instructions. *)
GiveUp ==
    /\ phase = "draw"
    /\ \/ \A r \in Outputs : attempt.latency[r] >= TOTAL_LATENCY
       \/ attempt.num_retries >= MaxRetries
       \/ attempt.total_iterations >= MaxIterations
    /\ phase' = "pad"
    /\ UNCHANGED <<variant, code, drawn, data_index, attempt>>

(* The second loop: the register that a parallel machine has first is made to
   depend on the one it has last, until one register takes long enough. *)
Short ==
    /\ Len(code) < NUM_INSTRUCTIONS_MAX
    /\ \A r \in Outputs : attempt.asic_latency[r] < TOTAL_LATENCY

Earliest == Min({r \in Outputs : \A s \in Outputs : attempt.asic_latency[r] <= attempt.asic_latency[s]})
Latest   == Min({r \in Outputs : \A s \in Outputs : attempt.asic_latency[r] >= attempt.asic_latency[s]})

Pad ==
    /\ phase = "pad" /\ Short
    /\ LET op == IF (Len(code) - drawn) % 3 = 0 THEN "ROR" ELSE "MUL"
       IN  /\ code' = Append(code, Instruction(op, Earliest, Latest, <<>>))
           /\ attempt' = [attempt EXCEPT
                 !.latency[Earliest] = attempt.latency[Latest] + op_latency(op),
                 !.asic_latency[Earliest] = attempt.asic_latency[Latest] + asic_op_latency(op)]
    /\ UNCHANGED <<variant, phase, drawn, data_index>>

Accepted == attempt.r8_used /\ Len(code) >= NUM_INSTRUCTIONS_MIN

(* The program is too short or does not use R8: draw another, from where the
   stream of bytes is. *)
Again ==
    /\ phase = "pad" /\ ~Short /\ ~Accepted
    /\ phase' = "draw" /\ code' = <<>> /\ drawn' = 0 /\ attempt' = FreshAttempt
    /\ UNCHANGED <<variant, data_index>>

Finish ==
    /\ phase = "pad" /\ ~Short /\ Accepted
    /\ phase' = "done" /\ code' = Append(code, Instruction("RET", 0, 0, <<>>))
    /\ UNCHANGED <<variant, drawn, data_index, attempt>>

MathNext == Draw \/ GiveUp \/ Pad \/ Again \/ Finish

MathSpec == MathInit /\ [][MathNext]_mathVars /\ WF_mathVars(MathNext)

-----------------------------------------------------------------------------
(* The arrays of the code are large enough: code[NUM_INSTRUCTIONS_MAX + 1],  *)
(* alu_busy[TOTAL_LATENCY + 1][ALU_COUNT], data[32], and no instruction      *)
(* starts in two pipelines that are already taken.                           *)
ArraysSuffice ==
    /\ Len(code) <= NUM_INSTRUCTIONS_MAX + 1
    /\ attempt.alu_busy \subseteq (0..TOTAL_LATENCY) \X (0..2)
    /\ data_index <= DataSize

(* No drawn instruction can be folded into the one that wrote the same       *)
(* register before it, though between the two any others may have been       *)
(* drawn: the two are not both rotations, and not the same operation with    *)
(* the same value.  (The padding of the second loop has no such rule.)       *)
WriteBefore(i) ==
    {j \in 1..i - 1 : /\ code[j].dst_index = code[i].dst_index
                      /\ \A k \in j + 1..i - 1 : code[k].dst_index # code[i].dst_index}
SameValue(j, i) ==
    \/ code[j].src_index >= 4 /\ code[i].src_index >= 4
    \/ /\ code[j].src_index = code[i].src_index
       /\ \A k \in j..i - 1 : code[k].dst_index # code[i].src_index
NothingToFold ==
    \A i \in 1..drawn : \A j \in WriteBefore(i) :
        /\ ~(IsRotation(code[i].opcode) /\ IsRotation(code[j].opcode))
        /\ code[i].opcode = code[j].opcode => code[i].opcode = "MUL" \/ ~SameValue(j, i)

(* Whatever the bytes, an attempt comes to an end: the next one begins, or   *)
(* the program is done.                                                      *)
AttemptEnds == (phase = "draw") ~> (phase # "draw")

(* Whatever the bytes, a program is drawn in the end, within the arrays, and *)
(* none of its instructions folds with another.                              *)
DrawsPrograms == [](ArraysSuffice /\ NothingToFold) /\ AttemptEnds
=============================================================================
