---------------------------- MODULE MachineCode ----------------------------
(***************************************************************************)
(* Three ways to run a random program: the interpreter of the CPU          *)
(* (variant4_random_math.h, v4_random_math), the machine code that is      *)
(* pieced together for it (CryptonightR_gen.cpp) from the fragments of     *)
(* asm/CryptonightR_template.h, and the text that is compiled for a card   *)
(* (CudaCryptonightR_gen.cpp).  Registers hold symbolic values of 32 bits, *)
(* so one comparison is for every input.                                   *)
(***************************************************************************)
EXTENDS RandomMath, SequencesExt

Operation(name, x, y) == {<<name, x, y>>}
InitialRegisters == [r \in Registers |-> {<<"R", r, r>>}]

(* What comes before the RET at the end. *)
Program == SubSeq(code, 1, Len(code) - 1)

-----------------------------------------------------------------------------
(* The interpreter: rotations are by the source modulo 32. *)
Interpreted(r, i) ==
    LET x == r[i.dst_index]  y == r[i.src_index]
    IN  [r EXCEPT ![i.dst_index] =
            CASE i.opcode = "ADD" -> Operation("ADD", Operation("ADD", x, y), i.C)
              [] OTHER -> Operation(i.opcode, x, y)]

Interpret == FoldLeft(Interpreted, InitialRegisters, Program)

-----------------------------------------------------------------------------
(* The text for a card, a statement an instruction. *)
Statement(i) ==
    CASE i.opcode = "MUL" -> [left |-> i.dst_index, is |-> "*=", right |-> i.src_index, plus |-> <<>>]
      [] i.opcode = "ADD" -> [left |-> i.dst_index, is |-> "+=", right |-> i.src_index, plus |-> i.C]
      [] i.opcode = "SUB" -> [left |-> i.dst_index, is |-> "-=", right |-> i.src_index, plus |-> <<>>]
      [] i.opcode = "ROR" -> [left |-> i.dst_index, is |-> "rotate_right", right |-> i.src_index, plus |-> <<>>]
      [] i.opcode = "ROL" -> [left |-> i.dst_index, is |-> "rotate_left", right |-> i.src_index, plus |-> <<>>]
      [] i.opcode = "XOR" -> [left |-> i.dst_index, is |-> "^=", right |-> i.src_index, plus |-> <<>>]

Meaning == [is \in {"*=", "+=", "-=", "rotate_right", "rotate_left", "^="} |->
              CASE is = "*=" -> "MUL" [] is = "+=" -> "ADD" [] is = "-=" -> "SUB"
                [] is = "rotate_right" -> "ROR" [] is = "rotate_left" -> "ROL" [] is = "^=" -> "XOR"]

(* a += b + C is a + (b + C); the interpreter and the fragments add C last,
   which is the same sum. *)
Performed(r, s) ==
    LET x == r[s.left]  y == r[s.right]
    IN  [r EXCEPT ![s.left] =
            IF s.is = "+=" THEN Operation("ADD", Operation("ADD", x, y), s.plus)
            ELSE Operation(Meaning[s.is], x, y)]

OnCard == FoldLeft(Performed, InitialRegisters, [i \in DOMAIN Program |-> Statement(Program[i])])

-----------------------------------------------------------------------------
(* The numbers the processor has for R0-R8: rbx rsi rdi rbp rsp r15 rax rdx r9. *)
X86 == [r \in Registers |-> <<3, 6, 7, 5, 4, 15, 0, 2, 9>>[r + 1]]

(* The index of an instruction in the tables of fragments: V4_OPCODE_BITS, then
   V4_DST_INDEX_BITS, then V4_SRC_INDEX_BITS, into which 8 does not fit. *)
TableOpcode(op) ==
    CASE op = "MUL" -> 0 [] op = "ADD" -> 3 [] op = "SUB" -> 4
      [] op = "ROR" -> 5 [] op = "ROL" -> 6 [] op = "XOR" -> 7
Index(i) == TableOpcode(i.opcode) + 8 * i.dst_index
                + 32 * (IF i.src_index = 8 THEN i.dst_index ELSE i.src_index)

(* instructions[c]: what is between its start and the next one's.  Where source
   and destination are the same, additions and the like use R8 instead.  The
   prefix, 0x48 or 0x49, carries the fourth bit of the number of the source. *)
X86Code(op, d, s) ==
    [op |-> op, dst |-> X86[d], src |-> X86[s] % 8, prefix |-> IF X86[s] >= 8 THEN 73 ELSE 72]
Fragment(c) ==
    LET op == c % 8  d == (c \div 8) % 4  s == c \div 32
        from == IF op \in {3, 4, 7} /\ s = d THEN 8 ELSE s
    IN  CASE op <= 2 -> X86Code("imul", d, from) [] op = 3 -> X86Code("add", d, from)
          [] op = 4 -> X86Code("sub", d, from)   [] op = 5 -> X86Code("ror", d, from)
          [] op = 6 -> X86Code("rol", d, from)   [] op = 7 -> X86Code("xor", d, from)

(* instructions_mov[c]: the count of a rotation goes to rcx; nothing for others. *)
MovFragment(c) ==
    IF c % 8 \in {5, 6} THEN <<X86Code("mov", 0, c \div 32)>> ELSE <<>>

(* The multiplication is cut to 32 bits: its prefix is dropped, and 0x41
   takes its place when it is the one that extends the source. *)
CutTo32(piece) == [piece EXCEPT !.prefix = IF @ = 73 THEN 65 ELSE 0]

(* Mutant of Added: a register that changes is still taken to be in rcx. *)
AddedStale(state, i) ==
    LET c == Index(i)
        moves == IsRotation(i.opcode) /\ i.src_index # state.rot
        piece == IF i.opcode = "MUL" THEN CutTo32(Fragment(c)) ELSE Fragment(c)
        constant == IF i.opcode = "ADD" THEN <<[op |-> "addc", dst |-> piece.dst, src |-> i.C, prefix |-> 0]>>
                    ELSE <<>>
    IN  [out |-> state.out \o (IF moves THEN MovFragment(c) ELSE <<>>) \o <<piece>> \o constant,
         rot |-> IF moves THEN i.src_index ELSE state.rot]

(* One step of add_random_math: out is the code so far, rot is prev_rot_src, the
   register whose value rcx has, -1 if none. *)
Added(state, i) ==
    LET c == Index(i)
        moves == IsRotation(i.opcode) /\ i.src_index # state.rot
        rot == IF moves THEN i.src_index ELSE state.rot
        piece == IF i.opcode = "MUL" THEN CutTo32(Fragment(c)) ELSE Fragment(c)
        constant == IF i.opcode = "ADD" THEN <<[op |-> "addc", dst |-> piece.dst, src |-> i.C, prefix |-> 0]>>
                    ELSE <<>>
    IN  [out |-> state.out \o (IF moves THEN MovFragment(c) ELSE <<>>) \o <<piece>> \o constant,
         rot |-> IF i.dst_index = rot THEN -1 ELSE rot]

add_random_math == FoldLeft(Added, [out |-> <<>>, rot |-> -1], Program).out

(* The processor: registers by their numbers, 1 is rcx. *)
Executed(r, m) ==
    LET x == r[m.dst]  y == r[m.src + 8 * (m.prefix % 2)]
    IN  CASE m.op = "mov" -> [r EXCEPT ![1] = y]
          [] m.op = "addc" -> [r EXCEPT ![m.dst] = Operation("ADD", x, m.src)]
          [] m.op \in {"ror", "rol"} ->
                [r EXCEPT ![m.dst] = Operation(IF m.op = "ror" THEN "ROR" ELSE "ROL", x, r[1])]
          [] OTHER ->
                [r EXCEPT ![m.dst] =
                    Operation(CASE m.op = "imul" -> "MUL" [] m.op = "add" -> "ADD"
                                [] m.op = "sub" -> "SUB" [] m.op = "xor" -> "XOR", x, y)]

Machine == [n \in 0..15 |-> IF \E r \in Registers : X86[r] = n
                            THEN InitialRegisters[CHOOSE r \in Registers : X86[r] = n]
                            ELSE {<<"other", n, n>>}]
AfterMachineCode == FoldLeft(Executed, Machine, add_random_math)
Compiled == [r \in Registers |-> AfterMachineCode[X86[r]]]

-----------------------------------------------------------------------------
(* The loop around the program: the first part of a template, the program (for
   two hashes at once, twice with a part between), a part that ends in the jump
   back to the label mainloop of the first part, and the rest.  A part is its
   length here; the label lies Mainloop into the first. *)
Templates == {"wow", "v4", "wow_double", "v4_double", "wow_soft_aes", "v4_soft_aes"}
Part(n) == 10 + n
Mainloop == 4
Repeated(template) == IF template \in {"wow_double", "v4_double"} THEN 2 ELSE 1

(* p - p0 where the jump has just been copied. *)
JumpEnd(template) ==
    LET size == Len(add_random_math)
    IN  Part(1) + size + Part(2) + (IF Repeated(template) = 2 THEN size + Part(3) ELSE 0)

(* The four bytes before p are overwritten with the distance. *)
Distance(template) == Mainloop - JumpEnd(template)

(* A jump is relative to the instruction after it. *)
Target(template) == JumpEnd(template) + Distance(template)

-----------------------------------------------------------------------------
(* A program that the generator hands out gives the same registers whether   *)
(* it is interpreted, run as machine code, or compiled for a card: the       *)
(* rotation counts that the machine code keeps in rcx are never stale, and   *)
(* no two instructions of such a program share a fragment that should        *)
(* differ.                                                                   *)
SameMeaning == Interpret = Compiled /\ Interpret = OnCard

(* Every loop goes back to where it began, however long its program is, and  *)
(* every fragment has an end: its index and the next are among the 257.      *)
WellStitched ==
    /\ \A t \in Templates : Target(t) = Mainloop
    /\ \A i \in DOMAIN Program : Index(Program[i]) \in 0..255

(* A program means the same to the interpreter, to the machine code, whose   *)
(* loop goes round it, and to the card.                                      *)
OneMeaning == phase = "done" => SameMeaning /\ WellStitched
=============================================================================
