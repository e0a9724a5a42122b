----------------------------- MODULE MCPrograms -----------------------------
(* The random programs of CryptonightR: how one is drawn and translated, of *)
(* three drawn instructions and what pads them, with two of the registers   *)
(* that change, one that does not, and R8; and how those of a chain are     *)
(* compiled for two cards of one architecture.  In a behaviour one machine  *)
(* runs and the other stays at rest, where its fairness asks for nothing.   *)
EXTENDS Programs, MachineCode

CONSTANTS g1, g2
MCThreads == {g1, g2}
MCArch == [g \in {g1, g2} |-> "sm_61"]
MCVariants == {"4"}
MCOpcodes == {1, 3, 5, 6}
MCDsts == {0, 1}
MCSrcs == {1, 5}

VARIABLE machine

(* Nothing is drawn: there is no program. *)
MathAtRest ==
    /\ variant = "4" /\ phase = "done" /\ code = <<>> /\ drawn = 0
    /\ data_index = DataSize /\ attempt = FreshAttempt

MCInit ==
    \/ machine = "programs" /\ Init /\ MathAtRest
    \/ machine = "math" /\ Init /\ MathInit

RunPrograms == machine = "programs" /\ Next /\ UNCHANGED <<machine, mathVars>>
RunMath == machine = "math" /\ MathNext /\ UNCHANGED <<machine, vars>>
MCNext == RunPrograms \/ RunMath

MCSpec == MCInit /\ [][MCNext]_<<machine, vars, mathVars>> /\ Fairness /\ WF_mathVars(MathNext)
=============================================================================
