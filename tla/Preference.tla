----------------------------- MODULE Preference -----------------------------
(***************************************************************************)
(* What a pool strategy promises the Network: at any time the miner works  *)
(* for one pool or for none.  It starts on any pool when it has none,      *)
(* pauses when its pool is lost, and leaves a pool that serves it only for *)
(* the primary.                                                            *)
(***************************************************************************)
EXTENDS Integers

CONSTANT Pools          \* 0 is the primary

VARIABLE mining         \* the pool worked for, or -1

Init  == mining = -1
Start == mining = -1 /\ mining' \in Pools
Pause == mining # -1 /\ mining' = -1
Prefer == mining \in Pools \ {0} /\ mining' = 0

Next == Start \/ Pause \/ Prefer
Spec == Init /\ [][Next]_mining
=============================================================================
