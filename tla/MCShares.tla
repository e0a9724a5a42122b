------------------------------ MODULE MCShares ------------------------------
(* Instances of Shares for TLC: two threads that may queue two shares       *)
(* before the loop wakes up, or one after the other; the donation's pool    *)
(* gives the same ids as the user's primary one, to which the connection    *)
(* may be made twice.                                                       *)
EXTENDS Shares

CONSTANTS t1, t2

MCThreads == {t1, t2}
MCPools   == {-1, 0, 1}
MCLogins  == [p \in Pools |-> IF p = 1 THEN {3} ELSE IF p = 0 THEN {1, 2} ELSE {1}]
MCDiffs   == [p \in Pools |-> IF p = 0 THEN {1} ELSE {2}]
MCSequence == [p \in Pools |-> IF p = 0 THEN 3 ELSE 2]
=============================================================================
