------------------------------ MODULE MCWorkers ------------------------------
(* Instances of Workers for TLC.  GPU threads share nothing but the main    *)
(* loop's state and meet only in Join, which waits for the slowest of them: *)
(* a single thread shows every behaviour a thread has.                      *)
EXTENDS Workers
=============================================================================
