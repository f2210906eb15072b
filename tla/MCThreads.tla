----------------------------- MODULE MCThreads -----------------------------
(***************************************************************************)
(* Threads for TLC: two slots of thrqueue, a time slice of 2 ticks, loops  *)
(* of 2 iterations and a one-slot buffer, so a thread can be preempted     *)
(* inside every loop, counters reach 0, and the producer has to wait.      *)
(***************************************************************************)
EXTENDS Threads

\* kernelMain as shipped, and with each test function it lists enabled
MCTestsAll  == {"none", "mtx", "cv", "sem"}
MCTestsNone == {"none"}
MCTestsMtx  == {"mtx"}
MCTestsSem  == {"sem"}
=============================================================================
