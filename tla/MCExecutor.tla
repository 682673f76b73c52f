------------------------------ MODULE MCExecutor -----------------------------
(* Executor for TLC: three goroutines; a tick stands for the delay of reads,  *)
(* and the delay of writes is shortened to a few of them.                     *)
EXTENDS Executor
=============================================================================
