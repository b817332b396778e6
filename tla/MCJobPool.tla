---------------------------- MODULE MCJobPool ----------------------------
(* JobPool for TLC.  The process may end (EXIT, or an assertion), so runs   *)
(* do not check for deadlock.  Pools of two or three jobs reach every limit *)
(* of the pools of 40 and 10 jobs in the code.                              *)
EXTENDS JobPool
=============================================================================
