------------------------------ MODULE MCSched ------------------------------
(* Instances of Sched for TLC: the constants are given in the .cfg files.  *)
EXTENDS Sched, TLC

CONSTANTS t1, t2   \* kernel threads besides Main and Idle

\* The control blocks of kernel threads are interchangeable.
Symmetry == Permutations(Tasks \ {Main, Idle})
=============================================================================
