------------------------------ MODULE MCTimer ------------------------------
(* Instances of Timer for TLC: a 4-bit clock that wraps again and again.   *)
EXTENDS Timer, TLC

\* Alarm blocks are interchangeable.
Symmetry == Permutations(Alarms)
=============================================================================
