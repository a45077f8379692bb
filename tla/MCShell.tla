------------------------------- MODULE MCShell -------------------------------
(* The shell with a few jobs, one of which uses files.                     *)
EXTENDS Shell, TLC

CONSTANTS sh, a, b, c1, readme, missing

SizeOf == [n \in {readme} |-> 3]
Symmetry == Permutations(Proc \ ({Shell} \cup FileUsers \cup Victims))
=============================================================================
