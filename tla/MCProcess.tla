------------------------------ MODULE MCProcess ------------------------------
(* Process on a few process objects: a shell, its children, a grandchild.  *)
EXTENDS Process, TLC

CONSTANTS p, q, r, s

Symmetry == Permutations(Proc)
=============================================================================
