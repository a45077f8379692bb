------------------------------- MODULE MCHeap -------------------------------
(* Heap on a range of three small pages.                                   *)
EXTENDS Heap
=============================================================================
