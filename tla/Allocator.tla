----------------------------- MODULE Allocator -----------------------------
(***************************************************************************)
(* What the users of kmalloc and kfree rely on (kernel/heap.h): an         *)
(* allocation is an aligned range of the heap's address range that         *)
(* overlaps no other live allocation, and it stays where it is, as large   *)
(* as it was asked for, until it is freed.                                 *)
(***************************************************************************)
EXTENDS Naturals

CONSTANTS Base, Limit, Align, Requests

VARIABLE live     \* requested size of every live allocation, by its address

Disjoint(a, n, b, m) == a + n <= b \/ b + m <= a

Alloc(ptr, size) ==
  /\ ptr >= Base /\ ptr + size <= Limit /\ ptr % Align = 0
  /\ \A p \in DOMAIN live : Disjoint(ptr, size, p, live[p])
  /\ live' = [p \in DOMAIN live \cup {ptr} |-> IF p = ptr THEN size ELSE live[p]]

Free(ptr) == live' = [p \in DOMAIN live \ {ptr} |-> live[p]]

Init == live = [p \in {} |-> 0]

Next == \/ \E ptr \in Base..Limit : \E size \in Requests : Alloc(ptr, size)
        \/ \E ptr \in DOMAIN live : Free(ptr)

Spec == Init /\ [][Next]_live
=============================================================================
