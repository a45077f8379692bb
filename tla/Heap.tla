-------------------------------- MODULE Heap --------------------------------
(***************************************************************************)
(* The kernel heap, kernel/heap.c: a list of blocks in address order, each *)
(* a header followed by its payload.  kmalloc takes the first free block   *)
(* that is large enough and splits it, kfree merges a block with its free  *)
(* neighbours, and the heap grows by whole pages at its end.               *)
(*                                                                         *)
(* A call is one action: this is the heap as callers see it that do not    *)
(* preempt each other inside a call (system calls, which run with          *)
(* interrupts disabled, and kernel threads one at a time).                 *)
(* Sizes are in bytes of the scaled-down instance.                         *)
(***************************************************************************)
EXTENDS Naturals, FiniteSets, Sequences

CONSTANTS
  Align,      \* HEAP_ALIGNMENT
  Header,     \* heap_header_size()
  MinSplit,   \* HEAP_MIN_SPLIT_PAYLOAD
  PageSize,   \* PMM_PAGE_SIZE
  Base,       \* HEAP_VIRTUAL_BASE
  Limit,      \* HEAP_VIRTUAL_LIMIT
  InitialPages,
  SizeMax,    \* the largest size_t and uint32_t
  Requests    \* sizes asked for

ASSUME HeapAssumption ==
  /\ {Align, Header, MinSplit, PageSize, InitialPages} \subseteq Nat \ {0}
  /\ {Base, Limit, SizeMax} \subseteq Nat
  /\ Base % Align = 0 /\ Header % Align = 0 /\ PageSize % Align = 0
  /\ Header < PageSize
  /\ Base + InitialPages * PageSize <= Limit /\ Limit <= SizeMax
  /\ Limit - Base + Align + Header + PageSize <= SizeMax
  /\ Requests \subseteq 1..SizeMax

VARIABLES
  blocks,       \* the list from heap_head: address, payload size, is_free
  heap_next,    \* heap_virtual_next
  active,       \* heap_active_allocations
  live,         \* history: requested size of every live allocation, by address
  panic         \* why, and for what request, kmalloc has stopped the kernel

vars == <<blocks, heap_next, active, live, panic>>

-----------------------------------------------------------------------------
(* align_up_size                                                           *)
align_up(n) == ((n + Align - 1) \div Align) * Align

(* block_start_addr, block_end_addr, blocks_are_adjacent                   *)
End(b) == b.addr + Header + b.size
Adjacent(left, right) == End(left) = right.addr
Payload(b) == b.addr + Header

\* Mutant of Fits: a block's header is counted as payload.
MutFits(bs, wanted) == {i \in DOMAIN bs : bs[i].free /\ Header + bs[i].size >= wanted}

(* find_free_block: the first free block that is large enough.             *)
Fits(bs, wanted) == {i \in DOMAIN bs : bs[i].free /\ bs[i].size >= wanted}
IsFirstFit(bs, wanted, i) == i \in Fits(bs, wanted) /\ \A j \in Fits(bs, wanted) : i <= j

\* Mutant of split_block: the header of the new block is not accounted for.
MutSplit(bs, i, wanted) ==
  LET b == bs[i]
      leftover == b.size - wanted
  IN IF leftover < Header + MinSplit
     THEN [bs EXCEPT ![i].free = FALSE]
     ELSE SubSeq(bs, 1, i - 1)
          \o <<[b EXCEPT !.size = wanted, !.free = FALSE],
               [addr |-> b.addr + Header + wanted, size |-> leftover, free |-> TRUE]>>
          \o SubSeq(bs, i + 1, Len(bs))

(* split_block_if_large_enough, and is_free = 0.                           *)
split_block(bs, i, wanted) ==
  LET b == bs[i]
      leftover == b.size - wanted
  IN IF leftover < Header + MinSplit
     THEN [bs EXCEPT ![i].free = FALSE]
     ELSE SubSeq(bs, 1, i - 1)
          \o <<[b EXCEPT !.size = wanted, !.free = FALSE],
               [addr |-> b.addr + Header + wanted, size |-> leftover - Header, free |-> TRUE]>>
          \o SubSeq(bs, i + 1, Len(bs))

(* coalesce_with_next                                                      *)
coalesce_with_next(bs, i) ==
  IF i < Len(bs) /\ bs[i].free /\ bs[i + 1].free /\ Adjacent(bs[i], bs[i + 1])
  THEN SubSeq(bs, 1, i - 1)
       \o <<[bs[i] EXCEPT !.size = @ + Header + bs[i + 1].size]>>
       \o SubSeq(bs, i + 2, Len(bs))
  ELSE bs

\* Mutant of coalesce_around: the block before it is forgotten.
MutCoalesceAround(bs, i) == coalesce_with_next(bs, i)

(* coalesce_around                                                         *)
coalesce_around(bs, i) ==
  LET c == coalesce_with_next(bs, i)
  IN IF i > 1 /\ c[i - 1].free /\ Adjacent(c[i - 1], c[i])
     THEN coalesce_with_next(c, i - 1)
     ELSE c

(* insert_block_sorted: before the first block that is not below it.       *)
insert_block_sorted(bs, b) ==
  LET below == CHOOSE n \in 0..Len(bs) :
                 /\ \A i \in 1..n : bs[i].addr < b.addr
                 /\ n < Len(bs) => bs[n + 1].addr >= b.addr
  IN SubSeq(bs, 1, below) \o <<b>> \o SubSeq(bs, below + 1, Len(bs))

\* Mutant of heap_grow_pages: the pages are counted without the header.
MutGrowPages(wanted) ==
  LET pages == ((wanted + PageSize - 1) % (SizeMax + 1)) \div PageSize
  IN IF pages = 0 THEN 1 ELSE pages

(* heap_grow: the pages it asks for, in 32-bit arithmetic.                 *)
heap_grow_pages(wanted) ==
  LET pages == ((wanted + Header + PageSize - 1) % (SizeMax + 1)) \div PageSize
  IN IF pages = 0 THEN 1 ELSE pages

(* heap_add_region, once its pages are mapped: a free block at the end of  *)
(* the heap, merged with the one before it if that is free.                *)
AddRegion(bs, start, pages) ==
  LET b == [addr |-> start, size |-> pages * PageSize - Header, free |-> TRUE]
      inserted == insert_block_sorted(bs, b)
  IN coalesce_around(inserted, CHOOSE i \in DOMAIN inserted : inserted[i] = b)

(* heap_init                                                               *)
Init ==
  /\ blocks = AddRegion(<<>>, Base, InitialPages)
  /\ heap_next = Base + InitialPages * PageSize
  /\ active = 0
  /\ live = [p \in {} |-> 0]
  /\ panic = [why |-> "none", size |-> 0]

-----------------------------------------------------------------------------
(* The tail of kmalloc: the i-th block of bs is split and handed out.      *)
HandOut(bs, i, size) ==
  /\ blocks' = split_block(bs, i, align_up(size))
  /\ active' = active + 1
  /\ live' = [p \in DOMAIN live \cup {Payload(bs[i])} |->
                IF p = Payload(bs[i]) THEN size ELSE live[p]]

Panic(why, size) ==
  /\ panic' = [why |-> why, size |-> size]
  /\ UNCHANGED <<blocks, heap_next, active, live>>

(* kmalloc refuses a size whose rounding, or whose header, would overflow. *)
TooLarge(size) == size > SizeMax - (Align - 1) \/ align_up(size) > SizeMax - Header

(* kmalloc, or kcalloc with that product, from a block that is there.      *)
Kmalloc(size) ==
  /\ ~ TooLarge(size)
  /\ \E i \in Fits(blocks, align_up(size)) :
       IsFirstFit(blocks, align_up(size), i) /\ HandOut(blocks, i, size)
  /\ UNCHANGED <<heap_next, panic>>

(* The range left above heap_virtual_next holds that many pages.           *)
RoomFor(pages) == pages * PageSize <= Limit - heap_next

(* kmalloc after heap_grow.                                                *)
KmallocGrow(size) ==
  LET wanted == align_up(size)
      pages == heap_grow_pages(wanted)
      grown == AddRegion(blocks, heap_next, pages)
  IN /\ ~ TooLarge(size)
     /\ Fits(blocks, wanted) = {}
     /\ RoomFor(pages)
     /\ IF Fits(grown, wanted) = {}
        THEN Panic("failed after heap growth", size)
        ELSE /\ \E i \in Fits(grown, wanted) :
                  IsFirstFit(grown, wanted, i) /\ HandOut(grown, i, size)
             /\ heap_next' = heap_next + pages * PageSize
             /\ UNCHANGED panic

(* kmalloc stops the kernel: the size overflows, the range is used up, or  *)
(* pmm_alloc_page has no page (heap_map_virtual_region gives back the ones *)
(* it got).                                                                *)
KmallocPanic(size) ==
  \/ TooLarge(size) /\ Panic("too large", size)
  \/ /\ ~ TooLarge(size) /\ Fits(blocks, align_up(size)) = {}
     /\ \/ ~ RoomFor(heap_grow_pages(align_up(size))) /\ Panic("no range", size)
        \/ RoomFor(heap_grow_pages(align_up(size))) /\ Panic("no page", size)

(* kfree of a live allocation.                                             *)
Kfree(ptr) ==
  /\ \E i \in DOMAIN blocks :
       /\ Payload(blocks[i]) = ptr
       /\ blocks' = coalesce_around([blocks EXCEPT ![i].free = TRUE], i)
  /\ active' = IF active > 0 THEN active - 1 ELSE 0
  /\ live' = [p \in DOMAIN live \ {ptr} |-> live[p]]
  /\ UNCHANGED <<heap_next, panic>>

Next ==
  /\ panic.why = "none"
  /\ \/ \E size \in Requests : Kmalloc(size) \/ KmallocGrow(size) \/ KmallocPanic(size)
     \/ \E ptr \in DOMAIN live : Kfree(ptr)

Spec == Init /\ [][Next]_vars

-----------------------------------------------------------------------------
(* The block list tiles the heap: in address order, without gap or         *)
(* overlap, from HEAP_VIRTUAL_BASE to heap_virtual_next, through every     *)
(* split, merge and growth; and no two neighbours are both free, so that   *)
(* freed memory never stays fragmented.                                    *)
HeapTiled ==
  /\ blocks # <<>> /\ blocks[1].addr = Base
  /\ \A i \in DOMAIN blocks :
       /\ blocks[i].size > 0
       /\ End(blocks[i]) = IF i = Len(blocks) THEN heap_next ELSE blocks[i + 1].addr
       /\ i < Len(blocks) => ~ (blocks[i].free /\ blocks[i + 1].free)

(* The used blocks are exactly the live allocations, each at least as      *)
(* large as was asked for, and heap_active_allocations counts them: what   *)
(* heap_test_once takes as proof that nothing has leaked.                  *)
UsedBlocksAreLive ==
  LET used == {i \in DOMAIN blocks : ~ blocks[i].free}
  IN /\ DOMAIN live = {Payload(blocks[i]) : i \in used}
     /\ \A i \in used : blocks[i].size >= live[Payload(blocks[i])]
     /\ active = Cardinality(DOMAIN live)

(* kmalloc stops the kernel only for want of memory: when growth succeeds  *)
(* the new block is large enough, whatever the list looked like, unless    *)
(* the request is beyond the whole heap and its page count wraps.          *)
PanicOnlyForMemory ==
  panic.why \in {"failed after heap growth", "too large"} => panic.size > Limit - Base

Contract == INSTANCE Allocator

(* The heap implements the allocator its users rely on.                    *)
ImplementsAllocator == Contract!Spec
=============================================================================
