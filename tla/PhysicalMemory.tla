--------------------------- MODULE PhysicalMemory ---------------------------
(***************************************************************************)
(* The page frame allocator, kernel/pmm.c: a bitmap with one bit for each  *)
(* frame and a count of the free ones, set up from the boot loader's       *)
(* memory map.                                                             *)
(***************************************************************************)
EXTENDS Naturals, FiniteSets

CONSTANTS
  PageSize,    \* PMM_PAGE_SIZE
  AddrMod,     \* 2^32: addresses are uint32_t
  FirstFrame,  \* 256: the frame at 1 MiB, where allocation starts
  LowLimit,    \* the first frame above the 16 MiB that are identity-mapped
  MemoryMap,   \* the available entries of the Multiboot map, in 64-bit addresses
  Reserved     \* ranges taken: first MiB, kernel image, boot data

ASSUME PhysicalAssumption ==
  /\ {PageSize, AddrMod, FirstFrame} \subseteq Nat \ {0}
  /\ LowLimit \in Nat
  /\ AddrMod % PageSize = 0
  /\ \A r \in MemoryMap \cup Reserved : r.start \in Nat /\ r.end \in Nat
  /\ \E r \in Reserved : r.start = 0 /\ r.end = FirstFrame * PageSize

VARIABLES
  bitmap,       \* the frames whose bit is set: in use
  free_frames   \* free_frames

pmmVars == <<bitmap, free_frames>>

Frames == 0..(AddrMod \div PageSize - 1)
NoFrame == 0    \* PMM_INVALID_PAGE

-----------------------------------------------------------------------------
(* align_down_page, align_up_page in 32-bit arithmetic.                    *)
align_down_page(a) == a - (a % PageSize)
align_up_page(a) == align_down_page((a + PageSize - 1) % AddrMod)

FramesOf(start, end) == {f \in Frames : start <= f * PageSize /\ f * PageSize < end}

(* free_range: the frames that lie inside the range.                       *)
free_range(start, end) == FramesOf(align_up_page(start), align_down_page(end))

(* reserve_range: the frames that the range touches.                       *)
reserve_range(start, end) == FramesOf(align_down_page(start), align_up_page(end))

(* discover_from_mmap: an entry is cut at 4 GiB; one that ends exactly     *)
(* there wraps to an end of 0 and is lost.                                 *)
discover_from_mmap ==
  UNION {free_range(r.start, IF r.end > AddrMod THEN AddrMod - 1 ELSE r.end % AddrMod) :
           r \in {r \in MemoryMap : r.start < AddrMod}}

(* What pmm_init leaves free.                                              *)
Usable == discover_from_mmap \ UNION {reserve_range(r.start, r.end) : r \in Reserved}

(* pmm_alloc_page, pmm_alloc_page_below: the first frame whose bit is      *)
(* clear.                                                                  *)
first_free(used, limit) ==
  LET free == {f \in Frames \ used : FirstFrame <= f /\ f < limit}
  IN IF free = {} THEN NoFrame ELSE CHOOSE f \in free : \A g \in free : f <= g

AnyFrame == AddrMod \div PageSize

(* mark_frame_used                                                         *)
mark_frame_used(f) ==
  /\ bitmap' = bitmap \cup {f}
  /\ free_frames' = IF f \notin bitmap /\ free_frames > 0 THEN free_frames - 1 ELSE free_frames

(* pmm_free_page of frames above 1 MiB, one after another.                 *)
pmm_free_pages(fs) ==
  /\ bitmap' = bitmap \ fs
  /\ free_frames' = free_frames + Cardinality(fs \cap bitmap)
=============================================================================
