---------------------------- MODULE AddressSpaces ----------------------------
(***************************************************************************)
(* Page directories and tables: kernel/address_space.c for processes,      *)
(* arch/x86/vmm.c for the kernel, and the checks of kernel/usercopy.c that *)
(* read them.                                                              *)
(*                                                                         *)
(* Tables live in frames: pte[f] is what frame f holds when it is used as  *)
(* a table.  A directory maps an index to the frame of a table, or to      *)
(* NoFrame.  Every process has its own directory; the entries outside the  *)
(* user range are copies of the kernel's.                                  *)
(***************************************************************************)
EXTENDS ProgramImage

CONSTANTS
  TableEntries,   \* PAGE_TABLE_ENTRIES
  Space,          \* the address spaces of processes
  KernelSpace,    \* kernel_space
  BootTable       \* the frame of the kernel image that holds identity_tables

ASSUME SpaceAssumption ==
  /\ TableEntries \in Nat \ {0} /\ AddrMod % (PageSize * TableEntries) = 0
  /\ UserBase % (PageSize * TableEntries) = 0 /\ UserTop % (PageSize * TableEntries) = 0
  /\ UserTop < AddrMod
  /\ KernelSpace \notin Space
  /\ BootTable \in Frames \ Usable

VARIABLES
  kernel_directory,  \* page_directory of paging.c
  directory,         \* space->page_directory
  directory_frame,   \* space->page_directory_physical
  user_mappings,     \* space->user_mappings, newest first
  user_page_count,   \* space->user_page_count
  pte,               \* the contents of the tables
  current_space      \* current_space, and the directory the CPU has loaded

spaceVars == <<directory, directory_frame, user_mappings, user_page_count>>

directory_index(a) == a \div (PageSize * TableEntries)
table_index(a) == (a \div PageSize) % TableEntries

Dirs == 0..directory_index(AddrMod - 1)
UserDirs == directory_index(UserBase)..directory_index(UserTop - 1)
KernelDirs == Dirs \ UserDirs

NotPresent == [frame |-> NoFrame, user |-> FALSE]
EmptyTable == [i \in 0..(TableEntries - 1) |-> NotPresent]
EmptyDirectory == [d \in Dirs |-> NoFrame]
user_virtual_allowed(a) == UserBase <= a /\ a < UserTop

DirectoryOf(s) == IF s = KernelSpace THEN kernel_directory ELSE directory[s]

(* The page table entry that maps an address in a directory.               *)
EntryIn(dir, a) ==
  LET table == dir[directory_index(a)]
  IN IF table = NoFrame THEN NotPresent ELSE pte[table][table_index(a)]

(* sync_kernel_mappings                                                    *)
sync_kernel_mappings(dir) ==
  [d \in Dirs |-> IF d \in KernelDirs THEN kernel_directory[d] ELSE dir[d]]

\* Mutant of address_space_switch: the kernel's entries are not refreshed.
MutSwitch(s) ==
  /\ current_space' = s
  /\ UNCHANGED directory

(* address_space_switch                                                    *)
address_space_switch(s) ==
  /\ current_space' = s
  /\ directory' = IF s = KernelSpace THEN directory
                  ELSE [directory EXCEPT ![s] = sync_kernel_mappings(@)]

(* address_space_create, with frame f for the directory.                   *)
address_space_create(s, f) ==
  /\ directory' = [directory EXCEPT ![s] = sync_kernel_mappings(EmptyDirectory)]
  /\ directory_frame' = [directory_frame EXCEPT ![s] = f]
  /\ user_mappings' = [user_mappings EXCEPT ![s] = <<>>]
  /\ user_page_count' = [user_page_count EXCEPT ![s] = 0]

(* get_or_create_table, with frame f for a table that is not there: it is  *)
(* cleared and entered.                                                    *)
create_table(s, a, f) ==
  /\ pte' = [pte EXCEPT ![f] = EmptyTable]
  /\ directory' = [directory EXCEPT ![s][directory_index(a)] = f]
  /\ UNCHANGED <<directory_frame, user_mappings, user_page_count>>

\* Mutant of map_page: mapping_add is forgotten.
MutMapPage(s, a, f) ==
  /\ pte' = [pte EXCEPT ![directory[s][directory_index(a)]][table_index(a)] =
               [frame |-> f, user |-> TRUE]]
  /\ user_page_count' = [user_page_count EXCEPT ![s] = @ + 1]
  /\ UNCHANGED <<directory, directory_frame, user_mappings>>

(* The rest of address_space_map_page: the entry and mapping_add.          *)
map_page(s, a, f) ==
  /\ pte' = [pte EXCEPT ![directory[s][directory_index(a)]][table_index(a)] =
               [frame |-> f, user |-> TRUE]]
  /\ user_mappings' = [user_mappings EXCEPT ![s] = <<a>> \o @]
  /\ user_page_count' = [user_page_count EXCEPT ![s] = @ + 1]
  /\ UNCHANGED <<directory, directory_frame>>

(* mapping_remove: the first node of that address goes, if there is one.   *)
mapping_remove(list, a) ==
  LET first == CHOOSE i \in DOMAIN list : list[i] = a /\ \A j \in 1..(i - 1) : list[j] # a
  IN IF \A i \in DOMAIN list : list[i] # a
     THEN list
     ELSE SubSeq(list, 1, first - 1) \o SubSeq(list, first + 1, Len(list))

(* address_space_unmap_page of an address that is mapped: the entry goes,  *)
(* its node too, the page is freed.                                        *)
unmap_page(s, a) ==
  /\ pte' = [pte EXCEPT ![directory[s][directory_index(a)]][table_index(a)] = NotPresent]
  /\ user_mappings' = [user_mappings EXCEPT ![s] = mapping_remove(@, a)]
  /\ user_page_count' = [user_page_count EXCEPT ![s] = IF @ > 0 THEN @ - 1 ELSE 0]
  /\ pmm_free_pages({EntryIn(directory[s], a).frame})
  /\ UNCHANGED <<directory, directory_frame>>

(* vmm_map_page for the kernel heap: a new table enters the kernel's       *)
(* directory only.                                                         *)
vmm_create_table(a, f) ==
  /\ pte' = [pte EXCEPT ![f] = EmptyTable]
  /\ kernel_directory' = [kernel_directory EXCEPT ![directory_index(a)] = f]
vmm_map_page(a, f) ==
  pte' = [pte EXCEPT ![kernel_directory[directory_index(a)]][table_index(a)] =
            [frame |-> f, user |-> FALSE]]

-----------------------------------------------------------------------------
\* Mutant of user_range_accessible: only the first page is looked at.
MutUserRange(s, a, size) ==
  \/ size = 0
  \/ /\ Plus(a, size) >= a
     /\ EntryIn(DirectoryOf(s), align_down_page(a)).user

(* user_range_accessible: every page from that of the first byte to that   *)
(* of the last one has the user flag.                                      *)
user_range_accessible(s, a, size) ==
  \/ size = 0
  \/ /\ Plus(a, size) >= a
     /\ \A page \in {p \in align_down_page(a)..(a + size - 1) : p % PageSize = 0} :
          EntryIn(DirectoryOf(s), page).user
=============================================================================
