------------------------------- MODULE Memory -------------------------------
(***************************************************************************)
(* Frames, address spaces and program images together: how the monitor and *)
(* running processes load programs (kernel/program.c, kernel/elf_loader.c, *)
(* the loading half of kernel/process.c), run them and destroy them, and   *)
(* how the kernel heap maps more pages meanwhile (kernel/heap.c).          *)
(*                                                                         *)
(* An actor is named by the address space its thread runs in: KernelSpace  *)
(* for the monitor, s for the process that owns s.  SYS_EXEC runs with     *)
(* interrupts disabled from beginning to end: irq_off names the process    *)
(* that is in it, and nobody else takes a step.  The monitor's launches,   *)
(* and every process_destroy, can be preempted between any two steps.      *)
(***************************************************************************)
EXTENDS AddressSpaces

CONSTANTS
  Commands,      \* what can be launched: an image and the arguments passed to it
  LaterCommands, \* what can be launched once other programs have been
  MaxHeapPages,  \* bound on the heap's pages, which HEAP_VIRTUAL_LIMIT ends
  MaxLaunches,   \* bound on the programs launched
  Probes, ProbeSizes,  \* user pointers and lengths that system calls are given
  Features,      \* uses that MayLaunch leaves out unless they are named here
  NoSpace        \* the null space

ASSUME MemoryAssumption ==
  /\ NoSpace \notin Space \cup {KernelSpace}
  /\ LaterCommands \subseteq Commands
  /\ \A cmd \in Commands : IsImage(cmd.image) /\ cmd.argv \in Seq(Nat)
  /\ MaxHeapPages \in Nat /\ UserTop + MaxHeapPages * PageSize <= AddrMod
  /\ Probes \cup ProbeSizes \subseteq Word

VARIABLES
  state,       \* of the process of a space: "absent", "loading", "live", "zombie", "dying"
  launcher,    \* the actor that is its parent
  image, argv, \* what it runs
  esp,         \* process->user_initial_esp
  pc,          \* where an actor is
  job,         \* the space an actor is loading or destroying
  region,      \* the region an actor maps or fills
  cursor,      \* the next page process_map_user_region maps
  page,        \* the frame it has allocated for it
  found,       \* the frame a scan of the bitmap has found and not yet marked
  heap_pages,  \* pages mapped for the kernel heap
  launches,    \* programs launched so far
  irq_off,     \* the process inside SYS_EXEC
  halted       \* why kernel_panic was called, or "no"

procVars == <<state, launcher, image, argv, esp>>
workVars == <<job, region, cursor, page>>
vars == <<pmmVars, kernel_directory, spaceVars, pte, current_space, procVars,
          pc, workVars, found, heap_pages, irq_off, launches, halted>>

Actor == Space \cup {KernelSpace}
NotScanned == AnyFrame
HeapBase == UserTop                   \* HEAP_VIRTUAL_BASE, above KERNEL_HIGH_BASE
HeapNext == HeapBase + heap_pages * PageSize
NoImage == [phdrs |-> <<>>, size |-> 0]

(* The boot: pmm_init, paging_init (identity tables behind the low         *)
(* directory entries), heap_init with one page, address_space_init.        *)
Init ==
  LET boot == Frames \ Usable
      p == first_free(boot, AnyFrame)
      t == first_free(boot \cup {p}, LowLimit)
      low == [i \in 0..(TableEntries - 1) |-> [frame |-> i, user |-> FALSE]]
  IN /\ p # NoFrame /\ t # NoFrame   \* or the boot ends in a panic
     /\ bitmap = boot \cup {p, t}
     /\ free_frames = Cardinality(Frames \ bitmap)
     /\ kernel_directory = [EmptyDirectory EXCEPT ![0] = BootTable, ![directory_index(HeapBase)] = t]
     /\ pte = [f \in Frames |->
                 CASE f = BootTable -> low
                   [] f = t -> [EmptyTable EXCEPT ![table_index(HeapBase)].frame = p]
                   [] OTHER -> EmptyTable]
     /\ heap_pages = 1
     /\ current_space = KernelSpace
     /\ directory = [s \in Space |-> EmptyDirectory]
     /\ directory_frame = [s \in Space |-> NoFrame]
     /\ user_mappings = [s \in Space |-> <<>>]
     /\ user_page_count = [s \in Space |-> 0]
     /\ state = [s \in Space |-> "absent"]
     /\ launcher = [s \in Space |-> KernelSpace]
     /\ image = [s \in Space |-> NoImage] /\ argv = [s \in Space |-> <<>>]
     /\ esp = [s \in Space |-> 0]
     /\ pc = [a \in Actor |-> "idle"]
     /\ job = [a \in Actor |-> NoSpace]
     /\ region = [a \in Actor |-> 0]
     /\ cursor = [a \in Actor |-> 0]
     /\ page = [a \in Actor |-> NoFrame]
     /\ found = [a \in Actor |-> NotScanned]
     /\ irq_off = NoSpace
     /\ launches = 0
     /\ halted = "no"

-----------------------------------------------------------------------------
Goto(a, place) == pc' = [pc EXCEPT ![a] = place]
Running(a) == halted = "no" /\ current_space = a /\ irq_off \in {NoSpace, a}

(* kernel_panic: nothing else changes any more.                            *)
Halt(why) ==
  /\ halted' = why
  /\ UNCHANGED <<pmmVars, kernel_directory, spaceVars, pte, current_space, procVars,
                 pc, workVars, found, heap_pages, irq_off, launches>>

CanRun(a) == a \in {KernelSpace} \cup {s \in Space : state[s] = "live"}

(* thread_schedule_from_interrupt chooses a thread of another space,       *)
(* wherever the running one is: in an allocation or in kmalloc, too.       *)
Dispatch(a) ==
  /\ halted = "no" /\ irq_off = NoSpace
  /\ a # current_space /\ CanRun(a)
  /\ address_space_switch(a)
  /\ UNCHANGED <<pmmVars, kernel_directory, directory_frame, user_mappings, user_page_count, pte,
                 procVars, pc, workVars, found, heap_pages, irq_off, launches, halted>>

(* process_exit_current and thread_exit: another thread runs.              *)
Exit(s, a) ==
  /\ Running(s) /\ s \in Space /\ pc[s] = "idle"
  /\ a # s /\ CanRun(a)
  /\ state' = [state EXCEPT ![s] = "zombie"]
  /\ address_space_switch(a)
  /\ UNCHANGED <<pmmVars, kernel_directory, directory_frame, user_mappings, user_page_count, pte,
                 launcher, image, argv, esp, pc, workVars, found, heap_pages, irq_off, launches, halted>>

-----------------------------------------------------------------------------
(* Allocation: a scan of the bitmap, then the mark.  Page tables and       *)
(* directories must be identity-mapped.                                    *)
Allocating == {"grow", "grow_table", "create", "page", "table"}
ScanLimit(place) == IF place \in {"grow", "page"} THEN AnyFrame ELSE LowLimit

Scan(a) ==
  /\ Running(a) /\ pc[a] \in Allocating /\ found[a] = NotScanned
  /\ found' = [found EXCEPT ![a] = first_free(bitmap, ScanLimit(pc[a]))]
  /\ UNCHANGED <<pmmVars, kernel_directory, spaceVars, pte, current_space, procVars,
                 pc, workVars, heap_pages, irq_off, launches, halted>>

(* No frame: the caller gives back what it has and kernel_panic follows.   *)
(* vmm_map_page alone has no test for the missing table and goes on        *)
(* through address 0, which is mapped: what lies there looks like a present *)
(* entry and kmalloc panics, or the kernel writes there and the memset of  *)
(* the page that is not mapped faults.                                     *)
AllocationFails(a) ==
  /\ Running(a) /\ pc[a] \in Allocating /\ found[a] = NoFrame
  /\ \E why \in {"no memory"} \cup (IF pc[a] = "grow_table" THEN {"null table"} ELSE {}) : Halt(why)

Take(a, place, f) ==
  /\ Running(a) /\ pc[a] = place
  /\ found[a] = f /\ f \notin {NotScanned, NoFrame}
  /\ mark_frame_used(f)
  /\ found' = [found EXCEPT ![a] = NotScanned]

-----------------------------------------------------------------------------
Growing == {"grow", "grow_table", "grow_map"}
LowFree == {f \in Frames \ bitmap : FirstFrame <= f /\ f < LowLimit}

(* When a launch is considered.  The code has no such test.  Every launch  *)
(* calls kmalloc, and calls of the heap do not overlap, as in Heap; beyond *)
(* that, three uses are left out unless Features names them:               *)
(*   "alloc_race"  another thread was preempted in pmm_alloc_page, between *)
(*                 the test of a bit and its mark;                         *)
(*   "heap_table"  the heap needs a new page table while a process runs;   *)
(*   "low_memory"  it needs one, with no frame for it and for the page.    *)
MayLaunch(a, grow) ==
  /\ \A b \in Actor \ {a} : pc[b] \notin Growing /\ (found[b] = NotScanned \/ "alloc_race" \in Features)
  /\ grow /\ kernel_directory[directory_index(HeapNext)] = NoFrame =>
       /\ a = KernelSpace \/ "heap_table" \in Features
       /\ (\E f, g \in LowFree : f # g) \/ "low_memory" \in Features

(* SYS_EXEC or the monitor's run and runbg: program_create_process up to   *)
(* the first allocation of process_create_empty.  Any kmalloc on the way   *)
(* may find the heap too small; here the first does, and one page is       *)
(* enough.                                                                 *)
Launch(a, s, cmd, grow) ==
  /\ Running(a) /\ pc[a] = "idle"
  /\ state[s] = "absent" /\ launches < MaxLaunches
  /\ launches' = launches + 1
  /\ grow => heap_pages < MaxHeapPages
  /\ MayLaunch(a, grow)
  /\ state' = [state EXCEPT ![s] = "loading"]
  /\ launcher' = [launcher EXCEPT ![s] = a]
  /\ image' = [image EXCEPT ![s] = cmd.image]
  /\ argv' = [argv EXCEPT ![s] = cmd.argv]
  /\ job' = [job EXCEPT ![a] = s]
  /\ irq_off' = IF a = KernelSpace THEN NoSpace ELSE a
  /\ Goto(a, IF grow THEN "grow" ELSE "create")
  /\ UNCHANGED <<pmmVars, kernel_directory, spaceVars, pte, current_space, esp,
                 region, cursor, page, found, heap_pages, halted>>

(* heap_map_virtual_region for one more page.                              *)
GrowPage(a) == \E f \in Frames :
  /\ Take(a, "grow", f)
  /\ page' = [page EXCEPT ![a] = f]
  /\ Goto(a, IF kernel_directory[directory_index(HeapNext)] = NoFrame THEN "grow_table" ELSE "grow_map")
  /\ UNCHANGED <<kernel_directory, spaceVars, pte, current_space, procVars,
                 job, region, cursor, heap_pages, irq_off, launches, halted>>

GrowTable(a) == \E f \in Frames :
  /\ Take(a, "grow_table", f)
  /\ vmm_create_table(HeapNext, f)
  /\ Goto(a, "grow_map")
  /\ UNCHANGED <<spaceVars, current_space, procVars, workVars, heap_pages, irq_off, launches, halted>>

(* The entry, and the memset of the new page, which goes through the       *)
(* directory of the running space.                                         *)
GrowMap(a) ==
  /\ Running(a) /\ pc[a] = "grow_map"
  /\ IF DirectoryOf(a)[directory_index(HeapNext)] = NoFrame
     THEN Halt("page fault")
     ELSE /\ vmm_map_page(HeapNext, page[a])
          /\ heap_pages' = heap_pages + 1
          /\ page' = [page EXCEPT ![a] = NoFrame]
          /\ Goto(a, "create")
          /\ UNCHANGED <<pmmVars, kernel_directory, spaceVars, current_space, procVars,
                         job, region, cursor, found, irq_off, launches, halted>>

(* An actor goes on with region i of its program, or past the last one.    *)
StartRegion(a, i) ==
  LET img == image[job[a]]
      r == Region(img, i)
  IN IF i > Len(img.phdrs)
     THEN /\ region' = [region EXCEPT ![a] = 0]
          /\ cursor' = [cursor EXCEPT ![a] = 0]
          /\ Goto(a, "args")
     ELSE /\ region' = [region EXCEPT ![a] = i]
          /\ cursor' = [cursor EXCEPT ![a] = r.vaddr]
          /\ Goto(a, IF r.vaddr < RegionEnd(r) THEN "page" ELSE "fill")

(* address_space_create, and the checks of elf_load_process.               *)
Create(a) == \E f \in Frames \ {NoFrame} :
  /\ Running(a) /\ pc[a] = "create" /\ found[a] = f
  /\ IF Loadable(image[job[a]])
     THEN /\ Take(a, "create", f)
          /\ address_space_create(job[a], f)
          /\ StartRegion(a, 0)
          /\ UNCHANGED <<kernel_directory, pte, current_space, procVars, job, page,
                         heap_pages, irq_off, launches, halted>>
     ELSE Halt("load failed")

(* process_map_user_region, one page: map_user_page allocates it, ...      *)
AllocPage(a) == \E f \in Frames :
  /\ Take(a, "page", f)
  /\ page' = [page EXCEPT ![a] = f]
  /\ Goto(a, IF directory[job[a]][directory_index(cursor[a])] = NoFrame THEN "table" ELSE "map")
  /\ UNCHANGED <<kernel_directory, spaceVars, pte, current_space, procVars,
                 job, region, cursor, heap_pages, irq_off, launches, halted>>

(* ... address_space_map_page gets the table ...                           *)
AllocTable(a) == \E f \in Frames :
  /\ Take(a, "table", f)
  /\ create_table(job[a], cursor[a], f)
  /\ Goto(a, "map")
  /\ UNCHANGED <<kernel_directory, current_space, procVars, workVars, heap_pages, irq_off, launches, halted>>

(* ... and enters the page, unless the address is not a user address or is *)
(* already mapped, as when segments overlap.                               *)
MapPage(a) ==
  LET s == job[a]
      va == cursor[a]
      r == Region(image[s], region[a])
  IN /\ Running(a) /\ pc[a] = "map"
     /\ IF ~ RegionValid(r) \/ ~ user_virtual_allowed(va) \/ EntryIn(directory[s], va) # NotPresent
        THEN Halt("load failed")
        ELSE /\ map_page(s, va, page[a])
             /\ page' = [page EXCEPT ![a] = NoFrame]
             /\ cursor' = [cursor EXCEPT ![a] = va + PageSize]
             /\ Goto(a, IF va + PageSize < RegionEnd(r) THEN "page" ELSE "fill")
             /\ UNCHANGED <<pmmVars, kernel_directory, current_space, procVars, job, region,
                            found, heap_pages, irq_off, launches, halted>>

(* process_with_address_space: with interrupts disabled, the bytes bs of s *)
(* are written through its own directory, and the caller's space is        *)
(* restored.                                                               *)
Faults(s, bs) == \E b \in bs : EntryIn(directory[s], b) = NotPresent
SwitchedTo(s, back) ==
  directory' = [x \in Space |-> IF x \in {s, back} THEN sync_kernel_mappings(directory[x])
                                ELSE directory[x]]

(* process_copy_to_user_init and process_zero_user_init of a region.       *)
Fill(a) ==
  LET s == job[a]
  IN /\ Running(a) /\ pc[a] = "fill"
     /\ IF Faults(s, Filled(Region(image[s], region[a])))
        THEN Halt("page fault")
        ELSE /\ SwitchedTo(s, a)
             /\ StartRegion(a, NextRegion(image[s], region[a]))
             /\ UNCHANGED <<pmmVars, kernel_directory, directory_frame, user_mappings,
                            user_page_count, pte, current_space, procVars, job, page,
                            found, heap_pages, irq_off, launches, halted>>

(* The end of elf_load_process, process_setup_arguments and                *)
(* process_start_user.                                                     *)
Start(a) ==
  LET s == job[a]
      sp == InitialEsp(argv[s])
  IN /\ Running(a) /\ pc[a] = "args"
     /\ CASE ~ user_virtual_allowed(image[s].entry) -> Halt("load failed")
          [] user_virtual_allowed(image[s].entry) /\ ~ ArgumentsFit(argv[s]) -> Halt("arguments")
          [] user_virtual_allowed(image[s].entry) /\ ArgumentsFit(argv[s]) ->
               IF Faults(s, sp..(StackTop - 1))
               THEN Halt("page fault")
               ELSE /\ SwitchedTo(s, a)
                    /\ esp' = [esp EXCEPT ![s] = sp]
                    /\ state' = [state EXCEPT ![s] = "live"]
                    /\ job' = [job EXCEPT ![a] = NoSpace]
                    /\ irq_off' = NoSpace
                    /\ Goto(a, "idle")
                    /\ UNCHANGED <<pmmVars, kernel_directory, directory_frame, user_mappings,
                                   user_page_count, pte, current_space, launcher, image, argv,
                                   region, cursor, page, found, heap_pages, launches, halted>>

-----------------------------------------------------------------------------
(* process_destroy of an exited process, by its parent or by the monitor:  *)
(* its children lose their parent, then address_space_destroy begins.  The *)
(* collector runs in its own space, so that there is nothing to switch     *)
(* away from.                                                              *)
Collect(a, s) ==
  /\ Running(a) /\ pc[a] = "idle"
  /\ state[s] = "zombie" /\ a \in {launcher[s], KernelSpace}
  /\ state' = [state EXCEPT ![s] = "dying"]
  /\ launcher' = [c \in Space |-> IF launcher[c] = s THEN KernelSpace ELSE launcher[c]]
  /\ job' = [job EXCEPT ![a] = s]
  /\ Goto(a, "unmap")
  /\ UNCHANGED <<pmmVars, kernel_directory, spaceVars, pte, current_space, image, argv, esp,
                 region, cursor, page, found, heap_pages, irq_off, launches, halted>>

UnmapNext(a) ==
  LET s == job[a]
      va == Head(user_mappings[s])
  IN /\ Running(a) /\ pc[a] = "unmap" /\ user_mappings[s] # <<>>
     /\ IF EntryIn(directory[s], va) = NotPresent
        THEN Halt("destroy")
        ELSE /\ unmap_page(s, va)
             /\ UNCHANGED <<kernel_directory, current_space, procVars, pc, workVars, found,
                            heap_pages, irq_off, launches, halted>>

UserTables(s) == {d \in UserDirs : directory[s][d] # NoFrame}

\* Mutant of FreeTable: the frame of the table is not given back.
MutFreeTable(a) ==
  LET s == job[a]
  IN /\ Running(a) /\ pc[a] = "unmap" /\ user_mappings[s] = <<>>
     /\ \E d \in UserTables(s) :
          /\ \A e \in UserTables(s) : d <= e
          /\ directory' = [directory EXCEPT ![s][d] = NoFrame]
     /\ UNCHANGED <<pmmVars, kernel_directory, directory_frame, user_mappings, user_page_count,
                    pte, current_space, procVars, pc, workVars, found, heap_pages, irq_off, launches, halted>>

(* free_user_page_tables, one table: it must be empty.                     *)
FreeTable(a) ==
  LET s == job[a]
  IN /\ Running(a) /\ pc[a] = "unmap" /\ user_mappings[s] = <<>>
     /\ \E d \in UserTables(s) :
          /\ \A e \in UserTables(s) : d <= e
          /\ IF pte[directory[s][d]] # EmptyTable
             THEN Halt("destroy")
             ELSE /\ directory' = [directory EXCEPT ![s][d] = NoFrame]
                  /\ pmm_free_pages({directory[s][d]})
                  /\ UNCHANGED <<kernel_directory, directory_frame, user_mappings, user_page_count,
                                 pte, current_space, procVars, pc, workVars, found, heap_pages,
                                 irq_off, launches, halted>>

(* The directory itself; the space and its process object are freed.       *)
FreeDirectory(a) ==
  LET s == job[a]
  IN /\ Running(a) /\ pc[a] = "unmap" /\ user_mappings[s] = <<>> /\ UserTables(s) = {}
     /\ pmm_free_pages({directory_frame[s]})
     /\ directory' = [directory EXCEPT ![s] = EmptyDirectory]
     /\ directory_frame' = [directory_frame EXCEPT ![s] = NoFrame]
     /\ user_page_count' = [user_page_count EXCEPT ![s] = 0]
     /\ state' = [state EXCEPT ![s] = "absent"]
     /\ launcher' = [launcher EXCEPT ![s] = KernelSpace]
     /\ image' = [image EXCEPT ![s] = NoImage] /\ argv' = [argv EXCEPT ![s] = <<>>]
     /\ esp' = [esp EXCEPT ![s] = 0]
     /\ job' = [job EXCEPT ![a] = NoSpace]
     /\ Goto(a, "idle")
     /\ UNCHANGED <<kernel_directory, user_mappings, pte, current_space,
                    region, cursor, page, found, heap_pages, irq_off, launches, halted>>

Next ==
  \/ \E a \in Actor :
       \/ Dispatch(a) \/ Scan(a) \/ AllocationFails(a)
       \/ GrowPage(a) \/ GrowTable(a) \/ GrowMap(a)
       \/ Create(a) \/ AllocPage(a) \/ AllocTable(a) \/ MapPage(a) \/ Fill(a) \/ Start(a)
       \/ UnmapNext(a) \/ FreeTable(a) \/ FreeDirectory(a)
       \/ \E s \in Space : Exit(s, a) \/ Collect(a, s)
       \/ \E s \in Space, cmd \in IF launches = 0 THEN Commands ELSE LaterCommands, grow \in BOOLEAN :
            Launch(a, s, cmd, grow)

Spec == Init /\ [][Next]_vars

-----------------------------------------------------------------------------
(* The addresses of all virtual pages.                                     *)
Pages == {n * PageSize : n \in 0..(AnyFrame - 1)}

(* Who owns which frame: tuples of a use, the space, a place and the frame. *)
KernelUses ==
  {<<"table", KernelSpace, d, kernel_directory[d]>> : d \in KernelDirs \ {0}}
  \cup {<<"page", KernelSpace, v, EntryIn(kernel_directory, v).frame>> : v \in {v \in Pages : v >= HeapBase}}
SpaceUses(s) ==
  {<<"directory", s, 0, directory_frame[s]>>}
  \cup {<<"table", s, d, directory[s][d]>> : d \in UserDirs}
  \cup {<<"page", s, v, EntryIn(directory[s], v).frame>> : v \in {v \in Pages : user_virtual_allowed(v)}}
HandUses == {<<"hand", a, 0, page[a]>> : a \in Actor}
Uses == {u \in KernelUses \cup HandUses \cup (UNION {SpaceUses(s) : s \in Space}) : u[4] # NoFrame}

(* Every frame that is marked used has exactly one use, and every frame in *)
(* use is marked: no frame is shared by two spaces, or by a table and a    *)
(* page, none leaks when a process is destroyed while others load, and     *)
(* free_frames counts the rest.                                            *)
FramesAccounted ==
  halted = "no" =>
    /\ \A u, w \in Uses : u[4] = w[4] => u = w
    /\ bitmap = (Frames \ Usable) \cup {u[4] : u \in Uses}
    /\ free_frames = Cardinality(Frames \ bitmap)

(* A space's list of mappings, which address_space_destroy walks, is what  *)
(* its tables map, each page once; user_page_count counts it; user code    *)
(* can reach these pages and nothing else.                                 *)
SpacesConsistent ==
  halted = "no" => \A s \in Space :
    LET listed == user_mappings[s]
    IN /\ {v \in Pages : EntryIn(directory[s], v).user} = {listed[i] : i \in DOMAIN listed}
       /\ \A i, j \in DOMAIN listed : listed[i] = listed[j] => i = j
       /\ user_page_count[s] = Len(listed)

(* Kernel code runs in every space: whichever directory the CPU has loaded *)
(* shows all that the kernel has mapped, its heap above all.               *)
KernelMappingsShared ==
  halted = "no" =>
    \A d \in KernelDirs : DirectoryOf(current_space)[d] = kernel_directory[d]

(* The pages a range of addresses touches, in unbounded arithmetic.        *)
PagesOf(start, size) ==
  {v \in Pages : v < start + size /\ start < v + PageSize}

(* A process that runs has the pages its image declares and its stack, no  *)
(* more and no less; all that was read of its image lies inside it; and    *)
(* its stack holds the argument table, aligned, below strings that do not  *)
(* overlap.                                                                *)
LoadedAsDeclared ==
  halted = "no" => \A s \in Space : state[s] = "live" =>
    LET img == image[s]
        loads == {i \in DOMAIN img.phdrs : img.phdrs[i].load}
        base == StackTop - StackSize
        args == argv[s]
        ends(i) == StringAt(args, i) + args[i] + 1
    IN /\ {user_mappings[s][i] : i \in DOMAIN user_mappings[s]} =
            PagesOf(base, StackSize)
              \cup UNION {PagesOf(img.phdrs[i].vaddr, img.phdrs[i].memsz) : i \in loads}
       /\ img.phoff + Len(img.phdrs) * PhdrSize <= img.size
       /\ \A i \in loads : img.phdrs[i].offset + img.phdrs[i].filesz <= img.size
       /\ base <= esp[s] /\ esp[s] % WordSize = 0
       /\ esp[s] + TableBytes(args) <= (IF args = <<>> THEN StackTop ELSE StringAt(args, 1))
       /\ \A i \in DOMAIN args : ends(i) <= (IF i = Len(args) THEN StackTop ELSE StringAt(args, i + 1))

(* An image the loader has to refuse.                                      *)
BadImage(img) ==
  LET loads == {i \in DOMAIN img.phdrs : img.phdrs[i].load}
      pages(i) == PagesOf(img.phdrs[i].vaddr, img.phdrs[i].memsz)
  IN \/ ~ img.ident \/ img.size < EhdrSize \/ loads = {} \/ ~ user_virtual_allowed(img.entry)
     \/ img.phoff = 0 \/ img.phoff + Len(img.phdrs) * PhdrSize > img.size
     \/ \E i \in loads :
          LET ph == img.phdrs[i]
          IN \/ ph.memsz = 0 \/ ph.memsz > MaxImageMemory \/ ph.filesz > ph.memsz
             \/ ph.offset + ph.filesz > img.size
             \/ ph.vaddr < UserBase \/ ph.vaddr + ph.memsz > UserTop \/ ph.vaddr % PageSize # 0
             \/ pages(i) \cap PagesOf(StackTop - StackSize, StackSize) # {}
             \/ \E j \in loads \ {i} : pages(i) \cap pages(j) # {}

(* The kernel stops only for want of memory, which an allocation reports,  *)
(* or for an image that is bad; never because it touches a page that the   *)
(* loaded directory does not map, goes on through a table it could not     *)
(* allocate, because arguments do not fit, or because the tables and lists *)
(* of a space it destroys disagree.                                        *)
PanicOnlyForCause ==
  /\ halted \in {"no", "no memory", "load failed"}
  /\ halted = "load failed" => BadImage(image[job[current_space]])

(* copy_from_user and copy_to_user accept a range exactly when every byte  *)
(* of it lies on a page that is mapped for the user in the running space:  *)
(* at page boundaries, at the limits of the user range, at the end of the  *)
(* address space.                                                          *)
UserCopySafe ==
  halted = "no" => \A a \in Probes, size \in ProbeSizes :
    LET bytes == a..(a + size - 1)
    IN user_range_accessible(current_space, a, size) <=>
         \A b \in bytes : b < AddrMod /\ EntryIn(DirectoryOf(current_space), b).user
=============================================================================
