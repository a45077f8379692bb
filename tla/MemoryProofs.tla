---------------------------- MODULE MemoryProofs ----------------------------
(***************************************************************************)
(* Frames, address spaces and the loader, for any number of spaces, frames,*)
(* programs, segments, arguments and heap pages.  Threads are preempted    *)
(* anywhere, inside an allocation too; what the theorems leave out is a    *)
(* launch that begins while another thread is between the test of a bit    *)
(* and its mark in pmm_alloc_page.  Run memory_allocrace shows that        *)
(* launch giving one frame to two users.  As Launch says, calls of the     *)
(* heap do not overlap.                                                    *)
(*                                                                         *)
(* MapInv: who owns which space, and the kernel's tables in the directory  *)
(* that is loaded.  WorkInv: how far each loader and destroyer is.         *)
(* PageInv: one use for each frame, and the lists of the spaces.  LoadInv: *)
(* which pages a program has.  Each needs the ones before it.  TableInv    *)
(* and LowInv: what a growth of the heap finds.                            *)
(***************************************************************************)
EXTENDS Memory, WellFoundedInduction, FiniteSetTheorems, TLAPS

(* Where an actor is that is loading a program.                            *)
Loading == Growing \cup {"create", "page", "table", "map", "fill", "args"}

(* The types of the variables that say who does what to which space.       *)
OwnerType ==
  /\ current_space \in Actor
  /\ state \in [Space -> {"absent", "loading", "live", "zombie", "dying"}]
  /\ pc \in [Actor -> {"idle", "unmap"} \cup Loading]
  /\ job \in [Actor -> Space \cup {NoSpace}]

(* A space is loaded or destroyed by one actor at a time, and it is not    *)
(* the one that runs.                                                      *)
OwnerInv ==
  /\ \A a \in Actor : pc[a] \in Loading => job[a] \in Space /\ state[job[a]] = "loading"
  /\ \A a \in Actor : pc[a] = "unmap" => job[a] \in Space /\ state[job[a]] = "dying"
  /\ \A a, b \in Actor : pc[a] # "idle" /\ pc[b] # "idle" /\ job[a] = job[b] => a = b
  /\ current_space \in Space => state[current_space] = "live"

(* A process that loads a program is in SYS_EXEC, with interrupts          *)
(* disabled, and began when the monitor was neither inside an allocation   *)
(* nor inside a growth of the heap.                                        *)
ExecInv ==
  /\ DOMAIN found = Actor /\ irq_off \in Space \cup {NoSpace}
  /\ \A s \in Space : pc[s] \in Loading =>
       /\ irq_off = s /\ current_space = s
       /\ found[KernelSpace] = NotScanned /\ pc[KernelSpace] \notin Growing

(* A page table that a growth of the heap is about to create is not there. *)
GrowInv ==
  \A a \in Actor : pc[a] = "grow_table" => kernel_directory[directory_index(HeapNext)] = NoFrame

DirectoryType ==
  /\ kernel_directory \in [Dirs -> Frames]
  /\ directory \in [Space -> [Dirs -> Frames]]

(* The loaded directory has all kernel tables, but for the one that a      *)
(* growth of the heap has just created.                                    *)
SharedInv ==
  \A d \in KernelDirs :
    \/ DirectoryOf(current_space)[d] = kernel_directory[d]
    \/ /\ pc[current_space] = "grow_map" /\ d = directory_index(HeapNext)
       /\ DirectoryOf(current_space)[d] = NoFrame

MapInv == OwnerType /\ OwnerInv /\ ExecInv /\ GrowInv /\ DirectoryType /\ SharedInv

-----------------------------------------------------------------------------
(* A nonempty set of naturals has a least element.                         *)
LEMMA LeastNat == ASSUME NEW S \in SUBSET Nat, S # {} PROVE \E n \in S : \A m \in S : n <= m
  <1> DEFINE R == OpToRel(<, Nat)
  <1>1. IsWellFoundedOn(R, Nat)
    BY NatLessThanWellFounded
  <1>2. \A x, y \in Nat : <<x, y>> \in R <=> x < y
    BY DEF OpToRel
  <1> HIDE DEF R
  <1>3. PICK x \in S : \A y \in S : ~ (<<y, x>> \in R)
    BY <1>1, WFMin
  <1>4. \A y \in S : x <= y
    <2> TAKE y \in S
    <2>1. x \in Nat /\ y \in Nat
      OBVIOUS
    <2>2. ~ (y < x)
      BY <1>2, <1>3, <2>1
    <2> QED BY <2>1, <2>2
  <1> QED BY <1>4

(* What a scan of the bitmap returns is a frame, perhaps the invalid one.  *)
LEMMA FirstFreeFrame ==
  ASSUME NEW used, NEW limit
  PROVE  NoFrame \in Frames /\ first_free(used, limit) \in Frames
  <1>1. NoFrame \in Frames
    <2>1. AddrMod \in Nat \ {0} /\ PageSize \in Nat \ {0} /\ AddrMod % PageSize = 0
      BY PhysicalAssumption
    <2>2. AddrMod \div PageSize > 0 /\ AddrMod \div PageSize \in Nat
      BY <2>1
    <2> QED BY <2>2 DEF NoFrame, Frames
  <1> DEFINE free == {f \in Frames \ used : FirstFrame <= f /\ f < limit}
  <1>2. ASSUME free # {} PROVE first_free(used, limit) \in Frames
    <2>1. first_free(used, limit) = CHOOSE f \in free : \A g \in free : f <= g
      BY <1>2 DEF first_free
    <2>2. free \in SUBSET Nat
      BY DEF Frames
    <2>3. \E f \in free : \A g \in free : f <= g
      BY <1>2, <2>2, LeastNat
    <2> HIDE DEF free
    <2>4. first_free(used, limit) \in free
      BY <2>1, <2>3
    <2> QED BY <2>4 DEF free
  <1> QED BY <1>1, <1>2 DEF first_free

LEMMA DirsKernel == KernelDirs \subseteq Dirs
  BY DEF KernelDirs

(* sync_kernel_mappings copies the kernel's entries.                       *)
LEMMA SyncedDirectory ==
  ASSUME kernel_directory \in [Dirs -> Frames], NEW dir \in [Dirs -> Frames]
  PROVE  /\ sync_kernel_mappings(dir) \in [Dirs -> Frames]
         /\ \A d \in KernelDirs : sync_kernel_mappings(dir)[d] = kernel_directory[d]
  BY DirsKernel DEF sync_kernel_mappings

LEMMA InitMap == Init => MapInv
  <1> SUFFICES ASSUME Init PROVE MapInv
    OBVIOUS
  <1>1. OwnerType /\ OwnerInv
    BY SpaceAssumption DEF Init, OwnerType, OwnerInv, Actor, Loading, Growing
  <1>2. GrowInv /\ ExecInv
    BY <1>1, SpaceAssumption DEF Init, GrowInv, ExecInv, OwnerType, Loading, Growing, Actor
  <1>3. EmptyDirectory \in [Dirs -> Frames] /\ BootTable \in Frames
    BY FirstFreeFrame, SpaceAssumption DEF EmptyDirectory
  <1>4. DirectoryType
    BY <1>3, FirstFreeFrame DEF Init, DirectoryType
  <1>5. SharedInv
    BY DEF Init, SharedInv, DirectoryOf
  <1> QED BY <1>1, <1>2, <1>4, <1>5 DEF MapInv

-----------------------------------------------------------------------------
(* Two actors are never both inside a growth, or both inside an            *)
(* allocation: one of them would be a process, and the other the monitor.  *)
LEMMA LoadsAlone ==
  ASSUME OwnerType, ExecInv, NEW a \in Actor, NEW b \in Actor, pc[a] \in Loading, pc[b] \in Loading,
         \/ pc[a] \in Growing /\ pc[b] \in Growing
         \/ found[a] # NotScanned /\ found[b] # NotScanned
  PROVE  a = b
  <1>1. CASE a \in Space /\ b \in Space
    BY <1>1 DEF ExecInv
  <1>2. CASE a = KernelSpace \/ b = KernelSpace
    BY <1>2 DEF ExecInv, Actor
  <1> QED BY <1>1, <1>2 DEF Actor

(* A step of the running actor: if it is a process that loads, interrupts  *)
(* are disabled and the monitor is nowhere in between.                     *)
LEMMA ExecStep ==
  ASSUME OwnerType, ExecInv, NEW a \in Actor, Running(a), UNCHANGED current_space,
         DOMAIN found' = Actor, irq_off' \in Space \cup {NoSpace},
         \A b \in Actor : b # a => pc'[b] = pc[b] /\ found'[b] = found[b],
         a \in Space /\ pc'[a] \in Loading =>
           irq_off' = a /\ found[KernelSpace] = NotScanned /\ pc[KernelSpace] \notin Growing
  PROVE  ExecInv'
  <1>1. KernelSpace \in Actor /\ KernelSpace \notin Space /\ Space \subseteq Actor /\ a = current_space
    BY SpaceAssumption DEF Actor, Running
  <1>2. \A s \in Space : pc'[s] \in Loading => s = a
    BY <1>1 DEF ExecInv
  <1> QED BY <1>1, <1>2 DEF ExecInv

(* The steps of a load or a destruction under way.                         *)
LEMMA ExecOn ==
  ASSUME OwnerType, ExecInv, NEW a \in Actor, Running(a), UNCHANGED <<current_space, irq_off>>,
         NEW f, found' = found \/ found' = [found EXCEPT ![a] = f],
         NEW place, pc' = [pc EXCEPT ![a] = place], place \in Loading => pc[a] \in Loading
  PROVE  ExecInv'
  <1>1. \A b \in Actor : b # a => pc'[b] = pc[b] /\ found'[b] = found[b]
    BY DEF OwnerType, ExecInv
  <1>2. pc'[a] = place /\ DOMAIN found' = Actor
    BY DEF OwnerType, ExecInv
  <1> QED BY <1>1, <1>2, ExecStep DEF ExecInv

LEMMA HaltExec == ASSUME ExecInv, NEW why, Halt(why) PROVE ExecInv'
  BY DEF Halt, ExecInv

(* Where StartRegion goes.                                                 *)
LEMMA RegionPlace ==
  ASSUME NEW a, NEW rs, StartRegion(a, rs)
  PROVE  \E place \in {"args", "page", "fill"} : Goto(a, place)
  BY DEF StartRegion

(* Interrupts stay disabled while a process loads, whatever the step, if   *)
(* no launch begins while another thread is inside an allocation.          *)
LEMMA NextExec ==
  ASSUME OwnerType, ExecInv, [Next]_vars, "alloc_race" \notin Features
  PROVE  ExecInv'
  <1> USE SpaceAssumption, MemoryAssumption
  <1>1. ASSUME NEW a \in Actor, Dispatch(a) PROVE ExecInv'
    BY <1>1 DEF Dispatch, ExecInv
  <1>2. ASSUME NEW a \in Actor, NEW s \in Space, Exit(s, a) PROVE ExecInv'
    <2>1. pc[s] \notin Loading /\ current_space = s /\ UNCHANGED <<pc, found, irq_off>>
      BY <1>2 DEF Exit, Running, Loading, Growing
    <2> QED BY <2>1 DEF ExecInv
  <1>3. ASSUME NEW a \in Actor, NEW s \in Space, NEW cmd, NEW grow, Launch(a, s, cmd, grow) PROVE ExecInv'
    <2>1. PICK place : pc' = [pc EXCEPT ![a] = place]
      BY <1>3 DEF Launch, Goto
    <2>2. /\ Running(a) /\ UNCHANGED <<current_space, found>> /\ MayLaunch(a, grow)
          /\ irq_off' = IF a = KernelSpace THEN NoSpace ELSE a
      BY <1>3 DEF Launch
    <2>3. /\ \A b \in Actor : b # a => pc'[b] = pc[b] /\ found'[b] = found[b]
          /\ DOMAIN found' = Actor /\ irq_off' \in Space \cup {NoSpace}
      BY <2>1, <2>2 DEF OwnerType, ExecInv, Actor
    <2>4. a \in Space => irq_off' = a /\ found[KernelSpace] = NotScanned /\ pc[KernelSpace] \notin Growing
      BY <2>2 DEF MayLaunch, Actor
    <2> QED BY <2>2, <2>3, <2>4, ExecStep
  <1>4. ASSUME NEW a \in Actor, Start(a) PROVE ExecInv'
    <2>1. CASE \E why : Halt(why)
      BY <2>1, HaltExec
    <2>2. CASE ~ \E why : Halt(why)
      <3>1. /\ Running(a) /\ UNCHANGED <<current_space, found>> /\ irq_off' = NoSpace
            /\ pc' = [pc EXCEPT ![a] = "idle"]
        BY <1>4, <2>2 DEF Start, Goto
      <3>2. /\ \A b \in Actor : b # a => pc'[b] = pc[b] /\ found'[b] = found[b]
            /\ DOMAIN found' = Actor /\ irq_off' \in Space \cup {NoSpace} /\ pc'[a] \notin Loading
        BY <3>1 DEF OwnerType, ExecInv, Loading, Growing
      <3> QED BY <3>1, <3>2, ExecStep
    <2> QED BY <2>1, <2>2
  <1>5. ASSUME NEW a \in Actor, AllocationFails(a) PROVE ExecInv'
    BY <1>5, HaltExec DEF AllocationFails
  <1>6. ASSUME NEW a \in Actor, Scan(a) PROVE ExecInv'
    <2>1. /\ Running(a) /\ UNCHANGED <<current_space, irq_off, pc>> /\ pc[a] \in Loading
          /\ found' = [found EXCEPT ![a] = first_free(bitmap, ScanLimit(pc[a]))]
      BY <1>6 DEF Scan, Allocating, Loading, Growing
    <2>2. pc' = [pc EXCEPT ![a] = pc[a]]
      BY <2>1 DEF OwnerType
    <2> QED BY <2>1, <2>2, ExecOn
  <1>7. ASSUME NEW a \in Actor, GrowPage(a) \/ GrowTable(a) \/ AllocPage(a) \/ AllocTable(a) PROVE ExecInv'
    <2>1. PICK place : pc' = [pc EXCEPT ![a] = place]
      BY <1>7 DEF GrowPage, GrowTable, AllocPage, AllocTable, Goto
    <2>2. /\ Running(a) /\ UNCHANGED <<current_space, irq_off>> /\ pc[a] \in Loading
          /\ found' = [found EXCEPT ![a] = NotScanned]
      BY <1>7 DEF GrowPage, GrowTable, AllocPage, AllocTable, Take, Loading, Growing
    <2> QED BY <2>1, <2>2, ExecOn
  <1>8. ASSUME NEW a \in Actor, GrowMap(a) \/ MapPage(a) \/ Fill(a) PROVE ExecInv'
    <2>1. CASE \E why : Halt(why)
      BY <2>1, HaltExec
    <2>2. CASE ~ \E why : Halt(why)
      <3>1. PICK place : pc' = [pc EXCEPT ![a] = place]
        BY <1>8, <2>2, RegionPlace DEF GrowMap, MapPage, Fill, Goto
      <3>2. Running(a) /\ UNCHANGED <<current_space, irq_off, found>> /\ pc[a] \in Loading
        BY <1>8, <2>2 DEF GrowMap, MapPage, Fill, Loading, Growing
      <3> QED BY <3>1, <3>2, ExecOn
    <2> QED BY <2>1, <2>2
  <1>9. ASSUME NEW a \in Actor, Create(a) PROVE ExecInv'
    <2>1. CASE Halt("load failed")
      BY <2>1, HaltExec
    <2>2. CASE ~ Halt("load failed")
      <3>1. PICK place : pc' = [pc EXCEPT ![a] = place]
        BY <1>9, <2>2, RegionPlace DEF Create, Goto
      <3>2. /\ Running(a) /\ UNCHANGED <<current_space, irq_off>> /\ pc[a] \in Loading
            /\ found' = [found EXCEPT ![a] = NotScanned]
        BY <1>9, <2>2 DEF Create, Take, Loading
      <3> QED BY <3>1, <3>2, ExecOn
    <2> QED BY <2>1, <2>2
  <1>10. ASSUME NEW a \in Actor, NEW s \in Space, Collect(a, s) PROVE ExecInv'
    <2>1. /\ Running(a) /\ UNCHANGED <<current_space, irq_off, found>> /\ pc' = [pc EXCEPT ![a] = "unmap"]
          /\ "unmap" \notin Loading
      BY <1>10 DEF Collect, Goto, Loading, Growing
    <2> QED BY <2>1, ExecOn
  <1>11. ASSUME NEW a \in Actor, UnmapNext(a) \/ FreeTable(a) PROVE ExecInv'
    BY <1>11, HaltExec DEF UnmapNext, FreeTable, ExecInv
  <1>12. ASSUME NEW a \in Actor, FreeDirectory(a) PROVE ExecInv'
    <2>1. /\ Running(a) /\ UNCHANGED <<current_space, irq_off, found>> /\ pc' = [pc EXCEPT ![a] = "idle"]
          /\ "idle" \notin Loading
      BY <1>12 DEF FreeDirectory, Goto, Loading, Growing
    <2> QED BY <2>1, ExecOn
  <1>13. CASE UNCHANGED vars
    BY <1>13 DEF vars, ExecInv
  <1> QED BY <1>1, <1>2, <1>3, <1>4, <1>5, <1>6, <1>7, <1>8, <1>9, <1>10, <1>11, <1>12, <1>13 DEF Next

-----------------------------------------------------------------------------
(* Steps of the running actor that neither launch nor finish anything and  *)
(* leave the kernel's directory and the heap alone.                        *)
LEMMA OwnerFrame ==
  ASSUME MapInv, NEW a \in Actor, a = current_space,
         pc[a] # "idle", UNCHANGED <<state, job, current_space>>,
         NEW place \in Loading, Goto(a, place), pc[a] \in Loading
  PROVE  OwnerType' /\ OwnerInv'
  <1> USE DEF MapInv
  <1>1. OwnerType' /\ \A b \in Actor : pc'[b] = IF b = a THEN place ELSE pc[b]
    BY DEF OwnerType, Goto
  <1>2. place # "unmap" /\ place # "idle"
    BY DEF Loading, Growing
  <1> QED BY <1>1, <1>2 DEF OwnerInv

(* A change of the space being loaded or destroyed, which does not run.    *)
LEMMA OtherDirectory ==
  ASSUME MapInv, NEW a \in Actor, a = current_space, pc[a] # "idle"
  PROVE  job[a] \in Space /\ job[a] # current_space
  BY DEF MapInv, OwnerType, OwnerInv

(* The step leaves the heap alone and shows the running thread outside a   *)
(* growth.                                                                 *)
LEMMA SharedFrame ==
  ASSUME MapInv, NEW a \in Actor, a = current_space,
         UNCHANGED <<kernel_directory, current_space, heap_pages>>,
         pc[a] \notin Growing, pc'[a] \notin Growing,
         \A b \in Actor : b # a => pc'[b] = pc[b],
         directory' \in [Space -> [Dirs -> Frames]],
         a \in Space => \A d \in KernelDirs :
           directory'[a][d] = directory[a][d] \/ directory'[a][d] = kernel_directory[d]
  PROVE  GrowInv' /\ DirectoryType' /\ SharedInv'
  <1>1. GrowInv' /\ DirectoryType'
    BY DEF MapInv, GrowInv, DirectoryType, HeapNext, Growing
  <1>2. \A d \in KernelDirs : DirectoryOf(a)[d] = kernel_directory[d]
    BY DEF MapInv, SharedInv, Growing
  <1>3. \A d \in KernelDirs : DirectoryOf(current_space)'[d] = kernel_directory'[d]
    BY <1>2 DEF DirectoryOf, Actor
  <1> QED BY <1>1, <1>3 DEF SharedInv

-----------------------------------------------------------------------------
(* A panic changes nothing of this.                                        *)
LEMMA HaltMap == ASSUME MapInv, ExecInv', NEW why, Halt(why) PROVE MapInv'
  BY DEF Halt, MapInv, OwnerType, OwnerInv, GrowInv, DirectoryType, SharedInv, DirectoryOf,
         HeapNext, EntryIn, spaceVars, procVars, workVars

(* The space switched to gets all kernel tables, whoever had a thread      *)
(* there before and wherever the thread is that is left.                   *)
LEMMA SwitchMap ==
  ASSUME MapInv, ExecInv', NEW a \in Actor, address_space_switch(a), OwnerType', OwnerInv',
         UNCHANGED <<kernel_directory, pc, heap_pages>>
  PROVE  MapInv'
  <1>2. GrowInv'
    BY DEF MapInv, GrowInv, HeapNext
  <1>3. \A s \in Space : directory[s] \in [Dirs -> Frames]
    BY DEF MapInv, DirectoryType
  <1>4. kernel_directory \in [Dirs -> Frames]
    BY DEF MapInv, DirectoryType
  <1>5. CASE a = KernelSpace
    BY <1>2, <1>5 DEF MapInv, DirectoryType, SharedInv, DirectoryOf, address_space_switch
  <1>6. CASE a # KernelSpace
    <2>1. a \in Space
      BY <1>6 DEF Actor
    <2>2. /\ sync_kernel_mappings(directory[a]) \in [Dirs -> Frames]
          /\ \A d \in KernelDirs : sync_kernel_mappings(directory[a])[d] = kernel_directory[d]
      BY <2>1, <1>3, <1>4, SyncedDirectory
    <2>3. directory' = [directory EXCEPT ![a] = sync_kernel_mappings(directory[a])]
      BY <1>6 DEF address_space_switch
    <2>4. DirectoryType' /\ directory'[a] = sync_kernel_mappings(directory[a])
      BY <2>1, <2>2, <2>3 DEF MapInv, DirectoryType
    <2>5. SharedInv'
      BY <1>6, <2>2, <2>4 DEF SharedInv, DirectoryOf, address_space_switch
    <2> QED BY <1>2, <2>4, <2>5 DEF MapInv
  <1> QED BY <1>5, <1>6

LEMMA DispatchMap ==
  ASSUME MapInv, ExecInv', NEW a \in Actor, Dispatch(a)
  PROVE  MapInv'
  <1>1. OwnerType' /\ OwnerInv'
    BY SpaceAssumption
       DEF MapInv, OwnerType, OwnerInv, Dispatch, CanRun, address_space_switch, procVars, workVars
  <1> QED BY <1>1, SwitchMap DEF Dispatch

LEMMA ExitMap ==
  ASSUME MapInv, ExecInv', NEW s \in Space, NEW a \in Actor, Exit(s, a)
  PROVE  MapInv'
  <1>1. state[s] = "live" /\ s = current_space /\ pc[s] = "idle"
    BY DEF Exit, Running, MapInv, OwnerInv
  <1>2. \A x \in Space : state'[x] = IF x = s THEN "zombie" ELSE state[x]
    BY DEF Exit, MapInv, OwnerType
  <1>3. OwnerType'
    BY DEF Exit, MapInv, OwnerType, address_space_switch, workVars
  <1>4. OwnerInv'
    BY <1>1, <1>2, SpaceAssumption
       DEF Exit, MapInv, OwnerType, OwnerInv, CanRun, address_space_switch, workVars
  <1> QED BY <1>1, <1>3, <1>4, SwitchMap DEF Exit

LEMMA ScanMap ==
  ASSUME MapInv, ExecInv', NEW a \in Actor, Scan(a)
  PROVE  MapInv'
  BY DEF Scan, MapInv, OwnerType, OwnerInv, GrowInv, DirectoryType, SharedInv, DirectoryOf,
         HeapNext, spaceVars, procVars, workVars

LEMMA LaunchMap ==
  ASSUME MapInv, ExecInv', NEW a \in Actor, NEW s \in Space, NEW cmd, NEW grow \in BOOLEAN,
         Launch(a, s, cmd, grow)
  PROVE  MapInv'
  <1>1. PICK place \in {"grow", "create"} : pc' = [pc EXCEPT ![a] = place]
    BY DEF Launch, Goto
  <1>2. /\ a = current_space /\ pc[a] = "idle" /\ state[s] = "absent"
        /\ state' = [state EXCEPT ![s] = "loading"] /\ job' = [job EXCEPT ![a] = s]
        /\ UNCHANGED <<current_space, kernel_directory, directory, heap_pages>>
    BY DEF Launch, Running, spaceVars
  <1>3. /\ \A b \in Actor : /\ pc'[b] = IF b = a THEN place ELSE pc[b]
                            /\ job'[b] = IF b = a THEN s ELSE job[b]
        /\ \A x \in Space : state'[x] = IF x = s THEN "loading" ELSE state[x]
        /\ OwnerType'
    BY <1>1, <1>2 DEF MapInv, OwnerType, Loading, Growing
  <1>4. \A b \in Actor : pc[b] # "idle" => job[b] \in Space /\ job[b] # s
    BY <1>2 DEF MapInv, OwnerType, OwnerInv
  <1>5. OwnerInv'
    BY <1>2, <1>3, <1>4 DEF MapInv, OwnerType, OwnerInv, Loading, Growing
  <1>6. GrowInv'
    BY <1>2, <1>3 DEF MapInv, GrowInv, HeapNext
  <1>7. SharedInv' /\ DirectoryType'
    BY <1>2, <1>3 DEF MapInv, SharedInv, DirectoryType, DirectoryOf
  <1> QED BY <1>3, <1>5, <1>6, <1>7 DEF MapInv

(* A growth of the heap by the running thread.                             *)
LEMMA GrowPageMap ==
  ASSUME MapInv, ExecInv', NEW a \in Actor, GrowPage(a)
  PROVE  MapInv'
  <1>1. PICK place \in {"grow_table", "grow_map"} :
          /\ pc' = [pc EXCEPT ![a] = place]
          /\ place = "grow_table" => kernel_directory[directory_index(HeapNext)] = NoFrame
    BY DEF GrowPage, Goto
  <1>2. /\ a = current_space /\ pc[a] = "grow"
        /\ UNCHANGED <<state, job, current_space, kernel_directory, directory, heap_pages>>
    BY DEF GrowPage, Take, Running, spaceVars, procVars
  <1>3. OwnerType' /\ OwnerInv'
    BY <1>1, <1>2, OwnerFrame DEF Goto, Loading, Growing
  <1>4. \A b \in Actor : pc'[b] = IF b = a THEN place ELSE pc[b]
    BY <1>1 DEF MapInv, OwnerType
  <1>5. GrowInv' /\ DirectoryType' /\ SharedInv'
    BY <1>1, <1>2, <1>4 DEF MapInv, GrowInv, DirectoryType, SharedInv, DirectoryOf, HeapNext
  <1> QED BY <1>3, <1>5 DEF MapInv

LEMMA GrowTableMap ==
  ASSUME MapInv, ExecInv', NEW a \in Actor, GrowTable(a)
  PROVE  MapInv'
  <1> DEFINE d0 == directory_index(HeapNext)
  <1>1. PICK f \in Frames : kernel_directory' = [kernel_directory EXCEPT ![d0] = f]
    BY DEF GrowTable, vmm_create_table
  <1>2. /\ a = current_space /\ pc[a] = "grow_table" /\ pc' = [pc EXCEPT ![a] = "grow_map"]
        /\ UNCHANGED <<state, job, current_space, directory, heap_pages>>
    BY DEF GrowTable, Take, Running, Goto, spaceVars, procVars, workVars
  <1>3. OwnerType' /\ OwnerInv'
    BY <1>2, OwnerFrame DEF Goto, Loading, Growing
  <1>4. \A b \in Actor : pc'[b] = IF b = a THEN "grow_map" ELSE pc[b]
    BY <1>2 DEF MapInv, OwnerType
  <1>5. GrowInv'
    <2>1. \A b \in Actor : pc[b] = "grow_table" => b = a
      BY <1>2, LoadsAlone DEF MapInv, Loading, Growing
    <2> QED BY <1>2, <1>4, <2>1 DEF GrowInv
  <1>6. kernel_directory[d0] = NoFrame /\ d0' = d0
    BY <1>2 DEF MapInv, GrowInv, HeapNext
  <1> HIDE DEF d0
  <1>7. DirectoryType' /\ \A d \in Dirs : d # d0 => kernel_directory'[d] = kernel_directory[d]
    BY <1>1, <1>2 DEF MapInv, DirectoryType
  <1>8. \A d \in KernelDirs : DirectoryOf(a)[d] = kernel_directory[d]
    BY <1>2 DEF MapInv, SharedInv
  <1>9. ASSUME a = KernelSpace PROVE SharedInv'
    <2>1. current_space' = KernelSpace
      BY <1>2, <1>9
    <2> QED BY ONLY <2>1 DEF SharedInv, DirectoryOf
  <1>10. ASSUME a # KernelSpace PROVE SharedInv'
    <2>1. \A d \in KernelDirs : directory'[a][d] = kernel_directory[d]
      BY <1>2, <1>8, <1>10 DEF DirectoryOf
    <2>2. \A d \in KernelDirs : directory'[a][d] = kernel_directory'[d] \/
                                (d = d0' /\ directory'[a][d] = NoFrame)
      BY <2>1, <1>6, <1>7, DirsKernel
    <2>3. current_space' = a
      BY <1>2
    <2>4. pc'[current_space'] = "grow_map" /\ d0' = directory_index(HeapNext)'
      BY <1>2, <1>4 DEF d0
    <2> QED BY ONLY <1>10, <2>2, <2>3, <2>4 DEF SharedInv, DirectoryOf
  <1> QED BY <1>3, <1>5, <1>7, <1>9, <1>10 DEF MapInv

(* The memset of a page behind a missing table faults; otherwise the table *)
(* was there, and the loaded directory had it.                             *)
LEMMA GrowMapMap ==
  ASSUME MapInv, ExecInv', NEW a \in Actor, GrowMap(a)
  PROVE  MapInv'
  <1> DEFINE d0 == directory_index(HeapNext)
  <1>1. CASE DirectoryOf(a)[d0] = NoFrame
    BY <1>1, HaltMap DEF GrowMap
  <1>2. CASE DirectoryOf(a)[d0] # NoFrame
    <2>1. /\ a = current_space /\ pc[a] = "grow_map" /\ pc' = [pc EXCEPT ![a] = "create"]
          /\ UNCHANGED <<state, job, current_space, kernel_directory, directory>>
      BY <1>2 DEF GrowMap, Running, Goto, spaceVars, procVars
    <2>2. OwnerType' /\ OwnerInv'
      BY <2>1, OwnerFrame DEF Goto, Loading, Growing
    <2>3. \A b \in Actor : pc'[b] = IF b = a THEN "create" ELSE pc[b]
      BY <2>1 DEF MapInv, OwnerType
    <2>4. GrowInv' /\ DirectoryType'
      <3>1. \A b \in Actor : pc[b] = "grow_table" => b = a
        BY <2>1, LoadsAlone DEF MapInv, Loading, Growing
      <3> QED BY <2>1, <2>3, <3>1 DEF MapInv, GrowInv, DirectoryType
    <2>5. \A d \in KernelDirs : DirectoryOf(a)[d] = kernel_directory[d]
      BY <1>2, <2>1 DEF MapInv, SharedInv
    <2>6. SharedInv'
      BY <2>1, <2>5 DEF SharedInv, DirectoryOf
    <2> QED BY <2>2, <2>4, <2>6 DEF MapInv
  <1> QED BY <1>1, <1>2

-----------------------------------------------------------------------------
(* Loading: the directory that changes is that of a space that does not    *)
(* run, or a synchronisation.                                              *)
LEMMA CreateMap ==
  ASSUME MapInv, ExecInv', NEW a \in Actor, Create(a)
  PROVE  MapInv'
  <1>1. CASE ~ Loadable(image[job[a]])
    BY <1>1, HaltMap DEF Create
  <1>2. CASE Loadable(image[job[a]])
    <2>1. PICK place \in {"args", "page", "fill"} : Goto(a, place)
      BY <1>2, RegionPlace DEF Create
    <2>2. /\ a = current_space /\ pc[a] = "create"
          /\ UNCHANGED <<state, job, current_space, kernel_directory, heap_pages>>
          /\ directory' = [directory EXCEPT ![job[a]] = sync_kernel_mappings(EmptyDirectory)]
      BY <1>2 DEF Create, Running, address_space_create, procVars
    <2>3. OwnerType' /\ OwnerInv'
      BY <2>1, <2>2, OwnerFrame DEF Loading
    <2>4. \A b \in Actor : pc'[b] = IF b = a THEN place ELSE pc[b]
      BY <2>1 DEF MapInv, OwnerType, Goto
    <2>5. job[a] \in Space /\ job[a] # a
      BY <2>2, OtherDirectory
    <2>6. sync_kernel_mappings(EmptyDirectory) \in [Dirs -> Frames]
      BY SyncedDirectory, FirstFreeFrame DEF MapInv, DirectoryType, EmptyDirectory
    <2>7. /\ directory' \in [Space -> [Dirs -> Frames]]
          /\ a \in Space => directory'[a] = directory[a]
      BY <2>2, <2>5, <2>6 DEF MapInv, DirectoryType
    <2>8. GrowInv' /\ DirectoryType' /\ SharedInv'
      BY <2>2, <2>4, <2>7, SharedFrame DEF Growing
    <2> QED BY <2>3, <2>8 DEF MapInv
  <1> QED BY <1>1, <1>2

LEMMA AllocPageMap ==
  ASSUME MapInv, ExecInv', NEW a \in Actor, AllocPage(a)
  PROVE  MapInv'
  <1>1. PICK place \in {"table", "map"} : Goto(a, place)
    BY DEF AllocPage
  <1>2. /\ a = current_space /\ pc[a] = "page"
        /\ UNCHANGED <<state, job, current_space, kernel_directory, directory, heap_pages>>
    BY DEF AllocPage, Take, Running, spaceVars, procVars
  <1>3. OwnerType' /\ OwnerInv'
    BY <1>1, <1>2, OwnerFrame DEF Loading
  <1>4. \A b \in Actor : pc'[b] = IF b = a THEN place ELSE pc[b]
    BY <1>1 DEF MapInv, OwnerType, Goto
  <1>5. GrowInv' /\ DirectoryType' /\ SharedInv'
    BY <1>2, <1>4, SharedFrame DEF Growing, MapInv, DirectoryType
  <1> QED BY <1>3, <1>5 DEF MapInv

LEMMA AllocTableMap ==
  ASSUME MapInv, ExecInv', NEW a \in Actor, AllocTable(a)
  PROVE  MapInv'
  <1>1. PICK f \in Frames :
          directory' = [directory EXCEPT ![job[a]][directory_index(cursor[a])] = f]
    BY DEF AllocTable, create_table
  <1>2. /\ a = current_space /\ pc[a] = "table" /\ Goto(a, "map")
        /\ UNCHANGED <<state, job, current_space, kernel_directory, heap_pages>>
    BY DEF AllocTable, Take, Running, procVars, workVars
  <1>3. OwnerType' /\ OwnerInv'
    BY <1>2, OwnerFrame DEF Loading
  <1>4. \A b \in Actor : pc'[b] = IF b = a THEN "map" ELSE pc[b]
    BY <1>2 DEF MapInv, OwnerType, Goto
  <1>5. job[a] \in Space /\ job[a] # a
    BY <1>2, OtherDirectory
  <1>6. /\ directory' \in [Space -> [Dirs -> Frames]]
        /\ a \in Space => directory'[a] = directory[a]
    BY <1>1, <1>5 DEF MapInv, DirectoryType
  <1>7. GrowInv' /\ DirectoryType' /\ SharedInv'
    BY <1>2, <1>4, <1>6, SharedFrame DEF Growing
  <1> QED BY <1>3, <1>7 DEF MapInv

LEMMA MapPageMap ==
  ASSUME MapInv, ExecInv', NEW a \in Actor, MapPage(a)
  PROVE  MapInv'
  <1>1. CASE Halt("load failed")
    BY <1>1, HaltMap
  <1>2. CASE ~ Halt("load failed")
    <2>1. PICK place \in {"page", "fill"} : Goto(a, place)
      BY <1>2 DEF MapPage
    <2>2. /\ a = current_space /\ pc[a] = "map"
          /\ UNCHANGED <<state, job, current_space, kernel_directory, directory, heap_pages>>
      BY <1>2 DEF MapPage, Running, map_page, procVars
    <2>3. OwnerType' /\ OwnerInv'
      BY <2>1, <2>2, OwnerFrame DEF Loading
    <2>4. \A b \in Actor : pc'[b] = IF b = a THEN place ELSE pc[b]
      BY <2>1 DEF MapInv, OwnerType, Goto
    <2>5. GrowInv' /\ DirectoryType' /\ SharedInv'
      BY <2>2, <2>4, SharedFrame DEF Growing, MapInv, DirectoryType
    <2> QED BY <2>3, <2>5 DEF MapInv
  <1> QED BY <1>1, <1>2

(* process_with_address_space synchronises the space written to and the    *)
(* caller's.                                                               *)
LEMMA Synchronised ==
  ASSUME MapInv, NEW s \in Space, NEW a \in Actor, SwitchedTo(s, a)
  PROVE  /\ directory' \in [Space -> [Dirs -> Frames]]
         /\ a \in Space => \A d \in KernelDirs : directory'[a][d] = kernel_directory[d]
  <1>1. \A x \in Space :
          /\ sync_kernel_mappings(directory[x]) \in [Dirs -> Frames]
          /\ \A d \in KernelDirs : sync_kernel_mappings(directory[x])[d] = kernel_directory[d]
    BY SyncedDirectory DEF MapInv, DirectoryType
  <1>2. directory' = [x \in Space |-> IF x \in {s, a} THEN sync_kernel_mappings(directory[x])
                                      ELSE directory[x]]
    BY DEF SwitchedTo
  <1>3. directory' \in [Space -> [Dirs -> Frames]]
    BY <1>1, <1>2 DEF MapInv, DirectoryType
  <1>4. a \in Space => directory'[a] = sync_kernel_mappings(directory[a])
    BY <1>2
  <1> QED BY <1>1, <1>3, <1>4

LEMMA FillMap ==
  ASSUME MapInv, ExecInv', NEW a \in Actor, Fill(a)
  PROVE  MapInv'
  <1>1. CASE Halt("page fault")
    BY <1>1, HaltMap
  <1>2. CASE ~ Halt("page fault")
    <2>1. PICK place \in {"args", "page", "fill"} : Goto(a, place)
      BY <1>2, RegionPlace DEF Fill
    <2>2. /\ a = current_space /\ pc[a] = "fill" /\ SwitchedTo(job[a], a)
          /\ UNCHANGED <<state, job, current_space, kernel_directory, heap_pages>>
      BY <1>2 DEF Fill, Running, procVars
    <2>3. OwnerType' /\ OwnerInv'
      BY <2>1, <2>2, OwnerFrame DEF Loading
    <2>4. \A b \in Actor : pc'[b] = IF b = a THEN place ELSE pc[b]
      BY <2>1 DEF MapInv, OwnerType, Goto
    <2>5. job[a] \in Space
      BY <2>2, OtherDirectory
    <2>6. GrowInv' /\ DirectoryType' /\ SharedInv'
      BY <2>2, <2>4, <2>5, Synchronised, SharedFrame DEF Growing
    <2> QED BY <2>3, <2>6 DEF MapInv
  <1> QED BY <1>1, <1>2

(* The end of a launch or of a destruction: the actor is idle again.       *)
LEMMA OwnerDone ==
  ASSUME MapInv, NEW a \in Actor, a = current_space, pc[a] # "idle", Goto(a, "idle"),
         NEW st \in {"live", "absent"}, state' = [state EXCEPT ![job[a]] = st],
         job' = [job EXCEPT ![a] = NoSpace], UNCHANGED current_space
  PROVE  OwnerType' /\ OwnerInv'
  <1>1. job[a] \in Space /\ job[a] # a
    BY OtherDirectory
  <1>2. /\ \A b \in Actor : /\ pc'[b] = IF b = a THEN "idle" ELSE pc[b]
                            /\ b # a => job'[b] = job[b]
        /\ \A x \in Space : x # job[a] => state'[x] = state[x]
        /\ OwnerType'
    BY DEF MapInv, OwnerType, Goto
  <1>3. \A b \in Actor : b # a /\ pc[b] # "idle" => job[b] # job[a]
    BY DEF MapInv, OwnerInv
  <1> QED BY <1>1, <1>2, <1>3 DEF MapInv, OwnerInv, Loading, Growing

LEMMA StartMap ==
  ASSUME MapInv, ExecInv', NEW a \in Actor, Start(a)
  PROVE  MapInv'
  <1>1. CASE \E why : Halt(why)
    BY <1>1, HaltMap
  <1>2. CASE ~ \E why : Halt(why)
    <2>1. /\ a = current_space /\ pc[a] = "args" /\ SwitchedTo(job[a], a) /\ Goto(a, "idle")
          /\ state' = [state EXCEPT ![job[a]] = "live"] /\ job' = [job EXCEPT ![a] = NoSpace]
          /\ UNCHANGED <<current_space, kernel_directory, heap_pages>>
      BY <1>2 DEF Start, Running
    <2>2. OwnerType' /\ OwnerInv'
      BY <2>1, OwnerDone
    <2>3. \A b \in Actor : pc'[b] = IF b = a THEN "idle" ELSE pc[b]
      BY <2>1 DEF MapInv, OwnerType, Goto
    <2>4. job[a] \in Space
      BY <2>1, OtherDirectory
    <2>5. GrowInv' /\ DirectoryType' /\ SharedInv'
      BY <2>1, <2>3, <2>4, Synchronised, SharedFrame DEF Growing
    <2> QED BY <2>2, <2>5 DEF MapInv
  <1> QED BY <1>1, <1>2

-----------------------------------------------------------------------------
(* Destruction: the directory that is emptied belongs to a space that does *)
(* not run.                                                                *)
LEMMA CollectMap ==
  ASSUME MapInv, ExecInv', NEW a \in Actor, NEW s \in Space, Collect(a, s)
  PROVE  MapInv'
  <1>1. /\ a = current_space /\ pc[a] = "idle" /\ state[s] = "zombie"
        /\ state' = [state EXCEPT ![s] = "dying"] /\ job' = [job EXCEPT ![a] = s]
        /\ pc' = [pc EXCEPT ![a] = "unmap"]
        /\ UNCHANGED <<current_space, kernel_directory, directory, heap_pages>>
    BY DEF Collect, Running, Goto, spaceVars
  <1>2. /\ \A b \in Actor : /\ pc'[b] = IF b = a THEN "unmap" ELSE pc[b]
                            /\ job'[b] = IF b = a THEN s ELSE job[b]
        /\ \A x \in Space : state'[x] = IF x = s THEN "dying" ELSE state[x]
        /\ OwnerType'
    BY <1>1 DEF MapInv, OwnerType
  <1>3. \A b \in Actor : pc[b] # "idle" => job[b] \in Space /\ job[b] # s
    BY <1>1 DEF MapInv, OwnerType, OwnerInv
  <1>4. OwnerInv'
    BY <1>1, <1>2, <1>3 DEF MapInv, OwnerType, OwnerInv, Loading, Growing
  <1>5. GrowInv' /\ DirectoryType' /\ SharedInv'
    BY <1>1, <1>2, SharedFrame DEF Growing, MapInv, DirectoryType
  <1> QED BY <1>2, <1>4, <1>5 DEF MapInv

LEMMA UnmapNextMap ==
  ASSUME MapInv, ExecInv', NEW a \in Actor, UnmapNext(a)
  PROVE  MapInv'
  <1>1. CASE Halt("destroy")
    BY <1>1, HaltMap
  <1>2. CASE ~ Halt("destroy")
    <2>1. UNCHANGED <<state, job, pc, current_space, kernel_directory, directory, heap_pages>>
      BY <1>2 DEF UnmapNext, unmap_page, procVars, workVars
    <2> QED BY <2>1 DEF MapInv, OwnerType, OwnerInv, GrowInv, DirectoryType, SharedInv,
                        DirectoryOf, HeapNext
  <1> QED BY <1>1, <1>2

LEMMA FreeTableMap ==
  ASSUME MapInv, ExecInv', NEW a \in Actor, FreeTable(a)
  PROVE  MapInv'
  <1>1. CASE Halt("destroy")
    BY <1>1, HaltMap
  <1>2. CASE ~ Halt("destroy")
    <2>1. PICK d : directory' = [directory EXCEPT ![job[a]][d] = NoFrame]
      BY <1>2 DEF FreeTable
    <2>2. /\ a = current_space /\ pc[a] = "unmap"
          /\ UNCHANGED <<state, job, pc, current_space, kernel_directory, heap_pages>>
      BY <1>2 DEF FreeTable, Running, procVars, workVars
    <2>3. OwnerType' /\ OwnerInv'
      BY <2>2 DEF MapInv, OwnerType, OwnerInv
    <2>4. job[a] \in Space /\ job[a] # a
      BY <2>2, OtherDirectory
    <2>5. /\ directory' \in [Space -> [Dirs -> Frames]]
          /\ a \in Space => directory'[a] = directory[a]
      BY <2>1, <2>4, FirstFreeFrame DEF MapInv, DirectoryType
    <2>6. GrowInv' /\ DirectoryType' /\ SharedInv'
      BY <2>2, <2>5, SharedFrame DEF Growing
    <2> QED BY <2>3, <2>6 DEF MapInv
  <1> QED BY <1>1, <1>2

LEMMA FreeDirectoryMap ==
  ASSUME MapInv, ExecInv', NEW a \in Actor, FreeDirectory(a)
  PROVE  MapInv'
  <1>1. /\ a = current_space /\ pc[a] = "unmap" /\ Goto(a, "idle")
        /\ state' = [state EXCEPT ![job[a]] = "absent"] /\ job' = [job EXCEPT ![a] = NoSpace]
        /\ directory' = [directory EXCEPT ![job[a]] = EmptyDirectory]
        /\ UNCHANGED <<current_space, kernel_directory, heap_pages>>
    BY DEF FreeDirectory, Running
  <1>2. OwnerType' /\ OwnerInv'
    BY <1>1, OwnerDone
  <1>3. \A b \in Actor : pc'[b] = IF b = a THEN "idle" ELSE pc[b]
    BY <1>1 DEF MapInv, OwnerType, Goto
  <1>4. job[a] \in Space /\ job[a] # a
    BY <1>1, OtherDirectory
  <1>5. EmptyDirectory \in [Dirs -> Frames]
    BY FirstFreeFrame DEF EmptyDirectory
  <1>6. /\ directory' \in [Space -> [Dirs -> Frames]]
        /\ a \in Space => directory'[a] = directory[a]
    BY <1>1, <1>4, <1>5 DEF MapInv, DirectoryType
  <1>7. GrowInv' /\ DirectoryType' /\ SharedInv'
    BY <1>1, <1>3, <1>6, SharedFrame DEF Growing
  <1> QED BY <1>2, <1>7 DEF MapInv

-----------------------------------------------------------------------------
(* Every step preserves the invariant, if no launch begins while another   *)
(* thread is inside an allocation.                                         *)
LEMMA NextMap ==
  ASSUME MapInv, [Next]_vars, "alloc_race" \notin Features
  PROVE  MapInv'
  <1>0. ExecInv'
    BY NextExec DEF MapInv
  <1>1. ASSUME NEW a \in Actor, AllocationFails(a) PROVE MapInv'
    BY <1>0, <1>1, HaltMap DEF AllocationFails
  <1>2. ASSUME NEW a \in Actor,
               \E s \in Space, cmd \in (IF launches = 0 THEN Commands ELSE LaterCommands),
                  grow \in BOOLEAN : Launch(a, s, cmd, grow)
        PROVE  MapInv'
    BY <1>0, <1>2, LaunchMap
  <1>3. CASE UNCHANGED vars
    BY <1>0, <1>3 DEF vars, MapInv, OwnerType, OwnerInv, GrowInv, DirectoryType, SharedInv,
                DirectoryOf, HeapNext, spaceVars, procVars, workVars
  <1> QED BY <1>0, <1>1, <1>2, <1>3, DispatchMap, ScanMap, GrowPageMap, GrowTableMap, GrowMapMap,
             CreateMap, AllocPageMap, AllocTableMap, MapPageMap, FillMap, StartMap,
             UnmapNextMap, FreeTableMap, FreeDirectoryMap, ExitMap, CollectMap DEF Next

(* If no launch begins while another thread is between the test of a bit   *)
(* and its mark in pmm_alloc_page, a space has one owner at a time, and a  *)
(* switch of spaces at any moment, inside an allocation too, leaves the    *)
(* loaded directory with the kernel's tables, but for one being created.   *)
THEOREM Inductive == ASSUME "alloc_race" \notin Features PROVE Spec => []MapInv
  BY InitMap, NextMap, PTL DEF Spec

-----------------------------------------------------------------------------
(* Division with remainder, and its uniqueness.                            *)
LEMMA DivMod ==
  ASSUME NEW x \in Nat, NEW n \in Nat \ {0}
  PROVE  /\ x \div n \in Nat /\ x % n \in 0..(n - 1)
         /\ x = (x \div n) * n + (x % n)
  <1>1. x \div n \in Nat /\ x % n \in 0..(n - 1)
    OBVIOUS
  <1>2. x = (x \div n) * n + (x % n)
    OBVIOUS
  <1> QED BY <1>1, <1>2

(* A number without remainder is a multiple.                               *)
LEMMA Multiple ==
  ASSUME NEW x \in Nat, NEW n \in Nat \ {0}, x % n = 0
  PROVE  x \div n \in Nat /\ x = (x \div n) * n
  <1>1. x \div n \in Nat /\ x = (x \div n) * n + (x % n)
    BY DivMod
  <1>2. (x \div n) * n \in Nat
    BY <1>1
  <1>3. x = (x \div n) * n
    BY ONLY <1>1, <1>2, x % n = 0
  <1> QED BY <1>1, <1>3

(* A number is given by its quotient and its remainder, uniquely.          *)
LEMMA QuotientUnique ==
  ASSUME NEW q \in Nat, NEW p \in Nat, NEW n \in Nat \ {0}, NEW r \in 0..(n - 1),
         NEW s \in 0..(n - 1), q * n + r = p * n + s
  PROVE  q = p /\ r = s
  <1>1. ASSUME q < p PROVE FALSE
    <2>1. PICK k \in Nat : p = q + 1 + k
      <3>1. p - q - 1 \in Nat /\ p = q + 1 + (p - q - 1)
        BY <1>1
      <3> QED BY <3>1
    <2>2. (q + 1 + k) * n = q * n + n + k * n
      OBVIOUS
    <2>3. k * n >= 0
      OBVIOUS
    <2>4. q * n + r = q * n + n + k * n + s
      BY <2>1, <2>2
    <2>5. q * n \in Nat /\ k * n \in Nat
      OBVIOUS
    <2> QED BY <2>3, <2>4, <2>5
  <1>2. ASSUME p < q PROVE FALSE
    <2>1. PICK k \in Nat : q = p + 1 + k
      <3>1. q - p - 1 \in Nat /\ q = p + 1 + (q - p - 1)
        BY <1>2
      <3> QED BY <3>1
    <2>2. (p + 1 + k) * n = p * n + n + k * n
      OBVIOUS
    <2>3. k * n >= 0
      OBVIOUS
    <2>4. p * n + s = p * n + n + k * n + r
      BY <2>1, <2>2
    <2>5. p * n \in Nat /\ k * n \in Nat
      OBVIOUS
    <2> QED BY <2>3, <2>4, <2>5
  <1>3. q = p
    BY <1>1, <1>2
  <1> QED BY <1>3

(* The quotient and the remainder of a number that is given by them.       *)
LEMMA DivModOf ==
  ASSUME NEW q \in Nat, NEW n \in Nat \ {0}, NEW r \in 0..(n - 1)
  PROVE  (q * n + r) \div n = q /\ (q * n + r) % n = r
  <1>1. PICK x \in Nat : x = q * n + r
    OBVIOUS
  <1>2. x \div n \in Nat /\ x % n \in 0..(n - 1) /\ x = (x \div n) * n + (x % n)
    BY DivMod
  <1>3. (x \div n) * n + (x % n) = q * n + r
    BY <1>1, <1>2
  <1>4. x \div n = q /\ x % n = r
    BY <1>2, <1>3, QuotientUnique
  <1> QED BY <1>1, <1>4

-----------------------------------------------------------------------------
(* Addresses: a byte is at an offset in a page, a page at an index in a    *)
(* table, a table at an index in the directory.                            *)
LEMMA Sizes ==
  /\ PageSize \in Nat \ {0} /\ TableEntries \in Nat \ {0} /\ AddrMod \in Nat \ {0}
  /\ PageSize * TableEntries \in Nat \ {0}
  <1>1. PageSize \in Nat \ {0} /\ TableEntries \in Nat \ {0} /\ AddrMod \in Nat \ {0}
    BY PhysicalAssumption, SpaceAssumption
  <1> QED BY <1>1

(* The address with given indexes and offset has them, ...                 *)
LEMMA IndexesOf ==
  ASSUME NEW d \in Nat, NEW i \in 0..(TableEntries - 1), NEW o \in 0..(PageSize - 1)
  PROVE  LET b == (d * TableEntries + i) * PageSize + o
         IN directory_index(b) = d /\ table_index(b) = i /\ b % PageSize = o
  <1> DEFINE b == (d * TableEntries + i) * PageSize + o
  <1>1. PICK n \in Nat : n = d * TableEntries + i
    BY Sizes
  <1>2. b \div PageSize = n /\ b % PageSize = o
    BY <1>1, Sizes, DivModOf
  <1>3. table_index(b) = i
    <2>1. (d * TableEntries + i) % TableEntries = i
      BY Sizes, DivModOf
    <2> HIDE DEF b
    <2> QED BY <1>1, <1>2, <2>1 DEF table_index
  <1>4. directory_index(b) = d
    <2>1. PICK P \in Nat \ {0}, E \in Nat \ {0} : P = PageSize /\ E = TableEntries
      BY Sizes
    <2>2. b = (d * E + i) * P + o /\ i \in 0..(E - 1) /\ o \in 0..(P - 1)
      BY <2>1
    <2> HIDE DEF b
    <2>3. PICK r \in Nat : r = i * P + o
      BY <2>2
    <2>4. b = d * (P * E) + r
      <3>1. (d * E + i) * P = (d * E) * P + i * P
        BY ONLY d \in Nat, E \in Nat, P \in Nat, <2>2
      <3>2. (d * E) * P = d * (P * E)
        BY ONLY d \in Nat, E \in Nat, P \in Nat
      <3> QED BY <2>2, <2>3, <3>1, <3>2
    <2>5. r < P * E
      <3>1. PICK k \in Nat : E = i + 1 + k
        <4>1. E - i - 1 \in Nat /\ E = i + 1 + (E - i - 1)
          BY <2>2
        <4> QED BY <4>1
      <3>2. P * (i + 1 + k) = i * P + P + k * P /\ k * P >= 0
        BY ONLY P \in Nat, k \in Nat, i \in Nat
      <3>3. i \in Nat /\ o \in Nat /\ o < P
        BY ONLY <2>2, P \in Nat, E \in Nat
      <3>4. i * P \in Nat /\ k * P \in Nat
        BY ONLY <3>3, P \in Nat, k \in Nat
      <3> QED BY ONLY <2>3, <3>1, <3>2, <3>3, <3>4, P \in Nat
    <2>6. P * E \in Nat \ {0} /\ r \in 0..(P * E - 1)
      BY <2>5
    <2>7. b \div (P * E) = d
      BY <2>4, <2>6, DivModOf
    <2> QED BY <2>1, <2>7 DEF directory_index
  <1> QED BY <1>2, <1>3, <1>4

(* ... and every address is one.                                           *)
LEMMA Place ==
  ASSUME NEW b \in Nat
  PROVE  \E d \in Nat, i \in 0..(TableEntries - 1), o \in 0..(PageSize - 1) :
           b = (d * TableEntries + i) * PageSize + o
  <1>1. PICK n \in Nat, o \in 0..(PageSize - 1) : b = n * PageSize + o
    BY Sizes, DivMod
  <1>2. PICK d \in Nat, i \in 0..(TableEntries - 1) : n = d * TableEntries + i
    <2>1. PICK T \in Nat \ {0} : T = TableEntries
      BY Sizes
    <2>2. n \div T \in Nat /\ n % T \in 0..(T - 1) /\ n = (n \div T) * T + (n % T)
      BY DivMod
    <2> QED BY <2>1, <2>2
  <1> QED BY <1>1, <1>2

(* Multiplication is monotonic.                                            *)
LEMMA Times ==
  ASSUME NEW m \in Nat, NEW k \in Nat, NEW n \in Nat
  PROVE  m * n \in Nat /\ (m <= k => m * n <= k * n) /\ (m < k => m * n + n <= k * n)
  <1>1. m * n \in Nat /\ k * n \in Nat
    OBVIOUS
  <1>2. ASSUME m < k PROVE m * n + n <= k * n
    <2>1. PICK j \in Nat : k = m + 1 + j
      <3>1. k - m - 1 \in Nat /\ k = m + 1 + (k - m - 1)
        BY <1>2
      <3> QED BY <3>1
    <2>2. k * n = m * n + n + j * n /\ j * n \in Nat
      BY <2>1
    <2> QED BY ONLY <1>1, <2>2, n \in Nat
  <1>3. m = k => m * n = k * n
    OBVIOUS
  <1>4. m <= k => m < k \/ m = k
    OBVIOUS
  <1>5. ASSUME m <= k PROVE m * n <= k * n
    <2>1. CASE m < k
      BY ONLY <1>1, <1>2, <2>1, n \in Nat
    <2>2. CASE m = k
      BY ONLY <1>1, <1>3, <2>2
    <2> QED BY <1>4, <1>5, <2>1, <2>2
  <1> QED BY <1>1, <1>2, <1>5

(* An address lies at or above a directory entry when its index does.      *)
LEMMA IndexBound ==
  ASSUME NEW b \in Nat, NEW k \in Nat
  PROVE  /\ directory_index(b) \in Nat
         /\ k * (PageSize * TableEntries) <= b <=> k <= directory_index(b)
  <1>1. PICK S \in Nat \ {0} : S = PageSize * TableEntries
    BY Sizes
  <1>2. PICK q \in Nat, r \in 0..(S - 1) : q = b \div S /\ b = q * S + r
    BY DivMod
  <1>3. directory_index(b) = q
    BY <1>1, <1>2 DEF directory_index
  <1>4. k * S \in Nat /\ q * S \in Nat /\ (k <= q => k * S <= q * S)
    BY Times
  <1>5. q < k => q * S + S <= k * S
    BY Times
  <1>6. k * S <= b <=> k <= q
    BY ONLY <1>2, <1>4, <1>5, S \in Nat, k \in Nat, q \in Nat, r \in 0..(S - 1), b \in Nat
  <1> QED BY <1>1, <1>3, <1>6

(* The user range begins after the first directory entry and ends before   *)
(* the last.                                                               *)
LEMMA Layout ==
  \E ub, ut, am \in Nat :
    /\ 0 < ub /\ ub < ut /\ ut < am
    /\ UserBase = ub * (PageSize * TableEntries) /\ UserTop = ut * (PageSize * TableEntries)
    /\ AddrMod = am * (PageSize * TableEntries)
    /\ Dirs = 0..(am - 1) /\ UserDirs = ub..(ut - 1)
  <1>1. PICK S \in Nat \ {0} : S = PageSize * TableEntries
    BY Sizes
  <1>2. /\ UserBase \in Nat \ {0} /\ UserTop \in Nat \ {0} /\ UserBase < UserTop /\ UserTop < AddrMod
    <2>1. /\ UserBase \in 1..AddrMod /\ UserTop \in 1..AddrMod /\ StackSize \in 1..AddrMod
          /\ StackTop \in 1..AddrMod /\ UserBase <= StackTop - StackSize /\ StackTop <= UserTop
      BY ImageAssumption
    <2>2. UserTop < AddrMod
      BY SpaceAssumption
    <2> QED BY <2>1, <2>2, Sizes
  <1>3. UserBase % S = 0 /\ UserTop % S = 0 /\ AddrMod % S = 0
    BY <1>1, SpaceAssumption
  <1>5. PICK ub \in Nat : UserBase = ub * S
    BY <1>2, <1>3, Multiple
  <1>6. PICK ut \in Nat : UserTop = ut * S
    BY <1>2, <1>3, Multiple
  <1>7. PICK am \in Nat : AddrMod = am * S
    BY <1>3, Multiple, Sizes
  <1>8. 0 < ub
    <2>1. 0 * S = 0
      OBVIOUS
    <2> QED BY <1>2, <1>5, <2>1
  <1>9. ub < ut
    <2>1. ut <= ub => ut * S <= ub * S
      BY Times
    <2> QED BY <1>2, <1>5, <1>6, <2>1
  <1>10. ut < am
    <2>1. am <= ut => am * S <= ut * S
      BY Times
    <2> QED BY <1>2, <1>6, <1>7, <2>1, Sizes
  <1>11. ASSUME NEW k \in Nat, 0 < k, k * S \in Nat \ {0} PROVE directory_index(k * S - 1) = k - 1
    <2>1. PICK x \in Nat : x = k * S - 1
      BY <1>11
    <2>2. directory_index(x) \in Nat
      BY <2>1, IndexBound
    <2>3. k * S <= x <=> k <= directory_index(x)
      BY <1>1, IndexBound
    <2>4. (k - 1) * S <= x <=> k - 1 <= directory_index(x)
      BY <1>1, <1>11, IndexBound
    <2>5. (k - 1) * S \in Nat /\ (k - 1) * S + S <= k * S
      BY <1>11, Times
    <2>6. ~ (k * S <= x) /\ (k - 1) * S <= x
      BY ONLY <2>1, <2>5, <1>11, S \in Nat \ {0}
    <2>7. ~ (k <= directory_index(x)) /\ k - 1 <= directory_index(x)
      BY <2>3, <2>4, <2>6
    <2> QED BY ONLY <2>1, <2>2, <2>7, k \in Nat
  <1>12. Dirs = 0..(am - 1)
    BY <1>7, <1>10, <1>11, Sizes DEF Dirs
  <1>13. directory_index(UserBase) = ub
    <2>1. PICK x \in Nat : x = ub * S
      BY <1>2, <1>5
    <2>2. directory_index(x) \in Nat /\ (ub * S <= x <=> ub <= directory_index(x))
      BY <1>1, IndexBound
    <2>3. (ub + 1) * S <= x <=> ub + 1 <= directory_index(x)
      BY <1>1, IndexBound
    <2>4. (ub + 1) * S = ub * S + S
      OBVIOUS
    <2>5. ~ ((ub + 1) * S <= x)
      BY <2>1, <2>4
    <2> QED BY <1>5, <2>1, <2>2, <2>3, <2>5
  <1>14. directory_index(UserTop - 1) = ut - 1
    BY <1>2, <1>6, <1>8, <1>9, <1>11
  <1>15. UserDirs = ub..(ut - 1)
    BY <1>13, <1>14 DEF UserDirs
  <1> QED BY <1>1, <1>5, <1>6, <1>7, <1>8, <1>9, <1>10, <1>12, <1>15

(* The indexes of a page table.                                            *)
Indexes == 0..(TableEntries - 1)

(* The indexes of a word, which tell the user range from the heap above    *)
(* it.                                                                     *)
LEMMA Addresses ==
  /\ UserBase \in Nat /\ UserTop \in Word /\ 0 \in KernelDirs /\ UserDirs \subseteq Dirs
  /\ \A b \in Word :
       /\ directory_index(b) \in Dirs /\ table_index(b) \in Indexes
       /\ user_virtual_allowed(b) <=> directory_index(b) \in UserDirs
       /\ b >= HeapBase => directory_index(b) \in KernelDirs /\ directory_index(b) # 0
  <1>1. PICK S \in Nat \ {0} : S = PageSize * TableEntries
    BY Sizes
  <1>2. PICK ub \in Nat, ut \in Nat, am \in Nat :
          /\ 0 < ub /\ ub < ut /\ ut < am
          /\ UserBase = ub * S /\ UserTop = ut * S /\ AddrMod = am * S
          /\ Dirs = 0..(am - 1) /\ UserDirs = ub..(ut - 1)
    BY <1>1, Layout
  <1>3. UserBase \in Nat /\ UserTop \in Word
    <2>1. ub * S \in Nat /\ ut * S \in Nat /\ ut * S + S <= am * S
      BY <1>2, Times
    <2> QED BY <1>2, <2>1, Sizes DEF Word
  <1>4. 0 \in KernelDirs /\ UserDirs \subseteq Dirs
    BY <1>2 DEF KernelDirs
  <1>5. ASSUME NEW b \in Word
        PROVE  /\ directory_index(b) \in Dirs /\ table_index(b) \in Indexes
               /\ user_virtual_allowed(b) <=> directory_index(b) \in UserDirs
               /\ b >= HeapBase => directory_index(b) \in KernelDirs /\ directory_index(b) # 0
    <2>1. b \in Nat /\ b < AddrMod
      BY Sizes DEF Word
    <2>2. PICK d \in Nat : d = directory_index(b)
      BY <2>1, IndexBound
    <2>3. /\ am * S <= b <=> am <= d
          /\ ut * S <= b <=> ut <= d
          /\ ub * S <= b <=> ub <= d
      BY <1>1, <2>1, <2>2, IndexBound
    <2>4. d < am
      BY <1>2, <2>1, <2>3
    <2>5. table_index(b) \in Indexes
      BY <2>1, Sizes, DivMod DEF table_index, Indexes
    <2>6. user_virtual_allowed(b) <=> d \in UserDirs
      BY <1>2, <1>3, <2>1, <2>3 DEF user_virtual_allowed, Word
    <2>7. b >= HeapBase => ut <= d
      BY <1>2, <1>3, <2>1, <2>3 DEF HeapBase, Word
    <2>8. ut <= d => d \in KernelDirs /\ d # 0
      BY <1>2, <2>4 DEF KernelDirs
    <2> QED BY <1>2, <2>2, <2>4, <2>5, <2>6, <2>7, <2>8
  <1> QED BY <1>3, <1>4, <1>5

(* A page is a multiple of the page size that is a word.                   *)
LEMMA PageAddresses ==
  \A v : v \in Pages <=> v \in Word /\ v % PageSize = 0
  <1>1. PICK P \in Nat \ {0} : P = PageSize
    BY Sizes
  <1>2. PICK N \in Nat : N = AnyFrame /\ AddrMod = N * P
    <2>1. AddrMod % P = 0
      BY <1>1, PhysicalAssumption
    <2>2. AddrMod \div P \in Nat /\ AddrMod = (AddrMod \div P) * P
      BY <2>1, Sizes, Multiple
    <2> QED BY <1>1, <2>2 DEF AnyFrame
  <1>3. ASSUME NEW v, v \in Pages PROVE v \in Word /\ v % PageSize = 0
    <2>1. PICK n \in 0..(N - 1) : v = n * P
      BY <1>1, <1>2, <1>3 DEF Pages
    <2>2. n * P \in Nat /\ n * P + P <= N * P
      BY <2>1, Times
    <2>3. v \in Word
      BY <1>2, <2>1, <2>2 DEF Word
    <2>4. (n * P + 0) % P = 0
      BY DivModOf
    <2>5. n * P + 0 = n * P
      BY <2>2
    <2> QED BY <1>1, <2>1, <2>3, <2>4, <2>5
  <1>4. ASSUME NEW v \in Word, v % PageSize = 0 PROVE v \in Pages
    <2>1. v \in Nat /\ v < AddrMod
      BY Sizes DEF Word
    <2>2. PICK n \in Nat : v = n * P
      BY <1>1, <1>4, <2>1, Multiple
    <2>3. N <= n => N * P <= n * P
      BY Times
    <2>4. n < N
      BY <1>2, <2>1, <2>2, <2>3
    <2>5. n \in 0..(AnyFrame - 1)
      BY <1>2, <2>4
    <2> QED BY <1>1, <2>2, <2>5 DEF Pages
  <1> QED BY <1>3, <1>4

(* A page is given by its two indexes, and every pair of indexes is a      *)
(* page; a byte has the indexes of its page.                               *)
LEMMA PageIndexes ==
  ASSUME NEW v \in Pages, NEW w \in Pages,
         directory_index(v) = directory_index(w), table_index(v) = table_index(w)
  PROVE  v = w
  <1>1. v \in Nat /\ v % PageSize = 0 /\ w \in Nat /\ w % PageSize = 0
    BY PageAddresses DEF Word
  <1>2. PICK d \in Nat, i \in 0..(TableEntries - 1), o \in 0..(PageSize - 1) :
          v = (d * TableEntries + i) * PageSize + o
    BY <1>1, Place
  <1>3. PICK e \in Nat, j \in 0..(TableEntries - 1), p \in 0..(PageSize - 1) :
          w = (e * TableEntries + j) * PageSize + p
    BY <1>1, Place
  <1>4. directory_index(v) = d /\ table_index(v) = i /\ o = 0
    BY <1>1, <1>2, IndexesOf
  <1>5. directory_index(w) = e /\ table_index(w) = j /\ p = 0
    BY <1>1, <1>3, IndexesOf
  <1> QED BY <1>2, <1>3, <1>4, <1>5

LEMMA PageOfIndexes ==
  ASSUME NEW d \in Dirs, NEW i \in Indexes
  PROVE  \E v \in Pages : directory_index(v) = d /\ table_index(v) = i
  <1>1. PICK am \in Nat : AddrMod = am * (PageSize * TableEntries) /\ Dirs = 0..(am - 1)
    BY Layout
  <1>2. d \in Nat /\ i \in 0..(TableEntries - 1) /\ 0 \in 0..(PageSize - 1)
    BY <1>1, Sizes DEF Indexes
  <1>3. PICK v \in Nat : v = (d * TableEntries + i) * PageSize + 0
    BY <1>2, Sizes
  <1>4. directory_index(v) = d /\ table_index(v) = i /\ v % PageSize = 0
    BY <1>2, <1>3, IndexesOf
  <1>5. am * (PageSize * TableEntries) <= v <=> am <= directory_index(v)
    BY IndexBound
  <1>6. v \in Word
    BY <1>1, <1>4, <1>5, Sizes DEF Word
  <1> QED BY <1>4, <1>6, PageAddresses

LEMMA PageOfByte ==
  ASSUME NEW b \in Word
  PROVE  /\ align_down_page(b) \in Pages
         /\ align_down_page(b) <= b /\ b < align_down_page(b) + PageSize
         /\ directory_index(align_down_page(b)) = directory_index(b)
         /\ table_index(align_down_page(b)) = table_index(b)
  <1>1. b \in Nat /\ b < AddrMod
    BY Sizes DEF Word
  <1>2. PICK d \in Nat, i \in 0..(TableEntries - 1), o \in 0..(PageSize - 1) :
          b = (d * TableEntries + i) * PageSize + o
    BY <1>1, Place
  <1>3. directory_index(b) = d /\ table_index(b) = i /\ b % PageSize = o
    BY <1>2, IndexesOf
  <1>4. PICK p \in Nat : p = (d * TableEntries + i) * PageSize
    BY <1>2, Sizes
  <1>5. b = p + o
    BY <1>2, <1>4
  <1>6. align_down_page(b) = p /\ p <= b /\ b < p + PageSize /\ p < AddrMod
    <2>1. PICK P \in Nat \ {0} : P = PageSize
      BY Sizes
    <2>2. o \in Nat /\ o < P
      BY <2>1
    <2>3. align_down_page(b) = b - o
      BY <1>3 DEF align_down_page
    <2>4. b - o = p /\ p <= b /\ b < p + P /\ p < AddrMod
      BY ONLY <1>1, <1>5, <2>2, Sizes, P \in Nat, p \in Nat
    <2> QED BY <2>1, <2>3, <2>4
  <1>7. 0 \in 0..(PageSize - 1) /\ p = (d * TableEntries + i) * PageSize + 0
    BY <1>4, Sizes
  <1>8. directory_index(p) = d /\ table_index(p) = i /\ p % PageSize = 0
    BY <1>7, IndexesOf
  <1>9. p \in Pages
    BY <1>6, <1>8, Sizes, PageAddresses DEF Word
  <1> QED BY <1>3, <1>6, <1>8, <1>9

-----------------------------------------------------------------------------
(* What a frame can be used for; a use is named by its kind, the actor and *)
(* a place.                                                                *)
Kinds == {"directory", "table", "page", "hand"}
Key(kind, a, n) == <<kind, a, n>>
Keys == {Key(kind, a, n) : kind \in Kinds, a \in Actor, n \in Nat}
InUse(g) == {g[k] : k \in Keys} \ {NoFrame}

(* A map from uses to frames that agrees with a bitmap and a count.        *)
Accounted(g, used, free) ==
  /\ g \in [Keys -> Frames]
  /\ \A k, l \in Keys : g[k] = g[l] /\ g[k] # NoFrame => k = l
  /\ InUse(g) \subseteq Usable
  /\ used = (Frames \ Usable) \cup InUse(g)
  /\ free = Cardinality(Frames \ used)

(* There are finitely many frames, so that they can be counted.            *)
LEMMA FramesFinite ==
  /\ IsFiniteSet(Frames)
  /\ \A S : IsFiniteSet(Frames \ S) /\ Cardinality(Frames \ S) \in Nat
  <1>1. AddrMod \div PageSize \in Nat
    BY Sizes, DivMod
  <1>2. IsFiniteSet(Frames)
    BY <1>1, FS_Interval DEF Frames
  <1>3. ASSUME NEW S PROVE IsFiniteSet(Frames \ S) /\ Cardinality(Frames \ S) \in Nat
    BY <1>2, FS_Subset, FS_CardinalityType
  <1> QED BY <1>2, <1>3

(* A frame that is taken from the bitmap gets a use.                       *)
LEMMA AddUse ==
  ASSUME NEW g, NEW used, NEW free, Accounted(g, used, free),
         NEW k \in Keys, g[k] = NoFrame,
         NEW f \in Frames, f # NoFrame, f \notin used
  PROVE  Accounted([g EXCEPT ![k] = f], used \cup {f},
                   IF f \notin used /\ free > 0 THEN free - 1 ELSE free)
  <1> DEFINE h == [g EXCEPT ![k] = f]
  <1>1. h \in [Keys -> Frames] /\ \A l \in Keys : h[l] = IF l = k THEN f ELSE g[l]
    BY DEF Accounted
  <1>2. \A l \in Keys : g[l] # f
    BY DEF Accounted, InUse
  <1>3. InUse(h) = InUse(g) \cup {f}
    BY <1>1 DEF InUse
  <1>4. f \in Usable
    BY DEF Accounted
  <1>5. \A i, j \in Keys : h[i] = h[j] /\ h[i] # NoFrame => i = j
    BY <1>1, <1>2 DEF Accounted
  <1>6. Cardinality(Frames \ (used \cup {f})) = Cardinality(Frames \ used) - 1
    <2>1. Frames \ (used \cup {f}) = (Frames \ used) \ {f} /\ f \in Frames \ used
      OBVIOUS
    <2> QED BY <2>1, FramesFinite, FS_RemoveElement
  <1>7. Cardinality(Frames \ used) > 0
    <2>1. f \in Frames \ used
      OBVIOUS
    <2>2. Cardinality(Frames \ used) # 0
      BY <2>1, FramesFinite, FS_EmptySet
    <2> QED BY <2>2, FramesFinite
  <1> HIDE DEF h
  <1>8. /\ InUse(h) \subseteq Usable
        /\ used \cup {f} = (Frames \ Usable) \cup InUse(h)
    BY <1>3, <1>4 DEF Accounted
  <1>9. (IF f \notin used /\ free > 0 THEN free - 1 ELSE free) = Cardinality(Frames \ (used \cup {f}))
    BY <1>6, <1>7 DEF Accounted
  <1>10. Accounted(h, used \cup {f}, IF f \notin used /\ free > 0 THEN free - 1 ELSE free)
    BY <1>1, <1>5, <1>8, <1>9 DEF Accounted
  <1> QED BY <1>10 DEF h

(* A frame changes its use.                                                *)
LEMMA MoveUse ==
  ASSUME NEW g, NEW used, NEW free, Accounted(g, used, free),
         NEW k \in Keys, g[k] # NoFrame, NEW l \in Keys, g[l] = NoFrame
  PROVE  Accounted([g EXCEPT ![k] = NoFrame, ![l] = g[k]], used, free)
  <1> DEFINE h == [g EXCEPT ![k] = NoFrame, ![l] = g[k]]
  <1>1. /\ h \in [Keys -> Frames]
        /\ \A m \in Keys : h[m] = IF m = l THEN g[k] ELSE IF m = k THEN NoFrame ELSE g[m]
    BY FirstFreeFrame DEF Accounted
  <1>2. \A m, n \in Keys : h[m] = h[n] /\ h[m] # NoFrame => m = n
    BY <1>1 DEF Accounted
  <1>3. InUse(h) = InUse(g)
    <2>1. \A m \in Keys : h[m] # NoFrame => \E n \in Keys : g[n] = h[m]
      BY <1>1
    <2>2. \A m \in Keys : g[m] # NoFrame => \E n \in Keys : h[n] = g[m]
      BY <1>1
    <2> HIDE DEF h
    <2> QED BY <2>1, <2>2 DEF InUse
  <1> HIDE DEF h
  <1>4. Accounted(h, used, free)
    BY <1>1, <1>2, <1>3 DEF Accounted
  <1> QED BY <1>4 DEF h

(* A frame loses its use and is given back.                                *)
LEMMA DropUse ==
  ASSUME NEW g, NEW used, NEW free, Accounted(g, used, free),
         NEW k \in Keys, g[k] # NoFrame
  PROVE  Accounted([g EXCEPT ![k] = NoFrame], used \ {g[k]}, free + Cardinality({g[k]} \cap used))
  <1> DEFINE h == [g EXCEPT ![k] = NoFrame]
             f == g[k]
  <1>1. h \in [Keys -> Frames] /\ \A l \in Keys : h[l] = IF l = k THEN NoFrame ELSE g[l]
    BY FirstFreeFrame DEF Accounted
  <1>2. \A l \in Keys : l # k => g[l] # f
    BY DEF Accounted
  <1>3. f \in Frames /\ f \in used /\ f \in Usable
    BY DEF Accounted, InUse
  <1>4. InUse(h) = InUse(g) \ {f}
    <2>1. \A l \in Keys : h[l] # NoFrame => h[l] = g[l] /\ g[l] # f
      BY <1>1, <1>2
    <2>2. \A l \in Keys : g[l] # NoFrame /\ g[l] # f => h[l] = g[l]
      BY <1>1
    <2> HIDE DEF h, f
    <2> QED BY <2>1, <2>2 DEF InUse
  <1>5. \A m, n \in Keys : h[m] = h[n] /\ h[m] # NoFrame => m = n
    BY <1>1 DEF Accounted
  <1> HIDE DEF h, f
  <1>6. Cardinality(Frames \ (used \ {f})) = Cardinality(Frames \ used) + 1
    <2>1. Frames \ (used \ {f}) = (Frames \ used) \cup {f} /\ f \notin Frames \ used
      BY <1>3
    <2> QED BY <2>1, FramesFinite, FS_AddElement
  <1>7. Cardinality({f} \cap used) = 1
    <2>1. {f} \cap used = {f}
      BY <1>3
    <2> QED BY <2>1, FS_Singleton
  <1>8. InUse(h) \subseteq Usable /\ used \ {f} = (Frames \ Usable) \cup InUse(h)
    BY <1>3, <1>4 DEF Accounted
  <1>9. free + Cardinality({f} \cap used) = Cardinality(Frames \ (used \ {f}))
    BY <1>6, <1>7 DEF Accounted
  <1>10. Accounted(h, used \ {f}, free + Cardinality({f} \cap used))
    BY <1>1, <1>5, <1>8, <1>9 DEF Accounted
  <1> QED BY <1>10 DEF h, f

-----------------------------------------------------------------------------
(* What an actor's space maps for itself: a process in the user range, the *)
(* kernel in its heap.                                                     *)
OwnDir(a, d) == IF a = KernelSpace THEN d \in KernelDirs /\ d # 0 ELSE d \in UserDirs
OwnPage(a, v) == v \in Pages /\ (IF a = KernelSpace THEN v >= HeapBase ELSE user_virtual_allowed(v))
Tables == [a \in Actor |-> [d \in Nat |-> IF OwnDir(a, d) THEN DirectoryOf(a)[d] ELSE NoFrame]]
Entries == [a \in Actor |-> [v \in Nat |-> IF OwnPage(a, v) THEN EntryIn(DirectoryOf(a), v) ELSE NotPresent]]

(* What a key stands for, given what holds frames.                         *)
HeldBy(kind, a, n, dirs, hands, tables, entries) ==
  CASE kind = "directory" -> IF a \in Space /\ n = 0 THEN dirs[a] ELSE NoFrame
    [] kind = "hand" -> IF n = 0 THEN hands[a] ELSE NoFrame
    [] kind = "table" -> tables[a][n]
    [] kind = "page" -> entries[a][n].frame
Held(dirs, hands, tables, entries) ==
  [k \in Keys |-> HeldBy(k[1], k[2], k[3], dirs, hands, tables, entries)]

(* The components of the name of a use.                                    *)
LEMMA KeyIsTuple ==
  /\ \A kind, a, n : Key(kind, a, n)[1] = kind /\ Key(kind, a, n)[2] = a /\ Key(kind, a, n)[3] = n
  /\ \A kind \in Kinds, a \in Actor, n \in Nat : Key(kind, a, n) \in Keys
  BY DEF Key, Keys

(* Two names are equal when their components are.                          *)
LEMMA KeyEqual ==
  ASSUME NEW kind, NEW a, NEW n, NEW kind1, NEW a1, NEW n1
  PROVE  Key(kind, a, n) = Key(kind1, a1, n1) <=> kind = kind1 /\ a = a1 /\ n = n1
  BY KeyIsTuple

(* The frame of a use.                                                     *)
LEMMA HeldAt ==
  ASSUME NEW dirs, NEW hands, NEW tables, NEW entries, NEW kind \in Kinds, NEW a \in Actor, NEW n \in Nat
  PROVE  Held(dirs, hands, tables, entries)[Key(kind, a, n)] = HeldBy(kind, a, n, dirs, hands, tables, entries)
  BY KeyIsTuple DEF Held

(* Changing one holder changes one use.                                    *)
OneChange(dirs, hands, tables, entries, dirs1, hands1, tables1, entries1, K, f) ==
  \A kind \in Kinds, a \in Actor, n \in Nat :
    HeldBy(kind, a, n, dirs1, hands1, tables1, entries1) =
      IF Key(kind, a, n) = K THEN f ELSE HeldBy(kind, a, n, dirs, hands, tables, entries)

(* The map of uses changes at one place.                                   *)
Update(g, h, K, f) == h = [g EXCEPT ![K] = f]

(* When one holder changes, the other uses keep their frames.              *)
LEMMA HeldChange ==
  ASSUME NEW dirs, NEW hands, NEW tables, NEW entries,
         NEW dirs1, NEW hands1, NEW tables1, NEW entries1, NEW K \in Keys, NEW f,
         OneChange(dirs, hands, tables, entries, dirs1, hands1, tables1, entries1, K, f)
  PROVE  Update(Held(dirs, hands, tables, entries), Held(dirs1, hands1, tables1, entries1), K, f)
  <1>1. PICK g : g = Held(dirs, hands, tables, entries)
    OBVIOUS
  <1>2. PICK h : h = Held(dirs1, hands1, tables1, entries1)
    OBVIOUS
  <1>3. \A k \in Keys : \E kind \in Kinds, a \in Actor, n \in Nat : k = Key(kind, a, n)
    BY DEF Keys
  <1>4. \A kind \in Kinds, a \in Actor, n \in Nat :
          /\ g[Key(kind, a, n)] = HeldBy(kind, a, n, dirs, hands, tables, entries)
          /\ h[Key(kind, a, n)] = HeldBy(kind, a, n, dirs1, hands1, tables1, entries1)
    BY <1>1, <1>2, HeldAt
  <1>5. \A k \in Keys : h[k] = IF k = K THEN f ELSE g[k]
    BY <1>3, <1>4 DEF OneChange
  <1>6. g = [k \in Keys |-> g[k]] /\ h = [k \in Keys |-> h[k]]
    BY <1>1, <1>2 DEF Held
  <1>7. h = [g EXCEPT ![K] = f]
    BY <1>5, <1>6
  <1> QED BY <1>1, <1>2, <1>7 DEF Update

(* A directory is taken or given back.                                     *)
LEMMA HeldDirectory ==
  ASSUME NEW dirs \in [Space -> Frames], NEW hands, NEW tables, NEW entries, NEW s \in Space, NEW f,
         NEW dirs1, dirs1 = [dirs EXCEPT ![s] = f]
  PROVE  Update(Held(dirs, hands, tables, entries), Held(dirs1, hands, tables, entries), Key("directory", s, 0), f)
  <1> DEFINE K == Key("directory", s, 0)
  <1>1. K \in Keys
    BY KeyIsTuple DEF Kinds, Actor
  <1>2. ASSUME NEW kind \in Kinds, NEW a \in Actor, NEW n \in Nat
        PROVE  HeldBy(kind, a, n, dirs1, hands, tables, entries) =
                 IF Key(kind, a, n) = K THEN f ELSE HeldBy(kind, a, n, dirs, hands, tables, entries)
    <2>1. Key(kind, a, n) = K <=> kind = "directory" /\ a = s /\ n = 0
      BY KeyEqual
    <2> HIDE DEF K
    <2>2. CASE kind = "directory"
      BY <2>1, <2>2 DEF HeldBy
    <2>3. CASE kind # "directory"
      BY <2>1, <2>3 DEF HeldBy, Kinds
    <2> QED BY <2>2, <2>3
  <1> HIDE DEF K
  <1>3. OneChange(dirs, hands, tables, entries, dirs1, hands, tables, entries, K, f)
    BY <1>2 DEF OneChange
  <1>4. Update(Held(dirs, hands, tables, entries), Held(dirs1, hands, tables, entries), K, f)
    BY ONLY <1>1, <1>3, HeldChange
  <1> QED BY <1>4 DEF K

(* A frame is taken in hand or put down.                                   *)
LEMMA HeldHand ==
  ASSUME NEW dirs, NEW hands \in [Actor -> Frames], NEW tables, NEW entries, NEW b \in Actor, NEW f,
         NEW hands1, hands1 = [hands EXCEPT ![b] = f]
  PROVE  Update(Held(dirs, hands, tables, entries), Held(dirs, hands1, tables, entries), Key("hand", b, 0), f)
  <1> DEFINE K == Key("hand", b, 0)
  <1>1. K \in Keys
    BY KeyIsTuple DEF Kinds
  <1>2. ASSUME NEW kind \in Kinds, NEW a \in Actor, NEW n \in Nat
        PROVE  HeldBy(kind, a, n, dirs, hands1, tables, entries) =
                 IF Key(kind, a, n) = K THEN f ELSE HeldBy(kind, a, n, dirs, hands, tables, entries)
    <2>1. Key(kind, a, n) = K <=> kind = "hand" /\ a = b /\ n = 0
      BY KeyEqual
    <2> HIDE DEF K
    <2>2. CASE kind = "hand"
      BY <2>1, <2>2 DEF HeldBy
    <2>3. CASE kind # "hand"
      BY <2>1, <2>3 DEF HeldBy, Kinds
    <2> QED BY <2>2, <2>3
  <1> HIDE DEF K
  <1>3. OneChange(dirs, hands, tables, entries, dirs, hands1, tables, entries, K, f)
    BY <1>2 DEF OneChange
  <1>4. Update(Held(dirs, hands, tables, entries), Held(dirs, hands1, tables, entries), K, f)
    BY ONLY <1>1, <1>3, HeldChange
  <1> QED BY <1>4 DEF K

(* A page table is entered or taken out.                                   *)
LEMMA HeldTable ==
  ASSUME NEW dirs, NEW hands, NEW tables \in [Actor -> [Nat -> Frames]], NEW entries,
         NEW b \in Actor, NEW d \in Nat, NEW f,
         NEW tables1, tables1 = [tables EXCEPT ![b][d] = f]
  PROVE  Update(Held(dirs, hands, tables, entries), Held(dirs, hands, tables1, entries), Key("table", b, d), f)
  <1> DEFINE K == Key("table", b, d)
  <1>1. K \in Keys
    BY KeyIsTuple DEF Kinds
  <1>2. ASSUME NEW kind \in Kinds, NEW a \in Actor, NEW n \in Nat
        PROVE  HeldBy(kind, a, n, dirs, hands, tables1, entries) =
                 IF Key(kind, a, n) = K THEN f ELSE HeldBy(kind, a, n, dirs, hands, tables, entries)
    <2>1. Key(kind, a, n) = K <=> kind = "table" /\ a = b /\ n = d
      BY KeyEqual
    <2> HIDE DEF K
    <2>2. CASE kind = "table"
      BY <2>1, <2>2 DEF HeldBy
    <2>3. CASE kind # "table"
      BY <2>1, <2>3 DEF HeldBy, Kinds
    <2> QED BY <2>2, <2>3
  <1> HIDE DEF K
  <1>3. OneChange(dirs, hands, tables, entries, dirs, hands, tables1, entries, K, f)
    BY <1>2 DEF OneChange
  <1>4. Update(Held(dirs, hands, tables, entries), Held(dirs, hands, tables1, entries), K, f)
    BY ONLY <1>1, <1>3, HeldChange
  <1> QED BY <1>4 DEF K

(* A page table entry.                                                     *)
Entry == [frame : Frames, user : BOOLEAN]

(* A page is entered or taken out.                                         *)
LEMMA HeldPage ==
  ASSUME NEW dirs, NEW hands, NEW tables, NEW entries \in [Actor -> [Nat -> Entry]],
         NEW b \in Actor, NEW v \in Nat, NEW e \in Entry,
         NEW entries1, entries1 = [entries EXCEPT ![b][v] = e]
  PROVE  Update(Held(dirs, hands, tables, entries), Held(dirs, hands, tables, entries1), Key("page", b, v), e.frame)
  <1> DEFINE K == Key("page", b, v)
  <1>1. K \in Keys
    BY KeyIsTuple DEF Kinds
  <1>2. ASSUME NEW kind \in Kinds, NEW a \in Actor, NEW n \in Nat
        PROVE  HeldBy(kind, a, n, dirs, hands, tables, entries1) =
                 IF Key(kind, a, n) = K THEN e.frame ELSE HeldBy(kind, a, n, dirs, hands, tables, entries)
    <2>1. Key(kind, a, n) = K <=> kind = "page" /\ a = b /\ n = v
      BY KeyEqual
    <2> HIDE DEF K
    <2>2. CASE kind = "page"
      <3>1. entries1[a][n] = IF a = b /\ n = v THEN e ELSE entries[a][n]
        OBVIOUS
      <3> QED BY <2>1, <2>2, <3>1 DEF HeldBy
    <2>3. CASE kind # "page"
      BY <2>1, <2>3 DEF HeldBy, Kinds
    <2> QED BY <2>2, <2>3
  <1> HIDE DEF K
  <1>3. OneChange(dirs, hands, tables, entries, dirs, hands, tables, entries1, K, e.frame)
    BY <1>2 DEF OneChange
  <1>4. Update(Held(dirs, hands, tables, entries), Held(dirs, hands, tables, entries1), K, e.frame)
    BY ONLY <1>1, <1>3, HeldChange
  <1> QED BY <1>4 DEF K

(* The types of what holds frames, and which use holds which.              *)
TableType == pte \in [Frames -> [Indexes -> Entry]]
Holding == Held(directory_frame, page, Tables, Entries)
HolderType == directory_frame \in [Space -> Frames] /\ page \in [Actor -> Frames]

(* Every frame in use has one use, and the bitmap knows it.                *)
FrameInv == TableType /\ HolderType /\ Accounted(Holding, bitmap, free_frames)

(* Directory indexes are numbers.                                          *)
LEMMA DirsNat == Dirs \subseteq Nat
  BY DEF Dirs

(* The indexes of a space's own pages.                                     *)
LEMMA OwnIndexes ==
  ASSUME NEW a \in Actor, NEW v, OwnPage(a, v)
  PROVE  /\ v \in Pages /\ v \in Word /\ v \in Nat
         /\ directory_index(v) \in Dirs /\ directory_index(v) \in Nat /\ table_index(v) \in Indexes
         /\ OwnDir(a, directory_index(v))
  <1>1. v \in Pages /\ v \in Word
    BY PageAddresses DEF OwnPage
  <1>2. v \in Nat
    BY <1>1 DEF Word
  <1>3. directory_index(v) \in Dirs /\ table_index(v) \in Indexes
    BY <1>1, Addresses
  <1>4. OwnDir(a, directory_index(v))
    BY <1>1, Addresses DEF OwnPage, OwnDir
  <1> QED BY <1>1, <1>2, <1>3, <1>4, DirsNat

(* A space's own directory entries are entries of its directory.           *)
LEMMA OwnDirs ==
  ASSUME NEW a, NEW d, OwnDir(a, d)
  PROVE  d \in Dirs /\ d \in Nat
  BY Addresses, DirsKernel, DirsNat DEF OwnDir

(* An empty table maps nothing.                                            *)
LEMMA EmptyEntries ==
  /\ NoFrame \in Frames /\ NotPresent \in Entry /\ EmptyTable \in [Indexes -> Entry]
  /\ \A i \in Indexes : EmptyTable[i] = NotPresent
  /\ NotPresent.frame = NoFrame /\ NotPresent.user = FALSE
  BY FirstFreeFrame DEF NotPresent, Entry, EmptyTable, Indexes

(* Any directory has frames for entries.                                   *)
LEMMA DirectoryTyped ==
  ASSUME DirectoryType, NEW a \in Actor
  PROVE  DirectoryOf(a) \in [Dirs -> Frames]
  BY DEF DirectoryType, DirectoryOf, Actor

(* A lookup in a directory returns an entry.                               *)
LEMMA EntryTyped ==
  ASSUME TableType, NEW dir \in [Dirs -> Frames], NEW b \in Word
  PROVE  EntryIn(dir, b) \in Entry
  <1>1. directory_index(b) \in Dirs /\ table_index(b) \in Indexes
    BY Addresses
  <1> QED BY <1>1, EmptyEntries DEF EntryIn, TableType

(* A space's own tables, ...                                               *)
LEMMA TablesAt ==
  ASSUME NEW a \in Actor, NEW d \in Nat
  PROVE  Tables[a][d] = IF OwnDir(a, d) THEN DirectoryOf(a)[d] ELSE NoFrame
  BY DEF Tables

(* ... and its own pages.                                                  *)
LEMMA EntriesAt ==
  ASSUME NEW a \in Actor, NEW v \in Nat
  PROVE  Entries[a][v] = IF OwnPage(a, v) THEN EntryIn(DirectoryOf(a), v) ELSE NotPresent
  BY DEF Entries

(* The types of both.                                                      *)
LEMMA ViewsTyped ==
  ASSUME DirectoryType, TableType
  PROVE  Tables \in [Actor -> [Nat -> Frames]] /\ Entries \in [Actor -> [Nat -> Entry]]
  <1>1. ASSUME NEW a \in Actor, NEW d \in Nat
        PROVE  (IF OwnDir(a, d) THEN DirectoryOf(a)[d] ELSE NoFrame) \in Frames
    BY <1>1, OwnDirs, DirectoryTyped, EmptyEntries
  <1>2. ASSUME NEW a \in Actor, NEW v \in Nat
        PROVE  (IF OwnPage(a, v) THEN EntryIn(DirectoryOf(a), v) ELSE NotPresent) \in Entry
    BY <1>2, OwnIndexes, DirectoryTyped, EntryTyped, EmptyEntries
  <1> QED BY <1>1, <1>2 DEF Tables, Entries

(* No two slots have the same table, and tables are marked used.           *)
LEMMA TablesApart ==
  ASSUME FrameInv, DirectoryType, NEW a \in Actor, NEW d, OwnDir(a, d), DirectoryOf(a)[d] # NoFrame
  PROVE  /\ DirectoryOf(a)[d] \in Frames /\ DirectoryOf(a)[d] \in bitmap /\ DirectoryOf(a)[d] \in Usable
         /\ \A b \in Actor : \A e : OwnDir(b, e) /\ DirectoryOf(b)[e] = DirectoryOf(a)[d] => b = a /\ e = d
  <1>1. d \in Nat /\ DirectoryOf(a)[d] \in Frames
    BY OwnDirs, DirectoryTyped
  <1>2. ASSUME NEW b \in Actor, NEW e, OwnDir(b, e)
        PROVE  /\ Key("table", b, e) \in Keys
               /\ Holding[Key("table", b, e)] = DirectoryOf(b)[e]
    <2>1. e \in Nat
      BY <1>2, OwnDirs
    <2>2. "table" \in Kinds
      BY DEF Kinds
    <2>3. Holding[Key("table", b, e)] = HeldBy("table", b, e, directory_frame, page, Tables, Entries)
      BY <2>1, <2>2, HeldAt DEF Holding
    <2>4. Holding[Key("table", b, e)] = Tables[b][e]
      BY <2>3 DEF HeldBy
    <2> QED BY <1>2, <2>1, <2>2, <2>4, TablesAt, KeyIsTuple
  <1>3. ASSUME NEW b \in Actor, NEW e, OwnDir(b, e), DirectoryOf(b)[e] = DirectoryOf(a)[d]
        PROVE  b = a /\ e = d
    <2>1. Key("table", b, e) = Key("table", a, d)
      BY <1>2, <1>3 DEF FrameInv, Accounted
    <2> QED BY <2>1, KeyEqual
  <1>4. DirectoryOf(a)[d] \in InUse(Holding)
    BY <1>2 DEF InUse
  <1> QED BY <1>1, <1>3, <1>4 DEF FrameInv, Accounted

-----------------------------------------------------------------------------
(* The effect of each change of tables on what the spaces map.             *)
TwoLevels(h) == h = [b \in Actor |-> [m \in Nat |-> h[b][m]]]
DiffersAt(g, h, a, n, x) ==
  \A b \in Actor, m \in Nat : h[b][m] = IF b = a /\ m = n THEN x ELSE g[b][m]
SetAt(g, h, a, n, x) == h = [g EXCEPT ![a][n] = x]

(* A function of two arguments that differs from another at one place.     *)
LEMMA ExceptTwice ==
  ASSUME NEW g, NEW h, NEW a \in Actor, NEW n \in Nat, NEW x,
         TwoLevels(g), TwoLevels(h), DiffersAt(g, h, a, n, x)
  PROVE  SetAt(g, h, a, n, x)
  <1> USE DEF TwoLevels
  <1> DEFINE k == [g EXCEPT ![a][n] = x]
  <1>1. \A b \in Actor : \A m \in Nat : k[b][m] = IF b = a /\ m = n THEN x ELSE g[b][m]
    OBVIOUS
  <1>2. k = [b \in Actor |-> [m \in Nat |-> k[b][m]]]
    <2>1. \A b \in Actor : g[b] = [m \in Nat |-> g[b][m]]
      OBVIOUS
    <2>2. \A b \in Actor : k[b] = IF b = a THEN [g[a] EXCEPT ![n] = x] ELSE g[b]
      OBVIOUS
    <2>3. k = [b \in Actor |-> k[b]]
      OBVIOUS
    <2> HIDE DEF k
    <2>4. \A b \in Actor : k[b] = [m \in Nat |-> k[b][m]]
      BY <2>1, <2>2
    <2> QED BY <2>3, <2>4
  <1> HIDE DEF k
  <1>3. \A b \in Actor : \A m \in Nat : h[b][m] = k[b][m]
    BY <1>1 DEF DiffersAt
  <1>4. h = k
    <2>1. PICK hh, kk : hh = [b \in Actor |-> [m \in Nat |-> h[b][m]]] /\ kk = [b \in Actor |-> [m \in Nat |-> k[b][m]]]
      OBVIOUS
    <2>2. hh = kk
      <3>1. \A b \in Actor : [m \in Nat |-> h[b][m]] = [m \in Nat |-> k[b][m]]
        BY <1>3
      <3> QED BY <2>1, <3>1
    <2>3. h = hh
      BY <2>1
    <2> QED BY <1>2, <2>1, <2>2, <2>3
  <1> QED BY <1>4 DEF k, SetAt

(* A step that changes no directory entry of a space's own, or one.        *)
SameDirectories ==
  \A b \in Actor : \A d : OwnDir(b, d) => DirectoryOf(b)'[d] = DirectoryOf(b)[d]

SetDirectory(a, d, f) ==
  \A b \in Actor : \A e : OwnDir(b, e) =>
     DirectoryOf(b)'[e] = IF b = a /\ e = d THEN f ELSE DirectoryOf(b)[e]

(* A step that changes no directory entry leaves the tables, ...           *)
LEMMA SameTables ==
  ASSUME SameDirectories
  PROVE  Tables' = Tables
  <1>1. \A a \in Actor, d \in Nat :
          (IF OwnDir(a, d) THEN DirectoryOf(a)'[d] ELSE NoFrame) =
          (IF OwnDir(a, d) THEN DirectoryOf(a)[d] ELSE NoFrame)
    BY DEF SameDirectories
  <1> QED BY <1>1 DEF Tables

(* ... and one that changes no entry of a table also the pages.            *)
LEMMA SameViews ==
  ASSUME SameDirectories, pte' = pte
  PROVE  Tables' = Tables /\ Entries' = Entries
  <1>1. Tables' = Tables
    BY SameTables
  <1>2. ASSUME NEW a \in Actor, NEW v \in Nat
        PROVE  (IF OwnPage(a, v) THEN EntryIn(DirectoryOf(a), v)' ELSE NotPresent) =
               (IF OwnPage(a, v) THEN EntryIn(DirectoryOf(a), v) ELSE NotPresent)
    BY <1>2, OwnIndexes DEF SameDirectories, EntryIn
  <1>3. Entries' = Entries
    BY <1>2 DEF Entries
  <1> QED BY <1>1, <1>3

(* A step that sets one directory entry changes one table.                 *)
LEMMA SetTable ==
  ASSUME NEW a \in Actor, NEW d, OwnDir(a, d), NEW f, SetDirectory(a, d, f)
  PROVE  Tables' = [Tables EXCEPT ![a][d] = f]
  <1>1. d \in Nat
    BY OwnDirs
  <1>2. ASSUME NEW b \in Actor, NEW e \in Nat
        PROVE  Tables'[b][e] = IF b = a /\ e = d THEN f ELSE Tables[b][e]
    <2>1. Tables'[b][e] = IF OwnDir(b, e) THEN DirectoryOf(b)'[e] ELSE NoFrame
      BY DEF Tables
    <2>2. CASE OwnDir(b, e)
      BY <2>1, <2>2, TablesAt DEF SetDirectory
    <2>3. CASE ~ OwnDir(b, e)
      BY <2>1, <2>3, TablesAt
    <2> QED BY <2>2, <2>3
  <1>3. DiffersAt(Tables, Tables', a, d, f)
    BY <1>2 DEF DiffersAt
  <1>4. TwoLevels(Tables) /\ TwoLevels(Tables)'
    BY DEF TwoLevels, Tables
  <1>5. SetAt(Tables, Tables', a, d, f)
    BY <1>1, <1>3, <1>4, ExceptTwice
  <1> QED BY <1>5 DEF SetAt

(* A new table is empty, and the frame it is in was not a table.           *)
LEMMA NewTableView ==
  ASSUME FrameInv, DirectoryType, NEW a \in Actor, NEW d, OwnDir(a, d),
         NEW f \in Frames, f \notin bitmap, f # NoFrame, SetDirectory(a, d, f),
         pte' = [pte EXCEPT ![f] = EmptyTable], DirectoryOf(a)[d] = NoFrame
  PROVE  Tables' = [Tables EXCEPT ![a][d] = f] /\ Entries' = Entries
  <1>1. Tables' = [Tables EXCEPT ![a][d] = f]
    BY SetTable DEF FrameInv
  <1>2. \A g \in Frames : pte'[g] = IF g = f THEN EmptyTable ELSE pte[g]
    BY DEF FrameInv, TableType
  <1>3. ASSUME NEW b \in Actor, NEW v \in Nat, OwnPage(b, v)
        PROVE  EntryIn(DirectoryOf(b), v)' = EntryIn(DirectoryOf(b), v)
    <2> DEFINE e == directory_index(v)
    <2>1. OwnDir(b, e) /\ table_index(v) \in Indexes
      BY <1>3, OwnIndexes
    <2>2. DirectoryOf(b)'[e] = IF b = a /\ e = d THEN f ELSE DirectoryOf(b)[e]
      BY <2>1 DEF SetDirectory
    <2>3. EntryIn(DirectoryOf(b), v)' =
            IF DirectoryOf(b)'[e] = NoFrame THEN NotPresent ELSE pte'[DirectoryOf(b)'[e]][table_index(v)]
      BY DEF EntryIn
    <2>4. EntryIn(DirectoryOf(b), v) =
            IF DirectoryOf(b)[e] = NoFrame THEN NotPresent ELSE pte[DirectoryOf(b)[e]][table_index(v)]
      BY DEF EntryIn
    <2>5. CASE b = a /\ e = d
      BY <1>2, <2>1, <2>2, <2>3, <2>4, <2>5, EmptyEntries
    <2>6. CASE ~ (b = a /\ e = d)
      <3>1. DirectoryOf(b)[e] # NoFrame => DirectoryOf(b)[e] \in Frames /\ DirectoryOf(b)[e] # f
        BY <2>1, TablesApart
      <3> HIDE DEF e
      <3> QED BY <1>2, <2>2, <2>3, <2>4, <2>6, <3>1
    <2> QED BY <2>5, <2>6
  <1>4. Entries' = Entries
    BY <1>3 DEF Entries
  <1> QED BY <1>1, <1>4

(* An empty table is taken out.                                            *)
LEMMA DropTableView ==
  ASSUME FrameInv, DirectoryType, NEW a \in Actor, NEW d, OwnDir(a, d),
         SetDirectory(a, d, NoFrame), pte' = pte, pte[DirectoryOf(a)[d]] = EmptyTable
  PROVE  Tables' = [Tables EXCEPT ![a][d] = NoFrame] /\ Entries' = Entries
  <1>1. Tables' = [Tables EXCEPT ![a][d] = NoFrame]
    BY SetTable, EmptyEntries DEF FrameInv
  <1>2. ASSUME NEW b \in Actor, NEW v \in Nat, OwnPage(b, v)
        PROVE  EntryIn(DirectoryOf(b), v)' = EntryIn(DirectoryOf(b), v)
    <2> DEFINE e == directory_index(v)
    <2>1. OwnDir(b, e) /\ table_index(v) \in Indexes
      BY <1>2, OwnIndexes
    <2>2. DirectoryOf(b)'[e] = IF b = a /\ e = d THEN NoFrame ELSE DirectoryOf(b)[e]
      BY <2>1 DEF SetDirectory
    <2>3. EntryIn(DirectoryOf(b), v)' =
            IF DirectoryOf(b)'[e] = NoFrame THEN NotPresent ELSE pte[DirectoryOf(b)'[e]][table_index(v)]
      BY DEF EntryIn
    <2>4. EntryIn(DirectoryOf(b), v) =
            IF DirectoryOf(b)[e] = NoFrame THEN NotPresent ELSE pte[DirectoryOf(b)[e]][table_index(v)]
      BY DEF EntryIn
    <2> HIDE DEF e
    <2> QED BY <2>1, <2>2, <2>3, <2>4, EmptyEntries
  <1>3. Entries' = Entries
    BY <1>2 DEF Entries
  <1> QED BY <1>1, <1>3

(* An entry is written.                                                    *)
LEMMA EntryView ==
  ASSUME FrameInv, DirectoryType, NEW a \in Actor, NEW va, OwnPage(a, va), NEW e \in Entry,
         NEW t, t = DirectoryOf(a)[directory_index(va)], t # NoFrame,
         SameDirectories, pte' = [pte EXCEPT ![t][table_index(va)] = e]
  PROVE  Tables' = Tables /\ Entries' = [Entries EXCEPT ![a][va] = e]
  <1>1. Tables' = Tables
    BY SameTables
  <1>2. /\ va \in Pages /\ va \in Nat /\ table_index(va) \in Indexes
        /\ OwnDir(a, directory_index(va)) /\ t \in Frames
    BY OwnIndexes, DirectoryTyped
  <1>3. \A g \in Frames, i \in Indexes :
          pte'[g][i] = IF g = t /\ i = table_index(va) THEN e ELSE pte[g][i]
    BY <1>2 DEF FrameInv, TableType
  <1>4. ASSUME NEW b \in Actor, NEW v \in Nat, OwnPage(b, v)
        PROVE  EntryIn(DirectoryOf(b), v)' = IF b = a /\ v = va THEN e ELSE EntryIn(DirectoryOf(b), v)
    <2> DEFINE d == directory_index(v)
               u == DirectoryOf(b)[d]
    <2>1. v \in Pages /\ OwnDir(b, d) /\ table_index(v) \in Indexes /\ u \in Frames
      BY <1>4, OwnIndexes, DirectoryTyped
    <2>2. DirectoryOf(b)'[d] = u
      BY <2>1 DEF SameDirectories
    <2>3. EntryIn(DirectoryOf(b), v)' = IF u = NoFrame THEN NotPresent ELSE pte'[u][table_index(v)]
      BY <2>2 DEF EntryIn
    <2>4. EntryIn(DirectoryOf(b), v) = IF u = NoFrame THEN NotPresent ELSE pte[u][table_index(v)]
      BY DEF EntryIn
    <2>5. u = t => b = a /\ d = directory_index(va)
      BY <1>2, <2>1, TablesApart
    <2>6. b = a /\ v = va => u = t
      OBVIOUS
    <2>7. d = directory_index(va) /\ table_index(v) = table_index(va) => v = va
      BY <1>2, <2>1, PageIndexes
    <2> HIDE DEF d, u
    <2> QED BY <1>3, <2>1, <2>3, <2>4, <2>5, <2>6, <2>7
  <1>5. ASSUME NEW b \in Actor, NEW v \in Nat
        PROVE  Entries'[b][v] = IF b = a /\ v = va THEN e ELSE Entries[b][v]
    <2>1. Entries'[b][v] = IF OwnPage(b, v) THEN EntryIn(DirectoryOf(b), v)' ELSE NotPresent
      BY DEF Entries
    <2> QED BY <2>1, <1>4, EntriesAt
  <1>6. DiffersAt(Entries, Entries', a, va, e)
    BY <1>5 DEF DiffersAt
  <1>7. TwoLevels(Entries) /\ TwoLevels(Entries)'
    BY DEF TwoLevels, Entries
  <1>8. SetAt(Entries, Entries', a, va, e)
    BY <1>2, <1>6, <1>7, ExceptTwice
  <1> QED BY <1>1, <1>8 DEF SetAt

-----------------------------------------------------------------------------
(* Page-aligned addresses are a page apart.                                *)
LEMMA AlignedStep ==
  ASSUME NEW x \in Nat, NEW y \in Nat, x % PageSize = 0, y % PageSize = 0
  PROVE  /\ x < y => x + PageSize <= y
         /\ (x + PageSize) % PageSize = 0
  <1>1. PICK P \in Nat \ {0} : P = PageSize
    BY Sizes
  <1>2. PICK m \in Nat : x = m * P
    BY <1>1, Multiple
  <1>3. PICK k \in Nat : y = k * P
    BY <1>1, Multiple
  <1>4. k <= m => k * P <= m * P
    BY Times
  <1>5. m < k => m * P + P <= k * P
    BY Times
  <1>6. x < y => x + P <= y
    BY <1>2, <1>3, <1>4, <1>5
  <1>7. x + P = (m + 1) * P + 0
    BY <1>2
  <1>8. ((m + 1) * P + 0) % P = 0
    BY DivModOf
  <1> QED BY <1>1, <1>6, <1>7, <1>8

(* Rounding up gives the next page boundary.                               *)
LEMMA AlignUp ==
  ASSUME NEW x \in Nat, x + PageSize - 1 < AddrMod
  PROVE  /\ align_up_page(x) \in Nat /\ align_up_page(x) % PageSize = 0
         /\ x <= align_up_page(x) /\ align_up_page(x) < x + PageSize
  <1>1. PICK P \in Nat \ {0} : P = PageSize
    BY Sizes
  <1>2. PICK z \in Nat : z = x + P - 1
    BY ONLY x \in Nat, P \in Nat \ {0}
  <1>3. PICK A \in Nat \ {0} : A = AddrMod
    BY Sizes
  <1>4. z < A /\ z % A = z
    BY ONLY <1>1, <1>2, <1>3, x + PageSize - 1 < AddrMod, z \in Nat, A \in Nat \ {0}
  <1>5. align_up_page(x) = align_down_page(z)
    BY <1>1, <1>2, <1>3, <1>4 DEF align_up_page
  <1>6. z \in Word
    BY <1>3, <1>4 DEF Word
  <1>7. PICK u \in Nat : u = align_down_page(z) /\ u % PageSize = 0 /\ u <= z /\ z < u + P
    BY <1>1, <1>6, PageOfByte, PageAddresses DEF Word
  <1>8. x <= u /\ u < x + P
    BY ONLY <1>2, <1>7, x \in Nat, u \in Nat, P \in Nat \ {0}
  <1> QED BY <1>1, <1>5, <1>7, <1>8

(* An end inside the user range is rounded up inside it.                   *)
LEMMA AlignUpUser ==
  ASSUME NEW x \in Nat, x <= UserTop
  PROVE  /\ align_up_page(x) \in Nat /\ align_up_page(x) % PageSize = 0
         /\ x <= align_up_page(x) /\ align_up_page(x) < x + PageSize
         /\ align_up_page(x) <= UserTop
         /\ x % PageSize = 0 => align_up_page(x) = x
  <1>1. PICK P \in Nat \ {0} : P = PageSize
    BY Sizes
  <1>2. /\ UserTop \in Nat /\ UserTop < AddrMod /\ UserTop % P = 0 /\ AddrMod % P = 0
        /\ AddrMod \in Nat
    BY <1>1, SpaceAssumption, ImageAssumption, PhysicalAssumption, Addresses DEF Word
  <1>3. UserTop + P <= AddrMod
    BY <1>1, <1>2, AlignedStep
  <1>4. x + P - 1 < AddrMod
    BY ONLY <1>2, <1>3, x \in Nat, P \in Nat \ {0}, x <= UserTop
  <1>5. PICK u \in Nat : /\ u = align_up_page(x) /\ u % PageSize = 0 /\ x <= u /\ u < x + P
    BY <1>1, <1>4, AlignUp
  <1>6. UserTop < u => UserTop + P <= u
    BY <1>1, <1>2, <1>5, AlignedStep
  <1>7. u <= UserTop
    BY ONLY <1>2, <1>5, <1>6, x \in Nat, u \in Nat, P \in Nat, x <= UserTop
  <1>8. ASSUME x % PageSize = 0 PROVE u = x
    <2>1. x < u => x + PageSize <= u
      BY <1>5, <1>8, AlignedStep
    <2> QED BY <1>1, <1>5, <2>1
  <1> QED BY <1>1, <1>5, <1>7, <1>8

-----------------------------------------------------------------------------
(* The regions of an image, and the pages each takes.                      *)
RegionsOf(img) == {0} \cup {i \in 1..Len(img.phdrs) : img.phdrs[i].load}
RegionPages(img, i) ==
  IF i = 0 THEN PagesOf(StackTop - StackSize, StackSize)
  ELSE PagesOf(img.phdrs[i].vaddr, img.phdrs[i].memsz)

(* What makes a region safe to map and fill.                               *)
RegionOk(img, i) ==
  LET r == Region(img, i)
  IN /\ r.vaddr \in Nat /\ RegionEnd(r) \in Nat
     /\ r.vaddr % PageSize = 0 /\ RegionEnd(r) % PageSize = 0
     /\ UserBase <= r.vaddr /\ r.vaddr < RegionEnd(r) /\ RegionEnd(r) <= UserTop
     /\ RegionValid(r)
     /\ \A b \in Filled(r) : b \in Nat /\ r.vaddr <= b /\ b < RegionEnd(r)
     /\ \A v \in Pages : v \in RegionPages(img, i) <=> r.vaddr <= v /\ v < RegionEnd(r)

(* A region that starts on a page and ends inside the user range.          *)
LEMMA RegionFits ==
  ASSUME NEW img, NEW i, NEW va \in Nat, NEW size \in Nat, NEW fsz \in Nat, NEW msz \in Nat \ {0},
         Region(img, i) = [vaddr |-> va, size |-> size, filesz |-> fsz, memsz |-> msz],
         va % PageSize = 0, UserBase <= va, va + msz <= UserTop, fsz <= msz,
         va + size = align_up_page(va + msz), RegionPages(img, i) = PagesOf(va, msz)
  PROVE  RegionOk(img, i)
  <1> DEFINE r == Region(img, i)
  <1>1. r.vaddr = va /\ r.size = size /\ r.filesz = fsz /\ r.memsz = msz
    OBVIOUS
  <1> HIDE DEF r
  <1>2. PICK P \in Nat \ {0} : P = PageSize
    BY Sizes
  <1>3. PICK e \in Nat : /\ e = va + size /\ e % PageSize = 0 /\ va + msz <= e /\ e < va + msz + P
                         /\ e <= UserTop
    BY <1>2, AlignUpUser
  <1>4. UserTop \in Nat /\ UserTop < AddrMod /\ AddrMod \in Nat
    BY Addresses, Sizes DEF Word
  <1>5. Plus(va, size) = e
    <2>1. PICK A \in Nat \ {0} : A = AddrMod
      BY Sizes
    <2>2. e < A
      BY <1>3, <1>4, <2>1
    <2>3. e % A = e
      BY ONLY <2>2, e \in Nat, A \in Nat \ {0}
    <2> QED BY <1>3, <2>1, <2>3 DEF Plus
  <1>6. RegionEnd(r) = e
    BY <1>1, <1>3, <1>5, AlignUpUser DEF RegionEnd
  <1>7. RegionValid(r)
    <2>1. ~ (e < va)
      BY ONLY <1>3, e \in Nat, va \in Nat, msz \in Nat
    <2> QED BY <1>1, <1>5, <2>1 DEF RegionValid, range_overflows
  <1>8. va < e
    BY ONLY <1>3, e \in Nat, va \in Nat, msz \in Nat \ {0}
  <1>9. ASSUME NEW b \in Filled(r) PROVE b \in Nat /\ va <= b /\ b < e
    <2>1. PICK top \in Nat : top = (IF msz > fsz THEN msz ELSE fsz) /\ top <= msz
      OBVIOUS
    <2>2. b \in va..(va + top - 1)
      BY <1>1, <1>9, <2>1 DEF Filled
    <2> QED BY ONLY <1>3, <2>1, <2>2, e \in Nat, va \in Nat, msz \in Nat, top \in Nat
  <1>10. ASSUME NEW v \in Pages PROVE v \in PagesOf(va, msz) <=> va <= v /\ v < e
    <2>1. v \in Nat /\ v % PageSize = 0
      BY PageAddresses DEF Word
    <2>2. v < va => v + P <= va
      BY <1>2, <2>1, AlignedStep
    <2>3. v < e => v + P <= e
      BY <1>2, <1>3, <2>1, AlignedStep
    <2>4. (v < va + msz /\ va < v + P) <=> (va <= v /\ v < e)
      BY ONLY <1>3, <2>1, <2>2, <2>3, e \in Nat, va \in Nat, msz \in Nat, P \in Nat \ {0}
    <2> QED BY <1>2, <2>4 DEF PagesOf
  <1>11. /\ r.vaddr \in Nat /\ RegionEnd(r) \in Nat
         /\ r.vaddr % PageSize = 0 /\ RegionEnd(r) % PageSize = 0
         /\ UserBase <= r.vaddr /\ r.vaddr < RegionEnd(r) /\ RegionEnd(r) <= UserTop
    BY <1>1, <1>3, <1>6, <1>8
  <1>12. \A b \in Filled(r) : b \in Nat /\ r.vaddr <= b /\ b < RegionEnd(r)
    BY <1>1, <1>6, <1>9
  <1>13. \A v \in Pages : v \in RegionPages(img, i) <=> r.vaddr <= v /\ v < RegionEnd(r)
    BY <1>1, <1>6, <1>10
  <1> QED BY <1>7, <1>11, <1>12, <1>13 DEF RegionOk, r

(* The test for overflow is exact on 32-bit values.                        *)
LEMMA PlusExact ==
  ASSUME NEW a \in Word, NEW b \in Word
  PROVE  /\ range_overflows(a, b) <=> AddrMod <= a + b
         /\ a + b < AddrMod => Plus(a, b) = a + b
         /\ Plus(a, b) <= a + b
  <1>1. PICK A \in Nat \ {0} : A = AddrMod
    BY Sizes
  <1>2. a \in Nat /\ b \in Nat /\ a < A /\ b < A
    BY <1>1 DEF Word
  <1>3. a + b < A => (a + b) % A = a + b
    BY ONLY <1>2, A \in Nat \ {0}
  <1>4. A <= a + b => (a + b) % A = a + b - A
    BY ONLY <1>2, A \in Nat \ {0}
  <1>5. PICK m \in Nat : m = (a + b) % A
    BY ONLY <1>2, A \in Nat \ {0}
  <1>6. (m < a <=> A <= a + b) /\ (a + b < A => m = a + b) /\ m <= a + b
    BY ONLY <1>2, <1>3, <1>4, <1>5, A \in Nat \ {0}, m \in Nat
  <1> QED BY <1>1, <1>5, <1>6 DEF Plus, range_overflows

(* The difference of two page boundaries is a multiple of the page size.   *)
LEMMA AlignedDifference ==
  ASSUME NEW x \in Nat, NEW y \in Nat, x % PageSize = 0, y % PageSize = 0, y <= x
  PROVE  x - y \in Nat /\ (x - y) % PageSize = 0
  <1>1. PICK P \in Nat \ {0} : P = PageSize
    BY Sizes
  <1>2. PICK m \in Nat : x = m * P
    BY <1>1, Multiple
  <1>3. PICK k \in Nat : y = k * P
    BY <1>1, Multiple
  <1>4. m < k => m * P + P <= k * P
    BY Times
  <1>5. k <= m
    BY <1>2, <1>3, <1>4
  <1>6. PICK j \in Nat : m = k + j
    <2>1. m - k \in Nat /\ m = k + (m - k)
      BY <1>5
    <2> QED BY <2>1
  <1>7. m * P = k * P + j * P /\ j * P \in Nat
    BY <1>6
  <1>8. x - y = j * P + 0
    BY <1>2, <1>3, <1>7
  <1>9. (j * P + 0) % P = 0
    BY DivModOf
  <1> QED BY <1>1, <1>7, <1>8, <1>9

(* What the checks of elf_load_process establish of a header.              *)
LEMMA SegmentChecked ==
  ASSUME NEW img, IsImage(img), Loadable(img), NEW i \in 1..Len(img.phdrs), img.phdrs[i].load
  PROVE  LET ph == img.phdrs[i]
         IN /\ ph.vaddr \in Word /\ ph.memsz \in Word \ {0} /\ ph.filesz \in Word /\ ph.offset \in Word
            /\ ph.filesz <= ph.memsz /\ ph.memsz <= MaxImageMemory
            /\ ph.offset + ph.filesz <= img.size
            /\ UserBase <= ph.vaddr /\ ph.vaddr + ph.memsz <= UserTop /\ ph.vaddr % PageSize = 0
            /\ Plus(ph.vaddr, ph.memsz) = ph.vaddr + ph.memsz
  <1> DEFINE ph == img.phdrs[i]
  <1>1. ph \in ProgramHeader /\ i \in DOMAIN img.phdrs
    BY DEF IsImage
  <1>2. validate_load_segment(ph, img.size)
    BY <1>1 DEF Loadable
  <1> HIDE DEF ph
  <1>3. ph.vaddr \in Word /\ ph.memsz \in Word /\ ph.filesz \in Word /\ ph.offset \in Word
    BY <1>1 DEF ProgramHeader
  <1>4. ph.load
    BY DEF ph
  <1>5. /\ ph.memsz # 0 /\ ph.filesz <= ph.memsz
        /\ ~ range_overflows(ph.offset, ph.filesz) /\ Plus(ph.offset, ph.filesz) <= img.size
        /\ ~ range_overflows(ph.vaddr, ph.memsz) /\ ph.memsz <= MaxImageMemory
        /\ UserBase <= ph.vaddr /\ Plus(ph.vaddr, ph.memsz) <= UserTop /\ ph.vaddr % PageSize = 0
    BY <1>2, <1>4 DEF validate_load_segment
  <1>6. Plus(ph.offset, ph.filesz) = ph.offset + ph.filesz /\ Plus(ph.vaddr, ph.memsz) = ph.vaddr + ph.memsz
    <2>1. ~ (AddrMod <= ph.offset + ph.filesz) /\ ~ (AddrMod <= ph.vaddr + ph.memsz)
      BY <1>3, <1>5, PlusExact
    <2>2. ph.offset + ph.filesz \in Nat /\ ph.vaddr + ph.memsz \in Nat /\ AddrMod \in Nat
      BY <1>3, Sizes DEF Word
    <2>3. ph.offset + ph.filesz < AddrMod /\ ph.vaddr + ph.memsz < AddrMod
      BY <2>1, <2>2
    <2> QED BY <1>3, <2>3, PlusExact
  <1> QED BY <1>3, <1>5, <1>6 DEF ph

(* All regions of an image that passes the checks are safe.                *)
LEMMA LoadableRegions ==
  ASSUME NEW img, IsImage(img), Loadable(img), NEW i \in RegionsOf(img)
  PROVE  RegionOk(img, i)
  <1>1. CASE i = 0
    <2>1. /\ StackTop \in Nat /\ StackSize \in Nat \ {0} /\ StackTop % PageSize = 0 /\ StackSize % PageSize = 0
          /\ StackSize <= StackTop /\ StackTop <= UserTop /\ UserBase <= StackTop - StackSize
      BY ImageAssumption
    <2>2. PICK base \in Nat : base = StackTop - StackSize /\ base % PageSize = 0
      BY <2>1, AlignedDifference
    <2>3. base + StackSize = StackTop
      BY <2>1, <2>2
    <2>4. align_up_page(base + StackSize) = base + StackSize
      BY <2>1, <2>3, AlignUpUser
    <2>5. Region(img, i) = [vaddr |-> base, size |-> StackSize, filesz |-> 0, memsz |-> StackSize]
      BY <1>1, <2>2 DEF Region
    <2>6. RegionPages(img, i) = PagesOf(base, StackSize)
      BY <1>1, <2>2 DEF RegionPages
    <2>7. base + StackSize <= UserTop /\ UserBase <= base /\ 0 <= StackSize
      BY <2>1, <2>2, <2>3
    <2> QED BY <2>1, <2>2, <2>4, <2>5, <2>6, <2>7, RegionFits
  <1>2. CASE i # 0
    <2>1. i \in 1..Len(img.phdrs) /\ img.phdrs[i].load
      BY <1>2 DEF RegionsOf
    <2>2. PICK ph : ph = img.phdrs[i]
      OBVIOUS
    <2>3. /\ ph.vaddr \in Word /\ ph.memsz \in Word \ {0} /\ ph.filesz \in Word /\ ph.filesz <= ph.memsz
          /\ UserBase <= ph.vaddr /\ ph.vaddr + ph.memsz <= UserTop /\ ph.vaddr % PageSize = 0
          /\ Plus(ph.vaddr, ph.memsz) = ph.vaddr + ph.memsz
      BY <2>1, <2>2, SegmentChecked
    <2>4. PICK va \in Nat, msz \in Nat \ {0}, fsz \in Nat :
            va = ph.vaddr /\ msz = ph.memsz /\ fsz = ph.filesz
      BY <2>3 DEF Word
    <2>5. align_down_page(va) = va
      BY <2>3, <2>4 DEF align_down_page
    <2>6. PICK e \in Nat : e = align_up_page(va + msz) /\ va + msz <= e
      BY <2>3, <2>4, AlignUpUser
    <2>7. PICK size \in Nat : size = e - va /\ va + size = e
      <3>1. e - va \in Nat /\ va + (e - va) = e
        BY <2>6
      <3> QED BY <3>1
    <2>8. Region(img, i) = [vaddr |-> va, size |-> size, filesz |-> fsz, memsz |-> msz]
      BY <1>2, <2>2, <2>3, <2>4, <2>5, <2>6, <2>7 DEF Region
    <2>9. RegionPages(img, i) = PagesOf(va, msz)
      BY <1>2, <2>2, <2>4 DEF RegionPages
    <2>10. /\ va % PageSize = 0 /\ UserBase <= va /\ va + msz <= UserTop /\ fsz <= msz
           /\ va + size = align_up_page(va + msz)
      BY <2>3, <2>4, <2>6, <2>7
    <2> QED BY <2>8, <2>9, <2>10, RegionFits
  <1> QED BY <1>1, <1>2

(* The next region is one of the image's, and none is skipped.             *)
LEMMA NextRegionIs ==
  ASSUME NEW img, IsImage(img), NEW i \in RegionsOf(img)
  PROVE  LET j == NextRegion(img, i)
         IN /\ j \in Nat /\ i < j
            /\ j > Len(img.phdrs) \/ j \in RegionsOf(img)
            /\ \A k \in RegionsOf(img) : k < j <=> k <= i
  <1> DEFINE n == Len(img.phdrs)
             rest == {j \in (i + 1)..n : img.phdrs[j].load}
  <1>1. n \in Nat /\ i \in 0..n
    BY DEF IsImage, RegionsOf
  <1>2. rest \in SUBSET Nat /\ \A k \in RegionsOf(img) : k \in 0..n /\ (k > i => k \in rest)
    BY <1>1 DEF RegionsOf
  <1>3. CASE rest = {}
    <2>1. NextRegion(img, i) = n + 1
      BY <1>3 DEF NextRegion
    <2> QED BY <1>1, <1>2, <1>3, <2>1
  <1>4. CASE rest # {}
    <2>1. \E j \in rest : \A k \in rest : j <= k
      BY <1>2, <1>4, LeastNat
    <2>2. NextRegion(img, i) = CHOOSE j \in rest : \A k \in rest : j <= k
      BY <1>4 DEF NextRegion
    <2>3. PICK j \in rest : j = NextRegion(img, i) /\ \A k \in rest : j <= k
      BY <2>1, <2>2
    <2>4. j \in Nat /\ i < j /\ j \in RegionsOf(img)
      BY <1>1 DEF RegionsOf
    <2>5. ASSUME NEW k \in RegionsOf(img) PROVE k < j <=> k <= i
      BY <1>1, <1>2, <2>3, <2>4
    <2> QED BY <2>3, <2>4, <2>5
  <1> QED BY <1>3, <1>4

-----------------------------------------------------------------------------
(* Where a frame is in hand; where the space being loaded has a directory. *)
Handing == {"grow_table", "grow_map", "table", "map"}
Mapping == {"page", "table", "map", "fill"}
Filling == Mapping \cup {"args"}

(* A space that has nothing yet, or no longer.                             *)
Blank(s) ==
  /\ directory_frame[s] = NoFrame /\ \A d \in UserDirs : directory[s][d] = NoFrame
  /\ user_mappings[s] = <<>> /\ user_page_count[s] = 0
(* A space with a directory for an image that was checked.                 *)
Made(s) == directory_frame[s] # NoFrame /\ Loadable(image[s])

(* The page that is mapped next lies in the region that is loaded.         *)
CursorAt(a) ==
  LET img == image[job[a]]
      r == Region(img, region[a])
  IN /\ region[a] \in RegionsOf(img)
     /\ cursor[a] % PageSize = 0 /\ r.vaddr <= cursor[a]
     /\ IF pc[a] = "fill" THEN cursor[a] = RegionEnd(r) ELSE cursor[a] < RegionEnd(r)

(* Where an actor is, what it has in hand and what its space has agree.    *)
WorkAt(a) ==
  /\ found[a] # NotScanned => pc[a] \in Allocating /\ (found[a] = NoFrame \/ found[a] \notin bitmap)
  /\ page[a] # NoFrame <=> pc[a] \in Handing
  /\ pc[a] \in Growing => heap_pages < MaxHeapPages
  /\ pc[a] = "grow_map" => kernel_directory[directory_index(HeapNext)] # NoFrame
  /\ pc[a] \in Growing \cup {"create"} => Blank(job[a])
  /\ pc[a] \in Filling => Made(job[a])
  /\ pc[a] \in Mapping => CursorAt(a)
  /\ pc[a] = "table" => directory[job[a]][directory_index(cursor[a])] = NoFrame
  /\ pc[a] = "map" => directory[job[a]][directory_index(cursor[a])] # NoFrame

(* What a space has at each stage of its life.                             *)
SpaceAt(s) ==
  /\ state[s] = "absent" => Blank(s)
  /\ state[s] # "absent" => IsImage(image[s]) /\ argv[s] \in Seq(Nat)
  /\ state[s] \in {"live", "zombie", "dying"} => Made(s)
  /\ \A d \in KernelDirs : directory[s][d] \in {NoFrame, kernel_directory[d]}

(* The types of the variables that say how far an actor is.                *)
WorkType ==
  /\ found \in [Actor -> Frames \cup {NotScanned}] /\ page \in [Actor -> Frames]
  /\ region \in [Actor -> Nat] /\ cursor \in [Actor -> Nat]
  /\ heap_pages \in Nat /\ directory_frame \in [Space -> Frames]
  /\ DOMAIN image = Space /\ DOMAIN argv = Space
  /\ DOMAIN user_mappings = Space /\ DOMAIN user_page_count = Space

(* How far every actor and every space is.                                 *)
WorkInv == WorkType /\ (\A a \in Actor : WorkAt(a)) /\ (\A s \in Space : SpaceAt(s))

-----------------------------------------------------------------------------
(* The invariant is about one actor and one space at a time.               *)
SameSpace(s) ==
  /\ directory_frame'[s] = directory_frame[s] /\ \A d \in UserDirs : directory'[s][d] = directory[s][d]
  /\ user_mappings'[s] = user_mappings[s] /\ user_page_count'[s] = user_page_count[s]
  /\ image'[s] = image[s] /\ argv'[s] = argv[s]
SameActor(a) ==
  /\ pc'[a] = pc[a] /\ job'[a] = job[a] /\ region'[a] = region[a] /\ cursor'[a] = cursor[a]
  /\ page'[a] = page[a] /\ found'[a] = found[a]
Copied(s) == \A d \in KernelDirs : directory[s][d] \in {NoFrame, kernel_directory[d]}

(* What depends on a space alone stays when the space does.                *)
LEMMA SameSpaceParts ==
  ASSUME NEW s, SameSpace(s)
  PROVE  (Blank(s) <=> Blank(s)') /\ (Made(s) <=> Made(s)')
  BY DEF SameSpace, Blank, Made

(* A page that is mapped next is a user page.                              *)
LEMMA CursorUser ==
  ASSUME NEW a \in Actor, IsImage(image[job[a]]), Loadable(image[job[a]]), CursorAt(a),
         pc[a] # "fill", cursor[a] \in Nat
  PROVE  /\ cursor[a] \in Pages /\ user_virtual_allowed(cursor[a])
         /\ directory_index(cursor[a]) \in UserDirs
  <1>1. RegionOk(image[job[a]], region[a])
    BY LoadableRegions DEF CursorAt
  <1>2. PICK c \in Nat, e \in Nat, r \in Nat :
          /\ c = cursor[a] /\ c % PageSize = 0 /\ UserBase <= r /\ r <= c /\ c < e /\ e <= UserTop
    BY <1>1 DEF RegionOk, CursorAt
  <1>3. UserTop \in Nat /\ UserBase \in Nat /\ UserTop < AddrMod /\ AddrMod \in Nat
    BY Addresses, Sizes DEF Word
  <1>4. c \in Word /\ UserBase <= c /\ c < UserTop
    BY ONLY <1>2, <1>3, c \in Nat, e \in Nat, r \in Nat DEF Word
  <1> QED BY <1>2, <1>4, PageAddresses, Addresses DEF user_virtual_allowed

(* What an actor was doing is undisturbed by the steps of another, if the  *)
(* frame it has found is not taken and the heap that it grows is left      *)
(* alone.                                                                  *)
LEMMA OtherWork ==
  ASSUME WorkType, NEW b \in Actor, WorkAt(b), SameActor(b),
         found[b] # NotScanned => found[b] = NoFrame \/ found[b] \notin bitmap',
         pc[b] \in Growing => UNCHANGED <<heap_pages, kernel_directory>>,
         pc[b] \in Loading => \E s \in Space : s = job[b] /\ SpaceAt(s) /\ state[s] = "loading" /\ SameSpace(s)
  PROVE  WorkAt(b)'
  <1>1. CASE pc[b] \notin Loading
    BY <1>1 DEF WorkAt, SameActor, Growing, Filling, Mapping, Handing, Loading, Allocating
  <1>2. CASE pc[b] \in Loading
    <2>1. PICK s \in Space : s = job[b] /\ SpaceAt(s) /\ state[s] = "loading" /\ SameSpace(s)
      BY <1>2
    <2>2. (Blank(s) <=> Blank(s)') /\ (Made(s) <=> Made(s)')
      BY <2>1, SameSpaceParts
    <2>3. job'[b] = s /\ image'[s] = image[s]
      BY <2>1 DEF SameActor, SameSpace
    <2>4. pc'[b] = pc[b] /\ region'[b] = region[b] /\ cursor'[b] = cursor[b] /\ page'[b] = page[b] /\ found'[b] = found[b]
      BY DEF SameActor
    <2>5. CursorAt(b) => CursorAt(b)'
      BY <2>1, <2>3, <2>4 DEF CursorAt
    <2>6. pc[b] \in {"table", "map"} => directory_index(cursor[b]) \in UserDirs
      <3>1. SUFFICES ASSUME pc[b] \in {"table", "map"} PROVE directory_index(cursor[b]) \in UserDirs
        OBVIOUS
      <3>2. IsImage(image[s]) /\ Loadable(image[s]) /\ CursorAt(b) /\ cursor[b] \in Nat
        BY <2>1, <3>1 DEF SpaceAt, WorkAt, Made, Filling, Mapping, WorkType
      <3> QED BY <2>1, <3>1, <3>2, CursorUser
    <2>7. pc[b] \in {"table", "map"} =>
            directory'[job'[b]][directory_index(cursor'[b])] = directory[s][directory_index(cursor[b])]
      BY <2>1, <2>3, <2>4, <2>6 DEF SameSpace
    <2>8. /\ page[b] # NoFrame <=> pc[b] \in Handing
          /\ pc[b] \in Growing \cup {"create"} => Blank(s)
          /\ pc[b] \in Filling => Made(s)
          /\ pc[b] \in Mapping => CursorAt(b)
          /\ pc[b] = "table" => directory[s][directory_index(cursor[b])] = NoFrame
          /\ pc[b] = "map" => directory[s][directory_index(cursor[b])] # NoFrame
      BY <2>1 DEF WorkAt
    <2>9. /\ found'[b] # NotScanned => pc'[b] \in Allocating /\ (found'[b] = NoFrame \/ found'[b] \notin bitmap')
          /\ pc'[b] \in Growing => heap_pages' < MaxHeapPages
          /\ pc'[b] = "grow_map" => kernel_directory'[directory_index(HeapNext)'] # NoFrame
      BY <2>4 DEF WorkAt, Growing, HeapNext
    <2>10. /\ pc'[b] \in Growing \cup {"create"} => Blank(job[b])'
           /\ pc'[b] \in Filling => Made(job[b])'
           /\ pc'[b] \in Mapping => CursorAt(b)'
      BY <2>2, <2>3, <2>4, <2>5, <2>8
    <2>11. page'[b] # NoFrame <=> pc'[b] \in Handing
      BY <2>4, <2>8
    <2>12. /\ pc'[b] = "table" => directory'[job'[b]][directory_index(cursor'[b])] = NoFrame
           /\ pc'[b] = "map" => directory'[job'[b]][directory_index(cursor'[b])] # NoFrame
      BY <2>4, <2>7, <2>8
    <2> QED BY <2>9, <2>10, <2>11, <2>12 DEF WorkAt
  <1> QED BY <1>1, <1>2

(* A space that a step leaves alone keeps its stage.                       *)
LEMMA OtherSpace ==
  ASSUME NEW s \in Space, SpaceAt(s), SameSpace(s), state'[s] = state[s], Copied(s)'
  PROVE  SpaceAt(s)'
  BY SameSpaceParts DEF SpaceAt, SameSpace, Copied

(* An actor takes a frame only after a scan of its own, and changes what   *)
(* the kernel maps only while it grows the heap.                           *)
Harmless(a) ==
  /\ bitmap' \subseteq bitmap \/ found[a] # NotScanned
  /\ UNCHANGED <<heap_pages, kernel_directory>> \/ pc[a] \in Growing

LEMMA HarmlessStep ==
  ASSUME NEW a,
         \/ GrowPage(a) \/ GrowTable(a) \/ GrowMap(a) \/ Create(a) \/ AllocPage(a) \/ AllocTable(a)
         \/ MapPage(a) \/ Fill(a) \/ Start(a) \/ UnmapNext(a) \/ FreeTable(a) \/ FreeDirectory(a)
  PROVE  Harmless(a)
  <1>1. CASE \E why : Halt(why)
    BY <1>1 DEF Halt, Harmless, pmmVars
  <1>2. CASE ~ \E why : Halt(why)
    <2>1. ASSUME GrowPage(a) \/ GrowTable(a) \/ Create(a) \/ AllocPage(a) \/ AllocTable(a) PROVE Harmless(a)
      <3>1. /\ found[a] # NotScanned
            /\ UNCHANGED <<heap_pages, kernel_directory>> \/ pc[a] = "grow_table"
        BY <1>2, <2>1 DEF GrowPage, GrowTable, Create, AllocPage, AllocTable, Take
      <3> QED BY <3>1 DEF Harmless, Growing
    <2>2. ASSUME GrowMap(a) \/ MapPage(a) \/ Fill(a) \/ Start(a) PROVE Harmless(a)
      <3>1. UNCHANGED bitmap /\ (UNCHANGED <<heap_pages, kernel_directory>> \/ pc[a] = "grow_map")
        BY <1>2, <2>2 DEF GrowMap, MapPage, Fill, Start, pmmVars
      <3> QED BY <3>1 DEF Harmless, Growing
    <2>3. ASSUME UnmapNext(a) \/ FreeTable(a) \/ FreeDirectory(a) PROVE Harmless(a)
      <3>1. PICK fs : pmm_free_pages(fs)
        BY <1>2, <2>3 DEF UnmapNext, unmap_page, FreeTable, FreeDirectory
      <3>2. bitmap' \subseteq bitmap
        BY <3>1 DEF pmm_free_pages
      <3>3. UNCHANGED <<heap_pages, kernel_directory>>
        BY <1>2, <2>3 DEF UnmapNext, FreeTable, FreeDirectory
      <3> QED BY <3>2, <3>3 DEF Harmless
    <2> QED BY <2>1, <2>2, <2>3
  <1> QED BY <1>1, <1>2

(* A step of the running actor a that concerns the space s and no other:   *)
(* what is left to show is about them.                                     *)
LEMMA WorkStep ==
  ASSUME MapInv, WorkInv, NEW a \in Actor, a = current_space, NEW s \in Space, Harmless(a),
         \A b \in Actor : b # a => SameActor(b) /\ (pc[b] # "idle" => job[b] # s),
         \A x \in Space : x # s => SameSpace(x) /\ state'[x] = state[x],
         \A x \in Space : Copied(x)',
         WorkType', WorkAt(a)', SpaceAt(s)'
  PROVE  WorkInv'
  <1>1. ASSUME NEW x \in Space PROVE SpaceAt(x)'
    BY OtherSpace DEF WorkInv
  <1>2. ASSUME NEW b \in Actor, b # a PROVE WorkAt(b)'
    <2>1. WorkAt(b)
      BY DEF WorkInv
    <2>2. /\ found[b] # NotScanned => found[b] = NoFrame \/ found[b] \notin bitmap'
          /\ pc[b] \in Growing => UNCHANGED <<heap_pages, kernel_directory>>
      <3>1. \A x \in Actor : found[x] # NotScanned => pc[x] \in Loading
        BY DEF WorkInv, WorkAt, Allocating, Loading, Growing
      <3>2. ~ (found[a] # NotScanned /\ found[b] # NotScanned)
        BY <1>2, <3>1, LoadsAlone DEF MapInv
      <3>3. ~ (pc[a] \in Growing /\ pc[b] \in Growing)
        BY <1>2, LoadsAlone DEF MapInv, Loading
      <3> QED BY <2>1, <3>2, <3>3 DEF Harmless, WorkAt
    <2>3. ASSUME pc[b] \in Loading
          PROVE  \E x \in Space : x = job[b] /\ SpaceAt(x) /\ state[x] = "loading" /\ SameSpace(x)
      <3>1. PICK x \in Space : x = job[b] /\ state[x] = "loading"
        BY <2>3 DEF MapInv, OwnerInv
      <3>2. x # s
        BY <1>2, <2>3, <3>1 DEF Loading, Growing
      <3> QED BY <3>1, <3>2 DEF WorkInv
    <2> QED BY <1>2, <2>1, <2>2, <2>3, OtherWork DEF WorkInv
  <1> QED BY <1>1, <1>2 DEF WorkInv

(* Synchronising a directory leaves its user entries.                      *)
LEMMA SyncedUser ==
  ASSUME NEW dir
  PROVE  \A d \in UserDirs : sync_kernel_mappings(dir)[d] = dir[d]
  <1>1. ASSUME NEW d \in UserDirs PROVE d \in Dirs /\ d \notin KernelDirs
    BY Addresses DEF KernelDirs
  <1> QED BY <1>1 DEF sync_kernel_mappings

(* Synchronising directories leaves what the spaces map for themselves.    *)
LEMMA SyncedSpaces ==
  ASSUME MapInv, WorkInv, NEW S,
         directory' = [x \in Space |-> IF x \in S THEN sync_kernel_mappings(directory[x]) ELSE directory[x]],
         UNCHANGED kernel_directory
  PROVE  \A x \in Space : (\A d \in UserDirs : directory'[x][d] = directory[x][d]) /\ Copied(x)'
  <1> SUFFICES ASSUME NEW x \in Space
               PROVE  (\A d \in UserDirs : directory'[x][d] = directory[x][d]) /\ Copied(x)'
    OBVIOUS
  <1>1. Copied(x)
    BY DEF WorkInv, SpaceAt, Copied
  <1>2. \A d \in KernelDirs : sync_kernel_mappings(directory[x])[d] = kernel_directory[d]
    BY SyncedDirectory DEF MapInv, DirectoryType
  <1>3. CASE x \in S
    <2>1. directory'[x] = sync_kernel_mappings(directory[x])
      BY <1>3
    <2> QED BY <1>2, <2>1, SyncedUser DEF Copied
  <1>4. CASE x \notin S
    BY <1>1, <1>4 DEF Copied
  <1> QED BY <1>3, <1>4

(* A switch synchronises the directory switched to.                        *)
LEMMA SwitchAsSync ==
  ASSUME MapInv, NEW a \in Actor, address_space_switch(a)
  PROVE  directory' = [x \in Space |-> IF x \in {a} THEN sync_kernel_mappings(directory[x]) ELSE directory[x]]
  <1>1. directory = [x \in Space |-> directory[x]]
    BY DEF MapInv, DirectoryType
  <1>2. CASE a = KernelSpace
    <2>1. a \notin Space /\ directory' = directory
      BY <1>2, SpaceAssumption DEF address_space_switch
    <2>2. \A x \in Space : x \notin {a}
      BY <2>1
    <2> QED BY <1>1, <2>1, <2>2
  <1>3. CASE a # KernelSpace
    <2>1. directory' = [directory EXCEPT ![a] = sync_kernel_mappings(directory[a])] /\ a \in Space
      BY <1>3 DEF address_space_switch, Actor
    <2> QED BY <1>1, <2>1
  <1> QED BY <1>2, <1>3

(* Another thread is chosen, wherever the one is that is left.             *)
LEMMA SwitchWork ==
  ASSUME MapInv, WorkInv, NEW a \in Actor, address_space_switch(a),
         \A x \in Space : state'[x] = state[x] \/ (state[x] = "live" /\ state'[x] = "zombie"),
         UNCHANGED <<kernel_directory, directory_frame, user_mappings, user_page_count, image, argv,
                     pc, job, region, cursor, page, found, heap_pages, bitmap>>
  PROVE  WorkInv'
  <1>1. \A x \in Space : (\A d \in UserDirs : directory'[x][d] = directory[x][d]) /\ Copied(x)'
    BY SwitchAsSync, SyncedSpaces
  <1>2. ASSUME NEW x \in Space PROVE SameSpace(x)
    BY <1>1 DEF SameSpace
  <1>3. ASSUME NEW x \in Space PROVE SpaceAt(x)'
    <2>1. SpaceAt(x) /\ (Blank(x) <=> Blank(x)') /\ (Made(x) <=> Made(x)')
      BY <1>2, SameSpaceParts DEF WorkInv
    <2>2. Copied(x)'
      BY <1>1
    <2> QED BY <2>1, <2>2 DEF SpaceAt, Copied
  <1>4. ASSUME NEW b \in Actor PROVE WorkAt(b)'
    <2>1. WorkAt(b) /\ (found[b] # NotScanned => found[b] = NoFrame \/ found[b] \notin bitmap')
      BY DEF WorkInv, WorkAt
    <2>2. SameActor(b)
      BY DEF SameActor
    <2>3. ASSUME pc[b] \in Loading
          PROVE  \E x \in Space : x = job[b] /\ SpaceAt(x) /\ state[x] = "loading" /\ SameSpace(x)
      BY <1>2, <2>3 DEF MapInv, OwnerInv, WorkInv
    <2> QED BY <2>1, <2>2, <2>3, OtherWork DEF WorkInv
  <1>5. WorkType'
    BY DEF WorkInv, WorkType
  <1> QED BY <1>3, <1>4, <1>5 DEF WorkInv

(* A panic, a dispatch and an exit leave all work alone.                   *)
LEMMA HaltWork == ASSUME WorkInv, NEW why, Halt(why) PROVE WorkInv'
  BY DEF Halt, WorkInv, WorkType, WorkAt, SpaceAt, Blank, Made, CursorAt, HeapNext,
         pmmVars, spaceVars, procVars, workVars

LEMMA DispatchWork ==
  ASSUME MapInv, WorkInv, NEW a \in Actor, Dispatch(a)
  PROVE  WorkInv'
  BY SwitchWork DEF Dispatch, pmmVars, procVars, workVars

LEMMA ExitWork ==
  ASSUME MapInv, WorkInv, NEW s \in Space, NEW a \in Actor, Exit(s, a)
  PROVE  WorkInv'
  <1>1. state[s] = "live" /\ s = current_space /\ pc[s] = "idle" /\ s \in Actor
    BY DEF Exit, Running, MapInv, OwnerInv, Actor
  <1>2. \A x \in Space : state'[x] = IF x = s THEN "zombie" ELSE state[x]
    BY DEF Exit, MapInv, OwnerType
  <1> QED BY <1>1, <1>2, SwitchWork DEF Exit, pmmVars, workVars

(* A scan finds a frame that is free, or none.                             *)
LEMMA FirstFreeIsFree ==
  ASSUME NEW used, NEW limit
  PROVE  first_free(used, limit) = NoFrame \/ first_free(used, limit) \notin used
  <1> DEFINE free == {f \in Frames \ used : FirstFrame <= f /\ f < limit}
  <1>1. ASSUME free # {} PROVE first_free(used, limit) \notin used
    <2>1. first_free(used, limit) = CHOOSE f \in free : \A g \in free : f <= g
      BY <1>1 DEF first_free
    <2>2. free \in SUBSET Nat
      BY DEF Frames
    <2>3. \E f \in free : \A g \in free : f <= g
      BY <1>1, <2>2, LeastNat
    <2> HIDE DEF free
    <2>4. first_free(used, limit) \in free
      BY <2>1, <2>3
    <2> QED BY <2>4 DEF free
  <1> QED BY <1>1 DEF first_free

(* The frame that a scan has found stays free until it is marked.          *)
LEMMA ScanWork ==
  ASSUME MapInv, WorkInv, NEW a \in Actor, Scan(a)
  PROVE  WorkInv'
  <1>1. PICK f : f = first_free(bitmap, ScanLimit(pc[a])) /\ f \in Frames /\ (f = NoFrame \/ f \notin bitmap)
    BY FirstFreeFrame, FirstFreeIsFree
  <1>2. /\ a = current_space /\ pc[a] \in Allocating /\ found' = [found EXCEPT ![a] = f]
        /\ UNCHANGED <<bitmap, kernel_directory, directory, directory_frame, user_mappings, user_page_count,
                       current_space, state, image, argv, pc, job, region, cursor, page, heap_pages>>
    BY <1>1 DEF Scan, Running, pmmVars, spaceVars, procVars, workVars
  <1>3. \A b \in Actor : found'[b] = IF b = a THEN f ELSE found[b]
    BY <1>2 DEF WorkInv, WorkType
  <1>4. WorkType'
    BY <1>1, <1>2 DEF WorkInv, WorkType
  <1>5. ASSUME NEW b \in Actor PROVE WorkAt(b)'
    BY <1>1, <1>2, <1>3 DEF WorkInv, WorkAt, Blank, Made, CursorAt, HeapNext
  <1>6. ASSUME NEW x \in Space PROVE SpaceAt(x)'
    BY <1>2 DEF WorkInv, SpaceAt, Blank, Made
  <1> QED BY <1>4, <1>5, <1>6 DEF WorkInv

(* At boot there is no work and no space.                                  *)
LEMMA InitWork == Init => WorkInv
  <1> SUFFICES ASSUME Init PROVE WorkInv
    OBVIOUS
  <1>1. /\ NoFrame \in Frames /\ EmptyDirectory = [d \in Dirs |-> NoFrame]
        /\ UserDirs \subseteq Dirs /\ KernelDirs \subseteq Dirs
    BY FirstFreeFrame, Addresses, DirsKernel DEF EmptyDirectory
  <1>2. WorkType
    BY <1>1 DEF Init, WorkType
  <1>3. ASSUME NEW a \in Actor PROVE WorkAt(a)
    <2>1. pc[a] = "idle" /\ found[a] = NotScanned /\ page[a] = NoFrame
      BY DEF Init
    <2> QED BY <2>1 DEF WorkAt, Handing, Growing, Filling, Mapping
  <1>4. ASSUME NEW s \in Space PROVE SpaceAt(s)
    <2>1. /\ state[s] = "absent" /\ directory[s] = EmptyDirectory /\ directory_frame[s] = NoFrame
          /\ user_mappings[s] = <<>> /\ user_page_count[s] = 0
      BY DEF Init
    <2>2. \A d \in Dirs : directory[s][d] = NoFrame
      BY <1>1, <2>1
    <2> QED BY <1>1, <2>1, <2>2 DEF SpaceAt, Blank
  <1> QED BY <1>2, <1>3, <1>4 DEF WorkInv

(* The space an actor works on, which is nobody else's.                    *)
LEMMA OwnJob ==
  ASSUME MapInv, WorkInv, NEW a \in Actor, pc[a] # "idle"
  PROVE  \E s \in Space : /\ s = job[a] /\ SpaceAt(s) /\ WorkAt(a)
                          /\ pc[a] \in Loading => state[s] = "loading"
                          /\ pc[a] = "unmap" => state[s] = "dying"
                          /\ \A b \in Actor : b # a /\ pc[b] # "idle" => job[b] # s
  BY DEF MapInv, OwnerType, OwnerInv, WorkInv

(* Kernel entries of a directory are the kernel's or absent.               *)
LEMMA CopiedNow == ASSUME WorkInv PROVE \A x \in Space : Copied(x)
  BY DEF WorkInv, SpaceAt, Copied

(* A launch takes a space that has nothing.                                *)
LEMMA LaunchWork ==
  ASSUME MapInv, WorkInv, NEW a \in Actor, NEW s \in Space, NEW cmd \in Commands, NEW grow \in BOOLEAN,
         Launch(a, s, cmd, grow)
  PROVE  WorkInv'
  <1>1. PICK place \in {"grow", "create"} : pc' = [pc EXCEPT ![a] = place] /\ (place = "grow" => grow)
    BY DEF Launch, Goto
  <1>2. /\ a = current_space /\ pc[a] = "idle" /\ state[s] = "absent" /\ (grow => heap_pages < MaxHeapPages)
        /\ state' = [state EXCEPT ![s] = "loading"] /\ job' = [job EXCEPT ![a] = s]
        /\ image' = [image EXCEPT ![s] = cmd.image] /\ argv' = [argv EXCEPT ![s] = cmd.argv]
        /\ UNCHANGED <<current_space, kernel_directory, directory, directory_frame, user_mappings,
                       user_page_count, region, cursor, page, found, heap_pages, bitmap>>
    BY DEF Launch, Running, spaceVars, pmmVars
  <1>3. /\ \A b \in Actor : /\ pc'[b] = IF b = a THEN place ELSE pc[b]
                            /\ job'[b] = IF b = a THEN s ELSE job[b]
        /\ \A x \in Space : state'[x] = IF x = s THEN "loading" ELSE state[x]
    BY <1>1, <1>2 DEF MapInv, OwnerType
  <1>4. \A x \in Space : x # s => image'[x] = image[x] /\ argv'[x] = argv[x]
    BY <1>2
  <1>5. \A b \in Actor : b # a => SameActor(b) /\ (pc[b] # "idle" => job[b] # s)
    BY <1>2, <1>3 DEF SameActor, MapInv, OwnerType, OwnerInv
  <1>6. \A x \in Space : x # s => SameSpace(x) /\ state'[x] = state[x]
    BY <1>2, <1>3, <1>4 DEF SameSpace
  <1>7. \A x \in Space : Copied(x)'
    BY <1>2, CopiedNow DEF Copied
  <1>8. WorkType'
    BY <1>2 DEF WorkInv, WorkType
  <1>9. Blank(s)'
    BY <1>2 DEF WorkInv, SpaceAt, Blank
  <1>10. WorkAt(a)'
    <2>1. found[a] = NotScanned /\ page[a] = NoFrame
      BY <1>2 DEF WorkInv, WorkAt, Allocating, Handing
    <2>2. pc'[a] = place /\ job'[a] = s /\ found'[a] = NotScanned /\ page'[a] = NoFrame
      BY <1>2, <1>3, <2>1
    <2> QED BY <1>1, <1>2, <1>9, <2>2 DEF WorkAt, Handing, Growing, Filling, Mapping
  <1>11. SpaceAt(s)'
    <2>1. IsImage(cmd.image) /\ cmd.argv \in Seq(Nat)
      BY MemoryAssumption
    <2>2. image'[s] = cmd.image /\ argv'[s] = cmd.argv
      BY <1>2 DEF WorkInv, WorkType
    <2> QED BY <1>3, <1>7, <2>1, <2>2 DEF SpaceAt, Copied
  <1>12. Harmless(a)
    BY DEF Launch, Harmless, pmmVars
  <1> QED BY <1>2, <1>5, <1>6, <1>7, <1>8, <1>10, <1>11, <1>12, WorkStep


(* The next page of the heap is an address of the kernel.                  *)
LEMMA HeapAddress ==
  ASSUME heap_pages \in Nat, heap_pages < MaxHeapPages
  PROVE  /\ HeapNext \in Pages /\ HeapNext \in Nat /\ HeapBase <= HeapNext
         /\ directory_index(HeapNext) \in Dirs /\ directory_index(HeapNext) \in KernelDirs
         /\ directory_index(HeapNext) # 0 /\ table_index(HeapNext) \in Indexes
         /\ OwnPage(KernelSpace, HeapNext)
  <1>1. PICK P \in Nat \ {0} : P = PageSize
    BY Sizes
  <1>2. PICK T \in Nat, A \in Nat, M \in Nat :
          /\ T = UserTop /\ A = AddrMod /\ M = MaxHeapPages /\ T + M * P <= A /\ T % P = 0
    BY <1>1, Sizes, Addresses, MemoryAssumption, ImageAssumption DEF Word
  <1>3. PICK h \in Nat : h = heap_pages /\ h < M
    BY <1>2
  <1>4. h * P \in Nat /\ h * P + P <= M * P
    BY <1>3, Times
  <1>5. PICK n \in Nat : n = T + h * P
    BY <1>4
  <1>6. HeapNext = n /\ T = HeapBase
    BY <1>1, <1>2, <1>3, <1>5 DEF HeapNext, HeapBase
  <1>7. n < A /\ T <= n
    BY ONLY <1>2, <1>4, <1>5, n \in Nat, T \in Nat, A \in Nat, P \in Nat \ {0}, M * P \in Nat
  <1>8. n % P = 0
    <2>1. PICK t \in Nat : T = t * P
      <3>1. T \div P \in Nat /\ T = (T \div P) * P
        BY <1>2, Multiple
      <3> QED BY <3>1
    <2>2. t * P + h * P = (t + h) * P /\ (t + h) * P \in Nat
      BY ONLY t \in Nat, h \in Nat, P \in Nat \ {0}
    <2>3. n = (t + h) * P + 0
      BY <1>5, <2>1, <2>2
    <2> QED BY <2>3, DivModOf
  <1>9. n \in Pages /\ n \in Word
    BY <1>1, <1>2, <1>7, <1>8, PageAddresses DEF Word
  <1> QED BY <1>6, <1>7, <1>9, Addresses DEF OwnPage

(* What taking a frame means for the actor.                                *)
LEMMA TakeParts ==
  ASSUME WorkInv, NEW a \in Actor, NEW place, NEW f \in Frames, Take(a, place, f), place \in Allocating
  PROVE  /\ a = current_space /\ pc[a] = place /\ f # NoFrame /\ f \notin bitmap
         /\ found' = [found EXCEPT ![a] = NotScanned]
         /\ found' \in [Actor -> Frames \cup {NotScanned}]
         /\ \A b \in Actor : found'[b] = IF b = a THEN NotScanned ELSE found[b]
  BY DEF Take, Running, WorkInv, WorkType, WorkAt

(* A step that leaves every space alone.                                   *)
LEMMA SpacesAlone ==
  ASSUME UNCHANGED <<directory, directory_frame, user_mappings, user_page_count, image, argv, state>>
  PROVE  \A x \in Space : SameSpace(x) /\ state'[x] = state[x]
  BY DEF SameSpace

(* The heap grows by a page in hand, ...                                   *)
LEMMA GrowPageWork ==
  ASSUME MapInv, WorkInv, NEW a \in Actor, GrowPage(a)
  PROVE  WorkInv'
  <1>1. PICK f \in Frames : Take(a, "grow", f) /\ page' = [page EXCEPT ![a] = f]
    BY DEF GrowPage
  <1>2. PICK place \in {"grow_table", "grow_map"} :
          /\ pc' = [pc EXCEPT ![a] = place]
          /\ place = "grow_map" => kernel_directory[directory_index(HeapNext)] # NoFrame
    BY DEF GrowPage, Goto
  <1>3. /\ a = current_space /\ pc[a] = "grow" /\ f # NoFrame
        /\ found' \in [Actor -> Frames \cup {NotScanned}]
        /\ \A b \in Actor : found'[b] = IF b = a THEN NotScanned ELSE found[b]
    BY <1>1, TakeParts DEF Allocating
  <1>4. UNCHANGED <<directory, directory_frame, user_mappings, user_page_count, image, argv, state,
                    kernel_directory, current_space, job, region, cursor, heap_pages>>
    BY DEF GrowPage, spaceVars, procVars
  <1>5. PICK s \in Space : /\ s = job[a] /\ SpaceAt(s) /\ WorkAt(a) /\ state[s] = "loading"
                           /\ \A b \in Actor : b # a /\ pc[b] # "idle" => job[b] # s
    BY <1>3, OwnJob DEF Loading, Growing
  <1>6. \A b \in Actor : pc'[b] = (IF b = a THEN place ELSE pc[b]) /\ page'[b] = (IF b = a THEN f ELSE page[b])
    BY <1>1, <1>2 DEF MapInv, OwnerType, WorkInv, WorkType
  <1>7. \A b \in Actor : b # a => SameActor(b) /\ (pc[b] # "idle" => job[b] # s)
    BY <1>3, <1>4, <1>5, <1>6 DEF SameActor
  <1>8. \A x \in Space : SameSpace(x) /\ state'[x] = state[x]
    BY <1>4, SpacesAlone
  <1>9. \A x \in Space : Copied(x)'
    BY <1>4, CopiedNow DEF Copied
  <1>10. WorkType'
    BY <1>1, <1>3, <1>4 DEF WorkInv, WorkType
  <1>11. (Blank(s) <=> Blank(s)') /\ (Made(s) <=> Made(s)')
    BY <1>8, SameSpaceParts
  <1>12. SpaceAt(s)'
    BY <1>5, <1>8, <1>9, OtherSpace
  <1>13. WorkAt(a)'
    <2>1. Blank(s)' /\ heap_pages < MaxHeapPages
      BY <1>3, <1>5, <1>11 DEF WorkAt, Growing
    <2>2. pc'[a] = place /\ page'[a] = f /\ found'[a] = NotScanned /\ job'[a] = s
      BY <1>3, <1>4, <1>5, <1>6
    <2>3. HeapNext' = HeapNext
      BY <1>4 DEF HeapNext
    <2> QED BY <1>2, <1>3, <1>4, <2>1, <2>2, <2>3 DEF WorkAt, Handing, Growing, Filling, Mapping
  <1> QED BY <1>3, <1>7, <1>8, <1>9, <1>10, <1>12, <1>13, HarmlessStep, WorkStep

(* ... for which a table may be needed, ...                                *)
LEMMA GrowTableWork ==
  ASSUME MapInv, WorkInv, NEW a \in Actor, GrowTable(a)
  PROVE  WorkInv'
  <1>1. PICK d0 : d0 = directory_index(HeapNext)
    OBVIOUS
  <1>2. PICK f \in Frames : Take(a, "grow_table", f) /\ kernel_directory' = [kernel_directory EXCEPT ![d0] = f]
    BY <1>1 DEF GrowTable, vmm_create_table
  <1>3. /\ a = current_space /\ pc[a] = "grow_table" /\ f # NoFrame
        /\ found' \in [Actor -> Frames \cup {NotScanned}]
        /\ \A b \in Actor : found'[b] = IF b = a THEN NotScanned ELSE found[b]
    BY <1>2, TakeParts DEF Allocating
  <1>4. /\ UNCHANGED <<directory, directory_frame, user_mappings, user_page_count, image, argv, state,
                       current_space, job, region, cursor, page, heap_pages>>
        /\ pc' = [pc EXCEPT ![a] = "grow_map"]
    BY DEF GrowTable, spaceVars, procVars, workVars, Goto
  <1>5. PICK s \in Space : /\ s = job[a] /\ SpaceAt(s) /\ WorkAt(a) /\ state[s] = "loading"
                           /\ \A b \in Actor : b # a /\ pc[b] # "idle" => job[b] # s
    BY <1>3, OwnJob DEF Loading, Growing
  <1>6. \A b \in Actor : pc'[b] = (IF b = a THEN "grow_map" ELSE pc[b])
    BY <1>4 DEF MapInv, OwnerType
  <1>7. \A b \in Actor : b # a => SameActor(b) /\ (pc[b] # "idle" => job[b] # s)
    BY <1>3, <1>4, <1>5, <1>6 DEF SameActor
  <1>8. \A x \in Space : SameSpace(x) /\ state'[x] = state[x]
    BY <1>4, SpacesAlone
  <1>9. kernel_directory[d0] = NoFrame /\ HeapNext' = HeapNext
    BY <1>1, <1>3, <1>4 DEF MapInv, GrowInv, HeapNext
  <1>10. \A d \in Dirs : kernel_directory'[d] = IF d = d0 THEN f ELSE kernel_directory[d]
    BY <1>2 DEF MapInv, DirectoryType
  <1>11. \A x \in Space : Copied(x)'
    BY <1>4, <1>9, <1>10, CopiedNow, DirsKernel DEF Copied
  <1>12. WorkType'
    BY <1>3, <1>4 DEF WorkInv, WorkType
  <1>13. (Blank(s) <=> Blank(s)') /\ (Made(s) <=> Made(s)')
    BY <1>8, SameSpaceParts
  <1>14. SpaceAt(s)'
    BY <1>5, <1>8, <1>11, OtherSpace
  <1>15. WorkAt(a)'
    <2>1. Blank(s)' /\ heap_pages < MaxHeapPages /\ page[a] # NoFrame
      BY <1>3, <1>5, <1>13 DEF WorkAt, Growing, Handing
    <2>2. pc'[a] = "grow_map" /\ page'[a] = page[a] /\ found'[a] = NotScanned /\ job'[a] = s
      BY <1>3, <1>4, <1>5, <1>6
    <2>3. d0 \in Dirs
      <3>1. heap_pages \in Nat /\ heap_pages < MaxHeapPages
        BY <2>1 DEF WorkInv, WorkType
      <3> QED BY <1>1, <3>1, HeapAddress
    <2>4. kernel_directory'[directory_index(HeapNext)'] # NoFrame
      BY <1>1, <1>3, <1>9, <1>10, <2>3
    <2> QED BY <1>3, <1>4, <2>1, <2>2, <2>4 DEF WorkAt, Handing, Growing, Filling, Mapping
  <1> QED BY <1>3, <1>7, <1>8, <1>11, <1>12, <1>14, <1>15, HarmlessStep, WorkStep

(* ... and the page is entered.                                            *)
LEMMA GrowMapWork ==
  ASSUME MapInv, WorkInv, NEW a \in Actor, GrowMap(a)
  PROVE  WorkInv'
  <1>1. CASE DirectoryOf(a)[directory_index(HeapNext)] = NoFrame
    BY <1>1, HaltWork DEF GrowMap
  <1>2. CASE DirectoryOf(a)[directory_index(HeapNext)] # NoFrame
    <2>1. /\ a = current_space /\ pc[a] = "grow_map" /\ pc' = [pc EXCEPT ![a] = "create"]
          /\ heap_pages' = heap_pages + 1 /\ page' = [page EXCEPT ![a] = NoFrame]
          /\ UNCHANGED <<directory, directory_frame, user_mappings, user_page_count, image, argv, state,
                         kernel_directory, current_space, job, region, cursor, found>>
      BY <1>2 DEF GrowMap, Running, Goto, spaceVars, procVars
    <2>2. PICK s \in Space : /\ s = job[a] /\ SpaceAt(s) /\ WorkAt(a) /\ state[s] = "loading"
                             /\ \A b \in Actor : b # a /\ pc[b] # "idle" => job[b] # s
      BY <2>1, OwnJob DEF Loading, Growing
    <2>3. \A b \in Actor : /\ pc'[b] = (IF b = a THEN "create" ELSE pc[b])
                           /\ page'[b] = (IF b = a THEN NoFrame ELSE page[b])
      BY <2>1 DEF MapInv, OwnerType, WorkInv, WorkType
    <2>4. \A b \in Actor : b # a => SameActor(b) /\ (pc[b] # "idle" => job[b] # s)
      BY <2>1, <2>2, <2>3 DEF SameActor
    <2>5. \A x \in Space : SameSpace(x) /\ state'[x] = state[x]
      BY <2>1, SpacesAlone
    <2>6. \A x \in Space : Copied(x)'
      BY <2>1, CopiedNow DEF Copied
    <2>7. WorkType'
      BY <2>1, EmptyEntries DEF WorkInv, WorkType
    <2>8. (Blank(s) <=> Blank(s)') /\ (Made(s) <=> Made(s)')
      BY <2>5, SameSpaceParts
    <2>9. SpaceAt(s)'
      BY <2>2, <2>5, <2>6, OtherSpace
    <2>10. WorkAt(a)'
      <3>1. Blank(s)' /\ found[a] = NotScanned
        BY <2>1, <2>2, <2>8 DEF WorkAt, Growing, Allocating
      <3>2. pc'[a] = "create" /\ page'[a] = NoFrame /\ found'[a] = NotScanned /\ job'[a] = s
        BY <2>1, <2>2, <2>3, <3>1
      <3> QED BY <3>1, <3>2 DEF WorkAt, Handing, Growing, Filling, Mapping
    <2> QED BY <2>1, <2>4, <2>5, <2>6, <2>7, <2>9, <2>10, HarmlessStep, WorkStep
  <1> QED BY <1>1, <1>2

-----------------------------------------------------------------------------
(* An actor goes on with a region that its image has, or is past the last. *)
LEMMA StartedRegion ==
  ASSUME OwnerType, WorkType, NEW a \in Actor, NEW s \in Space, s = job[a], UNCHANGED <<image, job>>,
         IsImage(image[s]), Loadable(image[s]), NEW i \in Nat,
         i \in RegionsOf(image[s]) \/ i > Len(image[s].phdrs), StartRegion(a, i)
  PROVE  /\ pc'[a] \in {"page", "args"} /\ (pc'[a] = "page" => CursorAt(a)')
         /\ i > Len(image[s].phdrs) => pc'[a] = "args"
         /\ i <= Len(image[s].phdrs) =>
              pc'[a] = "page" /\ region'[a] = i /\ cursor'[a] = Region(image[s], i).vaddr
         /\ \A b \in Actor : b # a => pc'[b] = pc[b] /\ region'[b] = region[b] /\ cursor'[b] = cursor[b]
         /\ region' \in [Actor -> Nat] /\ cursor' \in [Actor -> Nat]
  <1>1. PICK img : img = image[s]
    OBVIOUS
  <1>2. Len(img.phdrs) \in Nat
    BY <1>1 DEF IsImage
  <1>3. CASE i > Len(img.phdrs)
    <2>1. /\ region' = [region EXCEPT ![a] = 0] /\ cursor' = [cursor EXCEPT ![a] = 0]
          /\ pc' = [pc EXCEPT ![a] = "args"]
      BY <1>1, <1>3 DEF StartRegion, Goto
    <2> QED BY <1>1, <1>2, <1>3, <2>1 DEF OwnerType, WorkType
  <1>4. CASE ~ (i > Len(img.phdrs))
    <2>1. i \in RegionsOf(img) /\ RegionOk(img, i)
      BY <1>1, <1>4, LoadableRegions
    <2>2. PICK v \in Nat, e \in Nat :
            /\ v = Region(img, i).vaddr /\ e = RegionEnd(Region(img, i)) /\ v % PageSize = 0 /\ v < e
      BY <2>1 DEF RegionOk
    <2>3. /\ region' = [region EXCEPT ![a] = i] /\ cursor' = [cursor EXCEPT ![a] = v]
          /\ pc' = [pc EXCEPT ![a] = "page"]
      BY <1>1, <1>4, <2>2 DEF StartRegion, Goto
    <2>4. pc'[a] = "page" /\ region'[a] = i /\ cursor'[a] = v
      BY <2>3 DEF OwnerType, WorkType
    <2>5. image'[job'[a]] = img
      BY <1>1
    <2>6. CursorAt(a)'
      BY <2>1, <2>2, <2>4, <2>5 DEF CursorAt
    <2> QED BY <1>1, <1>2, <1>4, <2>2, <2>3, <2>4, <2>6 DEF OwnerType, WorkType
  <1> QED BY <1>3, <1>4

(* The space gets its directory.                                           *)
LEMMA CreateWork ==
  ASSUME MapInv, WorkInv, NEW a \in Actor, Create(a)
  PROVE  WorkInv'
  <1>1. CASE ~ Loadable(image[job[a]])
    BY <1>1, HaltWork DEF Create
  <1>2. CASE Loadable(image[job[a]])
    <2>1. PICK f \in Frames : Take(a, "create", f) /\ address_space_create(job[a], f) /\ StartRegion(a, 0)
      BY <1>2 DEF Create
    <2>2. /\ a = current_space /\ pc[a] = "create" /\ f # NoFrame
          /\ found' \in [Actor -> Frames \cup {NotScanned}]
          /\ \A b \in Actor : found'[b] = IF b = a THEN NotScanned ELSE found[b]
      BY <2>1, TakeParts DEF Allocating
    <2>3. UNCHANGED <<kernel_directory, current_space, state, image, argv, job, page, heap_pages>>
      BY <1>2 DEF Create, procVars
    <2>4. PICK s \in Space : /\ s = job[a] /\ SpaceAt(s) /\ WorkAt(a) /\ state[s] = "loading"
                             /\ \A b \in Actor : b # a /\ pc[b] # "idle" => job[b] # s
      BY <2>2, OwnJob DEF Loading
    <2>5. /\ directory' = [directory EXCEPT ![s] = sync_kernel_mappings(EmptyDirectory)]
          /\ directory_frame' = [directory_frame EXCEPT ![s] = f]
          /\ user_mappings' = [user_mappings EXCEPT ![s] = <<>>]
          /\ user_page_count' = [user_page_count EXCEPT ![s] = 0]
      BY <2>1, <2>4 DEF address_space_create
    <2>6. IsImage(image[s]) /\ Loadable(image[s]) /\ 0 \in RegionsOf(image[s])
      BY <1>2, <2>4 DEF SpaceAt, RegionsOf
    <2>7. /\ pc'[a] \in {"page", "args"} /\ (pc'[a] = "page" => CursorAt(a)')
          /\ \A b \in Actor : b # a => pc'[b] = pc[b] /\ region'[b] = region[b] /\ cursor'[b] = cursor[b]
          /\ region' \in [Actor -> Nat] /\ cursor' \in [Actor -> Nat]
      BY <2>1, <2>3, <2>4, <2>6, StartedRegion DEF MapInv, WorkInv
    <2>8. \A b \in Actor : b # a => SameActor(b) /\ (pc[b] # "idle" => job[b] # s)
      BY <2>2, <2>3, <2>4, <2>7 DEF SameActor
    <2>9. \A x \in Space : x # s => SameSpace(x) /\ state'[x] = state[x]
      BY <2>3, <2>5 DEF SameSpace
    <2>10. /\ directory'[s] = sync_kernel_mappings(EmptyDirectory)
           /\ \A x \in Space : x # s => directory'[x] = directory[x]
      BY <2>5 DEF MapInv, DirectoryType
    <2>11. \A d \in KernelDirs : sync_kernel_mappings(EmptyDirectory)[d] = kernel_directory[d]
      BY SyncedDirectory, FirstFreeFrame DEF MapInv, DirectoryType, EmptyDirectory
    <2>12. \A x \in Space : Copied(x)'
      BY <2>3, <2>10, <2>11, CopiedNow DEF Copied
    <2>13. WorkType'
      BY <2>2, <2>3, <2>5, <2>7 DEF WorkInv, WorkType
    <2>14. directory_frame'[s] = f
      BY <2>5 DEF WorkInv, WorkType
    <2>15. Made(s)'
      BY <2>2, <2>3, <2>6, <2>14 DEF Made
    <2>16. SpaceAt(s)'
      BY <2>3, <2>4, <2>12, <2>15 DEF SpaceAt, Copied
    <2>17. WorkAt(a)'
      <3>1. page[a] = NoFrame
        BY <2>2, <2>4 DEF WorkAt, Handing
      <3>2. job'[a] = s /\ page'[a] = NoFrame /\ found'[a] = NotScanned
        BY <2>2, <2>3, <2>4, <3>1
      <3> QED BY <2>7, <2>15, <3>2 DEF WorkAt, Handing, Growing, Filling, Mapping
    <2> QED BY <2>2, <2>8, <2>9, <2>12, <2>13, <2>16, <2>17, HarmlessStep, WorkStep
  <1> QED BY <1>1, <1>2

(* A page is taken in hand, ...                                            *)
LEMMA AllocPageWork ==
  ASSUME MapInv, WorkInv, NEW a \in Actor, AllocPage(a)
  PROVE  WorkInv'
  <1>1. PICK f \in Frames : Take(a, "page", f) /\ page' = [page EXCEPT ![a] = f]
    BY DEF AllocPage
  <1>2. /\ a = current_space /\ pc[a] = "page" /\ f # NoFrame
        /\ found' \in [Actor -> Frames \cup {NotScanned}]
        /\ \A b \in Actor : found'[b] = IF b = a THEN NotScanned ELSE found[b]
    BY <1>1, TakeParts DEF Allocating
  <1>3. PICK s \in Space : /\ s = job[a] /\ SpaceAt(s) /\ WorkAt(a) /\ state[s] = "loading"
                           /\ \A b \in Actor : b # a /\ pc[b] # "idle" => job[b] # s
    BY <1>2, OwnJob DEF Loading
  <1>4. PICK place \in {"table", "map"} :
          /\ pc' = [pc EXCEPT ![a] = place]
          /\ place = "table" <=> directory[s][directory_index(cursor[a])] = NoFrame
    BY <1>3 DEF AllocPage, Goto
  <1>5. UNCHANGED <<directory, directory_frame, user_mappings, user_page_count, image, argv, state,
                    kernel_directory, current_space, job, region, cursor, heap_pages>>
    BY DEF AllocPage, spaceVars, procVars
  <1>6. \A b \in Actor : pc'[b] = (IF b = a THEN place ELSE pc[b]) /\ page'[b] = (IF b = a THEN f ELSE page[b])
    BY <1>1, <1>4 DEF MapInv, OwnerType, WorkInv, WorkType
  <1>7. \A b \in Actor : b # a => SameActor(b) /\ (pc[b] # "idle" => job[b] # s)
    BY <1>2, <1>3, <1>5, <1>6 DEF SameActor
  <1>8. \A x \in Space : SameSpace(x) /\ state'[x] = state[x]
    BY <1>5, SpacesAlone
  <1>9. \A x \in Space : Copied(x)'
    BY <1>5, CopiedNow DEF Copied
  <1>10. WorkType'
    BY <1>1, <1>2, <1>5 DEF WorkInv, WorkType
  <1>11. (Blank(s) <=> Blank(s)') /\ (Made(s) <=> Made(s)')
    BY <1>8, SameSpaceParts
  <1>12. SpaceAt(s)'
    BY <1>3, <1>8, <1>9, OtherSpace
  <1>13. WorkAt(a)'
    <2>1. Made(s)' /\ CursorAt(a)
      BY <1>2, <1>3, <1>11 DEF WorkAt, Filling, Mapping
    <2>2. pc'[a] = place /\ page'[a] = f /\ found'[a] = NotScanned /\ job'[a] = s
      BY <1>2, <1>3, <1>5, <1>6
    <2>3. image'[job'[a]] = image[job[a]] /\ region'[a] = region[a] /\ cursor'[a] = cursor[a]
      BY <1>5
    <2>4. CursorAt(a)'
      BY <1>2, <2>1, <2>2, <2>3 DEF CursorAt
    <2>5. directory'[job'[a]][directory_index(cursor'[a])] = directory[s][directory_index(cursor[a])]
      BY <1>5, <2>2
    <2>6. page'[a] # NoFrame /\ found'[a] = NotScanned /\ pc'[a] \in {"table", "map"}
      BY <1>2, <2>2
    <2> QED BY <1>4, <2>1, <2>2, <2>4, <2>5, <2>6 DEF WorkAt, Handing, Growing, Filling, Mapping
  <1> QED BY <1>2, <1>7, <1>8, <1>9, <1>10, <1>12, <1>13, HarmlessStep, WorkStep

(* The cursor of an actor that maps a page is a user page of its region.   *)
LEMMA CursorPage ==
  ASSUME WorkInv, NEW a \in Actor, NEW s \in Space, s = job[a], state[s] # "absent",
         pc[a] \in {"page", "table", "map"}
  PROVE  /\ CursorAt(a) /\ cursor[a] \in Pages /\ user_virtual_allowed(cursor[a]) /\ cursor[a] \in Nat
         /\ directory_index(cursor[a]) \in UserDirs /\ RegionOk(image[s], region[a])
         /\ IsImage(image[s]) /\ Made(s)
  <1>1. WorkAt(a) /\ SpaceAt(s) /\ cursor[a] \in Nat
    BY DEF WorkInv, WorkType
  <1>2. CursorAt(a) /\ IsImage(image[s]) /\ Made(s)
    BY <1>1 DEF WorkAt, SpaceAt, Filling, Mapping
  <1>3. Loadable(image[s])
    BY <1>2 DEF Made
  <1>4. RegionOk(image[s], region[a])
    BY <1>2, <1>3, LoadableRegions DEF CursorAt
  <1> QED BY <1>1, <1>2, <1>3, <1>4, CursorUser

(* ... its table created, ...                                              *)
LEMMA AllocTableWork ==
  ASSUME MapInv, WorkInv, NEW a \in Actor, AllocTable(a)
  PROVE  WorkInv'
  <1>1. PICK f \in Frames : Take(a, "table", f) /\ create_table(job[a], cursor[a], f)
    BY DEF AllocTable
  <1>2. /\ a = current_space /\ pc[a] = "table" /\ f # NoFrame
        /\ found' \in [Actor -> Frames \cup {NotScanned}]
        /\ \A b \in Actor : found'[b] = IF b = a THEN NotScanned ELSE found[b]
    BY <1>1, TakeParts DEF Allocating
  <1>3. PICK s \in Space : /\ s = job[a] /\ SpaceAt(s) /\ WorkAt(a) /\ state[s] = "loading"
                           /\ \A b \in Actor : b # a /\ pc[b] # "idle" => job[b] # s
    BY <1>2, OwnJob DEF Loading
  <1>4. PICK d : d = directory_index(cursor[a])
    OBVIOUS
  <1>5. /\ UNCHANGED <<directory_frame, user_mappings, user_page_count, image, argv, state,
                       kernel_directory, current_space, job, region, cursor, page, heap_pages>>
        /\ pc' = [pc EXCEPT ![a] = "map"] /\ directory' = [directory EXCEPT ![s][d] = f]
    BY <1>1, <1>3, <1>4 DEF AllocTable, create_table, procVars, workVars, Goto
  <1>6. CursorAt(a) /\ d \in UserDirs /\ Made(s)
    BY <1>2, <1>3, <1>4, CursorPage
  <1>7. d \in Dirs /\ d \notin KernelDirs
    BY <1>6, Addresses DEF KernelDirs
  <1>8. \A x \in Space, e \in Dirs : directory'[x][e] = IF x = s /\ e = d THEN f ELSE directory[x][e]
    BY <1>5, <1>7 DEF MapInv, DirectoryType
  <1>9. \A b \in Actor : pc'[b] = (IF b = a THEN "map" ELSE pc[b])
    BY <1>5 DEF MapInv, OwnerType
  <1>10. \A b \in Actor : b # a => SameActor(b) /\ (pc[b] # "idle" => job[b] # s)
    BY <1>2, <1>3, <1>5, <1>9 DEF SameActor
  <1>11. UserDirs \subseteq Dirs
    BY Addresses
  <1>12. \A x \in Space : x # s => SameSpace(x) /\ state'[x] = state[x]
    BY <1>5, <1>8, <1>11 DEF SameSpace
  <1>13. \A x \in Space : Copied(x)'
    BY <1>5, <1>7, <1>8, CopiedNow, DirsKernel DEF Copied
  <1>14. WorkType'
    BY <1>2, <1>5 DEF WorkInv, WorkType
  <1>15. Made(s)'
    BY <1>5, <1>6 DEF Made
  <1>16. SpaceAt(s)'
    BY <1>3, <1>5, <1>13, <1>15 DEF SpaceAt, Copied
  <1>17. WorkAt(a)'
    <2>1. pc'[a] = "map" /\ page'[a] = page[a] /\ found'[a] = NotScanned /\ job'[a] = s
      BY <1>2, <1>3, <1>5, <1>9
    <2>2. page[a] # NoFrame
      BY <1>2, <1>3 DEF WorkAt, Handing
    <2>3. image'[job'[a]] = image[job[a]] /\ region'[a] = region[a] /\ cursor'[a] = cursor[a]
      BY <1>5
    <2>4. CursorAt(a)'
      BY <1>2, <1>6, <2>1, <2>3 DEF CursorAt
    <2>5. directory'[job'[a]][directory_index(cursor'[a])] # NoFrame
      BY <1>2, <1>4, <1>7, <1>8, <2>1, <2>3
    <2>6. page'[a] # NoFrame
      BY <2>1, <2>2
    <2> QED BY <1>15, <2>1, <2>4, <2>5, <2>6 DEF WorkAt, Handing, Growing, Filling, Mapping
  <1> QED BY <1>2, <1>10, <1>12, <1>13, <1>14, <1>16, <1>17, HarmlessStep, WorkStep

(* ... and the page entered.                                               *)
LEMMA MapPageWork ==
  ASSUME MapInv, WorkInv, NEW a \in Actor, MapPage(a)
  PROVE  WorkInv'
  <1>1. CASE Halt("load failed")
    BY <1>1, HaltWork
  <1>2. CASE ~ Halt("load failed")
    <2>1. a = current_space /\ pc[a] = "map"
      BY DEF MapPage, Running
    <2>2. PICK s \in Space : /\ s = job[a] /\ SpaceAt(s) /\ WorkAt(a) /\ state[s] = "loading"
                             /\ \A b \in Actor : b # a /\ pc[b] # "idle" => job[b] # s
      BY <2>1, OwnJob DEF Loading
    <2>3. CursorAt(a) /\ Made(s) /\ RegionOk(image[s], region[a]) /\ cursor[a] \in Nat
      BY <2>1, <2>2, CursorPage
    <2>4. PICK va \in Nat, e \in Nat, w \in Nat :
            /\ va = cursor[a] /\ e = RegionEnd(Region(image[s], region[a])) /\ w = Region(image[s], region[a]).vaddr
            /\ va % PageSize = 0 /\ e % PageSize = 0 /\ va < e /\ w <= va
      BY <2>1, <2>2, <2>3 DEF CursorAt, RegionOk
    <2>5. PICK n \in Nat : n = va + PageSize /\ n % PageSize = 0 /\ n <= e /\ w <= n
      BY <2>4, AlignedStep, Sizes
    <2>6. PICK place \in {"page", "fill"} : place = IF n < e THEN "page" ELSE "fill"
      OBVIOUS
    <2>7. /\ pc' = [pc EXCEPT ![a] = place] /\ cursor' = [cursor EXCEPT ![a] = n]
          /\ page' = [page EXCEPT ![a] = NoFrame]
          /\ user_mappings' = [user_mappings EXCEPT ![s] = <<va>> \o @]
          /\ user_page_count' = [user_page_count EXCEPT ![s] = @ + 1]
          /\ UNCHANGED <<directory, directory_frame, kernel_directory, current_space, image, argv, state,
                         job, region, found, heap_pages>>
      BY <1>2, <2>2, <2>4, <2>5, <2>6 DEF MapPage, map_page, procVars, Goto
    <2>8. \A b \in Actor : /\ pc'[b] = (IF b = a THEN place ELSE pc[b])
                           /\ cursor'[b] = (IF b = a THEN n ELSE cursor[b])
                           /\ page'[b] = (IF b = a THEN NoFrame ELSE page[b])
      BY <2>7 DEF MapInv, OwnerType, WorkInv, WorkType
    <2>9. \A b \in Actor : b # a => SameActor(b) /\ (pc[b] # "idle" => job[b] # s)
      BY <2>2, <2>7, <2>8 DEF SameActor
    <2>10. \A x \in Space : x # s => SameSpace(x) /\ state'[x] = state[x]
      BY <2>7 DEF SameSpace
    <2>11. \A x \in Space : Copied(x)'
      BY <2>7, CopiedNow DEF Copied
    <2>12. WorkType'
      BY <2>7, EmptyEntries DEF WorkInv, WorkType
    <2>13. Made(s)'
      BY <2>3, <2>7 DEF Made
    <2>14. SpaceAt(s)'
      BY <2>2, <2>7, <2>11, <2>13 DEF SpaceAt, Copied
    <2>15. WorkAt(a)'
      <3>1. found[a] = NotScanned
        BY <2>1, <2>2 DEF WorkAt, Allocating
      <3>2. pc'[a] = place /\ page'[a] = NoFrame /\ found'[a] = NotScanned /\ job'[a] = s /\ cursor'[a] = n
        BY <2>1, <2>2, <2>7, <2>8, <3>1
      <3>3. image'[job'[a]] = image[s] /\ region'[a] = region[a]
        BY <2>7, <3>2
      <3>4. region[a] \in RegionsOf(image[s])
        BY <2>2, <2>3 DEF CursorAt
      <3>5. IF place = "fill" THEN n = e ELSE n < e
        BY <2>5, <2>6
      <3>6. CursorAt(a)'
        BY <2>4, <2>5, <3>2, <3>3, <3>4, <3>5 DEF CursorAt
      <3> QED BY <2>13, <3>2, <3>6 DEF WorkAt, Handing, Growing, Filling, Mapping
    <2> QED BY <2>1, <2>9, <2>10, <2>11, <2>12, <2>14, <2>15, HarmlessStep, WorkStep
  <1> QED BY <1>1, <1>2

(* The next region begins where it is mapped, or the last one is done.     *)
LEMMA FillWork ==
  ASSUME MapInv, WorkInv, NEW a \in Actor, Fill(a)
  PROVE  WorkInv'
  <1>1. CASE Halt("page fault")
    BY <1>1, HaltWork
  <1>2. CASE ~ Halt("page fault")
    <2>1. a = current_space /\ pc[a] = "fill"
      BY DEF Fill, Running
    <2>2. PICK s \in Space : /\ s = job[a] /\ SpaceAt(s) /\ WorkAt(a) /\ state[s] = "loading"
                             /\ \A b \in Actor : b # a /\ pc[b] # "idle" => job[b] # s
      BY <2>1, OwnJob DEF Loading
    <2>3. CursorAt(a) /\ Made(s) /\ IsImage(image[s])
      BY <2>1, <2>2 DEF WorkAt, SpaceAt, Filling, Mapping
    <2>4. Loadable(image[s]) /\ region[a] \in RegionsOf(image[s])
      BY <2>2, <2>3 DEF Made, CursorAt
    <2>5. PICK i \in Nat : /\ i = NextRegion(image[s], region[a])
                           /\ i \in RegionsOf(image[s]) \/ i > Len(image[s].phdrs)
      BY <2>3, <2>4, NextRegionIs
    <2>6. /\ SwitchedTo(s, a) /\ StartRegion(a, i)
          /\ UNCHANGED <<directory_frame, user_mappings, user_page_count, kernel_directory, current_space,
                         image, argv, state, job, page, found, heap_pages>>
      BY <1>2, <2>2, <2>5 DEF Fill, procVars
    <2>7. /\ pc'[a] \in {"page", "args"} /\ (pc'[a] = "page" => CursorAt(a)')
          /\ \A b \in Actor : b # a => pc'[b] = pc[b] /\ region'[b] = region[b] /\ cursor'[b] = cursor[b]
          /\ region' \in [Actor -> Nat] /\ cursor' \in [Actor -> Nat]
      BY <2>2, <2>3, <2>4, <2>5, <2>6, StartedRegion DEF MapInv, WorkInv
    <2>8. \A x \in Space : (\A d \in UserDirs : directory'[x][d] = directory[x][d]) /\ Copied(x)'
      BY <2>6, SyncedSpaces DEF SwitchedTo
    <2>9. \A b \in Actor : b # a => SameActor(b) /\ (pc[b] # "idle" => job[b] # s)
      BY <2>2, <2>6, <2>7 DEF SameActor
    <2>10. \A x \in Space : SameSpace(x) /\ state'[x] = state[x]
      BY <2>6, <2>8 DEF SameSpace
    <2>11. WorkType'
      BY <2>6, <2>7 DEF WorkInv, WorkType
    <2>12. Made(s)' /\ SpaceAt(s)'
      BY <2>2, <2>3, <2>8, <2>10, SameSpaceParts, OtherSpace
    <2>13. WorkAt(a)'
      <3>1. found[a] = NotScanned /\ page[a] = NoFrame
        BY <2>1, <2>2 DEF WorkAt, Allocating, Handing
      <3>2. page'[a] = NoFrame /\ found'[a] = NotScanned /\ job'[a] = s
        BY <2>2, <2>6, <3>1
      <3> QED BY <2>7, <2>12, <3>2 DEF WorkAt, Handing, Growing, Filling, Mapping
    <2> QED BY <2>1, <2>8, <2>9, <2>10, <2>11, <2>12, <2>13, HarmlessStep, WorkStep
  <1> QED BY <1>1, <1>2

(* The program runs, in a space that was made.                             *)
LEMMA StartWork ==
  ASSUME MapInv, WorkInv, NEW a \in Actor, Start(a)
  PROVE  WorkInv'
  <1>1. CASE \E why : Halt(why)
    BY <1>1, HaltWork
  <1>2. CASE ~ \E why : Halt(why)
    <2>1. a = current_space /\ pc[a] = "args"
      BY DEF Start, Running
    <2>2. PICK s \in Space : /\ s = job[a] /\ SpaceAt(s) /\ WorkAt(a) /\ state[s] = "loading"
                             /\ \A b \in Actor : b # a /\ pc[b] # "idle" => job[b] # s
      BY <2>1, OwnJob DEF Loading
    <2>3. /\ SwitchedTo(s, a) /\ pc' = [pc EXCEPT ![a] = "idle"]
          /\ state' = [state EXCEPT ![s] = "live"] /\ job' = [job EXCEPT ![a] = NoSpace]
          /\ UNCHANGED <<directory_frame, user_mappings, user_page_count, kernel_directory, current_space,
                         image, argv, region, cursor, page, found, heap_pages>>
      BY <1>2, <2>2 DEF Start, Goto
    <2>4. \A b \in Actor : /\ pc'[b] = (IF b = a THEN "idle" ELSE pc[b])
                           /\ job'[b] = (IF b = a THEN NoSpace ELSE job[b])
      BY <2>3 DEF MapInv, OwnerType
    <2>5. \A x \in Space : state'[x] = IF x = s THEN "live" ELSE state[x]
      BY <2>3 DEF MapInv, OwnerType
    <2>6. \A x \in Space : (\A d \in UserDirs : directory'[x][d] = directory[x][d]) /\ Copied(x)'
      BY <2>3, SyncedSpaces DEF SwitchedTo
    <2>7. \A b \in Actor : b # a => SameActor(b) /\ (pc[b] # "idle" => job[b] # s)
      BY <2>2, <2>3, <2>4 DEF SameActor
    <2>8. \A x \in Space : SameSpace(x)
      BY <2>3, <2>6 DEF SameSpace
    <2>9. WorkType'
      BY <2>3 DEF WorkInv, WorkType
    <2>10. Made(s)
      BY <2>1, <2>2 DEF WorkAt, Filling
    <2>11. Made(s)'
      BY <2>8, <2>10, SameSpaceParts
    <2>12. SpaceAt(s)'
      BY <2>2, <2>3, <2>5, <2>6, <2>11 DEF SpaceAt, Copied
    <2>13. WorkAt(a)'
      <3>1. found[a] = NotScanned /\ page[a] = NoFrame
        BY <2>1, <2>2 DEF WorkAt, Allocating, Handing
      <3>2. page'[a] = NoFrame /\ found'[a] = NotScanned /\ pc'[a] = "idle"
        BY <2>3, <2>4, <3>1
      <3> QED BY <3>2 DEF WorkAt, Handing, Growing, Filling, Mapping
    <2> QED BY <2>1, <2>5, <2>6, <2>7, <2>8, <2>9, <2>12, <2>13, HarmlessStep, WorkStep
  <1> QED BY <1>1, <1>2

-----------------------------------------------------------------------------
(* A destruction begins with a space that was made, ...                    *)
LEMMA CollectWork ==
  ASSUME MapInv, WorkInv, NEW a \in Actor, NEW s \in Space, Collect(a, s)
  PROVE  WorkInv'
  <1>1. /\ a = current_space /\ pc[a] = "idle" /\ state[s] = "zombie"
        /\ state' = [state EXCEPT ![s] = "dying"] /\ job' = [job EXCEPT ![a] = s]
        /\ pc' = [pc EXCEPT ![a] = "unmap"]
        /\ UNCHANGED <<current_space, kernel_directory, directory, directory_frame, user_mappings,
                       user_page_count, image, argv, region, cursor, page, found, heap_pages>>
    BY DEF Collect, Running, Goto, spaceVars
  <1>2. /\ \A b \in Actor : /\ pc'[b] = IF b = a THEN "unmap" ELSE pc[b]
                            /\ job'[b] = IF b = a THEN s ELSE job[b]
        /\ \A x \in Space : state'[x] = IF x = s THEN "dying" ELSE state[x]
    BY <1>1 DEF MapInv, OwnerType
  <1>3. \A b \in Actor : b # a => SameActor(b) /\ (pc[b] # "idle" => job[b] # s)
    BY <1>1, <1>2 DEF SameActor, MapInv, OwnerType, OwnerInv
  <1>4. \A x \in Space : SameSpace(x)
    BY <1>1 DEF SameSpace
  <1>5. \A x \in Space : Copied(x)'
    BY <1>1, CopiedNow DEF Copied
  <1>6. WorkType'
    BY <1>1 DEF WorkInv, WorkType
  <1>7. SpaceAt(s) /\ Made(s)
    BY <1>1 DEF WorkInv, SpaceAt
  <1>8. Made(s)'
    BY <1>4, <1>7, SameSpaceParts
  <1>9. SpaceAt(s)'
    BY <1>1, <1>2, <1>5, <1>7, <1>8 DEF SpaceAt, Copied
  <1>10. WorkAt(a)'
    <2>1. found[a] = NotScanned /\ page[a] = NoFrame
      BY <1>1 DEF WorkInv, WorkAt, Allocating, Handing
    <2>2. page'[a] = NoFrame /\ found'[a] = NotScanned /\ pc'[a] = "unmap"
      BY <1>1, <1>2, <2>1
    <2> QED BY <2>2 DEF WorkAt, Handing, Growing, Filling, Mapping
  <1>11. Harmless(a)
    BY DEF Collect, Harmless, pmmVars
  <1> QED BY <1>1, <1>2, <1>3, <1>4, <1>5, <1>6, <1>9, <1>10, <1>11, WorkStep

(* ... takes out its pages, ...                                            *)
LEMMA UnmapNextWork ==
  ASSUME MapInv, WorkInv, NEW a \in Actor, UnmapNext(a)
  PROVE  WorkInv'
  <1>1. CASE Halt("destroy")
    BY <1>1, HaltWork
  <1>2. CASE ~ Halt("destroy")
    <2>1. a = current_space /\ pc[a] = "unmap"
      BY DEF UnmapNext, Running
    <2>2. PICK s \in Space : /\ s = job[a] /\ SpaceAt(s) /\ WorkAt(a) /\ state[s] = "dying"
                             /\ \A b \in Actor : b # a /\ pc[b] # "idle" => job[b] # s
      BY <2>1, OwnJob
    <2>3. PICK list, count :
            /\ user_mappings' = [user_mappings EXCEPT ![s] = list]
            /\ user_page_count' = [user_page_count EXCEPT ![s] = count]
      BY <1>2, <2>2 DEF UnmapNext, unmap_page
    <2>4. UNCHANGED <<directory, directory_frame, kernel_directory, current_space, image, argv, state,
                      pc, job, region, cursor, page, found, heap_pages>>
      BY <1>2 DEF UnmapNext, unmap_page, procVars, workVars
    <2>5. \A b \in Actor : b # a => SameActor(b) /\ (pc[b] # "idle" => job[b] # s)
      BY <2>2, <2>4 DEF SameActor
    <2>6. \A x \in Space : x # s => SameSpace(x) /\ state'[x] = state[x]
      BY <2>3, <2>4 DEF SameSpace
    <2>7. \A x \in Space : Copied(x)'
      BY <2>4, CopiedNow DEF Copied
    <2>8. WorkType'
      BY <2>3, <2>4 DEF WorkInv, WorkType
    <2>9. Made(s)'
      BY <2>2, <2>4 DEF SpaceAt, Made
    <2>10. SpaceAt(s)'
      BY <2>2, <2>4, <2>7, <2>9 DEF SpaceAt, Copied
    <2>11. WorkAt(a)'
      <3>1. found[a] = NotScanned /\ page[a] = NoFrame
        BY <2>1, <2>2 DEF WorkAt, Allocating, Handing
      <3>2. page'[a] = NoFrame /\ found'[a] = NotScanned /\ pc'[a] = "unmap"
        BY <2>1, <2>4, <3>1
      <3> QED BY <3>2 DEF WorkAt, Handing, Growing, Filling, Mapping
    <2> QED BY <2>1, <2>5, <2>6, <2>7, <2>8, <2>10, <2>11, HarmlessStep, WorkStep
  <1> QED BY <1>1, <1>2

(* ... its tables ...                                                      *)
LEMMA FreeTableWork ==
  ASSUME MapInv, WorkInv, NEW a \in Actor, FreeTable(a)
  PROVE  WorkInv'
  <1>1. CASE Halt("destroy")
    BY <1>1, HaltWork
  <1>2. CASE ~ Halt("destroy")
    <2>1. a = current_space /\ pc[a] = "unmap"
      BY DEF FreeTable, Running
    <2>2. PICK s \in Space : /\ s = job[a] /\ SpaceAt(s) /\ WorkAt(a) /\ state[s] = "dying"
                             /\ \A b \in Actor : b # a /\ pc[b] # "idle" => job[b] # s
      BY <2>1, OwnJob
    <2>3. PICK d \in UserDirs : directory' = [directory EXCEPT ![s][d] = NoFrame]
      BY <1>2, <2>2 DEF FreeTable, UserTables
    <2>4. UNCHANGED <<directory_frame, user_mappings, user_page_count, kernel_directory, current_space,
                      image, argv, state, pc, job, region, cursor, page, found, heap_pages>>
      BY <1>2 DEF FreeTable, procVars, workVars
    <2>5. \A b \in Actor : b # a => SameActor(b) /\ (pc[b] # "idle" => job[b] # s)
      BY <2>2, <2>4 DEF SameActor
    <2>6. d \in Dirs /\ d \notin KernelDirs
      BY Addresses DEF KernelDirs
    <2>7. \A x \in Space : x # s => directory'[x] = directory[x]
      BY <2>3
    <2>8. \A e \in KernelDirs : directory'[s][e] = directory[s][e]
      BY <2>3, <2>6, DirsKernel DEF MapInv, DirectoryType
    <2>9. \A x \in Space : x # s => SameSpace(x) /\ state'[x] = state[x]
      BY <2>4, <2>7 DEF SameSpace
    <2>10. \A x \in Space : Copied(x)'
      BY <2>4, <2>7, <2>8, CopiedNow DEF Copied
    <2>11. WorkType'
      BY <2>4 DEF WorkInv, WorkType
    <2>12. Made(s)'
      BY <2>2, <2>4 DEF SpaceAt, Made
    <2>13. SpaceAt(s)'
      BY <2>2, <2>4, <2>10, <2>12 DEF SpaceAt, Copied
    <2>14. WorkAt(a)'
      <3>1. found[a] = NotScanned /\ page[a] = NoFrame
        BY <2>1, <2>2 DEF WorkAt, Allocating, Handing
      <3>2. page'[a] = NoFrame /\ found'[a] = NotScanned /\ pc'[a] = "unmap"
        BY <2>1, <2>4, <3>1
      <3> QED BY <3>2 DEF WorkAt, Handing, Growing, Filling, Mapping
    <2> QED BY <2>1, <2>5, <2>9, <2>10, <2>11, <2>13, <2>14, HarmlessStep, WorkStep
  <1> QED BY <1>1, <1>2

(* ... and its directory, which leaves a space with nothing.               *)
LEMMA FreeDirectoryWork ==
  ASSUME MapInv, WorkInv, NEW a \in Actor, FreeDirectory(a)
  PROVE  WorkInv'
  <1>1. a = current_space /\ pc[a] = "unmap"
    BY DEF FreeDirectory, Running
  <1>2. PICK s \in Space : /\ s = job[a] /\ SpaceAt(s) /\ WorkAt(a) /\ state[s] = "dying"
                           /\ \A b \in Actor : b # a /\ pc[b] # "idle" => job[b] # s
    BY <1>1, OwnJob
  <1>3. /\ directory' = [directory EXCEPT ![s] = EmptyDirectory] /\ user_mappings[s] = <<>>
        /\ directory_frame' = [directory_frame EXCEPT ![s] = NoFrame]
        /\ user_page_count' = [user_page_count EXCEPT ![s] = 0]
        /\ state' = [state EXCEPT ![s] = "absent"]
        /\ image' = [image EXCEPT ![s] = NoImage] /\ argv' = [argv EXCEPT ![s] = <<>>]
        /\ job' = [job EXCEPT ![a] = NoSpace] /\ pc' = [pc EXCEPT ![a] = "idle"]
        /\ UNCHANGED <<kernel_directory, user_mappings, current_space, region, cursor, page, found, heap_pages>>
    BY <1>2 DEF FreeDirectory, Goto
  <1>4. /\ \A b \in Actor : /\ pc'[b] = (IF b = a THEN "idle" ELSE pc[b])
                            /\ job'[b] = (IF b = a THEN NoSpace ELSE job[b])
        /\ \A x \in Space : state'[x] = IF x = s THEN "absent" ELSE state[x]
    BY <1>3 DEF MapInv, OwnerType
  <1>5. \A b \in Actor : b # a => SameActor(b) /\ (pc[b] # "idle" => job[b] # s)
    BY <1>2, <1>3, <1>4 DEF SameActor
  <1>6. \A x \in Space : x # s => SameSpace(x) /\ state'[x] = state[x]
    BY <1>3, <1>4 DEF SameSpace
  <1>7. directory'[s] = EmptyDirectory /\ \A x \in Space : x # s => directory'[x] = directory[x]
    BY <1>3 DEF MapInv, DirectoryType
  <1>8. \A d \in Dirs : EmptyDirectory[d] = NoFrame
    BY DEF EmptyDirectory
  <1>9. \A x \in Space : Copied(x)'
    BY <1>3, <1>7, <1>8, CopiedNow, DirsKernel DEF Copied
  <1>10. WorkType'
    BY <1>3, EmptyEntries DEF WorkInv, WorkType
  <1>11. directory_frame'[s] = NoFrame /\ user_page_count'[s] = 0 /\ user_mappings'[s] = <<>>
    BY <1>3 DEF WorkInv, WorkType
  <1>12. \A d \in UserDirs : directory'[s][d] = NoFrame
    BY <1>7, <1>8, Addresses
  <1>13. SpaceAt(s)'
    BY <1>4, <1>9, <1>11, <1>12 DEF SpaceAt, Blank, Copied
  <1>14. WorkAt(a)'
    <2>1. found[a] = NotScanned /\ page[a] = NoFrame
      BY <1>1, <1>2 DEF WorkAt, Allocating, Handing
    <2>2. page'[a] = NoFrame /\ found'[a] = NotScanned /\ pc'[a] = "idle"
      BY <1>3, <1>4, <2>1
    <2> QED BY <2>2 DEF WorkAt, Handing, Growing, Filling, Mapping
  <1> QED BY <1>1, <1>5, <1>6, <1>9, <1>10, <1>13, <1>14, HarmlessStep, WorkStep

-----------------------------------------------------------------------------
(* Every step preserves the invariant.                                     *)
LEMMA NextWork ==
  ASSUME MapInv, WorkInv, [Next]_vars, "alloc_race" \notin Features
  PROVE  WorkInv'
  <1>1. ASSUME NEW a \in Actor, AllocationFails(a) PROVE WorkInv'
    BY <1>1, HaltWork DEF AllocationFails
  <1>2. ASSUME NEW a \in Actor,
               \E s \in Space, cmd \in (IF launches = 0 THEN Commands ELSE LaterCommands),
                  grow \in BOOLEAN : Launch(a, s, cmd, grow)
        PROVE  WorkInv'
    <2>1. (IF launches = 0 THEN Commands ELSE LaterCommands) \subseteq Commands
      BY MemoryAssumption
    <2> QED BY <1>2, <2>1, LaunchWork
  <1>3. CASE UNCHANGED vars
    BY <1>3 DEF vars, WorkInv, WorkType, WorkAt, SpaceAt, Blank, Made, CursorAt, HeapNext,
                pmmVars, spaceVars, procVars, workVars
  <1> QED BY <1>1, <1>2, <1>3, DispatchWork, ScanWork, GrowPageWork, GrowTableWork, GrowMapWork,
             CreateWork, AllocPageWork, AllocTableWork, MapPageWork, FillWork, StartWork,
             UnmapNextWork, FreeTableWork, FreeDirectoryWork, ExitWork, CollectWork DEF Next

-----------------------------------------------------------------------------
(* Steps that change no table of a space's own.                            *)
LEMMA QuietDirectories ==
  ASSUME UNCHANGED kernel_directory, \A x \in Space : \A d \in UserDirs : directory'[x][d] = directory[x][d]
  PROVE  SameDirectories
  <1> SUFFICES ASSUME NEW b \in Actor, NEW d, OwnDir(b, d) PROVE DirectoryOf(b)'[d] = DirectoryOf(b)[d]
    BY DEF SameDirectories
  <1>1. CASE b = KernelSpace
    BY <1>1 DEF DirectoryOf
  <1>2. CASE b # KernelSpace
    <2>1. b \in Space /\ d \in UserDirs
      BY <1>2 DEF Actor, OwnDir
    <2> QED BY <1>2, <2>1 DEF DirectoryOf
  <1> QED BY <1>1, <1>2

(* An entry of a process's directory, or of the kernel's.                  *)
LEMMA SetUserDirectory ==
  ASSUME DirectoryType, NEW s \in Space, NEW d \in UserDirs, NEW f,
         UNCHANGED kernel_directory, directory' = [directory EXCEPT ![s][d] = f]
  PROVE  s \in Actor /\ OwnDir(s, d) /\ DirectoryOf(s) = directory[s] /\ SetDirectory(s, d, f)
  <1>1. s # KernelSpace /\ s \in Actor
    BY SpaceAssumption DEF Actor
  <1>2. \A x \in Space, e \in UserDirs : directory'[x][e] = IF x = s /\ e = d THEN f ELSE directory[x][e]
    BY Addresses DEF DirectoryType
  <1>3. ASSUME NEW b \in Actor, NEW e, OwnDir(b, e)
        PROVE  DirectoryOf(b)'[e] = IF b = s /\ e = d THEN f ELSE DirectoryOf(b)[e]
    <2>1. CASE b = KernelSpace
      BY <1>1, <2>1 DEF DirectoryOf
    <2>2. CASE b # KernelSpace
      <3>1. b \in Space /\ e \in UserDirs
        BY <1>3, <2>2 DEF Actor, OwnDir
      <3> QED BY <1>2, <2>2, <3>1 DEF DirectoryOf
    <2> QED BY <2>1, <2>2
  <1> QED BY <1>1, <1>3 DEF SetDirectory, OwnDir, DirectoryOf

LEMMA SetKernelDirectory ==
  ASSUME DirectoryType, NEW d \in KernelDirs, d # 0, NEW f,
         UNCHANGED directory, kernel_directory' = [kernel_directory EXCEPT ![d] = f]
  PROVE  /\ KernelSpace \in Actor /\ OwnDir(KernelSpace, d) /\ DirectoryOf(KernelSpace) = kernel_directory
         /\ SetDirectory(KernelSpace, d, f)
  <1>1. \A e \in KernelDirs : kernel_directory'[e] = IF e = d THEN f ELSE kernel_directory[e]
    BY DirsKernel DEF DirectoryType
  <1>2. ASSUME NEW b \in Actor, NEW e, OwnDir(b, e)
        PROVE  DirectoryOf(b)'[e] = IF b = KernelSpace /\ e = d THEN f ELSE DirectoryOf(b)[e]
    <2>1. CASE b = KernelSpace
      <3>1. e \in KernelDirs
        BY <1>2, <2>1 DEF OwnDir
      <3> QED BY <1>1, <2>1, <3>1 DEF DirectoryOf
    <2>2. CASE b # KernelSpace
      BY <2>2 DEF DirectoryOf
    <2> QED BY <2>1, <2>2
  <1> QED BY <1>2 DEF SetDirectory, OwnDir, DirectoryOf, Actor

-----------------------------------------------------------------------------
(* What each use is.                                                       *)
LEMMA HoldingAt ==
  /\ \A a \in Actor : Key("hand", a, 0) \in Keys /\ Holding[Key("hand", a, 0)] = page[a]
  /\ \A s \in Space : Key("directory", s, 0) \in Keys /\ Holding[Key("directory", s, 0)] = directory_frame[s]
  /\ \A a \in Actor, d \in Nat : Key("table", a, d) \in Keys /\ Holding[Key("table", a, d)] = Tables[a][d]
  /\ \A a \in Actor, v \in Nat : Key("page", a, v) \in Keys /\ Holding[Key("page", a, v)] = Entries[a][v].frame
  <1>1. "hand" \in Kinds /\ "directory" \in Kinds /\ "table" \in Kinds /\ "page" \in Kinds
    BY DEF Kinds
  <1>2. ASSUME NEW a \in Actor
        PROVE  Key("hand", a, 0) \in Keys /\ Holding[Key("hand", a, 0)] = page[a]
    <2>1. Holding[Key("hand", a, 0)] = HeldBy("hand", a, 0, directory_frame, page, Tables, Entries)
      BY <1>1, HeldAt DEF Holding
    <2> QED BY <1>1, <2>1, KeyIsTuple DEF HeldBy
  <1>3. ASSUME NEW s \in Space
        PROVE  Key("directory", s, 0) \in Keys /\ Holding[Key("directory", s, 0)] = directory_frame[s]
    <2>1. s \in Actor
      BY DEF Actor
    <2>2. Holding[Key("directory", s, 0)] = HeldBy("directory", s, 0, directory_frame, page, Tables, Entries)
      BY <1>1, <2>1, HeldAt DEF Holding
    <2> QED BY <1>1, <2>1, <2>2, KeyIsTuple DEF HeldBy
  <1>4. ASSUME NEW a \in Actor, NEW d \in Nat
        PROVE  Key("table", a, d) \in Keys /\ Holding[Key("table", a, d)] = Tables[a][d]
    <2>1. Holding[Key("table", a, d)] = HeldBy("table", a, d, directory_frame, page, Tables, Entries)
      BY <1>1, HeldAt DEF Holding
    <2> QED BY <1>1, <2>1, KeyIsTuple DEF HeldBy
  <1>5. ASSUME NEW a \in Actor, NEW v \in Nat
        PROVE  Key("page", a, v) \in Keys /\ Holding[Key("page", a, v)] = Entries[a][v].frame
    <2>1. Holding[Key("page", a, v)] = HeldBy("page", a, v, directory_frame, page, Tables, Entries)
      BY <1>1, HeldAt DEF Holding
    <2> QED BY <1>1, <2>1, KeyIsTuple DEF HeldBy
  <1> QED BY <1>2, <1>3, <1>4, <1>5

(* Steps in which nothing is allocated, moved or freed.                    *)
LEMMA SameFrames ==
  ASSUME FrameInv, SameDirectories, UNCHANGED <<pte, directory_frame, page, bitmap, free_frames>>
  PROVE  FrameInv' /\ Entries' = Entries
  <1>1. Tables' = Tables /\ Entries' = Entries
    BY SameViews
  <1>2. Holding' = Holding
    BY <1>1 DEF Holding
  <1> QED BY <1>1, <1>2 DEF FrameInv, TableType, HolderType

(* A frame is taken for a page to map.                                     *)
LEMMA TakeInHand ==
  ASSUME FrameInv, SameDirectories, UNCHANGED <<pte, directory_frame>>, NEW a \in Actor, page[a] = NoFrame,
         NEW f \in Frames, f # NoFrame, f \notin bitmap, mark_frame_used(f), page' = [page EXCEPT ![a] = f]
  PROVE  FrameInv' /\ Entries' = Entries
  <1>1. Tables' = Tables /\ Entries' = Entries
    BY SameViews
  <1>2. PICK k \in Keys : k = Key("hand", a, 0) /\ Holding[k] = NoFrame
    BY HoldingAt
  <1>3. Update(Holding, Holding', k, f)
    <2>1. page \in [Actor -> Frames] /\ page' = [page EXCEPT ![a] = f]
      BY DEF FrameInv, HolderType
    <2>2. Update(Held(directory_frame, page, Tables, Entries), Held(directory_frame, page', Tables, Entries), k, f)
      BY ONLY <1>2, <2>1, a \in Actor, HeldHand
    <2> QED BY <1>1, <2>2 DEF Holding
  <1>4. Holding' = [Holding EXCEPT ![k] = f]
    BY <1>3 DEF Update
  <1>5. Accounted(Holding', bitmap', free_frames')
    BY <1>2, <1>4, AddUse DEF FrameInv, mark_frame_used
  <1> QED BY <1>1, <1>5 DEF FrameInv, TableType, HolderType

(* A frame is taken for a directory, ...                                   *)
LEMMA TakeDirectory ==
  ASSUME FrameInv, SameDirectories, UNCHANGED <<pte, page>>, NEW s \in Space, directory_frame[s] = NoFrame,
         NEW f \in Frames, f # NoFrame, f \notin bitmap, mark_frame_used(f),
         directory_frame' = [directory_frame EXCEPT ![s] = f]
  PROVE  FrameInv' /\ Entries' = Entries
  <1>1. Tables' = Tables /\ Entries' = Entries
    BY SameViews
  <1>2. PICK k \in Keys : k = Key("directory", s, 0) /\ Holding[k] = NoFrame
    BY HoldingAt
  <1>3. Holding' = [Holding EXCEPT ![k] = f]
    <2>1. directory_frame \in [Space -> Frames] /\ directory_frame' = [directory_frame EXCEPT ![s] = f]
      BY DEF FrameInv, HolderType
    <2>2. Update(Held(directory_frame, page, Tables, Entries), Held(directory_frame', page, Tables, Entries), k, f)
      BY ONLY <1>2, <2>1, s \in Space, HeldDirectory
    <2>3. Update(Holding, Holding', k, f)
      BY <1>1, <2>2 DEF Holding
    <2> QED BY <2>3 DEF Update
  <1>4. Accounted(Holding', bitmap', free_frames')
    BY <1>2, <1>3, AddUse DEF FrameInv, mark_frame_used
  <1> QED BY <1>1, <1>4 DEF FrameInv, TableType, HolderType

(* ... and given back.                                                     *)
LEMMA DropDirectory ==
  ASSUME FrameInv, SameDirectories, UNCHANGED <<pte, page>>, NEW s \in Space, directory_frame[s] # NoFrame,
         pmm_free_pages({directory_frame[s]}), directory_frame' = [directory_frame EXCEPT ![s] = NoFrame]
  PROVE  FrameInv' /\ Entries' = Entries
  <1>1. Tables' = Tables /\ Entries' = Entries
    BY SameViews
  <1>2. PICK k \in Keys : k = Key("directory", s, 0) /\ Holding[k] = directory_frame[s]
    BY HoldingAt
  <1>3. Holding' = [Holding EXCEPT ![k] = NoFrame]
    <2>1. directory_frame \in [Space -> Frames] /\ directory_frame' = [directory_frame EXCEPT ![s] = NoFrame]
      BY DEF FrameInv, HolderType
    <2>2. Update(Held(directory_frame, page, Tables, Entries), Held(directory_frame', page, Tables, Entries), k, NoFrame)
      BY ONLY <1>2, <2>1, s \in Space, HeldDirectory
    <2>3. Update(Holding, Holding', k, NoFrame)
      BY <1>1, <2>2 DEF Holding
    <2> QED BY <2>3 DEF Update
  <1>4. Accounted(Holding', bitmap', free_frames')
    BY <1>2, <1>3, DropUse DEF FrameInv, pmm_free_pages
  <1> QED BY <1>1, <1>4, EmptyEntries DEF FrameInv, TableType, HolderType

(* A frame is taken for a table, ...                                       *)
LEMMA TakeTable ==
  ASSUME FrameInv, DirectoryType, NEW a \in Actor, NEW d, OwnDir(a, d), DirectoryOf(a)[d] = NoFrame,
         NEW f \in Frames, f # NoFrame, f \notin bitmap, mark_frame_used(f), SetDirectory(a, d, f),
         pte' = [pte EXCEPT ![f] = EmptyTable], UNCHANGED <<directory_frame, page>>
  PROVE  FrameInv' /\ Entries' = Entries
  <1>1. Tables' = [Tables EXCEPT ![a][d] = f] /\ Entries' = Entries
    BY NewTableView
  <1>2. d \in Nat /\ Tables[a][d] = NoFrame
    BY OwnDirs, TablesAt
  <1>3. PICK k \in Keys : k = Key("table", a, d) /\ Holding[k] = NoFrame
    BY <1>2, HoldingAt
  <1>4. Tables \in [Actor -> [Nat -> Frames]]
    BY ViewsTyped DEF FrameInv
  <1>5. Holding' = [Holding EXCEPT ![k] = f]
    <2>1. Update(Held(directory_frame, page, Tables, Entries), Held(directory_frame, page, Tables', Entries), k, f)
      BY ONLY <1>1, <1>2, <1>3, <1>4, a \in Actor, HeldTable
    <2>2. Update(Holding, Holding', k, f)
      BY <1>1, <2>1 DEF Holding
    <2> QED BY <2>2 DEF Update
  <1>6. Accounted(Holding', bitmap', free_frames')
    BY <1>3, <1>5, AddUse DEF FrameInv, mark_frame_used
  <1>7. TableType'
    BY EmptyEntries DEF FrameInv, TableType
  <1> QED BY <1>1, <1>6, <1>7 DEF FrameInv, HolderType

(* ... and given back when the table is empty.                             *)
LEMMA DropTable ==
  ASSUME FrameInv, DirectoryType, NEW a \in Actor, NEW d, OwnDir(a, d), NEW f, f = DirectoryOf(a)[d],
         f # NoFrame, pte[f] = EmptyTable, pmm_free_pages({f}),
         SetDirectory(a, d, NoFrame), UNCHANGED <<pte, directory_frame, page>>
  PROVE  FrameInv' /\ Entries' = Entries
  <1>1. Tables' = [Tables EXCEPT ![a][d] = NoFrame] /\ Entries' = Entries
    BY DropTableView
  <1>2. d \in Nat /\ Tables[a][d] = f
    BY OwnDirs, TablesAt
  <1>3. PICK k \in Keys : k = Key("table", a, d) /\ Holding[k] = f
    BY <1>2, HoldingAt
  <1>4. Tables \in [Actor -> [Nat -> Frames]]
    BY ViewsTyped DEF FrameInv
  <1>5. Holding' = [Holding EXCEPT ![k] = NoFrame]
    <2>1. Update(Held(directory_frame, page, Tables, Entries), Held(directory_frame, page, Tables', Entries), k, NoFrame)
      BY ONLY <1>1, <1>2, <1>3, <1>4, a \in Actor, HeldTable
    <2>2. Update(Holding, Holding', k, NoFrame)
      BY <1>1, <2>1 DEF Holding
    <2> QED BY <2>2 DEF Update
  <1>6. Accounted(Holding', bitmap', free_frames')
    BY <1>3, <1>5, DropUse DEF FrameInv, pmm_free_pages
  <1> QED BY <1>1, <1>6 DEF FrameInv, TableType, HolderType

(* The type of the tables when an entry is written.                        *)
LEMMA EntryWritten ==
  ASSUME FrameInv, DirectoryType, NEW a \in Actor, NEW va, OwnPage(a, va), NEW e \in Entry,
         NEW t, t = DirectoryOf(a)[directory_index(va)], pte' = [pte EXCEPT ![t][table_index(va)] = e]
  PROVE  TableType'
  <1>1. t \in Frames /\ table_index(va) \in Indexes
    BY OwnIndexes, DirectoryTyped
  <1> QED BY <1>1 DEF FrameInv, TableType

(* The frame in hand becomes a page, ...                                   *)
LEMMA HandToPage ==
  ASSUME FrameInv, DirectoryType, NEW a \in Actor, NEW va, OwnPage(a, va), NEW b \in Actor, page[b] # NoFrame,
         NEW e \in Entry, e.frame = page[b], Entries[a][va].frame = NoFrame,
         NEW t, t = DirectoryOf(a)[directory_index(va)], t # NoFrame,
         SameDirectories, pte' = [pte EXCEPT ![t][table_index(va)] = e],
         page' = [page EXCEPT ![b] = NoFrame], UNCHANGED <<directory_frame, bitmap, free_frames>>
  PROVE  FrameInv' /\ SetAt(Entries, Entries', a, va, e)
  <1>1. Tables' = Tables /\ Entries' = [Entries EXCEPT ![a][va] = e]
    BY ONLY FrameInv, DirectoryType, a \in Actor, OwnPage(a, va), e \in Entry,
            t = DirectoryOf(a)[directory_index(va)], t # NoFrame, SameDirectories,
            pte' = [pte EXCEPT ![t][table_index(va)] = e], EntryView
  <1>2. va \in Nat
    BY OwnIndexes
  <1>3. PICK k \in Keys : k = Key("hand", b, 0) /\ Holding[k] = page[b]
    BY HoldingAt
  <1>4. PICK l \in Keys : l = Key("page", a, va) /\ Holding[l] = NoFrame
    BY <1>2, HoldingAt
  <1>5. Entries \in [Actor -> [Nat -> Entry]]
    BY ViewsTyped DEF FrameInv
  <1>6. PICK h : h = Held(directory_frame, page', Tables, Entries)
    OBVIOUS
  <1>7. h = [Holding EXCEPT ![k] = NoFrame]
    <2>1. page \in [Actor -> Frames] /\ page' = [page EXCEPT ![b] = NoFrame]
      BY DEF FrameInv, HolderType
    <2>2. Update(Held(directory_frame, page, Tables, Entries), Held(directory_frame, page', Tables, Entries), k, NoFrame)
      BY ONLY <1>3, <2>1, b \in Actor, HeldHand
    <2>3. Update(Holding, h, k, NoFrame)
      BY <1>6, <2>2 DEF Holding
    <2> QED BY <2>3 DEF Update
  <1>8. Holding' = [h EXCEPT ![l] = page[b]]
    <2>1. Update(Held(directory_frame, page', Tables, Entries), Held(directory_frame, page', Tables, Entries'), l, e.frame)
      BY ONLY <1>1, <1>2, <1>4, <1>5, a \in Actor, e \in Entry, HeldPage
    <2>2. Update(h, Holding', l, e.frame)
      BY <1>1, <1>6, <2>1 DEF Holding
    <2> QED BY <2>2 DEF Update
  <1>9. Holding' = [Holding EXCEPT ![k] = NoFrame, ![l] = Holding[k]]
    BY <1>3, <1>7, <1>8
  <1>10. Accounted(Holding', bitmap, free_frames)
    BY <1>3, <1>4, <1>9, MoveUse DEF FrameInv
  <1> QED BY <1>1, <1>10, EntryWritten, EmptyEntries DEF FrameInv, HolderType, SetAt

(* ... and a page is given back.                                           *)
LEMMA DropPage ==
  ASSUME FrameInv, DirectoryType, NEW a \in Actor, NEW va, OwnPage(a, va),
         NEW f, f = EntryIn(DirectoryOf(a), va).frame, f # NoFrame, pmm_free_pages({f}),
         NEW t, t = DirectoryOf(a)[directory_index(va)],
         SameDirectories, pte' = [pte EXCEPT ![t][table_index(va)] = NotPresent],
         UNCHANGED <<directory_frame, page>>
  PROVE  FrameInv' /\ SetAt(Entries, Entries', a, va, NotPresent)
  <1>0. t # NoFrame
    <2>1. ASSUME t = NoFrame PROVE FALSE
      <3>1. EntryIn(DirectoryOf(a), va) = NotPresent
        BY <2>1 DEF EntryIn
      <3> QED BY <3>1, EmptyEntries
    <2> QED BY <2>1
  <1>1. Tables' = Tables /\ Entries' = [Entries EXCEPT ![a][va] = NotPresent]
    <2>1. PICK e \in Entry : e = NotPresent
      BY EmptyEntries
    <2>2. pte' = [pte EXCEPT ![t][table_index(va)] = e]
      BY <2>1
    <2>3. Tables' = Tables /\ Entries' = [Entries EXCEPT ![a][va] = e]
      BY ONLY FrameInv, DirectoryType, a \in Actor, OwnPage(a, va), t = DirectoryOf(a)[directory_index(va)],
              SameDirectories, <1>0, <2>2, e \in Entry, EntryView
    <2> QED BY <2>1, <2>3
  <1>2. va \in Nat /\ Entries[a][va].frame = f
    BY OwnIndexes, EntriesAt
  <1>3. PICK k \in Keys : k = Key("page", a, va) /\ Holding[k] = f
    BY <1>2, HoldingAt
  <1>4. Entries \in [Actor -> [Nat -> Entry]]
    BY ViewsTyped DEF FrameInv
  <1>5. Holding' = [Holding EXCEPT ![k] = NoFrame]
    <2>1. NotPresent \in Entry /\ NotPresent.frame = NoFrame
      BY EmptyEntries
    <2>2. Update(Held(directory_frame, page, Tables, Entries), Held(directory_frame, page, Tables, Entries'),
                 k, NotPresent.frame)
      BY ONLY <1>1, <1>2, <1>3, <1>4, <2>1, a \in Actor, HeldPage
    <2>3. Update(Holding, Holding', k, NoFrame)
      BY <1>1, <2>1, <2>2 DEF Holding
    <2> QED BY <2>3 DEF Update
  <1>6. Accounted(Holding', bitmap', free_frames')
    BY <1>3, <1>5, DropUse DEF FrameInv, pmm_free_pages
  <1> QED BY <1>1, <1>6, EntryWritten, EmptyEntries DEF FrameInv, HolderType, SetAt

(* The heap's pages end where the next one goes.                           *)
HeapInv == \A v \in Nat : v >= HeapNext => Entries[KernelSpace][v].frame = NoFrame

(* No table of the kernel lets user code in.                               *)
FlagInv ==
  /\ kernel_directory[0] = BootTable
  /\ \A d \in KernelDirs, i \in Indexes :
       kernel_directory[d] # NoFrame => pte[kernel_directory[d]][i].user = FALSE

(* A space's list has the pages that its tables map for the user.          *)
Listed(s) == {user_mappings[s][i] : i \in DOMAIN user_mappings[s]}
ListAt(s) ==
  /\ user_mappings[s] \in Seq(Nat)
  /\ \A v \in Nat : v \in Listed(s) <=> Entries[s][v].frame # NoFrame
  /\ \A v \in Nat : Entries[s][v].frame # NoFrame => Entries[s][v].user = TRUE
  /\ \A v \in Nat : Entries[s][v].frame = NoFrame => Entries[s][v].user = FALSE
  /\ \A i, j \in DOMAIN user_mappings[s] : user_mappings[s][i] = user_mappings[s][j] => i = j
  /\ user_page_count[s] = Len(user_mappings[s])

(* What is mapped where: the frames, the heap, the flags and the lists.    *)
PageInv == FrameInv /\ HeapInv /\ FlagInv /\ \A s \in Space : ListAt(s)

(* Parts of this that a step leaves alone.                                 *)
SameList(s) ==
  /\ user_mappings'[s] = user_mappings[s] /\ user_page_count'[s] = user_page_count[s]
  /\ \A v \in Nat : Entries'[s][v] = Entries[s][v]

LEMMA ListKept == ASSUME NEW s, ListAt(s), SameList(s) PROVE ListAt(s)'
  <1>1. user_mappings'[s] = user_mappings[s] /\ user_page_count'[s] = user_page_count[s]
    BY DEF SameList
  <1>2. Listed(s)' = Listed(s)
    BY <1>1 DEF Listed
  <1>3. \A v \in Nat : Entries'[s][v] = Entries[s][v]
    BY DEF SameList
  <1>4. PICK L : L = Listed(s)
    OBVIOUS
  <1>5. \A v \in Nat : v \in L <=> Entries'[s][v].frame # NoFrame
    BY <1>3, <1>4 DEF ListAt
  <1>6. /\ \A v \in Nat : Entries'[s][v].frame # NoFrame => Entries'[s][v].user = TRUE
        /\ \A v \in Nat : Entries'[s][v].frame = NoFrame => Entries'[s][v].user = FALSE
    BY <1>3 DEF ListAt
  <1>7. /\ user_mappings'[s] \in Seq(Nat) /\ user_page_count'[s] = Len(user_mappings'[s])
        /\ \A i, j \in DOMAIN user_mappings'[s] : user_mappings'[s][i] = user_mappings'[s][j] => i = j
    BY <1>1 DEF ListAt
  <1>8. Listed(s)' = L
    BY <1>2, <1>4
  <1> QED BY <1>5, <1>6, <1>7, <1>8 DEF ListAt

LEMMA HeapKept == ASSUME HeapInv, Entries' = Entries, UNCHANGED heap_pages PROVE HeapInv'
  <1>1. HeapNext' = HeapNext
    BY DEF HeapNext, HeapBase
  <1> QED BY <1>1 DEF HeapInv

LEMMA FlagsKept == ASSUME FlagInv, UNCHANGED <<pte, kernel_directory>> PROVE FlagInv'
  BY DEF FlagInv

LEMMA PagesKept ==
  ASSUME PageInv, FrameInv', Entries' = Entries, UNCHANGED <<pte, kernel_directory, heap_pages>>,
         \A s \in Space : user_mappings'[s] = user_mappings[s] /\ user_page_count'[s] = user_page_count[s]
  PROVE  PageInv'
  <1>1. ASSUME NEW s \in Space PROVE ListAt(s)'
    BY ListKept DEF PageInv, SameList
  <1> QED BY <1>1, HeapKept, FlagsKept DEF PageInv

(* Steps in which no frame changes its use.                                *)
LEMMA QuietPages ==
  ASSUME PageInv, UNCHANGED <<kernel_directory, pte, directory_frame, page, bitmap, free_frames, heap_pages,
                              user_mappings, user_page_count>>,
         \A x \in Space : \A d \in UserDirs : directory'[x][d] = directory[x][d]
  PROVE  PageInv'
  <1>1. SameDirectories
    BY QuietDirectories
  <1>2. FrameInv' /\ Entries' = Entries
    BY <1>1, SameFrames DEF PageInv
  <1> QED BY <1>2, PagesKept

(* Switches, scans, launches, and writes to pages that are mapped.         *)
LEMMA HaltPages == ASSUME PageInv, NEW why, Halt(why) PROVE PageInv'
  BY QuietPages DEF Halt, pmmVars, spaceVars, workVars

LEMMA DispatchPages == ASSUME MapInv, WorkInv, PageInv, NEW a \in Actor, Dispatch(a) PROVE PageInv'
  <1>1. UNCHANGED kernel_directory /\ address_space_switch(a)
    BY DEF Dispatch
  <1>2. \A x \in Space : (\A d \in UserDirs : directory'[x][d] = directory[x][d]) /\ Copied(x)'
    BY <1>1, SwitchAsSync, SyncedSpaces
  <1> QED BY <1>2, QuietPages DEF Dispatch, pmmVars, workVars

LEMMA ExitPages == ASSUME MapInv, WorkInv, PageInv, NEW s \in Space, NEW a \in Actor, Exit(s, a) PROVE PageInv'
  <1>1. UNCHANGED kernel_directory /\ address_space_switch(a)
    BY DEF Exit
  <1>2. \A x \in Space : (\A d \in UserDirs : directory'[x][d] = directory[x][d]) /\ Copied(x)'
    BY <1>1, SwitchAsSync, SyncedSpaces
  <1> QED BY <1>2, QuietPages DEF Exit, pmmVars, workVars

LEMMA ScanPages == ASSUME PageInv, NEW a \in Actor, Scan(a) PROVE PageInv'
  BY QuietPages DEF Scan, pmmVars, spaceVars, workVars

LEMMA LaunchPages ==
  ASSUME PageInv, NEW a \in Actor, NEW s \in Space, NEW cmd, NEW grow \in BOOLEAN, Launch(a, s, cmd, grow)
  PROVE  PageInv'
  BY QuietPages DEF Launch, pmmVars, spaceVars

LEMMA CollectPages == ASSUME PageInv, NEW a \in Actor, NEW s \in Space, Collect(a, s) PROVE PageInv'
  BY QuietPages DEF Collect, pmmVars, spaceVars

LEMMA FillPages == ASSUME MapInv, WorkInv, PageInv, NEW a \in Actor, Fill(a) PROVE PageInv'
  <1>1. CASE Halt("page fault")
    BY <1>1, HaltPages
  <1>2. CASE ~ Halt("page fault")
    <2>1. UNCHANGED kernel_directory /\ SwitchedTo(job[a], a)
      BY <1>2 DEF Fill
    <2>2. \A x \in Space : (\A d \in UserDirs : directory'[x][d] = directory[x][d]) /\ Copied(x)'
      BY <2>1, SyncedSpaces DEF SwitchedTo
    <2> QED BY <1>2, <2>2, QuietPages DEF Fill, pmmVars
  <1> QED BY <1>1, <1>2

LEMMA StartPages == ASSUME MapInv, WorkInv, PageInv, NEW a \in Actor, Start(a) PROVE PageInv'
  <1>1. CASE \E why : Halt(why)
    BY <1>1, HaltPages
  <1>2. CASE ~ \E why : Halt(why)
    <2>1. UNCHANGED kernel_directory /\ SwitchedTo(job[a], a)
      BY <1>2 DEF Start
    <2>2. \A x \in Space : (\A d \in UserDirs : directory'[x][d] = directory[x][d]) /\ Copied(x)'
      BY <2>1, SyncedSpaces DEF SwitchedTo
    <2> QED BY <1>2, <2>2, QuietPages DEF Start, pmmVars
  <1> QED BY <1>1, <1>2

(* A frame is taken for the heap or for a process.                         *)
LEMMA GrowPagePages == ASSUME WorkInv, PageInv, NEW a \in Actor, GrowPage(a) PROVE PageInv'
  <1>1. PICK f \in Frames : Take(a, "grow", f) /\ page' = [page EXCEPT ![a] = f]
    BY DEF GrowPage
  <1>2. /\ pc[a] = "grow" /\ f # NoFrame /\ f \notin bitmap
    BY <1>1, TakeParts DEF Allocating
  <1>3. page[a] = NoFrame
    BY <1>2 DEF WorkInv, WorkAt, Handing
  <1>4. UNCHANGED <<kernel_directory, directory, directory_frame, user_mappings, user_page_count, pte, heap_pages>>
    BY DEF GrowPage, spaceVars
  <1>5. SameDirectories
    BY <1>4, QuietDirectories
  <1>6. FrameInv' /\ Entries' = Entries
    BY <1>1, <1>2, <1>3, <1>4, <1>5, TakeInHand DEF PageInv, Take
  <1> QED BY <1>4, <1>6, PagesKept

LEMMA AllocPagePages == ASSUME WorkInv, PageInv, NEW a \in Actor, AllocPage(a) PROVE PageInv'
  <1>1. PICK f \in Frames : Take(a, "page", f) /\ page' = [page EXCEPT ![a] = f]
    BY DEF AllocPage
  <1>2. /\ pc[a] = "page" /\ f # NoFrame /\ f \notin bitmap
    BY <1>1, TakeParts DEF Allocating
  <1>3. page[a] = NoFrame
    BY <1>2 DEF WorkInv, WorkAt, Handing
  <1>4. UNCHANGED <<kernel_directory, directory, directory_frame, user_mappings, user_page_count, pte, heap_pages>>
    BY DEF AllocPage, spaceVars
  <1>5. SameDirectories
    BY <1>4, QuietDirectories
  <1>6. FrameInv' /\ Entries' = Entries
    BY <1>1, <1>2, <1>3, <1>4, <1>5, TakeInHand DEF PageInv, Take
  <1> QED BY <1>4, <1>6, PagesKept

(* A directory is taken, ...                                               *)
LEMMA CreatePages == ASSUME MapInv, WorkInv, PageInv, NEW a \in Actor, Create(a) PROVE PageInv'
  <1>1. CASE ~ Loadable(image[job[a]])
    BY <1>1, HaltPages DEF Create
  <1>2. CASE Loadable(image[job[a]])
    <2>1. PICK f \in Frames : Take(a, "create", f) /\ address_space_create(job[a], f)
      BY <1>2 DEF Create
    <2>2. pc[a] = "create" /\ f # NoFrame /\ f \notin bitmap
      BY <2>1, TakeParts DEF Allocating
    <2>3. PICK s \in Space : s = job[a] /\ WorkAt(a)
      BY <2>2, OwnJob
    <2>4. Blank(s)
      BY <2>2, <2>3 DEF WorkAt
    <2>5. /\ directory' = [directory EXCEPT ![s] = sync_kernel_mappings(EmptyDirectory)]
          /\ directory_frame' = [directory_frame EXCEPT ![s] = f]
          /\ user_mappings' = [user_mappings EXCEPT ![s] = <<>>]
          /\ user_page_count' = [user_page_count EXCEPT ![s] = 0]
      BY <2>1, <2>3 DEF address_space_create
    <2>6. UNCHANGED <<kernel_directory, pte, page, heap_pages>>
      BY <1>2 DEF Create
    <2>7. \A d \in UserDirs : sync_kernel_mappings(EmptyDirectory)[d] = NoFrame
      BY SyncedUser, Addresses DEF EmptyDirectory
    <2>8. directory'[s] = sync_kernel_mappings(EmptyDirectory) /\ \A x \in Space : x # s => directory'[x] = directory[x]
      BY <2>5 DEF MapInv, DirectoryType
    <2>9. \A x \in Space : \A d \in UserDirs : directory'[x][d] = directory[x][d]
      BY <2>4, <2>7, <2>8 DEF Blank
    <2>10. SameDirectories
      BY <2>6, <2>9, QuietDirectories
    <2>11. directory_frame[s] = NoFrame /\ mark_frame_used(f)
      BY <2>1, <2>4 DEF Blank, Take
    <2>12. FrameInv' /\ Entries' = Entries
      BY <2>2, <2>5, <2>6, <2>10, <2>11, TakeDirectory DEF PageInv
    <2>13. \A x \in Space : user_mappings'[x] = user_mappings[x] /\ user_page_count'[x] = user_page_count[x]
      BY <2>4, <2>5 DEF Blank, WorkInv, WorkType
    <2> QED BY <2>6, <2>12, <2>13, PagesKept
  <1> QED BY <1>1, <1>2

(* ... and given back.                                                     *)
LEMMA FreeDirectoryPages == ASSUME MapInv, WorkInv, PageInv, NEW a \in Actor, FreeDirectory(a) PROVE PageInv'
  <1>1. pc[a] = "unmap"
    BY DEF FreeDirectory
  <1>2. PICK s \in Space : s = job[a] /\ SpaceAt(s) /\ state[s] = "dying"
    BY <1>1, OwnJob
  <1>3. /\ directory' = [directory EXCEPT ![s] = EmptyDirectory] /\ user_mappings[s] = <<>>
        /\ UserTables(s) = {} /\ pmm_free_pages({directory_frame[s]})
        /\ directory_frame' = [directory_frame EXCEPT ![s] = NoFrame]
        /\ user_page_count' = [user_page_count EXCEPT ![s] = 0]
        /\ UNCHANGED <<kernel_directory, user_mappings, pte, page, heap_pages>>
    BY <1>2 DEF FreeDirectory
  <1>4. directory_frame[s] # NoFrame
    BY <1>2 DEF SpaceAt, Made
  <1>5. \A d \in UserDirs : directory[s][d] = NoFrame /\ EmptyDirectory[d] = NoFrame
    BY <1>3, Addresses DEF UserTables, EmptyDirectory
  <1>6. directory'[s] = EmptyDirectory /\ \A x \in Space : x # s => directory'[x] = directory[x]
    BY <1>3 DEF MapInv, DirectoryType
  <1>7. \A x \in Space : \A d \in UserDirs : directory'[x][d] = directory[x][d]
    BY <1>5, <1>6
  <1>8. SameDirectories
    BY <1>3, <1>7, QuietDirectories
  <1>9. FrameInv' /\ Entries' = Entries
    BY <1>3, <1>4, <1>8, DropDirectory DEF PageInv
  <1>10. user_page_count[s] = 0
    <2>1. user_page_count[s] = Len(user_mappings[s])
      BY DEF PageInv, ListAt
    <2> QED BY <1>3, <2>1
  <1>11. \A x \in Space : user_mappings'[x] = user_mappings[x] /\ user_page_count'[x] = user_page_count[x]
    BY <1>3, <1>10 DEF WorkInv, WorkType
  <1> QED BY <1>3, <1>9, <1>11, PagesKept

-----------------------------------------------------------------------------
(* The kernel's tables are marked used, and no process has one.            *)
LEMMA KernelTables ==
  ASSUME FrameInv, DirectoryType, FlagInv, NEW d \in KernelDirs, kernel_directory[d] # NoFrame
  PROVE  /\ kernel_directory[d] \in Frames /\ kernel_directory[d] \in bitmap
         /\ \A s \in Space, e \in UserDirs : directory[s][e] # kernel_directory[d]
  <1>1. KernelSpace \in Actor /\ DirectoryOf(KernelSpace) = kernel_directory
    BY DEF Actor, DirectoryOf
  <1>2. ASSUME NEW s \in Space, NEW e \in UserDirs
        PROVE  s \in Actor /\ OwnDir(s, e) /\ DirectoryOf(s) = directory[s] /\ s # KernelSpace
    BY SpaceAssumption DEF Actor, OwnDir, DirectoryOf
  <1>3. CASE d = 0
    <2>1. kernel_directory[d] = BootTable /\ BootTable \in Frames /\ BootTable \notin Usable
      BY <1>3, SpaceAssumption DEF FlagInv
    <2>2. BootTable \in bitmap
      BY <2>1 DEF FrameInv, Accounted
    <2>3. ASSUME NEW s \in Space, NEW e \in UserDirs, directory[s][e] # NoFrame
          PROVE  directory[s][e] \in Usable
      BY <1>2, <2>3, TablesApart
    <2> QED BY <2>1, <2>2, <2>3
  <1>4. CASE d # 0
    <2>1. OwnDir(KernelSpace, d)
      BY <1>4 DEF OwnDir
    <2>2. /\ kernel_directory[d] \in Frames /\ kernel_directory[d] \in bitmap
          /\ \A b \in Actor : \A e : OwnDir(b, e) /\ DirectoryOf(b)[e] = kernel_directory[d] => b = KernelSpace
      BY <1>1, <2>1, TablesApart
    <2> QED BY <1>2, <2>2
  <1> QED BY <1>3, <1>4

(* A new table is empty: it lets nobody in.                                *)
LEMMA FlagsNewTable ==
  ASSUME FrameInv, DirectoryType, FlagInv, NEW f \in Frames, f \notin bitmap, pte' = [pte EXCEPT ![f] = EmptyTable],
         \A d \in KernelDirs : kernel_directory'[d] = kernel_directory[d] \/ (d # 0 /\ kernel_directory'[d] = f)
  PROVE  FlagInv'
  <1>1. \A g \in Frames : pte'[g] = IF g = f THEN EmptyTable ELSE pte[g]
    BY DEF FrameInv, TableType
  <1>2. \A i \in Indexes : EmptyTable[i].user = FALSE
    BY EmptyEntries
  <1>3. \A d \in KernelDirs : kernel_directory[d] # NoFrame => kernel_directory[d] \in Frames
    BY KernelTables
  <1>4. kernel_directory'[0] = BootTable
    BY Addresses DEF FlagInv
  <1>5. ASSUME NEW d \in KernelDirs, NEW i \in Indexes, kernel_directory'[d] # NoFrame
        PROVE  pte'[kernel_directory'[d]][i].user = FALSE
    <2>1. CASE kernel_directory'[d] = f
      BY <1>1, <1>2, <2>1
    <2>2. CASE kernel_directory'[d] # f
      BY <1>1, <1>3, <1>5, <2>2 DEF FlagInv
    <2> QED BY <2>1, <2>2
  <1> QED BY <1>4, <1>5 DEF FlagInv

(* An entry is written that lets nobody in, or in no table of the kernel.  *)
LEMMA FlagsWritten ==
  ASSUME FrameInv, DirectoryType, FlagInv, NEW t \in Frames, NEW j \in Indexes, NEW e \in Entry,
         pte' = [pte EXCEPT ![t][j] = e], UNCHANGED kernel_directory,
         e.user = FALSE \/ \A d \in KernelDirs : kernel_directory[d] # NoFrame => kernel_directory[d] # t
  PROVE  FlagInv'
  <1>1. \A g \in Frames, i \in Indexes : pte'[g][i] = IF g = t /\ i = j THEN e ELSE pte[g][i]
    BY DEF FrameInv, TableType
  <1>2. \A d \in KernelDirs : kernel_directory[d] # NoFrame => kernel_directory[d] \in Frames
    BY KernelTables
  <1> QED BY <1>1, <1>2 DEF FlagInv

(* A table is taken for the heap or for a process, ...                     *)
LEMMA GrowTablePages == ASSUME MapInv, WorkInv, PageInv, NEW a \in Actor, GrowTable(a) PROVE PageInv'
  <1>1. PICK d : d = directory_index(HeapNext)
    OBVIOUS
  <1>2. PICK f \in Frames : /\ Take(a, "grow_table", f) /\ kernel_directory' = [kernel_directory EXCEPT ![d] = f]
                            /\ pte' = [pte EXCEPT ![f] = EmptyTable]
    BY <1>1 DEF GrowTable, vmm_create_table
  <1>3. /\ a = current_space /\ pc[a] = "grow_table" /\ f # NoFrame /\ f \notin bitmap
    BY <1>2, TakeParts DEF Allocating
  <1>4. UNCHANGED <<directory, directory_frame, user_mappings, user_page_count, page, heap_pages>>
    BY DEF GrowTable, spaceVars, workVars
  <1>5. heap_pages \in Nat /\ heap_pages < MaxHeapPages
    BY <1>3 DEF WorkInv, WorkType, WorkAt, Growing
  <1>6. d \in KernelDirs /\ d # 0 /\ d \in Dirs
    BY <1>1, <1>5, HeapAddress
  <1>7. kernel_directory[d] = NoFrame
    BY <1>1, <1>3 DEF MapInv, GrowInv
  <1>8. DirectoryType
    BY DEF MapInv
  <1>9. /\ KernelSpace \in Actor /\ OwnDir(KernelSpace, d) /\ DirectoryOf(KernelSpace) = kernel_directory
        /\ SetDirectory(KernelSpace, d, f)
    BY <1>2, <1>4, <1>6, <1>8, SetKernelDirectory
  <1>10. FrameInv' /\ Entries' = Entries
    BY <1>2, <1>3, <1>4, <1>7, <1>8, <1>9, TakeTable DEF PageInv, Take
  <1>11. \A e \in KernelDirs : kernel_directory'[e] = kernel_directory[e] \/ (e # 0 /\ kernel_directory'[e] = f)
    BY <1>2, <1>6, <1>8, DirsKernel DEF DirectoryType
  <1>12. FlagInv'
    BY <1>2, <1>3, <1>8, <1>11, FlagsNewTable DEF PageInv
  <1>13. ASSUME NEW s \in Space PROVE ListAt(s)'
    BY <1>4, <1>10, ListKept DEF PageInv, SameList
  <1> QED BY <1>4, <1>10, <1>12, <1>13, HeapKept DEF PageInv

LEMMA AllocTablePages == ASSUME MapInv, WorkInv, PageInv, NEW a \in Actor, AllocTable(a) PROVE PageInv'
  <1>1. PICK f \in Frames : Take(a, "table", f) /\ create_table(job[a], cursor[a], f)
    BY DEF AllocTable
  <1>2. a = current_space /\ pc[a] = "table" /\ f # NoFrame /\ f \notin bitmap
    BY <1>1, TakeParts DEF Allocating
  <1>3. PICK s \in Space : s = job[a] /\ SpaceAt(s) /\ WorkAt(a) /\ state[s] = "loading"
    BY <1>2, OwnJob DEF Loading
  <1>4. PICK d \in UserDirs : d = directory_index(cursor[a])
    BY <1>2, <1>3, CursorPage
  <1>5. /\ directory' = [directory EXCEPT ![s][d] = f] /\ pte' = [pte EXCEPT ![f] = EmptyTable]
        /\ UNCHANGED <<kernel_directory, directory_frame, user_mappings, user_page_count, page, heap_pages>>
    BY <1>1, <1>3, <1>4 DEF AllocTable, create_table, workVars
  <1>6. directory[s][d] = NoFrame
    BY <1>2, <1>3, <1>4 DEF WorkAt
  <1>7. DirectoryType
    BY DEF MapInv
  <1>8. s \in Actor /\ OwnDir(s, d) /\ DirectoryOf(s) = directory[s] /\ SetDirectory(s, d, f)
    BY <1>5, <1>7, SetUserDirectory
  <1>9. FrameInv' /\ Entries' = Entries
    BY <1>1, <1>2, <1>5, <1>6, <1>7, <1>8, TakeTable DEF PageInv, Take
  <1>10. FlagInv'
    BY <1>2, <1>5, <1>7, FlagsNewTable DEF PageInv
  <1>11. ASSUME NEW x \in Space PROVE ListAt(x)'
    BY <1>5, <1>9, ListKept DEF PageInv, SameList
  <1> QED BY <1>5, <1>9, <1>10, <1>11, HeapKept DEF PageInv

(* ... and given back.                                                     *)
LEMMA FreeTablePages == ASSUME MapInv, WorkInv, PageInv, NEW a \in Actor, FreeTable(a) PROVE PageInv'
  <1>1. CASE Halt("destroy")
    BY <1>1, HaltPages
  <1>2. CASE ~ Halt("destroy")
    <2>1. pc[a] = "unmap"
      BY DEF FreeTable
    <2>2. PICK s \in Space : s = job[a]
      BY <2>1, OwnJob
    <2>3. PICK d \in UserDirs :
            /\ directory[s][d] # NoFrame /\ pte[directory[s][d]] = EmptyTable
            /\ directory' = [directory EXCEPT ![s][d] = NoFrame] /\ pmm_free_pages({directory[s][d]})
            /\ UNCHANGED <<kernel_directory, directory_frame, user_mappings, user_page_count, pte, page, heap_pages>>
      BY <1>2, <2>2 DEF FreeTable, UserTables, workVars
    <2>4. DirectoryType
      BY DEF MapInv
    <2>5. s \in Actor /\ OwnDir(s, d) /\ DirectoryOf(s) = directory[s] /\ SetDirectory(s, d, NoFrame)
      BY <2>3, <2>4, SetUserDirectory
    <2>6. PICK f : f = directory[s][d]
      OBVIOUS
    <2>7. FrameInv' /\ Entries' = Entries
      BY <2>3, <2>4, <2>5, <2>6, DropTable DEF PageInv
    <2> QED BY <2>3, <2>7, PagesKept
  <1> QED BY <1>1, <1>2

(* What mapping_add and mapping_remove do to a list.                       *)
LEMMA Prepended ==
  ASSUME NEW L \in Seq(Nat), NEW v \in Nat
  PROVE  /\ <<v>> \o L \in Seq(Nat) /\ Len(<<v>> \o L) = Len(L) + 1 /\ (<<v>> \o L)[1] = v
         /\ \A i \in 1..Len(L) : (<<v>> \o L)[i + 1] = L[i]
  OBVIOUS

LEMMA RemovedFirst ==
  ASSUME NEW L \in Seq(Nat), L # <<>>
  PROVE  mapping_remove(L, Head(L)) = Tail(L)
  <1>1. Len(L) \in Nat \ {0} /\ DOMAIN L = 1..Len(L) /\ Head(L) = L[1]
    OBVIOUS
  <1> DEFINE P(i) == L[i] = Head(L) /\ \A j \in 1..(i - 1) : L[j] # Head(L)
             first == CHOOSE i \in DOMAIN L : P(i)
  <1>2. \A i \in DOMAIN L : P(i) <=> i = 1
    BY <1>1
  <1>3. first = 1
    <2>1. \E i \in DOMAIN L : P(i)
      BY <1>1, <1>2
    <2> HIDE DEF P
    <2>2. first \in DOMAIN L /\ P(first)
      BY <2>1
    <2> QED BY <1>2, <2>2
  <1>4. mapping_remove(L, Head(L)) = SubSeq(L, 1, 0) \o SubSeq(L, 2, Len(L))
    <2>1. mapping_remove(L, Head(L)) = SubSeq(L, 1, first - 1) \o SubSeq(L, first + 1, Len(L))
      <3>1. ~ \A i \in DOMAIN L : L[i] # Head(L)
        BY <1>1
      <3> QED BY <3>1 DEF mapping_remove
    <2> HIDE DEF first
    <2> QED BY <1>3, <2>1
  <1>5. SubSeq(L, 1, 0) = <<>>
    BY <1>1
  <1>6. SubSeq(L, 2, Len(L)) = Tail(L) /\ Tail(L) \in Seq(Nat)
    BY <1>1
  <1>7. ASSUME NEW T \in Seq(Nat) PROVE <<>> \o T = T
    OBVIOUS
  <1> QED BY <1>4, <1>5, <1>6, <1>7

LEMMA TailElements ==
  ASSUME NEW L \in Seq(Nat), L # <<>>
  PROVE  /\ Tail(L) \in Seq(Nat) /\ Len(Tail(L)) = Len(L) - 1 /\ Len(L) \in Nat \ {0}
         /\ \A i \in 1..(Len(L) - 1) : Tail(L)[i] = L[i + 1]
  OBVIOUS

(* A page is added to a space, ...                                         *)
LEMMA ListAdd ==
  ASSUME NEW s \in Space, ListAt(s), NEW va \in Nat, Entries[s][va].frame = NoFrame,
         user_mappings'[s] = <<va>> \o user_mappings[s], user_page_count'[s] = user_page_count[s] + 1,
         NEW e, e.frame # NoFrame, e.user = TRUE,
         \A v \in Nat : Entries'[s][v] = IF v = va THEN e ELSE Entries[s][v]
  PROVE  ListAt(s)'
  <1>1. PICK L \in Seq(Nat) : L = user_mappings[s]
    BY DEF ListAt
  <1>2. PICK M : M = <<va>> \o L
    OBVIOUS
  <1>3. /\ M \in Seq(Nat) /\ Len(M) = Len(L) + 1 /\ M[1] = va
        /\ \A i \in 1..Len(L) : M[i + 1] = L[i]
    BY <1>2, Prepended
  <1>4. Len(L) \in Nat /\ DOMAIN L = 1..Len(L) /\ DOMAIN M = 1..(Len(L) + 1)
    BY <1>3
  <1>5. \A j \in DOMAIN M : j = 1 \/ (j - 1 \in DOMAIN L /\ M[j] = L[j - 1])
    <2> TAKE j \in DOMAIN M
    <2>1. CASE j # 1
      <3>1. j - 1 \in 1..Len(L) /\ (j - 1) + 1 = j
        BY <1>4, <2>1
      <3> QED BY <1>3, <1>4, <3>1
    <2> QED BY <2>1
  <1>6. Listed(s)' = {M[i] : i \in DOMAIN M} /\ Listed(s) = {L[i] : i \in DOMAIN L}
    BY <1>1, <1>2 DEF Listed
  <1>7. \A v : v \in Listed(s)' <=> v = va \/ v \in Listed(s)
    <2>1. ASSUME NEW i \in DOMAIN L PROVE i + 1 \in DOMAIN M /\ M[i + 1] = L[i]
      <3>1. i \in 1..Len(L) /\ i + 1 \in 1..(Len(L) + 1)
        BY <1>4
      <3> QED BY <1>3, <1>4, <3>1
    <2>2. 1 \in DOMAIN M
      BY <1>4
    <2>3. ASSUME NEW v \in Listed(s)' PROVE v = va \/ v \in Listed(s)
      <3>1. PICK j \in DOMAIN M : v = M[j]
        BY <1>6, <2>3
      <3>2. CASE j = 1
        BY <1>3, <3>1, <3>2
      <3>3. CASE j - 1 \in DOMAIN L /\ M[j] = L[j - 1]
        BY <1>6, <3>1, <3>3
      <3> QED BY <1>5, <3>2, <3>3
    <2>4. ASSUME NEW v \in Listed(s) PROVE v \in Listed(s)'
      <3>1. PICK i \in DOMAIN L : v = L[i]
        BY <1>6, <2>4
      <3> QED BY <1>6, <2>1, <3>1
    <2>5. va \in Listed(s)'
      BY <1>3, <1>6, <2>2
    <2> QED BY <2>3, <2>4, <2>5
  <1>8. va \notin Listed(s)
    BY DEF ListAt
  <1>9. \A i \in DOMAIN L : L[i] # va
    BY <1>6, <1>8
  <1>10. \A i, j \in DOMAIN M : M[i] = M[j] => i = j
    <2>1. \A i, j \in DOMAIN L : L[i] = L[j] => i = j
      BY <1>1 DEF ListAt
    <2> SUFFICES ASSUME NEW i \in DOMAIN M, NEW j \in DOMAIN M, M[i] = M[j] PROVE i = j
      OBVIOUS
    <2>2. i \in Nat /\ j \in Nat
      BY <1>4
    <2>3. CASE i = 1 \/ j = 1
      BY <1>3, <1>5, <1>9, <2>3
    <2>4. CASE i # 1 /\ j # 1
      <3>1. i - 1 = j - 1
        BY <1>5, <2>1, <2>4
      <3> QED BY <2>2, <3>1
    <2> QED BY <2>3, <2>4
  <1>11. user_page_count'[s] = Len(M) /\ user_mappings'[s] = M
    BY <1>1, <1>2, <1>3 DEF ListAt
  <1>12. \A v \in Nat : v \in Listed(s)' <=> Entries'[s][v].frame # NoFrame
    BY <1>7 DEF ListAt
  <1>13. \A v \in Nat : /\ Entries'[s][v].frame # NoFrame => Entries'[s][v].user = TRUE
                        /\ Entries'[s][v].frame = NoFrame => Entries'[s][v].user = FALSE
    BY DEF ListAt
  <1> QED BY <1>3, <1>10, <1>11, <1>12, <1>13 DEF ListAt

(* ... or its newest one taken out.                                        *)
LEMMA ListRemove ==
  ASSUME NEW s \in Space, ListAt(s), user_mappings[s] # <<>>, NEW va, va = Head(user_mappings[s]),
         user_mappings'[s] = mapping_remove(user_mappings[s], va),
         user_page_count'[s] = (IF user_page_count[s] > 0 THEN user_page_count[s] - 1 ELSE 0),
         \A v \in Nat : Entries'[s][v] = IF v = va THEN NotPresent ELSE Entries[s][v]
  PROVE  ListAt(s)'
  <1>1. PICK L \in Seq(Nat) : L = user_mappings[s]
    BY DEF ListAt
  <1>2. PICK M : M = Tail(L)
    OBVIOUS
  <1>3. /\ M \in Seq(Nat) /\ Len(M) = Len(L) - 1 /\ Len(L) \in Nat \ {0}
        /\ \A i \in 1..(Len(L) - 1) : M[i] = L[i + 1]
    BY <1>1, <1>2, TailElements
  <1>4. user_mappings'[s] = M
    BY <1>1, <1>2, RemovedFirst
  <1>5. DOMAIN L = 1..Len(L) /\ DOMAIN M = 1..(Len(L) - 1) /\ va = L[1] /\ 1 \in DOMAIN L
    BY <1>1, <1>3
  <1>6. \A i \in DOMAIN M : i \in Nat /\ i + 1 \in DOMAIN L /\ M[i] = L[i + 1] /\ i + 1 # 1
    <2> TAKE i \in DOMAIN M
    <2>1. i \in 1..(Len(L) - 1)
      BY <1>5
    <2>2. i \in Nat /\ i + 1 \in 1..Len(L) /\ i + 1 # 1
      <3>1. PICK n \in Nat \ {0} : n = Len(L)
        BY <1>3
      <3>2. i \in 1..(n - 1)
        BY <2>1, <3>1
      <3>3. i \in Nat /\ i + 1 \in 1..n /\ i + 1 # 1
        BY ONLY n \in Nat \ {0}, <3>2
      <3> QED BY <3>1, <3>3
    <2> QED BY <1>3, <1>5, <2>1, <2>2
  <1>7. \A j \in DOMAIN L : j # 1 => j - 1 \in DOMAIN M /\ M[j - 1] = L[j]
    <2> SUFFICES ASSUME NEW j \in DOMAIN L, j # 1 PROVE j - 1 \in DOMAIN M /\ M[j - 1] = L[j]
      OBVIOUS
    <2>0. j \in 1..Len(L)
      BY <1>5
    <2>1. j - 1 \in 1..(Len(L) - 1) /\ (j - 1) + 1 = j
      BY ONLY <1>3, <2>0, j # 1
    <2> QED BY <1>3, <1>5, <2>1
  <1>8. \A i, j \in DOMAIN L : L[i] = L[j] => i = j
    BY <1>1 DEF ListAt
  <1>9. Listed(s)' = {M[i] : i \in DOMAIN M} /\ Listed(s) = {L[i] : i \in DOMAIN L}
    BY <1>1, <1>4 DEF Listed
  <1>10. \A v : v \in Listed(s)' <=> v # va /\ v \in Listed(s)
    <2>1. ASSUME NEW v \in Listed(s)' PROVE v # va /\ v \in Listed(s)
      <3>1. PICK i \in DOMAIN M : v = M[i]
        BY <1>9, <2>1
      <3>2. PICK j \in DOMAIN L : j = i + 1 /\ v = L[j] /\ j # 1
        BY <1>6, <3>1
      <3> QED BY <1>5, <1>8, <1>9, <3>2
    <2>2. ASSUME NEW v \in Listed(s), v # va PROVE v \in Listed(s)'
      <3>1. PICK j \in DOMAIN L : v = L[j]
        BY <1>9, <2>2
      <3>2. j # 1
        BY <1>5, <2>2, <3>1
      <3> QED BY <1>7, <1>9, <3>1, <3>2
    <2> QED BY <2>1, <2>2
  <1>11. \A i, j \in DOMAIN M : M[i] = M[j] => i = j
    <2> SUFFICES ASSUME NEW i \in DOMAIN M, NEW j \in DOMAIN M, M[i] = M[j] PROVE i = j
      OBVIOUS
    <2>1. i \in Nat /\ j \in Nat /\ i + 1 = j + 1
      BY <1>6, <1>8
    <2> QED BY <2>1
  <1>12. user_page_count'[s] = Len(M)
    <2>1. user_page_count[s] = Len(L)
      BY <1>1 DEF ListAt
    <2> QED BY <1>3, <2>1
  <1>13. \A v \in Nat : v \in Listed(s)' <=> Entries'[s][v].frame # NoFrame
    BY <1>10, EmptyEntries DEF ListAt
  <1>14. \A v \in Nat : /\ Entries'[s][v].frame # NoFrame => Entries'[s][v].user = TRUE
                        /\ Entries'[s][v].frame = NoFrame => Entries'[s][v].user = FALSE
    BY EmptyEntries DEF ListAt
  <1> QED BY <1>3, <1>4, <1>11, <1>12, <1>13, <1>14 DEF ListAt

(* One entry of one space changes.                                         *)
LEMMA EntriesSet ==
  ASSUME FrameInv, DirectoryType, NEW a \in Actor, NEW va \in Nat, NEW e, SetAt(Entries, Entries', a, va, e)
  PROVE  \A b \in Actor, v \in Nat : Entries'[b][v] = IF b = a /\ v = va THEN e ELSE Entries[b][v]
  <1>1. Entries \in [Actor -> [Nat -> Entry]]
    BY ViewsTyped DEF FrameInv
  <1> QED BY <1>1 DEF SetAt

(* A page table entry, as it is written.                                   *)
LEMMA EntryOf ==
  ASSUME NEW f \in Frames, NEW u \in BOOLEAN
  PROVE  /\ [frame |-> f, user |-> u] \in Entry
         /\ [frame |-> f, user |-> u].frame = f /\ [frame |-> f, user |-> u].user = u
  BY DEF Entry

(* The heap gets a page, which user code cannot reach.                     *)
LEMMA GrowMapPages == ASSUME MapInv, WorkInv, PageInv, NEW a \in Actor, GrowMap(a) PROVE PageInv'
  <1>1. CASE DirectoryOf(a)[directory_index(HeapNext)] = NoFrame
    BY <1>1, HaltPages DEF GrowMap
  <1>2. CASE DirectoryOf(a)[directory_index(HeapNext)] # NoFrame
    <2>1. pc[a] = "grow_map" /\ WorkAt(a)
      BY DEF GrowMap, WorkInv
    <2>2. heap_pages \in Nat /\ heap_pages < MaxHeapPages /\ page[a] # NoFrame /\ page[a] \in Frames
      BY <2>1 DEF WorkInv, WorkType, WorkAt, Growing, Handing
    <2>3. PICK va \in Nat : va = HeapNext
      BY <2>2, HeapAddress
    <2>4. OwnPage(KernelSpace, va) /\ KernelSpace \in Actor /\ table_index(va) \in Indexes
      BY <2>2, <2>3, HeapAddress DEF Actor
    <2>5. PICK e \in Entry : e = [frame |-> page[a], user |-> FALSE] /\ e.frame = page[a] /\ e.user = FALSE
      BY <2>2, EntryOf
    <2>6. PICK t : t = DirectoryOf(KernelSpace)[directory_index(va)]
      OBVIOUS
    <2>7. t = kernel_directory[directory_index(va)] /\ t # NoFrame
      BY <2>1, <2>3, <2>6 DEF WorkAt, DirectoryOf
    <2>8. /\ pte' = [pte EXCEPT ![t][table_index(va)] = e] /\ page' = [page EXCEPT ![a] = NoFrame]
          /\ heap_pages' = heap_pages + 1
          /\ UNCHANGED <<bitmap, free_frames, kernel_directory, directory, directory_frame, user_mappings,
                         user_page_count>>
      BY <1>2, <2>3, <2>5, <2>7 DEF GrowMap, vmm_map_page, pmmVars, spaceVars
    <2>9. SameDirectories
      BY <2>8, QuietDirectories
    <2>10. DirectoryType /\ FrameInv
      BY DEF MapInv, PageInv
    <2>11. Entries[KernelSpace][va].frame = NoFrame
      BY <2>3 DEF PageInv, HeapInv
    <2>12. FrameInv' /\ SetAt(Entries, Entries', KernelSpace, va, e)
      BY <2>2, <2>4, <2>5, <2>6, <2>7, <2>8, <2>9, <2>10, <2>11, HandToPage
    <2>13. \A b \in Actor, v \in Nat : Entries'[b][v] = IF b = KernelSpace /\ v = va THEN e ELSE Entries[b][v]
      BY <2>4, <2>10, <2>12, EntriesSet
    <2>14. HeapInv'
      <3>1. PICK P \in Nat \ {0} : P = PageSize
        BY Sizes
      <3>2. HeapNext' = va + P
        <4>1. PICK h \in Nat, B \in Nat : h = heap_pages /\ B = HeapBase
          BY <2>2, Addresses DEF HeapBase, Word
        <4>2. (h + 1) * P = h * P + P /\ h * P \in Nat
          BY ONLY h \in Nat, P \in Nat
        <4>3. B + (h + 1) * P = (B + h * P) + P
          BY ONLY <4>2, B \in Nat, P \in Nat, (h + 1) * P \in Nat
        <4> QED BY <2>3, <2>8, <3>1, <4>1, <4>3 DEF HeapNext, HeapBase
      <3>3. \A v \in Nat : v >= va + P => v # va /\ v >= va
        OBVIOUS
      <3> QED BY <2>3, <2>4, <2>13, <3>2, <3>3 DEF PageInv, HeapInv
    <2>15. FlagInv'
      <3>1. t \in Frames
        BY <2>4, <2>6, <2>10, DirectoryTyped, OwnIndexes
      <3> QED BY <2>4, <2>5, <2>8, <2>10, <3>1, FlagsWritten DEF PageInv
    <2>16. ASSUME NEW x \in Space PROVE ListAt(x)'
      <3>1. x \in Actor /\ x # KernelSpace
        BY SpaceAssumption DEF Actor
      <3> QED BY <2>8, <2>13, <3>1, ListKept DEF PageInv, SameList
    <2> QED BY <2>12, <2>14, <2>15, <2>16 DEF PageInv
  <1> QED BY <1>1, <1>2

(* A step that changes the entry of one page of one process.               *)
LEMMA UserPageStep ==
  ASSUME PageInv, DirectoryType, NEW s \in Space, NEW va \in Nat, OwnPage(s, va), NEW e \in Entry,
         NEW t, t = directory[s][directory_index(va)], t # NoFrame, UNCHANGED <<kernel_directory, heap_pages>>,
         pte' = [pte EXCEPT ![t][table_index(va)] = e], FrameInv', SetAt(Entries, Entries', s, va, e), ListAt(s)',
         \A x \in Space : x # s => user_mappings'[x] = user_mappings[x] /\ user_page_count'[x] = user_page_count[x]
  PROVE  PageInv'
  <1>1. s \in Actor /\ s # KernelSpace /\ KernelSpace \in Actor
    BY SpaceAssumption DEF Actor
  <1>2. \A b \in Actor, v \in Nat : Entries'[b][v] = IF b = s /\ v = va THEN e ELSE Entries[b][v]
    BY <1>1, EntriesSet DEF PageInv
  <1>3. HeapInv'
    BY <1>1, <1>2 DEF PageInv, HeapInv, HeapNext
  <1>4. ASSUME NEW x \in Space PROVE ListAt(x)'
    <2>1. CASE x # s
      <3>1. x \in Actor
        BY DEF Actor
      <3> QED BY <1>2, <2>1, <3>1, ListKept DEF PageInv, SameList
    <2> QED BY <2>1
  <1>5. FlagInv'
    <2>1. table_index(va) \in Indexes /\ directory_index(va) \in UserDirs /\ directory_index(va) \in Dirs
      BY <1>1, OwnIndexes DEF OwnDir
    <2>2. t \in Frames
      BY <2>1 DEF DirectoryType
    <2>3. \A d \in KernelDirs : kernel_directory[d] # NoFrame => kernel_directory[d] # t
      BY <2>1, KernelTables DEF PageInv
    <2> QED BY <2>1, <2>2, <2>3, FlagsWritten DEF PageInv
  <1> QED BY <1>3, <1>4, <1>5 DEF PageInv

(* A process gets a page, and its list with it; ...                        *)
LEMMA MapPagePages == ASSUME MapInv, WorkInv, PageInv, NEW a \in Actor, MapPage(a) PROVE PageInv'
  <1>1. CASE Halt("load failed")
    BY <1>1, HaltPages
  <1>2. CASE ~ Halt("load failed")
    <2>1. pc[a] = "map"
      BY DEF MapPage
    <2>2. PICK s \in Space : s = job[a] /\ state[s] = "loading" /\ WorkAt(a)
      BY <2>1, OwnJob DEF Loading
    <2>3. PICK va \in Nat : va = cursor[a] /\ va \in Pages /\ user_virtual_allowed(va)
      BY <2>1, <2>2, CursorPage
    <2>4. s \in Actor /\ s # KernelSpace /\ DirectoryOf(s) = directory[s]
      BY SpaceAssumption DEF Actor, DirectoryOf
    <2>5. OwnPage(s, va) /\ table_index(va) \in Indexes
      BY <2>3, <2>4, OwnIndexes DEF OwnPage
    <2>6. page[a] # NoFrame /\ page[a] \in Frames
      BY <2>1, <2>2 DEF WorkInv, WorkType, WorkAt, Handing
    <2>7. PICK e \in Entry : e = [frame |-> page[a], user |-> TRUE] /\ e.frame = page[a] /\ e.user = TRUE
      BY <2>6, EntryOf
    <2>8. PICK t : t = directory[s][directory_index(va)] /\ t # NoFrame
      BY <2>1, <2>2, <2>3 DEF WorkAt
    <2>9. /\ EntryIn(directory[s], va) = NotPresent
          /\ pte' = [pte EXCEPT ![t][table_index(va)] = e] /\ page' = [page EXCEPT ![a] = NoFrame]
          /\ user_mappings' = [user_mappings EXCEPT ![s] = <<va>> \o @]
          /\ user_page_count' = [user_page_count EXCEPT ![s] = @ + 1]
          /\ UNCHANGED <<bitmap, free_frames, kernel_directory, directory, directory_frame, heap_pages>>
      BY <1>2, <2>2, <2>3, <2>7, <2>8 DEF MapPage, map_page, pmmVars
    <2>10. SameDirectories
      BY <2>9, QuietDirectories
    <2>11. DirectoryType /\ FrameInv
      BY DEF MapInv, PageInv
    <2>12. Entries[s][va].frame = NoFrame
      BY <2>4, <2>5, <2>9, EntriesAt, EmptyEntries
    <2>13. FrameInv' /\ SetAt(Entries, Entries', s, va, e)
      BY <2>4, <2>5, <2>6, <2>7, <2>8, <2>9, <2>10, <2>11, <2>12, HandToPage
    <2>14. \A v \in Nat : Entries'[s][v] = IF v = va THEN e ELSE Entries[s][v]
      BY <2>4, <2>11, <2>13, EntriesSet
    <2>15. /\ user_mappings'[s] = <<va>> \o user_mappings[s] /\ user_page_count'[s] = user_page_count[s] + 1
           /\ \A x \in Space : x # s => user_mappings'[x] = user_mappings[x] /\ user_page_count'[x] = user_page_count[x]
      BY <2>9 DEF WorkInv, WorkType
    <2>16. ListAt(s)'
      <3>1. ListAt(s)
        BY DEF PageInv
      <3>2. e.frame # NoFrame /\ e.user = TRUE
        BY <2>6, <2>7
      <3> QED BY ONLY <2>12, <2>14, <2>15, <3>1, <3>2, ListAdd, s \in Space, va \in Nat
    <2> QED BY <2>5, <2>8, <2>9, <2>11, <2>13, <2>15, <2>16, UserPageStep
  <1> QED BY <1>1, <1>2

(* ... it loses the first page of its list.                                *)
LEMMA UnmapNextPages == ASSUME MapInv, WorkInv, PageInv, NEW a \in Actor, UnmapNext(a) PROVE PageInv'
  <1>1. CASE Halt("destroy")
    BY <1>1, HaltPages
  <1>2. CASE ~ Halt("destroy")
    <2>1. pc[a] = "unmap"
      BY DEF UnmapNext
    <2>2. PICK s \in Space : s = job[a]
      BY <2>1, OwnJob
    <2>3. user_mappings[s] # <<>> /\ ListAt(s)
      BY <2>2 DEF UnmapNext, PageInv
    <2>4. PICK va \in Nat : va = Head(user_mappings[s]) /\ Entries[s][va].frame # NoFrame
      <3>1. user_mappings[s] \in Seq(Nat)
        BY <2>3 DEF ListAt
      <3>2. /\ Head(user_mappings[s]) = user_mappings[s][1] /\ 1 \in DOMAIN user_mappings[s]
            /\ Head(user_mappings[s]) \in Nat
        BY <2>3, <3>1
      <3>3. Head(user_mappings[s]) \in Listed(s)
        BY <3>2 DEF Listed
      <3> QED BY <2>3, <3>2, <3>3 DEF ListAt
    <2>5. s \in Actor /\ s # KernelSpace /\ DirectoryOf(s) = directory[s]
      BY SpaceAssumption DEF Actor, DirectoryOf
    <2>6. OwnPage(s, va) /\ Entries[s][va] = EntryIn(directory[s], va)
      BY <2>4, <2>5, EntriesAt, EmptyEntries
    <2>7. PICK f : f = EntryIn(directory[s], va).frame /\ f # NoFrame
      BY <2>4, <2>6
    <2>8. PICK t : t = directory[s][directory_index(va)] /\ t # NoFrame
      BY <2>7, EmptyEntries DEF EntryIn
    <2>9. /\ pte' = [pte EXCEPT ![t][table_index(va)] = NotPresent] /\ pmm_free_pages({f})
          /\ user_mappings' = [user_mappings EXCEPT ![s] = mapping_remove(@, va)]
          /\ user_page_count' = [user_page_count EXCEPT ![s] = IF @ > 0 THEN @ - 1 ELSE 0]
          /\ UNCHANGED <<kernel_directory, directory, directory_frame, page, heap_pages>>
      BY <1>2, <2>2, <2>4, <2>7, <2>8 DEF UnmapNext, unmap_page, workVars
    <2>10. SameDirectories
      BY <2>9, QuietDirectories
    <2>11. DirectoryType /\ FrameInv
      BY DEF MapInv, PageInv
    <2>12. FrameInv' /\ SetAt(Entries, Entries', s, va, NotPresent)
      BY <2>5, <2>6, <2>7, <2>8, <2>9, <2>10, <2>11, DropPage
    <2>13. \A v \in Nat : Entries'[s][v] = IF v = va THEN NotPresent ELSE Entries[s][v]
      BY <2>5, <2>11, <2>12, EntriesSet
    <2>14. /\ user_mappings'[s] = mapping_remove(user_mappings[s], va)
           /\ user_page_count'[s] = (IF user_page_count[s] > 0 THEN user_page_count[s] - 1 ELSE 0)
           /\ \A x \in Space : x # s => user_mappings'[x] = user_mappings[x] /\ user_page_count'[x] = user_page_count[x]
      BY <2>9 DEF WorkInv, WorkType
    <2>15. ListAt(s)'
      BY <2>3, <2>4, <2>13, <2>14, ListRemove
    <2>16. NotPresent \in Entry
      BY EmptyEntries
    <2> QED BY <2>6, <2>8, <2>9, <2>11, <2>12, <2>14, <2>15, <2>16, UserPageStep
  <1> QED BY <1>1, <1>2

(* The identity tables name frames.                                        *)
LEMMA IndexesFrames == Indexes \subseteq Frames
  <1>1. PICK P \in Nat \ {0}, E \in Nat \ {0} : P = PageSize /\ E = TableEntries
    BY Sizes
  <1>2. PICK am \in Nat : am > 0 /\ AddrMod = am * (P * E)
    BY <1>1, Layout
  <1>3. am * E \in Nat /\ E <= am * E
    <2>1. 1 * E <= am * E /\ am * E \in Nat
      BY <1>2, Times
    <2> QED BY <2>1
  <1>4. AddrMod = (am * E) * P + 0
    BY <1>2, <1>3
  <1>5. AddrMod \div PageSize = am * E
    BY <1>1, <1>3, <1>4, DivModOf
  <1> QED BY <1>1, <1>3, <1>5 DEF Indexes, Frames

(* A memory in which nothing is mapped.                                    *)
NoTables == [a \in Actor |-> [d \in Nat |-> NoFrame]]
NoEntries == [a \in Actor |-> [v \in Nat |-> NotPresent]]
NoUses == [k \in Keys |-> NoFrame]

LEMMA NothingHeld ==
  ASSUME NEW dirs, NEW hands, \A s \in Space : dirs[s] = NoFrame, \A a \in Actor : hands[a] = NoFrame
  PROVE  Held(dirs, hands, NoTables, NoEntries) = NoUses
  <1>1. ASSUME NEW kind \in Kinds, NEW a \in Actor, NEW n \in Nat
        PROVE  HeldBy(kind, a, n, dirs, hands, NoTables, NoEntries) = NoFrame
    <2>1. NoTables[a][n] = NoFrame /\ NoEntries[a][n].frame = NoFrame
      BY EmptyEntries DEF NoTables, NoEntries
    <2> QED BY <2>1 DEF HeldBy, Kinds
  <1>2. ASSUME NEW k \in Keys PROVE HeldBy(k[1], k[2], k[3], dirs, hands, NoTables, NoEntries) = NoFrame
    <2>1. PICK kind \in Kinds, a \in Actor, n \in Nat : k = Key(kind, a, n)
      BY DEF Keys
    <2> QED BY <1>1, <2>1, KeyIsTuple
  <1> QED BY <1>2 DEF Held, NoUses

LEMMA NothingUsed ==
  /\ \A k \in Keys : NoUses[k] = NoFrame
  /\ Accounted(NoUses, Frames \ Usable, Cardinality(Frames \ (Frames \ Usable)))
  <1>1. NoUses \in [Keys -> Frames] /\ \A k \in Keys : NoUses[k] = NoFrame
    BY EmptyEntries DEF NoUses
  <1>2. InUse(NoUses) = {}
    BY <1>1 DEF InUse
  <1> QED BY <1>1, <1>2 DEF Accounted

(* After the boot the heap has one page and one table, and nothing else is *)
(* in use.                                                                 *)
LEMMA InitPages == ASSUME Init PROVE PageInv
  <1> DEFINE boot == Frames \ Usable
             low == [i \in 0..(TableEntries - 1) |-> [frame |-> i, user |-> FALSE]]
             d0 == directory_index(HeapBase)
             i0 == table_index(HeapBase)
  <1>1. PICK p : p = first_free(boot, AnyFrame)
    OBVIOUS
  <1>2. PICK t : t = first_free(boot \cup {p}, LowLimit)
    OBVIOUS
  <1>3. /\ p \in Frames /\ p # NoFrame /\ p \notin boot
        /\ t \in Frames /\ t # NoFrame /\ t \notin boot \cup {p}
    BY <1>1, <1>2, FirstFreeFrame, FirstFreeIsFree DEF Init
  <1>4. /\ bitmap = boot \cup {p, t} /\ free_frames = Cardinality(Frames \ bitmap)
        /\ kernel_directory = [EmptyDirectory EXCEPT ![0] = BootTable, ![d0] = t]
        /\ pte = [f \in Frames |->
                    CASE f = BootTable -> low
                      [] f = t -> [EmptyTable EXCEPT ![i0].frame = p]
                      [] OTHER -> EmptyTable]
        /\ heap_pages = 1 /\ page = [a \in Actor |-> NoFrame]
        /\ directory = [s \in Space |-> EmptyDirectory]
        /\ directory_frame = [s \in Space |-> NoFrame]
        /\ user_mappings = [s \in Space |-> <<>>]
        /\ user_page_count = [s \in Space |-> 0]
    BY <1>1, <1>2 DEF Init
  <1>5. HeapBase \in Word /\ HeapBase \in Pages /\ HeapBase \in Nat
    BY PageAddresses, Addresses, ImageAssumption DEF HeapBase, Word
  <1>6. d0 \in KernelDirs /\ d0 # 0 /\ d0 \in Dirs /\ d0 \in Nat /\ i0 \in Indexes
    <2>1. HeapBase >= HeapBase
      BY <1>5
    <2>2. \A b \in Word :
            /\ table_index(b) \in Indexes
            /\ b >= HeapBase => directory_index(b) \in KernelDirs /\ directory_index(b) # 0
      BY Addresses
    <2>3. d0 \in KernelDirs /\ d0 # 0 /\ i0 \in Indexes
      BY ONLY <1>5, <2>1, <2>2
    <2> HIDE DEF d0, i0
    <2> QED BY <2>3, DirsKernel, DirsNat
  <1> HIDE DEF d0, i0
  <1>7. \A d \in Dirs : EmptyDirectory[d] = NoFrame
    BY DEF EmptyDirectory
  <1>8. \A d \in Dirs : kernel_directory[d] = IF d = d0 THEN t ELSE IF d = 0 THEN BootTable ELSE NoFrame
    BY <1>4, <1>7 DEF EmptyDirectory
  <1>9. PICK e \in Entry : e = [NotPresent EXCEPT !.frame = p] /\ e.frame = p /\ e.user = FALSE
    <2>1. \A r \in Entry : /\ [r EXCEPT !.frame = p] \in Entry /\ [r EXCEPT !.frame = p].frame = p
                           /\ [r EXCEPT !.frame = p].user = r.user
      BY <1>3 DEF Entry
    <2> QED BY <2>1, EmptyEntries
  <1>10. PICK T : T = [EmptyTable EXCEPT ![i0].frame = p]
    OBVIOUS
  <1>11. T = [EmptyTable EXCEPT ![i0] = e]
    BY <1>6, <1>9, <1>10, EmptyEntries
  <1>12. T \in [Indexes -> Entry] /\ \A i \in Indexes : T[i] = IF i = i0 THEN e ELSE NotPresent
    BY <1>6, <1>11, EmptyEntries
  <1>13. low \in [Indexes -> Entry] /\ \A i \in Indexes : low[i].user = FALSE
    <2>1. \A i \in Indexes : [frame |-> i, user |-> FALSE] \in Entry /\ [frame |-> i, user |-> FALSE].user = FALSE
      BY IndexesFrames, EntryOf
    <2> QED BY <2>1 DEF Indexes
  <1> HIDE DEF low
  <1>15. t # BootTable /\ BootTable \in Frames
    BY <1>3, SpaceAssumption
  <1>16. /\ pte[BootTable] = low /\ pte[t] = T /\ \A f \in Frames : pte[f] \in [Indexes -> Entry]
         /\ pte = [f \in Frames |-> pte[f]]
    BY <1>3, <1>4, <1>10, <1>12, <1>13, <1>15, EmptyEntries
  <1>17. TableType
    BY <1>16 DEF TableType
  <1>18. HolderType
    BY <1>4, EmptyEntries DEF HolderType
  <1>19. ASSUME NEW s \in Space PROVE s \in Actor /\ s # KernelSpace /\ DirectoryOf(s) = EmptyDirectory
    BY <1>4, SpaceAssumption DEF Actor, DirectoryOf
  <1>20. KernelSpace \in Actor /\ DirectoryOf(KernelSpace) = kernel_directory
    BY DEF Actor, DirectoryOf
  <1>21. \A a \in Actor : a = KernelSpace \/ a \in Space
    BY DEF Actor
  <1>22. ASSUME NEW a \in Actor, NEW d \in Nat
         PROVE  Tables[a][d] = IF a = KernelSpace /\ d = d0 THEN t ELSE NoFrame
    <2>1. CASE a = KernelSpace
      <3>1. OwnDir(a, d) <=> d \in KernelDirs /\ d # 0
        BY <2>1 DEF OwnDir
      <3> QED BY <1>6, <1>8, <1>20, <2>1, <3>1, TablesAt, DirsKernel
    <2>2. CASE a # KernelSpace
      <3>1. OwnDir(a, d) => d \in Dirs
        BY OwnDirs
      <3> QED BY <1>7, <1>19, <1>21, <2>2, <3>1, TablesAt
    <2> QED BY <2>1, <2>2
  <1>23. ASSUME NEW a \in Actor, NEW v \in Nat
         PROVE  Entries[a][v] = IF a = KernelSpace /\ v = HeapBase THEN e ELSE NotPresent
    <2>1. CASE ~ OwnPage(a, v)
      <3>1. OwnPage(KernelSpace, HeapBase)
        BY <1>5 DEF OwnPage
      <3> QED BY <2>1, <3>1, EntriesAt
    <2>2. CASE OwnPage(a, v)
      <3>1. /\ Entries[a][v] = EntryIn(DirectoryOf(a), v) /\ v \in Pages /\ directory_index(v) \in Dirs
            /\ OwnDir(a, directory_index(v)) /\ table_index(v) \in Indexes
        BY <2>2, EntriesAt, OwnIndexes
      <3>2. CASE a # KernelSpace
        BY <1>7, <1>19, <1>21, <3>1, <3>2 DEF EntryIn
      <3>3. CASE a = KernelSpace
        <4>1. PICK d \in Dirs : d = directory_index(v) /\ d # 0
          BY <3>1, <3>3 DEF OwnDir
        <4>2. EntryIn(DirectoryOf(a), v) =
                IF kernel_directory[d] = NoFrame THEN NotPresent ELSE pte[kernel_directory[d]][table_index(v)]
          BY <1>20, <3>3, <4>1 DEF EntryIn
        <4>3. d = d0 /\ table_index(v) = i0 <=> v = HeapBase
          BY <1>5, <3>1, <4>1, PageIndexes DEF d0, i0
        <4>4. CASE d = d0
          BY <1>3, <1>8, <1>12, <1>16, <3>1, <3>3, <4>2, <4>3, <4>4
        <4>5. CASE d # d0
          BY <1>8, <3>1, <3>3, <4>1, <4>2, <4>3, <4>5
        <4> QED BY <4>4, <4>5
      <3> QED BY <3>2, <3>3
    <2> QED BY <2>1, <2>2
  <1>24. PICK g : g = Held(directory_frame, page, Tables, NoEntries)
    OBVIOUS
  <1>25. PICK k \in Keys : k = Key("table", KernelSpace, d0)
    BY <1>6, <1>20, HoldingAt
  <1>26. PICK l \in Keys : l = Key("page", KernelSpace, HeapBase)
    BY <1>5, <1>20, HoldingAt
  <1>27. k # l
    BY <1>25, <1>26, KeyEqual
  <1>28. g = [NoUses EXCEPT ![k] = t]
    <2>1. DiffersAt(NoTables, Tables, KernelSpace, d0, t)
      BY <1>22 DEF DiffersAt, NoTables
    <2>2. TwoLevels(NoTables) /\ TwoLevels(Tables)
      BY DEF TwoLevels, NoTables, Tables
    <2>3. SetAt(NoTables, Tables, KernelSpace, d0, t)
      BY <1>6, <1>20, <2>1, <2>2, ExceptTwice
    <2>4. Tables = [NoTables EXCEPT ![KernelSpace][d0] = t]
      BY <2>3 DEF SetAt
    <2>5. NoTables \in [Actor -> [Nat -> Frames]]
      BY EmptyEntries DEF NoTables
    <2>6. Update(Held(directory_frame, page, NoTables, NoEntries), Held(directory_frame, page, Tables, NoEntries), k, t)
      BY ONLY <1>6, <1>20, <1>25, <2>4, <2>5, HeldTable
    <2>7. Held(directory_frame, page, NoTables, NoEntries) = NoUses
      BY <1>4, NothingHeld
    <2> QED BY <1>24, <2>6, <2>7 DEF Update
  <1>29. Holding = [g EXCEPT ![l] = p]
    <2>1. DiffersAt(NoEntries, Entries, KernelSpace, HeapBase, e)
      BY <1>23 DEF DiffersAt, NoEntries
    <2>2. TwoLevels(NoEntries) /\ TwoLevels(Entries)
      BY DEF TwoLevels, NoEntries, Entries
    <2>3. SetAt(NoEntries, Entries, KernelSpace, HeapBase, e)
      BY <1>5, <1>20, <2>1, <2>2, ExceptTwice
    <2>4. Entries = [NoEntries EXCEPT ![KernelSpace][HeapBase] = e]
      BY <2>3 DEF SetAt
    <2>5. NoEntries \in [Actor -> [Nat -> Entry]]
      BY EmptyEntries DEF NoEntries
    <2>6. Update(Held(directory_frame, page, Tables, NoEntries), Held(directory_frame, page, Tables, Entries), l, e.frame)
      BY ONLY <1>5, <1>9, <1>20, <1>26, <2>4, <2>5, HeldPage
    <2>7. Update(g, Holding, l, p)
      BY <1>9, <1>24, <2>6 DEF Holding
    <2> QED BY <2>7 DEF Update
  <1>30. \E free : Accounted(g, boot \cup {t}, free)
    BY <1>3, <1>25, <1>28, NothingUsed, AddUse
  <1>31. g[l] = NoFrame
    BY <1>25, <1>26, <1>27, <1>28, NothingUsed DEF NoUses
  <1>32. PICK free : Accounted(Holding, (boot \cup {t}) \cup {p}, free)
    BY <1>3, <1>26, <1>29, <1>30, <1>31, AddUse
  <1>33. Accounted(Holding, bitmap, free_frames)
    <2>1. bitmap = (boot \cup {t}) \cup {p}
      BY <1>4
    <2> QED BY <1>4, <1>32, <2>1 DEF Accounted
  <1>34. HeapInv
    <2>1. PICK P \in Nat \ {0} : P = PageSize
      BY Sizes
    <2>2. HeapNext = HeapBase + P
      BY <1>4, <1>5, <2>1 DEF HeapNext
    <2>3. \A v \in Nat : v >= HeapNext => v # HeapBase
      BY <1>5, <2>2
    <2> QED BY <1>20, <1>23, <2>3, EmptyEntries DEF HeapInv
  <1>35. FlagInv
    <2>1. kernel_directory[0] = BootTable
      BY <1>6, <1>8, Addresses, DirsKernel
    <2>2. ASSUME NEW d \in KernelDirs, NEW i \in Indexes, kernel_directory[d] # NoFrame
          PROVE  pte[kernel_directory[d]][i].user = FALSE
      <3>1. kernel_directory[d] \in {t, BootTable}
        BY <1>8, <2>2, DirsKernel
      <3>2. T[i].user = FALSE
        BY <1>9, <1>12, EmptyEntries
      <3> QED BY <1>13, <1>16, <3>1, <3>2
    <2> QED BY <2>1, <2>2 DEF FlagInv
  <1>36. ASSUME NEW s \in Space PROVE ListAt(s)
    <2>1. user_mappings[s] = <<>> /\ user_page_count[s] = 0 /\ DOMAIN <<>> = {}
      BY <1>4
    <2>2. <<>> \in Seq(Nat) /\ Len(<<>>) = 0
      OBVIOUS
    <2>3. \A v \in Nat : Entries[s][v] = NotPresent
      BY <1>19, <1>23
    <2>4. Listed(s) = {}
      BY <2>1 DEF Listed
    <2> QED BY <2>1, <2>2, <2>3, <2>4, EmptyEntries DEF ListAt
  <1> QED BY <1>17, <1>18, <1>33, <1>34, <1>35, <1>36 DEF PageInv, FrameInv

(* Every step preserves the invariant.                                     *)
LEMMA NextPages ==
  ASSUME MapInv, WorkInv, PageInv, [Next]_vars
  PROVE  PageInv'
  <1>1. ASSUME NEW a \in Actor, AllocationFails(a) PROVE PageInv'
    BY <1>1, HaltPages DEF AllocationFails
  <1>2. ASSUME NEW a \in Actor,
               \E s \in Space, cmd \in (IF launches = 0 THEN Commands ELSE LaterCommands),
                  grow \in BOOLEAN : Launch(a, s, cmd, grow)
        PROVE  PageInv'
    BY <1>2, LaunchPages
  <1>3. CASE UNCHANGED vars
    BY <1>3, QuietPages DEF vars, pmmVars, spaceVars, workVars
  <1> QED BY <1>1, <1>2, <1>3, DispatchPages, ScanPages, GrowPagePages, GrowTablePages, GrowMapPages,
             CreatePages, AllocPagePages, AllocTablePages, MapPagePages, FillPages, StartPages,
             UnmapNextPages, FreeTablePages, FreeDirectoryPages, ExitPages, CollectPages DEF Next

-----------------------------------------------------------------------------
(* What is true in every state.                                            *)
MemInv == MapInv /\ WorkInv /\ PageInv

(* In every reachable state, if no launch begins while another thread is   *)
(* between test and mark in pmm_alloc_page: a space has one owner and the  *)
(* loaded directory the kernel's tables (MapInv); how far each loader and  *)
(* destroyer is agrees with what its space has (WorkInv); and every frame  *)
(* has one use, no kernel table lets user code in, and each space's list   *)
(* is what its tables map (PageInv). None of the three is inductive alone: *)
(* which frame a page table frees depends on the lists, what a list may    *)
(* hold on the loader's position.                                          *)
THEOREM MemoryInductive == ASSUME "alloc_race" \notin Features PROVE Spec => []MemInv
  <1>1. Init => MemInv
    BY InitMap, InitWork, InitPages DEF MemInv
  <1>2. ASSUME MemInv, [Next]_vars, "alloc_race" \notin Features PROVE MemInv'
    BY <1>2, NextMap, NextWork, NextPages DEF MemInv
  <1> QED BY <1>1, <1>2, PTL DEF Spec

-----------------------------------------------------------------------------
(* A growth of the heap: nobody else launches or takes a frame meanwhile,  *)
(* since a process that grows the heap has interrupts disabled, and no     *)
(* process begins a launch while the monitor grows it.                     *)
GrowthLeft(a) ==
  /\ pc'[a] = pc[a] /\ found'[a] = found[a] /\ bitmap' \subseteq bitmap
  /\ UNCHANGED <<heap_pages, kernel_directory>>
  /\ a \in Space => directory'[a] = directory[a]

LEMMA HaltLeft == ASSUME NEW a, NEW why, Halt(why) PROVE GrowthLeft(a)
  BY DEF Halt, GrowthLeft, pmmVars, spaceVars

(* No other actor that runs is loading a program.                          *)
LEMMA GrowsAlone ==
  ASSUME MapInv, NEW a \in Actor, pc[a] \in Growing, NEW b \in Actor, b # a, current_space = b
  PROVE  pc[b] \notin Loading /\ a = KernelSpace
  <1>1. pc[a] \in Loading
    BY DEF Loading
  <1>2. a \notin Space
    BY <1>1 DEF MapInv, ExecInv
  <1>3. a = KernelSpace
    BY <1>2 DEF Actor
  <1> QED BY <1>3 DEF MapInv, ExecInv, Actor

LEMMA GrowthAlone ==
  ASSUME MapInv, WorkInv, [Next]_vars, NEW a \in Actor, pc[a] \in Growing
  PROVE  Scan(a) \/ GrowPage(a) \/ GrowTable(a) \/ GrowMap(a) \/ GrowthLeft(a)
  <1>1. a \in Space => irq_off = a /\ current_space = a /\ irq_off # NoSpace
    BY MemoryAssumption DEF MapInv, ExecInv, Loading
  <1>2. KernelSpace \notin Space /\ (a \notin Space => a = KernelSpace)
    BY SpaceAssumption DEF Actor
  <1>3. ASSUME NEW b \in Actor, Dispatch(b) PROVE GrowthLeft(a)
    BY <1>1, <1>3 DEF Dispatch, GrowthLeft, pmmVars
  <1>4. ASSUME NEW b \in Actor, NEW s \in Space, Exit(s, b) PROVE GrowthLeft(a)
    <2>1. a \notin Space
      BY <1>1, <1>4 DEF Exit, Running, Growing
    <2> QED BY <1>4, <2>1 DEF Exit, GrowthLeft, pmmVars
  <1>5. ASSUME NEW b \in Actor, AllocationFails(b) PROVE GrowthLeft(a)
    BY <1>5, HaltLeft DEF AllocationFails
  <1>6. ASSUME NEW b \in Actor, Scan(b) \/ GrowPage(b) \/ GrowTable(b) \/ GrowMap(b) PROVE b = a
    <2>1. current_space = b /\ pc[b] \in Loading
      BY <1>6 DEF Scan, GrowPage, GrowTable, GrowMap, Take, Running, Allocating, Loading, Growing
    <2> QED BY <2>1, GrowsAlone
  <1>7. ASSUME NEW b \in Actor,
               Create(b) \/ AllocPage(b) \/ AllocTable(b) \/ MapPage(b) \/ Fill(b) \/ Start(b)
        PROVE  FALSE
    <2>1. current_space = b /\ pc[b] \in Loading /\ pc[b] \notin Growing
      BY <1>7 DEF Create, AllocPage, AllocTable, MapPage, Fill, Start, Take, Running, Loading, Growing
    <2> QED BY <2>1, GrowsAlone
  <1>8. ASSUME NEW b \in Actor, NEW s \in Space, NEW cmd, NEW grow, Launch(b, s, cmd, grow) PROVE FALSE
    <2>1. MayLaunch(b, grow) /\ pc[b] = "idle"
      BY <1>8 DEF Launch
    <2>2. b = a
      BY <2>1 DEF MayLaunch
    <2> QED BY <2>1, <2>2 DEF Growing
  <1>9. ASSUME NEW b \in Actor, NEW s \in Space, Collect(b, s) PROVE GrowthLeft(a)
    <2>1. b # a /\ current_space = b /\ pc' = [pc EXCEPT ![b] = "unmap"]
      BY <1>9 DEF Collect, Running, Growing, Goto
    <2>2. pc'[a] = pc[a] /\ a \notin Space
      BY <1>2, <2>1, GrowsAlone DEF MapInv, OwnerType
    <2> QED BY <1>9, <2>2 DEF Collect, GrowthLeft, pmmVars
  <1>10. ASSUME NEW b \in Actor, UnmapNext(b) \/ FreeTable(b) \/ FreeDirectory(b) PROVE GrowthLeft(a)
    <2>1. CASE \E why : Halt(why)
      BY <2>1, HaltLeft
    <2>2. CASE ~ \E why : Halt(why)
      <3>1. b # a /\ current_space = b /\ pc[b] = "unmap" /\ UNCHANGED found
        BY <1>10, <2>2 DEF UnmapNext, FreeTable, FreeDirectory, Running, Growing
      <3>2. a \notin Space
        BY <1>2, <3>1, GrowsAlone
      <3>3. pc' = pc \/ pc' = [pc EXCEPT ![b] = "idle"]
        BY <1>10, <2>2 DEF UnmapNext, FreeTable, FreeDirectory, Goto
      <3>4. pc'[a] = pc[a]
        BY <3>1, <3>3 DEF MapInv, OwnerType
      <3>5. Harmless(b) /\ found[b] = NotScanned /\ pc[b] \notin Growing
        BY <1>10, <3>1, HarmlessStep DEF WorkInv, WorkAt, Allocating, Growing
      <3> QED BY <3>1, <3>2, <3>4, <3>5 DEF GrowthLeft, Harmless
    <2> QED BY <2>1, <2>2
  <1>11. CASE UNCHANGED vars
    BY <1>11 DEF vars, GrowthLeft, pmmVars, spaceVars
  <1>12. CASE Next
    <2>1. PICK b \in Actor :
            \/ Dispatch(b) \/ Scan(b) \/ AllocationFails(b)
            \/ GrowPage(b) \/ GrowTable(b) \/ GrowMap(b)
            \/ Create(b) \/ AllocPage(b) \/ AllocTable(b) \/ MapPage(b) \/ Fill(b) \/ Start(b)
            \/ UnmapNext(b) \/ FreeTable(b) \/ FreeDirectory(b)
            \/ \E s \in Space : Exit(s, b) \/ Collect(b, s)
            \/ \E s \in Space, cmd \in (IF launches = 0 THEN Commands ELSE LaterCommands),
                  grow \in BOOLEAN : Launch(b, s, cmd, grow)
      BY <1>12 DEF Next
    <2>2. CASE Scan(b) \/ GrowPage(b) \/ GrowTable(b) \/ GrowMap(b)
      BY <1>6, <2>2
    <2>3. CASE ~ (Scan(b) \/ GrowPage(b) \/ GrowTable(b) \/ GrowMap(b))
      BY <1>3, <1>4, <1>5, <1>7, <1>8, <1>9, <1>10, <2>1, <2>3
    <2> QED BY <2>2, <2>3
  <1> QED BY <1>11, <1>12

(* A growth begins with a launch.                                          *)
LEMMA GrowthBegins ==
  ASSUME MapInv, [Next]_vars, NEW a \in Actor, pc[a] \notin Growing, pc'[a] \in Growing
  PROVE  \E s \in Space : \E cmd : Launch(a, s, cmd, TRUE)
  <1> DEFINE Elsewhere == \A b \in Actor : pc'[b] \in Growing => pc[b] \in Growing
  <1>0. ASSUME NEW b \in Actor, NEW place, place \notin Growing \/ pc[b] \in Growing,
               pc' = [pc EXCEPT ![b] = place]
        PROVE  Elsewhere
    BY <1>0 DEF MapInv, OwnerType
  <1>1. ASSUME NEW b \in Actor,
               Dispatch(b) \/ Scan(b) \/ AllocationFails(b) \/ UnmapNext(b) \/ FreeTable(b)
               \/ (\E why : Halt(why)) \/ \E s \in Space : Exit(s, b)
        PROVE  Elsewhere
    BY <1>1 DEF Dispatch, Scan, AllocationFails, UnmapNext, FreeTable, Halt, Exit
  <1>2. ASSUME NEW b \in Actor, GrowPage(b) \/ GrowTable(b) PROVE Elsewhere
    <2>1. PICK place : pc' = [pc EXCEPT ![b] = place]
      BY <1>2 DEF GrowPage, GrowTable, Goto
    <2>2. pc[b] \in Growing
      BY <1>2 DEF GrowPage, GrowTable, Take, Growing
    <2> QED BY <1>0, <2>1, <2>2
  <1>3. ASSUME NEW b \in Actor, ~ \E why : Halt(why),
               \/ GrowMap(b) \/ Create(b) \/ AllocPage(b) \/ AllocTable(b) \/ MapPage(b) \/ Fill(b)
               \/ Start(b) \/ FreeDirectory(b) \/ \E s \in Space : Collect(b, s)
        PROVE  Elsewhere
    <2>1. PICK place \in {"create", "args", "page", "fill", "table", "map", "idle", "unmap"} :
            pc' = [pc EXCEPT ![b] = place]
      BY <1>3, RegionPlace DEF GrowMap, Create, AllocPage, AllocTable, MapPage, Fill, Start, FreeDirectory,
                               Collect, Goto
    <2>2. place \notin Growing
      BY DEF Growing
    <2> QED BY <1>0, <2>1, <2>2
  <1>4. ASSUME NEW b \in Actor, NEW s \in Space, NEW cmd, NEW grow \in BOOLEAN, Launch(b, s, cmd, grow)
        PROVE  Elsewhere \/ (b = a /\ grow)
    <2>1. PICK place \in {"grow", "create"} : pc' = [pc EXCEPT ![b] = place] /\ (place = "grow" => grow)
      BY <1>4 DEF Launch, Goto
    <2>2. b # a => pc'[a] = pc[a]
      BY <2>1 DEF MapInv, OwnerType
    <2>3. ~ grow => place \notin Growing
      BY <2>1 DEF Growing
    <2> QED BY <1>0, <2>1, <2>2, <2>3
  <1>5. CASE UNCHANGED vars
    BY <1>5 DEF vars
  <1> QED BY <1>1, <1>2, <1>3, <1>4, <1>5 DEF Next

-----------------------------------------------------------------------------
(* Where no process makes the heap need a new page table, a process that   *)
(* grows the heap has the table in its directory.                          *)
TableInv ==
  \A s \in Space : pc[s] \in Growing =>
    pc[s] # "grow_table" /\ directory[s][directory_index(HeapNext)] # NoFrame

LEMMA NextTable ==
  ASSUME MapInv, WorkInv, TableInv, [Next]_vars, "heap_table" \notin Features
  PROVE  TableInv'
  <1> SUFFICES ASSUME NEW s \in Space, pc'[s] \in Growing
               PROVE  pc'[s] # "grow_table" /\ directory'[s][directory_index(HeapNext)'] # NoFrame
    BY DEF TableInv
  <1>1. s \in Actor /\ s # KernelSpace
    BY SpaceAssumption DEF Actor
  <1>2. CASE pc[s] \notin Growing
    <2>1. PICK x, cmd : Launch(s, x, cmd, TRUE)
      BY <1>1, <1>2, GrowthBegins
    <2>2. /\ MayLaunch(s, TRUE) /\ heap_pages < MaxHeapPages /\ s = current_space /\ pc[s] = "idle"
          /\ pc' = [pc EXCEPT ![s] = "grow"] /\ UNCHANGED <<directory, heap_pages>>
      BY <2>1 DEF Launch, Running, Goto, spaceVars
    <2>3. kernel_directory[directory_index(HeapNext)] # NoFrame
      BY <1>1, <2>2 DEF MayLaunch
    <2>4. directory_index(HeapNext) \in KernelDirs
      BY <2>2, HeapAddress DEF WorkInv, WorkType
    <2>5. directory[s][directory_index(HeapNext)] = kernel_directory[directory_index(HeapNext)]
      BY <1>1, <2>2, <2>4 DEF MapInv, SharedInv, DirectoryOf
    <2>6. pc'[s] = "grow" /\ HeapNext' = HeapNext
      BY <1>1, <2>2 DEF MapInv, OwnerType, HeapNext
    <2> QED BY <2>2, <2>3, <2>5, <2>6
  <1>3. CASE pc[s] \in Growing
    <2>1. /\ pc[s] # "grow_table" /\ directory[s][directory_index(HeapNext)] # NoFrame
      BY <1>3 DEF TableInv
    <2>2. kernel_directory[directory_index(HeapNext)] # NoFrame
      <3>1. directory_index(HeapNext) \in KernelDirs
        BY <1>1, <1>3, HeapAddress DEF WorkInv, WorkType, WorkAt
      <3> QED BY <2>1, <3>1, CopiedNow DEF Copied
    <2>3. CASE Scan(s)
      <3>1. UNCHANGED <<pc, directory, heap_pages>>
        BY <2>3 DEF Scan, spaceVars
      <3> QED BY <2>1, <3>1 DEF HeapNext
    <2>4. CASE GrowPage(s)
      <3>1. UNCHANGED <<directory, heap_pages>> /\ pc' = [pc EXCEPT ![s] = "grow_map"]
        BY <2>2, <2>4 DEF GrowPage, Goto, spaceVars
      <3>2. pc'[s] = "grow_map" /\ HeapNext' = HeapNext
        BY <1>1, <3>1 DEF MapInv, OwnerType, HeapNext
      <3> QED BY <2>1, <3>1, <3>2
    <2>5. CASE GrowTable(s)
      BY <2>1, <2>5 DEF GrowTable, Take
    <2>6. CASE GrowMap(s)
      <3>1. pc' = [pc EXCEPT ![s] = "create"]
        BY <1>1, <2>1, <2>6 DEF GrowMap, DirectoryOf, Goto
      <3> QED BY <1>1, <3>1 DEF MapInv, OwnerType, Growing
    <2>7. CASE GrowthLeft(s)
      BY <2>1, <2>7 DEF GrowthLeft, HeapNext
    <2> QED BY <1>1, <1>3, <2>3, <2>4, <2>5, <2>6, <2>7, GrowthAlone
  <1> QED BY <1>2, <1>3

LEMMA TableInductive ==
  ASSUME "alloc_race" \notin Features, "heap_table" \notin Features
  PROVE  Spec => [](MemInv /\ TableInv)
  <1>1. Init => TableInv
    BY DEF Init, TableInv, Growing, Actor
  <1>2. ASSUME MemInv, TableInv, [Next]_vars, "heap_table" \notin Features PROVE TableInv'
    BY <1>2, NextTable DEF MemInv
  <1> QED BY <1>1, <1>2, MemoryInductive, PTL DEF Spec

(* Whichever directory the CPU has loaded shows all that the kernel has    *)
(* mapped: address_space_switch synchronises the directory it loads, and   *)
(* what is mapped later is behind a table that it has.  Left out are a     *)
(* launch while another thread is inside pmm_alloc_page, and a heap that   *)
(* needs a new page table while a process runs, where the property fails   *)
(* (run memory_heapfault).                                                 *)
THEOREM KernelAlwaysShared ==
  ASSUME "alloc_race" \notin Features, "heap_table" \notin Features
  PROVE  Spec => []KernelMappingsShared
  <1>1. ASSUME MemInv, TableInv PROVE KernelMappingsShared
    <2>1. ASSUME NEW d \in KernelDirs PROVE DirectoryOf(current_space)[d] = kernel_directory[d]
      <3>1. CASE current_space = KernelSpace
        BY <3>1 DEF DirectoryOf
      <3>2. CASE current_space # KernelSpace
        <4>1. current_space \in Space
          BY <1>1, <3>2 DEF Actor, MemInv, MapInv, OwnerType
        <4>2. pc[current_space] = "grow_map" => directory[current_space][directory_index(HeapNext)] # NoFrame
          BY <1>1, <4>1 DEF TableInv, Growing
        <4> QED BY <1>1, <3>2, <4>2 DEF MemInv, MapInv, SharedInv, DirectoryOf
      <3> QED BY <3>1, <3>2
    <2> QED BY <2>1 DEF KernelMappingsShared
  <1> QED BY <1>1, TableInductive, PTL

(* Where a growth that needs a table begins with two free frames that are  *)
(* identity-mapped, the table gets one of them.                            *)
LowAt(a) ==
  /\ pc[a] = "grow" /\ kernel_directory[directory_index(HeapNext)] = NoFrame => \E f, g \in LowFree : f # g
  /\ pc[a] = "grow_table" => LowFree # {} /\ found[a] # NoFrame
LowInv == \A a \in Actor : LowAt(a)

LEMMA LowScan == ASSUME LowFree # {} PROVE first_free(bitmap, LowLimit) # NoFrame
  <1>1. LowFree \in SUBSET Nat /\ \A f \in LowFree : f # NoFrame
    BY PhysicalAssumption DEF LowFree, Frames, NoFrame
  <1>2. \E f \in LowFree : \A g \in LowFree : f <= g
    BY <1>1, LeastNat
  <1>3. first_free(bitmap, LowLimit) = CHOOSE f \in LowFree : \A g \in LowFree : f <= g
    BY DEF first_free, LowFree
  <1> QED BY <1>1, <1>2, <1>3

LEMMA NextLow ==
  ASSUME MapInv, WorkInv, LowInv, [Next]_vars, "low_memory" \notin Features
  PROVE  LowInv'
  <1> SUFFICES ASSUME NEW a \in Actor PROVE LowAt(a)'
    BY DEF LowInv
  <1>1. CASE pc'[a] \notin Growing
    BY <1>1 DEF LowAt, Growing
  <1>2. CASE pc[a] \notin Growing /\ pc'[a] \in Growing
    <2>1. PICK x, cmd : Launch(a, x, cmd, TRUE)
      BY <1>2, GrowthBegins
    <2>2. /\ MayLaunch(a, TRUE) /\ pc' = [pc EXCEPT ![a] = "grow"]
          /\ UNCHANGED <<bitmap, kernel_directory, heap_pages>>
      BY <2>1 DEF Launch, Goto, pmmVars
    <2>3. pc'[a] = "grow" /\ HeapNext' = HeapNext /\ LowFree' = LowFree
      BY <2>2 DEF MapInv, OwnerType, HeapNext, LowFree
    <2> QED BY <2>2, <2>3 DEF LowAt, MayLaunch
  <1>3. CASE pc[a] \in Growing /\ pc'[a] \in Growing
    <2>1. LowAt(a)
      BY DEF LowInv
    <2>2. CASE Scan(a)
      <3>1. /\ UNCHANGED <<pc, bitmap, kernel_directory, heap_pages>>
            /\ found' = [found EXCEPT ![a] = first_free(bitmap, ScanLimit(pc[a]))]
        BY <2>2 DEF Scan, pmmVars
      <3>2. found'[a] = first_free(bitmap, ScanLimit(pc[a])) /\ LowFree' = LowFree /\ HeapNext' = HeapNext
        BY <3>1 DEF WorkInv, WorkType, LowFree, HeapNext
      <3>3. pc[a] = "grow_table" => found'[a] # NoFrame
        BY <2>1, <3>2, LowScan DEF LowAt, ScanLimit
      <3> QED BY <2>1, <3>1, <3>2, <3>3 DEF LowAt
    <2>3. CASE GrowPage(a)
      <3>1. PICK f \in Frames : Take(a, "grow", f) /\ mark_frame_used(f)
        BY <2>3 DEF GrowPage, Take
      <3>2. /\ pc[a] = "grow" /\ found'[a] = NotScanned /\ bitmap' = bitmap \cup {f}
        BY <3>1, TakeParts DEF Allocating, mark_frame_used
      <3>3. PICK place : /\ pc' = [pc EXCEPT ![a] = place]
                         /\ place = "grow_table" => kernel_directory[directory_index(HeapNext)] = NoFrame
                         /\ place # "grow"
        BY <2>3 DEF GrowPage, Goto
      <3>4. pc'[a] = place
        BY <3>3 DEF MapInv, OwnerType
      <3>5. ASSUME place = "grow_table" PROVE LowFree' # {}
        <4>1. PICK g \in LowFree : g # f
          BY <2>1, <3>2, <3>3, <3>5 DEF LowAt
        <4>2. g \in LowFree'
          BY <3>2, <4>1 DEF LowFree
        <4> QED BY <4>2
      <3>6. NotScanned # NoFrame
        BY PhysicalAssumption, FirstFreeFrame DEF NotScanned, AnyFrame, Frames, NoFrame
      <3> QED BY <3>2, <3>3, <3>4, <3>5, <3>6 DEF LowAt
    <2>4. CASE GrowTable(a)
      <3>1. pc' = [pc EXCEPT ![a] = "grow_map"]
        BY <2>4 DEF GrowTable, Goto
      <3> QED BY <3>1 DEF MapInv, OwnerType, LowAt
    <2>5. CASE GrowMap(a)
      <3>1. pc[a] = "grow_map" /\ (pc' = pc \/ pc' = [pc EXCEPT ![a] = "create"])
        BY <2>5 DEF GrowMap, Goto, Halt
      <3> QED BY <3>1 DEF MapInv, OwnerType, LowAt
    <2>6. CASE GrowthLeft(a)
      <3>1. /\ pc'[a] = pc[a] /\ found'[a] = found[a] /\ UNCHANGED kernel_directory
            /\ HeapNext' = HeapNext /\ LowFree \subseteq LowFree'
        BY <2>6 DEF GrowthLeft, LowFree, HeapNext
      <3> QED BY <2>1, <3>1 DEF LowAt
    <2> QED BY <1>3, <2>2, <2>3, <2>4, <2>5, <2>6, GrowthAlone
  <1> QED BY <1>1, <1>2, <1>3

-----------------------------------------------------------------------------
(* The uses that FramesAccounted lists are the keys that hold a frame.     *)
Use(kind, a, n, f) == <<kind, a, n, f>>
UseOf(k, f) == Use(k[1], k[2], k[3], f)
FrameOf(u) == u[4]

(* The components of a use.                                                *)
LEMMA UseFrames ==
  /\ \A kind, a, n, f : FrameOf(Use(kind, a, n, f)) = f
  /\ \A kind, a, n, f : UseOf(Key(kind, a, n), f) = Use(kind, a, n, f)
  <1>1. \A kind, a, n, f : FrameOf(Use(kind, a, n, f)) = f
    BY DEF FrameOf, Use
  <1> QED BY <1>1, KeyIsTuple DEF UseOf

(* The uses of the kernel, of a space and of an actor.                     *)
LEMMA UsesAre ==
  /\ \A u : u \in KernelUses <=>
       \/ \E d \in KernelDirs \ {0} : u = Use("table", KernelSpace, d, kernel_directory[d])
       \/ \E v \in Pages : v >= HeapBase /\ u = Use("page", KernelSpace, v, EntryIn(kernel_directory, v).frame)
  /\ \A u, s : u \in SpaceUses(s) <=>
       \/ u = Use("directory", s, 0, directory_frame[s])
       \/ \E d \in UserDirs : u = Use("table", s, d, directory[s][d])
       \/ \E v \in Pages : user_virtual_allowed(v) /\ u = Use("page", s, v, EntryIn(directory[s], v).frame)
  /\ \A u : u \in HandUses <=> \E a \in Actor : u = Use("hand", a, 0, page[a])
  /\ \A u : u \in Uses <=>
       /\ FrameOf(u) # NoFrame
       /\ u \in KernelUses \/ u \in HandUses \/ \E s \in Space : u \in SpaceUses(s)
  <1>1. \A u : u \in KernelUses <=>
       \/ \E d \in KernelDirs \ {0} : u = Use("table", KernelSpace, d, kernel_directory[d])
       \/ \E v \in Pages : v >= HeapBase /\ u = Use("page", KernelSpace, v, EntryIn(kernel_directory, v).frame)
    BY DEF KernelUses, Use
  <1>2. \A u, s : u \in SpaceUses(s) <=>
       \/ u = Use("directory", s, 0, directory_frame[s])
       \/ \E d \in UserDirs : u = Use("table", s, d, directory[s][d])
       \/ \E v \in Pages : user_virtual_allowed(v) /\ u = Use("page", s, v, EntryIn(directory[s], v).frame)
    BY DEF SpaceUses, Use
  <1>3. \A u : u \in HandUses <=> \E a \in Actor : u = Use("hand", a, 0, page[a])
    BY DEF HandUses, Use
  <1>4. \A u : u \in Uses <=>
       /\ FrameOf(u) # NoFrame
       /\ u \in KernelUses \/ u \in HandUses \/ \E s \in Space : u \in SpaceUses(s)
    BY DEF Uses, FrameOf
  <1> QED BY <1>1, <1>2, <1>3, <1>4

(* Each use is a key that holds its frame, and the other way round.        *)
LEMMA UseKeys ==
  /\ \A u \in Uses : \E k \in Keys : u = UseOf(k, Holding[k]) /\ Holding[k] # NoFrame
  /\ \A k \in Keys : Holding[k] # NoFrame => UseOf(k, Holding[k]) \in Uses
  <1>1. \A s \in Space : s \in Actor /\ s # KernelSpace
    BY SpaceAssumption DEF Actor
  <1>2. KernelSpace \in Actor /\ \A a \in Actor : a = KernelSpace \/ a \in Space
    BY DEF Actor
  <1>3. /\ \A d : OwnDir(KernelSpace, d) <=> d \in KernelDirs \ {0}
        /\ \A s \in Space : \A d : OwnDir(s, d) <=> d \in UserDirs
        /\ \A a, d : OwnDir(a, d) => d \in Nat
        /\ \A v : OwnPage(KernelSpace, v) <=> v \in Pages /\ v >= HeapBase
        /\ \A s \in Space : \A v : OwnPage(s, v) <=> v \in Pages /\ user_virtual_allowed(v)
        /\ \A v \in Pages : v \in Nat
    <2>1. /\ \A d : OwnDir(KernelSpace, d) <=> d \in KernelDirs \ {0}
          /\ \A s \in Space : \A d : OwnDir(s, d) <=> d \in UserDirs
      BY <1>1 DEF OwnDir
    <2>2. /\ \A v : OwnPage(KernelSpace, v) <=> v \in Pages /\ v >= HeapBase
          /\ \A s \in Space : \A v : OwnPage(s, v) <=> v \in Pages /\ user_virtual_allowed(v)
      BY <1>1 DEF OwnPage
    <2>3. \A v \in Pages : v \in Nat
      BY PageAddresses DEF Word
    <2> QED BY <2>1, <2>2, <2>3, OwnDirs
  <1>4. DirectoryOf(KernelSpace) = kernel_directory /\ \A s \in Space : DirectoryOf(s) = directory[s]
    BY <1>1 DEF DirectoryOf
  <1>5. /\ \A a \in Actor, d \in Nat : OwnDir(a, d) => Holding[Key("table", a, d)] = DirectoryOf(a)[d]
        /\ \A a \in Actor, v \in Nat :
             OwnPage(a, v) => Holding[Key("page", a, v)] = EntryIn(DirectoryOf(a), v).frame
    BY HoldingAt, TablesAt, EntriesAt
  <1>6. ASSUME NEW k \in Keys, NEW f, f = Holding[k], f # NoFrame PROVE UseOf(k, f) \in Uses
    <2>1. PICK kind \in Kinds, a \in Actor, n \in Nat : k = Key(kind, a, n)
      BY DEF Keys
    <2>2. PICK u : u = Use(kind, a, n, f) /\ u = UseOf(k, f) /\ FrameOf(u) = f
      BY <2>1, UseFrames
    <2>3. CASE kind = "hand"
      <3>1. f = HeldBy("hand", a, n, directory_frame, page, Tables, Entries)
        BY <1>6, <2>1, <2>3, HeldAt DEF Holding
      <3>2. n = 0 /\ f = page[a]
        BY <1>6, <3>1 DEF HeldBy
      <3> QED BY <1>6, <2>2, <2>3, <3>2, UsesAre
    <2>4. CASE kind = "directory"
      <3>1. f = HeldBy("directory", a, n, directory_frame, page, Tables, Entries)
        BY <1>6, <2>1, <2>4, HeldAt DEF Holding
      <3>2. n = 0 /\ a \in Space /\ f = directory_frame[a]
        BY <1>6, <3>1 DEF HeldBy
      <3>3. u \in SpaceUses(a)
        BY <2>2, <2>4, <3>2, UsesAre
      <3> QED BY <1>6, <2>2, <3>2, <3>3, UsesAre
    <2>5. CASE kind = "table"
      <3>1. OwnDir(a, n) /\ f = DirectoryOf(a)[n]
        BY <1>6, <2>1, <2>5, HoldingAt, TablesAt
      <3>2. CASE a = KernelSpace
        <4>1. u \in KernelUses
          BY <1>3, <1>4, <2>2, <2>5, <3>1, <3>2, UsesAre
        <4> QED BY <1>6, <2>2, <4>1, UsesAre
      <3>3. CASE a \in Space
        <4>1. u \in SpaceUses(a)
          <5>1. n \in UserDirs /\ u = Use("table", a, n, directory[a][n])
            BY <1>3, <1>4, <2>2, <2>5, <3>1, <3>3
          <5> QED BY ONLY <5>1, UsesAre
        <4> QED BY <1>6, <2>2, <3>3, <4>1, UsesAre
      <3> QED BY <1>2, <3>2, <3>3
    <2>6. CASE kind = "page"
      <3>1. OwnPage(a, n) /\ f = EntryIn(DirectoryOf(a), n).frame
        BY <1>6, <2>1, <2>6, HoldingAt, EntriesAt, EmptyEntries
      <3>2. CASE a = KernelSpace
        <4>1. u \in KernelUses
          BY <1>3, <1>4, <2>2, <2>6, <3>1, <3>2, UsesAre
        <4> QED BY <1>6, <2>2, <4>1, UsesAre
      <3>3. CASE a \in Space
        <4>1. u \in SpaceUses(a)
          <5>1. n \in Pages /\ user_virtual_allowed(n) /\ u = Use("page", a, n, EntryIn(directory[a], n).frame)
            BY <1>3, <1>4, <2>2, <2>6, <3>1, <3>3
          <5> QED BY ONLY <5>1, UsesAre
        <4> QED BY <1>6, <2>2, <3>3, <4>1, UsesAre
      <3> QED BY <1>2, <3>2, <3>3
    <2> QED BY <2>3, <2>4, <2>5, <2>6 DEF Kinds
  <1>7. ASSUME NEW u \in Uses PROVE \E k \in Keys : u = UseOf(k, Holding[k]) /\ Holding[k] # NoFrame
    <2>1. SUFFICES \E k \in Keys : u = UseOf(k, Holding[k])
      <3>1. \A k \in Keys : FrameOf(UseOf(k, Holding[k])) = Holding[k]
        BY UseFrames DEF UseOf
      <3> QED BY <3>1, UsesAre
    <2>2. ASSUME NEW d \in KernelDirs \ {0}, u = Use("table", KernelSpace, d, kernel_directory[d])
          PROVE  \E k \in Keys : u = UseOf(k, Holding[k])
      <3>1. OwnDir(KernelSpace, d) /\ d \in Nat
        BY <1>3
      <3> QED BY <1>2, <1>4, <1>5, <2>2, <3>1, HoldingAt, UseFrames
    <2>3. ASSUME NEW v \in Pages, v >= HeapBase, u = Use("page", KernelSpace, v, EntryIn(kernel_directory, v).frame)
          PROVE  \E k \in Keys : u = UseOf(k, Holding[k])
      <3>1. OwnPage(KernelSpace, v) /\ v \in Nat
        BY <1>3, <2>3
      <3> QED BY <1>2, <1>4, <1>5, <2>3, <3>1, HoldingAt, UseFrames
    <2>4. ASSUME NEW s \in Space, NEW d \in UserDirs, u = Use("table", s, d, directory[s][d])
          PROVE  \E k \in Keys : u = UseOf(k, Holding[k])
      <3>1. OwnDir(s, d) /\ d \in Nat
        BY <1>3
      <3> QED BY <1>1, <1>4, <1>5, <2>4, <3>1, HoldingAt, UseFrames
    <2>5. ASSUME NEW s \in Space, NEW v \in Pages, user_virtual_allowed(v),
                 u = Use("page", s, v, EntryIn(directory[s], v).frame)
          PROVE  \E k \in Keys : u = UseOf(k, Holding[k])
      <3>1. OwnPage(s, v) /\ v \in Nat
        BY <1>3, <2>5
      <3> QED BY <1>1, <1>4, <1>5, <2>5, <3>1, HoldingAt, UseFrames
    <2>6. ASSUME NEW s \in Space, u = Use("directory", s, 0, directory_frame[s])
          PROVE  \E k \in Keys : u = UseOf(k, Holding[k])
      BY <2>6, HoldingAt, UseFrames
    <2>7. ASSUME NEW a \in Actor, u = Use("hand", a, 0, page[a])
          PROVE  \E k \in Keys : u = UseOf(k, Holding[k])
      BY <2>7, HoldingAt, UseFrames
    <2>8. CASE u \in KernelUses
      BY <2>2, <2>3, <2>8, UsesAre
    <2>9. ASSUME NEW s \in Space, u \in SpaceUses(s) PROVE \E k \in Keys : u = UseOf(k, Holding[k])
      BY <2>4, <2>5, <2>6, <2>9, UsesAre
    <2>10. CASE u \in HandUses
      BY <2>7, <2>10, UsesAre
    <2> QED BY <2>8, <2>9, <2>10, UsesAre
  <1> QED BY <1>6, <1>7

(* Every frame that pmm marks used has exactly one use and every frame in  *)
(* use is marked: pmm_alloc_page never hands out a frame that is mapped,   *)
(* none leaks when a space is destroyed, and free_frames is the count of   *)
(* the rest.  The monitor may be preempted anywhere, between the test of a *)
(* bit and its mark too, and processes exit and are destroyed meanwhile;   *)
(* the hypothesis is that no program is launched at that moment, without   *)
(* which the property is false (run memory_allocrace).                     *)
THEOREM FramesAlwaysAccounted ==
  ASSUME "alloc_race" \notin Features PROVE Spec => []FramesAccounted
  <1>1. ASSUME MemInv PROVE FramesAccounted
    <2>1. Accounted(Holding, bitmap, free_frames)
      BY <1>1 DEF MemInv, PageInv, FrameInv
    <2>2. \A k \in Keys : FrameOf(UseOf(k, Holding[k])) = Holding[k]
      BY UseFrames DEF UseOf
    <2>3. ASSUME NEW u \in Uses, NEW w \in Uses, FrameOf(u) = FrameOf(w) PROVE u = w
      <3>1. PICK k \in Keys : u = UseOf(k, Holding[k]) /\ Holding[k] # NoFrame
        BY UseKeys
      <3>2. PICK l \in Keys : w = UseOf(l, Holding[l]) /\ Holding[l] # NoFrame
        BY UseKeys
      <3>3. Holding[k] = Holding[l]
        BY <2>2, <2>3, <3>1, <3>2
      <3>4. k = l
        BY <2>1, <3>1, <3>3 DEF Accounted
      <3> QED BY <3>1, <3>2, <3>4
    <2>4. {FrameOf(u) : u \in Uses} = InUse(Holding)
      BY <2>2, UseKeys DEF InUse
    <2>5. bitmap = (Frames \ Usable) \cup {FrameOf(u) : u \in Uses} /\ free_frames = Cardinality(Frames \ bitmap)
      BY <2>1, <2>4 DEF Accounted
    <2> QED BY <2>3, <2>5 DEF FramesAccounted, FrameOf
  <1> QED BY <1>1, MemoryInductive, PTL

(* An entry of a kernel table, or of a copy of one, is not for the user.   *)
LEMMA KernelEntry ==
  ASSUME FlagInv, NEW dir, NEW b \in Word, directory_index(b) \in KernelDirs,
         dir[directory_index(b)] \in {NoFrame, kernel_directory[directory_index(b)]}
  PROVE  EntryIn(dir, b).user = FALSE
  <1>1. table_index(b) \in Indexes
    BY Addresses
  <1> QED BY <1>1, EmptyEntries DEF FlagInv, EntryIn

(* The pages that user code reaches are those of the list.                 *)
LEMMA UserEntry ==
  ASSUME MemInv, NEW s \in Space, NEW v \in Pages
  PROVE  EntryIn(directory[s], v).user <=> v \in Listed(s)
  <1>1. v \in Word /\ v \in Nat /\ s \in Actor /\ s # KernelSpace
    BY PageAddresses, SpaceAssumption DEF Word, Actor
  <1>2. ListAt(s) /\ SpaceAt(s) /\ FlagInv
    BY DEF MemInv, PageInv, WorkInv
  <1>3. Entries[s][v] = IF user_virtual_allowed(v) THEN EntryIn(directory[s], v) ELSE NotPresent
    BY <1>1, EntriesAt DEF OwnPage, DirectoryOf
  <1>4. CASE user_virtual_allowed(v)
    BY <1>1, <1>2, <1>3, <1>4 DEF ListAt
  <1>5. CASE ~ user_virtual_allowed(v)
    <2>1. directory_index(v) \in KernelDirs
      BY <1>1, <1>5, Addresses DEF KernelDirs
    <2>2. EntryIn(directory[s], v).user = FALSE
      BY <1>1, <1>2, <2>1, KernelEntry DEF SpaceAt
    <2>3. Entries[s][v].frame = NoFrame
      BY <1>3, <1>5, EmptyEntries
    <2> QED BY <1>1, <1>2, <2>2, <2>3 DEF ListAt
  <1> QED BY <1>4, <1>5

(* So the list is the set of these pages.                                  *)
LEMMA ListedPages ==
  ASSUME MemInv, NEW s \in Space
  PROVE  /\ Listed(s) \subseteq Pages
         /\ \A v \in Listed(s) : v \in Nat /\ user_virtual_allowed(v)
  <1>1. ListAt(s) /\ s \in Actor /\ s # KernelSpace
    BY SpaceAssumption DEF MemInv, PageInv, Actor
  <1>2. ASSUME NEW v \in Listed(s) PROVE v \in Pages /\ v \in Nat /\ user_virtual_allowed(v)
    <2>1. v \in Nat
      BY <1>1 DEF ListAt, Listed
    <2>2. Entries[s][v].frame # NoFrame
      BY <1>1, <2>1 DEF ListAt
    <2>3. OwnPage(s, v)
      BY <1>1, <2>1, <2>2, EntriesAt, EmptyEntries
    <2> QED BY <1>1, <2>1, <2>3 DEF OwnPage
  <1> QED BY <1>2

(* The list of user mappings that address_space_destroy walks is at every  *)
(* moment what the space's page tables map for user code, each page once,  *)
(* and user_page_count is its length; no other page is open to user code,  *)
(* in the kernel's tables or in a space's own.  A frame that two tables    *)
(* shared would break this, hence the hypothesis of FramesAlwaysAccounted. *)
THEOREM SpacesAlwaysConsistent ==
  ASSUME "alloc_race" \notin Features PROVE Spec => []SpacesConsistent
  <1>1. ASSUME MemInv PROVE SpacesConsistent
    <2>1. ASSUME NEW s \in Space
          PROVE  /\ {v \in Pages : EntryIn(directory[s], v).user} = Listed(s)
                 /\ \A i, j \in DOMAIN user_mappings[s] : user_mappings[s][i] = user_mappings[s][j] => i = j
                 /\ user_page_count[s] = Len(user_mappings[s])
      <3>1. ListAt(s)
        BY <1>1 DEF MemInv, PageInv
      <3>2. {v \in Pages : EntryIn(directory[s], v).user} = Listed(s)
        BY <1>1, UserEntry, ListedPages
      <3> QED BY <3>1, <3>2 DEF ListAt
    <2> QED BY <2>1 DEF SpacesConsistent, Listed
  <1> QED BY <1>1, MemoryInductive, PTL

-----------------------------------------------------------------------------
(* The last addresses are the kernel's, in whatever directory is loaded.   *)
LEMMA TopEntry ==
  ASSUME MemInv, NEW b \in Word, b >= HeapBase
  PROVE  EntryIn(DirectoryOf(current_space), b).user = FALSE
  <1>1. directory_index(b) \in KernelDirs
    BY Addresses
  <1>2. DirectoryOf(current_space)[directory_index(b)] \in {NoFrame, kernel_directory[directory_index(b)]}
    BY <1>1 DEF MemInv, MapInv, SharedInv
  <1> QED BY <1>1, <1>2, KernelEntry DEF MemInv, PageInv

(* The bytes of a page have its entry.                                     *)
LEMMA ByteEntry ==
  ASSUME NEW dir, NEW b \in Word
  PROVE  EntryIn(dir, align_down_page(b)) = EntryIn(dir, b)
  BY PageOfByte DEF EntryIn

(* Rounding down is monotonic and keeps page boundaries.                   *)
LEMMA AlignDown ==
  ASSUME NEW a \in Word, NEW b \in Word, a <= b
  PROVE  /\ align_down_page(a) \in Nat /\ align_down_page(a) % PageSize = 0
         /\ align_down_page(a) <= a /\ align_down_page(a) <= align_down_page(b)
         /\ b % PageSize = 0 => align_down_page(b) = b
         /\ \A p \in Nat : p % PageSize = 0 /\ align_down_page(a) <= p /\ p <= a => p = align_down_page(a)
  <1>1. PICK P \in Nat \ {0} : P = PageSize
    BY Sizes
  <1>2. a \in Nat /\ b \in Nat
    BY DEF Word
  <1>3. PICK x \in Nat : x = align_down_page(a) /\ x % PageSize = 0 /\ x <= a /\ a < x + P
    BY <1>1, PageOfByte, PageAddresses DEF Word
  <1>4. PICK y \in Nat : y = align_down_page(b) /\ y % PageSize = 0 /\ y <= b /\ b < y + P
    BY <1>1, PageOfByte, PageAddresses DEF Word
  <1>5. y < x => y + P <= x
    BY <1>1, <1>3, <1>4, AlignedStep
  <1>6. x <= y
    BY ONLY <1>2, <1>3, <1>4, <1>5, a <= b, P \in Nat, x \in Nat, y \in Nat
  <1>7. b % PageSize = 0 => y = b
    BY <1>2, <1>4 DEF align_down_page
  <1>8. ASSUME NEW p \in Nat, p % PageSize = 0, x <= p, p <= a PROVE p = x
    <2>1. x < p => x + P <= p
      BY <1>1, <1>3, <1>8, AlignedStep
    <2> QED BY ONLY <1>2, <1>3, <1>8, <2>1, P \in Nat, x \in Nat, p \in Nat
  <1> QED BY <1>3, <1>4, <1>6, <1>7, <1>8

(* user_range_accessible, on which copy_from_user and copy_to_user rely,   *)
(* accepts a range exactly when every byte of it lies on a page that is    *)
(* mapped for user code, for all pointers and lengths that are words:      *)
(* ranges that wrap around, that end at a page boundary or at the limits   *)
(* of the user range, and empty ones included.  The hypothesis is that of  *)
(* FramesAlwaysAccounted, for the same reason.                             *)
THEOREM UserCopyAlwaysSafe ==
  ASSUME "alloc_race" \notin Features PROVE Spec => []UserCopySafe
  <1>1. ASSUME MemInv, NEW a \in Word, NEW size \in Word
        PROVE  user_range_accessible(current_space, a, size) <=>
                 \A b \in a..(a + size - 1) : b < AddrMod /\ EntryIn(DirectoryOf(current_space), b).user
    <2>1. PICK dir : dir = DirectoryOf(current_space)
      OBVIOUS
    <2>2. PICK A \in Nat \ {0} : A = AddrMod
      BY Sizes
    <2>3. a \in Nat /\ size \in Nat /\ a < A /\ size < A /\ \A b \in Nat : b < A => b \in Word
      BY <2>2 DEF Word
    <2>4. CASE size = 0
      <3>1. a..(a + size - 1) = {}
        BY <2>3, <2>4
      <3> QED BY <2>4, <3>1 DEF user_range_accessible
    <2>5. CASE size # 0
      <3>1. user_range_accessible(current_space, a, size) <=>
              /\ Plus(a, size) >= a
              /\ \A p \in align_down_page(a)..(a + size - 1) : p % PageSize = 0 => EntryIn(dir, p).user
        BY <2>1, <2>5 DEF user_range_accessible
      <3>2. Plus(a, size) >= a <=> a + size < A
        <4>1. Plus(a, size) \in Nat
          BY <2>2, <2>3 DEF Plus
        <4>2. Plus(a, size) < a <=> A <= a + size
          BY <2>2, PlusExact DEF range_overflows
        <4> QED BY ONLY <2>3, <4>1, <4>2, A \in Nat
      <3>3. PICK l \in Nat : l = a + size - 1 /\ a <= l
        BY <2>3, <2>5
      <3>4. ASSUME a + size < A,
                   \A p \in align_down_page(a)..l : p % PageSize = 0 => EntryIn(dir, p).user,
                   NEW b \in a..l
            PROVE  b < A /\ EntryIn(dir, b).user
        <4>1. b \in Nat /\ a <= b /\ b <= l /\ b < A /\ b \in Word
          BY <2>3, <3>3, <3>4
        <4>2. PICK x \in Nat : x = align_down_page(a) /\ x <= align_down_page(b)
          BY <4>1, AlignDown
        <4>3. PICK y \in Nat : y = align_down_page(b) /\ y <= b /\ y % PageSize = 0
          BY <2>3, <4>1, AlignDown
        <4>4. y \in x..l
          BY ONLY <4>1, <4>2, <4>3, x \in Nat, y \in Nat, l \in Nat
        <4> QED BY <3>4, <4>1, <4>2, <4>3, <4>4, ByteEntry
      <3>5. ASSUME \A b \in a..l : b < A /\ EntryIn(dir, b).user
            PROVE  a + size < A /\ \A p \in align_down_page(a)..l : p % PageSize = 0 => EntryIn(dir, p).user
        <4>1. l \in a..l /\ a \in a..l
          BY <2>3, <3>3
        <4>2. l < A /\ l \in Word
          BY <2>3, <3>5, <4>1
        <4>3. l # A - 1
          <5>1. SUFFICES ASSUME l = A - 1 PROVE FALSE
            OBVIOUS
          <5>2. HeapBase < A /\ HeapBase \in Nat
            BY <2>2, Addresses DEF HeapBase, Word
          <5>3. l >= HeapBase
            BY <5>1, <5>2
          <5> QED BY <1>1, <2>1, <3>5, <4>1, <4>2, <5>3, TopEntry
        <4>4. a + size < A
          BY ONLY <2>3, <3>3, <4>2, <4>3, A \in Nat
        <4>5. ASSUME NEW p \in align_down_page(a)..l, p % PageSize = 0 PROVE EntryIn(dir, p).user
          <5>1. PICK x \in Nat : x = align_down_page(a) /\ \A q \in Nat : q % PageSize = 0 /\ x <= q /\ q <= a => q = x
            BY <2>3, AlignDown
          <5>2. p \in Nat /\ x <= p /\ p <= l
            BY <4>5, <5>1
          <5>3. CASE p <= a
            <6>1. p = x
              BY <4>5, <5>1, <5>2, <5>3
            <6> QED BY <3>5, <4>1, <5>1, <6>1, ByteEntry
          <5>4. CASE ~ (p <= a)
            <6>1. p \in a..l
              BY ONLY <2>3, <3>3, <5>2, <5>4
            <6> QED BY <3>5, <6>1
          <5> QED BY <5>3, <5>4
        <4> QED BY <4>4, <4>5
      <3> QED BY <2>1, <2>2, <3>1, <3>2, <3>3, <3>4, <3>5
    <2> QED BY <2>4, <2>5
  <1>2. ASSUME MemInv PROVE UserCopySafe
    BY <1>1, <1>2, MemoryAssumption DEF UserCopySafe
  <1> QED BY <1>2, MemoryInductive, PTL

-----------------------------------------------------------------------------
(* The pages of the regions before one, and of all regions.                *)
Before(img, i) == {v \in Pages : \E k \in RegionsOf(img) : k < i /\ v \in RegionPages(img, k)}
Declared(img) == {v \in Pages : \E k \in RegionsOf(img) : v \in RegionPages(img, k)}

(* While a program is loaded, its space has the pages of the regions that  *)
(* are done and those of the current one up to the cursor.                 *)
LoadedAt(a) ==
  LET img == image[job[a]]
  IN /\ pc[a] \in Mapping => \A v :
          v \in Listed(job[a]) <=>
            \/ v \in Before(img, region[a])
            \/ v \in Pages /\ Region(img, region[a]).vaddr <= v /\ v < cursor[a]
     /\ pc[a] = "args" => Listed(job[a]) = Declared(img)

(* From then on it has what its image declares and its arguments need.     *)
ProgramAt(s) ==
  /\ state[s] # "absent" => \E cmd \in Commands : image[s] = cmd.image /\ argv[s] = cmd.argv
  /\ state[s] \in {"live", "zombie"} => Listed(s) = Declared(image[s])
  /\ state[s] = "live" => ArgumentsFit(argv[s]) /\ esp[s] = InitialEsp(argv[s])

(* What all actors have loaded and all programs have.                      *)
LoadInv == DOMAIN esp = Space /\ (\A a \in Actor : LoadedAt(a)) /\ (\A s \in Space : ProgramAt(s))

-----------------------------------------------------------------------------
(* Parts of this that a step leaves alone.                                 *)
SameLoad(a) == pc'[a] = pc[a] /\ job'[a] = job[a] /\ region'[a] = region[a] /\ cursor'[a] = cursor[a]
SameProgram(s) ==
  /\ user_mappings'[s] = user_mappings[s] /\ state'[s] = state[s]
  /\ image'[s] = image[s] /\ argv'[s] = argv[s] /\ esp'[s] = esp[s]

(* A step of one actor that concerns one space and no other.               *)
LEMMA LoadStep ==
  ASSUME MapInv, LoadInv, NEW a \in Actor, NEW s \in Space,
         \A b \in Actor : b # a => SameLoad(b) /\ (pc[b] # "idle" => job[b] # s),
         \A x \in Space : x # s => SameProgram(x),
         DOMAIN esp' = Space, LoadedAt(a)', ProgramAt(s)'
  PROVE  LoadInv'
  <1>1. ASSUME NEW b \in Actor, b # a PROVE LoadedAt(b)'
    <2>1. CASE pc[b] \notin Loading
      BY <1>1, <2>1 DEF LoadedAt, SameLoad, Mapping, Loading
    <2>2. CASE pc[b] \in Loading
      <3>1. PICK x \in Space : x = job[b] /\ x # s
        BY <1>1, <2>2 DEF MapInv, OwnerInv, Loading, Growing
      <3>2. SameProgram(x) /\ SameLoad(b) /\ LoadedAt(b)
        BY <1>1, <3>1 DEF LoadInv
      <3>3. job'[b] = x /\ Listed(x)' = Listed(x)
        BY <3>1, <3>2 DEF SameProgram, SameLoad, Listed
      <3>4. Listed(job[b])' = Listed(job[b])
        BY <3>1, <3>3 DEF Listed
      <3> QED BY <3>1, <3>2, <3>3, <3>4 DEF LoadedAt, SameProgram, SameLoad
    <2> QED BY <2>1, <2>2
  <1>2. ASSUME NEW x \in Space, x # s PROVE ProgramAt(x)'
    BY <1>2 DEF LoadInv, ProgramAt, SameProgram, Listed
  <1> QED BY <1>1, <1>2 DEF LoadInv

(* Steps that change nothing of this, and steps that only move an actor.   *)
LEMMA LoadSame ==
  ASSUME LoadInv, UNCHANGED <<pc, job, region, cursor, user_mappings, state, image, argv, esp>>
  PROVE  LoadInv'
  <1>1. ASSUME NEW b \in Actor PROVE LoadedAt(b)'
    BY DEF LoadInv, LoadedAt, Listed
  <1>2. ASSUME NEW x \in Space PROVE ProgramAt(x)'
    BY DEF LoadInv, ProgramAt, Listed
  <1> QED BY <1>1, <1>2 DEF LoadInv

LEMMA LoadPlace ==
  ASSUME MapInv, LoadInv, NEW a \in Actor, NEW place, pc' = [pc EXCEPT ![a] = place],
         place \in Growing \cup {"create"} \/ (pc[a] \in Mapping /\ place \in Mapping),
         UNCHANGED <<job, region, cursor, user_mappings, state, image, argv, esp>>
  PROVE  LoadInv'
  <1>1. \A b \in Actor : pc'[b] = IF b = a THEN place ELSE pc[b]
    BY DEF MapInv, OwnerType
  <1>2. "args" \notin Mapping /\ \A p \in Growing \cup {"create"} : p \notin Mapping /\ p # "args"
    BY DEF Mapping, Growing
  <1>3. ASSUME NEW b \in Actor PROVE LoadedAt(b)'
    BY <1>1, <1>2 DEF LoadInv, LoadedAt, Listed
  <1>4. ASSUME NEW x \in Space PROVE ProgramAt(x)'
    BY DEF LoadInv, ProgramAt, Listed
  <1> QED BY <1>3, <1>4 DEF LoadInv

(* At boot nothing is loaded.                                              *)
LEMMA InitLoad == Init => LoadInv
  <1> SUFFICES ASSUME Init PROVE LoadInv
    OBVIOUS
  <1>1. /\ esp = [s \in Space |-> 0] /\ state = [s \in Space |-> "absent"]
        /\ pc = [a \in Actor |-> "idle"]
    BY DEF Init
  <1> QED BY <1>1 DEF LoadInv, LoadedAt, ProgramAt, Mapping

(* Steps that change no list and no program.                               *)
LEMMA HaltLoad == ASSUME LoadInv, NEW why, Halt(why) PROVE LoadInv'
  BY LoadSame DEF Halt, spaceVars, procVars, workVars

LEMMA DispatchLoad == ASSUME LoadInv, NEW a, Dispatch(a) PROVE LoadInv'
  BY LoadSame DEF Dispatch, procVars, workVars

LEMMA ScanLoad == ASSUME LoadInv, NEW a, Scan(a) PROVE LoadInv'
  BY LoadSame DEF Scan, spaceVars, procVars, workVars

LEMMA FreeTableLoad == ASSUME LoadInv, NEW a, FreeTable(a) PROVE LoadInv'
  <1>1. Halt("destroy") \/ UNCHANGED <<pc, job, region, cursor, user_mappings, state, image, argv, esp>>
    BY DEF FreeTable, procVars, workVars
  <1> QED BY <1>1, HaltLoad, LoadSame

LEMMA GrowPageLoad == ASSUME MapInv, LoadInv, NEW a \in Actor, GrowPage(a) PROVE LoadInv'
  <1>1. PICK place \in {"grow_table", "grow_map"} : pc' = [pc EXCEPT ![a] = place]
    BY DEF GrowPage, Goto
  <1>2. UNCHANGED <<job, region, cursor, user_mappings, state, image, argv, esp>>
    BY DEF GrowPage, spaceVars, procVars
  <1> QED BY <1>1, <1>2, LoadPlace DEF Growing

LEMMA GrowTableLoad == ASSUME MapInv, LoadInv, NEW a \in Actor, GrowTable(a) PROVE LoadInv'
  <1>1. pc' = [pc EXCEPT ![a] = "grow_map"]
    BY DEF GrowTable, Goto
  <1>2. UNCHANGED <<job, region, cursor, user_mappings, state, image, argv, esp>>
    BY DEF GrowTable, spaceVars, procVars, workVars
  <1> QED BY <1>1, <1>2, LoadPlace DEF Growing

LEMMA GrowMapLoad == ASSUME MapInv, LoadInv, NEW a \in Actor, GrowMap(a) PROVE LoadInv'
  <1>1. CASE Halt("page fault")
    BY <1>1, HaltLoad
  <1>2. CASE ~ Halt("page fault")
    <2>1. pc' = [pc EXCEPT ![a] = "create"]
      BY <1>2 DEF GrowMap, Goto
    <2>2. UNCHANGED <<job, region, cursor, user_mappings, state, image, argv, esp>>
      BY <1>2 DEF GrowMap, spaceVars, procVars
    <2> QED BY <2>1, <2>2, LoadPlace
  <1> QED BY <1>1, <1>2

LEMMA AllocPageLoad == ASSUME MapInv, LoadInv, NEW a \in Actor, AllocPage(a) PROVE LoadInv'
  <1>1. PICK place \in {"table", "map"} : pc' = [pc EXCEPT ![a] = place]
    BY DEF AllocPage, Goto
  <1>2. UNCHANGED <<job, region, cursor, user_mappings, state, image, argv, esp>> /\ pc[a] = "page"
    BY DEF AllocPage, Take, spaceVars, procVars
  <1> QED BY <1>1, <1>2, LoadPlace DEF Mapping

LEMMA AllocTableLoad == ASSUME MapInv, LoadInv, NEW a \in Actor, AllocTable(a) PROVE LoadInv'
  <1>1. pc' = [pc EXCEPT ![a] = "map"]
    BY DEF AllocTable, Goto
  <1>2. UNCHANGED <<job, region, cursor, user_mappings, state, image, argv, esp>> /\ pc[a] = "table"
    BY DEF AllocTable, Take, create_table, procVars, workVars
  <1> QED BY <1>1, <1>2, LoadPlace DEF Mapping

LEMMA ExitLoad == ASSUME MapInv, LoadInv, NEW s \in Space, NEW a \in Actor, Exit(s, a) PROVE LoadInv'
  <1>1. state[s] = "live"
    BY DEF Exit, Running, MapInv, OwnerInv
  <1>2. /\ \A x \in Space : state'[x] = IF x = s THEN "zombie" ELSE state[x]
        /\ UNCHANGED <<pc, job, region, cursor, user_mappings, image, argv, esp>>
    BY DEF Exit, MapInv, OwnerType, workVars
  <1>3. ASSUME NEW b \in Actor PROVE LoadedAt(b)'
    BY <1>2 DEF LoadInv, LoadedAt, Listed
  <1>4. ASSUME NEW x \in Space PROVE ProgramAt(x)'
    BY <1>1, <1>2 DEF LoadInv, ProgramAt, Listed
  <1> QED BY <1>2, <1>3, <1>4 DEF LoadInv

(* A program is named, ...                                                 *)
LEMMA LaunchLoad ==
  ASSUME MapInv, WorkInv, LoadInv, NEW a \in Actor, NEW s \in Space, NEW cmd \in Commands,
         NEW grow \in BOOLEAN, Launch(a, s, cmd, grow)
  PROVE  LoadInv'
  <1>1. PICK place \in {"grow", "create"} : pc' = [pc EXCEPT ![a] = place]
    BY DEF Launch, Goto
  <1>2. /\ state[s] = "absent" /\ state' = [state EXCEPT ![s] = "loading"]
        /\ image' = [image EXCEPT ![s] = cmd.image] /\ argv' = [argv EXCEPT ![s] = cmd.argv]
        /\ job' = [job EXCEPT ![a] = s] /\ UNCHANGED <<user_mappings, esp, region, cursor>>
    BY DEF Launch, spaceVars
  <1>3. ASSUME NEW b \in Actor, b # a PROVE SameLoad(b) /\ (pc[b] # "idle" => job[b] # s)
    <2>1. pc'[b] = pc[b] /\ job'[b] = job[b]
      BY <1>1, <1>2, <1>3 DEF MapInv, OwnerType
    <2>2. pc[b] # "idle" => state[job[b]] \in {"loading", "dying"}
      BY DEF MapInv, OwnerType, OwnerInv
    <2> QED BY <1>2, <2>1, <2>2 DEF SameLoad
  <1>4. \A x \in Space : x # s => SameProgram(x)
    BY <1>2 DEF SameProgram, MapInv, OwnerType, WorkInv, WorkType
  <1>5. LoadedAt(a)'
    BY <1>1 DEF LoadedAt, Mapping, MapInv, OwnerType
  <1>6. state'[s] = "loading" /\ image'[s] = cmd.image /\ argv'[s] = cmd.argv
    BY <1>2 DEF MapInv, OwnerType, WorkInv, WorkType
  <1>7. ProgramAt(s)'
    BY <1>6 DEF ProgramAt
  <1> QED BY <1>2, <1>3, <1>4, <1>5, <1>7, LoadStep DEF LoadInv

(* ... its destruction begins, ...                                         *)
LEMMA CollectLoad ==
  ASSUME MapInv, LoadInv, NEW a \in Actor, NEW s \in Space, Collect(a, s)
  PROVE  LoadInv'
  <1>1. /\ state[s] = "zombie" /\ state' = [state EXCEPT ![s] = "dying"]
        /\ job' = [job EXCEPT ![a] = s] /\ pc' = [pc EXCEPT ![a] = "unmap"]
        /\ UNCHANGED <<user_mappings, image, argv, esp, region, cursor>>
    BY DEF Collect, Goto, spaceVars
  <1>2. ASSUME NEW b \in Actor, b # a PROVE SameLoad(b) /\ (pc[b] # "idle" => job[b] # s)
    <2>1. pc'[b] = pc[b] /\ job'[b] = job[b]
      BY <1>1, <1>2 DEF MapInv, OwnerType
    <2>2. pc[b] # "idle" => state[job[b]] \in {"loading", "dying"}
      BY DEF MapInv, OwnerType, OwnerInv
    <2> QED BY <1>1, <2>1, <2>2 DEF SameLoad
  <1>3. \A x \in Space : x # s => SameProgram(x)
    BY <1>1 DEF SameProgram, MapInv, OwnerType
  <1>4. LoadedAt(a)'
    BY <1>1 DEF LoadedAt, Mapping, MapInv, OwnerType
  <1>5. state'[s] = "dying"
    BY <1>1 DEF MapInv, OwnerType
  <1>6. ProgramAt(s)'
    BY <1>1, <1>5 DEF ProgramAt, LoadInv
  <1> QED BY <1>1, <1>2, <1>3, <1>4, <1>6, LoadStep DEF LoadInv

(* ... and nothing is said of the space any more.                          *)
LEMMA UnmapNextLoad == ASSUME MapInv, WorkInv, LoadInv, NEW a \in Actor, UnmapNext(a) PROVE LoadInv'
  <1>1. CASE Halt("destroy")
    BY <1>1, HaltLoad
  <1>2. CASE ~ Halt("destroy")
    <2>1. pc[a] = "unmap"
      BY DEF UnmapNext
    <2>2. PICK s \in Space : /\ s = job[a] /\ state[s] = "dying"
                             /\ \A b \in Actor : b # a /\ pc[b] # "idle" => job[b] # s
      BY <2>1, OwnJob
    <2>3. PICK va : va = Head(user_mappings[s])
      OBVIOUS
    <2>4. /\ user_mappings' = [user_mappings EXCEPT ![s] = mapping_remove(user_mappings[s], va)]
          /\ UNCHANGED <<pc, job, region, cursor, state, image, argv, esp>>
      BY <1>2, <2>2, <2>3 DEF UnmapNext, unmap_page, procVars, workVars
    <2>5. \A x \in Space : x # s => SameProgram(x)
      BY <2>4 DEF SameProgram, WorkInv, WorkType
    <2>6. \A b \in Actor : b # a => SameLoad(b) /\ (pc[b] # "idle" => job[b] # s)
      BY <2>2, <2>4 DEF SameLoad
    <2>7. LoadedAt(a)' /\ ProgramAt(s)'
      BY <2>1, <2>2, <2>4 DEF LoadedAt, ProgramAt, Mapping, LoadInv
    <2> QED BY <2>4, <2>5, <2>6, <2>7, LoadStep DEF LoadInv
  <1> QED BY <1>1, <1>2

LEMMA FreeDirectoryLoad ==
  ASSUME MapInv, WorkInv, LoadInv, NEW a \in Actor, FreeDirectory(a)
  PROVE  LoadInv'
  <1>1. pc[a] = "unmap"
    BY DEF FreeDirectory
  <1>2. PICK s \in Space : s = job[a] /\ \A b \in Actor : b # a /\ pc[b] # "idle" => job[b] # s
    BY <1>1, OwnJob
  <1>3. /\ state' = [state EXCEPT ![s] = "absent"] /\ image' = [image EXCEPT ![s] = NoImage]
        /\ argv' = [argv EXCEPT ![s] = <<>>] /\ esp' = [esp EXCEPT ![s] = 0]
        /\ job' = [job EXCEPT ![a] = NoSpace] /\ pc' = [pc EXCEPT ![a] = "idle"]
        /\ UNCHANGED <<user_mappings, region, cursor>>
    BY <1>2 DEF FreeDirectory, Goto
  <1>4. \A b \in Actor : b # a => SameLoad(b) /\ (pc[b] # "idle" => job[b] # s)
    BY <1>2, <1>3 DEF SameLoad, MapInv, OwnerType
  <1>5. \A x \in Space : x # s => SameProgram(x)
    BY <1>3 DEF SameProgram, MapInv, OwnerType, WorkInv, WorkType, LoadInv
  <1>6. LoadedAt(a)'
    BY <1>3 DEF LoadedAt, Mapping, MapInv, OwnerType
  <1>7. ProgramAt(s)'
    BY <1>3 DEF ProgramAt, MapInv, OwnerType
  <1>8. DOMAIN esp' = Space
    BY <1>3 DEF LoadInv
  <1> QED BY <1>4, <1>5, <1>6, <1>7, <1>8, LoadStep

(* A directory is made: the stack is mapped first, from its first page.    *)
LEMMA CreateLoad == ASSUME MapInv, WorkInv, LoadInv, NEW a \in Actor, Create(a) PROVE LoadInv'
  <1>1. CASE ~ Loadable(image[job[a]])
    BY <1>1, HaltLoad DEF Create
  <1>2. CASE Loadable(image[job[a]])
    <2>1. pc[a] = "create" /\ StartRegion(a, 0) /\ UNCHANGED <<state, image, argv, esp, job>>
      BY <1>2 DEF Create, procVars
    <2>2. PICK s \in Space : /\ s = job[a] /\ SpaceAt(s) /\ state[s] = "loading"
                             /\ \A b \in Actor : b # a /\ pc[b] # "idle" => job[b] # s
      BY <2>1, OwnJob DEF Loading
    <2>3. user_mappings' = [user_mappings EXCEPT ![s] = <<>>]
      BY <1>2, <2>2 DEF Create, address_space_create
    <2>4. PICK img : img = image[s] /\ IsImage(img) /\ Loadable(img) /\ 0 \in RegionsOf(img) /\ 0 <= Len(img.phdrs)
      BY <1>2, <2>2 DEF SpaceAt, RegionsOf, IsImage
    <2>5. /\ pc'[a] = "page" /\ region'[a] = 0 /\ cursor'[a] = Region(img, 0).vaddr
          /\ \A b \in Actor : b # a => pc'[b] = pc[b] /\ region'[b] = region[b] /\ cursor'[b] = cursor[b]
      BY <2>1, <2>2, <2>4, StartedRegion DEF MapInv, WorkInv
    <2>6. \A b \in Actor : b # a => SameLoad(b) /\ (pc[b] # "idle" => job[b] # s)
      BY <2>1, <2>2, <2>5 DEF SameLoad
    <2>7. \A x \in Space : x # s => SameProgram(x)
      BY <2>1, <2>3 DEF SameProgram, WorkInv, WorkType
    <2>8. ProgramAt(s)'
      BY <2>1, <2>2 DEF ProgramAt, LoadInv
    <2>9. user_mappings'[s] = <<>> /\ Listed(s)' = {} /\ job'[a] = s /\ Listed(job[a])' = Listed(s)'
      BY <2>1, <2>2, <2>3 DEF Listed, WorkInv, WorkType
    <2>10. PICK w \in Nat : w = Region(img, 0).vaddr
      BY <2>4, LoadableRegions DEF RegionOk
    <2>11. Before(img, 0) = {} /\ \A v \in Pages : ~ (w <= v /\ v < w)
      <3>1. \A k \in RegionsOf(img) : k \in Nat
        BY <2>4 DEF RegionsOf
      <3>2. \A v \in Pages : v \in Nat
        BY PageAddresses DEF Word
      <3> QED BY <2>10, <3>1, <3>2 DEF Before
    <2>12. image'[s] = img
      BY <2>1, <2>4
    <2>13. LoadedAt(a)'
      BY <2>5, <2>9, <2>10, <2>11, <2>12 DEF LoadedAt, Mapping
    <2> QED BY <2>1, <2>6, <2>7, <2>8, <2>13, LoadStep DEF LoadInv
  <1> QED BY <1>1, <1>2

(* A page is added to the list.                                            *)
LEMMA ListGrows ==
  ASSUME NEW s \in Space, ListAt(s), NEW va \in Nat, user_mappings'[s] = <<va>> \o user_mappings[s]
  PROVE  \A v : v \in Listed(s)' <=> v \in Listed(s) \/ v = va
  <1>1. PICK L \in Seq(Nat) : L = user_mappings[s]
    BY DEF ListAt
  <1>2. PICK M : M = <<va>> \o L
    OBVIOUS
  <1>3. /\ M \in Seq(Nat) /\ Len(M) = Len(L) + 1 /\ M[1] = va
        /\ \A i \in 1..Len(L) : M[i + 1] = L[i]
    BY <1>2, Prepended
  <1>4. Len(L) \in Nat /\ DOMAIN L = 1..Len(L) /\ DOMAIN M = 1..(Len(L) + 1)
    BY <1>3
  <1>5. ASSUME NEW i \in DOMAIN L PROVE \E j \in DOMAIN M : M[j] = L[i]
    <2>0. i \in 1..Len(L) /\ i + 1 \in 1..(Len(L) + 1)
      BY <1>4
    <2>1. i + 1 \in DOMAIN M /\ M[i + 1] = L[i]
      BY <1>3, <1>4, <2>0
    <2> QED BY <2>1
  <1>6. ASSUME NEW j \in DOMAIN M, M[j] # va PROVE \E i \in DOMAIN L : M[j] = L[i]
    <2>1. j \in 1..(Len(L) + 1) /\ j # 1
      BY <1>3, <1>4, <1>6
    <2>2. PICK i \in 1..Len(L) : j = i + 1
      <3>1. j - 1 \in 1..Len(L) /\ j = (j - 1) + 1
        BY <1>4, <2>1
      <3> QED BY <3>1
    <2> QED BY <1>3, <1>4, <2>2
  <1>7. 1 \in DOMAIN M
    BY <1>4
  <1>8. user_mappings'[s] = M
    BY <1>1, <1>2
  <1>9. Listed(s)' = {M[j] : j \in DOMAIN M} /\ Listed(s) = {L[i] : i \in DOMAIN L}
    BY <1>1, <1>8 DEF Listed
  <1>10. \A v : v \in {M[j] : j \in DOMAIN M} <=> v \in {L[i] : i \in DOMAIN L} \/ v = va
    <2>1. M[1] = va
      BY <1>3
    <2>2. ASSUME NEW v, v \in {M[j] : j \in DOMAIN M}, v # va PROVE v \in {L[i] : i \in DOMAIN L}
      <3>1. PICK j \in DOMAIN M : v = M[j]
        BY <2>2
      <3>2. PICK i \in DOMAIN L : M[j] = L[i]
        BY <1>6, <2>2, <3>1
      <3> QED BY <3>1, <3>2
    <2>3. ASSUME NEW v, v \in {L[i] : i \in DOMAIN L} PROVE v \in {M[j] : j \in DOMAIN M}
      <3>1. PICK i \in DOMAIN L : v = L[i]
        BY <2>3
      <3>2. PICK j \in DOMAIN M : M[j] = L[i]
        BY <1>5
      <3> QED BY <3>1, <3>2
    <2>4. va \in {M[j] : j \in DOMAIN M}
      BY <1>7, <2>1
    <2> QED BY <2>2, <2>3, <2>4
  <1> QED BY ONLY <1>9, <1>10

(* The page at the cursor is added and the cursor passes it.               *)
LEMMA MapPageLoad == ASSUME MemInv, LoadInv, NEW a \in Actor, MapPage(a) PROVE LoadInv'
  <1>1. CASE Halt("load failed")
    BY <1>1, HaltLoad
  <1>2. CASE ~ Halt("load failed")
    <2> USE DEF MemInv
    <2>1. pc[a] = "map"
      BY DEF MapPage
    <2>2. PICK s \in Space : /\ s = job[a] /\ SpaceAt(s) /\ state[s] = "loading"
                             /\ \A b \in Actor : b # a /\ pc[b] # "idle" => job[b] # s
      BY <2>1, OwnJob DEF Loading
    <2>3. CursorAt(a) /\ RegionOk(image[s], region[a]) /\ cursor[a] \in Nat /\ cursor[a] \in Pages
      BY <2>1, <2>2, CursorPage
    <2>4. PICK va \in Nat, w \in Nat, P \in Nat \ {0} :
            /\ va = cursor[a] /\ w = Region(image[s], region[a]).vaddr /\ P = PageSize
            /\ va % PageSize = 0 /\ w <= va
      BY <2>1, <2>2, <2>3, Sizes DEF CursorAt, RegionOk
    <2>5. PICK place \in {"page", "fill"} : pc' = [pc EXCEPT ![a] = place]
      BY <1>2 DEF MapPage, Goto
    <2>6. /\ cursor' = [cursor EXCEPT ![a] = va + P]
          /\ user_mappings' = [user_mappings EXCEPT ![s] = <<va>> \o user_mappings[s]]
          /\ UNCHANGED <<state, image, argv, esp, job, region>>
      BY <1>2, <2>2, <2>4 DEF MapPage, map_page, procVars
    <2>7. \A b \in Actor : /\ pc'[b] = (IF b = a THEN place ELSE pc[b])
                           /\ cursor'[b] = (IF b = a THEN va + P ELSE cursor[b])
      BY <2>5, <2>6 DEF MapInv, OwnerType, WorkInv, WorkType
    <2>8. \A b \in Actor : b # a => SameLoad(b) /\ (pc[b] # "idle" => job[b] # s)
      BY <2>2, <2>6, <2>7 DEF SameLoad
    <2>9. \A x \in Space : x # s => SameProgram(x)
      BY <2>6 DEF SameProgram, WorkInv, WorkType
    <2>10. ProgramAt(s)'
      BY <2>2, <2>6 DEF ProgramAt, LoadInv
    <2>11. user_mappings'[s] = <<va>> \o user_mappings[s]
      BY <2>6 DEF WorkInv, WorkType
    <2>12. \A v : v \in Listed(s)' <=> v \in Listed(s) \/ v = va
      BY <2>11, ListGrows DEF PageInv
    <2>13. \A v : v \in Listed(s) <=> v \in Before(image[s], region[a]) \/ (v \in Pages /\ w <= v /\ v < va)
      BY <2>1, <2>2, <2>4 DEF LoadInv, LoadedAt, Mapping
    <2>14. ASSUME NEW v PROVE (v \in Pages /\ w <= v /\ v < va + P) <=> (v \in Pages /\ w <= v /\ v < va) \/ v = va
      <3>1. CASE v \in Pages
        <4>1. v \in Nat /\ v % PageSize = 0
          BY <3>1, PageAddresses DEF Word
        <4>2. va < v => va + P <= v
          BY <2>4, <4>1, AlignedStep
        <4> QED BY <2>4, <3>1, <4>1, <4>2
      <3> QED BY <2>3, <2>4, <3>1
    <2>15. \A v : v \in Listed(s)' <=> v \in Before(image[s], region[a]) \/ (v \in Pages /\ w <= v /\ v < va + P)
      BY <2>12, <2>13, <2>14
    <2>16. /\ pc'[a] = place /\ job'[a] = s /\ image'[s] = image[s] /\ region'[a] = region[a]
           /\ cursor'[a] = va + P /\ Listed(job[a])' = Listed(s)'
      BY <2>2, <2>6, <2>7 DEF Listed
    <2>17. LoadedAt(a)'
      BY <2>4, <2>15, <2>16 DEF LoadedAt
    <2> QED BY <2>6, <2>8, <2>9, <2>10, <2>17, LoadStep DEF LoadInv
  <1> QED BY <1>1, <1>2

(* A region is done: the space has its pages too.                          *)
LEMMA FillLoad == ASSUME MemInv, LoadInv, NEW a \in Actor, Fill(a) PROVE LoadInv'
  <1>1. CASE Halt("page fault")
    BY <1>1, HaltLoad
  <1>2. CASE ~ Halt("page fault")
    <2> USE DEF MemInv
    <2>1. pc[a] = "fill"
      BY DEF Fill
    <2>2. PICK s \in Space : /\ s = job[a] /\ SpaceAt(s) /\ WorkAt(a) /\ state[s] = "loading"
                             /\ \A b \in Actor : b # a /\ pc[b] # "idle" => job[b] # s
      BY <2>1, OwnJob DEF Loading
    <2>3. PICK img : img = image[s] /\ IsImage(img) /\ Loadable(img)
      BY <2>1, <2>2 DEF SpaceAt, WorkAt, Made, Filling, Mapping
    <2>4. PICK i \in RegionsOf(img) : i = region[a] /\ cursor[a] = RegionEnd(Region(img, i))
      BY <2>1, <2>2, <2>3 DEF WorkAt, CursorAt, Mapping
    <2>5. PICK j \in Nat : /\ j = NextRegion(img, i) /\ i < j
                           /\ j > Len(img.phdrs) \/ j \in RegionsOf(img)
                           /\ \A k \in RegionsOf(img) : k < j <=> k <= i
      BY <2>3, NextRegionIs
    <2>6. /\ StartRegion(a, j) /\ UNCHANGED <<user_mappings, state, image, argv, esp, job>>
      BY <1>2, <2>2, <2>3, <2>4, <2>5 DEF Fill, procVars
    <2>7. RegionOk(img, i)
      BY <2>3, LoadableRegions
    <2>8. \A v : v \in Listed(s) <=> v \in Before(img, j)
      <3>1. \A v : v \in Listed(s) <=>
               v \in Before(img, i) \/ (v \in Pages /\ Region(img, i).vaddr <= v /\ v < RegionEnd(Region(img, i)))
        BY <2>1, <2>2, <2>3, <2>4 DEF LoadInv, LoadedAt, Mapping
      <3>2. \A v : v \in Listed(s) <=> v \in Before(img, i) \/ (v \in Pages /\ v \in RegionPages(img, i))
        BY <2>7, <3>1 DEF RegionOk
      <3>3. \A k \in RegionsOf(img) : k < j <=> k < i \/ k = i
        <4>1. \A k \in RegionsOf(img) : k \in Nat
          BY <2>3 DEF RegionsOf
        <4> QED BY <2>5, <4>1
      <3>4. \A v : v \in Before(img, j) <=> v \in Before(img, i) \/ (v \in Pages /\ v \in RegionPages(img, i))
        BY <3>3 DEF Before
      <3> QED BY <3>2, <3>4
    <2>9. /\ pc'[a] \in {"page", "args"}
          /\ j > Len(img.phdrs) => pc'[a] = "args"
          /\ j <= Len(img.phdrs) => pc'[a] = "page" /\ region'[a] = j /\ cursor'[a] = Region(img, j).vaddr
          /\ \A b \in Actor : b # a => pc'[b] = pc[b] /\ region'[b] = region[b] /\ cursor'[b] = cursor[b]
      BY <2>2, <2>3, <2>5, <2>6, StartedRegion DEF MapInv, WorkInv
    <2>10. \A b \in Actor : b # a => SameLoad(b) /\ (pc[b] # "idle" => job[b] # s)
      BY <2>2, <2>6, <2>9 DEF SameLoad
    <2>11. \A x \in Space : x # s => SameProgram(x)
      BY <2>6 DEF SameProgram
    <2>12. ProgramAt(s)'
      BY <2>2, <2>6 DEF ProgramAt, LoadInv
    <2>13. /\ job'[a] = s /\ image'[s] = img /\ Listed(job[a])' = Listed(s)
      BY <2>2, <2>3, <2>6 DEF Listed
    <2>14. Len(img.phdrs) \in Nat
      BY <2>3 DEF IsImage
    <2>15. CASE j > Len(img.phdrs)
      <3>1. \A k \in RegionsOf(img) : k < j
        BY <2>14, <2>15 DEF RegionsOf
      <3>2. \A v : v \in Listed(s) <=> v \in Declared(img)
        BY <2>8, <3>1 DEF Before, Declared
      <3>3. Listed(s) = Declared(img)
        BY <3>2
      <3>4. LoadedAt(a)'
        BY <2>9, <2>13, <2>15, <3>3 DEF LoadedAt, Mapping
      <3> QED BY <2>6, <2>10, <2>11, <2>12, <3>4, LoadStep DEF LoadInv
    <2>16. CASE j <= Len(img.phdrs)
      <3>1. j \in RegionsOf(img)
        BY <2>5, <2>14, <2>16
      <3>2. PICK w \in Nat : w = Region(img, j).vaddr
        BY <2>3, <3>1, LoadableRegions DEF RegionOk
      <3>3. \A v \in Pages : ~ (w <= v /\ v < w)
        BY PageAddresses DEF Word
      <3>4. LoadedAt(a)'
        BY <2>8, <2>9, <2>13, <2>16, <3>2, <3>3 DEF LoadedAt
      <3> QED BY <2>6, <2>10, <2>11, <2>12, <3>4, LoadStep DEF LoadInv
    <2> QED BY <2>5, <2>14, <2>15, <2>16
  <1> QED BY <1>1, <1>2

(* process_start_user: the program runs with its pages and its stack.      *)
LEMMA StartLoad == ASSUME MapInv, WorkInv, LoadInv, NEW a \in Actor, Start(a) PROVE LoadInv'
  <1>1. CASE \E why : Halt(why)
    BY <1>1, HaltLoad
  <1>2. CASE ~ \E why : Halt(why)
    <2>1. pc[a] = "args"
      BY DEF Start
    <2>2. PICK s \in Space : /\ s = job[a] /\ state[s] = "loading"
                             /\ \A b \in Actor : b # a /\ pc[b] # "idle" => job[b] # s
      BY <2>1, OwnJob DEF Loading
    <2>3. PICK sp : sp = InitialEsp(argv[s])
      OBVIOUS
    <2>4. /\ ArgumentsFit(argv[s]) /\ esp' = [esp EXCEPT ![s] = sp]
          /\ state' = [state EXCEPT ![s] = "live"] /\ job' = [job EXCEPT ![a] = NoSpace]
          /\ pc' = [pc EXCEPT ![a] = "idle"]
          /\ UNCHANGED <<user_mappings, image, argv, region, cursor>>
      BY <1>2, <2>2, <2>3 DEF Start, Goto
    <2>5. \A b \in Actor : b # a => SameLoad(b) /\ (pc[b] # "idle" => job[b] # s)
      BY <2>2, <2>4 DEF SameLoad, MapInv, OwnerType
    <2>6. \A x \in Space : x # s => SameProgram(x)
      BY <2>4 DEF SameProgram, MapInv, OwnerType, LoadInv
    <2>7. LoadedAt(a)'
      BY <2>4 DEF LoadedAt, Mapping, MapInv, OwnerType
    <2>8. Listed(s) = Declared(image[s])
      BY <2>1, <2>2 DEF LoadInv, LoadedAt
    <2>9. state'[s] = "live" /\ esp'[s] = sp /\ image'[s] = image[s] /\ argv'[s] = argv[s] /\ Listed(s)' = Listed(s)
      BY <2>4 DEF MapInv, OwnerType, LoadInv, Listed
    <2>10. \E cmd \in Commands : image[s] = cmd.image /\ argv[s] = cmd.argv
      BY <2>2 DEF LoadInv, ProgramAt
    <2>11. ProgramAt(s)'
      BY <2>3, <2>4, <2>8, <2>9, <2>10 DEF ProgramAt
    <2>12. DOMAIN esp' = Space
      BY <2>4 DEF LoadInv
    <2> QED BY <2>5, <2>6, <2>7, <2>11, <2>12, LoadStep
  <1> QED BY <1>1, <1>2

(* Every step preserves the invariant.                                     *)
LEMMA NextLoad ==
  ASSUME MemInv, LoadInv, [Next]_vars
  PROVE  LoadInv'
  <1> USE DEF MemInv
  <1>1. ASSUME NEW a \in Actor, AllocationFails(a) PROVE LoadInv'
    BY <1>1, HaltLoad DEF AllocationFails
  <1>2. ASSUME NEW a \in Actor,
               \E s \in Space, cmd \in (IF launches = 0 THEN Commands ELSE LaterCommands),
                  grow \in BOOLEAN : Launch(a, s, cmd, grow)
        PROVE  LoadInv'
    BY <1>2, LaunchLoad, MemoryAssumption
  <1>3. CASE UNCHANGED vars
    BY <1>3, LoadSame DEF vars, spaceVars, procVars, workVars
  <1> QED BY <1>1, <1>2, <1>3, DispatchLoad, ScanLoad, GrowPageLoad, GrowTableLoad, GrowMapLoad,
             CreateLoad, AllocPageLoad, AllocTableLoad, MapPageLoad, FillLoad, StartLoad,
             UnmapNextLoad, FreeTableLoad, FreeDirectoryLoad, ExitLoad, CollectLoad DEF Next

-----------------------------------------------------------------------------
(* The positions of the strings are what the recursion says: the partial   *)
(* functions that satisfy it extend one another, from the last string to   *)
(* the first.                                                              *)
StringsFrom(args, lo, f) ==
  f = [j \in lo..(Len(args) + 1) |->
         IF j = Len(args) + 1 THEN StackTop ELSE f[j + 1] - (args[j] + 1)]

LEMMA StringsExist ==
  ASSUME NEW args \in Seq(Nat)
  PROVE  \E f : StringsFrom(args, 1, f)
  <1>1. PICK n \in Nat : n = Len(args)
    OBVIOUS
  <1> DEFINE Bad == {k \in 0..n : ~ \E f : StringsFrom(args, n + 1 - k, f)}
  <1>2. CASE Bad = {}
    <2>1. n \in 0..n /\ n + 1 - n = 1
      BY <1>1
    <2>2. \E f : StringsFrom(args, n + 1 - n, f)
      BY <1>2, <2>1
    <2> QED BY <2>1, <2>2
  <1>3. CASE Bad # {}
    <2>1. Bad \in SUBSET Nat
      OBVIOUS
    <2>2. PICK k \in Bad : \A m \in Bad : k <= m
      BY <1>3, <2>1, LeastNat
    <2>3. k \in 0..n /\ ~ \E f : StringsFrom(args, n + 1 - k, f)
      OBVIOUS
    <2>4. CASE k = 0
      <3> DEFINE f == [j \in {n + 1} |-> StackTop]
      <3>1. (n + 1 - 0)..(n + 1) = {n + 1}
        BY <1>1
      <3>2. \A j \in {n + 1} : f[j] = StackTop /\ j = n + 1
        OBVIOUS
      <3>3. StringsFrom(args, n + 1 - 0, f)
        BY <1>1, <3>1, <3>2 DEF StringsFrom
      <3> QED BY <2>3, <2>4, <3>3
    <2>5. CASE k # 0
      <3>1. k - 1 \in 0..n /\ k - 1 < k
        BY <2>3, <2>5
      <3>2. k - 1 \notin Bad
        <4>1. k - 1 \in Nat /\ ~ (k <= k - 1)
          BY <2>3, <3>1
        <4> HIDE DEF Bad
        <4> QED BY <2>2, <4>1
      <3>3. PICK f : StringsFrom(args, n + 1 - (k - 1), f)
        BY <3>1, <3>2
      <3>4. PICK lo \in 1..n : lo = n + 1 - k /\ n + 1 - (k - 1) = lo + 1
        <4>1. PICK m \in Nat \ {0} : m = k /\ m <= n
          BY <2>3, <2>5
        <4>2. n + 1 - m \in 1..n /\ n + 1 - (m - 1) = (n + 1 - m) + 1
          BY ONLY <4>1, n \in Nat, m \in Nat \ {0}
        <4> QED BY <4>1, <4>2
      <3> DEFINE D == lo..(n + 1)
                 g == [j \in D |-> IF j = lo THEN f[lo + 1] - (args[lo] + 1) ELSE f[j]]
                 h == [j \in D |-> IF j = n + 1 THEN StackTop ELSE g[j + 1] - (args[j] + 1)]
      <3>5. \A j \in (lo + 1)..(n + 1) : f[j] = IF j = n + 1 THEN StackTop ELSE f[j + 1] - (args[j] + 1)
        BY <1>1, <3>3, <3>4 DEF StringsFrom
      <3>6. ASSUME NEW j \in D PROVE g[j] = h[j]
        <4>1. CASE j = n + 1
          <5>1. j # lo /\ j \in (lo + 1)..(n + 1)
            BY <1>1, <4>1
          <5> QED BY <3>5, <4>1, <5>1
        <4>2. CASE j # n + 1
          <5>1. j + 1 \in D /\ j + 1 # lo /\ (j # lo => j \in (lo + 1)..(n + 1))
            BY <1>1, <4>2
          <5>2. g[j + 1] = f[j + 1]
            BY <5>1
          <5>3. h[j] = f[j + 1] - (args[j] + 1)
            BY <4>2, <5>2
          <5> QED BY <3>5, <4>2, <5>1, <5>3
        <4> QED BY <4>1, <4>2
      <3>7. g = h
        BY <3>6
      <3>8. StringsFrom(args, lo, g)
        <4>1. PICK G : G = g
          OBVIOUS
        <4>2. G = [j \in D |-> IF j = n + 1 THEN StackTop ELSE G[j + 1] - (args[j] + 1)]
          BY <3>7, <4>1
        <4> QED BY <1>1, <4>1, <4>2 DEF StringsFrom
      <3> QED BY <2>3, <3>4, <3>8
    <2> QED BY <2>4, <2>5
  <1> QED BY <1>2, <1>3

(* So StringAt is what its recursive definition says.                      *)
LEMMA Strings ==
  ASSUME NEW args \in Seq(Nat)
  PROVE  /\ StringAt(args, Len(args) + 1) = StackTop
         /\ \A j \in 1..Len(args) : StringAt(args, j) = StringAt(args, j + 1) - (args[j] + 1)
  <1> DEFINE at == CHOOSE f : StringsFrom(args, 1, f)
  <1>1. StringsFrom(args, 1, at)
    BY StringsExist
  <1>2. \A j : StringAt(args, j) = at[j]
    BY DEF StringAt, StringsFrom
  <1> HIDE DEF at
  <1>3. PICK n \in Nat : n = Len(args)
    OBVIOUS
  <1>4. \A j \in 1..(n + 1) : at[j] = IF j = n + 1 THEN StackTop ELSE at[j + 1] - (args[j] + 1)
    BY <1>1, <1>3 DEF StringsFrom
  <1> QED BY <1>2, <1>3, <1>4

(* Strings lie below one another and below the top of the stack.           *)
LEMMA StringsTyped ==
  ASSUME NEW args \in Seq(Nat)
  PROVE  \A j \in 1..(Len(args) + 1) : StringAt(args, j) \in Int
  <1>1. PICK n \in Nat : n = Len(args)
    OBVIOUS
  <1>2. StackTop \in Int
    BY ImageAssumption
  <1>3. \A j \in 1..n : args[j] \in Nat
    BY <1>1
  <1> DEFINE Bad == {k \in 0..n : StringAt(args, n + 1 - k) \notin Int}
  <1>4. CASE Bad # {}
    <2>1. Bad \in SUBSET Nat
      OBVIOUS
    <2>2. PICK k \in Bad : \A m \in Bad : k <= m
      BY <1>4, <2>1, LeastNat
    <2>3. k \in 0..n /\ StringAt(args, n + 1 - k) \notin Int
      OBVIOUS
    <2>4. CASE k = 0
      <3>1. n + 1 - k = n + 1
        BY <2>4
      <3> QED BY <1>1, <1>2, <2>3, <3>1, Strings
    <2>5. CASE k # 0
      <3>1. PICK m \in Nat \ {0} : m = k /\ m <= n
        BY <2>3, <2>5
      <3>2. /\ m - 1 \in 0..n /\ m - 1 \in Nat /\ ~ (m <= m - 1)
            /\ n + 1 - m \in 1..n /\ n + 1 - (m - 1) = (n + 1 - m) + 1
        BY ONLY <3>1, n \in Nat, m \in Nat \ {0}
      <3>3. m - 1 \notin Bad
        <4> HIDE DEF Bad
        <4> QED BY <2>2, <3>1, <3>2
      <3>4. StringAt(args, n + 1 - (m - 1)) \in Int
        BY <3>2, <3>3
      <3>5. PICK j \in 1..n : j = n + 1 - m
        BY <3>2
      <3>6. StringAt(args, j) = StringAt(args, j + 1) - (args[j] + 1)
        BY <1>1, Strings
      <3>7. StringAt(args, j + 1) \in Int /\ args[j] \in Nat
        BY <1>3, <3>2, <3>4, <3>5
      <3>8. StringAt(args, j) \in Int
        BY <3>6, <3>7
      <3> QED BY <2>3, <3>1, <3>5, <3>8
    <2> QED BY <2>4, <2>5
  <1>5. CASE Bad = {}
    <2>1. ASSUME NEW j \in 1..(n + 1) PROVE StringAt(args, j) \in Int
      <3>1. PICK k \in 0..n : j = n + 1 - k
        <4>1. n + 1 - j \in 0..n /\ j = n + 1 - (n + 1 - j)
          BY <2>1
        <4> QED BY <4>1
      <3> QED BY <1>5, <3>1
    <2> QED BY <1>1, <2>1
  <1> QED BY <1>4, <1>5

(* What a stack that process_setup_arguments accepts looks like.           *)
LEMMA StackLayout ==
  ASSUME NEW args \in Seq(Nat), ArgumentsFit(args)
  PROVE  /\ InitialEsp(args) \in Nat /\ StackTop - StackSize <= InitialEsp(args)
         /\ InitialEsp(args) % WordSize = 0
         /\ InitialEsp(args) + TableBytes(args) <= StringAt(args, 1)
         /\ \A i \in 1..Len(args) : StringAt(args, i) + args[i] + 1 = StringAt(args, i + 1)
  <1>1. PICK n \in Nat : n = Len(args)
    OBVIOUS
  <1>2. PICK W \in Nat \ {0}, base \in Nat : W = WordSize /\ base = StackTop - StackSize
    BY ImageAssumption
  <1>3. PICK S \in Int : S = StringAt(args, 1)
    BY <1>1, StringsTyped
  <1>4. PICK T \in Nat : T = TableBytes(args) /\ T = (n + 3) * W
    BY <1>1, <1>2 DEF TableBytes
  <1>5. base <= S
    <2>1. CASE n = 0
      <3>1. S = StackTop
        <4>1. Len(args) + 1 = 1
          BY <1>1, <2>1
        <4> QED BY <1>3, <4>1, Strings
      <3> QED BY <1>2, <3>1, ImageAssumption
    <2>2. CASE n # 0
      <3>1. 1 \in 1..n /\ 1 \in DOMAIN args
        BY <1>1, <2>2
      <3>2. StringAt(args, 1 + 1) >= base + args[1] + 1
        BY <1>2, <3>1 DEF ArgumentsFit
      <3>3. S = StringAt(args, 1 + 1) - (args[1] + 1)
        BY <1>1, <1>3, <3>1, Strings
      <3>4. StringAt(args, 1 + 1) \in Int /\ args[1] \in Nat
        BY <1>1, <3>1, StringsTyped
      <3> QED BY <3>2, <3>3, <3>4
    <2> QED BY <2>1, <2>2
  <1>6. S \in Nat
    BY <1>5
  <1>7. PICK q \in Nat, o \in 0..(W - 1) : S = q * W + o /\ o = S % W
    BY <1>6, DivMod
  <1>8. AlignedSp(args) = q * W /\ q * W \in Nat /\ q * W <= S
    <2>1. AlignedSp(args) = S - o
      BY <1>2, <1>3, <1>7 DEF AlignedSp
    <2>2. PICK M \in Nat : M = q * W
      OBVIOUS
    <2>3. S - o = M /\ M <= S
      BY ONLY <1>7, <2>2, M \in Nat, S \in Int, o \in 0..(W - 1), W \in Nat
    <2> QED BY <2>1, <2>2, <2>3
  <1>9. q * W >= base + T
    BY <1>2, <1>4, <1>8 DEF ArgumentsFit
  <1>10. PICK m \in Nat : q = n + 3 + m
    <2>1. q < n + 3 => q * W + W <= (n + 3) * W
      BY Times
    <2>2. q >= n + 3
      BY <1>4, <1>8, <1>9, <2>1
    <2>3. q - (n + 3) \in Nat /\ q = n + 3 + (q - (n + 3))
      BY <2>2
    <2> QED BY <2>3
  <1>11. q * W = (n + 3) * W + m * W /\ m * W \in Nat
    BY <1>10
  <1>12. InitialEsp(args) = m * W
    BY <1>4, <1>8, <1>11 DEF InitialEsp
  <1>13. (m * W) % W = 0
    <2>1. (m * W + 0) % W = 0
      BY DivModOf
    <2> QED BY <1>11, <2>1
  <1>14. base <= m * W /\ m * W + T <= S
    BY <1>4, <1>8, <1>9, <1>11
  <1>15. \A i \in 1..n : StringAt(args, i) + args[i] + 1 = StringAt(args, i + 1)
    <2>1. ASSUME NEW i \in 1..n PROVE StringAt(args, i) + args[i] + 1 = StringAt(args, i + 1)
      <3>1. StringAt(args, i) = StringAt(args, i + 1) - (args[i] + 1)
        BY <1>1, Strings
      <3>2. StringAt(args, i + 1) \in Int /\ args[i] \in Nat
        BY <1>1, StringsTyped
      <3> QED BY <3>1, <3>2
    <2> QED BY <2>1
  <1> QED BY <1>1, <1>2, <1>3, <1>4, <1>11, <1>12, <1>13, <1>14, <1>15

(* While elf_load_process works, and it can be preempted between any two   *)
(* pages when the monitor runs it, the space has the pages of the regions  *)
(* that are done and those of the current one below the cursor; afterwards *)
(* those of its whole image; if no other launch begins while the loader is *)
(* inside pmm_alloc_page.                                                  *)
THEOREM LoadInductive == ASSUME "alloc_race" \notin Features PROVE Spec => [](MemInv /\ LoadInv)
  <1>1. Init => MemInv /\ LoadInv
    BY InitMap, InitWork, InitPages, InitLoad DEF MemInv
  <1>2. ASSUME MemInv, LoadInv, [Next]_vars, "alloc_race" \notin Features PROVE MemInv' /\ LoadInv'
    BY <1>2, NextMap, NextWork, NextPages, NextLoad DEF MemInv
  <1> QED BY <1>1, <1>2, PTL DEF Spec

(* The pages an image declares, as the union of what its headers say.      *)
LEMMA DeclaredPages ==
  ASSUME NEW img, IsImage(img)
  PROVE  Declared(img) = PagesOf(StackTop - StackSize, StackSize)
           \cup UNION {PagesOf(img.phdrs[i].vaddr, img.phdrs[i].memsz) : i \in {i \in DOMAIN img.phdrs : img.phdrs[i].load}}
  <1>1. DOMAIN img.phdrs = 1..Len(img.phdrs) /\ Len(img.phdrs) \in Nat
    BY DEF IsImage
  <1>2. \A start, size : PagesOf(start, size) \subseteq Pages
    BY DEF PagesOf
  <1>3. \A k : k \in RegionsOf(img) <=> k = 0 \/ (k \in DOMAIN img.phdrs /\ img.phdrs[k].load)
    BY <1>1 DEF RegionsOf
  <1>4. \A k \in DOMAIN img.phdrs : RegionPages(img, k) = PagesOf(img.phdrs[k].vaddr, img.phdrs[k].memsz)
    BY <1>1 DEF RegionPages
  <1>5. RegionPages(img, 0) = PagesOf(StackTop - StackSize, StackSize)
    BY DEF RegionPages
  <1>6. \A v : v \in Declared(img) <=>
          \/ v \in RegionPages(img, 0)
          \/ \E k \in DOMAIN img.phdrs : img.phdrs[k].load /\ v \in RegionPages(img, k)
    BY <1>2, <1>3, <1>4, <1>5 DEF Declared
  <1> QED BY <1>4, <1>5, <1>6

(* What was read of an image lies inside it.                               *)
LEMMA HeadersInside ==
  ASSUME NEW img, IsImage(img), Loadable(img)
  PROVE  img.phoff + Len(img.phdrs) * PhdrSize <= img.size
  <1>1. PICK n \in Word : n = Len(img.phdrs) * PhdrSize
    BY DEF IsImage
  <1>2. PICK o \in Word : o = img.phoff
    BY DEF IsImage
  <1>3. ~ range_overflows(o, n) /\ Plus(o, n) <= img.size
    BY <1>1, <1>2 DEF Loadable, validate_elf_header
  <1>4. o + n < AddrMod
    BY <1>3, PlusExact, Sizes DEF Word
  <1>5. Plus(o, n) = o + n
    BY <1>4, PlusExact
  <1> QED BY <1>1, <1>2, <1>3, <1>5

(* A process that elf_load_process and process_setup_arguments let run has *)
(* the pages its program headers declare and its stack, no more and no     *)
(* less; what was read of its image lay inside it, although the checks     *)
(* compute in 32 bits; and its argument table is aligned and below its     *)
(* strings, which do not overlap.  The hypothesis is LoadInductive's.      *)
THEOREM AlwaysLoadedAsDeclared ==
  ASSUME "alloc_race" \notin Features PROVE Spec => []LoadedAsDeclared
  <1>1. ASSUME MemInv, LoadInv, NEW s \in Space, state[s] = "live"
        PROVE  LET img == image[s]
                   loads == {i \in DOMAIN img.phdrs : img.phdrs[i].load}
                   base == StackTop - StackSize
                   args == argv[s]
                   ends(i) == StringAt(args, i) + args[i] + 1
               IN /\ {user_mappings[s][i] : i \in DOMAIN user_mappings[s]} =
                       PagesOf(base, StackSize)
                         \cup UNION {PagesOf(img.phdrs[i].vaddr, img.phdrs[i].memsz) : i \in loads}
                  /\ img.phoff + Len(img.phdrs) * PhdrSize <= img.size
                  /\ \A i \in loads : img.phdrs[i].offset + img.phdrs[i].filesz <= img.size
                  /\ base <= esp[s] /\ esp[s] % WordSize = 0
                  /\ esp[s] + TableBytes(args) <= (IF args = <<>> THEN StackTop ELSE StringAt(args, 1))
                  /\ \A i \in DOMAIN args : ends(i) <= (IF i = Len(args) THEN StackTop ELSE StringAt(args, i + 1))
    <2>1. PICK img : img = image[s] /\ IsImage(img) /\ Loadable(img)
      BY <1>1 DEF MemInv, WorkInv, SpaceAt, Made
    <2>2. PICK args \in Seq(Nat) : args = argv[s] /\ ArgumentsFit(args)
      BY <1>1 DEF MemInv, WorkInv, SpaceAt, LoadInv, ProgramAt
    <2>3. Listed(s) = Declared(img) /\ esp[s] = InitialEsp(args)
      BY <1>1, <2>1, <2>2 DEF LoadInv, ProgramAt
    <2>4. {user_mappings[s][i] : i \in DOMAIN user_mappings[s]} =
            PagesOf(StackTop - StackSize, StackSize)
              \cup UNION {PagesOf(img.phdrs[i].vaddr, img.phdrs[i].memsz) : i \in {i \in DOMAIN img.phdrs : img.phdrs[i].load}}
      <3>1. PICK D : D = PagesOf(StackTop - StackSize, StackSize)
              \cup UNION {PagesOf(img.phdrs[i].vaddr, img.phdrs[i].memsz) : i \in {i \in DOMAIN img.phdrs : img.phdrs[i].load}}
        OBVIOUS
      <3>2. Declared(img) = D
        BY <2>1, <3>1, DeclaredPages
      <3>3. {user_mappings[s][i] : i \in DOMAIN user_mappings[s]} = D
        BY <2>3, <3>2 DEF Listed
      <3> QED BY <3>1, <3>3
    <2>5. \A i \in {i \in DOMAIN img.phdrs : img.phdrs[i].load} :
            img.phdrs[i].offset + img.phdrs[i].filesz <= img.size
      <3>1. DOMAIN img.phdrs = 1..Len(img.phdrs)
        BY <2>1 DEF IsImage
      <3> QED BY <2>1, <3>1, SegmentChecked
    <2>6. /\ StackTop - StackSize <= esp[s] /\ esp[s] % WordSize = 0
          /\ esp[s] + TableBytes(args) <= StringAt(args, 1)
          /\ \A i \in 1..Len(args) : StringAt(args, i) + args[i] + 1 = StringAt(args, i + 1)
      BY <2>2, <2>3, StackLayout
    <2>7. args = <<>> => StringAt(args, 1) = StackTop
      <3>1. args = <<>> => Len(args) + 1 = 1
        OBVIOUS
      <3> QED BY <3>1, Strings
    <2>8. ASSUME NEW i \in DOMAIN args
          PROVE  StringAt(args, i) + args[i] + 1 <= (IF i = Len(args) THEN StackTop ELSE StringAt(args, i + 1))
      <3>1. i \in 1..Len(args) /\ i + 1 \in 1..(Len(args) + 1)
        OBVIOUS
      <3>2. PICK e \in Int : e = StringAt(args, i + 1)
        BY <3>1, StringsTyped
      <3>3. i = Len(args) => e = StackTop
        BY <3>2, Strings
      <3>4. e <= e
        OBVIOUS
      <3> QED BY <2>6, <3>1, <3>2, <3>3, <3>4
    <2> QED BY <2>1, <2>2, <2>4, <2>5, <2>6, <2>7, <2>8, HeadersInside
  <1>2. MemInv /\ LoadInv => LoadedAsDeclared
    BY <1>1 DEF LoadedAsDeclared
  <1> QED BY <1>2, LoadInductive, PTL

-----------------------------------------------------------------------------
(* An image that the checks refuse is bad.                                 *)
LEMMA SegmentGood ==
  ASSUME NEW ph \in ProgramHeader, NEW size \in Word,
         ph.memsz # 0, ~ (ph.memsz > MaxImageMemory), ~ (ph.filesz > ph.memsz),
         ~ (ph.offset + ph.filesz > size), ~ (ph.vaddr < UserBase), ~ (ph.vaddr + ph.memsz > UserTop),
         ph.vaddr % PageSize = 0
  PROVE  validate_load_segment(ph, size)
  <1>1. PICK o \in Word, va \in Word, fsz \in Word, msz \in Word :
          o = ph.offset /\ va = ph.vaddr /\ fsz = ph.filesz /\ msz = ph.memsz
    BY DEF ProgramHeader
  <1>2. /\ o \in Nat /\ va \in Nat /\ fsz \in Nat /\ msz \in Nat /\ size \in Nat
        /\ UserTop \in Nat /\ AddrMod \in Nat /\ UserBase \in Nat /\ MaxImageMemory \in Nat
        /\ size < AddrMod /\ UserTop < AddrMod
    BY Addresses, Sizes, ImageAssumption DEF Word
  <1>3. /\ msz # 0 /\ msz <= MaxImageMemory /\ fsz <= msz /\ o + fsz <= size
        /\ UserBase <= va /\ va + msz <= UserTop /\ va < UserTop
        /\ o + fsz < AddrMod /\ va + msz < AddrMod
        /\ ~ (AddrMod <= o + fsz) /\ ~ (AddrMod <= va + msz)
    BY <1>1, <1>2
  <1>4. ~ range_overflows(o, fsz) /\ Plus(o, fsz) = o + fsz /\ ~ range_overflows(va, msz) /\ Plus(va, msz) = va + msz
    BY <1>3, PlusExact
  <1> QED BY <1>1, <1>3, <1>4 DEF validate_load_segment

LEMMA ImageGood ==
  ASSUME NEW img, IsImage(img), ~ BadImage(img)
  PROVE  Loadable(img)
  <1>1. PICK n \in Word : n = Len(img.phdrs) * PhdrSize
    BY DEF IsImage
  <1>2. PICK o \in Word, size \in Word : o = img.phoff /\ size = img.size
    BY DEF IsImage
  <1>3. /\ img.ident /\ ~ (size < EhdrSize) /\ o # 0 /\ ~ (o + n > size)
        /\ \E i \in DOMAIN img.phdrs : img.phdrs[i].load
    BY <1>1, <1>2 DEF BadImage
  <1>4. o + n <= size /\ EhdrSize <= size /\ o + n < AddrMod /\ ~ (AddrMod <= o + n)
    BY <1>3, Sizes, ImageAssumption DEF Word
  <1>5. ~ range_overflows(o, n) /\ Plus(o, n) = o + n
    BY <1>4, PlusExact
  <1>6. img.phdrs # <<>>
    BY <1>3
  <1>7. validate_elf_header(img)
    BY <1>1, <1>2, <1>3, <1>4, <1>5, <1>6 DEF validate_elf_header
  <1>8. ASSUME NEW i \in DOMAIN img.phdrs PROVE validate_load_segment(img.phdrs[i], img.size)
    <2>1. CASE ~ img.phdrs[i].load
      BY <2>1 DEF validate_load_segment
    <2>2. CASE img.phdrs[i].load
      <3>1. PICK ph \in ProgramHeader : ph = img.phdrs[i]
        BY DEF IsImage
      <3>2. /\ ph.memsz # 0 /\ ~ (ph.memsz > MaxImageMemory) /\ ~ (ph.filesz > ph.memsz)
            /\ ~ (ph.offset + ph.filesz > size) /\ ~ (ph.vaddr < UserBase)
            /\ ~ (ph.vaddr + ph.memsz > UserTop) /\ ph.vaddr % PageSize = 0
        BY <1>2, <2>2, <3>1 DEF BadImage
      <3> QED BY <1>2, <3>1, <3>2, SegmentGood
    <2> QED BY <2>1, <2>2
  <1> QED BY <1>3, <1>7, <1>8 DEF Loadable

(* So is one whose regions overlap.                                        *)
LEMMA OverlapBad ==
  ASSUME NEW img, IsImage(img), NEW i \in RegionsOf(img), NEW k \in RegionsOf(img), k < i,
         NEW v, v \in RegionPages(img, i), v \in RegionPages(img, k)
  PROVE  BadImage(img)
  <1>1. DOMAIN img.phdrs = 1..Len(img.phdrs) /\ Len(img.phdrs) \in Nat
    BY DEF IsImage
  <1>2. /\ i # 0 /\ i # k /\ i \in DOMAIN img.phdrs /\ img.phdrs[i].load
        /\ k = 0 \/ (k \in DOMAIN img.phdrs /\ img.phdrs[k].load)
    BY <1>1 DEF RegionsOf
  <1>3. v \in PagesOf(img.phdrs[i].vaddr, img.phdrs[i].memsz)
    BY <1>2 DEF RegionPages
  <1>4. CASE k = 0
    <2>1. PagesOf(img.phdrs[i].vaddr, img.phdrs[i].memsz) \cap PagesOf(StackTop - StackSize, StackSize) # {}
      BY <1>3, <1>4 DEF RegionPages
    <2> QED BY <1>2, <2>1 DEF BadImage
  <1>5. CASE k # 0
    <2>1. /\ k \in DOMAIN img.phdrs /\ img.phdrs[k].load
          /\ PagesOf(img.phdrs[i].vaddr, img.phdrs[i].memsz) \cap PagesOf(img.phdrs[k].vaddr, img.phdrs[k].memsz) # {}
      BY <1>2, <1>3, <1>5 DEF RegionPages
    <2> QED BY <1>2, <2>1 DEF BadImage
  <1> QED BY <1>4, <1>5

-----------------------------------------------------------------------------
(* A user address is mapped exactly when its page is listed.               *)
LEMMA EntryListed ==
  ASSUME MemInv, NEW s \in Space, NEW v \in Pages, user_virtual_allowed(v)
  PROVE  EntryIn(directory[s], v) # NotPresent <=> v \in Listed(s)
  <1>1. v \in Word /\ v \in Nat /\ s \in Actor /\ s # KernelSpace
    BY PageAddresses, SpaceAssumption DEF Word, Actor
  <1>2. Entries[s][v] = EntryIn(directory[s], v)
    BY <1>1, EntriesAt DEF OwnPage, DirectoryOf
  <1>3. PICK e \in Entry : e = EntryIn(directory[s], v)
    BY <1>1, EntryTyped DEF MemInv, MapInv, DirectoryType, PageInv, FrameInv
  <1>4. /\ v \in Listed(s) <=> e.frame # NoFrame
        /\ e.frame = NoFrame => e.user = FALSE
    BY <1>1, <1>2, <1>3 DEF MemInv, PageInv, ListAt
  <1>5. e.frame = NoFrame => e = NotPresent
    BY <1>4 DEF Entry, NotPresent
  <1>6. e = NotPresent => e.frame = NoFrame
    BY EmptyEntries
  <1> QED BY <1>3, <1>4, <1>5, <1>6

LEMMA ByteListed ==
  ASSUME MemInv, NEW s \in Space, NEW b \in Word, align_down_page(b) \in Listed(s)
  PROVE  EntryIn(directory[s], b) # NotPresent
  <1>1. PICK v \in Pages : v = align_down_page(b) /\ user_virtual_allowed(v) /\ v \in Listed(s)
    BY ListedPages
  <1> QED BY <1>1, EntryListed, ByteEntry

-----------------------------------------------------------------------------
(* The causes that are allowed.                                            *)
Cause(why) ==
  /\ why \in {"no", "no memory", "load failed"}
  /\ why = "load failed" => BadImage(image[job[current_space]])

(* A panic for an allowed cause, and no panic.                             *)
LEMMA HaltCause == ASSUME NEW why, Halt(why), Cause(why) PROVE PanicOnlyForCause'
  <1>1. halted' = why /\ UNCHANGED <<image, job, pc, current_space>>
    BY DEF Halt, procVars, workVars
  <1> QED BY <1>1 DEF Cause, PanicOnlyForCause

LEMMA RunsOn == ASSUME halted' = "no" PROVE PanicOnlyForCause'
  BY DEF PanicOnlyForCause

(* The heap's new page is behind a table that the loaded directory has.    *)
LEMMA GrowMapCause == ASSUME MemInv, TableInv, NEW a \in Actor, GrowMap(a) PROVE PanicOnlyForCause'
  <1>1. pc[a] = "grow_map" /\ halted = "no"
    BY DEF GrowMap, Running
  <1>2. CASE a = KernelSpace
    <2>1. DirectoryOf(a)[directory_index(HeapNext)] # NoFrame
      BY <1>1, <1>2 DEF MemInv, WorkInv, WorkAt, DirectoryOf
    <2> QED BY <1>1, <2>1, RunsOn DEF GrowMap
  <1>3. CASE a # KernelSpace
    <2>1. DirectoryOf(a)[directory_index(HeapNext)] # NoFrame
      BY <1>1, <1>3 DEF TableInv, Actor, Growing, DirectoryOf
    <2> QED BY <1>1, <2>1, RunsOn DEF GrowMap
  <1> QED BY <1>2, <1>3

(* The checks refuse only images that are bad, ...                         *)
LEMMA CreateCause == ASSUME MemInv, NEW a \in Actor, Create(a) PROVE PanicOnlyForCause'
  <1>1. a = current_space /\ pc[a] = "create" /\ halted = "no"
    BY DEF Create, Running
  <1>2. CASE Loadable(image[job[a]])
    BY <1>1, <1>2, RunsOn DEF Create
  <1>3. CASE ~ Loadable(image[job[a]])
    <2>1. PICK s \in Space : s = job[a] /\ SpaceAt(s) /\ state[s] = "loading"
      BY <1>1, OwnJob DEF Loading, MemInv
    <2>2. BadImage(image[s])
      BY <1>3, <2>1, ImageGood DEF SpaceAt
    <2>3. Cause("load failed")
      BY <1>1, <2>1, <2>2 DEF Cause
    <2> QED BY <1>3, <2>3, HaltCause DEF Create
  <1> QED BY <1>2, <1>3

(* ... and a page is refused only where segments overlap.                  *)
LEMMA MapPageCause == ASSUME MemInv, LoadInv, NEW a \in Actor, MapPage(a) PROVE PanicOnlyForCause'
  <1>1. a = current_space /\ pc[a] = "map" /\ halted = "no"
    BY DEF MapPage, Running
  <1>2. PICK s \in Space : s = job[a] /\ SpaceAt(s) /\ state[s] = "loading"
    BY <1>1, OwnJob DEF Loading, MemInv
  <1>3. PICK img : img = image[s]
    OBVIOUS
  <1>4. /\ CursorAt(a) /\ cursor[a] \in Pages /\ user_virtual_allowed(cursor[a]) /\ cursor[a] \in Nat
        /\ RegionOk(img, region[a]) /\ IsImage(img)
    BY <1>1, <1>2, <1>3, CursorPage DEF MemInv
  <1>5. PICK i \in RegionsOf(img), v \in Pages : i = region[a] /\ v = cursor[a]
    BY <1>2, <1>3, <1>4 DEF CursorAt
  <1>6. RegionValid(Region(img, i))
    BY <1>4, <1>5 DEF RegionOk
  <1>7. CASE EntryIn(directory[s], v) = NotPresent
    BY <1>1, <1>2, <1>3, <1>4, <1>5, <1>6, <1>7, RunsOn DEF MapPage
  <1>8. CASE EntryIn(directory[s], v) # NotPresent
    <2>1. v \in Listed(s)
      BY <1>4, <1>5, <1>8, EntryListed
    <2>2. ~ (v < v)
      BY <1>4, <1>5
    <2>3. v \in Before(img, i)
      BY <1>1, <1>2, <1>3, <1>5, <2>1, <2>2 DEF LoadInv, LoadedAt, Mapping
    <2>4. PICK k \in RegionsOf(img) : k < i /\ v \in RegionPages(img, k)
      BY <2>3 DEF Before
    <2>5. v \in RegionPages(img, i)
      BY <1>1, <1>2, <1>3, <1>4, <1>5 DEF RegionOk, CursorAt
    <2>6. BadImage(img)
      BY <1>4, <2>4, <2>5, OverlapBad
    <2>7. Cause("load failed")
      BY <1>1, <1>2, <1>3, <2>6 DEF Cause
    <2>8. Halt("load failed")
      BY <1>2, <1>5, <1>8 DEF MapPage
    <2> QED BY <2>7, <2>8, HaltCause
  <1> QED BY <1>7, <1>8

(* Every byte that is written of a region lies on a page that is mapped.   *)
LEMMA FillCause == ASSUME MemInv, LoadInv, NEW a \in Actor, Fill(a) PROVE PanicOnlyForCause'
  <1>1. a = current_space /\ pc[a] = "fill" /\ halted = "no"
    BY DEF Fill, Running
  <1>2. PICK s \in Space : s = job[a] /\ SpaceAt(s) /\ WorkAt(a) /\ state[s] = "loading"
    BY <1>1, OwnJob DEF Loading, MemInv
  <1>3. PICK img : img = image[s] /\ IsImage(img) /\ Loadable(img)
    BY <1>1, <1>2 DEF SpaceAt, WorkAt, Made, Filling, Mapping
  <1>4. PICK i \in RegionsOf(img) : i = region[a] /\ cursor[a] = RegionEnd(Region(img, i))
    BY <1>1, <1>2, <1>3 DEF WorkAt, CursorAt, Mapping
  <1> DEFINE r == Region(img, i)
  <1>5. RegionOk(img, i)
    BY <1>3, LoadableRegions
  <1>6. PICK w \in Nat, e \in Nat : /\ w = r.vaddr /\ e = RegionEnd(r) /\ w % PageSize = 0 /\ e <= UserTop
                                    /\ \A b \in Filled(r) : b \in Nat /\ w <= b /\ b < e
    BY <1>4, <1>5 DEF RegionOk
  <1>7. ASSUME NEW b \in Filled(r) PROVE EntryIn(directory[s], b) # NotPresent
    <2>1. b \in Nat /\ w <= b /\ b < e /\ b \in Word /\ w \in Word
      BY <1>6, Addresses, Sizes DEF Word
    <2>2. PICK p \in Pages : p = align_down_page(b) /\ p <= b
      BY <2>1, PageOfByte
    <2>3. w <= p
      <3>1. align_down_page(w) = w /\ align_down_page(w) <= align_down_page(b)
        <4>1. w <= w
          OBVIOUS
        <4> QED BY <1>6, <2>1, <4>1, AlignDown
      <3> QED BY <2>2, <3>1
    <2>4. p < e
      BY <2>1, <2>2, PageAddresses DEF Word
    <2>5. p \in Listed(s)
      BY <1>1, <1>2, <1>3, <1>4, <1>6, <2>3, <2>4 DEF LoadInv, LoadedAt, Mapping
    <2> QED BY <2>1, <2>2, <2>5, ByteListed
  <1>8. ~ Faults(s, Filled(r))
    BY <1>7 DEF Faults
  <1>9. halted' = halted
    BY <1>2, <1>3, <1>4, <1>8 DEF Fill
  <1> QED BY <1>1, <1>9, RunsOn

(* Every byte of the stack that process_setup_arguments writes is mapped.  *)
LEMMA StartCause ==
  ASSUME MemInv, LoadInv, NEW a \in Actor, Start(a), \A cmd \in Commands : ArgumentsFit(cmd.argv)
  PROVE  PanicOnlyForCause'
  <1>1. a = current_space /\ pc[a] = "args" /\ halted = "no"
    BY DEF Start, Running
  <1>2. PICK s \in Space : s = job[a] /\ SpaceAt(s) /\ WorkAt(a) /\ state[s] = "loading"
    BY <1>1, OwnJob DEF Loading, MemInv
  <1>3. PICK args \in Seq(Nat) : args = argv[s] /\ ArgumentsFit(args)
    <2>1. argv[s] \in Seq(Nat) /\ \E cmd \in Commands : argv[s] = cmd.argv
      BY <1>2 DEF SpaceAt, LoadInv, ProgramAt
    <2> QED BY <2>1
  <1>4. CASE ~ user_virtual_allowed(image[s].entry)
    <2>1. BadImage(image[s])
      BY <1>4 DEF BadImage
    <2>2. Cause("load failed")
      BY <1>1, <1>2, <2>1 DEF Cause
    <2>3. Halt("load failed")
      BY <1>2, <1>4 DEF Start
    <2> QED BY <2>2, <2>3, HaltCause
  <1>5. CASE user_virtual_allowed(image[s].entry)
    <2>1. PICK sp \in Nat, base \in Nat, top \in Nat :
            /\ sp = InitialEsp(args) /\ base = StackTop - StackSize /\ top = StackTop /\ base <= sp
            /\ StackSize \in Nat /\ top <= UserTop /\ top = base + StackSize
      <3>1. /\ StackTop \in Nat /\ StackSize \in Nat /\ StackSize <= StackTop /\ StackTop <= UserTop
        BY ImageAssumption
      <3>2. StackTop - StackSize \in Nat /\ StackTop = (StackTop - StackSize) + StackSize
        BY <3>1
      <3> QED BY <1>3, <3>1, <3>2, StackLayout
    <2>2. ASSUME NEW b \in sp..(top - 1) PROVE EntryIn(directory[s], b) # NotPresent
      <3>1. b \in Nat /\ base <= b /\ b < top /\ b \in Word
        BY <2>1, Addresses, Sizes DEF Word
      <3>2. PICK p \in Pages : p = align_down_page(b) /\ p <= b /\ b < p + PageSize /\ p \in Nat
        BY <3>1, PageOfByte, PageAddresses DEF Word
      <3>3. p < base + StackSize /\ base < p + PageSize
        BY <2>1, <3>1, <3>2, Sizes
      <3>4. p \in RegionPages(image[s], 0)
        BY <2>1, <3>3 DEF RegionPages, PagesOf
      <3>5. p \in Listed(s)
        BY <1>1, <1>2, <3>4 DEF LoadInv, LoadedAt, Declared, RegionsOf
      <3> QED BY <3>1, <3>2, <3>5, ByteListed
    <2>3. ~ Faults(s, sp..(StackTop - 1))
      BY <2>1, <2>2 DEF Faults
    <2>4. halted' = halted
      BY <1>2, <1>3, <1>5, <2>1, <2>3 DEF Start
    <2> QED BY <1>1, <2>4, RunsOn
  <1> QED BY <1>4, <1>5

(* A listed page is mapped when address_space_destroy comes to it, ...     *)
LEMMA UnmapNextCause == ASSUME MemInv, NEW a \in Actor, UnmapNext(a) PROVE PanicOnlyForCause'
  <1>1. pc[a] = "unmap" /\ halted = "no" /\ user_mappings[job[a]] # <<>>
    BY DEF UnmapNext, Running
  <1>2. PICK s \in Space : s = job[a]
    BY <1>1, OwnJob DEF MemInv
  <1>3. PICK v : v = Head(user_mappings[s]) /\ v \in Listed(s)
    <2>1. PICK L \in Seq(Nat) : L = user_mappings[s] /\ L # <<>>
      BY <1>1, <1>2 DEF MemInv, PageInv, ListAt
    <2>2. 1 \in DOMAIN L /\ Head(L) = L[1]
      BY <2>1
    <2> QED BY <2>1, <2>2 DEF Listed
  <1>4. EntryIn(directory[s], v) # NotPresent
    BY <1>3, ListedPages, EntryListed
  <1>5. halted' = halted
    BY <1>2, <1>3, <1>4 DEF UnmapNext
  <1> QED BY <1>1, <1>5, RunsOn

(* ... and its tables are empty when the list is.                          *)
LEMMA FreeTableCause == ASSUME MemInv, NEW a \in Actor, FreeTable(a) PROVE PanicOnlyForCause'
  <1>1. pc[a] = "unmap" /\ halted = "no" /\ user_mappings[job[a]] = <<>>
    BY DEF FreeTable, Running
  <1>2. PICK s \in Space : s = job[a]
    BY <1>1, OwnJob DEF MemInv
  <1>3. Listed(s) = {}
    BY <1>1, <1>2 DEF Listed
  <1>4. ASSUME NEW d \in UserTables(s) PROVE pte[directory[s][d]] = EmptyTable
    <2>1. d \in UserDirs /\ d \in Dirs /\ directory[s][d] # NoFrame /\ directory[s][d] \in Frames
      BY Addresses DEF UserTables, MemInv, MapInv, DirectoryType
    <2>2. PICK T \in [Indexes -> Entry] : T = pte[directory[s][d]]
      BY <2>1 DEF MemInv, PageInv, FrameInv, TableType
    <2>3. ASSUME NEW i \in Indexes PROVE T[i] = NotPresent
      <3>1. PICK v \in Pages : directory_index(v) = d /\ table_index(v) = i
        BY <2>1, PageOfIndexes
      <3>2. user_virtual_allowed(v)
        BY <2>1, <3>1, Addresses, PageAddresses
      <3>3. EntryIn(directory[s], v) = NotPresent
        BY <1>3, <3>2, EntryListed
      <3> QED BY <2>1, <2>2, <3>1, <3>3 DEF EntryIn
    <2>4. T = EmptyTable
      BY <2>3, EmptyEntries
    <2> QED BY <2>2, <2>4
  <1>5. halted' = halted
    BY <1>2, <1>4 DEF FreeTable
  <1> QED BY <1>1, <1>5, RunsOn

(* No step ends in a panic without cause.                                  *)
LEMMA NextCause ==
  ASSUME MemInv, LoadInv, TableInv, LowInv, PanicOnlyForCause, [Next]_vars,
         \A cmd \in Commands : ArgumentsFit(cmd.argv)
  PROVE  PanicOnlyForCause'
  <1>1. ASSUME NEW a \in Actor, AllocationFails(a) PROVE PanicOnlyForCause'
    <2>1. pc[a] # "grow_table"
      BY <1>1 DEF AllocationFails, LowInv, LowAt
    <2>2. Halt("no memory") /\ Cause("no memory")
      BY <1>1, <2>1 DEF AllocationFails, Cause
    <2> QED BY <2>2, HaltCause
  <1>2. ASSUME NEW a \in Actor,
               \/ Dispatch(a) \/ Scan(a) \/ GrowPage(a) \/ GrowTable(a) \/ AllocPage(a) \/ AllocTable(a)
               \/ FreeDirectory(a)
               \/ \E s \in Space : Exit(s, a) \/ Collect(a, s)
               \/ \E s \in Space, cmd \in (IF launches = 0 THEN Commands ELSE LaterCommands),
                     grow \in BOOLEAN : Launch(a, s, cmd, grow)
        PROVE  PanicOnlyForCause'
    <2>1. halted' = "no"
      BY <1>2 DEF Dispatch, Scan, GrowPage, GrowTable, AllocPage, AllocTable, FreeDirectory, Exit, Collect,
                  Launch, Take, Running
    <2> QED BY <2>1, RunsOn
  <1>3. CASE UNCHANGED vars
    BY <1>3 DEF vars, procVars, workVars, PanicOnlyForCause
  <1> QED BY <1>1, <1>2, <1>3, GrowMapCause, CreateCause, MapPageCause, FillCause, StartCause,
             UnmapNextCause, FreeTableCause DEF Next

(* Where the arguments passed fit (LimitsFit says when), the kernel panics *)
(* only for want of memory, which an allocation reports, or for an image   *)
(* that is bad: process_copy_to_user_init and process_zero_user_init never *)
(* touch a page that is not mapped, process_setup_arguments never fails,   *)
(* the memset of a new heap page never faults, and address_space_destroy   *)
(* never meets a listed page that is not mapped or a page table that is    *)
(* not empty.  Left out are the three uses for which the runs              *)
(* memory_allocrace, memory_heapfault and memory_nulltable show failures.  *)
THEOREM PanicAlwaysForCause ==
  ASSUME "alloc_race" \notin Features, "heap_table" \notin Features, "low_memory" \notin Features,
         \A cmd \in Commands : ArgumentsFit(cmd.argv)
  PROVE  Spec => []PanicOnlyForCause
  <1>1. Init => PanicOnlyForCause /\ LowInv
    BY DEF Init, PanicOnlyForCause, LowInv, LowAt
  <1>2. ASSUME MemInv, LowInv, [Next]_vars, "low_memory" \notin Features PROVE LowInv'
    BY <1>2, NextLow DEF MemInv
  <1>3. ASSUME MemInv, LoadInv, TableInv, LowInv, PanicOnlyForCause, [Next]_vars,
               \A cmd \in Commands : ArgumentsFit(cmd.argv)
        PROVE  PanicOnlyForCause'
    BY <1>3, NextCause
  <1> QED BY <1>1, <1>2, <1>3, LoadInductive, TableInductive, PTL DEF Spec

(* With at most n strings of less than M bytes, the j-th from the last     *)
(* lies at most j * M below the top of the stack.                          *)
LEMMA StringsBound ==
  ASSUME NEW args \in Seq(Nat), \A i \in DOMAIN args : args[i] < MaxArgString
  PROVE  \A k \in 0..Len(args) : StringAt(args, Len(args) + 1 - k) >= StackTop - k * MaxArgString
  <1>1. PICK n \in Nat : n = Len(args)
    OBVIOUS
  <1>2. PICK M \in Nat \ {0}, top \in Nat : M = MaxArgString /\ top = StackTop
    BY ImageAssumption
  <1>3. \A i \in 1..n : args[i] \in Nat /\ args[i] < M
    BY <1>1, <1>2
  <1> DEFINE Bad == {k \in 0..n : ~ (StringAt(args, n + 1 - k) >= top - k * M)}
  <1>4. CASE Bad # {}
    <2>1. Bad \in SUBSET Nat
      OBVIOUS
    <2>2. PICK k \in Bad : \A m \in Bad : k <= m
      BY <1>4, <2>1, LeastNat
    <2>3. k \in 0..n /\ ~ (StringAt(args, n + 1 - k) >= top - k * M)
      OBVIOUS
    <2>4. CASE k = 0
      <3>1. n + 1 - k = n + 1 /\ top - k * M = top
        BY <2>4
      <3>2. StringAt(args, n + 1) = top /\ top >= top
        BY <1>1, <1>2, Strings
      <3> QED BY <2>3, <3>1, <3>2
    <2>5. CASE k # 0
      <3>1. PICK m \in Nat : k = m + 1 /\ m + 1 <= n
        <4>1. k - 1 \in Nat /\ k = (k - 1) + 1 /\ (k - 1) + 1 <= n
          BY <2>3, <2>5
        <4> QED BY <4>1
      <3>2. /\ m \in 0..n /\ ~ (m + 1 <= m)
            /\ n + 1 - (m + 1) \in 1..n /\ n + 1 - m = (n + 1 - (m + 1)) + 1
        BY ONLY <3>1, n \in Nat, m \in Nat
      <3>3. m \notin Bad
        <4> HIDE DEF Bad
        <4> QED BY <2>2, <3>1, <3>2
      <3>4. StringAt(args, n + 1 - m) >= top - m * M
        BY <3>2, <3>3
      <3>5. PICK j \in 1..n : j = n + 1 - (m + 1)
        BY <3>2
      <3>6. StringAt(args, j) = StringAt(args, j + 1) - (args[j] + 1)
        BY <1>1, Strings
      <3>7. PICK x \in Int : x = StringAt(args, j + 1)
        BY <1>1, StringsTyped
      <3>8. x >= top - m * M
        BY <3>2, <3>4, <3>5, <3>7
      <3>9. PICK mM \in Nat : mM = m * M /\ (m + 1) * M = mM + M
        OBVIOUS
      <3>10. PICK y \in Nat : y = args[j] /\ y < M
        BY <1>3
      <3>11. x - (y + 1) >= top - (mM + M)
        BY ONLY <3>8, <3>9, <3>10, x \in Int, y \in Nat, mM \in Nat, M \in Nat, top \in Nat
      <3> QED BY <2>3, <3>1, <3>5, <3>6, <3>7, <3>9, <3>10, <3>11
    <2> QED BY <2>4, <2>5
  <1>5. CASE Bad = {}
    BY <1>1, <1>2, <1>5
  <1> QED BY <1>4, <1>5

(* Arguments within PROCESS_MAX_ARGC and PROCESS_MAX_ARG_STRING always fit *)
(* a stack that has room for all of them at once, as the kernel's one page *)
(* has: 16 * 128 + (16 + 4) * 4 <= 4096.                                   *)
THEOREM LimitsFit ==
  ASSUME MaxArgc * MaxArgString + (MaxArgc + 4) * WordSize <= StackSize,
         NEW args \in Seq(Nat), Len(args) <= MaxArgc, \A i \in DOMAIN args : args[i] < MaxArgString
  PROVE  ArgumentsFit(args)
  <1>1. PICK n \in Nat : n = Len(args)
    OBVIOUS
  <1>2. PICK M \in Nat \ {0}, c \in Nat \ {0}, W \in Nat \ {0}, top \in Nat, size \in Nat, base \in Nat :
          /\ M = MaxArgString /\ c = MaxArgc /\ W = WordSize /\ top = StackTop /\ size = StackSize
          /\ base = StackTop - StackSize /\ top = base + size
    <2>1. StackTop \in Nat /\ StackSize \in Nat /\ StackSize <= StackTop
      <3>1. StackTop \in 1..AddrMod /\ StackSize \in 1..AddrMod /\ StackSize <= StackTop
        BY ImageAssumption
      <3> QED BY <3>1, Sizes
    <2>2. StackTop - StackSize \in Nat /\ StackTop = (StackTop - StackSize) + StackSize
      BY <2>1
    <2> QED BY <2>1, <2>2, ImageAssumption
  <1>3. PICK nM \in Nat, nW \in Nat : /\ nM = n * M /\ nW = (n + 3) * W /\ nM + nW + W <= size
    <2>1. n * M <= c * M /\ n * M \in Nat /\ c * M \in Nat
      BY <1>1, <1>2, Times
    <2>2. (n + 3) * W + W = (n + 4) * W /\ (n + 3) * W \in Nat
      OBVIOUS
    <2>3. (n + 4) * W <= (c + 4) * W /\ (c + 4) * W \in Nat /\ (n + 4) * W \in Nat
      BY <1>1, <1>2, Times
    <2>4. c * M + (c + 4) * W <= size
      BY <1>2
    <2> QED BY <2>1, <2>2, <2>3, <2>4
  <1>4. ASSUME NEW j \in 1..(n + 1) PROVE StringAt(args, j) \in Int /\ StringAt(args, j) >= top - nM
    <2>1. PICK k \in 0..n : j = n + 1 - k
      <3>1. n + 1 - j \in 0..n /\ j = n + 1 - (n + 1 - j)
        OBVIOUS
      <3> QED BY <3>1
    <2>2. StringAt(args, j) >= top - k * M
      BY <1>1, <1>2, <2>1, StringsBound
    <2>3. k * M <= n * M /\ k * M \in Nat
      BY <2>1, Times
    <2>4. StringAt(args, j) \in Int
      BY <1>1, StringsTyped
    <2> QED BY <1>3, <2>2, <2>3, <2>4
  <1>5. ASSUME NEW i \in 1..n PROVE args[i] < MaxArgString /\ StringAt(args, i + 1) >= base + args[i] + 1
    <2>1. PICK y \in Nat : y = args[i] /\ y < M
      BY <1>1, <1>2
    <2>2. PICK x \in Int : x = StringAt(args, i + 1)
      BY <1>4
    <2>3. StringAt(args, i) = x - (y + 1)
      BY <1>1, <2>1, <2>2, Strings
    <2>4. x - (y + 1) >= top - nM
      BY <1>4, <2>3
    <2>5. x >= base + y + 1
      BY ONLY <1>2, <1>3, <2>4, x \in Int, y \in Nat, nM \in Nat, nW \in Nat, W \in Nat, top \in Nat, base \in Nat, size \in Nat
    <2> QED BY <1>2, <2>1, <2>2, <2>5
  <1>6. AlignedSp(args) >= base + TableBytes(args)
    <2>1. PICK S \in Int : S = StringAt(args, 1) /\ S >= top - nM
      BY <1>4
    <2>2. S \in Nat
      BY ONLY <1>2, <1>3, <2>1, S \in Int, nM \in Nat, nW \in Nat, W \in Nat, top \in Nat, base \in Nat, size \in Nat
    <2>3. PICK o \in 0..(W - 1) : o = S % W
      BY <2>2, DivMod
    <2>4. AlignedSp(args) = S - o
      BY <1>2, <2>1, <2>3 DEF AlignedSp
    <2>5. S - o >= base + nW
      BY ONLY <1>2, <1>3, <2>1, <2>3, S \in Int, o \in 0..(W - 1), nM \in Nat, nW \in Nat, W \in Nat, top \in Nat, base \in Nat, size \in Nat
    <2> QED BY <1>1, <1>2, <1>3, <2>4, <2>5 DEF TableBytes
  <1>7. DOMAIN args = 1..n
    BY <1>1
  <1> QED BY <1>1, <1>2, <1>5, <1>6, <1>7 DEF ArgumentsFit
=============================================================================
