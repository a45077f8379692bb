---------------------------- MODULE ProgramImage ----------------------------
(***************************************************************************)
(* The loader's view of a program: the checks of kernel/elf_loader.c on    *)
(* the headers of an ELF image, the regions it then maps, and the stack    *)
(* that process_setup_arguments (kernel/process.c) lays out.               *)
(*                                                                         *)
(* An image is a record: size, whether its identification is right         *)
(* (e_ident, e_type, e_machine, entry sizes), phoff, the program headers   *)
(* and the entry point.  Arguments are the lengths of their strings.       *)
(***************************************************************************)
EXTENDS Integers, Sequences, PhysicalMemory

CONSTANTS
  UserBase, UserTop,         \* ADDRESS_SPACE_USER_BASE, ADDRESS_SPACE_USER_TOP
  StackTop, StackSize,       \* ELF_USER_STACK_TOP, ELF_USER_STACK_SIZE
  EhdrSize, PhdrSize,        \* sizeof(elf32_ehdr_t), sizeof(elf32_phdr_t)
  MaxImageMemory,            \* ELF_MAX_IMAGE_MEMORY
  WordSize,                  \* sizeof(uint32_t)
  MaxArgc, MaxArgString      \* PROCESS_MAX_ARGC, PROCESS_MAX_ARG_STRING

ASSUME ImageAssumption ==
  /\ {UserBase, UserTop, StackTop, StackSize} \subseteq {n \in 1..AddrMod : n % PageSize = 0}
  /\ UserBase <= StackTop - StackSize /\ StackTop <= UserTop /\ StackSize <= StackTop
  /\ {EhdrSize, PhdrSize, MaxImageMemory, WordSize, MaxArgc, MaxArgString} \subseteq Nat \ {0}
  /\ PageSize % WordSize = 0

Word == 0..(AddrMod - 1)   \* the values of uint32_t

(* elf32_phdr_t, elf32_ehdr_t                                              *)
ProgramHeader == [load : BOOLEAN, offset : Word, vaddr : Word, filesz : Word, memsz : Word]
IsImage(img) ==
  /\ {img.size, img.phoff, img.entry} \subseteq Word /\ img.ident \in BOOLEAN
  /\ img.phdrs \in Seq(ProgramHeader)
  /\ Len(img.phdrs) * PhdrSize \in Word   \* e_phnum has 16 bits

-----------------------------------------------------------------------------
(* Unsigned 32-bit addition.                                               *)
Plus(a, b) == (a + b) % AddrMod
range_overflows(start, size) == Plus(start, size) < start

validate_elf_header(img) ==
  LET phdr_bytes == Len(img.phdrs) * PhdrSize
  IN /\ img.size >= EhdrSize /\ img.ident
     /\ img.phoff # 0 /\ img.phdrs # <<>>
     /\ ~ range_overflows(img.phoff, phdr_bytes)
     /\ Plus(img.phoff, phdr_bytes) <= img.size

\* Mutant of validate_load_segment: the file part may exceed the segment.
MutValidateSegment(ph, image_size) ==
  ph.load =>
    /\ ph.memsz # 0
    /\ ~ range_overflows(ph.offset, ph.filesz)
    /\ Plus(ph.offset, ph.filesz) <= image_size
    /\ ~ range_overflows(ph.vaddr, ph.memsz)
    /\ ph.memsz <= MaxImageMemory
    /\ UserBase <= ph.vaddr /\ ph.vaddr < UserTop
    /\ Plus(ph.vaddr, ph.memsz) <= UserTop
    /\ ph.vaddr % PageSize = 0

(* Segments that are not PT_LOAD pass.                                     *)
validate_load_segment(ph, image_size) ==
  ph.load =>
    /\ ph.memsz # 0 /\ ph.filesz <= ph.memsz
    /\ ~ range_overflows(ph.offset, ph.filesz)
    /\ Plus(ph.offset, ph.filesz) <= image_size
    /\ ~ range_overflows(ph.vaddr, ph.memsz)
    /\ ph.memsz <= MaxImageMemory
    /\ UserBase <= ph.vaddr /\ ph.vaddr < UserTop
    /\ Plus(ph.vaddr, ph.memsz) <= UserTop
    /\ ph.vaddr % PageSize = 0

(* The checks of elf_load_process before it maps anything.                 *)
Loadable(img) ==
  /\ validate_elf_header(img)
  /\ \A i \in DOMAIN img.phdrs : validate_load_segment(img.phdrs[i], img.size)
  /\ \E i \in DOMAIN img.phdrs : img.phdrs[i].load

(* The regions elf_load_process maps and fills: 0 is the stack, which is   *)
(* only zeroed, i the segment of the i-th program header, from its first   *)
(* page.                                                                   *)
Region(img, i) ==
  IF i = 0
  THEN [vaddr |-> StackTop - StackSize, size |-> StackSize, filesz |-> 0, memsz |-> StackSize]
  ELSE LET ph == img.phdrs[i]
       IN [vaddr |-> align_down_page(ph.vaddr),
           size  |-> align_up_page(Plus(ph.vaddr, ph.memsz)) - align_down_page(ph.vaddr),
           filesz |-> ph.filesz, memsz |-> ph.memsz]

(* Its order: the next PT_LOAD header after region i, or one past the last *)
(* header.                                                                 *)
NextRegion(img, i) ==
  LET rest == {j \in (i + 1)..Len(img.phdrs) : img.phdrs[j].load}
  IN IF rest = {} THEN Len(img.phdrs) + 1 ELSE CHOOSE j \in rest : \A k \in rest : j <= k

(* process_map_user_region: whether it takes the region, and where the     *)
(* pages it maps end.                                                      *)
RegionValid(r) == ~ range_overflows(r.vaddr, r.size)
RegionEnd(r) == align_up_page(Plus(r.vaddr, r.size))

(* The bytes that process_copy_to_user_init and process_zero_user_init     *)
(* then write.                                                             *)
Filled(r) == r.vaddr..(r.vaddr + (IF r.memsz > r.filesz THEN r.memsz ELSE r.filesz) - 1)

-----------------------------------------------------------------------------
\* Mutant of StringAt: the terminator is not counted.
MutStringAt(argv, i) ==
  LET at[j \in 1..(Len(argv) + 1)] ==
        IF j = Len(argv) + 1 THEN StackTop ELSE at[j + 1] - argv[j]
  IN at[i]

(* Where process_setup_arguments puts the i-th string: they are pushed     *)
(* from the last to the first, each with its terminator.                   *)
StringAt(argv, i) ==
  LET at[j \in 1..(Len(argv) + 1)] ==
        IF j = Len(argv) + 1 THEN StackTop ELSE at[j + 1] - (argv[j] + 1)
  IN at[i]

(* argc, the pointers and two null words.                                  *)
TableBytes(argv) == (Len(argv) + 3) * WordSize

(* The stack pointer below the strings, aligned, and below the table.      *)
AlignedSp(argv) == StringAt(argv, 1) - (StringAt(argv, 1) % WordSize)
InitialEsp(argv) == AlignedSp(argv) - TableBytes(argv)

(* Whether process_setup_arguments succeeds.                               *)
ArgumentsFit(argv) ==
  LET base == StackTop - StackSize
  IN /\ Len(argv) <= MaxArgc
     /\ \A i \in DOMAIN argv : argv[i] < MaxArgString /\ StringAt(argv, i + 1) >= base + argv[i] + 1
     /\ AlignedSp(argv) >= base + TableBytes(argv)
=============================================================================
