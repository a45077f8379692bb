-------------------------------- MODULE Files --------------------------------
(***************************************************************************)
(* The read-only file system of kernel/vfs.c, the descriptor table of a    *)
(* process (kernel/process.c) and the file system calls of                 *)
(* kernel/syscall.c, on top of the life of processes.                      *)
(*                                                                         *)
(* The file system calls never enable interrupts, so each one is a single  *)
(* action.  process_destroy closes what a process has left open: it takes  *)
(* the whole table under irq_save and then frees file after file with      *)
(* interrupts enabled.  Byte i of a node is i: a read that returns the     *)
(* wrong bytes returns other numbers.                                      *)
(***************************************************************************)
EXTENDS Process, Integers, FiniteSets, FiniteSetsExt

CONSTANTS
  File,      \* vfs_file objects kmalloc can hand out
  Node,      \* the paths of ramfs_nodes
  NodeSize,  \* node->size
  Fds,       \* PROCESS_FIRST_FILE_FD..(PROCESS_MAX_FDS - 1)
  RwMax,     \* SYSCALL_RW_MAX
  Word       \* 2^32, the range of an offset

ASSUME FilesAssumption ==
  /\ None \notin File \cup Node /\ Fds \subseteq Nat \ {0} /\ Word \in Nat \ {0}
  /\ NodeSize \in [Node -> 0..(Word - 1)]
  /\ RwMax \in Nat \ {0}

VARIABLES
  node,     \* file->node of an allocated object, None for a free one
  offset,   \* file->offset
  fds,      \* process->fds: fds[o][fd] is None where .used is 0
  closing   \* to_close of a caller of process_close_all_files

fileVars == <<node, offset, fds, closing>>

Failed == -1   \* 0xFFFFFFFF in eax

(* No file is open; process_create_empty clears the table of a process.    *)
FilesInit ==
  /\ node = [f \in File |-> None] /\ offset = [f \in File |-> 0]
  /\ fds = [o \in Proc |-> [d \in Fds |-> None]]
  /\ closing = [w \in Actors |-> {}]

-----------------------------------------------------------------------------
(* A system call of o that starts with syscall_finish_or_kill and finds    *)
(* nothing to do.                                                          *)
Calls(o) == InUser(o) /\ ~ kill_requested[o] /\ UNCHANGED vars

FreeFds(o) == {d \in Fds : fds[o][d] = None}
FirstFree(o, d) == d \in FreeFds(o) /\ \A e \in FreeFds(o) : d <= e
process_fd_get(o, fd) == IF fd \in Fds THEN fds[o][fd] ELSE None

(* kmalloc of a vfs_file.                                                  *)
NewFile == CHOOSE f \in File : node[f] = None

\* Mutant of Open: a file that finds no descriptor is not closed again.
MutOpen(o, path, r) ==
  \/ path \notin Node /\ r = Failed /\ UNCHANGED fileVars
  \/ /\ path \in Node /\ \E f \in File : node[f] = None
     /\ node' = [node EXCEPT ![NewFile] = path]
     /\ offset' = [offset EXCEPT ![NewFile] = 0]
     /\ \/ FreeFds(o) = {} /\ r = Failed /\ UNCHANGED fds
        \/ /\ FirstFree(o, r)
           /\ fds' = [fds EXCEPT ![o][r] = NewFile]
     /\ UNCHANGED closing

(* SYS_OPEN: vfs_open, process_fd_install into the first free slot, and    *)
(* vfs_close where there is none.                                          *)
Open(o, path, r) ==
  \/ path \notin Node /\ r = Failed /\ UNCHANGED fileVars
  \/ /\ path \in Node /\ \E f \in File : node[f] = None
     /\ \/ FreeFds(o) = {} /\ r = Failed /\ UNCHANGED fileVars
        \/ /\ FirstFree(o, r)
           /\ fds' = [fds EXCEPT ![o][r] = NewFile]
           /\ node' = [node EXCEPT ![NewFile] = path]
           /\ offset' = [offset EXCEPT ![NewFile] = 0]
           /\ UNCHANGED closing

\* Mutant of vfs_read: the length is not cut to what remains.
MutVfsRead(f, length) == IF offset[f] >= NodeSize[node[f]] THEN 0 ELSE length

(* vfs_read: how many bytes it copies, and which.                          *)
vfs_read(f, length) ==
  LET size == NodeSize[node[f]]
  IN IF offset[f] >= size THEN 0 ELSE Min({length, size - offset[f]})
Bytes(f, n) == [i \in 1..n |-> offset[f] + i - 1]

(* SYS_READ from a file; copied: copy_to_user works.  The offset has moved *)
(* even when it does not.                                                  *)
Read(o, fd, length, copied, r) ==
  LET f == process_fd_get(o, fd)
      asked == Min({length, RwMax})
  IN \/ asked = 0 /\ r = 0 /\ UNCHANGED fileVars
     \/ asked > 0 /\ f = None /\ r = Failed /\ UNCHANGED fileVars
     \/ /\ asked > 0 /\ f # None
        /\ offset' = [offset EXCEPT ![f] = (offset[f] + vfs_read(f, asked)) % Word]
        /\ r = IF copied THEN vfs_read(f, asked) ELSE Failed
        /\ UNCHANGED <<node, fds, closing>>

(* SYS_SEEK: vfs_seek refuses an unknown whence, and the sum, which is     *)
(* taken in 64 bits, must fit into 32.  The user's toyix_seek returns it   *)
(* as a signed number.                                                     *)
Whence == {"SET", "CUR", "END"}
Seek(o, fd, by, whence, r) ==
  LET f == process_fd_get(o, fd)
      base == CASE whence = "SET" -> 0
                [] whence = "CUR" -> offset[f]
                [] whence = "END" -> NodeSize[node[f]]
  IN \/ f = None /\ r = Failed /\ UNCHANGED fileVars
     \/ f # None /\ whence \notin Whence /\ r = Failed /\ UNCHANGED fileVars
     \/ /\ f # None /\ whence \in Whence /\ base + by \notin 0..(Word - 1)
        /\ r = Failed /\ UNCHANGED fileVars
     \/ /\ f # None /\ whence \in Whence /\ base + by \in 0..(Word - 1)
        /\ offset' = [offset EXCEPT ![f] = base + by]
        /\ r = IF base + by < Word \div 2 THEN base + by ELSE base + by - Word
        /\ UNCHANGED <<node, fds, closing>>

(* SYS_CLOSE: process_fd_close clears the slot, vfs_close frees the file.  *)
Close(o, fd, r) ==
  LET f == process_fd_get(o, fd)
  IN \/ f = None /\ r = Failed /\ UNCHANGED fileVars
     \/ /\ f # None /\ r = 0
        /\ fds' = [fds EXCEPT ![o][fd] = None]
        /\ node' = [node EXCEPT ![f] = None]
        /\ offset' = [offset EXCEPT ![f] = 0]
        /\ UNCHANGED closing

(* SYS_STAT: the size of the node; its type is always a regular file.      *)
Stat(path) == IF path \in Node THEN NodeSize[path] ELSE Failed

-----------------------------------------------------------------------------
OpenFds(o) == {d \in Fds : fds[o][d] # None}

(* process_close_all_files, called by process_destroy: under irq_save the  *)
(* table is emptied into to_close ...                                      *)
CloseAll(w) ==
  /\ pc[w] = "unlinked" /\ OpenFds(target[w]) # {}
  /\ closing' = [closing EXCEPT ![w] = {fds[target[w]][d] : d \in OpenFds(target[w])}]
  /\ fds' = [fds EXCEPT ![target[w]] = [d \in Fds |-> None]]
  /\ UNCHANGED <<vars, node, offset>>

(* ... and then vfs_close frees the files one by one.                      *)
CloseNext(w) ==
  /\ closing[w] # {}
  /\ \E f \in closing[w] :
       /\ closing' = [closing EXCEPT ![w] = @ \ {f}]
       /\ node' = [node EXCEPT ![f] = None]
       /\ offset' = [offset EXCEPT ![f] = 0]
  /\ UNCHANGED <<vars, fds>>

(* The rest of process_destroy.                                            *)
DestroyRest(w) ==
  /\ pc[w] = "unlinked" /\ OpenFds(target[w]) = {} /\ closing[w] = {}
  /\ DestroyFree(w)
  /\ UNCHANGED fileVars

(* process_wait and process_destroy with files.  On a process that has     *)
(* been freed by another waiter they end in kernel_panic: in               *)
(* validate_live_process, or a little later if they were past its test and *)
(* find the freed object changed.  The model stops the waiter at once; run *)
(* process_doublewait shows how it gets there.                             *)
CollectStep(w) ==
  /\ pc[w] \in Waiting /\ state[target[w]] # "FREED"
  /\ \/ (WaitTurn(w) \/ WaitReap(w) \/ DestroyUnlink(w)) /\ UNCHANGED fileVars
     \/ CloseAll(w) \/ CloseNext(w) \/ DestroyRest(w)

-----------------------------------------------------------------------------
(* The descriptors, and the callers of process_close_all_files, that hold  *)
(* a file.                                                                 *)
Slots(f) == {s \in Proc \X Fds : fds[s[1]][s[2]] = f}
Closers(f) == {w \in Actors : f \in closing[w]}

(* Every open file belongs to one descriptor of one process, or to the one *)
(* who is destroying that process; nothing is closed while it can be used, *)
(* and nothing stays open that nobody can close: not after an open that    *)
(* found no descriptor, not after the process is gone.                     *)
FilesOwned ==
  /\ \A f \in File :
       Cardinality(Slots(f)) + Cardinality(Closers(f)) = IF node[f] = None THEN 0 ELSE 1
  /\ \A o \in Proc : state[o] \in {"ABSENT", "FREED"} => OpenFds(o) = {}
=============================================================================
