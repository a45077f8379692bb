-------------------------------- MODULE Shell --------------------------------
(***************************************************************************)
(* The user shell, user/shell.c: one process that reads commands from the  *)
(* terminal, launches programs in the foreground and in the background,    *)
(* keeps a table of its background jobs and prints files, while its jobs   *)
(* run and the monitor waits for whatever it likes.                        *)
(*                                                                         *)
(* A step of the shell is its code up to and including the next system     *)
(* call that changes more than the screen.  What the user types is         *)
(* abstracted to the command it selects.  The shell's buffers are on its   *)
(* own stack, so its calls never fail in a user copy.                      *)
(***************************************************************************)
EXTENDS Files

CONSTANTS
  Shell,     \* the process that runs the shell
  JobMax,    \* SHELL_JOB_MAX
  Chunk,     \* sizeof(buffer) in cmd_cat
  Paths,     \* what users name: the nodes and a path that does not exist
  FileUsers, \* the programs that use files
  Victims    \* the programs the user kills

ASSUME ShellAssumption ==
  /\ Shell \in Proc /\ JobMax \in Nat \ {0} /\ Chunk \in Nat \ {0}
  /\ FileUsers \subseteq Proc \ {Shell} /\ Victims \subseteq Proc \ {Shell}

VARIABLES
  at,        \* where the shell is
  jobs,      \* shell_jobs: the pid of an active slot, 0 for one that is not
  index,     \* i in cmd_jobs
  child,     \* pid in cmd_run, cmd_runbg and cmd_wait
  fd,        \* fd in cmd_cat
  path,      \* argv[1] of cmd_cat
  printed    \* history: what cmd_cat has written

localVars == <<index, child, fd, path, printed>>
shellVars == <<at, jobs, localVars>>
allVars == <<vars, fileVars, shellVars>>

ShellInit ==
  /\ Init /\ FilesInit
  /\ at = "prompt" /\ jobs = [i \in 1..JobMax |-> 0]
  /\ index = 0 /\ child = 0 /\ fd = 0 /\ path = None /\ printed = <<>>

-----------------------------------------------------------------------------
At(place) == at = place /\ InUser(Shell)

(* A command has ended; its local variables are gone.                      *)
Prompt ==
  at' = "prompt" /\ index' = 0 /\ child' = 0 /\ fd' = 0 /\ path' = None /\ printed' = <<>>

(* shell_find_job_index and shell_alloc_job_slot.                          *)
JobsOf(p) == {i \in 1..JobMax : jobs[i] = p /\ p # 0}
FreeSlots == {i \in 1..JobMax : jobs[i] = 0}

shell_track_job(p) ==
  IF JobsOf(p) # {} THEN jobs
  ELSE IF FreeSlots # {} THEN [jobs EXCEPT ![Min(FreeSlots)] = p]
  ELSE jobs

shell_forget_job(p) ==
  IF JobsOf(p) = {} THEN jobs ELSE [jobs EXCEPT ![Min(JobsOf(p))] = 0]

(* toyix_readline: SYS_READ from the terminal.                             *)
ReadLine ==
  /\ At("prompt") /\ SleepCall(Shell, "reading")
  /\ at' = "command"
  /\ UNCHANGED <<fileVars, jobs, localVars>>

ReadLineReturn ==
  /\ pc[Shell] = "reading" /\ SleepReturn(Shell)
  /\ UNCHANGED <<fileVars, shellVars>>

(* help, echo, args, stat, an empty or unknown line, a usage error, and    *)
(* every command whose first system call is refused.                       *)
CmdOther ==
  /\ At("command") /\ Calls(Shell)
  /\ Prompt /\ UNCHANGED <<fileVars, jobs>>

CmdCat(name, r) ==
  /\ At("command") /\ Calls(Shell) /\ Open(Shell, name, r)
  /\ \/ r = Failed /\ Prompt
     \/ /\ r # Failed /\ at' = "cat" /\ fd' = r /\ path' = name
        /\ UNCHANGED <<index, child, printed>>
  /\ UNCHANGED jobs

(* The loop of cmd_cat: read and write a chunk.                            *)
CatRead(r) ==
  /\ At("cat") /\ Calls(Shell) /\ Read(Shell, fd, Chunk, TRUE, r)
  /\ \/ r > 0 /\ printed' = printed \o Bytes(process_fd_get(Shell, fd), r) /\ UNCHANGED at
     \/ r <= 0 /\ at' = "close" /\ UNCHANGED printed
  /\ UNCHANGED <<jobs, index, child, fd, path>>

CatClose(r) ==
  /\ At("close") /\ Calls(Shell) /\ Close(Shell, fd, r)
  /\ Prompt /\ UNCHANGED jobs

-----------------------------------------------------------------------------
Launch(c, next) ==
  /\ At("command") /\ Exec(Shell, c)
  /\ at' = next /\ child' = pid'[c]
  /\ UNCHANGED <<fileVars, jobs, index, fd, path, printed>>

CmdRun(c) == Launch(c, "run")

(* cmd_run goes on to SYS_WAITPID, which fails when the child is gone.     *)
RunWait ==
  /\ At("run")
  /\ \/ /\ \E c \in Proc : pid[c] = child /\ WaitPid(Shell, c)
        /\ at' = "ran" /\ UNCHANGED <<fileVars, jobs, localVars>>
     \/ /\ \A c \in Proc : ~ (process_find(child, c) /\ parent_pid[c] = pid[Shell])
        /\ Prompt /\ UNCHANGED <<vars, fileVars, jobs>>

RunDone == At("ran") /\ Prompt /\ UNCHANGED <<vars, fileVars, jobs>>

\* Mutant of CmdRunbg: no look at the job table before the launch.
MutRunbg(c) == Launch(c, "track")

(* cmd_runbg; a full table refuses, which CmdOther covers.                 *)
CmdRunbg(c) == FreeSlots # {} /\ Launch(c, "track")

Track ==
  /\ At("track") /\ jobs' = shell_track_job(child)
  /\ Prompt /\ UNCHANGED <<vars, fileVars>>

CmdWait(c) ==
  /\ At("command") /\ WaitPid(Shell, c)
  /\ at' = "waited" /\ child' = pid[c]
  /\ UNCHANGED <<fileVars, jobs, index, fd, path, printed>>

(* SYS_WAITPID has returned 0: the job is forgotten.                       *)
Waited ==
  /\ At("waited") /\ jobs' = shell_forget_job(child)
  /\ Prompt /\ UNCHANGED <<vars, fileVars>>

CmdKill(c) ==
  /\ At("command") /\ Kill(Shell, c)
  /\ Prompt /\ UNCHANGED <<fileVars, jobs>>

CmdJobs ==
  /\ At("command") /\ at' = "jobs" /\ index' = 1
  /\ UNCHANGED <<vars, fileVars, jobs, child, fd, path, printed>>

(* SYS_PROCINFO of a child of the shell.                                   *)
procinfo(p) == \E c \in Proc \ {Shell} : process_find(p, c) /\ parent_pid[c] = pid[Shell]

(* A turn of the loop of cmd_jobs: an active slot whose process is gone is *)
(* forgotten.                                                              *)
JobsTurn ==
  /\ At("jobs") /\ Calls(Shell)
  /\ jobs' = IF procinfo(jobs[index]) THEN jobs ELSE shell_forget_job(jobs[index])
  /\ \/ index < JobMax /\ index' = index + 1 /\ UNCHANGED <<at, child, fd, path, printed>>
     \/ index = JobMax /\ Prompt
  /\ UNCHANGED fileVars

CmdExit ==
  /\ At("command") /\ ExitNow(Shell, DONE)
  /\ UNCHANGED <<fileVars, shellVars>>

ShellStep ==
  \/ ReadLine \/ ReadLineReturn \/ CmdOther \/ CmdJobs \/ JobsTurn \/ CmdExit
  \/ \E name \in Paths, r \in Fds \cup {Failed} : CmdCat(name, r)
  \/ \E r \in 0..Chunk \cup {Failed} : CatRead(r) \/ CatClose(r)
  \/ RunWait \/ RunDone \/ Track \/ Waited
  \/ \E c \in Proc \ {Shell} : CmdRun(c) \/ CmdRunbg(c) \/ CmdWait(c)
  \/ \E c \in Victims : CmdKill(c)

-----------------------------------------------------------------------------
(* A launched program: it may use files, and it ends.                      *)
ProgramStep(o) ==
  \/ /\ o \in FileUsers /\ Calls(o)
     /\ \/ \E name \in Node, r \in Fds \cup {Failed} : Open(o, name, r)
        \/ \E d \in Fds, copied \in BOOLEAN, r \in 0..RwMax \cup {Failed} :
             Read(o, d, RwMax, copied, r)
        \/ \E d \in Fds, by \in {-1, 1}, whence \in Whence \cup {"invalid"},
              r \in (-Word)..Word : Seek(o, d, by, whence, r)
        \/ \E d \in Fds, r \in {0, Failed} : Close(o, d, r)
     /\ UNCHANGED shellVars
  \/ \E code \in {DONE, KILLED} : ExitNow(o, code) /\ UNCHANGED <<fileVars, shellVars>>

(* The monitor launches the shell, once, and waits for any process.        *)
MonitorUser ==
  /\ \/ state[Shell] = "ABSENT" /\ MonitorLoadPid
     \/ MonitorStorePid \/ MonitorCreate(Shell)
     \/ \E foreground \in BOOLEAN : MonitorStart(foreground)
     \/ \E c \in Proc : MonitorWait(c)
  /\ UNCHANGED <<fileVars, shellVars>>

ShellNext ==
  \/ MonitorUser \/ ShellStep
  \/ \E o \in Proc \ {Shell} : ProgramStep(o)
  \/ \E w \in {Shell, Monitor} : CollectStep(w) /\ UNCHANGED shellVars
  \/ \E o \in Proc : IdleReap(o) /\ UNCHANGED <<fileVars, shellVars>>

ShellSpec == ShellInit /\ [][ShellNext]_allVars

-----------------------------------------------------------------------------
(* cat prints a file from its first byte to the last one that stat tells   *)
(* of, in order and once, whatever other processes open, read, seek and    *)
(* close in between.                                                       *)
CatPrintsFile ==
  at \in {"cat", "close"} =>
    /\ Len(printed) <= Stat(path)
    /\ \A i \in 1..Len(printed) : printed[i] = i - 1
    /\ at = "close" => Len(printed) = Stat(path)

(* The job table and the processes agree: while the shell lives, every     *)
(* process it has launched and nobody has collected is in the table or is  *)
(* the one the current command has just launched, so the user can always   *)
(* name it; and no process is in the table twice or without being a child. *)
JobsTracked ==
  state[Shell] = "RUNNING" =>
    /\ \A c \in Proc : InTable(c) /\ creator[c] = Shell =>
         JobsOf(pid[c]) # {} \/ (at \in {"run", "ran", "track"} /\ child = pid[c])
    /\ \A i, j \in 1..JobMax : jobs[i] # 0 /\ jobs[i] = jobs[j] => i = j
    /\ \A i \in 1..JobMax : jobs[i] # 0 =>
         \E c \in Proc : pid[c] = jobs[i] /\ creator[c] = Shell
=============================================================================
