------------------------------- MODULE Process -------------------------------
(***************************************************************************)
(* The life of user processes: kernel/process.c, the process system calls  *)
(* of kernel/syscall.c, kernel/program.c and the monitor's run, runbg and  *)
(* wait commands.                                                          *)
(*                                                                         *)
(* A system call enters through an interrupt gate and runs with interrupts *)
(* disabled, so that it is one action, unless it calls interrupts_enable:  *)
(* SYS_SLEEP, SYS_READ from the terminal and SYS_WAITPID do, and the rest  *)
(* of the call, up to the return to user mode, can be preempted anywhere.  *)
(* The monitor runs with interrupts enabled.  As in WaitQueue, the         *)
(* scheduler is abstracted to: a thread that is not asleep may take its    *)
(* next step.                                                              *)
(*                                                                         *)
(* A process object is never allocated twice in the model: an access to an *)
(* object that has been freed is what the properties look for.             *)
(***************************************************************************)
EXTENDS Naturals, Sequences, SequencesExt

CONSTANTS
  Proc,       \* process objects
  Monitor,    \* the monitor's thread
  None,       \* the null process pointer
  Features    \* what users do: "kill" a child; "wait_any": the monitor waits
              \* for processes that have a parent; "launch_race": a SYS_EXEC
              \* may hit the monitor inside next_pid++

ASSUME ProcAssumption == Monitor \notin Proc /\ None \notin Proc

VARIABLES
  state,          \* process->state; "ABSENT" before, "FREED" after its life
  pid,            \* process->pid
  parent_pid,     \* process->parent_pid, 0 for the kernel
  exited,         \* process->exited
  exit_code,      \* process->exit_code
  kill_requested, \* process->kill_requested
  table,          \* the list from process_head to process_tail
  next_pid,       \* next_pid
  thread,         \* the main thread: "none", "live", "zombie" (in the zombie
                  \* list) or "reaped" (taken by a thread_reap_zombies)
  pc,             \* where a process's thread or the monitor is
  target,         \* the process an actor is launching or waiting for
  loaded,         \* the value of next_pid the monitor has loaded
  creator         \* history: the process that launched a process

procVars == <<state, pid, parent_pid, exited, exit_code, kill_requested>>
listVars == <<table, next_pid>>
actorVars == <<pc, target, loaded>>
vars == <<procVars, listVars, thread, actorVars, creator>>

Actors == Proc \cup {Monitor}

(* "user": in user mode, or the monitor at its prompt; "asleep",           *)
(* "reading": in SYS_SLEEP or in SYS_READ from the terminal, with          *)
(* interrupts enabled; "exiting": after                                    *)
(* process_exit_current and before thread_exit, interrupts enabled;        *)
(* "wait", "reap": in process_wait; "collected", "unlinked": before and in *)
(* process_destroy; "creating", "created": the monitor before the store of *)
(* next_pid++ and before process_table_insert; "starting": before          *)
(* process_start_user.                                                     *)
Places == {"user", "asleep", "reading", "exiting", "wait", "reap", "collected", "unlinked",
           "creating", "created", "starting"}
Waiting == {"wait", "reap", "collected", "unlinked"}

KILLED == 128   \* PROCESS_KILLED_EXIT_CODE
DONE == 0       \* any exit code of the program's own
UNSET == 255    \* the initial 0xFFFFFFFF

(* Every variable has its type.                                            *)
TypeOK ==
  /\ state \in [Proc -> {"ABSENT", "NEW", "RUNNING", "ZOMBIE", "FREED"}]
  /\ pid \in [Proc -> Nat] /\ parent_pid \in [Proc -> Nat]
  /\ exited \in [Proc -> BOOLEAN] /\ kill_requested \in [Proc -> BOOLEAN]
  /\ exit_code \in [Proc -> {KILLED, DONE, UNSET}]
  /\ table \in Seq(Proc)
  /\ next_pid \in Nat /\ loaded \in Nat
  /\ thread \in [Proc -> {"none", "live", "zombie", "reaped"}]
  /\ pc \in [Actors -> Places]
  /\ target \in [Actors -> Proc \cup {None}]
  /\ creator \in [Proc -> Actors \cup {None}]

(* process_init_system                                                     *)
Init ==
  /\ state = [o \in Proc |-> "ABSENT"]
  /\ pid = [o \in Proc |-> 0] /\ parent_pid = [o \in Proc |-> 0]
  /\ exited = [o \in Proc |-> FALSE] /\ kill_requested = [o \in Proc |-> FALSE]
  /\ exit_code = [o \in Proc |-> UNSET]
  /\ table = <<>> /\ next_pid = 1 /\ loaded = 0
  /\ thread = [o \in Proc |-> "none"]
  /\ pc = [w \in Actors |-> "user"]
  /\ target = [w \in Actors |-> None]
  /\ creator = [o \in Proc |-> None]

-----------------------------------------------------------------------------
Goto(w, place) == pc' = [pc EXCEPT ![w] = place]

InUser(o) == thread[o] = "live" /\ pc[o] = "user"
InTable(o) == \E i \in 1..Len(table) : table[i] = o

(* process_find: the first entry of the table with that pid.               *)
process_find(p, o) ==
  \E i \in 1..Len(table) :
    /\ table[i] = o /\ pid[o] = p
    /\ \A j \in 1..(i - 1) : pid[table[j]] # p

(* process_create_empty, after next_pid++ gave pid p, and                  *)
(* process_set_parent: the process enters the table at its tail.           *)
CreateEmpty(o, p, pp, st) ==
  /\ state[o] = "ABSENT"
  /\ state' = [state EXCEPT ![o] = st]
  /\ pid' = [pid EXCEPT ![o] = p]
  /\ parent_pid' = [parent_pid EXCEPT ![o] = pp]
  /\ table' = Append(table, o)
  /\ UNCHANGED <<exited, exit_code, kill_requested>>

(* SYS_EXEC of a known program: program_run_background, all with           *)
(* interrupts disabled.                                                    *)
Exec(o, c) ==
  /\ InUser(o) /\ ~ kill_requested[o]
  /\ "launch_race" \in Features \/ pc[Monitor] # "creating"
  /\ CreateEmpty(c, next_pid, pid[o], "RUNNING")
  /\ next_pid' = next_pid + 1
  /\ thread' = [thread EXCEPT ![c] = "live"]
  /\ creator' = [creator EXCEPT ![c] = o]
  /\ UNCHANGED actorVars

(* The monitor's run and runbg: program_create_process with interrupts     *)
(* enabled; next_pid++ is a load and a store.                              *)
MonitorLoadPid ==
  /\ pc[Monitor] = "user"
  /\ loaded' = next_pid
  /\ Goto(Monitor, "creating")
  /\ UNCHANGED <<procVars, listVars, thread, target, creator>>

MonitorStorePid ==
  /\ pc[Monitor] = "creating"
  /\ next_pid' = loaded + 1
  /\ Goto(Monitor, "created")
  /\ UNCHANGED <<procVars, table, thread, target, loaded, creator>>

MonitorCreate(c) ==
  /\ pc[Monitor] = "created"
  /\ CreateEmpty(c, loaded, 0, "NEW")
  /\ creator' = [creator EXCEPT ![c] = Monitor]
  /\ target' = [target EXCEPT ![Monitor] = c]
  /\ Goto(Monitor, "starting")
  /\ UNCHANGED <<next_pid, thread, loaded>>

(* process_start_user, then process_wait (run) or the prompt (runbg).      *)
MonitorStart(foreground) ==
  LET c == target[Monitor]
  IN /\ pc[Monitor] = "starting"
     /\ state' = [state EXCEPT ![c] = "RUNNING"]
     /\ thread' = [thread EXCEPT ![c] = "live"]
     /\ \/ foreground /\ Goto(Monitor, "wait") /\ UNCHANGED target
        \/ /\ ~ foreground /\ Goto(Monitor, "user")
           /\ target' = [target EXCEPT ![Monitor] = None]
     /\ UNCHANGED <<pid, parent_pid, exited, exit_code, kill_requested, listVars,
                    loaded, creator>>

-----------------------------------------------------------------------------
(* process_exit_current.  Where interrupts are enabled its stores can be   *)
(* interrupted, but every other reader looks at exited, and at state only  *)
(* together with it.                                                       *)
ExitCurrent(o, code) ==
  /\ exit_code' = [exit_code EXCEPT ![o] = code]
  /\ exited' = [exited EXCEPT ![o] = TRUE]
  /\ state' = [state EXCEPT ![o] = "ZOMBIE"]
  /\ kill_requested' = [kill_requested EXCEPT ![o] = FALSE]
  /\ UNCHANGED <<pid, parent_pid>>

(* SYS_EXIT, or a system call that finds kill_requested on entry:          *)
(* process_exit_current and thread_exit with interrupts disabled.          *)
ExitNow(o, code) ==
  /\ InUser(o)
  /\ code = KILLED => kill_requested[o]
  /\ ExitCurrent(o, code)
  /\ thread' = [thread EXCEPT ![o] = "zombie"]
  /\ UNCHANGED <<listVars, actorVars, creator>>

(* SYS_SLEEP or SYS_READ from the terminal, up to where it sleeps.         *)
SleepCall(o, place) ==
  /\ InUser(o) /\ ~ kill_requested[o]
  /\ Goto(o, place)
  /\ UNCHANGED <<procVars, listVars, thread, target, loaded, creator>>

\* Mutant of SleepReturn: the request is consumed without being honoured.
MutSleepReturn(o) ==
  /\ pc[o] \in {"asleep", "reading"}
  /\ Goto(o, "user")
  /\ kill_requested' = [kill_requested EXCEPT ![o] = FALSE]
  /\ UNCHANGED <<state, pid, parent_pid, exited, exit_code, listVars, thread, target,
                 loaded, creator>>

(* It returns: syscall_finish_or_kill, now with interrupts enabled.        *)
SleepReturn(o) ==
  /\ pc[o] \in {"asleep", "reading"}
  /\ \/ ~ kill_requested[o] /\ Goto(o, "user") /\ UNCHANGED procVars
     \/ kill_requested[o] /\ ExitCurrent(o, KILLED) /\ Goto(o, "exiting")
  /\ UNCHANGED <<listVars, thread, target, loaded, creator>>

(* the thread_exit that follows.                                           *)
LateThreadExit(o) ==
  /\ pc[o] = "exiting" /\ thread[o] = "live"
  /\ thread' = [thread EXCEPT ![o] = "zombie"]
  /\ UNCHANGED <<procVars, listVars, actorVars, creator>>

\* Mutant of Kill: an exited child is not excluded.
MutKill(o, c) ==
  /\ "kill" \in Features
  /\ InUser(o) /\ c # o
  /\ InTable(c) /\ parent_pid[c] = pid[o]
  /\ kill_requested' = [kill_requested EXCEPT ![c] = TRUE]
  /\ UNCHANGED <<state, pid, parent_pid, exited, exit_code, listVars, thread,
                 actorVars, creator>>

(* SYS_KILL of a child: process_request_kill_child; refused (no change)    *)
(* for a child that has exited.                                            *)
Kill(o, c) ==
  /\ "kill" \in Features
  /\ InUser(o) /\ pid[c] # pid[o]
  /\ \E i \in 1..Len(table) :
       /\ table[i] = c
       /\ parent_pid[c] = pid[o]
       /\ \A j \in 1..(i - 1) : ~ (pid[table[j]] = pid[c] /\ parent_pid[table[j]] = pid[o])
  /\ ~ exited[c] /\ state[c] # "ZOMBIE"
  /\ kill_requested' = [kill_requested EXCEPT ![c] = TRUE]
  /\ UNCHANGED <<state, pid, parent_pid, exited, exit_code, listVars, thread,
                 actorVars, creator>>

-----------------------------------------------------------------------------
StartWait(w, c) ==
  /\ target' = [target EXCEPT ![w] = c]
  /\ Goto(w, "wait")
  /\ UNCHANGED <<procVars, listVars, thread, loaded, creator>>

\* Mutant of WaitPid: no process_is_child_of test.
MutWaitPid(o, c) ==
  /\ InUser(o) /\ c # o
  /\ process_find(pid[c], c)
  /\ StartWait(o, c)

(* SYS_WAITPID up to interrupts_enable.                                    *)
WaitPid(o, c) ==
  /\ InUser(o) /\ c # o
  /\ process_find(pid[c], c)
  /\ parent_pid[c] = pid[o]
  /\ StartWait(o, c)

(* The monitor's wait command, which does not look at the parent.          *)
MonitorWait(c) ==
  /\ pc[Monitor] = "user"
  /\ process_find(pid[c], c)
  /\ "wait_any" \in Features \/ parent_pid[c] = 0
  /\ StartWait(Monitor, c)

(* thread_reap_zombies, which returns when the zombie list is empty.       *)
reap_zombies ==
  thread' = [o \in Proc |-> IF thread[o] = "zombie" THEN "reaped" ELSE thread[o]]

\* Mutant of WaitTurn: one turn in place of the loop.
MutWaitTurn(w) ==
  /\ pc[w] = "wait"
  /\ reap_zombies
  /\ Goto(w, "reap")
  /\ UNCHANGED <<procVars, listVars, target, loaded, creator>>

(* The loop of process_wait: a turn that sleeps and reaps, and the turn    *)
(* that finds process->exited.                                             *)
WaitTurn(w) ==
  /\ pc[w] = "wait"
  /\ \/ ~ exited[target[w]] /\ reap_zombies /\ UNCHANGED pc
     \/ exited[target[w]] /\ Goto(w, "reap") /\ UNCHANGED thread
  /\ UNCHANGED <<procVars, listVars, target, loaded, creator>>

\* Mutant of WaitReap: process_wait returns without its last reaping.
MutWaitReap(w) ==
  /\ pc[w] = "reap"
  /\ Goto(w, "collected")
  /\ UNCHANGED <<procVars, listVars, thread, target, loaded, creator>>

(* The end of process_wait.                                                *)
WaitReap(w) ==
  /\ pc[w] = "reap"
  /\ reap_zombies
  /\ Goto(w, "collected")
  /\ UNCHANGED <<procVars, listVars, target, loaded, creator>>

(* SYS_WAITPID fails to copy the status out: the child is not destroyed.   *)
WaitCopyFails(o) ==
  /\ o \in Proc /\ pc[o] = "collected"
  /\ target' = [target EXCEPT ![o] = None]
  /\ Goto(o, "user")
  /\ UNCHANGED <<procVars, listVars, thread, loaded, creator>>

(* process_table_remove: a process that has been removed before has null   *)
(* links, and its second removal empties the whole list.                   *)
table_remove(c) ==
  IF InTable(c) THEN RemoveAt(table, CHOOSE i \in 1..Len(table) : table[i] = c) ELSE <<>>

\* Mutant of DestroyUnlink: the children are not handed to the kernel.
MutDestroyUnlink(w) ==
  LET c == target[w]
  IN /\ pc[w] = "collected"
     /\ table' = table_remove(c)
     /\ Goto(w, "unlinked")
     /\ UNCHANGED <<procVars, next_pid, thread, target, loaded, creator>>

(* process_destroy: under irq_save, children are handed to the kernel and  *)
(* the process leaves the table ...                                        *)
DestroyUnlink(w) ==
  LET c == target[w]
  IN /\ pc[w] = "collected"
     /\ parent_pid' = [o \in Proc |-> IF InTable(o) /\ parent_pid[o] = pid[c]
                                      THEN 0 ELSE parent_pid[o]]
     /\ table' = table_remove(c)
     /\ Goto(w, "unlinked")
     /\ UNCHANGED <<state, pid, exited, exit_code, kill_requested, next_pid, thread,
                    target, loaded, creator>>

(* ... then, with interrupts enabled, files, address space and the object  *)
(* itself are freed.                                                       *)
DestroyFree(w) ==
  /\ pc[w] = "unlinked"
  /\ state' = [state EXCEPT ![target[w]] = "FREED"]
  /\ kill_requested' = [kill_requested EXCEPT ![target[w]] = FALSE]
  /\ target' = [target EXCEPT ![w] = None]
  /\ Goto(w, "user")
  /\ UNCHANGED <<pid, parent_pid, exited, exit_code, listVars, thread, loaded, creator>>

(* A turn of the loop of thread_reap_zombies in the idle thread, or in a   *)
(* waiter that has not come to the end of the list yet.                    *)
IdleReap(o) ==
  /\ thread[o] = "zombie"
  /\ thread' = [thread EXCEPT ![o] = "reaped"]
  /\ UNCHANGED <<procVars, listVars, actorVars, creator>>

-----------------------------------------------------------------------------
ProcStep(o) ==
  \/ \E c \in Proc : Exec(o, c) \/ Kill(o, c) \/ WaitPid(o, c)
  \/ \E code \in {DONE, KILLED} : ExitNow(o, code)
  \/ \E place \in {"asleep", "reading"} : SleepCall(o, place)
  \/ SleepReturn(o) \/ LateThreadExit(o) \/ WaitCopyFails(o)

MonitorStep ==
  \/ MonitorLoadPid \/ MonitorStorePid
  \/ \E c \in Proc : MonitorCreate(c) \/ MonitorWait(c)
  \/ \E foreground \in BOOLEAN : MonitorStart(foreground)

WaitStep(w) == WaitTurn(w) \/ WaitReap(w) \/ DestroyUnlink(w) \/ DestroyFree(w)

Next ==
  \/ \E o \in Proc : ProcStep(o) \/ IdleReap(o)
  \/ MonitorStep
  \/ \E w \in Actors : WaitStep(w)

Spec == Init /\ [][Next]_vars

(* Threads that are not asleep run (Scheduler!ReadyThreadRuns) and sleeps  *)
(* end (Scheduler!SleeperRuns), but nothing is assumed of the keyboard; a  *)
(* user program keeps making system calls that look at kill_requested,     *)
(* which is what a cooperative kill relies on.                             *)
Fairness ==
  /\ \A o \in Proc :
       /\ WF_vars(pc[o] = "asleep" /\ SleepReturn(o)) /\ WF_vars(LateThreadExit(o))
       /\ WF_vars(SleepCall(o, "asleep") \/ \E code \in {DONE, KILLED} : ExitNow(o, code))
  /\ \A w \in Actors : WF_vars(WaitStep(w))

FairSpec == Spec /\ Fairness

-----------------------------------------------------------------------------
(* Teardown order: a process object and its address space are freed only   *)
(* after its main thread has exited and has been reaped, so the scheduler  *)
(* never switches to a thread whose process is gone.                       *)
DestroyedAfterReap == \A o \in Proc : state[o] = "FREED" => thread[o] = "reaped"

(* The same for every process that exits on its own or before it is killed *)
(* in a sleep: process_wait's last thread_reap_zombies comes after the     *)
(* thread's exit, whoever else is reaping.                                 *)
TeardownOrder ==
  \A o \in Proc : state[o] = "FREED" => thread[o] = "reaped" \/ pc[o] = "exiting"

(* Nobody waits for, collects or destroys a process that has been freed,   *)
(* and nobody destroys one that has not exited.                            *)
NoDanglingTarget ==
  \A w \in Actors : pc[w] \in Waiting =>
    /\ state[target[w]] \notin {"ABSENT", "FREED"}
    /\ pc[w] # "wait" => exited[target[w]]

(* A process between the two halves of process_destroy.                    *)
Unlinked(o) == \E w \in Actors : pc[w] = "unlinked" /\ target[w] = o

(* The process table is exactly the processes alive or to be collected, in *)
(* no duplicate, but for one that its collector has unlinked and is about  *)
(* to free; and a process's parent, if it has one, is in the table:        *)
(* children of a destroyed process have been handed to the kernel.         *)
TableConsistent ==
  /\ \A i, j \in 1..Len(table) : table[i] = table[j] => i = j
  /\ \A o \in Proc : InTable(o) => state[o] \notin {"ABSENT", "FREED"}
  /\ \A o \in Proc : state[o] \notin {"ABSENT", "FREED"} => InTable(o) \/ Unlinked(o)
  /\ \A o \in Proc : InTable(o) /\ parent_pid[o] # 0 =>
       \E q \in Proc : InTable(q) /\ pid[q] = parent_pid[o]

(* Exit is final: exit_code and exited never change again, a kill cannot   *)
(* reach an exited process, and its thread never returns to user mode.     *)
ExitIsFinal ==
  [][\A o \in Proc : exited[o] =>
       /\ exited'[o] /\ exit_code'[o] = exit_code[o]
       /\ ~ kill_requested'[o]
       /\ pc[o] = "exiting" => pc'[o] = "exiting"]_vars

(* A user process waits only for children it launched itself.              *)
WaitsForOwnChild ==
  \A o \in Proc : pc[o] \in Waiting => creator[target[o]] = o

(* A kill is honoured: the process exits at its next system call that      *)
(* looks, unless it waits for a child of its own or for the keyboard.      *)
KillHonoured ==
  \A o \in Proc :
    kill_requested[o] ~> (exited[o] \/ pc[o] \in Waiting \cup {"reading"})
=============================================================================
