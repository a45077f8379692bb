---------------------------- MODULE ProcessProofs ----------------------------
(***************************************************************************)
(* The life of processes, for any number of them: teardown order and the   *)
(* finality of exit whatever users do; waiting for one's own child where   *)
(* launches do not race; the process table and the absence of dangling     *)
(* pointers where, in addition, the monitor waits only for processes       *)
(* without a parent.  Then, for any number of files, descriptors and job   *)
(* slots, what Files and Shell add: open files have one owner, cat prints  *)
(* its file, and the shell's job table knows the shell's children.         *)
(***************************************************************************)
EXTENDS Shell, SequenceTheorems, FiniteSetTheorems, TLAPS

(* What state, thread, exit and position of a process say about each       *)
(* other.                                                                  *)
LifeInv ==
  \A o \in Proc :
    /\ pc[o] \in {"user", "asleep", "reading", "exiting"} \cup Waiting
    /\ state[o] \in {"ABSENT", "NEW"} <=> thread[o] = "none"
    /\ state[o] \in {"ABSENT", "NEW"} => pc[o] = "user"
    /\ exited[o] <=> state[o] \in {"ZOMBIE", "FREED"}
    /\ exited[o] <=> thread[o] \in {"zombie", "reaped"} \/ pc[o] = "exiting"
    /\ exited[o] => pc[o] \in {"user", "exiting"}
    /\ kill_requested[o] => state[o] = "RUNNING"
    /\ state[o] = "NEW" => parent_pid[o] = 0 /\ pc[Monitor] = "starting" /\ target[Monitor] = o
    /\ state[o] # "ABSENT" => pid[o] > 0
    /\ state[o] = "FREED" => thread[o] = "reaped" \/ pc[o] = "exiting"

(* What the position of a launching or waiting actor says about its        *)
(* target.                                                                 *)
ActorInv ==
  /\ pc[Monitor] \in {"user", "creating", "created", "starting"} \cup Waiting
  /\ pc[Monitor] = "starting" => target[Monitor] \in Proc /\ state[target[Monitor]] = "NEW"
  /\ pc[Monitor] \in {"creating", "created"} => loaded > 0
  /\ next_pid > 0
  /\ \A w \in Actors : pc[w] \in Waiting =>
       /\ target[w] \in Proc /\ state[target[w]] \notin {"ABSENT", "NEW"}
       /\ pc[w] # "wait" => exited[target[w]]
       /\ pc[w] \in {"collected", "unlinked"} =>
            thread[target[w]] = "reaped" \/ pc[target[w]] = "exiting"

(* The process table against the states, whatever users do.                *)
TableInv ==
  /\ \A i, j \in 1..Len(table) : table[i] = table[j] => i = j
  /\ \A o \in Proc : InTable(o) => state[o] \notin {"ABSENT", "FREED"}
  /\ \A w \in Actors : pc[w] = "unlinked" => ~ InTable(target[w])

BaseInv == TypeOK /\ LifeInv /\ ActorInv /\ TableInv

(* Where launches do not race: pids are distinct, a parent pid is the      *)
(* launcher's, and a process that waits is its target's parent.            *)
PidInv ==
  /\ \A a, b \in Proc : state[a] # "ABSENT" /\ state[b] # "ABSENT" /\ pid[a] = pid[b] => a = b
  /\ \A a \in Proc : state[a] # "ABSENT" => pid[a] < next_pid
  /\ pc[Monitor] = "creating" => loaded = next_pid
  /\ pc[Monitor] = "created" =>
       loaded < next_pid /\ \A a \in Proc : state[a] # "ABSENT" => pid[a] # loaded
  /\ \A c \in Proc : parent_pid[c] # 0 =>
       /\ creator[c] \in Proc /\ state[creator[c]] # "ABSENT"
       /\ pid[creator[c]] = parent_pid[c]
  /\ \A o \in Proc : pc[o] \in Waiting => parent_pid[target[o]] = pid[o]

(* Where, in addition, the monitor waits only for processes without a      *)
(* parent: what an actor waits for is in the table until it unlinks it     *)
(* itself, only what has exited has left the table, with it goes its place *)
(* as a parent, and whoever unlinked it is about to free it.               *)
ExclusiveInv ==
  /\ pc[Monitor] \in Waiting => parent_pid[target[Monitor]] = 0
  /\ \A w \in Actors : pc[w] \in Waiting =>
       state[target[w]] # "FREED" /\ (pc[w] # "unlinked" => InTable(target[w]))
  /\ \A o \in Proc : state[o] # "ABSENT" /\ ~ exited[o] => InTable(o)
  /\ \A o \in Proc : InTable(o) /\ parent_pid[o] # 0 => InTable(creator[o])
  /\ \A o \in Proc : state[o] \notin {"ABSENT", "FREED"} => InTable(o) \/ Unlinked(o)

-----------------------------------------------------------------------------
(* process_table_insert: the new process is the last entry.                *)
LEMMA InsertTable ==
  ASSUME table \in Seq(Proc), NEW c \in Proc, ~ InTable(c), table' = Append(table, c),
         \A i, j \in 1..Len(table) : table[i] = table[j] => i = j
  PROVE  /\ table' \in Seq(Proc)
         /\ \A i, j \in 1..Len(table') : table'[i] = table'[j] => i = j
         /\ \A o \in Proc : InTable(o)' <=> InTable(o) \/ o = c
  <1>1. /\ Len(table) \in Nat /\ table' \in Seq(Proc) /\ Len(table') = Len(table) + 1
        /\ \A i \in 1..Len(table) : table'[i] = table[i]
        /\ table'[Len(table) + 1] = c
    OBVIOUS
  <1>2. \A i, j \in 1..Len(table') : table'[i] = table'[j] => i = j
    BY <1>1 DEF InTable
  <1>3. \A o \in Proc : InTable(o)' <=> InTable(o) \/ o = c
    BY <1>1 DEF InTable
  <1> QED BY <1>1, <1>2, <1>3

(* process_table_remove: the process leaves and the others stay in order;  *)
(* or, for a process that was not there, all leave.                        *)
LEMMA RemoveTable ==
  ASSUME table \in Seq(Proc), NEW c \in Proc, table' = table_remove(c),
         \A i, j \in 1..Len(table) : table[i] = table[j] => i = j
  PROVE  /\ table' \in Seq(Proc)
         /\ \A i, j \in 1..Len(table') : table'[i] = table'[j] => i = j
         /\ \A o \in Proc : InTable(o)' <=> InTable(c) /\ InTable(o) /\ o # c
  <1>1. CASE ~ InTable(c)
    <2>1. table' = <<>>
      BY <1>1 DEF table_remove
    <2> QED BY <1>1, <2>1 DEF InTable
  <1>2. CASE InTable(c)
    <2> DEFINE k == CHOOSE i \in 1..Len(table) : table[i] = c
    <2>1. k \in 1..Len(table) /\ table[k] = c
      BY <1>2 DEF InTable
    <2> DEFINE L == SubSeq(table, 1, k - 1)
               R == SubSeq(table, k + 1, Len(table))
    <2>2. table' = L \o R
      BY <1>2 DEF table_remove, RemoveAt
    <2> HIDE DEF k
    <2>3. Len(table) \in Nat /\ k \in Nat
      BY <2>1
    <2>4. L \in Seq(Proc) /\ Len(L) = k - 1 /\ \A i \in 1..(k - 1) : L[i] = table[i]
      BY <2>1, <2>3
    <2>5. /\ R \in Seq(Proc) /\ Len(R) = Len(table) - k
          /\ \A i \in 1..(Len(table) - k) : R[i] = table[k + i]
      BY <2>1, <2>3
    <2> HIDE DEF L, R
    <2>6. /\ table' \in Seq(Proc) /\ Len(table') = Len(table) - 1
          /\ \A i \in 1..(Len(table) - 1) : table'[i] = IF i < k THEN table[i] ELSE table[i + 1]
      <3>1. table' \in Seq(Proc) /\ Len(table') = Len(table) - 1
        BY <2>1, <2>2, <2>3, <2>4, <2>5
      <3>2. ASSUME NEW i \in 1..(Len(table) - 1)
            PROVE  table'[i] = IF i < k THEN table[i] ELSE table[i + 1]
        <4>1. table'[i] = IF i <= Len(L) THEN L[i] ELSE R[i - Len(L)]
          BY <2>1, <2>2, <2>3, <2>4, <2>5
        <4>2. CASE i < k
          BY <2>1, <2>3, <2>4, <4>1, <4>2
        <4>3. CASE ~ (i < k)
          <5>1. i - Len(L) \in 1..(Len(table) - k) /\ k + (i - Len(L)) = i + 1 /\ ~ (i <= Len(L))
            BY <2>1, <2>3, <2>4, <4>3
          <5> QED BY <2>5, <4>1, <4>3, <5>1
        <4> QED BY <4>2, <4>3
      <3> QED BY <3>1, <3>2
    <2>7. \A i, j \in 1..Len(table') : table'[i] = table'[j] => i = j
      BY <2>1, <2>3, <2>6
    <2>8. ASSUME NEW o \in Proc PROVE InTable(o)' <=> InTable(o) /\ o # c
      <3>1. ASSUME InTable(o)' PROVE InTable(o) /\ o # c
        <4>1. PICK i \in 1..Len(table') : table'[i] = o
          BY <3>1 DEF InTable
        <4>2. PICK j \in 1..Len(table) : j # k /\ table[j] = o
          BY <2>1, <2>3, <2>6, <4>1
        <4> QED BY <2>1, <4>2 DEF InTable
      <3>2. ASSUME InTable(o), o # c PROVE InTable(o)'
        <4>1. PICK i \in 1..Len(table) : table[i] = o
          BY <3>2 DEF InTable
        <4>2. i # k
          BY <2>1, <3>2, <4>1
        <4>3. CASE i < k
          <5>1. i \in 1..Len(table') /\ table'[i] = o
            BY <2>1, <2>3, <2>6, <4>1, <4>3
          <5> QED BY <5>1 DEF InTable
        <4>4. CASE i > k
          <5>1. i - 1 \in 1..Len(table') /\ table'[i - 1] = o
            BY <2>1, <2>3, <2>6, <4>1, <4>4
          <5> QED BY <5>1 DEF InTable
        <4> QED BY <2>3, <4>1, <4>2, <4>3, <4>4
      <3> QED BY <3>1, <3>2
    <2> QED BY <1>2, <2>6, <2>7, <2>8
  <1> QED BY <1>1, <1>2

-----------------------------------------------------------------------------
(* The empty system.                                                       *)
LEMMA InitBase == ASSUME Init PROVE BaseInv
  <1>1. TypeOK
    BY ProcAssumption DEF Init, TypeOK, Actors, Places, UNSET
  <1>2. LifeInv /\ ActorInv
    BY ProcAssumption DEF Init, LifeInv, ActorInv, Actors, Waiting
  <1>3. TableInv
    BY DEF Init, TableInv, InTable, Actors
  <1> QED BY <1>1, <1>2, <1>3 DEF BaseInv

(* A step that leaves the table alone and frees nobody.                    *)
LEMMA SameTable ==
  ASSUME TableInv, TypeOK, table' = table,
         \A o \in Proc : InTable(o) /\ state[o] \notin {"ABSENT", "FREED"} =>
            state'[o] \notin {"ABSENT", "FREED"},
         \A w \in Actors : pc'[w] = "unlinked" => pc[w] = "unlinked" /\ target'[w] = target[w]
  PROVE  TableInv'
  BY ZenonT(30) DEF TableInv, InTable, TypeOK

LEMMA ExecBase ==
  ASSUME BaseInv, NEW o \in Proc, NEW c \in Proc, Exec(o, c) PROVE BaseInv'
  <1> USE DEF BaseInv
  <1>1. TypeOK'
    BY DEF TypeOK, Exec, CreateEmpty, actorVars, Actors, InUser
  <1>2. LifeInv'
    BY ProcAssumption DEF TypeOK, LifeInv, ActorInv, Exec, CreateEmpty, actorVars, InUser, Waiting
  <1>3. ActorInv'
    BY DEF TypeOK, LifeInv, ActorInv, Exec, CreateEmpty, actorVars, InUser
  <1>4. TableInv'
    <2>1. ~ InTable(c) /\ table \in Seq(Proc)
      BY DEF TableInv, Exec, CreateEmpty, TypeOK
    <2>2. \A x \in Proc : InTable(x)' <=> InTable(x) \/ x = c
      BY <2>1, InsertTable DEF TableInv, Exec, CreateEmpty
    <2>3. \A i, j \in 1..Len(table') : table'[i] = table'[j] => i = j
      BY <2>1, InsertTable DEF TableInv, Exec, CreateEmpty
    <2> QED BY <2>1, <2>2, <2>3, SMTT(30)
            DEF TableInv, Exec, CreateEmpty, TypeOK, actorVars, ActorInv, Waiting
  <1> QED BY <1>1, <1>2, <1>3, <1>4

LEMMA MonitorLoadPidBase ==
  ASSUME BaseInv, MonitorLoadPid PROVE BaseInv'
  <1> USE DEF BaseInv
  <1>1. TypeOK'
    BY ProcAssumption
       DEF TypeOK, Actors, Places, KILLED, DONE, MonitorLoadPid, Goto, procVars, listVars,
           actorVars
  <1>2. LifeInv'
    BY ProcAssumption
       DEF TypeOK, LifeInv, ActorInv, TableInv, Actors, Waiting, MonitorLoadPid, Goto, procVars,
           listVars, actorVars
  <1>3. ActorInv'
    BY ProcAssumption
       DEF TypeOK, LifeInv, ActorInv, TableInv, Actors, Waiting, MonitorLoadPid, Goto, procVars,
           listVars, actorVars
  <1>4. TableInv'
    BY SameTable, ProcAssumption
       DEF TypeOK, LifeInv, Actors, MonitorLoadPid, Goto, procVars, listVars, actorVars
  <1> QED BY <1>1, <1>2, <1>3, <1>4

LEMMA MonitorStorePidBase ==
  ASSUME BaseInv, MonitorStorePid PROVE BaseInv'
  <1> USE DEF BaseInv
  <1>1. TypeOK'
    BY ProcAssumption
       DEF TypeOK, Actors, Places, KILLED, DONE, MonitorStorePid, Goto, procVars, listVars,
           actorVars
  <1>2. LifeInv'
    BY ProcAssumption
       DEF TypeOK, LifeInv, ActorInv, TableInv, Actors, Waiting, MonitorStorePid, Goto,
           procVars, listVars, actorVars
  <1>3. ActorInv'
    BY ProcAssumption
       DEF TypeOK, LifeInv, ActorInv, TableInv, Actors, Waiting, MonitorStorePid, Goto,
           procVars, listVars, actorVars
  <1>4. TableInv'
    BY SameTable, ProcAssumption
       DEF TypeOK, LifeInv, Actors, MonitorStorePid, Goto, procVars, listVars, actorVars
  <1> QED BY <1>1, <1>2, <1>3, <1>4

LEMMA MonitorStartBase ==
  ASSUME BaseInv, NEW foreground \in BOOLEAN, MonitorStart(foreground) PROVE BaseInv'
  <1> USE DEF BaseInv
  <1>1. TypeOK'
    <2>1. CASE foreground
      BY <2>1 DEF TypeOK, Actors, Places, MonitorStart, Goto, listVars
    <2>2. CASE ~ foreground
      BY <2>2, ZenonT(30) DEF TypeOK, Actors, Places, MonitorStart, Goto, listVars
    <2> QED BY <2>1, <2>2
  <1>2. LifeInv'
    BY ProcAssumption
       DEF TypeOK, LifeInv, ActorInv, TableInv, Actors, Waiting, MonitorStart, Goto, procVars,
           listVars, actorVars
  <1>3. ActorInv'
    BY ProcAssumption
       DEF TypeOK, LifeInv, ActorInv, TableInv, Actors, Waiting, MonitorStart, Goto, procVars,
           listVars, actorVars
  <1>4. TableInv'
    BY SameTable, ProcAssumption
       DEF TypeOK, LifeInv, Actors, MonitorStart, Goto, procVars, listVars, actorVars
  <1> QED BY <1>1, <1>2, <1>3, <1>4

LEMMA ExitNowBase ==
  ASSUME BaseInv, NEW o \in Proc, NEW code \in {DONE, KILLED}, ExitNow(o, code) PROVE BaseInv'
  <1> USE DEF BaseInv
  <1>1. TypeOK'
    BY ProcAssumption
       DEF TypeOK, Actors, Places, KILLED, DONE, ExitNow, ExitCurrent, InUser, procVars,
           listVars, actorVars
  <1>2. LifeInv'
    BY ProcAssumption
       DEF TypeOK, LifeInv, ActorInv, TableInv, Actors, Waiting, ExitNow, ExitCurrent, InUser,
           procVars, listVars, actorVars
  <1>3. ActorInv'
    BY ProcAssumption
       DEF TypeOK, LifeInv, ActorInv, TableInv, Actors, Waiting, ExitNow, ExitCurrent, InUser,
           procVars, listVars, actorVars
  <1>4. TableInv'
    BY SameTable, ProcAssumption
       DEF TypeOK, LifeInv, Actors, ExitNow, ExitCurrent, InUser, procVars, listVars, actorVars
  <1> QED BY <1>1, <1>2, <1>3, <1>4

LEMMA SleepCallBase ==
  ASSUME BaseInv, NEW o \in Proc, NEW place \in {"asleep", "reading"}, SleepCall(o, place)
  PROVE  BaseInv'
  <1> USE DEF BaseInv
  <1>1. TypeOK'
    BY ProcAssumption
       DEF TypeOK, Actors, Places, KILLED, DONE, SleepCall, Goto, InUser, procVars, listVars,
           actorVars
  <1>2. LifeInv'
    BY ProcAssumption
       DEF TypeOK, LifeInv, ActorInv, TableInv, Actors, Waiting, SleepCall, Goto, InUser,
           procVars, listVars, actorVars
  <1>3. ActorInv'
    BY ProcAssumption
       DEF TypeOK, LifeInv, ActorInv, TableInv, Actors, Waiting, SleepCall, Goto, InUser,
           procVars, listVars, actorVars
  <1>4. TableInv'
    BY SameTable, ProcAssumption
       DEF TypeOK, LifeInv, Actors, SleepCall, Goto, InUser, procVars, listVars, actorVars
  <1> QED BY <1>1, <1>2, <1>3, <1>4

LEMMA SleepReturnBase ==
  ASSUME BaseInv, NEW o \in Proc, SleepReturn(o) PROVE BaseInv'
  <1> USE DEF BaseInv
  <1>1. TypeOK'
    <2>1. CASE kill_requested[o]
      <3>1. pc' = [pc EXCEPT ![o] = "exiting"] /\ ExitCurrent(o, KILLED)
        BY <2>1 DEF SleepReturn, Goto
      <3>2. pc' \in [Actors -> Places]
        BY <3>1 DEF TypeOK, Places
      <3> QED BY <3>1, <3>2 DEF TypeOK, SleepReturn, ExitCurrent, listVars
    <2>2. CASE ~ kill_requested[o]
      BY <2>2 DEF TypeOK, Actors, Places, SleepReturn, Goto, procVars, listVars
    <2> QED BY <2>1, <2>2
  <1>2. LifeInv'
    BY ProcAssumption
       DEF TypeOK, LifeInv, ActorInv, TableInv, Actors, Waiting, SleepReturn, ExitCurrent, Goto,
           procVars, listVars, actorVars
  <1>3. ActorInv'
    BY ProcAssumption
       DEF TypeOK, LifeInv, ActorInv, TableInv, Actors, Waiting, SleepReturn, ExitCurrent, Goto,
           procVars, listVars, actorVars
  <1>4. TableInv'
    BY SameTable, ProcAssumption
       DEF TypeOK, LifeInv, Actors, SleepReturn, ExitCurrent, Goto, procVars, listVars,
           actorVars
  <1> QED BY <1>1, <1>2, <1>3, <1>4

LEMMA LateThreadExitBase ==
  ASSUME BaseInv, NEW o \in Proc, LateThreadExit(o) PROVE BaseInv'
  <1> USE DEF BaseInv
  <1>1. TypeOK'
    BY ProcAssumption
       DEF TypeOK, Actors, Places, KILLED, DONE, LateThreadExit, procVars, listVars, actorVars
  <1>2. LifeInv'
    BY ProcAssumption
       DEF TypeOK, LifeInv, ActorInv, TableInv, Actors, Waiting, LateThreadExit, procVars,
           listVars, actorVars
  <1>3. ActorInv'
    BY ProcAssumption
       DEF TypeOK, LifeInv, ActorInv, TableInv, Actors, Waiting, LateThreadExit, procVars,
           listVars, actorVars
  <1>4. TableInv'
    BY SameTable, ProcAssumption
       DEF TypeOK, LifeInv, Actors, LateThreadExit, procVars, listVars, actorVars
  <1> QED BY <1>1, <1>2, <1>3, <1>4

LEMMA KillBase ==
  ASSUME BaseInv, NEW o \in Proc, NEW c \in Proc, Kill(o, c) PROVE BaseInv'
  <1> USE DEF BaseInv
  <1>1. TypeOK'
    BY ProcAssumption DEF TypeOK, Actors, Places, KILLED, DONE, Kill, procVars, listVars, actorVars
  <1>2. LifeInv'
    <2>1. InTable(c) /\ parent_pid[c] = pid[o] /\ state[o] # "ABSENT" /\ ~ exited[c]
      BY DEF Kill, InTable, InUser, LifeInv
    <2>2. state[c] = "RUNNING"
      BY <2>1 DEF TypeOK, LifeInv, TableInv
    <2> QED BY <2>2 DEF TypeOK, LifeInv, Kill, actorVars
  <1>3. ActorInv'
    BY ProcAssumption
       DEF TypeOK, LifeInv, ActorInv, TableInv, Actors, Waiting, Kill, procVars, listVars,
           actorVars
  <1>4. TableInv'
    BY SameTable, ProcAssumption DEF TypeOK, LifeInv, Actors, Kill, procVars, listVars, actorVars
  <1> QED BY <1>1, <1>2, <1>3, <1>4

LEMMA WaitPidBase ==
  ASSUME BaseInv, NEW o \in Proc, NEW c \in Proc, WaitPid(o, c) PROVE BaseInv'
  <1> USE DEF BaseInv
  <1>1. TypeOK'
    BY ProcAssumption
       DEF TypeOK, Actors, Places, KILLED, DONE, WaitPid, StartWait, process_find, InTable,
           InUser, Goto, procVars, listVars, actorVars
  <1>2. LifeInv'
    BY ProcAssumption
       DEF TypeOK, LifeInv, ActorInv, TableInv, Actors, Waiting, WaitPid, StartWait,
           process_find, InTable, InUser, Goto, procVars, listVars, actorVars
  <1>3. ActorInv'
    BY ProcAssumption, SMTT(30)
       DEF TypeOK, LifeInv, ActorInv, TableInv, Actors, Waiting, WaitPid, StartWait,
           process_find, InTable, InUser, Goto, procVars, listVars, actorVars
  <1>4. TableInv'
    BY SameTable, ProcAssumption
       DEF TypeOK, LifeInv, Actors, WaitPid, StartWait, process_find, InTable, InUser, Goto,
           procVars, listVars, actorVars
  <1> QED BY <1>1, <1>2, <1>3, <1>4

LEMMA MonitorWaitBase ==
  ASSUME BaseInv, NEW c \in Proc, MonitorWait(c) PROVE BaseInv'
  <1> USE DEF BaseInv
  <1>1. TypeOK'
    BY ProcAssumption
       DEF TypeOK, Actors, Places, KILLED, DONE, MonitorWait, StartWait, process_find, InTable,
           Goto, procVars, listVars, actorVars
  <1>2. LifeInv'
    BY ProcAssumption
       DEF TypeOK, LifeInv, ActorInv, TableInv, Actors, Waiting, MonitorWait, StartWait,
           process_find, InTable, Goto, procVars, listVars, actorVars
  <1>3. ActorInv'
    BY ProcAssumption, SMTT(30)
       DEF TypeOK, LifeInv, ActorInv, TableInv, Actors, Waiting, MonitorWait, StartWait,
           process_find, InTable, Goto, procVars, listVars, actorVars
  <1>4. TableInv'
    BY SameTable, ProcAssumption
       DEF TypeOK, LifeInv, Actors, MonitorWait, StartWait, process_find, InTable, Goto,
           procVars, listVars, actorVars
  <1> QED BY <1>1, <1>2, <1>3, <1>4

LEMMA WaitTurnBase ==
  ASSUME BaseInv, NEW w \in Actors, WaitTurn(w) PROVE BaseInv'
  <1> USE DEF BaseInv
  <1>1. TypeOK'
    BY ProcAssumption, ZenonT(30)
       DEF TypeOK, Actors, Places, KILLED, DONE, WaitTurn, reap_zombies, Goto, procVars,
           listVars, actorVars
  <1>2. LifeInv'
    BY ProcAssumption
       DEF TypeOK, LifeInv, ActorInv, TableInv, Actors, Waiting, WaitTurn, reap_zombies, Goto,
           procVars, listVars, actorVars
  <1>3. ActorInv'
    BY ProcAssumption
       DEF TypeOK, LifeInv, ActorInv, TableInv, Actors, Waiting, WaitTurn, reap_zombies, Goto,
           procVars, listVars, actorVars
  <1>4. TableInv'
    BY SameTable, ProcAssumption
       DEF TypeOK, LifeInv, Actors, WaitTurn, reap_zombies, Goto, procVars, listVars, actorVars
  <1> QED BY <1>1, <1>2, <1>3, <1>4

LEMMA WaitReapBase ==
  ASSUME BaseInv, NEW w \in Actors, WaitReap(w) PROVE BaseInv'
  <1> USE DEF BaseInv
  <1>1. TypeOK'
    BY ProcAssumption
       DEF TypeOK, Actors, Places, KILLED, DONE, WaitReap, reap_zombies, Goto, procVars,
           listVars, actorVars
  <1>2. LifeInv'
    BY ProcAssumption
       DEF TypeOK, LifeInv, ActorInv, TableInv, Actors, Waiting, WaitReap, reap_zombies, Goto,
           procVars, listVars, actorVars
  <1>3. ActorInv'
    BY ProcAssumption
       DEF TypeOK, LifeInv, ActorInv, TableInv, Actors, Waiting, WaitReap, reap_zombies, Goto,
           procVars, listVars, actorVars
  <1>4. TableInv'
    BY SameTable, ProcAssumption
       DEF TypeOK, LifeInv, Actors, WaitReap, reap_zombies, Goto, procVars, listVars, actorVars
  <1> QED BY <1>1, <1>2, <1>3, <1>4

LEMMA WaitCopyFailsBase ==
  ASSUME BaseInv, NEW o \in Proc, WaitCopyFails(o) PROVE BaseInv'
  <1> USE DEF BaseInv
  <1>1. TypeOK'
    BY ProcAssumption
       DEF TypeOK, Actors, Places, KILLED, DONE, WaitCopyFails, Goto, procVars, listVars,
           actorVars
  <1>2. LifeInv'
    BY ProcAssumption
       DEF TypeOK, LifeInv, ActorInv, TableInv, Actors, Waiting, WaitCopyFails, Goto, procVars,
           listVars, actorVars
  <1>3. ActorInv'
    BY ProcAssumption
       DEF TypeOK, LifeInv, ActorInv, TableInv, Actors, Waiting, WaitCopyFails, Goto, procVars,
           listVars, actorVars
  <1>4. TableInv'
    BY SameTable, ProcAssumption
       DEF TypeOK, LifeInv, Actors, WaitCopyFails, Goto, procVars, listVars, actorVars
  <1> QED BY <1>1, <1>2, <1>3, <1>4

LEMMA DestroyFreeBase ==
  ASSUME BaseInv, NEW w \in Actors, DestroyFree(w) PROVE BaseInv'
  <1> USE DEF BaseInv
  <1>1. TypeOK'
    BY ProcAssumption
       DEF TypeOK, Actors, Places, KILLED, DONE, DestroyFree, Goto, procVars, listVars,
           actorVars
  <1>2. LifeInv'
    BY ProcAssumption
       DEF TypeOK, LifeInv, ActorInv, TableInv, Actors, Waiting, DestroyFree, Goto, procVars,
           listVars, actorVars
  <1>3. ActorInv'
    BY ProcAssumption
       DEF TypeOK, LifeInv, ActorInv, TableInv, Actors, Waiting, DestroyFree, Goto, procVars,
           listVars, actorVars
  <1>4. TableInv'
    <2>1. ~ InTable(target[w])
      BY DEF TableInv, DestroyFree
    <2> QED BY <2>1, SameTable, ProcAssumption
            DEF TypeOK, LifeInv, Actors, DestroyFree, Goto, listVars
  <1> QED BY <1>1, <1>2, <1>3, <1>4

LEMMA IdleReapBase ==
  ASSUME BaseInv, NEW o \in Proc, IdleReap(o) PROVE BaseInv'
  <1> USE DEF BaseInv
  <1>1. TypeOK'
    BY ProcAssumption
       DEF TypeOK, Actors, Places, KILLED, DONE, IdleReap, procVars, listVars, actorVars
  <1>2. LifeInv'
    BY ProcAssumption
       DEF TypeOK, LifeInv, ActorInv, TableInv, Actors, Waiting, IdleReap, procVars, listVars,
           actorVars
  <1>3. ActorInv'
    BY ProcAssumption
       DEF TypeOK, LifeInv, ActorInv, TableInv, Actors, Waiting, IdleReap, procVars, listVars,
           actorVars
  <1>4. TableInv'
    BY SameTable, ProcAssumption
       DEF TypeOK, LifeInv, Actors, IdleReap, procVars, listVars, actorVars
  <1> QED BY <1>1, <1>2, <1>3, <1>4

LEMMA MonitorCreateBase ==
  ASSUME BaseInv, NEW c \in Proc, MonitorCreate(c) PROVE BaseInv'
  <1> USE DEF BaseInv
  <1>1. TypeOK'
    BY DEF TypeOK, MonitorCreate, CreateEmpty, Goto, Actors, Places
  <1>2. LifeInv'
    BY ProcAssumption
       DEF TypeOK, LifeInv, ActorInv, MonitorCreate, CreateEmpty, Goto, Actors, Waiting
  <1>3. ActorInv'
    BY ProcAssumption
       DEF TypeOK, LifeInv, ActorInv, MonitorCreate, CreateEmpty, Goto, Actors, Waiting
  <1>4. TableInv'
    <2>1. ~ InTable(c) /\ table \in Seq(Proc)
      BY DEF TableInv, MonitorCreate, CreateEmpty, TypeOK
    <2>2. \A x \in Proc : InTable(x)' <=> InTable(x) \/ x = c
      BY <2>1, InsertTable DEF TableInv, MonitorCreate, CreateEmpty
    <2>3. \A i, j \in 1..Len(table') : table'[i] = table'[j] => i = j
      BY <2>1, InsertTable DEF TableInv, MonitorCreate, CreateEmpty
    <2>4. \A w \in Actors : pc'[w] = "unlinked" =>
            pc[w] = "unlinked" /\ target'[w] = target[w] /\ target[w] \in Proc /\ target[w] # c
      BY DEF MonitorCreate, CreateEmpty, Goto, TypeOK, ActorInv, Waiting
    <2> QED BY <2>2, <2>3, <2>4 DEF TableInv, MonitorCreate, CreateEmpty, TypeOK
  <1> QED BY <1>1, <1>2, <1>3, <1>4

LEMMA DestroyUnlinkBase ==
  ASSUME BaseInv, NEW w \in Actors, DestroyUnlink(w) PROVE BaseInv'
  <1> USE DEF BaseInv
  <1>1. /\ target[w] \in Proc /\ exited[target[w]]
        /\ thread[target[w]] = "reaped" \/ pc[target[w]] = "exiting"
    BY DEF DestroyUnlink, ActorInv, Waiting
  <1>2. /\ table' \in Seq(Proc)
        /\ \A i, j \in 1..Len(table') : table'[i] = table'[j] => i = j
        /\ \A o \in Proc : InTable(o)' <=> InTable(target[w]) /\ InTable(o) /\ o # target[w]
    BY <1>1, RemoveTable DEF DestroyUnlink, TypeOK, TableInv
  <1>3. parent_pid' \in [Proc -> Nat] /\ \A o \in Proc : parent_pid[o] = 0 => parent_pid'[o] = 0
    BY DEF DestroyUnlink, TypeOK
  <1>4. TypeOK'
    BY <1>2, <1>3 DEF TypeOK, DestroyUnlink, Goto, Places
  <1>5. LifeInv'
    BY <1>3, ProcAssumption DEF TypeOK, LifeInv, ActorInv, DestroyUnlink, Goto, Actors, Waiting
  <1>6. ActorInv'
    BY <1>1, ProcAssumption DEF TypeOK, LifeInv, ActorInv, DestroyUnlink, Goto, Actors, Waiting
  <1>7. TableInv'
    <2>1. \A x \in Actors : pc'[x] = "unlinked" => target[x] \in Proc /\ ~ InTable(target[x])'
      BY <1>1, <1>2 DEF DestroyUnlink, Goto, TypeOK, ActorInv, TableInv, Waiting
    <2> QED BY <1>2, <2>1 DEF TableInv, DestroyUnlink, InTable
  <1> QED BY <1>4, <1>5, <1>6, <1>7

(* Every step, and every stuttering step, preserves BaseInv.               *)
LEMMA NextBase == ASSUME BaseInv, [Next]_vars PROVE BaseInv'
  <1>1. ASSUME NEW o \in Proc, ProcStep(o) PROVE BaseInv'
    BY <1>1, ExecBase, KillBase, WaitPidBase, ExitNowBase, SleepCallBase, SleepReturnBase,
       LateThreadExitBase, WaitCopyFailsBase DEF ProcStep
  <1>2. ASSUME MonitorStep PROVE BaseInv'
    BY <1>2, MonitorLoadPidBase, MonitorStorePidBase, MonitorCreateBase, MonitorWaitBase,
       MonitorStartBase DEF MonitorStep
  <1>3. ASSUME NEW w \in Actors, WaitStep(w) PROVE BaseInv'
    BY <1>3, WaitTurnBase, WaitReapBase, DestroyUnlinkBase, DestroyFreeBase DEF WaitStep
  <1>4. CASE UNCHANGED vars
    BY <1>4 DEF BaseInv, TypeOK, LifeInv, ActorInv, TableInv, InTable, vars, procVars, listVars,
                actorVars
  <1> QED BY <1>1, <1>2, <1>3, <1>4, IdleReapBase DEF Next

(* Whatever users do, the invariant holds.                                 *)
THEOREM BaseInductive == Spec => []BaseInv
  BY InitBase, NextBase, PTL DEF Spec

(* Every variable keeps its type, whatever users do.                       *)
THEOREM TypeCorrect == Spec => []TypeOK
  <1>1. BaseInv => TypeOK
    BY DEF BaseInv
  <1> QED BY <1>1, BaseInductive, PTL

(* process_destroy never frees a process whose main thread has not been    *)
(* reaped, except one killed inside a system call that has enabled         *)
(* interrupts.                                                             *)
THEOREM TeardownInOrder == Spec => []TeardownOrder
  <1>1. BaseInv => TeardownOrder
    BY DEF BaseInv, LifeInv, TeardownOrder
  <1> QED BY <1>1, BaseInductive, PTL

-----------------------------------------------------------------------------
(* What a step may do to a process that has exited.                        *)
Final(o) ==
  exited[o] =>
    /\ exited'[o] /\ exit_code'[o] = exit_code[o]
    /\ ~ kill_requested'[o]
    /\ pc[o] = "exiting" => pc'[o] = "exiting"

LEMMA StepFinal == ASSUME BaseInv, Next, NEW x \in Proc PROVE Final(x)
  <1> USE DEF BaseInv, Actors
  <1>0. /\ exited[x] => thread[x] # "live" \/ pc[x] = "exiting"
        /\ exited[x] => ~ kill_requested[x] /\ state[x] \in {"ZOMBIE", "FREED"}
        /\ exited[x] => pc[x] \in {"user", "exiting"}
    BY DEF LifeInv
  <1>1. ASSUME NEW o \in Proc, ProcStep(o) PROVE Final(x)
    <2>1. ASSUME NEW c \in Proc, Exec(o, c) \/ Kill(o, c) \/ WaitPid(o, c) PROVE Final(x)
      BY <1>0, <2>1 DEF Exec, Kill, WaitPid, InUser, CreateEmpty, StartWait, Goto, Final,
                  TypeOK, procVars, actorVars
    <2>2. ASSUME NEW code \in {DONE, KILLED}, ExitNow(o, code) PROVE Final(x)
      BY <1>0, <2>2 DEF ExitNow, ExitCurrent, InUser, Final, TypeOK, actorVars
    <2>3. ASSUME NEW place \in {"asleep", "reading"}, SleepCall(o, place) PROVE Final(x)
      BY <1>0, <2>3 DEF SleepCall, InUser, Goto, Final, TypeOK, procVars
    <2>4. ASSUME SleepReturn(o) PROVE Final(x)
      <3>1. CASE kill_requested[o]
        BY <1>0, <2>4, <3>1 DEF SleepReturn, ExitCurrent, Goto, Final, TypeOK
      <3>2. CASE ~ kill_requested[o]
        BY <1>0, <2>4, <3>2 DEF SleepReturn, Goto, Final, TypeOK, procVars
      <3> QED BY <3>1, <3>2
    <2>5. ASSUME LateThreadExit(o) PROVE Final(x)
      BY <1>0, <2>5 DEF LateThreadExit, Final, procVars, actorVars
    <2>6. ASSUME WaitCopyFails(o) PROVE Final(x)
      BY <1>0, <2>6 DEF WaitCopyFails, Goto, Final, TypeOK, procVars
    <2> QED BY <1>1, <2>1, <2>2, <2>3, <2>4, <2>5, <2>6 DEF ProcStep
  <1>2. ASSUME MonitorStep PROVE Final(x)
    <2>1. ASSUME MonitorLoadPid \/ MonitorStorePid PROVE Final(x)
      BY <1>0, <2>1, ProcAssumption
         DEF MonitorLoadPid, MonitorStorePid, Goto, Final, TypeOK, procVars
    <2>2. ASSUME NEW c \in Proc, MonitorCreate(c) PROVE Final(x)
      BY <1>0, <2>2, ProcAssumption DEF MonitorCreate, CreateEmpty, Goto, Final, TypeOK
    <2>3. ASSUME NEW c \in Proc, MonitorWait(c) PROVE Final(x)
      BY <1>0, <2>3, ProcAssumption DEF MonitorWait, StartWait, Goto, Final, TypeOK, procVars
    <2>4. ASSUME NEW foreground \in BOOLEAN, MonitorStart(foreground) PROVE Final(x)
      BY <1>0, <2>4, ProcAssumption DEF MonitorStart, Goto, Final, TypeOK
    <2> QED BY <1>2, <2>1, <2>2, <2>3, <2>4 DEF MonitorStep
  <1>3. ASSUME NEW w \in Actors, WaitStep(w) PROVE Final(x)
    <2>1. ASSUME WaitTurn(w) \/ WaitReap(w) PROVE Final(x)
      BY <1>0, <2>1 DEF WaitTurn, WaitReap, Goto, Final, TypeOK, procVars
    <2>2. ASSUME DestroyUnlink(w) PROVE Final(x)
      BY <1>0, <2>2 DEF DestroyUnlink, Goto, Final, TypeOK
    <2>3. ASSUME DestroyFree(w) PROVE Final(x)
      BY <1>0, <2>3 DEF DestroyFree, Goto, Final, TypeOK
    <2> QED BY <1>3, <2>1, <2>2, <2>3 DEF WaitStep
  <1>4. ASSUME NEW o \in Proc, IdleReap(o) PROVE Final(x)
    BY <1>0, <1>4 DEF IdleReap, Final,  procVars, actorVars
  <1> QED BY <1>1, <1>2, <1>3, <1>4 DEF Next

(* Exit is final: whatever users and other processes do, what              *)
(* process_exit_current has stored stays, no kill request is left behind   *)
(* or accepted, and an exiting thread does not come back.                  *)
THEOREM ExitStaysFinal == Spec => ExitIsFinal
  <1>1. ASSUME BaseInv, [Next]_vars PROVE [\A o \in Proc : Final(o)]_vars
    BY <1>1, StepFinal
  <1> QED BY <1>1, BaseInductive, PTL DEF Spec, ExitIsFinal, Final

-----------------------------------------------------------------------------
(* Steps that create nobody, launch nothing and start no waiting.          *)
LEMMA PidFrame ==
  ASSUME BaseInv, PidInv, UNCHANGED <<pid, parent_pid, next_pid, creator, loaded>>,
         \A o \in Proc : state'[o] = "ABSENT" <=> state[o] = "ABSENT",
         pc'[Monitor] \in {"creating", "created"} => pc'[Monitor] = pc[Monitor],
         \A o \in Proc : pc'[o] \in Waiting => pc[o] \in Waiting /\ target'[o] = target[o]
  PROVE  PidInv'
  BY DEF BaseInv, TypeOK, PidInv, Actors

LEMMA ExecPid ==
  ASSUME BaseInv, PidInv, "launch_race" \notin Features, NEW o \in Proc, NEW c \in Proc, Exec(o, c)
  PROVE  PidInv'
  <1> USE DEF BaseInv
  <1>1. state[o] # "ABSENT" /\ pid[o] < next_pid /\ pc[Monitor] # "creating" /\ c # o
    BY DEF LifeInv, Exec, InUser, CreateEmpty, PidInv
  <1>2. \A x \in Proc : pc[x] \in Waiting => target[x] \in Proc /\ target[x] # c /\ x # c
    BY DEF Exec, CreateEmpty, ActorInv, LifeInv, Waiting, Actors
  <1> QED BY <1>1, <1>2 DEF TypeOK, PidInv, Exec, CreateEmpty, actorVars

LEMMA MonitorLaunchPid ==
  ASSUME BaseInv, PidInv, MonitorLoadPid \/ MonitorStorePid
  PROVE  PidInv'
  <1> USE DEF BaseInv
  <1>1. /\ UNCHANGED <<state, pid, parent_pid, creator, target>>
        /\ \A o \in Proc : pc'[o] = pc[o]
    BY ProcAssumption
       DEF TypeOK, MonitorLoadPid, MonitorStorePid, Goto, Actors, procVars, listVars
  <1>2. CASE MonitorLoadPid
    <2>1. next_pid' = next_pid /\ loaded' = next_pid /\ pc'[Monitor] = "creating"
      BY <1>2 DEF MonitorLoadPid, Goto, TypeOK, Actors, listVars
    <2> QED BY <1>1, <2>1 DEF PidInv
  <1>3. CASE MonitorStorePid
    <2>1. /\ loaded = next_pid /\ loaded' = loaded /\ next_pid' = next_pid + 1
          /\ pc'[Monitor] = "created"
      BY <1>3 DEF MonitorStorePid, Goto, TypeOK, Actors, PidInv
    <2> QED BY <1>1, <2>1 DEF PidInv, TypeOK
  <1> QED BY <1>2, <1>3

LEMMA MonitorCreatePid ==
  ASSUME BaseInv, PidInv, NEW c \in Proc, MonitorCreate(c)
  PROVE  PidInv'
  <1> USE DEF BaseInv
  <1>1. \A x \in Proc : pc[x] \in Waiting => target[x] \in Proc /\ target[x] # c /\ x # c
    BY DEF MonitorCreate, CreateEmpty, ActorInv, LifeInv, Waiting, Actors
  <1> QED BY <1>1, ProcAssumption DEF TypeOK, PidInv, MonitorCreate, CreateEmpty, Goto, Actors

LEMMA WaitPidPid ==
  ASSUME BaseInv, PidInv, NEW o \in Proc, NEW c \in Proc, WaitPid(o, c)
  PROVE  PidInv'
  BY ProcAssumption
     DEF BaseInv, TypeOK, PidInv, WaitPid, StartWait, Goto, Actors, procVars, listVars

LEMMA DestroyUnlinkPid ==
  ASSUME BaseInv, PidInv, NEW w \in Actors, DestroyUnlink(w)
  PROVE  PidInv'
  <1> USE DEF BaseInv
  <1>1. target[w] \in Proc /\ exited[target[w]] /\ state[target[w]] # "ABSENT"
    BY DEF DestroyUnlink, ActorInv, Waiting
  <1>2. ASSUME NEW o \in Proc, pc'[o] \in Waiting
        PROVE  target[o] \in Proc /\ parent_pid'[target[o]] = pid[o]
    <2>1. pc[o] \in Waiting /\ target[o] \in Proc
      BY <1>2 DEF DestroyUnlink, Goto, TypeOK, ActorInv, Actors, Waiting
    <2>2. o # target[w] /\ state[o] # "ABSENT"
      BY <1>1, <2>1 DEF LifeInv, Waiting
    <2>3. pid[o] # pid[target[w]] /\ parent_pid[target[o]] = pid[o]
      BY <1>1, <2>1, <2>2 DEF PidInv
    <2> QED BY <2>1, <2>3 DEF DestroyUnlink
  <1>3. \A c \in Proc : parent_pid'[c] # 0 => parent_pid'[c] = parent_pid[c]
    BY DEF DestroyUnlink
  <1>4. pc'[Monitor] \in {"creating", "created"} => pc'[Monitor] = pc[Monitor]
    BY DEF DestroyUnlink, Goto, TypeOK
  <1> QED BY <1>2, <1>3, <1>4 DEF TypeOK, PidInv, DestroyUnlink

(* Every step preserves PidInv where launches do not race.                 *)
LEMMA NextPid ==
  ASSUME BaseInv, PidInv, "launch_race" \notin Features, [Next]_vars PROVE PidInv'
  <1> USE DEF BaseInv, Actors
  <1>1. ASSUME NEW o \in Proc, ProcStep(o) PROVE PidInv'
    <2>1. ASSUME NEW c \in Proc, Exec(o, c) \/ WaitPid(o, c) PROVE PidInv'
      BY <2>1, ExecPid, WaitPidPid
    <2>2. ASSUME NEW c \in Proc, Kill(o, c) PROVE PidInv'
      BY <2>2, PidFrame DEF Kill, listVars, actorVars
    <2>3. ASSUME NEW code \in {DONE, KILLED}, ExitNow(o, code) PROVE PidInv'
      BY <2>3, PidFrame DEF ExitNow, ExitCurrent, InUser, LifeInv, TypeOK, listVars, actorVars
    <2>4. ASSUME NEW place \in {"asleep", "reading"}, SleepCall(o, place) PROVE PidInv'
      BY <2>4, PidFrame, ProcAssumption DEF SleepCall, Goto, TypeOK, Waiting, procVars, listVars
    <2>5. ASSUME SleepReturn(o) PROVE PidInv'
      <3>1. \A x \in Proc : state'[x] = "ABSENT" <=> state[x] = "ABSENT"
        BY <2>5 DEF SleepReturn, ExitCurrent, LifeInv, TypeOK, procVars
      <3>2. /\ pc'[o] \in {"user", "exiting"}
            /\ \A x \in Actors : x # o => pc'[x] = pc[x]
        BY <2>5 DEF SleepReturn, Goto, TypeOK
      <3>3. UNCHANGED <<pid, parent_pid, next_pid, creator, loaded, target>>
        BY <2>5 DEF SleepReturn, ExitCurrent, procVars, listVars
      <3> QED BY <3>1, <3>2, <3>3, PidFrame, ProcAssumption DEF Waiting
    <2>6. ASSUME LateThreadExit(o) PROVE PidInv'
      BY <2>6, PidFrame DEF LateThreadExit, procVars, listVars, actorVars
    <2>7. ASSUME WaitCopyFails(o) PROVE PidInv'
      BY <2>7, PidFrame, ProcAssumption DEF WaitCopyFails, Goto, TypeOK, Waiting, procVars, listVars
    <2> QED BY <1>1, <2>1, <2>2, <2>3, <2>4, <2>5, <2>6, <2>7 DEF ProcStep
  <1>2. ASSUME MonitorStep PROVE PidInv'
    <2>1. ASSUME NEW c \in Proc, MonitorWait(c) PROVE PidInv'
      BY <2>1, PidFrame, ProcAssumption
         DEF MonitorWait, StartWait, Goto, TypeOK, procVars, listVars
    <2>2. ASSUME NEW foreground \in BOOLEAN, MonitorStart(foreground) PROVE PidInv'
      BY <2>2, PidFrame, ProcAssumption
         DEF MonitorStart, Goto, TypeOK, ActorInv, listVars
    <2> QED BY <1>2, <2>1, <2>2, MonitorLaunchPid, MonitorCreatePid DEF MonitorStep
  <1>3. ASSUME NEW w \in Actors, WaitStep(w) PROVE PidInv'
    <2>1. ASSUME WaitTurn(w) PROVE PidInv'
      BY <2>1, PidFrame DEF WaitTurn, Goto, TypeOK, Waiting, procVars, listVars
    <2>2. ASSUME WaitReap(w) PROVE PidInv'
      BY <2>2, PidFrame DEF WaitReap, Goto, TypeOK, Waiting, procVars, listVars
    <2>3. ASSUME DestroyFree(w) PROVE PidInv'
      BY <2>3, PidFrame DEF DestroyFree, Goto, TypeOK, ActorInv, Waiting, listVars
    <2> QED BY <1>3, <2>1, <2>2, <2>3, DestroyUnlinkPid DEF WaitStep
  <1>4. ASSUME NEW o \in Proc, IdleReap(o) PROVE PidInv'
    BY <1>4, PidFrame DEF IdleReap, procVars, listVars, actorVars
  <1>5. CASE UNCHANGED vars
    BY <1>5, PidFrame DEF vars, procVars, listVars, actorVars
  <1> QED BY <1>1, <1>2, <1>3, <1>4, <1>5 DEF Next

(* Unless a SYS_EXEC hits the monitor inside next_pid++, no two processes  *)
(* share a pid.                                                            *)
THEOREM PidsInductive ==
  ASSUME "launch_race" \notin Features PROVE Spec => [](BaseInv /\ PidInv)
  <1>1. Init => PidInv
    BY ProcAssumption DEF Init, PidInv, Waiting, Actors
  <1>2. ASSUME BaseInv, PidInv, [Next]_vars PROVE PidInv'
    BY <1>2, NextPid
  <1> QED BY <1>1, <1>2, BaseInductive, PTL DEF Spec

(* Then SYS_WAITPID never waits for, or destroys, another process's child. *)
THEOREM WaitersOwnTheirChild ==
  ASSUME "launch_race" \notin Features PROVE Spec => []WaitsForOwnChild
  <1>1. ASSUME BaseInv, PidInv PROVE WaitsForOwnChild
    <2> SUFFICES ASSUME NEW o \in Proc, pc[o] \in Waiting PROVE creator[target[o]] = o
      BY DEF WaitsForOwnChild
    <2>1. target[o] \in Proc /\ state[o] # "ABSENT" /\ pid[o] > 0 /\ pid[o] \in Nat
      BY <1>1 DEF BaseInv, TypeOK, LifeInv, ActorInv, Actors, Waiting
    <2>2. parent_pid[target[o]] = pid[o] /\ pid[o] # 0
      BY <1>1, <2>1 DEF PidInv
    <2> QED BY <1>1, <2>1, <2>2 DEF PidInv
  <1> QED BY <1>1, PidsInductive, PTL

-----------------------------------------------------------------------------
(* Steps that change neither the table nor the family tree, free nobody    *)
(* and start no waiting.                                                   *)
LEMMA ExclusiveFrame ==
  ASSUME BaseInv, ExclusiveInv, UNCHANGED <<table, parent_pid, creator>>,
         \A o \in Proc : /\ state'[o] = "ABSENT" <=> state[o] = "ABSENT"
                         /\ state'[o] = "FREED" <=> state[o] = "FREED"
                         /\ exited[o] => exited'[o],
         \A w \in Actors : pc'[w] \in Waiting =>
            /\ pc[w] \in Waiting /\ target'[w] = target[w]
            /\ pc[w] = "unlinked" => pc'[w] = "unlinked",
         \A w \in Actors : pc[w] = "unlinked" => pc'[w] = "unlinked" /\ target'[w] = target[w]
  PROVE  ExclusiveInv'
  <1>1. \A o : InTable(o)' <=> InTable(o)
    BY DEF InTable
  <1>2. \A w \in Actors : pc[w] \in Waiting => target[w] \in Proc
    BY DEF BaseInv, ActorInv
  <1>3. \A o \in Proc : Unlinked(o) => Unlinked(o)'
    BY DEF Unlinked
  <1> QED BY <1>1, <1>2, <1>3 DEF ExclusiveInv, Actors

(* Two actors never wait for the same process.                             *)
LEMMA DistinctTargets ==
  ASSUME BaseInv, PidInv, ExclusiveInv, NEW v \in Actors, NEW w \in Actors, v # w,
         pc[v] \in Waiting, pc[w] \in Waiting
  PROVE  target[v] # target[w]
  <1>1. ASSUME NEW o \in Proc, pc[o] \in Waiting
        PROVE  /\ state[o] # "ABSENT" /\ pid[o] # 0
               /\ parent_pid[target[o]] = pid[o]
    BY <1>1 DEF BaseInv, TypeOK, LifeInv, PidInv, Waiting
  <1>2. CASE v \in Proc /\ w \in Proc
    BY <1>1, <1>2 DEF PidInv
  <1>3. CASE v = Monitor \/ w = Monitor
    BY <1>1, <1>3 DEF ExclusiveInv, Actors
  <1> QED BY <1>2, <1>3 DEF Actors

(* A new process at the end of the table, its launcher in the table or     *)
(* none.                                                                   *)
LEMMA CreateExclusive ==
  ASSUME BaseInv, ExclusiveInv, NEW c \in Proc, NEW p \in Nat, NEW pp \in Nat, NEW st,
         CreateEmpty(c, p, pp, st), st # "FREED",
         NEW a \in Actors, creator' = [creator EXCEPT ![c] = a], pp # 0 => InTable(a) /\ a \in Proc,
         \A w \in Actors : pc'[w] \in Waiting => pc[w] = pc'[w] /\ target'[w] = target[w],
         \A w \in Actors : pc[w] = "unlinked" => pc'[w] = "unlinked" /\ target'[w] = target[w]
  PROVE  ExclusiveInv'
  <1> USE DEF BaseInv
  <1>1. ~ InTable(c) /\ \A o \in Proc : InTable(o)' <=> InTable(o) \/ o = c
    BY InsertTable DEF TypeOK, TableInv, CreateEmpty
  <1>2. \A w \in Actors : pc[w] \in Waiting => target[w] \in Proc /\ target[w] # c
    BY DEF ActorInv, CreateEmpty
  <1>3. ASSUME NEW o \in Proc, parent_pid[o] # 0, InTable(o) PROVE InTable(creator[o])
    BY <1>3 DEF ExclusiveInv
  <1>4. \A o : InTable(o) => o \in Proc
    BY DEF InTable, TypeOK
  <1>5. ASSUME NEW o \in Proc, InTable(o)', parent_pid'[o] # 0 PROVE InTable(creator[o])'
    <2>1. CASE o = c
      <3>1. creator'[o] = a /\ parent_pid'[o] = pp
        BY <2>1 DEF CreateEmpty, TypeOK
      <3>2. a \in Proc /\ InTable(a)'
        BY <1>1, <1>5, <3>1
      <3> QED BY <3>1, <3>2
    <2>2. CASE o # c
      BY <1>1, <1>3, <1>4, <1>5, <2>2 DEF CreateEmpty, TypeOK
    <2> QED BY <2>1, <2>2
  <1>6. \A o \in Proc : Unlinked(o) => Unlinked(o)'
    BY DEF Unlinked
  <1> QED BY <1>1, <1>2, <1>5, <1>6 DEF ExclusiveInv, CreateEmpty, TypeOK, Actors

LEMMA ExecExclusive ==
  ASSUME BaseInv, ExclusiveInv, NEW o \in Proc, NEW c \in Proc, Exec(o, c)
  PROVE  ExclusiveInv'
  <1> USE DEF BaseInv
  <1>1. state[o] # "ABSENT" /\ ~ exited[o] /\ o \in Actors
    BY DEF Exec, InUser, LifeInv, Actors
  <1>2. InTable(o) /\ next_pid \in Nat /\ pid[o] \in Nat
    BY <1>1 DEF ExclusiveInv, TypeOK
  <1>3. \A w \in Actors : pc'[w] \in Waiting => pc[w] = pc'[w] /\ target'[w] = target[w]
    BY DEF Exec, actorVars
  <1>4. \A w \in Actors : pc[w] = "unlinked" => pc'[w] = "unlinked" /\ target'[w] = target[w]
    BY DEF Exec, actorVars
  <1> QED BY <1>1, <1>2, <1>3, <1>4, CreateExclusive DEF Exec

LEMMA MonitorCreateExclusive ==
  ASSUME BaseInv, ExclusiveInv, NEW c \in Proc, MonitorCreate(c)
  PROVE  ExclusiveInv'
  <1>1. \A w \in Actors : pc'[w] \in Waiting => pc[w] = pc'[w] /\ target'[w] = target[w]
    BY DEF BaseInv, TypeOK, MonitorCreate, Goto, Waiting
  <1>2. loaded \in Nat /\ Monitor \in Actors
    BY DEF BaseInv, TypeOK, Actors
  <1>3. \A w \in Actors : pc[w] = "unlinked" => pc'[w] = "unlinked" /\ target'[w] = target[w]
    BY DEF BaseInv, TypeOK, MonitorCreate, Goto
  <1> QED BY <1>1, <1>2, <1>3, CreateExclusive DEF MonitorCreate

(* A wait that begins finds its process in the table.                      *)
LEMMA StartWaitExclusive ==
  ASSUME BaseInv, ExclusiveInv, NEW w \in Actors, NEW c \in Proc, StartWait(w, c), InTable(c),
         w = Monitor => parent_pid[c] = 0, pc[w] = "user"
  PROVE  ExclusiveInv'
  <1> USE DEF BaseInv
  <1>1. \A o : InTable(o)' <=> InTable(o)
    BY DEF InTable, StartWait, listVars
  <1>2. \A x \in Actors : pc[x] \in Waiting => target[x] \in Proc
    BY DEF ActorInv
  <1>3. state[c] # "FREED"
    BY DEF TableInv
  <1>4. \A x \in Actors : /\ x # w => pc'[x] = pc[x] /\ target'[x] = target[x]
                          /\ x = w => pc'[x] = "wait" /\ target'[x] = c
    BY DEF StartWait, Goto, TypeOK
  <1>5. UNCHANGED <<state, exited, parent_pid, creator>>
    BY DEF StartWait, procVars
  <1>6. \A x \in Actors : pc'[x] \in Waiting =>
          state'[target'[x]] # "FREED" /\ (pc'[x] # "unlinked" => InTable(target'[x]))
    BY <1>2, <1>3, <1>4, <1>5 DEF ExclusiveInv
  <1>7. pc'[Monitor] \in Waiting => parent_pid'[target'[Monitor]] = 0
    BY <1>4, <1>5 DEF ExclusiveInv, Actors
  <1>8. \A o \in Proc : Unlinked(o) => Unlinked(o)'
    BY <1>4 DEF Unlinked, StartWait
  <1> QED BY <1>1, <1>5, <1>6, <1>7, <1>8 DEF ExclusiveInv

LEMMA MonitorStartExclusive ==
  ASSUME BaseInv, ExclusiveInv, NEW foreground \in BOOLEAN, MonitorStart(foreground)
  PROVE  ExclusiveInv'
  <1> USE DEF BaseInv
  <1> DEFINE c == target[Monitor]
  <1>1. c \in Proc /\ state[c] = "NEW" /\ parent_pid[c] = 0 /\ ~ exited[c] /\ InTable(c)
    BY DEF MonitorStart, ActorInv, LifeInv, ExclusiveInv
  <1>2. \A o : InTable(o)' <=> InTable(o)
    BY DEF InTable, MonitorStart, listVars
  <1>3. \A x \in Actors : pc[x] \in Waiting => target[x] \in Proc
    BY DEF ActorInv
  <1>4. /\ \A x \in Actors : x # Monitor => pc'[x] = pc[x] /\ target'[x] = target[x]
        /\ pc'[Monitor] \in Waiting => pc'[Monitor] = "wait" /\ target'[Monitor] = c
    BY DEF MonitorStart, Goto, TypeOK, Waiting, Actors
  <1>5. UNCHANGED <<exited, parent_pid, creator>> /\ state' = [state EXCEPT ![c] = "RUNNING"]
    BY DEF MonitorStart
  <1> HIDE DEF c
  <1>6. \A x \in Actors : pc'[x] \in Waiting =>
          state'[target'[x]] # "FREED" /\ (pc'[x] # "unlinked" => InTable(target'[x]))
    BY <1>1, <1>3, <1>4, <1>5 DEF ExclusiveInv, TypeOK
  <1>7. pc'[Monitor] \in Waiting => parent_pid'[target'[Monitor]] = 0
    BY <1>1, <1>4, <1>5
  <1>8. \A o \in Proc : state'[o] # "ABSENT" => state[o] # "ABSENT"
    BY <1>1, <1>5 DEF TypeOK
  <1>9. \A o \in Proc : Unlinked(o) => Unlinked(o)'
    BY <1>4 DEF Unlinked, MonitorStart
  <1>10. \A o \in Proc : state'[o] = "FREED" <=> state[o] = "FREED"
    BY <1>1, <1>5 DEF TypeOK
  <1> QED BY <1>2, <1>5, <1>6, <1>7, <1>8, <1>9, <1>10 DEF ExclusiveInv

(* The process unlinked is nobody else's target, and its children in the   *)
(* table lose their parent.                                                *)
LEMMA DestroyUnlinkExclusive ==
  ASSUME BaseInv, PidInv, ExclusiveInv, NEW w \in Actors, DestroyUnlink(w)
  PROVE  ExclusiveInv'
  <1> USE DEF BaseInv
  <1> DEFINE c == target[w]
  <1>1. c \in Proc /\ exited[c] /\ InTable(c) /\ state[c] # "ABSENT" /\ pc[w] \in Waiting
    BY DEF DestroyUnlink, ActorInv, ExclusiveInv, Waiting
  <1>2. \A o \in Proc : InTable(o)' <=> InTable(o) /\ o # c
    BY <1>1, RemoveTable DEF DestroyUnlink, TypeOK, TableInv
  <1>3. /\ UNCHANGED <<state, exited, creator, target>>
        /\ pc'[w] = "unlinked" /\ \A x \in Actors : x # w => pc'[x] = pc[x]
    BY DEF DestroyUnlink, Goto, TypeOK
  <1>4. \A o \in Proc : parent_pid'[o] = IF InTable(o) /\ parent_pid[o] = pid[c] THEN 0
                                         ELSE parent_pid[o]
    BY DEF DestroyUnlink
  <1>5. \A x \in Actors : x # w /\ pc[x] \in Waiting => target[x] \in Proc /\ target[x] # c
    BY <1>1, DistinctTargets DEF ActorInv
  <1> HIDE DEF c
  <1>6. \A x \in Actors : pc'[x] \in Waiting =>
          state'[target'[x]] # "FREED" /\ (pc'[x] # "unlinked" => InTable(target[x])')
    <2> SUFFICES ASSUME NEW x \in Actors, pc'[x] \in Waiting
                 PROVE  state'[target'[x]] # "FREED" /\ (pc'[x] # "unlinked" => InTable(target[x])')
      OBVIOUS
    <2>1. CASE x = w
      BY <1>1, <1>3, <2>1 DEF ExclusiveInv
    <2>2. CASE x # w
      BY <1>2, <1>3, <1>5, <2>2 DEF ExclusiveInv
    <2> QED BY <2>1, <2>2
  <1>7. pc'[Monitor] \in Waiting => parent_pid'[target'[Monitor]] = 0
    <2>1. pc'[Monitor] \in Waiting => pc[Monitor] \in Waiting /\ target[Monitor] \in Proc
      BY <1>1, <1>3, <1>5 DEF Actors, ActorInv
    <2> QED BY <1>3, <1>4, <2>1 DEF ExclusiveInv
  <1>8. ASSUME NEW o \in Proc, InTable(o)', parent_pid'[o] # 0 PROVE InTable(creator[o])'
    <2>1. InTable(o) /\ parent_pid[o] # 0 /\ parent_pid[o] # pid[c]
      BY <1>2, <1>4, <1>8
    <2>2. creator[o] \in Proc /\ InTable(creator[o]) /\ creator[o] # c
      BY <2>1 DEF PidInv, ExclusiveInv
    <2> QED BY <1>2, <1>3, <2>2
  <1>9. \A o \in Proc : state'[o] # "ABSENT" /\ ~ exited'[o] => InTable(o)'
    BY <1>1, <1>2, <1>3 DEF ExclusiveInv
  <1>10. \A o \in Proc : state'[o] \notin {"ABSENT", "FREED"} => InTable(o)' \/ Unlinked(o)'
    <2>1. \A o \in Proc : Unlinked(o) => Unlinked(o)'
      BY <1>3 DEF Unlinked
    <2>2. \E x \in Actors : pc'[x] = "unlinked" /\ target'[x] = c
      BY <1>3 DEF c
    <2>3. \A o \in Proc : o # c => (InTable(o) => InTable(o)')
      BY <1>2
    <2>4. \A o \in Proc : o = c => Unlinked(o)'
      BY <2>2 DEF Unlinked
    <2>5. state' = state
      BY <1>3
    <2> QED BY <2>1, <2>3, <2>4, <2>5 DEF ExclusiveInv
  <1> QED BY <1>6, <1>7, <1>8, <1>9, <1>10 DEF ExclusiveInv

(* Nobody else waits for the process that is freed.                        *)
LEMMA DestroyFreeExclusive ==
  ASSUME BaseInv, PidInv, ExclusiveInv, NEW w \in Actors, DestroyFree(w)
  PROVE  ExclusiveInv'
  <1> USE DEF BaseInv
  <1> DEFINE c == target[w]
  <1>1. c \in Proc /\ exited[c] /\ pc[w] \in Waiting
    BY DEF DestroyFree, ActorInv, Waiting
  <1>2. \A o : InTable(o)' <=> InTable(o)
    BY DEF DestroyFree, InTable, listVars
  <1>3. /\ UNCHANGED <<exited, parent_pid, creator>> /\ state' = [state EXCEPT ![c] = "FREED"]
        /\ pc'[w] = "user" /\ \A x \in Actors : x # w => pc'[x] = pc[x] /\ target'[x] = target[x]
    BY DEF DestroyFree, Goto, TypeOK
  <1>4. \A x \in Actors : x # w /\ pc[x] \in Waiting => target[x] \in Proc /\ target[x] # c
    BY <1>1, DistinctTargets DEF ActorInv
  <1> HIDE DEF c
  <1>5. \A x \in Actors : pc'[x] \in Waiting => x # w /\ pc[x] \in Waiting
    BY <1>3 DEF Waiting
  <1>6. \A x \in Actors : pc'[x] \in Waiting =>
          state'[target'[x]] # "FREED" /\ (pc'[x] # "unlinked" => InTable(target'[x]))
    BY <1>3, <1>4, <1>5 DEF ExclusiveInv, TypeOK
  <1>7. pc'[Monitor] \in Waiting => parent_pid'[target'[Monitor]] = 0
    BY <1>3, <1>5 DEF ExclusiveInv, Actors
  <1>8. \A o \in Proc : state'[o] # "ABSENT" /\ ~ exited'[o] => InTable(o)'
    BY <1>1, <1>2, <1>3 DEF ExclusiveInv, TypeOK
  <1>9. \A o \in Proc : state'[o] \notin {"ABSENT", "FREED"} => InTable(o)' \/ Unlinked(o)'
    <2>1. \A o \in Proc : o # c /\ Unlinked(o) => Unlinked(o)'
      BY <1>3 DEF Unlinked, c
    <2>2. \A o \in Proc : state'[o] \notin {"ABSENT", "FREED"} => o # c /\ state'[o] = state[o]
      BY <1>1, <1>3 DEF TypeOK
    <2> QED BY <1>2, <2>1, <2>2 DEF ExclusiveInv
  <1> QED BY <1>2, <1>3, <1>6, <1>7, <1>8, <1>9 DEF ExclusiveInv

(* Every step preserves ExclusiveInv where launches do not race and the    *)
(* monitor waits only for processes without a parent.                      *)
LEMMA NextExclusive ==
  ASSUME BaseInv, PidInv, ExclusiveInv, "wait_any" \notin Features, [Next]_vars
  PROVE  ExclusiveInv'
  <1> USE DEF BaseInv
  <1>1. ASSUME NEW o \in Proc, ProcStep(o) PROVE ExclusiveInv'
    <2>1. ASSUME NEW c \in Proc, Exec(o, c) PROVE ExclusiveInv'
      BY <2>1, ExecExclusive
    <2>2. ASSUME NEW c \in Proc, WaitPid(o, c) PROVE ExclusiveInv'
      BY <2>2, StartWaitExclusive, ProcAssumption DEF WaitPid, InUser, process_find, InTable, Actors
    <2>3. ASSUME NEW c \in Proc, Kill(o, c) PROVE ExclusiveInv'
      BY <2>3, ExclusiveFrame DEF Kill, listVars, actorVars
    <2>4. ASSUME NEW code \in {DONE, KILLED}, ExitNow(o, code) PROVE ExclusiveInv'
      <3>1. \A x \in Proc : /\ state'[x] = "ABSENT" <=> state[x] = "ABSENT"
                            /\ state'[x] = "FREED" <=> state[x] = "FREED"
        <4>1. state[o] \notin {"ABSENT", "FREED"}
          BY <2>4 DEF ExitNow, InUser, LifeInv
        <4> QED BY <2>4, <4>1 DEF ExitNow, ExitCurrent, TypeOK
      <3>2. \A x \in Proc : exited[x] => exited'[x]
        BY <2>4 DEF ExitNow, ExitCurrent, TypeOK
      <3>3. UNCHANGED <<table, parent_pid, creator, pc, target>>
        BY <2>4 DEF ExitNow, ExitCurrent, listVars, actorVars
      <3> QED BY <3>1, <3>2, <3>3, ExclusiveFrame
    <2>5. ASSUME NEW place \in {"asleep", "reading"}, SleepCall(o, place) PROVE ExclusiveInv'
      BY <2>5, ExclusiveFrame DEF SleepCall, InUser, Goto, TypeOK, Waiting, procVars, listVars
    <2>6. ASSUME SleepReturn(o) PROVE ExclusiveInv'
      <3>1. /\ \A x \in Proc : state'[x] = "ABSENT" <=> state[x] = "ABSENT"
            /\ \A x \in Proc : state'[x] = "FREED" <=> state[x] = "FREED"
        BY <2>6 DEF SleepReturn, ExitCurrent, LifeInv, TypeOK, procVars
      <3>2. \A x \in Proc : exited[x] => exited'[x]
        BY <2>6 DEF SleepReturn, ExitCurrent, TypeOK, procVars
      <3>3. \A x \in Actors : pc'[x] \in Waiting => pc'[x] = pc[x]
        BY <2>6 DEF SleepReturn, Goto, TypeOK, Waiting
      <3>4. UNCHANGED <<table, parent_pid, creator, target>>
        BY <2>6 DEF SleepReturn, ExitCurrent, procVars, listVars
      <3>5. \A x \in Actors : pc[x] = "unlinked" => pc'[x] = "unlinked"
        BY <2>6 DEF SleepReturn, Goto, TypeOK
      <3> QED BY <3>1, <3>2, <3>3, <3>4, <3>5, ExclusiveFrame
    <2>7. ASSUME LateThreadExit(o) PROVE ExclusiveInv'
      BY <2>7, ExclusiveFrame DEF LateThreadExit, procVars, listVars, actorVars
    <2>8. ASSUME WaitCopyFails(o) PROVE ExclusiveInv'
      BY <2>8, ExclusiveFrame DEF WaitCopyFails, Goto, TypeOK, Waiting, procVars, listVars
    <2> QED BY <1>1, <2>1, <2>2, <2>3, <2>4, <2>5, <2>6, <2>7, <2>8 DEF ProcStep
  <1>2. ASSUME MonitorStep PROVE ExclusiveInv'
    <2>1. ASSUME MonitorLoadPid \/ MonitorStorePid PROVE ExclusiveInv'
      BY <2>1, ExclusiveFrame
         DEF MonitorLoadPid, MonitorStorePid, Goto, TypeOK, Waiting, procVars, listVars
    <2>2. ASSUME NEW c \in Proc, MonitorWait(c) PROVE ExclusiveInv'
      BY <2>2, StartWaitExclusive DEF MonitorWait, process_find, InTable, Actors
    <2> QED BY <1>2, <2>1, <2>2, MonitorCreateExclusive, MonitorStartExclusive DEF MonitorStep
  <1>3. ASSUME NEW w \in Actors, WaitStep(w) PROVE ExclusiveInv'
    <2>1. ASSUME WaitTurn(w) PROVE ExclusiveInv'
      BY <2>1, ExclusiveFrame DEF WaitTurn, Goto, TypeOK, Waiting, procVars, listVars
    <2>2. ASSUME WaitReap(w) PROVE ExclusiveInv'
      BY <2>2, ExclusiveFrame DEF WaitReap, Goto, TypeOK, Waiting, procVars, listVars
    <2> QED BY <1>3, <2>1, <2>2, DestroyUnlinkExclusive, DestroyFreeExclusive DEF WaitStep
  <1>4. ASSUME NEW o \in Proc, IdleReap(o) PROVE ExclusiveInv'
    BY <1>4, ExclusiveFrame DEF IdleReap, procVars, listVars, actorVars
  <1>5. CASE UNCHANGED vars
    BY <1>5, ExclusiveFrame DEF vars, procVars, listVars, actorVars
  <1> QED BY <1>1, <1>2, <1>3, <1>4, <1>5 DEF Next

(* Unless launches race or the monitor waits for somebody's child, the     *)
(* whole invariant holds.                                                  *)
THEOREM ExclusiveInductive ==
  ASSUME "launch_race" \notin Features, "wait_any" \notin Features
  PROVE  Spec => [](BaseInv /\ PidInv /\ ExclusiveInv)
  <1>1. Init => ExclusiveInv
    BY ProcAssumption DEF Init, ExclusiveInv, InTable, Waiting, Actors
  <1>2. ASSUME BaseInv, PidInv, ExclusiveInv, [Next]_vars PROVE ExclusiveInv'
    BY <1>2, NextExclusive
  <1> QED BY <1>1, <1>2, PidsInductive, PTL DEF Spec

(* Then nobody waits for, collects or destroys a process object that       *)
(* process_destroy has freed.                                              *)
THEOREM NeverDangling ==
  ASSUME "launch_race" \notin Features, "wait_any" \notin Features
  PROVE  Spec => []NoDanglingTarget
  <1>1. ASSUME BaseInv, ExclusiveInv PROVE NoDanglingTarget
    BY <1>1 DEF BaseInv, ActorInv, ExclusiveInv, NoDanglingTarget
  <1> QED BY <1>1, ExclusiveInductive, PTL

(* Then the process table lists exactly live or uncollected processes,     *)
(* each once, but for one about to be freed, and a parent that is named is *)
(* itself in the table.                                                    *)
THEOREM TableStaysConsistent ==
  ASSUME "launch_race" \notin Features, "wait_any" \notin Features
  PROVE  Spec => []TableConsistent
  <1>1. ASSUME BaseInv, PidInv, ExclusiveInv PROVE TableConsistent
    <2>1. \A o \in Proc : InTable(o) /\ parent_pid[o] # 0 =>
            creator[o] \in Proc /\ InTable(creator[o]) /\ pid[creator[o]] = parent_pid[o]
      BY <1>1 DEF PidInv, ExclusiveInv
    <2> QED BY <1>1, <2>1 DEF BaseInv, TableInv, ExclusiveInv, TableConsistent
  <1> QED BY <1>1, ExclusiveInductive, PTL

-----------------------------------------------------------------------------
(* Descriptors and open files: every file has one holder; what a caller of *)
(* process_close_all_files holds belonged to a process that can open       *)
(* nothing any more.                                                       *)
FilesType ==
  /\ node \in [File -> Node \cup {None}] /\ offset \in [File -> 0..(Word - 1)]
  /\ fds \in [Proc -> [Fds -> File \cup {None}]]
  /\ closing \in [Actors -> SUBSET File]

Held(f) == (\E o \in Proc, d \in Fds : fds[o][d] = f) \/ (\E w \in Actors : f \in closing[w])

OneHolder ==
  /\ \A o, q \in Proc, d, e \in Fds : fds[o][d] # None /\ fds[o][d] = fds[q][e] => o = q /\ d = e
  /\ \A v, w \in Actors, f \in File : f \in closing[v] /\ f \in closing[w] => v = w
  /\ \A o \in Proc, d \in Fds, w \in Actors : fds[o][d] \notin closing[w]
  /\ \A f \in File : node[f] # None <=> Held(f)

HoldersLive ==
  /\ \A o \in Proc, d \in Fds : state[o] \in {"ABSENT", "FREED"} => fds[o][d] = None
  /\ \A w \in Actors : closing[w] # {} =>
       /\ pc[w] = "unlinked"
       /\ \A d \in Fds : fds[target[w]][d] = None

FilesInv == FilesType /\ OneHolder /\ HoldersLive

(* What the inductive invariant says of the number of holders.             *)
LEMMA HoldersCounted == ASSUME FilesInv PROVE FilesOwned
  <1> USE DEF FilesInv
  <1>1. ASSUME NEW f \in File
        PROVE  Cardinality(Slots(f)) + Cardinality(Closers(f)) = IF node[f] = None THEN 0 ELSE 1
    <2>0. f # None /\ Cardinality({}) = 0
      BY FilesAssumption, FS_EmptySet
    <2>1. CASE node[f] = None
      <3>1. Slots(f) = {} /\ Closers(f) = {}
        BY <2>1 DEF OneHolder, Held, Slots, Closers
      <3> QED BY <2>0, <2>1, <3>1
    <2>2. CASE node[f] # None
      <3>1. Held(f)
        BY <2>2 DEF OneHolder
      <3>2. CASE \E o \in Proc, d \in Fds : fds[o][d] = f
        <4>1. PICK o \in Proc, d \in Fds : fds[o][d] = f
          BY <3>2
        <4>2. Slots(f) = {<<o, d>>}
          BY <2>0, <4>1 DEF OneHolder, Slots
        <4>3. Closers(f) = {}
          BY <4>1 DEF OneHolder, Closers
        <4>4. Cardinality({<<o, d>>}) = 1
          BY FS_Singleton
        <4> QED BY <2>0, <2>2, <4>2, <4>3, <4>4
      <3>3. CASE \E w \in Actors : f \in closing[w]
        <4>1. PICK w \in Actors : f \in closing[w]
          BY <3>3
        <4>2. Closers(f) = {w}
          BY <4>1 DEF OneHolder, Closers
        <4>3. Slots(f) = {}
          BY <4>1 DEF OneHolder, Slots
        <4>4. Cardinality({w}) = 1
          BY FS_Singleton
        <4> QED BY <2>0, <2>2, <4>2, <4>3, <4>4
      <3> QED BY <3>1, <3>2, <3>3 DEF Held
    <2> QED BY <2>1, <2>2
  <1>2. \A o \in Proc : state[o] \in {"ABSENT", "FREED"} => OpenFds(o) = {}
    BY DEF HoldersLive, OpenFds
  <1> QED BY <1>1, <1>2 DEF FilesOwned

(* A process in user mode is nobody's to close.                            *)
LEMMA UserOpensFreely ==
  ASSUME BaseInv, NEW o \in Proc, InUser(o), NEW w \in Actors, pc[w] = "unlinked"
  PROVE  target[w] \in Proc /\ target[w] # o
  BY DEF BaseInv, LifeInv, ActorInv, InUser, Waiting

(* A step of the process life cycle that touches no file.                  *)
LEMMA FilesFrame ==
  ASSUME FilesInv, UNCHANGED fileVars,
         \A o \in Proc : state'[o] \in {"ABSENT", "FREED"} => state[o] \in {"ABSENT", "FREED"},
         \A w \in Actors : pc[w] = "unlinked" => pc'[w] = "unlinked" /\ target'[w] = target[w]
  PROVE  FilesInv'
  BY DEF FilesInv, FilesType, OneHolder, Held, HoldersLive, fileVars

LEMMA OpenFiles ==
  ASSUME BaseInv, FilesInv, NEW o \in Proc, Calls(o), NEW name, NEW r, Open(o, name, r)
  PROVE  FilesInv'
  <1> USE DEF FilesInv
  <1>1. UNCHANGED <<state, pc, target>> /\ InUser(o) /\ state[o] \notin {"ABSENT", "FREED"}
    BY DEF Calls, vars, procVars, actorVars, InUser, BaseInv, LifeInv
  <1>2. CASE UNCHANGED fileVars
    BY <1>1, <1>2, FilesFrame
  <1>3. CASE ~ UNCHANGED fileVars
    <2> DEFINE f == NewFile
    <2>1. /\ name \in Node /\ r \in Fds /\ fds[o][r] = None
          /\ fds' = [fds EXCEPT ![o][r] = f] /\ node' = [node EXCEPT ![f] = name]
          /\ offset' = [offset EXCEPT ![f] = 0] /\ closing' = closing
          /\ \E x \in File : node[x] = None
      BY <1>3 DEF Open, FirstFree, FreeFds
    <2>2. f \in File /\ node[f] = None
      BY <2>1 DEF NewFile
    <2> HIDE DEF f
    <2>3. ~ Held(f) /\ f # None /\ name # None
      BY <2>1, <2>2, FilesAssumption DEF OneHolder
    <2>4. FilesType'
      BY <2>1, <2>2, FilesAssumption DEF FilesType
    <2>5. \A q \in Proc, d \in Fds : fds'[q][d] = IF q = o /\ d = r THEN f ELSE fds[q][d]
      BY <2>1 DEF FilesType
    <2>6. \A x \in File : Held(x)' <=> Held(x) \/ x = f
      <3> TAKE x \in File
      <3>1. x # None
        BY FilesAssumption
      <3>2. (\E q \in Proc, d \in Fds : fds'[q][d] = x) <=>
              (\E q \in Proc, d \in Fds : fds[q][d] = x) \/ x = f
        BY <2>1, <2>5, <3>1
      <3> QED BY <2>1, <3>2 DEF Held
    <2>7. OneHolder'
      BY <2>1, <2>2, <2>3, <2>5, <2>6 DEF OneHolder, Held, FilesType
    <2>8. HoldersLive'
      BY <1>1, <2>1, <2>5, UserOpensFreely DEF HoldersLive
    <2> QED BY <2>4, <2>7, <2>8
  <1> QED BY <1>2, <1>3

(* Reading and seeking move an offset only.                                *)
LEMMA OffsetFiles ==
  ASSUME FilesInv, UNCHANGED <<vars, node, fds, closing>>, NEW f \in File, NEW n \in 0..(Word - 1),
         offset' = [offset EXCEPT ![f] = n]
  PROVE  FilesInv'
  BY DEF FilesInv, FilesType, OneHolder, Held, HoldersLive, vars, procVars, actorVars

LEMMA CloseFiles ==
  ASSUME BaseInv, FilesInv, NEW o \in Proc, Calls(o), NEW d0, NEW r, Close(o, d0, r)
  PROVE  FilesInv'
  <1> USE DEF FilesInv
  <1>1. UNCHANGED <<state, pc, target>> /\ InUser(o)
    BY DEF Calls, vars, procVars, actorVars
  <1>2. CASE UNCHANGED fileVars
    BY <1>1, <1>2, FilesFrame
  <1>3. CASE ~ UNCHANGED fileVars
    <2> DEFINE f == fds[o][d0]
    <2>1. /\ d0 \in Fds /\ f # None
          /\ fds' = [fds EXCEPT ![o][d0] = None] /\ node' = [node EXCEPT ![f] = None]
          /\ offset' = [offset EXCEPT ![f] = 0] /\ closing' = closing
      BY <1>3 DEF Close, process_fd_get
    <2>2. f \in File
      BY <2>1 DEF FilesType
    <2>3. \A q \in Proc, d \in Fds : fds'[q][d] = IF q = o /\ d = d0 THEN None ELSE fds[q][d]
      BY <2>1 DEF FilesType
    <2>4. FilesType'
      BY <2>1, <2>2, FilesAssumption DEF FilesType
    <2>5. \A x \in File : Held(x)' <=> Held(x) /\ x # f
      <3> TAKE x \in File
      <3>1. x # None
        BY FilesAssumption
      <3>2. (\E q \in Proc, d \in Fds : fds'[q][d] = x) <=>
              (\E q \in Proc, d \in Fds : fds[q][d] = x) /\ x # f
        BY <2>1, <2>3, <3>1 DEF OneHolder
      <3>3. \A w \in Actors : x \in closing[w] => x # f
        BY <2>1 DEF OneHolder
      <3> QED BY <2>1, <3>2, <3>3 DEF Held
    <2> HIDE DEF f
    <2>6. OneHolder'
      <3>1. \A x \in File : node'[x] # None <=> Held(x)'
        BY <2>1, <2>2, <2>5 DEF OneHolder, FilesType
      <3>2. \A p, q \in Proc, d, e \in Fds :
               fds'[p][d] # None /\ fds'[p][d] = fds'[q][e] => p = q /\ d = e
        BY <2>3 DEF OneHolder
      <3>3. \A q \in Proc, d \in Fds, w \in Actors : fds'[q][d] \notin closing'[w]
        BY <2>1, <2>3, FilesAssumption DEF OneHolder, FilesType
      <3> QED BY <2>1, <3>1, <3>2, <3>3 DEF OneHolder
    <2>7. HoldersLive'
      BY <1>1, <2>1, <2>3 DEF HoldersLive
    <2> QED BY <2>4, <2>6, <2>7
  <1> QED BY <1>2, <1>3

LEMMA MinTwo == ASSUME NEW a \in Int, NEW b \in Int PROVE Min({a, b}) = IF a <= b THEN a ELSE b
  <1> DEFINE m == IF a <= b THEN a ELSE b
  <1>1. m \in {a, b} /\ \A y \in {a, b} : m <= y
    OBVIOUS
  <1>2. \A x \in {a, b} : (\A y \in {a, b} : x <= y) => x = m
    OBVIOUS
  <1> HIDE DEF m
  <1>3. Min({a, b}) = m
    BY <1>1, <1>2 DEF Min
  <1> QED BY <1>3 DEF m

(* A descriptor that is found names an open file, and vfs_read copies at   *)
(* most what was asked for and what is left of it.                         *)
LEMMA FoundFile ==
  ASSUME FilesInv, NEW o \in Proc, NEW d0, process_fd_get(o, d0) # None
  PROVE  LET f == process_fd_get(o, d0)
         IN d0 \in Fds /\ f = fds[o][d0] /\ f \in File /\ node[f] \in Node /\ Held(f)
  <1>1. d0 \in Fds /\ process_fd_get(o, d0) = fds[o][d0]
    BY DEF process_fd_get
  <1>2. fds[o][d0] \in File
    BY <1>1 DEF FilesInv, FilesType
  <1>3. Held(fds[o][d0])
    BY <1>1 DEF Held
  <1> QED BY <1>1, <1>2, <1>3 DEF FilesInv, FilesType, OneHolder

LEMMA ReadLength ==
  ASSUME FilesInv, NEW f \in File, node[f] \in Node, NEW n \in Nat
  PROVE  /\ vfs_read(f, n) \in 0..n
         /\ vfs_read(f, n) = IF offset[f] >= NodeSize[node[f]] THEN 0
                             ELSE IF n <= NodeSize[node[f]] - offset[f] THEN n
                             ELSE NodeSize[node[f]] - offset[f]
  <1>1. NodeSize[node[f]] \in Nat /\ offset[f] \in Nat
    BY FilesAssumption DEF FilesInv, FilesType
  <1> QED BY <1>1, MinTwo DEF vfs_read

LEMMA ReadFiles ==
  ASSUME FilesInv, NEW o \in Proc, Calls(o), NEW d0, NEW n \in Nat, NEW copied, NEW r,
         Read(o, d0, n, copied, r)
  PROVE  FilesInv'
  <1> DEFINE f == process_fd_get(o, d0)
             asked == Min({n, RwMax})
  <1>1. UNCHANGED vars /\ UNCHANGED <<state, pc, target>>
    BY DEF Calls, vars, procVars, actorVars
  <1>2. CASE UNCHANGED fileVars
    BY <1>1, <1>2, FilesFrame
  <1>3. CASE ~ UNCHANGED fileVars
    <2>1. /\ f # None /\ UNCHANGED <<node, fds, closing>>
          /\ offset' = [offset EXCEPT ![f] = (offset[f] + vfs_read(f, asked)) % Word]
      BY <1>3 DEF Read
    <2>2. f \in File /\ node[f] \in Node
      BY <2>1, FoundFile
    <2>3. asked \in Nat
      BY MinTwo, FilesAssumption
    <2> HIDE DEF f, asked
    <2>4. vfs_read(f, asked) \in Nat /\ offset[f] \in Nat
      BY <2>2, <2>3, ReadLength, FilesAssumption DEF FilesInv, FilesType
    <2>5. (offset[f] + vfs_read(f, asked)) % Word \in 0..(Word - 1)
      BY <2>4, FilesAssumption
    <2> QED BY <1>1, <2>1, <2>2, <2>5, OffsetFiles
  <1> QED BY <1>2, <1>3

LEMMA SeekFiles ==
  ASSUME FilesInv, NEW o \in Proc, Calls(o), NEW d0, NEW by \in Int, NEW whence, NEW r,
         Seek(o, d0, by, whence, r)
  PROVE  FilesInv'
  <1> DEFINE f == process_fd_get(o, d0)
  <1>1. UNCHANGED vars /\ UNCHANGED <<state, pc, target>>
    BY DEF Calls, vars, procVars, actorVars
  <1>2. CASE UNCHANGED fileVars
    BY <1>1, <1>2, FilesFrame
  <1>3. CASE ~ UNCHANGED fileVars
    <2>1. /\ f # None /\ UNCHANGED <<node, fds, closing>>
          /\ \E n \in 0..(Word - 1) : offset' = [offset EXCEPT ![f] = n]
      BY <1>3 DEF Seek
    <2>2. f \in File
      BY <2>1, FoundFile
    <2> QED BY <1>1, <2>1, <2>2, OffsetFiles
  <1> QED BY <1>2, <1>3

(* process_close_all_files moves every file of the process it destroys to  *)
(* its caller: none was there before, and none is left behind.             *)
LEMMA CloseAllFiles ==
  ASSUME BaseInv, FilesInv, NEW w \in Actors, CloseAll(w) PROVE FilesInv'
  <1> USE DEF FilesInv
  <1> DEFINE c == target[w]
             moved == {fds[c][d] : d \in OpenFds(c)}
  <1>1. /\ UNCHANGED <<state, pc, target, node, offset>> /\ pc[w] = "unlinked"
        /\ closing' = [closing EXCEPT ![w] = moved]
        /\ fds' = [fds EXCEPT ![c] = [d \in Fds |-> None]]
    BY DEF CloseAll, vars, procVars, actorVars
  <1>2. c \in Proc
    BY <1>1 DEF BaseInv, ActorInv, Waiting
  <1>3. closing[w] = {}
    BY <1>2 DEF CloseAll, HoldersLive, OpenFds
  <1>4. moved \subseteq File /\ \A x : x \in moved <=> x # None /\ \E d \in Fds : fds[c][d] = x
    BY <1>2 DEF FilesType, OpenFds
  <1> HIDE DEF c, moved
  <1>5. FilesType'
    BY <1>1, <1>2, <1>4 DEF FilesType
  <1>6. /\ \A q \in Proc, d \in Fds : fds'[q][d] = IF q = c THEN None ELSE fds[q][d]
        /\ \A v \in Actors : closing'[v] = IF v = w THEN moved ELSE closing[v]
    BY <1>1, <1>2 DEF FilesType
  <1>7. \A x \in File : Held(x)' <=> Held(x)
    <2> TAKE x \in File
    <2>1. x # None
      BY FilesAssumption
    <2>2. ASSUME Held(x) PROVE Held(x)'
      BY <1>2, <1>3, <1>4, <1>6, <2>1, <2>2 DEF Held
    <2>3. ASSUME Held(x)' PROVE Held(x)
      BY <1>2, <1>3, <1>4, <1>6, <2>1, <2>3 DEF Held
    <2> QED BY <2>2, <2>3
  <1>8. OneHolder'
    <2>1. \A p, q \in Proc, d, e \in Fds :
             fds'[p][d] # None /\ fds'[p][d] = fds'[q][e] => p = q /\ d = e
      BY <1>6 DEF OneHolder
    <2>2. \A u, v \in Actors, x \in File : x \in closing'[u] /\ x \in closing'[v] => u = v
      BY <1>2, <1>4, <1>6 DEF OneHolder
    <2>3. \A q \in Proc, d \in Fds, v \in Actors : fds'[q][d] \notin closing'[v]
      <3> TAKE q \in Proc, d \in Fds, v \in Actors
      <3>1. None \notin closing'[v]
        BY <1>5, FilesAssumption DEF FilesType
      <3>2. CASE q = c
        BY <1>6, <3>1, <3>2
      <3>3. CASE q # c
        BY <1>2, <1>4, <1>6, <3>3 DEF OneHolder
      <3> QED BY <3>2, <3>3
    <2> QED BY <1>1, <1>7, <2>1, <2>2, <2>3 DEF OneHolder
  <1>9. HoldersLive'
    <2>1. ASSUME NEW v \in Actors, closing'[v] # {}
          PROVE  pc[v] = "unlinked" /\ \A d \in Fds : fds'[target[v]][d] = None
      <3>1. CASE v = w
        BY <1>1, <1>2, <1>6, <3>1 DEF c
      <3>2. CASE v # w
        <4>1. pc[v] = "unlinked" /\ target[v] \in Proc /\ \A d \in Fds : fds[target[v]][d] = None
          BY <1>6, <2>1, <3>2 DEF HoldersLive, BaseInv, ActorInv, Waiting
        <4> QED BY <1>6, <4>1
      <3> QED BY <3>1, <3>2
    <2> QED BY <1>1, <1>6, <2>1 DEF HoldersLive
  <1> QED BY <1>5, <1>8, <1>9

(* vfs_close of one of them.                                               *)
LEMMA CloseNextFiles ==
  ASSUME BaseInv, FilesInv, NEW w \in Actors, CloseNext(w) PROVE FilesInv'
  <1> USE DEF FilesInv
  <1>1. PICK f \in closing[w] :
          /\ closing' = [closing EXCEPT ![w] = @ \ {f}]
          /\ node' = [node EXCEPT ![f] = None] /\ offset' = [offset EXCEPT ![f] = 0]
    BY DEF CloseNext
  <1>2. UNCHANGED <<state, pc, target, fds>> /\ f \in File
    BY DEF CloseNext, vars, procVars, actorVars, FilesType
  <1>3. FilesType'
    BY <1>1, <1>2, FilesAssumption DEF FilesType
  <1>4. \A v \in Actors : closing'[v] = IF v = w THEN closing[v] \ {f} ELSE closing[v]
    BY <1>1 DEF FilesType
  <1>5. \A x \in File : Held(x)' <=> Held(x) /\ x # f
    <2> TAKE x \in File
    <2>1. (\E v \in Actors : x \in closing'[v]) <=> (\E v \in Actors : x \in closing[v]) /\ x # f
      BY <1>4, ZenonT(30) DEF OneHolder
    <2>2. \A o \in Proc, d \in Fds : fds[o][d] # f
      BY <1>1 DEF OneHolder
    <2> QED BY <1>2, <2>1, <2>2 DEF Held
  <1>6. OneHolder'
    BY <1>1, <1>2, <1>4, <1>5 DEF OneHolder, FilesType
  <1>7. HoldersLive'
    BY <1>2, <1>4 DEF HoldersLive
  <1> QED BY <1>3, <1>6, <1>7

(* The object is freed when nothing is open and nothing is left to close.  *)
LEMMA DestroyRestFiles ==
  ASSUME BaseInv, FilesInv, NEW w \in Actors, DestroyRest(w) PROVE FilesInv'
  <1> USE DEF FilesInv
  <1>1. /\ UNCHANGED fileVars /\ UNCHANGED <<node, offset, fds, closing>> /\ closing[w] = {}
        /\ \A d \in Fds : fds[target[w]][d] = None
        /\ state' = [state EXCEPT ![target[w]] = "FREED"]
        /\ \A v \in Actors : v # w => pc'[v] = pc[v] /\ target'[v] = target[v]
    BY DEF DestroyRest, DestroyFree, OpenFds, fileVars, Goto, BaseInv, TypeOK
  <1>2. target[w] \in Proc
    BY DEF DestroyRest, BaseInv, ActorInv, Waiting
  <1>3. HoldersLive'
    BY <1>1, <1>2 DEF HoldersLive, BaseInv, TypeOK
  <1> QED BY <1>1, <1>3 DEF FilesType, OneHolder, Held

-----------------------------------------------------------------------------
(* Every step of the shell, of a program and of the monitor is a step of   *)
(* the life of processes, or changes nothing there.                        *)
LEMMA ShellStepIsProcess == ASSUME ShellStep PROVE [Next]_vars
  <1>0. Shell \in Proc /\ Victims \subseteq Proc
    BY ShellAssumption
  <1>1. CASE ReadLine \/ ReadLineReturn \/ CmdExit
    BY <1>0, <1>1 DEF ReadLine, ReadLineReturn, CmdExit, Next, ProcStep
  <1>2. CASE CmdOther \/ CmdJobs \/ JobsTurn \/ RunDone \/ Track \/ Waited
    BY <1>2 DEF CmdOther, CmdJobs, JobsTurn, RunDone, Track, Waited, Calls
  <1>3. CASE \E name \in Paths, r \in Fds \cup {Failed} : CmdCat(name, r)
    BY <1>3 DEF CmdCat, Calls
  <1>4. CASE \E r \in 0..Chunk \cup {Failed} : CatRead(r) \/ CatClose(r)
    BY <1>4 DEF CatRead, CatClose, Calls
  <1>5. CASE RunWait
    BY <1>0, <1>5 DEF RunWait, Next, ProcStep
  <1>6. CASE \E c \in Proc \ {Shell} : CmdRun(c) \/ CmdRunbg(c) \/ CmdWait(c)
    BY <1>0, <1>6 DEF CmdRun, CmdRunbg, Launch, CmdWait, Next, ProcStep
  <1>7. CASE \E c \in Victims : CmdKill(c)
    BY <1>0, <1>7 DEF CmdKill, Next, ProcStep
  <1> QED BY <1>1, <1>2, <1>3, <1>4, <1>5, <1>6, <1>7 DEF ShellStep

LEMMA ShellNextIsProcess == ASSUME [ShellNext]_allVars PROVE [Next]_vars
  <1>0. Shell \in Proc
    BY ShellAssumption
  <1>1. CASE MonitorUser
    BY <1>0, <1>1 DEF MonitorUser, Next, MonitorStep
  <1>2. ASSUME NEW o \in Proc, ProgramStep(o) PROVE [Next]_vars
    BY <1>2 DEF ProgramStep, Calls, Next, ProcStep
  <1>3. ASSUME NEW w \in {Shell, Monitor}, CollectStep(w) PROVE [Next]_vars
    BY <1>0, <1>3 DEF CollectStep, CloseAll, CloseNext, DestroyRest, Next, WaitStep, Actors
  <1>4. ASSUME NEW o \in Proc, IdleReap(o) PROVE [Next]_vars
    BY <1>4 DEF Next
  <1>5. CASE UNCHANGED allVars
    BY <1>5 DEF allVars
  <1> QED BY <1>1, <1>2, <1>3, <1>4, <1>5, ShellStepIsProcess DEF ShellNext

(* The system with a shell implements the life of processes, so that all   *)
(* that is proved of it holds of the system too.                           *)
THEOREM ShellImplementsProcess == ShellSpec => Spec
  <1>1. ShellInit => Init
    BY DEF ShellInit
  <1> QED BY <1>1, ShellNextIsProcess, PTL DEF ShellSpec, Spec

-----------------------------------------------------------------------------
(* The steps of the shell that touch no file leave the files as they are.  *)
LEMMA LifeStepFiles ==
  ASSUME BaseInv, FilesInv, UNCHANGED fileVars,
         \/ \E o \in Proc, place \in {"asleep", "reading"} : SleepCall(o, place)
         \/ \E o \in Proc : SleepReturn(o)
         \/ \E o \in Proc, c \in Proc : Exec(o, c) \/ Kill(o, c) \/ WaitPid(o, c)
         \/ \E o \in Proc, code \in {DONE, KILLED} : ExitNow(o, code)
         \/ MonitorStep
         \/ \E w \in Actors : WaitTurn(w) \/ WaitReap(w) \/ DestroyUnlink(w)
         \/ \E o \in Proc : IdleReap(o)
         \/ UNCHANGED vars
  PROVE  FilesInv'
  <1> USE DEF BaseInv
  <1> DEFINE Same ==
        /\ \A o \in Proc : state'[o] \in {"ABSENT", "FREED"} => state[o] \in {"ABSENT", "FREED"}
        /\ \A w \in Actors : pc[w] = "unlinked" => pc'[w] = "unlinked" /\ target'[w] = target[w]
  <1>0. ASSUME Same PROVE FilesInv'
    BY <1>0, FilesFrame
  <1>1. ASSUME NEW o \in Proc, NEW place \in {"asleep", "reading"}, SleepCall(o, place) PROVE Same
    BY <1>1 DEF SleepCall, InUser, Goto, TypeOK, procVars
  <1>2. ASSUME NEW o \in Proc, SleepReturn(o) PROVE Same
    <2>1. \A w \in Actors : pc[w] = "unlinked" => pc'[w] = "unlinked" /\ target'[w] = target[w]
      BY <1>2 DEF SleepReturn, Goto, TypeOK
    <2> QED BY <1>2, <2>1 DEF SleepReturn, ExitCurrent, TypeOK, procVars
  <1>3. ASSUME NEW o \in Proc, NEW c \in Proc, Exec(o, c) PROVE Same
    BY <1>3 DEF Exec, CreateEmpty, TypeOK, actorVars
  <1>4. ASSUME NEW o \in Proc, NEW c \in Proc, Kill(o, c) PROVE Same
    BY <1>4 DEF Kill, actorVars
  <1>5. ASSUME NEW o \in Proc, NEW c \in Proc, WaitPid(o, c) PROVE Same
    BY <1>5 DEF WaitPid, StartWait, InUser, Goto, TypeOK, procVars
  <1>6. ASSUME NEW o \in Proc, NEW code \in {DONE, KILLED}, ExitNow(o, code) PROVE Same
    BY <1>6 DEF ExitNow, ExitCurrent, TypeOK, actorVars
  <1>7. ASSUME MonitorStep PROVE Same
    <2>1. ASSUME MonitorLoadPid \/ MonitorStorePid PROVE Same
      BY <2>1 DEF MonitorLoadPid, MonitorStorePid, Goto, TypeOK, procVars
    <2>2. ASSUME NEW c \in Proc, MonitorCreate(c) PROVE Same
      BY <2>2 DEF MonitorCreate, CreateEmpty, Goto, TypeOK
    <2>3. ASSUME NEW c \in Proc, MonitorWait(c) PROVE Same
      BY <2>3 DEF MonitorWait, StartWait, Goto, TypeOK, procVars
    <2>4. ASSUME NEW foreground \in BOOLEAN, MonitorStart(foreground) PROVE Same
      BY <2>4 DEF MonitorStart, Goto, TypeOK
    <2> QED BY <1>7, <2>1, <2>2, <2>3, <2>4 DEF MonitorStep
  <1>8. ASSUME NEW w \in Actors, WaitTurn(w) \/ WaitReap(w) \/ DestroyUnlink(w) PROVE Same
    BY <1>8 DEF WaitTurn, WaitReap, DestroyUnlink, Goto, TypeOK, procVars
  <1>9. ASSUME NEW o \in Proc, IdleReap(o) PROVE Same
    BY <1>9 DEF IdleReap, procVars, actorVars
  <1>10. ASSUME UNCHANGED vars PROVE Same
    BY <1>10 DEF vars, procVars, actorVars
  <1> HIDE DEF Same
  <1> QED BY <1>0, <1>1, <1>2, <1>3, <1>4, <1>5, <1>6, <1>7, <1>8, <1>9, <1>10

LEMMA ShellStepFiles == ASSUME BaseInv, FilesInv, ShellStep PROVE FilesInv'
  <1>0. Shell \in Proc /\ Victims \subseteq Proc /\ Chunk \in Nat
    BY ShellAssumption
  <1>1. CASE ReadLine \/ ReadLineReturn \/ CmdExit
    BY <1>0, <1>1, LifeStepFiles DEF ReadLine, ReadLineReturn, CmdExit
  <1>2. CASE CmdOther \/ CmdJobs \/ JobsTurn \/ RunDone \/ Track \/ Waited
    BY <1>2, LifeStepFiles DEF CmdOther, CmdJobs, JobsTurn, RunDone, Track, Waited, Calls
  <1>3. ASSUME NEW name, NEW r, CmdCat(name, r) PROVE FilesInv'
    BY <1>0, <1>3, OpenFiles DEF CmdCat
  <1>4. ASSUME NEW r, CatRead(r) PROVE FilesInv'
    BY <1>0, <1>4, ReadFiles DEF CatRead
  <1>5. ASSUME NEW r, CatClose(r) PROVE FilesInv'
    BY <1>0, <1>5, CloseFiles DEF CatClose
  <1>6. CASE RunWait
    BY <1>0, <1>6, LifeStepFiles DEF RunWait
  <1>7. ASSUME NEW c \in Proc, CmdRun(c) \/ CmdRunbg(c) \/ CmdWait(c) PROVE FilesInv'
    BY <1>0, <1>7, LifeStepFiles DEF CmdRun, CmdRunbg, Launch, CmdWait
  <1>8. ASSUME NEW c \in Proc, CmdKill(c) PROVE FilesInv'
    BY <1>0, <1>8, LifeStepFiles DEF CmdKill
  <1> QED BY <1>0, <1>1, <1>2, <1>3, <1>4, <1>5, <1>6, <1>7, <1>8 DEF ShellStep

LEMMA ProgramStepFiles ==
  ASSUME BaseInv, FilesInv, NEW o \in Proc, ProgramStep(o) PROVE FilesInv'
  <1>1. ASSUME Calls(o), NEW name, NEW r, Open(o, name, r) PROVE FilesInv'
    BY <1>1, OpenFiles
  <1>2. ASSUME Calls(o), NEW d0, NEW copied, NEW r, Read(o, d0, RwMax, copied, r) PROVE FilesInv'
    BY <1>2, ReadFiles, FilesAssumption
  <1>3. ASSUME Calls(o), NEW d0, NEW by \in {-1, 1}, NEW whence, NEW r, Seek(o, d0, by, whence, r)
        PROVE  FilesInv'
    BY <1>3, SeekFiles
  <1>4. ASSUME Calls(o), NEW d0, NEW r, Close(o, d0, r) PROVE FilesInv'
    BY <1>4, CloseFiles
  <1>5. ASSUME NEW code \in {DONE, KILLED}, ExitNow(o, code), UNCHANGED fileVars PROVE FilesInv'
    BY <1>5, LifeStepFiles
  <1> QED BY <1>1, <1>2, <1>3, <1>4, <1>5 DEF ProgramStep

LEMMA ShellNextFiles == ASSUME BaseInv, FilesInv, [ShellNext]_allVars PROVE FilesInv'
  <1>0. Shell \in Proc
    BY ShellAssumption
  <1>1. CASE MonitorUser
    BY <1>0, <1>1, LifeStepFiles DEF MonitorUser, MonitorStep
  <1>2. ASSUME NEW w \in {Shell, Monitor}, CollectStep(w) PROVE FilesInv'
    <2>1. w \in Actors
      BY <1>0 DEF Actors
    <2> QED BY <1>2, <2>1, LifeStepFiles, CloseAllFiles, CloseNextFiles, DestroyRestFiles
            DEF CollectStep
  <1>3. ASSUME NEW o \in Proc, IdleReap(o), UNCHANGED fileVars PROVE FilesInv'
    BY <1>3, LifeStepFiles
  <1>4. CASE UNCHANGED allVars
    BY <1>4, LifeStepFiles DEF allVars
  <1> QED BY <1>1, <1>2, <1>3, <1>4, ShellStepFiles, ProgramStepFiles DEF ShellNext

(* With any number of programs, files and descriptors, FilesInv is         *)
(* inductive relative to BaseInv.                                          *)
THEOREM FilesInductive == ShellSpec => [](BaseInv /\ FilesInv)
  <1>1. ShellInit => FilesInv
    BY FilesAssumption
       DEF ShellInit, FilesInit, FilesInv, FilesType, OneHolder, Held, HoldersLive, Actors
  <1>2. ShellSpec => []BaseInv
    BY ShellImplementsProcess, BaseInductive, PTL
  <1>3. ASSUME BaseInv, FilesInv, [ShellNext]_allVars PROVE FilesInv'
    BY <1>3, ShellNextFiles
  <1> QED BY <1>1, <1>2, <1>3, PTL DEF ShellSpec

(* Every open file has exactly one holder and nothing stays open after     *)
(* process_destroy, whoever else opens, closes, waits and destroys.        *)
THEOREM FilesAlwaysOwned == ShellSpec => []FilesOwned
  <1>1. BaseInv /\ FilesInv => FilesOwned
    BY HoldersCounted
  <1> QED BY <1>1, FilesInductive, PTL

-----------------------------------------------------------------------------
(* An open file of a process in user mode is out of reach of everyone      *)
(* else.                                                                   *)
Untouched(q, d0) ==
  /\ fds'[q][d0] = fds[q][d0]
  /\ node'[fds[q][d0]] = node[fds[q][d0]]
  /\ offset'[fds[q][d0]] = offset[fds[q][d0]]

LEMMA OthersOpen ==
  ASSUME FilesInv, NEW q \in Proc, NEW d0 \in Fds, fds[q][d0] # None,
         NEW o \in Proc, o # q, NEW name, NEW r, Open(o, name, r)
  PROVE  Untouched(q, d0)
  <1> USE DEF FilesInv
  <1>1. CASE UNCHANGED fileVars
    BY <1>1 DEF fileVars, Untouched
  <1>2. CASE ~ UNCHANGED fileVars
    <2>1. /\ fds' = [fds EXCEPT ![o][r] = NewFile] /\ node' = [node EXCEPT ![NewFile] = name]
          /\ offset' = [offset EXCEPT ![NewFile] = 0]
          /\ \E x \in File : node[x] = None
      BY <1>2 DEF Open
    <2>2. NewFile \in File /\ node[NewFile] = None
      BY <2>1 DEF NewFile
    <2>3. fds[q][d0] \in File /\ fds[q][d0] # NewFile
      BY <2>2 DEF FilesType, OneHolder, Held
    <2> QED BY <2>1, <2>2, <2>3 DEF Untouched, FilesType
  <1> QED BY <1>1, <1>2

(* The file of another descriptor is another file.                         *)
LEMMA OthersFile ==
  ASSUME FilesInv, NEW q \in Proc, NEW d0 \in Fds, fds[q][d0] # None,
         NEW o \in Proc, o # q, NEW d, process_fd_get(o, d) # None
  PROVE  fds[q][d0] \in File /\ process_fd_get(o, d) # fds[q][d0]
  BY DEF FilesInv, FilesType, OneHolder, process_fd_get

LEMMA OthersUse ==
  ASSUME FilesInv, NEW q \in Proc, NEW d0 \in Fds, fds[q][d0] # None,
         NEW o \in Proc, o # q, NEW d, NEW r,
         \/ \E n, copied : Read(o, d, n, copied, r)
         \/ \E by, whence : Seek(o, d, by, whence, r)
         \/ Close(o, d, r)
  PROVE  Untouched(q, d0)
  <1> USE DEF FilesInv
  <1> DEFINE g == process_fd_get(o, d)
  <1>1. CASE UNCHANGED fileVars
    BY <1>1 DEF fileVars, Untouched
  <1>2. CASE ~ UNCHANGED fileVars
    <2>1. /\ g # None
          /\ \/ node' = node /\ fds' = fds
             \/ node' = [node EXCEPT ![g] = None] /\ fds' = [fds EXCEPT ![o][d] = None]
          /\ \E n : offset' = [offset EXCEPT ![g] = n]
      BY <1>2 DEF Read, Seek, Close
    <2>2. fds[q][d0] \in File /\ g # fds[q][d0] /\ d \in Fds
      BY <2>1, OthersFile, FoundFile
    <2> QED BY <2>1, <2>2 DEF Untouched, FilesType
  <1> QED BY <1>1, <1>2

LEMMA OthersDestroy ==
  ASSUME BaseInv, FilesInv, NEW q \in Proc, InUser(q), NEW d0 \in Fds, fds[q][d0] # None,
         NEW w \in Actors, CollectStep(w)
  PROVE  Untouched(q, d0)
  <1> USE DEF FilesInv
  <1>1. CASE UNCHANGED fileVars
    BY <1>1 DEF fileVars, Untouched
  <1>2. CASE CloseAll(w)
    <2>1. target[w] \in Proc /\ target[w] # q
      BY <1>2, UserOpensFreely DEF CloseAll
    <2> QED BY <1>2, <2>1 DEF CloseAll, Untouched, FilesType
  <1>3. CASE CloseNext(w)
    <2>1. PICK f \in closing[w] :
            node' = [node EXCEPT ![f] = None] /\ offset' = [offset EXCEPT ![f] = 0]
      BY <1>3 DEF CloseNext
    <2>2. fds[q][d0] \in File /\ f # fds[q][d0] /\ fds' = fds
      BY <1>3 DEF FilesType, OneHolder, CloseNext
    <2> QED BY <2>1, <2>2 DEF Untouched, FilesType
  <1> QED BY <1>1, <1>2, <1>3 DEF CollectStep, DestroyRest

-----------------------------------------------------------------------------
(* While cmd_cat runs, its file is open and its offset is the number of    *)
(* bytes printed so far.                                                   *)
CatInv ==
  /\ at \notin {"cat", "close"} => printed = <<>>
  /\ at \in {"cat", "close"} =>
       /\ InUser(Shell)
       /\ fd \in Fds /\ path \in Node /\ fds[Shell][fd] # None
       /\ node[fds[Shell][fd]] = path /\ offset[fds[Shell][fd]] = Len(printed)
       /\ printed \in Seq(Nat) /\ Len(printed) <= NodeSize[path]
       /\ \A i \in 1..Len(printed) : printed[i] = i - 1
       /\ at = "close" => Len(printed) = NodeSize[path]

(* A step that is not the shell's own.                                     *)
LEMMA CatFrame ==
  ASSUME CatInv, UNCHANGED shellVars,
         InUser(Shell) => InUser(Shell)',
         at \in {"cat", "close"} => Untouched(Shell, fd)
  PROVE  CatInv'
  BY DEF CatInv, shellVars, localVars, Untouched

(* The shell stays in user mode in every step but its own.                 *)
LEMMA ShellStays ==
  ASSUME BaseInv, InUser(Shell),
         \/ MonitorUser \/ \E o \in Proc \ {Shell} : ProgramStep(o)
         \/ \E w \in {Shell, Monitor} : CollectStep(w)
         \/ \E o \in Proc : IdleReap(o)
  PROVE  InUser(Shell)'
  <1> USE DEF BaseInv
  <1>0. /\ Shell \in Proc /\ Shell \in Actors /\ Monitor \in Actors /\ Shell # Monitor
        /\ thread[Shell] = "live" /\ pc[Shell] = "user" /\ state[Shell] = "RUNNING"
    BY ShellAssumption, ProcAssumption, ZenonT(30) DEF Actors, InUser, LifeInv, TypeOK
  <1>1. ASSUME MonitorUser PROVE InUser(Shell)'
    <2>1. CASE MonitorLoadPid \/ MonitorStorePid
      BY <1>0, <2>1 DEF MonitorLoadPid, MonitorStorePid, Goto, TypeOK, InUser
    <2>2. CASE \E c \in Proc : MonitorWait(c)
      BY <1>0, <2>2 DEF MonitorWait, StartWait, Goto, TypeOK, InUser
    <2>3. CASE \E foreground \in BOOLEAN : MonitorStart(foreground)
      BY <1>0, <2>3 DEF MonitorStart, Goto, TypeOK, InUser
    <2>4. ~ MonitorCreate(Shell)
      BY <1>0 DEF MonitorCreate, CreateEmpty
    <2> QED BY <1>1, <2>1, <2>2, <2>3, <2>4 DEF MonitorUser
  <1>2. ASSUME NEW o \in Proc \ {Shell}, ProgramStep(o) PROVE InUser(Shell)'
    BY <1>0, <1>2 DEF ProgramStep, Calls, ExitNow, TypeOK, InUser, vars, actorVars
  <1>3. ASSUME NEW w \in {Shell, Monitor}, CollectStep(w) PROVE InUser(Shell)'
    <2>1. w = Monitor
      BY <1>0, <1>3 DEF CollectStep, Waiting
    <2>2. CASE WaitTurn(w) \/ WaitReap(w)
      BY <1>0, <2>1, <2>2 DEF WaitTurn, WaitReap, reap_zombies, Goto, TypeOK, InUser
    <2>3. CASE DestroyUnlink(w) \/ DestroyFree(w)
      BY <1>0, <2>1, <2>3 DEF DestroyUnlink, DestroyFree, Goto, TypeOK, InUser
    <2>4. CASE UNCHANGED vars
      BY <1>0, <2>4 DEF InUser, vars, actorVars
    <2> QED BY <1>3, <2>2, <2>3, <2>4 DEF CollectStep, CloseAll, CloseNext, DestroyRest
  <1>4. ASSUME NEW o \in Proc, IdleReap(o) PROVE InUser(Shell)'
    BY <1>0, <1>4 DEF IdleReap, TypeOK, InUser, actorVars
  <1> QED BY <1>1, <1>2, <1>3, <1>4

(* cmd_cat opens its file at its first byte.                               *)
LEMMA CmdCatCat ==
  ASSUME BaseInv, FilesInv, CatInv, NEW name, NEW r, CmdCat(name, r) PROVE CatInv'
  <1>0. Shell \in Proc /\ at = "command" /\ printed = <<>> /\ InUser(Shell) /\ UNCHANGED vars
    BY ShellAssumption DEF CmdCat, At, CatInv, Calls
  <1>1. CASE r = Failed
    BY <1>1, <1>0 DEF CmdCat, Prompt, CatInv, Open, FirstFree, FreeFds, Failed
  <1>2. CASE r # Failed
    <2> DEFINE f == NewFile
    <2>1. /\ at' = "cat" /\ fd' = r /\ path' = name /\ printed' = printed
          /\ name \in Node /\ r \in Fds
          /\ fds' = [fds EXCEPT ![Shell][r] = f] /\ node' = [node EXCEPT ![f] = name]
          /\ offset' = [offset EXCEPT ![f] = 0] /\ \E x \in File : node[x] = None
      BY <1>0, <1>2 DEF CmdCat, Open, FirstFree, FreeFds
    <2>2. f \in File
      BY <2>1 DEF NewFile
    <2> HIDE DEF f
    <2>3. fds'[Shell][r] = f /\ node'[f] = name /\ offset'[f] = 0 /\ f # None
      BY <1>0, <2>1, <2>2, FilesAssumption DEF FilesInv, FilesType
    <2>4. NodeSize[name] \in Nat /\ InUser(Shell)'
      BY <1>0, <2>1, FilesAssumption DEF InUser, vars, actorVars
    <2>5. printed' = <<>>
      BY <1>0, <2>1
    <2> QED BY <2>1, <2>3, <2>4, <2>5 DEF CatInv
  <1> QED BY <1>1, <1>2

(* A turn of its loop appends the next bytes, or has come to the end.      *)
LEMMA CatReadCat ==
  ASSUME BaseInv, FilesInv, CatInv, NEW r, CatRead(r) PROVE CatInv'
  <1> DEFINE f == fds[Shell][fd]
             size == NodeSize[path]
             asked == Min({Chunk, RwMax})
             n == vfs_read(f, asked)
  <1>0. /\ Shell \in Proc /\ at = "cat" /\ InUser(Shell) /\ UNCHANGED vars
        /\ fd \in Fds /\ path \in Node /\ f # None /\ node[f] = path
        /\ offset[f] = Len(printed) /\ printed \in Seq(Nat) /\ Len(printed) <= size
        /\ \A i \in 1..Len(printed) : printed[i] = i - 1
    BY ShellAssumption DEF CatRead, At, CatInv, Calls
  <1>1. process_fd_get(Shell, fd) = f /\ f \in File
    BY <1>0 DEF process_fd_get, FilesInv, FilesType
  <1>2. asked \in Nat /\ asked > 0
    BY MinTwo, FilesAssumption, ShellAssumption
  <1>3. /\ r = n /\ offset' = [offset EXCEPT ![f] = (offset[f] + n) % Word]
        /\ UNCHANGED <<node, fds, fd, path>>
        /\ \/ r > 0 /\ printed' = printed \o Bytes(f, r) /\ at' = "cat"
           \/ r <= 0 /\ at' = "close" /\ printed' = printed
    BY <1>0, <1>1, <1>2 DEF CatRead, Read
  <1>4. size \in 0..(Word - 1) /\ Word \in Nat /\ Len(printed) \in Nat
    BY <1>0, FilesAssumption
  <1>5. /\ n \in 0..asked
        /\ n = IF offset[f] >= size THEN 0
               ELSE IF asked <= size - offset[f] THEN asked ELSE size - offset[f]
    BY <1>0, <1>1, <1>2, ReadLength
  <1>6. InUser(Shell)'
    BY <1>0 DEF InUser, vars, actorVars
  <1> HIDE DEF f, size, asked, n
  <1>7. Len(printed) + n <= size /\ n \in Nat /\ (n = 0 => Len(printed) = size)
    BY <1>0, <1>2, <1>4, <1>5
  <1>8. offset'[f] = Len(printed) + n
    <2>1. (Len(printed) + n) % Word = Len(printed) + n
      BY <1>4, <1>7
    <2> QED BY <1>0, <1>1, <1>3, <2>1 DEF FilesInv, FilesType
  <1>9. CASE r > 0
    <2>1. printed' = printed \o Bytes(f, n) /\ at' = "cat"
      BY <1>3, <1>7, <1>9
    <2>2. Bytes(f, n) = [i \in 1..n |-> Len(printed) + i - 1]
      BY <1>0 DEF Bytes
    <2>3. Bytes(f, n) \in Seq(Nat) /\ Len(Bytes(f, n)) = n
      <3>1. \A i \in 1..n : Len(printed) + i - 1 \in Nat
        BY <1>4, <1>7
      <3> QED BY <1>7, <2>2, <3>1
    <2>4. /\ printed' \in Seq(Nat) /\ Len(printed') = Len(printed) + n
          /\ \A i \in 1..(Len(printed) + n) :
               printed'[i] = IF i <= Len(printed) THEN printed[i] ELSE Bytes(f, n)[i - Len(printed)]
      BY <1>0, <2>1, <2>3
    <2>5. \A i \in 1..Len(printed') : printed'[i] = i - 1
      <3> TAKE i \in 1..Len(printed')
      <3>1. CASE i <= Len(printed)
        BY <1>0, <1>4, <1>7, <2>4, <3>1, SMTT(30)
      <3>2. CASE ~ (i <= Len(printed))
        <4>1. i - Len(printed) \in 1..n
          BY <1>4, <1>7, <2>4, <3>2
        <4>2. Bytes(f, n)[i - Len(printed)] = Len(printed) + (i - Len(printed)) - 1
          BY <2>2, <4>1
        <4> QED BY <1>4, <1>7, <2>4, <3>2, <4>2
      <3> QED BY <3>1, <3>2
    <2> QED BY <1>0, <1>3, <1>6, <1>7, <1>8, <2>1, <2>4, <2>5 DEF CatInv, f, size
  <1>10. CASE ~ (r > 0)
    <2>1. n = 0 /\ at' = "close" /\ printed' = printed
      BY <1>3, <1>7, <1>10
    <2> QED BY <1>0, <1>3, <1>4, <1>6, <1>7, <1>8, <2>1 DEF CatInv, f, size
  <1> QED BY <1>9, <1>10

LEMMA ShellStepCat == ASSUME BaseInv, FilesInv, CatInv, ShellStep PROVE CatInv'
  <1>1. ASSUME at \notin {"cat", "close"}, at' \notin {"cat", "close"},
               printed' = printed \/ printed' = <<>>
        PROVE  CatInv'
    BY <1>1 DEF CatInv
  <1>2. CASE ReadLine
    BY <1>1, <1>2 DEF ReadLine, At, localVars
  <1>3. CASE ReadLineReturn
    BY <1>1, <1>3 DEF ReadLineReturn, shellVars, localVars, CatInv, InUser
  <1>4. CASE CmdExit
    BY <1>1, <1>4 DEF CmdExit, At, shellVars, localVars
  <1>5. CASE CmdOther \/ RunDone \/ Track \/ Waited \/ CmdJobs
    BY <1>1, <1>5 DEF CmdOther, RunDone, Track, Waited, CmdJobs, Prompt, At
  <1>6. CASE JobsTurn
    BY <1>1, <1>6 DEF JobsTurn, Prompt, At
  <1>7. CASE RunWait
    BY <1>1, <1>7 DEF RunWait, Prompt, At, localVars
  <1>8. ASSUME NEW c, CmdRun(c) \/ CmdRunbg(c) \/ CmdWait(c) \/ CmdKill(c) PROVE CatInv'
    BY <1>1, <1>8 DEF CmdRun, CmdRunbg, Launch, CmdWait, CmdKill, Prompt, At
  <1>9. ASSUME NEW r, CatClose(r) PROVE CatInv'
    BY <1>9 DEF CatClose, Prompt, CatInv
  <1> QED BY <1>2, <1>3, <1>4, <1>5, <1>6, <1>7, <1>8, <1>9, CmdCatCat, CatReadCat DEF ShellStep

LEMMA ShellNextCat == ASSUME BaseInv, FilesInv, CatInv, [ShellNext]_allVars PROVE CatInv'
  <1>0. Shell \in Proc /\ Shell \in Actors /\ Monitor \in Actors
    BY ShellAssumption DEF Actors
  <1>1. at \in {"cat", "close"} => fd \in Fds /\ fds[Shell][fd] # None /\ InUser(Shell)
    BY DEF CatInv
  <1>2. ASSUME UNCHANGED fileVars PROVE Untouched(Shell, fd)
    BY <1>2 DEF fileVars, Untouched
  <1>3. ASSUME MonitorUser PROVE CatInv'
    BY <1>0, <1>2, <1>3, ShellStays, CatFrame DEF MonitorUser
  <1>4. ASSUME NEW o \in Proc \ {Shell}, ProgramStep(o) PROVE CatInv'
    <2>1. at \in {"cat", "close"} => Untouched(Shell, fd)
      <3> SUFFICES ASSUME at \in {"cat", "close"} PROVE Untouched(Shell, fd)
        OBVIOUS
      <3>1. ASSUME NEW name, NEW r, Open(o, name, r) PROVE Untouched(Shell, fd)
        BY <1>0, <1>1, <3>1, OthersOpen
      <3>2. ASSUME NEW d, NEW r, \/ \E n, copied : Read(o, d, n, copied, r)
                                 \/ \E by, whence : Seek(o, d, by, whence, r)
                                 \/ Close(o, d, r)
            PROVE  Untouched(Shell, fd)
        BY <1>0, <1>1, <3>2, OthersUse
      <3> QED BY <1>2, <1>4, <3>1, <3>2 DEF ProgramStep
    <2>2. UNCHANGED shellVars
      BY <1>4 DEF ProgramStep
    <2> QED BY <1>4, <2>1, <2>2, ShellStays, CatFrame
  <1>5. ASSUME NEW w \in {Shell, Monitor}, CollectStep(w), UNCHANGED shellVars PROVE CatInv'
    BY <1>0, <1>1, <1>5, OthersDestroy, ShellStays, CatFrame
  <1>6. ASSUME NEW o \in Proc, IdleReap(o), UNCHANGED <<fileVars, shellVars>> PROVE CatInv'
    BY <1>2, <1>6, ShellStays, CatFrame
  <1>7. CASE UNCHANGED allVars
    BY <1>2, <1>7, CatFrame DEF allVars, vars, actorVars, InUser
  <1> QED BY <1>3, <1>4, <1>5, <1>6, <1>7, ShellStepCat DEF ShellNext

(* cat prints its file from the first byte to the last, once, whatever     *)
(* other processes do to their descriptors meanwhile.                      *)
THEOREM CatAlwaysPrintsFile == ShellSpec => []CatPrintsFile
  <1>1. ShellInit => CatInv
    BY DEF ShellInit, CatInv
  <1>2. ASSUME BaseInv, FilesInv, CatInv, [ShellNext]_allVars PROVE CatInv'
    BY <1>2, ShellNextCat
  <1>3. CatInv => CatPrintsFile
    BY DEF CatInv, CatPrintsFile, Stat
  <1> QED BY <1>1, <1>2, <1>3, FilesInductive, PTL DEF ShellSpec

-----------------------------------------------------------------------------
(* The job table: every slot names a child, and every uncollected child    *)
(* has a slot, is the one just launched, or has just been collected by     *)
(* the wait that is about to return.                                       *)
Collected(p) == \A c \in Proc : pid[c] = p => ~ InTable(c)

ChildOf(p) == \E c \in Proc : pid[c] = p /\ creator[c] = Shell

FamilyInv ==
  \A c \in Proc : creator[c] = Shell =>
    /\ state[c] # "ABSENT" /\ state[Shell] # "ABSENT" /\ c # Shell
    /\ ~ exited[Shell] => parent_pid[c] = pid[Shell]

SlotsInv ==
  /\ jobs \in [1..JobMax -> Nat] /\ child \in Nat
  /\ at = "jobs" => index \in 1..JobMax
  /\ \A i, j \in 1..JobMax : jobs[i] # 0 /\ jobs[i] = jobs[j] => i = j
  /\ \A i \in 1..JobMax : jobs[i] # 0 => ChildOf(jobs[i])
  /\ at \in {"run", "ran", "track"} => child \in Nat \ {0} /\ ChildOf(child)
  /\ at = "track" => FreeSlots # {}

WaitedInv ==
  at \in {"ran", "waited"} =>
    /\ state[Shell] # "ABSENT"
    /\ \/ pc[Shell] \in Waiting /\ pid[target[Shell]] = child
       \/ pc[Shell] = "user" /\ Collected(child)

TrackedInv ==
  ~ exited[Shell] =>
    \A c \in Proc : InTable(c) /\ creator[c] = Shell =>
      JobsOf(pid[c]) # {} \/ (at \in {"run", "ran", "track"} /\ child = pid[c])

JobsInv == FamilyInv /\ SlotsInv /\ WaitedInv /\ TrackedInv

LEMMA LeastNat == ASSUME NEW S \in SUBSET Nat, S # {} PROVE \E n \in S : \A m \in S : n <= m
  <1> DEFINE R == OpToRel(<, Nat)
  <1>1. IsWellFoundedOn(R, Nat)
    BY NatLessThanWellFounded
  <1>2. \A x, y \in Nat : <<x, y>> \in R <=> x < y
    BY DEF OpToRel
  <1> HIDE DEF R
  <1>3. PICK x \in S : \A y \in S : ~ (<<y, x>> \in R)
    BY <1>1, WFMin
  <1>4. \A y \in S : x <= y
    <2> TAKE y \in S
    <2>1. x \in Nat /\ y \in Nat
      OBVIOUS
    <2>2. ~ (y < x)
      BY <1>2, <1>3, <2>1
    <2> QED BY <2>1, <2>2
  <1> QED BY <1>4

LEMMA MinNat == ASSUME NEW S \in SUBSET Nat, S # {} PROVE Min(S) \in S
  BY LeastNat DEF Min

(* shell_forget_job clears the slot of that pid, if there is one.          *)
LEMMA ForgetJob ==
  ASSUME jobs \in [1..JobMax -> Nat], NEW p \in Nat, jobs' = shell_forget_job(p),
         \A i, j \in 1..JobMax : jobs[i] # 0 /\ jobs[i] = jobs[j] => i = j
  PROVE  /\ jobs' \in [1..JobMax -> Nat]
         /\ \A k \in 1..JobMax : jobs'[k] = IF jobs[k] = p THEN 0 ELSE jobs[k]
  <1>1. CASE JobsOf(p) = {}
    <2>1. \A k \in 1..JobMax : jobs[k] = p => p = 0
      BY <1>1 DEF JobsOf
    <2> QED BY <1>1, <2>1 DEF shell_forget_job
  <1>2. CASE JobsOf(p) # {}
    <2> DEFINE m == Min(JobsOf(p))
    <2>1. JobsOf(p) \in SUBSET Nat
      BY ShellAssumption DEF JobsOf
    <2>2. m \in JobsOf(p)
      BY <1>2, <2>1, MinNat
    <2>3. jobs' = [jobs EXCEPT ![m] = 0]
      BY <1>2 DEF shell_forget_job
    <2> HIDE DEF m
    <2>4. m \in 1..JobMax /\ jobs[m] = p /\ p # 0
      BY <2>2 DEF JobsOf
    <2> QED BY <2>3, <2>4
  <1> QED BY <1>1, <1>2

(* shell_track_job takes a free slot for a pid that has none.              *)
LEMMA TrackJob ==
  ASSUME jobs \in [1..JobMax -> Nat], FreeSlots # {}, NEW p \in Nat \ {0},
         jobs' = shell_track_job(p)
  PROVE  \/ jobs' = jobs /\ JobsOf(p) # {}
         \/ /\ JobsOf(p) = {}
            /\ \E i \in 1..JobMax : jobs[i] = 0 /\ jobs' = [jobs EXCEPT ![i] = p]
  <1>1. CASE JobsOf(p) # {}
    BY <1>1 DEF shell_track_job
  <1>2. CASE JobsOf(p) = {}
    <2>1. FreeSlots \in SUBSET Nat
      BY ShellAssumption DEF FreeSlots
    <2>2. Min(FreeSlots) \in FreeSlots
      BY <2>1, MinNat
    <2> QED BY <1>2, <2>2 DEF shell_track_job, FreeSlots
  <1> QED BY <1>1, <1>2

(* SYS_WAITPID and SYS_PROCINFO find every child of the shell that is in   *)
(* the table.                                                              *)
LEMMA OwnChild ==
  ASSUME BaseInv, PidInv, FamilyInv, ~ exited[Shell], NEW c \in Proc, InTable(c),
         creator[c] = Shell
  PROVE  c # Shell /\ parent_pid[c] = pid[Shell] /\ process_find(pid[c], c)
  <1>1. c # Shell /\ parent_pid[c] = pid[Shell]
    BY DEF FamilyInv
  <1>2. PICK i \in 1..Len(table) : table[i] = c
    BY DEF InTable
  <1>3. \A j \in 1..(i - 1) : pid[table[j]] # pid[c]
    <2> TAKE j \in 1..(i - 1)
    <2>1. j \in 1..Len(table) /\ j # i /\ table[j] \in Proc
      BY <1>2 DEF BaseInv, TypeOK
    <2>2. table[j] # c /\ InTable(table[j])
      BY <1>2, <2>1 DEF BaseInv, TableInv, InTable
    <2>3. state[table[j]] # "ABSENT" /\ state[c] # "ABSENT"
      BY <2>1, <2>2 DEF BaseInv, TableInv
    <2> QED BY <2>1, <2>2, <2>3 DEF PidInv
  <1> QED BY <1>1, <1>2, <1>3 DEF process_find

-----------------------------------------------------------------------------
(* Steps that leave the shell's variables alone and launch nobody.         *)
LEMMA JobsFrame ==
  ASSUME JobsInv, UNCHANGED <<shellVars, pid, creator>>,
         \A o \in Proc : state'[o] = "ABSENT" => state[o] = "ABSENT",
         exited[Shell] => exited'[Shell],
         ~ exited'[Shell] =>
            \A c \in Proc : creator[c] = Shell => parent_pid'[c] = parent_pid[c],
         \A o \in Proc : InTable(o)' => InTable(o),
         WaitedInv'
  PROVE  JobsInv'
  <1>0. Shell \in Proc /\ UNCHANGED <<at, jobs, index, child>>
    BY ShellAssumption DEF shellVars, localVars
  <1>1. FamilyInv'
    BY <1>0 DEF JobsInv, FamilyInv
  <1>2. SlotsInv'
    BY <1>0 DEF JobsInv, SlotsInv, ChildOf, FreeSlots
  <1>3. TrackedInv'
    BY <1>0 DEF JobsInv, TrackedInv, JobsOf
  <1> QED BY <1>1, <1>2, <1>3 DEF JobsInv

(* The same for steps that leave the shell where it is.                    *)
LEMMA JobsFrameStill ==
  ASSUME JobsInv, UNCHANGED <<shellVars, pid, creator>>,
         \A o \in Proc : state'[o] = "ABSENT" => state[o] = "ABSENT",
         exited[Shell] => exited'[Shell],
         ~ exited'[Shell] =>
            \A c \in Proc : creator[c] = Shell => parent_pid'[c] = parent_pid[c],
         \A o \in Proc : InTable(o)' => InTable(o),
         pc'[Shell] = pc[Shell], target'[Shell] = target[Shell]
  PROVE  JobsInv'
  <1>1. Shell \in Proc /\ UNCHANGED <<at, child>>
    BY ShellAssumption DEF shellVars, localVars
  <1>2. WaitedInv'
    BY <1>1 DEF JobsInv, WaitedInv, Collected
  <1> QED BY <1>2, JobsFrame

(* process_destroy of anybody but the shell leaves the shell's children to *)
(* the shell.                                                              *)
LEMMA UnlinkKeepsFamily ==
  ASSUME BaseInv, PidInv, FamilyInv, NEW w \in Actors, DestroyUnlink(w), ~ exited'[Shell],
         NEW c \in Proc, creator[c] = Shell
  PROVE  parent_pid'[c] = parent_pid[c]
  <1>1. Shell \in Proc /\ ~ exited[Shell] /\ state[Shell] # "ABSENT" /\ parent_pid[c] = pid[Shell]
    BY ShellAssumption DEF DestroyUnlink, FamilyInv
  <1>2. target[w] \in Proc /\ exited[target[w]] /\ state[target[w]] # "ABSENT"
    BY DEF DestroyUnlink, BaseInv, ActorInv, Waiting
  <1>3. pid[target[w]] # pid[Shell]
    BY <1>1, <1>2 DEF PidInv
  <1> QED BY <1>1, <1>3 DEF DestroyUnlink

LEMMA CollectJobs ==
  ASSUME BaseInv, PidInv, JobsInv, NEW w \in {Shell, Monitor}, CollectStep(w), UNCHANGED shellVars
  PROVE  JobsInv'
  <1> USE DEF BaseInv
  <1>0. Shell \in Proc /\ Shell \in Actors /\ Monitor \in Actors /\ Shell # Monitor /\ w \in Actors
    BY ShellAssumption, ProcAssumption DEF Actors
  <1>1. UNCHANGED <<at, child>>
    BY DEF shellVars, localVars
  <1>2. target[w] \in Proc /\ pc[w] \in Waiting
    BY <1>0 DEF CollectStep, ActorInv
  <1>3. ASSUME UNCHANGED <<pid, creator, exited, target>>, pc'[w] \in Waiting,
               \A x \in Actors : x # w => pc'[x] = pc[x],
               \A o \in Proc : state'[o] = "ABSENT" => state[o] = "ABSENT",
               \A o \in Proc : InTable(o)' => InTable(o)
        PROVE  WaitedInv'
    BY <1>0, <1>1, <1>2, <1>3 DEF JobsInv, WaitedInv, Collected, Waiting
  <1>4. CASE WaitTurn(w) \/ WaitReap(w)
    <2>1. /\ UNCHANGED <<state, pid, creator, exited, parent_pid, table, target>>
          /\ pc'[w] \in Waiting
          /\ \A x \in Actors : x # w => pc'[x] = pc[x]
      BY <1>0, <1>2, <1>4 DEF WaitTurn, WaitReap, Goto, TypeOK, Waiting, procVars, listVars
    <2>2. \A o \in Proc : InTable(o)' => InTable(o)
      BY <2>1 DEF InTable
    <2> QED BY <1>0, <1>3, <2>1, <2>2, JobsFrame
  <1>5. CASE DestroyUnlink(w)
    <2>1. /\ UNCHANGED <<state, pid, creator, exited, target>> /\ pc'[w] = "unlinked"
          /\ \A x \in Actors : x # w => pc'[x] = pc[x]
      BY <1>0, <1>5 DEF DestroyUnlink, Goto, TypeOK
    <2>2. \A o \in Proc : InTable(o)' => InTable(o)
      BY <1>2, <1>5, RemoveTable DEF DestroyUnlink, TypeOK, TableInv
    <2>3. ~ exited'[Shell] =>
            \A c \in Proc : creator[c] = Shell => parent_pid'[c] = parent_pid[c]
      BY <1>0, <1>5, UnlinkKeepsFamily DEF JobsInv
    <2>4. WaitedInv'
      BY <1>3, <2>1, <2>2 DEF Waiting
    <2> QED BY <2>1, <2>2, <2>3, <2>4, JobsFrame
  <1>6. CASE CloseAll(w) \/ CloseNext(w)
    <2>1. UNCHANGED <<state, pid, creator, exited, parent_pid, table, target, pc>>
      BY <1>6 DEF CloseAll, CloseNext, vars, procVars, listVars, actorVars
    <2> QED BY <2>1, JobsFrameStill DEF InTable
  <1>7. CASE DestroyRest(w)
    <2>1. /\ UNCHANGED <<pid, creator, exited, parent_pid, table>>
          /\ pc[w] = "unlinked" /\ pc'[w] = "user"
          /\ state' = [state EXCEPT ![target[w]] = "FREED"]
          /\ \A x \in Actors : x # w => pc'[x] = pc[x] /\ target'[x] = target[x]
      BY <1>0, <1>7 DEF DestroyRest, DestroyFree, Goto, TypeOK, listVars
    <2>2. \A o : InTable(o)' <=> InTable(o)
      BY <2>1 DEF InTable
    <2>3. \A o \in Proc : state'[o] = "ABSENT" => state[o] = "ABSENT"
      BY <2>1 DEF TypeOK
    <2>4. WaitedInv'
      <3>1. CASE w = Monitor
        BY <1>0, <1>1, <2>1, <2>2, <2>3, <3>1 DEF JobsInv, WaitedInv, Collected
      <3>2. CASE w = Shell
        <4>1. ~ InTable(target[w]) /\ state[target[w]] # "ABSENT"
          BY <1>0, <1>2, <2>1 DEF TableInv, ActorInv
        <4>2. ASSUME NEW c \in Proc, pid[c] = pid[target[w]] PROVE ~ InTable(c)
          BY <1>2, <4>1, <4>2 DEF TableInv, PidInv
        <4>3. at \in {"ran", "waited"} => state[Shell] # "ABSENT" /\ pid[target[w]] = child
          BY <1>2, <2>1, <3>2 DEF JobsInv, WaitedInv, Waiting
        <4> QED BY <1>0, <1>1, <2>1, <2>2, <2>3, <3>2, <4>2, <4>3 DEF WaitedInv, Collected
      <3> QED BY <3>1, <3>2
    <2> QED BY <2>1, <2>2, <2>3, <2>4, JobsFrame
  <1> QED BY <1>4, <1>5, <1>6, <1>7 DEF CollectStep

LEMMA MonitorJobs == ASSUME BaseInv, JobsInv, MonitorUser PROVE JobsInv'
  <1> USE DEF BaseInv
  <1>0. Shell \in Proc /\ Shell \in Actors /\ Shell # Monitor /\ UNCHANGED shellVars
    BY ShellAssumption, ProcAssumption DEF Actors, MonitorUser
  <1>1. CASE MonitorLoadPid \/ MonitorStorePid
    <2>1. /\ UNCHANGED <<state, pid, creator, exited, parent_pid, table, target>>
          /\ pc'[Shell] = pc[Shell]
      BY <1>0, <1>1 DEF MonitorLoadPid, MonitorStorePid, Goto, TypeOK, procVars, listVars
    <2> QED BY <1>0, <2>1, JobsFrameStill DEF InTable
  <1>2. CASE MonitorCreate(Shell)
    <2>1. /\ state[Shell] = "ABSENT" /\ UNCHANGED <<exited, at, jobs, index, child>>
          /\ creator' = [creator EXCEPT ![Shell] = Monitor]
      BY <1>0, <1>2 DEF MonitorCreate, CreateEmpty, shellVars, localVars
    <2>2. \A c \in Proc : creator[c] # Shell /\ creator'[c] # Shell
      BY <1>0, <2>1 DEF JobsInv, FamilyInv, TypeOK
    <2>3. FamilyInv' /\ TrackedInv'
      BY <2>2 DEF FamilyInv, TrackedInv
    <2>4. WaitedInv'
      BY <2>1 DEF JobsInv, WaitedInv
    <2>5. SlotsInv'
      BY <2>1, <2>2 DEF JobsInv, SlotsInv, ChildOf, FreeSlots
    <2> QED BY <2>3, <2>4, <2>5 DEF JobsInv
  <1>3. ASSUME NEW foreground \in BOOLEAN, MonitorStart(foreground) PROVE JobsInv'
    <2>1. /\ UNCHANGED <<pid, creator, exited, parent_pid, table>>
          /\ pc'[Shell] = pc[Shell] /\ target'[Shell] = target[Shell]
          /\ \A o \in Proc : state'[o] = "ABSENT" => state[o] = "ABSENT"
      BY <1>0, <1>3 DEF MonitorStart, Goto, TypeOK, listVars
    <2> QED BY <1>0, <2>1, JobsFrameStill DEF InTable
  <1>4. ASSUME NEW c \in Proc, MonitorWait(c) PROVE JobsInv'
    <2>1. /\ UNCHANGED <<state, pid, creator, exited, parent_pid, table>>
          /\ pc'[Shell] = pc[Shell] /\ target'[Shell] = target[Shell]
      BY <1>0, <1>4 DEF MonitorWait, StartWait, Goto, TypeOK, procVars, listVars
    <2> QED BY <1>0, <2>1, JobsFrameStill DEF InTable
  <1> QED BY <1>1, <1>2, <1>3, <1>4 DEF MonitorUser

LEMMA ExitJobs ==
  ASSUME BaseInv, JobsInv, NEW o \in Proc, NEW code, ExitNow(o, code), UNCHANGED shellVars
  PROVE  JobsInv'
  <1>0. Shell \in Proc
    BY ShellAssumption
  <1>1. /\ UNCHANGED <<pid, creator, parent_pid, table, pc, target>>
        /\ \A x \in Proc : state'[x] = "ABSENT" => state[x] = "ABSENT"
        /\ exited[Shell] => exited'[Shell]
    BY <1>0 DEF ExitNow, ExitCurrent, BaseInv, TypeOK, listVars, actorVars
  <1> QED BY <1>1, JobsFrameStill DEF InTable

LEMMA ProgramJobs ==
  ASSUME BaseInv, JobsInv, NEW o \in Proc, ProgramStep(o) PROVE JobsInv'
  <1>1. UNCHANGED shellVars
    BY DEF ProgramStep
  <1>2. CASE UNCHANGED vars
    <2>1. UNCHANGED <<state, pid, creator, exited, parent_pid, table, target, pc>>
      BY <1>2 DEF vars, procVars, listVars, actorVars
    <2> QED BY <1>1, <2>1, JobsFrameStill DEF InTable
  <1>3. ASSUME NEW code, ExitNow(o, code) PROVE JobsInv'
    BY <1>1, <1>3, ExitJobs
  <1> QED BY <1>2, <1>3 DEF ProgramStep, Calls

-----------------------------------------------------------------------------
(* A command that neither launches nor waits, nor touches the job table.   *)
LEMMA CommandJobs ==
  ASSUME JobsInv, UNCHANGED <<state, pid, creator, exited, parent_pid, table, jobs>>,
         at \notin {"run", "ran", "track"}, at' \notin {"run", "ran", "track", "waited"},
         at' = "jobs" => index' \in 1..JobMax, child' \in Nat
  PROVE  JobsInv'
  <1>1. FamilyInv'
    BY DEF JobsInv, FamilyInv
  <1>2. SlotsInv'
    BY DEF JobsInv, SlotsInv, ChildOf
  <1>3. TrackedInv'
    BY DEF JobsInv, TrackedInv, JobsOf, InTable
  <1> QED BY <1>1, <1>2, <1>3 DEF JobsInv, WaitedInv

(* A launch: the new process is the child the command remembers.           *)
LEMMA LaunchJobs ==
  ASSUME BaseInv, JobsInv, NEW c \in Proc \ {Shell}, NEW next \in {"run", "track"},
         Launch(c, next), next = "track" => FreeSlots # {}
  PROVE  JobsInv'
  <1> USE DEF BaseInv
  <1>0. /\ Shell \in Proc /\ at = "command" /\ at' = next /\ jobs' = jobs /\ child' = pid'[c]
        /\ Exec(Shell, c) /\ state[Shell] = "RUNNING" /\ ~ exited[Shell]
    BY ShellAssumption, ZenonT(30) DEF Launch, At, InUser, LifeInv, TypeOK
  <1>1. /\ state[c] = "ABSENT" /\ state' = [state EXCEPT ![c] = "RUNNING"]
        /\ pid' = [pid EXCEPT ![c] = next_pid] /\ exited' = exited
        /\ parent_pid' = [parent_pid EXCEPT ![c] = pid[Shell]]
        /\ creator' = [creator EXCEPT ![c] = Shell]
    BY <1>0 DEF Exec, CreateEmpty
  <1>2. /\ \A o \in Proc : InTable(o)' <=> InTable(o) \/ o = c
    BY <1>0, <1>1, InsertTable DEF Exec, CreateEmpty, TypeOK, TableInv
  <1>3. /\ \A o \in Proc : creator[o] = Shell => o # c
        /\ \A o \in Proc : o # c => creator'[o] = creator[o] /\ pid'[o] = pid[o]
                                    /\ parent_pid'[o] = parent_pid[o] /\ state'[o] = state[o]
        /\ creator'[c] = Shell /\ pid'[c] = next_pid /\ next_pid \in Nat \ {0}
    BY <1>0, <1>1 DEF JobsInv, FamilyInv, TypeOK, ActorInv
  <1>4. FamilyInv'
    BY <1>0, <1>1, <1>3 DEF JobsInv, FamilyInv, TypeOK
  <1>5. \A p : ChildOf(p) => ChildOf(p)'
    BY <1>3 DEF ChildOf
  <1>6. ChildOf(child)'
    BY <1>0, <1>3 DEF ChildOf
  <1>7. SlotsInv'
    BY <1>0, <1>3, <1>5, <1>6 DEF JobsInv, SlotsInv, FreeSlots
  <1>8. TrackedInv'
    BY <1>0, <1>2, <1>3 DEF JobsInv, TrackedInv, JobsOf
  <1> QED BY <1>0, <1>4, <1>7, <1>8 DEF JobsInv, WaitedInv

(* A wait begins, in cmd_run or cmd_wait.                                  *)
LEMMA WaitJobs ==
  ASSUME BaseInv, JobsInv, NEW c \in Proc, WaitPid(Shell, c), jobs' = jobs, child' = pid[c],
         \/ at = "run" /\ at' = "ran" /\ child' = child
         \/ at = "command" /\ at' = "waited"
  PROVE  JobsInv'
  <1>0. /\ Shell \in Proc /\ Shell \in Actors
        /\ UNCHANGED <<state, pid, creator, exited, parent_pid, table>>
        /\ pc'[Shell] = "wait" /\ target'[Shell] = c /\ state[Shell] # "ABSENT" /\ pid[c] \in Nat
    BY ShellAssumption DEF WaitPid, StartWait, InUser, Goto, BaseInv, TypeOK, LifeInv, procVars,
                           listVars, Actors
  <1>1. FamilyInv' /\ WaitedInv'
    BY <1>0 DEF JobsInv, FamilyInv, WaitedInv, Waiting
  <1>2. SlotsInv'
    BY <1>0 DEF JobsInv, SlotsInv, ChildOf
  <1>3. TrackedInv'
    BY <1>0 DEF JobsInv, TrackedInv, JobsOf, InTable
  <1> QED BY <1>1, <1>2, <1>3 DEF JobsInv

(* The command ends, and forgets one pid or none: nobody in the table is   *)
(* lost when the pids it forgets, as job and as child, are not there.      *)
LEMMA ForgetJobs ==
  ASSUME BaseInv, JobsInv, UNCHANGED <<state, pid, creator, exited, parent_pid, table>>,
         ~ exited[Shell], NEW p \in Nat, jobs' = shell_forget_job(p),
         \A c \in Proc : InTable(c) /\ creator[c] = Shell => pid[c] # p,
         at \in {"run", "ran", "track"} =>
            \A c \in Proc : InTable(c) /\ creator[c] = Shell => pid[c] # child,
         at' \notin {"run", "ran", "track", "waited"}, at' = "jobs" => index' \in 1..JobMax,
         child' \in Nat
  PROVE  JobsInv'
  <1>1. /\ jobs' \in [1..JobMax -> Nat]
        /\ \A k \in 1..JobMax : jobs'[k] = IF jobs[k] = p THEN 0 ELSE jobs[k]
    BY ForgetJob DEF JobsInv, SlotsInv
  <1>2. FamilyInv'
    BY DEF JobsInv, FamilyInv
  <1>3. SlotsInv'
    BY <1>1 DEF JobsInv, SlotsInv, ChildOf
  <1>4. TrackedInv'
    <2> SUFFICES ASSUME NEW c \in Proc, InTable(c), creator[c] = Shell PROVE JobsOf(pid[c])' # {}
      BY DEF TrackedInv, InTable
    <2>1. JobsOf(pid[c]) # {} /\ pid[c] # p
      BY DEF JobsInv, TrackedInv
    <2> QED BY <1>1, <2>1 DEF JobsOf
  <1> QED BY <1>2, <1>3, <1>4 DEF JobsInv, WaitedInv

(* shell_track_job finds the free slot cmd_runbg has looked for.           *)
LEMMA TrackJobs == ASSUME BaseInv, JobsInv, Track PROVE JobsInv'
  <1>0. /\ UNCHANGED <<state, pid, creator, exited, parent_pid, table>>
        /\ at = "track" /\ at' = "prompt" /\ child' = 0 /\ child \in Nat \ {0} /\ ChildOf(child)
        /\ jobs \in [1..JobMax -> Nat]
    BY DEF Track, At, Prompt, vars, procVars, listVars, JobsInv, SlotsInv
  <1>1. PICK new \in Nat \ {0} : new = child
    BY <1>0
  <1>2. \/ jobs' = jobs /\ JobsOf(new) # {}
        \/ /\ JobsOf(new) = {}
           /\ \E i \in 1..JobMax : jobs[i] = 0 /\ jobs' = [jobs EXCEPT ![i] = new]
    BY <1>0, <1>1, TrackJob DEF Track, JobsInv, SlotsInv
  <1>3. FamilyInv'
    BY <1>0 DEF JobsInv, FamilyInv
  <1>4. \A p : ChildOf(p)' <=> ChildOf(p)
    BY <1>0 DEF ChildOf
  <1>5. SlotsInv' /\ JobsOf(new)' # {} /\ \A p : JobsOf(p) # {} => JobsOf(p)' # {}
    <2>1. CASE jobs' = jobs /\ JobsOf(new) # {}
      BY <1>0, <1>4, <2>1 DEF JobsInv, SlotsInv, JobsOf
    <2>2. CASE JobsOf(new) = {}
      <3>1. PICK i \in 1..JobMax : jobs[i] = 0 /\ jobs' = [jobs EXCEPT ![i] = new]
        BY <1>2, <2>2
      <3>2. \A k \in 1..JobMax : jobs[k] # new
        BY <1>0, <2>2 DEF JobsOf
      <3>3. SlotsInv'
        BY <1>0, <1>1, <1>4, <3>1, <3>2 DEF JobsInv, SlotsInv
      <3>4. \A p : JobsOf(p) # {} => JobsOf(p)' # {}
        BY <1>0, <3>1 DEF JobsOf
      <3>5. i \in JobsOf(new)'
        BY <1>0, <3>1 DEF JobsOf
      <3> QED BY <3>3, <3>4, <3>5
    <2> QED BY <1>2, <2>1, <2>2
  <1>6. TrackedInv'
    BY <1>0, <1>1, <1>5 DEF JobsInv, TrackedInv, InTable
  <1> QED BY <1>0, <1>3, <1>5, <1>6 DEF JobsInv, WaitedInv

LEMMA ShellStepJobs == ASSUME BaseInv, PidInv, JobsInv, ShellStep PROVE JobsInv'
  <1> USE DEF BaseInv
  <1> DEFINE Same == UNCHANGED <<state, pid, creator, exited, parent_pid, table>>
  <1>0. /\ Shell \in Proc /\ Shell \in Actors /\ child \in Nat /\ JobMax \in Nat \ {0}
        /\ UNCHANGED vars => Same
        /\ InUser(Shell) => ~ exited[Shell] /\ pc[Shell] = "user"
    BY ShellAssumption DEF Actors, InUser, LifeInv, JobsInv, SlotsInv, vars, procVars, listVars
  <1>1. CASE ReadLine
    <2>1. Same /\ jobs' = jobs /\ child' = child /\ at = "prompt" /\ at' = "command"
      BY <1>1 DEF ReadLine, At, SleepCall, procVars, listVars, localVars
    <2> QED BY <1>0, <2>1, CommandJobs
  <1>2. CASE ReadLineReturn
    <2>1. /\ UNCHANGED <<pid, creator, parent_pid, table, target, shellVars>>
          /\ pc[Shell] = "reading"
          /\ \A o \in Proc : state'[o] = "ABSENT" => state[o] = "ABSENT"
      BY <1>2 DEF ReadLineReturn, SleepReturn, ExitCurrent, TypeOK, procVars, listVars
    <2>2. exited[Shell] => exited'[Shell]
      BY <1>2, <1>0 DEF ReadLineReturn, SleepReturn, ExitCurrent, TypeOK, procVars
    <2>3. at \notin {"ran", "waited"} /\ at' = at
      BY <2>1 DEF JobsInv, WaitedInv, Waiting, shellVars
    <2> QED BY <2>1, <2>2, <2>3, JobsFrame DEF InTable, WaitedInv
  <1>3. CASE CmdExit
    BY <1>0, <1>3, ExitJobs DEF CmdExit
  <1>4. CASE CmdOther \/ CmdJobs
    <2>1. UNCHANGED vars
      BY <1>4 DEF CmdOther, CmdJobs, Calls
    <2>2. /\ jobs' = jobs /\ child' \in Nat /\ at = "command"
          /\ at' = "prompt" \/ (at' = "jobs" /\ index' = 1)
      BY <1>0, <1>4 DEF CmdOther, CmdJobs, At, Prompt
    <2> QED BY <1>0, <2>1, <2>2, CommandJobs
  <1>5. ASSUME NEW name, NEW r, CmdCat(name, r) PROVE JobsInv'
    <2>1. Same /\ jobs' = jobs /\ child' \in Nat /\ at = "command" /\ at' \in {"prompt", "cat"}
      BY <1>0, <1>5 DEF CmdCat, At, Calls, Prompt
    <2> QED BY <2>1, CommandJobs
  <1>6. ASSUME NEW r, CatRead(r) \/ CatClose(r) PROVE JobsInv'
    <2>1. UNCHANGED vars
      BY <1>6 DEF CatRead, CatClose, Calls
    <2>2. /\ jobs' = jobs /\ child' \in Nat
          /\ at \in {"cat", "close"} /\ at' \in {"prompt", "cat", "close"}
      <3>1. CASE CatRead(r)
        BY <1>0, <3>1 DEF CatRead, At
      <3>2. CASE CatClose(r)
        BY <1>0, <3>2 DEF CatClose, At, Prompt
      <3> QED BY <1>6, <3>1, <3>2
    <2> QED BY <1>0, <2>1, <2>2, CommandJobs
  <1>7. CASE RunWait
    <2>1. ASSUME NEW c \in Proc, pid[c] = child, WaitPid(Shell, c), at' = "ran",
                 UNCHANGED <<jobs, localVars>>
          PROVE  JobsInv'
      BY <1>7, <2>1, WaitJobs DEF RunWait, At, localVars
    <2>2. ASSUME \A c \in Proc : ~ (process_find(child, c) /\ parent_pid[c] = pid[Shell]),
                 Prompt, UNCHANGED <<vars, jobs>>
          PROVE  JobsInv'
      <3>1. ~ exited[Shell] /\ Same /\ at' = "prompt" /\ child' = 0
        BY <1>0, <1>7, <2>2 DEF RunWait, At, Prompt
      <3>2. jobs' = shell_forget_job(0)
        BY <2>2 DEF shell_forget_job, JobsOf
      <3>3. \A c \in Proc : InTable(c) /\ creator[c] = Shell => pid[c] # child /\ pid[c] # 0
        BY <2>2, <3>1, OwnChild DEF JobsInv, TableInv, LifeInv, TypeOK
      <3> QED BY <3>1, <3>2, <3>3, ForgetJobs
    <2> QED BY <1>7, <2>1, <2>2 DEF RunWait
  <1>8. CASE RunDone
    <2>1. /\ ~ exited[Shell] /\ Same /\ at = "ran" /\ at' = "prompt" /\ child' = 0
          /\ pc[Shell] = "user" /\ jobs' = jobs
      BY <1>0, <1>8 DEF RunDone, At, Prompt
    <2>2. jobs' = shell_forget_job(0)
      BY <2>1 DEF shell_forget_job, JobsOf
    <2>3. \A c \in Proc : InTable(c) => pid[c] # child /\ pid[c] # 0
      BY <2>1 DEF JobsInv, WaitedInv, Waiting, Collected, TableInv, LifeInv, TypeOK
    <2> QED BY <2>1, <2>2, <2>3, ForgetJobs
  <1>9. CASE Waited
    <2>1. /\ ~ exited[Shell] /\ Same /\ at = "waited" /\ at' = "prompt" /\ child' = 0
          /\ pc[Shell] = "user" /\ jobs' = shell_forget_job(child)
      BY <1>0, <1>9 DEF Waited, At, Prompt
    <2>2. \A c \in Proc : InTable(c) => pid[c] # child
      BY <2>1 DEF JobsInv, WaitedInv, Waiting, Collected
    <2> QED BY <1>0, <2>1, <2>2, ForgetJobs
  <1>10. CASE JobsTurn
    <2>1. /\ ~ exited[Shell] /\ Same /\ at = "jobs" /\ index \in 1..JobMax /\ child' \in Nat
          /\ at' = "prompt" \/ (at' = "jobs" /\ index < JobMax /\ index' = index + 1)
      BY <1>0, <1>10 DEF JobsTurn, At, Calls, Prompt, JobsInv, SlotsInv
    <2>2. at' = "jobs" => index' \in 1..JobMax
      BY <1>0, <2>1
    <2>3. jobs[index] \in Nat /\ jobs \in [1..JobMax -> Nat]
      BY <2>1 DEF JobsInv, SlotsInv
    <2>4. CASE procinfo(jobs[index])
      <3>1. jobs' = jobs
        BY <1>10, <2>4 DEF JobsTurn
      <3> QED BY <2>1, <2>2, <3>1, CommandJobs
    <2>5. CASE ~ procinfo(jobs[index])
      <3>1. jobs' = shell_forget_job(jobs[index])
        BY <1>10, <2>5 DEF JobsTurn
      <3>2. \A c \in Proc : InTable(c) /\ creator[c] = Shell => pid[c] # jobs[index]
        BY <2>1, <2>5, OwnChild DEF procinfo, JobsInv
      <3> QED BY <2>1, <2>2, <2>3, <3>1, <3>2, ForgetJobs
    <2> QED BY <2>4, <2>5
  <1>11. ASSUME NEW c \in Proc \ {Shell}, CmdRun(c) \/ CmdRunbg(c) PROVE JobsInv'
    <2>1. CASE CmdRun(c)
      <3>1. Launch(c, "run")
        BY <2>1 DEF CmdRun
      <3> QED BY <3>1, LaunchJobs
    <2>2. CASE CmdRunbg(c)
      BY <2>2, LaunchJobs DEF CmdRunbg
    <2> QED BY <1>11, <2>1, <2>2
  <1>12. ASSUME NEW c \in Proc, CmdWait(c) PROVE JobsInv'
    BY <1>12, WaitJobs DEF CmdWait, At
  <1>13. ASSUME NEW c \in Proc, CmdKill(c) PROVE JobsInv'
    <2>1. Same /\ jobs' = jobs /\ child' \in Nat /\ at = "command" /\ at' = "prompt"
      BY <1>13 DEF CmdKill, Kill, At, Prompt, listVars
    <2> QED BY <2>1, CommandJobs
  <1> HIDE DEF Same
  <1> QED BY <1>1, <1>2, <1>3, <1>4, <1>5, <1>6, <1>7, <1>8, <1>9, <1>10, <1>11, <1>12, <1>13,
             TrackJobs, ShellAssumption DEF ShellStep

LEMMA ShellNextJobs == ASSUME BaseInv, PidInv, JobsInv, [ShellNext]_allVars PROVE JobsInv'
  <1>1. ASSUME NEW o \in Proc, IdleReap(o), UNCHANGED shellVars PROVE JobsInv'
    <2>1. UNCHANGED <<state, pid, creator, exited, parent_pid, table, target, pc>>
      BY <1>1 DEF IdleReap, procVars, listVars, actorVars
    <2> QED BY <1>1, <2>1, JobsFrameStill DEF InTable
  <1>2. CASE UNCHANGED allVars
    <2>1. UNCHANGED <<state, pid, creator, exited, parent_pid, table, target, pc, shellVars>>
      BY <1>2 DEF allVars, vars, procVars, listVars, actorVars
    <2> QED BY <2>1, JobsFrameStill DEF InTable
  <1> QED BY <1>1, <1>2, MonitorJobs, ShellStepJobs, ProgramJobs, CollectJobs DEF ShellNext

(* Unless launches race, the shell can name every process it has launched  *)
(* and nobody has collected, however many jobs and slots there are.        *)
THEOREM JobsAlwaysTracked ==
  ASSUME "launch_race" \notin Features PROVE ShellSpec => []JobsTracked
  <1>1. ShellInit => JobsInv
    BY ProcAssumption, ShellAssumption
       DEF ShellInit, Init, JobsInv, FamilyInv, SlotsInv, WaitedInv, TrackedInv, InTable
  <1>2. ASSUME BaseInv, PidInv, JobsInv, [ShellNext]_allVars PROVE JobsInv'
    BY <1>2, ShellNextJobs
  <1>3. ASSUME BaseInv, JobsInv PROVE JobsTracked
    <2>1. Shell \in Proc /\ (state[Shell] = "RUNNING" => ~ exited[Shell])
      BY <1>3, ShellAssumption DEF BaseInv, LifeInv
    <2> QED BY <1>3, <2>1 DEF JobsInv, SlotsInv, TrackedInv, ChildOf, JobsTracked
  <1>4. ShellSpec => [](BaseInv /\ PidInv)
    BY ShellImplementsProcess, PidsInductive, PTL
  <1> QED BY <1>1, <1>2, <1>3, <1>4, PTL DEF ShellSpec
=============================================================================
