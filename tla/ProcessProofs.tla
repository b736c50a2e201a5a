---------------------------- MODULE ProcessProofs ----------------------------
(***************************************************************************)
(* For every size of the task table and every range of pids: pids are      *)
(* unique and, as long as nobody signals init, every process has a father  *)
(* that can still be told of its death and no waitpid overlooks a zombie.  *)
(***************************************************************************)
EXTENDS Process, TLAPS

\* A slot is free exactly when it has no pid, only slot 0 has pid 0, and the
\* state of a task is known from where it is.
Sound(i) ==
    /\ task[i].pid = -1 => task[i] = NULL
    /\ task[i].pid = 0 <=> i = 0
    /\ task[i].state = "running" <=> task[i].at \in {"user", "ret", "exiting"}
    /\ task[i].state = "interruptible" <=> task[i].at = "wait"
    /\ task[i].state = "null" <=> task[i].pid = -1

Table == TypeOK /\ PidsUnique /\ \A i \in Slot : Sound(i)

\* init stays: it has no signal but SIGCHLD, and kill_session does not reach
\* it, because the leader of a session never has session 0.
InitStays ==
    /\ task[1].pid = 1 /\ task[1].at \in {"user", "ret", "wait"}
    /\ task[1].signal \subseteq {SIGCHLD}
    /\ task[1].session = 0 /\ ~task[1].leader
Leaders == \A i \in Slot : task[i].leader => task[i].session # 0

-----------------------------------------------------------------------------
\* What the operators do to a task table.
Sigs == Signals \cup {SIGHUP, SIGCHLD}

\* A signal changes no other field, and no free slot.
LEMMA SignalledIs ==
    ASSUME NEW tbl \in [Slot -> TaskStruct], NEW S, NEW sig \in Sigs, NEW i \in Slot
    PROVE  /\ Signalled(tbl, S, sig) \in [Slot -> TaskStruct]
           /\ Signalled(tbl, S, sig)[i].pid = tbl[i].pid
           /\ Signalled(tbl, S, sig)[i].father = tbl[i].father
           /\ Signalled(tbl, S, sig)[i].state = tbl[i].state
           /\ Signalled(tbl, S, sig)[i].at = tbl[i].at
           /\ Signalled(tbl, S, sig)[i].wants = tbl[i].wants
           /\ Signalled(tbl, S, sig)[i].session = tbl[i].session
           /\ Signalled(tbl, S, sig)[i].leader = tbl[i].leader
           /\ tbl[i].signal \subseteq Signalled(tbl, S, sig)[i].signal
           /\ i \in S /\ tbl[i].at \notin {"exiting", "dead"}
                 => sig \in Signalled(tbl, S, sig)[i].signal
           /\ i \notin S \/ tbl[i].at \in {"exiting", "dead"}
                 => Signalled(tbl, S, sig)[i] = tbl[i]
<1> DEFINE new == Signalled(tbl, S, sig)
<1>1. \A j \in Slot : tbl[j] \in TaskStruct
  OBVIOUS
<1>2. \A j \in Slot : [tbl[j] EXCEPT !.signal = @ \cup {sig}] \in TaskStruct
  BY <1>1 DEF TaskStruct, Sigs
<1>3. new \in [Slot -> TaskStruct]
  BY <1>1, <1>2 DEF Signalled
<1>4. new[i] = IF i \in S /\ tbl[i].at \notin {"exiting", "dead"}
               THEN [tbl[i] EXCEPT !.signal = @ \cup {sig}] ELSE tbl[i]
  BY DEF Signalled
<1> HIDE DEF new
<1>5. CASE i \in S /\ tbl[i].at \notin {"exiting", "dead"}
  <2>1. new[i] = [tbl[i] EXCEPT !.signal = @ \cup {sig}]
    BY <1>4, <1>5
  <2>2. /\ new[i].pid = tbl[i].pid /\ new[i].father = tbl[i].father
        /\ new[i].state = tbl[i].state /\ new[i].at = tbl[i].at
        /\ new[i].wants = tbl[i].wants /\ new[i].session = tbl[i].session
        /\ new[i].leader = tbl[i].leader /\ new[i].signal = tbl[i].signal \cup {sig}
    BY <1>1, <2>1 DEF TaskStruct
  <2> QED BY <1>3, <1>5, <2>2 DEF new
<1>6. CASE ~(i \in S /\ tbl[i].at \notin {"exiting", "dead"})
  <2>1. new[i] = tbl[i]
    BY <1>4, <1>6
  <2> QED BY <1>3, <1>6, <2>1 DEF new
<1> QED BY <1>5, <1>6

-----------------------------------------------------------------------------
\* The steps as the invariant sees them.  Slot i keeps its task.
Keeps(i) ==
    /\ task'[i].pid = task[i].pid
    /\ task[i] = NULL => task'[i] = NULL

\* A task that keeps its place, too; signals may come.
Stays(i) ==
    /\ Keeps(i) /\ task'[i].state = task[i].state /\ task'[i].at = task[i].at
    /\ task'[i].wants = task[i].wants /\ task[i].signal \subseteq task'[i].signal

\* A system call of t ends, or t returns to its program: it is still running.
Calm(t) ==
    /\ \A i \in Slot : Keeps(i) /\ task'[i].father = task[i].father
    /\ \A i \in Slot \ {t} : Stays(i)
    /\ task[t].at \in {"user", "ret"} /\ task'[t].at \in {"user", "ret"}
    /\ task'[t].state = task[t].state

LEMMA LiveIs ==
    ASSUME \A i \in Slot : Sound(i), NEW i \in Slot
    PROVE  i \in Live <=> task[i].pid # -1
BY DEF Live, Sound, NULL

LEMMA PidsKept ==
    ASSUME Table, \A i \in Slot : Sound(i)',
           \A i \in Slot : task'[i].pid = -1 \/ task'[i].pid = task[i].pid
    PROVE  PidsUnique'
<1> SUFFICES ASSUME NEW i \in Live', NEW j \in Live', task'[i].pid = task'[j].pid PROVE i = j
  BY DEF PidsUnique
<1>1. i \in Slot /\ j \in Slot
  BY DEF Live
<1>2. task'[i].pid # -1 /\ task'[j].pid # -1
  BY <1>1 DEF Live, Sound, NULL
<1>3. task[i].pid = task[j].pid /\ i \in Live /\ j \in Live
  BY <1>1, <1>2, LiveIs DEF Table
<1> QED BY <1>3 DEF Table, PidsUnique

LEMMA CalmTable ==
    ASSUME Table, NEW t \in Slot, Calm(t), TypeOK'
    PROVE  Table'
<1>1. ASSUME NEW i \in Slot PROVE Sound(i)'
  <2>1. Sound(i) /\ Keeps(i)
    BY DEF Table, Calm
  <2>2. CASE i # t
    BY <2>1, <2>2 DEF Sound, Calm, Stays, Keeps, NULL
  <2>3. CASE i = t
    BY <2>1, <2>3 DEF Sound, Calm, Keeps, NULL
  <2> QED BY <2>2, <2>3
<1>2. PidsUnique'
  BY <1>1, PidsKept DEF Calm, Keeps
<1> QED BY <1>1, <1>2 DEF Table

-----------------------------------------------------------------------------
\* The calm steps.
LEMMA TaskType ==
    ASSUME TypeOK, NEW i \in Slot
    PROVE  task[i] \in TaskStruct /\ task \in [Slot -> TaskStruct]
BY DEF TypeOK

\* Whoever can run has a slot.
LEMMA AtLive ==
    ASSUME Table, NEW t \in Slot, NEW where \in {"user", "ret", "wait", "exiting"}, At(t, where)
    PROVE  t # 0 /\ task[t].at = where /\ task[t] # NULL /\ task[t].pid \in Pid
<1>1. t # 0 /\ task[t].at = where
  BY DEF At
<1>2. Sound(t) /\ task[t] \in TaskStruct
  BY TaskType DEF Table
<1>3. task[t] # NULL
  BY <1>1 DEF NULL
<1>4. task[t].pid \in -1 .. MaxPid /\ task[t].pid \notin {-1, 0}
  BY <1>1, <1>2, <1>3 DEF Sound, TaskStruct
<1> QED BY <1>1, <1>3, <1>4, ProcessAssumption DEF Pid

LEMMA KillIsCalm ==
    ASSUME Table, NEW t \in Slot, NEW S, NEW sig \in Signals, Kill(t, S, sig)
    PROVE  /\ Calm(t) /\ TypeOK'
           /\ \A i \in Slot : /\ task'[i].session = task[i].session
                              /\ task'[i].leader = task[i].leader
                              /\ i \notin S => task'[i].signal = task[i].signal
<1>0. PICK tbl : tbl = Signalled(task, S, sig)
  OBVIOUS
<1>1. task \in [Slot -> TaskStruct] /\ sig \in Sigs /\ last_pid' = last_pid
  BY DEF Table, TypeOK, Sigs, Kill
<1>2. task[t].at = "user" /\ task[t] # NULL /\ task' = [tbl EXCEPT ![t].at = "ret"]
  BY <1>0, AtLive DEF Kill
<1>3. tbl \in [Slot -> TaskStruct]
  <2>1. t \in Slot
    OBVIOUS
  <2> QED BY <1>0, <1>1, <2>1, SignalledIs
<1>4. ASSUME NEW i \in Slot
      PROVE  /\ tbl[i].pid = task[i].pid /\ tbl[i].father = task[i].father
             /\ tbl[i].state = task[i].state /\ tbl[i].at = task[i].at
             /\ tbl[i].wants = task[i].wants
             /\ task[i].signal \subseteq tbl[i].signal
             /\ tbl[i].session = task[i].session /\ tbl[i].leader = task[i].leader
             /\ i \notin S => tbl[i] = task[i]
             /\ task[i] = NULL => tbl[i] = NULL
  <2>1. task[i] = NULL => task[i].at = "dead"
    BY DEF NULL
  <2> QED BY <1>0, <1>1, <2>1, SignalledIs
<1>5. /\ task' \in [Slot -> TaskStruct]
      /\ \A i \in Slot \ {t} : task'[i] = tbl[i]
      /\ task'[t].at = "ret" /\ task'[t].pid = tbl[t].pid /\ task'[t].father = tbl[t].father
      /\ task'[t].state = tbl[t].state /\ task'[t].signal = tbl[t].signal
      /\ task'[t].session = tbl[t].session /\ task'[t].leader = tbl[t].leader
  BY <1>2, <1>3 DEF TaskStruct
<1>6. Calm(t)
  BY <1>2, <1>4, <1>5 DEF Calm, Keeps, Stays
<1>7. \A i \in Slot : /\ task'[i].session = task[i].session
                      /\ task'[i].leader = task[i].leader
                      /\ i \notin S => task'[i].signal = task[i].signal
  BY <1>4, <1>5
<1> QED BY <1>1, <1>5, <1>6, <1>7 DEF TypeOK, Table

\* fork without a child, and the way back to the program.
LEMMA ReturnIsCalm ==
    ASSUME Table, NEW t \in Slot, fork_fails(t) \/ ret_from_sys_call(t)
    PROVE  /\ Calm(t) /\ task' \in [Slot -> TaskStruct]
           /\ \A i \in Slot : /\ task'[i].session = task[i].session
                              /\ task'[i].leader = task[i].leader
                              /\ task'[i].signal = task[i].signal
<1>1. task \in [Slot -> TaskStruct]
  BY DEF Table, TypeOK
<1>2. task[t].at \in {"user", "ret"} /\ task[t] # NULL
  BY AtLive DEF fork_fails, ret_from_sys_call
<1>3. PICK place \in {"user", "ret"} : task' = [task EXCEPT ![t].at = place]
  BY DEF fork_fails, ret_from_sys_call
<1>4. /\ task' \in [Slot -> TaskStruct]
      /\ \A i \in Slot \ {t} : task'[i] = task[i]
      /\ task'[t].at = place /\ task'[t].pid = task[t].pid /\ task'[t].father = task[t].father
      /\ task'[t].state = task[t].state /\ task'[t].signal = task[t].signal
      /\ task'[t].session = task[t].session /\ task'[t].leader = task[t].leader
  BY <1>1, <1>3 DEF TaskStruct
<1>5. Calm(t)
  BY <1>2, <1>4 DEF Calm, Keeps, Stays
<1> QED BY <1>4, <1>5

LEMMA IgnoreIsCalm ==
    ASSUME Table, NEW t \in Slot, task[t].at \in {"user", "ret"}, task[t] # NULL, NEW sig,
           task' = [task EXCEPT ![t].signal = @ \ {sig}, ![t].at = "user"]
    PROVE  /\ Calm(t) /\ task' \in [Slot -> TaskStruct]
           /\ \A i \in Slot : /\ task'[i].session = task[i].session
                              /\ task'[i].leader = task[i].leader
                              /\ task'[i].signal \subseteq task[i].signal
<1>1. task \in [Slot -> TaskStruct]
  BY DEF Table, TypeOK
<1>4. /\ task' \in [Slot -> TaskStruct]
      /\ \A i \in Slot \ {t} : task'[i] = task[i]
      /\ task'[t].at = "user" /\ task'[t].pid = task[t].pid /\ task'[t].father = task[t].father
      /\ task'[t].state = task[t].state /\ task'[t].signal = task[t].signal \ {sig}
      /\ task'[t].session = task[t].session /\ task'[t].leader = task[t].leader
  BY <1>1, ZenonT(40) DEF TaskStruct
<1>5. Calm(t)
  BY <1>4 DEF Calm, Keeps, Stays
<1> QED BY <1>4, <1>5

LEMMA SetpgidIsCalm ==
    ASSUME Table, NEW t \in Slot, sys_setpgid(t)
    PROVE  /\ Calm(t) /\ task' \in [Slot -> TaskStruct]
           /\ \A i \in Slot : /\ task'[i].session = task[i].session
                              /\ task'[i].leader = task[i].leader
                              /\ task'[i].signal = task[i].signal
<1>1. task \in [Slot -> TaskStruct]
  BY DEF Table, TypeOK
<1>2. task[t].at = "user" /\ task[t] # NULL
  BY AtLive DEF sys_setpgid
<1>3. PICK k \in Live, g \in Groups : task' = [task EXCEPT ![k].pgrp = g, ![t].at = "ret"]
  BY DEF sys_setpgid
<1>4. k \in Slot /\ task[k] # NULL /\ g \in -1 .. MaxPid
  BY <1>3, ProcessAssumption DEF Live
<1>5. /\ task' \in [Slot -> TaskStruct]
      /\ \A i \in Slot \ {t, k} : task'[i] = task[i]
      /\ task'[t].at = "ret" /\ (k # t => task'[k].at = task[k].at)
  BY <1>1, <1>3, <1>4 DEF TaskStruct
<1>6. \A i \in Slot :
         /\ task'[i].pid = task[i].pid /\ task'[i].father = task[i].father
         /\ task'[i].state = task[i].state /\ task'[i].signal = task[i].signal
         /\ task'[i].session = task[i].session /\ task'[i].leader = task[i].leader
         /\ task'[i].wants = task[i].wants
  BY <1>1, <1>3, <1>4 DEF TaskStruct
<1>7. Calm(t)
  BY <1>2, <1>4, <1>5, <1>6 DEF Calm, Keeps, Stays
<1> QED BY <1>5, <1>6, <1>7

LEMMA SetsidIsCalm ==
    ASSUME Table, NEW t \in Slot, sys_setsid(t)
    PROVE  /\ Calm(t) /\ task' \in [Slot -> TaskStruct] /\ task'[t].session # 0
           /\ \A i \in Slot \ {t} : task'[i] = task[i]
           /\ task'[t].signal = task[t].signal
<1>1. task \in [Slot -> TaskStruct]
  BY DEF Table, TypeOK
<1>2. task[t].at = "user" /\ task[t] # NULL /\ task[t].pid \in Pid
  BY AtLive DEF sys_setsid
<1>3. task' = [task EXCEPT ![t].leader = TRUE, ![t].session = task[t].pid,
                           ![t].pgrp = task[t].pid, ![t].at = "ret"]
  BY DEF sys_setsid
<1>4. task[t].pid \in -1 .. MaxPid /\ task[t].pid # 0
  BY <1>2, ProcessAssumption DEF Pid
<1>s. PICK new : new = [task[t] EXCEPT !.leader = TRUE, !.session = task[t].pid,
                                       !.pgrp = task[t].pid, !.at = "ret"]
  OBVIOUS
<1>n. task' = [task EXCEPT ![t] = new]
  BY <1>1, <1>3, <1>s
<1>f. /\ new \in TaskStruct
      /\ new.at = "ret" /\ new.pid = task[t].pid /\ new.father = task[t].father
      /\ new.state = task[t].state /\ new.signal = task[t].signal
      /\ new.session = task[t].pid
  BY <1>1, <1>4, <1>s, ZenonT(40) DEF TaskStruct
<1>5. /\ task' \in [Slot -> TaskStruct]
      /\ \A i \in Slot \ {t} : task'[i] = task[i]
      /\ task'[t] = new
  BY <1>1, <1>n, <1>f
<1>6. Calm(t)
  BY <1>2, <1>5, <1>f DEF Calm, Keeps, Stays
<1> QED BY <1>4, <1>5, <1>f, <1>6

-----------------------------------------------------------------------------
\* fork: a free slot and a pid that nobody has.
LEMMA ForkIs ==
    ASSUME Table, NEW t \in Slot, sys_fork(t)
    PROVE  \E nr \in Slot \ {0, t} :
              /\ task[nr] = NULL /\ last_pid' \in Pid /\ \A j \in Live : task[j].pid # last_pid'
              /\ task[t].at = "user" /\ task[t].pid \in Pid
              /\ task' \in [Slot -> TaskStruct] /\ \A i \in Slot \ {t, nr} : task'[i] = task[i]
              /\ task'[t].at = "ret" /\ task'[t].pid = task[t].pid
              /\ task'[t].father = task[t].father /\ task'[t].state = task[t].state
              /\ task'[t].signal = task[t].signal /\ task'[t].session = task[t].session
              /\ task'[t].leader = task[t].leader
              /\ task'[nr].pid = last_pid' /\ task'[nr].father = task[t].pid
              /\ task'[nr].state = task[t].state /\ task'[nr].at = "user" /\ ~task'[nr].leader
<1>1. task \in [Slot -> TaskStruct]
  BY DEF Table, TypeOK
<1>2. task[t].at = "user" /\ task[t] # NULL /\ task[t].pid \in Pid
  BY AtLive DEF sys_fork
<1>3. last_pid' \in Pid /\ \A j \in Live : task[j].pid # last_pid'
  BY DEF sys_fork, NewPid, Lowest
<1>4. PICK nr \in FreeSlot : copy_process(t, nr, last_pid')
  BY DEF sys_fork
<1>5. nr \in Slot \ {0} /\ task[nr] = NULL /\ nr # t
  BY <1>2 DEF FreeSlot, Lowest, Live
<1>6. PICK child : child = [task[t] EXCEPT !.pid = last_pid', !.father = task[t].pid,
                                           !.signal = {}, !.leader = FALSE, !.at = "user"]
  OBVIOUS
<1>7. PICK parent : parent = [task[t] EXCEPT !.at = "ret"]
  OBVIOUS
<1>8. task' = [task EXCEPT ![t] = parent, ![nr] = child]
  BY <1>1, <1>4, <1>5, <1>6, <1>7 DEF copy_process
<1>9. /\ parent \in TaskStruct /\ parent.at = "ret" /\ parent.pid = task[t].pid
      /\ parent.father = task[t].father /\ parent.state = task[t].state
      /\ parent.signal = task[t].signal /\ parent.session = task[t].session
      /\ parent.leader = task[t].leader
  BY <1>1, <1>7 DEF TaskStruct
<1>10. last_pid' \in -1 .. MaxPid /\ task[t].pid \in -1 .. MaxPid
  BY <1>2, <1>3, ProcessAssumption DEF Pid
<1>11. /\ child \in TaskStruct /\ child.pid = last_pid' /\ child.father = task[t].pid
       /\ child.state = task[t].state /\ child.at = "user" /\ ~child.leader
  BY <1>1, <1>6, <1>10, ZenonT(40) DEF TaskStruct
<1>12. /\ task' \in [Slot -> TaskStruct] /\ \A i \in Slot \ {t, nr} : task'[i] = task[i]
       /\ task'[t] = parent /\ task'[nr] = child
  BY <1>1, <1>5, <1>8, <1>9, <1>11
<1> QED BY <1>2, <1>3, <1>5, <1>9, <1>11, <1>12

\* exit: the children go to init, which is told if one of them is dead.
LEMMA ReparentIs ==
    ASSUME Table, NEW t \in Slot, task[t] # NULL, NEW tbl, tbl = Reparent(t)
    PROVE  /\ tbl \in [Slot -> TaskStruct]
           /\ \A i \in Slot :
                /\ tbl[i].pid = task[i].pid /\ tbl[i].state = task[i].state
                /\ tbl[i].at = task[i].at /\ tbl[i].wants = task[i].wants
                /\ tbl[i].session = task[i].session /\ tbl[i].leader = task[i].leader
                /\ tbl[i].father = IF i \in Children(task[t].pid) THEN 1 ELSE task[i].father
                /\ task[i].signal \subseteq tbl[i].signal
                /\ tbl[i].signal \subseteq task[i].signal \cup {SIGCHLD}
                /\ task[i] = NULL => tbl[i] = NULL
           /\ (\E i \in Children(task[t].pid) : task[i].state = "zombie")
                 /\ task[1].at \notin {"exiting", "dead"} => SIGCHLD \in tbl[1].signal
<1>1. task \in [Slot -> TaskStruct] /\ 1 \in Slot /\ SIGCHLD \in Sigs /\ 1 \in -1 .. MaxPid
  BY ProcessAssumption DEF Table, TypeOK, Slot, Sigs
<1>2. PICK kids : kids = Children(task[t].pid)
  OBVIOUS
<1>3. kids \subseteq Slot /\ \A i \in kids : task[i] # NULL
  BY <1>2 DEF Children, Live
<1>4. PICK moved : moved = [i \in Slot |-> IF i \in kids THEN [task[i] EXCEPT !.father = 1]
                                           ELSE task[i]]
  OBVIOUS
<1>5. ASSUME NEW i \in Slot
      PROVE  /\ moved[i] \in TaskStruct
             /\ moved[i].pid = task[i].pid /\ moved[i].state = task[i].state
             /\ moved[i].at = task[i].at /\ moved[i].wants = task[i].wants
             /\ moved[i].session = task[i].session /\ moved[i].leader = task[i].leader
             /\ moved[i].father = IF i \in kids THEN 1 ELSE task[i].father
             /\ moved[i].signal = task[i].signal
             /\ task[i] = NULL => moved[i] = NULL
  <2>1. CASE i \in kids
    <3>1. moved[i] = [task[i] EXCEPT !.father = 1] /\ task[i] \in TaskStruct
      BY <1>1, <1>4, <2>1
    <3> QED BY <1>1, <1>3, <2>1, <3>1 DEF TaskStruct
  <2>2. CASE i \notin kids
    BY <1>1, <1>4, <2>2
  <2> QED BY <2>1, <2>2
<1>6. moved \in [Slot -> TaskStruct]
  BY <1>4, <1>5
<1>7. tbl = IF \E i \in kids : task[i].state = "zombie" THEN Signalled(moved, {1}, SIGCHLD)
            ELSE moved
  BY <1>2, <1>4 DEF Reparent
<1>8. CASE ~\E i \in kids : task[i].state = "zombie"
  BY <1>2, <1>5, <1>6, <1>7, <1>8
<1>9. CASE \E i \in kids : task[i].state = "zombie"
  <2>1. tbl = Signalled(moved, {1}, SIGCHLD)
    BY <1>7, <1>9
  <2>2. tbl \in [Slot -> TaskStruct]
    BY <1>1, <1>6, <2>1, SignalledIs
  <2>3. ASSUME NEW i \in Slot
        PROVE  /\ tbl[i].pid = moved[i].pid /\ tbl[i].state = moved[i].state
               /\ tbl[i].at = moved[i].at /\ tbl[i].wants = moved[i].wants
               /\ tbl[i].session = moved[i].session /\ tbl[i].leader = moved[i].leader
               /\ tbl[i].father = moved[i].father
               /\ moved[i].signal \subseteq tbl[i].signal
               /\ i = 1 /\ moved[i].at \notin {"exiting", "dead"} => SIGCHLD \in tbl[i].signal
               /\ moved[i].at \in {"exiting", "dead"} => tbl[i] = moved[i]
    BY <1>1, <1>6, <2>1, SignalledIs
  <2>4. ASSUME NEW i \in Slot
        PROVE  tbl[i].signal \subseteq moved[i].signal \cup {SIGCHLD}
    <3>1. tbl[i] = IF i \in {1} /\ moved[i].at \notin {"exiting", "dead"}
                   THEN [moved[i] EXCEPT !.signal = @ \cup {SIGCHLD}] ELSE moved[i]
      BY <2>1 DEF Signalled
    <3> QED BY <1>5, <3>1 DEF TaskStruct
  <2>5. ASSUME NEW i \in Slot, task[i] = NULL PROVE tbl[i] = NULL
    <3>1. moved[i] = NULL /\ moved[i].at = "dead"
      BY <1>5, <2>5 DEF NULL
    <3> QED BY <2>3, <3>1
  <2> QED BY <1>1, <1>2, <1>5, <2>2, <2>3, <2>4, <2>5
<1> QED BY <1>8, <1>9

Adopted(t, i) == IF i \in Children(task[t].pid) THEN 1 ELSE task[i].father

LEMMA ExitIs ==
    ASSUME Table, NEW t \in Slot, task[t] # NULL, do_exit(t)
    PROVE  /\ task' \in [Slot -> TaskStruct]
           /\ \A i \in Slot :
                /\ Keeps(i) /\ task'[i].father = Adopted(t, i)
                /\ task'[i].session = task[i].session /\ task'[i].leader = task[i].leader
           /\ \A i \in Slot \ {t} : /\ Stays(i)
                                    /\ task'[i].signal \subseteq task[i].signal \cup {SIGCHLD}
           /\ task'[t].at = "exiting" /\ task'[t].state = "running"
           /\ (\E i \in Children(task[t].pid) : task[i].state = "zombie")
                 /\ t # 1 /\ task[1].at \notin {"exiting", "dead"} => SIGCHLD \in task'[1].signal
<1>1. PICK tbl : tbl = Reparent(t)
  OBVIOUS
<1>2. /\ tbl \in [Slot -> TaskStruct]
      /\ \A i \in Slot :
            /\ tbl[i].pid = task[i].pid /\ tbl[i].state = task[i].state
            /\ tbl[i].at = task[i].at /\ tbl[i].wants = task[i].wants
            /\ tbl[i].session = task[i].session /\ tbl[i].leader = task[i].leader
            /\ tbl[i].father = Adopted(t, i)
            /\ task[i].signal \subseteq tbl[i].signal
            /\ tbl[i].signal \subseteq task[i].signal \cup {SIGCHLD}
            /\ task[i] = NULL => tbl[i] = NULL
      /\ (\E i \in Children(task[t].pid) : task[i].state = "zombie")
            /\ task[1].at \notin {"exiting", "dead"} => SIGCHLD \in tbl[1].signal
  BY <1>1, ReparentIs DEF Adopted
<1>3. PICK new : new = [tbl[t] EXCEPT !.at = "exiting", !.state = "running", !.signal = {}]
  OBVIOUS
<1>4. task' = [tbl EXCEPT ![t] = new]
  BY <1>1, <1>2, <1>3 DEF do_exit
<1>5. /\ new \in TaskStruct /\ new.at = "exiting" /\ new.state = "running"
      /\ new.pid = tbl[t].pid /\ new.father = tbl[t].father
      /\ new.session = tbl[t].session /\ new.leader = tbl[t].leader
  <2>1. tbl[t] \in TaskStruct
    BY <1>2
  <2> QED BY <1>3, <2>1 DEF TaskStruct
<1>6. /\ task' \in [Slot -> TaskStruct] /\ task'[t] = new
      /\ \A i \in Slot \ {t} : task'[i] = tbl[i]
  BY <1>2, <1>4, <1>5
<1>7. \A i \in Slot :
         /\ Keeps(i) /\ task'[i].father = Adopted(t, i)
         /\ task'[i].session = task[i].session /\ task'[i].leader = task[i].leader
  BY <1>2, <1>5, <1>6 DEF Keeps
<1>8. \A i \in Slot \ {t} : /\ Stays(i)
                            /\ task'[i].signal \subseteq task[i].signal \cup {SIGCHLD}
  BY <1>2, <1>6, <1>7 DEF Stays
<1>9. 1 \in Slot
  BY ProcessAssumption DEF Slot
<1> QED BY <1>2, <1>5, <1>6, <1>7, <1>8, <1>9

LEMMA ExitTable ==
    ASSUME Table, NEW t \in Slot, task[t] # NULL, do_exit(t), last_pid' = last_pid
    PROVE  Table'
<1>1. /\ task' \in [Slot -> TaskStruct] /\ \A i \in Slot : Keeps(i)
      /\ \A i \in Slot \ {t} : Stays(i)
      /\ task'[t].at = "exiting" /\ task'[t].state = "running"
  BY ExitIs
<1>2. TypeOK'
  BY <1>1 DEF TypeOK, Table
<1>3. ASSUME NEW i \in Slot PROVE Sound(i)'
  <2>1. Sound(i) /\ Keeps(i)
    BY <1>1 DEF Table
  <2>2. CASE i # t
    BY <1>1, <2>1, <2>2 DEF Sound, Stays, Keeps, NULL
  <2>3. CASE i = t
    <3>1. task[t].pid # -1
      BY <2>1, <2>3 DEF Sound
    <3> QED BY <1>1, <2>1, <2>3, <3>1 DEF Sound, Keeps
  <2> QED BY <2>2, <2>3
<1>4. PidsUnique'
  BY <1>1, <1>3, PidsKept DEF Keeps
<1> QED BY <1>2, <1>3, <1>4 DEF Table

\* The end of do_exit.  The signals that come with it reach no free slot.
LEMMA HangupIs ==
    ASSUME Table, NEW t \in Slot, NEW tbl, tbl = kill_session(task, t)
    PROVE  /\ tbl \in [Slot -> TaskStruct]
           /\ \A i \in Slot :
                /\ tbl[i].pid = task[i].pid /\ tbl[i].father = task[i].father
                /\ tbl[i].state = task[i].state
                /\ tbl[i].at = task[i].at /\ tbl[i].wants = task[i].wants
                /\ tbl[i].session = task[i].session /\ tbl[i].leader = task[i].leader
                /\ task[i].signal \subseteq tbl[i].signal
                /\ ~task[t].leader \/ task[i].session # task[t].session => tbl[i] = task[i]
                /\ task[i] = NULL => tbl[i] = NULL
<1>1. task \in [Slot -> TaskStruct] /\ SIGHUP \in Sigs
  BY DEF Table, TypeOK, Sigs
<1>2. CASE ~task[t].leader
  BY <1>1, <1>2 DEF kill_session
<1>3. CASE task[t].leader
  <2>1. PICK S : S = {i \in User : task[i].session = task[t].session}
    OBVIOUS
  <2>2. tbl = Signalled(task, S, SIGHUP)
    BY <1>3, <2>1 DEF kill_session
  <2>3. tbl \in [Slot -> TaskStruct]
    BY <1>1, <2>2, SignalledIs
  <2>4. ASSUME NEW i \in Slot
        PROVE  /\ tbl[i].pid = task[i].pid /\ tbl[i].father = task[i].father
               /\ tbl[i].state = task[i].state
               /\ tbl[i].at = task[i].at /\ tbl[i].wants = task[i].wants
               /\ tbl[i].session = task[i].session /\ tbl[i].leader = task[i].leader
               /\ task[i].signal \subseteq tbl[i].signal
               /\ i \notin S \/ task[i].at \in {"exiting", "dead"} => tbl[i] = task[i]
    BY <1>1, <2>2, SignalledIs
  <2>5. \A i \in Slot : task[i] = NULL => task[i].at = "dead"
    BY DEF NULL
  <2> QED BY <1>3, <2>1, <2>3, <2>4, <2>5
<1> QED BY <1>2, <1>3

LEMMA EndIs ==
    ASSUME Table, NEW t \in Slot, exit_ends(t), NEW fathers,
           fathers = {i \in Live : task[t].father # 0 /\ task[i].pid = task[t].father}
    PROVE  /\ task' \in [Slot -> TaskStruct] /\ last_pid' = last_pid
           /\ task[t].at = "exiting" /\ task[t].pid \in Pid
           /\ \A i \in Slot \ {t} : /\ Stays(i) /\ task'[i].father = task[i].father
                                    /\ task'[i].session = task[i].session
                                    /\ task'[i].leader = task[i].leader
           /\ \A i \in Slot \ {t} : i \notin Lowest(fathers)
                 /\ (~task[t].leader \/ task[i].session # task[t].session) => task'[i] = task[i]
           /\ \A i \in Slot \ {t} : (~task[t].leader \/ task[i].session # task[t].session)
                 => task'[i].signal \subseteq task[i].signal \cup {SIGCHLD}
           /\ \A i \in Lowest(fathers) : task[i].at \notin {"exiting", "dead"}
                                            => SIGCHLD \in task'[i].signal
           /\ fathers = {} => task'[t] = NULL
           /\ fathers # {} => /\ task'[t].pid = task[t].pid /\ task'[t].father = task[t].father
                              /\ task'[t].state = "zombie" /\ task'[t].at = "dead"
                              /\ task'[t].session = task[t].session
                              /\ task'[t].leader = task[t].leader
<1>0. SIGCHLD \in Sigs /\ last_pid' = last_pid
  BY DEF Sigs, exit_ends
<1>1. task[t].at = "exiting" /\ task[t] # NULL /\ task[t].pid \in Pid
  BY AtLive DEF exit_ends
<1>2. PICK tbl : tbl = kill_session(task, t)
  OBVIOUS
<1>3. /\ tbl \in [Slot -> TaskStruct]
      /\ \A i \in Slot :
            /\ tbl[i].pid = task[i].pid /\ tbl[i].father = task[i].father
            /\ tbl[i].state = task[i].state
            /\ tbl[i].at = task[i].at /\ tbl[i].wants = task[i].wants
            /\ tbl[i].session = task[i].session /\ tbl[i].leader = task[i].leader
            /\ task[i].signal \subseteq tbl[i].signal
            /\ ~task[t].leader \/ task[i].session # task[t].session => tbl[i] = task[i]
            /\ task[i] = NULL => tbl[i] = NULL
  BY <1>2, HangupIs
<1>4. PICK new : new = [tbl[t] EXCEPT !.state = "zombie", !.at = "dead"]
  OBVIOUS
<1>5. PICK zombie : zombie = [tbl EXCEPT ![t] = new]
  OBVIOUS
<1>6. task' = IF fathers # {} THEN Signalled(zombie, Lowest(fathers), SIGCHLD)
              ELSE [zombie EXCEPT ![t] = NULL]
  <2>1. zombie = [kill_session(task, t) EXCEPT ![t].state = "zombie", ![t].at = "dead"]
    BY <1>2, <1>3, <1>4, <1>5
  <2> QED BY <2>1 DEF exit_ends
<1>7. /\ new \in TaskStruct /\ new.state = "zombie" /\ new.at = "dead" /\ new.pid = tbl[t].pid
      /\ new.father = tbl[t].father /\ new.session = tbl[t].session
      /\ new.leader = tbl[t].leader
  <2>1. tbl[t] \in TaskStruct
    BY <1>3
  <2> QED BY <1>4, <2>1 DEF TaskStruct
<1>8. /\ zombie \in [Slot -> TaskStruct] /\ zombie[t] = new
      /\ \A i \in Slot \ {t} : zombie[i] = tbl[i]
  BY <1>3, <1>5, <1>7
<1>9. CASE fathers = {}
  <2>1. NULL \in TaskStruct
    BY ProcessAssumption DEF NULL, TaskStruct
  <2>2. /\ task' \in [Slot -> TaskStruct] /\ task'[t] = NULL
        /\ \A i \in Slot \ {t} : task'[i] = tbl[i]
    BY <1>6, <1>8, <1>9, <2>1
  <2>3. \A i \in Slot \ {t} : Stays(i)
    BY <1>3, <2>2 DEF Stays, Keeps
  <2>4. Lowest(fathers) = {}
    BY <1>9 DEF Lowest
  <2>5. \A i \in Slot \ {t} : /\ task'[i].father = task[i].father
                              /\ task'[i].session = task[i].session
                              /\ task'[i].leader = task[i].leader
    BY <1>3, <2>2
  <2>6. \A i \in Slot \ {t} : (~task[t].leader \/ task[i].session # task[t].session)
                                => task'[i] = task[i]
    BY <1>3, <2>2
  <2> QED BY <1>0, <1>1, <1>9, <2>2, <2>3, <2>4, <2>5, <2>6
<1>10. CASE fathers # {}
  <2>1. task' = Signalled(zombie, Lowest(fathers), SIGCHLD)
    BY <1>6, <1>10
  <2>2. task' \in [Slot -> TaskStruct]
    BY <1>0, <1>8, <2>1, SignalledIs
  <2>3. ASSUME NEW i \in Slot
        PROVE  /\ task'[i].pid = zombie[i].pid /\ task'[i].father = zombie[i].father
               /\ task'[i].state = zombie[i].state
               /\ task'[i].at = zombie[i].at /\ task'[i].wants = zombie[i].wants
               /\ task'[i].session = zombie[i].session /\ task'[i].leader = zombie[i].leader
               /\ zombie[i].signal \subseteq task'[i].signal
               /\ i \in Lowest(fathers) /\ zombie[i].at \notin {"exiting", "dead"}
                     => SIGCHLD \in task'[i].signal
               /\ i \notin Lowest(fathers) \/ zombie[i].at \in {"exiting", "dead"}
                     => task'[i] = zombie[i]
    BY <1>0, <1>8, <2>1, SignalledIs
  <2>4. ASSUME NEW i \in Slot
        PROVE  task'[i].signal \subseteq zombie[i].signal \cup {SIGCHLD}
    <3>1. task'[i] = IF i \in Lowest(fathers) /\ zombie[i].at \notin {"exiting", "dead"}
                     THEN [zombie[i] EXCEPT !.signal = @ \cup {SIGCHLD}] ELSE zombie[i]
      BY <2>1 DEF Signalled
    <3>2. zombie[i] \in TaskStruct
      BY <1>8
    <3> QED BY <3>1, <3>2 DEF TaskStruct
  <2>5. ASSUME NEW i \in Slot \ {t}
        PROVE  Stays(i)
    <3>1. task[i] = NULL => task'[i] = NULL
      <4>1. task[i] = NULL => zombie[i] = NULL
        BY <1>3, <1>8
      <4>2. NULL.at = "dead"
        BY DEF NULL
      <4> QED BY <2>3, <4>1, <4>2
    <3>2. /\ zombie[i].pid = task[i].pid /\ zombie[i].state = task[i].state
          /\ zombie[i].at = task[i].at /\ zombie[i].wants = task[i].wants
          /\ task[i].signal \subseteq zombie[i].signal
      BY <1>3, <1>8
    <3>3. /\ task'[i].pid = zombie[i].pid /\ task'[i].state = zombie[i].state
          /\ task'[i].at = zombie[i].at /\ task'[i].wants = zombie[i].wants
          /\ zombie[i].signal \subseteq task'[i].signal
      BY <2>3
    <3> QED BY <3>1, <3>2, <3>3 DEF Stays, Keeps
  <2>6. \A i \in Lowest(fathers) : i \in Slot /\ (task[i].at \notin {"exiting", "dead"} => i # t)
    BY <1>1 DEF Lowest, Live
  <2>7. \A i \in Lowest(fathers) : task[i].at \notin {"exiting", "dead"}
                                      => SIGCHLD \in task'[i].signal
    BY <1>3, <1>8, <2>3, <2>6
  <2>8. \A i \in Slot \ {t} : /\ task'[i].father = task[i].father
                              /\ task'[i].session = task[i].session
                              /\ task'[i].leader = task[i].leader
    <3>1. \A i \in Slot \ {t} : /\ zombie[i].father = task[i].father
                                /\ zombie[i].session = task[i].session
                                /\ zombie[i].leader = task[i].leader
      BY <1>3, <1>8
    <3> QED BY <2>3, <3>1
  <2>9. \A i \in Slot \ {t} : (~task[t].leader \/ task[i].session # task[t].session)
           => /\ task'[i].signal \subseteq task[i].signal \cup {SIGCHLD}
              /\ i \notin Lowest(fathers) => task'[i] = task[i]
    BY <1>3, <1>8, <2>3, <2>4
  <2>10. /\ task'[t].pid = task[t].pid /\ task'[t].father = task[t].father
         /\ task'[t].state = "zombie" /\ task'[t].at = "dead"
         /\ task'[t].session = task[t].session /\ task'[t].leader = task[t].leader
    BY <1>3, <1>7, <1>8, <2>3
  <2> QED BY <1>0, <1>1, <1>10, <2>2, <2>5, <2>7, <2>8, <2>9, <2>10
<1> QED BY <1>9, <1>10

LEMMA EndTable ==
    ASSUME Table, NEW t \in Slot, exit_ends(t)
    PROVE  Table'
<1>0. PICK fathers : fathers = {i \in Live : task[t].father # 0 /\ task[i].pid = task[t].father}
  OBVIOUS
<1>1. /\ task' \in [Slot -> TaskStruct] /\ last_pid' = last_pid
      /\ task[t].at = "exiting" /\ task[t].pid \in Pid
      /\ \A i \in Slot \ {t} : Stays(i)
      /\ \/ task'[t] = NULL
         \/ task'[t].pid = task[t].pid /\ task'[t].state = "zombie" /\ task'[t].at = "dead"
  BY <1>0, EndIs
<1>2. TypeOK'
  BY <1>1 DEF TypeOK, Table
<1>3. t # 0 /\ task[t].pid \notin {-1, 0}
  BY <1>1, ProcessAssumption DEF Table, Sound, Pid
<1>4. ASSUME NEW i \in Slot PROVE Sound(i)'
  <2>1. Sound(i)
    BY DEF Table
  <2>2. CASE i # t
    BY <1>1, <2>1, <2>2 DEF Sound, Stays, Keeps, NULL
  <2>3. CASE i = t
    BY <1>1, <1>3, <2>1, <2>3 DEF Sound, NULL
  <2> QED BY <2>2, <2>3
<1>5. \A i \in Slot : task'[i].pid = -1 \/ task'[i].pid = task[i].pid
  BY <1>1 DEF Stays, Keeps, NULL
<1>6. PidsUnique'
  BY <1>4, <1>5, PidsKept
<1> QED BY <1>2, <1>4, <1>6 DEF Table

\* waitpid for one or any child.
LEMMA MatchesIs ==
    ASSUME NEW tbl, NEW t, NEW w \in Pid \cup {-1}, NEW i
    PROVE  Matches(tbl, t, w, i) <=> /\ i \notin {0, t} /\ tbl[i] # NULL
                                     /\ tbl[i].father = tbl[t].pid
                                     /\ w = -1 \/ tbl[i].pid = w
<1>1. CASE w = -1
  BY <1>1 DEF Matches
<1>2. CASE w \in Pid
  <2>1. w \in Int /\ w > 0 /\ w # -1 /\ w # 0 /\ ~(w < -1)
    BY <1>2, ProcessAssumption DEF Pid
  <2>2. (CASE w > 0   -> tbl[i].pid = w
           [] w = 0   -> tbl[i].pgrp = tbl[t].pgrp
           [] w = -1  -> TRUE
           [] w < -1  -> tbl[i].pgrp = -w) = (tbl[i].pid = w)
    BY <2>1
  <2> QED BY <2>1, <2>2 DEF Matches
<1> QED BY <1>1, <1>2

\* The scan reaps a zombie, returns without one, or sleeps when there is none.
Reaped(t) ==
    \E z \in Slot \ {0, t} :
        /\ task[z].state = "zombie" /\ task'[z] = NULL
        /\ \A i \in Slot \ {t, z} : task'[i] = task[i]
        /\ task'[t].at = "ret" /\ task'[t].state = "running"
Returned(t) ==
    /\ \A i \in Slot \ {t} : task'[i] = task[i]
    /\ task'[t].at = "ret" /\ task'[t].state = "running"
Sleeps(t, w) ==
    /\ \A i \in Slot \ {t} : task'[i] = task[i]
    /\ task'[t].at = "wait" /\ task'[t].state = "interruptible" /\ task'[t].wants = w
    /\ w \in Pid \cup {-1} =>
          \A z \in Slot \ {0, t} : task[z].father = task[t].pid /\ (w = -1 \/ task[z].pid = w)
                                      => task[z].state # "zombie"
Himself(t) ==
    /\ task'[t].pid = task[t].pid /\ task'[t].father = task[t].father
    /\ task'[t].session = task[t].session /\ task'[t].leader = task[t].leader
    /\ task'[t].signal \subseteq task[t].signal

LEMMA ScanIs ==
    ASSUME Table, NEW t \in Slot, NEW tbl \in [Slot -> TaskStruct],
           \A i \in Slot \ {t} : tbl[i] = task[i],
           tbl[t].pid = task[t].pid, tbl[t].father = task[t].father, tbl[t].state = "running",
           tbl[t].session = task[t].session, tbl[t].leader = task[t].leader,
           tbl[t].signal \subseteq task[t].signal,
           NEW w \in -MaxPid .. MaxPid, NEW nohang \in BOOLEAN, Scan(tbl, t, w, nohang)
    PROVE  /\ task' \in [Slot -> TaskStruct] /\ Himself(t)
           /\ Reaped(t) \/ Returned(t) \/ Sleeps(t, w)
<1>1. PICK kids : kids = {i \in Slot : Matches(tbl, t, w, i)}
  OBVIOUS
<1>2. PICK zombies : zombies = {i \in kids : tbl[i].state = "zombie"}
  OBVIOUS
<1>3. zombies \subseteq Slot \ {0, t} /\ \A z \in zombies : task[z].state = "zombie"
  BY <1>1, <1>2 DEF Matches
<1>4. \/ \E z \in Highest(zombies) : task' = [tbl EXCEPT ![z] = NULL, ![t].at = "ret"]
      \/ zombies = {} /\ task' = [tbl EXCEPT ![t].at = "ret"]
      \/ zombies = {} /\ task' = [tbl EXCEPT ![t].at = "wait", ![t].wants = w,
                                             ![t].state = "interruptible"]
  BY <1>1, <1>2 DEF Scan
<1>5. tbl[t] \in TaskStruct /\ NULL \in TaskStruct
  BY ProcessAssumption DEF NULL, TaskStruct
<1>6. PICK back : back = [tbl[t] EXCEPT !.at = "ret"]
  OBVIOUS
<1>7. /\ back \in TaskStruct /\ back.at = "ret" /\ back.state = "running"
      /\ back.pid = tbl[t].pid /\ back.father = tbl[t].father /\ back.signal = tbl[t].signal
      /\ back.session = tbl[t].session /\ back.leader = tbl[t].leader
  BY <1>5, <1>6 DEF TaskStruct
<1>8. CASE \E z \in Highest(zombies) : task' = [tbl EXCEPT ![z] = NULL, ![t].at = "ret"]
  <2>1. PICK z \in Highest(zombies) : task' = [tbl EXCEPT ![z] = NULL, ![t].at = "ret"]
    BY <1>8
  <2>2. z \in Slot \ {0, t} /\ task[z].state = "zombie"
    BY <1>3, <2>1 DEF Highest
  <2>3. task' = [tbl EXCEPT ![z] = NULL, ![t] = back]
    BY <1>6, <2>1, <2>2
  <2>4. /\ task' \in [Slot -> TaskStruct] /\ task'[t] = back /\ task'[z] = NULL
        /\ \A i \in Slot \ {t, z} : task'[i] = tbl[i]
    BY <1>5, <1>7, <2>2, <2>3
  <2> QED BY <1>7, <2>2, <2>4 DEF Reaped, Himself
<1>9. CASE task' = [tbl EXCEPT ![t].at = "ret"]
  <2>1. task' = [tbl EXCEPT ![t] = back]
    BY <1>6, <1>9
  <2>2. /\ task' \in [Slot -> TaskStruct] /\ task'[t] = back
        /\ \A i \in Slot \ {t} : task'[i] = tbl[i]
    BY <1>7, <2>1
  <2> QED BY <1>7, <2>2 DEF Returned, Himself
<1>10. CASE zombies = {} /\ task' = [tbl EXCEPT ![t].at = "wait", ![t].wants = w,
                                               ![t].state = "interruptible"]
  <2>1. PICK new : new = [tbl[t] EXCEPT !.at = "wait", !.wants = w, !.state = "interruptible"]
    OBVIOUS
  <2>2. task' = [tbl EXCEPT ![t] = new]
    BY <1>10, <2>1
  <2>3. /\ new \in TaskStruct /\ new.at = "wait" /\ new.state = "interruptible" /\ new.wants = w
        /\ new.pid = tbl[t].pid /\ new.father = tbl[t].father /\ new.signal = tbl[t].signal
        /\ new.session = tbl[t].session /\ new.leader = tbl[t].leader
    BY <1>5, <2>1 DEF TaskStruct
  <2>4. /\ task' \in [Slot -> TaskStruct] /\ task'[t] = new
        /\ \A i \in Slot \ {t} : task'[i] = tbl[i]
    BY <2>2, <2>3
  <2>5. ASSUME w \in Pid \cup {-1}, NEW z \in Slot \ {0, t}, task[z].father = task[t].pid,
               w = -1 \/ task[z].pid = w, task[z].state = "zombie"
        PROVE  FALSE
    <3>1. task[z] # NULL
      BY <2>5 DEF NULL
    <3>2. Matches(tbl, t, w, z)
      <4>1. tbl[z] = task[z] /\ tbl[t].pid = task[t].pid /\ z \notin {0, t}
        BY <2>5
      <4>2. tbl[z] # NULL /\ tbl[z].father = tbl[t].pid /\ (w = -1 \/ tbl[z].pid = w)
        BY <2>5, <3>1, <4>1
      <4> QED BY <2>5, <4>1, <4>2, MatchesIs
    <3> QED BY <1>1, <1>2, <1>10, <2>5, <3>2
  <2>6. Sleeps(t, w)
    BY <2>3, <2>4, <2>5 DEF Sleeps
  <2> QED BY <2>3, <2>4, <2>6 DEF Himself
<1> QED BY <1>4, <1>8, <1>9, <1>10

\* Both ways into the scan, and the way out of waitpid for another signal.
Waited(t) ==
    /\ task' \in [Slot -> TaskStruct] /\ last_pid' = last_pid /\ Himself(t)
    /\ task[t].at \in {"user", "wait"} /\ t # 0 /\ task[t] # NULL
    /\ Reaped(t) \/ Returned(t) \/ \E w \in -MaxPid .. MaxPid : Sleeps(t, w)

LEMMA WaitpidIs ==
    ASSUME Table, NEW t \in Slot, NEW w \in WaitArgs, NEW nohang \in BOOLEAN,
           sys_waitpid(t, w, nohang)
    PROVE  Waited(t)
<1>1. task \in [Slot -> TaskStruct] /\ Sound(t)
  BY DEF Table, TypeOK
<1>2. task[t].at = "user" /\ t # 0 /\ task[t] # NULL
  BY AtLive DEF sys_waitpid
<1>3. task[t].state = "running"
  BY <1>1, <1>2 DEF Sound
<1>4. w \in -MaxPid .. MaxPid
  BY ProcessAssumption DEF WaitArgs, Pid
<1>5. Scan(task, t, w, nohang) /\ last_pid' = last_pid
  BY DEF sys_waitpid
<1>6. task' \in [Slot -> TaskStruct] /\ Himself(t) /\ (Reaped(t) \/ Returned(t) \/ Sleeps(t, w))
  BY <1>1, <1>3, <1>4, <1>5, ScanIs
<1> QED BY <1>2, <1>4, <1>5, <1>6 DEF Waited

LEMMA WakesIs ==
    ASSUME Table, NEW t \in Slot, waitpid_wakes(t)
    PROVE  Waited(t)
<1>1. task \in [Slot -> TaskStruct] /\ Sound(t)
  BY DEF Table, TypeOK
<1>2. task[t].at = "wait" /\ t # 0 /\ task[t] # NULL
  BY AtLive DEF waitpid_wakes
<1>3. PICK rest : rest = task[t].signal \ {SIGCHLD}
  OBVIOUS
<1>4. PICK woken : woken = [task[t] EXCEPT !.signal = rest, !.state = "running", !.wants = -1]
  OBVIOUS
<1>5. PICK tbl : tbl = [task EXCEPT ![t] = woken]
  OBVIOUS
<1>6. tbl = [task EXCEPT ![t].signal = rest, ![t].state = "running", ![t].wants = -1]
  BY <1>1, <1>4, <1>5
<1>7. /\ \/ Scan(tbl, t, task[t].wants, FALSE)
         \/ task' = [tbl EXCEPT ![t].at = "ret"]
      /\ last_pid' = last_pid
  BY <1>3, <1>6 DEF waitpid_wakes
<1>8. /\ woken \in TaskStruct /\ woken.signal = rest /\ woken.state = "running"
      /\ woken.pid = task[t].pid /\ woken.father = task[t].father
      /\ woken.session = task[t].session /\ woken.leader = task[t].leader
  <2>1. task[t] \in TaskStruct /\ rest \in SUBSET (Signals \cup {SIGHUP, SIGCHLD})
    BY <1>1, <1>3 DEF TaskStruct
  <2>2. -1 \in -MaxPid .. MaxPid
    BY ProcessAssumption
  <2> QED BY <1>4, <2>1, <2>2 DEF TaskStruct
<1>9. /\ tbl \in [Slot -> TaskStruct] /\ tbl[t] = woken
      /\ \A i \in Slot \ {t} : tbl[i] = task[i]
  BY <1>1, <1>5, <1>8
<1>10. CASE Scan(tbl, t, task[t].wants, FALSE)
  <2>1. task[t].wants \in -MaxPid .. MaxPid
    BY <1>1 DEF TaskStruct
  <2>2. PICK w \in -MaxPid .. MaxPid : w = task[t].wants
    BY <2>1
  <2>3. /\ task' \in [Slot -> TaskStruct] /\ Himself(t)
        /\ Reaped(t) \/ Returned(t) \/ Sleeps(t, w)
    BY <1>3, <1>8, <1>9, <1>10, <2>2, ScanIs
  <2> QED BY <1>2, <1>7, <2>3 DEF Waited
<1>11. CASE task' = [tbl EXCEPT ![t].at = "ret"]
  <2>1. /\ task' \in [Slot -> TaskStruct] /\ \A i \in Slot \ {t} : task'[i] = tbl[i]
        /\ task'[t].at = "ret" /\ task'[t].state = woken.state /\ task'[t].pid = woken.pid
        /\ task'[t].father = woken.father /\ task'[t].session = woken.session
        /\ task'[t].leader = woken.leader /\ task'[t].signal = woken.signal
    BY <1>8, <1>9, <1>11 DEF TaskStruct
  <2>2. Returned(t) /\ Himself(t)
    BY <1>3, <1>8, <1>9, <2>1 DEF Returned, Himself
  <2> QED BY <1>2, <1>7, <2>1, <2>2 DEF Waited
<1> QED BY <1>7, <1>10, <1>11

LEMMA WaitedTable ==
    ASSUME Table, NEW t \in Slot, Waited(t)
    PROVE  Table'
<1>1. TypeOK'
  BY DEF Waited, Table, TypeOK
<1>2. task'[t].pid = task[t].pid /\ task[t].pid \notin {-1, 0} /\ t # 0
  BY DEF Waited, Himself, Table, Sound
<1>3. \/ task'[t].at = "ret" /\ task'[t].state = "running"
      \/ task'[t].at = "wait" /\ task'[t].state = "interruptible"
  BY DEF Waited, Reaped, Returned, Sleeps
<1>4. \A i \in Slot \ {t} : task'[i] = task[i] \/ (i # 0 /\ task'[i] = NULL)
  BY DEF Waited, Reaped, Returned, Sleeps
<1>5. ASSUME NEW i \in Slot PROVE Sound(i)'
  <2>1. Sound(i)
    BY DEF Table
  <2>2. CASE i # t
    BY <1>4, <2>1, <2>2 DEF Sound, NULL
  <2>3. CASE i = t
    BY <1>2, <1>3, <2>1, <2>3 DEF Sound
  <2> QED BY <2>2, <2>3
<1>6. \A i \in Slot : task'[i].pid = -1 \/ task'[i].pid = task[i].pid
  BY <1>2, <1>4 DEF NULL
<1>7. PidsUnique'
  BY <1>5, <1>6, PidsKept
<1> QED BY <1>1, <1>5, <1>7 DEF Table

LEMMA ForkTable ==
    ASSUME Table, NEW t \in Slot, sys_fork(t)
    PROVE  Table'
<1>1. PICK nr \in Slot \ {0, t} :
         /\ task[nr] = NULL /\ last_pid' \in Pid /\ \A j \in Live : task[j].pid # last_pid'
         /\ task[t].at = "user" /\ task[t].pid \in Pid
         /\ task' \in [Slot -> TaskStruct] /\ \A i \in Slot \ {t, nr} : task'[i] = task[i]
         /\ task'[t].at = "ret" /\ task'[t].pid = task[t].pid
         /\ task'[t].state = task[t].state
         /\ task'[nr].pid = last_pid'
         /\ task'[nr].state = task[t].state /\ task'[nr].at = "user"
  BY ForkIs
<1>2. TypeOK'
  BY <1>1 DEF TypeOK
<1>3. last_pid' \notin {-1, 0} /\ task[t].pid \notin {-1, 0}
  BY <1>1, ProcessAssumption DEF Pid
<1>4. task[t].state = "running" /\ t # 0
  BY <1>1, <1>3 DEF Table, Sound
<1>5. ASSUME NEW i \in Slot PROVE Sound(i)'
  <2>1. Sound(i)
    BY DEF Table
  <2>2. CASE i \notin {t, nr}
    BY <1>1, <2>1, <2>2 DEF Sound
  <2>3. CASE i = t
    BY <1>1, <1>3, <1>4, <2>1, <2>3 DEF Sound
  <2>4. CASE i = nr
    BY <1>1, <1>3, <1>4, <2>1, <2>4 DEF Sound
  <2> QED BY <2>2, <2>3, <2>4
<1>6. PidsUnique'
  <2> SUFFICES ASSUME NEW i \in Live', NEW j \in Live', task'[i].pid = task'[j].pid PROVE i = j
    BY DEF PidsUnique
  <2>1. i \in Slot /\ j \in Slot /\ task'[i].pid # -1 /\ task'[j].pid # -1
    BY <1>5 DEF Live, Sound, NULL
  <2>2. ASSUME NEW k \in Slot \ {nr}, task'[k].pid # -1
        PROVE  k \in Live /\ task'[k].pid = task[k].pid /\ task'[k].pid # last_pid'
    <3>1. task'[k].pid = task[k].pid
      BY <1>1
    <3>2. k \in Live
      BY <2>2, <3>1, LiveIs DEF Table
    <3> QED BY <1>1, <3>1, <3>2
  <2> QED BY <1>1, <2>1, <2>2 DEF Table, PidsUnique
<1> QED BY <1>2, <1>5, <1>6 DEF Table

\* Every step is one of the steps described above.  S: whom kill reaches.
Killing(t) == \E S \in SUBSET Slot, sig \in Signals :
                  /\ ~InitKillable => 1 \notin S
                  /\ Kill(t, S, sig)
Ignoring(t) ==
    /\ At(t, "ret") \/ At(t, "user")
    /\ \E sig : task' = [task EXCEPT ![t].signal = @ \ {sig}, ![t].at = "user"]
    /\ last_pid' = last_pid
Exiting(t) ==
    /\ At(t, "ret") \/ At(t, "user")
    /\ t # 1 \/ ~(task[1].signal \subseteq {SIGCHLD})
    /\ do_exit(t) /\ last_pid' = last_pid

LEMMA Steps ==
    ASSUME Table, Next
    PROVE  \E t \in Slot : \/ sys_fork(t) \/ fork_fails(t) \/ ret_from_sys_call(t) \/ Ignoring(t)
                           \/ Exiting(t) \/ exit_ends(t) \/ Waited(t) \/ Killing(t)
                           \/ sys_setpgid(t) \/ (t # 1 /\ sys_setsid(t))
<1>1. \A t \in Slot : do_signal(t) => Ignoring(t) \/ Exiting(t)
  BY DEF do_signal, Ignoring, Exiting, Lowest
<1>2. \A t \in Slot : InKernel(t) => \/ exit_ends(t) \/ Waited(t) \/ ret_from_sys_call(t)
                                     \/ Ignoring(t) \/ Exiting(t)
  BY <1>1, WakesIs DEF InKernel
<1>3. ASSUME NEW t \in Slot \ {1}, Program(t)
      PROVE  \/ Exiting(t) \/ Waited(t) \/ Killing(t) \/ sys_setpgid(t) \/ sys_setsid(t)
  <2>1. CASE sys_exit(t)
    BY <2>1 DEF sys_exit, Exiting
  <2>2. CASE \E w \in WaitArgs, nohang \in BOOLEAN : sys_waitpid(t, w, nohang)
    BY <2>2, WaitpidIs
  <2>3. ASSUME NEW S \in SUBSET Killable(User), NEW sig \in Signals, Kill(t, S, sig)
        PROVE  Killing(t)
    BY <2>3 DEF Killing, Killable, User, Live
  <2>4. ASSUME NEW sig \in Signals, sys_kill_pid(t, sig) \/ sys_kill_all(t, sig)
                                    \/ sys_kill_group(t, sig) \/ sys_kill_0(t, sig)
        PROVE  Killing(t)
    <3>1. \A S : Killable({i \in User : i \in S}) \subseteq Killable(User)
      BY DEF Killable
    <3>2. PICK S \in SUBSET Killable(User) : Kill(t, S, sig)
      BY <2>4 DEF sys_kill_pid, sys_kill_all, sys_kill_group, sys_kill_0, Killable
    <3> QED BY <2>3, <3>2
  <2> QED BY <1>3, <2>1, <2>2, <2>4 DEF Program
<1>4. init_waits => Waited(1)
  <2>1. 1 \in Slot /\ -1 \in WaitArgs /\ FALSE \in BOOLEAN
    BY ProcessAssumption DEF Slot, WaitArgs
  <2> QED BY <2>1, WaitpidIs DEF init_waits
<1>5. 1 \in Slot
  BY ProcessAssumption DEF Slot
<1> QED BY <1>2, <1>3, <1>4, <1>5 DEF Next

LEMMA NewPidType == NewPid \subseteq Pid
BY DEF NewPid, Lowest

LEMMA TableInit == Init => Table
<1> SUFFICES ASSUME Init PROVE Table
  OBVIOUS
<1>1. NULL \in TaskStruct /\ 0 \in Slot /\ 1 \in Slot
  BY ProcessAssumption DEF NULL, TaskStruct, Slot
<1>2. PICK first : first = [init_task EXCEPT !.pid = 1, !.father = 0]
  OBVIOUS
<1>r. 0 \in -1 .. MaxPid /\ 1 \in -1 .. MaxPid /\ NULL.leader = FALSE
  BY ProcessAssumption DEF NULL
<1>3. /\ init_task \in TaskStruct /\ init_task.pid = 0 /\ init_task.state = "running"
      /\ init_task.at = "user" /\ init_task.session = 0 /\ ~init_task.leader
  BY <1>1, <1>r DEF init_task, TaskStruct
<1>4. /\ first \in TaskStruct /\ first.pid = 1 /\ first.state = "running"
      /\ first.at = "user" /\ first.session = 0 /\ ~first.leader
  BY <1>2, <1>3, <1>r DEF TaskStruct
<1>5. /\ task[0] = init_task /\ task[1] = first /\ \A i \in Slot \ {0, 1} : task[i] = NULL
      /\ DOMAIN task = Slot /\ last_pid = 1
  BY <1>1, <1>2 DEF Init
<1>6. task \in [Slot -> TaskStruct]
  BY <1>1, <1>3, <1>4, <1>5 DEF Init
<1>7. TypeOK
  BY <1>5, <1>6, ProcessAssumption DEF TypeOK, Pid
<1>8. \A i \in Slot : Sound(i)
  <2>1. Sound(0)
    BY <1>3, <1>5 DEF Sound
  <2>2. Sound(1)
    BY <1>4, <1>5 DEF Sound
  <2>3. \A i \in Slot \ {0, 1} : Sound(i)
    BY <1>5 DEF Sound, NULL
  <2> QED BY <2>1, <2>2, <2>3
<1>9. PidsUnique
  BY <1>3, <1>4, <1>5 DEF PidsUnique, Live
<1> QED BY <1>7, <1>8, <1>9 DEF Table

LEMMA TableNext == Table /\ [Next]_vars => Table'
<1> SUFFICES ASSUME Table, [Next]_vars PROVE Table'
  OBVIOUS
<1>1. CASE Next
  <2>1. PICK t \in Slot : \/ sys_fork(t) \/ fork_fails(t) \/ ret_from_sys_call(t) \/ Ignoring(t)
                          \/ Exiting(t) \/ exit_ends(t) \/ Waited(t) \/ Killing(t)
                          \/ sys_setpgid(t) \/ sys_setsid(t)
    BY <1>1, Steps
  <2>2. CASE fork_fails(t) \/ ret_from_sys_call(t)
    <3>1. Calm(t) /\ task' \in [Slot -> TaskStruct]
      BY <2>2, ReturnIsCalm
    <3>2. last_pid' \in Pid
      BY <2>2, NewPidType DEF fork_fails, ret_from_sys_call, Table, TypeOK
    <3> QED BY <3>1, <3>2, CalmTable DEF TypeOK
  <2>3. CASE Ignoring(t)
    <3>1. task[t].at \in {"user", "ret"} /\ task[t] # NULL
      BY <2>3, AtLive DEF Ignoring
    <3>2. Calm(t) /\ task' \in [Slot -> TaskStruct]
      BY <2>3, <3>1, IgnoreIsCalm DEF Ignoring
    <3> QED BY <2>3, <3>2, CalmTable DEF TypeOK, Ignoring, Table
  <2>4. CASE Exiting(t)
    BY <2>4, AtLive, ExitTable DEF Exiting
  <2>5. CASE Killing(t)
    BY <2>5, KillIsCalm, CalmTable DEF Killing
  <2>6. CASE sys_setpgid(t)
    <3>1. Calm(t) /\ task' \in [Slot -> TaskStruct] /\ last_pid' = last_pid
      BY <2>6, SetpgidIsCalm DEF sys_setpgid
    <3> QED BY <3>1, CalmTable DEF TypeOK, Table
  <2>7. CASE sys_setsid(t)
    <3>1. Calm(t) /\ task' \in [Slot -> TaskStruct] /\ last_pid' = last_pid
      BY <2>7, SetsidIsCalm DEF sys_setsid
    <3> QED BY <3>1, CalmTable DEF TypeOK, Table
  <2> QED BY <2>1, <2>2, <2>3, <2>4, <2>5, <2>6, <2>7, ForkTable, EndTable, WaitedTable
<1>2. CASE UNCHANGED vars
  BY <1>2 DEF vars, Table, TypeOK, PidsUnique, Live, Sound
<1> QED BY <1>1, <1>2

\* The inductive invariant of the task table: fork, exit and waitpid keep it
\* well formed, whoever is signalled.
THEOREM TableInvariant == Spec => []Table
BY TableInit, TableNext, PTL DEF Spec

\* The task table is well formed and pids stay in 1 .. MaxPid when last_pid
\* wraps, even if init can be killed.
THEOREM TypeCorrect == Spec => []TypeOK
<1>1. Table => TypeOK
  BY DEF Table
<1> QED BY <1>1, TableInvariant, PTL

\* find_empty_process never gives out a pid that a task or a zombie has.
THEOREM UniquePids == Spec => []PidsUnique
<1>1. Table => PidsUnique
  BY DEF Table
<1> QED BY <1>1, TableInvariant, PTL

-----------------------------------------------------------------------------
\* The family.  FatherIsThere and NoMissedChild, slot by slot.
Fathers ==
    \A i \in Slot \ {0, 1} : task[i].pid # -1 =>
        \E j \in Slot : /\ task[j].pid = task[i].father
                        /\ task[j].at \notin {"exiting", "dead"}
AwaitsDead(f, z) ==
    /\ task[f].at = "wait" /\ task[f].wants \in Pid \cup {-1}
    /\ task[z].state = "zombie" /\ task[z].father = task[f].pid
    /\ task[f].wants = -1 \/ task[z].pid = task[f].wants
NoMissed ==
    \A f, z \in Slot \ {0} : f # z /\ AwaitsDead(f, z) => SIGCHLD \in task[f].signal
Kin == InitStays /\ Leaders /\ Fathers /\ NoMissed

LEMMA FathersIs == ASSUME Table PROVE Fathers <=> FatherIsThere
<1>1. \A i \in Slot : i \in Live <=> task[i].pid # -1
  BY LiveIs DEF Table
<1>2. \A j \in Slot : task[j].at # "dead" => j \in Live
  BY DEF Live, NULL
<1>3. Live \subseteq Slot
  BY DEF Live
<1>4. 0 \in Slot /\ 1 \in Slot
  BY ProcessAssumption DEF Slot
<1> QED BY <1>1, <1>2, <1>3, <1>4 DEF Fathers, FatherIsThere, User

LEMMA NoMissedIs == ASSUME Table PROVE NoMissed <=> NoMissedChild
<1>1. ASSUME NEW f \in Slot \ {0}, NEW z \in Slot \ {0}, f # z
      PROVE  AwaitsDead(f, z) <=>
             /\ f \in User /\ z \in User
             /\ task[f].at = "wait" /\ task[f].state = "interruptible"
             /\ task[f].wants \in Pid \cup {-1}
             /\ task[z].state = "zombie"
             /\ Matches(task, f, task[f].wants, z)
  <2>1. task[f].at = "wait" => f \in User /\ task[f].state = "interruptible"
    BY DEF User, Live, NULL, Table, Sound
  <2>2. task[z].state = "zombie" => z \in User /\ task[z] # NULL
    BY DEF User, Live, NULL
  <2>3. task[f].wants \in Pid \cup {-1} =>
          (Matches(task, f, task[f].wants, z) <=>
             /\ z \notin {0, f} /\ task[z] # NULL /\ task[z].father = task[f].pid
             /\ task[f].wants = -1 \/ task[z].pid = task[f].wants)
    BY MatchesIs
  <2> QED BY <1>1, <2>1, <2>2, <2>3 DEF AwaitsDead
<1>2. \A f : ~Matches(task, f, task[f].wants, f)
  BY DEF Matches
<1>3. User \subseteq Slot \ {0}
  BY DEF User, Live
<1> QED BY <1>1, <1>2, <1>3 DEF NoMissed, NoMissedChild

\* init and the sessions after a step.
Tame == InitStays' /\ Leaders'

LEMMA CalmKin ==
    ASSUME Table, Kin, NEW t \in Slot, Calm(t), Tame
    PROVE  Kin'
<1>1. Fathers'
  <2> SUFFICES ASSUME NEW i \in Slot \ {0, 1}, task'[i].pid # -1
               PROVE  \E j \in Slot : /\ task'[j].pid = task'[i].father
                                      /\ task'[j].at \notin {"exiting", "dead"}
    BY DEF Fathers
  <2>1. PICK j \in Slot : task[j].pid = task[i].father /\ task[j].at \notin {"exiting", "dead"}
    BY DEF Kin, Fathers, Calm, Keeps
  <2>2. task'[j].at \notin {"exiting", "dead"}
    BY <2>1 DEF Calm, Stays
  <2> QED BY <2>1, <2>2 DEF Calm, Keeps
<1>2. NoMissed'
  <2> SUFFICES ASSUME NEW f \in Slot \ {0}, NEW z \in Slot \ {0}, f # z, AwaitsDead(f, z)'
               PROVE  SIGCHLD \in task'[f].signal
    BY DEF NoMissed
  <2>1. f # t
    BY DEF AwaitsDead, Calm
  <2>2. Stays(f) /\ task'[z].state = task[z].state /\ task'[z].father = task[z].father
        /\ task'[z].pid = task[z].pid /\ task'[f].pid = task[f].pid
    BY <2>1 DEF Calm, Stays, Keeps
  <2>3. AwaitsDead(f, z)
    BY <2>2 DEF AwaitsDead, Stays
  <2>4. SIGCHLD \in task[f].signal
    BY <2>3 DEF Kin, NoMissed
  <2> QED BY <2>2, <2>4 DEF Stays
<1> QED BY <1>1, <1>2 DEF Kin, Tame

\* On a calm step init stays if it gets no signal and no session.
LEMMA CalmTame ==
    ASSUME Table, Kin, NEW t \in Slot, Calm(t), task'[1].signal \subseteq task[1].signal,
           task'[1].session = task[1].session, task'[1].leader = task[1].leader,
           \A i \in Slot : task'[i].leader => task[i].leader \/ task'[i].session # 0,
           \A i \in Slot : task'[i].session = task[i].session \/ task'[i].session # 0
    PROVE  Tame
<1>1. 1 \in Slot
  BY ProcessAssumption DEF Slot
<1>2. InitStays'
  BY <1>1 DEF Kin, InitStays, Calm, Keeps, Stays
<1>3. Leaders'
  BY DEF Kin, Leaders
<1> QED BY <1>2, <1>3 DEF Tame

LEMMA ForkKin ==
    ASSUME Table, Kin, NEW t \in Slot, sys_fork(t)
    PROVE  Kin'
<1>1. PICK nr \in Slot \ {0, t} :
         /\ task[nr] = NULL /\ last_pid' \in Pid /\ \A j \in Live : task[j].pid # last_pid'
         /\ task[t].at = "user" /\ task[t].pid \in Pid
         /\ task' \in [Slot -> TaskStruct] /\ \A i \in Slot \ {t, nr} : task'[i] = task[i]
         /\ task'[t].at = "ret" /\ task'[t].pid = task[t].pid
         /\ task'[t].father = task[t].father /\ task'[t].state = task[t].state
         /\ task'[t].signal = task[t].signal /\ task'[t].session = task[t].session
         /\ task'[t].leader = task[t].leader
         /\ task'[nr].pid = last_pid' /\ task'[nr].father = task[t].pid
         /\ task'[nr].state = task[t].state /\ task'[nr].at = "user" /\ ~task'[nr].leader
  BY ForkIs
<1>2. 1 \in Slot /\ nr # 1 /\ task[nr].at = "dead" /\ task[t].state = "running"
  <2>1. 1 \in Slot
    BY ProcessAssumption DEF Slot
  <2>2. task[nr].at = "dead"
    BY <1>1 DEF NULL
  <2> QED BY <1>1, <2>1, <2>2 DEF Kin, InitStays, Table, Sound
<1>3. InitStays' /\ Leaders'
  <2>1. InitStays'
    BY <1>1, <1>2 DEF Kin, InitStays
  <2>2. Leaders'
    BY <1>1 DEF Kin, Leaders
  <2> QED BY <2>1, <2>2
<1>4. Fathers'
  <2> SUFFICES ASSUME NEW i \in Slot \ {0, 1}, task'[i].pid # -1
               PROVE  \E j \in Slot : /\ task'[j].pid = task'[i].father
                                      /\ task'[j].at \notin {"exiting", "dead"}
    BY DEF Fathers
  <2>1. CASE i = nr
    BY <1>1, <2>1
  <2>2. CASE i # nr
    <3>1. task[i].pid # -1 /\ task'[i].father = task[i].father
      BY <1>1, <2>2
    <3>2. PICK j \in Slot : task[j].pid = task[i].father /\ task[j].at \notin {"exiting", "dead"}
      BY <3>1 DEF Kin, Fathers
    <3>3. j # nr
      BY <1>2, <3>2
    <3> QED BY <1>1, <3>1, <3>2, <3>3
  <2> QED BY <2>1, <2>2
<1>5. NoMissed'
  <2> SUFFICES ASSUME NEW f \in Slot \ {0}, NEW z \in Slot \ {0}, f # z, AwaitsDead(f, z)'
               PROVE  SIGCHLD \in task'[f].signal
    BY DEF NoMissed
  <2>1. f \notin {t, nr} /\ z \notin {t, nr}
    BY <1>1, <1>2 DEF AwaitsDead
  <2>2. task'[f] = task[f] /\ task'[z] = task[z]
    BY <1>1, <2>1
  <2> QED BY <2>2 DEF Kin, NoMissed, AwaitsDead
<1> QED BY <1>3, <1>4, <1>5 DEF Kin

LEMMA ExitKin ==
    ASSUME Table, Kin, NEW t \in Slot, Exiting(t)
    PROVE  Kin'
<1>0. 1 \in Slot /\ t # 1 /\ t # 0 /\ task[t] # NULL /\ task[t].at \in {"user", "ret"}
  <2>1. 1 \in Slot /\ t # 1
    BY ProcessAssumption DEF Slot, Exiting, Kin, InitStays
  <2> QED BY <2>1, AtLive DEF Exiting
<1>1. /\ \A i \in Slot :
            /\ Keeps(i) /\ task'[i].father = Adopted(t, i)
            /\ task'[i].session = task[i].session /\ task'[i].leader = task[i].leader
      /\ \A i \in Slot \ {t} : /\ Stays(i)
                               /\ task'[i].signal \subseteq task[i].signal \cup {SIGCHLD}
      /\ task'[t].at = "exiting" /\ task'[t].state = "running"
      /\ (\E i \in Children(task[t].pid) : task[i].state = "zombie")
            /\ t # 1 /\ task[1].at \notin {"exiting", "dead"} => SIGCHLD \in task'[1].signal
  BY <1>0, ExitIs DEF Exiting
<1>2. InitStays'
  BY <1>0, <1>1 DEF Kin, InitStays, Stays, Keeps
<1>3. Leaders'
  BY <1>1 DEF Kin, Leaders
<1>4. Fathers'
  <2> SUFFICES ASSUME NEW i \in Slot \ {0, 1}, task'[i].pid # -1
               PROVE  \E j \in Slot : /\ task'[j].pid = task'[i].father
                                      /\ task'[j].at \notin {"exiting", "dead"}
    BY DEF Fathers
  <2>0. task[i].pid # -1
    BY <1>1 DEF Keeps
  <2>1. CASE i \in Children(task[t].pid)
    <3>1. task'[i].father = 1
      BY <1>1, <2>1 DEF Adopted
    <3> QED BY <1>0, <1>2, <3>1 DEF InitStays
  <2>2. CASE i \notin Children(task[t].pid)
    <3>1. task'[i].father = task[i].father
      BY <1>1, <2>2 DEF Adopted
    <3>2. i \in Live
      BY <2>0, LiveIs DEF Table
    <3>3. task[i].father # task[t].pid
      BY <2>2, <3>2 DEF Children
    <3>4. PICK j \in Slot : task[j].pid = task[i].father /\ task[j].at \notin {"exiting", "dead"}
      BY <2>0 DEF Kin, Fathers
    <3>5. j # t
      BY <3>3, <3>4
    <3> QED BY <1>1, <3>1, <3>4, <3>5 DEF Stays, Keeps
  <2> QED BY <2>1, <2>2
<1>5. NoMissed'
  <2> SUFFICES ASSUME NEW f \in Slot \ {0}, NEW z \in Slot \ {0}, f # z, AwaitsDead(f, z)'
               PROVE  SIGCHLD \in task'[f].signal
    BY DEF NoMissed
  <2>1. f # t /\ z # t
    BY <1>1 DEF AwaitsDead
  <2>2. /\ Stays(f) /\ Stays(z)
        /\ task'[f].pid = task[f].pid /\ task'[z].pid = task[z].pid
    BY <1>1, <2>1 DEF Keeps
  <2>3. CASE z \in Children(task[t].pid)
    <3>1. task'[z].father = 1 /\ task[f].pid = 1
      BY <1>1, <2>2, <2>3 DEF Adopted, AwaitsDead
    <3>2. f \in Live /\ 1 \in Live
      <4>1. task[f].pid # -1 /\ task[1].pid # -1
        BY <3>1 DEF Kin, InitStays
      <4> QED BY <1>0, <4>1, LiveIs DEF Table
    <3>3. f = 1
      BY <3>1, <3>2 DEF Table, PidsUnique, Kin, InitStays
    <3>4. task[z].state = "zombie"
      BY <2>2 DEF AwaitsDead, Stays
    <3>5. task[1].at \notin {"exiting", "dead"}
      BY DEF Kin, InitStays
    <3> QED BY <1>0, <1>1, <2>3, <3>3, <3>4, <3>5
  <2>4. CASE z \notin Children(task[t].pid)
    <3>1. task'[z].father = task[z].father
      BY <1>1, <2>4 DEF Adopted
    <3>2. AwaitsDead(f, z)
      BY <2>2, <3>1 DEF AwaitsDead, Stays
    <3>3. SIGCHLD \in task[f].signal
      BY <3>2 DEF Kin, NoMissed
    <3> QED BY <2>2, <3>3 DEF Stays
  <2> QED BY <2>3, <2>4
<1> QED BY <1>2, <1>3, <1>4, <1>5 DEF Kin

LEMMA EndKin ==
    ASSUME Table, Kin, NEW t \in Slot, exit_ends(t)
    PROVE  Kin'
<1>0. PICK fathers : fathers = {i \in Live : task[t].father # 0 /\ task[i].pid = task[t].father}
  OBVIOUS
<1>1. /\ task[t].at = "exiting" /\ task[t].pid \in Pid
      /\ \A i \in Slot \ {t} : /\ Stays(i) /\ task'[i].father = task[i].father
                               /\ task'[i].session = task[i].session
                               /\ task'[i].leader = task[i].leader
      /\ \A i \in Slot \ {t} : (~task[t].leader \/ task[i].session # task[t].session)
            => task'[i].signal \subseteq task[i].signal \cup {SIGCHLD}
      /\ \A i \in Lowest(fathers) : task[i].at \notin {"exiting", "dead"}
                                       => SIGCHLD \in task'[i].signal
      /\ \/ task'[t] = NULL
         \/ /\ task'[t].pid = task[t].pid /\ task'[t].father = task[t].father
            /\ task'[t].state = "zombie" /\ task'[t].at = "dead"
            /\ task'[t].session = task[t].session /\ task'[t].leader = task[t].leader
  BY <1>0, EndIs
<1>2. 1 \in Slot /\ t # 1 /\ t # 0
  <2>1. 1 \in Slot /\ task[t].pid # 0
    BY <1>1, ProcessAssumption DEF Slot, Pid
  <2> QED BY <1>1, <2>1 DEF Kin, InitStays, Table, Sound
<1>3. InitStays'
  <2>1. ~task[t].leader \/ task[1].session # task[t].session
    BY DEF Kin, InitStays, Leaders
  <2>2. task'[1].signal \subseteq {SIGCHLD}
    BY <1>1, <1>2, <2>1 DEF Kin, InitStays
  <2> QED BY <1>1, <1>2, <2>2 DEF Kin, InitStays, Stays, Keeps
<1>4. Leaders'
  BY <1>1 DEF Kin, Leaders, NULL
<1>5. Fathers'
  <2> SUFFICES ASSUME NEW i \in Slot \ {0, 1}, task'[i].pid # -1
               PROVE  \E j \in Slot : /\ task'[j].pid = task'[i].father
                                      /\ task'[j].at \notin {"exiting", "dead"}
    BY DEF Fathers
  <2>1. task[i].pid # -1 /\ task'[i].father = task[i].father
    <3>1. CASE i = t
      BY <1>1, <3>1, ProcessAssumption DEF NULL, Pid
    <3>2. CASE i # t
      BY <1>1, <3>2 DEF Stays, Keeps
    <3> QED BY <3>1, <3>2
  <2>2. PICK j \in Slot : task[j].pid = task[i].father /\ task[j].at \notin {"exiting", "dead"}
    BY <2>1 DEF Kin, Fathers
  <2>3. j # t
    BY <1>1, <2>2
  <2> QED BY <1>1, <2>1, <2>2, <2>3 DEF Stays, Keeps
<1>6. NoMissed'
  <2> SUFFICES ASSUME NEW f \in Slot \ {0}, NEW z \in Slot \ {0}, f # z, AwaitsDead(f, z)'
               PROVE  SIGCHLD \in task'[f].signal
    BY DEF NoMissed
  <2>1. f # t
    BY <1>1 DEF AwaitsDead, NULL
  <2>2. Stays(f) /\ task'[f].pid = task[f].pid /\ task[f].at = "wait"
    BY <1>1, <2>1 DEF Stays, Keeps, AwaitsDead
  <2>3. CASE z = t
    <3>1. task[t].father = task[f].pid
      BY <1>1, <2>2, <2>3 DEF AwaitsDead, NULL
    <3>2. f \in Live /\ task[f].pid # 0
      BY <2>2 DEF Live, NULL, Table, Sound
    <3>3. f \in fathers /\ \A y \in fathers : y = f
      BY <1>0, <3>1, <3>2 DEF Table, PidsUnique
    <3>4. f \in Lowest(fathers)
      <4>1. f <= f
        BY ProcessAssumption DEF Slot
      <4> QED BY <3>3, <4>1 DEF Lowest
    <3> QED BY <1>1, <2>2, <3>4
  <2>4. CASE z # t
    <3>1. Stays(z) /\ task'[z].father = task[z].father /\ task'[z].pid = task[z].pid
      BY <1>1, <2>4 DEF Stays, Keeps
    <3>2. AwaitsDead(f, z)
      BY <2>2, <3>1 DEF AwaitsDead, Stays
    <3>3. SIGCHLD \in task[f].signal
      BY <3>2 DEF Kin, NoMissed
    <3> QED BY <2>2, <3>3 DEF Stays
  <2> QED BY <2>3, <2>4
<1> QED BY <1>3, <1>4, <1>5, <1>6 DEF Kin

LEMMA WaitedKin ==
    ASSUME Table, Kin, NEW t \in Slot, Waited(t)
    PROVE  Kin'
<1>0. 1 \in Slot
  BY ProcessAssumption DEF Slot
<1>1. /\ Himself(t) /\ task[t] # NULL
      /\ task[t].at \in {"user", "wait"} /\ task'[t].at \in {"ret", "wait"}
      /\ task'[t].state # "zombie"
  BY DEF Waited, Reaped, Returned, Sleeps
<1>2. ASSUME NEW i \in Slot \ {t}, task'[i] # task[i]
      PROVE  task'[i] = NULL /\ task[i].state = "zombie"
  BY <1>2 DEF Waited, Reaped, Returned, Sleeps
<1>3. ASSUME NEW i \in Slot, task[i].state = "zombie" PROVE task[i].at = "dead"
  <2>1. task[i] \in TaskStruct /\ Sound(i)
    BY TaskType DEF Table
  <2> QED BY <1>3, <2>1 DEF Sound, TaskStruct
<1>4. task[1].state # "zombie"
  BY <1>0, <1>3 DEF Kin, InitStays
<1>5. InitStays'
  <2>1. CASE t = 1
    BY <1>1, <2>1 DEF Kin, InitStays, Himself
  <2>2. CASE t # 1
    <3>1. task'[1] = task[1]
      BY <1>0, <1>2, <1>4, <2>2
    <3> QED BY <3>1 DEF Kin, InitStays
  <2> QED BY <2>1, <2>2
<1>6. Leaders'
  BY <1>1, <1>2 DEF Kin, Leaders, Himself, NULL
<1>7. Fathers'
  <2> SUFFICES ASSUME NEW i \in Slot \ {0, 1}, task'[i].pid # -1
               PROVE  \E j \in Slot : /\ task'[j].pid = task'[i].father
                                      /\ task'[j].at \notin {"exiting", "dead"}
    BY DEF Fathers
  <2>1. task[i].pid # -1 /\ task'[i].father = task[i].father
    BY <1>1, <1>2 DEF Himself, NULL
  <2>2. PICK j \in Slot : task[j].pid = task[i].father /\ task[j].at \notin {"exiting", "dead"}
    BY <2>1 DEF Kin, Fathers
  <2>3. j = t \/ task'[j] = task[j]
    BY <1>2, <1>3, <2>2
  <2> QED BY <1>1, <2>1, <2>2, <2>3 DEF Himself
<1>8. NoMissed'
  <2> SUFFICES ASSUME NEW f \in Slot \ {0}, NEW z \in Slot \ {0}, f # z, AwaitsDead(f, z)'
               PROVE  SIGCHLD \in task'[f].signal
    BY DEF NoMissed
  <2>1. z # t /\ task'[z] = task[z]
    BY <1>1, <1>2 DEF AwaitsDead, NULL
  <2>2. CASE f # t
    <3>1. task'[f] = task[f]
      BY <1>2, <2>2 DEF AwaitsDead, NULL
    <3> QED BY <2>1, <3>1 DEF Kin, NoMissed, AwaitsDead
  <2>3. CASE f = t
    <3>1. PICK w \in -MaxPid .. MaxPid : Sleeps(t, w)
      BY <2>3 DEF AwaitsDead, Waited, Reaped, Returned
    <3> QED BY <1>1, <2>1, <2>3, <3>1 DEF Sleeps, AwaitsDead, Himself
  <2> QED BY <2>2, <2>3
<1> QED BY <1>5, <1>6, <1>7, <1>8 DEF Kin

LEMMA KinInit == Init => Kin
<1> SUFFICES ASSUME Init PROVE Kin
  OBVIOUS
<1>1. 0 \in Slot /\ 1 \in Slot
  BY ProcessAssumption DEF Slot
<1>2. PICK first : first = [init_task EXCEPT !.pid = 1, !.father = 0]
  OBVIOUS
<1>3. /\ init_task.at = "user" /\ init_task.state = "running" /\ init_task.session = 0
      /\ init_task.leader = FALSE /\ init_task.signal = {}
  BY DEF init_task, NULL
<1>4. /\ first.pid = 1 /\ first.at = "user" /\ first.state = "running" /\ first.session = 0
      /\ first.leader = FALSE /\ first.signal = {}
  BY <1>2 DEF init_task, NULL
<1>5. /\ task[0] = init_task /\ task[1] = first /\ \A i \in Slot \ {0, 1} : task[i] = NULL
  BY <1>1, <1>2 DEF Init
<1>6. InitStays
  BY <1>4, <1>5 DEF InitStays
<1>7. Leaders
  BY <1>3, <1>4, <1>5 DEF Leaders, NULL
<1>8. Fathers
  BY <1>5 DEF Fathers, NULL
<1>9. \A i \in Slot : task[i].state # "zombie"
  BY <1>3, <1>4, <1>5 DEF NULL
<1>10. NoMissed
  BY <1>9 DEF NoMissed, AwaitsDead
<1> QED BY <1>6, <1>7, <1>8, <1>10 DEF Kin

\* Without a signal to init the family stays together.
LEMMA KinNext ==
    ASSUME ~InitKillable, Table, Kin, [Next]_vars
    PROVE  Kin'
<1>0. 1 \in Slot
  BY ProcessAssumption DEF Slot
<1>1. CASE Next
  <2>1. PICK t \in Slot : \/ sys_fork(t) \/ fork_fails(t) \/ ret_from_sys_call(t) \/ Ignoring(t)
                          \/ Exiting(t) \/ exit_ends(t) \/ Waited(t) \/ Killing(t)
                          \/ sys_setpgid(t) \/ (t # 1 /\ sys_setsid(t))
    BY <1>1, Steps
  <2>2. CASE fork_fails(t) \/ ret_from_sys_call(t)
    <3>1. Calm(t) /\ \A i \in Slot : /\ task'[i].session = task[i].session
                                     /\ task'[i].leader = task[i].leader
                                     /\ task'[i].signal = task[i].signal
      BY <2>2, ReturnIsCalm
    <3>2. Tame
      BY <1>0, <3>1, CalmTame
    <3> QED BY <3>1, <3>2, CalmKin
  <2>3. CASE Ignoring(t)
    <3>1. task[t].at \in {"user", "ret"} /\ task[t] # NULL
      BY <2>3, AtLive DEF Ignoring
    <3>2. PICK sig : task' = [task EXCEPT ![t].signal = @ \ {sig}, ![t].at = "user"]
      BY <2>3 DEF Ignoring
    <3>3. Calm(t) /\ \A i \in Slot : /\ task'[i].session = task[i].session
                                     /\ task'[i].leader = task[i].leader
                                     /\ task'[i].signal \subseteq task[i].signal
      BY <3>1, <3>2, IgnoreIsCalm
    <3>4. Tame
      BY <1>0, <3>3, CalmTame
    <3> QED BY <3>3, <3>4, CalmKin
  <2>4. CASE Killing(t)
    <3>1. PICK S \in SUBSET Slot, sig \in Signals : 1 \notin S /\ Kill(t, S, sig)
      BY <2>4 DEF Killing
    <3>2. Calm(t) /\ \A i \in Slot : /\ task'[i].session = task[i].session
                                     /\ task'[i].leader = task[i].leader
                                     /\ i \notin S => task'[i].signal = task[i].signal
      BY <3>1, KillIsCalm
    <3>3. Tame
      BY <1>0, <3>1, <3>2, CalmTame
    <3> QED BY <3>2, <3>3, CalmKin
  <2>5. CASE sys_setpgid(t)
    <3>1. Calm(t) /\ \A i \in Slot : /\ task'[i].session = task[i].session
                                     /\ task'[i].leader = task[i].leader
                                     /\ task'[i].signal = task[i].signal
      BY <2>5, SetpgidIsCalm
    <3>2. Tame
      BY <1>0, <3>1, CalmTame
    <3> QED BY <3>1, <3>2, CalmKin
  <2>6. CASE t # 1 /\ sys_setsid(t)
    <3>1. Calm(t) /\ task'[t].session # 0 /\ \A i \in Slot \ {t} : task'[i] = task[i]
      BY <2>6, SetsidIsCalm
    <3>2. Tame
      BY <1>0, <2>6, <3>1, CalmTame
    <3> QED BY <3>1, <3>2, CalmKin
  <2> QED BY <2>1, <2>2, <2>3, <2>4, <2>5, <2>6, ForkKin, ExitKin, EndKin, WaitedKin
<1>2. CASE UNCHANGED vars
  BY <1>2 DEF vars, Kin, InitStays, Leaders, Fathers, NoMissed, AwaitsDead
<1> QED BY <1>1, <1>2

\* The inductive invariant of the family, as long as no program may signal init.
THEOREM KinInvariant ==
    ASSUME ~InitKillable
    PROVE  Spec => []Kin
<1>1. Table /\ Kin /\ [Next]_vars => Kin'
  BY KinNext
<1> QED BY <1>1, KinInit, TableInvariant, PTL DEF Spec

\* tell_father always finds a father, and that father has not yet handed its
\* children to init, however exits interleave: as long as no program may
\* signal init.
THEOREM FathersThere ==
    ASSUME ~InitKillable
    PROVE  Spec => []FatherIsThere
<1>1. Table /\ Kin => FatherIsThere
  BY FathersIs DEF Kin
<1> QED BY <1>1, TableInvariant, KinInvariant, PTL

\* No task sleeps in waitpid for one or any child while such a child is a
\* zombie, unless a SIGCHLD is about to wake it: the exit of the child, or of
\* the father it was inherited from, always tells.
THEOREM NoChildMissed ==
    ASSUME ~InitKillable
    PROVE  Spec => []NoMissedChild
<1>1. Table /\ Kin => NoMissedChild
  BY NoMissedIs DEF Kin
<1> QED BY <1>1, TableInvariant, KinInvariant, PTL
=============================================================================
