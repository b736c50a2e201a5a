------------------------------- MODULE Process -------------------------------
(***************************************************************************)
(* The life of processes: fork, exit, waitpid, kill, process groups and    *)
(* sessions (kernel/fork.c, exit.c, sys.c, the delivery of signals in      *)
(* system_call.s).                                                         *)
(*                                                                         *)
(* The scheduler is the one Processor specifies: of the tasks that can run *)
(* any may be the next to run, so a step of any of them is a step of the   *)
(* system.  A step lasts until the next call of schedule(); a task in the  *)
(* kernel is never interrupted by another one in between.                  *)
(* The idle task (slot 0) does nothing once it has forked init (slot 1).   *)
(***************************************************************************)
EXTENDS Integers, FiniteSets

CONSTANTS NR_TASKS,      \* slots of the task table
          MaxPid,        \* last_pid wraps after this one (2^31 - 1 in the code)
          Signals,       \* signals user programs send
          Groups,        \* the group numbers programs use, {}: no job control
          InitKillable   \* whether a privileged program may signal init

ASSUME ProcessAssumption ==
    /\ NR_TASKS \in Nat /\ NR_TASKS > 2
    /\ MaxPid \in Nat /\ MaxPid >= NR_TASKS
    /\ Groups \subseteq 2 .. MaxPid /\ InitKillable \in BOOLEAN

SIGHUP  == 1
SIGKILL == 9
SIGCHLD == 17

VARIABLES task,      \* the task table
          last_pid   \* the last process number given out

vars == <<task, last_pid>>

Slot == 0 .. NR_TASKS - 1

Pid == 1 .. MaxPid

\* at: "user" in user mode; "ret" about to return there; "wait" in waitpid;
\* "exiting" in do_exit, closing files; "dead" after it.
\* wants: the pid argument of waitpid.
NULL == [pid |-> -1, father |-> -1, pgrp |-> -1, session |-> -1, leader |-> FALSE,
         state |-> "null", signal |-> {}, at |-> "dead", wants |-> -1]

init_task == [NULL EXCEPT !.pid = 0, !.pgrp = 0, !.session = 0,
                          !.state = "running", !.at = "user"]

Live == {i \in Slot : task[i] # NULL}
User == Live \ {0}

Init ==
    /\ task = [i \in Slot |-> CASE i = 0 -> init_task
                                [] i = 1 -> [init_task EXCEPT !.pid = 1, !.father = 0]
                                [] OTHER -> NULL]
    /\ last_pid = 1

\* schedule() turns an interruptible sleeper with a signal into a runnable
\* task before it looks for the next one to run.
CanRun(t) == \/ task[t].state = "running"
             \/ task[t].state = "interruptible" /\ task[t].signal # {}

\* t can run and is at that place.  A free slot is nowhere but at "dead".
At(t, where) == t # 0 /\ task[t].at = where /\ CanRun(t)

Lowest(S) == {x \in S : \A y \in S : x <= y}

-----------------------------------------------------------------------------
\* Signals.  Those of a task that exits or is a zombie are never looked at
\* again and not kept.
Signalled(tbl, targets, sig) ==
    [i \in Slot |-> IF i \in targets /\ tbl[i].at \notin {"exiting", "dead"}
                    THEN [tbl[i] EXCEPT !.signal = @ \cup {sig}] ELSE tbl[i]]

-----------------------------------------------------------------------------
\* fork.  The next pid nobody has; the pids of the task table only count.
\* Mutant: the pids in use are not looked at after the wrap.
NewPid_unchecked == IF last_pid < MaxPid THEN {last_pid + 1} ELSE {1}

\* Mutant: last_pid does not start again at 1.
NewPid_noWrap == {last_pid + 1}

NewPid ==
    LET free == Pid \ {task[i].pid : i \in Live}
        later == {p \in free : p > last_pid}
    IN  Lowest(IF later # {} THEN later ELSE free)

FreeSlot == Lowest(Slot \ (Live \cup {0}))

copy_process(t, nr, pid) ==
    task' = [task EXCEPT
        ![t].at = "ret",
        ![nr] = [task[t] EXCEPT !.pid = pid, !.father = task[t].pid,
                                !.signal = {}, !.leader = FALSE, !.at = "user"]]

sys_fork(t) ==
    /\ At(t, "user")
    /\ last_pid' \in NewPid
    /\ \E nr \in FreeSlot : copy_process(t, nr, last_pid')

\* No slot, or no memory for the task page or the page tables: nothing is
\* left of the child, but the pid has been used up.
fork_fails(t) ==
    /\ At(t, "user")
    /\ last_pid' \in NewPid
    /\ task' = [task EXCEPT ![t].at = "ret"]

-----------------------------------------------------------------------------
\* exit, first part: the children go to init.
Children(p) == {i \in Live : task[i].father = p}

\* Mutant: init is not told about the zombies it inherits.
Reparent_silent(t) ==
    [i \in Slot |-> IF i \in Children(task[t].pid)
                    THEN [task[i] EXCEPT !.father = 1] ELSE task[i]]

\* Mutant: only the children that still run are handed over.
Reparent_skipsZombies(t) ==
    [i \in Slot |-> IF i \in Children(task[t].pid) /\ task[i].state # "zombie"
                    THEN [task[i] EXCEPT !.father = 1] ELSE task[i]]

Reparent(t) ==
    LET kids == Children(task[t].pid)
        tbl == [i \in Slot |-> IF i \in kids THEN [task[i] EXCEPT !.father = 1] ELSE task[i]]
    IN  IF \E i \in kids : task[i].state = "zombie" THEN Signalled(tbl, {1}, SIGCHLD)
        ELSE tbl

\* The state and the place of t when do_exit starts closing its files,
\* which can put it to sleep.
do_exit(t) ==
    task' = [Reparent(t) EXCEPT ![t].at = "exiting", ![t].state = "running", ![t].signal = {}]

sys_exit(t) ==
    /\ At(t, "user")
    /\ do_exit(t)
    /\ UNCHANGED last_pid

\* The rest of do_exit: hang up the session, become a zombie, tell_father.
\* If there is no father to tell the task releases itself.
kill_session(tbl, t) ==
    IF tbl[t].leader
    THEN Signalled(tbl, {i \in User : tbl[i].session = tbl[t].session}, SIGHUP)
    ELSE tbl

exit_ends(t) ==
    LET zombie == [kill_session(task, t) EXCEPT ![t].state = "zombie", ![t].at = "dead"]
        fathers == {i \in Live : task[t].father # 0 /\ task[i].pid = task[t].father}
    IN  /\ At(t, "exiting")
        /\ task' = IF fathers # {} THEN Signalled(zombie, Lowest(fathers), SIGCHLD)
                   ELSE [zombie EXCEPT ![t] = NULL]
        /\ UNCHANGED last_pid

-----------------------------------------------------------------------------
\* waitpid.
Matches(tbl, t, w, i) ==
    /\ i \notin {0, t} /\ tbl[i] # NULL
    /\ tbl[i].father = tbl[t].pid
    /\ CASE w > 0   -> tbl[i].pid = w
         [] w = 0   -> tbl[i].pgrp = tbl[t].pgrp
         [] w = -1  -> TRUE
         [] w < -1  -> tbl[i].pgrp = -w

Highest(S) == {x \in S : \A y \in S : y <= x}

\* The scan of the children in tbl and what follows it: a zombie is reaped,
\* otherwise the task returns (no child, WNOHANG) or goes to sleep.
Scan(tbl, t, w, nohang) ==
    LET kids == {i \in Slot : Matches(tbl, t, w, i)}
        zombies == {i \in kids : tbl[i].state = "zombie"}
    IN  \/ \E z \in Highest(zombies) :
              task' = [tbl EXCEPT ![z] = NULL, ![t].at = "ret"]
        \/ /\ zombies = {}
           /\ task' = IF kids = {} \/ nohang THEN [tbl EXCEPT ![t].at = "ret"]
                      ELSE [tbl EXCEPT ![t].at = "wait", ![t].wants = w,
                                       ![t].state = "interruptible"]

WaitArgs == {-1} \cup Pid \cup {-g : g \in Groups} \cup {0 : g \in Groups}

sys_waitpid(t, w, nohang) ==
    /\ At(t, "user")
    /\ Scan(task, t, w, nohang)
    /\ UNCHANGED last_pid

\* Mutant: the call goes back to sleep without looking at the children again.
waitpid_wakes_noRescan(t) ==
    LET rest == task[t].signal \ {SIGCHLD}
    IN  /\ At(t, "wait")
        /\ task' = [task EXCEPT ![t].signal = rest, ![t].state = "interruptible"]
        /\ UNCHANGED last_pid

\* After the sleep: SIGCHLD is taken off; any other signal ends the call.
waitpid_wakes(t) ==
    LET rest == task[t].signal \ {SIGCHLD}
        tbl == [task EXCEPT ![t].signal = rest, ![t].state = "running", ![t].wants = -1]
    IN  /\ At(t, "wait")
        /\ \/ rest = {} /\ Scan(tbl, t, task[t].wants, FALSE)
           \/ rest # {} /\ task' = [tbl EXCEPT ![t].at = "ret"]
        /\ UNCHANGED last_pid

-----------------------------------------------------------------------------
\* kill.  Whether send_sig is allowed depends on user ids, which are not
\* modelled: except for kill(0), any part of the targets may refuse.
Killable(S) == {i \in S : InitKillable \/ i # 1}

Kill(t, targets, sig) ==
    /\ At(t, "user")
    /\ task' = [Signalled(task, targets, sig) EXCEPT ![t].at = "ret"]
    /\ UNCHANGED last_pid

sys_kill_pid(t, sig) ==
    \E p \in Pid :
        \E S \in SUBSET Killable({i \in User : task[i].pid = p}) : Kill(t, S, sig)

sys_kill_all(t, sig) == \E S \in SUBSET Killable(User) : Kill(t, S, sig)

sys_kill_group(t, sig) ==
    \E g \in Groups :
        \E S \in SUBSET Killable({i \in User : task[i].pgrp = g}) : Kill(t, S, sig)

\* kill(0): the tasks whose group is the caller's pid.
sys_kill_0(t, sig) ==
    /\ Groups # {}
    /\ Kill(t, Killable({i \in User : task[i].pgrp = task[t].pid}), sig)

-----------------------------------------------------------------------------
\* Process groups and sessions.
sys_setpgid(t) ==
    /\ Groups # {}
    /\ At(t, "user")
    /\ \E i \in Live, g \in Groups :
          /\ ~task[i].leader
          /\ task[i].session = task[t].session
          /\ task' = [task EXCEPT ![i].pgrp = g, ![t].at = "ret"]
    /\ UNCHANGED last_pid

sys_setsid(t) ==
    /\ Groups # {}
    /\ At(t, "user")
    /\ task' = [task EXCEPT ![t].leader = TRUE, ![t].session = task[t].pid,
                            ![t].pgrp = task[t].pid, ![t].at = "ret"]
    /\ UNCHANGED last_pid

-----------------------------------------------------------------------------
\* ret_from_sys_call, also reached from the timer interrupt in user mode: the
\* lowest signal is taken off; by default SIGCHLD is ignored, others kill.
ret_from_sys_call(t) ==
    /\ At(t, "ret") /\ task[t].signal = {}
    /\ task' = [task EXCEPT ![t].at = "user"]
    /\ UNCHANGED last_pid

do_signal(t) ==
    /\ At(t, "ret") \/ At(t, "user")
    /\ \E sig \in Lowest(task[t].signal) :
          \/ /\ sig = SIGCHLD
             /\ task' = [task EXCEPT ![t].signal = @ \ {sig}, ![t].at = "user"]
          \/ /\ sig # SIGCHLD
             /\ do_exit(t)
    /\ UNCHANGED last_pid

-----------------------------------------------------------------------------
\* What a program does.  init only forks and waits: main.c, init().
Program(t) ==
    \/ sys_exit(t)
    \/ \E w \in WaitArgs, nohang \in BOOLEAN : sys_waitpid(t, w, nohang)
    \/ \E sig \in Signals : \/ sys_kill_pid(t, sig) \/ sys_kill_all(t, sig)
                            \/ sys_kill_group(t, sig) \/ sys_kill_0(t, sig)
    \/ sys_setpgid(t)
    \/ sys_setsid(t)

init_waits == sys_waitpid(1, -1, FALSE)

InKernel(t) ==
    exit_ends(t) \/ waitpid_wakes(t) \/ ret_from_sys_call(t) \/ do_signal(t)

Next == \/ \E t \in Slot : sys_fork(t) \/ fork_fails(t) \/ InKernel(t)
        \/ \E t \in Slot \ {1} : Program(t)
        \/ init_waits

Spec == Init /\ [][Next]_vars

(***************************************************************************)
(* Fairness: a task that can run gets to run (Sched, RunnableRuns), and    *)
(* init, in its loop in main.c, always comes back to wait().               *)
(***************************************************************************)
Fairness == /\ \A t \in Slot : WF_vars(InKernel(t))
            /\ SF_vars(init_waits)

FairSpec == Spec /\ Fairness

-----------------------------------------------------------------------------
TaskStruct == [pid : -1 .. MaxPid, father : -1 .. MaxPid, pgrp : -1 .. MaxPid,
               session : -1 .. MaxPid, leader : BOOLEAN,
               state : {"null", "running", "interruptible", "zombie"},
               signal : SUBSET (Signals \cup {SIGHUP, SIGCHLD}),
               at : {"user", "ret", "wait", "exiting", "dead"},
               wants : -MaxPid .. MaxPid]

\* Types; pids stay within 1 .. MaxPid when last_pid wraps (find_empty_process).
TypeOK == /\ task \in [Slot -> TaskStruct]
          /\ last_pid \in Pid

\* Two tasks never have the same pid, however often last_pid has wrapped and
\* whatever happened between find_empty_process and the end of copy_process.
PidsUnique == \A i, j \in Live : task[i].pid = task[j].pid => i = j

\* tell_father never prints "BAD BAD - no father found": the father of every
\* process but init is in the table and is not itself past the point where it
\* hands its children to init.
FatherIsThere ==
    \A i \in User \ {1} :
        \E j \in Live : /\ task[j].pid = task[i].father
                       /\ task[j].at \notin {"exiting", "dead"}

\* No dead child is overlooked: a task asleep in waitpid for one or for any of
\* its children has a SIGCHLD that will wake it if such a child is a zombie.
\* (For the wait on a group this is false: setpgid can move a zombie into it.)
NoMissedChild ==
    \A f, z \in User :
        /\ task[f].at = "wait" /\ task[f].state = "interruptible"
        /\ task[f].wants \in Pid \cup {-1}
        /\ task[z].state = "zombie"
        /\ Matches(task, f, task[f].wants, z)
        => SIGCHLD \in task[f].signal

\* Whatever init inherits dead or sees die leaves the table, so zombies do not
\* fill it up.  waitpid looks at the highest slot first, so init may put a
\* child off for as long as others keep dying in higher slots, and no longer.
Orphan(i) == task[i].state = "zombie" /\ task[i].father = 1

OrphansAreReaped ==
    \A i \in Slot \ {0, 1} : Orphan(i) ~> (~Orphan(i) \/ \E j \in Slot : j > i /\ Orphan(j))
=============================================================================
