-------------------------------- MODULE Sched --------------------------------
(***************************************************************************)
(* The scheduler, the timer tick and the sleeping locks of the kernel.     *)
(*                                                                         *)
(* The kernel is not preemptive: a task in the kernel runs until it calls  *)
(* schedule() itself.  An action is therefore the code of one task from    *)
(* the point where schedule() returns to it (pc) to its next call of       *)
(* schedule(), that call included, or one whole interrupt handler.         *)
(*                                                                         *)
(* The locks are those of buffers (b_lock, released by the disk interrupt  *)
(* in end_request) and of inodes (i_lock, released by the task that holds  *)
(* it, which sleeps on a buffer in between).  Both are a flag and a wait   *)
(* queue: a head pointer, the rest of the queue being the local variables  *)
(* tmp on the kernel stacks of the sleepers.                               *)
(***************************************************************************)
EXTENDS SchedOps

CONSTANTS Buffers, Inodes,   \* the locks, one wait queue each
          Signals,           \* the signal numbers in use
          MaxPriority,       \* bound on what sys_nice can reach
          MaxAlarm           \* longest alarm() in ticks; 0: alarm is not used

ASSUME SchedAssumption ==
    /\ Buffers \cap Inodes = {}
    /\ Buffers \cup Inodes # {}
    /\ Signals \subseteq Nat
    /\ MaxPriority \in Nat \ {0}
    /\ MaxAlarm \in Nat
    /\ MaxAlarm > 0 => SIGALRM \in Signals

VARIABLES
    current,   \* the slot that has the processor
    state,     \* task->state
    counter,   \* task->counter, ticks left
    priority,  \* task->priority
    signal,    \* task->signal, a set
    blocked,   \* task->blocked, a set
    alarm,     \* task->alarm, relative (see SchedOps)
    pc,        \* where the task is, or returns to when it is switched to
    on,        \* the queue it sleeps on, or last slept on
    tmp,       \* the local variable of sleep_on
    inode,     \* the inodes (at most one) it has locked
    lock,      \* b_lock, i_lock
    wq         \* b_wait, i_wait: the head of the queue

taskVars == <<state, counter, priority, signal, blocked, alarm>>
vars == <<current, taskVars, pc, on, tmp, inode, lock, wq>>

Locks == Buffers \cup Inodes

\* Places inside sleep_on(), all reached with interrupts off.
SleepPoints == {"lock_buffer", "wait_on_buffer", "lock_inode", "wait_on_inode"}
Points == SleepPoints \cup {"user", "bread", "submitted", "unlock", "pause", "ret", "resched"}

InSleepOn(t) == pc[t] \in SleepPoints
At(where) == pc[current] = where
Goto(where) == pc' = [pc EXCEPT ![current] = where]

Init ==
    /\ current = 0
    /\ state = [t \in Slot |-> RUNNING]
    /\ priority = [t \in Slot |-> MaxPriority]
    /\ counter = priority
    /\ signal = [t \in Slot |-> {}]
    /\ blocked = [t \in Slot |-> {}]
    /\ alarm = [t \in Slot |-> 0]
    /\ pc = [t \in Slot |-> "user"]
    /\ on \in [Slot -> Locks]
    /\ \A t, u \in Slot : on[t] = on[u]
    /\ tmp = [t \in Slot |-> NoTask]
    /\ inode = [t \in Slot |-> {}]
    /\ lock = [q \in Locks |-> FALSE]
    /\ wq = [q \in Locks |-> NoTask]

-----------------------------------------------------------------------------
\* schedule(), called when the states, counters and alarms are st, cnt, alm.
Schedule(st, cnt, alm) ==
    LET sig == SignalsAfterAlarms(signal, alm)
        st1 == StatesAfterSignals(st, sig, blocked)
        cn1 == CountersAfter(st1, cnt, priority)
    IN  /\ signal'  = sig
        /\ alarm'   = AlarmsAfterScan(alm)
        /\ state'   = st1
        /\ counter' = cn1
        /\ current' \in NextTask(st1, cn1)
        /\ UNCHANGED <<priority, blocked>>

\* The current task goes on; st are the states after what it did.
Continue(st) ==
    /\ state' = st
    /\ UNCHANGED <<current, counter, priority, signal, blocked, alarm>>

\* Mutant: the previous head of the queue is not remembered.
SleepOn_forgetsPrevious(q, where, st) ==
    /\ wq'  = [wq EXCEPT ![q] = current]
    /\ on'  = [on EXCEPT ![current] = q]
    /\ Goto(where)
    /\ Schedule([st EXCEPT ![current] = UNINTERRUPTIBLE], counter, alarm)
    /\ UNCHANGED tmp

\* sleep_on(q), up to and including its call of schedule().
SleepOn(q, where, st) ==
    /\ tmp' = [tmp EXCEPT ![current] = wq[q]]
    /\ wq'  = [wq EXCEPT ![q] = current]
    /\ on'  = [on EXCEPT ![current] = q]
    /\ Goto(where)
    /\ Schedule([st EXCEPT ![current] = UNINTERRUPTIBLE], counter, alarm)

\* Mutant: the next sleeper is not woken.
AfterSleep_wakesNobody == state

\* The rest of sleep_on: the states once the next sleeper has been woken.
AfterSleep == SetRunning(state, tmp[current])
Forget == tmp' = [tmp EXCEPT ![current] = NoTask]

\* while (lock) sleep_on(&wait);  where is the place of the sleep, and
\* done the code after the loop, which runs with the states st.
WhileLocked(q, where, st, done) ==
    \/ /\ lock[q]
       /\ SleepOn(q, where, st)
       /\ UNCHANGED <<lock, inode>>
    \/ /\ ~lock[q]
       /\ Continue(st)
       /\ Forget
       /\ done

LockBuffer(b, st) ==
    WhileLocked(b, "lock_buffer", st,
        /\ lock' = [lock EXCEPT ![b] = TRUE]
        /\ on' = [on EXCEPT ![current] = b]
        /\ Goto("submitted")
        /\ UNCHANGED <<inode, wq>>)

WaitOnBuffer(b, st) ==
    WhileLocked(b, "wait_on_buffer", st,
        /\ Goto(IF inode[current] = {} THEN "ret" ELSE "unlock")
        /\ UNCHANGED <<lock, inode, on, wq>>)

\* lock_inode(); read_inode and write_inode go on to bread the inode's block.
LockInode(i, st) ==
    WhileLocked(i, "lock_inode", st,
        /\ lock' = [lock EXCEPT ![i] = TRUE]
        /\ inode' = [inode EXCEPT ![current] = {i}]
        /\ Goto("bread")
        /\ UNCHANGED <<on, wq>>)

WaitOnInode(i, st) ==
    WhileLocked(i, "wait_on_inode", st,
        /\ Goto("ret")
        /\ UNCHANGED <<lock, inode, on, wq>>)

\* Mutant: *p is not cleared.
WakeUp_keepsHead(q) == state' = SetRunning(state, wq[q]) /\ UNCHANGED wq

\* wake_up(q): the states after it; the head becomes NULL.
WakeUp(q) ==
    /\ wq' = [wq EXCEPT ![q] = NoTask]
    /\ state' = SetRunning(state, wq[q])

-----------------------------------------------------------------------------
\* System calls made by a task in user mode.  Task 0 only ever pauses.
Syscall == At("user") /\ current # 0

bread == Syscall /\ \E b \in Buffers : LockBuffer(b, state)

read_inode == Syscall /\ \E i \in Inodes : LockInode(i, state)
iget_wait  == Syscall /\ \E i \in Inodes : WaitOnInode(i, state)

lock_buffer_wakes == /\ At("lock_buffer")
                     /\ LockBuffer(on[current], AfterSleep)

\* The request is queued: bread goes on to wait_on_buffer.
bread_waits == /\ At("submitted")
               /\ WaitOnBuffer(on[current], state)

wait_on_buffer_wakes == /\ At("wait_on_buffer")
                        /\ WaitOnBuffer(on[current], AfterSleep)

\* The bread() inside read_inode and write_inode, the inode being locked.
bread_inode_block == /\ At("bread")
                     /\ \E b \in Buffers : LockBuffer(b, state)

\* Mutant: if (lock) sleep_on() instead of while (lock).
lock_inode_wakes_unchecked ==
    /\ At("lock_inode")
    /\ Continue(AfterSleep)
    /\ Forget
    /\ lock' = [lock EXCEPT ![on[current]] = TRUE]
    /\ inode' = [inode EXCEPT ![current] = {on[current]}]
    /\ Goto("bread")
    /\ UNCHANGED <<on, wq>>

lock_inode_wakes == /\ At("lock_inode")
                    /\ LockInode(on[current], AfterSleep)

wait_on_inode_wakes == /\ At("wait_on_inode")
                       /\ WaitOnInode(on[current], AfterSleep)

\* Mutant: the lock is released without a wake_up.
unlock_inode_silent ==
    /\ At("unlock")
    /\ \E i \in inode[current] : lock' = [lock EXCEPT ![i] = FALSE]
    /\ inode' = [inode EXCEPT ![current] = {}]
    /\ Goto("ret")
    /\ UNCHANGED <<current, taskVars, on, tmp, wq>>

unlock_inode ==
    /\ At("unlock")
    /\ \E i \in inode[current] : WakeUp(i) /\ lock' = [lock EXCEPT ![i] = FALSE]
    /\ inode' = [inode EXCEPT ![current] = {}]
    /\ Goto("ret")
    /\ UNCHANGED <<current, counter, priority, signal, blocked, alarm, on, tmp>>

sys_pause ==
    /\ At("user")
    /\ Goto("pause")
    /\ Schedule([state EXCEPT ![current] = INTERRUPTIBLE], counter, alarm)
    /\ UNCHANGED <<on, tmp, inode, lock, wq>>

pause_returns ==
    /\ At("pause")
    /\ Goto("ret")
    /\ UNCHANGED <<current, taskVars, on, tmp, inode, lock, wq>>

sys_alarm ==
    /\ Syscall
    /\ MaxAlarm > 0
    /\ \E ticks \in {0, MaxAlarm} :
          alarm' = [alarm EXCEPT ![current] = IF ticks > 0 THEN ticks + 2 ELSE 0]
    /\ Goto("ret")
    /\ UNCHANGED <<current, state, counter, priority, signal, blocked,
                   on, tmp, inode, lock, wq>>

\* Mutant: >= 0 instead of > 0.
sys_nice_zero ==
    /\ Syscall
    /\ \E p \in 0 .. MaxPriority : priority' = [priority EXCEPT ![current] = p]
    /\ Goto("ret")
    /\ UNCHANGED <<current, state, counter, signal, blocked, alarm,
                   on, tmp, inode, lock, wq>>

\* priority -= increment unless that makes it 0 or less.
sys_nice ==
    /\ Syscall
    /\ \E p \in 1 .. MaxPriority : priority' = [priority EXCEPT ![current] = p]
    /\ Goto("ret")
    /\ UNCHANGED <<current, state, counter, signal, blocked, alarm,
                   on, tmp, inode, lock, wq>>

sys_ssetmask ==
    /\ Syscall
    /\ \E newmask \in SUBSET Signals :
          blocked' = [blocked EXCEPT ![current] = newmask \ {SIGKILL}]
    /\ Goto("ret")
    /\ UNCHANGED <<current, state, counter, priority, signal, alarm,
                   on, tmp, inode, lock, wq>>

\* sys_kill reduced to its effect here: send_sig to one other task.
sys_kill ==
    /\ Syscall
    /\ \E t \in Task, s \in Signals : signal' = [signal EXCEPT ![t] = @ \cup {s}]
    /\ Goto("ret")
    /\ UNCHANGED <<current, state, counter, priority, blocked, alarm,
                   on, tmp, inode, lock, wq>>

-----------------------------------------------------------------------------
\* The way back to user mode: system_call after the call, ret_from_sys_call.
reschedule ==
    /\ At("ret")
    /\ state[current] # RUNNING \/ counter[current] = 0
    /\ Goto("resched")
    /\ Schedule(state, counter, alarm)
    /\ UNCHANGED <<on, tmp, inode, lock, wq>>

ret_from_sys_call ==
    /\ \/ At("ret") /\ state[current] = RUNNING /\ counter[current] # 0
       \/ At("resched")
    /\ signal' = SignalsAfterDelivery(signal, blocked, current)
    /\ Goto("user")
    /\ UNCHANGED <<current, state, counter, priority, blocked, alarm,
                   on, tmp, inode, lock, wq>>

-----------------------------------------------------------------------------
\* Interrupts.  The loops around sleep_on run with interrupts off.
InterruptsOn == ~InSleepOn(current)

AlarmsAfterTick == [t \in Slot |-> IF alarm[t] > 1 THEN alarm[t] - 1 ELSE alarm[t]]
TimeLeft == counter[current] > 1
CountersAfterTick ==
    [counter EXCEPT ![current] = IF TimeLeft THEN @ - 1 ELSE 0]

\* timer_interrupt in user mode, time left: back through ret_from_sys_call.
timer_user ==
    /\ At("user") /\ TimeLeft
    /\ counter' = CountersAfterTick
    /\ alarm' = AlarmsAfterTick
    /\ signal' = SignalsAfterDelivery(signal, blocked, current)
    /\ UNCHANGED <<current, state, priority, blocked, pc, on, tmp, inode, lock, wq>>

\* timer_interrupt in user mode, time slice over: do_timer calls schedule().
timer_preempts ==
    /\ At("user") /\ ~TimeLeft
    /\ Goto("resched")
    /\ Schedule(state, CountersAfterTick, AlarmsAfterTick)
    /\ UNCHANGED <<on, tmp, inode, lock, wq>>

\* timer_interrupt in the kernel: accounting only.
timer_kernel ==
    /\ ~At("user") /\ InterruptsOn
    /\ counter' = CountersAfterTick
    /\ alarm' = AlarmsAfterTick
    /\ UNCHANGED <<current, state, priority, signal, blocked,
                   pc, on, tmp, inode, lock, wq>>

timer_interrupt == timer_user \/ timer_preempts \/ timer_kernel

\* The disk interrupt: end_request unlocks the buffer of the request.
end_request(b) ==
    /\ InterruptsOn
    /\ lock[b]
    /\ lock' = [lock EXCEPT ![b] = FALSE]
    /\ WakeUp(b)
    /\ UNCHANGED <<current, counter, priority, signal, blocked, alarm,
                   pc, on, tmp, inode>>

-----------------------------------------------------------------------------
\* What the current task does of its own accord ...
Voluntary == bread \/ read_inode \/ iget_wait \/ sys_pause \/ sys_alarm
             \/ sys_nice \/ sys_ssetmask \/ sys_kill

\* ... and what it does because it is in the middle of a system call.
InKernel == lock_buffer_wakes \/ bread_waits \/ wait_on_buffer_wakes
            \/ lock_inode_wakes \/ wait_on_inode_wakes \/ unlock_inode
            \/ pause_returns \/ reschedule \/ ret_from_sys_call
            \/ bread_inode_block

Disk == \E b \in Buffers : end_request(b)

Next == Voluntary \/ InKernel \/ timer_interrupt \/ Disk

Spec == Init /\ [][Next]_vars

(***************************************************************************)
(* Fairness: the processor executes the code of the current task, task 0   *)
(* is for(;;) pause(), the clock ticks, and a disk request ends.  Nothing  *)
(* is assumed of the system calls a user program makes.  The clock is      *)
(* strongly fair because interrupts are switched off now and then.         *)
(***************************************************************************)
Fairness ==
    /\ WF_vars(InKernel)
    /\ WF_vars(current = 0 /\ sys_pause)
    /\ SF_vars(timer_interrupt)
    /\ \A b \in Buffers : SF_vars(end_request(b))

FairSpec == Spec /\ Fairness

-----------------------------------------------------------------------------
\* Types; a priority stays positive (sys_nice), so that the loop of schedule()
\* which recharges the counters ends.
TypeOK ==
    /\ current \in Slot
    /\ state \in [Slot -> {RUNNING, INTERRUPTIBLE, UNINTERRUPTIBLE}]
    /\ counter \in [Slot -> Nat]
    /\ priority \in [Slot -> 1 .. MaxPriority]
    /\ signal \in [Slot -> SUBSET Signals]
    /\ blocked \in [Slot -> SUBSET Signals]
    /\ alarm \in [Slot -> 0 .. MaxAlarm + 2]
    /\ \A t \in Slot : alarm[t] > 0 => SIGALRM \in Signals
    /\ pc \in [Slot -> Points]
    /\ on \in [Slot -> Locks]
    /\ tmp \in [Slot -> Slot \cup {NoTask}]
    /\ inode \in [Slot -> SUBSET Locks]
    /\ lock \in [Locks -> BOOLEAN]
    /\ wq \in [Locks -> Slot \cup {NoTask}]

Asleep(t, q) == InSleepOn(t) /\ state[t] = UNINTERRUPTIBLE /\ on[t] = q

\* A wake-up that passes through tmp or through the head of a queue reaches a
\* task that still sleeps on that very queue: sched.c:132 and sched.c:159 write
\* task->state without looking at it, and would otherwise wake, in the middle
\* of some other wait, a task that had moved on.
WakesOnlySleepers ==
    /\ \A q \in Locks : wq[q] # NoTask => Asleep(wq[q], q)
    /\ \A s \in Slot : InSleepOn(s) /\ tmp[s] # NoTask => Asleep(tmp[s], on[s])

\* Nobody is ever forgotten.  Take any tasks that sleep on one queue, the head
\* of the queue not among them: a task outside the group is still inside
\* sleep_on and remembers one of them in tmp.  (With a single task: somebody
\* will wake it.  With several: they do not just wait for each other.)
NoLostSleeper ==
    \A q \in Locks, S \in SUBSET Slot :
        /\ S # {}
        /\ \A t \in S : Asleep(t, q)
        /\ wq[q] \notin S
        => \E t \in S, s \in Slot \ S : InSleepOn(s) /\ on[s] = q /\ tmp[s] = t

\* No wake-up is lost: while somebody sleeps on a lock that is free, somebody
\* on the same queue has been woken and is about to pass the wake-up on.
NoLostWakeup ==
    \A t \in Slot, q \in Locks : Asleep(t, q) /\ ~lock[q] =>
        \E s \in Slot : InSleepOn(s) /\ on[s] = q /\ state[s] = RUNNING /\ tmp[s] # NoTask

\* An inode is locked exactly while one task is between lock_inode and
\* unlock_inode, although that task sleeps on a buffer in between.
InodeLockHasOneOwner ==
    /\ \A t, u \in Slot : inode[t] \cap inode[u] # {} => t = u
    /\ \A i \in Inodes : lock[i] <=> \E t \in Slot : i \in inode[t]

\* Every task that can run does run: the counters, which are recharged only
\* when all of them are spent, starve nobody.
RunnableRuns == \A t \in Task : (state[t] = RUNNING) ~> (current = t)

\* Whoever sleeps on a buffer or an inode is woken up.
SleeperIsWoken ==
    \A t \in Task : (state[t] = UNINTERRUPTIBLE) ~> (state[t] = RUNNING)

\* A paused task that has set an alarm and does not block SIGALRM wakes up.
AlarmEndsPause ==
    \A t \in Task : (/\ pc[t] = "pause"
                     /\ alarm[t] > 0
                     /\ SIGALRM \notin blocked[t]) ~> (state[t] = RUNNING)

CPU == INSTANCE Processor WITH Idle <- 0, ready <- Runnable(state),
                               running <- current

\* The scheduler and all its callers implement the abstract processor: no task
\* runs that is not ready, and task 0 runs only when nobody is (schedule).
CPUSpec == CPU!Spec
=============================================================================
