----------------------------- MODULE SchedProofs -----------------------------
(***************************************************************************)
(* For every number of tasks, buffers and inodes: the types of Sched, the  *)
(* discipline of its wait queues, and that it implements Processor.        *)
(***************************************************************************)
EXTENDS Sched, TLAPS

States == {RUNNING, INTERRUPTIBLE, UNINTERRUPTIBLE}

\* What schedule() does to the task table it is called with.
LEMMA ScheduleFacts ==
    ASSUME TypeOK,
           NEW st \in [Slot -> States],
           NEW cnt \in [Slot -> Nat],
           NEW alm \in [Slot -> 0 .. MaxAlarm + 2],
           \A t \in Slot : alm[t] > 0 => SIGALRM \in Signals,
           Schedule(st, cnt, alm)
    PROVE  /\ current' \in Slot
           /\ current' # 0 => state'[current'] = RUNNING
           /\ state' \in [Slot -> States]
           /\ \A t \in Slot : /\ st[t] = UNINTERRUPTIBLE <=> state'[t] = UNINTERRUPTIBLE
                              /\ st[t] = RUNNING => state'[t] = RUNNING
           /\ counter' \in [Slot -> Nat]
           /\ signal' \in [Slot -> SUBSET Signals]
           /\ alarm' \in [Slot -> 0 .. MaxAlarm + 2]
           /\ \A t \in Slot : alarm'[t] > 0 => SIGALRM \in Signals
           /\ priority' = priority /\ blocked' = blocked
<1> USE DEF States
<1>0. Task \subseteq Slot /\ 0 \in Slot
  BY NrTasksAssumption DEF Task, Slot
<1> DEFINE sig == SignalsAfterAlarms(signal, alm)
           st1 == StatesAfterSignals(st, sig, blocked)
           cn1 == CountersAfter(st1, cnt, priority)
<1>1. /\ signal' = sig /\ alarm' = AlarmsAfterScan(alm)
      /\ state' = st1 /\ counter' = cn1 /\ current' \in NextTask(st1, cn1)
      /\ priority' = priority /\ blocked' = blocked
  BY DEF Schedule
<1>2. sig \in [Slot -> SUBSET Signals]
  BY <1>0 DEF SignalsAfterAlarms, Expired, TypeOK
<1>3. /\ AlarmsAfterScan(alm) \in [Slot -> 0 .. MaxAlarm + 2]
      /\ \A t \in Slot : AlarmsAfterScan(alm)[t] > 0 => SIGALRM \in Signals
  BY SchedAssumption DEF AlarmsAfterScan
<1>4. /\ st1 \in [Slot -> States]
      /\ \A t \in Slot : /\ st[t] = UNINTERRUPTIBLE <=> st1[t] = UNINTERRUPTIBLE
                         /\ st[t] = RUNNING => st1[t] = RUNNING
  BY DEF StatesAfterSignals, RUNNING, INTERRUPTIBLE, UNINTERRUPTIBLE
<1>5. cn1 \in [Slot -> Nat]
  <2>1. Recharged(cnt, priority) \in [Slot -> Nat]
    <3>1. \A t \in Slot : cnt[t] \div 2 \in Nat /\ priority[t] \in Nat
      BY SchedAssumption DEF TypeOK
    <3> QED BY <3>1 DEF Recharged
  <2> QED BY <2>1 DEF CountersAfter
<1>6. current' \in Slot /\ (current' # 0 => st1[current'] = RUNNING)
  BY <1>0, <1>1 DEF NextTask, Runnable
<1> HIDE DEF sig, st1, cn1
<1> QED BY <1>1, <1>2, <1>3, <1>4, <1>5, <1>6

-----------------------------------------------------------------------------
\* SetRunning (a wake-up through a pointer) keeps the task table well formed.
LEMMA SetRunningFacts ==
    ASSUME NEW st \in [Slot -> States], NEW t \in Slot \cup {NoTask}
    PROVE  /\ SetRunning(st, t) \in [Slot -> States]
           /\ \A u \in Slot : /\ u # t => SetRunning(st, t)[u] = st[u]
                              /\ u = t => SetRunning(st, t)[u] = RUNNING
BY NrTasksAssumption DEF SetRunning, States, NoTask, Slot

\* The loop around sleep_on keeps the types, if the code after it does.
LEMMA WhileLockedType ==
    ASSUME TypeOK, NEW q \in Locks, NEW where \in SleepPoints,
           NEW st \in [Slot -> States], NEW done \in BOOLEAN,
           WhileLocked(q, where, st, done),
           done => /\ pc' \in [Slot -> Points]
                   /\ on' \in [Slot -> Locks]
                   /\ inode' \in [Slot -> SUBSET Locks]
                   /\ lock' \in [Locks -> BOOLEAN]
                   /\ wq' = wq
    PROVE  TypeOK'
<1>1. CASE lock[q] /\ SleepOn(q, where, st) /\ UNCHANGED <<lock, inode>>
  <2>1. [st EXCEPT ![current] = UNINTERRUPTIBLE] \in [Slot -> States]
    BY DEF States
  <2>2. Schedule([st EXCEPT ![current] = UNINTERRUPTIBLE], counter, alarm)
    BY <1>1 DEF SleepOn
  <2>3. /\ current' \in Slot
        /\ state' \in [Slot -> States]
        /\ counter' \in [Slot -> Nat]
        /\ signal' \in [Slot -> SUBSET Signals]
        /\ alarm' \in [Slot -> 0 .. MaxAlarm + 2]
        /\ \A t \in Slot : alarm'[t] > 0 => SIGALRM \in Signals
        /\ priority' = priority /\ blocked' = blocked
    BY <2>1, <2>2, ScheduleFacts DEF TypeOK
  <2>4. /\ tmp' \in [Slot -> Slot \cup {NoTask}]
        /\ wq' \in [Locks -> Slot \cup {NoTask}]
        /\ on' \in [Slot -> Locks]
        /\ pc' \in [Slot -> Points]
    BY <1>1 DEF SleepOn, TypeOK, Goto, Points
  <2> QED BY <1>1, <2>3, <2>4 DEF TypeOK, States
<1>2. CASE ~lock[q] /\ Continue(st) /\ Forget /\ done
  BY <1>2 DEF TypeOK, Continue, Forget, States
<1> QED BY <1>1, <1>2 DEF WhileLocked

\* What a resumed sleeper finds in the task table.
LEMMA AfterSleepType == TypeOK => AfterSleep \in [Slot -> States] /\ state \in [Slot -> States]
BY SetRunningFacts DEF TypeOK, AfterSleep, States

\* A call of schedule() that changes only the caller's place keeps the types.
LEMMA ScheduleType ==
    ASSUME TypeOK,
           NEW st \in [Slot -> States], NEW cnt \in [Slot -> Nat],
           NEW alm \in [Slot -> 0 .. MaxAlarm + 2],
           \A t \in Slot : alm[t] > 0 => SIGALRM \in Signals,
           Schedule(st, cnt, alm),
           NEW where \in Points, Goto(where),
           UNCHANGED <<on, tmp, inode, lock, wq>>
    PROVE  TypeOK'
<1>1. /\ current' \in Slot
      /\ state' \in [Slot -> States]
      /\ counter' \in [Slot -> Nat]
      /\ signal' \in [Slot -> SUBSET Signals]
      /\ alarm' \in [Slot -> 0 .. MaxAlarm + 2]
      /\ \A t \in Slot : alarm'[t] > 0 => SIGALRM \in Signals
      /\ priority' = priority /\ blocked' = blocked
  BY ScheduleFacts
<1>2. pc' \in [Slot -> Points]
  BY DEF Goto, TypeOK
<1> QED BY <1>1, <1>2 DEF TypeOK, States

\* The alarms and the counters after a tick are alarms and counters.
LEMMA TickFacts ==
    ASSUME TypeOK
    PROVE  /\ CountersAfterTick \in [Slot -> Nat]
           /\ AlarmsAfterTick \in [Slot -> 0 .. MaxAlarm + 2]
           /\ \A t \in Slot : AlarmsAfterTick[t] > 0 => SIGALRM \in Signals
BY SchedAssumption DEF TypeOK, CountersAfterTick, AlarmsAfterTick, TimeLeft

\* Every variable of the scheduler keeps its type.
THEOREM TypeCorrect == Spec => []TypeOK
<1>1. Init => TypeOK
  <2> SUFFICES ASSUME Init PROVE TypeOK OBVIOUS
  <2>1. counter \in [Slot -> Nat] /\ priority \in [Slot -> 1 .. MaxPriority]
    BY SchedAssumption DEF Init
  <2>2. 0 \in Slot /\ alarm \in [Slot -> 0 .. MaxAlarm + 2]
    BY NrTasksAssumption, SchedAssumption DEF Init, Slot
  <2> QED BY <2>1, <2>2 DEF Init, TypeOK, Points
<1>2. TypeOK /\ [Next]_vars => TypeOK'
  <2> SUFFICES ASSUME TypeOK, [Next]_vars PROVE TypeOK' OBVIOUS
  <2>0. /\ AfterSleep \in [Slot -> States] /\ state \in [Slot -> States]
        /\ counter \in [Slot -> Nat] /\ alarm \in [Slot -> 0 .. MaxAlarm + 2]
        /\ \A t \in Slot : alarm[t] > 0 => SIGALRM \in Signals
    BY AfterSleepType DEF TypeOK
  <2>1. ASSUME NEW b \in Locks, NEW st \in [Slot -> States], LockBuffer(b, st) PROVE TypeOK'
    <3> DEFINE done == /\ lock' = [lock EXCEPT ![b] = TRUE]
                       /\ on' = [on EXCEPT ![current] = b]
                       /\ Goto("submitted")
                       /\ UNCHANGED <<inode, wq>>
    <3>1. WhileLocked(b, "lock_buffer", st, done)
      BY <2>1 DEF LockBuffer
    <3>2. done => /\ pc' \in [Slot -> Points]
                  /\ on' \in [Slot -> Locks]
                  /\ inode' \in [Slot -> SUBSET Locks]
                  /\ lock' \in [Locks -> BOOLEAN]
                  /\ wq' = wq
      BY DEF TypeOK, Goto, Points
    <3>3. done \in BOOLEAN /\ "lock_buffer" \in SleepPoints
      BY DEF SleepPoints
    <3> HIDE DEF done
    <3> QED BY <3>1, <3>2, <3>3, WhileLockedType
  <2>2. ASSUME NEW b \in Locks, NEW st \in [Slot -> States], WaitOnBuffer(b, st) PROVE TypeOK'
    <3> DEFINE done == /\ Goto(IF inode[current] = {} THEN "ret" ELSE "unlock")
                       /\ UNCHANGED <<lock, inode, on, wq>>
    <3>1. WhileLocked(b, "wait_on_buffer", st, done)
      BY <2>2 DEF WaitOnBuffer
    <3>2. done => /\ pc' \in [Slot -> Points]
                  /\ on' \in [Slot -> Locks]
                  /\ inode' \in [Slot -> SUBSET Locks]
                  /\ lock' \in [Locks -> BOOLEAN]
                  /\ wq' = wq
      BY DEF TypeOK, Goto, Points
    <3>3. done \in BOOLEAN /\ "wait_on_buffer" \in SleepPoints
      BY DEF SleepPoints
    <3> HIDE DEF done
    <3> QED BY <3>1, <3>2, <3>3, WhileLockedType
  <2>3. ASSUME NEW i \in Locks, NEW st \in [Slot -> States], LockInode(i, st) PROVE TypeOK'
    <3> DEFINE done == /\ lock' = [lock EXCEPT ![i] = TRUE]
                       /\ inode' = [inode EXCEPT ![current] = {i}]
                       /\ Goto("bread")
                       /\ UNCHANGED <<on, wq>>
    <3>1. WhileLocked(i, "lock_inode", st, done)
      BY <2>3 DEF LockInode
    <3>2. done => /\ pc' \in [Slot -> Points]
                  /\ on' \in [Slot -> Locks]
                  /\ inode' \in [Slot -> SUBSET Locks]
                  /\ lock' \in [Locks -> BOOLEAN]
                  /\ wq' = wq
      BY DEF TypeOK, Goto, Points
    <3>3. done \in BOOLEAN /\ "lock_inode" \in SleepPoints
      BY DEF SleepPoints
    <3> HIDE DEF done
    <3> QED BY <3>1, <3>2, <3>3, WhileLockedType
  <2>4. ASSUME NEW i \in Locks, NEW st \in [Slot -> States], WaitOnInode(i, st) PROVE TypeOK'
    <3> DEFINE done == Goto("ret") /\ UNCHANGED <<lock, inode, on, wq>>
    <3>1. WhileLocked(i, "wait_on_inode", st, done)
      BY <2>4 DEF WaitOnInode
    <3>2. done => /\ pc' \in [Slot -> Points]
                  /\ on' \in [Slot -> Locks]
                  /\ inode' \in [Slot -> SUBSET Locks]
                  /\ lock' \in [Locks -> BOOLEAN]
                  /\ wq' = wq
      BY DEF TypeOK, Goto, Points
    <3>3. done \in BOOLEAN /\ "wait_on_inode" \in SleepPoints
      BY DEF SleepPoints
    <3> HIDE DEF done
    <3> QED BY <3>1, <3>2, <3>3, WhileLockedType
  <2>5. CASE Next
    <3>0. Buffers \subseteq Locks /\ Inodes \subseteq Locks /\ on[current] \in Locks
      BY DEF Locks, TypeOK
    <3>1. CASE bread \/ bread_inode_block
      BY <2>0, <2>1, <3>0, <3>1 DEF bread, bread_inode_block
    <3>2. CASE lock_buffer_wakes
      BY <2>0, <2>1, <3>0, <3>2 DEF lock_buffer_wakes
    <3>3. CASE bread_waits \/ wait_on_buffer_wakes
      BY <2>0, <2>2, <3>0, <3>3 DEF bread_waits, wait_on_buffer_wakes
    <3>4. CASE read_inode
      BY <2>0, <2>3, <3>0, <3>4 DEF read_inode
    <3>5. CASE lock_inode_wakes
      BY <2>0, <2>3, <3>0, <3>5 DEF lock_inode_wakes
    <3>6. CASE iget_wait
      BY <2>0, <2>4, <3>0, <3>6 DEF iget_wait
    <3>7. CASE wait_on_inode_wakes
      BY <2>0, <2>4, <3>0, <3>7 DEF wait_on_inode_wakes
    <3>8. CASE unlock_inode
      <4>1. PICK i \in inode[current] : WakeUp(i) /\ lock' = [lock EXCEPT ![i] = FALSE]
        BY <3>8 DEF unlock_inode
      <4>2. i \in Locks /\ wq[i] \in Slot \cup {NoTask}
        BY DEF TypeOK
      <4>3. state' \in [Slot -> States]
        BY <2>0, <4>1, <4>2, SetRunningFacts DEF WakeUp
      <4>4. wq' \in [Locks -> Slot \cup {NoTask}] /\ lock' \in [Locks -> BOOLEAN]
        BY <4>1, <4>2 DEF WakeUp, TypeOK
      <4>5. inode' \in [Slot -> SUBSET Locks] /\ pc' \in [Slot -> Points]
        BY <3>8 DEF unlock_inode, TypeOK, Goto, Points
      <4> QED BY <3>8, <4>3, <4>4, <4>5 DEF unlock_inode, TypeOK, States
    <3>9. CASE sys_pause
      <4>1. [state EXCEPT ![current] = INTERRUPTIBLE] \in [Slot -> States]
        BY DEF TypeOK, States
      <4> QED BY <2>0, <3>9, <4>1, ScheduleType DEF sys_pause, Points
    <3>10. CASE pause_returns
      BY <3>10 DEF pause_returns, taskVars, TypeOK, Goto, Points
    <3>11. CASE sys_alarm
      <4>1. alarm' \in [Slot -> 0 .. MaxAlarm + 2] /\ SIGALRM \in Signals
        BY <3>11, SchedAssumption DEF sys_alarm, TypeOK
      <4> QED BY <3>11, <4>1 DEF sys_alarm, TypeOK, Goto, Points
    <3>12. CASE sys_nice \/ sys_ssetmask \/ sys_kill
      <4>0. Task \subseteq Slot
        BY NrTasksAssumption DEF Task, Slot
      <4> QED BY <3>12, <4>0 DEF sys_nice, sys_ssetmask, sys_kill, TypeOK, Goto, Points
    <3>13. CASE reschedule
      BY <2>0, <3>13, ScheduleType DEF reschedule, Points
    <3>14. CASE ret_from_sys_call
      BY <3>14 DEF ret_from_sys_call, SignalsAfterDelivery, Lowest, TypeOK, Goto, Points
    <3>15. CASE timer_user
      <4>1. signal' \in [Slot -> SUBSET Signals]
        BY <3>15 DEF timer_user, SignalsAfterDelivery, TypeOK
      <4> QED BY <3>15, <4>1, TickFacts DEF timer_user, TypeOK
    <3>16. CASE timer_preempts
      BY <2>0, <3>16, TickFacts, ScheduleType DEF timer_preempts, Points
    <3>17. CASE timer_kernel
      BY <3>17, TickFacts DEF timer_kernel, TypeOK
    <3>18. CASE Disk
      <4>1. PICK b \in Buffers : end_request(b)
        BY <3>18 DEF Disk
      <4>2. state' \in [Slot -> States]
        BY <2>0, <3>0, <4>1, SetRunningFacts DEF end_request, WakeUp, TypeOK
      <4> QED BY <3>0, <4>1, <4>2 DEF end_request, WakeUp, TypeOK, States
    <3> QED
      BY <2>5, <3>1, <3>2, <3>3, <3>4, <3>5, <3>6, <3>7, <3>8, <3>9, <3>10, <3>11,
         <3>12, <3>13, <3>14, <3>15, <3>16, <3>17, <3>18
      DEF Next, Voluntary, InKernel, timer_interrupt
  <2>6. CASE UNCHANGED vars
    BY <2>6 DEF vars, taskVars, TypeOK
  <2> QED BY <2>5, <2>6
<1> QED BY <1>1, <1>2, PTL DEF Spec

-----------------------------------------------------------------------------
(***************************************************************************)
(* The wait queues.  The queue is spread over the head pointer and the     *)
(* local variables of the sleepers, so the properties are not inductive by *)
(* themselves: they need that the pointers are all different, that only a  *)
(* task inside sleep_on holds one, and that a queue whose lock is free has *)
(* no head.                                                                *)
(***************************************************************************)
Distinct ==
    /\ \A s, u \in Slot : tmp[s] # NoTask /\ tmp[s] = tmp[u] => s = u
    /\ \A q \in Locks, s \in Slot : wq[q] # NoTask => tmp[s] # wq[q]

HeadIsLocked == \A q \in Locks : wq[q] # NoTask => lock[q]

IdlePoints == {"user", "pause", "ret", "resched"}

Places ==
    /\ \A s \in Slot : tmp[s] # NoTask => InSleepOn(s)
    /\ \A s \in Slot : InSleepOn(s) => state[s] \in {RUNNING, UNINTERRUPTIBLE}
    /\ \A s \in Slot : state[s] = UNINTERRUPTIBLE => InSleepOn(s)
    /\ state[current] # UNINTERRUPTIBLE
    /\ pc[0] \in IdlePoints

Queues == WakesOnlySleepers /\ NoLostSleeper /\ Distinct /\ HeadIsLocked /\ Places

\* A step that leaves the queues alone, schedule() included: it may only move
\* tasks between running and interruptible.
LEMMA QuietStep ==
    ASSUME TypeOK, TypeOK', Queues,
           UNCHANGED <<on, tmp, wq, lock>>,
           ~InSleepOn(current),
           NEW where \in Points \ SleepPoints,
           current = 0 => where \in IdlePoints,
           pc' = [pc EXCEPT ![current] = where],
           \A t \in Slot : state[t] = UNINTERRUPTIBLE <=> state'[t] = UNINTERRUPTIBLE,
           \A t \in Slot : t # current /\ state[t] = RUNNING => state'[t] = RUNNING,
           state'[current'] # UNINTERRUPTIBLE
    PROVE  Queues'
<1>0. 0 \in Slot /\ current \in Slot
  BY NrTasksAssumption DEF Slot, TypeOK
<1>1. \A t \in Slot : InSleepOn(t)' <=> InSleepOn(t)
  BY DEF InSleepOn, TypeOK
<1>2. \A t \in Slot, q \in Locks : Asleep(t, q)' <=> Asleep(t, q)
  BY <1>1 DEF Asleep
<1>3. WakesOnlySleepers'
  BY <1>1, <1>2 DEF Queues, WakesOnlySleepers, TypeOK
<1>4. NoLostSleeper'
  BY <1>1, <1>2 DEF Queues, NoLostSleeper, TypeOK
<1>5. Distinct' /\ HeadIsLocked'
  BY DEF Queues, Distinct, HeadIsLocked
<1>6. Places'
  BY <1>0, <1>1 DEF Queues, Places, TypeOK, RUNNING, UNINTERRUPTIBLE, IdlePoints
<1> QED BY <1>3, <1>4, <1>5, <1>6 DEF Queues

\* A step that releases q and wakes the head of its queue.
LEMMA WakeStep ==
    ASSUME TypeOK, TypeOK', Queues, NEW q \in Locks,
           WakeUp(q),
           lock' = [lock EXCEPT ![q] = FALSE],
           UNCHANGED <<on, tmp, current>>,
           ~InSleepOn(current),
           NEW where \in Points \ SleepPoints,
           current = 0 => where \in IdlePoints,
           pc' = [pc EXCEPT ![current] = where]
    PROVE  Queues'
<1>0. 0 \in Slot /\ current \in Slot /\ NoTask \notin Slot
  BY NrTasksAssumption DEF Slot, TypeOK, NoTask
<1>1. \A t \in Slot : InSleepOn(t)' <=> InSleepOn(t)
  BY DEF InSleepOn, TypeOK
<1>2. /\ wq' = [wq EXCEPT ![q] = NoTask]
      /\ \A t \in Slot : state'[t] = IF t = wq[q] THEN RUNNING ELSE state[t]
  BY <1>0 DEF WakeUp, SetRunning, TypeOK
<1>3. \A t \in Slot, p \in Locks : Asleep(t, p)' <=> Asleep(t, p) /\ t # wq[q]
  BY <1>1, <1>2 DEF Asleep, RUNNING, UNINTERRUPTIBLE
<1>4. WakesOnlySleepers'
  BY <1>0, <1>1, <1>2, <1>3 DEF Queues, WakesOnlySleepers, Distinct, Asleep, TypeOK
<1>5. NoLostSleeper'
  <2> SUFFICES ASSUME NEW p \in Locks, NEW S \in SUBSET Slot,
                      S # {}, \A t \in S : Asleep(t, p)', wq'[p] \notin S
               PROVE  \E t \in S, s \in Slot \ S :
                         InSleepOn(s)' /\ on'[s] = p /\ tmp'[s] = t
    BY DEF NoLostSleeper
  <2>1. (\A t \in S : Asleep(t, p) /\ t # wq[q]) /\ wq[p] \notin S
    BY <1>2, <1>3 DEF TypeOK
  <2>2. PICK t \in S, s \in Slot \ S : InSleepOn(s) /\ on[s] = p /\ tmp[s] = t
    BY <2>1 DEF Queues, NoLostSleeper
  <2> QED BY <1>1, <2>2
<1>6. Distinct' /\ HeadIsLocked'
  BY <1>2 DEF Queues, Distinct, HeadIsLocked, TypeOK
<1>7. Places'
  BY <1>0, <1>1, <1>2 DEF Queues, Places, TypeOK, RUNNING, UNINTERRUPTIBLE, IdlePoints
<1> QED BY <1>4, <1>5, <1>6, <1>7 DEF Queues

\* A step out of a loop around sleep_on, woken or never asleep.
LEMMA LeaveStep ==
    ASSUME TypeOK, TypeOK', Queues,
           state' = AfterSleep,
           Forget,
           UNCHANGED <<wq, current>>,
           \A q \in Locks : lock[q] => lock'[q],
           \A t \in Slot \ {current} : on'[t] = on[t],
           NEW where \in Points \ SleepPoints,
           current # 0,
           pc' = [pc EXCEPT ![current] = where]
    PROVE  Queues'
<1>0. 0 \in Slot /\ current \in Slot /\ NoTask \notin Slot /\ tmp[current] \in Slot \cup {NoTask}
  BY NrTasksAssumption DEF Slot, TypeOK, NoTask
<1>1. \A t \in Slot : InSleepOn(t)' <=> InSleepOn(t) /\ t # current
  BY DEF InSleepOn, TypeOK
<1>2. /\ tmp' = [tmp EXCEPT ![current] = NoTask]
      /\ \A t \in Slot : state'[t] = IF t = tmp[current] THEN RUNNING ELSE state[t]
  BY <1>0 DEF AfterSleep, SetRunning, Forget, TypeOK
<1>3. state[current] # UNINTERRUPTIBLE
  BY DEF Queues, Places
<1>4. \A t \in Slot, p \in Locks : Asleep(t, p)' <=> Asleep(t, p) /\ t # tmp[current]
  BY <1>0, <1>1, <1>2, <1>3 DEF Asleep, RUNNING, UNINTERRUPTIBLE
<1>5. WakesOnlySleepers'
  BY <1>0, <1>1, <1>2, <1>4 DEF Queues, WakesOnlySleepers, Distinct, TypeOK
<1>6. NoLostSleeper'
  <2> SUFFICES ASSUME NEW p \in Locks, NEW S \in SUBSET Slot,
                      S # {}, \A t \in S : Asleep(t, p)', wq'[p] \notin S
               PROVE  \E t \in S, s \in Slot \ S :
                         InSleepOn(s)' /\ on'[s] = p /\ tmp'[s] = t
    BY DEF NoLostSleeper
  <2>1. (\A t \in S : Asleep(t, p) /\ t # tmp[current]) /\ wq[p] \notin S
    BY <1>4
  <2>2. PICK t \in S, s \in Slot \ S : InSleepOn(s) /\ on[s] = p /\ tmp[s] = t
    BY <2>1 DEF Queues, NoLostSleeper
  <2>3. s # current
    BY <2>1, <2>2
  <2> QED BY <1>1, <1>2, <2>2, <2>3 DEF TypeOK
<1>7. Distinct' /\ HeadIsLocked'
  BY <1>0, <1>2 DEF Queues, Distinct, HeadIsLocked, TypeOK
<1>8. Places'
  BY <1>0, <1>1, <1>2, <1>3 DEF Queues, Places, TypeOK, RUNNING, UNINTERRUPTIBLE, IdlePoints
<1> QED BY <1>5, <1>6, <1>7, <1>8 DEF Queues

\* A step into sleep_on, coming from a previous sleep or not.
LEMMA SleepStep ==
    ASSUME TypeOK, TypeOK', Queues, NEW q \in Locks, NEW where \in SleepPoints,
           SleepOn(q, where, AfterSleep),
           lock[q], lock' = lock,
           InSleepOn(current) => on[current] = q,
           current # 0
    PROVE  Queues'
<1>0. 0 \in Slot /\ current \in Slot /\ NoTask \notin Slot /\ tmp[current] \in Slot \cup {NoTask}
  BY NrTasksAssumption DEF Slot, TypeOK, NoTask
<1>1. \A t \in Slot : InSleepOn(t)' <=> InSleepOn(t) \/ t = current
  BY DEF InSleepOn, TypeOK, SleepOn, Goto
<1> DEFINE st == [AfterSleep EXCEPT ![current] = UNINTERRUPTIBLE]
<1>2. st \in [Slot -> States]
  BY AfterSleepType DEF States
<1>3. /\ state' \in [Slot -> States]
      /\ current' # 0 => state'[current'] = RUNNING
      /\ current' \in Slot
      /\ \A t \in Slot : /\ st[t] = UNINTERRUPTIBLE <=> state'[t] = UNINTERRUPTIBLE
                         /\ st[t] = RUNNING => state'[t] = RUNNING
  <2>1. Schedule(st, counter, alarm)
    BY DEF SleepOn
  <2> HIDE DEF st
  <2> QED BY <1>2, <2>1, ScheduleFacts DEF TypeOK
<1>4. \A t \in Slot : st[t] = IF t = current THEN UNINTERRUPTIBLE
                              ELSE IF t = tmp[current] THEN RUNNING ELSE state[t]
  BY <1>0, AfterSleepType DEF AfterSleep, SetRunning, TypeOK
<1>5. /\ tmp' = [tmp EXCEPT ![current] = wq[q]]
      /\ wq' = [wq EXCEPT ![q] = current]
      /\ on' = [on EXCEPT ![current] = q]
  BY DEF SleepOn
<1>6. state[current] # UNINTERRUPTIBLE
  BY DEF Queues, Places
<1> HIDE DEF st
<1>7. \A t \in Slot, p \in Locks :
         Asleep(t, p)' <=> \/ t = current /\ p = q
                           \/ t # current /\ t # tmp[current] /\ Asleep(t, p)
  BY <1>0, <1>1, <1>3, <1>4, <1>5 DEF Asleep, RUNNING, UNINTERRUPTIBLE, TypeOK
<1>8. ~Asleep(current, q) /\ (tmp[current] # NoTask => Asleep(tmp[current], q))
  BY <1>0, <1>6 DEF Asleep, Queues, WakesOnlySleepers, Places
<1>9. WakesOnlySleepers'
  BY <1>0, <1>1, <1>5, <1>7, <1>8 DEF Queues, WakesOnlySleepers, Distinct, Places, TypeOK, Asleep
<1>10. NoLostSleeper'
  <2> SUFFICES ASSUME NEW p \in Locks, NEW S \in SUBSET Slot,
                      S # {}, \A t \in S : Asleep(t, p)', wq'[p] \notin S
               PROVE  \E t \in S, s \in Slot \ S :
                         InSleepOn(s)' /\ on'[s] = p /\ tmp'[s] = t
    BY DEF NoLostSleeper
  <2>0. \A t \in S : (t = current /\ p = q) \/ (t # current /\ t # tmp[current] /\ Asleep(t, p))
    BY <1>7
  <2>1. \A t \in S : t # current /\ t # tmp[current] /\ Asleep(t, p)
    BY <1>5, <2>0 DEF TypeOK
  <2>2. CASE wq[p] \in S
    <3>1. p = q
      BY <1>5, <2>2 DEF TypeOK
    <3>2. \E s \in Slot \ S : InSleepOn(s)' /\ on'[s] = p /\ tmp'[s] = wq[p]
      BY <1>0, <1>1, <1>5, <2>1, <3>1 DEF TypeOK
    <3> QED BY <2>2, <3>2
  <2>3. CASE wq[p] \notin S
    <3>1. PICK t \in S, s \in Slot \ S : InSleepOn(s) /\ on[s] = p /\ tmp[s] = t
      BY <2>1, <2>3 DEF Queues, NoLostSleeper
    <3>2. s # current
      BY <2>1, <3>1
    <3> QED BY <1>1, <1>5, <3>1, <3>2 DEF TypeOK
  <2> QED BY <2>2, <2>3
<1>11. Distinct' /\ HeadIsLocked'
  <2>1. \A s \in Slot : tmp[s] # current
    BY <1>0, <1>6 DEF Queues, Places, WakesOnlySleepers, Asleep
  <2>2. \A p \in Locks : wq[p] # current
    BY <1>0, <1>6 DEF Queues, WakesOnlySleepers, Asleep
  <2>3. \A p \in Locks : wq[q] # NoTask /\ wq[p] = wq[q] => p = q
    BY DEF Queues, WakesOnlySleepers, Asleep
  <2>4. /\ \A s \in Slot : tmp'[s] = IF s = current THEN wq[q] ELSE tmp[s]
        /\ \A p \in Locks : wq'[p] = IF p = q THEN current ELSE wq[p]
    BY <1>5 DEF TypeOK
  <2> QED BY <1>0, <2>1, <2>2, <2>3, <2>4 DEF Queues, Distinct, HeadIsLocked
<1>12. Places'
  <2>1. \A s \in Slot : tmp'[s] # NoTask => InSleepOn(s)'
    BY <1>1, <1>5 DEF Queues, Places, TypeOK
  <2>2. \A s \in Slot : InSleepOn(s)' => state'[s] \in {RUNNING, UNINTERRUPTIBLE}
    BY <1>1, <1>3, <1>4 DEF Queues, Places
  <2>3. \A s \in Slot : state'[s] = UNINTERRUPTIBLE => InSleepOn(s)'
    BY <1>1, <1>3, <1>4 DEF Queues, Places, RUNNING, UNINTERRUPTIBLE
  <2>4. pc'[0] \in IdlePoints
    BY <1>0 DEF Queues, Places, SleepOn, Goto, TypeOK
  <2>5. ~InSleepOn(0)'
    BY <2>4 DEF InSleepOn, IdlePoints, SleepPoints
  <2>6. state'[current'] # UNINTERRUPTIBLE
    BY <1>0, <1>3, <2>3, <2>5 DEF RUNNING, UNINTERRUPTIBLE
  <2> QED BY <2>1, <2>2, <2>3, <2>4, <2>6 DEF Places
<1> QED BY <1>9, <1>10, <1>11, <1>12 DEF Queues

\* The states a task continues with when it is not in sleep_on are those a
\* resumed sleeper would see with tmp = NULL.
LEMMA FreshIsAfterSleep ==
    ASSUME TypeOK, Queues, ~InSleepOn(current)
    PROVE  AfterSleep = state
BY DEF TypeOK, Queues, Places, AfterSleep, SetRunning

\* The loop around sleep_on preserves the queues.
LEMMA WhileLockedQueues ==
    ASSUME TypeOK, TypeOK', Queues, NEW q \in Locks, NEW where \in SleepPoints,
           NEW done \in BOOLEAN, NEW after \in Points \ SleepPoints,
           WhileLocked(q, where, AfterSleep, done),
           current # 0,
           InSleepOn(current) => on[current] = q,
           done => /\ wq' = wq
                   /\ \A p \in Locks : lock[p] => lock'[p]
                   /\ \A t \in Slot \ {current} : on'[t] = on[t]
                   /\ Goto(after)
    PROVE  Queues'
<1>1. CASE lock[q] /\ SleepOn(q, where, AfterSleep) /\ UNCHANGED <<lock, inode>>
  BY <1>1, SleepStep
<1>2. CASE ~lock[q] /\ Continue(AfterSleep) /\ Forget /\ done
  <2>1. state' = AfterSleep /\ current' = current
    BY <1>2 DEF Continue
  <2> QED BY <1>2, <2>1, LeaveStep DEF Goto
<1> QED BY <1>1, <1>2 DEF WhileLocked

\* The four loops, entered or resumed: in each the states are AfterSleep.
LEMMA LoopQueues ==
    ASSUME TypeOK, TypeOK', Queues, NEW q \in Locks, current # 0,
           InSleepOn(current) => on[current] = q,
           \/ LockBuffer(q, AfterSleep) \/ WaitOnBuffer(q, AfterSleep)
           \/ LockInode(q, AfterSleep) \/ WaitOnInode(q, AfterSleep)
    PROVE  Queues'
<1>0. /\ "lock_buffer" \in SleepPoints /\ "wait_on_buffer" \in SleepPoints
      /\ "lock_inode" \in SleepPoints /\ "wait_on_inode" \in SleepPoints
      /\ {"submitted", "unlock", "bread", "ret"} \subseteq Points \ SleepPoints
  BY DEF Points, SleepPoints
<1>1. CASE LockBuffer(q, AfterSleep)
  <2> DEFINE done == /\ lock' = [lock EXCEPT ![q] = TRUE]
                     /\ on' = [on EXCEPT ![current] = q]
                     /\ Goto("submitted")
                     /\ UNCHANGED <<inode, wq>>
  <2>1. WhileLocked(q, "lock_buffer", AfterSleep, done) /\ done \in BOOLEAN
    BY <1>1 DEF LockBuffer
  <2>2. done => /\ wq' = wq
                /\ \A p \in Locks : lock[p] => lock'[p]
                /\ \A t \in Slot \ {current} : on'[t] = on[t]
                /\ Goto("submitted")
    BY DEF TypeOK
  <2> HIDE DEF done
  <2> QED BY <1>0, <2>1, <2>2, WhileLockedQueues
<1>2. CASE WaitOnBuffer(q, AfterSleep)
  <2> DEFINE after == IF inode[current] = {} THEN "ret" ELSE "unlock"
             done == Goto(after) /\ UNCHANGED <<lock, inode, on, wq>>
  <2>1. WhileLocked(q, "wait_on_buffer", AfterSleep, done) /\ done \in BOOLEAN
    BY <1>2 DEF WaitOnBuffer
  <2>2. done => /\ wq' = wq
                /\ \A p \in Locks : lock[p] => lock'[p]
                /\ \A t \in Slot \ {current} : on'[t] = on[t]
                /\ Goto(after)
    OBVIOUS
  <2>3. after \in Points \ SleepPoints
    BY <1>0
  <2> HIDE DEF done, after
  <2> QED BY <1>0, <2>1, <2>2, <2>3, WhileLockedQueues
<1>3. CASE LockInode(q, AfterSleep)
  <2> DEFINE done == /\ lock' = [lock EXCEPT ![q] = TRUE]
                     /\ inode' = [inode EXCEPT ![current] = {q}]
                     /\ Goto("bread")
                     /\ UNCHANGED <<on, wq>>
  <2>1. WhileLocked(q, "lock_inode", AfterSleep, done) /\ done \in BOOLEAN
    BY <1>3 DEF LockInode
  <2>2. done => /\ wq' = wq
                /\ \A p \in Locks : lock[p] => lock'[p]
                /\ \A t \in Slot \ {current} : on'[t] = on[t]
                /\ Goto("bread")
    BY DEF TypeOK
  <2> HIDE DEF done
  <2> QED BY <1>0, <2>1, <2>2, WhileLockedQueues
<1>4. CASE WaitOnInode(q, AfterSleep)
  <2> DEFINE done == Goto("ret") /\ UNCHANGED <<lock, inode, on, wq>>
  <2>1. WhileLocked(q, "wait_on_inode", AfterSleep, done) /\ done \in BOOLEAN
    BY <1>4 DEF WaitOnInode
  <2>2. done => /\ wq' = wq
                /\ \A p \in Locks : lock[p] => lock'[p]
                /\ \A t \in Slot \ {current} : on'[t] = on[t]
                /\ Goto("ret")
    OBVIOUS
  <2> HIDE DEF done
  <2> QED BY <1>0, <2>1, <2>2, WhileLockedQueues
<1> QED BY <1>1, <1>2, <1>3, <1>4

\* A call of schedule() outside sleep_on leaves the queues alone.
LEMMA ScheduleQueues ==
    ASSUME TypeOK, TypeOK', Queues,
           NEW st \in [Slot -> States], NEW cnt \in [Slot -> Nat],
           NEW alm \in [Slot -> 0 .. MaxAlarm + 2],
           \A t \in Slot : alm[t] > 0 => SIGALRM \in Signals,
           Schedule(st, cnt, alm),
           \A t \in Slot : t # current => st[t] = state[t],
           st[current] # UNINTERRUPTIBLE,
           ~InSleepOn(current),
           NEW where \in IdlePoints, Goto(where),
           UNCHANGED <<on, tmp, inode, lock, wq>>
    PROVE  Queues'
<1>1. /\ \A t \in Slot : /\ st[t] = UNINTERRUPTIBLE <=> state'[t] = UNINTERRUPTIBLE
                         /\ st[t] = RUNNING => state'[t] = RUNNING
      /\ current' # 0 => state'[current'] = RUNNING
  BY ScheduleFacts
<1>2. state[current] # UNINTERRUPTIBLE /\ state[0] # UNINTERRUPTIBLE /\ 0 \in Slot
  BY NrTasksAssumption, SMTT(30) DEF Queues, Places, InSleepOn, IdlePoints, SleepPoints, Slot
<1>3. /\ \A t \in Slot : state[t] = UNINTERRUPTIBLE <=> state'[t] = UNINTERRUPTIBLE
      /\ \A t \in Slot : t # current /\ state[t] = RUNNING => state'[t] = RUNNING
  BY <1>1, <1>2
<1>4. state'[current'] # UNINTERRUPTIBLE
  BY <1>1, <1>2, <1>3 DEF RUNNING, UNINTERRUPTIBLE
<1>5. where \in Points \ SleepPoints
  BY DEF Points, SleepPoints, IdlePoints
<1> QED BY <1>3, <1>4, <1>5, QuietStep DEF Goto

\* Every step of the scheduler preserves the queues.
LEMMA QueuesStep == TypeOK /\ TypeOK' /\ Queues /\ [Next]_vars => Queues'
<1> SUFFICES ASSUME TypeOK, TypeOK', Queues, [Next]_vars PROVE Queues'
  OBVIOUS
<1>0. /\ Buffers \subseteq Locks /\ Inodes \subseteq Locks /\ on[current] \in Locks
      /\ state \in [Slot -> States] /\ current \in Slot
      /\ counter \in [Slot -> Nat] /\ alarm \in [Slot -> 0 .. MaxAlarm + 2]
      /\ \A t \in Slot : alarm[t] > 0 => SIGALRM \in Signals
      /\ state[current] # UNINTERRUPTIBLE
  BY DEF Locks, TypeOK, States, Queues, Places
<1>1. current = 0 => pc[current] \in IdlePoints
  BY DEF Queues, Places
<1>2. ~InSleepOn(current) => AfterSleep = state
  BY FreshIsAfterSleep
<1>3. CASE bread \/ read_inode \/ iget_wait
  <2>1. current # 0 /\ ~InSleepOn(current)
    BY <1>3 DEF bread, read_inode, iget_wait, Syscall, At, InSleepOn, SleepPoints
  <2> QED BY <1>0, <1>2, <1>3, <2>1, LoopQueues DEF bread, read_inode, iget_wait
<1>4. CASE bread_inode_block \/ bread_waits
  <2>1. current # 0 /\ ~InSleepOn(current)
    BY <1>1, <1>4 DEF bread_inode_block, bread_waits, At, InSleepOn, SleepPoints, IdlePoints
  <2> QED BY <1>0, <1>2, <1>4, <2>1, LoopQueues DEF bread_inode_block, bread_waits
<1>5. CASE \/ lock_buffer_wakes \/ wait_on_buffer_wakes
           \/ lock_inode_wakes \/ wait_on_inode_wakes
  <2>1. current # 0
    BY <1>1, <1>5 DEF lock_buffer_wakes, wait_on_buffer_wakes, lock_inode_wakes,
                      wait_on_inode_wakes, At, IdlePoints
  <2> QED BY <1>0, <1>5, <2>1, LoopQueues
          DEF lock_buffer_wakes, wait_on_buffer_wakes, lock_inode_wakes, wait_on_inode_wakes
<1>6. CASE unlock_inode
  <2>1. PICK i \in inode[current] : WakeUp(i) /\ lock' = [lock EXCEPT ![i] = FALSE]
    BY <1>6 DEF unlock_inode
  <2>2. i \in Locks
    BY <1>0 DEF TypeOK
  <2>3. ~InSleepOn(current) /\ "ret" \in Points \ SleepPoints /\ "ret" \in IdlePoints
    BY <1>6 DEF unlock_inode, At, InSleepOn, SleepPoints, Points, IdlePoints
  <2> QED BY <1>6, <2>1, <2>2, <2>3, WakeStep DEF unlock_inode, Goto
<1>7. CASE Disk
  <2>1. PICK b \in Buffers : end_request(b)
    BY <1>7 DEF Disk
  <2>2. /\ ~InSleepOn(current) /\ pc[current] \in Points \ SleepPoints
        /\ pc' = [pc EXCEPT ![current] = pc[current]]
    BY <1>0, <2>1 DEF end_request, InterruptsOn, InSleepOn, TypeOK
  <2> QED BY <1>0, <1>1, <2>1, <2>2, WakeStep DEF end_request
<1>8. CASE sys_pause
  <2> DEFINE st == [state EXCEPT ![current] = INTERRUPTIBLE]
  <2>1. /\ st \in [Slot -> States] /\ st[current] # UNINTERRUPTIBLE
        /\ \A t \in Slot : t # current => st[t] = state[t]
    BY <1>0 DEF States, INTERRUPTIBLE, UNINTERRUPTIBLE
  <2>2. Schedule(st, counter, alarm) /\ ~InSleepOn(current) /\ "pause" \in IdlePoints
    BY <1>8 DEF sys_pause, At, InSleepOn, SleepPoints, IdlePoints
  <2> HIDE DEF st
  <2> QED BY <1>0, <1>8, <2>1, <2>2, ScheduleQueues DEF sys_pause
<1>9. CASE reschedule
  <2>1. ~InSleepOn(current) /\ "resched" \in IdlePoints
    BY <1>9 DEF reschedule, At, InSleepOn, SleepPoints, IdlePoints
  <2> QED BY <1>0, <1>9, <2>1, ScheduleQueues DEF reschedule
<1>10. CASE timer_preempts
  <2>1. ~InSleepOn(current) /\ "resched" \in IdlePoints
    BY <1>10 DEF timer_preempts, At, InSleepOn, SleepPoints, IdlePoints
  <2> QED BY <1>0, <1>10, <2>1, TickFacts, ScheduleQueues DEF timer_preempts
<1>11. CASE \/ pause_returns \/ sys_alarm \/ sys_nice \/ sys_ssetmask \/ sys_kill
            \/ ret_from_sys_call
  <2>1. /\ ~InSleepOn(current)
        /\ {"ret", "user"} \subseteq Points \ SleepPoints /\ {"ret", "user"} \subseteq IdlePoints
    BY <1>11 DEF pause_returns, sys_alarm, sys_nice, sys_ssetmask, sys_kill, Syscall,
                 ret_from_sys_call, At, InSleepOn, SleepPoints, Points, IdlePoints
  <2>2. (Goto("ret") \/ Goto("user")) /\ UNCHANGED <<current, state, on, tmp, wq, lock>>
    BY <1>11 DEF pause_returns, sys_alarm, sys_nice, sys_ssetmask, sys_kill,
                 ret_from_sys_call, taskVars
  <2> QED BY <1>0, <2>1, <2>2, QuietStep DEF Goto
<1>12. CASE timer_user \/ timer_kernel
  <2>1. /\ ~InSleepOn(current) /\ pc[current] \in Points \ SleepPoints
        /\ pc' = [pc EXCEPT ![current] = pc[current]]
        /\ UNCHANGED <<current, state, on, tmp, wq, lock>>
    BY <1>0, <1>12 DEF timer_user, timer_kernel, InterruptsOn, At, InSleepOn, SleepPoints, TypeOK
  <2> QED BY <1>0, <1>1, <2>1, QuietStep
<1>13. CASE UNCHANGED vars
  BY <1>13 DEF vars, taskVars, Queues, WakesOnlySleepers, NoLostSleeper, Distinct,
               HeadIsLocked, Places, Asleep, InSleepOn
<1> QED BY <1>3, <1>4, <1>5, <1>6, <1>7, <1>8, <1>9, <1>10, <1>11, <1>12, <1>13
        DEF Next, Voluntary, InKernel, timer_interrupt

\* Initially every queue is empty.
LEMMA QueuesInit == Init => Queues
<1> SUFFICES ASSUME Init PROVE Queues
  OBVIOUS
<1>0. 0 \in Slot
  BY NrTasksAssumption DEF Slot
<1>1. \A t \in Slot : ~InSleepOn(t) /\ tmp[t] = NoTask /\ state[t] = RUNNING
  BY DEF Init, InSleepOn, SleepPoints
<1>2. \A q \in Locks : wq[q] = NoTask
  BY DEF Init
<1>3. WakesOnlySleepers /\ Distinct /\ HeadIsLocked
  BY <1>1, <1>2 DEF WakesOnlySleepers, Distinct, HeadIsLocked
<1>4. NoLostSleeper
  BY <1>1 DEF NoLostSleeper, Asleep
<1>5. Places
  BY <1>0, <1>1 DEF Init, Places, IdlePoints, RUNNING, UNINTERRUPTIBLE
<1> QED BY <1>3, <1>4, <1>5 DEF Queues

\* The queues are well formed in every state.
THEOREM QueuesCorrect == Spec => []Queues
BY TypeCorrect, QueuesInit, QueuesStep, PTL DEF Spec

\* A wake-up reaches only a task that sleeps on that queue.
THEOREM WakesOnlySleepersCorrect == Spec => []WakesOnlySleepers
<1>1. Queues => WakesOnlySleepers
  BY DEF Queues
<1> QED BY <1>1, QueuesCorrect, PTL

\* No group of sleepers is ever cut off from those who will wake it.
THEOREM NoLostSleeperCorrect == Spec => []NoLostSleeper
<1>1. Queues => NoLostSleeper
  BY DEF Queues
<1> QED BY <1>1, QueuesCorrect, PTL

\* Nobody sleeps on a free lock without a woken task ahead of it.
THEOREM NoLostWakeupCorrect == Spec => []NoLostWakeup
<1>1. TypeOK /\ Queues => NoLostWakeup
  <2> SUFFICES ASSUME TypeOK, Queues, NEW t \in Slot, NEW q \in Locks,
                      Asleep(t, q), ~lock[q]
               PROVE  \E s \in Slot : /\ InSleepOn(s) /\ on[s] = q
                                      /\ state[s] = RUNNING /\ tmp[s] # NoTask
    BY DEF NoLostWakeup
  <2> DEFINE S == {u \in Slot : Asleep(u, q)}
  <2>1. wq[q] = NoTask /\ NoTask \notin Slot
    BY NrTasksAssumption DEF Queues, HeadIsLocked, NoTask, Slot
  <2>2. PICK u \in S, s \in Slot \ S : InSleepOn(s) /\ on[s] = q /\ tmp[s] = u
    BY <2>1 DEF Queues, NoLostSleeper
  <2>3. state[s] = RUNNING
    BY <2>2 DEF Queues, Places, Asleep
  <2> QED BY <2>1, <2>2, <2>3
<1> QED BY <1>1, TypeCorrect, QueuesCorrect, PTL

-----------------------------------------------------------------------------
(***************************************************************************)
(* Sched implements Processor: only the running task stops being ready,    *)
(* and the processor is given to a ready task whenever there is one.       *)
(***************************************************************************)
LEMMA ScheduleDispatches ==
    ASSUME TypeOK,
           NEW st \in [Slot -> States], NEW cnt \in [Slot -> Nat],
           NEW alm \in [Slot -> 0 .. MaxAlarm + 2],
           \A t \in Slot : alm[t] > 0 => SIGALRM \in Signals,
           Schedule(st, cnt, alm),
           \A t \in Slot : t # current /\ state[t] = RUNNING => st[t] = RUNNING
    PROVE  CPU!Dispatch
<1>0. Task \subseteq Slot
  BY NrTasksAssumption DEF Task, Slot
<1>1. \A t \in Slot : st[t] = RUNNING => state'[t] = RUNNING
  BY ScheduleFacts
<1>2. Runnable(state) \ {current} \subseteq Runnable(state') /\ Runnable(state') \subseteq Task
  BY <1>0, <1>1 DEF Runnable
<1>3. current' \in IF Runnable(state') = {} THEN {0} ELSE Runnable(state')
  BY DEF Schedule, NextTask
<1> QED BY <1>2, <1>3 DEF CPU!Dispatch

\* A step that keeps the current task running and only wakes others.
LEMMA ContinueWakes ==
    ASSUME current' = current,
           \A t \in Task : state[t] = RUNNING => state'[t] = RUNNING
    PROVE  CPU!Wake
BY DEF CPU!Wake, Runnable

\* The loops around sleep_on either dispatch or go on.
LEMMA LoopRefines ==
    ASSUME TypeOK, NEW q, NEW where, NEW done, NEW st \in [Slot -> States],
           WhileLocked(q, where, st, done),
           \A t \in Slot : state[t] = RUNNING => st[t] = RUNNING
    PROVE  CPU!Next
<1>0. Task \subseteq Slot
  BY NrTasksAssumption DEF Task, Slot
<1>1. CASE SleepOn(q, where, st)
  <2> DEFINE st1 == [st EXCEPT ![current] = UNINTERRUPTIBLE]
  <2>1. /\ Schedule(st1, counter, alarm) /\ st1 \in [Slot -> States]
        /\ \A t \in Slot : t # current /\ state[t] = RUNNING => st1[t] = RUNNING
    BY <1>1 DEF SleepOn, States
  <2> HIDE DEF st1
  <2> QED BY <2>1, ScheduleDispatches DEF TypeOK, CPU!Next
<1>2. CASE Continue(st)
  BY <1>0, <1>2, ContinueWakes DEF Continue, CPU!Next
<1> QED BY <1>1, <1>2 DEF WhileLocked

\* The scheduler implements the abstract processor.
THEOREM ImplementsProcessor == Spec => CPUSpec
<1>1. Init => CPU!Init
  BY DEF Init, CPU!Init, Runnable
<1>2. TypeOK /\ [Next]_vars => [CPU!Next]_(CPU!vars)
  <2> SUFFICES ASSUME TypeOK, [Next]_vars PROVE CPU!Next \/ UNCHANGED CPU!vars
    OBVIOUS
  <2>0. /\ AfterSleep \in [Slot -> States] /\ state \in [Slot -> States]
        /\ \A t \in Slot : state[t] = RUNNING => AfterSleep[t] = RUNNING
        /\ counter \in [Slot -> Nat] /\ alarm \in [Slot -> 0 .. MaxAlarm + 2]
        /\ \A t \in Slot : alarm[t] > 0 => SIGALRM \in Signals
        /\ current \in Slot /\ Task \subseteq Slot
    <3>1. AfterSleep \in [Slot -> States] /\ state \in [Slot -> States]
      BY AfterSleepType
    <3>2. \A t \in Slot : state[t] = RUNNING => AfterSleep[t] = RUNNING
      BY DEF TypeOK, AfterSleep, SetRunning
    <3>3. Task \subseteq Slot
      BY NrTasksAssumption DEF Slot, Task
    <3> QED BY <3>1, <3>2, <3>3 DEF TypeOK
  <2>1. CASE \/ bread \/ read_inode \/ iget_wait \/ bread_inode_block \/ bread_waits
             \/ lock_buffer_wakes \/ wait_on_buffer_wakes
             \/ lock_inode_wakes \/ wait_on_inode_wakes
    <3>1. \E q, where, done : \/ WhileLocked(q, where, state, done)
                              \/ WhileLocked(q, where, AfterSleep, done)
      BY <2>1 DEF bread, read_inode, iget_wait, bread_inode_block, bread_waits,
                  lock_buffer_wakes, wait_on_buffer_wakes, lock_inode_wakes,
                  wait_on_inode_wakes, LockBuffer, WaitOnBuffer, LockInode, WaitOnInode
    <3> QED BY <2>0, <3>1, LoopRefines
  <2>2. CASE sys_pause
    <3> DEFINE st == [state EXCEPT ![current] = INTERRUPTIBLE]
    <3>1. /\ Schedule(st, counter, alarm) /\ st \in [Slot -> States]
          /\ \A t \in Slot : t # current /\ state[t] = RUNNING => st[t] = RUNNING
      BY <2>0, <2>2 DEF sys_pause, States
    <3> HIDE DEF st
    <3> QED BY <2>0, <3>1, ScheduleDispatches DEF CPU!Next
  <2>3. CASE reschedule
    BY <2>0, <2>3, ScheduleDispatches DEF reschedule, CPU!Next
  <2>4. CASE timer_preempts
    BY <2>0, <2>4, TickFacts, ScheduleDispatches DEF timer_preempts, CPU!Next
  <2>5. CASE unlock_inode \/ Disk
    <3>1. current' = current /\ \E q : WakeUp(q)
      BY <2>5 DEF unlock_inode, Disk, end_request
    <3>2. \A t \in Task : state[t] = RUNNING => state'[t] = RUNNING
      BY <2>0, <3>1 DEF WakeUp, SetRunning
    <3> QED BY <3>1, <3>2, ContinueWakes DEF CPU!Next
  <2>6. CASE \/ pause_returns \/ sys_alarm \/ sys_nice \/ sys_ssetmask \/ sys_kill
             \/ ret_from_sys_call \/ timer_user \/ timer_kernel \/ UNCHANGED vars
    <3>1. UNCHANGED <<current, state>>
      BY <2>6 DEF pause_returns, sys_alarm, sys_nice, sys_ssetmask, sys_kill,
                  ret_from_sys_call, timer_user, timer_kernel, vars, taskVars
    <3> QED BY <3>1, ContinueWakes DEF CPU!Next
  <2> QED BY <2>1, <2>2, <2>3, <2>4, <2>5, <2>6
          DEF Next, Voluntary, InKernel, timer_interrupt
<1> QED BY <1>1, <1>2, TypeCorrect, PTL DEF Spec, CPUSpec, CPU!Spec

(***************************************************************************)
(* The owners of the inode locks.  Strengthened with where a task can be   *)
(* while it has an inode locked, and with which kind of lock it waits for: *)
(* the disk interrupt then never releases an inode, and unlock_inode never *)
(* a buffer.                                                               *)
(***************************************************************************)
BufferPoints == {"lock_buffer", "wait_on_buffer", "submitted"}
OwnerPoints == BufferPoints \cup {"bread", "unlock"}

OwnerPlaces ==
    \A t \in Slot :
        /\ inode[t] \subseteq Inodes
        /\ \A i, j \in inode[t] : i = j
        /\ inode[t] # {} => pc[t] \in OwnerPoints
        /\ pc[t] \in BufferPoints => on[t] \in Buffers
        /\ pc[t] \in {"lock_inode", "wait_on_inode"} => on[t] \in Inodes

Owners == InodeLockHasOneOwner /\ OwnerPlaces

\* A step in which no inode is locked or unlocked.
LEMMA OwnersKept ==
    ASSUME TypeOK, Owners, inode' = inode,
           \A i \in Inodes : lock'[i] = lock[i],
           \A t \in Slot \ {current} : pc'[t] = pc[t] /\ on'[t] = on[t],
           inode[current] # {} => pc'[current] \in OwnerPoints,
           pc'[current] \in BufferPoints => on'[current] \in Buffers,
           pc'[current] \in {"lock_inode", "wait_on_inode"} => on'[current] \in Inodes
    PROVE  Owners'
<1>1. InodeLockHasOneOwner'
  BY DEF Owners, InodeLockHasOneOwner
<1>2. OwnerPlaces'
  BY DEF Owners, OwnerPlaces
<1> QED BY <1>1, <1>2 DEF Owners

\* The loops around sleep_on: a buffer's ...
LEMMA BufferLoopOwners ==
    ASSUME TypeOK, Owners, NEW b \in Buffers, NEW st,
           LockBuffer(b, st) \/ WaitOnBuffer(b, st),
           pc[current] \in OwnerPoints \/ inode[current] = {}
    PROVE  Owners'
<1>0. b \in Locks /\ b \notin Inodes /\ current \in Slot
  BY SchedAssumption DEF Locks, TypeOK
<1>1. CASE lock[b] /\ \E where \in {"lock_buffer", "wait_on_buffer"} :
                          SleepOn(b, where, st) /\ UNCHANGED <<lock, inode>>
  <2>1. PICK where \in {"lock_buffer", "wait_on_buffer"} :
          /\ pc' = [pc EXCEPT ![current] = where] /\ on' = [on EXCEPT ![current] = b]
          /\ UNCHANGED <<lock, inode>>
    BY <1>1 DEF SleepOn, Goto
  <2>2. \A t \in Slot \ {current} : pc'[t] = pc[t] /\ on'[t] = on[t]
    BY <2>1 DEF TypeOK
  <2>3. pc'[current] = where /\ on'[current] = b
    BY <1>0, <2>1 DEF TypeOK
  <2> QED BY <2>1, <2>2, <2>3, OwnersKept DEF OwnerPoints, BufferPoints
<1>2. CASE /\ lock' = [lock EXCEPT ![b] = TRUE] /\ on' = [on EXCEPT ![current] = b]
           /\ Goto("submitted") /\ UNCHANGED <<inode, wq>>
  <2>1. \A t \in Slot \ {current} : pc'[t] = pc[t] /\ on'[t] = on[t]
    BY <1>2 DEF TypeOK, Goto
  <2>2. pc'[current] = "submitted" /\ on'[current] = b
    BY <1>0, <1>2 DEF TypeOK, Goto
  <2>3. \A i \in Inodes : lock'[i] = lock[i]
    BY <1>0, <1>2 DEF TypeOK, Locks
  <2> QED BY <1>2, <2>1, <2>2, <2>3, OwnersKept DEF OwnerPoints, BufferPoints
<1>3. CASE /\ Goto(IF inode[current] = {} THEN "ret" ELSE "unlock")
           /\ UNCHANGED <<lock, inode, on, wq>>
  <2>1. \A t \in Slot \ {current} : pc'[t] = pc[t] /\ on'[t] = on[t]
    BY <1>3 DEF TypeOK, Goto
  <2>2. pc'[current] = IF inode[current] = {} THEN "ret" ELSE "unlock"
    BY <1>0, <1>3 DEF TypeOK, Goto
  <2> QED BY <1>3, <2>1, <2>2, OwnersKept DEF OwnerPoints, BufferPoints
<1> QED BY <1>1, <1>2, <1>3 DEF LockBuffer, WaitOnBuffer, WhileLocked

\* ... and an inode's, which is left with the lock when it was free.
LEMMA InodeLoopOwners ==
    ASSUME TypeOK, Owners, NEW i \in Inodes, NEW st,
           LockInode(i, st) \/ WaitOnInode(i, st),
           inode[current] = {}
    PROVE  Owners'
<1>0. i \in Locks /\ current \in Slot
  BY DEF Locks, TypeOK
<1>1. CASE lock[i] /\ \E where \in {"lock_inode", "wait_on_inode"} :
                          SleepOn(i, where, st) /\ UNCHANGED <<lock, inode>>
  <2>1. PICK where \in {"lock_inode", "wait_on_inode"} :
          /\ pc' = [pc EXCEPT ![current] = where] /\ on' = [on EXCEPT ![current] = i]
          /\ UNCHANGED <<lock, inode>>
    BY <1>1 DEF SleepOn, Goto
  <2>2. \A t \in Slot \ {current} : pc'[t] = pc[t] /\ on'[t] = on[t]
    BY <2>1 DEF TypeOK
  <2>3. pc'[current] = where /\ on'[current] = i
    BY <1>0, <2>1 DEF TypeOK
  <2> QED BY <2>1, <2>2, <2>3, OwnersKept DEF BufferPoints
<1>2. CASE /\ ~lock[i] /\ lock' = [lock EXCEPT ![i] = TRUE]
           /\ inode' = [inode EXCEPT ![current] = {i}]
           /\ Goto("bread") /\ UNCHANGED <<on, wq>>
  <2>1. /\ inode'[current] = {i} /\ pc'[current] = "bread"
        /\ \A t \in Slot \ {current} : inode'[t] = inode[t] /\ pc'[t] = pc[t]
    BY <1>0, <1>2 DEF TypeOK, Goto
  <2>2. lock'[i] = TRUE /\ \A j \in Inodes \ {i} : lock'[j] = lock[j]
    BY <1>0, <1>2 DEF TypeOK, Locks
  <2>3. \A t \in Slot : i \notin inode[t]
    BY <1>2 DEF Owners, InodeLockHasOneOwner
  <2>4. \A t, u \in Slot : inode'[t] \cap inode'[u] # {} => t = u
    <3> SUFFICES ASSUME NEW t \in Slot, NEW u \in Slot, t # u, inode'[t] \cap inode'[u] # {}
                 PROVE  FALSE
      OBVIOUS
    <3>1. CASE t # current /\ u # current
      BY <2>1, <3>1 DEF Owners, InodeLockHasOneOwner
    <3>2. CASE t = current \/ u = current
      BY <2>1, <2>3, <3>2
    <3> QED BY <3>1, <3>2
  <2>5. \A j \in Inodes : lock'[j] <=> \E t \in Slot : j \in inode'[t]
    <3> SUFFICES ASSUME NEW j \in Inodes
                 PROVE  lock'[j] <=> \E t \in Slot : j \in inode'[t]
      OBVIOUS
    <3>1. CASE j = i
      BY <1>0, <2>1, <2>2, <3>1
    <3>2. CASE j # i
      <4>1. lock'[j] = lock[j]
        BY <2>2, <3>2
      <4>2. \A t \in Slot : j \in inode'[t] <=> j \in inode[t]
        BY <2>1, <3>2
      <4>3. lock[j] <=> \E t \in Slot : j \in inode[t]
        BY DEF Owners, InodeLockHasOneOwner
      <4> QED BY <4>1, <4>2, <4>3
    <3> QED BY <3>1, <3>2
  <2>6. OwnerPlaces'
    BY <1>0, <1>2, <2>1 DEF Owners, OwnerPlaces, OwnerPoints, BufferPoints
  <2> QED BY <2>4, <2>5, <2>6 DEF Owners, InodeLockHasOneOwner
<1>3. CASE Goto("ret") /\ UNCHANGED <<lock, inode, on, wq>>
  <2>1. pc'[current] = "ret" /\ \A t \in Slot \ {current} : pc'[t] = pc[t] /\ on'[t] = on[t]
    BY <1>0, <1>3 DEF TypeOK, Goto
  <2> QED BY <1>3, <2>1, OwnersKept DEF BufferPoints
<1> QED BY <1>1, <1>2, <1>3 DEF LockInode, WaitOnInode, WhileLocked

LEMMA OwnersStep == TypeOK /\ Owners /\ [Next]_vars => Owners'
<1> SUFFICES ASSUME TypeOK, Owners, [Next]_vars PROVE Owners'
  OBVIOUS
<1>0. current \in Slot
  BY DEF TypeOK
<1>1. pc[current] \notin OwnerPoints => inode[current] = {}
  BY <1>0 DEF Owners, OwnerPlaces
<1>2. CASE bread \/ bread_inode_block \/ bread_waits \/ lock_buffer_wakes \/ wait_on_buffer_wakes
  <2>1. pc[current] \in BufferPoints => on[current] \in Buffers
    BY <1>0 DEF Owners, OwnerPlaces
  <2>2. PICK b, st : b \in Buffers /\ (LockBuffer(b, st) \/ WaitOnBuffer(b, st))
    BY <1>2, <2>1 DEF bread, bread_inode_block, bread_waits, lock_buffer_wakes,
                      wait_on_buffer_wakes, At, BufferPoints
  <2> QED BY <1>1, <2>2, BufferLoopOwners
<1>3. CASE read_inode \/ iget_wait \/ lock_inode_wakes \/ wait_on_inode_wakes
  <2>1. pc[current] \in {"lock_inode", "wait_on_inode"} => on[current] \in Inodes
    BY <1>0 DEF Owners, OwnerPlaces
  <2>2. PICK i, st : i \in Inodes /\ (LockInode(i, st) \/ WaitOnInode(i, st))
    BY <1>3, <2>1 DEF read_inode, iget_wait, lock_inode_wakes, wait_on_inode_wakes, At
  <2>3. inode[current] = {}
    BY <1>1, <1>3 DEF read_inode, iget_wait, lock_inode_wakes, wait_on_inode_wakes, Syscall, At,
                      OwnerPoints, BufferPoints
  <2> QED BY <2>2, <2>3, InodeLoopOwners
<1>4. CASE unlock_inode
  <2>1. PICK i \in inode[current] : lock' = [lock EXCEPT ![i] = FALSE]
    BY <1>4 DEF unlock_inode
  <2>2. inode[current] = {i} /\ i \in Inodes /\ i \in Locks
    BY <1>0 DEF Owners, OwnerPlaces, Locks
  <2>3. /\ inode'[current] = {} /\ pc'[current] = "ret" /\ on' = on
        /\ \A t \in Slot \ {current} : inode'[t] = inode[t] /\ pc'[t] = pc[t]
    BY <1>0, <1>4 DEF unlock_inode, Goto, TypeOK
  <2>4. lock'[i] = FALSE /\ \A j \in Inodes \ {i} : lock'[j] = lock[j]
    BY <2>1, <2>2 DEF TypeOK, Locks
  <2>5. \A t, u \in Slot : inode'[t] \cap inode'[u] # {} => t = u
    BY <2>3 DEF Owners, InodeLockHasOneOwner
  <2>6. \A t \in Slot \ {current} : i \notin inode[t]
    BY <1>0 DEF Owners, InodeLockHasOneOwner
  <2>7. \A j \in Inodes : lock'[j] <=> \E t \in Slot : j \in inode'[t]
    <3> SUFFICES ASSUME NEW j \in Inodes
                 PROVE  lock'[j] <=> \E t \in Slot : j \in inode'[t]
      OBVIOUS
    <3>1. CASE j = i
      BY <2>3, <2>4, <2>6, <3>1
    <3>2. CASE j # i
      <4>1. lock'[j] = lock[j]
        BY <2>4, <3>2
      <4>2. \A t \in Slot : j \in inode'[t] <=> j \in inode[t]
        BY <2>2, <2>3, <3>2
      <4>3. lock[j] <=> \E t \in Slot : j \in inode[t]
        BY DEF Owners, InodeLockHasOneOwner
      <4> QED BY <4>1, <4>2, <4>3
    <3> QED BY <3>1, <3>2
  <2>8. OwnerPlaces'
    BY <2>3 DEF Owners, OwnerPlaces, BufferPoints
  <2> QED BY <2>5, <2>7, <2>8 DEF Owners, InodeLockHasOneOwner
<1>5. CASE Disk
  <2>1. PICK b \in Buffers : lock' = [lock EXCEPT ![b] = FALSE] /\ UNCHANGED <<pc, on, inode>>
    BY <1>5 DEF Disk, end_request
  <2>2. \A i \in Inodes : lock'[i] = lock[i]
    BY <2>1, SchedAssumption DEF TypeOK, Locks
  <2> QED BY <1>0, <2>1, <2>2, OwnersKept DEF Owners, OwnerPlaces
<1>6. CASE sys_pause \/ sys_alarm \/ sys_nice \/ sys_ssetmask \/ sys_kill \/ pause_returns
           \/ reschedule \/ ret_from_sys_call \/ timer_preempts
  <2>1. /\ \E where \in {"ret", "user", "pause", "resched"} : Goto(where)
        /\ UNCHANGED <<on, inode, lock>> /\ pc[current] \notin OwnerPoints
    BY <1>6 DEF sys_pause, sys_alarm, sys_nice, sys_ssetmask, sys_kill, pause_returns,
                reschedule, ret_from_sys_call, timer_preempts, Syscall, At, OwnerPoints,
                BufferPoints
  <2>2. /\ pc'[current] \in {"ret", "user", "pause", "resched"}
        /\ \A t \in Slot \ {current} : pc'[t] = pc[t]
    BY <1>0, <2>1 DEF Goto, TypeOK
  <2> QED BY <1>1, <2>1, <2>2, OwnersKept DEF BufferPoints
<1>7. CASE timer_user \/ timer_kernel \/ UNCHANGED vars
  <2>1. UNCHANGED <<pc, on, inode, lock>>
    BY <1>7 DEF timer_user, timer_kernel, vars
  <2> QED BY <2>1 DEF Owners, InodeLockHasOneOwner, OwnerPlaces
<1> QED BY <1>2, <1>3, <1>4, <1>5, <1>6, <1>7 DEF Next, Voluntary, InKernel, timer_interrupt

\* An inode is locked exactly while one task is between lock_inode and
\* unlock_inode, through all the sleeps on buffers in between.
THEOREM InodeLockOwner == Spec => []InodeLockHasOneOwner
<1>1. Init => Owners
  BY SchedAssumption DEF Init, Owners, InodeLockHasOneOwner, OwnerPlaces, BufferPoints, Locks
<1>2. Owners => InodeLockHasOneOwner
  BY DEF Owners
<1> QED BY <1>1, <1>2, OwnersStep, TypeCorrect, PTL DEF Spec
=============================================================================
