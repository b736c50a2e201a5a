------------------------------ MODULE SchedOps ------------------------------
(***************************************************************************)
(* The data-level pieces of kernel/sched.c: what schedule() computes from  *)
(* the task table, and what a wake-up does to it.  They are operators on   *)
(* functions indexed by task slot, used by every module in which a task    *)
(* gives up the processor.                                                 *)
(*                                                                         *)
(* alarm is kept relative to jiffies, so that no counter grows for ever:   *)
(*   0     the slot has no alarm                                           *)
(*   1     the alarm time has passed  (alarm < jiffies)                    *)
(*   k > 1 alarm - jiffies = k - 2                                         *)
(***************************************************************************)
EXTENDS Integers, FiniteSets

CONSTANT NR_TASKS      \* number of task slots; slot 0 is the idle task

ASSUME NrTasksAssumption == NR_TASKS \in Nat /\ NR_TASKS > 1

Slot     == 0 .. NR_TASKS - 1
Task     == 1 .. NR_TASKS - 1      \* the slots the loops of schedule() visit
NoTask   == -1                     \* NULL

\* Task states (sched.h).
RUNNING         == 0
INTERRUPTIBLE   == 1
UNINTERRUPTIBLE == 2

\* Signal numbers (signal.h); SIGKILL and SIGSTOP are not in _BLOCKABLE.
SIGKILL == 9
SIGALRM == 14
SIGSTOP == 19
Unblockable == {SIGKILL, SIGSTOP}

-----------------------------------------------------------------------------
\* The first loop of schedule(): expired alarms become SIGALRM ...
Expired(alm) == {t \in Task : alm[t] = 1}

\* Mutant: the alarm is cleared but no signal is sent.
SignalsAfterAlarms_lost(sig, alm) == sig

SignalsAfterAlarms(sig, alm) ==
    [t \in Slot |-> IF t \in Expired(alm) THEN sig[t] \cup {SIGALRM} ELSE sig[t]]

AlarmsAfterScan(alm) == [t \in Slot |-> IF t \in Expired(alm) THEN 0 ELSE alm[t]]

\* ... and a signal that is not blocked ends an interruptible sleep.
StatesAfterSignals(st, sig, blk) ==
    [t \in Slot |->
        IF /\ t \in Task
           /\ st[t] = INTERRUPTIBLE
           /\ sig[t] \ (blk[t] \ Unblockable) # {}
        THEN RUNNING ELSE st[t]]

-----------------------------------------------------------------------------
\* The scheduler proper.  Slot 0 is never compared: it is what is left.
Runnable(st) == {t \in Task : st[t] = RUNNING}

\* Mutant: the counters are never recharged.
AllSpent_never(st, cnt) == FALSE

\* c = 0 after the scan: somebody can run, and nobody who can has time left.
AllSpent(st, cnt) == /\ Runnable(st) # {}
                     /\ \A t \in Runnable(st) : cnt[t] = 0

Recharged(cnt, prio) ==
    [t \in Slot |-> IF t \in Task THEN (cnt[t] \div 2) + prio[t] ELSE cnt[t]]

\* Since every priority is positive one recharge is enough to leave the loop.
CountersAfter(st, cnt, prio) ==
    IF AllSpent(st, cnt) THEN Recharged(cnt, prio) ELSE cnt

\* Mutant: the state is not looked at.
NextTask_anyState(st, cnt) ==
    {t \in Task : \A u \in Task : cnt[u] < cnt[t] \/ (cnt[u] = cnt[t] /\ u <= t)}

\* The largest counter wins; the scan goes down and compares with >, so the
\* highest slot wins a tie.  A set with one element.
NextTask(st, cnt) ==
    IF Runnable(st) = {} THEN {0}
    ELSE {t \in Runnable(st) :
            \A u \in Runnable(st) : cnt[u] < cnt[t] \/ (cnt[u] = cnt[t] /\ u <= t)}

-----------------------------------------------------------------------------
\* (*p)->state = 0 for a pointer that may be NULL.
SetRunning(st, t) == IF t = NoTask THEN st ELSE [st EXCEPT ![t] = RUNNING]

\* The signal ret_from_sys_call takes off: the lowest one not blocked.
Lowest(S) == {s \in S : \A u \in S : s <= u}
SignalsAfterDelivery(sig, blk, t) ==
    IF t = 0 THEN sig ELSE [sig EXCEPT ![t] = @ \ Lowest(@ \ blk[t])]
=============================================================================
