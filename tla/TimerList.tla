------------------------------ MODULE TimerList ------------------------------
(***************************************************************************)
(* add_timer and the timer part of do_timer in kernel/sched.c.  The timers *)
(* are a list in which each entry counts from the one before it, so that a *)
(* tick only touches the first.  The code moves the contents of entries    *)
(* rather than links; the list is a sequence here.  A timer's function may *)
(* call add_timer itself, as the floppy driver's do.                       *)
(***************************************************************************)
EXTENDS Integers, Sequences, SequencesExt

CONSTANTS TIME_REQUESTS,  \* entries in the table
          MaxJiffies,     \* bound: the longest timer asked for
          MaxAdds         \* bound: calls of add_timer

ASSUME TimerAssumption ==
    /\ TIME_REQUESTS \in Nat \ {0} /\ MaxJiffies \in Nat /\ MaxAdds \in Nat

VARIABLES
    timers,  \* jiffies: relative to the entry before; due: history, ticks
             \* until the moment the caller asked for
    firing,  \* do_timer is in its loop
    early,   \* history: some function was called before it was due
    adds

timerVars == <<timers, firing, early, adds>>

TimerInit == timers = <<>> /\ firing = FALSE /\ early = FALSE /\ adds = 0

-----------------------------------------------------------------------------
\* Ticks until entry n of list fires.
FiresIn(list, n) ==
    LET sum[k \in 0 .. n] == IF k = 0 THEN 0 ELSE sum[k - 1] + list[k].jiffies
    IN  sum[n]

\* Mutant: the new timer stops one entry short, its time already reduced.
Inserted_oneShort(list, j) ==
    LET passed == {n \in 0 .. Len(list) :
                     \A k \in 1 .. n : list[k].jiffies < j - FiresIn(list, k - 1)}
        n == CHOOSE m \in passed : \A k \in passed : k <= m
    IN  InsertAt(list, IF n = 0 THEN 1 ELSE n, [jiffies |-> j - FiresIn(list, n), due |-> j])

\* The new timer starts at the head and passes every entry that has less
\* time left than it, losing that entry's time.
Inserted(list, j) ==
    LET passed == {n \in 0 .. Len(list) :
                     \A k \in 1 .. n : list[k].jiffies < j - FiresIn(list, k - 1)}
        n == CHOOSE m \in passed : \A k \in passed : k <= m
    IN  InsertAt(list, n + 1, [jiffies |-> j - FiresIn(list, n), due |-> j])

\* add_timer(j): a timer of no ticks is called at once and not entered.
AddTimer(list, j) == IF j <= 0 THEN list ELSE Inserted(list, j)

CanAdd(list) == adds < MaxAdds /\ Len(list) < TIME_REQUESTS

add_timer ==
    /\ ~firing /\ CanAdd(timers)
    /\ \E j \in 0 .. MaxJiffies : timers' = AddTimer(timers, j)
    /\ adds' = adds + 1
    /\ UNCHANGED <<firing, early>>

-----------------------------------------------------------------------------
\* do_timer: the first entry, if there is one, loses a tick.
tick ==
    /\ ~firing
    /\ timers' = [i \in DOMAIN timers |->
                    [jiffies |-> IF i = 1 THEN timers[i].jiffies - 1 ELSE timers[i].jiffies,
                     due |-> timers[i].due - 1]]
    /\ firing' = TRUE
    /\ UNCHANGED <<early, adds>>

\* Mutant: the entry stays in the list.
fire_keeps ==
    /\ firing /\ timers # <<>> /\ Head(timers).jiffies <= 0
    /\ UNCHANGED timerVars

\* The loop: an entry whose time has come leaves the list, then its function
\* is called, which may add a timer.
fire ==
    /\ firing /\ timers # <<>> /\ Head(timers).jiffies <= 0
    /\ early' = (early \/ Head(timers).due > 0)
    /\ \/ timers' = Tail(timers) /\ UNCHANGED adds
       \/ /\ CanAdd(Tail(timers))
          /\ \E j \in 0 .. MaxJiffies : timers' = AddTimer(Tail(timers), j)
          /\ adds' = adds + 1
    /\ UNCHANGED firing

tick_ends ==
    /\ firing /\ (timers # <<>> => Head(timers).jiffies > 0)
    /\ firing' = FALSE
    /\ UNCHANGED <<timers, early, adds>>

TimerNext == add_timer \/ tick \/ fire \/ tick_ends

-----------------------------------------------------------------------------
\* No timer is called before its time, wherever it was inserted and however
\* the list changed since; none will be (add_timer keeps the sum of the times
\* up to an entry at least as large as what that entry waits for).
NeverEarly == ~early /\ \A n \in DOMAIN timers : FiresIn(timers, n) >= timers[n].due

\* Every timer is called in the end (once no more are added).
AllFire == <>[](timers = <<>>)
=============================================================================
