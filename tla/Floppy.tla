------------------------------- MODULE Floppy -------------------------------
(***************************************************************************)
(* The floppy driver (kernel/blk_drv/floppy.c) with the motor timers of    *)
(* kernel/sched.c.  A request waits for its drive's motor (a timer), then  *)
(* for a seek, then for the transfer (interrupts); an error leads to a     *)
(* recalibration or a reset and a new try.  A task may look at the disk    *)
(* change line meanwhile, which needs its drive selected too.              *)
(*                                                                         *)
(* The controller is external: it answers each command with an interrupt,  *)
(* well or badly, and may not take a byte in time (output_byte then sets   *)
(* reset).  A command is short beside the motor's times, and so is the     *)
(* time until a task that is awake runs: no tick passes meanwhile.         *)
(***************************************************************************)
EXTENDS Requests

CONSTANTS Drives,         \* numbers of drives
          TrackSectors,   \* sectors of a track, over all heads
          FD_SIZE,        \* sectors of a disk
          FD_MAX_ERRORS,  \* 8 in the code
          TICKS_ON,       \* ticks a motor needs to start (HZ/2)
          TICKS_OFF,      \* ticks until it is turned off (3*HZ)
          TICKS_BIG,      \* ticks a motor stays on for a request (10000)
          FdBlocks,       \* the drives and block numbers tasks ask for
          MaxFdReqs,      \* bound: requests
          MaxChanges,     \* bound: calls of floppy_change
          MaxFaults       \* bound: times the controller does not do as told

ASSUME FloppyAssumption ==
    /\ Drives \subseteq 0 .. 3 /\ 0 \in Drives /\ FdBlocks \subseteq Drives \X Nat
    /\ TrackSectors \in Nat \ {0} /\ FD_SIZE \in Nat /\ FD_MAX_ERRORS \in Nat
    /\ MaxFdReqs \in Nat /\ MaxChanges \in Nat /\ MaxFaults \in Nat
    /\ TICKS_ON \in Nat \ {0, 1} /\ TICKS_OFF \in Nat /\ TICKS_BIG \in Nat
    /\ TICKS_OFF > TICKS_ON + 2 /\ TICKS_BIG > TICKS_OFF

VARIABLES
    fd_queue,   \* the requests, CURRENT first
    fd,         \* the driver's variables; pc: the function that runs; and
                \* faults: times the controller may still fail
    DOR,        \* current_DOR: the drive selected and the motors on
    mon, moff,  \* mon_timer, moff_timer
    fd_timers,  \* timers under way: what they call, and in how many ticks
    fdc,        \* commands given to the controller that it has not answered
    change,     \* the task in floppy_change
    made,       \* requests made
    adrift      \* history: a request came while the controller was being
                \* reset or recalibrated for none

fdVars == <<fd_queue, fd, DOR, mon, moff, fd_timers, fdc, change, made, adrift>>

FdInit ==
    /\ fd_queue = <<>> /\ fd_timers = <<>> /\ fdc = <<>> /\ made = 0 /\ adrift = FALSE
    /\ fd = [pc |-> "none", do |-> "unexpected", reset |-> FALSE, recal |-> FALSE,
             seek |-> FALSE, drive |-> 0, track |-> 255, want |-> 0, selected |-> FALSE,
             faults |-> MaxFaults]
    /\ DOR = [drive |-> 0, motors |-> {}]
    /\ mon = [d \in Drives |-> 0] /\ moff = [d \in Drives |-> 0]
    /\ change = [pc |-> "idle", nr |-> 0, left |-> MaxChanges]

-----------------------------------------------------------------------------
FD_CURRENT == Head(fd_queue)
Quiescent == fd.pc = "none"

\* do_fd_request is called; seek is cleared before the label repeat.
Enter(f) == [f EXCEPT !.pc = "do_fd_request", !.seek = FALSE]

Faulty(f) == [f EXCEPT !.faults = @ - 1]

\* A command to the controller that is answered with an interrupt for handler
\* h; the bytes may not get through.
Command(f, h) ==
    \/ fd' = [f EXCEPT !.pc = "none", !.do = h] /\ fdc' = Append(fdc, h)
    \/ /\ f.faults > 0 /\ UNCHANGED fdc
       /\ fd' = Enter([Faulty(f) EXCEPT !.do = h, !.reset = TRUE])

\* ticks_to_floppy_on(nr): the drive is selected unless another one is in use.
Selecting(nr) == [drive |-> IF fd.selected THEN DOR.drive ELSE nr,
                  motors |-> DOR.motors \cup {nr}]
ticks_to_floppy_on(nr) ==
    /\ moff' = [moff EXCEPT ![nr] = TICKS_BIG]
    /\ DOR' = Selecting(nr)
    /\ mon' = [mon EXCEPT ![nr] = IF DOR'.motors # DOR.motors THEN TICKS_ON
                                   ELSE IF DOR' # DOR /\ @ < 2 THEN 2 ELSE @]

\* floppy_deselect wakes the task that waits for its turn.
Deselected(f) == [f EXCEPT !.selected = FALSE]
TaskWoken(c) == IF c.pc = "sleep_select" THEN [c EXCEPT !.pc = "check"] ELSE c

\* end_request, which calls floppy_off
FdEnd(queue) ==
    /\ fd_queue' = Tail(queue)
    /\ moff' = [moff EXCEPT ![Head(queue).dev] = TICKS_OFF]

\* bad_flp_intr looks at CURRENT's errors again after end_request; without a
\* next request it reads what is at address 0 + 8.
bad_flp_intr(f) ==
    f.faults > 0 /\
    LET queue == [fd_queue EXCEPT ![1].errors = @ + 1]
        over == Head(queue).errors > FD_MAX_ERRORS
        rest == IF over THEN Tail(queue) ELSE queue
    IN /\ IF over THEN FdEnd(queue) /\ change' = TaskWoken(change)
          ELSE fd_queue' = queue /\ UNCHANGED <<moff, change>>
       /\ \E many \in IF rest = <<>> THEN BOOLEAN ELSE {Head(rest).errors > FD_MAX_ERRORS \div 2} :
             fd' = Enter([Faulty(f) EXCEPT !.selected = @ /\ ~over,
                                   !.reset = @ \/ many, !.recal = @ \/ ~many])

-----------------------------------------------------------------------------
fd_make_request ==
    /\ Quiescent /\ made < MaxFdReqs /\ made' = made + 1
    /\ \E b \in FdBlocks, cmd \in {READ, WRITE} :
          fd_queue' = AddRequest(fd_queue, Request(made', cmd, b[1], b[2]))
    /\ fd' = IF fd_queue = <<>> THEN Enter(fd) ELSE fd
    /\ adrift' = (adrift \/ (fd_queue = <<>> /\ fdc # <<>>))
    /\ UNCHANGED <<DOR, mon, moff, fd_timers, fdc, change>>

\* do_fd_request: one action for each way it goes.
In(pc) == fd.pc = pc
reset_floppy ==
    /\ In("do_fd_request") /\ fd.reset
    /\ fd' = [fd EXCEPT !.pc = "none", !.do = "reset_interrupt", !.reset = FALSE, !.recal = TRUE]
    /\ fdc' = <<"reset_interrupt">>
    /\ UNCHANGED <<fd_queue, DOR, mon, moff, fd_timers, change, made, adrift>>

recalibrate_floppy ==
    /\ In("do_fd_request") /\ ~fd.reset /\ fd.recal
    /\ Command([fd EXCEPT !.recal = FALSE, !.track = 0], "recal_interrupt")
    /\ UNCHANGED <<fd_queue, DOR, mon, moff, fd_timers, change, made, adrift>>

fd_no_request ==
    /\ In("do_fd_request") /\ ~fd.reset /\ ~fd.recal /\ fd_queue = <<>>
    /\ fd' = [fd EXCEPT !.pc = "none"]
    /\ UNCHANGED <<fd_queue, DOR, mon, moff, fd_timers, fdc, change, made, adrift>>

Drive(f) == [f EXCEPT !.drive = FD_CURRENT.dev, !.seek = @ \/ f.drive # FD_CURRENT.dev]

fd_off_device ==
    /\ In("do_fd_request") /\ ~fd.reset /\ ~fd.recal /\ fd_queue # <<>>
    /\ FD_CURRENT.sector + 2 > FD_SIZE
    /\ fd' = Drive(fd) /\ FdEnd(fd_queue)
    /\ UNCHANGED <<DOR, mon, fd_timers, fdc, change, made, adrift>>

do_fd_request ==
    /\ In("do_fd_request") /\ ~fd.reset /\ ~fd.recal /\ fd_queue # <<>>
    /\ FD_CURRENT.sector + 2 <= FD_SIZE
    /\ ticks_to_floppy_on(FD_CURRENT.dev)
    /\ LET want == FD_CURRENT.sector \div TrackSectors
           f == [Drive(fd) EXCEPT !.want = want, !.seek = @ \/ want # fd.track]
           wait == mon'[FD_CURRENT.dev]
       IN IF wait = 0
          THEN fd' = [f EXCEPT !.pc = "floppy_on_interrupt"] /\ UNCHANGED fd_timers
          ELSE /\ fd' = [f EXCEPT !.pc = "none"]
               /\ fd_timers' = Append(fd_timers, [fn |-> "floppy_on_interrupt", left |-> wait])
    /\ UNCHANGED <<fd_queue, fdc, change, made, adrift>>

\* Mutant: the drive is used as it is.
floppy_on_interrupt_trusting ==
    /\ In("floppy_on_interrupt")
    /\ fd' = [fd EXCEPT !.pc = "transfer", !.selected = TRUE]
    /\ UNCHANGED <<DOR, fd_timers, fd_queue, mon, moff, fdc, change, made, adrift>>

floppy_on_interrupt ==
    /\ In("floppy_on_interrupt")
    /\ IF fd.drive = DOR.drive
       THEN fd' = [fd EXCEPT !.pc = "transfer", !.selected = TRUE] /\ UNCHANGED <<DOR, fd_timers>>
       ELSE /\ fd' = [fd EXCEPT !.pc = "none", !.selected = TRUE]
            /\ DOR' = [DOR EXCEPT !.drive = fd.drive]
            /\ fd_timers' = Append(fd_timers, [fn |-> "transfer", left |-> 2])
    /\ UNCHANGED <<fd_queue, mon, moff, fdc, change, made, adrift>>

transfer ==
    /\ In("transfer")
    /\ \/ /\ fd.faults > 0 /\ UNCHANGED fdc   \* FD_SPECIFY does not get through
          /\ fd' = Enter([Faulty(fd) EXCEPT !.reset = TRUE])
       \/ fd.reset /\ fd' = Enter(fd) /\ UNCHANGED fdc
       \/ ~fd.reset /\ ~fd.seek /\ fd' = [fd EXCEPT !.pc = "setup_rw_floppy"] /\ UNCHANGED fdc
       \/ ~fd.reset /\ fd.seek /\ Command(fd, "seek_interrupt")
    /\ UNCHANGED <<fd_queue, DOR, mon, moff, fd_timers, change, made, adrift>>

setup_rw_floppy ==
    /\ In("setup_rw_floppy")
    /\ Command(fd, "rw_interrupt")
    /\ UNCHANGED <<fd_queue, DOR, mon, moff, fd_timers, change, made, adrift>>

-----------------------------------------------------------------------------
\* An interrupt: floppy_interrupt has cleared do_floppy.  A handler that
\* expects a request does not run without one (see adrift).
Answered(h) == /\ Quiescent /\ fdc # <<>> /\ fd.do = h /\ fdc' = Tail(fdc)
Handled == [fd EXCEPT !.do = "unexpected"]

rw_interrupt ==
    /\ Answered("rw_interrupt") /\ fd_queue # <<>>
    /\ \/ bad_flp_intr(Handled)
       \/ /\ fd' = Enter(Deselected(Handled)) /\ change' = TaskWoken(change)   \* done, or write protected
          /\ FdEnd(fd_queue)
    /\ UNCHANGED <<DOR, mon, fd_timers, made, adrift>>

seek_interrupt ==
    /\ Answered("seek_interrupt") /\ fd_queue # <<>>
    /\ \/ bad_flp_intr(Handled)
       \/ /\ fd' = [Handled EXCEPT !.pc = "setup_rw_floppy", !.track = fd.want]
          /\ UNCHANGED <<fd_queue, moff, change>>
    /\ UNCHANGED <<DOR, mon, fd_timers, made, adrift>>

recal_interrupt ==
    /\ Answered("recal_interrupt")
    /\ \/ fd.faults > 0 /\ fd' = Enter([Faulty(Handled) EXCEPT !.reset = TRUE])
       \/ fd' = Enter([Handled EXCEPT !.recal = FALSE])
    /\ UNCHANGED <<fd_queue, DOR, mon, moff, fd_timers, change, made, adrift>>

reset_interrupt ==
    /\ Answered("reset_interrupt")
    /\ \/ fd' = Enter(Handled)
       \/ fd.faults > 0 /\ fd' = Enter([Faulty(Handled) EXCEPT !.reset = TRUE])
    /\ UNCHANGED <<fd_queue, DOR, mon, moff, fd_timers, change, made, adrift>>

unexpected_floppy_interrupt ==
    /\ Answered("unexpected")
    /\ \/ fd' = [fd EXCEPT !.recal = TRUE]
       \/ fd.faults > 0 /\ fd' = [Faulty(fd) EXCEPT !.reset = TRUE]
    /\ UNCHANGED <<fd_queue, DOR, mon, moff, fd_timers, change, made, adrift>>

-----------------------------------------------------------------------------
\* do_timer: the timers, which fire in the next steps, and do_floppy_timer.
\* (The code calls the timers' functions first; they do not touch the motors
\* and their times.)
FdTick ==
    /\ Quiescent /\ fdc = <<>> /\ change.pc \notin {"floppy_on", "check"}
    /\ \A i \in DOMAIN fd_timers : fd_timers[i].left > 0
    /\ fd_timers # <<>> \/ DOR.motors # {}
    /\ fd_timers' = [i \in DOMAIN fd_timers |-> [fd_timers[i] EXCEPT !.left = @ - 1]]
    /\ LET off == {d \in DOR.motors : mon[d] = 0 /\ moff[d] = 0}
           started == {d \in DOR.motors : mon[d] = 1}
       IN /\ DOR' = [DOR EXCEPT !.motors = @ \ off]
          /\ mon' = [d \in Drives |-> IF d \in DOR.motors /\ mon[d] > 0 THEN mon[d] - 1 ELSE mon[d]]
          /\ moff' = [d \in Drives |-> IF d \in DOR.motors /\ mon[d] = 0 /\ moff[d] > 0
                                       THEN moff[d] - 1 ELSE moff[d]]
          /\ change' = IF change.pc = "sleep_motor" /\ change.nr \in started
                       THEN [change EXCEPT !.pc = "floppy_on"] ELSE change
    /\ UNCHANGED <<fd_queue, fd, fdc, made, adrift>>

fd_timer_fires ==
    /\ Quiescent
    /\ \E i \in DOMAIN fd_timers : /\ fd_timers[i].left = 0
                                   /\ fd' = [fd EXCEPT !.pc = fd_timers[i].fn]
                                   /\ fd_timers' = RemoveAt(fd_timers, i)
    /\ UNCHANGED <<fd_queue, DOR, mon, moff, fdc, change, made, adrift>>

\* floppy_change: floppy_on until the motor runs, then wait for the drive.
change_starts ==
    /\ Quiescent /\ change.pc = "idle" /\ change.left > 0
    /\ \E nr \in Drives : change' = [pc |-> "floppy_on", nr |-> nr, left |-> change.left - 1]
    /\ UNCHANGED <<fd_queue, fd, DOR, mon, moff, fd_timers, fdc, made, adrift>>

floppy_on ==
    /\ Quiescent /\ change.pc = "floppy_on"
    /\ ticks_to_floppy_on(change.nr)
    /\ change' = [change EXCEPT !.pc = IF mon'[change.nr] > 0 THEN "sleep_motor" ELSE "check"]
    /\ UNCHANGED <<fd_queue, fd, fd_timers, fdc, made, adrift>>

floppy_change ==
    /\ Quiescent /\ change.pc = "check"
    /\ \/ /\ DOR.drive = change.nr   \* floppy_off
          /\ moff' = [moff EXCEPT ![change.nr] = TICKS_OFF]
          /\ change' = [change EXCEPT !.pc = "idle"]
       \/ /\ DOR.drive # change.nr /\ UNCHANGED moff
          /\ change' = [change EXCEPT !.pc = IF fd.selected THEN "sleep_select" ELSE "floppy_on"]
    /\ UNCHANGED <<fd_queue, fd, DOR, mon, fd_timers, fdc, made, adrift>>

DoFdRequest == \/ reset_floppy \/ recalibrate_floppy \/ fd_no_request \/ fd_off_device
               \/ do_fd_request \/ floppy_on_interrupt \/ transfer \/ setup_rw_floppy
FdInterrupt == \/ rw_interrupt \/ seek_interrupt \/ recal_interrupt \/ reset_interrupt
               \/ unexpected_floppy_interrupt
FdTask == floppy_on \/ floppy_change
FdNext == \/ fd_make_request \/ DoFdRequest \/ FdInterrupt
          \/ FdTick \/ fd_timer_fires \/ change_starts \/ FdTask

FdSpec == FdInit /\ [][FdNext]_fdVars

-----------------------------------------------------------------------------
\* Types.
FdTypeOK ==
    /\ fd.drive \in Drives /\ DOR.drive \in Drives /\ DOR.motors \subseteq Drives
    /\ \A i \in DOMAIN fd_queue : fd_queue[i].errors <= FD_MAX_ERRORS
    /\ mon \in [Drives -> 0 .. Max({TICKS_ON, 2})] /\ moff \in [Drives -> 0 .. TICKS_BIG]

\* When a seek or a transfer is set up, and until the controller has answered,
\* there is a request, its drive is the one selected and its motor is on,
\* although floppy_change selects other drives and turns motors off meanwhile
\* ("called when everything should be correctly set up for the transfer").
RightDrive ==
    ~adrift /\ (In("setup_rw_floppy") \/ {"seek_interrupt", "rw_interrupt"} \cap Range(fdc) # {}) =>
       /\ fd_queue # <<>> /\ fd.drive = FD_CURRENT.dev
       /\ DOR.drive = fd.drive /\ fd.drive \in DOR.motors

\* Every request ends, and floppy_change returns, once the controller no
\* longer fails (a recalibration that fails is not counted and is tried again
\* without end).
FdEnds == []<>(adrift \/ (fd_queue = <<>> /\ change.pc = "idle"))
=============================================================================
