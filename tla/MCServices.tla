----------------------------- MODULE MCServices -----------------------------
(***************************************************************************)
(* The services of the kernel below the file system for TLC: a pipe, the   *)
(* timer list, the two disk drivers and the console.  They share no state, *)
(* so that one of them runs in each behaviour and the others stay as they  *)
(* start.                                                                  *)
(***************************************************************************)
EXTENDS Pipe, TimerList, HardDisk, Floppy, Console

VARIABLE service  \* the one that runs

allVars == <<service, pipeVars, timerVars, hdVars, fdVars, conVars>>

\* Two partitions of a disk of one head and its sectors; blocks of them, one
\* the last, one outside.
Partitions == [d \in 0 .. 1 |-> IF d = 0 THEN [start |-> 0, size |-> 6]
                                ELSE [start |-> 1, size |-> 4]]
PartitionBlocks == {<<1, 0>>, <<0, 2>>, <<5, 0>>}
DriveBlocks == {<<0, 0>>, <<1, 1>>, <<1, 2>>}

Init ==
    /\ service \in {"pipe", "timers", "hd", "fd", "console"}
    /\ PipeInit /\ TimerInit /\ HdInit /\ FdInit /\ con_init
    /\ service # "console" => con.ega /\ con.pos = 0

Is(s) == service = s /\ UNCHANGED service

Next ==
    \/ Is("pipe") /\ PipeNext /\ UNCHANGED <<timerVars, hdVars, fdVars, conVars>>
    \/ Is("timers") /\ TimerNext /\ UNCHANGED <<pipeVars, hdVars, fdVars, conVars>>
    \/ Is("hd") /\ HdNext /\ UNCHANGED <<pipeVars, timerVars, fdVars, conVars>>
    \/ Is("fd") /\ FdNext /\ UNCHANGED <<pipeVars, timerVars, hdVars, conVars>>
    \/ Is("console") /\ con_write /\ UNCHANGED <<pipeVars, timerVars, hdVars, fdVars>>

\* The clock ticks for ever and each tick ends, the drivers' code runs on, the
\* controllers answer, timers that have run out fire, and a task that is awake
\* runs.  A pipe and the console need no fairness.
Fairness ==
    /\ WF_timerVars(service = "timers" /\ tick)
    /\ WF_timerVars(service = "timers" /\ (fire \/ tick_ends))
    /\ WF_hdVars(service = "hd" /\ DoHdRequest)
    /\ WF_hdVars(service = "hd" /\ HdInterrupt)
    /\ WF_fdVars(service = "fd" /\ DoFdRequest)
    /\ WF_fdVars(service = "fd" /\ FdInterrupt)
    /\ WF_fdVars(service = "fd" /\ FdTick)
    /\ WF_fdVars(service = "fd" /\ fd_timer_fires)
    /\ WF_fdVars(service = "fd" /\ FdTask)

Spec == Init /\ [][Next]_allVars /\ Fairness

-----------------------------------------------------------------------------
\* The types of the pipe, the two drivers and the console.
TypeOK == PipeTypeOK /\ HdTypeOK /\ FdTypeOK /\ ConTypeOK

\* Both disk drivers end every request they get, with or without an error:
\* no error, reset, recalibration, seek or motor that has to start leaves a
\* queue without the interrupt or the timer that would move it on.
RequestsEnd == HdRequestsEnd /\ FdEnds
=============================================================================
