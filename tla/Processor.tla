------------------------------ MODULE Processor ------------------------------
(***************************************************************************)
(* What a scheduler promises, whatever its policy: a task that gets the    *)
(* processor was ready, the idle task gets it only when nobody is, and a   *)
(* task that has it keeps it until it gives it up or is preempted.         *)
(***************************************************************************)
CONSTANTS Task, Idle

VARIABLES ready,    \* the tasks that could run
          running   \* the one that does

vars == <<ready, running>>

Init == ready \in SUBSET Task /\ running = Idle

\* An interrupt or the running task makes others ready.
Wake == /\ ready \subseteq ready'
        /\ ready' \subseteq Task
        /\ UNCHANGED running

\* The running task gives up the processor or is preempted.  Only it can
\* stop being ready.
Dispatch == /\ ready \ {running} \subseteq ready'
            /\ ready' \subseteq Task
            /\ running' \in IF ready' = {} THEN {Idle} ELSE ready'

Next == Wake \/ Dispatch

Spec == Init /\ [][Next]_vars
=============================================================================
