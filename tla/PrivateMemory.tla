---------------------------- MODULE PrivateMemory ----------------------------
(***************************************************************************)
(* What mm/memory.c promises its users: every task has memory of its own.  *)
(* A write changes one page of the task that writes and nothing else; fork *)
(* gives the child a copy of the parent's memory as it is at that moment;  *)
(* execve replaces it by the program, exit clears it.  Frames, sharing and *)
(* copy on write cannot be seen.                                           *)
(***************************************************************************)
CONSTANTS Task, Page, Val, Zero, Exes, Image(_, _)

VARIABLE mem  \* mem[t][k]: what task t reads in its page k

Blank == [k \in Page |-> Zero]

Init == mem = [t \in Task |-> Blank]

Write(t, k, v) == mem' = [mem EXCEPT ![t][k] = v]
Fork(t, u)     == t # u /\ mem[u] = Blank /\ mem' = [mem EXCEPT ![u] = mem[t]]
Clear(t)       == mem' = [mem EXCEPT ![t] = Blank]
Load(t, e)     == mem[t] = Blank /\ mem' = [mem EXCEPT ![t] = [k \in Page |-> Image(e, k)]]

Next == \E t \in Task :
            \/ \E k \in Page, v \in Val : Write(t, k, v)
            \/ \E u \in Task : Fork(t, u)
            \/ Clear(t)
            \/ \E e \in Exes : Load(t, e)

Spec == Init /\ [][Next]_mem
=============================================================================
