------------------------------- MODULE MCSched -------------------------------
(***************************************************************************)
(* Sched for TLC: no signals at all (locks only), or SIGALRM, which        *)
(* programs can also send with kill and block with ssetmask.               *)
(***************************************************************************)
EXTENDS Sched

NoSignals == {}
AlarmOnly == {SIGALRM}
=============================================================================
