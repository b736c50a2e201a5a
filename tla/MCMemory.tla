------------------------------ MODULE MCMemory ------------------------------
(* Memory for TLC: no program at all (copy on write only), or one program. *)
EXTENDS Memory

NoPrograms == {}
OneProgram == {"sh"}
=============================================================================
