------------------------------- MODULE MCNamei -------------------------------
(* Namei for TLC: a file or directory in the root directory, one in that     *)
(* directory, and the directory's name with '/' behind it.  The processes    *)
(* are interchangeable.                                                      *)
EXTENDS Namei, TLC

CONSTANTS name1, name2

TwoLevels == {<<name1>>, <<name1, name2>>, <<name1, NoName>>}
Flags == {{}, {"creat", "write"}, {"trunc"}}
Symmetry == Permutations(Procs)
=============================================================================
