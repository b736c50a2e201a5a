---------------------------- MODULE MCBufferCache ----------------------------
(* BufferCache for TLC.  Tasks, blocks and values are interchangeable.       *)
EXTENDS BufferCache, TLC

Symmetry == Permutations(Procs) \cup Permutations(Blocks) \cup Permutations(Values)
=============================================================================
