---------------------------- MODULE MCInodeCache ----------------------------
(* InodeCache with every name in a directory of its own: names in one      *)
(* directory only exclude each other more.                                 *)
EXTENDS InodeCache, TLC

CONSTANTS p1, p2, p3, a, b

OwnDirs == [n \in Names |-> n]
InodeSymmetry == Permutations(Procs) \cup Permutations({a, b})

=============================================================================
