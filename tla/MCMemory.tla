------------------------------ MODULE MCMemory ------------------------------
EXTENDS Memory

(* Half pages: within a page, over one, to nothing, and past KERNBASE. *)
MCSbrkSizes == {1, 3, -1, -2, 8}
=============================================================================
