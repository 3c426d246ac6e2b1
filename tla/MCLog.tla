------------------------------- MODULE MCLog --------------------------------
(* Log on two blocks and three callers.  No symmetry: the run is fair.     *)
EXTENDS Log

CONSTANTS a, b, p1, p2, p3

=============================================================================
