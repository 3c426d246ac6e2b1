----------------------------- MODULE MCRunQueue -----------------------------
(* RunQueue on three slots, init, the shell and one more; two priorities to *)
(* a queue and a quantum of two ticks, so that ageing is due every fourth.  *)
EXTENDS RunQueue

\* A priority below 0, which C divides into the first queue all the same, and
\* one that names no queue.
MCPriors == {-1, 9}

=============================================================================
