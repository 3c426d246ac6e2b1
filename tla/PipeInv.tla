------------------------------ MODULE PipeInv ------------------------------
(***************************************************************************)
(* The inductive invariant of Pipe: who is about to close an end, and that *)
(* the ring is never fuller than it is long.                               *)
(***************************************************************************)
EXTENDS Pipe

Readers == {"read", "rsleeping", "rsleep"}
Writers == {"write", "wsleeping", "wsleep"}

\* An end is closed by the process that dropped its last reference.
Closing ==
  \A p \in Procs :
    /\ pc[p] \in {"closing", "exitclosing"} <=> ending[p] # "none"
    /\ ending[p] # "none" =>
         /\ ref[ending[p]] = 0
         /\ \A q \in Procs : ending[q] = ending[p] => q = p

\* A slot of the process table that is free refers to nothing.
Absent == \A p \in Procs : pc[p] = "absent" => \A e \in Ends : fds[p][e] = 0

\* The counters are at most one ring apart, whatever they wrapped around.
Ring == Count <= PIPESIZE

PInv == TypeOK /\ NoUseAfterFree /\ NoStrandedEnd /\ Closing /\ Absent /\ Ring

=============================================================================
