------------------------------- MODULE MCPipe -------------------------------
(* Pipe with interchangeable processes.                                    *)
EXTENDS Pipe, TLC

CONSTANTS p1, p2, p3

PipeSymmetry == Permutations({p1, p2, p3})

=============================================================================
