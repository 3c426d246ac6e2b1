------------------------------- MODULE MCProc -------------------------------
(* Proc on three slots and two processors: init, a parent and a child.     *)
EXTENDS Proc

CONSTANTS cpu0, cpu1, none

MCCpus == {cpu0, cpu1}

=============================================================================
