------------------------------ MODULE ProcLife ------------------------------
(***************************************************************************)
(* What fork, exit and wait promise, with no locks, no CPUs and no        *)
(* sleeping: a tree of processes in which an exit hands the children to    *)
(* init and leaves a corpse, and only the parent of a corpse buries it.    *)
(* Module Proc implements this specification.                              *)
(***************************************************************************)
EXTENDS Integers

CONSTANTS
  NPROC,      \* process slots (param.h:1)
  InitProc    \* the slot of the first process (proc.c:15)

Procs  == 1 .. NPROC
NoProc == 0

VARIABLES
  status,     \* "free", "live" or "dead", by slot
  par         \* the parent's slot, NoProc for init and for free slots

lifeVars == <<status, par>>

LifeTypeOK ==
  /\ status \in [Procs -> {"free", "live", "dead"}]
  /\ par \in [Procs -> Procs \cup {NoProc}]

LifeInit ==
  /\ status = [p \in Procs |-> IF p = InitProc THEN "live" ELSE "free"]
  /\ par = [p \in Procs |-> NoProc]

Fork(p, q) ==
  /\ status[p] = "live"
  /\ status[q] = "free"
  /\ status' = [status EXCEPT ![q] = "live"]
  /\ par' = [par EXCEPT ![q] = p]

Exit(p) ==
  /\ status[p] = "live"
  /\ p # InitProc
  /\ status' = [status EXCEPT ![p] = "dead"]
  /\ par' = [q \in Procs |-> IF par[q] = p THEN InitProc ELSE par[q]]

Reap(p, q) ==
  /\ status[p] = "live"
  /\ status[q] = "dead"
  /\ par[q] = p
  /\ status' = [status EXCEPT ![q] = "free"]
  /\ par' = [par EXCEPT ![q] = NoProc]

LifeNext ==
  \/ \E p, q \in Procs : Fork(p, q) \/ Reap(p, q)
  \/ \E p \in Procs : Exit(p)

LifeSpec == LifeInit /\ [][LifeNext]_lifeVars

=============================================================================
