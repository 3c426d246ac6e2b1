------------------------------- MODULE ProcInv ------------------------------
(***************************************************************************)
(* The inductive invariant of Proc: what is true between any two steps and *)
(* makes RunningIsUnique, SwitchDiscipline, NoMissedExit, NoMissedTick and *)
(* the refinement of ProcLife true.                                        *)
(***************************************************************************)
EXTENDS Proc

\* Where a thread holds ptable.lock, and where it holds tickslock.
HoldsPt == {"forkret", "wscan", "wsleep", "tsleep"}
HoldsTk == {"tloop", "tlock"}

\* The scheduler's scan runs with no process and no interrupt on its CPU.
ScanIsAlone == \A c \in CPUs : scan[c] > 0 => cproc[c] = NoProc /\ irq[c] = "none"

\* A handler never runs on top of a critical section, and tickslock is held
\* by the handler that counts or by a process inside sys_sleep's loop.
TickDiscipline ==
  \A c \in CPUs :
    /\ tklock = c <=> irq[c] = "wake" \/ (cproc[c] # NoProc /\ pc[cproc[c]] \in HoldsTk)
    /\ irq[c] # "none" =>
         ptlock # c /\ (cproc[c] # NoProc => pc[cproc[c]] \notin HoldsTk)

\* What a process that is not running resumes with: ptable.lock in hand and
\* no other lock.
Resumable ==
  \A p \in Procs :
    /\ state[p] = "RUNNABLE" => sw[p] \/ pc[p] \in HoldsPt
    /\ sw[p] => state[p] \in {"RUNNABLE", "RUNNING"} /\ pc[p] \notin HoldsPt \cup HoldsTk
    /\ state[p] \in {"UNUSED", "EMBRYO", "ZOMBIE"} <=> pc[p] = "none"
    /\ state[p] = "SLEEPING" =>
         \/ pc[p] = "wsleep" /\ chan[p] = p
         \/ pc[p] = "tsleep" /\ chan[p] = TickChan

\* The slot fork() is filling stays its own until fork() is done with it:
\* allocproc's unlocked tail and the unlocked error path meet no other fork.
Forking ==
  \A p \in Procs :
    /\ pc[p] = "fork" <=> np[p] # NoProc
    /\ np[p] # NoProc => state[np[p]] = "EMBRYO"
    /\ \A q \in Procs : np[p] = np[q] /\ np[p] # NoProc => p = q

Control == RunningIsUnique /\ SwitchDiscipline /\ ScanIsAlone /\ TickDiscipline
             /\ Resumable /\ Forking

\* A slot that carries no process has no parent, nobody is its own; init is
\* alive and has none.
Roots ==
  /\ \A p \in Procs : parent[p] # p
  /\ \A p \in Procs : ~InUse(p) => parent[p] = NoProc
  /\ InUse(InitProc) /\ state[InitProc] # "ZOMBIE" /\ parent[InitProc] = NoProc

\* Between sys_sleep's check and its switch no tick is counted.
TickLeft == \A p \in Procs : pc[p] = "tlock" => left[p] > 0

\* All of it: inductive, by ProcProofs.
IInv == TypeOK /\ Control /\ Roots /\ NoOrphan /\ NoMissedExit /\ TickLeft /\ NoMissedTick

=============================================================================
