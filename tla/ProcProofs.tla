----------------------------- MODULE ProcProofs -----------------------------
(***************************************************************************)
(* IInv is inductive, so every safety property of Proc holds for every     *)
(* number of slots and CPUs, and Proc implements ProcLife.                 *)
(*                                                                         *)
(* The invariant is proved in layers, each with one step per action: types *)
(* alone; who holds the CPUs and the locks (Control); the tree of parents; *)
(* the two kinds of sleepers.                                              *)
(***************************************************************************)
EXTENDS ProcInv, TLAPS

\* The few facts about numbers the actions rest on: slots, the scan's range,
\* and channels that are not slots.
LEMMA Ranges ==
  /\ InitProc \in Procs
  /\ NoProc \notin Procs /\ NoProc = 0 /\ NoChan = 0 /\ TickChan \notin Procs
  /\ 0 \in 0 .. NPROC + 1 /\ 1 \in 0 .. NPROC + 1
  /\ \A p \in Procs : p + 1 \in 0 .. NPROC + 1 /\ p + 1 > 0
  /\ \A c \in CPUs : c # NoCpu
  BY ProcAssumption DEF Procs, InitProc, NoProc, NoChan, TickChan

\* Every action keeps every variable in its type.
LEMMA TypeInd ==
  TypeOK /\ [Next]_vars => TypeOK'
<1> SUFFICES ASSUME TypeOK, [Next]_vars PROVE TypeOK'
  OBVIOUS
<1> USE ProcAssumption, Ranges
    DEF TypeOK, States, PCs, vars, procVars, threads, cpuVars, locks
<1>1. ASSUME NEW c \in CPUs, SchedEnter(c) PROVE TypeOK'
  BY <1>1 DEF SchedEnter
<1>2. ASSUME NEW c \in CPUs, SchedPick(c) PROVE TypeOK'
  BY <1>2 DEF SchedPick, First, Ready
<1>3. ASSUME NEW c \in CPUs, SchedDone(c) PROVE TypeOK'
  BY <1>3 DEF SchedDone, Ready
<1>4. ASSUME NEW c \in CPUs, TimerIrq(c) PROVE TypeOK'
  BY <1>4 DEF TimerIrq
<1>5. ASSUME NEW c \in CPUs, TickWakeup(c) PROVE TypeOK'
  BY <1>5 DEF TickWakeup, WokenBy
<1>6. ASSUME NEW c \in CPUs, TrapKilled(c) PROVE TypeOK'
  BY <1>6 DEF TrapKilled
<1>7. ASSUME NEW c \in CPUs, TrapYield(c) PROVE TypeOK'
  BY <1>7 DEF TrapYield, Sched
<1>8. ASSUME NEW c \in CPUs, TrapIdle(c) PROVE TypeOK'
  BY <1>8 DEF TrapIdle
<1>9. ASSUME NEW c \in CPUs, YieldReturn(c) PROVE TypeOK'
  BY <1>9 DEF YieldReturn
<1>10. ASSUME NEW c \in CPUs, NEW p \in Procs, SysEnter(c, p) PROVE TypeOK'
  BY <1>10 DEF SysEnter, At
<1>11. ASSUME NEW c \in CPUs, NEW p \in Procs, TrapReturn(c, p) PROVE TypeOK'
  BY <1>11 DEF TrapReturn, At
<1>12. ASSUME NEW c \in CPUs, NEW p \in Procs, ForkAlloc(c, p) PROVE TypeOK'
  BY <1>12 DEF ForkAlloc, At, First, Unused
<1>13. ASSUME NEW c \in CPUs, NEW p \in Procs, ForkNoSlot(c, p) PROVE TypeOK'
  BY <1>13 DEF ForkNoSlot, At, Unused
<1>14. ASSUME NEW c \in CPUs, NEW p \in Procs, ForkNoMem(c, p) PROVE TypeOK'
  BY <1>14 DEF ForkNoMem, At
<1>15. ASSUME NEW c \in CPUs, NEW p \in Procs, ForkRun(c, p) PROVE TypeOK'
  BY <1>15 DEF ForkRun, At
<1>16. ASSUME NEW c \in CPUs, NEW p \in Procs, Forkret(c, p) PROVE TypeOK'
  BY <1>16 DEF Forkret, At
<1>17. ASSUME NEW c \in CPUs, NEW p \in Procs, SysExit(c, p) PROVE TypeOK'
  BY <1>17 DEF SysExit, At
<1>18. ASSUME NEW c \in CPUs, NEW p \in Procs, ExitZombie(c, p) PROVE TypeOK'
  BY <1>18 DEF ExitZombie, At, Sched, WokenByExit, WokenBy
<1>19. ASSUME NEW c \in CPUs, NEW p \in Procs, WaitReap(c, p) PROVE TypeOK'
  BY <1>19 DEF WaitReap, At, InWait, First, Corpses, Kids
<1>20. ASSUME NEW c \in CPUs, NEW p \in Procs, WaitFail(c, p) PROVE TypeOK'
  BY <1>20 DEF WaitFail, At, InWait, Corpses, Kids
<1>21. ASSUME NEW c \in CPUs, NEW p \in Procs, WaitSleep(c, p) PROVE TypeOK'
  BY <1>21 DEF WaitSleep, At, InWait, Sched, Corpses, Kids
<1>22. ASSUME NEW c \in CPUs, NEW p \in Procs, WaitResume(c, p) PROVE TypeOK'
  BY <1>22 DEF WaitResume, At
<1>23. ASSUME NEW c \in CPUs, NEW p \in Procs, Kill(c, p) PROVE TypeOK'
  BY <1>23 DEF Kill, At, First, HavePid
<1>24. ASSUME NEW c \in CPUs, NEW p \in Procs, SleepEnter(c, p) PROVE TypeOK'
  BY <1>24 DEF SleepEnter, At
<1>25. ASSUME NEW c \in CPUs, NEW p \in Procs, SleepDone(c, p) PROVE TypeOK'
  BY <1>25 DEF SleepDone, At
<1>26. ASSUME NEW c \in CPUs, NEW p \in Procs, SleepCheck(c, p) PROVE TypeOK'
  BY <1>26 DEF SleepCheck, At
<1>27. ASSUME NEW c \in CPUs, NEW p \in Procs, SleepCommit(c, p) PROVE TypeOK'
  BY <1>27 DEF SleepCommit, At, Sched
<1>28. ASSUME NEW c \in CPUs, NEW p \in Procs, SleepResume(c, p) PROVE TypeOK'
  BY <1>28 DEF SleepResume, At
<1>29. ASSUME NEW c \in CPUs, NEW p \in Procs, SleepReacquire(c, p) PROVE TypeOK'
  BY <1>29 DEF SleepReacquire, At
<1>30. CASE UNCHANGED vars
  BY <1>30
<1> QED
  BY <1>1, <1>2, <1>3, <1>4, <1>5, <1>6, <1>7, <1>8, <1>9, <1>10, <1>11, <1>12, <1>13, <1>14, <1>15,
     <1>16, <1>17, <1>18, <1>19, <1>20, <1>21, <1>22, <1>23, <1>24, <1>25, <1>26, <1>27, <1>28, <1>29, <1>30
     DEF Next, SchedStep, IrqStep, Syscall, WaitStep, ForkEnd, SleepStep, KernelStep

\* Who runs where and who holds which lock: needs nothing but types.
LEMMA ControlInd ==
  TypeOK /\ Control /\ [Next]_vars => Control'
<1> SUFFICES ASSUME TypeOK, Control, [Next]_vars PROVE Control'
  OBVIOUS
<1> USE ProcAssumption, Ranges
    DEF TypeOK, States, PCs, vars, procVars, threads, cpuVars, locks,
        Control, RunningIsUnique, SwitchDiscipline, ScanIsAlone, TickDiscipline,
        Resumable, Forking, HoldsPt, HoldsTk
<1>1. ASSUME NEW c \in CPUs, SchedEnter(c) PROVE Control'
  BY <1>1 DEF SchedEnter
<1>2. ASSUME NEW c \in CPUs, SchedPick(c) PROVE Control'
  BY <1>2 DEF SchedPick, First, Ready
<1>3. ASSUME NEW c \in CPUs, SchedDone(c) PROVE Control'
  BY <1>3 DEF SchedDone, Ready
<1>4. ASSUME NEW c \in CPUs, TimerIrq(c) PROVE Control'
  BY <1>4 DEF TimerIrq
<1>5. ASSUME NEW c \in CPUs, TickWakeup(c) PROVE Control'
  BY <1>5 DEF TickWakeup, WokenBy
<1>6. ASSUME NEW c \in CPUs, TrapKilled(c) PROVE Control'
  BY <1>6 DEF TrapKilled
<1>7. ASSUME NEW c \in CPUs, TrapYield(c) PROVE Control'
  BY <1>7 DEF TrapYield, Sched
<1>8. ASSUME NEW c \in CPUs, TrapIdle(c) PROVE Control'
  BY <1>8 DEF TrapIdle
<1>9. ASSUME NEW c \in CPUs, YieldReturn(c) PROVE Control'
  BY <1>9 DEF YieldReturn
<1>10. ASSUME NEW c \in CPUs, NEW p \in Procs, SysEnter(c, p) PROVE Control'
  BY <1>10 DEF SysEnter, At
<1>11. ASSUME NEW c \in CPUs, NEW p \in Procs, TrapReturn(c, p) PROVE Control'
  BY <1>11 DEF TrapReturn, At
<1>12. ASSUME NEW c \in CPUs, NEW p \in Procs, ForkAlloc(c, p) PROVE Control'
  BY <1>12 DEF ForkAlloc, At, First, Unused
<1>13. ASSUME NEW c \in CPUs, NEW p \in Procs, ForkNoSlot(c, p) PROVE Control'
  BY <1>13 DEF ForkNoSlot, At, Unused
<1>14. ASSUME NEW c \in CPUs, NEW p \in Procs, ForkNoMem(c, p) PROVE Control'
  BY <1>14 DEF ForkNoMem, At
<1>15. ASSUME NEW c \in CPUs, NEW p \in Procs, ForkRun(c, p) PROVE Control'
  BY <1>15 DEF ForkRun, At
<1>16. ASSUME NEW c \in CPUs, NEW p \in Procs, Forkret(c, p) PROVE Control'
  BY <1>16 DEF Forkret, At
<1>17. ASSUME NEW c \in CPUs, NEW p \in Procs, SysExit(c, p) PROVE Control'
  BY <1>17 DEF SysExit, At
<1>18. ASSUME NEW c \in CPUs, NEW p \in Procs, ExitZombie(c, p) PROVE Control'
  BY <1>18 DEF ExitZombie, At, Sched, WokenByExit, WokenBy
<1>19. ASSUME NEW c \in CPUs, NEW p \in Procs, WaitReap(c, p) PROVE Control'
  BY <1>19 DEF WaitReap, At, InWait, First, Corpses, Kids
<1>20. ASSUME NEW c \in CPUs, NEW p \in Procs, WaitFail(c, p) PROVE Control'
  BY <1>20 DEF WaitFail, At, InWait, Corpses, Kids
<1>21. ASSUME NEW c \in CPUs, NEW p \in Procs, WaitSleep(c, p) PROVE Control'
  BY <1>21 DEF WaitSleep, At, InWait, Sched, Corpses, Kids
<1>22. ASSUME NEW c \in CPUs, NEW p \in Procs, WaitResume(c, p) PROVE Control'
  BY <1>22 DEF WaitResume, At
<1>23. ASSUME NEW c \in CPUs, NEW p \in Procs, Kill(c, p) PROVE Control'
  BY <1>23 DEF Kill, At, First, HavePid
<1>24. ASSUME NEW c \in CPUs, NEW p \in Procs, SleepEnter(c, p) PROVE Control'
  BY <1>24 DEF SleepEnter, At
<1>25. ASSUME NEW c \in CPUs, NEW p \in Procs, SleepDone(c, p) PROVE Control'
  BY <1>25 DEF SleepDone, At
<1>26. ASSUME NEW c \in CPUs, NEW p \in Procs, SleepCheck(c, p) PROVE Control'
  BY <1>26 DEF SleepCheck, At
<1>27. ASSUME NEW c \in CPUs, NEW p \in Procs, SleepCommit(c, p) PROVE Control'
  BY <1>27 DEF SleepCommit, At, Sched
<1>28. ASSUME NEW c \in CPUs, NEW p \in Procs, SleepResume(c, p) PROVE Control'
  BY <1>28 DEF SleepResume, At
<1>29. ASSUME NEW c \in CPUs, NEW p \in Procs, SleepReacquire(c, p) PROVE Control'
  BY <1>29 DEF SleepReacquire, At
<1>30. CASE UNCHANGED vars
  BY <1>30
<1> HIDE DEF TypeOK, States, PCs, vars, procVars, threads, cpuVars, locks,
             Control, RunningIsUnique, SwitchDiscipline, ScanIsAlone, TickDiscipline,
             Resumable, Forking, HoldsPt, HoldsTk
<1> QED
  BY <1>1, <1>2, <1>3, <1>4, <1>5, <1>6, <1>7, <1>8, <1>9, <1>10, <1>11, <1>12, <1>13, <1>14, <1>15,
     <1>16, <1>17, <1>18, <1>19, <1>20, <1>21, <1>22, <1>23, <1>24, <1>25, <1>26, <1>27, <1>28, <1>29, <1>30
     DEF Next, SchedStep, IrqStep, Syscall, WaitStep, ForkEnd, SleepStep, KernelStep

\* The tree of parents: fork hangs a child below a running process, exit
\* passes the children on, wait takes away a leaf.
LEMMA TreeInd ==
  TypeOK /\ Control /\ Roots /\ NoOrphan /\ [Next]_vars => (Roots /\ NoOrphan)'
<1> SUFFICES ASSUME TypeOK, Control, Roots, NoOrphan, [Next]_vars PROVE (Roots /\ NoOrphan)'
  OBVIOUS
<1> USE ProcAssumption, Ranges
    DEF TypeOK, States, PCs, vars, procVars, threads, cpuVars, locks,
        Control, RunningIsUnique, SwitchDiscipline, ScanIsAlone, TickDiscipline,
        Resumable, Forking, HoldsPt, HoldsTk,
        Roots, NoOrphan, InUse
<1>1. ASSUME NEW c \in CPUs, SchedEnter(c) PROVE (Roots /\ NoOrphan)'
  BY <1>1 DEF SchedEnter
<1>2. ASSUME NEW c \in CPUs, SchedPick(c) PROVE (Roots /\ NoOrphan)'
  BY <1>2 DEF SchedPick, First, Ready
<1>3. ASSUME NEW c \in CPUs, SchedDone(c) PROVE (Roots /\ NoOrphan)'
  BY <1>3 DEF SchedDone, Ready
<1>4. ASSUME NEW c \in CPUs, TimerIrq(c) PROVE (Roots /\ NoOrphan)'
  BY <1>4 DEF TimerIrq
<1>5. ASSUME NEW c \in CPUs, TickWakeup(c) PROVE (Roots /\ NoOrphan)'
  BY <1>5 DEF TickWakeup, WokenBy
<1>6. ASSUME NEW c \in CPUs, TrapKilled(c) PROVE (Roots /\ NoOrphan)'
  BY <1>6 DEF TrapKilled
<1>7. ASSUME NEW c \in CPUs, TrapYield(c) PROVE (Roots /\ NoOrphan)'
  BY <1>7 DEF TrapYield, Sched
<1>8. ASSUME NEW c \in CPUs, TrapIdle(c) PROVE (Roots /\ NoOrphan)'
  BY <1>8 DEF TrapIdle
<1>9. ASSUME NEW c \in CPUs, YieldReturn(c) PROVE (Roots /\ NoOrphan)'
  BY <1>9 DEF YieldReturn
<1>10. ASSUME NEW c \in CPUs, NEW p \in Procs, SysEnter(c, p) PROVE (Roots /\ NoOrphan)'
  BY <1>10 DEF SysEnter, At
<1>11. ASSUME NEW c \in CPUs, NEW p \in Procs, TrapReturn(c, p) PROVE (Roots /\ NoOrphan)'
  BY <1>11 DEF TrapReturn, At
<1>12. ASSUME NEW c \in CPUs, NEW p \in Procs, ForkAlloc(c, p) PROVE (Roots /\ NoOrphan)'
  BY <1>12 DEF ForkAlloc, At, First, Unused
<1>13. ASSUME NEW c \in CPUs, NEW p \in Procs, ForkNoSlot(c, p) PROVE (Roots /\ NoOrphan)'
  BY <1>13 DEF ForkNoSlot, At, Unused
<1>14. ASSUME NEW c \in CPUs, NEW p \in Procs, ForkNoMem(c, p) PROVE (Roots /\ NoOrphan)'
  BY <1>14 DEF ForkNoMem, At
<1>15. ASSUME NEW c \in CPUs, NEW p \in Procs, ForkRun(c, p) PROVE (Roots /\ NoOrphan)'
  BY <1>15 DEF ForkRun, At
<1>16. ASSUME NEW c \in CPUs, NEW p \in Procs, Forkret(c, p) PROVE (Roots /\ NoOrphan)'
  BY <1>16 DEF Forkret, At
<1>17. ASSUME NEW c \in CPUs, NEW p \in Procs, SysExit(c, p) PROVE (Roots /\ NoOrphan)'
  BY <1>17 DEF SysExit, At
<1>18. ASSUME NEW c \in CPUs, NEW p \in Procs, ExitZombie(c, p) PROVE (Roots /\ NoOrphan)'
  BY <1>18 DEF ExitZombie, At, Sched, WokenByExit, WokenBy
<1>19. ASSUME NEW c \in CPUs, NEW p \in Procs, WaitReap(c, p) PROVE (Roots /\ NoOrphan)'
  BY <1>19 DEF WaitReap, At, InWait, First, Corpses, Kids
<1>20. ASSUME NEW c \in CPUs, NEW p \in Procs, WaitFail(c, p) PROVE (Roots /\ NoOrphan)'
  BY <1>20 DEF WaitFail, At, InWait, Corpses, Kids
<1>21. ASSUME NEW c \in CPUs, NEW p \in Procs, WaitSleep(c, p) PROVE (Roots /\ NoOrphan)'
  BY <1>21 DEF WaitSleep, At, InWait, Sched, Corpses, Kids
<1>22. ASSUME NEW c \in CPUs, NEW p \in Procs, WaitResume(c, p) PROVE (Roots /\ NoOrphan)'
  BY <1>22 DEF WaitResume, At
<1>23. ASSUME NEW c \in CPUs, NEW p \in Procs, Kill(c, p) PROVE (Roots /\ NoOrphan)'
  BY <1>23 DEF Kill, At, First, HavePid
<1>24. ASSUME NEW c \in CPUs, NEW p \in Procs, SleepEnter(c, p) PROVE (Roots /\ NoOrphan)'
  BY <1>24 DEF SleepEnter, At
<1>25. ASSUME NEW c \in CPUs, NEW p \in Procs, SleepDone(c, p) PROVE (Roots /\ NoOrphan)'
  BY <1>25 DEF SleepDone, At
<1>26. ASSUME NEW c \in CPUs, NEW p \in Procs, SleepCheck(c, p) PROVE (Roots /\ NoOrphan)'
  BY <1>26 DEF SleepCheck, At
<1>27. ASSUME NEW c \in CPUs, NEW p \in Procs, SleepCommit(c, p) PROVE (Roots /\ NoOrphan)'
  BY <1>27 DEF SleepCommit, At, Sched
<1>28. ASSUME NEW c \in CPUs, NEW p \in Procs, SleepResume(c, p) PROVE (Roots /\ NoOrphan)'
  BY <1>28 DEF SleepResume, At
<1>29. ASSUME NEW c \in CPUs, NEW p \in Procs, SleepReacquire(c, p) PROVE (Roots /\ NoOrphan)'
  BY <1>29 DEF SleepReacquire, At
<1>30. CASE UNCHANGED vars
  BY <1>30
<1> QED
  BY <1>1, <1>2, <1>3, <1>4, <1>5, <1>6, <1>7, <1>8, <1>9, <1>10, <1>11, <1>12, <1>13, <1>14, <1>15,
     <1>16, <1>17, <1>18, <1>19, <1>20, <1>21, <1>22, <1>23, <1>24, <1>25, <1>26, <1>27, <1>28, <1>29, <1>30
     DEF Next, SchedStep, IrqStep, Syscall, WaitStep, ForkEnd, SleepStep, KernelStep

\* A waiting parent has a living child, no corpse and no kill to answer.
LEMMA WaitInd ==
  IInv /\ [Next]_vars => NoMissedExit'
<1> SUFFICES ASSUME IInv, [Next]_vars PROVE NoMissedExit'
  OBVIOUS
<1> USE ProcAssumption, Ranges
    DEF IInv,
        TypeOK, States, PCs, vars, procVars, threads, cpuVars, locks,
        Control, RunningIsUnique, SwitchDiscipline, ScanIsAlone, TickDiscipline,
        Resumable, Forking, HoldsPt, HoldsTk,
        Roots, NoMissedExit, InUse, Kids, Corpses
<1>1. ASSUME NEW c \in CPUs, SchedEnter(c) PROVE NoMissedExit'
  BY <1>1 DEF SchedEnter
<1>2. ASSUME NEW c \in CPUs, SchedPick(c) PROVE NoMissedExit'
  BY <1>2 DEF SchedPick, First, Ready
<1>3. ASSUME NEW c \in CPUs, SchedDone(c) PROVE NoMissedExit'
  BY <1>3 DEF SchedDone, Ready
<1>4. ASSUME NEW c \in CPUs, TimerIrq(c) PROVE NoMissedExit'
  BY <1>4 DEF TimerIrq
<1>5. ASSUME NEW c \in CPUs, TickWakeup(c) PROVE NoMissedExit'
  BY <1>5 DEF TickWakeup, WokenBy
<1>6. ASSUME NEW c \in CPUs, TrapKilled(c) PROVE NoMissedExit'
  BY <1>6 DEF TrapKilled
<1>7. ASSUME NEW c \in CPUs, TrapYield(c) PROVE NoMissedExit'
  BY <1>7 DEF TrapYield, Sched
<1>8. ASSUME NEW c \in CPUs, TrapIdle(c) PROVE NoMissedExit'
  BY <1>8 DEF TrapIdle
<1>9. ASSUME NEW c \in CPUs, YieldReturn(c) PROVE NoMissedExit'
  BY <1>9 DEF YieldReturn
<1>10. ASSUME NEW c \in CPUs, NEW p \in Procs, SysEnter(c, p) PROVE NoMissedExit'
  BY <1>10 DEF SysEnter, At
<1>11. ASSUME NEW c \in CPUs, NEW p \in Procs, TrapReturn(c, p) PROVE NoMissedExit'
  BY <1>11 DEF TrapReturn, At
<1>12. ASSUME NEW c \in CPUs, NEW p \in Procs, ForkAlloc(c, p) PROVE NoMissedExit'
  BY <1>12 DEF ForkAlloc, At, First, Unused
<1>13. ASSUME NEW c \in CPUs, NEW p \in Procs, ForkNoSlot(c, p) PROVE NoMissedExit'
  BY <1>13 DEF ForkNoSlot, At, Unused
<1>14. ASSUME NEW c \in CPUs, NEW p \in Procs, ForkNoMem(c, p) PROVE NoMissedExit'
  BY <1>14 DEF ForkNoMem, At
<1>15. ASSUME NEW c \in CPUs, NEW p \in Procs, ForkRun(c, p) PROVE NoMissedExit'
  BY <1>15 DEF ForkRun, At
<1>16. ASSUME NEW c \in CPUs, NEW p \in Procs, Forkret(c, p) PROVE NoMissedExit'
  BY <1>16 DEF Forkret, At
<1>17. ASSUME NEW c \in CPUs, NEW p \in Procs, SysExit(c, p) PROVE NoMissedExit'
  BY <1>17 DEF SysExit, At
<1>18. ASSUME NEW c \in CPUs, NEW p \in Procs, ExitZombie(c, p) PROVE NoMissedExit'
  <2>1. SUFFICES ASSUME NEW r \in Procs, state'[r] = "SLEEPING", pc'[r] = "wsleep"
                 PROVE (Corpses(r) = {} /\ Kids(r) # {} /\ ~killed[r])'
    OBVIOUS
  <2>2. r # p /\ state[r] = "SLEEPING" /\ pc[r] = "wsleep" /\ chan[r] = r /\ r \notin WokenByExit(p)
    BY <1>18, <2>1 DEF ExitZombie, Sched
  <2>3. parent[p] # r
    BY <2>2 DEF WokenByExit, WokenBy
  <2>4. r = InitProc => ~\E q \in Procs : parent[q] = p /\ state[q] = "ZOMBIE"
    BY <2>2 DEF WokenByExit, WokenBy
  <2>5. \A q \in Procs : state'[q] = "ZOMBIE" => q = p \/ state[q] = "ZOMBIE"
    BY <1>18 DEF ExitZombie
  <2>6. \A q \in Procs : parent'[q] = IF parent[q] = p THEN InitProc ELSE parent[q]
    BY <1>18 DEF ExitZombie
  <2>7. \A q \in Procs : ~(parent'[q] = r /\ state'[q] = "ZOMBIE")
    BY <2>2, <2>3, <2>4, <2>5, <2>6
  <2>8. \E q \in Procs : parent'[q] = r
    BY <2>2, <2>6
  <2> QED
    BY <1>18, <2>2, <2>7, <2>8 DEF ExitZombie
<1>19. ASSUME NEW c \in CPUs, NEW p \in Procs, WaitReap(c, p) PROVE NoMissedExit'
  BY <1>19 DEF WaitReap, At, InWait, First
<1>20. ASSUME NEW c \in CPUs, NEW p \in Procs, WaitFail(c, p) PROVE NoMissedExit'
  BY <1>20 DEF WaitFail, At, InWait
<1>21. ASSUME NEW c \in CPUs, NEW p \in Procs, WaitSleep(c, p) PROVE NoMissedExit'
  BY <1>21 DEF WaitSleep, At, InWait, Sched
<1>22. ASSUME NEW c \in CPUs, NEW p \in Procs, WaitResume(c, p) PROVE NoMissedExit'
  BY <1>22 DEF WaitResume, At
<1>23. ASSUME NEW c \in CPUs, NEW p \in Procs, Kill(c, p) PROVE NoMissedExit'
  BY <1>23 DEF Kill, At, First, HavePid
<1>24. ASSUME NEW c \in CPUs, NEW p \in Procs, SleepEnter(c, p) PROVE NoMissedExit'
  BY <1>24 DEF SleepEnter, At
<1>25. ASSUME NEW c \in CPUs, NEW p \in Procs, SleepDone(c, p) PROVE NoMissedExit'
  BY <1>25 DEF SleepDone, At
<1>26. ASSUME NEW c \in CPUs, NEW p \in Procs, SleepCheck(c, p) PROVE NoMissedExit'
  BY <1>26 DEF SleepCheck, At
<1>27. ASSUME NEW c \in CPUs, NEW p \in Procs, SleepCommit(c, p) PROVE NoMissedExit'
  BY <1>27 DEF SleepCommit, At, Sched
<1>28. ASSUME NEW c \in CPUs, NEW p \in Procs, SleepResume(c, p) PROVE NoMissedExit'
  BY <1>28 DEF SleepResume, At
<1>29. ASSUME NEW c \in CPUs, NEW p \in Procs, SleepReacquire(c, p) PROVE NoMissedExit'
  BY <1>29 DEF SleepReacquire, At
<1>30. CASE UNCHANGED vars
  BY <1>30
<1> QED
  BY <1>1, <1>2, <1>3, <1>4, <1>5, <1>6, <1>7, <1>8, <1>9, <1>10, <1>11, <1>12, <1>13, <1>14, <1>15,
     <1>16, <1>17, <1>18, <1>19, <1>20, <1>21, <1>22, <1>23, <1>24, <1>25, <1>26, <1>27, <1>28, <1>29, <1>30
     DEF Next, SchedStep, IrqStep, Syscall, WaitStep, ForkEnd, SleepStep, KernelStep

\* A sleeper has a tick to go or the handler about to wake it.
LEMMA TickInd ==
  IInv /\ [Next]_vars => (TickLeft /\ NoMissedTick)'
<1> SUFFICES ASSUME IInv, [Next]_vars PROVE (TickLeft /\ NoMissedTick)'
  OBVIOUS
<1> USE ProcAssumption, Ranges
    DEF IInv,
        TypeOK, States, PCs, vars, procVars, threads, cpuVars, locks,
        Control, RunningIsUnique, SwitchDiscipline, ScanIsAlone, TickDiscipline,
        Resumable, Forking, HoldsPt, HoldsTk,
        TickLeft, NoMissedTick
<1>1. ASSUME NEW c \in CPUs, SchedEnter(c) PROVE (TickLeft /\ NoMissedTick)'
  BY <1>1 DEF SchedEnter
<1>2. ASSUME NEW c \in CPUs, SchedPick(c) PROVE (TickLeft /\ NoMissedTick)'
  BY <1>2 DEF SchedPick, First, Ready
<1>3. ASSUME NEW c \in CPUs, SchedDone(c) PROVE (TickLeft /\ NoMissedTick)'
  BY <1>3 DEF SchedDone, Ready
<1>4. ASSUME NEW c \in CPUs, TimerIrq(c) PROVE (TickLeft /\ NoMissedTick)'
  <2>1. \A p \in Procs : pc[p] = "tlock" => tklock \in CPUs
    OBVIOUS
  <2>2. CASE tklock' = c /\ tklock = NoCpu /\ irq' = [irq EXCEPT ![c] = "wake"]
    BY <1>4, <2>1, <2>2 DEF TimerIrq
  <2>3. CASE UNCHANGED left /\ irq' = [irq EXCEPT ![c] = "tail"]
    BY <1>4, <2>3 DEF TimerIrq
  <2> QED
    BY <1>4, <2>2, <2>3 DEF TimerIrq
<1>5. ASSUME NEW c \in CPUs, TickWakeup(c) PROVE (TickLeft /\ NoMissedTick)'
  BY <1>5 DEF TickWakeup, WokenBy
<1>6. ASSUME NEW c \in CPUs, TrapKilled(c) PROVE (TickLeft /\ NoMissedTick)'
  BY <1>6 DEF TrapKilled
<1>7. ASSUME NEW c \in CPUs, TrapYield(c) PROVE (TickLeft /\ NoMissedTick)'
  BY <1>7 DEF TrapYield, Sched
<1>8. ASSUME NEW c \in CPUs, TrapIdle(c) PROVE (TickLeft /\ NoMissedTick)'
  BY <1>8 DEF TrapIdle
<1>9. ASSUME NEW c \in CPUs, YieldReturn(c) PROVE (TickLeft /\ NoMissedTick)'
  BY <1>9 DEF YieldReturn
<1>10. ASSUME NEW c \in CPUs, NEW p \in Procs, SysEnter(c, p) PROVE (TickLeft /\ NoMissedTick)'
  BY <1>10 DEF SysEnter, At
<1>11. ASSUME NEW c \in CPUs, NEW p \in Procs, TrapReturn(c, p) PROVE (TickLeft /\ NoMissedTick)'
  BY <1>11 DEF TrapReturn, At
<1>12. ASSUME NEW c \in CPUs, NEW p \in Procs, ForkAlloc(c, p) PROVE (TickLeft /\ NoMissedTick)'
  BY <1>12 DEF ForkAlloc, At, First, Unused
<1>13. ASSUME NEW c \in CPUs, NEW p \in Procs, ForkNoSlot(c, p) PROVE (TickLeft /\ NoMissedTick)'
  BY <1>13 DEF ForkNoSlot, At, Unused
<1>14. ASSUME NEW c \in CPUs, NEW p \in Procs, ForkNoMem(c, p) PROVE (TickLeft /\ NoMissedTick)'
  BY <1>14 DEF ForkNoMem, At
<1>15. ASSUME NEW c \in CPUs, NEW p \in Procs, ForkRun(c, p) PROVE (TickLeft /\ NoMissedTick)'
  BY <1>15 DEF ForkRun, At
<1>16. ASSUME NEW c \in CPUs, NEW p \in Procs, Forkret(c, p) PROVE (TickLeft /\ NoMissedTick)'
  BY <1>16 DEF Forkret, At
<1>17. ASSUME NEW c \in CPUs, NEW p \in Procs, SysExit(c, p) PROVE (TickLeft /\ NoMissedTick)'
  BY <1>17 DEF SysExit, At
<1>18. ASSUME NEW c \in CPUs, NEW p \in Procs, ExitZombie(c, p) PROVE (TickLeft /\ NoMissedTick)'
  BY <1>18 DEF ExitZombie, At, Sched, WokenByExit, WokenBy
<1>19. ASSUME NEW c \in CPUs, NEW p \in Procs, WaitReap(c, p) PROVE (TickLeft /\ NoMissedTick)'
  BY <1>19 DEF WaitReap, At, InWait, First, Corpses, Kids
<1>20. ASSUME NEW c \in CPUs, NEW p \in Procs, WaitFail(c, p) PROVE (TickLeft /\ NoMissedTick)'
  BY <1>20 DEF WaitFail, At, InWait, Corpses, Kids
<1>21. ASSUME NEW c \in CPUs, NEW p \in Procs, WaitSleep(c, p) PROVE (TickLeft /\ NoMissedTick)'
  BY <1>21 DEF WaitSleep, At, InWait, Sched, Corpses, Kids
<1>22. ASSUME NEW c \in CPUs, NEW p \in Procs, WaitResume(c, p) PROVE (TickLeft /\ NoMissedTick)'
  BY <1>22 DEF WaitResume, At
<1>23. ASSUME NEW c \in CPUs, NEW p \in Procs, Kill(c, p) PROVE (TickLeft /\ NoMissedTick)'
  BY <1>23 DEF Kill, At, First, HavePid
<1>24. ASSUME NEW c \in CPUs, NEW p \in Procs, SleepEnter(c, p) PROVE (TickLeft /\ NoMissedTick)'
  BY <1>24 DEF SleepEnter, At
<1>25. ASSUME NEW c \in CPUs, NEW p \in Procs, SleepDone(c, p) PROVE (TickLeft /\ NoMissedTick)'
  BY <1>25 DEF SleepDone, At
<1>26. ASSUME NEW c \in CPUs, NEW p \in Procs, SleepCheck(c, p) PROVE (TickLeft /\ NoMissedTick)'
  BY <1>26 DEF SleepCheck, At
<1>27. ASSUME NEW c \in CPUs, NEW p \in Procs, SleepCommit(c, p) PROVE (TickLeft /\ NoMissedTick)'
  BY <1>27 DEF SleepCommit, At, Sched
<1>28. ASSUME NEW c \in CPUs, NEW p \in Procs, SleepResume(c, p) PROVE (TickLeft /\ NoMissedTick)'
  BY <1>28 DEF SleepResume, At
<1>29. ASSUME NEW c \in CPUs, NEW p \in Procs, SleepReacquire(c, p) PROVE (TickLeft /\ NoMissedTick)'
  BY <1>29 DEF SleepReacquire, At
<1>30. CASE UNCHANGED vars
  BY <1>30
<1> QED
  BY <1>1, <1>2, <1>3, <1>4, <1>5, <1>6, <1>7, <1>8, <1>9, <1>10, <1>11, <1>12, <1>13, <1>14, <1>15,
     <1>16, <1>17, <1>18, <1>19, <1>20, <1>21, <1>22, <1>23, <1>24, <1>25, <1>26, <1>27, <1>28, <1>29, <1>30
     DEF Next, SchedStep, IrqStep, Syscall, WaitStep, ForkEnd, SleepStep, KernelStep

\* The invariant holds once userinit() has run.
LEMMA IInvInit == Init => IInv
<1> SUFFICES ASSUME Init PROVE IInv
  OBVIOUS
<1> USE ProcAssumption, Ranges DEF Init
<1>1. TypeOK
  BY DEF TypeOK, States, PCs
<1>2. Control
  BY DEF Control, RunningIsUnique, SwitchDiscipline, ScanIsAlone, TickDiscipline,
         Resumable, Forking, HoldsPt, HoldsTk
<1>3. Roots /\ NoOrphan
  BY DEF Roots, NoOrphan, InUse
<1>4. NoMissedExit /\ TickLeft /\ NoMissedTick
  BY DEF NoMissedExit, TickLeft, NoMissedTick
<1> QED
  BY <1>1, <1>2, <1>3, <1>4 DEF IInv

\* The invariant is inductive.
LEMMA IInvNext == IInv /\ [Next]_vars => IInv'
  BY TypeInd, ControlInd, TreeInd, WaitInd, TickInd DEF IInv

\* The inductive invariant holds in every reachable state.
THEOREM Invariance == Spec => []IInv
  BY IInvInit, IInvNext, PTL DEF Spec

-----------------------------------------------------------------------------
(* What the invariant is for *)

\* Every variable of the process table stays in its type.
THEOREM TypeCorrect == Spec => []TypeOK
  BY Invariance, PTL DEF IInv

\* RUNNING is exclusive: no two CPUs are ever on one kernel stack.
THEOREM ExclusiveRunning == Spec => []RunningIsUnique
  BY Invariance, PTL DEF IInv, Control

\* Every switch is made with ptable.lock and with no other lock.
THEOREM CleanSwitches == Spec => []SwitchDiscipline
  BY Invariance, PTL DEF IInv, Control

\* wait() misses no exit and no kill.
THEOREM ExitsAreSeen == Spec => []NoMissedExit
  BY Invariance, PTL DEF IInv

\* sys_sleep misses no tick.
THEOREM TicksAreSeen == Spec => []NoMissedTick
  BY Invariance, PTL DEF IInv

\* No wakeup of proc.c and sys_sleep is lost.
THEOREM WakeupsAreSeen == Spec => []NoMissedWakeup
  BY Invariance, PTL DEF IInv, NoMissedWakeup

\* exit() leaves no child with a dead or recycled parent.
THEOREM NoOrphans == Spec => []NoOrphan
  BY Invariance, PTL DEF IInv

-----------------------------------------------------------------------------
(* Proc implements ProcLife: three actions are steps of the tree, the      *)
(* others leave status and par as they are.                                *)

\* The running process of At is a live one, and what fork fills is free.
LEMMA Actors ==
  ASSUME IInv, NEW c \in CPUs, NEW p \in Procs
  PROVE  /\ cproc[c] = p => state[p] = "RUNNING"
         /\ pc[p] = "fork" => np[p] \in Procs /\ state[np[p]] = "EMBRYO"
  BY Ranges DEF IInv, TypeOK, Control, RunningIsUnique, Forking

\* The end of fork() is the abstract fork.
LEMMA LifeFork ==
  ASSUME IInv, NEW c \in CPUs, NEW p \in Procs, ForkRun(c, p)
  PROVE  \E q \in Procs : Life!Fork(p, q)
<1>1. np[p] \in Procs /\ state[p] = "RUNNING" /\ state[np[p]] = "EMBRYO"
  BY Actors DEF ForkRun, At
<1>2. PICK q \in Procs : q = np[p]
  BY <1>1
<1>3. Life!Fork(p, q)
  BY <1>1, <1>2, Ranges DEF Life!Fork, ForkRun, IInv, TypeOK, InUse, Roots
<1> QED
  BY <1>3

\* The critical section of exit() is the abstract exit.
LEMMA LifeExit ==
  ASSUME IInv, NEW c \in CPUs, NEW p \in Procs, ExitZombie(c, p)
  PROVE  Life!Exit(p)
<1>1. state[p] = "RUNNING" /\ p # InitProc
  BY Actors DEF ExitZombie, At
<1> QED
  BY <1>1, Ranges DEF Life!Exit, ExitZombie, WokenByExit, WokenBy, IInv, TypeOK, InUse, Roots,
     Life!Procs, Procs

\* The burial in wait() is the abstract one.
LEMMA LifeReap ==
  ASSUME IInv, NEW c \in CPUs, NEW p \in Procs, WaitReap(c, p)
  PROVE  \E q \in Procs : Life!Reap(p, q)
<1>1. state[p] = "RUNNING"
  BY Actors DEF WaitReap, InWait, At
<1>2. PICK q \in Procs : /\ First(q, Corpses(p))
                         /\ parent' = [parent EXCEPT ![q] = NoProc]
                         /\ state' = [state EXCEPT ![q] = "UNUSED"]
  BY DEF WaitReap
<1>3. state[q] = "ZOMBIE" /\ parent[q] = p
  BY <1>2 DEF First, Corpses, Kids
<1>4. Life!Reap(p, q)
  BY <1>1, <1>2, <1>3, Ranges DEF Life!Reap, Life!NoProc, IInv, TypeOK, InUse
<1> QED
  BY <1>4

\* A step that changes no parent and no life is a stutter.
LEMMA LifeStutter ==
  ASSUME parent' = parent,
         \A q \in Procs : /\ InUse(q)' = InUse(q)
                          /\ state'[q] = "ZOMBIE" <=> state[q] = "ZOMBIE"
  PROVE  UNCHANGED Life!lifeVars
  BY DEF Life!lifeVars, InUse

\* Every step maps to a step of ProcLife or to a stutter.
LEMMA LifeNext == IInv /\ [Next]_vars => [Life!LifeNext]_(Life!lifeVars)
<1> SUFFICES ASSUME IInv, [Next]_vars PROVE Life!LifeNext \/ UNCHANGED Life!lifeVars
  OBVIOUS
<1> DEFINE Keeps == /\ parent' = parent
                    /\ \A q \in Procs : /\ InUse(q)' = InUse(q)
                                        /\ state'[q] = "ZOMBIE" <=> state[q] = "ZOMBIE"
<1> USE Actors, Ranges DEF IInv, TypeOK, States, InUse, vars, procVars, threads, cpuVars, locks, At
<1>1. ASSUME NEW c \in CPUs, SchedEnter(c) PROVE Keeps
  BY <1>1 DEF SchedEnter
<1>2. ASSUME NEW c \in CPUs, SchedPick(c) PROVE Keeps
  BY <1>2 DEF SchedPick, First, Ready
<1>3. ASSUME NEW c \in CPUs, SchedDone(c) PROVE Keeps
  BY <1>3 DEF SchedDone, Ready
<1>4. ASSUME NEW c \in CPUs, TimerIrq(c) PROVE Keeps
  BY <1>4 DEF TimerIrq
<1>5. ASSUME NEW c \in CPUs, TickWakeup(c) PROVE Keeps
  BY <1>5 DEF TickWakeup, WokenBy
<1>6. ASSUME NEW c \in CPUs, TrapKilled(c) PROVE Keeps
  BY <1>6 DEF TrapKilled
<1>7. ASSUME NEW c \in CPUs, TrapYield(c) PROVE Keeps
  BY <1>7 DEF TrapYield
<1>8. ASSUME NEW c \in CPUs, TrapIdle(c) PROVE Keeps
  BY <1>8 DEF TrapIdle
<1>9. ASSUME NEW c \in CPUs, YieldReturn(c) PROVE Keeps
  BY <1>9 DEF YieldReturn
<1>10. ASSUME NEW c \in CPUs, NEW p \in Procs, SysEnter(c, p) PROVE Keeps
  BY <1>10 DEF SysEnter
<1>11. ASSUME NEW c \in CPUs, NEW p \in Procs, TrapReturn(c, p) PROVE Keeps
  BY <1>11 DEF TrapReturn
<1>12. ASSUME NEW c \in CPUs, NEW p \in Procs, ForkAlloc(c, p) PROVE Keeps
  BY <1>12 DEF ForkAlloc, First, Unused
<1>13. ASSUME NEW c \in CPUs, NEW p \in Procs, ForkNoSlot(c, p) PROVE Keeps
  BY <1>13 DEF ForkNoSlot, Unused
<1>14. ASSUME NEW c \in CPUs, NEW p \in Procs, ForkNoMem(c, p) PROVE Keeps
  BY <1>14 DEF ForkNoMem
<1>15. ASSUME NEW c \in CPUs, NEW p \in Procs, ForkRun(c, p) PROVE Life!LifeNext
  BY ONLY <1>15, IInv, LifeFork DEF Life!LifeNext, Life!Procs, Procs
<1>16. ASSUME NEW c \in CPUs, NEW p \in Procs, Forkret(c, p) PROVE Keeps
  BY <1>16 DEF Forkret
<1>17. ASSUME NEW c \in CPUs, NEW p \in Procs, SysExit(c, p) PROVE Keeps
  BY <1>17 DEF SysExit
<1>18. ASSUME NEW c \in CPUs, NEW p \in Procs, ExitZombie(c, p) PROVE Life!LifeNext
  BY ONLY <1>18, IInv, LifeExit DEF Life!LifeNext, Life!Procs, Procs
<1>19. ASSUME NEW c \in CPUs, NEW p \in Procs, WaitReap(c, p) PROVE Life!LifeNext
  BY ONLY <1>19, IInv, LifeReap DEF Life!LifeNext, Life!Procs, Procs
<1>20. ASSUME NEW c \in CPUs, NEW p \in Procs, WaitFail(c, p) PROVE Keeps
  BY <1>20 DEF WaitFail, InWait
<1>21. ASSUME NEW c \in CPUs, NEW p \in Procs, WaitSleep(c, p) PROVE Keeps
  BY <1>21 DEF WaitSleep, InWait
<1>22. ASSUME NEW c \in CPUs, NEW p \in Procs, WaitResume(c, p) PROVE Keeps
  BY <1>22 DEF WaitResume
<1>23. ASSUME NEW c \in CPUs, NEW p \in Procs, Kill(c, p) PROVE Keeps
  BY <1>23 DEF Kill, First
<1>24. ASSUME NEW c \in CPUs, NEW p \in Procs, SleepEnter(c, p) PROVE Keeps
  BY <1>24 DEF SleepEnter
<1>25. ASSUME NEW c \in CPUs, NEW p \in Procs, SleepDone(c, p) PROVE Keeps
  BY <1>25 DEF SleepDone
<1>26. ASSUME NEW c \in CPUs, NEW p \in Procs, SleepCheck(c, p) PROVE Keeps
  BY <1>26 DEF SleepCheck
<1>27. ASSUME NEW c \in CPUs, NEW p \in Procs, SleepCommit(c, p) PROVE Keeps
  BY <1>27 DEF SleepCommit
<1>28. ASSUME NEW c \in CPUs, NEW p \in Procs, SleepResume(c, p) PROVE Keeps
  BY <1>28 DEF SleepResume
<1>29. ASSUME NEW c \in CPUs, NEW p \in Procs, SleepReacquire(c, p) PROVE Keeps
  BY <1>29 DEF SleepReacquire
<1>30. CASE UNCHANGED vars
  <2> Keeps
    BY <1>30
  <2> QED
    BY LifeStutter
<1> QED
  BY <1>1, <1>2, <1>3, <1>4, <1>5, <1>6, <1>7, <1>8, <1>9, <1>10, <1>11, <1>12, <1>13, <1>14, <1>15,
     <1>16, <1>17, <1>18, <1>19, <1>20, <1>21, <1>22, <1>23, <1>24, <1>25, <1>26, <1>27, <1>28, <1>29, <1>30, LifeStutter
     DEF Next, SchedStep, IrqStep, Syscall, WaitStep, ForkEnd, SleepStep, KernelStep

\* An initial state maps to an initial state of ProcLife.
LEMMA LifeInit == Init => Life!LifeInit
  BY Ranges DEF Init, Life!LifeInit, InUse, Life!Procs, Procs, Life!NoProc

\* Proc implements ProcLife: on any number of CPUs, whatever is interrupted
\* where, fork, exit and wait are the three atomic steps of the tree.
THEOREM Implementation == Spec => ImplementsLife
<1>1. Init => Life!LifeInit
  BY LifeInit
<1>2. IInv /\ [Next]_vars => [Life!LifeNext]_(Life!lifeVars)
  BY LifeNext
<1> QED
  BY <1>1, <1>2, Invariance, PTL DEF Spec, ImplementsLife, Life!LifeSpec

=============================================================================
