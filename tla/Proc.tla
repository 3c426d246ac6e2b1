-------------------------------- MODULE Proc --------------------------------
(***************************************************************************)
(* Processes, CPUs and the two locks they meet on: xv6-original/proc.c,    *)
(* with the timer path of trap.c and sys_sleep of sysproc.c.               *)
(*                                                                         *)
(* A critical section of ptable.lock that neither sleeps nor switches is   *)
(* one action.  One that does is cut where another CPU or an interrupt can *)
(* see the difference: ptable.lock is taken by the old process, stays held *)
(* by its CPU through swtch and the scheduler's scan, and is released by   *)
(* the next process or by the scheduler.  ptlock and tklock name the CPU   *)
(* that holds ptable.lock and tickslock.  A CPU holding either has its     *)
(* interrupts off (pushcli), so TimerIrq needs both free of that CPU.      *)
(***************************************************************************)
EXTENDS Integers

CONSTANTS
  NPROC,       \* process slots
  CPUs,        \* processors
  BootCpu,     \* the one whose timer counts ticks: cpuid() == 0 in trap.c
  NoCpu,       \* lock owner of a free lock
  MaxPid,      \* bound: forks stop when nextpid passes it
  MaxSleep,    \* bound: longest sys_sleep argument
  KillPids     \* the arguments user programs give kill()

InitProc == 1
Procs    == 1 .. NPROC
NoProc   == 0
TickChan == NPROC + 1     \* &ticks; a process's own slot is its wait() channel
NoChan   == 0

ASSUME ProcAssumption ==
  /\ NPROC \in Nat \ {0}
  /\ BootCpu \in CPUs
  /\ NoCpu \notin CPUs
  /\ MaxPid \in Nat \ {0}
  /\ MaxSleep \in Nat
  /\ KillPids \subseteq Nat

VARIABLES
  state, pid, parent, chan, killed,  \* struct proc, by slot
  nextpid,
  pc,       \* where the process's kernel thread is, or "user"
  sw,       \* TRUE: it resumes inside yield() and must release ptable.lock
  np,       \* fork()'s np
  left,     \* sys_sleep: n - (ticks - ticks0), not below 0
  cproc,    \* c->proc, NoProc in the scheduler
  scan,     \* scheduler's loop position, 0 outside the loop
  irq,      \* progress of the timer trap on a CPU
  ptlock, tklock

procVars == <<state, pid, parent, chan, killed, nextpid>>
threads  == <<pc, sw, np, left>>
cpuVars  == <<cproc, scan, irq>>
locks    == <<ptlock, tklock>>
vars     == <<procVars, threads, cpuVars, locks>>

States == {"UNUSED", "EMBRYO", "SLEEPING", "RUNNABLE", "RUNNING", "ZOMBIE"}
PCs == {"none", "forkret", "user", "sys", "trapret", "fork", "exit", "wscan", "wsleep",
        "tloop", "tlock", "tsleep", "treacq"}

\* Every field of struct proc and of struct cpu stays in its range.
TypeOK ==
  /\ state \in [Procs -> States]
  /\ pid \in [Procs -> Nat]
  /\ parent \in [Procs -> Procs \cup {NoProc}]
  /\ chan \in [Procs -> Procs \cup {NoChan, TickChan}]
  /\ killed \in [Procs -> BOOLEAN]
  /\ nextpid \in Nat
  /\ pc \in [Procs -> PCs]
  /\ sw \in [Procs -> BOOLEAN]
  /\ np \in [Procs -> Procs \cup {NoProc}]
  /\ left \in [Procs -> Nat]
  /\ cproc \in [CPUs -> Procs \cup {NoProc}]
  /\ scan \in [CPUs -> 0 .. NPROC + 1]
  /\ irq \in [CPUs -> {"none", "wake", "tail"}]
  /\ ptlock \in CPUs \cup {NoCpu}
  /\ tklock \in CPUs \cup {NoCpu}

\* userinit() has run: init is the first process, every other slot is free.
Init ==
  /\ state = [p \in Procs |-> IF p = InitProc THEN "RUNNABLE" ELSE "UNUSED"]
  /\ pid = [p \in Procs |-> IF p = InitProc THEN 1 ELSE 0]
  /\ parent = [p \in Procs |-> NoProc]
  /\ chan = [p \in Procs |-> NoChan]
  /\ killed = [p \in Procs |-> FALSE]
  /\ nextpid = 2
  /\ pc = [p \in Procs |-> IF p = InitProc THEN "forkret" ELSE "none"]
  /\ sw = [p \in Procs |-> FALSE]
  /\ np = [p \in Procs |-> NoProc]
  /\ left = [p \in Procs |-> 0]
  /\ cproc = [c \in CPUs |-> NoProc]
  /\ scan = [c \in CPUs |-> 0]
  /\ irq = [c \in CPUs |-> "none"]
  /\ ptlock = NoCpu
  /\ tklock = NoCpu

-----------------------------------------------------------------------------
(* Helpers *)

\* CPU c executes process p's kernel thread at location l, not in an
\* interrupt handler and past the tail of yield().
At(c, p, l) == cproc[c] = p /\ irq[c] = "none" /\ ~sw[p] /\ pc[p] = l

\* The table scans stop at the first slot that qualifies.
First(q, S) == q \in S /\ \A r \in S : q <= r

WokenBy(ch) == {q \in Procs : state[q] = "SLEEPING" /\ chan[q] = ch}

\* Mutants of Sched: the scan skips a slot, sched() drops ptable.lock before
\* the switch, the scan starts over at slot 1.
SchedSkips(c, p) ==
  /\ ptlock' = c
  /\ cproc' = [cproc EXCEPT ![c] = NoProc]
  /\ scan' = [scan EXCEPT ![c] = p + 2]
SchedUnlocks(c, p) ==
  /\ ptlock' = NoCpu
  /\ cproc' = [cproc EXCEPT ![c] = NoProc]
  /\ scan' = [scan EXCEPT ![c] = p + 1]
SchedRestarts(c, p) ==
  /\ ptlock' = c
  /\ cproc' = [cproc EXCEPT ![c] = NoProc]
  /\ scan' = [scan EXCEPT ![c] = 1]

\* sched(): ptable.lock stays with c, whose scheduler goes on after p's slot.
Sched(c, p) ==
  /\ ptlock' = c
  /\ cproc' = [cproc EXCEPT ![c] = NoProc]
  /\ scan' = [scan EXCEPT ![c] = p + 1]

-----------------------------------------------------------------------------
(* scheduler() *)

SchedEnter(c) ==
  /\ cproc[c] = NoProc /\ scan[c] = 0 /\ irq[c] = "none"
  /\ ptlock = NoCpu
  /\ ptlock' = c
  /\ scan' = [scan EXCEPT ![c] = 1]
  /\ UNCHANGED <<procVars, threads, cproc, irq, tklock>>

Ready(c) == {q \in Procs : q >= scan[c] /\ state[q] = "RUNNABLE"}

\* Mutant of SchedPick: the process is not marked RUNNING.
SchedPickUnmarked(c) ==
  /\ scan[c] > 0
  /\ \E q \in Procs :
       /\ First(q, Ready(c))
       /\ cproc' = [cproc EXCEPT ![c] = q]
  /\ scan' = [scan EXCEPT ![c] = 0]
  /\ UNCHANGED <<procVars, threads, irq, locks>>

\* The next runnable slot of the scan: the process runs with ptable.lock held.
SchedPick(c) ==
  /\ scan[c] > 0
  /\ \E q \in Procs :
       /\ First(q, Ready(c))
       /\ cproc' = [cproc EXCEPT ![c] = q]
       /\ state' = [state EXCEPT ![q] = "RUNNING"]
  /\ scan' = [scan EXCEPT ![c] = 0]
  /\ UNCHANGED <<pid, parent, chan, killed, nextpid, threads, irq, locks>>

SchedDone(c) ==
  /\ scan[c] > 0
  /\ Ready(c) = {}
  /\ scan' = [scan EXCEPT ![c] = 0]
  /\ ptlock' = NoCpu
  /\ UNCHANGED <<procVars, threads, cproc, irq, tklock>>

-----------------------------------------------------------------------------
(* The timer interrupt: trap.c *)

\* The handler's first part.  The boot CPU counts the tick under tickslock.
TimerIrq(c) ==
  /\ irq[c] = "none" /\ scan[c] = 0
  /\ ptlock # c /\ tklock # c
  /\ \/ /\ c = BootCpu
        /\ tklock = NoCpu
        /\ tklock' = c
        /\ left' = [p \in Procs |-> IF left[p] > 0 THEN left[p] - 1 ELSE 0]
        /\ irq' = [irq EXCEPT ![c] = "wake"]
     \/ /\ c # BootCpu
        /\ irq' = [irq EXCEPT ![c] = "tail"]
        /\ UNCHANGED <<tklock, left>>
  /\ UNCHANGED <<procVars, pc, sw, np, cproc, scan, ptlock>>

\* Mutant of TickWakeup: the tick is counted and nobody is told.
TickSilent(c) ==
  /\ irq[c] = "wake"
  /\ ptlock = NoCpu
  /\ tklock' = NoCpu
  /\ irq' = [irq EXCEPT ![c] = "tail"]
  /\ UNCHANGED <<procVars, threads, cproc, scan, ptlock>>

\* wakeup(&ticks), then release(&tickslock).
TickWakeup(c) ==
  /\ irq[c] = "wake"
  /\ ptlock = NoCpu
  /\ state' = [q \in Procs |-> IF q \in WokenBy(TickChan) THEN "RUNNABLE" ELSE state[q]]
  /\ tklock' = NoCpu
  /\ irq' = [irq EXCEPT ![c] = "tail"]
  /\ UNCHANGED <<pid, parent, chan, killed, nextpid, threads, cproc, scan, ptlock>>

\* A killed process interrupted in user space exits.
TrapKilled(c) ==
  LET p == cproc[c] IN
  /\ irq[c] = "tail"
  /\ p # NoProc /\ killed[p] /\ pc[p] = "user"
  /\ pc' = [pc EXCEPT ![p] = "exit"]
  /\ irq' = [irq EXCEPT ![c] = "none"]
  /\ UNCHANGED <<procVars, sw, np, left, cproc, scan, locks>>

\* yield(): an interrupted system call is preempted where it stands, a user
\* process returns through trap()'s second check of killed.
TrapYield(c) ==
  LET p == cproc[c] IN
  /\ irq[c] = "tail"
  /\ p # NoProc /\ state[p] = "RUNNING"
  /\ ~(killed[p] /\ pc[p] = "user")
  /\ ptlock = NoCpu
  /\ state' = [state EXCEPT ![p] = "RUNNABLE"]
  /\ sw' = [sw EXCEPT ![p] = TRUE]
  /\ pc' = [pc EXCEPT ![p] = IF @ = "user" THEN "trapret" ELSE @]
  /\ irq' = [irq EXCEPT ![c] = "none"]
  /\ Sched(c, p)
  /\ UNCHANGED <<pid, parent, chan, killed, nextpid, np, left, tklock>>

TrapIdle(c) ==
  /\ irq[c] = "tail"
  /\ cproc[c] # NoProc => state[cproc[c]] # "RUNNING"
  /\ irq' = [irq EXCEPT ![c] = "none"]
  /\ UNCHANGED <<procVars, threads, cproc, scan, locks>>

\* The rest of yield() once the process runs again.
YieldReturn(c) ==
  LET p == cproc[c] IN
  /\ p # NoProc /\ sw[p]
  /\ sw' = [sw EXCEPT ![p] = FALSE]
  /\ ptlock' = NoCpu
  /\ UNCHANGED <<procVars, pc, np, left, cpuVars, tklock>>

\* A system call trap: trap() looks at killed before syscall() too.
SysEnter(c, p) ==
  /\ At(c, p, "user")
  /\ pc' = [pc EXCEPT ![p] = IF killed[p] THEN "exit" ELSE "sys"]
  /\ UNCHANGED <<procVars, sw, np, left, cpuVars, locks>>

\* The end of trap(): a killed process does not get back to user space.
TrapReturn(c, p) ==
  /\ At(c, p, "trapret")
  /\ pc' = [pc EXCEPT ![p] = IF killed[p] THEN "exit" ELSE "user"]
  /\ UNCHANGED <<procVars, sw, np, left, cpuVars, locks>>

-----------------------------------------------------------------------------
(* fork() *)

Unused == {q \in Procs : state[q] = "UNUSED"}

\* allocproc() under ptable.lock.
ForkAlloc(c, p) ==
  /\ At(c, p, "sys") /\ ptlock = NoCpu
  /\ nextpid <= MaxPid
  /\ \E q \in Procs :
       /\ First(q, Unused)
       /\ state' = [state EXCEPT ![q] = "EMBRYO"]
       /\ pid' = [pid EXCEPT ![q] = nextpid]
       /\ np' = [np EXCEPT ![p] = q]
  /\ nextpid' = nextpid + 1
  /\ pc' = [pc EXCEPT ![p] = "fork"]
  /\ UNCHANGED <<parent, chan, killed, sw, left, cpuVars, locks>>

ForkNoSlot(c, p) ==
  /\ At(c, p, "sys") /\ ptlock = NoCpu
  /\ Unused = {}
  /\ pc' = [pc EXCEPT ![p] = "trapret"]
  /\ UNCHANGED <<procVars, sw, np, left, cpuVars, locks>>

\* No page for the kernel stack or the page table.  The slot is given back
\* with no lock held, and it keeps its pid.
ForkNoMem(c, p) ==
  /\ At(c, p, "fork")
  /\ state' = [state EXCEPT ![np[p]] = "UNUSED"]
  /\ np' = [np EXCEPT ![p] = NoProc]
  /\ pc' = [pc EXCEPT ![p] = "trapret"]
  /\ UNCHANGED <<pid, parent, chan, killed, nextpid, sw, left, cpuVars, locks>>

\* The copy of the parent, then RUNNABLE under ptable.lock.
ForkRun(c, p) ==
  LET q == np[p] IN
  /\ At(c, p, "fork") /\ ptlock = NoCpu
  /\ parent' = [parent EXCEPT ![q] = p]
  /\ state' = [state EXCEPT ![q] = "RUNNABLE"]
  /\ pc' = [pc EXCEPT ![p] = "trapret", ![q] = "forkret"]
  /\ np' = [np EXCEPT ![p] = NoProc]
  /\ UNCHANGED <<pid, chan, killed, nextpid, sw, left, cpuVars, locks>>

\* The child's first switch: still holding ptable.lock from the scheduler.
Forkret(c, p) ==
  /\ At(c, p, "forkret")
  /\ pc' = [pc EXCEPT ![p] = "user"]
  /\ ptlock' = NoCpu
  /\ UNCHANGED <<procVars, sw, np, left, cpuVars, tklock>>

-----------------------------------------------------------------------------
(* exit() *)

\* A user program calls exit.  init does not: that is panic("init exiting").
SysExit(c, p) ==
  /\ At(c, p, "sys")
  /\ p # InitProc
  /\ pc' = [pc EXCEPT ![p] = "exit"]
  /\ UNCHANGED <<procVars, sw, np, left, cpuVars, locks>>

\* Mutant of WokenByExit: the wakeup of the parent is missing.
WokenInitOnly(p) ==
  IF \E q \in Procs : parent[q] = p /\ state[q] = "ZOMBIE" THEN WokenBy(InitProc) ELSE {}

\* Those wakeup1 wakes: the sleeping parent, and init for an inherited corpse.
WokenByExit(p) ==
  WokenBy(parent[p]) \cup
    (IF \E q \in Procs : parent[q] = p /\ state[q] = "ZOMBIE"
     THEN WokenBy(InitProc) ELSE {})

\* Mutant of ExitZombie: the children are not passed to init.
ExitDeserts(c, p) ==
  /\ At(c, p, "exit") /\ ptlock = NoCpu
  /\ p # InitProc
  /\ state' = [q \in Procs |-> IF q = p THEN "ZOMBIE"
                               ELSE IF q \in WokenByExit(p) THEN "RUNNABLE"
                               ELSE state[q]]
  /\ pc' = [pc EXCEPT ![p] = "none"]
  /\ Sched(c, p)
  /\ UNCHANGED <<pid, parent, chan, killed, nextpid, sw, np, left, irq, tklock>>

\* From acquire(&ptable.lock) to the switch that never returns.
ExitZombie(c, p) ==
  /\ At(c, p, "exit") /\ ptlock = NoCpu
  /\ p # InitProc
  /\ state' = [q \in Procs |-> IF q = p THEN "ZOMBIE"
                               ELSE IF q \in WokenByExit(p) THEN "RUNNABLE"
                               ELSE state[q]]
  /\ parent' = [q \in Procs |-> IF parent[q] = p THEN InitProc ELSE parent[q]]
  /\ pc' = [pc EXCEPT ![p] = "none"]
  /\ Sched(c, p)
  /\ UNCHANGED <<pid, chan, killed, nextpid, sw, np, left, irq, tklock>>

-----------------------------------------------------------------------------
(* wait() *)

Kids(p)    == {q \in Procs : parent[q] = p}
Corpses(p) == {q \in Kids(p) : state[q] = "ZOMBIE"}

\* The table scan, entered with the lock just taken or kept from sleep().
InWait(c, p) ==
  \/ At(c, p, "sys") /\ ptlock = NoCpu
  \/ At(c, p, "wscan")

WaitReap(c, p) ==
  /\ InWait(c, p)
  /\ \E q \in Procs :
       /\ First(q, Corpses(p))
       /\ pid' = [pid EXCEPT ![q] = 0]
       /\ parent' = [parent EXCEPT ![q] = NoProc]
       /\ killed' = [killed EXCEPT ![q] = FALSE]
       /\ state' = [state EXCEPT ![q] = "UNUSED"]
  /\ pc' = [pc EXCEPT ![p] = "trapret"]
  /\ ptlock' = NoCpu
  /\ UNCHANGED <<chan, nextpid, sw, np, left, cpuVars, tklock>>

WaitFail(c, p) ==
  /\ InWait(c, p)
  /\ Corpses(p) = {}
  /\ Kids(p) = {} \/ killed[p]
  /\ pc' = [pc EXCEPT ![p] = "trapret"]
  /\ ptlock' = NoCpu
  /\ UNCHANGED <<procVars, sw, np, left, cpuVars, tklock>>

\* sleep(curproc, &ptable.lock): the lock is not released on the way down.
WaitSleep(c, p) ==
  /\ InWait(c, p)
  /\ Corpses(p) = {} /\ Kids(p) # {} /\ ~killed[p]
  /\ chan' = [chan EXCEPT ![p] = p]
  /\ state' = [state EXCEPT ![p] = "SLEEPING"]
  /\ pc' = [pc EXCEPT ![p] = "wsleep"]
  /\ Sched(c, p)
  /\ UNCHANGED <<pid, parent, killed, nextpid, sw, np, left, irq, tklock>>

WaitResume(c, p) ==
  /\ At(c, p, "wsleep")
  /\ chan' = [chan EXCEPT ![p] = NoChan]
  /\ pc' = [pc EXCEPT ![p] = "wscan"]
  /\ UNCHANGED <<state, pid, parent, killed, nextpid, sw, np, left, cpuVars, locks>>

-----------------------------------------------------------------------------
(* kill() *)

HavePid(k) == {q \in Procs : pid[q] = k}

\* Mutant of Kill: a sleeping target is left asleep.
KillQuietly(c, p) ==
  /\ At(c, p, "sys") /\ ptlock = NoCpu
  /\ \E k \in KillPids : \E q \in Procs :
       /\ First(q, HavePid(k))
       /\ killed' = [killed EXCEPT ![q] = TRUE]
  /\ pc' = [pc EXCEPT ![p] = "trapret"]
  /\ UNCHANGED <<state, pid, parent, chan, nextpid, sw, np, left, cpuVars, locks>>

Kill(c, p) ==
  /\ At(c, p, "sys") /\ ptlock = NoCpu
  /\ \E k \in KillPids : \E q \in Procs :
       /\ First(q, HavePid(k))
       /\ killed' = [killed EXCEPT ![q] = TRUE]
       /\ state' = [state EXCEPT ![q] = IF @ = "SLEEPING" THEN "RUNNABLE" ELSE @]
  /\ pc' = [pc EXCEPT ![p] = "trapret"]
  /\ UNCHANGED <<pid, parent, chan, nextpid, sw, np, left, cpuVars, locks>>

-----------------------------------------------------------------------------
(* sys_sleep() *)

SleepEnter(c, p) ==
  /\ At(c, p, "sys") /\ tklock = NoCpu
  /\ tklock' = c
  /\ \E n \in 0 .. MaxSleep : left' = [left EXCEPT ![p] = n]
  /\ pc' = [pc EXCEPT ![p] = "tloop"]
  /\ UNCHANGED <<procVars, sw, np, cpuVars, ptlock>>

\* Leaves the loop: time is up, or the process has been killed.
SleepDone(c, p) ==
  /\ At(c, p, "tloop")
  /\ left[p] = 0 \/ killed[p]
  /\ left' = [left EXCEPT ![p] = 0]
  /\ tklock' = NoCpu
  /\ pc' = [pc EXCEPT ![p] = "trapret"]
  /\ UNCHANGED <<procVars, sw, np, cpuVars, ptlock>>

\* Mutant of SleepCheck: tickslock is given up before ptable.lock is taken.
SleepCheckUnlocks(c, p) ==
  /\ At(c, p, "tloop")
  /\ left[p] > 0 /\ ~killed[p]
  /\ pc' = [pc EXCEPT ![p] = "tlock"]
  /\ tklock' = NoCpu
  /\ UNCHANGED <<procVars, sw, np, left, cpuVars, ptlock>>

SleepCheck(c, p) ==
  /\ At(c, p, "tloop")
  /\ left[p] > 0 /\ ~killed[p]
  /\ pc' = [pc EXCEPT ![p] = "tlock"]
  /\ UNCHANGED <<procVars, sw, np, left, cpuVars, locks>>

\* sleep(&ticks, &tickslock): ptable.lock is taken before tickslock goes.
SleepCommit(c, p) ==
  /\ At(c, p, "tlock") /\ ptlock = NoCpu
  /\ tklock' = NoCpu
  /\ chan' = [chan EXCEPT ![p] = TickChan]
  /\ state' = [state EXCEPT ![p] = "SLEEPING"]
  /\ pc' = [pc EXCEPT ![p] = "tsleep"]
  /\ Sched(c, p)
  /\ UNCHANGED <<pid, parent, killed, nextpid, sw, np, left, irq>>

SleepResume(c, p) ==
  /\ At(c, p, "tsleep")
  /\ chan' = [chan EXCEPT ![p] = NoChan]
  /\ pc' = [pc EXCEPT ![p] = "treacq"]
  /\ ptlock' = NoCpu
  /\ UNCHANGED <<state, pid, parent, killed, nextpid, sw, np, left, cpuVars, tklock>>

SleepReacquire(c, p) ==
  /\ At(c, p, "treacq") /\ tklock = NoCpu
  /\ tklock' = c
  /\ pc' = [pc EXCEPT ![p] = "tloop"]
  /\ UNCHANGED <<procVars, sw, np, left, cpuVars, ptlock>>

-----------------------------------------------------------------------------

SchedStep(c) == SchedEnter(c) \/ SchedPick(c) \/ SchedDone(c)
IrqStep(c)   == TickWakeup(c) \/ TrapKilled(c) \/ TrapYield(c) \/ TrapIdle(c)

\* What a process may ask for, and what the kernel then does for it.
Syscall(c, p) ==
  ForkAlloc(c, p) \/ ForkNoSlot(c, p) \/ SysExit(c, p) \/ Kill(c, p) \/ SleepEnter(c, p)
WaitStep(c, p)   == WaitReap(c, p) \/ WaitFail(c, p) \/ WaitSleep(c, p) \/ WaitResume(c, p)
ForkEnd(c, p) == ForkNoMem(c, p) \/ ForkRun(c, p) \/ Forkret(c, p)
SleepStep(c, p) ==
  SleepDone(c, p) \/ SleepCheck(c, p) \/ SleepCommit(c, p) \/ SleepResume(c, p) \/ SleepReacquire(c, p)

KernelStep(c, p) == ForkEnd(c, p) \/ SleepStep(c, p) \/ ExitZombie(c, p) \/ TrapReturn(c, p)

Next ==
  \E c \in CPUs :
    \/ SchedStep(c) \/ TimerIrq(c) \/ IrqStep(c) \/ YieldReturn(c)
    \/ \E p \in Procs : SysEnter(c, p) \/ Syscall(c, p) \/ WaitStep(c, p) \/ KernelStep(c, p)

Spec == Init /\ [][Next]_vars

-----------------------------------------------------------------------------
(* Safety *)

\* A process is RUNNING exactly while one CPU has it as c->proc, and no two
\* CPUs ever execute on one kernel stack: what holding ptable.lock across
\* swtch buys (scheduler(), sched(), yield(), sleep()).
RunningIsUnique ==
  /\ \A p \in Procs : state[p] = "RUNNING" <=> \E c \in CPUs : cproc[c] = p
  /\ \A c, d \in CPUs : cproc[c] = cproc[d] /\ cproc[c] # NoProc => c = d

\* The scan, the first instructions of a resumed process and no others run
\* with ptable.lock held, and whoever switches holds no other lock: the
\* panics of sched() ("sched ptable.lock", "sched locks") cannot happen.
SwitchDiscipline ==
  \A c \in CPUs :
    /\ ptlock = c <=>
         \/ scan[c] > 0
         \/ cproc[c] # NoProc /\ (sw[cproc[c]] \/ pc[cproc[c]] \in {"forkret", "wscan", "wsleep", "tsleep"})
    /\ scan[c] > 0 => tklock # c

\* wait() never sleeps through the exit of a child, nor through a kill.
NoMissedExit ==
  \A p \in Procs :
    state[p] = "SLEEPING" /\ pc[p] = "wsleep" => Corpses(p) = {} /\ Kids(p) # {} /\ ~killed[p]

\* sys_sleep never sleeps through its last tick: whoever is asleep has ticks
\* left, unless the handler that counted the last one is about to wake it.
NoMissedTick ==
  \A p \in Procs :
    state[p] = "SLEEPING" /\ pc[p] = "tsleep" => left[p] > 0 \/ \E c \in CPUs : irq[c] = "wake"

\* Neither kind of sleeper misses what it waits for.
NoMissedWakeup == NoMissedExit /\ NoMissedTick

InUse(p) == state[p] \notin {"UNUSED", "EMBRYO"}

\* Every process but init has a parent that can still wait for it: exit()
\* leaves no child with a dead or recycled parent.
NoOrphan ==
  \A p \in Procs \ {InitProc} :
    InUse(p) => parent[p] \in Procs /\ InUse(parent[p]) /\ state[parent[p]] # "ZOMBIE"

\* The process table as a tree of lives: fork, exit and wait do what
\* ProcLife says, whatever the CPUs and the locks do in between.
Life == INSTANCE ProcLife WITH
  status <- [p \in Procs |-> IF ~InUse(p) THEN "free"
                             ELSE IF state[p] = "ZOMBIE" THEN "dead" ELSE "live"],
  par <- [p \in Procs |-> IF InUse(p) THEN parent[p] ELSE NoProc]

\* fork(), exit() and wait() implement ProcLife.
ImplementsLife == Life!LifeSpec

-----------------------------------------------------------------------------
(* Liveness.  Each CPU keeps executing its scheduler and its handlers, and  *)
(* its timer keeps firing; a process that is again and again about to take  *)
(* its next kernel step on some CPU takes it (a spinning xchg wins in the   *)
(* end, a quantum is longer than an instruction); init keeps calling wait.  *)

Fairness ==
  /\ \A c \in CPUs : /\ SF_vars(SchedStep(c)) /\ SF_vars(IrqStep(c))
                     /\ WF_vars(YieldReturn(c)) /\ SF_vars(TimerIrq(c))
  /\ \A p \in Procs :
       SF_vars(\E c \in CPUs : KernelStep(c, p) \/ Syscall(c, p) \/ WaitStep(c, p))
  /\ SF_vars(\E c \in CPUs : SysEnter(c, InitProc))
  /\ SF_vars(\E c \in CPUs : WaitStep(c, InitProc))

FairSpec == Spec /\ Fairness

\* A killed process dies: kill() gets it out of its sleep and the traps do
\* the rest.
KilledDies == \A p \in Procs \ {InitProc} : killed[p] /\ InUse(p) ~> ~InUse(p) \/ state[p] = "ZOMBIE"

\* init buries every orphan.
OrphansReaped ==
  \A p \in Procs : state[p] = "ZOMBIE" /\ parent[p] = InitProc ~> state[p] = "UNUSED"

\* The scan starves nobody: a runnable process gets a CPU.
RunnableRuns == \A p \in Procs : state[p] = "RUNNABLE" ~> state[p] = "RUNNING"

\* Whoever sleeps for ticks comes back.
SleeperWakes == \A p \in Procs : state[p] = "SLEEPING" /\ chan[p] = TickChan ~> state[p] # "SLEEPING"

=============================================================================
