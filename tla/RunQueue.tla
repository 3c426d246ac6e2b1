------------------------------ MODULE RunQueue ------------------------------
(***************************************************************************)
(* The priority scheduler of P3_Scheduler: run queues, quantum, ageing and *)
(* the timer of a process (proc.c, trap.c, sysproc.c), on the one CPU its  *)
(* Makefile starts.                                                        *)
(*                                                                         *)
(* With one CPU a section of ptable.lock is one step, and so would the     *)
(* timer handler be; it is cut into its parts for the reader.  What        *)
(* matters is that sys_set_sche_info changes the queues with interrupts on *)
(* and takes any int for a priority: both can leave the lists in a state   *)
(* of which nothing is claimed.  Then wild is TRUE, and the model ends.    *)
(* Who may fork, reap or wake whom is module Proc's concern: here any      *)
(* running process reaps any corpse and wakes any set of sleepers, and     *)
(* being killed is being told to exit at any moment trap() would look.     *)
(***************************************************************************)
EXTENDS Integers, Sequences, SequencesExt

CONSTANTS
  NPROC,        \* process slots
  MAXPRIOR,     \* the lowest priority, 99
  QWIDTH,       \* priorities per queue, 4
  TIMEQUANTUM,  \* 30 ticks
  AGETICKS,     \* ticks that cost one priority, 10
  Priors,       \* the priorities set_sche_info is called with, any ints,
  Timers,       \* and the timers
  MaxTicks      \* bound: ticks charged to processes

ASSUME RunQueueAssumption ==
  /\ NPROC \in Nat \ {0}
  /\ MAXPRIOR \in Nat /\ QWIDTH \in Nat \ {0}
  /\ TIMEQUANTUM \in Nat \ {0} /\ AGETICKS \in Nat \ {0}
  /\ Priors \subseteq Int /\ Timers \subseteq Nat /\ MaxTicks \in Nat

Procs     == 1 .. NPROC
NoProc    == 0
InitProc  == 1
LastQueue == MAXPRIOR \div QWIDTH       \* MAXRUNQ - 1
Queues    == 0 .. LastQueue

VARIABLES
  state, prio, timer,               \* struct proc
  cpuUsed, procTick, priorityTick,
  idle,         \* the slots whose pid is 1 or 2
  shell,        \* pid 2 has been given
  queues,       \* run_queues
  cur,          \* c->proc
  pc,           \* what a process is in the middle of
  irq,          \* progress of the timer trap
  updateTicks,  \* update_ticks
  stale,        \* history: who is inside pull_runqueue() or put_runqueue()
                \* with the lists changed under it
  wild          \* the memory of the queues has been overwritten

counters == <<cpuUsed, procTick, priorityTick>>
pids     == <<idle, shell>>
damage   == <<stale, wild>>
vars     == <<state, prio, timer, counters, pids, queues, cur, pc, irq, updateTicks, damage>>

\* priority / 4 in C rounds towards 0: the queue of a priority, if it is one.
QueueOf(n)  == IF n < 0 THEN -((-n) \div QWIDTH) ELSE n \div QWIDTH
HasQueue(n) == QueueOf(n) \in Queues
InQueues    == {n \in Int : HasQueue(n)}

\* Whatever wakeups, fork() and ageing make of a priority, it names a queue of
\* run_queues; the one that set_sche_info is called with need not, and then
\* wild is TRUE and the priority is not taken over here.
TypeOK ==
  /\ state \in [Procs -> {"UNUSED", "RUNNABLE", "RUNNING", "SLEEPING", "ZOMBIE"}]
  /\ prio \in [Procs -> InQueues]
  /\ timer \in [Procs -> Timers \cup {0}]
  /\ {cpuUsed, procTick, priorityTick} \subseteq [Procs -> Nat]
  /\ idle \subseteq Procs /\ shell \in BOOLEAN
  /\ queues \in [Queues -> Seq(Procs)]
  /\ cur \in Procs \cup {NoProc}
  /\ pc \in [Procs -> {"user", "sys", "pull", "pulled", "put", "exit", "dying", "cut", "panic"}]
  /\ irq \in {"none", "age", "end"}
  /\ updateTicks \in Nat
  /\ stale \subseteq Procs /\ wild \in BOOLEAN

\* userinit() has run.
Init ==
  /\ state = [p \in Procs |-> IF p = InitProc THEN "RUNNABLE" ELSE "UNUSED"]
  /\ prio = [p \in Procs |-> IF p = InitProc THEN MAXPRIOR ELSE 0]
  /\ timer = [p \in Procs |-> 0]
  /\ cpuUsed = [p \in Procs |-> 0]
  /\ procTick = [p \in Procs |-> 0]
  /\ priorityTick = [p \in Procs |-> 0]
  /\ idle = {InitProc} /\ shell = FALSE
  /\ queues = [i \in Queues |-> IF i = LastQueue THEN <<InitProc>> ELSE <<>>]
  /\ cur = NoProc
  /\ pc = [p \in Procs |-> "user"]
  /\ irq = "none"
  /\ updateTicks = 0
  /\ stale = {} /\ wild = FALSE

-----------------------------------------------------------------------------
(* The queues *)

Entries(qs) == UNION {Range(qs[i]) : i \in Queues}
Queued      == Entries(queues)

Pull(qs, p)   == [i \in Queues |-> RemoveFirst(qs[i], p)]
Put(qs, p, n) == [qs EXCEPT ![QueueOf(n)] = Append(@, p)]

\* Who is inside pull_runqueue() or put_runqueue() of set_sche_info and will go
\* on (who is taken off the CPU while it is in no queue will not), and what a
\* change of the queues by p makes of these walks.
Walking     == {q \in Procs : pc[q] = "pull" \/ (pc[q] = "pulled" /\ cur = q)}
Disturbs(p) == stale' = (stale \cup Walking) \ {p}

\* The places of queue i that hold a runnable process.
Ready(i) == {k \in DOMAIN queues[i] : state[queues[i][k]] = "RUNNABLE"}

\* get_best_priority(): the best of the first queue with a runnable process,
\* the last queue and MAXPRIOR not counting, 0 when there is none.
BestPriority ==
  LET of(i) == {prio[queues[i][k]] : k \in Ready(i)} \ {MAXPRIOR}
      some  == {i \in 0 .. LastQueue - 1 : of(i) # {}}
  IN IF some = {} THEN 0 ELSE Min(of(Min(some)))

\* wakeup1() for the sleepers S.  A process woken earlier in the loop offers
\* the next one no better priority than it was given itself.
WokenPrio(S) == [q \in Procs |-> IF q \in S \ idle THEN BestPriority ELSE prio[q]]
Woken(S)     == [q \in Procs |-> IF q \in S THEN "RUNNABLE" ELSE state[q]]
Sleepers     == {q \in Procs : state[q] = "SLEEPING"}

-----------------------------------------------------------------------------
(* scheduler() and ssu_schedule() *)

\* The order of ssu_schedule() within a queue: priority, then CPU time, then
\* place in the queue.
Before(s, i, j) ==
  LET p == s[i]
      q == s[j]
  IN \/ prio[p] < prio[q]
     \/ prio[p] = prio[q] /\ cpuUsed[p] < cpuUsed[q]
     \/ prio[p] = prio[q] /\ cpuUsed[p] = cpuUsed[q] /\ i < j

Schedule ==
  /\ cur = NoProc /\ irq = "none"
  /\ \E n \in Queues : \E i \in Ready(n) :
       /\ \A m \in Queues : m < n => Ready(m) = {}
       /\ \A j \in Ready(n) \ {i} : Before(queues[n], i, j)
       /\ cur' = queues[n][i]
       /\ state' = [state EXCEPT ![queues[n][i]] = "RUNNING"]
  /\ UNCHANGED <<prio, timer, counters, pids, queues, pc, irq, updateTicks, damage>>

\* Mutant of Leave: proc_tick goes on counting.
LeaveCounting(p) == cur' = NoProc /\ UNCHANGED procTick

\* Back in scheduler() after swtch.
Leave(p) ==
  /\ cur' = NoProc
  /\ procTick' = [procTick EXCEPT ![p] = 0]

-----------------------------------------------------------------------------
(* System calls *)

At(p, l) == cur = p /\ irq = "none" /\ pc[p] = l

\* fork(): the second process is the shell, idle like init.  The slot is taken
\* before and with interrupts on, but nobody looks at it until it is RUNNABLE.
Fork(p) ==
  /\ At(p, "user")
  /\ \E q \in Procs :
       LET n == IF shell THEN BestPriority ELSE MAXPRIOR IN
       /\ state[q] = "UNUSED" /\ \A r \in Procs : state[r] = "UNUSED" => q <= r
       /\ state' = [state EXCEPT ![q] = "RUNNABLE"]
       /\ prio' = [prio EXCEPT ![q] = n]
       /\ queues' = Put(queues, q, n)
       /\ idle' = IF shell THEN idle ELSE idle \cup {q}
       /\ pc' = [pc EXCEPT ![q] = "user"]
  /\ shell' = TRUE
  /\ Disturbs(p)
  /\ UNCHANGED <<timer, counters, cur, irq, updateTicks, wild>>

\* There is no memory for the stack or the copy: the slot is given back, its
\* pid is not.
ForkFail(p) ==
  /\ At(p, "user")
  /\ \E q \in Procs : state[q] = "UNUSED"
  /\ shell' = TRUE
  /\ UNCHANGED <<state, prio, timer, counters, idle, queues, cur, pc, irq, updateTicks, damage>>

\* wait() finds a corpse and resets its slot.
Reap(p) ==
  /\ At(p, "user")
  /\ \E q \in Procs :
       /\ state[q] = "ZOMBIE"
       /\ state' = [state EXCEPT ![q] = "UNUSED"]
       /\ prio' = [prio EXCEPT ![q] = MAXPRIOR]
       /\ timer' = [timer EXCEPT ![q] = 0]
       /\ cpuUsed' = [cpuUsed EXCEPT ![q] = 0]
       /\ procTick' = [procTick EXCEPT ![q] = 0]
       /\ priorityTick' = [priorityTick EXCEPT ![q] = 0]
       /\ idle' = idle \ {q}
  /\ UNCHANGED <<shell, queues, cur, pc, irq, updateTicks, damage>>

\* sleep(), for whatever reason, also on the way out: exit() writes to disk.
Sleep(p) ==
  /\ cur = p /\ irq = "none" /\ pc[p] \in {"user", "sys", "exit", "dying", "cut"}
  /\ state' = [state EXCEPT ![p] = "SLEEPING"]
  /\ pc' = [pc EXCEPT ![p] = IF @ = "user" THEN "sys" ELSE @]
  /\ Leave(p)
  /\ UNCHANGED <<prio, timer, cpuUsed, priorityTick, pids, queues, irq, updateTicks, damage>>

SysReturn(p) ==
  /\ At(p, "sys")
  /\ pc' = [pc EXCEPT ![p] = "user"]
  /\ UNCHANGED <<state, prio, timer, counters, pids, queues, cur, irq, updateTicks, damage>>

\* A wakeup() of the running process or of a device interrupt.
Wakeup ==
  /\ irq = "none"
  /\ cur # NoProc => pc[cur] # "panic"
  /\ \E S \in SUBSET Sleepers \ {{}} :
       /\ state' = Woken(S)
       /\ prio' = WokenPrio(S)
  /\ UNCHANGED <<timer, counters, pids, queues, cur, pc, irq, updateTicks, damage>>

\* kill() of a sleeper: awake, its priority untouched.
Kill(p) ==
  /\ At(p, "user")
  /\ \E q \in Sleepers : state' = [state EXCEPT ![q] = "RUNNABLE"]
  /\ UNCHANGED <<prio, timer, counters, pids, queues, cur, pc, irq, updateTicks, damage>>

\* sys_set_sche_info() calls update_priority() without ptable.lock.  init and
\* the shell do not call it.
SetCall(p) ==
  /\ At(p, "user") /\ p \notin idle
  /\ pc' = [pc EXCEPT ![p] = "pull"]
  /\ UNCHANGED <<state, prio, timer, counters, pids, queues, cur, irq, updateTicks, damage>>

\* The store in pull_runqueue() that takes the process out.
SetPull(p) ==
  /\ At(p, "pull")
  /\ queues' = Pull(queues, p)
  /\ pc' = [pc EXCEPT ![p] = "pulled"]
  /\ Disturbs(p)
  /\ UNCHANGED <<state, prio, timer, counters, pids, cur, irq, updateTicks, wild>>

\* The store in put_runqueue() that links it in again.
SetPut(p) ==
  /\ At(p, "pulled")
  /\ \E n \in Priors :
       /\ HasQueue(n)
       /\ prio' = [prio EXCEPT ![p] = n]
       /\ queues' = Put(queues, p, n)
  /\ pc' = [pc EXCEPT ![p] = "put"]
  /\ Disturbs(p)
  /\ UNCHANGED <<state, timer, counters, pids, cur, irq, updateTicks, wild>>

\* The lists or the array of their entries changed between two instructions of
\* the walk of p.  What it has read (an entry, its predecessor, a free one, the
\* end of a list) may be out of date: two processes share an entry, a list is
\* cut, p is not found, or by luck SetPull and SetPut are all that happens.
SetTorn(p) ==
  /\ cur = p /\ irq = "none" /\ p \in stale /\ p \in Walking
  /\ wild' = TRUE
  /\ UNCHANGED <<state, prio, timer, counters, pids, queues, cur, pc, irq, updateTicks, stale>>

\* The priority is not checked, and run_queues[priority / 4] is no queue.
SetWild(p) ==
  /\ At(p, "pulled")
  /\ \E n \in Priors : ~HasQueue(n)
  /\ wild' = TRUE
  /\ UNCHANGED <<state, prio, timer, counters, pids, queues, cur, pc, irq, updateTicks, stale>>

SetTimer(p) ==
  /\ At(p, "put")
  /\ \E t \in Timers : timer' = [timer EXCEPT ![p] = t]
  /\ pc' = [pc EXCEPT ![p] = "user"]
  /\ UNCHANGED <<state, prio, counters, pids, queues, cur, irq, updateTicks, damage>>

\* exit(), up to its critical section.
Exit(p) ==
  /\ At(p, "user") /\ p # InitProc
  /\ pc' = [pc EXCEPT ![p] = "exit"]
  /\ UNCHANGED <<state, prio, timer, counters, pids, queues, cur, irq, updateTicks, damage>>

\* Mutant of ExitZombie: the process stays in its queue.
ExitQueued(p) ==
  /\ cur = p /\ irq = "none" /\ pc[p] \in {"exit", "dying"}
  /\ p \in Queued
  /\ \E S \in SUBSET Sleepers :
       /\ state' = [Woken(S) EXCEPT ![p] = "ZOMBIE"]
       /\ prio' = WokenPrio(S)
  /\ Leave(p)
  /\ UNCHANGED <<timer, cpuUsed, priorityTick, pids, queues, pc, irq, updateTicks, damage>>

\* The critical section: out of the queue, wake the parent and perhaps init.
ExitZombie(p) ==
  /\ cur = p /\ irq = "none" /\ pc[p] \in {"exit", "dying"}
  /\ p \in Queued
  /\ queues' = Pull(queues, p)
  /\ \E S \in SUBSET Sleepers :
       /\ state' = [Woken(S) EXCEPT ![p] = "ZOMBIE"]
       /\ prio' = WokenPrio(S)
  /\ Leave(p)
  /\ Disturbs(p)
  /\ UNCHANGED <<timer, cpuUsed, priorityTick, pids, pc, irq, updateTicks, wild>>

\* pull_runqueue() does not find the process: panic, and the machine stops.
ExitPanic(p) ==
  /\ cur = p /\ irq = "none" /\ pc[p] \in {"exit", "dying", "cut"}
  /\ p \notin Queued
  /\ pc' = [pc EXCEPT ![p] = "panic"]
  /\ UNCHANGED <<state, prio, timer, counters, pids, queues, cur, irq, updateTicks, damage>>

-----------------------------------------------------------------------------
(* trap(): the timer interrupt.  It does not come while the process is      *)
(* dying, that is in an exit() called from the interrupt handler itself.    *)

Charged(f) == IF cur = NoProc THEN f ELSE [f EXCEPT ![cur] = @ + 1]

\* The ticks are charged to the process interrupted, wakeup(&ticks).
Tick ==
  /\ irq = "none"
  /\ cur # NoProc => pc[cur] \notin {"dying", "cut", "panic"} /\ updateTicks < MaxTicks
  /\ cpuUsed' = Charged(cpuUsed)
  /\ procTick' = Charged(procTick)
  /\ priorityTick' = Charged(priorityTick)
  /\ updateTicks' = IF cur = NoProc THEN updateTicks ELSE updateTicks + 1
  /\ \E S \in SUBSET Sleepers :
       /\ state' = Woken(S)
       /\ prio' = WokenPrio(S)
  /\ irq' = "age"
  /\ UNCHANGED <<timer, pids, queues, cur, pc, damage>>

\* Interrupted in user space and killed.
TickKilled ==
  /\ irq = "age" /\ cur # NoProc /\ cur # InitProc /\ pc[cur] = "user"
  /\ pc' = [pc EXCEPT ![cur] = "dying"]
  /\ irq' = "none"
  /\ UNCHANGED <<state, prio, timer, counters, pids, queues, cur, updateTicks, damage>>

Due == updateTicks # 0 /\ updateTicks % (TIMEQUANTUM * 2) = 0

\* Mutant of AgedPrio: no clamp.
AgedPrioUnclamped(p) == prio[p] + priorityTick[p] \div AGETICKS

AgedPrio(p) ==
  LET n == prio[p] + priorityTick[p] \div AGETICKS
  IN IF p \in idle \/ n > MAXPRIOR THEN MAXPRIOR ELSE n

\* One process is moved: update_priority(), then updated = 1.
AgeOne(acc, p) ==
  [qs |-> Put(Pull(acc.qs, p), p, AgedPrio(p)), updated |-> acc.updated \cup {p}]

\* Mutant of AgeQueue: q->next is read after the move, at the end of a queue.
AgeQueueHead(acc, i) ==
  LET s == acc.qs[i]
  IN IF s = <<>> \/ Head(s) \in acc.updated THEN acc ELSE AgeOne(acc, Head(s))

\* Queue i, as it is when the walk gets there, is walked up to the first
\* process already moved, and every process passed is moved.
Fresh(acc, s) == {n \in 0 .. Len(s) : \A k \in 1 .. n : s[k] \notin acc.updated}
AgeQueue(acc, i) ==
  LET s    == acc.qs[i]
      stop == Max(Fresh(acc, s))
      walk[k \in 0 .. stop] == IF k = 0 THEN acc ELSE AgeOne(walk[k - 1], s[k])
  IN walk[stop]

\* The first n queues have been walked.
Aged[n \in 0 .. LastQueue + 1] ==
  IF n = 0 THEN [qs |-> queues, updated |-> {}] ELSE AgeQueue(Aged[n - 1], n - 1)

\* ssu_update_priority(), called without ptable.lock but with interrupts off.
TickAge ==
  /\ irq = "age"
  /\ IF Due
     THEN LET r == Aged[LastQueue + 1]
          IN /\ queues' = r.qs
             /\ prio' = [p \in Procs |-> IF p \in r.updated THEN AgedPrio(p) ELSE prio[p]]
             /\ priorityTick' = [p \in Procs |-> IF p \in r.updated THEN 0 ELSE priorityTick[p]]
             /\ Disturbs(NoProc)
     ELSE UNCHANGED <<queues, prio, priorityTick, stale>>
  /\ irq' = "end"
  /\ UNCHANGED <<state, timer, cpuUsed, procTick, pids, cur, pc, updateTicks, wild>>

\* The process has used up the time it was given.
Expired(p) == timer[p] # 0 /\ timer[p] <= cpuUsed[p]
QuantumOver(p) == procTick[p] > 0 /\ procTick[p] % TIMEQUANTUM = 0

\* exit(), wherever the process was interrupted; "cut" is out of its queue.
TickExpire ==
  /\ irq = "end" /\ cur # NoProc /\ Expired(cur)
  /\ pc' = [pc EXCEPT ![cur] = IF @ = "pulled" THEN "cut" ELSE "dying"]
  /\ irq' = "none"
  /\ UNCHANGED <<state, prio, timer, counters, pids, queues, cur, updateTicks, damage>>

TickYield ==
  /\ irq = "end" /\ cur # NoProc /\ ~Expired(cur) /\ QuantumOver(cur)
  /\ state' = [state EXCEPT ![cur] = "RUNNABLE"]
  /\ Leave(cur)
  /\ irq' = "none"
  /\ UNCHANGED <<prio, timer, cpuUsed, priorityTick, pids, queues, pc, updateTicks, damage>>

TickReturn ==
  /\ irq = "end"
  /\ cur # NoProc => ~Expired(cur) /\ ~QuantumOver(cur)
  /\ irq' = "none"
  /\ UNCHANGED <<state, prio, timer, counters, pids, queues, cur, pc, updateTicks, damage>>

-----------------------------------------------------------------------------

Syscall(p) ==
  \/ Fork(p) \/ ForkFail(p) \/ Reap(p) \/ Sleep(p) \/ SysReturn(p) \/ Kill(p)
  \/ SetCall(p) \/ SetPull(p) \/ SetPut(p) \/ SetTorn(p) \/ SetWild(p) \/ SetTimer(p)
  \/ Exit(p) \/ ExitZombie(p) \/ ExitPanic(p)

Next ==
  /\ ~wild
  /\ \/ Schedule \/ Wakeup
     \/ Tick \/ TickKilled \/ TickAge \/ TickExpire \/ TickYield \/ TickReturn
     \/ \E p \in Procs : Syscall(p)

Spec == Init /\ [][Next]_vars

-----------------------------------------------------------------------------
(* Properties *)

Live == {p \in Procs : state[p] \notin {"UNUSED", "ZOMBIE"}}

Filed ==
  /\ Queued = {p \in Live : pc[p] \notin {"pulled", "cut", "panic"}}
  /\ \A i, j \in Queues : \A k \in DOMAIN queues[i], l \in DOMAIN queues[j] :
       queues[i][k] = queues[j][l] => i = j /\ k = l
  /\ \A p \in idle \cap Live : prio[p] = MAXPRIOR /\ Contains(queues[LastQueue], p)

\* fork, exit, the ageing and set_sche_info agree on who is queued: as long as
\* no walk was torn, every live process has exactly one entry and nobody else
\* has one, so NPROC entries are enough (panic("put_runqueue")) and no corpse
\* or free slot is ever scheduled.  init and the shell stay in the last queue.
\* Exempt is who was taken out by its own set_sche_info and not put back yet.
\* Nothing promises that it will be: a tick may take its CPU, and then it is in
\* no queue for good, or call its exit(), which panics (PullFinds is false).
Registered == ~wild => Filed

\* Nobody computes for more than a quantum before the scheduler chooses again:
\* proc_tick is 0 off the CPU and never passes TIMEQUANTUM, whatever
\* interrupts, sleeps and system calls come in between.
QuantumBound ==
  \A p \in Procs : procTick[p] <= TIMEQUANTUM /\ (procTick[p] > 0 => cur = p)

\* ssu_update_priority() moves the elements of the lists it is walking, and
\* yet it reaches every queued process exactly once: each has paid for its
\* ticks and stands in the queue its priority names, nobody gains.
AgingReachesAll ==
  [][irq = "age" /\ irq' = "end" /\ Due =>
       /\ \A p \in Queued :
            /\ prio'[p] = AgedPrio(p)
            /\ priorityTick'[p] = 0
            /\ Contains(queues'[QueueOf(prio'[p])], p)
       /\ Queued' = Queued]_vars

\* pull_runqueue() finds the process it is asked to pull (proc.c:193).
PullFinds == \A p \in Procs : pc[p] # "panic"

=============================================================================
