---------------------------- MODULE RunQueueInv -----------------------------
(***************************************************************************)
(* The inductive invariant of RunQueue: the registration of the processes, *)
(* the quantum, and what they need to survive every step.                  *)
(***************************************************************************)
EXTENDS RunQueue

\* The process on the CPU is the one whose state says so.
CurRuns == \A p \in Procs : state[p] = "RUNNING" <=> cur = p

\* Inside update_priority(), or cut out of it.
Setting == {"pull", "pulled", "put", "cut", "panic"}

\* init and the shell never leave their queue before they exit: their slots
\* are not free, and they are not in update_priority().
IdleStays ==
  \A p \in idle : state[p] # "UNUSED" /\ pc[p] \notin Setting

\* The timer handler does not interrupt an exit() it has called itself.
NoTickWhileDying ==
  irq # "none" /\ cur # NoProc => pc[cur] \notin {"dying", "cut", "panic"}

\* Whoever can still be interrupted has ticks left when the handler is done.
QuantumLeft ==
  irq = "none" /\ cur # NoProc /\ pc[cur] \notin {"dying", "cut", "panic"}
    => procTick[cur] < TIMEQUANTUM

Inv ==
  /\ TypeOK /\ Filed /\ QuantumBound
  /\ CurRuns /\ IdleStays /\ NoTickWhileDying /\ QuantumLeft

-----------------------------------------------------------------------------
(* The ageing of the queues, one process at a time.  acc is where the walk *)
(* has come to, queues the lists it started from.                          *)

Lists == [Queues -> Seq(Procs)]
Accs  == [qs : Lists, updated : SUBSET Procs]

\* No process has two entries.
Once(qs) ==
  \A i, j \in Queues : \A k \in DOMAIN qs[i], l \in DOMAIN qs[j] :
    qs[i][k] = qs[j][l] => i = j /\ k = l

\* Behind a moved process there are only moved ones: the first one met ends
\* the walk of its queue without leaving anybody out.
MovedLast(acc) ==
  \A i \in Queues : \A k, l \in DOMAIN acc.qs[i] :
    k < l /\ acc.qs[i][k] \in acc.updated => acc.qs[i][l] \in acc.updated

AgeInv(acc) ==
  /\ acc \in Accs
  /\ Once(acc.qs) /\ MovedLast(acc)
  /\ Entries(acc.qs) = Queued /\ acc.updated \subseteq Queued
  /\ \A p \in acc.updated : Contains(acc.qs[QueueOf(AgedPrio(p))], p)
  /\ \A i \in Queues : \A p \in Procs \ acc.updated :
       Contains(acc.qs[i], p) <=> Contains(queues[i], p)

\* The queues before the n-th have been walked to their end.
AgeReaches(n) ==
  /\ AgeInv(Aged[n])
  /\ \A i \in Queues : i < n => Range(Aged[n].qs[i]) \subseteq Aged[n].updated

AgeHolds == irq = "age" /\ Due => \A n \in 0 .. LastQueue + 1 : AgeReaches(n)

=============================================================================
