---------------------------- MODULE BufferCache ----------------------------
(***************************************************************************)
(* The buffer cache and the disk driver under it: xv6-original/bio.c,      *)
(* ide.c and the sleep locks of sleeplock.c.  A section of bcache.lock, of *)
(* idelock or of a sleep lock's own spin lock is one step; between them    *)
(* processes and the disk's interrupt interleave.  A process works on one  *)
(* buffer at a time, and the disk makes no errors.  Nothing is assumed of  *)
(* how many buffers there are: bget() may run out of them, and panics.     *)
(***************************************************************************)
EXTENDS Integers, Sequences, FiniteSets

CONSTANTS
  Blocks,       \* blocks of the disk
  Vals,         \* contents of a block
  Procs,        \* processes (and NoProc, which is none of them)
  NoProc, NoBlock,
  NBUF,         \* param.h:12
  MaxPinned     \* blocks the log keeps dirty at most

ASSUME CacheAssumption ==
  /\ NoProc \notin Procs /\ NoBlock \notin Blocks
  /\ IsFiniteSet(Procs) /\ MaxPinned \in Nat /\ NBUF \in Nat

Bufs  == 1 .. NBUF
NoBuf == 0

VARIABLES
  disk,         \* what the disk holds
  slot,         \* b->blockno
  data,         \* b->data
  valid, dirty, \* the buffers with B_VALID, with B_DIRTY
  refcnt,       \* b->refcnt
  rank,         \* place in the list: 1 is bcache.head.next, the most recent
  owner,        \* who holds b->lock
  queue,        \* idequeue
  cmd,          \* the buffer whose command the disk executes
  pc, buf       \* what a process is doing, and with which buffer

bufVars == <<slot, data, valid, dirty, refcnt, rank, owner>>
ideVars == <<disk, queue, cmd>>
threads == <<pc, buf>>
vars    == <<bufVars, ideVars, threads>>

PCs == {"idle", "lock", "lockwait", "request", "iowait", "iodone", "have", "drop", "panic"}

\* Every buffer has a place in the list, and a process has one in its hands
\* exactly when it is in the middle of something and has not panicked.
TypeOK ==
  /\ disk \in [Blocks -> Vals]
  /\ slot \in [Bufs -> Blocks \cup {NoBlock}]
  /\ data \in [Bufs -> Vals]
  /\ valid \in SUBSET Bufs /\ dirty \in SUBSET valid
  /\ refcnt \in [Bufs -> Nat]
  /\ rank \in [Bufs -> Bufs]
  /\ owner \in [Bufs -> Procs \cup {NoProc}]
  /\ queue \in Seq(Bufs)
  /\ cmd \in Bufs \cup {NoBuf}
  /\ pc \in [Procs -> PCs]
  /\ buf \in [Procs -> Bufs \cup {NoBuf}]
  /\ \A p \in Procs : buf[p] = NoBuf <=> pc[p] \in {"idle", "panic"}

\* binit() and ideinit(): the buffers are zero, the last one is at the head.
Init ==
  /\ disk \in [Blocks -> Vals]
  /\ slot = [b \in Bufs |-> NoBlock]
  /\ \E v \in Vals : data = [b \in Bufs |-> v]
  /\ valid = {} /\ dirty = {}
  /\ refcnt = [b \in Bufs |-> 0]
  /\ rank = [b \in Bufs |-> NBUF + 1 - b]
  /\ owner = [b \in Bufs |-> NoProc]
  /\ queue = <<>> /\ cmd = NoBuf
  /\ pc = [p \in Procs |-> "idle"]
  /\ buf = [p \in Procs |-> NoBuf]

-----------------------------------------------------------------------------
(* bget() *)

Holding(blk) == {b \in Bufs : slot[b] = blk}

\* Nobody has panicked in bget(), where bcache.lock is held and stays held.
BcacheFree == \A p \in Procs : pc[p] # "panic"

\* Mutant of Unused: B_DIRTY does not pin a buffer.
UnusedAny == {b \in Bufs : refcnt[b] = 0}

\* What may be recycled.
Unused == {b \in Bufs : refcnt[b] = 0 /\ b \notin dirty}

\* Mutant of BgetHit: the reference is not counted.
BgetHitUncounted(p, blk) ==
  /\ pc[p] = "idle" /\ BcacheFree
  /\ \E b \in Holding(blk) :
       /\ buf' = [buf EXCEPT ![p] = b]
       /\ pc' = [pc EXCEPT ![p] = "lock"]
  /\ UNCHANGED <<bufVars, ideVars>>

BgetHit(p, blk) ==
  /\ pc[p] = "idle" /\ BcacheFree
  /\ \E b \in Holding(blk) :
       /\ refcnt' = [refcnt EXCEPT ![b] = @ + 1]
       /\ buf' = [buf EXCEPT ![p] = b]
       /\ pc' = [pc EXCEPT ![p] = "lock"]
  /\ UNCHANGED <<slot, data, valid, dirty, rank, owner, ideVars>>

\* The least recently used of the unused buffers.
BgetRecycle(p, blk) ==
  /\ pc[p] = "idle" /\ BcacheFree /\ Holding(blk) = {}
  /\ \E b \in Unused :
       /\ \A c \in Unused : rank[c] <= rank[b]
       /\ slot' = [slot EXCEPT ![b] = blk]
       /\ valid' = valid \ {b} /\ dirty' = dirty \ {b}
       /\ refcnt' = [refcnt EXCEPT ![b] = 1]
       /\ buf' = [buf EXCEPT ![p] = b]
       /\ pc' = [pc EXCEPT ![p] = "lock"]
  /\ UNCHANGED <<data, rank, owner, ideVars>>

\* panic("bget: no buffers"): every buffer is in somebody's hands or kept for
\* the log.
BgetPanic(p, blk) ==
  /\ pc[p] = "idle" /\ BcacheFree /\ Holding(blk) = {} /\ Unused = {}
  /\ pc' = [pc EXCEPT ![p] = "panic"]
  /\ UNCHANGED <<bufVars, ideVars, buf>>

\* panic() does not return.  What needs no bcache.lock goes on elsewhere.
Halted == ~BcacheFree /\ UNCHANGED vars

-----------------------------------------------------------------------------
(* acquiresleep() and the rest of bread() *)

\* bread() then looks at B_VALID, which nobody else changes now.
Acquire(p) ==
  /\ pc[p] = "lock" /\ owner[buf[p]] = NoProc
  /\ owner' = [owner EXCEPT ![buf[p]] = p]
  /\ pc' = [pc EXCEPT ![p] = IF buf[p] \in valid THEN "have" ELSE "request"]
  /\ UNCHANGED <<slot, data, valid, dirty, refcnt, rank, ideVars, buf>>

AcquireSleep(p) ==
  /\ pc[p] = "lock" /\ owner[buf[p]] # NoProc
  /\ pc' = [pc EXCEPT ![p] = "lockwait"]
  /\ UNCHANGED <<bufVars, ideVars, buf>>

-----------------------------------------------------------------------------
(* ide.c *)

\* iderw(): append to idequeue, start the disk if it is idle, and sleep.
Iderw(p) ==
  /\ pc[p] = "request"
  /\ queue' = Append(queue, buf[p])
  /\ cmd' = IF queue = <<>> THEN buf[p] ELSE cmd
  /\ pc' = [pc EXCEPT ![p] = "iowait"]
  /\ UNCHANGED <<bufVars, disk, buf>>

\* wakeup(b) for whoever waits for the request.
WakeIo(b) == [p \in Procs |-> IF pc[p] = "iowait" /\ buf[p] = b THEN "iodone" ELSE pc[p]]

\* ideintr(): the head of the queue is done; the next one is started.
Ideintr ==
  /\ cmd # NoBuf
  /\ queue' = Tail(queue)
  /\ IF Head(queue) \in dirty
     THEN disk' = [disk EXCEPT ![slot[Head(queue)]] = data[Head(queue)]] /\ UNCHANGED data
     ELSE data' = [data EXCEPT ![Head(queue)] = disk[slot[Head(queue)]]] /\ UNCHANGED disk
  /\ valid' = valid \cup {Head(queue)} /\ dirty' = dirty \ {Head(queue)}
  /\ pc' = WakeIo(Head(queue))
  /\ cmd' = IF Tail(queue) = <<>> THEN NoBuf ELSE Head(Tail(queue))
  /\ UNCHANGED <<slot, refcnt, rank, owner, buf>>

\* The loop of iderw() looks at the flags again.
IoReturn(p) ==
  /\ pc[p] = "iodone"
  /\ pc' = [pc EXCEPT ![p] = IF buf[p] \in valid \ dirty THEN "have" ELSE "iowait"]
  /\ UNCHANGED <<bufVars, ideVars, buf>>

-----------------------------------------------------------------------------
(* What the holder of a buffer does *)

\* Change it and call log_write(): B_DIRTY keeps it until the log writes it.
Pin(p) ==
  /\ pc[p] = "have"
  /\ Cardinality(dirty \cup {buf[p]}) <= MaxPinned
  /\ \E v \in Vals : data' = [data EXCEPT ![buf[p]] = v]
  /\ dirty' = dirty \cup {buf[p]}
  /\ UNCHANGED <<slot, valid, refcnt, rank, owner, ideVars, threads>>

\* Change it, or not, and call bwrite().
Bwrite(p) ==
  /\ pc[p] = "have"
  /\ \E v \in Vals : data' = [data EXCEPT ![buf[p]] = v]
  /\ dirty' = dirty \cup {buf[p]}
  /\ pc' = [pc EXCEPT ![p] = "request"]
  /\ UNCHANGED <<slot, valid, refcnt, rank, owner, ideVars, buf>>

-----------------------------------------------------------------------------
(* brelse() *)

\* Mutant of Release: nobody is woken.
ReleaseSilent(p) ==
  /\ pc[p] = "have"
  /\ owner' = [owner EXCEPT ![buf[p]] = NoProc]
  /\ pc' = [pc EXCEPT ![p] = "drop"]
  /\ UNCHANGED <<slot, data, valid, dirty, refcnt, rank, ideVars, buf>>

\* releasesleep(), which wakes whoever waits for the lock.
Release(p) ==
  /\ pc[p] = "have"
  /\ owner' = [owner EXCEPT ![buf[p]] = NoProc]
  /\ pc' = [q \in Procs |-> IF q = p THEN "drop"
                            ELSE IF pc[q] = "lockwait" /\ buf[q] = buf[p] THEN "lock" ELSE pc[q]]
  /\ UNCHANGED <<slot, data, valid, dirty, refcnt, rank, ideVars, buf>>

\* Mutant of Front: the buffers behind b move too.
FrontAll(b) == [c \in Bufs |-> IF c = b THEN 1 ELSE rank[c] + 1]

\* The list with b moved to its head.
Front(b) == [c \in Bufs |-> IF c = b THEN 1 ELSE IF rank[c] < rank[b] THEN rank[c] + 1 ELSE rank[c]]

Drop(p) ==
  /\ pc[p] = "drop" /\ BcacheFree
  /\ refcnt' = [refcnt EXCEPT ![buf[p]] = @ - 1]
  /\ rank' = IF refcnt[buf[p]] = 1 THEN Front(buf[p]) ELSE rank
  /\ pc' = [pc EXCEPT ![p] = "idle"]
  /\ buf' = [buf EXCEPT ![p] = NoBuf]
  /\ UNCHANGED <<slot, data, valid, dirty, owner, ideVars>>

-----------------------------------------------------------------------------

ProcStep(p) ==
  Acquire(p) \/ AcquireSleep(p) \/ Iderw(p) \/ IoReturn(p) \/ Pin(p) \/ Bwrite(p) \/ Release(p) \/ Drop(p)

Next ==
  \/ \E p \in Procs, blk \in Blocks : BgetHit(p, blk) \/ BgetRecycle(p, blk) \/ BgetPanic(p, blk)
  \/ \E p \in Procs : ProcStep(p)
  \/ Ideintr
  \/ Halted

Spec == Init /\ [][Next]_vars

-----------------------------------------------------------------------------
(* Safety *)

Users(b) == {p \in Procs : buf[p] = b}

\* At most one buffer holds a block, and a buffer changes its block only when
\* nobody has it: refcnt counts exactly the processes between bget() and the
\* end of brelse(), those that still wait for the lock included.
OneBuffer ==
  /\ \A b, c \in Bufs : slot[b] = slot[c] /\ slot[b] # NoBlock => b = c
  /\ \A b \in Bufs : refcnt[b] = Cardinality(Users(b))
  /\ \A p \in Procs : buf[p] # NoBuf => slot[buf[p]] # NoBlock

\* The disk works on the head of idequeue whenever there is one, a buffer is
\* queued once, and who queued it sleeps and holds its lock until ideintr().  No
\* wakeup is lost: who sleeps for the disk has a request in the queue, and who
\* sleeps for a buffer's lock will see its release.
NoLostWakeup ==
  /\ cmd = IF queue = <<>> THEN NoBuf ELSE Head(queue)
  /\ \A i, j \in 1 .. Len(queue) : queue[i] = queue[j] => i = j
  /\ \A b \in Bufs : (\E i \in 1 .. Len(queue) : queue[i] = b)
                     <=> \E p \in Procs : pc[p] = "iowait" /\ buf[p] = b /\ owner[b] = p
  /\ \A p \in Procs : pc[p] = "iowait" => \E i \in 1 .. Len(queue) : queue[i] = buf[p]
  /\ \A p \in Procs : pc[p] = "lockwait" => owner[buf[p]] # NoProc

\* What a reader would get, and who has the block.
Visible == [blk \in Blocks |-> IF \E b \in valid : slot[b] = blk
                               THEN data[CHOOSE b \in valid : slot[b] = blk]
                               ELSE disk[blk]]
Holder  == [blk \in Blocks |-> IF \E b \in Bufs : slot[b] = blk
                               THEN owner[CHOOSE b \in Bufs : slot[b] = blk]
                               ELSE NoProc]

\* bread(), bwrite(), brelse() and log_write()'s pin implement BlockStore.
Store == INSTANCE BlockStore WITH mem <- Visible, home <- disk, holder <- Holder
ImplementsBlockStore == Store!StoreSpec

=============================================================================
