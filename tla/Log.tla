-------------------------------- MODULE Log --------------------------------
(***************************************************************************)
(* The redo log of the file system: xv6-original/log.c, over the buffer    *)
(* cache as log.c uses it (bio.c) and a disk that writes one block at a    *)
(* time.  Every disk write is a step, so that the machine can stop between *)
(* any two of them; a section of log.lock is one step.                     *)
(***************************************************************************)
EXTENDS Integers, Sequences, FiniteSets

CONSTANTS
  Blocks,       \* home blocks of the file system
  Vals,         \* contents of a block
  Procs,        \* processes making file system calls
  LOGSIZE,      \* param.h:11
  MAXOPBLOCKS,  \* param.h:10
  NLOG,         \* superblock's nlog: blocks of the log, its header included
  OpBlocks      \* blocks the largest call really writes

ASSUME LogAssumption ==
  /\ LOGSIZE \in Nat \ {0} /\ MAXOPBLOCKS \in 1 .. LOGSIZE
  /\ NLOG \in Nat \ {0} /\ OpBlocks \in Nat
  /\ IsFiniteSet(Procs)

VARIABLES
  home,         \* disk: the blocks at their home locations
  logdata,      \* disk: the log's data blocks
  hdr,          \* disk: the log header, as the sequence of its block numbers
  lh,           \* log.lh, likewise
  outstanding,  \* log.outstanding
  committing,   \* log.committing
  up,           \* initlog has returned
  phase, tail,  \* where commit() or recover_from_log() is
  cached,       \* blocks with a valid buffer
  cache,        \* b->data of these
  dirty,        \* blocks whose buffer has B_DIRTY
  pc,           \* what a process is doing
  wrote         \* the blocks its call has written

disk    == <<home, logdata, hdr>>
logVars == <<lh, outstanding, committing, up, phase, tail>>
buffers == <<cached, cache, dirty>>
callers == <<pc, wrote>>
vars    == <<disk, logVars, buffers, callers>>

Slots   == 1 .. LOGSIZE
Phases  == {"boot", "none", "wlog", "whead", "inst", "clear", "done"}
InOp    == {p \in Procs : pc[p] = "inop"}
Logged  == {lh[i] : i \in 1 .. Len(lh)}

\* The log never holds more than LOGSIZE blocks, in memory or on disk, and a
\* dirty buffer stays in the cache.
TypeOK ==
  /\ home \in [Blocks -> Vals]
  /\ logdata \in [Slots -> Vals]
  /\ hdr \in Seq(Blocks) /\ Len(hdr) <= LOGSIZE
  /\ lh \in Seq(Blocks) /\ Len(lh) <= LOGSIZE
  /\ outstanding \in Nat
  /\ committing \in BOOLEAN /\ up \in BOOLEAN
  /\ phase \in Phases
  /\ tail \in 1 .. LOGSIZE + 1
  /\ cached \in SUBSET Blocks
  /\ cache \in [Blocks -> Vals]
  /\ dirty \in SUBSET cached
  /\ pc \in [Procs -> {"idle", "begin", "sleep", "inop", "commit"}]
  /\ wrote \in [Procs -> SUBSET Blocks]

\* The machine comes up on a disk mkfs made: nothing in the log.
Init ==
  /\ home \in [Blocks -> Vals]
  /\ \E v \in Vals : logdata = [i \in Slots |-> v] /\ cache = [b \in Blocks |-> v]
  /\ hdr = <<>> /\ lh = <<>>
  /\ outstanding = 0
  /\ committing = FALSE /\ up = FALSE
  /\ phase = "boot" /\ tail = 1
  /\ cached = {} /\ dirty = {}
  /\ pc = [p \in Procs |-> "idle"]
  /\ wrote = [p \in Procs |-> {}]

-----------------------------------------------------------------------------
(* begin_op(), end_op() *)

\* Mutant of Room: the caller does not count itself.
RoomForOthers == Len(lh) + outstanding * MAXOPBLOCKS <= LOGSIZE

\* Room for one more call, should each call in progress write its most.
Room == Len(lh) + (outstanding + 1) * MAXOPBLOCKS <= LOGSIZE

\* Mutant of BeginOp: a running commit is not waited for.
BeginDuringCommit(p) ==
  /\ up /\ pc[p] \in {"idle", "begin"}
  /\ Room
  /\ outstanding' = outstanding + 1
  /\ pc' = [pc EXCEPT ![p] = "inop"]
  /\ UNCHANGED <<disk, lh, committing, up, phase, tail, buffers, wrote>>

BeginOp(p) ==
  /\ up /\ pc[p] \in {"idle", "begin"}
  /\ ~committing /\ Room
  /\ outstanding' = outstanding + 1
  /\ pc' = [pc EXCEPT ![p] = "inop"]
  /\ UNCHANGED <<disk, lh, committing, up, phase, tail, buffers, wrote>>

BeginSleep(p) ==
  /\ up /\ pc[p] \in {"idle", "begin"}
  /\ committing \/ ~Room
  /\ pc' = [pc EXCEPT ![p] = "sleep"]
  /\ UNCHANGED <<disk, logVars, buffers, wrote>>

\* wakeup(&log), by p, whose call is over.
WakeAll(p) == pc' = [q \in Procs |-> IF q = p THEN "idle"
                                     ELSE IF pc[q] = "sleep" THEN "begin" ELSE pc[q]]

EndOp(p) ==
  /\ pc[p] = "inop" /\ outstanding > 1
  /\ outstanding' = outstanding - 1
  /\ WakeAll(p)
  /\ wrote' = [wrote EXCEPT ![p] = {}]
  /\ UNCHANGED <<disk, lh, committing, up, phase, tail, buffers>>

\* Mutant of EndLast: the header is written and the log blocks are not.
EndLastHeadOnly(p) ==
  /\ pc[p] = "inop" /\ outstanding = 1
  /\ outstanding' = 0
  /\ committing' = TRUE
  /\ phase' = IF lh = <<>> THEN "done" ELSE "whead"
  /\ tail' = 1
  /\ pc' = [pc EXCEPT ![p] = "commit"]
  /\ wrote' = [wrote EXCEPT ![p] = {}]
  /\ UNCHANGED <<disk, lh, up, buffers>>

\* The last call out commits; commit() does nothing for an empty log.
EndLast(p) ==
  /\ pc[p] = "inop" /\ outstanding = 1
  /\ outstanding' = 0
  /\ committing' = TRUE
  /\ phase' = IF lh = <<>> THEN "done" ELSE "wlog"
  /\ tail' = 1
  /\ pc' = [pc EXCEPT ![p] = "commit"]
  /\ wrote' = [wrote EXCEPT ![p] = {}]
  /\ UNCHANGED <<disk, lh, up, buffers>>

\* Mutant of EndCommit: nobody is told that the log is empty again.
EndCommitSilent(p) ==
  /\ pc[p] = "commit" /\ phase = "done"
  /\ committing' = FALSE
  /\ phase' = "none"
  /\ pc' = [pc EXCEPT ![p] = "idle"]
  /\ UNCHANGED <<disk, lh, outstanding, up, tail, buffers, wrote>>

EndCommit(p) ==
  /\ pc[p] = "commit" /\ phase = "done"
  /\ committing' = FALSE
  /\ phase' = "none"
  /\ WakeAll(p)
  /\ UNCHANGED <<disk, lh, outstanding, up, tail, buffers, wrote>>

-----------------------------------------------------------------------------
(* log_write(), and bread() as the callers use it *)

\* A call writes OpBlocks blocks at most, each as often as it likes.
MayWrite(p, b) ==
  pc[p] = "inop" /\ (b \in wrote[p] \/ Cardinality(wrote[p]) < OpBlocks)

\* log_write's panic("too big a transaction") does not happen.
Fits == Len(lh) < LOGSIZE /\ Len(lh) < NLOG - 1

\* bread, modify b->data, log_write, brelse: the buffer is locked throughout.
LogWrite(p, b) ==
  /\ MayWrite(p, b) /\ Fits
  /\ \E v \in Vals : cache' = [cache EXCEPT ![b] = v]
  /\ cached' = cached \cup {b}
  /\ dirty' = dirty \cup {b}
  /\ lh' = IF b \in Logged THEN lh ELSE Append(lh, b)
  /\ wrote' = [wrote EXCEPT ![p] = @ \cup {b}]
  /\ UNCHANGED <<disk, outstanding, committing, up, phase, tail, pc>>

Read(b) ==
  /\ up /\ b \notin cached
  /\ cached' = cached \cup {b}
  /\ cache' = [cache EXCEPT ![b] = home[b]]
  /\ UNCHANGED <<disk, logVars, dirty, callers>>

\* Mutant of Recycle: B_DIRTY does not pin the buffer.
RecycleAny(b) ==
  /\ b \in cached
  /\ cached' = cached \ {b}
  /\ UNCHANGED <<disk, logVars, cache, dirty, callers>>

\* bget() recycles the buffer for another block.
Recycle(b) ==
  /\ b \in cached \ dirty
  /\ cached' = cached \ {b}
  /\ UNCHANGED <<disk, logVars, cache, dirty, callers>>

-----------------------------------------------------------------------------
(* commit() *)

WriteLog ==
  /\ phase = "wlog"
  /\ IF tail <= Len(lh)
     THEN /\ logdata' = [logdata EXCEPT ![tail] = cache[lh[tail]]]
          /\ tail' = tail + 1
          /\ UNCHANGED phase
     ELSE /\ phase' = "whead"
          /\ UNCHANGED <<logdata, tail>>
  /\ UNCHANGED <<home, hdr, lh, outstanding, committing, up, buffers, callers>>

\* write_head(): "the true point at which the current transaction commits".
WriteHead ==
  /\ phase = "whead"
  /\ hdr' = lh
  /\ phase' = "inst" /\ tail' = 1
  /\ UNCHANGED <<home, logdata, lh, outstanding, committing, up, buffers, callers>>

\* Mutants of Install: the home block is not written; the loop does not advance.
InstallInCache ==
  /\ phase = "inst"
  /\ IF tail <= Len(lh)
     THEN /\ cache' = [cache EXCEPT ![lh[tail]] = logdata[tail]]
          /\ cached' = cached \cup {lh[tail]}
          /\ dirty' = dirty \ {lh[tail]}
          /\ tail' = tail + 1
          /\ UNCHANGED phase
     ELSE /\ phase' = "clear"
          /\ UNCHANGED <<buffers, tail>>
  /\ UNCHANGED <<disk, lh, outstanding, committing, up, callers>>
InstallStuck ==
  /\ phase = "inst"
  /\ IF tail <= Len(lh)
     THEN /\ home' = [home EXCEPT ![lh[tail]] = logdata[tail]]
          /\ UNCHANGED phase
     ELSE /\ phase' = "clear"
          /\ UNCHANGED home
  /\ UNCHANGED <<logdata, hdr, lh, outstanding, committing, up, tail, buffers, callers>>

\* install_trans(), in commit() and in recovery: the bwrite of the home block
\* clears its B_DIRTY.
Install ==
  /\ phase = "inst"
  /\ IF tail <= Len(lh)
     THEN /\ home' = [home EXCEPT ![lh[tail]] = logdata[tail]]
          /\ cache' = [cache EXCEPT ![lh[tail]] = logdata[tail]]
          /\ cached' = cached \cup {lh[tail]}
          /\ dirty' = dirty \ {lh[tail]}
          /\ tail' = tail + 1
          /\ UNCHANGED phase
     ELSE /\ phase' = "clear"
          /\ UNCHANGED <<home, buffers, tail>>
  /\ UNCHANGED <<logdata, hdr, lh, outstanding, committing, up, callers>>

\* log.lh.n = 0 and write_head(); recovery then lets the first process go on.
Clear ==
  /\ phase = "clear"
  /\ lh' = <<>> /\ hdr' = <<>>
  /\ phase' = IF committing THEN "done" ELSE "none"
  /\ up' = TRUE
  /\ UNCHANGED <<home, logdata, outstanding, committing, tail, buffers, callers>>

-----------------------------------------------------------------------------
(* Crash, and initlog() *)

\* Memory is gone; what the disk has, it has.
Crash ==
  /\ lh' = <<>> /\ outstanding' = 0 /\ committing' = FALSE /\ up' = FALSE
  /\ phase' = "boot" /\ tail' = 1
  /\ cached' = {} /\ dirty' = {}
  /\ pc' = [p \in Procs |-> "idle"]
  /\ wrote' = [p \in Procs |-> {}]
  /\ UNCHANGED <<disk, cache>>

\* recover_from_log(): read_head, then install_trans.
ReadHead ==
  /\ phase = "boot"
  /\ lh' = hdr
  /\ phase' = "inst" /\ tail' = 1
  /\ UNCHANGED <<disk, outstanding, committing, up, buffers, callers>>

-----------------------------------------------------------------------------

LogStep == WriteLog \/ WriteHead \/ Install \/ Clear \/ ReadHead

Next ==
  \/ \E p \in Procs : BeginOp(p) \/ BeginSleep(p) \/ EndOp(p) \/ EndLast(p) \/ EndCommit(p)
  \/ \E p \in Procs, b \in Blocks : LogWrite(p, b)
  \/ \E b \in Blocks : Read(b) \/ Recycle(b)
  \/ LogStep
  \/ Crash

Spec == Init /\ [][Next]_vars

-----------------------------------------------------------------------------
(* Safety *)

\* Home blocks h with the log's data d over them, at the blocks s lists.
Over(h, d, s) ==
  [b \in Blocks |-> IF \E i \in 1 .. Len(s) : s[i] = b
                    THEN d[CHOOSE i \in 1 .. Len(s) : s[i] = b]
                    ELSE h[b]]

\* What the disk would be after a crash and a recovery.
Recovered == Over(home, logdata, hdr)

\* What bread() returns.
Visible == [b \in Blocks |-> IF ~up THEN Recovered[b]
                             ELSE IF b \in cached THEN cache[b] ELSE home[b]]

\* The log makes the disk atomic: see AtomicDisk.
Atomic == INSTANCE AtomicDisk WITH mem <- Visible, durable <- Recovered, ops <- InOp

\* begin_op(), log_write(), end_op() and recovery implement AtomicDisk.
ImplementsAtomicDisk == Atomic!DiskSpec

\* When nothing is in progress everything is on disk, at home: the end_op()
\* that found nobody else returns only when its data can survive a crash.
QuietIsDurable ==
  up /\ outstanding = 0 /\ ~committing =>
    /\ lh = <<>> /\ hdr = <<>> /\ dirty = {}
    /\ \A b \in cached : cache[b] = home[b]

\* The blocks that the calls in progress may still write, as (call, n-th block).
Reserved == {r \in InOp \X (1 .. MAXOPBLOCKS) : r[2] > Cardinality(wrote[r[1]])}

\* begin_op() admits only calls that fit: the log has room for what the calls
\* in progress have not written yet, and none of them ever meets panic("too
\* big a transaction").
NoOverflow == InOp # {} => Fits /\ Len(lh) + Cardinality(Reserved) <= LOGSIZE

\* log.outstanding counts the calls in progress.
Counted == outstanding = Cardinality(InOp)

\* end_op()'s panic("log.committing") and log_write's "outside of trans" are
\* out of reach, and nobody changes a block while commit() copies it.
CommitIsAlone ==
  /\ Counted
  /\ committing <=> \E p \in Procs : pc[p] = "commit"
  /\ InOp # {} => phase = "none"

\* No wakeup is lost: while anybody sleeps in begin_op(), for space or for a
\* commit, a call or a commit is still under way whose end_op() wakes all.
\* (Which of the woken gets in is not promised: there is no queue.)
NoStrandedCaller == (\E p \in Procs : pc[p] = "sleep") => outstanding > 0 \/ committing

-----------------------------------------------------------------------------
(* Liveness.  The disk completes its writes and every call ends.  Nothing   *)
(* is assumed of begin_op(): it has no queue, whoever is first takes the   *)
(* space, and a caller may lose that race for ever.                        *)

Fairness ==
  /\ WF_vars(LogStep)
  /\ \A p \in Procs : WF_vars(EndOp(p) \/ EndLast(p)) /\ WF_vars(EndCommit(p))

FairSpec == Spec /\ Fairness

\* Recovery and commits come to an end once the machine stops crashing.
LogSettles == <>[][~Crash]_vars => (phase # "none" ~> phase = "none")

=============================================================================
