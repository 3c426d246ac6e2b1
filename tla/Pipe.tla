-------------------------------- MODULE Pipe --------------------------------
(***************************************************************************)
(* A pipe and the descriptors that refer to it: xv6-original/pipe.c, the   *)
(* reference counts of file.c, and what fork, exit, dup and close do to    *)
(* them.  A section of p->lock or ftable.lock is one step.  piperead() and *)
(* pipewrite() look at myproc()->killed and sleep in two steps, because    *)
(* kill() takes neither lock.                                              *)
(***************************************************************************)
EXTENDS Integers, Sequences, FiniteSets

CONSTANTS
  Procs,
  NoProc,
  NOFILE,         \* descriptors of a process, param.h:4
  PIPESIZE,       \* pipe.c:11
  Wrap,           \* nread and nwrite count modulo this, 2^32 in the code
  Bytes,
  ReadSizes, WriteSizes, \* how many of them a call reads or writes
  Junk,           \* what kfree() fills a page with
  MaxKilled       \* processes that are killed and not gone yet, at most

ASSUME PipeAssumption ==
  /\ NoProc \notin Procs /\ IsFiniteSet(Procs)
  /\ NOFILE \in Nat /\ PIPESIZE \in Nat \ {0}
  /\ ReadSizes \in SUBSET Nat /\ WriteSizes \in SUBSET Nat
  /\ Junk \in Bytes /\ MaxKilled \in Nat
  /\ Wrap \in Nat /\ Wrap > PIPESIZE /\ Wrap % PIPESIZE = 0

Ends    == {"r", "w"}
Indices == 0 .. PIPESIZE - 1

VARIABLES
  fds,            \* how many of p->ofile refer to each end of the pipe
  ref,            \* f->ref of the two files
  opened,         \* readopen and writeopen
  live,           \* the pipe's page is allocated
  data, nread, nwrite,
  plock,          \* who holds p->lock over a step
  pc,             \* what a process is doing
  left,           \* how many bytes it has still to write, or wants to read
  ending,         \* the end whose last reference it has dropped
  killed,
  gaveup          \* a killed writer has left bytes without a wakeup

pipeVars == <<opened, live, data, nread, nwrite, plock>>
fileVars == <<fds, ref>>
threads  == <<pc, left, ending>>
vars     == <<pipeVars, fileVars, threads, killed, gaveup>>

PCs == {"absent", "user", "exit", "read", "rsleeping", "rsleep",
        "write", "wsleeping", "wsleep", "closing", "exitclosing"}

Has(p, e)  == fds[p][e] > 0
FreeFds(p) == NOFILE - fds[p]["r"] - fds[p]["w"]

\* The descriptors that refer to an end, numbered within their process.
Descriptors(e) == {d \in Procs \X (1 .. NOFILE) : d[2] <= fds[d[1]][e]}

\* Counters stay in their width, and p->lock is held over a step exactly by
\* the process that is on its way to sleep.
TypeOK ==
  /\ fds \in [Procs -> [Ends -> 0 .. NOFILE]]
  /\ ref \in [Ends -> Nat]
  /\ opened \in [Ends -> BOOLEAN] /\ live \in BOOLEAN
  /\ data \in [Indices -> Bytes]
  /\ nread \in 0 .. Wrap - 1 /\ nwrite \in 0 .. Wrap - 1
  /\ plock \in Procs \cup {NoProc}
  /\ pc \in [Procs -> PCs]
  /\ left \in [Procs -> Nat]
  /\ ending \in [Procs -> Ends \cup {"none"}]
  /\ killed \in [Procs -> BOOLEAN] /\ gaveup \in BOOLEAN
  /\ \A p \in Procs : plock = p <=> pc[p] \in {"rsleeping", "wsleeping"}

Init ==
  /\ fds = [p \in Procs |-> [e \in Ends |-> 0]]
  /\ ref = [e \in Ends |-> 0]
  /\ opened = [e \in Ends |-> FALSE] /\ live = FALSE
  /\ data = [i \in Indices |-> Junk]
  /\ nread = 0 /\ nwrite = 0
  /\ plock = NoProc
  /\ \E p \in Procs : pc = [q \in Procs |-> IF q = p THEN "user" ELSE "absent"]
  /\ left = [p \in Procs |-> 0]
  /\ ending = [p \in Procs |-> "none"]
  /\ killed = [p \in Procs |-> FALSE]
  /\ gaveup = FALSE

-----------------------------------------------------------------------------
(* The ring *)

Count == (nwrite - nread) % Wrap
Full  == nwrite = (nread + PIPESIZE) % Wrap
Least(m, n) == IF m < n THEN m ELSE n

\* Mutant of Stored: the new bytes go where the reader reads.
StoredAtRead(s) ==
  [i \in Indices |-> LET k == ((i - nread) % PIPESIZE) + 1 IN IF k <= Len(s) THEN s[k] ELSE data[i]]

\* data[] after the bytes s are appended.
Stored(s) ==
  [i \in Indices |-> LET k == ((i - nwrite) % PIPESIZE) + 1 IN IF k <= Len(s) THEN s[k] ELSE data[i]]

\* The first k bytes of the ring.
Taken(k) == [i \in 1 .. k |-> data[(nread + i - 1) % PIPESIZE]]

\* wakeup() on the channel where pc is `asleep`; p goes to `next`.
Wake(p, next, asleep, awake) ==
  pc' = [q \in Procs |-> IF q = p THEN next ELSE IF pc[q] = asleep THEN awake ELSE pc[q]]
WakeReaders(p, next) == Wake(p, next, "rsleep", "read")
WakeWriters(p, next) == Wake(p, next, "wsleep", "write")

-----------------------------------------------------------------------------
(* pipewrite() *)

Locked(p) == plock = NoProc

\* Everything fits: store it and wake the readers.
WriteAll(p) ==
  /\ pc[p] = "write" /\ Locked(p) /\ left[p] <= PIPESIZE - Count
  /\ \E s \in [1 .. left[p] -> Bytes] : data' = Stored(s)
  /\ nwrite' = (nwrite + left[p]) % Wrap
  /\ left' = [left EXCEPT ![p] = 0]
  /\ WakeReaders(p, "user")
  /\ UNCHANGED <<opened, live, nread, plock, fileVars, ending, killed, gaveup>>

\* What fits of the rest is stored before the pipe is found full.
Fill(p) ==
  LET room == PIPESIZE - Count IN
  /\ pc[p] = "write" /\ Locked(p) /\ left[p] > room
  /\ \E s \in [1 .. room -> Bytes] : data' = Stored(s)
  /\ nwrite' = (nwrite + room) % Wrap

\* The pipe is full and nobody can or may go on: no wakeup here.
WriteFail(p) ==
  /\ Fill(p) /\ (~opened["r"] \/ killed[p])
  /\ left' = [left EXCEPT ![p] = 0]
  /\ pc' = [pc EXCEPT ![p] = "user"]
  /\ gaveup' = (gaveup \/ (opened["r"] /\ Count < PIPESIZE))
  /\ UNCHANGED <<opened, live, nread, plock, fileVars, ending, killed>>

\* Mutant of WriteWait: the readers are not woken before the writer sleeps.
WriteWaitSilent(p) ==
  /\ Fill(p) /\ opened["r"] /\ ~killed[p]
  /\ left' = [left EXCEPT ![p] = @ - (PIPESIZE - Count)]
  /\ pc' = [pc EXCEPT ![p] = "wsleeping"]
  /\ plock' = p
  /\ UNCHANGED <<opened, live, nread, fileVars, ending, killed, gaveup>>

\* wakeup(&p->nread), on the way to sleep(&p->nwrite, &p->lock).
WriteWait(p) ==
  /\ Fill(p) /\ opened["r"] /\ ~killed[p]
  /\ left' = [left EXCEPT ![p] = @ - (PIPESIZE - Count)]
  /\ WakeReaders(p, "wsleeping")
  /\ plock' = p
  /\ UNCHANGED <<opened, live, nread, fileVars, ending, killed, gaveup>>

-----------------------------------------------------------------------------
(* piperead() *)

ReadFail(p) ==
  /\ pc[p] = "read" /\ Locked(p) /\ Count = 0 /\ opened["w"] /\ killed[p]
  /\ pc' = [pc EXCEPT ![p] = "user"]
  /\ left' = [left EXCEPT ![p] = 0]
  /\ UNCHANGED <<pipeVars, fileVars, ending, killed, gaveup>>

ReadWait(p) ==
  /\ pc[p] = "read" /\ Locked(p) /\ Count = 0 /\ opened["w"] /\ ~killed[p]
  /\ pc' = [pc EXCEPT ![p] = "rsleeping"]
  /\ plock' = p
  /\ UNCHANGED <<opened, live, data, nread, nwrite, fileVars, left, ending, killed, gaveup>>

\* What is there, up to n; nothing when all writers are gone.
ReadSome(p) ==
  LET k == Least(left[p], Count) IN
  /\ pc[p] = "read" /\ Locked(p) /\ (Count # 0 \/ ~opened["w"])
  /\ nread' = (nread + k) % Wrap
  /\ left' = [left EXCEPT ![p] = 0]
  /\ WakeWriters(p, "user")
  /\ UNCHANGED <<opened, live, data, nwrite, plock, fileVars, ending, killed, gaveup>>

\* Mutant of FallAsleep: p->lock stays with the sleeper.
FallAsleepLocked(p) ==
  /\ pc[p] \in {"rsleeping", "wsleeping"}
  /\ pc' = [pc EXCEPT ![p] = IF @ = "rsleeping" THEN "rsleep" ELSE "wsleep"]
  /\ UNCHANGED <<pipeVars, fileVars, left, ending, killed, gaveup>>

\* sleep() gives up p->lock once ptable.lock is held.
FallAsleep(p) ==
  /\ pc[p] \in {"rsleeping", "wsleeping"}
  /\ pc' = [pc EXCEPT ![p] = IF @ = "rsleeping" THEN "rsleep" ELSE "wsleep"]
  /\ plock' = NoProc
  /\ UNCHANGED <<opened, live, data, nread, nwrite, fileVars, left, ending, killed, gaveup>>

-----------------------------------------------------------------------------
(* Descriptors *)

\* A killed process goes no further than the next return to user space.
User(p) == pc[p] = "user" /\ ~killed[p]

\* pipealloc() and sys_pipe(), with files, a page and descriptors to be had:
\* where one is missing, what was taken is given back before anyone sees it.
SysPipe(p) ==
  /\ User(p) /\ ~live /\ ref = [e \in Ends |-> 0]
  /\ FreeFds(p) >= 2
  /\ fds' = [fds EXCEPT ![p] = [e \in Ends |-> 1]]
  /\ ref' = [e \in Ends |-> 1]
  /\ opened' = [e \in Ends |-> TRUE] /\ live' = TRUE
  /\ nread' = 0 /\ nwrite' = 0 /\ gaveup' = FALSE
  /\ UNCHANGED <<data, plock, threads, killed>>

SysDup(p) ==
  \E e \in Ends :
    /\ User(p) /\ Has(p, e) /\ FreeFds(p) > 0
    /\ fds' = [fds EXCEPT ![p][e] = @ + 1]
    /\ ref' = [ref EXCEPT ![e] = @ + 1]
    /\ UNCHANGED <<pipeVars, threads, killed, gaveup>>

\* fork()'s filedup() of every descriptor.
Fork(p, q) ==
  /\ User(p) /\ pc[q] = "absent"
  /\ fds' = [fds EXCEPT ![q] = fds[p]]
  /\ ref' = [e \in Ends |-> ref[e] + fds[p][e]]
  /\ pc' = [pc EXCEPT ![q] = "user"]
  /\ UNCHANGED <<pipeVars, left, ending, killed, gaveup>>

\* Mutant of FileClose: the pipe's end is closed with any of its references.
FileCloseAny(p, e, next) ==
  /\ Has(p, e)
  /\ fds' = [fds EXCEPT ![p][e] = @ - 1]
  /\ ref' = [ref EXCEPT ![e] = @ - 1]
  /\ pc' = [pc EXCEPT ![p] = next]
  /\ ending' = [ending EXCEPT ![p] = e]
  /\ UNCHANGED <<pipeVars, left, killed, gaveup>>

\* fileclose(): the last reference leads to pipeclose().
FileClose(p, e, next) ==
  /\ Has(p, e)
  /\ fds' = [fds EXCEPT ![p][e] = @ - 1]
  /\ ref' = [ref EXCEPT ![e] = @ - 1]
  /\ IF ref[e] = 1
     THEN pc' = [pc EXCEPT ![p] = next] /\ ending' = [ending EXCEPT ![p] = e]
     ELSE UNCHANGED <<pc, ending>>
  /\ UNCHANGED <<pipeVars, left, killed, gaveup>>

SysClose(p) == User(p) /\ \E e \in Ends : FileClose(p, e, "closing")

\* exit() closes what is open, one after the other; wait() then makes the slot free.
ExitStart(p) ==
  /\ pc[p] = "user"
  /\ pc' = [pc EXCEPT ![p] = "exit"]
  /\ UNCHANGED <<pipeVars, fileVars, left, ending, killed, gaveup>>
ExitClose(p) ==
  /\ pc[p] = "exit"
  /\ \E e \in Ends : FileClose(p, e, "exitclosing")
ExitEnd(p) ==
  /\ pc[p] = "exit" /\ FreeFds(p) = NOFILE
  /\ pc' = [pc EXCEPT ![p] = "absent"]
  /\ killed' = [killed EXCEPT ![p] = FALSE]
  /\ UNCHANGED <<pipeVars, fileVars, left, ending, gaveup>>

\* The end e is gone, and with the second one the page: kfree() fills it, and
\* nobody looks at the counters until pipealloc() sets them.
Shut(p, e) ==
  /\ opened' = [opened EXCEPT ![e] = FALSE]
  /\ live' = opened[IF e = "r" THEN "w" ELSE "r"]
  /\ IF live' THEN UNCHANGED <<data, nread, nwrite>>
     ELSE data' = [i \in Indices |-> Junk] /\ nread' = 0 /\ nwrite' = 0
  /\ ending' = [ending EXCEPT ![p] = "none"]
  /\ UNCHANGED <<plock, fileVars, left, killed, gaveup>>

Return(p) == IF pc[p] = "closing" THEN "user" ELSE "exit"

\* Mutant of PipeClose: who sleeps for the other end is not told.
PipeCloseSilent(p) ==
  /\ pc[p] \in {"closing", "exitclosing"} /\ Locked(p)
  /\ Shut(p, ending[p])
  /\ pc' = [pc EXCEPT ![p] = Return(p)]

\* pipeclose()
PipeClose(p) ==
  /\ pc[p] \in {"closing", "exitclosing"} /\ Locked(p)
  /\ Shut(p, ending[p])
  /\ IF ending[p] = "w" THEN WakeReaders(p, Return(p)) ELSE WakeWriters(p, Return(p))

-----------------------------------------------------------------------------
(* The calls *)

SysRead(p) ==
  /\ User(p) /\ Has(p, "r")
  /\ \E n \in ReadSizes : left' = [left EXCEPT ![p] = n]
  /\ pc' = [pc EXCEPT ![p] = "read"]
  /\ UNCHANGED <<pipeVars, fileVars, ending, killed, gaveup>>

SysWrite(p) ==
  /\ User(p) /\ Has(p, "w")
  /\ \E n \in WriteSizes : left' = [left EXCEPT ![p] = n]
  /\ pc' = [pc EXCEPT ![p] = "write"]
  /\ UNCHANGED <<pipeVars, fileVars, ending, killed, gaveup>>

\* kill() wakes a sleeper; it takes neither p->lock nor ftable.lock.  It makes
\* no difference to a process that exits.
Kill(p) ==
  /\ pc[p] \notin {"absent", "exit", "exitclosing"} /\ ~killed[p]
  /\ Cardinality({q \in Procs : killed[q]}) < MaxKilled
  /\ killed' = [killed EXCEPT ![p] = TRUE]
  /\ pc' = [pc EXCEPT ![p] = IF @ = "rsleep" THEN "read" ELSE IF @ = "wsleep" THEN "write" ELSE @]
  /\ UNCHANGED <<pipeVars, fileVars, left, ending, gaveup>>

-----------------------------------------------------------------------------

Step(p) ==
  \/ WriteAll(p) \/ WriteFail(p) \/ WriteWait(p)
  \/ ReadFail(p) \/ ReadWait(p) \/ ReadSome(p) \/ FallAsleep(p)
  \/ SysPipe(p) \/ SysDup(p) \/ SysClose(p) \/ SysRead(p) \/ SysWrite(p)
  \/ ExitStart(p) \/ ExitClose(p) \/ ExitEnd(p) \/ PipeClose(p)
  \/ Kill(p)
  \/ \E q \in Procs : Fork(p, q)

Next == \E p \in Procs : Step(p)

Spec == Init /\ [][Next]_vars

-----------------------------------------------------------------------------
(* Safety *)

\* The reference counts are the descriptors, an end is open until pipeclose()
\* after its last one, and nobody is inside piperead() or pipewrite() of an
\* end that is closed, so of a page that is freed.
NoUseAfterFree ==
  /\ \A e \in Ends : ref[e] = Cardinality(Descriptors(e))
  /\ \A e \in Ends : opened[e] <=> ref[e] > 0 \/ \E p \in Procs : ending[p] = e
  /\ live <=> \E e \in Ends : opened[e]
  /\ \A p \in Procs :
       /\ pc[p] \in {"read", "rsleeping", "rsleep"} => Has(p, "r")
       /\ pc[p] \in {"write", "wsleeping", "wsleep"} => Has(p, "w")

\* A reader sleeps only on an empty pipe that has a writer, a writer only on a
\* full pipe that has a reader: each is woken by what the other side does and
\* by its closing, however the calls interleave.  Except that a killed writer
\* leaves what it stored without waking the readers.
NoStrandedEnd ==
  \A p \in Procs :
    /\ pc[p] \in {"rsleeping", "rsleep"} => opened["w"] /\ (Count = 0 \/ gaveup)
    /\ pc[p] \in {"wsleeping", "wsleep"} => opened["r"] /\ Full

\* Readers get the bytes that were written, in their order, though the
\* counters wrap.
Queue == INSTANCE ByteQueue WITH Size <- PIPESIZE, contents <- IF live THEN Taken(Count) ELSE <<>>
ImplementsByteQueue == Queue!QueueSpec

=============================================================================
