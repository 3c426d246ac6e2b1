# A specification of the xv6 kernels of xv6Programming

The repository holds four copies of the xv6 teaching kernel: `xv6-original`,
the untouched one; `P3_Scheduler`, with a priority scheduler; `P4_MAFS`, with
multi-level files and lazy memory allocation; and `xv6-study`, with small
experiments. The files that differ from `xv6-original` are few, so a model of
`xv6-original` is a model of most of every tree (`log.c`, `bio.c`, `ide.c` and
`pipe.c`, for instance, are the same in all four). Line numbers below are those
of `xv6-original` unless a tree is named.

## 1. The system

| Part | State | Operations | Hard behaviour | What makes it correct |
|---|---|---|---|---|
| Processes (`proc.c`) | `ptable`: state, pid, parent, chan, killed; `c->proc` | `fork` `exit` `wait` `kill` `sleep` `wakeup` `yield`, the scheduler loop | CPUs and timer interrupts interleave; `ptable.lock` passes from thread to thread over `swtch`; lost wakeups | one CPU per kernel stack, no missed exit, a tree without orphans, everybody runs, the killed die |
| Clock (`trap.c`, `sysproc.c`) | `ticks`, `tickslock` | timer interrupt, `sys_sleep` | the tick against the check before the sleep | no tick slept through |
| Log (`log.c`) | `log.lh`, `outstanding`, `committing`, header and data blocks on disk | `begin_op` `log_write` `end_op`, commit, recovery | a crash between any two disk writes; concurrent calls in one transaction; a full log | transactions atomic over crashes, room for whoever is admitted |
| Buffer cache (`bio.c`), disk (`ide.c`), sleep locks | 30 buffers with flags, refcnt, sleep lock; request queue | `bread` `bwrite` `brelse`, `log_write`'s pin, interrupt | recycling against pinned blocks, interrupt against request | one buffer per block, no dirty buffer recycled, each request served once, each sleeper woken |
| Inodes, directories (`fs.c`), calls (`sysfile.c`) | inode cache, `nlink`, `ref`, directory entries | `ialloc` `iget` `ilock` `iput` `dirlink`, open, create, link, unlink, close | freeing against a concurrent open; a call's transaction against a crash | no freed inode in use, links equal names after every crash |
| Open files, pipes (`file.c`, `pipe.c`) | descriptors, reference counts; ring buffer | read, write, dup, close, fork, exit | full and empty pipes, close on one end, kill | bytes in order, the page lives as long as its ends, nobody waits for an end that is closed |
| Memory (`kalloc.c`, `vm.c`), `exec.c` | free list, page tables, sizes | allocation, copy, growth, page fault | failure half way, pages without frames | each frame free once or held once |
| P3 scheduler | `run_queues`, priority, `proc_tick`, `priority_tick`, `cpu_used`, timer | `ssu_schedule`, `ssu_update_priority`, `set_sche_info`, timer trap | queues changed with interrupts on, lists changed while walked, an unchecked priority | each live process queued once, quantum, ageing |
| P4 files | three levels of indirect blocks | `bmap`, `itrunc`, `filewrite` | boundaries of the levels, log space of a part | `itrunc` frees what `bmap` allocated, no block in two places, a bound on what a part logs |
| Devices, boot, user programs | | | | environment, not modelled |

Parts meet in four ways: system calls call down (`sysfile` to `fs` to `log` to
`bio` to `ide`); interrupts call `wakeup`; everything that waits calls `sleep`
with a channel and a lock; and `trap` calls `exit` or `yield` on the way out.

`PROJECT.json` lists every hazard at its line, with the property that would
catch it going wrong, or why none does.

## 2. The modules

| Module | What it is |
|---|---|
| `ProcLife` | abstract: the tree of lives that fork, exit and wait promise |
| `Proc` | `proc.c` with the timer path of `trap.c` and `sys_sleep` |
| `ProcInv`, `ProcProofs` | the inductive invariant of `Proc`, and the theorems |
| `AtomicDisk` | abstract: a memory and a disk that takes it over in whole transactions |
| `Log` | `log.c` over a cache and a disk of single block writes, with crashes |
| `LogInv`, `LogProofs` | the inductive invariant of `Log`, and the theorems |
| `BlockStore` | abstract: blocks that one holder at a time reads, changes and flushes |
| `BufferCache` | `bio.c`, `ide.c` and `sleeplock.c` |
| `CacheInv`, `CacheProofs` | the inductive invariant of `BufferCache`, and the theorems |
| `ByteQueue` | abstract: a bounded queue of bytes |
| `Pipe` | `pipe.c` with the descriptors of `file.c`, `fork`, `exit` and `kill` |
| `PipeInv`, `PipeProofs` | the inductive invariant of `Pipe`, and the theorems |
| `InodeCache` | the inodes and names of `fs.c` under open, create, link, unlink and close, with crashes |
| `InodeInv`, `InodeProofs` | the inductive invariant of `InodeCache`, and the theorems |
| `MultiLevel` | `bmap`, `itrunc` and `filewrite` of `P4_MAFS` |
| `LevelInv`, `LevelProofs` | the inductive invariant of `MultiLevel`, and the theorems |
| `Memory` | the frames and page tables of `P4_MAFS` |
| `MemoryInv`, `MemoryProofs` | the inductive invariant of `Memory`, and the theorems |
| `RunQueue` | the scheduler of `P3_Scheduler` |
| `RunQueueInv`, `RunQueueProofs` | the inductive invariant of `RunQueue`, and the theorems |
| `MCProc`, `MCLog`, `MCBufferCache`, `MCPipe`, `MCInodeCache`, `MCMultiLevel`, `MCMemory`, `MCRunQueue` | instances for TLC |

`BlockStore` is what the modules above the cache assume of it: `Log` works on
blocks of which one process at a time has the buffer, and `BufferCache` is
shown to provide that. `AtomicDisk` is likewise what `InodeCache` assumes of the
log: its `durable` changes when the last call of a transaction ends, and a
crash goes back to it.

Definitions carry the names of the code where TLA+ allows it. Some modules
hold mutants next to a definition: the same definition with one plausible bug,
marked as such. No specification uses them; putting one in place of its
original must break a property.

### Proc

A section of `ptable.lock` that neither sleeps nor switches is one action.
One that switches is cut at the switch: the old thread takes the lock
(`Sched`), the scan goes on with it (`scan`), the next thread releases it
(`YieldReturn`, `Forkret`, `SleepResume`, `WaitReap`...) or the scan does at
its end (`SchedDone`). `ptlock` and `tklock` name the CPU that holds a lock; a
CPU that holds one takes no timer interrupt (`pushcli`). `pc` is the place of a
thread in the kernel. `At` says that a CPU executes a thread and not an
interrupt handler. A system call enters in `SysEnter`, picks one of the calls
nondeterministically, and leaves through `TrapReturn`, where `killed` is
looked at.

`left` stands for `n - (ticks - ticks0)`: `ticks` itself is unbounded and only
this difference matters. The timer decrements it for every process that
sleeps, which is what incrementing `ticks` does to the difference.

Not in `Proc`: the file system part of `exit()` (it comes before
`ptable.lock` and touches nothing of this state; see `Pipe`), memory (see
`Memory`), `procdump`, and sleeping on other channels than a child's exit and
the clock. Arguments of `sys_sleep` are not negative, nobody kills init or
pid 0.

### Log

`home`, `logdata` and `hdr` are the disk; a write of a block is a step, and
`Crash` may come between any two. `WriteLog`, `WriteHead`, `Install` and
`Clear` are the four parts of `commit()`; the last two, with `ReadHead`, are
recovery as well. The header is one block, so its write is atomic, as the
code assumes too ("the true point at which the current transaction commits",
log.c:98-100). The cache is a set of valid buffers with their data;
`Recycle` forgets a buffer that is not dirty, `Read` loads one. A call writes at
most `OpBlocks` distinct blocks; `MAXOPBLOCKS` is what `begin_op` reserves for
it. `OpBlocks < MAXOPBLOCKS`, because `filewrite` splits a write so that a part
changes seven blocks (file.c:127-133).

### BufferCache

A section of `bcache.lock`, `idelock` or a sleep lock's own spin lock is one
step; between them processes and the disk's interrupt interleave. `BgetHit` and
`BgetRecycle` are the two loops of `bget()`; the list of buffers is the function
`rank`, whose order is the list's. `Acquire` and `AcquireSleep` are
`acquiresleep()`, `Release` with `Drop` is `brelse()`: the lock goes first and
the reference afterwards, as in the code. `Iderw` appends to `idequeue` and
starts the disk when it was idle, `Ideintr` finishes the head, starts the next
and wakes the waiter, `IoReturn` is the loop that looks at the flags again.
`Pin` is `log_write()`: it leaves B_DIRTY on a buffer that no request will write
until the log does. When every buffer is in use or pinned, `BgetPanic` is the
panic of `bget()`: it keeps `bcache.lock`, so from then on whoever needs that lock
spins, the rest goes on, and `Halted` is the machine in which nothing does. A
process has one buffer at a time and the disk makes no errors. `MaxPinned` is the
log's bound on pinned blocks.

### Pipe

A section of `p->lock` or of `ftable.lock` is one step. `pipewrite()` and
`piperead()` hold `p->lock` from one sleep to the next, so what they do in
between is one step (`WriteAll`, `WriteFail`, `WriteWait`, `ReadSome`...), and
the way to sleep with the lock still held is a step of its own (`FallAsleep`):
a kill may come before it. `fileclose()` gives a reference up (`FileClose`) and
closes the pipe later (`PipeClose`), which frees the page when both ends are
gone. Counters wrap at `Wrap` (2^32 in the code). `exit()` closes descriptor by
descriptor. `gaveup` remembers the one path on which the code itself leaves
bytes without waking a reader: a writer that is killed on a full pipe.

### InodeCache

Each step goes from one lock to the next. `dinode` and `entry` are the disk as
the buffer cache has it, `durable` the same as of the last commit. `dlock` is the
`ip->lock` of a directory: directories stay, so they need no entry of the cache.
`Iget` is the search of `iget()` for an entry or an empty one. `iput()` is four
steps: look at `nlink` and `ref` under the lock (`IputLook`), free the inode on
disk (`IputFree`), unlock (`IputRelease`), and only then drop the reference
(`IputDrop`). `create()` allocates the inode, gets it, and locks it as three
steps while it holds the directory; `link()` raises `nlink`, unlocks, and only
then goes to the directory of the new name, where it may fail (`LinkBad`: the
path has no parent, or the name exists) and lowers `nlink` again. `Ialloc` takes
any free inode: the code reads them one by one and may pass one that is freed
behind it. A process has one open file.

### MultiLevel

`Bmap` is the walk of `bmap()`: `Enter` follows a pointer of `ip->addrs`, `Follow`
one of an indirect block, as many times as the layer is deep, each with a new
zeroed block behind a pointer that is null. `Path` gives the index at each depth;
`Rank` is the same without the modulus, the number of the pointer among all that
the layer has in that depth. `WritePart` is a part of `filewrite()`, the loop of
`writei()` over its blocks (`Written`); `Itrunc` clears what `Freed` finds, the
loop of `itrunc()` over `ip->addrs` with its count of pointers seen in a layer
(`ItruncAddr`, `Layer`) and `itrunc_layer()` below each. A disk is passed along
as a record with the set of blocks logged so far. A part or a truncation is one
step: the inode is locked throughout, and `balloc()` holds the bitmap block it
changes. `balloc()` without a free block panics, so does `bfree()` of a block that
is free (`FreesFree`), and `panic` ends everything.
Sizes count half blocks, so that parts begin inside a block.

### Memory

A call is one step: it works on the page table of its own process, and what
processes share, the free list, is taken and given one frame at a time under a
lock. The functions of `vm.c` take and return a record of the free list, the
page table, whether they failed, and a panic. Frames are single, so that giving
one back twice or losing one shows as a count; sizes are half pages modulo
`WORD`, so that a size may be unaligned and may wrap. `lazy` is an entry with
its permissions and no frame, what `ssualloc` leaves for the page fault. Besides
running out of frames anywhere, `exec` may fail while it loads the image, and over
its arguments when it has image and stack (`Faults`). The loops over pages of `allocuvm`, `copyuvm` and `ssu_valloc` are `Turns`: the body
for one page after the other, up to the first that fails.

### RunQueue

One CPU, as `P3_Scheduler/Makefile:229` sets it, so a lock-protected section
is one step. The timer handler runs with interrupts off and is cut in three
(`Tick`; `TickKilled` or `TickAge`; `TickExpire`, `TickYield` or `TickReturn`)
for readability: nothing else happens while `irq` is not "none". What does
interleave is `sys_set_sche_info`, which walks and changes the queues with
interrupts on: `SetCall` enters `update_priority()`, `SetPull` is the store that
takes the process out, `SetPut` the one that links it in again, and ticks come
before, between and after them. A queue is a sequence of processes; the array
of list entries behind it is not modelled. So when a tick moves entries under a
walk (`stale` holds the processes inside one), it is not said what comes of it:
the walk may be lucky, or `SetTorn` sets `wild`. `SetWild` does so when a
process files itself by a priority that has no queue, which `sys_set_sche_info`
does not check. In either case nothing is known of the lists afterwards, and the
model ends. `ForkFail` is a fork without memory: its pid is gone, so that the
shell may not get pid 2. `ssu_update_priority` is translated as the walk it is, over lists that change under it: `AgeQueue` goes
along one list, stops at the first process this ageing has already moved, and
`Aged` takes the lists one after the other.
`wakeup1` assigns priorities one by one in the code; as a process woken
earlier can never offer a better priority than it received, assigning them at
once is the same. Forking, reaping and waking are as free as `Proc` allows and
more: who is whose parent does not matter here.

## 3. What TLC checks

| Run | Instance | Shows |
|---|---|---|
| `proc` | 3 slots, 2 CPUs, 3 forks, sleeps of one tick, kill(2), kill(3) | types, `RunningIsUnique`, `SwitchDiscipline`, `NoMissedWakeup`, `NoOrphan`, refinement of `ProcLife` |
| `proc_live` | 3 slots, 1 CPU, fair | `KilledDies`, `OrphansReaped`, `RunnableRuns`, `SleeperWakes` |
| `log` | 2 blocks, 2 contents, 3 callers, log of 6, 3 reserved and 1 written per call, fair | types, `QuietIsDurable`, `NoOverflow`, `CommitIsAlone`, `NoStrandedCaller`, refinement of `AtomicDisk`, `LogSettles` |
| `bufcache` | 4 blocks, 2 contents, 3 buffers, 2 processes, 2 pinned | types, `OneBuffer`, `NoLostWakeup`, refinement of `BlockStore` |
| `pipe` | 3 processes, 2 descriptors each, a ring of 2, counters modulo 4, reads of 1, writes of 1 and 3, 1 kill pending | types, `NoUseAfterFree`, `NoStrandedEnd`, refinement of `ByteQueue` |
| `inode` | 2 processes, 2 names in 2 directories, 2 inodes, 3 entries, transactions of up to 3 calls, 1 crash | types, `OneEntry`, `NeverFreedInUse`, `LinksDurable` |
| `inode_leak` | the same without crashes | violation of `NoLeak` |
| `multilevel` | 2 files, layers of 1, 2, 1 and 1 pointers, 4 pointers a block, 39 blocks, each with a bitmap block of its own, one removal | `OneOwner`, `ReadsBack`, `PartBound` |
| `memory` | 2 slots, 12 frames, 4 user pages in 2 tables, 7 calls | types, `FramesOnce`, `SizeBacked` |
| `memory_panic` | the same | violation of `StrayIsKilled` |
| `runqueue` | 3 slots, 2 queues of 2 priorities, quantum 2, ageing every 4 ticks, set_sche_info with -1 and 9 | types, `Registered`, `QuantumBound`, `AgingReachesAll` |
| `runqueue_cut` | the same | violation of `PullFinds` |

The bounds, and why they are enough.

* `Proc`: two CPUs are what a race on the table needs, three slots hold init, a
  parent and a child; `MaxPid` bounds forks and lets a slot be reused once;
  `MaxSleep` of one tick gives the sleep that ends at the next tick and the one
  that does not begin. The safety theorems hold for every value of these.
* `Log`: three callers are one that commits or fills the log, one that waits
  and one that overtakes; `LOGSIZE = 2 * MAXOPBLOCKS` makes the third caller
  wait for space; two contents tell an old block from a new one.
* `BufferCache`: four blocks on three buffers force recycling, two processes
  share a buffer, wait for each other's lock and queue two requests; with one
  block pinned both find a buffer, with two the second one panics. The theorems
  hold for every value.
* `Pipe`: three processes are a reader, a writer and one that shares or closes
  an end; a write of three on a ring of two sleeps half way, and counters
  modulo four wrap after four bytes. The theorems hold for every value.
* `InodeCache`: one inode with two names or two inodes, both processes in
  `iput()` of one entry, in `create()` of the inode that the other one is just
  freeing, or in a link that the other one's unlink overtakes. Names in one
  directory only exclude each other more. The theorems hold for every value.
* `MultiLevel`: a file that goes through all four layers into the triple
  indirect block, and one of two blocks that takes blocks from between; the
  blocks run out just before both files have their full size, so that `balloc()`
  panics in some runs. With a bitmap block for each block, every block a part
  takes costs it a bitmap block as well, and a part that crosses into the deepest
  layer logs as much as any part can: `PartBound` is reached.
  The theorems hold for every value.
* `Memory`: every function fails on each of its allocations for some choice of
  calls before it; seven calls are a fork, growth in both, a failure, exits and
  a reuse of the frames. The theorems hold for every value.
* `RunQueue`: two priorities per queue tell the order in a queue from the order
  of queues, -1 is a priority below the range that C divides into the first queue
  and 9 one that has no queue, and the ageing period of two quanta is the code's.
  `MaxTicks` bounds the ticks charged to processes: one period of ageing and, with
  idle ticks, its repetition. The theorems hold for every value.

The symmetries are over processes, blocks and names, which the specifications
do not tell apart; the runs with liveness use none. Deadlock is off where the
system may stop: `panic` stops the machine (`runqueue`, `memory`, `inode`,
`multilevel`; `bufcache` has `Halted` for it and checks deadlock), files are as
long as their bound (`multilevel`), and every process may be gone (`pipe`).

Fairness. `proc_live` assumes: each CPU keeps executing its scheduler
(strongly fair: `acquire` is a spin lock with no order, and a CPU that spins
again and again while the lock is free again and again gets it), its timer
keeps firing and the handler runs, and a thread that is again and again about
to take its next kernel step takes it: an instruction is shorter than a
tick. init calls `wait` forever (init.c). User programs owe nothing: they may
compute forever. `log` assumes that the disk completes writes and that a call once
begun ends; its safety properties do not depend on that. It does not assume that
a caller gets into a transaction: `begin_op` wakes everybody and has no queue, so
one caller may lose to newcomers forever. What the code does promise is
`NoStrandedCaller`: nobody sleeps in `begin_op` unless a call or a commit is under
way that will wake it. Crashes are never forced, and
`LogSettles` is about executions where they stop.


## 4. What TLAPS proves

For every value of the constants the assumptions admit:

| Module | Theorems | Assumptions |
|---|---|---|
| `ProcProofs` | `TypeOK`, `RunningIsUnique`, `SwitchDiscipline`, `NoMissedWakeup` (with its parts `NoMissedExit` and `NoMissedTick`), `NoOrphan`; `Proc` implements `ProcLife` | `ProcAssumption` |
| `LogProofs` | `TypeOK`, `CommitIsAlone`, `QuietIsDurable`, `NoStrandedCaller`; `Log` implements `AtomicDisk`; `NoOverflow` under `Slack` | `LogAssumption` |
| `CacheProofs` | `TypeOK`, `OneBuffer`, `NoLostWakeup`; `BufferCache` implements `BlockStore` | `CacheAssumption` |
| `InodeProofs` | `TypeOK`, `OneEntry`, `NeverFreedInUse`, `LinksDurable` | `InodeAssumption` |
| `PipeProofs` | `TypeOK`, `NoUseAfterFree`, `NoStrandedEnd`; `Pipe` implements `ByteQueue` | `PipeAssumption` |
| `LevelProofs` | `OneOwner`, `ReadsBack`, `bfree()` never panics (`NeverFreesFree`); `PartBound` under `PartsFit` | `LevelAssumption` |
| `MemoryProofs` | `TypeOK`, `FramesOnce`, `SizeBacked` | `MemoryAssumption` |
| `RunQueueProofs` | `TypeOK`, `Registered`, `QuantumBound`, `AgingReachesAll` | `RunQueueAssumption` |

The invariants that the runs check are not inductive. Each `*Inv` module holds
the strengthening. TLC has checked it as an invariant of the same instance (that
of `MultiLevel` in its first 1,200 states only, with the block behind a pointer
read off the disk instead of quantified). The proofs go through one step per
action and one per conjunct it disturbs.

* `IInv` of `Proc`. That a process runs on one CPU depends on what the others
  resume with: `Resumable` says that whoever is not running was switched out with
  `ptable.lock` in hand and nothing else, or is about to be. That a `wait`
  misses no exit depends on its scan and its `sleep` being in one section of
  `ptable.lock`, which `SwitchDiscipline` gives; that `sys_sleep` misses no tick
  on `TickLeft`: between the check and the switch `tickslock` is still held, or
  `ptable.lock` is already, and the wakeup needs both. `Forking` is why the slot
  that `fork` fills outside of the lock stays its own, and `Roots` keeps the tree
  of parents in place.
* `LInv` of `Log`: where the current contents of a block are, phase by phase. In
  a transaction they are in dirty buffers, all of which are on the list
  (`Buffers`); while the log is written the slots before `tail` agree with the
  cache, while it is installed the blocks before `tail` agree with the slots
  (`Copies`); the header on disk is the list exactly from the commit to its
  erasure (`Headers`). The refinement maps the disk of `AtomicDisk` to `home`
  overlaid with the slots the header names: a crash and each write of recovery
  leave that as it is, and only `WriteHead` changes it.
* `Reservation` of `Log`: while calls are in progress, the list and the pairs of
  a call and a block it may still write fit into `LOGSIZE`. Counting pairs instead
  of `outstanding * MAXOPBLOCKS` makes each step a fact on cardinalities: a block
  newly written takes a pair's place, a block already on the list takes none.
  `Slack` is what the code has beyond that: the log of mkfs counts its header
  among its blocks, `begin_op` does not, and the room that `filewrite` leaves
  unused makes up for it (section 5).
* `CInv` of `BufferCache`: `OneBuffer` counts a buffer's users, `Ownership` says
  who is between `acquiresleep` and `releasesleep`, `Flags` that a clean valid
  buffer has what the disk has. None of it depends on how many buffers there are:
  a `bget()` that finds none panics and leaves the invariant as it is. The
  refinement maps a block to the contents of its valid buffer, or else of the
  disk, and its holder to the owner of the buffer once it is valid.
* `NInv` of `InodeCache`. `Hands`, `InCall`, `Locked` and `DirLocked` say what a
  process holds at each point of a call; all counting in `OneEntry` and `Links` is
  of how often a function takes a value, so a step changes each count by what it
  does at one process or name. That no inode in use is freed rests on three facts
  about who refers to it. `Allocated`: whoever holds a reference and is not past
  the free of its `iput()` has a file. `Sole`: from the look at `ref == 1` to the
  free, nobody else has the entry, and nobody can get it, because an inode with no
  links has no name to look up (`Links`). `Fresh`: an inode that `ialloc()` took
  belongs to its maker until it has a name; whoever else still refers to the same
  entry freed it and has only to drop it. `Links` counts the names of an inode and
  the calls in between, `link()` after it raised `nlink` and `unlink()` before it
  lowers it (`Extra`). When the last call of a transaction ends no call is in
  between, so what is committed has as many links as names; that is
  `LinksDurable`, and what a crash goes back to.
* `PInv` of `Pipe`. `Closing` says that an end is closed by the one process that
  dropped its last reference, so nothing is left of that end when `pipeclose()`
  takes the lock; `Absent`, that `fork` copies descriptors into an empty table;
  `Ring`, that the counters are at most `PIPESIZE` apart, modulo `Wrap`. The
  reference counts are the cardinality of the set of descriptors, which each
  step changes by one element or by a copy. For the refinement, byte `i` of the
  ring lies `i - 1 - Count` places behind the writer modulo `PIPESIZE`
  (`Place`). That needs `Wrap % PIPESIZE = 0`, which 2^32 and 512 satisfy: with
  a ring of another length, the bytes would change places when a counter wraps.
* `LInv` of `MultiLevel`. `OneOwner` counts blocks and cannot say which pointer
  leads where, so the pointers get names: `<<l, k, q>>` is the `q`-th that layer
  `l` has in depth `k`, `Up` is the pointer to the block it stands in. `Sound(d,
  V, at)` says that the disk `d` consists of the pointers `V` of the files, with
  `V` closed under `Up`, a block `at[v]` of its own behind each, exactly these
  blocks in the bitmap, and null in every other pointer of these blocks and of
  the inodes. `LInv` is that for `V` the pointers on the ways to the blocks below
  the files' sizes (`Needed`), with the right data behind the last of each way
  (`Filled`). A step of the walk either finds the pointer in `V` or adds it
  (`Placed`); that the new block is zeroed is why the pointers in it are null as
  `Sound` wants. `ItruncLayer` in depth `k` below a pointer is the set of blocks
  behind the pointers that lead up to it, and `itrunc()` gets the depth of every
  pointer of the inode right because those that are not null come first in each
  layer, and a layer is full before the next one has any. With that `Freed(f)`
  is the tree of `f`, and cutting it out leaves the others `Sound`.
* `PartBound`. What a part of c blocks logs is the blocks behind the pointers it
  marks (those of its data blocks, and each indirect block in which it adds a
  pointer), the bitmap blocks of the blocks it takes, and the inode. As it has no
  more blocks than an indirect block has pointers, at most one new block of it is
  the first below its indirect block; the others add a pointer to the same
  indirect block or nothing. So the marked pointers above its blocks lie on the
  way to one block, and there is one more (`MarkedIsFew`): at most c + NLAYER
  blocks. A bitmap block is logged only for a pointer that was null (`Booked`), and
  those are the new data blocks and what is new of that one way (`NewIsFew`): at
  most c + NLAYER - 1. With c = 4 (three and one more, as a part is not aligned)
  and four layers that is 15, on a disk of any size and however scattered its free
  blocks are. `PartsFit` only asks that half a part is at least one block and
  less than an indirect block has pointers, so P4 satisfies it (3 of 128). The
  bound is tight: TLC finds a part that logs 15, and with a `max` one block
  longer finds it broken.
* `MInv` of `Memory`. `FramesOnce` counts the holders of a frame and says nothing
  of the record that `vm.c` works on, so the proof goes by `Sound(m, H)`: in the
  record `m`, no two places of the page table hold one frame, no frame of `H` is
  among them or free, and every frame is free, in the table or in `H`. `Apart`
  says that of each process, with what the others and its own stack hold for
  `H`. Each function of `vm.c` then has a lemma of its own: it keeps the record
  sound for the same `H`, and says which entries it changed and when it may
  panic. `exec` is two tables alive at once, the new one built with the old one
  in `H`, and then the two change places (`SwapSound`); `fork` the same with the
  child's. The loops go by induction over their turns. `Sized` says that a size is
  in user space and page 0 is never lazy, without which the cut of `sbrk` could
  leave an entry missing.
* `Inv` of `RunQueue`. `Filed`, which `Registered` claims as long as the lists are
  not `wild`, and `QuantumBound` need to know who can run: `CurRuns` says that the
  process on the CPU is the one whose state is RUNNING, `IdleStays` that init and
  the shell are never free slots and never inside `update_priority()` (`Setting`),
  `NoTickWhileDying` that the timer handler does not interrupt an exit it has
  called, and `QuantumLeft` that whoever leaves the handler has a tick of its
  quantum left. That the priorities name queues (`TypeOK`) is not an assumption on
  what `set_sche_info` is called with, `Priors` is any set of integers: a priority
  that is filed by has a queue, and wakeups, fork and the ageing only copy one
  or raise one up to `MAXPRIOR`. `AgingReachesAll` is an
  action property about the walk of a list that the walk itself rearranges.
  Processes that it moved are behind those still to come (`MovedLast`), which is
  why it may stop at the first of them; with that, `AgeReaches` says after each
  list that nobody of it was left out and that everybody moved is in the queue
  of its new priority. It is proved by induction over the walk of one list,
  and over the lists.

What `Turns`, `AgeQueue`, the walks of `Bmap` and the loops of `writei()` and
`itrunc()` return is proved for every length by induction over the interval of
their turns. The library's induction rules take the property as an operator,
which the provers cannot instantiate; the lemmas at the head of `MemoryProofs`,
`RunQueueProofs` and `LevelProofs` derive induction for a set of numbers from the
least element of a set instead, and show that a function defined by recursion on
an interval exists and satisfies its equation. Each module has those it needs.

Only model-checked: liveness (`proc_live`, `log`), which the provers cannot do
under fairness. Every safety invariant and every action property that a passing
run checks is stated by a theorem as well.

## 5. Where the code and its comments disagree

Three runs show it:

* `runqueue_cut`. `sys_set_sche_info` calls `update_priority` with interrupts on
  (P3_Scheduler/sysproc.c:106). A timer interrupt between `pull_runqueue` and
  `put_runqueue` that ends the process panics at P3_Scheduler/proc.c:193; one
  that only takes the CPU away leaves a runnable process in no queue for good.
* `inode_leak`. Two processes that drop the last two references of an unlinked
  inode at once both see `ref == 2` (fs.c:337), and neither frees it, against
  the comment at fs.c:327. Only mkfs would get it back.
* `memory_panic`. The page fault of P4 does not ask who owns the address
  (P4_MAFS/trap.c:81): a stray access panics where trap.c:92 and usertests.c:1496
  want the process killed.

Met on the way, and not shown by a run of their own:

* `kill(0)` marks a free slot (proc.c:487), `allocproc` does not clear `killed`,
  and the next process in it dies at its first return to user space.
* A log of `LOGSIZE = 3 * MAXOPBLOCKS` blocks with its header among them has one
  block less than `begin_op` reserves: three calls of ten distinct blocks each
  would panic in `log_write`. No call of xv6-original writes ten.
* P4's `filewrite` splits a write as if `MAXOPBLOCKS` = 10 were enough for a part
  (param.h:10, "max # of blocks any FS op writes"). With four layers and 611
  bitmap blocks a part can log 15: `PartBound` proves that it is never more, and
  its run reaches it. Three such parts in one transaction are 45 blocks for a log
  of 30. `Log` takes the reservation as given and does not model that.
* Nothing keeps `bget()` from its panic (bio.c:92): there are 30 buffers, the log
  may pin 30, and 64 processes may hold one each, or two in `write_log`,
  `install_trans` and `bmap` with `balloc`. `BufferCache` runs into the panic with
  one buffer per process, and no property says that a buffer is found.
* `sys_set_sche_info` of P3 takes any int for a priority
  (P3_Scheduler/sysproc.c:103-106) and `put_runqueue` indexes
  `run_queues[priority / 4]` with it (P3_Scheduler/proc.c:164), against the 0 to
  99 of P3_Scheduler/proc.h:53. One from 100 on, or from -4 down, writes beside the
  array. In `RunQueue` that is `SetWild`, and `TypeOK` is about what the kernel
  makes of priorities afterwards.
* A tick inside `pull_runqueue` or `put_runqueue` of `set_sche_info` may leave
  them with an entry, a predecessor or a free slot that the ageing has moved: two
  processes share an entry, or a list is cut. In `RunQueue` that is `SetTorn`, and
  `Registered` holds only up to it.
* P4's `itrunc` frees a large file in one transaction; one whose blocks are
  under more bitmap blocks than the log has room for panics in `log_write`.
* P3's `wakeup1` gives a process a new priority and leaves it in the queue of
  the old one, against the comment at P3_Scheduler/proc.c:462.
* A kill that comes between the `killed` check and the `sleep` of a pipe leaves
  the process asleep until the next wakeup; a writer killed on a full pipe
  returns without waking the readers (pipe.c:86).
* In P4, fork of a process with pages without frames panics ("page not
  present", vm.c:348); a negative argument of `ssualloc` passes its unsigned
  compare; `sbrk` down to zero keeps the size; a page touched just past the size
  makes the next `sbrk` panic with "remap".
* `sys_sleep` compares its `int` argument with unsigned ticks: a negative one
  sleeps nearly for ever (sysproc.c:69).

## 6. Not modelled, and what is left

* Devices, boot, interrupt controllers, the console, user programs: I/O and
  hardware programming with little state of their own, and code whose only part
  here is to make calls. mkfs fixes the sizes of the disk and is in the constants.
* `memide.c` replaces the driver by a copy in memory without a queue.
* Making, removing and entering directories, paths of more than one part, device
  nodes, `fstat`. `InodeCache` would need inodes for directories and their
  parents' links.
* `exec`'s ELF headers and the contents of argument pages (its failures are in
  `Memory`); the offset two processes share.
* A process with two buffers at once: `BufferCache` would need the calls above it.
* P3's array of queue entries behind its lists; the slot that stays EMBRYO when
  the timer makes the parent exit in the middle of `fork`; and the transaction
  that a process abandons when that happens inside a file system call: `Log`
  would need a caller that vanishes.
* xv6-study is a tree of experiments (alarm, lseek, date); its alarm ends
  processes the way P3's timer does.

Worth doing next: the composition of `RunQueue` with `Log`, and directories in
`InodeCache`.
