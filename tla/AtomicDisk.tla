----------------------------- MODULE AtomicDisk -----------------------------
(***************************************************************************)
(* What the file system's log promises: system calls write to one memory,  *)
(* the disk changes only by taking over the whole of it, never while a     *)
(* call is half done, and a crash goes back to what the disk last took.    *)
(* No call starts between the end of a group and its commit.               *)
(***************************************************************************)

CONSTANTS
  Blocks,   \* block numbers
  Vals,     \* contents of a block
  Procs     \* processes

VARIABLES
  mem,      \* what a reader sees
  durable,  \* what a crash would leave
  ops       \* processes inside a file system call

diskVars == <<mem, durable, ops>>

DiskInit ==
  /\ mem = durable
  /\ durable \in [Blocks -> Vals]
  /\ ops = {}

Begin(p) ==
  /\ p \notin ops
  /\ ops = {} => mem = durable
  /\ ops' = ops \cup {p}
  /\ UNCHANGED <<mem, durable>>

Write(p, b, v) ==
  /\ p \in ops
  /\ mem' = [mem EXCEPT ![b] = v]
  /\ UNCHANGED <<durable, ops>>

End(p) ==
  /\ p \in ops
  /\ ops' = ops \ {p}
  /\ UNCHANGED <<mem, durable>>

Commit ==
  /\ ops = {}
  /\ durable' = mem
  /\ UNCHANGED <<mem, ops>>

Crash ==
  /\ mem' = durable
  /\ ops' = {}
  /\ UNCHANGED durable

DiskNext ==
  \/ \E p \in Procs : Begin(p) \/ End(p)
  \/ \E p \in Procs, b \in Blocks, v \in Vals : Write(p, b, v)
  \/ Commit
  \/ Crash

DiskSpec == DiskInit /\ [][DiskNext]_diskVars

=============================================================================
