------------------------------ MODULE CacheInv ------------------------------
(***************************************************************************)
(* The inductive invariant of BufferCache: what holding a buffer's lock    *)
(* means, what the flags of a buffer say about its data, and what keeps a  *)
(* buffer from being recycled.                                             *)
(***************************************************************************)
EXTENDS BufferCache

Queued(b) == \E i \in 1 .. Len(queue) : queue[i] = b

\* A buffer's lock is held by exactly the process that is between
\* acquiresleep() and releasesleep() with it.
Owning == {"request", "iowait", "iodone", "have"}
Ownership ==
  /\ \A p \in Procs : pc[p] \in Owning => owner[buf[p]] = p
  /\ \A b \in Bufs : owner[b] # NoProc => buf[owner[b]] = b /\ pc[owner[b]] \in Owning

\* A valid buffer that is not dirty has what the disk has; a request is made
\* for a buffer that has something to be read or written, and is answered.
Flags ==
  /\ \A b \in valid : slot[b] # NoBlock
  /\ \A b \in valid \ dirty : data[b] = disk[slot[b]]
  /\ \A p \in Procs : pc[p] \in {"request", "iowait"} => buf[p] \notin valid \ dirty
  /\ \A p \in Procs : pc[p] = "iodone" => buf[p] \in valid \ dirty
  /\ \A p \in Procs : pc[p] = "have" => buf[p] \in valid

\* All of it: inductive, by CacheProofs.
CInv == TypeOK /\ OneBuffer /\ NoLostWakeup /\ Ownership /\ Flags

=============================================================================
