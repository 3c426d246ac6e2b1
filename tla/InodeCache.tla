----------------------------- MODULE InodeCache -----------------------------
(***************************************************************************)
(* Inodes in memory and on disk and the directory entries that name them:  *)
(* ialloc, iget, ilock, iput, dirlookup and dirlink of xv6-original/fs.c   *)
(* under the open, link, unlink and close of sysfile.c.  A step goes from  *)
(* one lock to the next.  Files are plain files, their directories stay,   *)
(* and a crash leaves what the last transaction committed.                 *)
(***************************************************************************)
EXTENDS Integers, FiniteSets

CONSTANTS
  Procs, NoProc,
  Names, DirOf,  \* names of files, and the directory each is in
  NINODES,       \* inodes on the disk, sb.ninodes
  NINODE,        \* entries of the inode cache, param.h:8
  MaxOps,        \* calls the log has room for in a transaction
  MaxCrashes

ASSUME InodeAssumption ==
  /\ NoProc \notin Procs /\ IsFiniteSet(Procs) /\ IsFiniteSet(Names)
  /\ NINODES \in Nat /\ NINODE \in Nat /\ MaxOps \in Nat /\ MaxCrashes \in Nat

Inums  == 1 .. NINODES
NoInum == 0
Slots  == 1 .. NINODE
NoSlot == 0
Dirs   == {DirOf[n] : n \in Names}

VARIABLES
  dinode,     \* the inodes on disk, as the buffer cache has them
  entry,      \* the inode a name stands for
  durable,    \* both, as of the last commit
  ops,        \* processes in the transaction
  batch,      \* calls it has had
  dlock,      \* who holds a directory's ip->lock
  icache,     \* inum, ref, valid and nlink of the entries
  owner,      \* who holds their ip->lock
  pc,         \* what a process does,
  call,       \* and in which call: its name and arguments
  inum,       \* the inode it has allocated
  ip, tmp,    \* the cache entries it has a reference to; tmp is for iput()
  cont,       \* where iput() returns to
  fd,         \* the file it has open
  crashes

trans   == <<ops, batch>>
disk    == <<dinode, entry, durable>>
memory  == <<icache, owner>>
hands   == <<inum, ip, tmp, cont>>
vars    == <<disk, trans, dlock, memory, pc, call, hands, fd, crashes>>

Calls == {<<"close">>} \cup ({"open", "create", "unlink"} \X Names) \cup ({"link"} \X Names \X Names)
NoCall == <<>>
Op(p)   == call[p][1]
Name(p) == call[p][2]
New(p)  == call[p][3]
PCs   == {"idle", "namei", "ilock", "opened", "create", "ialloc", "iget", "mknod",
          "linkinc", "linkdir", "linkbad", "linkdec", "unlink", "unlock", "unlinked",
          "iput", "ifree", "irel", "idrop", "end"}
Free  == [type |-> "free", nlink |-> 0]
Dinodes == [type : {"free", "file"}, nlink : Nat]

\* The lock of a cache entry is only held by who has a reference to it.
TypeOK ==
  /\ dinode \in [Inums -> Dinodes]
  /\ entry \in [Names -> Inums \cup {NoInum}]
  /\ durable \in [dinode : [Inums -> Dinodes], entry : [Names -> Inums \cup {NoInum}]]
  /\ ops \in SUBSET Procs /\ batch \in 0 .. MaxOps
  /\ dlock \in [Dirs -> Procs \cup {NoProc}]
  /\ icache \in [Slots -> [inum : Inums \cup {NoInum}, ref : Nat, valid : BOOLEAN, nlink : Nat]]
  /\ owner \in [Slots -> Procs \cup {NoProc}]
  /\ pc \in [Procs -> PCs] /\ call \in [Procs -> Calls \cup {NoCall}]
  /\ inum \in [Procs -> Inums \cup {NoInum}]
  /\ ip \in [Procs -> Slots \cup {NoSlot}] /\ tmp \in [Procs -> Slots \cup {NoSlot}]
  /\ cont \in [Procs -> {"end", "linkbad"}]
  /\ fd \in [Procs -> Slots \cup {NoSlot}]
  /\ crashes \in 0 .. MaxCrashes
  /\ \A s \in Slots : owner[s] # NoProc => s \in {ip[owner[s]], tmp[owner[s]]}
  /\ \A p \in Procs : (pc[p] = "idle" <=> p \notin ops) /\ (call[p] = NoCall <=> pc[p] = "idle")

\* What an entry without references holds does not matter: iget() sets it.
Unused == [inum |-> NoInum, ref |-> 0, valid |-> FALSE, nlink |-> 0]

Everyone(x) == [p \in Procs |-> x]
Unlocked    == [s \in Slots |-> NoProc]

Init ==
  /\ dinode = [i \in Inums |-> Free] /\ entry = [n \in Names |-> NoInum]
  /\ durable = [dinode |-> dinode, entry |-> entry]
  /\ ops = {} /\ batch = 0 /\ dlock = [d \in Dirs |-> NoProc]
  /\ icache = [s \in Slots |-> Unused] /\ owner = Unlocked
  /\ pc = Everyone("idle") /\ call = Everyone(NoCall) /\ inum = Everyone(NoInum)
  /\ ip = Everyone(NoSlot) /\ tmp = Everyone(NoSlot) /\ cont = Everyone("end")
  /\ fd = Everyone(NoSlot)
  /\ crashes = 0

-----------------------------------------------------------------------------
(* The inode cache *)

Cached(i)  == {s \in Slots : icache[s].ref > 0 /\ icache[s].inum = i}
Empty      == {s \in Slots : icache[s].ref = 0}
First(S)   == {s \in S : \A t \in S : s <= t}

\* Mutant of SlotFor: the entry that has the inode already is not looked for.
SlotForNew(i) == Empty

\* Where iget() puts inode i; with every entry in use it panics.
SlotFor(i) == IF Cached(i) # {} THEN Cached(i) ELSE Empty

Iget(i, s) ==
  /\ s \in First(SlotFor(i))
  /\ icache' = IF icache[s].ref > 0 THEN [icache EXCEPT ![s].ref = @ + 1]
               ELSE [icache EXCEPT ![s] = [inum |-> i, ref |-> 1, valid |-> FALSE, nlink |-> 0]]

\* ilock(): the lock is free, and an entry that is not valid is read.
CanLock(s) == owner[s] = NoProc
Read(s)    == IF icache[s].valid THEN icache[s]
              ELSE [icache[s] EXCEPT !.valid = TRUE, !.nlink = dinode[icache[s].inum].nlink]

\* Lock the inode, change its nlink, and iupdate() it.
SetLinks(s, n) ==
  /\ icache' = [icache EXCEPT ![s] = [Read(s) EXCEPT !.nlink = n]]
  /\ dinode' = [dinode EXCEPT ![icache[s].inum] = [type |-> "file", nlink |-> n]]

Goto(p, label) == pc' = [pc EXCEPT ![p] = label]
Put(p, s)      == tmp' = [tmp EXCEPT ![p] = s]
Hand(p, s)     == ip' = [ip EXCEPT ![p] = s]

-----------------------------------------------------------------------------
(* iput(tmp) *)

\* Mutant of LastReference: other references are not looked for.
LastReferenceAny(s) == icache[s].valid /\ icache[s].nlink = 0

LastReference(s) == icache[s].valid /\ icache[s].nlink = 0 /\ icache[s].ref = 1

\* Lock it and look; nothing to do, and it is unlocked again.
IputLook(p) ==
  /\ pc[p] = "iput" /\ CanLock(tmp[p])
  /\ IF LastReference(tmp[p])
     THEN owner' = [owner EXCEPT ![tmp[p]] = p] /\ Goto(p, "ifree")
     ELSE UNCHANGED owner /\ Goto(p, "idrop")
  /\ UNCHANGED <<disk, trans, dlock, icache, call, hands, fd, crashes>>

\* itrunc() and the iupdate() of type 0: ialloc() may take the inode now.
IputFree(p) ==
  /\ pc[p] = "ifree" /\ Goto(p, "irel")
  /\ dinode' = [dinode EXCEPT ![icache[tmp[p]].inum] = Free]
  /\ UNCHANGED <<entry, durable, trans, dlock, memory, call, hands, fd, crashes>>

\* Mutant of IputRelease: the entry stays locked.
IputReleaseLocked(p) ==
  /\ pc[p] = "irel" /\ Goto(p, "idrop")
  /\ icache' = [icache EXCEPT ![tmp[p]].valid = FALSE]
  /\ UNCHANGED <<disk, trans, dlock, owner, call, hands, fd, crashes>>

IputRelease(p) ==
  /\ pc[p] = "irel" /\ Goto(p, "idrop")
  /\ icache' = [icache EXCEPT ![tmp[p]].valid = FALSE]
  /\ owner' = [owner EXCEPT ![tmp[p]] = NoProc]
  /\ UNCHANGED <<disk, trans, dlock, call, hands, fd, crashes>>

\* The reference is given up after the lock.
IputDrop(p) ==
  /\ pc[p] = "idrop" /\ Goto(p, cont[p])
  /\ icache' = IF icache[tmp[p]].ref = 1 THEN [icache EXCEPT ![tmp[p]] = Unused]
               ELSE [icache EXCEPT ![tmp[p]].ref = @ - 1]
  /\ Put(p, NoSlot) /\ cont' = [cont EXCEPT ![p] = "end"]
  /\ UNCHANGED <<disk, trans, dlock, owner, call, inum, ip, fd, crashes>>

-----------------------------------------------------------------------------
(* Transactions *)

\* begin_op(); a call that does not go through, for want of arguments, is left out.
Begin(p, c) ==
  /\ pc[p] = "idle" /\ batch < MaxOps
  /\ ops' = ops \cup {p} /\ batch' = batch + 1
  /\ call' = [call EXCEPT ![p] = c]
  /\ IF c[1] = "close"
     THEN /\ fd[p] # NoSlot /\ fd' = [fd EXCEPT ![p] = NoSlot] /\ Put(p, fd[p])
          /\ Goto(p, "iput")
     ELSE /\ Goto(p, IF c[1] \in {"open", "link"} THEN "namei" ELSE c[1])
          /\ UNCHANGED <<fd, tmp>>
  /\ UNCHANGED <<disk, dlock, memory, inum, ip, cont, crashes>>

\* Mutant of End: a transaction ends with the first of its calls.
EndEarly(p) ==
  /\ pc[p] = "end" /\ Goto(p, "idle")
  /\ ops' = ops \ {p}
  /\ call' = [call EXCEPT ![p] = NoCall]
  /\ durable' = [dinode |-> dinode, entry |-> entry]
  /\ batch' = IF ops = {p} THEN 0 ELSE batch
  /\ UNCHANGED <<dinode, entry, dlock, memory, hands, fd, crashes>>

\* end_op(): the last call in the transaction commits it.
End(p) ==
  /\ pc[p] = "end" /\ Goto(p, "idle")
  /\ ops' = ops \ {p}
  /\ call' = [call EXCEPT ![p] = NoCall]
  /\ IF ops = {p} THEN durable' = [dinode |-> dinode, entry |-> entry] /\ batch' = 0
     ELSE UNCHANGED <<durable, batch>>
  /\ UNCHANGED <<dinode, entry, dlock, memory, hands, fd, crashes>>

\* The disk is as the last commit left it, and nothing is in memory.
Crash ==
  /\ crashes < MaxCrashes /\ crashes' = crashes + 1
  /\ dinode' = durable.dinode /\ entry' = durable.entry /\ UNCHANGED durable
  /\ ops' = {} /\ batch' = 0 /\ dlock' = [d \in Dirs |-> NoProc]
  /\ icache' = [s \in Slots |-> Unused] /\ owner' = Unlocked
  /\ pc' = Everyone("idle") /\ call' = Everyone(NoCall) /\ inum' = Everyone(NoInum)
  /\ ip' = Everyone(NoSlot) /\ tmp' = Everyone(NoSlot) /\ cont' = Everyone("end")
  /\ fd' = Everyone(NoSlot)

-----------------------------------------------------------------------------
(* open() *)

\* namei(): look the name up in its directory.
Namei(p) ==
  /\ pc[p] = "namei" /\ dlock[DirOf[Name(p)]] = NoProc
  /\ IF entry[Name(p)] = NoInum
     THEN Goto(p, "end") /\ UNCHANGED <<icache, ip>>
     ELSE /\ \E s \in Slots : Iget(entry[Name(p)], s) /\ Hand(p, s)
          /\ Goto(p, IF Op(p) = "link" THEN "linkinc" ELSE "ilock")
  /\ UNCHANGED <<disk, trans, dlock, owner, call, inum, tmp, cont, fd, crashes>>

Ilock(p) ==
  /\ pc[p] = "ilock" /\ CanLock(ip[p]) /\ Goto(p, "opened")
  /\ icache' = [icache EXCEPT ![ip[p]] = Read(ip[p])]
  /\ owner' = [owner EXCEPT ![ip[p]] = p]
  /\ UNCHANGED <<disk, trans, dlock, call, hands, fd, crashes>>

\* iunlock() and end_op(); the file has the reference.
Opened(p) ==
  /\ pc[p] = "opened" /\ fd[p] = NoSlot /\ Goto(p, "end")
  /\ owner' = [owner EXCEPT ![ip[p]] = NoProc]
  /\ fd' = [fd EXCEPT ![p] = ip[p]] /\ Hand(p, NoSlot)
  /\ UNCHANGED <<disk, trans, dlock, icache, call, inum, tmp, cont, crashes>>

\* iunlockput(ip) from here.
Unlockput(p) ==
  /\ owner' = [owner EXCEPT ![ip[p]] = NoProc]
  /\ Put(p, ip[p]) /\ Hand(p, NoSlot) /\ Goto(p, "iput")

\* filealloc() or fdalloc() fails.
NotOpened(p) ==
  /\ pc[p] = "opened" /\ Unlockput(p)
  /\ UNCHANGED <<disk, trans, dlock, icache, call, inum, cont, fd, crashes>>

-----------------------------------------------------------------------------
(* create() *)

CreateLook(p) ==
  LET d == DirOf[Name(p)] IN
  /\ pc[p] = "create" /\ dlock[d] = NoProc
  /\ IF entry[Name(p)] = NoInum
     THEN dlock' = [dlock EXCEPT ![d] = p] /\ Goto(p, "ialloc") /\ UNCHANGED <<icache, ip>>
     ELSE /\ \E s \in Slots : Iget(entry[Name(p)], s) /\ Hand(p, s)
          /\ Goto(p, "ilock") /\ UNCHANGED dlock
  /\ UNCHANGED <<disk, trans, owner, call, inum, tmp, cont, fd, crashes>>

\* An inode of type 0 on the disk; without one the kernel panics.  It looks at
\* one inode after the other, so it need not find the first: that one may have
\* been freed behind it.
Ialloc(p) ==
  /\ pc[p] = "ialloc" /\ Goto(p, "iget")
  /\ \E i \in {j \in Inums : dinode[j].type = "free"} :
       /\ dinode' = [dinode EXCEPT ![i] = [type |-> "file", nlink |-> 0]]
       /\ inum' = [inum EXCEPT ![p] = i]
  /\ UNCHANGED <<entry, durable, trans, dlock, memory, call, ip, tmp, cont, fd, crashes>>

IallocGet(p) ==
  /\ pc[p] = "iget" /\ Goto(p, "mknod")
  /\ \E s \in Slots : Iget(inum[p], s) /\ Hand(p, s)
  /\ inum' = [inum EXCEPT ![p] = NoInum]
  /\ UNCHANGED <<disk, trans, dlock, owner, call, tmp, cont, fd, crashes>>

\* ilock(), one link, and the entry in the directory.
Mknod(p) ==
  /\ pc[p] = "mknod" /\ CanLock(ip[p]) /\ Goto(p, "opened")
  /\ owner' = [owner EXCEPT ![ip[p]] = p]
  /\ SetLinks(ip[p], 1)
  /\ entry' = [entry EXCEPT ![Name(p)] = icache[ip[p]].inum]
  /\ dlock' = [dlock EXCEPT ![DirOf[Name(p)]] = NoProc]
  /\ UNCHANGED <<durable, trans, call, hands, fd, crashes>>

-----------------------------------------------------------------------------
(* link() *)

LinkInc(p) ==
  /\ pc[p] = "linkinc" /\ CanLock(ip[p]) /\ Goto(p, "linkdir")
  /\ SetLinks(ip[p], Read(ip[p]).nlink + 1)
  /\ UNCHANGED <<entry, durable, trans, dlock, owner, call, hands, fd, crashes>>

\* dirlink(); it looks the new name up first, and puts what it finds.
LinkDir(p) ==
  LET d == DirOf[New(p)] IN
  /\ pc[p] = "linkdir" /\ dlock[d] = NoProc /\ Goto(p, "iput")
  /\ IF entry[New(p)] = NoInum
     THEN /\ entry' = [entry EXCEPT ![New(p)] = icache[ip[p]].inum]
          /\ Put(p, ip[p]) /\ Hand(p, NoSlot)
          /\ UNCHANGED <<dlock, icache, cont>>
     ELSE /\ dlock' = [dlock EXCEPT ![d] = p]
          /\ \E s \in Slots : Iget(entry[New(p)], s) /\ Put(p, s)
          /\ cont' = [cont EXCEPT ![p] = "linkbad"]
          /\ UNCHANGED <<entry, ip>>
  /\ UNCHANGED <<dinode, durable, trans, owner, call, inum, fd, crashes>>

\* The new name is taken, or nameiparent() does not find its directory.
LinkBad(p) ==
  /\ Goto(p, "linkdec")
  /\ \/ pc[p] = "linkbad" /\ dlock' = [dlock EXCEPT ![DirOf[New(p)]] = NoProc]
     \/ pc[p] = "linkdir" /\ UNCHANGED dlock
  /\ UNCHANGED <<disk, trans, memory, call, hands, fd, crashes>>

\* Mutant of LinkDec: a link that fails leaves the count as it is.
LinkDecNone(p) ==
  /\ pc[p] = "linkdec" /\ CanLock(ip[p])
  /\ Unlockput(p)
  /\ UNCHANGED <<disk, trans, dlock, icache, call, inum, cont, fd, crashes>>

LinkDec(p) ==
  /\ pc[p] = "linkdec" /\ CanLock(ip[p])
  /\ SetLinks(ip[p], Read(ip[p]).nlink - 1)
  /\ Unlockput(p)
  /\ UNCHANGED <<entry, durable, trans, dlock, call, inum, cont, fd, crashes>>

-----------------------------------------------------------------------------
(* unlink() *)

UnlinkLook(p) ==
  LET d == DirOf[Name(p)] IN
  /\ pc[p] = "unlink" /\ dlock[d] = NoProc
  /\ IF entry[Name(p)] = NoInum
     THEN Goto(p, "end") /\ UNCHANGED <<dlock, icache, ip>>
     ELSE /\ dlock' = [dlock EXCEPT ![d] = p]
          /\ \E s \in Slots : Iget(entry[Name(p)], s) /\ Hand(p, s)
          /\ Goto(p, "unlock")
  /\ UNCHANGED <<disk, trans, owner, call, inum, tmp, cont, fd, crashes>>

\* ilock() it, clear the entry, and let go of the directory.
UnlinkEntry(p) ==
  /\ pc[p] = "unlock" /\ CanLock(ip[p]) /\ Goto(p, "unlinked")
  /\ icache' = [icache EXCEPT ![ip[p]] = Read(ip[p])]
  /\ owner' = [owner EXCEPT ![ip[p]] = p]
  /\ entry' = [entry EXCEPT ![Name(p)] = NoInum]
  /\ dlock' = [dlock EXCEPT ![DirOf[Name(p)]] = NoProc]
  /\ UNCHANGED <<dinode, durable, trans, call, hands, fd, crashes>>

UnlinkDec(p) ==
  /\ pc[p] = "unlinked"
  /\ SetLinks(ip[p], icache[ip[p]].nlink - 1)
  /\ Unlockput(p)
  /\ UNCHANGED <<entry, durable, trans, dlock, call, inum, cont, fd, crashes>>

-----------------------------------------------------------------------------

Step(p) ==
  \/ IputLook(p) \/ IputFree(p) \/ IputRelease(p) \/ IputDrop(p)
  \/ Namei(p) \/ Ilock(p) \/ Opened(p) \/ NotOpened(p)
  \/ CreateLook(p) \/ Ialloc(p) \/ IallocGet(p) \/ Mknod(p)
  \/ LinkInc(p) \/ LinkDir(p) \/ LinkBad(p) \/ LinkDec(p)
  \/ UnlinkLook(p) \/ UnlinkEntry(p) \/ UnlinkDec(p)
  \/ End(p)

Next ==
  \/ \E p \in Procs : Step(p) \/ \E c \in Calls : Begin(p, c)
  \/ Crash

Spec == Init /\ [][Next]_vars

-----------------------------------------------------------------------------
(* Safety *)

Count(f, x) == Cardinality({d \in DOMAIN f : f[d] = x})

\* One entry of the cache stands for an inode, and its ref is the number of
\* references that calls and open files have: what two processes lock is the
\* same inode.  The cache is write-through: what an entry has in memory is
\* what the disk has, unless its inode is just being freed.
OneEntry ==
  /\ \A s, t \in Slots : icache[s].ref > 0 /\ icache[t].ref > 0 /\ icache[s].inum = icache[t].inum => s = t
  /\ \A s \in Slots : icache[s].ref = Count(ip, s) + Count(tmp, s) + Count(fd, s)
  /\ \A s \in Slots :
       icache[s].ref > 0 /\ icache[s].valid /\ ~(\E p \in Procs : tmp[p] = s /\ pc[p] = "irel")
         => dinode[icache[s].inum] = [type |-> "file", nlink |-> icache[s].nlink]

\* panic("ilock: no type") and panic("unlink: nlink < 1") are out of reach: an
\* inode is never freed under a name, an open file or a call that will lock it.
\* Only the iput() that frees it still refers to it, and an ialloc() that finds
\* it free may take the same entry before that reference is gone.
NeverFreedInUse ==
  /\ \A n \in Names : entry[n] # NoInum => dinode[entry[n]].nlink > 0
  /\ \A p \in Procs : \A s \in {ip[p], fd[p]} \ {NoSlot} : dinode[icache[s].inum].type = "file"
  /\ \A p \in Procs : tmp[p] # NoSlot /\ pc[p] = "iput" => dinode[icache[tmp[p]].inum].type = "file"

\* After a crash, whatever was in progress, every name stands for an inode that
\* is allocated and every inode has as many links as names.
LinksDurable ==
  \A i \in Inums :
    /\ durable.dinode[i].nlink = Count(durable.entry, i)
    /\ durable.dinode[i].type = "free" => Count(durable.entry, i) = 0

\* fs.c:327: "If that was the last reference and the inode has no links to it,
\* free the inode (and its content) on disk."  Between calls, an inode without
\* names and references is free.
NoLeak ==
  ops = {} /\ crashes = 0 => \A i \in Inums : dinode[i].type = "file" => dinode[i].nlink > 0 \/ Cached(i) # {}

=============================================================================
