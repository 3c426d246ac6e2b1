------------------------------ MODULE InodeInv ------------------------------
(***************************************************************************)
(* The inductive invariant of InodeCache: what a process has in its hands  *)
(* at each point of a call, which locks it holds there, and who may still  *)
(* refer to an inode that is being freed or was just allocated.            *)
(***************************************************************************)
EXTENDS InodeCache

\* Inside iput(), and where a call holds a reference of its own.
Iputs   == {"iput", "ifree", "irel", "idrop"}
Holding == {"ilock", "opened", "mknod", "linkinc", "linkdir", "linkbad", "linkdec", "unlock", "unlinked"}

\* Inside create() with a directory locked, and inside link() with ip.
Making  == {"ialloc", "iget", "mknod"}
Linking == {"linkinc", "linkdir", "linkbad", "linkdec"}

Hands ==
  \A p \in Procs :
    /\ ip[p] # NoSlot <=> pc[p] \in Holding \/ cont[p] = "linkbad"
    /\ tmp[p] # NoSlot <=> pc[p] \in Iputs
    /\ inum[p] # NoInum <=> pc[p] = "iget"
    /\ cont[p] = "linkbad" => pc[p] \in Iputs

InCall ==
  \A p \in Procs :
    /\ pc[p] \in Making \cup {"create"} => call[p] \in {"create"} \X Names
    /\ pc[p] \in {"unlink", "unlock"} => call[p] \in {"unlink"} \X Names
    /\ pc[p] = "namei" => call[p] \in ({"open"} \X Names) \cup ({"link"} \X Names \X Names)
    /\ pc[p] \in Linking \/ cont[p] = "linkbad" => call[p] \in {"link"} \X Names \X Names

\* Who holds the lock of an entry of the cache.
Locked ==
  \A p \in Procs, s \in Slots :
    owner[s] = p <=> \/ pc[p] \in {"ifree", "irel"} /\ tmp[p] = s
                     \/ pc[p] \in {"opened", "unlinked"} /\ ip[p] = s

\* A directory is locked from the look at a name until the name is changed.
DirLocked ==
  \A p \in Procs :
    /\ pc[p] \in Making => dlock[DirOf[Name(p)]] = p /\ entry[Name(p)] = NoInum
    /\ pc[p] = "unlock" => dlock[DirOf[Name(p)]] = p /\ entry[Name(p)] = icache[ip[p]].inum
    /\ pc[p] = "linkbad" \/ cont[p] = "linkbad" => dlock[DirOf[New(p)]] = p

\* An entry with references has an inode, and whoever holds it has read it.
Filled ==
  /\ \A s \in Slots : icache[s].ref > 0 => icache[s].inum \in Inums
  /\ \A p \in Procs : pc[p] = "unlinked" => icache[ip[p]].valid

\* The references to inodes that are allocated; the others are past the free.
Allocated ==
  \A p \in Procs :
    /\ ip[p] # NoSlot => dinode[icache[ip[p]].inum].type = "file"
    /\ fd[p] # NoSlot => dinode[icache[fd[p]].inum].type = "file"
    /\ pc[p] \in {"iput", "ifree"} => dinode[icache[tmp[p]].inum].type = "file"

\* An inode about to be freed has no names, and no other reference.
Sole ==
  \A p \in Procs : pc[p] = "ifree" =>
    /\ dinode[icache[tmp[p]].inum].nlink = 0
    /\ \A q \in Procs :
         /\ ip[q] # tmp[p] /\ fd[q] # tmp[p]
         /\ q # p => tmp[q] # tmp[p]
         /\ inum[q] # icache[tmp[p]].inum

\* An inode that create() has allocated belongs to it until it has a name:
\* others who refer to its entry of the cache are past the free.
Leaving(q) == pc[q] \in {"irel", "idrop"}
Fresh ==
  \A p \in Procs :
    /\ pc[p] = "iget" =>
         /\ dinode[inum[p]] = [type |-> "file", nlink |-> 0]
         /\ \A q \in Procs :
              /\ q # p => inum[q] # inum[p]
              /\ ip[q] # NoSlot => icache[ip[q]].inum # inum[p]
              /\ fd[q] # NoSlot => icache[fd[q]].inum # inum[p]
              /\ tmp[q] # NoSlot /\ icache[tmp[q]].inum = inum[p] => Leaving(q)
    /\ pc[p] = "mknod" =>
         /\ dinode[icache[ip[p]].inum] = [type |-> "file", nlink |-> 0]
         /\ \A q \in Procs :
              /\ q # p => ip[q] # ip[p]
              /\ fd[q] # ip[p]
              /\ tmp[q] = ip[p] => Leaving(q)

\* Calls whose inode has one link more than its names for the moment.
Between(p)  == pc[p] \in {"linkdir", "linkbad", "linkdec", "unlinked"} \/ cont[p] = "linkbad"
Extra       == [p \in Procs |-> IF Between(p) THEN icache[ip[p]].inum ELSE NoInum]
Links ==
  \A i \in Inums :
    /\ dinode[i].nlink = Count(entry, i) + Count(Extra, i)
    /\ dinode[i].type = "free" => dinode[i].nlink = 0

\* All of it: inductive, by InodeProofs.
NInv == /\ TypeOK /\ OneEntry /\ Hands /\ InCall /\ Locked /\ DirLocked
        /\ Filled /\ Allocated /\ Sole /\ Fresh /\ Links /\ LinksDurable

=============================================================================
