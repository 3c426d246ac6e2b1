---------------------------- MODULE InodeProofs -----------------------------
(***************************************************************************)
(* NInv is inductive, so every safety property of InodeCache holds for     *)
(* every number of processes, names, inodes and entries of the cache, and  *)
(* with any number of crashes.                                             *)
(*                                                                         *)
(* All counting is of one kind: how often a function takes a value.  A     *)
(* step changes a function at one argument, and CountSet says what that    *)
(* does to the count.                                                      *)
(***************************************************************************)
EXTENDS InodeInv, FiniteSetTheorems, TLAPS

LEMMA Ranges ==
  /\ NoInum \notin Inums /\ NoSlot \notin Slots /\ NoProc \notin Procs
  /\ \A n \in Names : DirOf[n] \in Dirs
  /\ Inums \subseteq Nat /\ Slots \subseteq Nat
  BY InodeAssumption DEF Inums, Slots, NoInum, NoSlot, Dirs

\* What the calls look like.
LEMMA CallShapes ==
  ASSUME NEW c \in Calls
  PROVE  /\ c[1] \in {"close", "open", "create", "unlink", "link"} /\ c # NoCall
         /\ c[1] = "open" => c \in {"open"} \X Names
         /\ c[1] = "create" => c \in {"create"} \X Names
         /\ c[1] = "unlink" => c \in {"unlink"} \X Names
         /\ c[1] = "link" => c \in {"link"} \X Names \X Names
<1>1. CASE c = <<"close">>
  BY <1>1 DEF NoCall
<1>2. CASE c \in {"open", "create", "unlink"} \X Names
  BY <1>2 DEF NoCall
<1>3. CASE c \in {"link"} \X Names \X Names
  BY <1>3 DEF NoCall
<1> QED
  BY <1>1, <1>2, <1>3 DEF Calls

-----------------------------------------------------------------------------
(* Counting *)

LEMMA CountType ==
  ASSUME NEW f, IsFiniteSet(DOMAIN f), NEW x
  PROVE  /\ Count(f, x) \in Nat
         /\ Count(f, x) = 0 <=> \A d \in DOMAIN f : f[d] # x
<1>1. IsFiniteSet({d \in DOMAIN f : f[d] = x})
  BY FS_Subset
<1> QED
  BY <1>1, FS_CardinalityType, FS_EmptySet DEF Count

\* One argument of f gets another value.
LEMMA CountSet ==
  ASSUME NEW f, IsFiniteSet(DOMAIN f), NEW e \in DOMAIN f, NEW v, NEW x
  PROVE  /\ Count(f, x) \in Nat
         /\ v = x /\ f[e] # x => Count([f EXCEPT ![e] = v], x) = Count(f, x) + 1
         /\ v # x /\ f[e] = x => Count([f EXCEPT ![e] = v], x) = Count(f, x) - 1
         /\ (v = x <=> f[e] = x) => Count([f EXCEPT ![e] = v], x) = Count(f, x)
<1> DEFINE S == {d \in DOMAIN f : f[d] = x}
           T == {d \in DOMAIN f : [f EXCEPT ![e] = v][d] = x}
<1>1. IsFiniteSet(S) /\ Cardinality(S) \in Nat
  BY FS_Subset, FS_CardinalityType
<1>2. Count(f, x) = Cardinality(S) /\ Count([f EXCEPT ![e] = v], x) = Cardinality(T)
  BY DEF Count
<1>3. ASSUME v = x, f[e] # x PROVE T = S \cup {e} /\ e \notin S
  BY <1>3
<1>4. ASSUME v # x, f[e] = x PROVE T = S \ {e} /\ e \in S
  BY <1>4
<1>5. ASSUME v = x <=> f[e] = x PROVE T = S
  BY <1>5
<1> HIDE DEF S, T
<1> QED
  BY <1>1, <1>2, <1>3, <1>4, <1>5, FS_AddElement, FS_RemoveElement

\* A value taken once is taken at one argument.
LEMMA CountOne ==
  ASSUME NEW f, IsFiniteSet(DOMAIN f), NEW e \in DOMAIN f, Count(f, f[e]) <= 1
  PROVE  \A d \in DOMAIN f \ {e} : f[d] # f[e]
<1> DEFINE S == {d \in DOMAIN f : f[d] = f[e]}
<1>1. IsFiniteSet(S) /\ e \in S
  BY FS_Subset
<1>2. IsFiniteSet(S \ {e}) /\ Cardinality(S \ {e}) = Cardinality(S) - 1
  BY <1>1, FS_RemoveElement
<1>3. Cardinality(S) <= 1
  BY DEF Count
<1>4. Cardinality(S \ {e}) \in Nat /\ Cardinality(S) \in Nat
  BY <1>1, <1>2, FS_CardinalityType
<1>5. S \ {e} = {}
  BY <1>2, <1>3, <1>4, FS_EmptySet
<1> QED
  BY <1>5

-----------------------------------------------------------------------------
(* What the invariant says of the references *)

\* The three functions whose counts make up a reference count.
Reffing == [Procs -> Slots \cup {NoSlot}]

LEMMA HandCount ==
  ASSUME NEW f \in Reffing, NEW s
  PROVE  /\ Count(f, s) \in Nat
         /\ Count(f, s) = 0 <=> \A q \in Procs : f[q] # s
  BY CountType, InodeAssumption DEF Reffing

LEMMA HandSet ==
  ASSUME NEW f \in Reffing, NEW p \in Procs, NEW v, NEW s
  PROVE  /\ v = s /\ f[p] # s => Count([f EXCEPT ![p] = v], s) = Count(f, s) + 1
         /\ v # s /\ f[p] = s => Count([f EXCEPT ![p] = v], s) = Count(f, s) - 1
         /\ (v = s <=> f[p] = s) => Count([f EXCEPT ![p] = v], s) = Count(f, s)
<1>1. IsFiniteSet(DOMAIN f) /\ p \in DOMAIN f
  BY InodeAssumption DEF Reffing
<1> QED
  BY <1>1, CountSet

\* Whatever a process has in its hands is an entry with references, and what
\* has no reference is in nobody's hands.
LEMMA Held ==
  ASSUME TypeOK, OneEntry
  PROVE  /\ \A p \in Procs : \A s \in {ip[p], tmp[p], fd[p]} \ {NoSlot} : s \in Slots /\ icache[s].ref > 0
         /\ \A s \in Slots : icache[s].ref \in Nat
<1>1. ip \in Reffing /\ tmp \in Reffing /\ fd \in Reffing
  BY DEF TypeOK, Reffing
<1>2. \A s \in Slots : icache[s].ref \in Nat
  BY DEF TypeOK
<1>3. ASSUME NEW p \in Procs, NEW s \in {ip[p], tmp[p], fd[p]} \ {NoSlot}
      PROVE  s \in Slots /\ icache[s].ref > 0
  <2>1. s \in Slots
    BY <1>1, <1>3 DEF Reffing
  <2>2. icache[s].ref = Count(ip, s) + Count(tmp, s) + Count(fd, s)
    BY <2>1 DEF OneEntry
  <2>3. /\ Count(ip, s) \in Nat /\ (Count(ip, s) = 0 => ip[p] # s)
        /\ Count(tmp, s) \in Nat /\ (Count(tmp, s) = 0 => tmp[p] # s)
        /\ Count(fd, s) \in Nat /\ (Count(fd, s) = 0 => fd[p] # s)
    BY <1>1, HandCount
  <2> QED
    BY <2>1, <2>2, <2>3
<1> QED
  BY <1>2, <1>3

\* The last reference, when iput() has it.
LEMMA LastOne ==
  ASSUME TypeOK, OneEntry, NEW p \in Procs, tmp[p] \in Slots, icache[tmp[p]].ref = 1
  PROVE  \A q \in Procs : ip[q] # tmp[p] /\ fd[q] # tmp[p] /\ (q # p => tmp[q] # tmp[p])
<1> DEFINE s == tmp[p]
<1>1. ip \in Reffing /\ tmp \in Reffing /\ fd \in Reffing
  BY DEF TypeOK, Reffing
<1>2. 1 = Count(ip, s) + Count(tmp, s) + Count(fd, s)
  BY DEF OneEntry
<1>3. /\ Count(ip, s) \in Nat /\ (Count(ip, s) = 0 => \A q \in Procs : ip[q] # s)
      /\ Count(tmp, s) \in Nat /\ Count(tmp, s) # 0
      /\ Count(fd, s) \in Nat /\ (Count(fd, s) = 0 => \A q \in Procs : fd[q] # s)
  BY <1>1, HandCount
<1>4. Count(ip, s) = 0 /\ Count(fd, s) = 0 /\ Count(tmp, s) <= 1
  BY <1>2, <1>3
<1>5. Count(tmp, tmp[p]) <= 1
  BY <1>4
<1>6. \A q \in Procs \ {p} : tmp[q] # tmp[p]
  BY <1>1, <1>5, CountOne, InodeAssumption DEF Reffing
<1> QED
  BY <1>3, <1>4, <1>6

\* The entries of the cache.
Entries == [inum : Inums \cup {NoInum}, ref : Nat, valid : BOOLEAN, nlink : Nat]

\* What iget() does to the cache.
LEMMA IgetFacts ==
  ASSUME TypeOK, OneEntry, NEW i \in Inums, NEW s, Iget(i, s)
  PROVE  /\ s \in Slots
         /\ icache' \in [Slots -> Entries]
         /\ icache'[s].inum = i /\ icache'[s].ref = icache[s].ref + 1 /\ icache[s].ref \in Nat
         /\ \A t \in Slots \ {s} : icache'[t] = icache[t]
         /\ icache[s].ref = 0 => ~icache'[s].valid /\ \A t \in Slots : icache[t].ref > 0 => icache[t].inum # i
         /\ icache[s].ref > 0 => icache[s].inum = i /\ icache'[s].valid = icache[s].valid
                                 /\ icache'[s].nlink = icache[s].nlink
<1>1. s \in SlotFor(i)
  BY DEF Iget, First
<1>2. s \in Slots /\ (icache[s].ref > 0 => icache[s].inum = i)
  BY <1>1 DEF SlotFor, Cached, Empty
<1>3. icache[s].ref = 0 => \A t \in Slots : icache[t].ref > 0 => icache[t].inum # i
  BY <1>1 DEF SlotFor, Cached, Empty
<1>4. icache \in [Slots -> Entries]
  BY DEF TypeOK, Entries
<1> DEFINE e == icache[s]
           f == IF e.ref > 0 THEN [e EXCEPT !.ref = e.ref + 1]
                ELSE [inum |-> i, ref |-> 1, valid |-> FALSE, nlink |-> 0]
<1>5. icache' = [icache EXCEPT ![s] = f]
  BY DEF Iget
<1>6. e \in Entries
  BY <1>2, <1>4
<1>7. e.ref \in Nat
  BY <1>6 DEF Entries
<1>8. f \in Entries /\ f.ref = e.ref + 1
  BY <1>6, <1>7 DEF Entries
<1>9. IF e.ref > 0 THEN f.inum = e.inum /\ f.valid = e.valid /\ f.nlink = e.nlink ELSE f.inum = i /\ ~f.valid
  BY <1>6, <1>7 DEF Entries
<1>10. icache'[s] = f /\ icache' \in [Slots -> Entries] /\ \A t \in Slots \ {s} : icache'[t] = icache[t]
  BY <1>2, <1>4, <1>5, <1>8
<1> HIDE DEF f
<1> QED
  BY <1>2, <1>3, <1>7, <1>8, <1>9, <1>10

\* What the drop of a reference does to it.
LEMMA DropFacts ==
  ASSUME TypeOK, OneEntry, NEW p \in Procs, tmp[p] # NoSlot, IputDrop(p)
  PROVE  /\ tmp[p] \in Slots /\ icache' \in [Slots -> Entries]
         /\ icache[tmp[p]].ref \in Nat \ {0} /\ icache'[tmp[p]].ref = icache[tmp[p]].ref - 1
         /\ \A t \in Slots \ {tmp[p]} : icache'[t] = icache[t]
         /\ icache[tmp[p]].ref # 1 => /\ icache'[tmp[p]].inum = icache[tmp[p]].inum
                                      /\ icache'[tmp[p]].valid = icache[tmp[p]].valid
                                      /\ icache'[tmp[p]].nlink = icache[tmp[p]].nlink
<1>1. tmp[p] \in Slots /\ icache[tmp[p]].ref > 0
  BY Held
<1>2. icache \in [Slots -> Entries]
  BY DEF TypeOK, Entries
<1> DEFINE e == icache[tmp[p]]
           f == IF e.ref = 1 THEN Unused ELSE [e EXCEPT !.ref = e.ref - 1]
<1>3. e \in Entries /\ e.ref \in Nat
  BY <1>1, <1>2 DEF Entries
<1>4. icache' = [icache EXCEPT ![tmp[p]] = f]
  BY DEF IputDrop
<1>5. f \in Entries /\ f.ref = e.ref - 1
  BY <1>1, <1>3 DEF Entries, Unused
<1>6. e.ref # 1 => f.inum = e.inum /\ f.valid = e.valid /\ f.nlink = e.nlink
  BY <1>3 DEF Entries
<1>7. icache'[tmp[p]] = f /\ icache' \in [Slots -> Entries] /\ \A t \in Slots \ {tmp[p]} : icache'[t] = icache[t]
  BY <1>1, <1>2, <1>4, <1>5
<1> HIDE DEF f
<1> QED
  BY <1>1, <1>3, <1>5, <1>6, <1>7

\* What is read under the lock is what the disk has.
LEMMA ReadFacts ==
  ASSUME TypeOK, OneEntry, Filled, Allocated, NEW p \in Procs, ip[p] # NoSlot,
         \A q \in Procs : ~(tmp[q] = ip[p] /\ pc[q] = "irel")
  PROVE  /\ ip[p] \in Slots /\ icache[ip[p]].inum \in Inums
         /\ Read(ip[p]) \in Entries
         /\ Read(ip[p]).inum = icache[ip[p]].inum /\ Read(ip[p]).ref = icache[ip[p]].ref /\ Read(ip[p]).valid
         /\ dinode[icache[ip[p]].inum] = [type |-> "file", nlink |-> Read(ip[p]).nlink]
<1> DEFINE s == ip[p]
           e == icache[s]
           i == e.inum
<1>1. s \in Slots /\ e.ref > 0
  BY Held
<1>2. e \in Entries /\ dinode \in [Inums -> Dinodes] /\ i \in Inums
  BY <1>1 DEF TypeOK, Entries, Filled
<1>3. dinode[i].type = "file" /\ dinode[i] \in Dinodes
  BY <1>2 DEF Allocated
<1>4. dinode[i] = [type |-> "file", nlink |-> dinode[i].nlink] /\ dinode[i].nlink \in Nat
  BY <1>3 DEF Dinodes
<1>5. CASE e.valid
  <2>1. dinode[i] = [type |-> "file", nlink |-> e.nlink]
    BY <1>1, <1>5 DEF OneEntry
  <2> QED
    BY <1>1, <1>2, <1>5, <2>1 DEF Read
<1>6. CASE ~e.valid
  <2>1. Read(s) = [e EXCEPT !.valid = TRUE, !.nlink = dinode[i].nlink]
    BY <1>6 DEF Read
  <2>2. Read(s) \in Entries /\ Read(s).inum = i /\ Read(s).ref = e.ref /\ Read(s).valid /\ Read(s).nlink = dinode[i].nlink
    BY <1>2, <1>4, <2>1 DEF Entries
  <2> QED
    BY <1>1, <1>2, <1>4, <2>2
<1> QED
  BY <1>5, <1>6

\* And what iupdate() writes.
LEMMA UpdateFacts ==
  ASSUME TypeOK, NEW s \in Slots, Read(s) \in Entries, icache[s].inum \in Inums, NEW n \in Nat, SetLinks(s, n)
  PROVE  /\ icache' \in [Slots -> Entries] /\ \A t \in Slots \ {s} : icache'[t] = icache[t]
         /\ icache'[s].inum = Read(s).inum /\ icache'[s].ref = Read(s).ref
         /\ icache'[s].valid = Read(s).valid /\ icache'[s].nlink = n
         /\ dinode' \in [Inums -> Dinodes] /\ dinode'[icache[s].inum] = [type |-> "file", nlink |-> n]
         /\ \A j \in Inums \ {icache[s].inum} : dinode'[j] = dinode[j]
<1>1. icache \in [Slots -> Entries] /\ dinode \in [Inums -> Dinodes]
  BY DEF TypeOK, Entries
<1> DEFINE f == [Read(s) EXCEPT !.nlink = n]
           d == [type |-> "file", nlink |-> n]
<1>2. icache' = [icache EXCEPT ![s] = f] /\ dinode' = [dinode EXCEPT ![icache[s].inum] = d]
  BY DEF SetLinks
<1>3. f \in Entries /\ f.inum = Read(s).inum /\ f.ref = Read(s).ref /\ f.valid = Read(s).valid /\ f.nlink = n
  BY DEF Entries
<1>4. d \in Dinodes
  BY DEF Dinodes
<1> HIDE DEF f, d
<1>5. icache' \in [Slots -> Entries] /\ icache'[s] = f /\ \A t \in Slots \ {s} : icache'[t] = icache[t]
  BY <1>1, <1>2, <1>3
<1>6. /\ dinode' \in [Inums -> Dinodes] /\ dinode'[icache[s].inum] = d
      /\ \A j \in Inums \ {icache[s].inum} : dinode'[j] = dinode[j]
  BY <1>1, <1>2, <1>4
<1> QED
  BY <1>3, <1>5, <1>6 DEF d

\* Whoever may lock an entry, or has it locked, meets no iput() that frees it.
LEMMA NotReleasing ==
  ASSUME TypeOK, Locked, NEW p \in Procs, NEW s \in Slots,
         CanLock(s) \/ (owner[s] = p /\ pc[p] # "irel")
  PROVE  \A q \in Procs : ~(tmp[q] = s /\ pc[q] = "irel")
  BY Ranges DEF Locked, CanLock

-----------------------------------------------------------------------------
(* What a step leaves alone *)

ProcStep(p) == Step(p) \/ \E c \in Calls : Begin(p, c)

\* A step of one process changes nothing that is another one's.
LEMMA Frame ==
  ASSUME TypeOK, NEW p \in Procs, ProcStep(p)
  PROVE  \A q \in Procs \ {p} :
           /\ pc'[q] = pc[q] /\ call'[q] = call[q] /\ inum'[q] = inum[q] /\ cont'[q] = cont[q]
           /\ ip'[q] = ip[q] /\ tmp'[q] = tmp[q] /\ fd'[q] = fd[q]
<1>0. /\ pc \in [Procs -> PCs] /\ call \in [Procs -> Calls \cup {NoCall}]
      /\ inum \in [Procs -> Inums \cup {NoInum}] /\ cont \in [Procs -> {"end", "linkbad"}]
      /\ ip \in Reffing /\ tmp \in Reffing /\ fd \in Reffing
  BY DEF TypeOK, Reffing
<1> USE <1>0 DEF Reffing, Goto, Put, Hand, hands, Unlockput
<1>1. CASE IputLook(p) \/ IputFree(p) \/ IputRelease(p) \/ IputDrop(p) \/ End(p)
  BY <1>1 DEF IputLook, IputFree, IputRelease, IputDrop, End
<1>2. CASE Namei(p) \/ Ilock(p) \/ Opened(p) \/ NotOpened(p)
  BY <1>2 DEF Namei, Ilock, Opened, NotOpened
<1>3. CASE CreateLook(p) \/ Ialloc(p) \/ IallocGet(p) \/ Mknod(p)
  BY <1>3 DEF CreateLook, Ialloc, IallocGet, Mknod
<1>4. CASE LinkInc(p) \/ LinkDir(p) \/ LinkBad(p) \/ LinkDec(p)
  BY <1>4 DEF LinkInc, LinkDir, LinkBad, LinkDec
<1>5. CASE UnlinkLook(p) \/ UnlinkEntry(p) \/ UnlinkDec(p)
  BY <1>5 DEF UnlinkLook, UnlinkEntry, UnlinkDec
<1>6. CASE \E c \in Calls : Begin(p, c)
  BY <1>6 DEF Begin
<1> QED
  BY <1>1, <1>2, <1>3, <1>4, <1>5, <1>6 DEF ProcStep, Step

\* While its inode has a link too many, a call can take one away.
LEMMA Surplus ==
  ASSUME NInv, NEW p \in Procs, Between(p)
  PROVE  /\ ip[p] \in Slots /\ icache[ip[p]].inum \in Inums
         /\ dinode[icache[ip[p]].inum].nlink \in Nat \ {0}
<1> DEFINE i == icache[ip[p]].inum
<1>1. ip[p] \in Slots /\ i \in Inums
  BY Held DEF NInv, Hands, Between, Holding, Filled
<1>2. Extra \in [Procs -> {Extra[q] : q \in Procs}] /\ Extra[p] = i
  BY DEF Extra
<1>3. Count(Extra, i) \in Nat /\ Count(Extra, i) # 0
  BY <1>2, CountType, InodeAssumption
<1>4. entry \in [Names -> Inums \cup {NoInum}]
  BY DEF NInv, TypeOK
<1>5. Count(entry, i) \in Nat
  BY <1>4, CountType, InodeAssumption
<1>6. dinode[i].nlink = Count(entry, i) + Count(Extra, i)
  BY <1>1 DEF NInv, Links
<1> QED
  BY <1>1, <1>3, <1>5, <1>6

\* The steps that change the links of an inode, with its lock.
Relinks(p) == Mknod(p) \/ LinkInc(p) \/ LinkDec(p) \/ UnlinkDec(p)

LEMMA RelinkFacts ==
  ASSUME NInv, NEW p \in Procs, Relinks(p)
  PROVE  LET s == ip[p]
             i == icache[s].inum
             n == icache'[s].nlink
         IN  /\ s \in Slots /\ i \in Inums /\ icache[s].ref > 0
             /\ \A q \in Procs : ~(tmp[q] = s /\ pc[q] = "irel")
             /\ icache' \in [Slots -> Entries] /\ \A t \in Slots \ {s} : icache'[t] = icache[t]
             /\ icache'[s].inum = i /\ icache'[s].ref = icache[s].ref /\ icache'[s].valid
             /\ dinode' \in [Inums -> Dinodes] /\ dinode'[i] = [type |-> "file", nlink |-> n]
             /\ \A j \in Inums \ {i} : dinode'[j] = dinode[j]
             /\ Mknod(p) => n = 1
             /\ LinkInc(p) => n = dinode[i].nlink + 1
             /\ LinkDec(p) \/ UnlinkDec(p) => n = dinode[i].nlink - 1
<1> DEFINE s == ip[p]
           i == icache[s].inum
           L == dinode[i].nlink
<1>1. pc[p] \in {"mknod", "linkinc", "linkdec", "unlinked"} /\ (CanLock(s) \/ pc[p] = "unlinked")
  BY DEF Relinks, Mknod, LinkInc, LinkDec, UnlinkDec
<1>2. s # NoSlot
  BY <1>1 DEF NInv, Hands, Holding
<1>3. s \in Slots /\ icache[s].ref > 0
  BY <1>2, Held DEF NInv
<1>4. CanLock(s) \/ (owner[s] = p /\ pc[p] # "irel")
  BY <1>1, <1>3 DEF NInv, Locked
<1>5. \A q \in Procs : ~(tmp[q] = s /\ pc[q] = "irel")
  BY <1>3, <1>4, NotReleasing DEF NInv
<1>6. /\ i \in Inums /\ Read(s) \in Entries
      /\ Read(s).inum = i /\ Read(s).ref = icache[s].ref /\ Read(s).valid
      /\ dinode[i] = [type |-> "file", nlink |-> Read(s).nlink]
  BY <1>2, <1>5, ReadFacts DEF NInv
<1>7. L = Read(s).nlink /\ L \in Nat
  BY <1>6 DEF Entries
<1>8. ASSUME NEW n \in Nat, SetLinks(s, n)
      PROVE  /\ icache' \in [Slots -> Entries] /\ \A t \in Slots \ {s} : icache'[t] = icache[t]
             /\ icache'[s].inum = i /\ icache'[s].ref = icache[s].ref /\ icache'[s].valid /\ icache'[s].nlink = n
             /\ dinode' \in [Inums -> Dinodes] /\ dinode'[i] = [type |-> "file", nlink |-> n]
             /\ \A j \in Inums \ {i} : dinode'[j] = dinode[j]
  BY <1>3, <1>6, <1>8, UpdateFacts DEF NInv
<1>9. LinkDec(p) \/ UnlinkDec(p) => L - 1 \in Nat
  <2>1. LinkDec(p) \/ UnlinkDec(p) => Between(p)
    BY DEF LinkDec, UnlinkDec, Between
  <2> QED
    BY <2>1, <1>7, Surplus
<1>10. /\ Mknod(p) => SetLinks(s, 1)
       /\ LinkInc(p) => SetLinks(s, L + 1)
       /\ LinkDec(p) \/ UnlinkDec(p) => SetLinks(s, L - 1)
  <2>1. UnlinkDec(p) => icache[s].nlink = L
    BY <1>7 DEF UnlinkDec, NInv, Filled, Read
  <2> QED
    BY <2>1, <1>7 DEF Mknod, LinkInc, LinkDec, UnlinkDec
<1>11. ~(Mknod(p) /\ (LinkInc(p) \/ LinkDec(p) \/ UnlinkDec(p))) /\ ~(LinkInc(p) /\ (LinkDec(p) \/ UnlinkDec(p)))
  BY DEF Mknod, LinkInc, LinkDec, UnlinkDec
<1> HIDE DEF L, i, s
<1>12. CASE Mknod(p)
  BY <1>3, <1>5, <1>6, <1>8, <1>10, <1>11, <1>12 DEF L, i, s
<1>13. CASE LinkInc(p)
  <2> DEFINE n == L + 1
  <2>1. n = L + 1 /\ n \in Nat /\ SetLinks(s, n)
    BY <1>7, <1>10, <1>13
  <2> HIDE DEF n
  <2> QED
    BY <1>3, <1>5, <1>6, <1>8, <1>11, <1>13, <2>1 DEF L, i, s
<1>14. CASE LinkDec(p) \/ UnlinkDec(p)
  BY <1>3, <1>5, <1>6, <1>8, <1>9, <1>10, <1>11, <1>14 DEF L, i, s
<1> QED
  BY <1>12, <1>13, <1>14 DEF Relinks

\* The names and the inode a call is about.
LEMMA Arguments ==
  ASSUME NInv, NEW p \in Procs
  PROVE  /\ pc[p] \in Making \cup {"namei", "create", "unlink", "unlock"} => Name(p) \in Names
         /\ pc[p] \in Linking \/ cont[p] = "linkbad" => New(p) \in Names
         /\ pc[p] = "iget" => inum[p] \in Inums
         /\ \A n \in Names : entry[n] # NoInum => entry[n] \in Inums
<1>1. InCall /\ Hands /\ inum[p] \in Inums \cup {NoInum} /\ entry \in [Names -> Inums \cup {NoInum}]
  BY DEF NInv, TypeOK
<1>2. pc[p] \in Making \cup {"namei", "create", "unlink", "unlock"} => Name(p) \in Names
  BY <1>1 DEF InCall, Name
<1>3. pc[p] \in Linking \/ cont[p] = "linkbad" => New(p) \in Names
  BY <1>1 DEF InCall, New
<1> QED
  BY <1>1, <1>2, <1>3 DEF Hands

\* The steps that look an inode up in the cache.
GetStep(p) ==
  \/ Namei(p) /\ entry[Name(p)] # NoInum
  \/ CreateLook(p) /\ entry[Name(p)] # NoInum
  \/ UnlinkLook(p) /\ entry[Name(p)] # NoInum
  \/ IallocGet(p)
  \/ LinkDir(p) /\ entry[New(p)] # NoInum

\* Which inode they ask for, and where the reference goes.
Asks(p, i, s) ==
  /\ Iget(i, s)
  /\ IF LinkDir(p) THEN tmp' = [tmp EXCEPT ![p] = s] /\ ip' = ip ELSE ip' = [ip EXCEPT ![p] = s] /\ tmp' = tmp
  /\ IF LinkDir(p) THEN i = entry[New(p)] ELSE IF IallocGet(p) THEN i = inum[p] ELSE i = entry[Name(p)]

LEMMA GetFacts ==
  ASSUME NInv, NEW p \in Procs, GetStep(p)
  PROVE  \E i \in Inums : \E s \in Slots : Asks(p, i, s)
<1> USE DEF hands
<1>1. CASE Namei(p) /\ entry[Name(p)] # NoInum
  <2>1. entry[Name(p)] \in Inums
    BY <1>1, Arguments DEF Namei
  <2>2. PICK s \in Slots : Iget(entry[Name(p)], s) /\ Hand(p, s)
    BY <1>1 DEF Namei
  <2>3. tmp' = tmp /\ ~LinkDir(p) /\ ~IallocGet(p)
    BY <1>1 DEF Namei, LinkDir, IallocGet
  <2> QED
    BY <2>1, <2>2, <2>3 DEF Asks, Hand
<1>2. CASE CreateLook(p) /\ entry[Name(p)] # NoInum
  <2>1. entry[Name(p)] \in Inums
    BY <1>2, Arguments DEF CreateLook
  <2>2. PICK s \in Slots : Iget(entry[Name(p)], s) /\ Hand(p, s)
    BY <1>2 DEF CreateLook
  <2>3. tmp' = tmp /\ ~LinkDir(p) /\ ~IallocGet(p)
    BY <1>2 DEF CreateLook, LinkDir, IallocGet
  <2> QED
    BY <2>1, <2>2, <2>3 DEF Asks, Hand
<1>3. CASE UnlinkLook(p) /\ entry[Name(p)] # NoInum
  <2>1. entry[Name(p)] \in Inums
    BY <1>3, Arguments DEF UnlinkLook
  <2>2. PICK s \in Slots : Iget(entry[Name(p)], s) /\ Hand(p, s)
    BY <1>3 DEF UnlinkLook
  <2>3. tmp' = tmp /\ ~LinkDir(p) /\ ~IallocGet(p)
    BY <1>3 DEF UnlinkLook, LinkDir, IallocGet
  <2> QED
    BY <2>1, <2>2, <2>3 DEF Asks, Hand
<1>4. CASE IallocGet(p)
  <2>1. PICK s \in Slots : Iget(inum[p], s) /\ Hand(p, s)
    BY <1>4 DEF IallocGet
  <2>2. tmp' = tmp /\ inum[p] \in Inums /\ ~LinkDir(p)
    BY <1>4, Arguments DEF IallocGet, LinkDir
  <2> QED
    BY <1>4, <2>1, <2>2 DEF Asks, Hand
<1>5. CASE LinkDir(p) /\ entry[New(p)] # NoInum
  <2>1. entry[New(p)] \in Inums
    BY <1>5, Arguments DEF LinkDir, Linking
  <2>2. PICK s \in Slots : Iget(entry[New(p)], s) /\ Put(p, s)
    BY <1>5 DEF LinkDir
  <2>3. ip' = ip
    BY <1>5 DEF LinkDir
  <2> QED
    BY <1>5, <2>1, <2>2, <2>3 DEF Asks, Put
<1> QED
  BY <1>1, <1>2, <1>3, <1>4, <1>5 DEF GetStep

\* A step of a process is one of these, as far as the cache goes.
Leaves(p) == icache' = icache
Drops(p)  == IputDrop(p)
Clears(p) == IputRelease(p)
Reads(p)  == Ilock(p) \/ UnlinkEntry(p)

LEMMA Kinds ==
  ASSUME NInv, NEW p \in Procs, ProcStep(p)
  PROVE  Leaves(p) \/ Drops(p) \/ Clears(p) \/ Reads(p) \/ Relinks(p) \/ GetStep(p)
<1> USE DEF memory, hands
<1>1. CASE IputLook(p) \/ IputFree(p) \/ IputRelease(p) \/ IputDrop(p) \/ End(p)
  BY <1>1 DEF IputLook, IputFree, End, Leaves, Drops, Clears
<1>2. CASE Ilock(p) \/ Opened(p) \/ NotOpened(p) \/ Ialloc(p)
  BY <1>2 DEF Reads, Leaves, Opened, NotOpened, Ialloc
<1>3. CASE Mknod(p) \/ LinkInc(p) \/ LinkDec(p) \/ UnlinkDec(p)
  BY <1>3 DEF Relinks
<1>4. CASE LinkBad(p) \/ UnlinkEntry(p)
  BY <1>4 DEF LinkBad, Leaves, Reads
<1>5. CASE Namei(p) \/ CreateLook(p) \/ UnlinkLook(p)
  BY <1>5 DEF Namei, CreateLook, UnlinkLook, Leaves, GetStep
<1>6. CASE IallocGet(p) \/ LinkDir(p)
  BY <1>6 DEF LinkDir, Leaves, GetStep
<1>7. CASE \E c \in Calls : Begin(p, c)
  BY <1>7 DEF Begin, Leaves
<1> QED
  BY <1>1, <1>2, <1>3, <1>4, <1>5, <1>6, <1>7 DEF ProcStep, Step

\* The release in iput(), and the read in ilock().
LEMMA ClearFacts ==
  ASSUME NInv, NEW p \in Procs, Clears(p)
  PROVE  /\ tmp[p] \in Slots /\ icache' \in [Slots -> Entries]
         /\ \A t \in Slots : icache'[t].inum = icache[t].inum /\ icache'[t].ref = icache[t].ref
         /\ \A t \in Slots \ {tmp[p]} : icache'[t] = icache[t]
         /\ ~icache'[tmp[p]].valid
<1>1. tmp[p] # NoSlot
  BY DEF Clears, IputRelease, NInv, Hands, Iputs
<1>2. tmp[p] \in Slots /\ icache \in [Slots -> Entries]
  BY <1>1, Held DEF NInv, TypeOK, Entries
<1>3. icache' = [icache EXCEPT ![tmp[p]].valid = FALSE]
  BY DEF Clears, IputRelease
<1> QED
  BY <1>2, <1>3 DEF Entries

LEMMA LoadFacts ==
  ASSUME NInv, NEW p \in Procs, Reads(p)
  PROVE  LET s == ip[p] IN
         /\ s \in Slots /\ icache[s].inum \in Inums /\ icache[s].ref > 0
         /\ icache' \in [Slots -> Entries] /\ \A t \in Slots \ {s} : icache'[t] = icache[t]
         /\ icache'[s].inum = icache[s].inum /\ icache'[s].ref = icache[s].ref /\ icache'[s].valid
         /\ dinode[icache[s].inum] = [type |-> "file", nlink |-> icache'[s].nlink]
<1> DEFINE s == ip[p]
<1>1. s # NoSlot /\ CanLock(s) /\ icache' = [icache EXCEPT ![s] = Read(s)]
  BY DEF Reads, Ilock, UnlinkEntry, NInv, Hands, Holding
<1>2. s \in Slots /\ icache[s].ref > 0 /\ icache \in [Slots -> Entries]
  BY <1>1, Held DEF NInv, TypeOK, Entries
<1>3. \A q \in Procs : ~(tmp[q] = s /\ pc[q] = "irel")
  <2>1. CanLock(s) \/ (owner[s] = p /\ pc[p] # "irel")
    BY <1>1
  <2> QED
    BY <1>2, <2>1, NotReleasing DEF NInv
<1>4. /\ icache[s].inum \in Inums /\ Read(s) \in Entries
      /\ Read(s).inum = icache[s].inum /\ Read(s).ref = icache[s].ref /\ Read(s).valid
      /\ dinode[icache[s].inum] = [type |-> "file", nlink |-> Read(s).nlink]
  BY <1>1, <1>3, ReadFacts DEF NInv
<1>5. icache' \in [Slots -> Entries] /\ icache'[s] = Read(s) /\ \A t \in Slots \ {s} : icache'[t] = icache[t]
  BY <1>1, <1>2, <1>4
<1> QED
  BY <1>2, <1>4, <1>5

\* An entry with references keeps its inode, up to the drop of the last one.
LEMMA Kept ==
  ASSUME NInv, NEW p \in Procs, ProcStep(p)
  PROVE  /\ icache' \in [Slots -> Entries]
         /\ \A s \in Slots : icache[s].ref > 0 =>
              icache'[s].inum = icache[s].inum \/ (Drops(p) /\ tmp[p] = s /\ icache[s].ref = 1)
<1>0. icache \in [Slots -> Entries] /\ TypeOK /\ OneEntry
  BY DEF NInv, TypeOK, Entries
<1>1. CASE Leaves(p)
  BY <1>0, <1>1 DEF Leaves
<1>2. CASE Drops(p)
  <2>1. tmp[p] # NoSlot /\ IputDrop(p)
    BY <1>2 DEF Drops, IputDrop, NInv, Hands, Iputs
  <2> QED
    BY <1>0, <1>2, <2>1, DropFacts
<1>3. CASE Clears(p)
  BY <1>3, ClearFacts
<1>4. CASE Reads(p)
  BY <1>4, LoadFacts
<1>5. CASE Relinks(p)
  BY <1>5, RelinkFacts
<1>6. CASE GetStep(p)
  <2>1. PICK i \in Inums, s \in Slots : Iget(i, s)
    BY <1>6, GetFacts DEF Asks
  <2> QED
    BY <1>0, <2>1, IgetFacts
<1> QED
  BY <1>1, <1>2, <1>3, <1>4, <1>5, <1>6, Kinds

\* So whatever is in somebody's hands and is not just given up keeps it.
LEMMA Stable ==
  ASSUME NInv, NEW p \in Procs, ProcStep(p)
  PROVE  \A q \in Procs :
           /\ ip[q] # NoSlot => ip[q] \in Slots /\ icache'[ip[q]].inum = icache[ip[q]].inum
           /\ fd[q] # NoSlot => fd[q] \in Slots /\ icache'[fd[q]].inum = icache[fd[q]].inum
           /\ tmp[q] # NoSlot /\ ~(q = p /\ Drops(p)) => tmp[q] \in Slots /\ icache'[tmp[q]].inum = icache[tmp[q]].inum
<1>1. ASSUME Drops(p), icache[tmp[p]].ref = 1
      PROVE  \A q \in Procs : ip[q] # tmp[p] /\ fd[q] # tmp[p] /\ (q # p => tmp[q] # tmp[p])
  <2>1. tmp[p] \in Slots
    BY <1>1, Held DEF NInv, Hands, Drops, IputDrop, Iputs
  <2> QED
    BY <1>1, <2>1, LastOne DEF NInv
<1>2. \A q \in Procs : \A s \in {ip[q], tmp[q], fd[q]} \ {NoSlot} : s \in Slots /\ icache[s].ref > 0
  BY Held DEF NInv
<1> QED
  BY <1>1, <1>2, Kept

-----------------------------------------------------------------------------
(* One entry for an inode *)

\* A reference goes from one hand to the other.
LEMMA MoveCount ==
  ASSUME NEW f \in Reffing, NEW g \in Reffing, NEW p \in Procs, g[p] = NoSlot, NEW s \in Slots
  PROVE  /\ Count([f EXCEPT ![p] = NoSlot], s) + Count([g EXCEPT ![p] = f[p]], s) = Count(f, s) + Count(g, s)
         /\ Count(f, s) \in Nat /\ Count(g, s) \in Nat
         /\ Count([f EXCEPT ![p] = NoSlot], s) \in Nat /\ Count([g EXCEPT ![p] = f[p]], s) \in Nat
<1>1. Count(f, s) \in Nat /\ Count(g, s) \in Nat
  BY HandCount
<1>2. [f EXCEPT ![p] = NoSlot] \in Reffing /\ [g EXCEPT ![p] = f[p]] \in Reffing /\ NoSlot # s
  BY Ranges DEF Reffing
<1>3. Count([f EXCEPT ![p] = NoSlot], s) \in Nat /\ Count([g EXCEPT ![p] = f[p]], s) \in Nat
  BY <1>2, HandCount
<1>4. CASE f[p] = s
  <2>1. Count([f EXCEPT ![p] = NoSlot], s) = Count(f, s) - 1
    BY <1>2, <1>4, HandSet
  <2>2. Count([g EXCEPT ![p] = f[p]], s) = Count(g, s) + 1
    BY <1>2, <1>4, HandSet
  <2> QED
    BY <1>1, <1>3, <2>1, <2>2
<1>5. CASE f[p] # s
  <2>1. Count([f EXCEPT ![p] = NoSlot], s) = Count(f, s)
    BY <1>2, <1>5, HandSet
  <2>2. Count([g EXCEPT ![p] = f[p]], s) = Count(g, s)
    BY <1>2, <1>5, HandSet
  <2> QED
    BY <1>1, <1>3, <2>1, <2>2
<1> QED
  BY <1>4, <1>5

\* One reference more, and one less.
LEMMA TakeCount ==
  ASSUME NEW f \in Reffing, NEW p \in Procs, f[p] = NoSlot, NEW s \in Slots
  PROVE  /\ Count([f EXCEPT ![p] = s], s) = Count(f, s) + 1 /\ Count(f, s) \in Nat
         /\ \A t \in Slots \ {s} : Count([f EXCEPT ![p] = s], t) = Count(f, t) /\ Count(f, t) \in Nat
<1>1. NoSlot \notin Slots
  BY Ranges
<1>2. Count([f EXCEPT ![p] = s], s) = Count(f, s) + 1 /\ Count(f, s) \in Nat
  BY <1>1, HandSet, HandCount
<1>3. ASSUME NEW t \in Slots \ {s}
      PROVE  Count([f EXCEPT ![p] = s], t) = Count(f, t) /\ Count(f, t) \in Nat
  BY <1>1, HandSet, HandCount
<1> QED
  BY <1>2, <1>3

LEMMA GiveCount ==
  ASSUME NEW f \in Reffing, NEW p \in Procs, NEW s \in Slots, f[p] = s
  PROVE  /\ Count([f EXCEPT ![p] = NoSlot], s) = Count(f, s) - 1 /\ Count(f, s) \in Nat
         /\ \A t \in Slots \ {s} : Count([f EXCEPT ![p] = NoSlot], t) = Count(f, t) /\ Count(f, t) \in Nat
<1>1. NoSlot \notin Slots
  BY Ranges
<1>2. Count([f EXCEPT ![p] = NoSlot], s) = Count(f, s) - 1 /\ Count(f, s) \in Nat
  BY <1>1, HandSet, HandCount
<1>3. ASSUME NEW t \in Slots \ {s}
      PROVE  Count([f EXCEPT ![p] = NoSlot], t) = Count(f, t) /\ Count(f, t) \in Nat
  BY <1>1, HandSet, HandCount
<1> QED
  BY <1>2, <1>3

\* The references of all processes to an entry.
Refs(s) == Count(ip, s) + Count(tmp, s) + Count(fd, s)

\* A step that does not look up or drop leaves them in number.
LEMMA SameRefs ==
  ASSUME NInv, NEW p \in Procs, ProcStep(p), ~Drops(p), ~GetStep(p), NEW s \in Slots
  PROVE  Refs(s)' = Refs(s)
<1>1. ip \in Reffing /\ tmp \in Reffing /\ fd \in Reffing /\ Hands
  BY DEF NInv, TypeOK, Reffing
<1>2. Count(ip, s) \in Nat /\ Count(tmp, s) \in Nat /\ Count(fd, s) \in Nat
  BY <1>1, HandCount
<1>3. Refs(s) = Count(ip, s) + Count(tmp, s) + Count(fd, s) /\ Refs(s)' = Count(ip', s) + Count(tmp', s) + Count(fd', s)
  BY DEF Refs, Count
<1>4. CASE ip' = ip /\ tmp' = tmp /\ fd' = fd
  BY <1>3, <1>4
<1>5. CASE ip' = [ip EXCEPT ![p] = NoSlot] /\ tmp' = [tmp EXCEPT ![p] = ip[p]] /\ fd' = fd /\ tmp[p] = NoSlot
  <2>1. Count(ip', s) + Count(tmp', s) = Count(ip, s) + Count(tmp, s) /\ Count(ip', s) \in Nat /\ Count(tmp', s) \in Nat
    BY <1>1, <1>5, MoveCount
  <2> QED
    BY <1>2, <1>3, <1>5, <2>1
<1>6. CASE ip' = [ip EXCEPT ![p] = NoSlot] /\ fd' = [fd EXCEPT ![p] = ip[p]] /\ tmp' = tmp /\ fd[p] = NoSlot
  <2>1. Count(ip', s) + Count(fd', s) = Count(ip, s) + Count(fd, s) /\ Count(ip', s) \in Nat /\ Count(fd', s) \in Nat
    BY <1>1, <1>6, MoveCount
  <2> QED
    BY <1>2, <1>3, <1>6, <2>1
<1>7. CASE fd' = [fd EXCEPT ![p] = NoSlot] /\ tmp' = [tmp EXCEPT ![p] = fd[p]] /\ ip' = ip /\ tmp[p] = NoSlot
  <2>1. Count(fd', s) + Count(tmp', s) = Count(fd, s) + Count(tmp, s) /\ Count(fd', s) \in Nat /\ Count(tmp', s) \in Nat
    BY <1>1, <1>7, MoveCount
  <2> QED
    BY <1>2, <1>3, <1>7, <2>1
<1> USE DEF hands, Put, Hand, Unlockput
<1>8. CASE IputLook(p) \/ IputFree(p) \/ IputRelease(p) \/ End(p) \/ Ilock(p) \/ Mknod(p)
           \/ LinkInc(p) \/ LinkBad(p) \/ UnlinkEntry(p)
  BY <1>4, <1>8 DEF IputLook, IputFree, IputRelease, End, Ilock, Mknod, LinkInc, LinkBad, UnlinkEntry
<1>9. CASE Namei(p) \/ CreateLook(p) \/ UnlinkLook(p) \/ IallocGet(p) \/ Ialloc(p)
  BY <1>4, <1>9 DEF Namei, CreateLook, UnlinkLook, Ialloc, GetStep
<1>10. CASE NotOpened(p) \/ LinkDec(p) \/ UnlinkDec(p)
  BY <1>1, <1>5, <1>10 DEF NotOpened, LinkDec, UnlinkDec, Hands, Iputs
<1>11. CASE LinkDir(p)
  BY <1>1, <1>5, <1>11 DEF LinkDir, GetStep, Hands, Iputs
<1>12. CASE Opened(p)
  BY <1>6, <1>12 DEF Opened
<1>13. CASE \E c \in Calls : Begin(p, c)
  BY <1>1, <1>4, <1>7, <1>13 DEF Begin, Hands, Iputs
<1> QED
  BY <1>8, <1>9, <1>10, <1>11, <1>12, <1>13 DEF ProcStep, Step, Drops

\* The references to an entry are its ref.
LEMMA RefsInd ==
  ASSUME NInv, NEW p \in Procs, ProcStep(p)
  PROVE  \A s \in Slots : icache'[s].ref = Refs(s)'
<1>1. /\ ip \in Reffing /\ tmp \in Reffing /\ fd \in Reffing /\ TypeOK /\ OneEntry
      /\ \A s \in Slots : icache[s].ref = Refs(s)
  BY DEF NInv, TypeOK, Reffing, OneEntry, Refs
<1>2. \A s \in Slots : Count(ip, s) \in Nat /\ Count(tmp, s) \in Nat /\ Count(fd, s) \in Nat
  BY <1>1, HandCount
<1>3. \A s \in Slots : /\ Refs(s) = Count(ip, s) + Count(tmp, s) + Count(fd, s)
                       /\ Refs(s)' = Count(ip', s) + Count(tmp', s) + Count(fd', s)
  BY DEF Refs, Count
<1>4. CASE GetStep(p)
  <2>1. PICK i \in Inums, s \in Slots : Asks(p, i, s)
    BY <1>4, GetFacts
  <2>2. fd' = fd
    BY <1>4 DEF GetStep, Namei, CreateLook, UnlinkLook, IallocGet, LinkDir
  <2>3. icache'[s].ref = icache[s].ref + 1 /\ \A t \in Slots \ {s} : icache'[t] = icache[t]
    BY <1>1, <2>1, IgetFacts DEF Asks
  <2>4. CASE LinkDir(p)
    <3>1. tmp[p] = NoSlot /\ tmp' = [tmp EXCEPT ![p] = s] /\ ip' = ip
      BY <2>1, <2>4 DEF Asks, LinkDir, NInv, Hands, Iputs
    <3>2. Count(tmp', s) = Count(tmp, s) + 1 /\ \A t \in Slots \ {s} : Count(tmp', t) = Count(tmp, t)
      BY <1>1, <3>1, TakeCount
    <3>4. Refs(s)' = Refs(s) + 1
      BY <1>2, <1>3, <2>2, <3>1, <3>2
    <3>5. ASSUME NEW t \in Slots \ {s} PROVE Refs(t)' = Refs(t)
      BY <1>2, <1>3, <2>2, <3>1, <3>2
    <3> QED
      BY <1>1, <2>3, <3>4, <3>5
  <2>5. CASE ~LinkDir(p)
    <3>1. ip[p] = NoSlot
      <4>1. pc[p] \in {"namei", "create", "unlink", "iget"}
        BY <1>4, <2>5 DEF GetStep, Namei, CreateLook, UnlinkLook, IallocGet
      <4> QED
        BY <4>1 DEF NInv, Hands, Holding, Iputs
    <3>2. ip' = [ip EXCEPT ![p] = s] /\ tmp' = tmp
      BY <2>1, <2>5 DEF Asks
    <3>3. Count(ip', s) = Count(ip, s) + 1 /\ \A t \in Slots \ {s} : Count(ip', t) = Count(ip, t)
      BY <1>1, <3>1, <3>2, TakeCount
    <3>4. Refs(s)' = Refs(s) + 1
      BY <1>2, <1>3, <2>2, <3>2, <3>3
    <3>5. ASSUME NEW t \in Slots \ {s} PROVE Refs(t)' = Refs(t)
      BY <1>2, <1>3, <2>2, <3>2, <3>3
    <3> QED
      BY <1>1, <2>3, <3>4, <3>5
  <2> QED
    BY <2>4, <2>5
<1>5. CASE Drops(p)
  <2>1. tmp[p] # NoSlot /\ IputDrop(p) /\ tmp' = [tmp EXCEPT ![p] = NoSlot] /\ ip' = ip /\ fd' = fd
    BY <1>5 DEF Drops, IputDrop, Put, NInv, Hands, Iputs
  <2>2. PICK s \in Slots :
          tmp[p] = s /\ icache'[s].ref = icache[s].ref - 1 /\ \A t \in Slots \ {s} : icache'[t] = icache[t]
    BY <1>1, <2>1, DropFacts
  <2>3. Count(tmp', s) = Count(tmp, s) - 1 /\ \A t \in Slots \ {s} : Count(tmp', t) = Count(tmp, t)
    <3>1. tmp \in Reffing /\ tmp[p] = s /\ tmp' = [tmp EXCEPT ![p] = NoSlot]
      BY <1>1, <2>1, <2>2
    <3>2. /\ Count([tmp EXCEPT ![p] = NoSlot], s) = Count(tmp, s) - 1
          /\ \A t \in Slots \ {s} : Count([tmp EXCEPT ![p] = NoSlot], t) = Count(tmp, t)
      BY <3>1, GiveCount
    <3> QED
      BY <3>1, <3>2
  <2>4. ip' = ip /\ fd' = fd /\ Count(ip, s) \in Nat /\ Count(tmp, s) \in Nat /\ Count(fd, s) \in Nat
    BY <1>2, <2>1
  <2>5. Refs(s)' = Refs(s) - 1
    BY <1>3, <2>3, <2>4
  <2>6. ASSUME NEW t \in Slots \ {s} PROVE Refs(t)' = Refs(t)
    BY <1>2, <1>3, <2>3, <2>4
  <2> QED
    BY <1>1, <2>2, <2>5, <2>6
<1>6. CASE ~GetStep(p) /\ ~Drops(p)
  <2>1. \A s \in Slots : Refs(s)' = Refs(s)
    BY <1>6, SameRefs
  <2>2. CASE Leaves(p)
    BY <1>1, <2>1, <2>2 DEF Leaves
  <2>3. CASE Clears(p)
    BY <1>1, <2>1, <2>3, ClearFacts
  <2>4. CASE Reads(p)
    BY <1>1, <2>1, <2>4, LoadFacts
  <2>5. CASE Relinks(p)
    BY <1>1, <2>1, <2>5, RelinkFacts
  <2> QED
    BY <1>6, <2>2, <2>3, <2>4, <2>5, Kinds
<1> QED
  BY <1>4, <1>5, <1>6

\* No inode gets a second entry.
LEMMA UniqueInd ==
  ASSUME NInv, NEW p \in Procs, ProcStep(p), NEW s \in Slots, NEW t \in Slots,
         icache'[s].ref > 0, icache'[t].ref > 0, icache'[s].inum = icache'[t].inum
  PROVE  s = t
<1>1. TypeOK /\ OneEntry /\ (icache[s].ref > 0 /\ icache[t].ref > 0 /\ icache[s].inum = icache[t].inum => s = t)
  BY DEF NInv, OneEntry
<1>2. CASE GetStep(p)
  <2>1. PICK i \in Inums, u \in Slots : Iget(i, u)
    BY <1>2, GetFacts DEF Asks
  <2> QED
    BY <1>1, <2>1, IgetFacts
<1>3. CASE Drops(p)
  <2>1. tmp[p] # NoSlot /\ IputDrop(p)
    BY <1>3 DEF Drops, IputDrop, NInv, Hands, Iputs
  <2> QED
    BY <1>1, <2>1, DropFacts
<1>4. CASE Leaves(p)
  BY <1>1, <1>4 DEF Leaves
<1>5. CASE Clears(p)
  BY <1>1, <1>5, ClearFacts
<1>6. CASE Reads(p)
  BY <1>1, <1>6, LoadFacts
<1>7. CASE Relinks(p)
  BY <1>1, <1>7, RelinkFacts
<1> QED
  BY <1>2, <1>3, <1>4, <1>5, <1>6, <1>7, Kinds

\* Which steps change an inode on disk.
LEMMA DiskKinds ==
  ASSUME NEW p \in Procs, ProcStep(p)
  PROVE  dinode' = dinode \/ IputFree(p) \/ Ialloc(p) \/ Relinks(p)
<1> USE DEF disk
<1>1. CASE IputLook(p) \/ IputRelease(p) \/ IputDrop(p) \/ End(p) \/ Namei(p) \/ Ilock(p) \/ Opened(p) \/ NotOpened(p)
  BY <1>1 DEF IputLook, IputRelease, IputDrop, End, Namei, Ilock, Opened, NotOpened
<1>2. CASE CreateLook(p) \/ IallocGet(p) \/ LinkDir(p) \/ LinkBad(p) \/ UnlinkLook(p) \/ UnlinkEntry(p)
  BY <1>2 DEF CreateLook, IallocGet, LinkDir, LinkBad, UnlinkLook, UnlinkEntry
<1>3. CASE \E c \in Calls : Begin(p, c)
  BY <1>3 DEF Begin
<1> QED
  BY <1>1, <1>2, <1>3 DEF ProcStep, Step, Relinks

\* Only the release ends "irel".
LEMMA Releasing ==
  ASSUME NEW p \in Procs, ProcStep(p), pc[p] = "irel"
  PROVE  Clears(p)
<1>1. ~(IputLook(p) \/ IputFree(p) \/ IputDrop(p) \/ End(p) \/ Namei(p) \/ Ilock(p) \/ Opened(p) \/ NotOpened(p))
  BY DEF IputLook, IputFree, IputDrop, End, Namei, Ilock, Opened, NotOpened
<1>2. ~(CreateLook(p) \/ Ialloc(p) \/ IallocGet(p) \/ Mknod(p) \/ LinkInc(p) \/ LinkDir(p) \/ LinkBad(p) \/ LinkDec(p))
  BY DEF CreateLook, Ialloc, IallocGet, Mknod, LinkInc, LinkDir, LinkBad, LinkDec
<1>3. ~(UnlinkLook(p) \/ UnlinkEntry(p) \/ UnlinkDec(p) \/ \E c \in Calls : Begin(p, c))
  BY DEF UnlinkLook, UnlinkEntry, UnlinkDec, Begin
<1> QED
  BY <1>1, <1>2, <1>3 DEF ProcStep, Step, Clears

\* A valid entry has what the disk has.
LEMMA ThroughInd ==
  ASSUME NInv, NEW p \in Procs, ProcStep(p), NEW s \in Slots,
         icache'[s].ref > 0, icache'[s].valid, ~(\E q \in Procs : tmp'[q] = s /\ pc'[q] = "irel")
  PROVE  dinode'[icache'[s].inum] = [type |-> "file", nlink |-> icache'[s].nlink]
<1>0. /\ TypeOK /\ OneEntry /\ icache[s].ref \in Nat
      /\ \A t \in Slots : icache[s].ref > 0 /\ icache[t].ref > 0 /\ icache[s].inum = icache[t].inum => s = t
      /\ icache[s].ref > 0 => icache[s].inum \in Inums
  BY Held DEF NInv, OneEntry, Filled
<1>1. ~(\E q \in Procs : tmp[q] = s /\ pc[q] = "irel")
  <2>1. ASSUME NEW q \in Procs, tmp[q] = s, pc[q] = "irel" PROVE FALSE
    <3>1. q = p
      BY <2>1, Frame, <1>0
    <3>2. Clears(p)
      BY <2>1, <3>1, Releasing
    <3> QED
      BY <2>1, <3>1, <3>2, ClearFacts
  <2> QED
    BY <2>1
<1>2. icache[s].ref > 0 /\ icache[s].valid => dinode[icache[s].inum] = [type |-> "file", nlink |-> icache[s].nlink]
  BY <1>0, <1>1 DEF OneEntry
<1>3. CASE dinode' = dinode /\ ~Relinks(p)
  <2>1. CASE Leaves(p)
    BY <1>2, <1>3, <2>1 DEF Leaves
  <2>2. CASE Drops(p)
    <3>1. tmp[p] # NoSlot /\ IputDrop(p)
      BY <2>2 DEF Drops, IputDrop, NInv, Hands, Iputs
    <3>2. /\ icache[s].ref > 0 /\ icache'[s].inum = icache[s].inum /\ icache'[s].valid = icache[s].valid
          /\ icache'[s].nlink = icache[s].nlink
      <4>1. CASE s = tmp[p]
        <5>1. icache[s].ref # 1 /\ icache[s].ref > 0
          BY <1>0, <3>1, <4>1, DropFacts
        <5> QED
          BY <1>0, <3>1, <4>1, <5>1, DropFacts
      <4>2. CASE s # tmp[p]
        BY <1>0, <3>1, <4>2, DropFacts
      <4> QED
        BY <4>1, <4>2
    <3> QED
      BY <1>2, <1>3, <3>2
  <2>3. CASE Clears(p)
    BY <1>2, <1>3, <2>3, ClearFacts
  <2>4. CASE Reads(p)
    BY <1>2, <1>3, <2>4, LoadFacts
  <2>5. CASE GetStep(p)
    <3>1. PICK i \in Inums, u \in Slots : Iget(i, u)
      BY <2>5, GetFacts DEF Asks
    <3>2. /\ \A t \in Slots \ {u} : icache'[t] = icache[t]
          /\ icache[u].ref = 0 => ~icache'[u].valid
          /\ icache[u].ref > 0 => icache'[u].inum = icache[u].inum /\ icache'[u].valid = icache[u].valid
                                  /\ icache'[u].nlink = icache[u].nlink
      BY <1>0, <3>1, IgetFacts
    <3>3. icache[s].ref > 0 /\ icache'[s].inum = icache[s].inum /\ icache'[s].valid = icache[s].valid
          /\ icache'[s].nlink = icache[s].nlink
      <4>1. CASE s # u
        BY <3>2, <4>1
      <4>2. CASE s = u
        <5>1. icache[s].ref # 0
          BY <3>2, <4>2
        <5>2. icache[s].ref > 0
          BY <1>0, <5>1
        <5> QED
          BY <3>2, <4>2, <5>2
      <4> QED
        BY <4>1, <4>2
    <3> QED
      BY <1>2, <1>3, <3>3
  <2> QED
    BY <1>3, <2>1, <2>2, <2>3, <2>4, <2>5, Kinds
<1>4. CASE IputFree(p)
  <2>1. icache' = icache /\ tmp' = tmp /\ pc[p] = "ifree" /\ pc' = [pc EXCEPT ![p] = "irel"]
        /\ dinode' = [dinode EXCEPT ![icache[tmp[p]].inum] = Free]
    BY <1>4 DEF IputFree, memory, hands, Goto
  <2>2. pc'[p] = "irel" /\ tmp[p] \in Slots /\ icache[tmp[p]].ref > 0
    BY <1>0, <2>1, Held DEF TypeOK, NInv, Hands, Iputs
  <2>3. icache[s].inum # icache[tmp[p]].inum
    BY <1>0, <2>1, <2>2
  <2> QED
    BY <1>0, <1>2, <2>1, <2>3 DEF TypeOK
<1>5. CASE Ialloc(p)
  <2>1. PICK i \in Inums : dinode[i].type = "free" /\ dinode' = [dinode EXCEPT ![i] = [type |-> "file", nlink |-> 0]]
    BY <1>5 DEF Ialloc, First
  <2>2. icache' = icache
    BY <1>5 DEF Ialloc, memory
  <2>3. icache[s].inum # i
    BY <1>2, <2>1, <2>2
  <2> QED
    BY <1>0, <1>2, <2>1, <2>2, <2>3 DEF TypeOK
<1>6. CASE Relinks(p)
  <2> DEFINE u == ip[p]
  <2>1. CASE s = u
    BY <1>6, <2>1, RelinkFacts
  <2>2. CASE s # u
    <3>1. icache'[s] = icache[s] /\ icache[s].ref > 0 /\ icache[s].inum # icache[u].inum
      BY <1>0, <1>6, <2>2, RelinkFacts
    <3>2. icache[s].inum \in Inums \ {icache[u].inum}
      BY <1>0, <3>1
    <3>3. \A j \in Inums \ {icache[u].inum} : dinode'[j] = dinode[j]
      BY <1>6, RelinkFacts
    <3> QED
      BY <1>2, <3>1, <3>2, <3>3
  <2> QED
    BY <2>1, <2>2
<1> QED
  BY <1>3, <1>4, <1>5, <1>6, DiskKinds

\* One entry for an inode, counted right, with what the disk has.
LEMMA OneInd ==
  ASSUME NInv, NEW p \in Procs, ProcStep(p)
  PROVE  OneEntry'
<1>1. \A s \in Slots : icache'[s].ref = Count(ip', s) + Count(tmp', s) + Count(fd', s)
  BY RefsInd DEF Refs, Count
<1> QED
  BY <1>1, UniqueInd, ThroughInd DEF OneEntry, Count

-----------------------------------------------------------------------------
(* Hands, calls and locks *)

LEMMA HandsInd ==
  ASSUME NInv, NEW p \in Procs, ProcStep(p)
  PROVE  Hands'
<1> DEFINE Own == /\ ip'[p] # NoSlot <=> pc'[p] \in Holding \/ cont'[p] = "linkbad"
                  /\ tmp'[p] # NoSlot <=> pc'[p] \in Iputs
                  /\ inum'[p] # NoInum <=> pc'[p] = "iget"
                  /\ cont'[p] = "linkbad" => pc'[p] \in Iputs
<1>0. /\ pc \in [Procs -> PCs] /\ inum \in [Procs -> Inums \cup {NoInum}]
      /\ cont \in [Procs -> {"end", "linkbad"}] /\ NoSlot \notin Slots /\ NoInum \notin Inums
      /\ ip \in Reffing /\ tmp \in Reffing /\ fd \in Reffing
      /\ ip[p] # NoSlot <=> pc[p] \in Holding \/ cont[p] = "linkbad"
      /\ tmp[p] # NoSlot <=> pc[p] \in Iputs
      /\ inum[p] # NoInum <=> pc[p] = "iget"
      /\ cont[p] = "linkbad" => pc[p] \in Iputs
  BY Ranges DEF NInv, TypeOK, Reffing, Hands
<1> USE DEF Goto, Put, Hand, hands, Unlockput, Reffing, Holding, Iputs
<1>1. Own
  <2>1. CASE IputLook(p)
    BY <1>0, <2>1 DEF IputLook
  <2>2. CASE IputFree(p) \/ IputRelease(p)
    BY <1>0, <2>2 DEF IputFree, IputRelease
  <2>3. CASE IputDrop(p)
    BY <1>0, <2>3 DEF IputDrop
  <2>4. CASE End(p) \/ LinkBad(p)
    BY <1>0, <2>4 DEF End, LinkBad
  <2>5. CASE Ilock(p) \/ UnlinkEntry(p) \/ LinkInc(p) \/ Mknod(p)
    BY <1>0, <2>5 DEF Ilock, UnlinkEntry, LinkInc, Mknod
  <2>6. CASE Opened(p) \/ NotOpened(p)
    BY <1>0, <2>6 DEF Opened, NotOpened
  <2>7. CASE LinkDec(p) \/ UnlinkDec(p)
    BY <1>0, <2>7 DEF LinkDec, UnlinkDec
  <2>8. CASE GetStep(p)
    <3>1. PICK i \in Inums, s \in Slots : Asks(p, i, s)
      BY <2>8, GetFacts
    <3>2. CASE LinkDir(p)
      <4>1. tmp' = [tmp EXCEPT ![p] = s] /\ ip' = ip /\ entry[New(p)] # NoInum
        BY <3>1, <3>2, <2>8 DEF Asks, GetStep, Namei, CreateLook, UnlinkLook, IallocGet, LinkDir
      <4> QED
        BY <1>0, <3>2, <4>1 DEF LinkDir
    <3>3. CASE ~LinkDir(p)
      <4>1. ip' = [ip EXCEPT ![p] = s] /\ tmp' = tmp
        BY <3>1, <3>3 DEF Asks
      <4>2. CASE Namei(p) /\ entry[Name(p)] # NoInum
        BY <1>0, <4>1, <4>2 DEF Namei
      <4>3. CASE CreateLook(p) /\ entry[Name(p)] # NoInum
        BY <1>0, <4>1, <4>3 DEF CreateLook
      <4>4. CASE UnlinkLook(p) /\ entry[Name(p)] # NoInum
        BY <1>0, <4>1, <4>4 DEF UnlinkLook
      <4>5. CASE IallocGet(p)
        BY <1>0, <4>1, <4>5 DEF IallocGet
      <4> QED
        BY <2>8, <3>3, <4>2, <4>3, <4>4, <4>5 DEF GetStep
    <3> QED
      BY <3>2, <3>3
  <2>9. CASE ~GetStep(p) /\ (Namei(p) \/ CreateLook(p) \/ UnlinkLook(p) \/ LinkDir(p))
    BY <1>0, <2>9 DEF GetStep, Namei, CreateLook, UnlinkLook, LinkDir
  <2>10. CASE Ialloc(p)
    <3>1. PICK i \in Inums : inum' = [inum EXCEPT ![p] = i]
      BY <2>10 DEF Ialloc, First
    <3> QED
      BY <1>0, <2>10, <3>1 DEF Ialloc
  <2>11. CASE \E c \in Calls : Begin(p, c)
    BY <1>0, <2>11, CallShapes DEF Begin
  <2> QED
    BY <2>1, <2>2, <2>3, <2>4, <2>5, <2>6, <2>7, <2>8, <2>9, <2>10, <2>11 DEF ProcStep, Step, GetStep
<1> HIDE DEF Own
<1>2. ASSUME NEW q \in Procs \ {p}
       PROVE  /\ ip'[q] # NoSlot <=> pc'[q] \in Holding \/ cont'[q] = "linkbad"
              /\ tmp'[q] # NoSlot <=> pc'[q] \in Iputs
              /\ inum'[q] # NoInum <=> pc'[q] = "iget"
              /\ cont'[q] = "linkbad" => pc'[q] \in Iputs
  BY Frame DEF NInv, Hands
<1> QED
  BY <1>1, <1>2 DEF Hands, Own

LEMMA InCallInd ==
  ASSUME NInv, NEW p \in Procs, ProcStep(p)
  PROVE  InCall'
<1> DEFINE Create == call[p] \in {"create"} \X Names
           Unlink == call[p] \in {"unlink"} \X Names
           Link   == call[p] \in {"link"} \X Names \X Names
           Open   == call[p] \in ({"open"} \X Names) \cup ({"link"} \X Names \X Names)
           Own    == /\ pc'[p] \in Making \cup {"create"} => Create'
                     /\ pc'[p] \in {"unlink", "unlock"} => Unlink'
                     /\ pc'[p] = "namei" => Open'
                     /\ pc'[p] \in Linking \/ cont'[p] = "linkbad" => Link'
<1>0. /\ pc \in [Procs -> PCs] /\ cont \in [Procs -> {"end", "linkbad"}] /\ call \in [Procs -> Calls \cup {NoCall}]
      /\ pc[p] \in Making \cup {"create"} => Create
      /\ pc[p] \in {"unlink", "unlock"} => Unlink
      /\ pc[p] = "namei" => Open
      /\ pc[p] \in Linking \/ cont[p] = "linkbad" => Link
      /\ cont[p] = "linkbad" => pc[p] \in Iputs
  BY DEF NInv, TypeOK, InCall, Hands
<1>1. Own
  <2> HIDE DEF Create, Unlink, Link, Open
  <2> USE DEF Goto, hands, Unlockput, Making, Linking, Iputs
  <2>1. CASE IputLook(p) \/ IputFree(p) \/ IputRelease(p) \/ Ilock(p) \/ Opened(p) \/ NotOpened(p)
             \/ LinkDec(p) \/ UnlinkDec(p)
             \/ Mknod(p) \/ UnlinkEntry(p)
    BY <1>0, <2>1 DEF IputLook, IputFree, IputRelease, Ilock, Opened, NotOpened, LinkDec, UnlinkDec, Mknod, UnlinkEntry,
                      Create, Unlink, Link, Open
  <2>2. CASE IputDrop(p)
    BY <1>0, <2>2 DEF IputDrop, Link
  <2>3. CASE End(p)
    BY <1>0, <2>3 DEF End
  <2>4. CASE Namei(p)
    BY <1>0, <2>4 DEF Namei, Open, Link, Op
  <2>5. CASE CreateLook(p) \/ Ialloc(p) \/ IallocGet(p)
    BY <1>0, <2>5 DEF CreateLook, Ialloc, IallocGet, Create
  <2>6. CASE LinkInc(p) \/ LinkDir(p) \/ LinkBad(p)
    BY <1>0, <2>6 DEF LinkInc, LinkDir, LinkBad, Link
  <2>7. CASE UnlinkLook(p)
    BY <1>0, <2>7 DEF UnlinkLook, Unlink
  <2>8. ASSUME NEW c \in Calls, Begin(p, c)
        PROVE  Own
    <3>1. call'[p] = c /\ cont' = cont /\ pc[p] = "idle"
      BY <1>0, <2>8 DEF Begin
    <3>2. pc'[p] = IF c[1] = "close" THEN "iput" ELSE IF c[1] \in {"open", "link"} THEN "namei" ELSE c[1]
      BY <1>0, <2>8 DEF Begin
    <3> QED
      BY <1>0, <3>1, <3>2, CallShapes DEF Create, Unlink, Link, Open
  <2> QED
    BY <2>1, <2>2, <2>3, <2>4, <2>5, <2>6, <2>7, <2>8 DEF ProcStep, Step
<1>2. ASSUME NEW q \in Procs \ {p}
      PROVE  /\ pc'[q] \in Making \cup {"create"} => call'[q] \in {"create"} \X Names
             /\ pc'[q] \in {"unlink", "unlock"} => call'[q] \in {"unlink"} \X Names
             /\ pc'[q] = "namei" => call'[q] \in ({"open"} \X Names) \cup ({"link"} \X Names \X Names)
             /\ pc'[q] \in Linking \/ cont'[q] = "linkbad" => call'[q] \in {"link"} \X Names \X Names
  BY Frame DEF NInv, InCall
<1> QED
  BY <1>1, <1>2 DEF InCall

LEMMA LockedInd ==
  ASSUME NInv, NEW p \in Procs, ProcStep(p)
  PROVE  Locked'
<1> DEFINE Mine(s) == \/ pc[p] \in {"ifree", "irel"} /\ tmp[p] = s
                      \/ pc[p] \in {"opened", "unlinked"} /\ ip[p] = s
           Own   == \A s \in Slots : (owner'[s] = p <=> Mine(s)')
           Yours == \A s \in Slots : \A q \in Procs \ {p} : (owner'[s] = q <=> owner[s] = q)
<1>0. /\ pc \in [Procs -> PCs] /\ owner \in [Slots -> Procs \cup {NoProc}] /\ NoProc \notin Procs
      /\ ip \in Reffing /\ tmp \in Reffing /\ NoSlot \notin Slots
      /\ \A s \in Slots : owner[s] = p <=> Mine(s)
      /\ ip[p] # NoSlot <=> pc[p] \in Holding \/ cont[p] = "linkbad"
      /\ tmp[p] # NoSlot <=> pc[p] \in Iputs
      /\ cont[p] \in {"end", "linkbad"}
  BY Ranges DEF NInv, TypeOK, Reffing, Locked, Hands
<1>1. Own /\ Yours
  <2> USE DEF Goto, Put, Hand, hands, memory, Unlockput, Reffing, CanLock
  <2>1. CASE IputLook(p)
    <3>1. tmp[p] \in Slots
      BY <1>0, <2>1 DEF IputLook, Iputs
    <3> QED
      BY <1>0, <2>1, <3>1 DEF IputLook
  <2>2. CASE IputFree(p)
    BY <1>0, <2>2 DEF IputFree
  <2>3. CASE IputRelease(p)
    <3>1. tmp[p] \in Slots
      BY <1>0, <2>3 DEF IputRelease, Iputs
    <3> QED
      BY <1>0, <2>3, <3>1 DEF IputRelease
  <2>4. CASE IputDrop(p) \/ End(p) \/ LinkBad(p) \/ LinkInc(p)
    BY <1>0, <2>4 DEF IputDrop, End, LinkBad, LinkInc
  <2>5. CASE Ilock(p) \/ Mknod(p) \/ UnlinkEntry(p)
    <3>1. ip[p] \in Slots
      BY <1>0, <2>5 DEF Ilock, Mknod, UnlinkEntry, Holding
    <3> QED
      BY <1>0, <2>5, <3>1 DEF Ilock, Mknod, UnlinkEntry
  <2>6. CASE Opened(p) \/ NotOpened(p) \/ UnlinkDec(p) \/ LinkDec(p)
    <3>1. ip[p] \in Slots
      BY <1>0, <2>6 DEF Opened, NotOpened, UnlinkDec, LinkDec, Holding
    <3> QED
      BY <1>0, <2>6, <3>1 DEF Opened, NotOpened, UnlinkDec, LinkDec
  <2>7. CASE Namei(p) \/ CreateLook(p) \/ UnlinkLook(p)
    BY <1>0, <2>7 DEF Namei, CreateLook, UnlinkLook
  <2>8. CASE Ialloc(p) \/ IallocGet(p) \/ LinkDir(p)
    BY <1>0, <2>8 DEF Ialloc, IallocGet, LinkDir
  <2>9. ASSUME NEW c \in Calls, Begin(p, c)
        PROVE  Own /\ Yours
    <3>1. owner' = owner /\ pc[p] = "idle" /\ pc'[p] \in {"iput", "namei", "create", "unlink"}
      BY <1>0, <2>9, CallShapes DEF Begin
    <3> QED
      BY <1>0, <3>1
  <2> QED
    BY <2>1, <2>2, <2>3, <2>4, <2>5, <2>6, <2>7, <2>8, <2>9 DEF ProcStep, Step
<1>2. ASSUME NEW q \in Procs \ {p}, NEW s \in Slots
      PROVE  owner'[s] = q <=> \/ pc'[q] \in {"ifree", "irel"} /\ tmp'[q] = s
                               \/ pc'[q] \in {"opened", "unlinked"} /\ ip'[q] = s
  BY <1>1, Frame DEF NInv, Locked
<1> QED
  BY <1>1, <1>2 DEF Locked

\* Another process's directories stay locked, and a name is changed by who has
\* its directory locked or finds it free.
LEMMA DirFrame ==
  ASSUME NInv, NEW p \in Procs, ProcStep(p)
  PROVE  /\ \A d \in Dirs : \A q \in Procs \ {p} : dlock'[d] = q <=> dlock[d] = q
         /\ \A n \in Names : entry'[n] = entry[n] \/ dlock[DirOf[n]] \in {NoProc, p}
<1>0. /\ dlock \in [Dirs -> Procs \cup {NoProc}] /\ entry \in [Names -> Inums \cup {NoInum}] /\ NoProc \notin Procs
      /\ \A n \in Names : DirOf[n] \in Dirs
      /\ pc[p] \in Making => dlock[DirOf[Name(p)]] = p
      /\ pc[p] = "unlock" => dlock[DirOf[Name(p)]] = p
      /\ pc[p] = "linkbad" => dlock[DirOf[New(p)]] = p
      /\ pc[p] \in Making \cup {"namei", "create", "unlink", "unlock"} => Name(p) \in Names
      /\ pc[p] \in Linking => New(p) \in Names
  BY Ranges, Arguments DEF NInv, TypeOK, DirLocked
<1> USE DEF disk, Making, Linking
<1>1. CASE IputLook(p) \/ IputFree(p) \/ IputRelease(p) \/ IputDrop(p) \/ End(p) \/ Namei(p)
           \/ Ilock(p) \/ Opened(p) \/ NotOpened(p)
  BY <1>0, <1>1 DEF IputLook, IputFree, IputRelease, IputDrop, End, Namei, Ilock, Opened, NotOpened
<1>2. CASE Ialloc(p) \/ IallocGet(p) \/ LinkInc(p) \/ LinkDec(p) \/ UnlinkDec(p)
  BY <1>0, <1>2 DEF Ialloc, IallocGet, LinkInc, LinkDec, UnlinkDec
<1>3. CASE CreateLook(p) \/ UnlinkLook(p)
  BY <1>0, <1>3 DEF CreateLook, UnlinkLook
<1>4. CASE Mknod(p) \/ UnlinkEntry(p)
  BY <1>0, <1>4 DEF Mknod, UnlinkEntry
<1>5. CASE LinkDir(p) \/ LinkBad(p)
  BY <1>0, <1>5 DEF LinkDir, LinkBad
<1>6. CASE \E c \in Calls : Begin(p, c)
  BY <1>0, <1>6 DEF Begin
<1> QED
  BY <1>1, <1>2, <1>3, <1>4, <1>5, <1>6 DEF ProcStep, Step

LEMMA DirInd ==
  ASSUME NInv, NEW p \in Procs, ProcStep(p)
  PROVE  DirLocked'
<1>0. /\ dlock \in [Dirs -> Procs \cup {NoProc}] /\ entry \in [Names -> Inums \cup {NoInum}] /\ NoProc \notin Procs
      /\ \A n \in Names : DirOf[n] \in Dirs
      /\ pc \in [Procs -> PCs] /\ cont \in [Procs -> {"end", "linkbad"}] /\ call \in [Procs -> Calls \cup {NoCall}]
      /\ ip \in Reffing
      /\ pc[p] \in Making => dlock[DirOf[Name(p)]] = p /\ entry[Name(p)] = NoInum
      /\ pc[p] = "unlock" => dlock[DirOf[Name(p)]] = p /\ entry[Name(p)] = icache[ip[p]].inum
      /\ pc[p] = "linkbad" \/ cont[p] = "linkbad" => dlock[DirOf[New(p)]] = p
      /\ pc[p] \in Making \cup {"namei", "create", "unlink", "unlock"} => Name(p) \in Names
      /\ pc[p] \in Linking \/ cont[p] = "linkbad" => New(p) \in Names
      /\ cont[p] = "linkbad" => pc[p] \in Iputs
  BY Ranges, Arguments DEF NInv, TypeOK, DirLocked, Reffing, Hands
<1> DEFINE Own == /\ pc'[p] \in Making => dlock'[DirOf[Name(p)']] = p /\ entry'[Name(p)'] = NoInum
                  /\ pc'[p] = "unlock" => dlock'[DirOf[Name(p)']] = p /\ entry'[Name(p)'] = icache'[ip'[p]].inum
                  /\ pc'[p] = "linkbad" \/ cont'[p] = "linkbad" => dlock'[DirOf[New(p)']] = p
<1>1. Own
  <2> USE DEF Goto, Put, Hand, hands, disk, memory, Unlockput, Reffing, Making, Linking, Iputs, Name, New
  <2>1. CASE IputLook(p) \/ IputFree(p) \/ IputRelease(p) \/ IputDrop(p)
    BY <1>0, <2>1 DEF IputLook, IputFree, IputRelease, IputDrop
  <2>2. CASE End(p) \/ Ilock(p) \/ Opened(p) \/ NotOpened(p) \/ LinkDec(p) \/ UnlinkDec(p) \/ LinkInc(p) \/ Namei(p)
    BY <1>0, <2>2 DEF End, Ilock, Opened, NotOpened, LinkDec, UnlinkDec, LinkInc, Namei
  <2>3. CASE CreateLook(p)
    BY <1>0, <2>3 DEF CreateLook
  <2>4. CASE Ialloc(p) \/ IallocGet(p)
    BY <1>0, <2>4 DEF Ialloc, IallocGet
  <2>5. CASE Mknod(p) \/ UnlinkEntry(p) \/ LinkBad(p)
    BY <1>0, <2>5 DEF Mknod, UnlinkEntry, LinkBad
  <2>6. CASE LinkDir(p)
    BY <1>0, <2>6 DEF LinkDir
  <2>7. CASE UnlinkLook(p)
    <3>1. CASE entry[Name(p)] = NoInum
      BY <1>0, <2>7, <3>1 DEF UnlinkLook
    <3>2. CASE entry[Name(p)] # NoInum
      <4>1. GetStep(p) /\ ~LinkDir(p) /\ ~IallocGet(p)
        BY <2>7, <3>2 DEF GetStep, UnlinkLook, LinkDir, IallocGet
      <4>2. PICK i \in Inums, s \in Slots : Asks(p, i, s)
        BY <4>1, GetFacts
      <4>3. i = entry[Name(p)] /\ ip' = [ip EXCEPT ![p] = s]
        BY <4>1, <4>2 DEF Asks
      <4>4. icache'[s].inum = i
        BY <4>2, IgetFacts DEF Asks, NInv
      <4> QED
        BY <1>0, <2>7, <3>2, <4>3, <4>4 DEF UnlinkLook
    <3> QED
      BY <3>1, <3>2
  <2>8. ASSUME NEW c \in Calls, Begin(p, c)
        PROVE  Own
    <3>1. pc'[p] \in {"iput", "namei", "create", "unlink"} /\ cont' = cont /\ pc[p] = "idle"
      BY <1>0, <2>8, CallShapes DEF Begin
    <3> QED
      BY <1>0, <3>1
  <2> QED
    BY <2>1, <2>2, <2>3, <2>4, <2>5, <2>6, <2>7, <2>8 DEF ProcStep, Step
<1>2. ASSUME NEW q \in Procs \ {p}
      PROVE  /\ pc'[q] \in Making => dlock'[DirOf[Name(q)']] = q /\ entry'[Name(q)'] = NoInum
             /\ pc'[q] = "unlock" => dlock'[DirOf[Name(q)']] = q /\ entry'[Name(q)'] = icache'[ip'[q]].inum
             /\ pc'[q] = "linkbad" \/ cont'[q] = "linkbad" => dlock'[DirOf[New(q)']] = q
  <2>1. pc'[q] = pc[q] /\ cont'[q] = cont[q] /\ Name(q)' = Name(q) /\ New(q)' = New(q) /\ ip'[q] = ip[q]
    BY Frame DEF NInv, Name, New
  <2>2. /\ pc[q] \in Making \cup {"unlock"} => Name(q) \in Names /\ DirOf[Name(q)] \in Dirs
        /\ pc[q] = "linkbad" \/ cont[q] = "linkbad" => New(q) \in Names /\ DirOf[New(q)] \in Dirs
    BY <1>0, Arguments DEF Linking
  <2>3. pc[q] \in Making \cup {"unlock"} => dlock[DirOf[Name(q)]] = q /\ dlock'[DirOf[Name(q)]] = q
    BY <1>0, <2>2, DirFrame DEF NInv, DirLocked
  <2>4. pc[q] = "linkbad" \/ cont[q] = "linkbad" => dlock'[DirOf[New(q)]] = q
    BY <1>0, <2>2, DirFrame DEF NInv, DirLocked
  <2>5. pc[q] \in Making \cup {"unlock"} => entry'[Name(q)] = entry[Name(q)]
    BY <1>0, <2>2, <2>3, DirFrame
  <2>6. pc[q] = "unlock" => icache'[ip[q]].inum = icache[ip[q]].inum
    BY Stable DEF NInv, Hands, Holding
  <2> QED
    BY <2>1, <2>3, <2>4, <2>5, <2>6 DEF NInv, DirLocked
<1> QED
  BY <1>1, <1>2 DEF DirLocked, Name, New

-----------------------------------------------------------------------------
(* Inodes that are read, allocated and freed *)

LEMMA FilledInd ==
  ASSUME NInv, NEW p \in Procs, ProcStep(p)
  PROVE  Filled'
<1>0. /\ TypeOK /\ OneEntry /\ Locked /\ Hands /\ \A s \in Slots : icache[s].ref > 0 => icache[s].inum \in Inums
      /\ \A s \in Slots : icache[s].ref \in Nat
  BY Held DEF NInv, Filled
<1>1. ASSUME NEW s \in Slots, icache'[s].ref > 0 PROVE icache'[s].inum \in Inums
  <2>1. CASE Leaves(p)
    BY <1>0, <1>1, <2>1 DEF Leaves
  <2>2. CASE Drops(p)
    <3>1. tmp[p] # NoSlot /\ IputDrop(p)
      BY <1>0, <2>2 DEF Drops, IputDrop, Hands, Iputs
    <3>2. CASE s = tmp[p]
      <4>1. icache[s].ref # 1 /\ icache[s].ref > 0
        BY <1>0, <1>1, <3>1, <3>2, DropFacts
      <4> QED
        BY <1>0, <3>1, <3>2, <4>1, DropFacts
    <3>3. CASE s # tmp[p]
      BY <1>0, <1>1, <3>1, <3>3, DropFacts
    <3> QED
      BY <3>2, <3>3
  <2>3. CASE Clears(p)
    BY <1>0, <1>1, <2>3, ClearFacts
  <2>4. CASE Reads(p)
    BY <1>0, <1>1, <2>4, LoadFacts
  <2>5. CASE Relinks(p)
    BY <1>0, <1>1, <2>5, RelinkFacts
  <2>6. CASE GetStep(p)
    <3>1. PICK i \in Inums, u \in Slots : Iget(i, u)
      BY <2>6, GetFacts DEF Asks
    <3> QED
      BY <1>0, <1>1, <3>1, IgetFacts
  <2> QED
    BY <2>1, <2>2, <2>3, <2>4, <2>5, <2>6, Kinds
<1>2. ASSUME NEW q \in Procs \ {p}, pc'[q] = "unlinked" PROVE icache'[ip'[q]].valid
  <2>1. PICK s \in Slots : ip[q] = s /\ ip'[q] = s /\ pc[q] = "unlinked" /\ icache[s].ref > 0 /\ icache[s].valid
    <3>1. ip'[q] = ip[q] /\ pc[q] = "unlinked"
      BY <1>0, <1>2, Frame
    <3>2. ip[q] # NoSlot
      BY <1>0, <3>1 DEF Hands, Holding
    <3> QED
      BY <1>0, <3>1, <3>2, Held DEF NInv, Filled
  <2>2. CASE Leaves(p)
    BY <2>1, <2>2 DEF Leaves
  <2>3. CASE Drops(p)
    <3>1. tmp[p] # NoSlot /\ IputDrop(p)
      BY <1>0, <2>3 DEF Drops, IputDrop, Hands, Iputs
    <3>2. CASE s = tmp[p]
      <4>1. icache[s].ref # 1
        BY <1>0, <2>1, <3>2, LastOne
      <4>2. icache'[s].valid = icache[s].valid
        BY <1>0, <3>1, <3>2, <4>1, DropFacts
      <4> QED
        BY <2>1, <4>2
    <3>3. CASE s # tmp[p]
      BY <1>0, <2>1, <3>1, <3>3, DropFacts
    <3> QED
      BY <3>2, <3>3
  <2>4. CASE Clears(p)
    <3>1. tmp[p] # s
      BY <1>0, <2>1, <2>4 DEF Locked, Clears, IputRelease
    <3> QED
      BY <2>1, <2>4, <3>1, ClearFacts
  <2>5. CASE Reads(p)
    BY <2>1, <2>5, LoadFacts
  <2>6. CASE Relinks(p)
    <3>1. icache'[ip[p]].valid /\ \A t \in Slots \ {ip[p]} : icache'[t] = icache[t]
      BY <2>6, RelinkFacts
    <3> QED
      BY <2>1, <3>1
  <2>7. CASE GetStep(p)
    <3>1. PICK i \in Inums, u \in Slots : Iget(i, u)
      BY <2>7, GetFacts DEF Asks
    <3>2. icache'[s].valid = icache[s].valid
      BY <1>0, <2>1, <3>1, IgetFacts
    <3> QED
      BY <2>1, <3>2
  <2> QED
    BY <2>2, <2>3, <2>4, <2>5, <2>6, <2>7, Kinds
<1>3. ASSUME pc'[p] = "unlinked" PROVE icache'[ip'[p]].valid
  <2>1. UnlinkEntry(p)
    <3> USE DEF Goto, Unlockput
    <3>0. pc \in [Procs -> PCs] /\ cont \in [Procs -> {"end", "linkbad"}]
      BY <1>0 DEF TypeOK
    <3>1. ~(IputLook(p) \/ IputFree(p) \/ IputRelease(p) \/ IputDrop(p) \/ End(p) \/ Namei(p)
            \/ Ilock(p) \/ Opened(p) \/ NotOpened(p))
      BY <1>3, <3>0 DEF IputLook, IputFree, IputRelease, IputDrop, End, Namei, Ilock, Opened, NotOpened
    <3>2. ~(CreateLook(p) \/ Ialloc(p) \/ IallocGet(p) \/ Mknod(p) \/ LinkInc(p) \/ LinkDir(p) \/ LinkBad(p) \/ LinkDec(p))
      BY <1>3, <3>0 DEF CreateLook, Ialloc, IallocGet, Mknod, LinkInc, LinkDir, LinkBad, LinkDec
    <3>3. ~(UnlinkLook(p) \/ UnlinkDec(p) \/ \E c \in Calls : Begin(p, c))
      BY <1>3, <3>0, CallShapes DEF UnlinkLook, UnlinkDec, Begin
    <3> QED
      BY <3>1, <3>2, <3>3 DEF ProcStep, Step
  <2>2. ip' = ip /\ Reads(p)
    BY <2>1 DEF UnlinkEntry, hands, Reads
  <2> QED
    BY <2>2, LoadFacts
<1> QED
  BY <1>1, <1>2, <1>3 DEF Filled

\* A name stands for an inode that is allocated.
LEMMA Named ==
  ASSUME NInv, NEW n \in Names, entry[n] # NoInum
  PROVE  entry[n] \in Inums /\ dinode[entry[n]].nlink > 0 /\ dinode[entry[n]].type = "file"
<1>1. entry \in [Names -> Inums \cup {NoInum}] /\ entry[n] \in Inums /\ dinode[entry[n]] \in Dinodes
  BY DEF NInv, TypeOK
<1>2. Count(entry, entry[n]) \in Nat /\ Count(entry, entry[n]) # 0
  BY <1>1, CountType, InodeAssumption
<1>3. Count(Extra, entry[n]) \in Nat
  BY CountType, InodeAssumption DEF Extra
<1>4. /\ dinode[entry[n]].nlink = Count(entry, entry[n]) + Count(Extra, entry[n])
      /\ dinode[entry[n]].type = "free" => dinode[entry[n]].nlink = 0
  BY <1>1 DEF NInv, Links
<1> QED
  BY <1>1, <1>2, <1>3, <1>4 DEF Dinodes

\* An inode is freed by iput() only.
LEMMA FileKept ==
  ASSUME NInv, NEW p \in Procs, ProcStep(p), NEW i \in Inums, dinode[i].type = "file",
         ~(IputFree(p) /\ i = icache[tmp[p]].inum)
  PROVE  dinode'[i].type = "file"
<1>0. dinode \in [Inums -> Dinodes]
  BY DEF NInv, TypeOK
<1>1. CASE IputFree(p)
  BY <1>0, <1>1 DEF IputFree
<1>2. CASE Ialloc(p)
  <2>1. PICK j \in Inums : dinode' = [dinode EXCEPT ![j] = [type |-> "file", nlink |-> 0]]
    BY <1>2 DEF Ialloc, First
  <2> QED
    BY <1>0, <2>1
<1>3. CASE Relinks(p)
  <2> DEFINE j == icache[ip[p]].inum
  <2>1. /\ dinode'[j] = [type |-> "file", nlink |-> icache'[ip[p]].nlink]
        /\ \A k \in Inums \ {j} : dinode'[k] = dinode[k]
    BY <1>3, RelinkFacts
  <2> QED
    BY <2>1
<1> QED
  BY <1>1, <1>2, <1>3, DiskKinds

\* Where what a process has in its hands after a step comes from.
LEMMA OwnHands ==
  ASSUME NInv, NEW p \in Procs, ProcStep(p)
  PROVE  /\ ip'[p] # NoSlot => ip'[p] = ip[p] \/ (GetStep(p) /\ ~LinkDir(p))
         /\ fd'[p] # NoSlot => fd'[p] = fd[p] \/ (fd'[p] = ip[p] /\ Opened(p))
         /\ tmp'[p] # NoSlot => \/ /\ tmp'[p] = tmp[p]
                                   /\ pc'[p] \in {"ifree", "irel", "idrop"} /\ pc[p] \in {"iput", "ifree", "irel"}
                                \/ tmp'[p] \in {ip[p], fd[p]} /\ pc'[p] = "iput"
                                \/ GetStep(p) /\ LinkDir(p) /\ pc'[p] = "iput"
         /\ pc'[p] = "ifree" => /\ pc[p] = "iput" /\ LastReference(tmp[p]) /\ disk' = disk /\ icache' = icache
                                /\ tmp' = tmp /\ ip' = ip /\ fd' = fd /\ inum' = inum
         /\ pc'[p] = "irel" => pc[p] = "ifree" /\ tmp' = tmp
<1>0. /\ pc \in [Procs -> PCs] /\ cont \in [Procs -> {"end", "linkbad"}]
      /\ ip \in Reffing /\ tmp \in Reffing /\ fd \in Reffing
      /\ tmp[p] # NoSlot <=> pc[p] \in Iputs
      /\ cont[p] = "linkbad" => pc[p] \in Iputs
  BY DEF NInv, TypeOK, Reffing, Hands
<1> USE DEF Goto, Put, Hand, hands, memory, Unlockput, Reffing, Iputs
<1>1. CASE IputLook(p)
  BY <1>0, <1>1 DEF IputLook
<1>2. CASE IputFree(p) \/ IputRelease(p)
  BY <1>0, <1>2 DEF IputFree, IputRelease
<1>3. CASE IputDrop(p)
  BY <1>0, <1>3 DEF IputDrop
<1>4. CASE End(p) \/ LinkBad(p) \/ Ilock(p) \/ UnlinkEntry(p) \/ LinkInc(p) \/ Mknod(p)
  BY <1>0, <1>4 DEF End, LinkBad, Ilock, UnlinkEntry, LinkInc, Mknod
<1>5. CASE Opened(p)
  BY <1>0, <1>5 DEF Opened
<1>6. CASE NotOpened(p) \/ LinkDec(p) \/ UnlinkDec(p)
  BY <1>0, <1>6 DEF NotOpened, LinkDec, UnlinkDec
<1>7. CASE Namei(p) \/ CreateLook(p) \/ UnlinkLook(p)
  BY <1>0, <1>7 DEF Namei, CreateLook, UnlinkLook, GetStep, LinkDir
<1>8. CASE Ialloc(p) \/ IallocGet(p)
  BY <1>0, <1>8 DEF Ialloc, IallocGet, GetStep, LinkDir
<1>9. CASE LinkDir(p)
  BY <1>0, <1>9 DEF LinkDir, GetStep
<1>10. CASE \E c \in Calls : Begin(p, c)
  <2>1. PICK c \in Calls : Begin(p, c)
    BY <1>10
  <2>2. /\ pc'[p] = IF c[1] = "close" THEN "iput" ELSE IF c[1] \in {"open", "link"} THEN "namei" ELSE c[1]
        /\ pc'[p] \in {"iput", "namei", "create", "unlink"} /\ ip' = ip
    BY <1>0, <2>1, CallShapes DEF Begin
  <2>3. /\ fd'[p] \in {fd[p], NoSlot}
        /\ (tmp'[p] = tmp[p] /\ pc[p] = "idle") \/ (tmp'[p] = fd[p] /\ pc'[p] = "iput")
    BY <1>0, <2>1, <2>2 DEF Begin
  <2> QED
    BY <1>0, <2>2, <2>3
<1> QED
  BY <1>1, <1>2, <1>3, <1>4, <1>5, <1>6, <1>7, <1>8, <1>9, <1>10 DEF ProcStep, Step

\* Who looks an inode up finds one that is allocated.
LEMMA GotFile ==
  ASSUME NInv, NEW p \in Procs, GetStep(p), NEW i \in Inums, NEW s \in Slots, Asks(p, i, s)
  PROVE  dinode' = dinode /\ dinode[i].type = "file" /\ icache'[s].inum = i
<1>1. icache'[s].inum = i
  BY IgetFacts DEF Asks, NInv
<1>2. dinode' = dinode
  BY DEF GetStep, Namei, CreateLook, UnlinkLook, IallocGet, LinkDir, disk
<1>3. CASE IallocGet(p)
  <2>1. i = inum[p] /\ pc[p] = "iget"
    BY <1>3 DEF Asks, IallocGet, LinkDir
  <2>2. dinode[inum[p]] = [type |-> "file", nlink |-> 0]
    BY <2>1 DEF NInv, Fresh
  <2> QED
    BY <1>1, <1>2, <2>1, <2>2
<1>4. CASE LinkDir(p)
  <2>1. i = entry[New(p)] /\ i # NoInum /\ New(p) \in Names
    BY <1>4, Arguments, Ranges DEF Asks, LinkDir, Linking
  <2> QED
    BY <1>1, <1>2, <2>1, Named
<1>5. CASE ~IallocGet(p) /\ ~LinkDir(p)
  <2>1. i = entry[Name(p)] /\ i # NoInum
    BY <1>5, Ranges DEF Asks
  <2>2. Name(p) \in Names
    BY <1>5, Arguments DEF GetStep, Namei, CreateLook, UnlinkLook
  <2> QED
    BY <1>1, <1>2, <2>1, <2>2, Named
<1> QED
  BY <1>3, <1>4, <1>5

\* The inode of an entry that somebody has, and will lock, stays allocated.
LEMMA HeldFile ==
  ASSUME NInv, NEW p \in Procs, ProcStep(p), NEW q \in Procs, NEW s \in Slots,
         s = ip[q] \/ s = fd[q] \/ (s = tmp[q] /\ pc[q] \in {"iput", "ifree"} /\ ~(q = p /\ IputFree(p)) /\ ~(q = p /\ Drops(p)))
  PROVE  dinode'[icache'[s].inum].type = "file"
<1>0. TypeOK /\ OneEntry /\ Hands /\ NoSlot \notin Slots
  BY Ranges DEF NInv
<1>1. s # NoSlot /\ icache[s].ref > 0 /\ icache[s].inum \in Inums
  BY <1>0, Held DEF NInv, Filled
<1>2. dinode[icache[s].inum].type = "file"
  BY <1>0, <1>1 DEF NInv, Allocated
<1>3. icache'[s].inum = icache[s].inum
  BY <1>1, Stable
<1>4. ASSUME IputFree(p) PROVE icache[s].inum # icache[tmp[p]].inum
  <2>1. pc[p] = "ifree" /\ tmp[p] \in Slots /\ icache[tmp[p]].ref > 0
    BY <1>0, <1>4, Held DEF IputFree, Hands, Iputs
  <2>2. s # tmp[p]
    BY <1>4, <2>1 DEF NInv, Sole
  <2> QED
    BY <1>0, <1>1, <2>1, <2>2 DEF OneEntry
<1> QED
  BY <1>1, <1>2, <1>3, <1>4, FileKept

LEMMA AllocatedInd ==
  ASSUME NInv, NEW p \in Procs, ProcStep(p)
  PROVE  Allocated'
<1>0. ip \in Reffing /\ tmp \in Reffing /\ fd \in Reffing /\ Hands /\ pc \in [Procs -> PCs]
  BY DEF NInv, TypeOK, Reffing
<1>1. GetStep(p) => \E i \in Inums, s \in Slots :
        Asks(p, i, s) /\ dinode'[icache'[s].inum].type = "file"
  BY GetFacts, GotFile
<1>2. ASSUME NEW q \in Procs, ip'[q] # NoSlot PROVE dinode'[icache'[ip'[q]].inum].type = "file"
  <2>1. CASE ip'[q] = ip[q]
    BY <1>0, <1>2, <2>1, HeldFile DEF Reffing
  <2>2. CASE ip'[q] # ip[q]
    <3>1. q = p /\ GetStep(p) /\ ~LinkDir(p)
      BY <1>2, <2>2, Frame, OwnHands DEF NInv
    <3>2. PICK i \in Inums, s \in Slots : Asks(p, i, s) /\ dinode'[icache'[s].inum].type = "file"
      BY <1>1, <3>1
    <3>3. ip' = [ip EXCEPT ![p] = s]
      BY <3>1, <3>2 DEF Asks
    <3> QED
      BY <1>0, <3>1, <3>2, <3>3 DEF Reffing
  <2> QED
    BY <2>1, <2>2
<1>3. ASSUME NEW q \in Procs, fd'[q] # NoSlot PROVE dinode'[icache'[fd'[q]].inum].type = "file"
  <2>1. fd'[q] = fd[q] \/ fd'[q] = ip[q]
    BY <1>3, Frame, OwnHands DEF NInv
  <2> QED
    BY <1>0, <1>3, <2>1, HeldFile DEF Reffing
<1>4. ASSUME NEW q \in Procs, pc'[q] \in {"iput", "ifree"} PROVE dinode'[icache'[tmp'[q]].inum].type = "file"
  <2>0. tmp'[q] # NoSlot
    BY <1>4, HandsInd DEF Hands, Iputs
  <2>1. CASE q # p
    <3>1. tmp'[q] = tmp[q] /\ pc[q] \in {"iput", "ifree"}
      BY <1>4, <2>1, Frame DEF NInv
    <3> QED
      BY <1>0, <2>0, <2>1, <3>1, HeldFile DEF Reffing
  <2>2. CASE q = p /\ tmp'[p] \in {ip[p], fd[p]}
    BY <1>0, <2>0, <2>2, HeldFile DEF Reffing
  <2>3. CASE q = p /\ pc'[p] = "ifree"
    <3>1. pc[p] = "iput" /\ tmp' = tmp
      BY <2>3, OwnHands
    <3>2. ~IputFree(p) /\ ~Drops(p)
      BY <3>1 DEF IputFree, Drops, IputDrop
    <3> QED
      BY <1>0, <2>0, <2>3, <3>1, <3>2, HeldFile DEF Reffing
  <2>4. CASE q = p /\ GetStep(p) /\ LinkDir(p)
    <3>1. PICK i \in Inums, s \in Slots : Asks(p, i, s) /\ dinode'[icache'[s].inum].type = "file"
      BY <1>1, <2>4
    <3>2. tmp' = [tmp EXCEPT ![p] = s]
      BY <2>4, <3>1 DEF Asks
    <3> QED
      BY <1>0, <2>4, <3>1, <3>2 DEF Reffing
  <2> QED
    BY <1>4, <2>0, <2>1, <2>2, <2>3, <2>4, OwnHands
<1> QED
  BY <1>2, <1>3, <1>4 DEF Allocated

\* What a step does to an inode on disk, and which one it does it to.
LEMMA DiskFrame ==
  ASSUME NInv, NEW p \in Procs, ProcStep(p), NEW i \in Inums
  PROVE  \/ dinode'[i] = dinode[i]
         \/ IputFree(p) /\ i = icache[tmp[p]].inum /\ dinode'[i] = Free
         \/ Ialloc(p) /\ dinode[i].type = "free" /\ dinode'[i] = [type |-> "file", nlink |-> 0]
         \/ Relinks(p) /\ i = icache[ip[p]].inum
<1>0. dinode \in [Inums -> Dinodes]
  BY DEF NInv, TypeOK
<1>1. CASE IputFree(p)
  BY <1>0, <1>1 DEF IputFree
<1>2. CASE Ialloc(p)
  <2>1. PICK j \in Inums : dinode[j].type = "free" /\ dinode' = [dinode EXCEPT ![j] = [type |-> "file", nlink |-> 0]]
    BY <1>2 DEF Ialloc, First
  <2> QED
    BY <1>0, <1>2, <2>1
<1>3. CASE Relinks(p)
  BY <1>3, RelinkFacts
<1> QED
  BY <1>1, <1>2, <1>3, DiskKinds

\* The inode that create() has allocated.
LEMMA OwnInum ==
  ASSUME NInv, NEW p \in Procs, ProcStep(p)
  PROVE  /\ \/ inum'[p] \in {inum[p], NoInum}
            \/ /\ Ialloc(p) /\ inum'[p] \in Inums /\ dinode[inum'[p]].type = "free"
               /\ dinode'[inum'[p]] = [type |-> "file", nlink |-> 0]
         /\ pc'[p] = "iget" => Ialloc(p)
         /\ pc'[p] = "mknod" => IallocGet(p)
<1>0. /\ pc \in [Procs -> PCs] /\ cont \in [Procs -> {"end", "linkbad"}]
      /\ inum \in [Procs -> Inums \cup {NoInum}] /\ dinode \in [Inums -> Dinodes]
  BY DEF NInv, TypeOK
<1> USE DEF Goto, Unlockput, hands
<1>1. CASE IputLook(p) \/ IputFree(p) \/ IputRelease(p) \/ IputDrop(p) \/ End(p) \/ Namei(p)
           \/ Ilock(p) \/ Opened(p) \/ NotOpened(p)
  BY <1>0, <1>1 DEF IputLook, IputFree, IputRelease, IputDrop, End, Namei, Ilock, Opened, NotOpened
<1>2. CASE CreateLook(p) \/ IallocGet(p) \/ Mknod(p) \/ LinkInc(p) \/ LinkDir(p) \/ LinkBad(p) \/ LinkDec(p)
  BY <1>0, <1>2 DEF CreateLook, IallocGet, Mknod, LinkInc, LinkDir, LinkBad, LinkDec
<1>3. CASE UnlinkLook(p) \/ UnlinkEntry(p) \/ UnlinkDec(p)
  BY <1>0, <1>3 DEF UnlinkLook, UnlinkEntry, UnlinkDec
<1>4. CASE Ialloc(p)
  <2>1. PICK j \in Inums : /\ dinode[j].type = "free" /\ inum' = [inum EXCEPT ![p] = j]
                           /\ dinode' = [dinode EXCEPT ![j] = [type |-> "file", nlink |-> 0]]
    BY <1>4 DEF Ialloc, First
  <2> QED
    BY <1>0, <1>4, <2>1 DEF Ialloc
<1>5. ASSUME NEW c \in Calls, Begin(p, c)
      PROVE  inum'[p] = inum[p] /\ pc'[p] \notin {"iget", "mknod"}
  <2>1. pc'[p] \in {"iput", "namei", "create", "unlink"} /\ inum' = inum
    BY <1>0, <1>5, CallShapes DEF Begin
  <2> QED
    BY <2>1
<1> QED
  BY <1>1, <1>2, <1>3, <1>4, <1>5 DEF ProcStep, Step

\* Nobody looks up an inode without links, but who has just allocated it.
LEMMA GotOther ==
  ASSUME NInv, NEW p \in Procs, GetStep(p), NEW i \in Inums, NEW s \in Slots, Asks(p, i, s),
         NEW j \in Inums, dinode[j].nlink = 0, inum[p] # j
  PROVE  icache'[s].inum # j
<1>1. icache'[s].inum = i
  BY GotFile
<1>2. CASE IallocGet(p)
  <2>1. i = inum[p]
    BY <1>2 DEF Asks, IallocGet, LinkDir
  <2> QED
    BY <1>1, <2>1
<1>3. CASE LinkDir(p)
  <2>1. i = entry[New(p)] /\ i # NoInum /\ New(p) \in Names
    BY <1>3, Arguments, Ranges DEF Asks, LinkDir, Linking
  <2>2. dinode[i].nlink > 0
    BY <2>1, Named
  <2> QED
    BY <1>1, <2>2
<1>4. CASE ~IallocGet(p) /\ ~LinkDir(p)
  <2>1. i = entry[Name(p)] /\ i # NoInum
    BY <1>4, Ranges DEF Asks
  <2>2. Name(p) \in Names
    BY <1>4, Arguments DEF GetStep, Namei, CreateLook, UnlinkLook
  <2>3. dinode[i].nlink > 0
    BY <2>1, <2>2, Named
  <2> QED
    BY <1>1, <2>3
<1> QED
  BY <1>2, <1>3, <1>4

\* What nobody has in his hands is picked up by nobody but who looks it up.
LEMMA Untouched ==
  ASSUME NInv, NEW p \in Procs, ProcStep(p), NEW u \in Slots, icache[u].ref > 0,
         dinode[icache[u].inum].nlink = 0, inum[p] # icache[u].inum, ip[p] # u, fd[p] # u, ~(Drops(p) /\ tmp[p] = u)
  PROVE  /\ ip'[p] # u /\ fd'[p] # u
         /\ tmp'[p] = u => tmp[p] = u /\ pc[p] \in {"iput", "ifree", "irel"}
         /\ icache'[u].inum = icache[u].inum
<1>0. ip \in Reffing /\ tmp \in Reffing /\ fd \in Reffing /\ NoSlot \notin Slots /\ icache[u].inum \in Inums
  BY Ranges DEF NInv, TypeOK, Reffing, Filled
<1>1. icache'[u].inum = icache[u].inum
  BY Kept
<1>2. CASE GetStep(p)
  <2>1. PICK i \in Inums, s \in Slots : Asks(p, i, s)
    BY <1>2, GetFacts
  <2>2. s # u
    BY <1>0, <1>1, <1>2, <2>1, GotOther
  <2>3. fd' = fd
    BY <1>2 DEF GetStep, Namei, CreateLook, UnlinkLook, IallocGet, LinkDir
  <2>4. IF LinkDir(p) THEN tmp'[p] = s /\ ip'[p] = ip[p] ELSE ip'[p] = s /\ tmp' = tmp
    BY <1>0, <2>1 DEF Asks, Reffing
  <2>5. ~LinkDir(p) => tmp[p] = NoSlot
    BY <1>2 DEF NInv, Hands, Iputs, GetStep, Namei, CreateLook, UnlinkLook, IallocGet
  <2> QED
    BY <1>0, <1>1, <2>2, <2>3, <2>4, <2>5
<1>3. CASE ~GetStep(p)
  BY <1>0, <1>1, <1>3, OwnHands
<1> QED
  BY <1>2, <1>3

\* An inode that is being freed stays without names and other references.
LEMMA SoleInd ==
  ASSUME NInv, NEW p \in Procs, ProcStep(p)
  PROVE  Sole'
<1>0. /\ TypeOK /\ OneEntry /\ Hands /\ NoInum \notin Inums
      /\ inum \in [Procs -> Inums \cup {NoInum}] /\ tmp \in Reffing
  BY Ranges DEF NInv, TypeOK, Reffing
<1>1. ASSUME pc'[p] = "ifree"
      PROVE  /\ dinode'[icache'[tmp'[p]].inum].nlink = 0
             /\ \A r \in Procs : /\ ip'[r] # tmp'[p] /\ fd'[r] # tmp'[p]
                                 /\ r # p => tmp'[r] # tmp'[p]
                                 /\ inum'[r] # icache'[tmp'[p]].inum
  <2>1. /\ pc[p] = "iput" /\ LastReference(tmp[p])
        /\ dinode' = dinode /\ icache' = icache /\ tmp' = tmp /\ ip' = ip /\ fd' = fd /\ inum' = inum
    BY <1>1, OwnHands DEF disk
  <2>2. tmp[p] \in Slots /\ icache[tmp[p]].ref = 1 /\ icache[tmp[p]].valid /\ icache[tmp[p]].nlink = 0
    BY <1>0, <2>1 DEF LastReference, Hands, Iputs, Reffing
  <2>3. \A r \in Procs : ip[r] # tmp[p] /\ fd[r] # tmp[p] /\ (r # p => tmp[r] # tmp[p])
    BY <1>0, <2>2, LastOne
  <2>4. ~(\E r \in Procs : tmp[r] = tmp[p] /\ pc[r] = "irel")
    BY <2>1, <2>3
  <2>5. dinode[icache[tmp[p]].inum].nlink = 0 /\ icache[tmp[p]].inum \in Inums
    <3>1. icache[tmp[p]].ref > 0
      BY <2>2
    <3>2. dinode[icache[tmp[p]].inum] = [type |-> "file", nlink |-> icache[tmp[p]].nlink]
      BY <1>0, <2>2, <2>4, <3>1 DEF OneEntry
    <3> QED
      BY <2>2, <3>1, <3>2 DEF NInv, Filled
  <2>6. ASSUME NEW r \in Procs PROVE inum[r] # icache[tmp[p]].inum
    <3>1. CASE pc[r] = "iget"
      BY <1>0, <2>1, <2>2, <3>1, Ranges DEF NInv, Fresh, Leaving
    <3>2. CASE pc[r] # "iget"
      BY <1>0, <2>5, <3>2 DEF Hands
    <3> QED
      BY <3>1, <3>2
  <2> QED
    BY <2>1, <2>3, <2>5, <2>6
<1>2. ASSUME NEW q \in Procs \ {p}, pc'[q] = "ifree"
      PROVE  /\ dinode'[icache'[tmp'[q]].inum].nlink = 0
             /\ \A r \in Procs : /\ ip'[r] # tmp'[q] /\ fd'[r] # tmp'[q]
                                 /\ r # q => tmp'[r] # tmp'[q]
                                 /\ inum'[r] # icache'[tmp'[q]].inum
  <2>1. pc[q] = "ifree" /\ tmp'[q] = tmp[q]
    BY <1>0, <1>2, Frame
  <2>2. PICK u \in Slots : u = tmp[q] /\ icache[u].ref > 0
    BY <1>0, <2>1, Held DEF Hands, Iputs
  <2>3. /\ dinode[icache[u].inum].nlink = 0 /\ dinode[icache[u].inum].type = "file"
        /\ \A r \in Procs : /\ ip[r] # u /\ fd[r] # u /\ inum[r] # icache[u].inum
                            /\ r # q => tmp[r] # u
    BY <2>1, <2>2 DEF NInv, Sole, Allocated
  <2>4. icache[u].inum \in Inums
    BY <2>2 DEF NInv, Filled
  <2>5. icache'[u].inum = icache[u].inum /\ ip'[p] # u /\ fd'[p] # u /\ tmp'[p] # u
    BY <2>2, <2>3, Untouched
  <2>6. inum'[p] # icache[u].inum
    BY <1>0, <2>3, <2>4, OwnInum
  <2>7. dinode'[icache[u].inum] = dinode[icache[u].inum]
    <3>1. ASSUME IputFree(p) PROVE icache[u].inum # icache[tmp[p]].inum
      <4>1. tmp[p] \in Slots /\ icache[tmp[p]].ref > 0 /\ tmp[p] # u
        BY <1>0, <2>3, <3>1, Held DEF IputFree, Hands, Iputs
      <4> QED
        BY <1>0, <2>2, <4>1 DEF OneEntry
    <3>2. ASSUME Relinks(p) PROVE icache[u].inum # icache[ip[p]].inum
      <4>1. ip[p] \in Slots /\ icache[ip[p]].ref > 0 /\ ip[p] # u
        BY <2>3, <3>2, RelinkFacts
      <4> QED
        BY <1>0, <2>2, <4>1 DEF OneEntry
    <3> QED
      BY <2>3, <2>4, <3>1, <3>2, DiskFrame
  <2>8. \A r \in Procs : /\ ip'[r] # u /\ fd'[r] # u /\ inum'[r] # icache[u].inum
                         /\ r # q => tmp'[r] # u
    BY <1>0, <2>3, <2>5, <2>6, Frame
  <2> QED
    BY <2>1, <2>2, <2>3, <2>5, <2>7, <2>8
<1> QED
  BY <1>1, <1>2 DEF Sole

\* An inode that was just allocated stays its maker's alone.
LEMMA FreshInd ==
  ASSUME NInv, NEW p \in Procs, ProcStep(p)
  PROVE  Fresh'
<1> DEFINE Got(q)  == /\ dinode[inum[q]] = [type |-> "file", nlink |-> 0]
                      /\ \A r \in Procs :
                           /\ r # q => inum[r] # inum[q]
                           /\ ip[r] # NoSlot => icache[ip[r]].inum # inum[q]
                           /\ fd[r] # NoSlot => icache[fd[r]].inum # inum[q]
                           /\ tmp[r] # NoSlot /\ icache[tmp[r]].inum = inum[q] => Leaving(r)
           Made(q) == /\ dinode[icache[ip[q]].inum] = [type |-> "file", nlink |-> 0]
                      /\ \A r \in Procs :
                           /\ r # q => ip[r] # ip[q]
                           /\ fd[r] # ip[q]
                           /\ tmp[r] = ip[q] => Leaving(r)
<1>0. /\ TypeOK /\ OneEntry /\ Hands /\ NoInum \notin Inums /\ NoSlot \notin Slots
      /\ inum \in [Procs -> Inums \cup {NoInum}] /\ tmp \in Reffing /\ ip \in Reffing /\ fd \in Reffing
      /\ pc \in [Procs -> PCs]
      /\ \A q \in Procs : (pc[q] = "iget" => Got(q)) /\ (pc[q] = "mknod" => Made(q))
  BY Ranges DEF NInv, TypeOK, Reffing, Fresh
<1>1. ASSUME pc'[p] = "iget" PROVE Got(p)'
  <2>1. PICK i \in Inums : /\ dinode[i].type = "free" /\ inum' = [inum EXCEPT ![p] = i]
                           /\ dinode' = [dinode EXCEPT ![i] = [type |-> "file", nlink |-> 0]]
                           /\ icache' = icache /\ ip' = ip /\ fd' = fd /\ tmp' = tmp /\ pc[p] = "ialloc"
                           /\ pc' = [pc EXCEPT ![p] = "iget"]
    BY <1>1, OwnInum DEF Ialloc, First, memory, Goto
  <2>2. inum'[p] = i /\ dinode'[i] = [type |-> "file", nlink |-> 0]
    BY <1>0, <2>1 DEF TypeOK
  <2>3. ASSUME NEW r \in Procs
        PROVE  /\ r # p => inum[r] # i
               /\ ip[r] # NoSlot => icache[ip[r]].inum # i
               /\ fd[r] # NoSlot => icache[fd[r]].inum # i
               /\ tmp[r] # NoSlot /\ icache[tmp[r]].inum = i => Leaving(r) /\ r # p
    <3>1. inum[r] # i
      BY <1>0, <2>1 DEF Hands
    <3>2. /\ ip[r] # NoSlot => icache[ip[r]].inum # i
          /\ fd[r] # NoSlot => icache[fd[r]].inum # i
          /\ pc[r] \in {"iput", "ifree"} => icache[tmp[r]].inum # i
      BY <2>1 DEF NInv, Allocated
    <3>3. tmp[r] # NoSlot => pc[r] \in Iputs
      BY <1>0 DEF Hands
    <3> QED
      BY <2>1, <3>1, <3>2, <3>3 DEF Leaving, Iputs
  <2>4. \A r \in Procs \ {p} : inum'[r] = inum[r] /\ pc'[r] = pc[r]
    BY <1>0, Frame
  <2> QED
    BY <2>1, <2>2, <2>3, <2>4 DEF Leaving
<1>2. ASSUME NEW q \in Procs \ {p}, pc'[q] = "iget" PROVE Got(q)'
  <2>1. pc[q] = "iget" /\ Got(q)
    BY <1>0, <1>2, Frame
  <2>2. PICK i \in Inums : i = inum[q]
    BY <1>0, <2>1 DEF Hands
  <2>3. /\ dinode[i] = [type |-> "file", nlink |-> 0]
        /\ \A r \in Procs :
             /\ r # q => inum[r] # i
             /\ ip[r] # NoSlot => icache[ip[r]].inum # i
             /\ fd[r] # NoSlot => icache[fd[r]].inum # i
             /\ tmp[r] # NoSlot /\ icache[tmp[r]].inum = i => Leaving(r)
    BY <2>1, <2>2
  <2>4. inum'[q] = i /\ inum'[p] # i
    BY <1>0, <2>2, <2>3, OwnInum, Frame
  <2>5. dinode'[i] = dinode[i]
    <3>1. IputFree(p) => icache[tmp[p]].inum # i
      BY <1>0, <2>3 DEF IputFree, Hands, Iputs, Leaving
    <3>2. Relinks(p) => ip[p] \in Slots
      BY RelinkFacts
    <3>3. Relinks(p) => icache[ip[p]].inum # i
      BY <1>0, <2>3, <3>2
    <3> QED
      BY <2>3, <3>1, <3>3, DiskFrame
  <2>6. ASSUME NEW r \in Procs \ {p}
        PROVE  /\ r # q => inum'[r] # i
               /\ ip'[r] # NoSlot => icache'[ip'[r]].inum # i
               /\ fd'[r] # NoSlot => icache'[fd'[r]].inum # i
               /\ tmp'[r] # NoSlot /\ icache'[tmp'[r]].inum = i => Leaving(r)'
    BY <1>0, <2>3, Frame, Stable DEF Leaving
  <2>7. GetStep(p) => \E s \in Slots :
          icache'[s].inum # i /\ (IF LinkDir(p) THEN tmp'[p] = s /\ ip'[p] = ip[p] ELSE ip'[p] = s)
    <3>1. ASSUME GetStep(p)
          PROVE  \E s \in Slots : icache'[s].inum # i /\ (IF LinkDir(p) THEN tmp'[p] = s /\ ip'[p] = ip[p] ELSE ip'[p] = s)
      <4>1. PICK j \in Inums, s \in Slots : Asks(p, j, s)
        BY <3>1, GetFacts
      <4>2. icache'[s].inum # i
        BY <2>3, <3>1, <4>1, GotOther
      <4> QED
        BY <1>0, <4>1, <4>2 DEF Asks, Reffing
    <3> QED
      BY <3>1
  <2>8. ip'[p] # NoSlot => icache'[ip'[p]].inum # i
    <3>1. CASE ip'[p] = ip[p]
      BY <2>3, <3>1, Stable
    <3>2. CASE ip'[p] # ip[p]
      BY <2>7, <3>2, OwnHands
    <3> QED
      BY <3>1, <3>2
  <2>9. fd'[p] # NoSlot => icache'[fd'[p]].inum # i
    BY <2>3, OwnHands, Stable
  <2>10. ASSUME tmp'[p] # NoSlot, icache'[tmp'[p]].inum = i PROVE Leaving(p)'
    <3>1. CASE tmp'[p] = tmp[p] /\ pc'[p] \in {"ifree", "irel", "idrop"} /\ pc[p] \in {"iput", "ifree", "irel"}
      <4>1. icache[tmp[p]].inum = i
        BY <2>10, <3>1, Stable DEF Drops, IputDrop
      <4>2. pc[p] = "irel"
        BY <2>3, <2>10, <3>1, <4>1 DEF Leaving
      <4> QED
        BY <3>1, <4>2, OwnHands DEF Leaving
    <3>2. CASE tmp'[p] \in {ip[p], fd[p]}
      BY <2>3, <2>10, <3>2, Stable
    <3>3. CASE GetStep(p) /\ LinkDir(p)
      BY <2>7, <2>10, <3>3
    <3> QED
      BY <2>10, <3>1, <3>2, <3>3, OwnHands
  <2> QED
    BY <2>3, <2>4, <2>5, <2>6, <2>8, <2>9, <2>10
<1>3. ASSUME pc'[p] = "mknod" PROVE Made(p)'
  <2>1. IallocGet(p) /\ GetStep(p) /\ ~LinkDir(p) /\ pc[p] = "iget" /\ fd' = fd
    BY <1>3, OwnInum DEF GetStep, IallocGet, LinkDir
  <2>2. PICK i \in Inums, s \in Slots : Asks(p, i, s)
    BY <2>1, GetFacts
  <2>3. i = inum[p] /\ ip' = [ip EXCEPT ![p] = s] /\ tmp' = tmp /\ dinode' = dinode /\ icache'[s].inum = i
    BY <2>1, <2>2, GotFile DEF Asks
  <2>4. Got(p) /\ tmp[p] = NoSlot
    BY <1>0, <2>1 DEF Hands, Iputs
  <2>5. ~Drops(p)
    BY <2>1 DEF Drops, IputDrop
  <2>6. ASSUME NEW r \in Procs
        PROVE  (r # p => ip'[r] # s) /\ fd'[r] # s /\ (tmp'[r] = s => Leaving(r)')
    <3>1. ip[r] # s
      BY <1>0, <2>3, <2>4, Stable
    <3>2. fd[r] # s
      BY <1>0, <2>3, <2>4, Stable
    <3>3. tmp[r] = s => Leaving(r) /\ r # p
      BY <1>0, <2>3, <2>4, <2>5, Stable
    <3> QED
      BY <1>0, <2>1, <2>3, <3>1, <3>2, <3>3, Frame DEF Leaving
  <2> QED
    BY <1>0, <2>3, <2>4, <2>6 DEF Reffing
<1>4. ASSUME NEW q \in Procs \ {p}, pc'[q] = "mknod" PROVE Made(q)'
  <2>1. pc[q] = "mknod" /\ Made(q) /\ ip'[q] = ip[q]
    BY <1>0, <1>4, Frame
  <2>2. PICK u \in Slots : u = ip[q] /\ icache[u].ref > 0
    BY <1>0, <2>1, Held DEF Hands, Holding
  <2>3. /\ dinode[icache[u].inum] = [type |-> "file", nlink |-> 0] /\ icache[u].inum \in Inums
        /\ \A r \in Procs : (r # q => ip[r] # u) /\ fd[r] # u /\ (tmp[r] = u => Leaving(r))
    BY <2>1, <2>2 DEF NInv, Filled
  <2>4. inum[p] # icache[u].inum
    BY <1>0, <2>2, <2>3 DEF Hands
  <2>5. ASSUME ~(Drops(p) /\ tmp[p] = u)
        PROVE  /\ ip'[p] # u /\ fd'[p] # u /\ icache'[u].inum = icache[u].inum
               /\ tmp'[p] = u => tmp[p] = u /\ pc[p] = "irel"
    BY <2>2, <2>3, <2>4, <2>5, Untouched DEF Leaving
  <2>6. ASSUME Drops(p), tmp[p] = u
        PROVE  ip'[p] # u /\ fd'[p] # u /\ icache'[u].inum = icache[u].inum /\ tmp'[p] # u
    <3>1. ip' = ip /\ fd' = fd /\ tmp'[p] = NoSlot
      BY <1>0, <2>6 DEF Drops, IputDrop, Put, Reffing
    <3> QED
      BY <1>0, <2>2, <2>3, <3>1, Stable
  <2>7. /\ ip'[p] # u /\ fd'[p] # u /\ icache'[u].inum = icache[u].inum
        /\ tmp'[p] = u => tmp[p] = u /\ pc[p] = "irel"
    BY <2>5, <2>6
  <2>8. tmp'[p] = u => Leaving(p)'
    <3>1. pc[p] = "irel" => pc'[p] = "idrop"
      BY <1>0, Releasing DEF Clears, IputRelease, Goto
    <3> QED
      BY <2>7, <3>1 DEF Leaving
  <2>9. dinode'[icache[u].inum] = dinode[icache[u].inum]
    <3>1. ASSUME IputFree(p) PROVE icache[u].inum # icache[tmp[p]].inum
      <4>1. tmp[p] \in Slots /\ icache[tmp[p]].ref > 0 /\ tmp[p] # u
        BY <1>0, <2>3, <3>1, Held DEF IputFree, Hands, Iputs, Leaving
      <4> QED
        BY <1>0, <2>2, <4>1 DEF OneEntry
    <3>2. ASSUME Relinks(p) PROVE icache[u].inum # icache[ip[p]].inum
      <4>1. ip[p] \in Slots /\ icache[ip[p]].ref > 0 /\ ip[p] # u
        BY <2>3, <3>2, RelinkFacts
      <4> QED
        BY <1>0, <2>2, <4>1 DEF OneEntry
    <3> QED
      BY <2>3, <3>1, <3>2, DiskFrame
  <2>10. ASSUME NEW r \in Procs \ {p}
         PROVE  (r # q => ip'[r] # u) /\ fd'[r] # u /\ (tmp'[r] = u => Leaving(r)')
    BY <1>0, <2>3, Frame DEF Leaving
  <2> QED
    BY <2>1, <2>2, <2>3, <2>7, <2>8, <2>9, <2>10
<1> QED
  BY <1>1, <1>2, <1>3, <1>4 DEF Fresh

-----------------------------------------------------------------------------
(* Links and names *)

\* A name, or a call in between, gets an inode or loses it.
LEMMA NameSet ==
  ASSUME NEW f, IsFiniteSet(DOMAIN f), NEW e \in DOMAIN f, NEW j \in Inums, NEW i \in Inums
  PROVE  /\ Count(f, i) \in Nat
         /\ f[e] = NoInum => Count([f EXCEPT ![e] = j], i) = Count(f, i) + (IF i = j THEN 1 ELSE 0)
         /\ f[e] = j => Count([f EXCEPT ![e] = NoInum], i) = Count(f, i) - (IF i = j THEN 1 ELSE 0)
<1>1. NoInum # i
  BY Ranges
<1>2. Count(f, i) \in Nat
  BY CountType
<1>3. /\ j = i /\ f[e] # i => Count([f EXCEPT ![e] = j], i) = Count(f, i) + 1
      /\ (j = i <=> f[e] = i) => Count([f EXCEPT ![e] = j], i) = Count(f, i)
  BY CountSet
<1>4. /\ NoInum # i /\ f[e] = i => Count([f EXCEPT ![e] = NoInum], i) = Count(f, i) - 1
      /\ (NoInum = i <=> f[e] = i) => Count([f EXCEPT ![e] = NoInum], i) = Count(f, i)
  BY CountSet
<1> QED
  BY <1>1, <1>2, <1>3, <1>4

\* What the invariant says of the counts.
LEMMA LinkCounts ==
  ASSUME NInv
  PROVE  /\ DOMAIN entry = Names /\ IsFiniteSet(DOMAIN entry)
         /\ DOMAIN Extra = Procs /\ IsFiniteSet(DOMAIN Extra)
         /\ \A q \in Procs : Extra[q] = IF Between(q) THEN icache[ip[q]].inum ELSE NoInum
         /\ \A i \in Inums : /\ Count(entry, i) \in Nat /\ Count(Extra, i) \in Nat
                             /\ dinode[i].nlink = Count(entry, i) + Count(Extra, i)
                             /\ dinode[i].type = "free" => dinode[i].nlink = 0
<1>1. DOMAIN entry = Names /\ IsFiniteSet(DOMAIN entry)
  BY InodeAssumption DEF NInv, TypeOK
<1>2. /\ DOMAIN Extra = Procs /\ IsFiniteSet(DOMAIN Extra)
      /\ \A q \in Procs : Extra[q] = IF Between(q) THEN icache[ip[q]].inum ELSE NoInum
  BY InodeAssumption DEF Extra
<1> QED
  BY <1>1, <1>2, CountType DEF NInv, Links

\* A name changes.
LEMMA EntryMoves ==
  ASSUME NInv, NEW m \in Names, NEW j \in Inums, NEW i \in Inums
  PROVE  /\ entry[m] = NoInum => Count([entry EXCEPT ![m] = j], i) = Count(entry, i) + (IF i = j THEN 1 ELSE 0)
         /\ entry[m] = j => Count([entry EXCEPT ![m] = NoInum], i) = Count(entry, i) - (IF i = j THEN 1 ELSE 0)
<1>1. IsFiniteSet(DOMAIN entry) /\ m \in DOMAIN entry
  BY LinkCounts
<1> QED
  BY <1>1, NameSet

\* A call begins to be in between, or is no longer.
LEMMA ExtraMoves ==
  ASSUME NInv, NEW p \in Procs, NEW j \in Inums, NEW i \in Inums
  PROVE  /\ Extra[p] = NoInum => Count([Extra EXCEPT ![p] = j], i) = Count(Extra, i) + (IF i = j THEN 1 ELSE 0)
         /\ Extra[p] = j => Count([Extra EXCEPT ![p] = NoInum], i) = Count(Extra, i) - (IF i = j THEN 1 ELSE 0)
<1>1. IsFiniteSet(DOMAIN Extra) /\ p \in DOMAIN Extra
  BY LinkCounts
<1> QED
  BY <1>1, NameSet

\* A step changes only what its own process has in between.
LEMMA ExtraStep ==
  ASSUME NInv, NEW p \in Procs, ProcStep(p)
  PROVE  Extra' = [Extra EXCEPT ![p] = IF Between(p)' THEN icache'[ip'[p]].inum ELSE NoInum]
<1>1. Extra' = [q \in Procs |-> IF Between(q)' THEN icache'[ip'[q]].inum ELSE NoInum]
  BY DEF Extra
<1>2. ASSUME NEW q \in Procs \ {p}
      PROVE  /\ Between(q)' <=> Between(q)
             /\ Between(q) => icache'[ip'[q]].inum = icache[ip[q]].inum
  <2>1. pc'[q] = pc[q] /\ cont'[q] = cont[q] /\ ip'[q] = ip[q]
    BY Frame DEF NInv
  <2>2. Between(q) => ip[q] # NoSlot
    BY DEF NInv, Hands, Between, Holding
  <2> QED
    BY <2>1, <2>2, Stable DEF Between
<1> QED
  BY <1>1, <1>2 DEF Extra

\* The steps that neither change a name nor begin or end a between.
LEMMA ExtraKept ==
  ASSUME NInv, NEW p \in Procs, ProcStep(p), ~Relinks(p), ~UnlinkEntry(p), ~(LinkDir(p) /\ entry[New(p)] = NoInum)
  PROVE  Extra' = Extra /\ entry' = entry
<1>0. /\ pc \in [Procs -> PCs] /\ cont \in [Procs -> {"end", "linkbad"}] /\ Hands
      /\ ip \in Reffing
  BY DEF NInv, TypeOK, Reffing
<1> DEFINE Same == (Between(p)' <=> Between(p)) /\ (Between(p) => ip'[p] = ip[p]) /\ entry' = entry
<1>1. Same
  <2> USE DEF Goto, Unlockput, hands, disk, Between, Reffing
  <2>1. CASE IputLook(p) \/ IputFree(p) \/ IputRelease(p)
    BY <1>0, <2>1 DEF IputLook, IputFree, IputRelease
  <2>2. CASE IputDrop(p)
    BY <1>0, <2>2 DEF IputDrop
  <2>3. CASE End(p) \/ Namei(p) \/ Ilock(p) \/ Opened(p) \/ NotOpened(p)
    BY <1>0, <2>3 DEF End, Namei, Ilock, Opened, NotOpened, Hands, Iputs
  <2>4. CASE CreateLook(p) \/ Ialloc(p) \/ IallocGet(p) \/ UnlinkLook(p)
    BY <1>0, <2>4 DEF CreateLook, Ialloc, IallocGet, UnlinkLook, Hands, Iputs
  <2>5. CASE LinkDir(p) \/ LinkBad(p)
    BY <1>0, <2>5 DEF LinkDir, LinkBad
  <2>6. ASSUME NEW c \in Calls, Begin(p, c)
        PROVE  Same
    <3>1. pc'[p] \in {"iput", "namei", "create", "unlink"} /\ cont' = cont /\ pc[p] = "idle" /\ ip' = ip /\ entry' = entry
      BY <1>0, <2>6, CallShapes DEF Begin
    <3> QED
      BY <1>0, <3>1
  <2> QED
    BY <2>1, <2>2, <2>3, <2>4, <2>5, <2>6 DEF ProcStep, Step, Relinks
<1>2. Between(p) => icache'[ip[p]].inum = icache[ip[p]].inum
  BY <1>0, Stable DEF Hands, Between, Holding
<1>3. Extra[p] = (IF Between(p)' THEN icache'[ip'[p]].inum ELSE NoInum) /\ DOMAIN Extra = Procs
  BY <1>1, <1>2 DEF Extra
<1>4. [Extra EXCEPT ![p] = Extra[p]] = Extra
  BY DEF Extra
<1> QED
  BY <1>1, <1>3, <1>4, ExtraStep

\* An inode has as many links as names and calls in between.
LEMMA LinksInd ==
  ASSUME NInv, NEW p \in Procs, ProcStep(p)
  PROVE  Links'
<1> DEFINE Right(i) == /\ dinode'[i].nlink = Count(entry', i) + Count(Extra', i)
                       /\ dinode'[i].type = "free" => dinode'[i].nlink = 0
           Delta(i, j) == IF i = j THEN 1 ELSE 0
<1> SUFFICES \A i \in Inums : Right(i)
  BY DEF Links, Count
<1>0. /\ pc \in [Procs -> PCs] /\ cont \in [Procs -> {"end", "linkbad"}] /\ ip \in Reffing
      /\ Hands /\ DirLocked /\ NoInum \notin Inums
  BY Ranges DEF NInv, TypeOK, Reffing
<1>1. CASE Relinks(p)
  <2>1. PICK j \in Inums : j = icache[ip[p]].inum
    BY <1>1, RelinkFacts
  <2> DEFINE n == icache'[ip[p]].nlink
  <2>2. /\ dinode'[j] = [type |-> "file", nlink |-> n]
        /\ \A k \in Inums \ {j} : dinode'[k] = dinode[k]
        /\ Mknod(p) => n = 1
        /\ LinkInc(p) => n = dinode[j].nlink + 1
        /\ LinkDec(p) \/ UnlinkDec(p) => n = dinode[j].nlink - 1
        /\ icache'[ip[p]].inum = j
    BY <1>1, <2>1, RelinkFacts
  <2> HIDE DEF n
  <2>3. CASE Mknod(p)
    <3>1. entry' = [entry EXCEPT ![Name(p)] = j] /\ Name(p) \in Names /\ entry[Name(p)] = NoInum /\ dinode[j].nlink = 0
      BY <1>0, <2>1, <2>3, Arguments DEF Mknod, DirLocked, Making, NInv, Fresh
    <3>2. ~Between(p)' /\ ~Between(p)
      BY <1>0, <2>3 DEF Mknod, Between, Goto, hands, Hands, Iputs
    <3>3. Extra' = Extra
      BY <3>2, ExtraStep, LinkCounts DEF Extra
    <3>4. \A i \in Inums : Count(entry', i) = Count(entry, i) + Delta(i, j)
      BY <3>1, EntryMoves
    <3>5. ASSUME NEW i \in Inums PROVE Right(i)
      <4>1. /\ Count(entry, i) \in Nat /\ Count(Extra, i) \in Nat /\ dinode[i].nlink = Count(entry, i) + Count(Extra, i)
            /\ dinode[i].type = "free" => dinode[i].nlink = 0
        BY LinkCounts
      <4>2. Count(entry', i) = Count(entry, i) + Delta(i, j) /\ Count(Extra', i) = Count(Extra, i)
        BY <3>3, <3>4
      <4>3. CASE i = j
        BY <2>2, <2>3, <3>1, <4>1, <4>2, <4>3
      <4>4. CASE i # j
        <5>1. dinode'[i] = dinode[i]
          BY <2>2, <4>4
        <5>2. Count(entry', i) = Count(entry, i) /\ Count(Extra', i) = Count(Extra, i)
          BY <4>1, <4>2, <4>4
        <5> QED
          BY <4>1, <5>1, <5>2
      <4> QED
        BY <4>3, <4>4
    <3> QED
      BY <3>5
  <2>4. CASE LinkInc(p)
    <3>1. entry' = entry /\ Between(p)' /\ ~Between(p) /\ ip' = ip
      BY <1>0, <2>4 DEF LinkInc, Between, Goto, hands, Hands, Iputs
    <3>2. Extra' = [Extra EXCEPT ![p] = j] /\ Extra[p] = NoInum
      BY <2>2, <3>1, ExtraStep, LinkCounts
    <3>3. \A i \in Inums : Count(Extra', i) = Count(Extra, i) + Delta(i, j)
      BY <3>2, ExtraMoves
    <3>4. ASSUME NEW i \in Inums PROVE Right(i)
      <4>1. /\ Count(entry, i) \in Nat /\ Count(Extra, i) \in Nat /\ dinode[i].nlink = Count(entry, i) + Count(Extra, i)
            /\ dinode[i].type = "free" => dinode[i].nlink = 0
        BY LinkCounts
      <4> QED
        BY <2>2, <2>4, <3>1, <3>3, <4>1
    <3> QED
      BY <3>4
  <2>5. CASE LinkDec(p) \/ UnlinkDec(p)
    <3>1. entry' = entry /\ ~Between(p)' /\ Between(p)
      BY <1>0, <2>5 DEF LinkDec, UnlinkDec, Unlockput, Between, Goto, Hands, Iputs
    <3>2. Extra' = [Extra EXCEPT ![p] = NoInum] /\ Extra[p] = j
      BY <2>1, <3>1, ExtraStep, LinkCounts
    <3>3. \A i \in Inums : Count(Extra', i) = Count(Extra, i) - Delta(i, j)
      BY <3>2, ExtraMoves
    <3>4. ASSUME NEW i \in Inums PROVE Right(i)
      <4>1. /\ Count(entry, i) \in Nat /\ Count(Extra, i) \in Nat /\ dinode[i].nlink = Count(entry, i) + Count(Extra, i)
            /\ dinode[i].type = "free" => dinode[i].nlink = 0
        BY LinkCounts
      <4> QED
        BY <2>2, <2>5, <3>1, <3>3, <4>1
    <3> QED
      BY <3>4
  <2> QED
    BY <1>1, <2>3, <2>4, <2>5 DEF Relinks
<1>2. CASE UnlinkEntry(p)
  <2>1. PICK j \in Inums : j = icache[ip[p]].inum /\ icache'[ip[p]].inum = j
    BY <1>2, LoadFacts DEF Reads
  <2>2. entry' = [entry EXCEPT ![Name(p)] = NoInum] /\ Name(p) \in Names /\ entry[Name(p)] = j /\ dinode' = dinode
    BY <1>0, <1>2, <2>1, Arguments DEF UnlinkEntry, DirLocked
  <2>3. Between(p)' /\ ~Between(p) /\ ip' = ip
    BY <1>0, <1>2 DEF UnlinkEntry, Between, Goto, hands, Hands, Iputs
  <2>4. Extra' = [Extra EXCEPT ![p] = j] /\ Extra[p] = NoInum
    BY <2>1, <2>3, ExtraStep, LinkCounts
  <2>5. \A i \in Inums : Count(Extra', i) = Count(Extra, i) + Delta(i, j)
    BY <2>4, ExtraMoves
  <2>6. \A i \in Inums : Count(entry', i) = Count(entry, i) - Delta(i, j)
    BY <2>2, EntryMoves
  <2>7. ASSUME NEW i \in Inums PROVE Right(i)
    <3>1. /\ Count(entry, i) \in Nat /\ Count(Extra, i) \in Nat /\ dinode[i].nlink = Count(entry, i) + Count(Extra, i)
          /\ dinode[i].type = "free" => dinode[i].nlink = 0
      BY LinkCounts
    <3>2. Count(Extra', i) = Count(Extra, i) + Delta(i, j) /\ Count(entry', i) = Count(entry, i) - Delta(i, j)
      BY <2>5, <2>6
    <3>3. Count(entry', i) + Count(Extra', i) = Count(entry, i) + Count(Extra, i)
      BY <3>1, <3>2
    <3> QED
      BY <2>2, <3>1, <3>3
  <2> QED
    BY <2>7
<1>3. CASE LinkDir(p) /\ entry[New(p)] = NoInum
  <2>1. ip[p] # NoSlot /\ Between(p)
    BY <1>0, <1>3 DEF LinkDir, Hands, Holding, Between
  <2>2. PICK j \in Inums : j = icache[ip[p]].inum
    BY <2>1, Surplus
  <2>3. entry' = [entry EXCEPT ![New(p)] = j] /\ New(p) \in Names /\ dinode' = dinode
    BY <1>3, <2>2, Arguments DEF LinkDir, Linking
  <2>4. ~Between(p)'
    BY <1>0, <1>3 DEF LinkDir, Between, Goto, Hands, Iputs
  <2>5. Extra' = [Extra EXCEPT ![p] = NoInum] /\ Extra[p] = j
    BY <2>1, <2>2, <2>4, ExtraStep, LinkCounts
  <2>6. \A i \in Inums : Count(Extra', i) = Count(Extra, i) - Delta(i, j)
    BY <2>5, ExtraMoves
  <2>7. \A i \in Inums : Count(entry', i) = Count(entry, i) + Delta(i, j)
    BY <1>3, <2>3, EntryMoves
  <2>8. ASSUME NEW i \in Inums PROVE Right(i)
    <3>1. /\ Count(entry, i) \in Nat /\ Count(Extra, i) \in Nat /\ dinode[i].nlink = Count(entry, i) + Count(Extra, i)
          /\ dinode[i].type = "free" => dinode[i].nlink = 0
      BY LinkCounts
    <3>2. Count(Extra', i) = Count(Extra, i) - Delta(i, j) /\ Count(entry', i) = Count(entry, i) + Delta(i, j)
      BY <2>6, <2>7
    <3>3. Count(entry', i) + Count(Extra', i) = Count(entry, i) + Count(Extra, i)
      BY <3>1, <3>2
    <3> QED
      BY <2>3, <3>1, <3>3
  <2> QED
    BY <2>8
<1>4. CASE ~Relinks(p) /\ ~UnlinkEntry(p) /\ ~(LinkDir(p) /\ entry[New(p)] = NoInum)
  <2>1. Extra' = Extra /\ entry' = entry
    BY <1>4, ExtraKept
  <2>2. ASSUME NEW i \in Inums PROVE Right(i)
    <3>1. CASE dinode'[i] = dinode[i]
      BY <2>1, <3>1, LinkCounts
    <3>2. CASE IputFree(p) /\ i = icache[tmp[p]].inum /\ dinode'[i] = Free
      <4>1. dinode[i].nlink = 0
        BY <3>2 DEF IputFree, NInv, Sole
      <4> QED
        BY <2>1, <3>2, <4>1, LinkCounts DEF Free
    <3>3. CASE dinode[i].type = "free" /\ dinode'[i] = [type |-> "file", nlink |-> 0]
      BY <2>1, <3>3, LinkCounts
    <3> QED
      BY <1>4, <3>1, <3>2, <3>3, DiskFrame
  <2> QED
    BY <2>2
<1> QED
  BY <1>1, <1>2, <1>3, <1>4

\* When the last call of a transaction ends, no call is in between.
LEMMA NoneBetween ==
  ASSUME NInv, NEW p \in Procs, pc[p] = "end", ops = {p}
  PROVE  \A i \in Inums : Count(Extra, i) = 0
<1>1. \A q \in Procs : pc[q] \in {"idle", "end"} /\ cont[q] # "linkbad"
  BY DEF NInv, TypeOK, Hands, Iputs
<1>2. \A q \in Procs : Extra[q] = NoInum
  BY <1>1, LinkCounts DEF Between
<1> QED
  BY <1>2, LinkCounts, CountType, Ranges

\* So what is committed has as many links as names.
LEMMA DurableInd ==
  ASSUME NInv, NEW p \in Procs, ProcStep(p)
  PROVE  LinksDurable'
<1>1. durable' = durable \/ (End(p) /\ ops = {p} /\ durable' = [dinode |-> dinode, entry |-> entry])
  <2> USE DEF disk
  <2>1. CASE IputLook(p) \/ IputFree(p) \/ IputRelease(p) \/ IputDrop(p) \/ End(p) \/ Namei(p) \/ Ilock(p)
    BY <2>1 DEF IputLook, IputFree, IputRelease, IputDrop, End, Namei, Ilock
  <2>2. CASE Opened(p) \/ NotOpened(p) \/ CreateLook(p) \/ Ialloc(p) \/ IallocGet(p) \/ Mknod(p)
    BY <2>2 DEF Opened, NotOpened, CreateLook, Ialloc, IallocGet, Mknod
  <2>3. CASE LinkInc(p) \/ LinkDir(p) \/ LinkBad(p) \/ LinkDec(p) \/ UnlinkLook(p) \/ UnlinkEntry(p) \/ UnlinkDec(p)
    BY <2>3 DEF LinkInc, LinkDir, LinkBad, LinkDec, UnlinkLook, UnlinkEntry, UnlinkDec
  <2>4. CASE \E c \in Calls : Begin(p, c)
    BY <2>4 DEF Begin
  <2> QED
    BY <2>1, <2>2, <2>3, <2>4 DEF ProcStep, Step
<1>2. CASE durable' = durable
  BY <1>2 DEF NInv, LinksDurable, Count
<1>3. CASE End(p) /\ ops = {p} /\ durable' = [dinode |-> dinode, entry |-> entry]
  <2>1. \A i \in Inums : Count(Extra, i) = 0
    BY <1>3, NoneBetween DEF End
  <2>2. \A i \in Inums : dinode[i].nlink = Count(entry, i) /\ (dinode[i].type = "free" => Count(entry, i) = 0)
    BY <2>1, LinkCounts
  <2>3. durable'.dinode = dinode /\ durable'.entry = entry
    BY <1>3
  <2> QED
    BY <2>2, <2>3 DEF LinksDurable, Count
<1> QED
  BY <1>1, <1>2, <1>3

-----------------------------------------------------------------------------
(* Types *)

LEMMA TypeInd ==
  ASSUME NInv, NEW p \in Procs, ProcStep(p)
  PROVE  TypeOK'
<1> DEFINE Disk    == [dinode : [Inums -> Dinodes], entry : [Names -> Inums \cup {NoInum}]]
           Kernel  == /\ entry' \in [Names -> Inums \cup {NoInum}] /\ durable' \in Disk
                      /\ dlock' \in [Dirs -> Procs \cup {NoProc}] /\ owner' \in [Slots -> Procs \cup {NoProc}]
                      /\ ops' \in SUBSET Procs /\ batch' \in 0 .. MaxOps /\ crashes' = crashes
           Process == /\ pc' \in [Procs -> PCs] /\ call' \in [Procs -> Calls \cup {NoCall}]
                      /\ inum' \in [Procs -> Inums \cup {NoInum}] /\ cont' \in [Procs -> {"end", "linkbad"}]
                      /\ ip' \in Reffing /\ tmp' \in Reffing /\ fd' \in Reffing
           Busy    == (pc'[p] = "idle" <=> p \notin ops') /\ (call'[p] = NoCall <=> pc'[p] = "idle")
                      /\ \A q \in Procs \ {p} : q \in ops' <=> q \in ops
<1>0. /\ TypeOK /\ Hands /\ dinode \in [Inums -> Dinodes] /\ entry \in [Names -> Inums \cup {NoInum}] /\ durable \in Disk
      /\ dlock \in [Dirs -> Procs \cup {NoProc}] /\ owner \in [Slots -> Procs \cup {NoProc}]
      /\ ops \in SUBSET Procs /\ batch \in 0 .. MaxOps
      /\ pc \in [Procs -> PCs] /\ call \in [Procs -> Calls \cup {NoCall}]
      /\ inum \in [Procs -> Inums \cup {NoInum}] /\ cont \in [Procs -> {"end", "linkbad"}]
      /\ ip \in Reffing /\ tmp \in Reffing /\ fd \in Reffing
      /\ \A q \in Procs : (pc[q] = "idle" <=> q \notin ops) /\ (call[q] = NoCall <=> pc[q] = "idle")
      /\ MaxOps \in Nat
  BY InodeAssumption DEF NInv, TypeOK, Reffing
<1>1. dinode' \in [Inums -> Dinodes]
  <2>1. Free \in Dinodes /\ [type |-> "file", nlink |-> 0] \in Dinodes
    BY DEF Free, Dinodes
  <2>2. CASE IputFree(p)
    BY <1>0, <2>1, <2>2 DEF IputFree
  <2>3. CASE Ialloc(p)
    <3>1. PICK j \in Inums : dinode' = [dinode EXCEPT ![j] = [type |-> "file", nlink |-> 0]]
      BY <2>3 DEF Ialloc, First
    <3> QED
      BY <1>0, <2>1, <3>1
  <2>4. CASE Relinks(p)
    BY <2>4, RelinkFacts
  <2> QED
    BY <1>0, <2>2, <2>3, <2>4, DiskKinds
<1>2. Kernel
  <2> USE DEF disk, trans, memory, Unlockput
  <2>1. CASE IputLook(p) \/ IputFree(p) \/ IputRelease(p) \/ IputDrop(p) \/ Namei(p) \/ Ilock(p)
             \/ Opened(p) \/ NotOpened(p)
    BY <1>0, <2>1 DEF IputLook, IputFree, IputRelease, IputDrop, Namei, Ilock, Opened, NotOpened
  <2>2. CASE CreateLook(p) \/ Ialloc(p) \/ IallocGet(p) \/ LinkInc(p) \/ LinkBad(p) \/ LinkDec(p)
             \/ UnlinkLook(p) \/ UnlinkDec(p)
    BY <1>0, <2>2 DEF CreateLook, Ialloc, IallocGet, LinkInc, LinkBad, LinkDec, UnlinkLook, UnlinkDec
  <2>3. CASE Mknod(p)
    <3>1. icache[ip[p]].inum \in Inums
      BY <2>3, RelinkFacts DEF Relinks
    <3> QED
      BY <1>0, <2>3, <3>1 DEF Mknod
  <2>4. CASE LinkDir(p)
    <3>1. icache[ip[p]].inum \in Inums
      BY <2>4, Surplus DEF LinkDir, Between
    <3> QED
      BY <1>0, <2>4, <3>1 DEF LinkDir
  <2>5. CASE UnlinkEntry(p)
    BY <1>0, <2>5 DEF UnlinkEntry
  <2>6. CASE End(p)
    BY <1>0, <2>6 DEF End
  <2>7. CASE \E c \in Calls : Begin(p, c)
    BY <1>0, <2>7 DEF Begin
  <2> QED
    BY <2>1, <2>2, <2>3, <2>4, <2>5, <2>6, <2>7 DEF ProcStep, Step
<1>3. Process
  <2> USE DEF Goto, Put, Hand, hands, Unlockput, Reffing, PCs
  <2>1. CASE IputLook(p) \/ IputFree(p) \/ IputRelease(p) \/ IputDrop(p) \/ End(p)
    BY <1>0, <2>1 DEF IputLook, IputFree, IputRelease, IputDrop, End
  <2>2. CASE Ilock(p) \/ Opened(p) \/ NotOpened(p) \/ Mknod(p) \/ LinkInc(p) \/ LinkBad(p)
             \/ LinkDec(p) \/ UnlinkEntry(p) \/ UnlinkDec(p)
    BY <1>0, <2>2 DEF Ilock, Opened, NotOpened, Mknod, LinkInc, LinkBad, LinkDec, UnlinkEntry, UnlinkDec
  <2>3. CASE Namei(p) \/ CreateLook(p) \/ UnlinkLook(p)
    BY <1>0, <2>3 DEF Namei, CreateLook, UnlinkLook
  <2>4. CASE IallocGet(p) \/ LinkDir(p)
    BY <1>0, <2>4 DEF IallocGet, LinkDir
  <2>5. CASE Ialloc(p)
    <3>1. PICK j \in Inums : inum' = [inum EXCEPT ![p] = j]
      BY <2>5 DEF Ialloc, First
    <3> QED
      BY <1>0, <2>5, <3>1 DEF Ialloc
  <2>6. ASSUME NEW c \in Calls, Begin(p, c)
        PROVE  Process
    <3>1. (IF c[1] = "close" THEN "iput" ELSE IF c[1] \in {"open", "link"} THEN "namei" ELSE c[1]) \in PCs
      BY CallShapes
    <3>2. pc' \in [Procs -> PCs] /\ call' \in [Procs -> Calls \cup {NoCall}] /\ inum' = inum /\ cont' = cont /\ ip' = ip
      BY <1>0, <2>6, <3>1 DEF Begin
    <3>3. tmp' \in Reffing /\ fd' \in Reffing
      BY <1>0, <2>6 DEF Begin
    <3> QED
      BY <1>0, <3>2, <3>3
  <2> QED
    BY <2>1, <2>2, <2>3, <2>4, <2>5, <2>6 DEF ProcStep, Step
<1>4. Busy
  <2> USE DEF Goto, hands, trans, Unlockput
  <2>1. CASE IputLook(p) \/ IputFree(p) \/ IputRelease(p) \/ IputDrop(p) \/ Namei(p) \/ Ilock(p)
             \/ Opened(p) \/ NotOpened(p)
    BY <1>0, <2>1 DEF IputLook, IputFree, IputRelease, IputDrop, Namei, Ilock, Opened, NotOpened
  <2>2. CASE CreateLook(p) \/ Ialloc(p) \/ IallocGet(p) \/ Mknod(p)
    BY <1>0, <2>2 DEF CreateLook, Ialloc, IallocGet, Mknod
  <2>3. CASE LinkInc(p) \/ LinkDir(p) \/ LinkBad(p) \/ LinkDec(p)
    BY <1>0, <2>3 DEF LinkInc, LinkDir, LinkBad, LinkDec
  <2>4. CASE UnlinkLook(p) \/ UnlinkEntry(p) \/ UnlinkDec(p)
    BY <1>0, <2>4 DEF UnlinkLook, UnlinkEntry, UnlinkDec
  <2>5. CASE End(p)
    BY <1>0, <2>5 DEF End
  <2>6. ASSUME NEW c \in Calls, Begin(p, c)
        PROVE  Busy
    <3>1. pc'[p] \in {"iput", "namei", "create", "unlink"} /\ call'[p] = c /\ c # NoCall /\ ops' = ops \cup {p}
      BY <1>0, <2>6, CallShapes DEF Begin
    <3> QED
      BY <3>1
  <2> QED
    BY <2>1, <2>2, <2>3, <2>4, <2>5, <2>6 DEF ProcStep, Step
<1>5. icache' \in [Slots -> Entries]
  BY Kept
<1>6. \A s \in Slots : owner'[s] # NoProc => s \in {ip'[owner'[s]], tmp'[owner'[s]]}
  BY <1>2, LockedInd DEF Locked
<1>7. \A q \in Procs : (pc'[q] = "idle" <=> q \notin ops') /\ (call'[q] = NoCall <=> pc'[q] = "idle")
  BY <1>0, <1>4, Frame
<1>8. crashes' \in 0 .. MaxCrashes
  BY <1>0, <1>2 DEF TypeOK
<1> HIDE DEF Busy
<1> QED
  BY <1>1, <1>2, <1>3, <1>5, <1>6, <1>7, <1>8 DEF TypeOK, Entries, Reffing

-----------------------------------------------------------------------------
(* Start and crash *)

\* Nothing in memory, nobody in a call, and a disk whose links are names.
Blank ==
  /\ ops = {} /\ dlock = [d \in Dirs |-> NoProc]
  /\ icache = [s \in Slots |-> Unused] /\ owner = Unlocked
  /\ pc = Everyone("idle") /\ call = Everyone(NoCall) /\ inum = Everyone(NoInum)
  /\ ip = Everyone(NoSlot) /\ tmp = Everyone(NoSlot) /\ cont = Everyone("end")
  /\ fd = Everyone(NoSlot)
  /\ durable = [dinode |-> dinode, entry |-> entry]

LEMMA BlankGood == TypeOK /\ Blank /\ LinksDurable => NInv
<1> SUFFICES ASSUME TypeOK, Blank, LinksDurable PROVE NInv
  OBVIOUS
<1>0. /\ NoInum \notin Inums /\ NoSlot \notin Slots /\ NoProc \notin Procs
      /\ ip \in Reffing /\ tmp \in Reffing /\ fd \in Reffing
      /\ \A q \in Procs : /\ pc[q] = "idle" /\ inum[q] = NoInum /\ cont[q] = "end"
                          /\ ip[q] = NoSlot /\ tmp[q] = NoSlot /\ fd[q] = NoSlot
      /\ \A s \in Slots : icache[s] = Unused /\ owner[s] = NoProc
  BY Ranges DEF TypeOK, Reffing, Blank, Everyone, Unlocked
<1>1. OneEntry
  <2>1. \A s \in Slots : Count(ip, s) = 0 /\ Count(tmp, s) = 0 /\ Count(fd, s) = 0
    BY <1>0, HandCount
  <2>2. \A s \in Slots : icache[s].ref = 0
    BY <1>0 DEF Unused
  <2> QED
    BY <2>1, <2>2 DEF OneEntry
<1>2. Hands /\ InCall
  BY <1>0 DEF Hands, InCall, Holding, Iputs, Making, Linking
<1>3. Locked /\ DirLocked
  BY <1>0 DEF Locked, DirLocked, Making
<1>4. Filled /\ Allocated /\ Sole /\ Fresh
  BY <1>0 DEF Filled, Allocated, Sole, Fresh, Unused
<1>5. Links
  <2>1. \A q \in Procs : Extra[q] = NoInum
    BY <1>0 DEF Extra, Between
  <2>2. IsFiniteSet(DOMAIN Extra) /\ DOMAIN Extra = Procs
    BY InodeAssumption DEF Extra
  <2>3. \A i \in Inums : Count(Extra, i) = 0
    BY <1>0, <2>1, <2>2, CountType
  <2>4. IsFiniteSet(DOMAIN entry)
    BY InodeAssumption DEF TypeOK
  <2>5. \A i \in Inums : Count(entry, i) \in Nat
    BY <2>4, CountType
  <2>6. \A i \in Inums : dinode[i].nlink = Count(entry, i) /\ (dinode[i].type = "free" => Count(entry, i) = 0)
    BY DEF Blank, LinksDurable
  <2> QED
    BY <2>3, <2>5, <2>6 DEF Links
<1> QED
  BY <1>1, <1>2, <1>3, <1>4, <1>5 DEF NInv

LEMMA InitGood == Init => NInv
<1> SUFFICES ASSUME Init PROVE NInv
  OBVIOUS
<1>1. TypeOK
  <2>1. Free \in Dinodes /\ NoInum \notin Inums
    BY Ranges DEF Free, Dinodes
  <2>2. Unused \in [inum : Inums \cup {NoInum}, ref : Nat, valid : BOOLEAN, nlink : Nat]
    BY DEF Unused
  <2> QED
    BY <2>1, <2>2, InodeAssumption DEF Init, TypeOK, Everyone, Unlocked, PCs
<1>2. Blank
  BY DEF Init, Blank
<1>3. LinksDurable
  <2>1. durable.dinode = [i \in Inums |-> Free] /\ durable.entry = [n \in Names |-> NoInum]
    BY DEF Init
  <2>2. IsFiniteSet(DOMAIN durable.entry) /\ NoInum \notin Inums
    BY <2>1, InodeAssumption, Ranges
  <2>3. \A i \in Inums : Count(durable.entry, i) = 0
    BY <2>1, <2>2, CountType
  <2> QED
    BY <2>1, <2>3 DEF LinksDurable, Free
<1> QED
  BY <1>1, <1>2, <1>3, BlankGood

LEMMA CrashGood == NInv /\ Crash => NInv'
<1> SUFFICES ASSUME NInv, Crash PROVE NInv'
  OBVIOUS
<1>1. TypeOK'
  <2>1. Unused \in [inum : Inums \cup {NoInum}, ref : Nat, valid : BOOLEAN, nlink : Nat]
    BY DEF Unused
  <2>2. durable \in [dinode : [Inums -> Dinodes], entry : [Names -> Inums \cup {NoInum}]] /\ crashes \in 0 .. MaxCrashes
    BY DEF NInv, TypeOK
  <2>3. dinode' \in [Inums -> Dinodes] /\ entry' \in [Names -> Inums \cup {NoInum}] /\ durable' = durable
    BY <2>2 DEF Crash
  <2>4. crashes' \in 0 .. MaxCrashes
    BY <2>2, InodeAssumption DEF Crash
  <2> QED
    BY <2>1, <2>2, <2>3, <2>4, InodeAssumption DEF Crash, TypeOK, Everyone, Unlocked, PCs
<1>2. Blank'
  <2>1. durable = [dinode |-> durable.dinode, entry |-> durable.entry]
    BY DEF NInv, TypeOK
  <2> QED
    BY <2>1 DEF Crash, Blank, Unlocked, Everyone, Unused
<1>3. LinksDurable'
  BY DEF Crash, NInv, LinksDurable, Count
<1>4. (TypeOK /\ Blank /\ LinksDurable => NInv)'
  BY BlankGood, PTL
<1> QED
  BY <1>1, <1>2, <1>3, <1>4

LEMMA StepGood == NInv /\ [Next]_vars => NInv'
<1> SUFFICES ASSUME NInv, [Next]_vars PROVE NInv'
  OBVIOUS
<1>1. ASSUME NEW p \in Procs, ProcStep(p) PROVE NInv'
  BY <1>1, TypeInd, OneInd, HandsInd, InCallInd, LockedInd, DirInd, FilledInd, AllocatedInd, SoleInd, FreshInd,
     LinksInd, DurableInd DEF NInv
<1>2. CASE Crash
  BY <1>2, CrashGood
<1>3. CASE UNCHANGED vars
  <2> USE <1>3 DEF vars, disk, trans, memory, hands
  <2>1. TypeOK' /\ OneEntry' /\ LinksDurable'
    BY DEF NInv, TypeOK, OneEntry, LinksDurable, Count
  <2>2. Hands' /\ InCall' /\ Locked' /\ DirLocked'
    BY DEF NInv, Hands, InCall, Locked, DirLocked, Name, New
  <2>3. Filled' /\ Allocated' /\ Sole' /\ Fresh'
    BY DEF NInv, Filled, Allocated, Sole, Fresh, Leaving
  <2>4. Links'
    BY DEF NInv, Links, Extra, Between, Count
  <2> QED
    BY <2>1, <2>2, <2>3, <2>4 DEF NInv
<1> QED
  BY <1>1, <1>2, <1>3 DEF Next, ProcStep

-----------------------------------------------------------------------------
(* The theorems *)

\* NInv holds in every state, with any number of processes, names, inodes,
\* entries of the cache, and crashes.
THEOREM Invariance == Spec => []NInv
<1> QED
  BY InitGood, StepGood, PTL DEF Spec

\* Every variable keeps its type, and the lock of an entry is held by who has a
\* reference to it.
THEOREM TypeCorrect == Spec => []TypeOK
<1>1. NInv => TypeOK
  BY DEF NInv
<1> QED
  BY <1>1, Invariance, PTL

\* iget() and iput(): one entry for an inode, its ref right, and what it has is
\* what the disk has.
THEOREM EntriesUnique == Spec => []OneEntry
<1>1. NInv => OneEntry
  BY DEF NInv
<1> QED
  BY <1>1, Invariance, PTL

\* iput() frees no inode that a name, an open file or a call still needs.
THEOREM NeverFreed == Spec => []NeverFreedInUse
<1>1. NInv => NeverFreedInUse
  <2> SUFFICES ASSUME NInv PROVE NeverFreedInUse
    OBVIOUS
  <2>1. \A n \in Names : entry[n] # NoInum => dinode[entry[n]].nlink > 0
    BY Named
  <2>2. \A p \in Procs : \A s \in {ip[p], fd[p]} \ {NoSlot} : dinode[icache[s].inum].type = "file"
    BY DEF NInv, Allocated
  <2>3. \A p \in Procs : tmp[p] # NoSlot /\ pc[p] = "iput" => dinode[icache[tmp[p]].inum].type = "file"
    BY DEF NInv, Allocated
  <2> QED
    BY <2>1, <2>2, <2>3 DEF NeverFreedInUse
<1> QED
  BY <1>1, Invariance, PTL

\* However often the system crashes, a name on the disk is of an inode that is
\* allocated, and an inode has as many links as names.
THEOREM DurableLinks == Spec => []LinksDurable
<1>1. NInv => LinksDurable
  BY DEF NInv
<1> QED
  BY <1>1, Invariance, PTL

=============================================================================
