---------------------------- MODULE CacheProofs ----------------------------
(***************************************************************************)
(* CInv is inductive, so every safety property of BufferCache holds for    *)
(* every number of blocks, buffers and processes, and BufferCache          *)
(* implements BlockStore.                                                  *)
(*                                                                         *)
(* The parts of the invariant lean on each other in one direction: types,  *)
(* reference counts, the locks, the requests, the flags.                   *)
(***************************************************************************)
EXTENDS CacheInv, FiniteSetTheorems, TLAPS

LEMMA Ranges ==
  /\ NoBuf \notin Bufs /\ NoProc \notin Procs /\ NoBlock \notin Blocks
  /\ \A b \in Bufs : b \in Nat /\ b # 0 /\ NBUF + 1 - b \in Bufs
  BY CacheAssumption DEF Bufs, NoBuf

\* Who is in the middle of something has a buffer.
LEMMA HasBuffer ==
  ASSUME TypeOK, NEW p \in Procs, pc[p] \notin {"idle", "panic"}
  PROVE  buf[p] \in Bufs
  BY DEF TypeOK

\* A process that has nothing gets buffer b: b has one user more.
LEMMA JoinUsers ==
  ASSUME NEW p \in Procs, NEW b \in Bufs, TypeOK,
         buf[p] = NoBuf, buf' = [buf EXCEPT ![p] = b]
  PROVE  /\ Cardinality(Users(b)') = Cardinality(Users(b)) + 1
         /\ \A c \in Bufs \ {b} : Users(c)' = Users(c)
<1>1. IsFiniteSet(Users(b)) /\ p \notin Users(b)
  BY CacheAssumption, FS_Subset, Ranges DEF Users
<1>2. Users(b)' = Users(b) \cup {p}
  BY DEF Users, TypeOK
<1>3. \A c \in Bufs \ {b} : Users(c)' = Users(c)
  BY Ranges DEF Users, TypeOK
<1> QED
  BY <1>1, <1>2, <1>3, FS_AddElement

\* It gives the buffer back: one user less, and there was one.
LEMMA LeaveUsers ==
  ASSUME NEW p \in Procs, NEW b \in Bufs, TypeOK,
         buf[p] = b, buf' = [buf EXCEPT ![p] = NoBuf]
  PROVE  /\ Cardinality(Users(b)) \in Nat \ {0}
         /\ Cardinality(Users(b)') = Cardinality(Users(b)) - 1
         /\ \A c \in Bufs \ {b} : Users(c)' = Users(c)
<1>1. IsFiniteSet(Users(b)) /\ p \in Users(b)
  BY CacheAssumption, FS_Subset DEF Users
<1>2. Users(b)' = Users(b) \ {p}
  BY Ranges DEF Users, TypeOK
<1>3. \A c \in Bufs \ {b} : Users(c)' = Users(c)
  BY Ranges DEF Users, TypeOK
<1>4. Cardinality(Users(b)) \in Nat /\ Cardinality(Users(b)) # 0
  BY <1>1, FS_CardinalityType, FS_EmptySet
<1> QED
  BY <1>1, <1>2, <1>3, <1>4, FS_RemoveElement

\* Nobody has a buffer that bget() recycles, so nobody holds its lock.
LEMMA UnusedIsFree ==
  ASSUME TypeOK, OneBuffer, Ownership, NEW b \in Unused
  PROVE  b \in Bufs /\ Users(b) = {} /\ owner[b] = NoProc /\ b \notin dirty
<1>1. b \in Bufs /\ refcnt[b] = 0 /\ b \notin dirty
  BY DEF Unused
<1>2. IsFiniteSet(Users(b)) /\ Cardinality(Users(b)) = 0
  BY <1>1, CacheAssumption, FS_Subset DEF Users, OneBuffer
<1>3. Users(b) = {}
  BY <1>2, FS_EmptySet
<1>4. owner[b] = NoProc
  BY <1>1, <1>3 DEF Users, Ownership, TypeOK
<1> QED
  BY <1>1, <1>3, <1>4

\* The request that the disk works on is the head of the queue.
LEMMA QueueHead ==
  ASSUME TypeOK, NoLostWakeup, cmd # NoBuf
  PROVE  /\ queue # <<>> /\ cmd = Head(queue)
         /\ Head(queue) \in Bufs /\ Head(queue) = queue[1]
         /\ Tail(queue) \in Seq(Bufs) /\ Len(Tail(queue)) = Len(queue) - 1
         /\ \A i \in 1 .. Len(queue) - 1 : Tail(queue)[i] = queue[i + 1]
         /\ Tail(queue) # <<>> => Head(Tail(queue)) = Tail(queue)[1] /\ Head(Tail(queue)) \in Bufs
<1>1. queue \in Seq(Bufs) /\ queue # <<>> /\ cmd = Head(queue)
  BY DEF TypeOK, NoLostWakeup
<1>2. Tail(queue) \in Seq(Bufs) /\ Len(Tail(queue)) = Len(queue) - 1 /\ Head(queue) \in Bufs
  BY <1>1
<1> QED
  BY <1>1, <1>2

\* Its process sleeps for it, and the buffer has a block.
LEMMA HeadWaits ==
  ASSUME TypeOK, OneBuffer, NoLostWakeup, cmd # NoBuf
  PROVE  /\ \E p \in Procs : pc[p] = "iowait" /\ buf[p] = Head(queue) /\ owner[Head(queue)] = p
         /\ slot[Head(queue)] \in Blocks
<1>1. 1 \in 1 .. Len(queue) /\ queue[1] = Head(queue) /\ Head(queue) \in Bufs
  BY QueueHead DEF TypeOK
<1>2. PICK p \in Procs : pc[p] = "iowait" /\ buf[p] = Head(queue) /\ owner[Head(queue)] = p
  BY <1>1 DEF NoLostWakeup
<1>3. slot[Head(queue)] # NoBlock
  BY <1>1, <1>2, Ranges DEF OneBuffer
<1> QED
  BY <1>1, <1>2, <1>3 DEF TypeOK

\* The list stays a list of places.
LEMMA FrontType ==
  ASSUME TypeOK, NEW b \in Bufs
  PROVE  Front(b) \in [Bufs -> Bufs]
<1>1. \A c \in Bufs : rank[c] \in Bufs
  BY DEF TypeOK
<1>2. 1 \in Bufs /\ \A c, d \in Bufs : c < d => c + 1 \in Bufs
  BY CacheAssumption DEF Bufs
<1> QED
  BY <1>1, <1>2 DEF Front

\* Where references and blocks stay, so does what they say of each other.
LEMMA SameUsers ==
  ASSUME OneBuffer, UNCHANGED <<buf, slot, refcnt>>
  PROVE  OneBuffer'
  BY DEF OneBuffer, Users

\* Every action keeps every variable in its type.
LEMMA TypeInd ==
  TypeOK /\ OneBuffer /\ NoLostWakeup /\ Flags /\ [Next]_vars => TypeOK'
<1> SUFFICES ASSUME TypeOK, OneBuffer, NoLostWakeup, Flags, [Next]_vars PROVE TypeOK'
  OBVIOUS
<1> USE CacheAssumption, Ranges DEF TypeOK, PCs, vars, bufVars, ideVars, threads
<1>1. ASSUME NEW p \in Procs, NEW blk \in Blocks, BgetHit(p, blk) PROVE TypeOK'
  BY <1>1 DEF BgetHit, Holding
<1>2. ASSUME NEW p \in Procs, NEW blk \in Blocks, BgetRecycle(p, blk) PROVE TypeOK'
  BY <1>2 DEF BgetRecycle, Unused
<1>3. ASSUME NEW p \in Procs, Acquire(p) PROVE TypeOK'
  BY <1>3 DEF Acquire
<1>4. ASSUME NEW p \in Procs, AcquireSleep(p) PROVE TypeOK'
  BY <1>4 DEF AcquireSleep
<1>5. ASSUME NEW p \in Procs, Iderw(p) PROVE TypeOK'
  <2>1. buf[p] \in Bufs
    BY <1>5, HasBuffer DEF Iderw
  <2>2. queue' \in Seq(Bufs) /\ cmd' \in Bufs \cup {NoBuf}
    BY <1>5, <2>1 DEF Iderw
  <2>3. pc' \in [Procs -> PCs] /\ \A q \in Procs : pc'[q] \in {"idle", "panic"} <=> pc[q] \in {"idle", "panic"}
    BY <1>5 DEF Iderw
  <2> QED
    BY <1>5, <2>2, <2>3 DEF Iderw
<1>6. ASSUME NEW p \in Procs, IoReturn(p) PROVE TypeOK'
  BY <1>6 DEF IoReturn
<1>7. ASSUME NEW p \in Procs, Pin(p) PROVE TypeOK'
  BY <1>7 DEF Pin, Flags
<1>8. ASSUME NEW p \in Procs, Bwrite(p) PROVE TypeOK'
  BY <1>8 DEF Bwrite, Flags
<1>9. ASSUME NEW p \in Procs, Release(p) PROVE TypeOK'
  BY <1>9 DEF Release
<1>10. ASSUME NEW p \in Procs, Drop(p) PROVE TypeOK'
  <2>1. PICK b \in Bufs : b = buf[p]
    BY <1>10 DEF Drop
  <2>2. refcnt[b] \in Nat \ {0}
    <3>1. Cardinality(Users(b)) \in Nat \ {0}
      BY <1>10, <2>1, LeaveUsers DEF Drop
    <3> QED
      BY ONLY OneBuffer, <3>1 DEF OneBuffer
  <2>3. rank' \in [Bufs -> Bufs]
    BY <1>10, <2>1, FrontType DEF Drop
  <2>4. refcnt' \in [Bufs -> Nat]
    BY <1>10, <2>1, <2>2 DEF Drop
  <2> QED
    BY <1>10, <2>3, <2>4 DEF Drop
<1>11. CASE Ideintr
  <2>1. queue' \in Seq(Bufs) /\ cmd' \in Bufs \cup {NoBuf} /\ Head(queue) \in Bufs
    BY <1>11, QueueHead DEF Ideintr
  <2>2. slot[Head(queue)] \in Blocks
    BY <1>11, HeadWaits DEF Ideintr
  <2>3. disk[slot[Head(queue)]] \in Vals /\ data[Head(queue)] \in Vals
    BY <2>1, <2>2
  <2>4. disk' \in [Blocks -> Vals] /\ data' \in [Bufs -> Vals]
    BY <1>11, <2>1, <2>2, <2>3 DEF Ideintr
  <2>5. pc' \in [Procs -> PCs] /\ \A p \in Procs : pc'[p] \in {"idle", "panic"} <=> pc[p] \in {"idle", "panic"}
    BY <1>11 DEF Ideintr, WakeIo
  <2>6. valid' \in SUBSET Bufs /\ dirty' \in SUBSET valid'
    BY <1>11, <2>1 DEF Ideintr
  <2> QED
    BY <1>11, <2>1, <2>4, <2>5, <2>6 DEF Ideintr
<1>12. ASSUME NEW p \in Procs, NEW blk \in Blocks, BgetPanic(p, blk) PROVE TypeOK'
  BY <1>12 DEF BgetPanic
<1>13. CASE UNCHANGED vars
  BY <1>13
<1> QED
  BY <1>1, <1>2, <1>3, <1>4, <1>5, <1>6, <1>7, <1>8, <1>9, <1>10, <1>11, <1>12, <1>13 DEF Next, ProcStep, Halted

\* A reference is counted from bget() to the end of brelse(), and a block
\* never gets a second buffer.
LEMMA CountInd ==
  TypeOK /\ OneBuffer /\ Ownership /\ [Next]_vars => OneBuffer'
<1> SUFFICES ASSUME TypeOK, OneBuffer, Ownership, [Next]_vars PROVE OneBuffer'
  OBVIOUS
<1> USE CacheAssumption, Ranges DEF TypeOK, PCs, vars, bufVars, ideVars, threads, OneBuffer
<1>1. ASSUME NEW p \in Procs, NEW blk \in Blocks, BgetHit(p, blk) PROVE OneBuffer'
  <2>1. PICK b \in Bufs : /\ slot[b] = blk /\ buf' = [buf EXCEPT ![p] = b]
                          /\ refcnt' = [refcnt EXCEPT ![b] = @ + 1]
    BY <1>1 DEF BgetHit, Holding
  <2>2. buf[p] = NoBuf /\ slot' = slot
    BY <1>1 DEF BgetHit
  <2>3. /\ Cardinality(Users(b)') = Cardinality(Users(b)) + 1
        /\ \A c \in Bufs \ {b} : Users(c)' = Users(c)
    BY <2>1, <2>2, JoinUsers
  <2>4. \A c \in Bufs : refcnt'[c] = Cardinality(Users(c)')
    BY <2>1, <2>3
  <2> QED
    BY <2>1, <2>2, <2>4
<1>2. ASSUME NEW p \in Procs, NEW blk \in Blocks, BgetRecycle(p, blk) PROVE OneBuffer'
  <2>1. PICK b \in Unused : /\ slot' = [slot EXCEPT ![b] = blk] /\ buf' = [buf EXCEPT ![p] = b]
                            /\ refcnt' = [refcnt EXCEPT ![b] = 1]
    BY <1>2 DEF BgetRecycle
  <2>2. buf[p] = NoBuf /\ \A c \in Bufs : slot[c] # blk
    BY <1>2 DEF BgetRecycle, Holding
  <2>3. b \in Bufs /\ Users(b) = {}
    BY UnusedIsFree
  <2>4. /\ Cardinality(Users(b)') = 0 + 1
        /\ \A c \in Bufs \ {b} : Users(c)' = Users(c)
    BY <2>1, <2>2, <2>3, JoinUsers, FS_EmptySet
  <2>5. \A c \in Bufs : refcnt'[c] = Cardinality(Users(c)')
    BY <2>1, <2>3, <2>4
  <2>6. \A c, d \in Bufs : slot'[c] = slot'[d] /\ slot'[c] # NoBlock => c = d
    BY <2>1, <2>2, <2>3
  <2>7. \A q \in Procs : buf'[q] # NoBuf => slot'[buf'[q]] # NoBlock
    BY <2>1, <2>3
  <2> QED
    BY <2>5, <2>6, <2>7
<1>3. ASSUME NEW p \in Procs, Acquire(p) PROVE OneBuffer'
  BY <1>3, SameUsers DEF Acquire
<1>4. ASSUME NEW p \in Procs, AcquireSleep(p) PROVE OneBuffer'
  BY <1>4, SameUsers DEF AcquireSleep
<1>5. ASSUME NEW p \in Procs, Iderw(p) PROVE OneBuffer'
  BY <1>5, SameUsers DEF Iderw
<1>6. ASSUME NEW p \in Procs, IoReturn(p) PROVE OneBuffer'
  BY <1>6, SameUsers DEF IoReturn
<1>7. ASSUME NEW p \in Procs, Pin(p) PROVE OneBuffer'
  BY <1>7, SameUsers DEF Pin
<1>8. ASSUME NEW p \in Procs, Bwrite(p) PROVE OneBuffer'
  BY <1>8, SameUsers DEF Bwrite
<1>9. ASSUME NEW p \in Procs, Release(p) PROVE OneBuffer'
  BY <1>9, SameUsers DEF Release
<1>10. ASSUME NEW p \in Procs, Drop(p) PROVE OneBuffer'
  <2>1. PICK b \in Bufs : b = buf[p]
    BY <1>10 DEF Drop
  <2>2. /\ Cardinality(Users(b)) \in Nat \ {0} /\ Cardinality(Users(b)') = Cardinality(Users(b)) - 1
        /\ \A c \in Bufs \ {b} : Users(c)' = Users(c)
    BY <1>10, <2>1, LeaveUsers DEF Drop
  <2>3. \A c \in Bufs : refcnt'[c] = Cardinality(Users(c)')
    BY <1>10, <2>1, <2>2 DEF Drop
  <2> QED
    BY <1>10, <2>1, <2>3 DEF Drop
<1>11. CASE Ideintr
  BY <1>11, SameUsers DEF Ideintr
<1>12. ASSUME NEW p \in Procs, NEW blk \in Blocks, BgetPanic(p, blk) PROVE OneBuffer'
  BY <1>12, SameUsers DEF BgetPanic
<1>13. CASE UNCHANGED vars
  BY <1>13, SameUsers
<1> QED
  BY <1>1, <1>2, <1>3, <1>4, <1>5, <1>6, <1>7, <1>8, <1>9, <1>10, <1>11, <1>12, <1>13 DEF Next, ProcStep, Halted

\* acquiresleep() and releasesleep() hand a lock from one process to the next.
LEMMA OwnerInd ==
  TypeOK /\ OneBuffer /\ Ownership /\ [Next]_vars => Ownership'
<1> SUFFICES ASSUME TypeOK, OneBuffer, Ownership, [Next]_vars PROVE Ownership'
  OBVIOUS
<1> USE CacheAssumption, Ranges DEF TypeOK, PCs, vars, bufVars, ideVars, threads, Ownership, Owning
<1>1. ASSUME NEW p \in Procs, NEW blk \in Blocks, BgetHit(p, blk) PROVE Ownership'
  BY <1>1 DEF BgetHit, Holding
<1>2. ASSUME NEW p \in Procs, NEW blk \in Blocks, BgetRecycle(p, blk) PROVE Ownership'
  BY <1>2, UnusedIsFree DEF BgetRecycle, Users
<1>3. ASSUME NEW p \in Procs, Acquire(p) PROVE Ownership'
  <2>1. PICK b \in Bufs : b = buf[p] /\ owner[b] = NoProc /\ owner' = [owner EXCEPT ![b] = p]
    BY ONLY TypeOK, <1>3, HasBuffer DEF Acquire
  <2>2. pc[p] = "lock" /\ pc'[p] \in Owning /\ buf' = buf /\ \A q \in Procs : q # p => pc'[q] = pc[q]
    BY <1>3 DEF Acquire
  <2>3. \A q \in Procs : pc'[q] \in Owning => owner'[buf'[q]] = q
    BY <2>1, <2>2
  <2>4. ASSUME NEW c \in Bufs, owner'[c] # NoProc PROVE buf'[owner'[c]] = c /\ pc'[owner'[c]] \in Owning
    <3>1. CASE c = b
      BY <2>1, <2>2, <3>1
    <3>2. CASE c # b
      <4>1. owner'[c] = owner[c] /\ owner[c] \in Procs /\ owner[c] # p
        BY <2>1, <2>2, <2>4, <3>2
      <4> QED
        BY <2>2, <2>4, <4>1
    <3> QED
      BY <3>1, <3>2
  <2> QED
    BY <2>3, <2>4
<1>4. ASSUME NEW p \in Procs, AcquireSleep(p) PROVE Ownership'
  BY <1>4 DEF AcquireSleep
<1>5. ASSUME NEW p \in Procs, Iderw(p) PROVE Ownership'
  BY <1>5 DEF Iderw
<1>6. ASSUME NEW p \in Procs, IoReturn(p) PROVE Ownership'
  BY <1>6 DEF IoReturn
<1>7. ASSUME NEW p \in Procs, Pin(p) PROVE Ownership'
  BY <1>7 DEF Pin
<1>8. ASSUME NEW p \in Procs, Bwrite(p) PROVE Ownership'
  BY <1>8 DEF Bwrite
<1>9. ASSUME NEW p \in Procs, Release(p) PROVE Ownership'
  BY <1>9 DEF Release
<1>10. ASSUME NEW p \in Procs, Drop(p) PROVE Ownership'
  BY <1>10 DEF Drop
<1>11. CASE Ideintr
  BY <1>11 DEF Ideintr, WakeIo
<1>12. ASSUME NEW p \in Procs, NEW blk \in Blocks, BgetPanic(p, blk) PROVE Ownership'
  BY <1>12 DEF BgetPanic
<1>13. CASE UNCHANGED vars
  BY <1>13
<1> QED
  BY <1>1, <1>2, <1>3, <1>4, <1>5, <1>6, <1>7, <1>8, <1>9, <1>10, <1>11, <1>12, <1>13 DEF Next, ProcStep, Halted

\* The queue, the disk and the sleepers stay in step.
LEMMA WakeInd ==
  TypeOK /\ OneBuffer /\ Ownership /\ Flags /\ NoLostWakeup /\ [Next]_vars => NoLostWakeup'
<1> SUFFICES ASSUME TypeOK, OneBuffer, Ownership, Flags, NoLostWakeup, [Next]_vars PROVE NoLostWakeup'
  OBVIOUS
<1> USE CacheAssumption, Ranges DEF TypeOK, PCs, vars, bufVars, ideVars, threads, NoLostWakeup, Ownership, Owning
<1>1. ASSUME NEW p \in Procs, NEW blk \in Blocks, BgetHit(p, blk) PROVE NoLostWakeup'
  BY <1>1 DEF BgetHit, Holding
<1>2. ASSUME NEW p \in Procs, NEW blk \in Blocks, BgetRecycle(p, blk) PROVE NoLostWakeup'
  BY <1>2, UnusedIsFree DEF BgetRecycle
<1>3. ASSUME NEW p \in Procs, Acquire(p) PROVE NoLostWakeup'
  BY <1>3 DEF Acquire
<1>4. ASSUME NEW p \in Procs, AcquireSleep(p) PROVE NoLostWakeup'
  BY <1>4 DEF AcquireSleep
<1>5. ASSUME NEW p \in Procs, Iderw(p) PROVE NoLostWakeup'
  <2>1. PICK b \in Bufs : b = buf[p] /\ owner[b] = p /\ queue' = Append(queue, b)
    BY <1>5, HasBuffer DEF Iderw
  <2>2. /\ Len(queue') = Len(queue) + 1 /\ Len(queue) \in Nat /\ queue'[Len(queue) + 1] = b
        /\ \A i \in 1 .. Len(queue) : queue'[i] = queue[i]
    BY <2>1
  <2>3. /\ pc' = [pc EXCEPT ![p] = "iowait"] /\ pc[p] = "request"
        /\ UNCHANGED <<buf, owner>>
    BY <1>5 DEF Iderw, bufVars
  <2>4. ~Queued(b)
    BY ONLY NoLostWakeup, <2>1, <2>3 DEF NoLostWakeup, Queued
  <2>5. cmd' = IF queue' = <<>> THEN NoBuf ELSE Head(queue')
    BY <1>5, <2>1 DEF Iderw
  <2>6. \A i, j \in 1 .. Len(queue') : queue'[i] = queue'[j] => i = j
    <3> SUFFICES ASSUME NEW i \in 1 .. Len(queue'), NEW j \in 1 .. Len(queue'), queue'[i] = queue'[j]
                 PROVE i = j
      OBVIOUS
    <3>1. \A k \in 1 .. Len(queue) : queue'[k] # b
      BY ONLY <2>2, <2>4 DEF Queued
    <3>2. CASE i \in 1 .. Len(queue) /\ j \in 1 .. Len(queue)
      BY <2>2, <3>2
    <3>3. CASE i = Len(queue) + 1
      BY <2>2, <3>1, <3>3
    <3>4. CASE j = Len(queue) + 1
      BY <2>2, <3>1, <3>4
    <3> QED
      BY <2>2, <3>2, <3>3, <3>4
  <2>7. \A c \in Bufs : Queued(c)' <=> Queued(c) \/ c = b
    BY ONLY <2>2 DEF Queued
  <2>8. \A c \in Bufs : Queued(c) <=> \E q \in Procs : pc[q] = "iowait" /\ buf[q] = c /\ owner[c] = q
    BY DEF Queued
  <2>9. \A c \in Bufs : Queued(c)' <=> \E q \in Procs : pc'[q] = "iowait" /\ buf'[q] = c /\ owner'[c] = q
    BY <2>1, <2>3, <2>7, <2>8
  <2>10. \A q \in Procs : pc[q] = "iowait" => Queued(buf[q]) /\ buf[q] \in Bufs
    BY DEF Queued
  <2>11. \A q \in Procs : pc'[q] = "iowait" => Queued(buf[q])'
    BY <2>1, <2>3, <2>7, <2>10
  <2>12. \A q \in Procs : pc'[q] = "lockwait" => owner'[buf'[q]] # NoProc
    BY <2>3
  <2> QED
    BY ONLY <2>5, <2>6, <2>9, <2>11, <2>12 DEF Queued, NoLostWakeup
<1>6. ASSUME NEW p \in Procs, IoReturn(p) PROVE NoLostWakeup'
  BY <1>6 DEF IoReturn, Flags
<1>7. ASSUME NEW p \in Procs, Pin(p) PROVE NoLostWakeup'
  BY <1>7 DEF Pin
<1>8. ASSUME NEW p \in Procs, Bwrite(p) PROVE NoLostWakeup'
  BY <1>8 DEF Bwrite
<1>9. ASSUME NEW p \in Procs, Release(p) PROVE NoLostWakeup'
  <2>1. /\ owner' = [owner EXCEPT ![buf[p]] = NoProc] /\ buf[p] \in Bufs /\ owner[buf[p]] = p /\ pc[p] = "have"
        /\ UNCHANGED <<buf, queue, cmd>>
    BY <1>9, HasBuffer DEF Release
  <2>2. \A q \in Procs : pc'[q] \in {"iowait", "lockwait"} => pc[q] = pc'[q] /\ buf[q] = buf'[q]
    BY <1>9 DEF Release
  <2>3. \A q \in Procs : pc[q] = "iowait" => pc'[q] = "iowait" /\ buf[q] # buf[p]
    BY <1>9, <2>1 DEF Release
  <2>4. \A q \in Procs : pc'[q] = "lockwait" => buf[q] # buf[p]
    BY <1>9 DEF Release
  <2>5. \A c \in Bufs, q \in Procs : c # buf[p] => owner'[c] = owner[c]
    BY <2>1
  <2>6. \A q \in Procs : pc'[q] = "lockwait" => owner'[buf'[q]] # NoProc
    BY <2>1, <2>2, <2>4
  <2>7. \A c \in Bufs : (\E i \in 1 .. Len(queue') : queue'[i] = c)
                      <=> \E q \in Procs : pc'[q] = "iowait" /\ buf'[q] = c /\ owner'[c] = q
    BY ONLY NoLostWakeup, <2>1, <2>2, <2>3, <2>5 DEF NoLostWakeup
  <2>8. \A q \in Procs : pc'[q] = "iowait" => \E i \in 1 .. Len(queue') : queue'[i] = buf'[q]
    BY ONLY NoLostWakeup, <2>1, <2>2 DEF NoLostWakeup
  <2> QED
    BY <2>1, <2>6, <2>7, <2>8
<1>10. ASSUME NEW p \in Procs, Drop(p) PROVE NoLostWakeup'
  <2>1. /\ pc[p] = "drop" /\ pc' = [pc EXCEPT ![p] = "idle"] /\ buf' = [buf EXCEPT ![p] = NoBuf]
        /\ UNCHANGED <<owner, queue, cmd>>
    BY <1>10 DEF Drop
  <2>2. \A q \in Procs : pc'[q] \in {"iowait", "lockwait"} => pc[q] = pc'[q] /\ buf[q] = buf'[q]
    BY <2>1
  <2>3. \A q \in Procs : pc[q] = "iowait" => pc'[q] = "iowait" /\ buf'[q] = buf[q]
    BY <2>1
  <2> QED
    BY ONLY NoLostWakeup, <2>1, <2>2, <2>3 DEF NoLostWakeup
<1>11. CASE Ideintr
  <2>1. PICK b \in Bufs : b = Head(queue) /\ b = queue[1]
    BY <1>11, QueueHead DEF Ideintr
  <2>2. /\ queue' = Tail(queue) /\ Len(queue') = Len(queue) - 1 /\ Len(queue) \in Nat /\ Len(queue) > 0
        /\ \A i \in 1 .. Len(queue) - 1 : queue'[i] = queue[i + 1]
    <3>1. Len(queue) \in Nat /\ (queue # <<>> => Len(queue) > 0)
      BY ONLY TypeOK DEF TypeOK
    <3> QED
      BY ONLY TypeOK, NoLostWakeup, <1>11, <3>1, QueueHead DEF Ideintr
  <2>3. cmd' = IF queue' = <<>> THEN NoBuf ELSE Head(queue')
    BY <1>11 DEF Ideintr
  <2>4. \A i, j \in 1 .. Len(queue') : queue'[i] = queue'[j] => i = j
    BY <2>2
  <2>5. \A c \in Bufs : Queued(c)' <=> Queued(c) /\ c # b
    <3> SUFFICES ASSUME NEW c \in Bufs PROVE Queued(c)' <=> Queued(c) /\ c # b
      OBVIOUS
    <3>1. ASSUME NEW i \in 1 .. Len(queue'), queue'[i] = c PROVE Queued(c) /\ c # b
      BY <2>1, <2>2, <3>1 DEF Queued
    <3>2. ASSUME NEW i \in 1 .. Len(queue), queue[i] = c, c # b PROVE Queued(c)'
      <4>1. i - 1 \in 1 .. Len(queue') /\ queue'[i - 1] = c
        BY <2>1, <2>2, <3>2
      <4> QED
        BY <4>1 DEF Queued
    <3> QED
      BY <3>1, <3>2 DEF Queued
  <2>6. /\ \A q \in Procs : pc'[q] = IF pc[q] = "iowait" /\ buf[q] = b THEN "iodone" ELSE pc[q]
        /\ UNCHANGED <<buf, owner>>
    BY <1>11, <2>1 DEF Ideintr, WakeIo
  <2>7. \A c \in Bufs : Queued(c) <=> \E q \in Procs : pc[q] = "iowait" /\ buf[q] = c /\ owner[c] = q
    BY DEF Queued
  <2>8. \A c \in Bufs : Queued(c)' <=> \E q \in Procs : pc'[q] = "iowait" /\ buf'[q] = c /\ owner'[c] = q
    BY <2>5, <2>6, <2>7
  <2>9. \A q \in Procs : pc[q] = "iowait" => Queued(buf[q]) /\ buf[q] \in Bufs
    BY DEF Queued
  <2>10. \A q \in Procs : pc'[q] = "iowait" => Queued(buf[q])'
    BY <2>5, <2>6, <2>9
  <2>11. \A q \in Procs : pc'[q] = "lockwait" => owner'[buf'[q]] # NoProc
    BY <2>6
  <2> QED
    BY ONLY <2>3, <2>4, <2>8, <2>10, <2>11 DEF Queued, NoLostWakeup
<1>12. ASSUME NEW p \in Procs, NEW blk \in Blocks, BgetPanic(p, blk) PROVE NoLostWakeup'
  BY <1>12 DEF BgetPanic
<1>13. CASE UNCHANGED vars
  BY <1>13
<1> QED
  BY <1>1, <1>2, <1>3, <1>4, <1>5, <1>6, <1>7, <1>8, <1>9, <1>10, <1>11, <1>12, <1>13 DEF Next, ProcStep, Halted

\* B_VALID and B_DIRTY tell the truth about the data.
LEMMA FlagInd ==
  TypeOK /\ OneBuffer /\ Ownership /\ NoLostWakeup /\ Flags /\ [Next]_vars => Flags'
<1> SUFFICES ASSUME TypeOK, OneBuffer, Ownership, NoLostWakeup, Flags, [Next]_vars PROVE Flags'
  OBVIOUS
<1> USE CacheAssumption, Ranges DEF TypeOK, PCs, vars, bufVars, ideVars, threads, Flags, Ownership, Owning
<1>1. ASSUME NEW p \in Procs, NEW blk \in Blocks, BgetHit(p, blk) PROVE Flags'
  BY <1>1 DEF BgetHit, Holding
<1>2. ASSUME NEW p \in Procs, NEW blk \in Blocks, BgetRecycle(p, blk) PROVE Flags'
  <2>1. PICK b \in Unused : /\ slot' = [slot EXCEPT ![b] = blk] /\ buf' = [buf EXCEPT ![p] = b]
                            /\ valid' = valid \ {b} /\ dirty' = dirty \ {b}
    BY <1>2 DEF BgetRecycle
  <2>2. b \in Bufs /\ \A q \in Procs : buf[q] # b
    BY UnusedIsFree DEF Users
  <2> QED
    BY <1>2, <2>1, <2>2 DEF BgetRecycle
<1>3. ASSUME NEW p \in Procs, Acquire(p) PROVE Flags'
  BY <1>3 DEF Acquire
<1>4. ASSUME NEW p \in Procs, AcquireSleep(p) PROVE Flags'
  BY <1>4 DEF AcquireSleep
<1>5. ASSUME NEW p \in Procs, Iderw(p) PROVE Flags'
  BY <1>5 DEF Iderw
<1>6. ASSUME NEW p \in Procs, IoReturn(p) PROVE Flags'
  BY <1>6 DEF IoReturn
<1>7. ASSUME NEW p \in Procs, Pin(p) PROVE Flags'
  BY <1>7 DEF Pin
<1>8. ASSUME NEW p \in Procs, Bwrite(p) PROVE Flags'
  BY <1>8 DEF Bwrite
<1>9. ASSUME NEW p \in Procs, Release(p) PROVE Flags'
  BY <1>9 DEF Release
<1>10. ASSUME NEW p \in Procs, Drop(p) PROVE Flags'
  BY <1>10 DEF Drop
<1>11. CASE Ideintr
  <2>1. PICK b \in Bufs : b = Head(queue) /\ slot[b] \in Blocks
    BY <1>11, QueueHead, HeadWaits DEF Ideintr
  <2>2. /\ valid' = valid \cup {b} /\ dirty' = dirty \ {b} /\ UNCHANGED <<slot, buf>>
        /\ b \in dirty => disk' = [disk EXCEPT ![slot[b]] = data[b]] /\ data' = data
        /\ b \notin dirty => data' = [data EXCEPT ![b] = disk[slot[b]]] /\ disk' = disk
    BY <1>11, <2>1 DEF Ideintr
  <2>3. \A q \in Procs : pc'[q] = IF pc[q] = "iowait" /\ buf[q] = b THEN "iodone" ELSE pc[q]
    BY <1>11, <2>1 DEF Ideintr, WakeIo
  <2>4. \A c \in Bufs : c # b => slot[c] # slot[b]
    BY <2>1, Ranges DEF OneBuffer
  <2>5. \A c \in valid' \ dirty' : data'[c] = disk'[slot'[c]]
    BY <2>1, <2>2, <2>4
  <2>6. PICK h \in Procs : pc[h] = "iowait" /\ buf[h] = b /\ owner[b] = h
    BY <1>11, <2>1, HeadWaits DEF Ideintr
  <2>7. \A q \in Procs : buf[q] = b /\ pc[q] \in Owning => q = h
    BY <2>6
  <2>8. \A q \in Procs : pc'[q] \in {"request", "iowait"} => buf'[q] \notin valid' \ dirty'
    BY <2>2, <2>3, <2>6, <2>7
  <2>9. \A q \in Procs : pc'[q] = "iodone" => buf'[q] \in valid' \ dirty'
    BY <2>2, <2>3
  <2>10. \A q \in Procs : pc'[q] = "have" => buf'[q] \in valid'
    BY <2>2, <2>3
  <2>11. \A c \in valid' : slot'[c] # NoBlock
    BY <2>1, <2>2, Ranges
  <2> QED
    BY <2>5, <2>8, <2>9, <2>10, <2>11
<1>12. ASSUME NEW p \in Procs, NEW blk \in Blocks, BgetPanic(p, blk) PROVE Flags'
  BY <1>12 DEF BgetPanic
<1>13. CASE UNCHANGED vars
  BY <1>13
<1> QED
  BY <1>1, <1>2, <1>3, <1>4, <1>5, <1>6, <1>7, <1>8, <1>9, <1>10, <1>11, <1>12, <1>13 DEF Next, ProcStep, Halted

------------------------------------------------------------------------------

LEMMA CInvInit == Init => CInv
<1> SUFFICES ASSUME Init PROVE CInv
  OBVIOUS
<1> USE CacheAssumption, Ranges DEF Init
<1>1. TypeOK
  BY DEF TypeOK, PCs
<1>2. OneBuffer
  <2>1. \A b \in Bufs : Users(b) = {}
    BY DEF Users
  <2> QED
    BY <2>1, FS_EmptySet DEF OneBuffer
<1>3. NoLostWakeup
  BY DEF NoLostWakeup
<1>4. Ownership /\ Flags
  BY DEF Ownership, Owning, Flags
<1> QED
  BY <1>1, <1>2, <1>3, <1>4 DEF CInv

LEMMA CInvNext == CInv /\ [Next]_vars => CInv'
  BY TypeInd, CountInd, OwnerInd, WakeInd, FlagInd DEF CInv

\* The inductive invariant of BufferCache.
THEOREM Invariance == Spec => []CInv
  BY CInvInit, CInvNext, PTL DEF Spec

------------------------------------------------------------------------------
(* What the invariant is for *)

\* Every variable of the cache stays in its type.
THEOREM TypeCorrect == Spec => []TypeOK
  BY Invariance, PTL DEF CInv

\* bget() makes one buffer per block, and recycles none that is in use.
THEOREM BlocksAreUnique == Spec => []OneBuffer
  BY Invariance, PTL DEF CInv

\* No wakeup of ideintr() or releasesleep() is lost.
THEOREM WakeupsArrive == Spec => []NoLostWakeup
  BY Invariance, PTL DEF CInv

------------------------------------------------------------------------------
(* BufferCache implements BlockStore.                                      *)

\* What a reader gets, buffer by buffer: Visible and Holder without CHOOSE.
Maps ==
  /\ \A b \in Bufs : slot[b] # NoBlock => Holder[slot[b]] = owner[b]
  /\ \A blk \in Blocks : (\A b \in Bufs : slot[b] # blk) => Holder[blk] = NoProc
  /\ \A b \in valid : Visible[slot[b]] = data[b]
  /\ \A blk \in Blocks : (\A b \in valid : slot[b] # blk) => Visible[blk] = disk[blk]

LEMMA MapsHold == CInv => Maps
<1> SUFFICES ASSUME CInv PROVE Maps
  OBVIOUS
<1> USE DEF CInv, TypeOK, OneBuffer, Flags
<1>1. ASSUME NEW b \in Bufs, slot[b] # NoBlock PROVE Holder[slot[b]] = owner[b]
  <2>1. slot[b] \in Blocks /\ \A c \in Bufs : slot[c] = slot[b] => c = b
    BY <1>1
  <2> QED
    BY <2>1 DEF Holder
<1>2. ASSUME NEW blk \in Blocks, \A b \in Bufs : slot[b] # blk PROVE Holder[blk] = NoProc
  BY <1>2 DEF Holder
<1>3. ASSUME NEW b \in valid PROVE Visible[slot[b]] = data[b]
  <2>1. b \in Bufs /\ slot[b] \in Blocks /\ \A c \in valid : slot[c] = slot[b] => c = b
    BY <1>3
  <2> QED
    BY <2>1 DEF Visible
<1>4. ASSUME NEW blk \in Blocks, \A b \in valid : slot[b] # blk PROVE Visible[blk] = disk[blk]
  BY <1>4 DEF Visible
<1> QED
  BY <1>1, <1>2, <1>3, <1>4 DEF Maps

LEMMA MapsNext == CInv' => Maps'
  BY MapsHold, PTL

\* Two functions on the blocks are equal when they agree on each.
LEMMA SameMap ==
  /\ (\A blk \in Blocks : Visible'[blk] = Visible[blk]) => Visible' = Visible
  /\ (\A blk \in Blocks : Holder'[blk] = Holder[blk]) => Holder' = Holder
  BY DEF Visible, Holder

\* ... and when all but one place agree, one place has changed.
LEMMA OnePlace ==
  ASSUME NEW blk \in Blocks, NEW v
  PROVE  /\ Visible'[blk] = v /\ (\A x \in Blocks \ {blk} : Visible'[x] = Visible[x])
            => Visible' = [Visible EXCEPT ![blk] = v]
         /\ Holder'[blk] = v /\ (\A x \in Blocks \ {blk} : Holder'[x] = Holder[x])
            => Holder' = [Holder EXCEPT ![blk] = v]
<1> DEFINE New == Visible'
           Now == Holder'
<1>1. New = [x \in Blocks |-> New[x]] /\ Now = [x \in Blocks |-> Now[x]]
  BY DEF Visible, Holder
<1>2. DOMAIN Visible = Blocks /\ DOMAIN Holder = Blocks
  BY DEF Visible, Holder
<1> HIDE DEF New, Now
<1>3. New[blk] = v /\ (\A x \in Blocks \ {blk} : New[x] = Visible[x]) => New = [Visible EXCEPT ![blk] = v]
  BY <1>1, <1>2
<1>4. Now[blk] = v /\ (\A x \in Blocks \ {blk} : Now[x] = Holder[x]) => Now = [Holder EXCEPT ![blk] = v]
  BY <1>1, <1>2
<1> QED
  BY <1>3, <1>4 DEF New, Now

LEMMA MapInit == Init => Store!StoreInit
<1> SUFFICES ASSUME Init PROVE Store!StoreInit
  OBVIOUS
<1>1. disk \in [Blocks -> Vals] /\ valid = {} /\ \A b \in Bufs : slot[b] = NoBlock
  BY DEF Init
<1>2. Visible = disk
  BY <1>1 DEF Visible
<1>3. Holder = [blk \in Blocks |-> NoProc]
  BY <1>1, CacheAssumption DEF Holder
<1> QED
  BY <1>1, <1>2, <1>3 DEF Store!StoreInit

\* The steps that touch neither data nor locks.
LEMMA MapQuiet ==
  ASSUME UNCHANGED <<slot, data, valid, disk, owner>>
  PROVE  UNCHANGED Store!storeVars
  BY DEF Visible, Holder, Store!storeVars

\* A recycled buffer had what the disk has, and nobody had it.
LEMMA MapRecycle ==
  ASSUME CInv, CInv', NEW p \in Procs, NEW blk \in Blocks, BgetRecycle(p, blk)
  PROVE  UNCHANGED Store!storeVars
<1> USE MapsHold, MapsNext DEF Maps
<1>1. PICK b \in Unused : /\ slot' = [slot EXCEPT ![b] = blk]
                          /\ valid' = valid \ {b}
  BY DEF BgetRecycle
<1>2. b \in Bufs /\ owner[b] = NoProc /\ b \notin dirty
  BY UnusedIsFree DEF CInv
<1>3. UNCHANGED <<data, disk, owner>> /\ \A c \in Bufs : slot[c] # blk
  BY DEF BgetRecycle, Holding, ideVars
<1>4. \A x \in Blocks : Visible'[x] = Visible[x]
  <2> SUFFICES ASSUME NEW x \in Blocks PROVE Visible'[x] = Visible[x]
    OBVIOUS
  <2>1. ASSUME NEW c \in valid', slot'[c] = x PROVE Visible'[x] = Visible[x]
    <3>1. c \in valid /\ slot[c] = x
      BY <1>1, <1>2, <2>1 DEF CInv, TypeOK
    <3>2. Visible'[x] = data'[c] /\ Visible[x] = data[c]
      BY <2>1, <3>1
    <3> QED
      BY <1>3, <3>2
  <2>2. CASE (\A c \in valid' : slot'[c] # x) /\ \A c \in valid : slot[c] # x
    BY <1>3, <2>2
  <2>3. CASE (\A c \in valid' : slot'[c] # x) /\ \E c \in valid : slot[c] = x
    <3>1. b \in valid /\ slot[b] = x
      BY <1>1, <1>2, <2>3 DEF CInv, TypeOK
    <3>2. Visible[x] = data[b] /\ Visible'[x] = disk[x]
      BY <1>3, <2>3, <3>1
    <3> QED
      BY <1>2, <3>1, <3>2 DEF CInv, Flags
  <2> QED
    BY <2>1, <2>2, <2>3
<1>5. \A x \in Blocks : Holder'[x] = Holder[x]
  <2> SUFFICES ASSUME NEW x \in Blocks PROVE Holder'[x] = Holder[x]
    OBVIOUS
  <2>1. CASE x = blk
    <3>1. Holder[x] = NoProc
      BY <1>3, <2>1
    <3>2. slot'[b] = x /\ x # NoBlock
      BY <1>1, <1>2, <2>1, CacheAssumption DEF CInv, TypeOK
    <3> QED
      BY <1>2, <1>3, <3>1, <3>2
  <2>2. CASE x # blk /\ slot[b] = x
    <3>1. Holder[x] = NoProc
      BY <1>2, <2>2, CacheAssumption
    <3>2. \A c \in Bufs : slot'[c] # x
      BY <1>1, <1>2, <2>2, CacheAssumption DEF CInv, TypeOK, OneBuffer
    <3> QED
      BY <3>1, <3>2
  <2>3. CASE x # blk /\ slot[b] # x
    <3>1. \A c \in Bufs : slot'[c] = x <=> slot[c] = x
      BY <1>1, <1>2, <2>3 DEF CInv, TypeOK
    <3>2. CASE \E c \in Bufs : slot[c] = x
      BY <1>3, <3>1, <3>2, CacheAssumption
    <3>3. CASE \A c \in Bufs : slot[c] # x
      BY <3>1, <3>3
    <3> QED
      BY <3>2, <3>3
  <2> QED
    BY <2>1, <2>2, <2>3
<1> QED
  BY <1>3, <1>4, <1>5, SameMap DEF Store!storeVars

\* acquiresleep() takes the block, releasesleep() lets go of it.
LEMMA MapLock ==
  ASSUME CInv, CInv', NEW p \in Procs, Acquire(p) \/ Release(p)
  PROVE  Store!StoreNext
<1> USE MapsHold, MapsNext DEF Maps
<1>1. PICK b \in Bufs, blk \in Blocks : b = buf[p] /\ slot[b] = blk
  <2>1. buf[p] \in Bufs /\ buf[p] # NoBuf
    BY Ranges, HasBuffer DEF CInv, Acquire, Release
  <2> QED
    BY <2>1 DEF CInv, TypeOK, OneBuffer
<1>2. UNCHANGED <<slot, data, valid, disk>> /\ owner' = [owner EXCEPT ![b] = owner'[b]]
  BY <1>1 DEF Acquire, Release, CInv, TypeOK, ideVars
<1>3. Visible' = Visible /\ disk' = disk
  BY <1>2 DEF Visible
<1>4. Holder[blk] = owner[b] /\ Holder'[blk] = owner'[b]
  BY <1>1, <1>2, CacheAssumption
<1>5. \A x \in Blocks \ {blk} : Holder'[x] = Holder[x]
  <2> SUFFICES ASSUME NEW x \in Blocks, x # blk PROVE Holder'[x] = Holder[x]
    OBVIOUS
  <2>1. ASSUME NEW c \in Bufs, slot[c] = x PROVE Holder'[x] = Holder[x]
    <3>1. Holder[x] = owner[c] /\ Holder'[x] = owner'[c]
      BY <1>2, <2>1, Ranges
    <3>2. owner'[c] = owner[c]
      BY <1>1, <1>2, <2>1 DEF CInv, TypeOK
    <3> QED
      BY <3>1, <3>2
  <2>2. CASE \A c \in Bufs : slot[c] # x
    BY <1>2, <2>2
  <2> QED
    BY <2>1, <2>2
<1>6. CASE Acquire(p)
  <2>1. owner[b] = NoProc /\ owner'[b] = p
    BY <1>1, <1>6 DEF Acquire, CInv, TypeOK
  <2>2. Store!Hold(p, blk)
    BY <1>3, <1>4, <1>5, <2>1, OnePlace DEF Store!Hold
  <2> QED
    BY <2>2 DEF Store!StoreNext
<1>7. CASE Release(p)
  <2>1. owner[b] = p /\ owner'[b] = NoProc
    BY <1>1, <1>7 DEF Release, CInv, TypeOK, Ownership, Owning
  <2>2. Store!LetGo(p, blk)
    BY <1>3, <1>4, <1>5, <2>1, OnePlace DEF Store!LetGo
  <2> QED
    BY <2>2 DEF Store!StoreNext
<1> QED
  BY <1>6, <1>7

\* The holder changes the block in memory.
LEMMA MapStore ==
  ASSUME CInv, CInv', NEW p \in Procs, Pin(p) \/ Bwrite(p)
  PROVE  Store!StoreNext
<1> USE MapsHold, MapsNext DEF Maps
<1>1. PICK b \in Bufs, blk \in Blocks : b = buf[p] /\ slot[b] = blk /\ b \in valid /\ owner[b] = p
  BY Ranges DEF CInv, TypeOK, OneBuffer, Flags, Ownership, Owning, Pin, Bwrite
<1>2. PICK v \in Vals : data' = [data EXCEPT ![b] = v]
  BY <1>1 DEF Pin, Bwrite
<1>3. UNCHANGED <<slot, valid, disk, owner>>
  BY DEF Pin, Bwrite, ideVars
<1>4. Holder' = Holder /\ Holder[blk] = p
  <2>1. Holder' = Holder
    BY <1>3 DEF Holder
  <2> QED
    BY <1>1, <2>1, Ranges
<1>5. Visible'[blk] = v
  BY <1>1, <1>2, <1>3 DEF CInv, TypeOK
<1>6. \A x \in Blocks \ {blk} : Visible'[x] = Visible[x]
  <2> SUFFICES ASSUME NEW x \in Blocks, x # blk PROVE Visible'[x] = Visible[x]
    OBVIOUS
  <2>1. CASE \E c \in valid : slot[c] = x
    BY <1>1, <1>2, <1>3, <2>1 DEF CInv, TypeOK
  <2>2. CASE \A c \in valid : slot[c] # x
    BY <1>3, <2>2
  <2> QED
    BY <2>1, <2>2
<1>7. Visible' = [Visible EXCEPT ![blk] = v]
  BY <1>5, <1>6, OnePlace
<1>8. Store!Store(p, blk, v)
  BY <1>3, <1>4, <1>7 DEF Store!Store
<1> QED
  BY <1>8 DEF Store!StoreNext

\* The disk takes over a dirty buffer, or fills one that is not valid.
LEMMA MapIntr ==
  ASSUME CInv, CInv', Ideintr
  PROVE  Store!StoreNext \/ UNCHANGED Store!storeVars
<1> USE MapsHold, MapsNext DEF Maps
<1>1. PICK b \in Bufs, blk \in Blocks, p \in Procs :
        b = Head(queue) /\ slot[b] = blk /\ pc[p] = "iowait" /\ buf[p] = b /\ owner[b] = p
  BY QueueHead, HeadWaits DEF Ideintr, CInv
<1>2. b \in valid => b \in dirty
  BY <1>1 DEF CInv, Flags
<1>3. UNCHANGED <<slot, owner>> /\ valid' = valid \cup {b}
  BY <1>1 DEF Ideintr
<1>4. Holder' = Holder /\ Holder[blk] = p
  <2>1. Holder' = Holder
    BY <1>3 DEF Holder
  <2> QED
    BY <1>1, <2>1, Ranges
<1>5. CASE b \in dirty
  <2>1. disk' = [disk EXCEPT ![blk] = data[b]] /\ data' = data /\ valid' = valid /\ b \in valid
    BY <1>1, <1>3, <1>5 DEF Ideintr, CInv, TypeOK
  <2>2. \A x \in Blocks : Visible'[x] = Visible[x]
    <3> SUFFICES ASSUME NEW x \in Blocks PROVE Visible'[x] = Visible[x]
      OBVIOUS
    <3>1. CASE \E c \in valid : slot[c] = x
      BY <1>3, <2>1, <3>1
    <3>2. CASE \A c \in valid : slot[c] # x
      <4>1. x # blk
        BY <1>1, <2>1, <3>2
      <4> QED
        BY <1>3, <2>1, <3>2, <4>1 DEF CInv, TypeOK
    <3> QED
      BY <3>1, <3>2
  <2>3. Visible' = Visible /\ Visible[blk] = data[b]
    BY <1>1, <2>1, <2>2, SameMap
  <2>4. Store!Flush(p, blk)
    BY <1>4, <2>1, <2>3 DEF Store!Flush
  <2> QED
    BY <2>4 DEF Store!StoreNext
<1>6. CASE b \notin dirty
  <2>1. data' = [data EXCEPT ![b] = disk[blk]] /\ disk' = disk /\ b \notin valid
    BY <1>1, <1>2, <1>6 DEF Ideintr
  <2>2. \A x \in Blocks : Visible'[x] = Visible[x]
    <3> SUFFICES ASSUME NEW x \in Blocks PROVE Visible'[x] = Visible[x]
      OBVIOUS
    <3>1. CASE x = blk
      <4>1. \A c \in valid : slot[c] # blk
        <5>1. \A c \in Bufs : slot[c] = slot[b] => c = b
          BY <1>1, Ranges DEF CInv, OneBuffer
        <5> QED
          BY <1>1, <2>1, <5>1 DEF CInv, TypeOK
      <4>2. Visible'[blk] = data'[b]
        BY <1>1, <1>3
      <4> QED
        BY <1>1, <2>1, <3>1, <4>1, <4>2 DEF CInv, TypeOK
    <3>2. CASE x # blk /\ \E c \in valid : slot[c] = x
      BY <1>1, <1>3, <2>1, <3>2 DEF CInv, TypeOK
    <3>3. CASE x # blk /\ \A c \in valid : slot[c] # x
      BY <1>1, <1>3, <2>1, <3>3
    <3> QED
      BY <3>1, <3>2, <3>3
  <2> QED
    BY <1>4, <2>1, <2>2, SameMap DEF Store!storeVars
<1> QED
  BY <1>5, <1>6

\* Every step maps to a step of BlockStore or to a stutter.
LEMMA MapNext == CInv /\ CInv' /\ [Next]_vars => [Store!StoreNext]_(Store!storeVars)
<1> SUFFICES ASSUME CInv, CInv', [Next]_vars PROVE Store!StoreNext \/ UNCHANGED Store!storeVars
  OBVIOUS
<1>1. ASSUME NEW p \in Procs, NEW blk \in Blocks, BgetHit(p, blk) PROVE UNCHANGED Store!storeVars
  BY <1>1, MapQuiet DEF BgetHit, ideVars
<1>2. ASSUME NEW p \in Procs, NEW blk \in Blocks, BgetRecycle(p, blk) PROVE UNCHANGED Store!storeVars
  BY <1>2, MapRecycle
<1>3. ASSUME NEW p \in Procs, Acquire(p) \/ Release(p) PROVE Store!StoreNext
  BY <1>3, MapLock
<1>4. ASSUME NEW p \in Procs, AcquireSleep(p) \/ Iderw(p) \/ IoReturn(p) \/ Drop(p)
      PROVE  UNCHANGED Store!storeVars
  BY <1>4, MapQuiet DEF AcquireSleep, Iderw, IoReturn, Drop, ideVars, bufVars
<1>5. ASSUME NEW p \in Procs, Pin(p) \/ Bwrite(p) PROVE Store!StoreNext
  BY <1>5, MapStore
<1>6. CASE Ideintr
  BY <1>6, MapIntr
<1>7. ASSUME NEW p \in Procs, NEW blk \in Blocks, BgetPanic(p, blk) PROVE UNCHANGED Store!storeVars
  BY <1>7, MapQuiet DEF BgetPanic, ideVars, bufVars
<1>8. CASE UNCHANGED vars
  BY <1>8, MapQuiet DEF vars, ideVars, bufVars
<1> QED
  BY <1>1, <1>2, <1>3, <1>4, <1>5, <1>6, <1>7, <1>8 DEF Next, ProcStep, Halted

\* BufferCache implements BlockStore: whatever is cached, recycled, queued and
\* written back, a block has one holder and reads as it was last written.
THEOREM Implementation == Spec => ImplementsBlockStore
  BY MapInit, MapNext, CInvNext, Invariance, PTL DEF Spec, ImplementsBlockStore, Store!StoreSpec

=============================================================================
