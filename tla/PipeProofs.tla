----------------------------- MODULE PipeProofs -----------------------------
(***************************************************************************)
(* PInv is inductive, so the safety properties of Pipe hold for every      *)
(* number of processes and descriptors, for every size of the ring and for *)
(* counters of every width that is a multiple of it; and Pipe implements   *)
(* ByteQueue.                                                              *)
(***************************************************************************)
EXTENDS PipeInv, FiniteSetTheorems, TLAPS

-----------------------------------------------------------------------------
(* Remainders.  The provers know what a % W is for 0 <= a < W, and that    *)
(* a = (a \div W) * W + (a % W); the rest follows from the quotient.       *)

LEMMA Products ==
  ASSUME NEW W \in Nat \ {0}, NEW n \in Int
  PROVE  /\ n * W \in Int
         /\ n >= 1 => n * W >= W
         /\ n <= -1 => n * W <= -W
<1>1. n >= 1 => n * W >= W
  OBVIOUS
<1>2. n <= -1 => n * W <= -W
  OBVIOUS
<1> QED
  BY <1>1, <1>2

LEMMA Distribute ==
  ASSUME NEW W \in Nat \ {0}, NEW n \in Int, NEW m \in Int
  PROVE  /\ n * W \in Int /\ m * W \in Int
         /\ (n + m) * W = n * W + m * W
         /\ (n - m) * W = n * W - m * W
  OBVIOUS

LEMMA Quotient ==
  ASSUME NEW W \in Nat \ {0}, NEW a \in Int
  PROVE  \E q \in Int : a = q * W + (a % W)
<1>1. a = (a \div W) * W + (a % W) /\ a \div W \in Int
  OBVIOUS
<1> QED
  BY <1>1

LEMMA Remainder ==
  ASSUME NEW W \in Nat \ {0}, NEW q \in Int, NEW r \in 0 .. W - 1, NEW a, a = q * W + r
  PROVE  a % W = r
<1>1. a \in Int /\ a % W \in 0 .. W - 1
  OBVIOUS
<1>2. PICK p \in Int : a = p * W + (a % W)
  BY <1>1, Quotient
<1> DEFINE n == q - p
<1>3. n \in Int /\ (a % W) - r < W /\ (a % W) - r > -W
  BY <1>1
<1>4. (n >= 1 => n * W >= W) /\ (n <= -1 => n * W <= -W)
  BY <1>3, Products
<1>5. n * W = (a % W) - r
  BY <1>1, <1>2, Distribute
<1>6. n = 0
  <2> HIDE DEF n
  <2> QED
    BY <1>3, <1>4, <1>5
<1>7. q = p
  BY <1>6
<1> QED
  BY <1>1, <1>2, <1>7, Distribute

LEMMA RemainderSum ==
  ASSUME NEW W \in Nat \ {0}, NEW a \in Int, NEW b \in Int
  PROVE  ((a % W) + b) % W = (a + b) % W
<1> DEFINE c == a % W
           d == c + b
           r == d % W
<1>1. c \in Int /\ d \in Int /\ d = c + b /\ r \in 0 .. W - 1
  OBVIOUS
<1>2. PICK p \in Int : a = p * W + c
  BY Quotient
<1> HIDE DEF d
<1>3. PICK q \in Int : d = q * W + r
  BY <1>1, Quotient
<1> HIDE DEF c, r
<1> DEFINE n == p + q
           x == a + b
<1>4. n \in Int /\ x = n * W + r
  BY <1>1, <1>2, <1>3, Distribute
<1> HIDE DEF n, x
<1>5. x % W = r
  BY <1>1, <1>4, Remainder
<1> QED
  BY <1>5 DEF r, d, c, x

-----------------------------------------------------------------------------
(* The ring *)

Counter == 0 .. Wrap - 1

LEMMA Sizes ==
  /\ PIPESIZE \in Nat \ {0} /\ Wrap \in Nat \ {0} /\ PIPESIZE < Wrap
  /\ Wrap % PIPESIZE = 0
  BY PipeAssumption

\* Wrapping does not change the place in the ring.
LEMMA Wrapped ==
  ASSUME NEW a \in Int, NEW b \in Int, b = a + Wrap
  PROVE  b % PIPESIZE = a % PIPESIZE
<1>1. Wrap \in Int /\ Wrap % PIPESIZE = 0
  BY Sizes
<1>2. ((Wrap % PIPESIZE) + a) % PIPESIZE = (Wrap + a) % PIPESIZE
  BY <1>1, RemainderSum, Sizes
<1>3. (Wrap % PIPESIZE) + a = a /\ Wrap + a = b
  BY <1>1
<1> QED
  BY <1>2, <1>3

\* How far apart two counters are.
LEMMA Apart ==
  ASSUME NEW r \in Counter, NEW w \in Counter
  PROVE  /\ (w - r) % Wrap = IF r <= w THEN w - r ELSE w - r + Wrap
         /\ (w - r) % Wrap \in Counter
         /\ (w - r) % Wrap = 0 <=> w = r
         /\ (w - r) % Wrap = PIPESIZE <=> w = (r + PIPESIZE) % Wrap
<1>1. (w - r) % Wrap = IF r <= w THEN w - r ELSE w - r + Wrap
  BY Sizes DEF Counter
<1>2. (r + PIPESIZE) % Wrap = IF r + PIPESIZE < Wrap THEN r + PIPESIZE ELSE r + PIPESIZE - Wrap
  BY Sizes DEF Counter
<1> QED
  BY <1>1, <1>2, Sizes DEF Counter

\* The writer's counter goes on by k, within the ring.
LEMMA Ahead ==
  ASSUME NEW r \in Counter, NEW w \in Counter, NEW k \in Nat, ((w - r) % Wrap) + k <= PIPESIZE
  PROVE  /\ (w + k) % Wrap \in Counter
         /\ (((w + k) % Wrap) - r) % Wrap = ((w - r) % Wrap) + k
<1>1. (w - r) % Wrap = IF r <= w THEN w - r ELSE w - r + Wrap
  BY Apart
<1>2. (w + k) % Wrap = IF w + k < Wrap THEN w + k ELSE w + k - Wrap
  BY <1>1, Sizes DEF Counter
<1>3. (w + k) % Wrap \in Counter
  BY <1>2, Sizes DEF Counter
<1> QED
  BY <1>1, <1>2, <1>3, Apart, Sizes DEF Counter

\* The reader's counter goes on by k, not past the writer's.
LEMMA Behind ==
  ASSUME NEW r \in Counter, NEW w \in Counter, NEW k \in Nat, k <= (w - r) % Wrap
  PROVE  /\ (r + k) % Wrap \in Counter
         /\ (w - ((r + k) % Wrap)) % Wrap = ((w - r) % Wrap) - k
<1>1. (w - r) % Wrap = IF r <= w THEN w - r ELSE w - r + Wrap
  BY Apart
<1>2. (r + k) % Wrap = IF r + k < Wrap THEN r + k ELSE r + k - Wrap
  BY <1>1, Sizes DEF Counter
<1> DEFINE n == (r + k) % Wrap
<1>3. n \in Counter
  BY <1>2, Sizes DEF Counter
<1>4. n = IF r + k < Wrap THEN r + k ELSE r + k - Wrap
  BY <1>2
<1> HIDE DEF n
<1>5. (w - n) % Wrap = IF n <= w THEN w - n ELSE w - n + Wrap
  BY <1>3, Apart
<1>6. (w - n) % Wrap = ((w - r) % Wrap) - k
  BY <1>1, <1>3, <1>4, <1>5, Sizes DEF Counter
<1> QED
  BY <1>3, <1>6 DEF n

-----------------------------------------------------------------------------
(* Descriptors *)

Tables == [Procs -> [Ends -> 0 .. NOFILE]]

Refs(f, e) == {d \in Procs \X (1 .. NOFILE) : d[2] <= f[d[1]][e]}

LEMMA RefsType ==
  ASSUME NEW f \in Tables, NEW e \in Ends
  PROVE  /\ IsFiniteSet(Refs(f, e)) /\ Cardinality(Refs(f, e)) \in Nat
         /\ Cardinality(Refs(f, e)) = 0 <=> \A p \in Procs : f[p][e] = 0
<1>1. IsFiniteSet(Procs \X (1 .. NOFILE))
  <2>1. IsFiniteSet(1 .. NOFILE)
    BY PipeAssumption, FS_Interval
  <2> QED
    BY <2>1, PipeAssumption, FS_Product
<1>2. IsFiniteSet(Refs(f, e))
  BY <1>1, FS_Subset DEF Refs
<1>3. Refs(f, e) = {} => \A p \in Procs : f[p][e] = 0
  <2> SUFFICES ASSUME NEW p \in Procs, f[p][e] # 0 PROVE <<p, 1>> \in Refs(f, e)
    OBVIOUS
  <2>1. f[p][e] \in 0 .. NOFILE
    BY DEF Tables
  <2> QED
    BY <2>1, PipeAssumption DEF Refs
<1>4. (\A p \in Procs : f[p][e] = 0) => Refs(f, e) = {}
  BY DEF Refs
<1> QED
  BY <1>2, <1>3, <1>4, FS_CardinalityType, FS_EmptySet

\* g has one descriptor more than f.
LEMMA RefsMore ==
  ASSUME NEW f \in Tables, NEW g \in Tables, NEW p \in Procs, NEW e \in Ends,
         g[p][e] = f[p][e] + 1,
         \A q \in Procs, x \in Ends : q # p \/ x # e => g[q][x] = f[q][x]
  PROVE  /\ Cardinality(Refs(g, e)) = Cardinality(Refs(f, e)) + 1
         /\ \A x \in Ends \ {e} : Refs(g, x) = Refs(f, x)
<1> DEFINE d == <<p, g[p][e]>>
<1>1. f[p][e] \in 0 .. NOFILE /\ g[p][e] \in 0 .. NOFILE /\ NOFILE \in Nat
  BY PipeAssumption DEF Tables
<1>2. Refs(g, e) = Refs(f, e) \cup {d}
  BY <1>1 DEF Refs
<1>3. d \notin Refs(f, e)
  BY <1>1 DEF Refs
<1>4. \A x \in Ends \ {e} : Refs(g, x) = Refs(f, x)
  BY DEF Refs
<1> HIDE DEF d
<1>5. IsFiniteSet(Refs(f, e))
  BY RefsType
<1>6. Cardinality(Refs(f, e) \cup {d}) = Cardinality(Refs(f, e)) + 1
  BY <1>3, <1>5, FS_AddElement
<1> QED
  BY <1>2, <1>4, <1>6

\* A process with none gets as many descriptors as another.
LEMMA RefsCopy ==
  ASSUME NEW f \in Tables, NEW q \in Procs, \A x \in Ends : f[q][x] = 0,
         NEW t \in [Ends -> 0 .. NOFILE], NEW e \in Ends
  PROVE  Cardinality(Refs([f EXCEPT ![q] = t], e)) = Cardinality(Refs(f, e)) + t[e]
<1> DEFINE g == [f EXCEPT ![q] = t]
           N == {q} \X (1 .. t[e])
<1>1. t[e] \in Nat /\ t[e] <= NOFILE /\ NOFILE \in Nat /\ g \in Tables
  BY PipeAssumption DEF Tables
<1>2. IsFiniteSet(N) /\ Cardinality(N) = t[e]
  <2> DEFINE A == {q}
             B == 1 .. t[e]
  <2>1. IsFiniteSet(B) /\ Cardinality(B) = t[e]
    BY <1>1, FS_Interval
  <2>2. IsFiniteSet(A) /\ Cardinality(A) = 1
    BY FS_Singleton
  <2> HIDE DEF A, B
  <2>3. IsFiniteSet(A \X B) /\ Cardinality(A \X B) = Cardinality(A) * Cardinality(B)
    BY <2>1, <2>2, FS_Product
  <2> QED
    BY <1>1, <2>1, <2>2, <2>3 DEF A, B
<1>3. Refs(g, e) = Refs(f, e) \cup N
  BY <1>1 DEF Refs, Tables
<1>4. Refs(f, e) \cap N = {}
  BY DEF Refs
<1>5. Cardinality({}) = 0
  BY FS_EmptySet
<1> HIDE DEF N, g
<1>6. Cardinality(Refs(g, e)) = Cardinality(Refs(f, e)) + Cardinality(N) - Cardinality({})
  BY <1>2, <1>3, <1>4, RefsType, FS_Union
<1>7. Cardinality(Refs(f, e)) \in Nat
  BY RefsType
<1> QED
  BY <1>1, <1>2, <1>5, <1>6, <1>7 DEF g

-----------------------------------------------------------------------------
(* What the invariant says of a state *)

LEMMA RingFacts ==
  ASSUME PInv
  PROVE  /\ nread \in Counter /\ nwrite \in Counter
         /\ Count \in 0 .. PIPESIZE
         /\ Count = 0 <=> nwrite = nread
         /\ Count = PIPESIZE <=> Full
<1>1. nread \in Counter /\ nwrite \in Counter /\ Count <= PIPESIZE
  BY DEF PInv, TypeOK, Ring, Counter
<1>2. Count \in Counter
  BY <1>1, Apart DEF Count
<1>3. (Count = 0 <=> nwrite = nread) /\ (Count = PIPESIZE <=> Full)
  BY <1>1, Apart DEF Count, Full
<1> QED
  BY <1>1, <1>2, <1>3, Sizes DEF Counter

\* A descriptor keeps its end open, and nobody is about to close that.
LEMMA InUse ==
  ASSUME PInv, NEW p \in Procs, NEW e \in Ends, fds[p][e] # 0
  PROVE  /\ fds[p][e] \in 1 .. NOFILE /\ ref[e] \in Nat \ {0} /\ opened[e] /\ live
         /\ \A q \in Procs : ending[q] # e
<1>1. fds \in Tables /\ fds[p][e] \in 1 .. NOFILE
  BY PipeAssumption DEF PInv, TypeOK, Tables
<1>2. ref[e] = Cardinality(Refs(fds, e))
  BY DEF PInv, NoUseAfterFree, Descriptors, Refs
<1>3. ref[e] \in Nat /\ ref[e] # 0
  BY <1>1, <1>2, RefsType
<1>4. opened[e] /\ live
  BY <1>3 DEF PInv, NoUseAfterFree
<1>5. \A q \in Procs : ending[q] # e
  BY <1>3 DEF PInv, Closing, Ends
<1> QED
  BY <1>1, <1>3, <1>4, <1>5

\* Who is inside a call or asleep has the end open.
LEMMA InCall ==
  ASSUME PInv, NEW p \in Procs
  PROVE  /\ pc[p] \in Readers => opened["r"] /\ live /\ \A q \in Procs : ending[q] # "r"
         /\ pc[p] \in Writers => opened["w"] /\ live /\ \A q \in Procs : ending[q] # "w"
<1>1. pc[p] \in Readers => fds[p]["r"] > 0
  BY DEF PInv, NoUseAfterFree, Readers, Has
<1>2. pc[p] \in Writers => fds[p]["w"] > 0
  BY DEF PInv, NoUseAfterFree, Writers, Has
<1> QED
  BY <1>1, <1>2, InUse DEF Ends

LEMMA StoredType ==
  ASSUME TypeOK, NEW k \in Nat, NEW s \in [1 .. k -> Bytes]
  PROVE  Len(s) = k /\ Stored(s) \in [Indices -> Bytes]
<1>1. s \in Seq(Bytes) /\ Len(s) = k
  OBVIOUS
<1>2. \A i \in Indices : ((i - nwrite) % PIPESIZE) + 1 \in Nat \ {0}
  BY Sizes DEF Indices, TypeOK
<1> QED
  BY <1>1, <1>2 DEF Stored, TypeOK

-----------------------------------------------------------------------------
(* Types *)

LEMMA TypeInd ==
  ASSUME PInv, NEW p \in Procs, Step(p)
  PROVE  TypeOK'
<1>1. TypeOK /\ NoProc \notin Procs /\ PIPESIZE \in Nat \ {0} /\ Wrap \in Nat \ {0}
  BY PipeAssumption DEF PInv
<1>2. Count \in 0 .. PIPESIZE
  BY RingFacts
<1>3. \A n \in Int : n % Wrap \in 0 .. Wrap - 1
  BY <1>1
<1>4. ASSUME NEW k \in 0 .. PIPESIZE, \E s \in [1 .. k -> Bytes] : data' = Stored(s), nwrite' = (nwrite + k) % Wrap
      PROVE  data' \in [Indices -> Bytes] /\ nwrite' \in 0 .. Wrap - 1
  <2>1. k \in Nat /\ nwrite + k \in Int
    BY <1>1 DEF TypeOK
  <2>2. data' \in [Indices -> Bytes]
    BY <1>1, <1>4, <2>1, StoredType
  <2> QED
    BY <1>3, <1>4, <2>1, <2>2
<1>5. CASE WriteAll(p)
  <2>1. left[p] \in 0 .. PIPESIZE
    BY <1>1, <1>2, <1>5 DEF WriteAll, TypeOK
  <2>2. data' \in [Indices -> Bytes] /\ nwrite' \in 0 .. Wrap - 1
    BY <1>4, <1>5, <2>1 DEF WriteAll
  <2> QED
    BY <1>1, <1>5, <2>2 DEF WriteAll, Locked, WakeReaders, Wake, TypeOK, PCs, fileVars
<1>6. ASSUME Fill(p) PROVE data' \in [Indices -> Bytes] /\ nwrite' \in 0 .. Wrap - 1 /\ left[p] - (PIPESIZE - Count) \in Nat
  <2>1. PIPESIZE - Count \in 0 .. PIPESIZE
    BY <1>1, <1>2
  <2>2. data' \in [Indices -> Bytes] /\ nwrite' \in 0 .. Wrap - 1
    BY <1>4, <1>6, <2>1 DEF Fill
  <2> QED
    BY <1>1, <1>2, <1>6, <2>2 DEF Fill, TypeOK
<1>7. CASE WriteFail(p)
  <2>1. Fill(p) /\ data' \in [Indices -> Bytes] /\ nwrite' \in 0 .. Wrap - 1
    BY <1>6, <1>7 DEF WriteFail
  <2>2. pc[p] = "write" /\ plock = NoProc
    BY <2>1 DEF Fill, Locked
  <2>3. gaveup' \in BOOLEAN
    BY <1>1, <1>7 DEF WriteFail, TypeOK
  <2> QED
    BY <1>1, <1>7, <2>1, <2>2, <2>3 DEF WriteFail, TypeOK, PCs, fileVars
<1>8. CASE WriteWait(p)
  <2>1. Fill(p) /\ data' \in [Indices -> Bytes] /\ nwrite' \in 0 .. Wrap - 1 /\ left[p] - (PIPESIZE - Count) \in Nat
    BY <1>6, <1>8 DEF WriteWait
  <2>2. pc[p] = "write" /\ plock = NoProc
    BY <2>1 DEF Fill, Locked
  <2>3. left' \in [Procs -> Nat]
    BY <1>1, <1>8, <2>1 DEF WriteWait, TypeOK
  <2> QED
    BY <1>1, <1>8, <2>1, <2>2, <2>3 DEF WriteWait, WakeReaders, Wake, TypeOK, PCs, fileVars
<1>9. CASE ReadFail(p)
  BY <1>1, <1>9 DEF ReadFail, Locked, TypeOK, PCs, fileVars, pipeVars
<1>10. CASE ReadWait(p)
  BY <1>1, <1>10 DEF ReadWait, Locked, TypeOK, PCs, fileVars
<1>11. CASE ReadSome(p)
  <2>1. nread' \in 0 .. Wrap - 1
    BY <1>1, <1>2, <1>3, <1>11 DEF ReadSome, Least, TypeOK
  <2> QED
    BY <1>1, <1>11, <2>1 DEF ReadSome, Locked, WakeWriters, Wake, TypeOK, PCs, fileVars
<1>12. CASE FallAsleep(p)
  BY <1>1, <1>12 DEF FallAsleep, TypeOK, PCs, fileVars
<1>13. CASE SysPipe(p)
  <2>1. NOFILE \in Nat /\ fds[p]["r"] \in Nat /\ fds[p]["w"] \in Nat
    BY <1>1, PipeAssumption DEF TypeOK, Ends
  <2>2. 1 \in 0 .. NOFILE
    BY <1>13, <2>1 DEF SysPipe, FreeFds
  <2>3. fds' \in [Procs -> [Ends -> 0 .. NOFILE]] /\ ref' \in [Ends -> Nat] /\ opened' \in [Ends -> BOOLEAN]
    BY <1>1, <1>13, <2>2 DEF SysPipe, TypeOK
  <2>4. nread' \in 0 .. Wrap - 1 /\ nwrite' \in 0 .. Wrap - 1 /\ live' \in BOOLEAN /\ gaveup' \in BOOLEAN
    <3>1. nread' = 0 /\ nwrite' = 0 /\ live' = TRUE /\ gaveup' = FALSE
      BY <1>13 DEF SysPipe
    <3>2. 0 \in 0 .. Wrap - 1
      BY <1>1
    <3> QED
      BY <3>1, <3>2
  <2>5. UNCHANGED <<data, plock, pc, left, ending, killed>>
    BY <1>13 DEF SysPipe, threads
  <2> QED
    BY <1>1, <2>3, <2>4, <2>5 DEF TypeOK
<1>14. CASE SysDup(p)
  <2> SUFFICES ASSUME NEW e \in Ends, FreeFds(p) > 0,
                      fds' = [fds EXCEPT ![p][e] = fds[p][e] + 1], ref' = [ref EXCEPT ![e] = ref[e] + 1],
                      UNCHANGED <<pipeVars, threads, killed, gaveup>>
               PROVE  TypeOK'
    BY <1>14 DEF SysDup
  <2>1. NOFILE \in Nat /\ fds[p]["r"] \in Nat /\ fds[p]["w"] \in Nat
    BY <1>1, PipeAssumption DEF TypeOK, Ends
  <2>2. fds[p][e] + 1 \in 0 .. NOFILE /\ ref[e] + 1 \in Nat
    BY <1>1, <2>1 DEF FreeFds, TypeOK, Ends
  <2>3. fds' \in [Procs -> [Ends -> 0 .. NOFILE]] /\ ref' \in [Ends -> Nat]
    BY <1>1, <2>2 DEF TypeOK
  <2> QED
    BY <1>1, <2>3 DEF TypeOK, threads, pipeVars
<1>15. ASSUME NEW e \in Ends, NEW next \in {"closing", "exitclosing"}, FileClose(p, e, next), pc[p] \in {"user", "exit"}
       PROVE  TypeOK'
  <2>1. fds[p][e] \in 1 .. NOFILE /\ ref[e] \in Nat \ {0} /\ NOFILE \in Nat
    BY <1>1, <1>15, InUse, PipeAssumption DEF FileClose, Has, TypeOK
  <2>2. fds[p][e] - 1 \in 0 .. NOFILE /\ ref[e] - 1 \in Nat
    BY <2>1
  <2>3. fds' = [fds EXCEPT ![p][e] = fds[p][e] - 1] /\ ref' = [ref EXCEPT ![e] = ref[e] - 1]
    BY <1>15 DEF FileClose
  <2>4. fds' \in [Procs -> [Ends -> 0 .. NOFILE]] /\ ref' \in [Ends -> Nat]
    BY <1>1, <2>2, <2>3 DEF TypeOK
  <2>5. ending' \in [Procs -> Ends \cup {"none"}] /\ pc' \in [Procs -> PCs]
        /\ \A q \in Procs : pc'[q] = pc[q] \/ (q = p /\ pc'[q] = next)
    <3>1. \/ pc' = [pc EXCEPT ![p] = next] /\ ending' = [ending EXCEPT ![p] = e]
          \/ pc' = pc /\ ending' = ending
      BY <1>15 DEF FileClose
    <3>2. pc \in [Procs -> PCs] /\ ending \in [Procs -> Ends \cup {"none"}] /\ next \in PCs
      BY <1>1 DEF TypeOK, PCs
    <3> QED
      BY <3>1, <3>2
  <2> QED
    BY <1>1, <1>15, <2>4, <2>5 DEF FileClose, TypeOK, pipeVars
<1>16. CASE SysClose(p)
  BY <1>15, <1>16 DEF SysClose, User
<1>17. CASE ExitClose(p)
  BY <1>15, <1>17 DEF ExitClose
<1>18. CASE ExitStart(p) \/ ExitEnd(p)
  BY <1>1, <1>18 DEF ExitStart, ExitEnd, TypeOK, PCs, fileVars, pipeVars
<1>19. CASE SysRead(p) \/ SysWrite(p)
  <2>1. left' \in [Procs -> Nat]
    BY <1>1, <1>19, PipeAssumption DEF SysRead, SysWrite, TypeOK
  <2> QED
    BY <1>1, <1>19, <2>1 DEF SysRead, SysWrite, User, TypeOK, PCs, fileVars, pipeVars
<1>20. CASE PipeClose(p)
  <2>1. data' \in [Indices -> Bytes] /\ nread' \in 0 .. Wrap - 1 /\ nwrite' \in 0 .. Wrap - 1
    BY <1>1, <1>20, PipeAssumption DEF PipeClose, Shut, TypeOK
  <2>2. opened' \in [Ends -> BOOLEAN] /\ live' \in BOOLEAN /\ ending' \in [Procs -> Ends \cup {"none"}]
    BY <1>1, <1>20 DEF PipeClose, Shut, TypeOK, Ends
  <2>3. /\ pc' \in [Procs -> PCs]
        /\ \A q \in Procs : pc'[q] \in {"rsleeping", "wsleeping"} <=> pc[q] \in {"rsleeping", "wsleeping"}
    <3>1. /\ Wake(p, Return(p), "rsleep", "read") \/ Wake(p, Return(p), "wsleep", "write")
          /\ pc[p] \in {"closing", "exitclosing"} /\ Return(p) \in {"user", "exit"}
      BY <1>20 DEF PipeClose, WakeReaders, WakeWriters, Return
    <3>2. pc' \in [Procs -> PCs]
      BY <1>1, <3>1 DEF Wake, TypeOK, PCs
    <3>3. \A q \in Procs : pc'[q] = (IF q = p THEN Return(p) ELSE pc'[q])
                           /\ (q # p => pc'[q] \in {pc[q], "read", "write"})
                           /\ (q # p /\ pc'[q] # pc[q] => pc[q] \in {"rsleep", "wsleep"})
      BY <3>1 DEF Wake
    <3> QED
      BY <3>1, <3>2, <3>3
  <2> QED
    BY <1>1, <1>20, <2>1, <2>2, <2>3 DEF PipeClose, Shut, TypeOK, fileVars
<1>21. CASE Kill(p)
  BY <1>1, <1>21 DEF Kill, TypeOK, PCs, fileVars, pipeVars
<1>22. ASSUME NEW q \in Procs, Fork(p, q) PROVE TypeOK'
  BY <1>1, <1>22 DEF Fork, User, TypeOK, PCs, Ends, pipeVars
<1> QED
  BY <1>5, <1>7, <1>8, <1>9, <1>10, <1>11, <1>12, <1>13, <1>14, <1>16, <1>17, <1>18, <1>19, <1>20, <1>21, <1>22 DEF Step

-----------------------------------------------------------------------------
(* References *)

\* The steps that open or close no descriptor, and no end of the pipe.
Quiet(p) ==
  \/ WriteAll(p) \/ WriteFail(p) \/ WriteWait(p)
  \/ ReadFail(p) \/ ReadWait(p) \/ ReadSome(p) \/ FallAsleep(p)
  \/ SysRead(p) \/ SysWrite(p) \/ ExitStart(p) \/ ExitEnd(p) \/ Kill(p)

LEMMA QuietFrame ==
  ASSUME NEW p \in Procs, Quiet(p)
  PROVE  UNCHANGED <<fds, ref, opened, live, ending>>
  BY DEF Quiet, WriteAll, WriteFail, WriteWait, ReadFail, ReadWait, ReadSome, FallAsleep, SysRead, SysWrite,
         ExitStart, ExitEnd, Kill, fileVars, pipeVars

\* One of the descriptors of p is closed.
Drop(p) ==
  \E e \in Ends, next \in {"closing", "exitclosing"} :
    /\ pc[p] = (IF next = "closing" THEN "user" ELSE "exit")
    /\ FileClose(p, e, next)

LEMMA Kinds ==
  ASSUME NEW p \in Procs, Step(p)
  PROVE  Quiet(p) \/ SysPipe(p) \/ SysDup(p) \/ Drop(p) \/ PipeClose(p) \/ \E q \in Procs : Fork(p, q)
<1>1. SysClose(p) => Drop(p)
  BY DEF SysClose, Drop, User
<1>2. ExitClose(p) => Drop(p)
  BY DEF ExitClose, Drop
<1> QED
  BY <1>1, <1>2 DEF Step, Quiet

\* Afterwards p has n descriptors of e, and nothing else is different.
Changes(p, e, n) ==
  /\ fds'[p][e] = n /\ \A q \in Procs, x \in Ends : q # p \/ x # e => fds'[q][x] = fds[q][x]
  /\ \A x \in Ends \ {e} : ref'[x] = ref[x]

LEMMA DupFacts ==
  ASSUME TypeOK, NEW p \in Procs, SysDup(p)
  PROVE  \E e \in Ends : /\ fds[p][e] > 0 /\ Changes(p, e, fds[p][e] + 1) /\ ref'[e] = ref[e] + 1
                         /\ UNCHANGED <<pipeVars, threads, killed, gaveup>>
<1> SUFFICES ASSUME NEW e \in Ends, fds[p][e] > 0,
                    fds' = [fds EXCEPT ![p][e] = fds[p][e] + 1], ref' = [ref EXCEPT ![e] = ref[e] + 1]
             PROVE  Changes(p, e, fds[p][e] + 1) /\ ref'[e] = ref[e] + 1
  BY DEF SysDup, Has
<1> QED
  BY DEF Changes, TypeOK

LEMMA DropFacts ==
  ASSUME TypeOK, NEW p \in Procs, Drop(p)
  PROVE  /\ pc[p] \in {"user", "exit"} /\ UNCHANGED <<pipeVars, left, killed, gaveup>>
         /\ \E e \in Ends : /\ fds[p][e] > 0 /\ Changes(p, e, fds[p][e] - 1) /\ ref'[e] = ref[e] - 1
                            /\ \/ /\ ref[e] = 1 /\ ending' = [ending EXCEPT ![p] = e]
                                  /\ \E next \in {"closing", "exitclosing"} : pc' = [pc EXCEPT ![p] = next]
                               \/ ref[e] # 1 /\ UNCHANGED <<pc, ending>>
<1>1. pc[p] \in {"user", "exit"} /\ UNCHANGED <<pipeVars, left, killed, gaveup>>
  BY DEF Drop, FileClose
<1>2. ASSUME NEW e \in Ends, NEW next, FileClose(p, e, next)
      PROVE  Changes(p, e, fds[p][e] - 1) /\ ref'[e] = ref[e] - 1 /\ fds[p][e] > 0
  BY <1>2 DEF FileClose, Changes, Has, TypeOK
<1> QED
  BY <1>1, <1>2 DEF Drop, FileClose

LEMMA Counts ==
  ASSUME PInv
  PROVE  fds \in Tables /\ \A e \in Ends : Descriptors(e) = Refs(fds, e) /\ ref[e] = Cardinality(Refs(fds, e))
  BY DEF PInv, TypeOK, Tables, NoUseAfterFree, Descriptors, Refs

\* The reference counts stay the numbers of descriptors.
LEMMA CountInd ==
  ASSUME PInv, NEW p \in Procs, Step(p), NEW x \in Ends
  PROVE  ref'[x] = Cardinality(Refs(fds', x))
<1>1. fds \in Tables /\ (\A e \in Ends : ref[e] = Cardinality(Refs(fds, e))) /\ ref \in [Ends -> Nat]
  BY Counts DEF PInv, TypeOK
<1>2. fds' \in Tables
  BY TypeInd DEF TypeOK, Tables
<1>3. CASE Quiet(p)
  BY <1>1, <1>3, QuietFrame
<1>4. CASE SysPipe(p)
  <2>1. \A e \in Ends : ref[e] = 0
    BY <1>4 DEF SysPipe
  <2>2. \A q \in Procs, e \in Ends : fds[q][e] = 0
    BY <1>1, <2>1, RefsType
  <2>3. fds' = [fds EXCEPT ![p] = [e \in Ends |-> 1]] /\ ref'[x] = 1
    BY <1>4 DEF SysPipe
  <2>4. [e \in Ends |-> 1] \in [Ends -> 0 .. NOFILE]
    BY <1>1, <1>2, <2>3 DEF Tables
  <2>5. Cardinality(Refs(fds', x)) = Cardinality(Refs(fds, x)) + 1
    BY <1>1, <2>2, <2>3, <2>4, RefsCopy
  <2> QED
    BY <1>1, <2>1, <2>3, <2>5
<1>5. CASE SysDup(p)
  <2>1. PICK e \in Ends : Changes(p, e, fds[p][e] + 1) /\ ref'[e] = ref[e] + 1
    BY <1>5, DupFacts DEF PInv
  <2>2. /\ Cardinality(Refs(fds', e)) = Cardinality(Refs(fds, e)) + 1
        /\ \A y \in Ends \ {e} : Refs(fds', y) = Refs(fds, y)
    BY <1>1, <1>2, <2>1, RefsMore DEF Changes
  <2> QED
    BY <1>1, <2>1, <2>2 DEF Changes
<1>6. CASE Drop(p)
  <2>1. PICK e \in Ends : Changes(p, e, fds[p][e] - 1) /\ ref'[e] = ref[e] - 1
    BY <1>6, DropFacts DEF PInv
  <2>2. /\ fds[p][e] = fds'[p][e] + 1
        /\ \A q \in Procs, y \in Ends : q # p \/ y # e => fds[q][y] = fds'[q][y]
    <3>1. fds[p][e] \in Nat
      BY <1>1 DEF Tables
    <3>2. fds[p][e] = fds'[p][e] + 1
      BY <2>1, <3>1 DEF Changes
    <3> QED
      BY <2>1, <3>2 DEF Changes
  <2>3. /\ Cardinality(Refs(fds, e)) = Cardinality(Refs(fds', e)) + 1
        /\ \A y \in Ends \ {e} : Refs(fds, y) = Refs(fds', y)
    BY <1>1, <1>2, <2>2, RefsMore
  <2>4. Cardinality(Refs(fds', e)) \in Nat
    BY <1>2, RefsType
  <2> QED
    BY <1>1, <2>1, <2>3, <2>4 DEF Changes
<1>7. CASE PipeClose(p)
  BY <1>1, <1>7 DEF PipeClose, Shut, fileVars
<1>8. ASSUME NEW q \in Procs, Fork(p, q) PROVE ref'[x] = Cardinality(Refs(fds', x))
  <2>1. fds' = [fds EXCEPT ![q] = fds[p]] /\ ref'[x] = ref[x] + fds[p][x]
    BY <1>8 DEF Fork
  <2>2. \A e \in Ends : fds[q][e] = 0
    BY <1>8 DEF Fork, PInv, Absent
  <2>3. fds[p] \in [Ends -> 0 .. NOFILE]
    BY <1>1 DEF Tables
  <2> QED
    BY <1>1, <2>1, <2>2, <2>3, RefsCopy
<1> QED
  BY <1>3, <1>4, <1>5, <1>6, <1>7, <1>8, Kinds

LEMMA NoneClosing ==
  ASSUME PInv, NEW p \in Procs, pc[p] \in {"user", "exit"}
  PROVE  ending[p] = "none"
  BY DEF PInv, Closing

LEMMA ForkFacts ==
  ASSUME PInv, NEW p \in Procs, NEW q \in Procs, Fork(p, q)
  PROVE  /\ \A e \in Ends : /\ ref'[e] = ref[e] + fds[p][e]
                            /\ ref[e] \in Nat /\ fds[p][e] \in Nat
                            /\ fds[p][e] > 0 => ref[e] > 0
         /\ pc[q] = "absent" /\ pc' = [pc EXCEPT ![q] = "user"]
         /\ fds' = [fds EXCEPT ![q] = fds[p]]
         /\ UNCHANGED <<opened, live, ending, data, nread, nwrite, plock, left, killed, gaveup>>
<1>1. TypeOK
  BY DEF PInv
<1>2. \A e \in Ends : fds[p][e] > 0 => ref[e] > 0
  BY InUse
<1>3. pc[q] = "absent" /\ pc' = [pc EXCEPT ![q] = "user"] /\ fds' = [fds EXCEPT ![q] = fds[p]]
      /\ UNCHANGED <<opened, live, ending, data, nread, nwrite, plock, left, killed, gaveup>>
  BY DEF Fork, pipeVars
<1>4. \A e \in Ends : ref'[e] = ref[e] + fds[p][e]
  BY DEF Fork
<1>5. \A e \in Ends : ref[e] \in Nat /\ fds[p][e] \in Nat
  BY <1>1 DEF TypeOK
<1> QED
  BY <1>2, <1>3, <1>4, <1>5

LEMMA CloseFacts ==
  ASSUME PInv, NEW p \in Procs, PipeClose(p)
  PROVE  /\ ending[p] \in Ends /\ ref[ending[p]] = 0
         /\ \A q \in Procs \ {p} : ending[q] # ending[p]
         /\ ending' = [ending EXCEPT ![p] = "none"]
         /\ opened' = [opened EXCEPT ![ending[p]] = FALSE]
         /\ live' = opened[IF ending[p] = "r" THEN "w" ELSE "r"]
         /\ UNCHANGED <<fds, ref, plock, left, killed, gaveup>>
<1>1. pc[p] \in {"closing", "exitclosing"}
  BY DEF PipeClose
<1>2. ending[p] \in Ends /\ ref[ending[p]] = 0 /\ \A q \in Procs \ {p} : ending[q] # ending[p]
  BY <1>1 DEF PInv, Closing, TypeOK
<1>3. Shut(p, ending[p])
  BY DEF PipeClose
<1> QED
  BY <1>2, <1>3 DEF Shut, fileVars

\* A pipe with no page has no references and nobody who closes it.
LEMMA PipeFacts ==
  ASSUME PInv, NEW p \in Procs, SysPipe(p)
  PROVE  /\ \A q \in Procs : ending[q] = "none"
         /\ \A q \in Procs, e \in Ends : fds[q][e] = 0
         /\ \A e \in Ends : ref'[e] = 1 /\ opened'[e] /\ fds'[p][e] = 1
         /\ \A q \in Procs \ {p} : fds'[q] = fds[q]
         /\ live' /\ nread' = 0 /\ nwrite' = 0 /\ gaveup' = FALSE
         /\ UNCHANGED <<data, plock, pc, left, ending, killed>>
<1>1. ~live
  BY DEF SysPipe
<1>2. TypeOK
  BY DEF PInv
<1>3. \A q \in Procs : ending[q] = "none"
  BY <1>1, <1>2 DEF PInv, NoUseAfterFree, TypeOK
<1>4. \A q \in Procs, e \in Ends : fds[q][e] = 0
  BY <1>1, InUse
<1>5. \A e \in Ends : ref'[e] = 1 /\ opened'[e]
  BY DEF SysPipe
<1>6. (\A e \in Ends : fds'[p][e] = 1) /\ \A q \in Procs \ {p} : fds'[q] = fds[q]
  BY <1>2 DEF SysPipe, TypeOK
<1>7. live' /\ nread' = 0 /\ nwrite' = 0 /\ gaveup' = FALSE /\ UNCHANGED <<data, plock, pc, left, ending, killed>>
  BY DEF SysPipe, threads
<1> QED
  BY <1>3, <1>4, <1>5, <1>6, <1>7

\* An end is open until pipeclose() after its last descriptor.
LEMMA OpenInd ==
  ASSUME PInv, NEW p \in Procs, Step(p), NEW x \in Ends
  PROVE  opened'[x] <=> ref'[x] > 0 \/ \E q \in Procs : ending'[q] = x
<1>1. TypeOK /\ (opened[x] <=> ref[x] > 0 \/ \E q \in Procs : ending[q] = x)
  BY DEF PInv, NoUseAfterFree
<1>2. ref[x] \in Nat /\ x # "none"
  BY <1>1 DEF TypeOK, Ends
<1>3. CASE Quiet(p)
  BY <1>1, <1>3, QuietFrame
<1>4. CASE SysPipe(p)
  <2>1. opened'[x] /\ ref'[x] = 1
    BY <1>4, PipeFacts
  <2> QED
    BY <2>1
<1>5. CASE SysDup(p)
  <2>1. PICK e \in Ends : /\ fds[p][e] > 0 /\ Changes(p, e, fds[p][e] + 1) /\ ref'[e] = ref[e] + 1
                          /\ UNCHANGED <<pipeVars, threads>>
    BY <1>1, <1>5, DupFacts
  <2>2. opened' = opened /\ ending' = ending
    BY <2>1 DEF pipeVars, threads
  <2>3. CASE x = e
    <3>1. opened[x] /\ ref[x] > 0
      BY <2>1, <2>3, InUse
    <3> QED
      BY <1>2, <2>1, <2>2, <2>3, <3>1
  <2>4. CASE x # e
    BY <1>1, <2>1, <2>2, <2>4 DEF Changes
  <2> QED
    BY <2>3, <2>4
<1>6. CASE Drop(p)
  <2>1. pc[p] \in {"user", "exit"} /\ opened' = opened
    BY <1>1, <1>6, DropFacts DEF pipeVars
  <2>2. PICK e \in Ends : /\ fds[p][e] > 0 /\ Changes(p, e, fds[p][e] - 1) /\ ref'[e] = ref[e] - 1
                          /\ \/ ref[e] = 1 /\ ending' = [ending EXCEPT ![p] = e]
                             \/ ref[e] # 1 /\ UNCHANGED <<pc, ending>>
    BY <1>1, <1>6, DropFacts
  <2>3. opened[e] /\ ref[e] \in Nat \ {0} /\ ending[p] = "none"
    BY <2>1, <2>2, InUse, NoneClosing
  <2>4. CASE ref[e] = 1
    <3>1. ending'[p] = e /\ \A q \in Procs \ {p} : ending'[q] = ending[q]
      BY <1>1, <2>2, <2>4 DEF TypeOK
    <3>2. CASE x = e
      BY <2>1, <2>3, <3>1, <3>2
    <3>3. CASE x # e
      BY <1>1, <1>2, <2>1, <2>2, <2>3, <3>1, <3>3 DEF Changes
    <3> QED
      BY <3>2, <3>3
  <2>5. CASE ref[e] # 1
    <3>1. ending' = ending /\ (x # e => ref'[x] = ref[x]) /\ (x = e => ref'[x] > 0 /\ ref[x] > 0)
      BY <2>2, <2>3, <2>5 DEF Changes
    <3> QED
      BY <1>1, <2>1, <3>1
  <2> QED
    BY <2>4, <2>5
<1>7. CASE PipeClose(p)
  <2>1. ending'[p] = "none" /\ \A q \in Procs \ {p} : ending'[q] = ending[q]
    BY <1>1, <1>7, CloseFacts DEF TypeOK
  <2>2. CASE x = ending[p]
    <3>1. ~opened'[x] /\ ref'[x] = 0
      BY <1>1, <1>7, <2>2, CloseFacts DEF TypeOK
    <3>2. \A q \in Procs : ending'[q] # x
      BY <1>2, <1>7, <2>1, <2>2, CloseFacts
    <3> QED
      BY <3>1, <3>2
  <2>3. CASE x # ending[p]
    <3>1. opened'[x] = opened[x] /\ ref'[x] = ref[x]
      BY <1>1, <1>7, <2>3, CloseFacts DEF TypeOK
    <3> QED
      BY <1>1, <1>2, <2>1, <2>3, <3>1
  <2> QED
    BY <2>2, <2>3
<1>8. ASSUME NEW q \in Procs, Fork(p, q)
      PROVE  opened'[x] <=> ref'[x] > 0 \/ \E r \in Procs : ending'[r] = x
  <2>1. ref'[x] > 0 <=> ref[x] > 0
    BY <1>8, ForkFacts
  <2> QED
    BY <1>1, <1>8, <2>1, ForkFacts
<1> QED
  BY <1>3, <1>4, <1>5, <1>6, <1>7, <1>8, Kinds

LEMMA LiveInd ==
  ASSUME PInv, NEW p \in Procs, Step(p)
  PROVE  live' <=> \E e \in Ends : opened'[e]
<1>1. TypeOK /\ (live <=> \E e \in Ends : opened[e])
  BY DEF PInv, NoUseAfterFree
<1>2. CASE Quiet(p)
  BY <1>1, <1>2, QuietFrame
<1>3. CASE SysPipe(p)
  BY <1>3, PipeFacts DEF Ends
<1>4. CASE SysDup(p)
  BY <1>1, <1>4, DupFacts DEF pipeVars
<1>5. CASE Drop(p)
  BY <1>1, <1>5, DropFacts DEF pipeVars
<1>6. CASE PipeClose(p)
  <2> DEFINE o == IF ending[p] = "r" THEN "w" ELSE "r"
  <2>1. o \in Ends /\ Ends = {ending[p], o} /\ live' = opened[o] /\ opened'[o] = opened[o] /\ ~opened'[ending[p]]
    BY <1>1, <1>6, CloseFacts DEF TypeOK, Ends
  <2> QED
    BY <2>1
<1>7. ASSUME NEW q \in Procs, Fork(p, q) PROVE live' <=> \E e \in Ends : opened'[e]
  BY <1>1, <1>7, ForkFacts
<1> QED
  BY <1>2, <1>3, <1>4, <1>5, <1>6, <1>7, Kinds

\* Whoever is in a call had the descriptor when it began, and keeps it.
LEMMA CallInd ==
  ASSUME PInv, NEW p \in Procs, Step(p), NEW q \in Procs
  PROVE  /\ pc'[q] \in Readers => fds'[q]["r"] > 0
         /\ pc'[q] \in Writers => fds'[q]["w"] > 0
<1>1. TypeOK /\ (pc[q] \in Readers => fds[q]["r"] > 0) /\ (pc[q] \in Writers => fds[q]["w"] > 0)
  BY DEF PInv, NoUseAfterFree, Readers, Writers, Has
<1> USE DEF Readers, Writers
<1>2. CASE Quiet(p)
  <2>1. fds' = fds
    BY <1>2, QuietFrame
  <2>2. pc'[q] \in Readers => pc[q] \in Readers \/ fds[q]["r"] > 0
    BY <1>1, <1>2 DEF Quiet, WriteAll, WriteFail, WriteWait, Fill, ReadFail, ReadWait, ReadSome, FallAsleep, SysRead,
       SysWrite, ExitStart, ExitEnd, Kill, WakeReaders, WakeWriters, Wake, TypeOK, Has
  <2>3. pc'[q] \in Writers => pc[q] \in Writers \/ fds[q]["w"] > 0
    BY <1>1, <1>2 DEF Quiet, WriteAll, WriteFail, WriteWait, Fill, ReadFail, ReadWait, ReadSome, FallAsleep, SysRead,
       SysWrite, ExitStart, ExitEnd, Kill, WakeReaders, WakeWriters, Wake, TypeOK, Has
  <2> QED
    BY <1>1, <1>2, <2>1, <2>2, <2>3
<1>3. CASE SysPipe(p)
  <2>1. pc[p] = "user" /\ pc' = pc /\ (q # p => fds'[q] = fds[q])
    BY <1>3, PipeFacts DEF SysPipe, User
  <2> QED
    BY <1>1, <2>1
<1>4. CASE SysDup(p)
  <2>1. pc[p] = "user" /\ pc' = pc
    BY <1>1, <1>4, DupFacts DEF SysDup, User, threads
  <2>2. q # p => \A e \in Ends : fds'[q][e] = fds[q][e]
    BY <1>1, <1>4, DupFacts DEF Changes
  <2> QED
    BY <1>1, <2>1, <2>2 DEF Ends
<1>5. CASE Drop(p)
  <2>1. pc'[p] \notin Readers \cup Writers /\ (q # p => pc'[q] = pc[q])
    BY <1>1, <1>5, DropFacts DEF TypeOK
  <2>2. q # p => \A e \in Ends : fds'[q][e] = fds[q][e]
    BY <1>1, <1>5, DropFacts DEF Changes
  <2> QED
    BY <1>1, <2>1, <2>2 DEF Ends
<1>6. CASE PipeClose(p)
  <2>1. fds' = fds /\ Return(p) \in {"user", "exit"}
    BY <1>6, CloseFacts DEF Return
  <2>2. Wake(p, Return(p), "rsleep", "read") \/ Wake(p, Return(p), "wsleep", "write")
    BY <1>6 DEF PipeClose, WakeReaders, WakeWriters
  <2> QED
    BY <1>1, <2>1, <2>2 DEF Wake
<1>7. ASSUME NEW r \in Procs, Fork(p, r)
      PROVE  (pc'[q] \in Readers => fds'[q]["r"] > 0) /\ (pc'[q] \in Writers => fds'[q]["w"] > 0)
  <2>1. pc'[r] = "user" /\ (q # r => pc'[q] = pc[q] /\ fds'[q] = fds[q])
    BY <1>1, <1>7, ForkFacts DEF TypeOK
  <2> QED
    BY <1>1, <2>1
<1> QED
  BY <1>2, <1>3, <1>4, <1>5, <1>6, <1>7, Kinds

LEMMA UseInd ==
  ASSUME PInv, NEW p \in Procs, Step(p)
  PROVE  NoUseAfterFree'
<1>1. \A e \in Ends : ref'[e] = Cardinality(Refs(fds', e))
  BY CountInd
<1>2. \A e \in Ends : opened'[e] <=> ref'[e] > 0 \/ \E q \in Procs : ending'[q] = e
  BY OpenInd
<1>3. live' <=> \E e \in Ends : opened'[e]
  BY LiveInd
<1>4. \A q \in Procs : /\ pc'[q] \in Readers => fds'[q]["r"] > 0
                       /\ pc'[q] \in Writers => fds'[q]["w"] > 0
  BY CallInd
<1>5. \A e \in Ends : Descriptors(e)' = Refs(fds', e)
  BY DEF Descriptors, Refs
<1> QED
  BY <1>1, <1>2, <1>3, <1>4, <1>5 DEF NoUseAfterFree, Readers, Writers, Has

-----------------------------------------------------------------------------
(* Who closes an end, and what a free slot has *)

\* Where a process is on its way to pipeclose() after the step.
LEMMA QuietCloses ==
  ASSUME PInv, NEW p \in Procs, Quiet(p), NEW q \in Procs
  PROVE  pc'[q] \in {"closing", "exitclosing"} <=> pc[q] \in {"closing", "exitclosing"}
<1>1. pc \in [Procs -> PCs]
  BY DEF PInv, TypeOK
<1>2. CASE q = p
  BY <1>1, <1>2 DEF Quiet, WriteAll, WriteFail, WriteWait, Fill, ReadFail, ReadWait, ReadSome, FallAsleep, SysRead,
     SysWrite, ExitStart, ExitEnd, Kill, WakeReaders, WakeWriters, Wake, User
<1>3. CASE q # p
  BY <1>1, <1>3 DEF Quiet, WriteAll, WriteFail, WriteWait, Fill, ReadFail, ReadWait, ReadSome, FallAsleep, SysRead,
     SysWrite, ExitStart, ExitEnd, Kill, WakeReaders, WakeWriters, Wake, User
<1> QED
  BY <1>2, <1>3

LEMMA ClosingInd ==
  ASSUME PInv, NEW p \in Procs, Step(p)
  PROVE  Closing'
<1>1. TypeOK
  BY DEF PInv
<1>2. \A q \in Procs : /\ pc[q] \in {"closing", "exitclosing"} <=> ending[q] # "none"
                       /\ ending[q] # "none" => ending[q] \in Ends /\ ref[ending[q]] = 0
                       /\ \A r \in Procs : ending[q] # "none" /\ ending[r] = ending[q] => r = q
  BY <1>1 DEF PInv, Closing, TypeOK
<1> SUFFICES ASSUME NEW q \in Procs
             PROVE  /\ pc'[q] \in {"closing", "exitclosing"} <=> ending'[q] # "none"
                    /\ ending'[q] # "none" => ref'[ending'[q]] = 0
                    /\ \A r \in Procs : ending'[q] # "none" /\ ending'[r] = ending'[q] => r = q
  BY DEF Closing
<1>3. CASE Quiet(p)
  BY <1>2, <1>3, QuietFrame, QuietCloses
<1>4. CASE SysPipe(p)
  BY <1>2, <1>4, PipeFacts
<1>5. CASE SysDup(p)
  <2>1. PICK e \in Ends : /\ fds[p][e] > 0 /\ Changes(p, e, fds[p][e] + 1)
                          /\ UNCHANGED <<pipeVars, threads>>
    BY <1>1, <1>5, DupFacts
  <2>2. pc' = pc /\ ending' = ending /\ ending[q] # e
    BY <2>1, InUse DEF threads
  <2>3. \A x \in Ends \ {e} : ref'[x] = ref[x]
    BY <2>1 DEF Changes
  <2> QED
    BY <1>2, <2>2, <2>3
<1>6. CASE Drop(p)
  <2>1. PICK e \in Ends : /\ fds[p][e] > 0 /\ Changes(p, e, fds[p][e] - 1) /\ ref'[e] = ref[e] - 1
                          /\ \/ /\ ref[e] = 1 /\ ending' = [ending EXCEPT ![p] = e]
                                /\ \E next \in {"closing", "exitclosing"} : pc' = [pc EXCEPT ![p] = next]
                             \/ ref[e] # 1 /\ UNCHANGED <<pc, ending>>
    BY <1>1, <1>6, DropFacts
  <2>2. (\A x \in Ends \ {e} : ref'[x] = ref[x]) /\ (\A r \in Procs : ending[r] # e) /\ e # "none"
    BY <2>1, InUse DEF Changes, Ends
  <2>3. CASE ref[e] = 1
    <3>1. ending'[p] = e /\ \A r \in Procs \ {p} : ending'[r] = ending[r] /\ pc'[r] = pc[r]
      BY <1>1, <2>1, <2>3 DEF TypeOK
    <3>2. pc'[p] \in {"closing", "exitclosing"} /\ ref'[e] = 0
      BY <1>1, <2>1, <2>3 DEF TypeOK
    <3>3. CASE q = p
      BY <2>2, <3>1, <3>2, <3>3
    <3>4. CASE q # p
      BY <1>2, <2>2, <3>1, <3>4
    <3> QED
      BY <3>3, <3>4
  <2>4. CASE ref[e] # 1
    BY <1>2, <2>1, <2>2, <2>4
  <2> QED
    BY <2>3, <2>4
<1>7. CASE PipeClose(p)
  <2>1. ref' = ref /\ ending'[p] = "none" /\ \A r \in Procs \ {p} : ending'[r] = ending[r]
    BY <1>1, <1>7, CloseFacts DEF TypeOK
  <2>2. Return(p) \in {"user", "exit"}
    BY DEF Return
  <2>3. /\ pc'[p] = Return(p)
        /\ \A r \in Procs \ {p} : pc'[r] \in {"closing", "exitclosing"} <=> pc[r] \in {"closing", "exitclosing"}
    BY <1>7 DEF PipeClose, WakeReaders, WakeWriters, Wake
  <2> QED
    BY <1>2, <2>1, <2>2, <2>3
<1>8. ASSUME NEW c \in Procs, Fork(p, c)
      PROVE  /\ pc'[q] \in {"closing", "exitclosing"} <=> ending'[q] # "none"
             /\ ending'[q] # "none" => ref'[ending'[q]] = 0
             /\ \A r \in Procs : ending'[q] # "none" /\ ending'[r] = ending'[q] => r = q
  <2>1. \A x \in Ends : ref[x] = 0 => ref'[x] = 0
    BY <1>8, ForkFacts
  <2>2. pc'[q] \in {"closing", "exitclosing"} <=> pc[q] \in {"closing", "exitclosing"}
    BY <1>1, <1>8, ForkFacts DEF TypeOK
  <2>3. ending' = ending
    BY <1>8, ForkFacts
  <2> QED
    BY <1>2, <2>1, <2>2, <2>3
<1> QED
  BY <1>3, <1>4, <1>5, <1>6, <1>7, <1>8, Kinds

LEMMA AbsentInd ==
  ASSUME PInv, NEW p \in Procs, Step(p)
  PROVE  Absent'
<1>1. TypeOK /\ \A q \in Procs : pc[q] = "absent" => \A e \in Ends : fds[q][e] = 0
  BY DEF PInv, Absent
<1> SUFFICES ASSUME NEW q \in Procs, pc'[q] = "absent", NEW e \in Ends PROVE fds'[q][e] = 0
  BY DEF Absent
<1>2. CASE ExitEnd(p)
  <2>1. fds' = fds /\ FreeFds(p) = NOFILE /\ (q # p => pc'[q] = pc[q])
    BY <1>1, <1>2 DEF ExitEnd, fileVars, TypeOK
  <2>2. NOFILE \in Nat /\ fds[p]["r"] \in Nat /\ fds[p]["w"] \in Nat
    BY <1>1, PipeAssumption DEF TypeOK, Ends
  <2>3. fds[p]["r"] = 0 /\ fds[p]["w"] = 0
    BY <2>1, <2>2 DEF FreeFds
  <2>4. \A x \in Ends : fds[p][x] = 0
    BY <2>3 DEF Ends
  <2> QED
    BY <1>1, <2>1, <2>4
<1>3. CASE Quiet(p) /\ ~ExitEnd(p)
  <2>1. fds' = fds
    BY <1>3, QuietFrame
  <2>2. pc[q] = "absent"
    BY <1>1, <1>3 DEF Quiet, WriteAll, WriteFail, WriteWait, Fill, ReadFail, ReadWait, ReadSome, FallAsleep, SysRead,
       SysWrite, ExitStart, Kill, WakeReaders, WakeWriters, Wake, TypeOK
  <2> QED
    BY <1>1, <2>1, <2>2
<1>4. CASE SysPipe(p)
  <2>1. pc[p] = "user" /\ pc' = pc /\ (q # p => fds'[q] = fds[q])
    BY <1>4, PipeFacts DEF SysPipe, User
  <2> QED
    BY <1>1, <2>1
<1>5. CASE SysDup(p)
  <2>1. pc[p] = "user" /\ pc' = pc /\ (q # p => fds'[q][e] = fds[q][e])
    BY <1>1, <1>5, DupFacts DEF SysDup, User, threads, Changes
  <2> QED
    BY <1>1, <2>1
<1>6. CASE Drop(p)
  <2>1. pc'[p] # "absent" /\ (q # p => pc'[q] = pc[q])
    BY <1>1, <1>6, DropFacts DEF TypeOK
  <2>2. q # p => fds'[q][e] = fds[q][e]
    BY <1>1, <1>6, DropFacts DEF Changes
  <2> QED
    BY <1>1, <2>1, <2>2
<1>7. CASE PipeClose(p)
  <2>1. fds' = fds /\ Return(p) # "absent"
    BY <1>7, CloseFacts DEF Return
  <2>2. pc[q] = "absent"
    BY <1>7, <2>1 DEF PipeClose, WakeReaders, WakeWriters, Wake
  <2> QED
    BY <1>1, <2>1, <2>2
<1>8. ASSUME NEW c \in Procs, Fork(p, c) PROVE fds'[q][e] = 0
  BY <1>1, <1>8, ForkFacts DEF TypeOK
<1> QED
  BY <1>2, <1>3, <1>4, <1>5, <1>6, <1>7, <1>8, Kinds

-----------------------------------------------------------------------------
(* The ring and its sleepers *)

\* The counters after a writer stored k bytes.
LEMMA FillFacts ==
  ASSUME PInv, NEW k \in 0 .. PIPESIZE - Count, nread' = nread, nwrite' = (nwrite + k) % Wrap
  PROVE  Count' = Count + k /\ (k = 0 => nwrite' = nwrite)
<1>1. nread \in Counter /\ nwrite \in Counter /\ Count \in 0 .. PIPESIZE
  BY RingFacts
<1>2. k \in Nat /\ Count + k <= PIPESIZE
  BY <1>1, Sizes
<1>3. (((nwrite + k) % Wrap) - nread) % Wrap = ((nwrite - nread) % Wrap) + k
  BY <1>1, <1>2, Ahead DEF Count
<1>4. k = 0 => (nwrite + k) % Wrap = nwrite
  BY <1>1, Sizes DEF Counter
<1> QED
  BY <1>3, <1>4 DEF Count

LEMMA TakeFacts ==
  ASSUME PInv, NEW k \in 0 .. Count, nwrite' = nwrite, nread' = (nread + k) % Wrap
  PROVE  Count' = Count - k /\ (k = 0 => nread' = nread)
<1>1. nread \in Counter /\ nwrite \in Counter /\ Count \in 0 .. PIPESIZE
  BY RingFacts
<1>2. k \in Nat /\ k <= Count
  BY <1>1
<1>3. (nwrite - ((nread + k) % Wrap)) % Wrap = ((nwrite - nread) % Wrap) - k
  BY <1>1, <1>2, Behind DEF Count
<1>4. k = 0 => (nread + k) % Wrap = nread
  BY <1>1, Sizes DEF Counter
<1> QED
  BY <1>3, <1>4 DEF Count

\* What a step does to the ring.
Moves(p) ==
  \/ /\ WriteAll(p) /\ Count' = Count + left[p] /\ left[p] \in 0 .. PIPESIZE - Count
  \/ /\ WriteFail(p) \/ WriteWait(p)
     /\ Count' = PIPESIZE /\ (Count = PIPESIZE => nwrite' = nwrite)
  \/ /\ ReadSome(p) /\ Count' = Count - Least(left[p], Count) /\ Least(left[p], Count) \in 0 .. Count
  \/ UNCHANGED <<nread, nwrite>>
  \/ nread' = 0 /\ nwrite' = 0 /\ (SysPipe(p) \/ PipeClose(p))

LEMMA MoveKinds ==
  ASSUME PInv, NEW p \in Procs, Step(p)
  PROVE  Moves(p)
<1>1. TypeOK /\ Count \in 0 .. PIPESIZE /\ PIPESIZE \in Nat
  BY RingFacts, Sizes DEF PInv
<1>2. CASE WriteAll(p)
  <2>1. left[p] \in 0 .. PIPESIZE - Count
    BY <1>1, <1>2 DEF WriteAll, TypeOK
  <2>2. nread' = nread /\ nwrite' = (nwrite + left[p]) % Wrap
    BY <1>2 DEF WriteAll
  <2> QED
    BY <1>2, <2>1, <2>2, FillFacts DEF Moves
<1>3. CASE WriteFail(p) \/ WriteWait(p)
  <2>1. nread' = nread /\ nwrite' = (nwrite + (PIPESIZE - Count)) % Wrap
    BY <1>3 DEF WriteFail, WriteWait, Fill
  <2>2. PIPESIZE - Count \in 0 .. PIPESIZE - Count /\ Count + (PIPESIZE - Count) = PIPESIZE
    BY <1>1
  <2>3. Count' = PIPESIZE /\ (PIPESIZE - Count = 0 => nwrite' = nwrite)
    BY <2>1, <2>2, FillFacts
  <2> QED
    BY <1>1, <1>3, <2>3 DEF Moves
<1>4. CASE ReadSome(p)
  <2>1. Least(left[p], Count) \in 0 .. Count
    BY <1>1 DEF Least, TypeOK
  <2>2. nwrite' = nwrite /\ nread' = (nread + Least(left[p], Count)) % Wrap
    BY <1>4 DEF ReadSome
  <2> QED
    BY <1>4, <2>1, <2>2, TakeFacts DEF Moves
<1>5. CASE SysPipe(p)
  BY <1>5, PipeFacts DEF Moves
<1>6. CASE PipeClose(p)
  BY <1>6 DEF PipeClose, Shut, Moves
<1>7. CASE ~(WriteAll(p) \/ WriteFail(p) \/ WriteWait(p) \/ ReadSome(p) \/ SysPipe(p) \/ PipeClose(p))
  <2>1. UNCHANGED <<nread, nwrite>>
    BY <1>7 DEF Step, ReadFail, ReadWait, FallAsleep, SysDup, SysClose, ExitClose, FileClose, SysRead, SysWrite,
       ExitStart, ExitEnd, Kill, Fork, pipeVars
  <2> QED
    BY <2>1 DEF Moves
<1> QED
  BY <1>2, <1>3, <1>4, <1>5, <1>6, <1>7

LEMMA RingInd ==
  ASSUME PInv, NEW p \in Procs, Step(p)
  PROVE  Ring'
<1>1. Count \in 0 .. PIPESIZE /\ PIPESIZE \in Nat
  BY RingFacts, Sizes
<1>2. UNCHANGED <<nread, nwrite>> => Count' = Count
  BY DEF Count
<1>3. nread' = 0 /\ nwrite' = 0 => Count' = 0
  BY Sizes DEF Count
<1>4. TypeOK
  BY DEF PInv
<1>5. Count' <= PIPESIZE
  BY <1>1, <1>2, <1>3, <1>4, MoveKinds DEF Moves
<1> QED
  BY <1>5 DEF Ring

RSleep == {"rsleeping", "rsleep"}
WSleep == {"wsleeping", "wsleep"}

\* Who falls asleep on the way keeps the lock, so nobody else moves the ring.
LEMMA LockFacts ==
  ASSUME PInv, plock = NoProc, NEW q \in Procs
  PROVE  pc[q] \notin {"rsleeping", "wsleeping"}
  BY PipeAssumption DEF PInv, TypeOK

LEMMA StrandInd ==
  ASSUME PInv, NEW p \in Procs, Step(p)
  PROVE  NoStrandedEnd'
<1>1. TypeOK /\ Count \in 0 .. PIPESIZE /\ PIPESIZE \in Nat \ {0} /\ (Full <=> Count = PIPESIZE)
  BY RingFacts, Sizes DEF PInv
<1>2. Full' <=> Count' = PIPESIZE
  <2>1. nread' \in Counter /\ nwrite' \in Counter
    BY TypeInd DEF TypeOK, Counter
  <2> QED
    BY <2>1, Apart DEF Full, Count
<1> SUFFICES ASSUME NEW q \in Procs
             PROVE  /\ pc'[q] \in RSleep => opened'["w"] /\ (Count' = 0 \/ gaveup')
                    /\ pc'[q] \in WSleep => opened'["r"] /\ Count' = PIPESIZE
  BY <1>2 DEF NoStrandedEnd, RSleep, WSleep
<1>4. /\ pc[q] \in RSleep => opened["w"] /\ (Count = 0 \/ gaveup)
      /\ pc[q] \in WSleep => opened["r"] /\ Count = PIPESIZE
  BY <1>1 DEF PInv, NoStrandedEnd, RSleep, WSleep
<1>5. /\ pc[q] \in RSleep => opened["r"] /\ live /\ \A r \in Procs : ending[r] # "r"
      /\ pc[q] \in WSleep => opened["w"] /\ live /\ \A r \in Procs : ending[r] # "w"
  BY InCall DEF RSleep, WSleep, Readers, Writers
<1>6. ASSUME UNCHANGED <<opened, nread, nwrite, gaveup>>,
             pc'[q] \in RSleep => pc[q] \in RSleep,
             pc'[q] \in WSleep => pc[q] \in WSleep
      PROVE  /\ pc'[q] \in RSleep => opened'["w"] /\ (Count' = 0 \/ gaveup')
             /\ pc'[q] \in WSleep => opened'["r"] /\ Count' = PIPESIZE
  <2>1. Count' = Count
    BY <1>6 DEF Count
  <2> QED
    BY <1>4, <1>6, <2>1
<1>7. CASE WriteAll(p)
  <2>1. pc'[q] \notin RSleep /\ (pc'[q] \in WSleep => pc[q] \in WSleep)
    BY <1>7, LockFacts DEF WriteAll, Locked, WakeReaders, Wake, RSleep, WSleep
  <2>2. opened' = opened /\ left[p] \in Nat /\ left[p] <= PIPESIZE - Count
    BY <1>1, <1>7 DEF WriteAll, TypeOK
  <2>3. Count' = Count + left[p]
    <3>1. left[p] \in 0 .. PIPESIZE - Count
      BY <1>1, <2>2
    <3> QED
      BY <1>7, <3>1, FillFacts DEF WriteAll
  <2> QED
    BY <1>1, <1>4, <2>1, <2>2, <2>3
<1>8. ASSUME Fill(p), nread' = nread
      PROVE  Count' = PIPESIZE
  <2>1. PIPESIZE - Count \in 0 .. PIPESIZE - Count /\ Count + (PIPESIZE - Count) = PIPESIZE
    BY <1>1
  <2> QED
    BY <1>8, <2>1, FillFacts DEF Fill
<1>9. CASE WriteFail(p)
  <2>1. pc'[q] \in RSleep \cup WSleep => pc'[q] = pc[q]
    BY <1>1, <1>9 DEF WriteFail, RSleep, WSleep, TypeOK
  <2>2. opened' = opened /\ Count' = PIPESIZE /\ (gaveup' <=> gaveup \/ (opened["r"] /\ Count < PIPESIZE))
    BY <1>8, <1>9 DEF WriteFail
  <2>3. pc[q] \in RSleep => gaveup'
    BY <1>1, <1>4, <1>5, <2>2
  <2> QED
    BY <1>4, <2>1, <2>2, <2>3
<1>10. CASE WriteWait(p)
  <2>1. pc'[q] \notin RSleep
    BY <1>10, LockFacts DEF WriteWait, Fill, Locked, WakeReaders, Wake, RSleep
  <2>2. opened' = opened /\ Count' = PIPESIZE /\ opened["r"]
    BY <1>8, <1>10 DEF WriteWait
  <2> QED
    BY <2>1, <2>2
<1>11. CASE ReadWait(p)
  <2>1. Count' = 0 /\ opened' = opened /\ opened["w"] /\ gaveup' = gaveup
    BY <1>11 DEF ReadWait, Count
  <2>2. pc'[q] \in WSleep => pc[q] \in WSleep
    BY <1>1, <1>11 DEF ReadWait, WSleep, TypeOK
  <2>3. Count = 0
    BY <1>11 DEF ReadWait
  <2> QED
    BY <1>1, <1>4, <2>1, <2>2, <2>3
<1>12. CASE ReadSome(p)
  <2>1. pc'[q] \notin WSleep /\ (pc'[q] \in RSleep => pc[q] \in RSleep)
    BY <1>12, LockFacts DEF ReadSome, Locked, WakeWriters, Wake, RSleep, WSleep
  <2>2. Least(left[p], Count) \in 0 .. Count
    BY <1>1 DEF Least, TypeOK
  <2>3. Count' = Count - Least(left[p], Count) /\ opened' = opened /\ gaveup' = gaveup
    BY <1>12, <2>2, TakeFacts DEF ReadSome
  <2> QED
    BY <1>1, <1>4, <2>1, <2>2, <2>3
<1>13. CASE SysPipe(p)
  BY <1>5, <1>13, PipeFacts DEF SysPipe
<1>14. CASE PipeClose(p)
  <2>1. plock = NoProc /\ Return(p) \in {"user", "exit"}
    BY <1>14 DEF PipeClose, Locked, Return
  <2>2. ending[p] \in Ends
    BY <1>14, CloseFacts
  <2>3. pc'[q] \notin RSleep \cup WSleep
    <3>1. CASE ending[p] = "w"
      BY <1>5, <1>14, <2>1, <3>1, LockFacts DEF PipeClose, WakeReaders, Wake, RSleep, WSleep
    <3>2. CASE ending[p] = "r"
      BY <1>5, <1>14, <2>1, <3>2, LockFacts DEF PipeClose, WakeWriters, Wake, RSleep, WSleep
    <3> QED
      BY <2>2, <3>1, <3>2 DEF Ends
  <2> QED
    BY <2>3
<1>15. CASE ReadFail(p) \/ FallAsleep(p) \/ SysRead(p) \/ SysWrite(p) \/ ExitStart(p) \/ ExitEnd(p) \/ Kill(p)
  <2>1. UNCHANGED <<opened, nread, nwrite, gaveup>>
    BY <1>15 DEF ReadFail, FallAsleep, SysRead, SysWrite, ExitStart, ExitEnd, Kill, pipeVars
  <2>2. (pc'[q] \in RSleep => pc[q] \in RSleep) /\ (pc'[q] \in WSleep => pc[q] \in WSleep)
    BY <1>1, <1>15 DEF ReadFail, FallAsleep, SysRead, SysWrite, ExitStart, ExitEnd, Kill, TypeOK, RSleep, WSleep
  <2> QED
    BY <1>6, <2>1, <2>2
<1>16. CASE SysDup(p)
  BY <1>1, <1>6, <1>16, DupFacts DEF pipeVars, threads
<1>17. CASE Drop(p)
  <2>1. UNCHANGED <<opened, nread, nwrite, gaveup>>
    BY <1>1, <1>17, DropFacts DEF pipeVars
  <2>2. (pc'[q] \in RSleep => pc[q] \in RSleep) /\ (pc'[q] \in WSleep => pc[q] \in WSleep)
    BY <1>1, <1>17, DropFacts DEF TypeOK, RSleep, WSleep
  <2> QED
    BY <1>6, <2>1, <2>2
<1>18. ASSUME NEW c \in Procs, Fork(p, c)
       PROVE  /\ pc'[q] \in RSleep => opened'["w"] /\ (Count' = 0 \/ gaveup')
              /\ pc'[q] \in WSleep => opened'["r"] /\ Count' = PIPESIZE
  <2>1. (pc'[q] \in RSleep => pc[q] \in RSleep) /\ (pc'[q] \in WSleep => pc[q] \in WSleep)
    BY <1>1, <1>18, ForkFacts DEF TypeOK, RSleep, WSleep
  <2> QED
    BY <1>6, <1>18, <2>1, ForkFacts
<1> QED
  BY <1>7, <1>9, <1>10, <1>11, <1>12, <1>13, <1>14, <1>15, <1>16, <1>17, <1>18, Kinds DEF Quiet

-----------------------------------------------------------------------------
(* The invariant *)

LEMMA PInvInit == Init => PInv
<1> SUFFICES ASSUME Init PROVE PInv
  OBVIOUS
<1>1. PICK p \in Procs : pc = [q \in Procs |-> IF q = p THEN "user" ELSE "absent"]
  BY DEF Init
<1>2. TypeOK
  <2> 0 \in 0 .. NOFILE /\ Junk \in Bytes
    BY PipeAssumption
  <2>1. /\ fds \in [Procs -> [Ends -> 0 .. NOFILE]] /\ ref \in [Ends -> Nat] /\ data \in [Indices -> Bytes]
        /\ left \in [Procs -> Nat] /\ ending \in [Procs -> Ends \cup {"none"}]
    BY DEF Init
  <2>4. opened \in [Ends -> BOOLEAN] /\ live \in BOOLEAN /\ killed \in [Procs -> BOOLEAN] /\ gaveup \in BOOLEAN
    BY DEF Init
  <2>2. nread \in 0 .. Wrap - 1 /\ nwrite \in 0 .. Wrap - 1
    BY Sizes DEF Init
  <2>3. /\ plock \in Procs \cup {NoProc} /\ pc \in [Procs -> PCs]
        /\ \A q \in Procs : plock = q <=> pc[q] \in {"rsleeping", "wsleeping"}
    BY <1>1, PipeAssumption DEF Init, PCs
  <2> QED
    BY <2>1, <2>2, <2>3, <2>4 DEF TypeOK
<1>3. Closing /\ Absent /\ NoStrandedEnd
  BY <1>1 DEF Init, Closing, Absent, NoStrandedEnd
<1>4. Ring
  BY PipeAssumption DEF Init, Ring, Count
<1>5. \A e \in Ends : ref[e] = Cardinality(Descriptors(e))
  <2> SUFFICES ASSUME NEW e \in Ends PROVE Cardinality(Descriptors(e)) = 0
    BY DEF Init
  <2>1. Descriptors(e) = {}
    BY DEF Init, Descriptors
  <2> QED
    BY <2>1, FS_EmptySet
<1>6. NoUseAfterFree
  BY <1>1, <1>5 DEF Init, NoUseAfterFree, Ends
<1> QED
  BY <1>2, <1>3, <1>4, <1>6 DEF PInv

LEMMA PInvNext == PInv /\ [Next]_vars => PInv'
<1> SUFFICES ASSUME PInv, [Next]_vars PROVE PInv'
  OBVIOUS
<1>1. CASE Next
  BY <1>1, TypeInd, UseInd, StrandInd, ClosingInd, AbsentInd, RingInd DEF Next, PInv
<1>2. CASE UNCHANGED vars
  <2> USE <1>2 DEF vars, pipeVars, fileVars, threads
  <2>1. TypeOK' /\ Closing' /\ Absent'
    BY DEF PInv, TypeOK, Closing, Absent
  <2>2. NoStrandedEnd' /\ Ring'
    BY DEF PInv, NoStrandedEnd, Ring, Count, Full
  <2>3. NoUseAfterFree'
    BY DEF PInv, NoUseAfterFree, Descriptors, Has
  <2> QED
    BY <2>1, <2>2, <2>3 DEF PInv
<1> QED
  BY <1>1, <1>2

\* The inductive invariant of Pipe.
THEOREM Invariance == Spec => []PInv
  BY PInvInit, PInvNext, PTL DEF Spec

\* The counters stay in their width, and p->lock is held over a step only by
\* a process on its way to sleep.
THEOREM TypeCorrect == Spec => []TypeOK
  BY Invariance, PTL DEF PInv

\* However fork, dup, close and exit interleave, the reference counts are the
\* descriptors, and the page of the pipe lives while anyone is inside a call.
THEOREM PageLives == Spec => []NoUseAfterFree
  BY Invariance, PTL DEF PInv

\* No wakeup between the two ends is lost, but those of a killed writer.
THEOREM NobodyStranded == Spec => []NoStrandedEnd
  BY Invariance, PTL DEF PInv

-----------------------------------------------------------------------------
(* Pipe implements ByteQueue.                                              *)

Contents == IF live THEN Taken(Count) ELSE <<>>

LEMMA TakenType ==
  ASSUME TypeOK, NEW k \in Nat
  PROVE  Taken(k) \in Seq(Bytes) /\ Len(Taken(k)) = k
<1>1. \A i \in 1 .. k : (nread + i - 1) % PIPESIZE \in Indices
  BY Sizes DEF TypeOK, Indices
<1>2. Taken(k) \in [1 .. k -> Bytes]
  BY <1>1 DEF Taken, TypeOK
<1> QED
  BY <1>2

\* The i-th byte of the ring lies i - 1 - Count behind the writer.
LEMMA Place ==
  ASSUME PInv, NEW i \in Int
  PROVE  (((nread + i - 1) % PIPESIZE) - nwrite) % PIPESIZE = (i - 1 - Count) % PIPESIZE
<1>1. nread \in Int /\ nwrite \in Int /\ Count \in Int
  BY RingFacts DEF Counter
<1>2. Count = nwrite - nread \/ Count = nwrite - nread + Wrap
  BY RingFacts, Apart DEF Count
<1> DEFINE a == nread + i - 1
           b == -nwrite
           c == i - 1 - Count
<1>3. a \in Int /\ b \in Int /\ c \in Int /\ (a + b = c \/ c = (a + b) - Wrap)
  <2>1. Wrap \in Int
    BY Sizes
  <2> QED
    BY <1>1, <1>2, <2>1
<1>4. (a % PIPESIZE) - nwrite = (a % PIPESIZE) + b
  BY <1>1, Sizes
<1> HIDE DEF a, b, c
<1>5. ((a % PIPESIZE) + b) % PIPESIZE = (a + b) % PIPESIZE
  BY <1>3, RemainderSum, Sizes
<1>6. (a + b) % PIPESIZE = c % PIPESIZE
  <2> DEFINE d == a + b
  <2>1. d \in Int /\ Wrap \in Int /\ (d = c \/ c = d - Wrap)
    BY <1>3, Sizes
  <2> HIDE DEF d
  <2>2. d = c \/ d = c + Wrap
    BY <1>3, <2>1
  <2>3. d % PIPESIZE = c % PIPESIZE
    BY <1>3, <2>1, <2>2, Wrapped
  <2> QED
    BY <2>3 DEF d
<1>7. ((a % PIPESIZE) - nwrite) % PIPESIZE = c % PIPESIZE
  BY <1>4, <1>5, <1>6
<1> QED
  BY <1>7 DEF a, c

\* A writer's bytes come after those in the ring.
LEMMA Appends ==
  ASSUME PInv, NEW k \in 0 .. PIPESIZE - Count, NEW s \in [1 .. k -> Bytes],
         data' = Stored(s), nread' = nread, nwrite' = (nwrite + k) % Wrap
  PROVE  Taken(Count)' = Taken(Count) \o s
<1>1. TypeOK /\ Count \in 0 .. PIPESIZE /\ PIPESIZE \in Nat \ {0}
  BY RingFacts, Sizes DEF PInv
<1>2. k \in Nat /\ k <= PIPESIZE - Count /\ Count' = Count + k /\ s \in Seq(Bytes) /\ Len(s) = k
  BY <1>1, FillFacts
<1>3. Taken(Count)' = [i \in 1 .. Count + k |-> Stored(s)[(nread + i - 1) % PIPESIZE]]
  BY <1>2 DEF Taken
<1>4. Taken(Count) \in Seq(Bytes) /\ Len(Taken(Count)) = Count
  BY <1>1, TakenType
<1>5. Taken(Count) \o s = [i \in 1 .. Count + k |-> IF i <= Count THEN Taken(Count)[i] ELSE s[i - Count]]
  <2> DEFINE t == Taken(Count)
  <2>1. t \in Seq(Bytes) /\ Len(t) = Count /\ Count \in Nat
    BY <1>1, <1>4
  <2> HIDE DEF t
  <2>2. t \o s \in Seq(Bytes) /\ Len(t \o s) = Count + k
    BY <1>2, <2>1
  <2>3. \A i \in 1 .. Count + k : (t \o s)[i] = IF i <= Count THEN t[i] ELSE s[i - Count]
    BY <1>2, <2>1
  <2> DEFINE u == t \o s
  <2> HIDE DEF u
  <2>4. u = [i \in 1 .. Count + k |-> u[i]]
    <3>1. u \in Seq(Bytes) /\ Len(u) = Count + k
      BY <2>2 DEF u
    <3>2. u \in [1 .. Len(u) -> Bytes]
      BY <3>1
    <3> QED
      BY <3>1, <3>2
  <2> QED
    BY <2>3, <2>4 DEF t, u
<1>6. ASSUME NEW i \in 1 .. Count + k
      PROVE  Stored(s)[(nread + i - 1) % PIPESIZE] = IF i <= Count THEN Taken(Count)[i] ELSE s[i - Count]
  <2> DEFINE j == (nread + i - 1) % PIPESIZE
  <2>1. i \in Int /\ nread \in Int /\ j \in Indices
    BY <1>1, <1>2 DEF Indices, TypeOK
  <2>2. (j - nwrite) % PIPESIZE = (i - 1 - Count) % PIPESIZE
    BY <2>1, Place
  <2>3. Stored(s)[j] = IF ((i - 1 - Count) % PIPESIZE) + 1 <= k THEN s[((i - 1 - Count) % PIPESIZE) + 1] ELSE data[j]
    BY <1>2, <2>1, <2>2 DEF Stored
  <2>4. CASE i <= Count
    <3>1. (i - 1 - Count) % PIPESIZE = i - 1 - Count + PIPESIZE
      BY <1>1, <1>2, <2>4
    <3>2. ~(((i - 1 - Count) % PIPESIZE) + 1 <= k)
      BY <1>1, <1>2, <2>4, <3>1
    <3>3. Taken(Count)[i] = data[j]
      BY <1>1, <2>1, <2>4 DEF Taken
    <3> QED
      BY <2>3, <2>4, <3>2, <3>3
  <2>5. CASE i > Count
    <3>1. (i - 1 - Count) % PIPESIZE = i - 1 - Count
      BY <1>1, <1>2, <2>5
    <3>2. ((i - 1 - Count) % PIPESIZE) + 1 = i - Count /\ i - Count <= k /\ ~(i <= Count)
      BY <1>1, <1>2, <2>5, <3>1
    <3> QED
      BY <2>3, <3>2
  <2> QED
    BY <1>1, <2>4, <2>5
<1> QED
  BY <1>3, <1>5, <1>6

\* A reader takes the bytes that came first.
LEMMA Removes ==
  ASSUME PInv, NEW k \in 0 .. Count, data' = data, nwrite' = nwrite, nread' = (nread + k) % Wrap
  PROVE  Taken(Count)' = SubSeq(Taken(Count), k + 1, Len(Taken(Count)))
<1>1. TypeOK /\ Count \in 0 .. PIPESIZE /\ PIPESIZE \in Nat \ {0}
  BY RingFacts, Sizes DEF PInv
<1>2. k \in Nat /\ k <= Count /\ Count' = Count - k /\ nread \in Counter
  BY <1>1, TakeFacts, RingFacts
<1>3. Taken(Count)' = [i \in 1 .. Count - k |-> data[(nread' + i - 1) % PIPESIZE]]
  BY <1>2 DEF Taken
<1>4. Taken(Count) \in Seq(Bytes) /\ Len(Taken(Count)) = Count
  BY <1>1, TakenType
<1>5. SubSeq(Taken(Count), k + 1, Count) = [i \in 1 .. Count - k |-> Taken(Count)[i + k]]
  BY <1>1, <1>2, <1>4
<1>6. ASSUME NEW i \in 1 .. Count - k
      PROVE  data[(nread' + i - 1) % PIPESIZE] = Taken(Count)[i + k]
  <2> DEFINE a == nread' + i - 1
             b == nread + (i + k) - 1
  <2>1. nread' = nread + k \/ nread' = nread + k - Wrap
    BY <1>1, <1>2, Sizes DEF Counter
  <2>2. i \in Int /\ nread \in Int /\ Wrap \in Int
    BY <1>1, <1>2, Sizes DEF Counter
  <2>3. a \in Int /\ b \in Int /\ (b = a \/ b = a + Wrap)
    BY <1>2, <2>1, <2>2
  <2> HIDE DEF a, b
  <2>6. a % PIPESIZE = b % PIPESIZE
    BY <2>3, Wrapped
  <2>4. i + k \in 1 .. Count
    BY <1>1, <1>2
  <2>5. Taken(Count)[i + k] = data[b % PIPESIZE]
    BY <2>4 DEF Taken, b
  <2> QED
    BY <2>5, <2>6 DEF a
<1> QED
  BY <1>3, <1>4, <1>5, <1>6

LEMMA MapInit == Init => Queue!QueueInit
  BY DEF Init, Queue!QueueInit

\* In a call the pipe lives, and a step of it leaves it alive.
LEMMA MapPut ==
  ASSUME PInv, NEW p \in Procs, WriteAll(p) \/ WriteFail(p) \/ WriteWait(p)
  PROVE  Queue!Put
<1>1. TypeOK /\ Count \in 0 .. PIPESIZE /\ PIPESIZE \in Nat \ {0}
  BY RingFacts, Sizes DEF PInv
<1>2. live /\ live' = live /\ nread' = nread
  BY InCall DEF WriteAll, WriteFail, WriteWait, Fill, Writers
<1>3. \E k \in 0 .. PIPESIZE - Count : nwrite' = (nwrite + k) % Wrap /\ \E s \in [1 .. k -> Bytes] : data' = Stored(s)
  <2>1. CASE WriteAll(p)
    <3>1. left[p] \in 0 .. PIPESIZE - Count
      BY <1>1, <2>1 DEF WriteAll, TypeOK
    <3> QED
      BY <2>1, <3>1 DEF WriteAll
  <2>2. CASE WriteFail(p) \/ WriteWait(p)
    <3>1. PIPESIZE - Count \in 0 .. PIPESIZE - Count
      BY <1>1
    <3> QED
      BY <2>2, <3>1 DEF WriteFail, WriteWait, Fill
  <2> QED
    BY <2>1, <2>2
<1>4. PICK k \in 0 .. PIPESIZE - Count : nwrite' = (nwrite + k) % Wrap /\ \E s \in [1 .. k -> Bytes] : data' = Stored(s)
  BY <1>3
<1>5. PICK s \in [1 .. k -> Bytes] : data' = Stored(s)
  BY <1>4
<1>6. Contents' = Contents \o s
  BY <1>2, <1>4, <1>5, Appends DEF Contents
<1>7. Len(Contents) = Count
  BY <1>1, <1>2, TakenType DEF Contents
<1>8. s \in UNION {[1 .. j -> Bytes] : j \in 0 .. PIPESIZE - Len(Contents)}
  BY <1>7
<1> QED
  BY <1>6, <1>8 DEF Queue!Put, Contents

LEMMA MapGet ==
  ASSUME PInv, NEW p \in Procs, ReadSome(p)
  PROVE  Queue!Get
<1>1. TypeOK /\ Count \in 0 .. PIPESIZE
  BY RingFacts DEF PInv
<1>2. live /\ live' = live /\ data' = data /\ nwrite' = nwrite
  BY InCall DEF ReadSome, Readers
<1> DEFINE k == Least(left[p], Count)
<1>3. k \in 0 .. Count
  BY <1>1 DEF Least, TypeOK
<1>4. nread' = (nread + k) % Wrap
  BY DEF ReadSome
<1> HIDE DEF k
<1>5. Contents' = SubSeq(Contents, k + 1, Len(Contents))
  BY <1>2, <1>3, <1>4, Removes DEF Contents
<1>6. Len(Contents) = Count
  BY <1>1, <1>2, TakenType DEF Contents
<1> QED
  BY <1>3, <1>5, <1>6 DEF Queue!Get, Contents

LEMMA MapNext == PInv /\ [Next]_vars => [Queue!QueueNext]_Contents
<1> SUFFICES ASSUME PInv, [Next]_vars PROVE Queue!QueueNext \/ Contents' = Contents
  OBVIOUS
<1>1. TypeOK
  BY DEF PInv
<1>2. ASSUME UNCHANGED <<live, data, nread, nwrite>> PROVE Contents' = Contents
  BY <1>2 DEF Contents, Taken, Count
<1>3. CASE UNCHANGED vars
  BY <1>2, <1>3 DEF vars, pipeVars
<1>4. ASSUME NEW p \in Procs, Step(p) PROVE Queue!QueueNext \/ Contents' = Contents
  <2>1. CASE WriteAll(p) \/ WriteFail(p) \/ WriteWait(p)
    BY <2>1, MapPut DEF Queue!QueueNext
  <2>2. CASE ReadSome(p)
    BY <2>2, MapGet DEF Queue!QueueNext
  <2>3. CASE SysPipe(p)
    <3>1. Contents = <<>>
      BY <2>3 DEF SysPipe, Contents
    <3>2. Count' = 0
      <4>1. nread' = 0 /\ nwrite' = 0
        BY <2>3, PipeFacts
      <4> QED
        BY <4>1, Sizes DEF Count
    <3>3. Contents' = <<>>
      BY <3>2 DEF Contents, Taken
    <3> QED
      BY <3>1, <3>3
  <2>4. CASE PipeClose(p)
    <3>1. CASE live'
      <4>1. UNCHANGED <<data, nread, nwrite>>
        BY <2>4, <3>1 DEF PipeClose, Shut
      <4>2. live
        BY <1>1, <2>4, <3>1, CloseFacts DEF PInv, NoUseAfterFree, Ends
      <4> QED
        BY <3>1, <4>1, <4>2 DEF Contents, Taken, Count
    <3>2. CASE ~live'
      BY <3>2 DEF Contents, Queue!QueueNext, Queue!Discard
    <3> QED
      BY <3>1, <3>2
  <2>5. CASE ReadFail(p) \/ ReadWait(p) \/ FallAsleep(p) \/ SysRead(p) \/ SysWrite(p) \/ ExitStart(p) \/ ExitEnd(p) \/ Kill(p)
    BY <1>2, <2>5 DEF ReadFail, ReadWait, FallAsleep, SysRead, SysWrite, ExitStart, ExitEnd, Kill, pipeVars
  <2>6. CASE SysDup(p)
    BY <1>1, <1>2, <2>6, DupFacts DEF pipeVars
  <2>7. CASE Drop(p)
    BY <1>1, <1>2, <2>7, DropFacts DEF pipeVars
  <2>8. ASSUME NEW q \in Procs, Fork(p, q) PROVE Contents' = Contents
    BY <1>2, <2>8, ForkFacts
  <2> QED
    BY <1>4, <2>1, <2>2, <2>3, <2>4, <2>5, <2>6, <2>7, <2>8, Kinds DEF Quiet
<1> QED
  BY <1>3, <1>4 DEF Next

\* Pipe implements ByteQueue: readers get the bytes that were written, in
\* their order, whatever the counters wrapped around.
THEOREM Implementation == Spec => ImplementsByteQueue
<1>1. PInv /\ [Next]_vars => [Queue!QueueNext]_(IF live THEN Taken(Count) ELSE <<>>)
  BY MapNext DEF Contents
<1> QED
  BY <1>1, MapInit, Invariance, PTL DEF Spec, ImplementsByteQueue, Queue!QueueSpec

=============================================================================
