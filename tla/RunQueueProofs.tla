--------------------------- MODULE RunQueueProofs ---------------------------
(***************************************************************************)
(* Theorems about RunQueue, for any number of processes, priorities and    *)
(* queues and any quantum: every live process has one entry, nobody runs   *)
(* past a quantum, and the ageing walk, which moves the elements of the    *)
(* lists it follows, reaches everybody once.                               *)
(***************************************************************************)
EXTENDS RunQueueInv, FiniteSetsExt, SequenceTheorems, WellFoundedInduction, TLAPS

-----------------------------------------------------------------------------
(* Induction and recursion over an initial interval of the naturals *)

(* The natural numbers are well ordered. *)
LEMMA LeastElement ==
  ASSUME NEW S, S \subseteq Nat, S # {}
  PROVE  \E n \in S : \A m \in S : n <= m
<1> DEFINE R == OpToRel(<, Nat)
<1>1. IsWellFoundedOn(R, Nat)
  BY NatLessThanWellFounded
<1>2. \A x, y \in Nat : <<x, y>> \in R <=> x < y
  BY DEF OpToRel
<1> HIDE DEF R
<1>3. PICK x \in S : \A y \in S : ~ (<<y, x>> \in R)
  BY <1>1, WFMin
<1>4. \A y \in S : x <= y
  <2> TAKE y \in S
  <2>1. ~ (y < x)
    BY <1>2, <1>3
  <2>2. x \in Int /\ y \in Int
    OBVIOUS
  <2> QED BY <2>1, <2>2
<1> QED BY <1>4

(* Induction: what holds of 0 and passes from k to k + 1 holds up to n. *)
LEMMA UpTo ==
  ASSUME NEW S, NEW n \in Nat, 0 \in S,
         \A k \in 0 .. n - 1 : k \in S => k + 1 \in S
  PROVE  \A k \in 0 .. n : k \in S
<1> DEFINE F == {k \in 0 .. n : k \notin S}
<1> SUFFICES ASSUME F # {} PROVE FALSE
  OBVIOUS
<1>1. F \subseteq Nat
  OBVIOUS
<1>2. PICK k \in F : \A m \in F : k <= m
  <2> HIDE DEF F
  <2> QED BY LeastElement, <1>1
<1>3. k # 0 /\ k - 1 \in 0 .. n - 1 /\ k - 1 \notin F
  BY <1>2
<1> QED BY <1>3

(* Min and Max of the community modules choose an element that is there. *)
LEMMA MinOfNats ==
  ASSUME NEW S, S \subseteq Nat, S # {}
  PROVE  Min(S) \in S /\ \A m \in S : Min(S) <= m
BY LeastElement DEF Min

LEMMA MaxOfInterval ==
  ASSUME NEW n \in Nat, NEW S, S \subseteq 0 .. n, S # {}
  PROVE  Max(S) \in S /\ \A m \in S : m <= Max(S)
<1> DEFINE D == {n - m : m \in S}
<1>1. D \subseteq Nat /\ D # {}
  <2>1. \A m \in S : n - m \in Nat
    OBVIOUS
  <2> QED BY <2>1
<1>2. PICK d \in D : \A e \in D : d <= e
  <2> HIDE DEF D
  <2> QED BY <1>1, LeastElement
<1>3. PICK x \in S : d = n - x
  OBVIOUS
<1>4. \A m \in S : m <= x
  BY <1>2, <1>3
<1>5. \A m \in S : x >= m
  BY <1>4
<1>6. \E y \in S : \A m \in S : y >= m
  BY <1>5
<1>7. Max(S) \in S /\ \A m \in S : Max(S) >= m
  BY <1>6 DEF Max
<1> QED BY <1>7

(* A function defined by recursion from 0 to n exists: it is what its       *)
(* definition says, and its values have the type of the steps.             *)
Unfolds(f, n, a, step) ==
  f = [k \in 0 .. n |-> IF k = 0 THEN a ELSE step[<<f[k - 1], k>>]]

LEMMA RecursionExists ==
  ASSUME NEW n \in Nat, NEW T, NEW a \in T, NEW step \in [T \X (1 .. n) -> T]
  PROVE  \E f \in [0 .. n -> T] : Unfolds(f, n, a, step)
<1> DEFINE S == {m \in 0 .. n : \E f \in [0 .. m -> T] :
                   f = [k \in 0 .. m |-> IF k = 0 THEN a ELSE step[<<f[k - 1], k>>]]}
<1>1. 0 \in S
  <2> DEFINE f == [k \in 0 .. 0 |-> a]
  <2>1. f = [k \in 0 .. 0 |-> IF k = 0 THEN a ELSE step[<<f[k - 1], k>>]]
    <3>1. \A k \in 0 .. 0 : a = IF k = 0 THEN a ELSE step[<<f[k - 1], k>>]
      OBVIOUS
    <3> QED BY <3>1
  <2>2. f \in [0 .. 0 -> T]
    OBVIOUS
  <2>3. 0 \in 0 .. n
    OBVIOUS
  <2>4. \E f1 \in [0 .. 0 -> T] :
          f1 = [k \in 0 .. 0 |-> IF k = 0 THEN a ELSE step[<<f1[k - 1], k>>]]
    <3> HIDE DEF f
    <3> QED BY <2>1, <2>2
  <2> QED BY <2>3, <2>4
<1>2. ASSUME NEW m \in 0 .. n - 1, m \in S
      PROVE  m + 1 \in S
  <2>1. PICK f \in [0 .. m -> T] :
          f = [k \in 0 .. m |-> IF k = 0 THEN a ELSE step[<<f[k - 1], k>>]]
    BY <1>2
  <2>2. \A k \in 0 .. m : f[k] = IF k = 0 THEN a ELSE step[<<f[k - 1], k>>]
    BY <2>1
  <2> DEFINE g == [k \in 0 .. m + 1 |-> IF k <= m THEN f[k] ELSE step[<<f[m], m + 1>>]]
             h == [k \in 0 .. m + 1 |-> IF k = 0 THEN a ELSE step[<<g[k - 1], k>>]]
  <2>3. <<f[m], m + 1>> \in T \X (1 .. n)
    OBVIOUS
  <2>4. step[<<f[m], m + 1>>] \in T
    BY <2>3
  <2>5. g \in [0 .. m + 1 -> T]
    BY <2>4
  <2>6. ASSUME NEW k \in 0 .. m + 1
        PROVE  g[k] = h[k]
    <3>0. h[k] = IF k = 0 THEN a ELSE step[<<g[k - 1], k>>]
      OBVIOUS
    <3> HIDE DEF h
    <3>1. CASE k = 0
      <4>1. 0 \in 0 .. m /\ g[0] = f[0]
        OBVIOUS
      <4>2. f[0] = a
        BY <2>2, <4>1
      <4> QED BY <3>0, <3>1, <4>1, <4>2
    <3>2. CASE k \in 1 .. m
      <4>1. g[k] = f[k] /\ g[k - 1] = f[k - 1] /\ k \in 0 .. m /\ k # 0
        BY <3>2
      <4> QED BY <4>1, <2>2, <3>0
    <3>3. CASE k = m + 1
      <4>1. g[k - 1] = f[m] /\ g[k] = step[<<f[m], m + 1>>] /\ k # 0
        BY <3>3
      <4> QED BY <4>1, <3>0, <3>3
    <3> QED BY <3>1, <3>2, <3>3
  <2>7. g = h
    <3> HIDE DEF g
    <3>1. g = [k \in 0 .. m + 1 |-> g[k]]
      BY <2>5
    <3> QED BY <3>1, <2>6
  <2>8. m + 1 \in 0 .. n
    OBVIOUS
  <2>9. \E f1 \in [0 .. m + 1 -> T] :
          f1 = [k \in 0 .. m + 1 |-> IF k = 0 THEN a ELSE step[<<f1[k - 1], k>>]]
    <3> HIDE DEF g
    <3> QED BY <2>5, <2>7
  <2> QED BY <2>8, <2>9
<1>3. n \in S
  <2> HIDE DEF S
  <2>1. \A k \in 0 .. n : k \in S
    BY <1>1, <1>2, UpTo
  <2> QED BY <2>1
<1> QED BY <1>3 DEF Unfolds

-----------------------------------------------------------------------------

USE RunQueueAssumption

(* Priorities up to MAXPRIOR name a queue, a larger one a later queue, and   *)
(* those just below 0 the first.                                           *)
LEMMA LastIsQueue == LastQueue \in Nat /\ LastQueue \in Queues /\ QueueOf(MAXPRIOR) = LastQueue
<1>1. MAXPRIOR \div QWIDTH \in Nat
  OBVIOUS
<1> QED BY <1>1 DEF Queues, LastQueue, QueueOf

LEMMA PriorNamesQueue ==
  /\ InQueues \subseteq Int
  /\ \A n \in InQueues : QueueOf(n) \in Queues
  /\ \A n \in 0 .. MAXPRIOR : n \in InQueues
  /\ \A n \in InQueues, m \in Nat : n + m <= MAXPRIOR => n + m \in InQueues
<1>1. InQueues \subseteq Int /\ \A n \in InQueues : QueueOf(n) \in Queues
  BY DEF InQueues, HasQueue
<1>2. ASSUME NEW n \in 0 .. MAXPRIOR
      PROVE  n \in InQueues
  <2>1. n \div QWIDTH \in Nat /\ n \div QWIDTH <= MAXPRIOR \div QWIDTH
    OBVIOUS
  <2>2. MAXPRIOR \div QWIDTH \in Nat
    OBVIOUS
  <2> QED BY <2>1, <2>2 DEF InQueues, HasQueue, QueueOf, Queues, LastQueue
<1>3. ASSUME NEW n \in InQueues, NEW m \in Nat, n + m <= MAXPRIOR
      PROVE  n + m \in InQueues
  <2>1. CASE n + m >= 0
    <3>1. n + m \in 0 .. MAXPRIOR
      BY <1>1, <1>3, <2>1
    <3> QED BY <3>1, <1>2
  <2>2. CASE n + m < 0
    <3>1. n \in Int /\ n < 0 /\ -n \in Nat /\ -(n + m) \in Nat /\ -(n + m) <= -n
      BY <1>1, <2>2
    <3>2. (-n) \div QWIDTH \in Nat /\ QueueOf(n) = -((-n) \div QWIDTH) /\ QueueOf(n) >= 0
      <4>1. QueueOf(n) \in Queues
        BY <1>1
      <4> QED BY <4>1, <3>1 DEF QueueOf, Queues, LastQueue
    <3>3. (-n) \div QWIDTH = 0
      BY <3>2
    <3>4. (-(n + m)) \div QWIDTH = 0
      BY <3>1, <3>3
    <3>5. QueueOf(n + m) = 0
      BY <3>4, <2>2 DEF QueueOf
    <3> QED BY <3>1, <3>5, LastIsQueue DEF InQueues, HasQueue, Queues
  <2> QED BY <1>1, <2>1, <2>2
<1> QED BY <1>1, <1>2, <1>3

(* There is a best among priorities.                                       *)
LEMMA MinOfPriors ==
  ASSUME NEW S, S \subseteq InQueues, S # {}
  PROVE  Min(S) \in S
<1>1. ASSUME NEW n \in InQueues
      PROVE  n \in Int /\ n + QWIDTH \in Nat
  <2>1. n \in Int /\ QueueOf(n) \in Queues
    BY PriorNamesQueue
  <2>2. CASE n < 0
    <3>1. -n \in Nat /\ (-n) \div QWIDTH \in Nat /\ QueueOf(n) = -((-n) \div QWIDTH) /\ QueueOf(n) >= 0
      BY <2>1, <2>2 DEF QueueOf, Queues, LastQueue
    <3>2. (-n) \div QWIDTH = 0
      BY <3>1
    <3>3. -n < QWIDTH
      BY <3>1, <3>2
    <3> QED BY <2>1, <3>3
  <2> QED BY <2>1, <2>2
<1> DEFINE T == {n + QWIDTH : n \in S}
<1>2. T \subseteq Nat /\ T # {}
  BY <1>1
<1>3. PICK d \in T : \A e \in T : d <= e
  <2> HIDE DEF T
  <2> QED BY <1>2, LeastElement
<1>4. PICK x \in S : d = x + QWIDTH
  OBVIOUS
<1>5. \A m \in S : x <= m
  <2> TAKE m \in S
  <2>1. m + QWIDTH \in T
    OBVIOUS
  <2>2. x + QWIDTH <= m + QWIDTH
    BY <2>1, <1>3, <1>4
  <2> QED BY <2>2, <1>1
<1> QED BY <1>4, <1>5 DEF Min

LEMMA InitIsProc == InitProc \in Procs /\ NoProc \notin Procs
BY DEF InitProc, NoProc, Procs

-----------------------------------------------------------------------------
(* Sequences *)

(* The sequence without its i-th element. *)
LEMMA RemoveAtIs ==
  ASSUME NEW S, NEW s \in Seq(S), NEW i \in 1 .. Len(s)
  PROVE  /\ RemoveAt(s, i) \in Seq(S)
         /\ Len(RemoveAt(s, i)) = Len(s) - 1
         /\ \A k \in 1 .. Len(s) - 1 : RemoveAt(s, i)[k] = IF k < i THEN s[k] ELSE s[k + 1]
<1> DEFINE a == SubSeq(s, 1, i - 1)
           b == SubSeq(s, i + 1, Len(s))
<1>1. a \in Seq(S) /\ Len(a) = i - 1 /\ \A k \in 1 .. i - 1 : a[k] = s[k]
  BY SubSeqProperties
<1>2. b \in Seq(S) /\ Len(b) = Len(s) - i /\ \A k \in 1 .. Len(s) - i : b[k] = s[i + k]
  BY SubSeqProperties
<1>3. RemoveAt(s, i) = a \o b
  BY DEF RemoveAt
<1> HIDE DEF a, b
<1>4. /\ a \o b \in Seq(S) /\ Len(a \o b) = Len(a) + Len(b)
      /\ \A k \in 1 .. Len(a) + Len(b) : (a \o b)[k] = IF k <= Len(a) THEN a[k] ELSE b[k - Len(a)]
  BY <1>1, <1>2, ConcatProperties
<1>5. Len(a) + Len(b) = Len(s) - 1
  BY <1>1, <1>2
<1>6. ASSUME NEW k \in 1 .. Len(s) - 1
      PROVE  (a \o b)[k] = IF k < i THEN s[k] ELSE s[k + 1]
  <2>1. CASE k < i
    BY <2>1, <1>1, <1>4, <1>5
  <2>2. CASE k >= i
    <3>1. (a \o b)[k] = b[k - Len(a)]
      BY <2>2, <1>1, <1>4, <1>5
    <3>2. k - Len(a) \in 1 .. Len(s) - i /\ i + (k - Len(a)) = k + 1
      BY <2>2, <1>1
    <3>3. b[k - Len(a)] = s[k + 1]
      BY <3>2, <1>2
    <3> QED BY <3>1, <3>3, <2>2
  <2>3. k < i \/ k >= i
    OBVIOUS
  <2> QED BY <2>1, <2>2, <2>3
<1> QED BY <1>3, <1>4, <1>5, <1>6

(* Taking an element out that occurs at most once: the others keep their   *)
(* order, h says where each of them was.                                   *)
LEMMA RemoveFirstKeeps ==
  ASSUME NEW S, NEW s \in Seq(S), NEW e, NEW r, r = RemoveFirst(s, e),
         \A k, l \in 1 .. Len(s) : s[k] = e /\ s[l] = e => k = l
  PROVE  /\ r \in Seq(S)
         /\ \E h \in [1 .. Len(r) -> 1 .. Len(s)] :
              /\ \A k \in 1 .. Len(r) : r[k] = s[h[k]] /\ s[h[k]] # e
              /\ \A k, l \in 1 .. Len(r) : k < l => h[k] < h[l]
              /\ \A m \in 1 .. Len(s) : s[m] # e => \E k \in 1 .. Len(r) : h[k] = m
<1>0. Len(s) \in Nat
  OBVIOUS
<1>1. CASE \A i \in 1 .. Len(s) : s[i] # e
  <2>1. r = s
    BY <1>1 DEF RemoveFirst
  <2> DEFINE h == [k \in 1 .. Len(s) |-> k]
  <2>2. h \in [1 .. Len(s) -> 1 .. Len(s)]
    OBVIOUS
  <2>3. \A k \in 1 .. Len(s) : h[k] = k
    OBVIOUS
  <2> HIDE DEF h
  <2> QED BY <1>1, <2>1, <2>2, <2>3
<1>2. CASE \E i \in 1 .. Len(s) : s[i] = e
  <2> DEFINE I == {i \in 1 .. Len(s) : s[i] = e}
             i == Min(I)
  <2>1. i \in I
    <3>1. I \subseteq Nat /\ I # {}
      BY <1>2
    <3> HIDE DEF I
    <3> QED BY <3>1, MinOfNats
  <2>2. r = RemoveAt(s, i)
    <3>1. r = RemoveAt(s, IF I # {} THEN Min(I) ELSE 0)
      BY <1>2 DEF RemoveFirst, SelectInSeq
    <3>2. I # {}
      BY <2>1
    <3> QED BY <3>1, <3>2
  <2>3. i \in 1 .. Len(s) /\ s[i] = e
    BY <2>1
  <2> HIDE DEF i, I
  <2>4. /\ r \in Seq(S) /\ Len(r) = Len(s) - 1
        /\ \A k \in 1 .. Len(s) - 1 : r[k] = IF k < i THEN s[k] ELSE s[k + 1]
    <3>1. /\ RemoveAt(s, i) \in Seq(S) /\ Len(RemoveAt(s, i)) = Len(s) - 1
          /\ \A k \in 1 .. Len(s) - 1 : RemoveAt(s, i)[k] = IF k < i THEN s[k] ELSE s[k + 1]
      BY <2>3, RemoveAtIs, Zenon
    <3> QED BY <2>2, <3>1
  <2> DEFINE h == [k \in 1 .. Len(r) |-> IF k < i THEN k ELSE k + 1]
  <2>5. h \in [1 .. Len(r) -> 1 .. Len(s)]
    BY <2>4, <1>0
  <2>6. \A k \in 1 .. Len(r) : r[k] = s[h[k]] /\ h[k] # i /\ h[k] \in 1 .. Len(s)
    BY <2>3, <2>4, <1>0
  <2>7. \A k \in 1 .. Len(r) : s[h[k]] # e
    BY <2>3, <2>6
  <2>8. \A k, l \in 1 .. Len(r) : k < l => h[k] < h[l]
    BY <2>3, <2>4, <1>0
  <2>9. ASSUME NEW m \in 1 .. Len(s), s[m] # e
        PROVE  \E k \in 1 .. Len(r) : h[k] = m
    <3>1. m # i
      BY <2>3, <2>9
    <3>2. CASE m < i
      <4>1. m \in 1 .. Len(r) /\ h[m] = m
        BY <3>2, <2>3, <2>4, <1>0
      <4> QED BY <4>1
    <3>3. CASE m > i
      <4>1. m - 1 \in 1 .. Len(r) /\ h[m - 1] = m
        BY <3>3, <2>3, <2>4, <1>0
      <4> QED BY <4>1
    <3> QED BY <3>1, <3>2, <3>3, <2>3
  <2> HIDE DEF h
  <2>10. /\ \A k \in 1 .. Len(r) : r[k] = s[h[k]] /\ s[h[k]] # e
         /\ \A k, l \in 1 .. Len(r) : k < l => h[k] < h[l]
         /\ \A m \in 1 .. Len(s) : s[m] # e => \E k \in 1 .. Len(r) : h[k] = m
    BY <2>6, <2>7, <2>8, <2>9
  <2> QED BY <2>4, <2>5, <2>10
<1> QED BY <1>1, <1>2

-----------------------------------------------------------------------------
(* The queues *)

LEMMA EntriesAre ==
  ASSUME NEW qs \in Lists, NEW p
  PROVE  p \in Entries(qs) <=> \E i \in Queues : Contains(qs[i], p)
<1>1. \A i \in Queues : DOMAIN qs[i] = 1 .. Len(qs[i])
  BY DEF Lists
<1> QED BY <1>1 DEF Entries, Range, Contains

LEMMA EntriesAreProcs ==
  ASSUME NEW qs \in Lists, NEW p, NEW i \in Queues, Contains(qs[i], p)
  PROVE  p \in Procs
BY DEF Lists, Contains

(* The lists r are the lists qs without process p, the others in order.     *)
Pulled(r, qs, p) ==
  /\ r \in Lists
  /\ Once(r)
  /\ \A i \in Queues : \A q : Contains(r[i], q) <=> Contains(qs[i], q) /\ q # p
  /\ \A i \in Queues : \A k, l \in DOMAIN r[i] : k < l =>
       \E m, n \in DOMAIN qs[i] : m < n /\ r[i][k] = qs[i][m] /\ r[i][l] = qs[i][n]

(* The lists r are the lists qs with process p put last in queue c.         *)
Placed(r, qs, p, c) ==
  /\ c \in Queues
  /\ r \in Lists
  /\ Once(r)
  /\ \A i \in Queues : \A q :
       Contains(r[i], q) <=> (Contains(qs[i], q) \/ (q = p /\ i = c))
  /\ \A i \in Queues \ {c} : r[i] = qs[i]
  /\ r[c] = Append(qs[c], p)

(* What pull_runqueue() does.                                              *)
LEMMA PullIs ==
  ASSUME NEW qs \in Lists, Once(qs), NEW p, NEW r, r = Pull(qs, p)
  PROVE  Pulled(r, qs, p)
<1>1. ASSUME NEW i \in Queues
      PROVE  /\ r[i] \in Seq(Procs)
             /\ \E h \in [1 .. Len(r[i]) -> 1 .. Len(qs[i])] :
                  /\ \A k \in 1 .. Len(r[i]) : r[i][k] = qs[i][h[k]] /\ qs[i][h[k]] # p
                  /\ \A k, l \in 1 .. Len(r[i]) : k < l => h[k] < h[l]
                  /\ \A m \in 1 .. Len(qs[i]) : qs[i][m] # p => \E k \in 1 .. Len(r[i]) : h[k] = m
  <2>1. qs[i] \in Seq(Procs) /\ DOMAIN qs[i] = 1 .. Len(qs[i])
    BY DEF Lists
  <2>2. \A k, l \in 1 .. Len(qs[i]) : qs[i][k] = p /\ qs[i][l] = p => k = l
    BY <2>1 DEF Once
  <2>3. r[i] = RemoveFirst(qs[i], p)
    BY DEF Pull
  <2> DEFINE s == qs[i]
             t == r[i]
  <2>4. s \in Seq(Procs) /\ (\A k, l \in 1 .. Len(s) : s[k] = p /\ s[l] = p => k = l) /\ t = RemoveFirst(s, p)
    BY <2>1, <2>2, <2>3
  <2> HIDE DEF s, t
  <2>5. /\ t \in Seq(Procs)
        /\ \E h \in [1 .. Len(t) -> 1 .. Len(s)] :
              /\ \A k \in 1 .. Len(t) : t[k] = s[h[k]] /\ s[h[k]] # p
              /\ \A k, l \in 1 .. Len(t) : k < l => h[k] < h[l]
              /\ \A m \in 1 .. Len(s) : s[m] # p => \E k \in 1 .. Len(t) : h[k] = m
    BY <2>4, RemoveFirstKeeps
  <2> QED BY <2>5 DEF s, t
<1>2. r \in Lists
  BY <1>1 DEF Lists, Pull
<1>3. \A i \in Queues : DOMAIN r[i] = 1 .. Len(r[i]) /\ DOMAIN qs[i] = 1 .. Len(qs[i])
  BY <1>2 DEF Lists
<1>4. ASSUME NEW i \in Queues, NEW q
      PROVE  Contains(r[i], q) <=> Contains(qs[i], q) /\ q # p
  <2>1. PICK h \in [1 .. Len(r[i]) -> 1 .. Len(qs[i])] :
          /\ \A k \in 1 .. Len(r[i]) : r[i][k] = qs[i][h[k]] /\ qs[i][h[k]] # p
          /\ \A m \in 1 .. Len(qs[i]) : qs[i][m] # p => \E k \in 1 .. Len(r[i]) : h[k] = m
    BY <1>1
  <2>2. \A k \in 1 .. Len(r[i]) : h[k] \in 1 .. Len(qs[i])
    BY <2>1
  <2>3. Contains(r[i], q) => Contains(qs[i], q) /\ q # p
    BY <2>1, <2>2 DEF Contains
  <2>4. ASSUME Contains(qs[i], q), q # p
        PROVE  Contains(r[i], q)
    <3>1. PICK m \in 1 .. Len(qs[i]) : qs[i][m] = q
      BY <2>4 DEF Contains
    <3>2. PICK k \in 1 .. Len(r[i]) : h[k] = m
      BY <2>1, <2>4, <3>1
    <3>3. r[i][k] = q
      BY <2>1, <3>1, <3>2
    <3> QED BY <3>3 DEF Contains
  <2> QED BY <2>3, <2>4
<1>5. ASSUME NEW i \in Queues, NEW k \in DOMAIN r[i], NEW l \in DOMAIN r[i], k < l
      PROVE  \E m, n \in DOMAIN qs[i] : m < n /\ r[i][k] = qs[i][m] /\ r[i][l] = qs[i][n]
  <2>1. PICK h \in [1 .. Len(r[i]) -> 1 .. Len(qs[i])] :
          /\ \A k1 \in 1 .. Len(r[i]) : r[i][k1] = qs[i][h[k1]]
          /\ \A k1, l1 \in 1 .. Len(r[i]) : k1 < l1 => h[k1] < h[l1]
    BY <1>1
  <2>2. k \in 1 .. Len(r[i]) /\ l \in 1 .. Len(r[i])
    BY <1>3
  <2>3. h[k] \in DOMAIN qs[i] /\ h[l] \in DOMAIN qs[i]
    BY <2>1, <2>2, <1>3
  <2>4. h[k] < h[l] /\ r[i][k] = qs[i][h[k]] /\ r[i][l] = qs[i][h[l]]
    BY <2>1, <2>2, <1>5
  <2> QED BY <2>3, <2>4
<1>6. Once(r)
  <2> SUFFICES ASSUME NEW i \in Queues, NEW j \in Queues, NEW k \in DOMAIN r[i], NEW l \in DOMAIN r[j],
                      r[i][k] = r[j][l]
               PROVE  i = j /\ k = l
    BY DEF Once
  <2>1. PICK h \in [1 .. Len(r[i]) -> 1 .. Len(qs[i])] :
          \A k1 \in 1 .. Len(r[i]) : r[i][k1] = qs[i][h[k1]]
    BY <1>1
  <2>2. PICK g \in [1 .. Len(r[j]) -> 1 .. Len(qs[j])] :
          \A k1 \in 1 .. Len(r[j]) : r[j][k1] = qs[j][g[k1]]
    BY <1>1
  <2>3. i = j
    <3>1. k \in 1 .. Len(r[i]) /\ l \in 1 .. Len(r[j])
      BY <1>3
    <3>2. h[k] \in DOMAIN qs[i] /\ g[l] \in DOMAIN qs[j]
      BY <2>1, <2>2, <3>1, <1>3
    <3>3. qs[i][h[k]] = qs[j][g[l]]
      BY <2>1, <2>2, <3>1
    <3> QED BY <3>2, <3>3 DEF Once
  <2>4. ASSUME k # l PROVE FALSE
    <3>1. \E m, n \in DOMAIN qs[i] : m < n /\ qs[i][m] = qs[i][n]
      <4>1. k \in Int /\ l \in Int
        BY <1>3
      <4>2. CASE k < l
        BY <4>2, <1>5, <2>3
      <4>3. CASE l < k
        BY <4>3, <1>5, <2>3
      <4> QED BY <4>1, <4>2, <4>3, <2>4
    <3>2. PICK m, n \in DOMAIN qs[i] : m < n /\ qs[i][m] = qs[i][n]
      BY <3>1
    <3>3. m = n
      BY <3>2 DEF Once
    <3> QED BY <3>2, <3>3, <1>3
  <2> QED BY <2>3, <2>4
<1> QED BY <1>2, <1>4, <1>5, <1>6 DEF Pulled

(* What put_runqueue() does for a process that has no entry.               *)
LEMMA PutIs ==
  ASSUME NEW qs \in Lists, Once(qs), NEW p \in Procs, p \notin Entries(qs),
         NEW n \in InQueues, NEW c, c = QueueOf(n), NEW r, r = Put(qs, p, n)
  PROVE  Placed(r, qs, p, c)
<1>1. c \in Queues
  BY PriorNamesQueue
<1>2. \A i \in Queues : r[i] = IF i = c THEN Append(qs[c], p) ELSE qs[i]
  BY <1>1 DEF Put, Lists
<1>3. DOMAIN r = Queues /\ r = [i \in Queues |-> r[i]]
  BY DEF Put, Lists
<1>4. c \in Queues /\ qs[c] \in Seq(Procs)
  BY <1>1 DEF Lists
<1>5. /\ Append(qs[c], p) \in Seq(Procs)
      /\ Len(Append(qs[c], p)) = Len(qs[c]) + 1
      /\ \A k \in 1 .. Len(qs[c]) : Append(qs[c], p)[k] = qs[c][k]
      /\ Append(qs[c], p)[Len(qs[c]) + 1] = p
  BY <1>4, AppendProperties
<1>6. \A i \in Queues : r[i] \in Seq(Procs)
  BY <1>2, <1>5 DEF Lists
<1>7. r \in Lists
  BY <1>3, <1>6 DEF Lists
<1>8. \A i \in Queues : DOMAIN r[i] = 1 .. Len(r[i]) /\ DOMAIN qs[i] = 1 .. Len(qs[i]) /\ Len(qs[i]) \in Nat
  BY <1>7 DEF Lists
<1>9. ASSUME NEW i \in Queues, NEW k \in DOMAIN r[i]
      PROVE  \/ k \in DOMAIN qs[i] /\ r[i][k] = qs[i][k]
             \/ i = c /\ k = Len(qs[c]) + 1 /\ r[i][k] = p
  <2>1. CASE i # c
    BY <2>1, <1>2
  <2>2. CASE i = c
    <3>1. k \in 1 .. Len(qs[c]) + 1
      BY <2>2, <1>2, <1>5, <1>8, <1>4
    <3>2. CASE k \in 1 .. Len(qs[c])
      BY <3>2, <2>2, <1>2, <1>5, <1>8, <1>4
    <3>3. CASE k = Len(qs[c]) + 1
      BY <3>3, <2>2, <1>2, <1>5, <1>4
    <3>4. Len(qs[c]) \in Nat
      BY <1>4, <1>8
    <3> QED BY <3>1, <3>2, <3>3, <3>4
  <2> QED BY <2>1, <2>2
<1>10. \A i \in Queues : \A k \in DOMAIN qs[i] : qs[i][k] # p
  BY <1>8, EntriesAre DEF Contains
<1>11. Once(r)
  BY <1>9, <1>10 DEF Once
<1>12. ASSUME NEW i \in Queues, NEW q
       PROVE  Contains(r[i], q) <=> (Contains(qs[i], q) \/ (q = p /\ i = c))
  <2>1. CASE i # c
    BY <2>1, <1>2
  <2>2. CASE i = c
    <3>1. r[i] = Append(qs[c], p) /\ Len(r[i]) = Len(qs[c]) + 1 /\ Len(qs[c]) \in Nat
      BY <2>2, <1>2, <1>4, <1>5, <1>8
    <3>2. r[i][Len(qs[c]) + 1] = p /\ \A k \in 1 .. Len(qs[c]) : r[i][k] = qs[c][k]
      BY <3>1, <1>5
    <3>3. Contains(r[i], p)
      BY <3>1, <3>2 DEF Contains
    <3>4. Contains(qs[c], q) => Contains(r[i], q)
      BY <3>1, <3>2 DEF Contains
    <3>5. ASSUME Contains(r[i], q), q # p
          PROVE  Contains(qs[c], q)
      <4>1. PICK k \in 1 .. Len(r[i]) : r[i][k] = q
        BY <3>5 DEF Contains
      <4>2. k \in 1 .. Len(qs[c])
        BY <4>1, <3>1, <3>2, <3>5
      <4> QED BY <4>1, <4>2, <3>2 DEF Contains
    <3> QED BY <3>3, <3>4, <3>5, <2>2
  <2> QED BY <2>1, <2>2
<1> QED BY <1>2, <1>4, <1>7, <1>11, <1>12 DEF Placed

-----------------------------------------------------------------------------
(* The ageing walk *)

LEMMA AgedPrioIs ==
  ASSUME TypeOK, NEW p \in Procs
  PROVE  AgedPrio(p) \in InQueues /\ (p \in idle => AgedPrio(p) = MAXPRIOR)
<1>1. prio[p] \in InQueues /\ priorityTick[p] \in Nat
  BY DEF TypeOK
<1>2. priorityTick[p] \div AGETICKS \in Nat
  BY <1>1
<1> DEFINE n == prio[p] + priorityTick[p] \div AGETICKS
<1>3. AgedPrio(p) = IF p \in idle \/ n > MAXPRIOR THEN MAXPRIOR ELSE n
  BY DEF AgedPrio
<1>4. MAXPRIOR \in InQueues
  BY PriorNamesQueue
<1>5. n \in Int /\ (n <= MAXPRIOR => n \in InQueues)
  <2>1. prio[p] \in Int
    BY <1>1, PriorNamesQueue
  <2>2. \A k \in Nat : prio[p] + k <= MAXPRIOR => prio[p] + k \in InQueues
    BY <1>1, PriorNamesQueue
  <2> HIDE DEF n
  <2>3. n = prio[p] + priorityTick[p] \div AGETICKS
    BY DEF n
  <2> QED BY <2>1, <2>2, <2>3, <1>2
<1> QED BY <1>3, <1>4, <1>5

LEMMA RemoveFirstTyped ==
  ASSUME NEW S, NEW s \in Seq(S), NEW e
  PROVE  RemoveFirst(s, e) \in Seq(S)
<1>1. CASE \A i \in 1 .. Len(s) : s[i] # e
  BY <1>1 DEF RemoveFirst
<1>2. CASE \E i \in 1 .. Len(s) : s[i] = e
  <2> DEFINE I == {i \in 1 .. Len(s) : s[i] = e}
  <2>1. Min(I) \in I
    <3>1. I \subseteq Nat /\ I # {}
      BY <1>2
    <3> HIDE DEF I
    <3> QED BY <3>1, MinOfNats
  <2>2. RemoveFirst(s, e) = RemoveAt(s, Min(I))
    BY <1>2 DEF RemoveFirst, SelectInSeq
  <2> QED BY <2>1, <2>2, RemoveAtIs
<1> QED BY <1>1, <1>2

LEMMA AgeOneTyped ==
  ASSUME TypeOK, NEW acc \in Accs, NEW p \in Procs
  PROVE  AgeOne(acc, p) \in Accs
<1> DEFINE a == Pull(acc.qs, p)
           c == QueueOf(AgedPrio(p))
<1>1. acc.qs \in Lists /\ acc.updated \subseteq Procs
  BY DEF Accs
<1>2. a \in Lists
  BY <1>1, RemoveFirstTyped DEF Pull, Lists
<1>3. c \in Queues
  BY AgedPrioIs, PriorNamesQueue
<1>4. AgeOne(acc, p) = [qs |-> [a EXCEPT ![c] = Append(a[c], p)], updated |-> acc.updated \cup {p}]
  BY DEF AgeOne, Put
<1> HIDE DEF a, c
<1>5. [a EXCEPT ![c] = Append(a[c], p)] \in Lists
  BY <1>2, <1>3 DEF Lists
<1> QED BY <1>1, <1>4, <1>5 DEF Accs

(* The walk of one queue s, from acc to r, step by step: w[k] is where it   *)
(* has come to after k moves.                                              *)
Walked(acc, s, r) ==
  \E stop \in 0 .. Len(s) : \E w \in [0 .. stop -> Accs] :
    /\ \A k \in 1 .. stop : s[k] \in Procs /\ s[k] \notin acc.updated
    /\ stop < Len(s) => s[stop + 1] \in acc.updated
    /\ w[0] = acc
    /\ \A k \in 1 .. stop : w[k] = AgeOne(w[k - 1], s[k])
    /\ r = w[stop]

LEMMA WalkIs ==
  ASSUME TypeOK, NEW acc \in Accs, NEW i \in Queues, NEW s, s = acc.qs[i]
  PROVE  Walked(acc, s, AgeQueue(acc, i))
<1>1. s \in Seq(Procs) /\ Len(s) \in Nat
  BY DEF Accs, Lists
<1> DEFINE stop == Max(Fresh(acc, s))
<1>2. Fresh(acc, s) \subseteq 0 .. Len(s) /\ 0 \in Fresh(acc, s)
  BY <1>1 DEF Fresh
<1>3. stop \in Fresh(acc, s) /\ \A m \in Fresh(acc, s) : m <= stop
  BY <1>1, <1>2, MaxOfInterval
<1>4. AgeQueue(acc, i) =
        (CHOOSE f : f = [k \in 0 .. stop |-> IF k = 0 THEN acc ELSE AgeOne(f[k - 1], s[k])])[stop]
  BY DEF AgeQueue
<1> HIDE DEF stop
<1>5. stop \in 0 .. Len(s) /\ stop \in Nat /\ \A k \in 1 .. stop : s[k] \notin acc.updated
  BY <1>1, <1>3 DEF Fresh
<1>6. ASSUME stop < Len(s)
      PROVE  s[stop + 1] \in acc.updated
  <2>1. stop + 1 \in 0 .. Len(s) /\ ~ (stop + 1 <= stop)
    BY <1>1, <1>5, <1>6
  <2>2. stop + 1 \notin Fresh(acc, s)
    BY <1>3, <2>1
  <2>3. PICK k \in 1 .. stop + 1 : s[k] \in acc.updated
    BY <2>1, <2>2 DEF Fresh
  <2>4. k = stop + 1
    BY <2>3, <1>5
  <2> QED BY <2>3, <2>4
<1>7. \A k \in 1 .. stop : s[k] \in Procs
  BY <1>1, <1>5
<1> DEFINE step == [x \in Accs \X (1 .. stop) |-> AgeOne(x[1], s[x[2]])]
           Def(f) == f = [k \in 0 .. stop |-> IF k = 0 THEN acc ELSE AgeOne(f[k - 1], s[k])]
           w == CHOOSE f : Def(f)
<1>8. step \in [Accs \X (1 .. stop) -> Accs]
  BY <1>7, AgeOneTyped
<1>9. \A a \in Accs : \A k \in 1 .. stop : step[<<a, k>>] = AgeOne(a, s[k])
  OBVIOUS
<1> HIDE DEF step
<1>10. PICK f \in [0 .. stop -> Accs] : Unfolds(f, stop, acc, step)
  BY <1>5, <1>8, RecursionExists
<1>11. Def(f)
  <2>1. \A k \in 0 .. stop : f[k] = IF k = 0 THEN acc ELSE step[<<f[k - 1], k>>]
    BY <1>10 DEF Unfolds
  <2>2. ASSUME NEW k \in 0 .. stop
        PROVE  f[k] = IF k = 0 THEN acc ELSE AgeOne(f[k - 1], s[k])
    <3>1. CASE k = 0
      BY <2>1, <3>1
    <3>2. CASE k # 0
      <4>1. k \in 1 .. stop /\ k - 1 \in 0 .. stop
        BY <3>2, <1>5
      <4>2. f[k - 1] \in Accs
        BY <4>1, <1>10
      <4> QED BY <2>1, <3>2, <4>1, <4>2, <1>9
    <3> QED BY <3>1, <3>2
  <2> QED BY <1>10, <2>2
<1>12. Def(w)
  <2> HIDE DEF Def
  <2> QED BY <1>11
<1>13. \A k \in 0 .. stop : w[k] = IF k = 0 THEN acc ELSE AgeOne(w[k - 1], s[k])
  <2> HIDE DEF w
  <2> QED BY <1>12
<1>14. w \in [0 .. stop -> Accs]
  <2> HIDE DEF w
  <2> DEFINE S == {k \in 0 .. stop : w[k] \in Accs}
  <2>1. 0 \in S
    <3>1. 0 \in 0 .. stop
      BY <1>5
    <3>2. w[0] = acc
      BY <1>13, <3>1
    <3> QED BY <3>1, <3>2
  <2>2. ASSUME NEW k \in 0 .. stop - 1, k \in S
        PROVE  k + 1 \in S
    <3>1. k + 1 \in 1 .. stop /\ k + 1 \in 0 .. stop /\ k + 1 # 0 /\ (k + 1) - 1 = k
      BY <1>5
    <3>2. w[k + 1] = AgeOne(w[k], s[k + 1])
      BY <1>13, <3>1
    <3>3. w[k] \in Accs
      BY <2>2
    <3>4. w[k + 1] \in Accs
      BY <1>7, <3>1, <3>2, <3>3, AgeOneTyped
    <3> QED BY <3>1, <3>4
  <2>3. \A k \in 0 .. stop : k \in S
    <3> HIDE DEF S
    <3> QED BY <1>5, <2>1, <2>2, UpTo
  <2>4. w = [k \in 0 .. stop |-> w[k]]
    BY <1>12
  <2> QED BY <2>3, <2>4
<1>15. AgeQueue(acc, i) = w[stop]
  BY <1>4
<1> HIDE DEF w
<1>16. w[0] = acc /\ \A k \in 1 .. stop : w[k] = AgeOne(w[k - 1], s[k])
  BY <1>5, <1>13
<1> QED BY <1>5, <1>6, <1>7, <1>14, <1>15, <1>16 DEF Walked

(* Moving one process that has not been moved keeps the walk in order.      *)
LEMMA AgeOneKeeps ==
  ASSUME TypeOK, NEW acc, AgeInv(acc), NEW p \in Queued, p \notin acc.updated,
         NEW r, r = AgeOne(acc, p)
  PROVE  /\ AgeInv(r)
         /\ r.updated = acc.updated \cup {p}
         /\ \A i \in Queues : \A q : Contains(r.qs[i], q) => Contains(acc.qs[i], q) \/ q = p
<1> DEFINE a == Pull(acc.qs, p)
           n == AgedPrio(p)
           c == QueueOf(n)
           b == Put(a, p, n)
<1>1. /\ acc \in Accs /\ acc.qs \in Lists /\ acc.updated \subseteq Procs
      /\ Once(acc.qs) /\ MovedLast(acc)
      /\ Entries(acc.qs) = Queued /\ acc.updated \subseteq Queued
      /\ \A q \in acc.updated : Contains(acc.qs[QueueOf(AgedPrio(q))], q)
      /\ \A i \in Queues : \A q \in Procs \ acc.updated :
           Contains(acc.qs[i], q) <=> Contains(queues[i], q)
  BY DEF AgeInv, Accs
<1>2. p \in Procs
  <2>1. \E i \in Queues : Contains(acc.qs[i], p)
    BY <1>1, EntriesAre
  <2> QED BY <1>1, <2>1, EntriesAreProcs
<1>3. n \in InQueues /\ c \in Queues
  BY <1>2, AgedPrioIs, PriorNamesQueue
<1>4. r.qs = b /\ r.updated = acc.updated \cup {p} /\ r = [qs |-> b, updated |-> acc.updated \cup {p}]
  BY DEF AgeOne
<1> HIDE DEF a
<1>5. /\ a \in Lists /\ Once(a)
      /\ \A i \in Queues : \A q : Contains(a[i], q) <=> Contains(acc.qs[i], q) /\ q # p
      /\ \A i \in Queues : \A k, l \in DOMAIN a[i] : k < l =>
           \E m1, n1 \in DOMAIN acc.qs[i] : m1 < n1 /\ a[i][k] = acc.qs[i][m1] /\ a[i][l] = acc.qs[i][n1]
  <2>1. a = Pull(acc.qs, p)
    BY DEF a
  <2>2. Pulled(a, acc.qs, p)
    BY <1>1, <2>1, PullIs
  <2> QED BY <2>2 DEF Pulled
<1>6. p \notin Entries(a)
  BY <1>5, EntriesAre
<1> HIDE DEF n, b
<1>7. /\ b \in Lists /\ Once(b)
      /\ \A i \in Queues : \A q : Contains(b[i], q) <=> (Contains(a[i], q) \/ (q = p /\ i = c))
      /\ \A i \in Queues \ {c} : b[i] = a[i]
      /\ b[c] = Append(a[c], p)
  <2>1. b = Put(a, p, n)
    BY DEF b
  <2>2. a \in Lists /\ Once(a) /\ n \in InQueues /\ c = QueueOf(n)
    BY <1>3, <1>5 DEF c
  <2> HIDE DEF c
  <2>3. Placed(b, a, p, c)
    BY <1>2, <1>6, <2>1, <2>2, PutIs
  <2> QED BY <2>3 DEF Placed
<1> HIDE DEF c
<1>8. \A i \in Queues : \A q : Contains(b[i], q) <=> ((Contains(acc.qs[i], q) /\ q # p) \/ (q = p /\ i = c))
  BY <1>5, <1>7
<1>9. r \in Accs
  BY <1>1, <1>2, <1>4, <1>7 DEF Accs
<1>10. MovedLast(r)
  <2> SUFFICES ASSUME NEW i \in Queues, NEW k \in DOMAIN b[i], NEW l \in DOMAIN b[i],
                      k < l, b[i][k] \in r.updated
               PROVE  b[i][l] \in r.updated
    BY <1>4 DEF MovedLast
  <2>1. a[i] \in Seq(Procs) /\ DOMAIN a[i] = 1 .. Len(a[i]) /\ Len(a[i]) \in Nat
    BY <1>5 DEF Lists
  <2>2. ASSUME k \in DOMAIN a[i], l \in DOMAIN a[i], b[i][k] = a[i][k], b[i][l] = a[i][l]
        PROVE  b[i][l] \in r.updated
    <3>1. PICK m1, n1 \in DOMAIN acc.qs[i] :
            m1 < n1 /\ a[i][k] = acc.qs[i][m1] /\ a[i][l] = acc.qs[i][n1]
      BY <1>5, <2>2
    <3>2. b[i][k] # p
      <4>1. Contains(a[i], b[i][k])
        BY <2>1, <2>2 DEF Contains
      <4> QED BY <4>1, <1>5
    <3>3. acc.qs[i][m1] \in acc.updated
      BY <1>4, <2>2, <3>1, <3>2
    <3>4. acc.qs[i][n1] \in acc.updated
      BY <1>1, <3>1, <3>3 DEF MovedLast
    <3> QED BY <1>4, <2>2, <3>1, <3>4
  <2>3. CASE i # c
    BY <2>2, <2>3, <1>7
  <2>4. CASE i = c
    <3>1. /\ Len(b[i]) = Len(a[i]) + 1 /\ DOMAIN b[i] = 1 .. Len(b[i])
          /\ \A m \in 1 .. Len(a[i]) : b[i][m] = a[i][m]
          /\ b[i][Len(a[i]) + 1] = p
      <4>1. b[i] = Append(a[i], p)
        BY <2>4, <1>7
      <4> QED BY <4>1, <2>1, <1>2, AppendProperties
    <3>2. CASE l = Len(a[i]) + 1
      BY <3>1, <3>2, <1>4
    <3>3. CASE l # Len(a[i]) + 1
      <4>1. l \in DOMAIN a[i] /\ k \in DOMAIN a[i]
        BY <3>1, <3>3, <2>1
      <4> QED BY <4>1, <3>1, <2>1, <2>2
    <3> QED BY <3>2, <3>3
  <2> QED BY <2>3, <2>4
<1>11. Entries(b) = Queued
  <2>1. \A q : q \in Entries(b) <=> q \in Entries(acc.qs)
    <3> TAKE q
    <3>1. q \in Entries(b) <=> \E i \in Queues : Contains(b[i], q)
      BY <1>7, EntriesAre
    <3>2. q \in Entries(acc.qs) <=> \E i \in Queues : Contains(acc.qs[i], q)
      BY <1>1, EntriesAre
    <3>3. CASE q = p
      BY <3>1, <3>3, <1>1, <1>3, <1>8 DEF c
    <3>4. CASE q # p
      BY <3>1, <3>2, <3>4, <1>8
    <3> QED BY <3>3, <3>4
  <2> QED BY <1>1, <2>1
<1>12. \A q \in r.updated : Contains(b[QueueOf(AgedPrio(q))], q)
  <2> TAKE q \in r.updated
  <2>1. CASE q = p
    BY <2>1, <1>3, <1>8 DEF c, n
  <2>2. CASE q # p
    <3>1. q \in acc.updated /\ q \in Procs
      BY <2>2, <1>1, <1>4
    <3>2. QueueOf(AgedPrio(q)) \in Queues
      BY <3>1, AgedPrioIs, PriorNamesQueue
    <3> QED BY <2>2, <3>1, <3>2, <1>1, <1>8
  <2> QED BY <2>1, <2>2
<1>13. \A i \in Queues : \A q \in Procs \ r.updated : Contains(b[i], q) <=> Contains(queues[i], q)
  BY <1>1, <1>4, <1>8
<1>14. AgeInv(r)
  BY <1>1, <1>4, <1>7, <1>9, <1>10, <1>11, <1>12, <1>13 DEF AgeInv
<1>15. \A i \in Queues : \A q : Contains(b[i], q) => Contains(acc.qs[i], q) \/ q = p
  BY <1>8
<1> QED BY <1>4, <1>14, <1>15

(* Walking a queue moves everybody who was in it: where the walk stops,     *)
(* only processes that had been moved were left.                           *)
LEMMA AgeQueueKeeps ==
  ASSUME TypeOK, NEW acc, AgeInv(acc), NEW i \in Queues,
         \A j \in Queues : j < i => Range(acc.qs[j]) \subseteq acc.updated,
         NEW r, r = AgeQueue(acc, i)
  PROVE  /\ AgeInv(r)
         /\ \A j \in Queues : j <= i => Range(r.qs[j]) \subseteq r.updated
<1>1. acc \in Accs /\ acc.qs \in Lists /\ Once(acc.qs) /\ MovedLast(acc) /\ Entries(acc.qs) = Queued
  BY DEF AgeInv, Accs
<1> DEFINE s == acc.qs[i]
<1>a. s = acc.qs[i]
  OBVIOUS
<1> HIDE DEF s
<1>b. PICK stop \in 0 .. Len(s) : \E w \in [0 .. stop -> Accs] :
        /\ \A k \in 1 .. stop : s[k] \in Procs /\ s[k] \notin acc.updated
        /\ stop < Len(s) => s[stop + 1] \in acc.updated
        /\ w[0] = acc
        /\ \A k \in 1 .. stop : w[k] = AgeOne(w[k - 1], s[k])
        /\ r = w[stop]
  <2>1. Walked(acc, s, r)
    BY <1>1, <1>a, WalkIs
  <2> QED BY <2>1 DEF Walked
<1>2. PICK w \in [0 .. stop -> Accs] :
        /\ \A k \in 1 .. stop : s[k] \in Procs /\ s[k] \notin acc.updated
        /\ stop < Len(s) => s[stop + 1] \in acc.updated
        /\ w[0] = acc
        /\ \A k \in 1 .. stop : w[k] = AgeOne(w[k - 1], s[k])
        /\ r = w[stop]
  BY <1>b
<1>3. Len(s) \in Nat /\ DOMAIN s = 1 .. Len(s) /\ stop \in Nat
  BY <1>1, <1>a DEF Lists
<1>4. \A k, l \in 1 .. Len(s) : s[k] = s[l] => k = l
  BY <1>1, <1>3, <1>a DEF Once
<1>5. \A k \in 1 .. Len(s) : s[k] \in Queued
  <2> TAKE k \in 1 .. Len(s)
  <2>1. Contains(acc.qs[i], s[k])
    BY <1>a DEF Contains
  <2> QED BY <1>1, <2>1, EntriesAre
<1> DEFINE S == {k \in 0 .. stop :
                   /\ AgeInv(w[k])
                   /\ w[k].updated = acc.updated \cup {s[j] : j \in 1 .. k}
                   /\ \A j \in Queues : \A q :
                        Contains(w[k].qs[j], q) => Contains(acc.qs[j], q) \/ q \in w[k].updated}
<1>6. 0 \in S
  BY <1>2, <1>3
<1>7. ASSUME NEW k \in 0 .. stop - 1, k \in S
      PROVE  k + 1 \in S
  <2> DEFINE a == w[k]
             b == w[k + 1]
             p == s[k + 1]
  <2>1. k + 1 \in 1 .. stop /\ k + 1 \in 1 .. Len(s) /\ k + 1 \in 0 .. stop /\ (k + 1) - 1 = k /\ k \in Nat
    BY <1>3
  <2>2. /\ AgeInv(a)
        /\ a.updated = acc.updated \cup {s[j] : j \in 1 .. k}
        /\ \A j \in Queues : \A q : Contains(a.qs[j], q) => Contains(acc.qs[j], q) \/ q \in a.updated
    BY <1>7
  <2>3. p \in Queued /\ p \notin acc.updated
    BY <1>2, <1>5, <2>1
  <2>4. p \notin {s[j] : j \in 1 .. k}
    <3> SUFFICES ASSUME NEW j \in 1 .. k, s[j] = p PROVE FALSE
      OBVIOUS
    <3>1. j \in 1 .. Len(s) /\ j # k + 1
      BY <1>3, <2>1
    <3> QED BY <3>1, <2>1, <1>4
  <2>5. b = AgeOne(a, p)
    BY <1>2, <2>1
  <2> HIDE DEF a, b, p
  <2>6. p \notin a.updated
    BY <2>2, <2>3, <2>4
  <2>7. /\ AgeInv(b)
        /\ b.updated = a.updated \cup {p}
        /\ \A j \in Queues : \A q : Contains(b.qs[j], q) => Contains(a.qs[j], q) \/ q = p
    BY <2>2, <2>3, <2>5, <2>6, AgeOneKeeps
  <2>8. b.updated = acc.updated \cup {s[j] : j \in 1 .. k + 1}
    <3>1. {s[j] : j \in 1 .. k + 1} = {s[j] : j \in 1 .. k} \cup {s[k + 1]}
      BY <2>1
    <3> QED BY <3>1, <2>2, <2>7 DEF p
  <2>9. \A j \in Queues : \A q : Contains(b.qs[j], q) => Contains(acc.qs[j], q) \/ q \in b.updated
    BY <2>2, <2>7
  <2> QED BY <2>1, <2>7, <2>8, <2>9 DEF b
<1>8. stop \in S
  <2> HIDE DEF S
  <2>1. \A k \in 0 .. stop : k \in S
    BY <1>3, <1>6, <1>7, UpTo
  <2> QED BY <2>1, <1>3
<1>9. /\ AgeInv(r)
      /\ r.updated = acc.updated \cup {s[j] : j \in 1 .. stop}
      /\ \A j \in Queues : \A q : Contains(r.qs[j], q) => Contains(acc.qs[j], q) \/ q \in r.updated
  BY <1>2, <1>8
<1> HIDE DEF S
<1>10. \A k \in 1 .. Len(s) : s[k] \in r.updated
  <2> TAKE k \in 1 .. Len(s)
  <2>1. CASE k <= stop
    BY <2>1, <1>3, <1>9
  <2>2. CASE k = stop + 1
    BY <2>2, <1>2, <1>3, <1>9
  <2>3. CASE k > stop + 1
    <3>1. stop + 1 \in DOMAIN acc.qs[i] /\ k \in DOMAIN acc.qs[i] /\ stop + 1 < k /\ stop < Len(s)
      BY <2>3, <1>3 DEF s
    <3>2. acc.qs[i][stop + 1] \in acc.updated
      BY <3>1, <1>2 DEF s
    <3>3. acc.qs[i][k] \in acc.updated
      BY <3>1, <3>2, <1>1 DEF MovedLast
    <3> QED BY <3>3, <1>9 DEF s
  <2> QED BY <2>1, <2>2, <2>3, <1>3
<1>11. ASSUME NEW j \in Queues, j <= i, NEW q, Contains(acc.qs[j], q)
       PROVE  q \in r.updated
  <2>1. CASE j = i
    BY <2>1, <1>10, <1>11 DEF Contains, s
  <2>2. CASE j < i
    <3>1. q \in Range(acc.qs[j])
      BY <1>1, <1>11 DEF Contains, Range, Lists
    <3> QED BY <2>2, <3>1, <1>9
  <2>3. i \in Int /\ j \in Int
    BY DEF Queues
  <2> QED BY <2>1, <2>2, <2>3, <1>11
<1>12. ASSUME NEW j \in Queues, j <= i, NEW q \in Range(r.qs[j])
       PROVE  q \in r.updated
  <2>1. r.qs \in Lists
    BY <1>9 DEF AgeInv, Accs
  <2>2. Contains(r.qs[j], q)
    <3>1. PICK k \in DOMAIN r.qs[j] : r.qs[j][k] = q
      BY DEF Range
    <3>2. DOMAIN r.qs[j] = 1 .. Len(r.qs[j])
      BY <2>1 DEF Lists
    <3> QED BY <3>1, <3>2 DEF Contains
  <2> QED BY <2>2, <1>9, <1>11, <1>12
<1> QED BY <1>9, <1>12

LEMMA AgeQueueTyped ==
  ASSUME TypeOK, NEW acc \in Accs, NEW i \in Queues
  PROVE  AgeQueue(acc, i) \in Accs
<1>1. Walked(acc, acc.qs[i], AgeQueue(acc, i))
  BY WalkIs
<1>2. PICK stop \in 0 .. Len(acc.qs[i]) :
        \E w \in [0 .. stop -> Accs] : AgeQueue(acc, i) = w[stop]
  BY <1>1 DEF Walked
<1>3. Len(acc.qs[i]) \in Nat
  BY DEF Accs, Lists
<1> QED BY <1>2, <1>3

LEMMA AgedIs ==
  ASSUME TypeOK
  PROVE  /\ Aged[0] = [qs |-> queues, updated |-> {}]
         /\ \A n \in 1 .. LastQueue + 1 : Aged[n] = AgeQueue(Aged[n - 1], n - 1)
<1> DEFINE N == LastQueue + 1
           a0 == [qs |-> queues, updated |-> {}]
           step == [x \in Accs \X (1 .. N) |-> AgeQueue(x[1], x[2] - 1)]
           Def(f) == f = [n \in 0 .. N |-> IF n = 0 THEN a0 ELSE AgeQueue(f[n - 1], n - 1)]
<1>1. N \in Nat /\ \A k \in 1 .. N : k - 1 \in Queues
  BY LastIsQueue DEF Queues
<1>2. a0 \in Accs
  BY DEF TypeOK, Accs, Lists
<1>3. Aged = CHOOSE f : Def(f)
  BY DEF Aged
<1>4. step \in [Accs \X (1 .. N) -> Accs]
  BY <1>1, AgeQueueTyped
<1>5. \A a \in Accs : \A k \in 1 .. N : step[<<a, k>>] = AgeQueue(a, k - 1)
  OBVIOUS
<1> HIDE DEF step, a0, N
<1>6. PICK f \in [0 .. N -> Accs] : Unfolds(f, N, a0, step)
  BY <1>1, <1>2, <1>4, RecursionExists
<1>7. Def(f)
  <2>1. \A k \in 0 .. N : f[k] = IF k = 0 THEN a0 ELSE step[<<f[k - 1], k>>]
    BY <1>6 DEF Unfolds
  <2>2. ASSUME NEW k \in 0 .. N
        PROVE  f[k] = IF k = 0 THEN a0 ELSE AgeQueue(f[k - 1], k - 1)
    <3>1. CASE k = 0
      BY <2>1, <3>1
    <3>2. CASE k # 0
      <4>1. k \in 1 .. N /\ k - 1 \in 0 .. N
        BY <3>2, <1>1
      <4>2. f[k - 1] \in Accs
        BY <4>1, <1>6
      <4> QED BY <2>1, <3>2, <4>1, <4>2, <1>5
    <3> QED BY <3>1, <3>2
  <2> QED BY <1>6, <2>2
<1>8. Def(Aged)
  <2> HIDE DEF Def
  <2> QED BY <1>3, <1>7
<1>9. \A k \in 0 .. N : Aged[k] = IF k = 0 THEN a0 ELSE AgeQueue(Aged[k - 1], k - 1)
  BY <1>8
<1> HIDE DEF Def
<1>10. 0 \in 0 .. N /\ \A k \in 1 .. N : k \in 0 .. N /\ k # 0
  BY <1>1
<1>11. Aged[0] = a0 /\ \A k \in 1 .. N : Aged[k] = AgeQueue(Aged[k - 1], k - 1)
  BY <1>9, <1>10
<1> QED BY <1>11 DEF a0, N

(* The whole walk: ssu_update_priority().                                  *)
LEMMA AgeingReaches ==
  ASSUME TypeOK, Filed
  PROVE  \A n \in 0 .. LastQueue + 1 : AgeReaches(n)
<1> DEFINE S == {n \in 0 .. LastQueue + 1 : AgeReaches(n)}
<1>1. LastQueue + 1 \in Nat
  BY LastIsQueue
<1>2. queues \in Lists
  BY DEF TypeOK, Lists
<1>3. 0 \in S
  <2> DEFINE a == [qs |-> queues, updated |-> {}]
  <2>1. a \in Accs /\ a.qs = queues /\ a.updated = {}
    BY <1>2 DEF Accs
  <2>2. Once(queues)
    BY DEF Filed, Once
  <2> HIDE DEF a
  <2>3. AgeInv(a)
    BY <2>1, <2>2 DEF AgeInv, MovedLast, Queued
  <2>4. Aged[0] = a
    BY AgedIs DEF a
  <2>5. \A i \in Queues : ~ (i < 0)
    BY DEF Queues
  <2> QED BY <1>1, <2>3, <2>4, <2>5 DEF AgeReaches
<1>4. ASSUME NEW n \in 0 .. (LastQueue + 1) - 1, n \in S
      PROVE  n + 1 \in S
  <2>1. n \in Queues /\ n + 1 \in 1 .. LastQueue + 1 /\ (n + 1) - 1 = n /\ n + 1 \in 0 .. LastQueue + 1
    BY LastIsQueue DEF Queues
  <2> DEFINE a == Aged[n]
             b == Aged[n + 1]
  <2>2. AgeInv(a) /\ \A i \in Queues : i < n => Range(a.qs[i]) \subseteq a.updated
    BY <1>4 DEF AgeReaches
  <2>3. b = AgeQueue(a, n)
    BY <2>1, AgedIs
  <2> HIDE DEF a, b
  <2>4. AgeInv(b) /\ \A i \in Queues : i <= n => Range(b.qs[i]) \subseteq b.updated
    BY <2>1, <2>2, <2>3, AgeQueueKeeps
  <2>5. \A i \in Queues : i < n + 1 => i <= n
    BY DEF Queues
  <2>6. \A i \in Queues : i < n + 1 => Range(b.qs[i]) \subseteq b.updated
    BY <2>4, <2>5
  <2> QED BY <2>1, <2>4, <2>6 DEF AgeReaches, b
<1> HIDE DEF S
<1>5. \A n \in 0 .. LastQueue + 1 : n \in S
  BY <1>1, <1>3, <1>4, UpTo
<1> QED BY <1>5 DEF S

(* At the end everybody has been moved, to the queue of its new priority.   *)
LEMMA AgeingEnds ==
  ASSUME TypeOK, Filed, NEW r, r = Aged[LastQueue + 1]
  PROVE  /\ r.qs \in Lists /\ Once(r.qs)
         /\ Entries(r.qs) = Queued /\ r.updated = Queued
         /\ \A p \in Queued : Contains(r.qs[QueueOf(AgedPrio(p))], p)
<1>1. AgeReaches(LastQueue + 1)
  BY AgeingReaches, LastIsQueue
<1>2. AgeInv(r) /\ \A i \in Queues : i < LastQueue + 1 => Range(r.qs[i]) \subseteq r.updated
  BY <1>1 DEF AgeReaches
<1>3. \A i \in Queues : i < LastQueue + 1
  BY LastIsQueue DEF Queues
<1>4. Entries(r.qs) \subseteq r.updated
  BY <1>2, <1>3 DEF Entries
<1> QED BY <1>2, <1>4 DEF AgeInv, Accs

-----------------------------------------------------------------------------
(* The steps *)

States == {"UNUSED", "RUNNABLE", "RUNNING", "SLEEPING", "ZOMBIE"}
Unregistered == {"pulled", "cut", "panic"}

LEMMA BestIs == TypeOK => BestPriority \in InQueues
<1> SUFFICES ASSUME TypeOK PROVE BestPriority \in InQueues
  OBVIOUS
<1> DEFINE of(i) == {prio[queues[i][k]] : k \in Ready(i)} \ {MAXPRIOR}
           some == {i \in 0 .. LastQueue - 1 : of(i) # {}}
<1>1. \A i \in Queues : of(i) \subseteq InQueues
  BY DEF TypeOK, Ready
<1>2. some \subseteq Nat /\ some \subseteq Queues
  BY LastIsQueue DEF Queues
<1>3. BestPriority = IF some = {} THEN 0 ELSE Min(of(Min(some)))
  BY DEF BestPriority
<1>4. ASSUME some # {}
      PROVE  Min(of(Min(some))) \in InQueues
  <2>1. Min(some) \in some
    <3> HIDE DEF some
    <3> QED BY <1>2, <1>4, MinOfNats
  <2>2. of(Min(some)) # {} /\ of(Min(some)) \subseteq InQueues
    BY <1>1, <1>2, <2>1
  <2> HIDE DEF of
  <2> QED BY <2>2, MinOfPriors
<1>5. 0 \in InQueues
  BY PriorNamesQueue
<1> HIDE DEF of, some
<1> QED BY <1>3, <1>4, <1>5

(* A wakeup touches sleepers only, and not the priority of the idle ones.   *)
LEMMA WokenIs ==
  ASSUME TypeOK, NEW S \in SUBSET Sleepers
  PROVE  /\ Woken(S) \in [Procs -> States]
         /\ WokenPrio(S) \in [Procs -> InQueues]
         /\ \A q \in idle : WokenPrio(S)[q] = prio[q]
         /\ \A q \in Procs :
              Woken(S)[q] = state[q] \/ (state[q] = "SLEEPING" /\ Woken(S)[q] = "RUNNABLE")
<1>1. state \in [Procs -> States] /\ prio \in [Procs -> InQueues] /\ idle \subseteq Procs
  BY DEF TypeOK, States
<1>2. Woken(S) \in [Procs -> States]
  BY <1>1 DEF Woken, States
<1>3. WokenPrio(S) \in [Procs -> InQueues]
  BY <1>1, BestIs DEF WokenPrio
<1>4. \A q \in idle : WokenPrio(S)[q] = prio[q]
  BY <1>1 DEF WokenPrio
<1>5. \A q \in Procs :
        Woken(S)[q] = state[q] \/ (state[q] = "SLEEPING" /\ Woken(S)[q] = "RUNNABLE")
  <2> TAKE q \in Procs
  <2>1. q \in S => state[q] = "SLEEPING"
    BY DEF Sleepers
  <2> QED BY <2>1 DEF Woken
<1> QED BY <1>2, <1>3, <1>4, <1>5

LEMMA RegisteredIs ==
  ASSUME TypeOK
  PROVE  Filed <=>
           /\ \A p \in Procs : (\E i \in Queues : Contains(queues[i], p))
                <=> p \in Live /\ pc[p] \notin Unregistered
           /\ Once(queues)
           /\ \A p \in idle \cap Live : prio[p] = MAXPRIOR /\ Contains(queues[LastQueue], p)
<1>1. queues \in Lists
  BY DEF TypeOK, Lists
<1>2. \A p : p \in Queued <=> \E i \in Queues : Contains(queues[i], p)
  BY <1>1, EntriesAre DEF Queued
<1>3. Queued \subseteq Procs
  BY <1>1, <1>2, EntriesAreProcs
<1>4. Live \subseteq Procs
  BY DEF Live
<1>5. Queued = {p \in Live : pc[p] \notin {"pulled", "cut", "panic"}}
        <=> \A p \in Procs : p \in Queued <=> p \in Live /\ pc[p] \notin Unregistered
  BY <1>3, <1>4 DEF Unregistered
<1> QED BY <1>2, <1>5 DEF Filed, Once

(* Nothing happens to the queues, and nobody begins or ceases to belong     *)
(* there.                                                                  *)
LEMMA RegisteredStays ==
  ASSUME TypeOK, TypeOK', Filed, queues' = queues,
         \A p \in Procs : (p \in Live)' <=> p \in Live,
         \A p \in Live : pc'[p] \in Unregistered <=> pc[p] \in Unregistered,
         idle' \subseteq idle,
         \A p \in idle' \cap Live : prio'[p] = prio[p]
  PROVE  Filed'
<1>1. /\ \A p \in Procs : (\E i \in Queues : Contains(queues[i], p))
           <=> p \in Live /\ pc[p] \notin Unregistered
      /\ Once(queues)
      /\ \A p \in idle \cap Live : prio[p] = MAXPRIOR /\ Contains(queues[LastQueue], p)
  BY RegisteredIs
<1>2. (Filed <=>
           /\ \A p \in Procs : (\E i \in Queues : Contains(queues[i], p))
                <=> p \in Live /\ pc[p] \notin Unregistered
           /\ Once(queues)
           /\ \A p \in idle \cap Live : prio[p] = MAXPRIOR /\ Contains(queues[LastQueue], p))'
  BY RegisteredIs, PTL
<1>3. (Once(queues))'
  BY <1>1 DEF Once
<1>4. \A p \in Procs : (\E i \in Queues : Contains(queues'[i], p))
           <=> (p \in Live)' /\ pc'[p] \notin Unregistered
  BY <1>1
<1>5. (Live \subseteq Procs)'
  BY DEF Live
<1>6. \A p \in idle' \cap Live' : prio'[p] = MAXPRIOR /\ Contains(queues'[LastQueue], p)
  BY <1>1, <1>5
<1> QED BY <1>2, <1>3, <1>4, <1>6

Places == {"user", "sys", "pull", "pulled", "put", "exit", "dying", "cut", "panic"}

LEMMA TypesAre ==
  TypeOK <=>
    /\ state \in [Procs -> States] /\ prio \in [Procs -> InQueues]
    /\ timer \in [Procs -> Timers \cup {0}]
    /\ cpuUsed \in [Procs -> Nat] /\ procTick \in [Procs -> Nat] /\ priorityTick \in [Procs -> Nat]
    /\ idle \subseteq Procs /\ shell \in BOOLEAN
    /\ queues \in Lists /\ cur \in Procs \cup {NoProc} /\ pc \in [Procs -> Places]
    /\ irq \in {"none", "age", "end"} /\ updateTicks \in Nat
    /\ stale \subseteq Procs /\ wild \in BOOLEAN
BY DEF TypeOK, States, Places, Lists

LEMMA InvInit == Init => Inv
<1> SUFFICES ASSUME Init PROVE Inv
  OBVIOUS
<1> USE DEF Init
<1>1. <<InitProc>> \in Seq(Procs) /\ << >> \in Seq(Procs)
  BY InitIsProc
<1>2. TypeOK
  <2>1. queues \in Lists
    BY <1>1 DEF Lists
  <2>2. state \in [Procs -> States] /\ pc \in [Procs -> Places]
    BY DEF States, Places
  <2>3. prio \in [Procs -> InQueues]
    BY PriorNamesQueue
  <2> QED BY <2>1, <2>2, <2>3, InitIsProc, TypesAre
<1>3. Filed
  <2>1. \A i \in Queues : \A k \in DOMAIN queues[i] : i = LastQueue /\ k = 1 /\ queues[i][k] = InitProc
    OBVIOUS
  <2>2. Once(queues)
    BY <2>1 DEF Once
  <2>3. Contains(queues[LastQueue], InitProc)
    BY LastIsQueue DEF Contains
  <2>4. \A p \in Procs : p \in Live <=> p = InitProc
    BY DEF Live
  <2>5. \A p \in Procs : (\E i \in Queues : Contains(queues[i], p)) <=> p = InitProc
    <3>1. \A i \in Queues : DOMAIN queues[i] = 1 .. Len(queues[i])
      <4> HIDE DEF Init
      <4>1. queues \in Lists
        BY <1>2, TypesAre
      <4> QED BY <4>1 DEF Lists
    <3>2. \A p \in Procs : (\E i \in Queues : Contains(queues[i], p)) => p = InitProc
      BY <2>1, <3>1 DEF Contains
    <3> QED BY <2>3, <3>2, LastIsQueue
  <2>6. \A p \in Procs : pc[p] \notin Unregistered
    BY DEF Unregistered
  <2>7. \A p \in idle \cap Live : prio[p] = MAXPRIOR /\ Contains(queues[LastQueue], p)
    BY <2>3, InitIsProc
  <2> QED BY <1>2, <2>2, <2>4, <2>5, <2>6, <2>7, RegisteredIs
<1>4. QuantumBound /\ CurRuns /\ NoTickWhileDying /\ QuantumLeft
  BY InitIsProc DEF QuantumBound, CurRuns, NoTickWhileDying, QuantumLeft
<1>5. IdleStays
  BY InitIsProc DEF IdleStays, Setting
<1> QED BY <1>2, <1>3, <1>4, <1>5 DEF Inv

(* An entry of a queue is a process.                                       *)
LEMMA ScheduleInv == Inv /\ Schedule => Inv'
<1> SUFFICES ASSUME Inv, Schedule PROVE Inv'
  OBVIOUS
<1>1. TypeOK /\ Filed /\ QuantumBound /\ CurRuns /\ IdleStays
  BY DEF Inv
<1>2. /\ state \in [Procs -> States] /\ procTick \in [Procs -> Nat] /\ queues \in Lists
      /\ cur = NoProc /\ irq = "none"
  BY <1>1, TypesAre DEF Schedule
<1>3. PICK p \in Procs : state[p] = "RUNNABLE" /\ cur' = p /\ state' = [state EXCEPT ![p] = "RUNNING"]
  <2>a. PICK n \in Queues : \E i \in Ready(n) :
          cur' = queues[n][i] /\ state' = [state EXCEPT ![queues[n][i]] = "RUNNING"]
    BY DEF Schedule
  <2>1. PICK i \in Ready(n) :
          cur' = queues[n][i] /\ state' = [state EXCEPT ![queues[n][i]] = "RUNNING"]
    BY <2>a
  <2>2. queues[n] \in Seq(Procs)
    BY <1>2 DEF Lists
  <2>3. queues[n][i] \in Procs /\ state[queues[n][i]] = "RUNNABLE"
    BY <2>2 DEF Ready
  <2> QED BY <2>1, <2>3
<1>4. UNCHANGED <<prio, timer, counters, pids, queues, pc, irq, updateTicks, damage>>
  BY DEF Schedule
<1>5. TypeOK'
  <2>1. state' \in [Procs -> States]
    BY <1>2, <1>3 DEF States
  <2> QED BY <2>1, <1>1, <1>3, <1>4, TypesAre DEF counters, pids, TypeOK, States, damage
<1>6. \A q \in Procs : state'[q] = IF q = p THEN "RUNNING" ELSE state[q]
  BY <1>2, <1>3
<1>7. Filed'
  <2>1. \A q \in Procs : (q \in Live)' <=> q \in Live
    BY <1>3, <1>6 DEF Live
  <2> QED BY <2>1, <1>1, <1>4, <1>5, RegisteredStays DEF pids
<1>8. CurRuns' /\ IdleStays' /\ NoTickWhileDying'
  BY <1>1, <1>2, <1>3, <1>4, <1>6, InitIsProc DEF CurRuns, IdleStays, NoTickWhileDying, pids, TypeOK, damage
<1>9. QuantumBound' /\ QuantumLeft'
  <2>1. \A q \in Procs : procTick[q] = 0
    BY <1>1, <1>2, InitIsProc DEF QuantumBound
  <2> QED BY <2>1, <1>3, <1>4 DEF QuantumBound, QuantumLeft, counters
<1> QED BY <1>5, <1>7, <1>8, <1>9 DEF Inv

(* A change of the queues makes the walks of others stale.                 *)
LEMMA Disturbed ==
  ASSUME TypeOK, NEW p, Disturbs(p)
  PROVE  stale' \subseteq Procs
BY DEF TypeOK, Disturbs, Walking

(* The end of what the model says: nothing else changes in that step.       *)
LEMMA WildInv ==
  ASSUME Inv, NEW p \in Procs, SetTorn(p) \/ SetWild(p)
  PROVE  Inv'
<1>1. /\ wild' = TRUE
      /\ UNCHANGED <<state, prio, timer, cpuUsed, procTick, priorityTick, idle, shell,
                     queues, cur, pc, irq, updateTicks, stale>>
  BY DEF SetTorn, SetWild, counters, pids
<1>2. Live' = Live /\ Queued' = Queued
  BY <1>1 DEF Live, Queued, Entries
<1>3. TypeOK' /\ Filed' /\ QuantumBound'
  BY <1>1, <1>2 DEF Inv, TypeOK, Filed, QuantumBound
<1>4. CurRuns' /\ IdleStays' /\ NoTickWhileDying' /\ QuantumLeft'
  BY <1>1 DEF Inv, CurRuns, IdleStays, NoTickWhileDying, QuantumLeft
<1> QED BY <1>3, <1>4 DEF Inv

(* A failed fork() uses up a pid.                                          *)
LEMMA ForkFailInv ==
  ASSUME Inv, NEW p \in Procs, ForkFail(p)
  PROVE  Inv'
<1>1. /\ shell' = TRUE
      /\ UNCHANGED <<state, prio, timer, cpuUsed, procTick, priorityTick, idle,
                     queues, cur, pc, irq, updateTicks, stale, wild>>
  BY DEF ForkFail, counters, damage
<1>2. Live' = Live /\ Queued' = Queued
  BY <1>1 DEF Live, Queued, Entries
<1>3. TypeOK' /\ Filed' /\ QuantumBound'
  BY <1>1, <1>2 DEF Inv, TypeOK, Filed, QuantumBound
<1>4. CurRuns' /\ IdleStays' /\ NoTickWhileDying' /\ QuantumLeft'
  BY <1>1 DEF Inv, CurRuns, IdleStays, NoTickWhileDying, QuantumLeft
<1> QED BY <1>3, <1>4 DEF Inv

(* Steps that leave the queues alone: they keep who belongs there, and the  *)
(* process they stop or start has no ticks.                                *)
LEMMA LocalStep ==
  ASSUME Inv, TypeOK', queues' = queues, idle' = idle,
         \A q \in Procs : (q \in Live)' <=> q \in Live,
         \A q \in Procs : pc'[q] = pc[q] \/ {pc'[q], pc[q]} \cap Unregistered = {}
                         \/ {pc'[q], pc[q]} \subseteq Unregistered,
         \A q \in idle : prio'[q] = prio[q] /\ state'[q] # "UNUSED"
                       /\ pc'[q] \notin Setting,
         CurRuns', QuantumBound', NoTickWhileDying', QuantumLeft'
  PROVE  Inv'
<1>1. TypeOK /\ Filed
  BY DEF Inv
<1>2. \A q \in Live : pc'[q] \in Unregistered <=> pc[q] \in Unregistered
  BY DEF Live
<1>3. Filed'
  BY <1>1, <1>2, RegisteredStays
<1>4. IdleStays'
  BY DEF IdleStays
<1> QED BY <1>3, <1>4 DEF Inv

(* What a system call starts from.                                         *)
LEMMA Running ==
  ASSUME Inv, NEW p \in Procs, cur = p, irq = "none"
  PROVE  /\ TypeOK /\ Filed
         /\ state[p] = "RUNNING" /\ p \in Live
         /\ \A q \in Procs : state[q] = "RUNNING" <=> q = p
         /\ \A q \in Procs : q # p => procTick[q] = 0
         /\ procTick[p] \in Nat /\ procTick[p] <= TIMEQUANTUM
         /\ pc[p] \notin {"dying", "cut", "panic"} => procTick[p] < TIMEQUANTUM
         /\ \A q \in idle : state[q] # "UNUSED" /\ pc[q] \notin Setting
<1>1. TypeOK /\ Filed /\ QuantumBound /\ CurRuns /\ IdleStays /\ QuantumLeft
  BY DEF Inv
<1>2. procTick \in [Procs -> Nat]
  BY <1>1, TypesAre
<1>3. \A q \in Procs : state[q] = "RUNNING" <=> q = p
  BY <1>1 DEF CurRuns
<1>4. p \in Live
  BY <1>3 DEF Live
<1>5. \A q \in Procs : q # p => procTick[q] = 0
  BY <1>1, <1>2 DEF QuantumBound
<1>6. procTick[p] \in Nat /\ procTick[p] <= TIMEQUANTUM
  BY <1>1, <1>2 DEF QuantumBound
<1>7. pc[p] \notin {"dying", "cut", "panic"} => procTick[p] < TIMEQUANTUM
  BY <1>1, InitIsProc DEF QuantumLeft
<1> QED BY <1>1, <1>3, <1>4, <1>5, <1>6, <1>7 DEF IdleStays

LEMMA SleepInv ==
  ASSUME Inv, NEW p \in Procs, Sleep(p)
  PROVE  Inv'
<1>1. cur = p /\ irq = "none" /\ pc[p] \in {"user", "sys", "exit", "dying", "cut"}
  BY DEF Sleep
<1>2. /\ state' = [state EXCEPT ![p] = "SLEEPING"]
      /\ pc' = [pc EXCEPT ![p] = IF pc[p] = "user" THEN "sys" ELSE pc[p]]
      /\ cur' = NoProc /\ procTick' = [procTick EXCEPT ![p] = 0]
      /\ UNCHANGED <<prio, timer, cpuUsed, priorityTick, pids, queues, irq, updateTicks, damage>>
  BY DEF Sleep, Leave
<1>3. /\ TypeOK /\ p \in Live /\ (\A q \in Procs : state[q] = "RUNNING" <=> q = p)
      /\ (\A q \in Procs : q # p => procTick[q] = 0)
      /\ \A q \in idle : state[q] # "UNUSED" /\ pc[q] \notin Setting
  BY <1>1, Running
<1>4. state \in [Procs -> States] /\ pc \in [Procs -> Places] /\ procTick \in [Procs -> Nat] /\ idle \subseteq Procs
  BY <1>3, TypesAre
<1>5. TypeOK'
  <2>1. state' \in [Procs -> States] /\ procTick' \in [Procs -> Nat]
    BY <1>2, <1>4 DEF States
  <2>2. pc' \in [Procs -> Places]
    BY <1>2, <1>4 DEF Places
  <2> QED BY <2>1, <2>2, <1>2, <1>3 DEF TypeOK, States, Places, pids, damage
<1>6. \A q \in Procs : /\ state'[q] = IF q = p THEN "SLEEPING" ELSE state[q]
                       /\ procTick'[q] = 0
                       /\ q # p => pc'[q] = pc[q]
  BY <1>2, <1>3, <1>4
<1>7. pc'[p] = IF pc[p] = "user" THEN "sys" ELSE pc[p]
  BY <1>2, <1>4
<1>8. \A q \in Procs : (q \in Live)' <=> q \in Live
  BY <1>3, <1>6 DEF Live
<1>9. \A q \in Procs : pc'[q] = pc[q] \/ {pc'[q], pc[q]} \cap Unregistered = {}
  BY <1>6, <1>7 DEF Unregistered
<1>10. \A q \in idle : /\ prio'[q] = prio[q] /\ state'[q] # "UNUSED"
                       /\ pc'[q] \notin Setting
  BY <1>2, <1>3, <1>4, <1>6, <1>7 DEF Setting
<1>11. CurRuns' /\ QuantumBound' /\ NoTickWhileDying' /\ QuantumLeft'
  BY <1>2, <1>3, <1>6, InitIsProc DEF CurRuns, QuantumBound, NoTickWhileDying, QuantumLeft
<1>12. queues' = queues /\ idle' = idle
  BY <1>2 DEF pids
<1> QED BY <1>5, <1>8, <1>9, <1>10, <1>11, <1>12, LocalStep

(* A step of p that changes nothing but its place.                         *)
LEMMA PlaceInv ==
  ASSUME Inv, NEW p \in Procs, cur = p, irq = "none", NEW l \in Places,
         pc' = [pc EXCEPT ![p] = l], l \notin {"pulled", "put"}, l = "pull" => p \notin idle,
         l \in Unregistered <=> pc[p] \in Unregistered,
         l \in {"dying", "cut", "panic"} \/ pc[p] \notin {"dying", "cut", "panic"},
         timer' \in [Procs -> Timers \cup {0}],
         UNCHANGED <<state, prio, counters, pids, queues, cur, irq, updateTicks, damage>>
  PROVE  Inv'
<1>1. /\ TypeOK /\ Filed
      /\ (\A q \in Procs : state[q] = "RUNNING" <=> q = p)
      /\ (\A q \in Procs : q # p => procTick[q] = 0)
      /\ procTick[p] \in Nat /\ procTick[p] <= TIMEQUANTUM
      /\ (pc[p] \notin {"dying", "cut", "panic"} => procTick[p] < TIMEQUANTUM)
      /\ (\A q \in idle : state[q] # "UNUSED" /\ pc[q] \notin Setting)
  BY Running
<1>2. pc \in [Procs -> Places] /\ idle \subseteq Procs
  BY <1>1, TypesAre
<1>3. TypeOK'
  <2>1. pc' \in [Procs -> Places]
    BY <1>2
  <2> QED BY <2>1, <1>1 DEF TypeOK, Places, counters, pids, damage
<1>4. \A q \in Procs : pc'[q] = IF q = p THEN l ELSE pc[q]
  BY <1>2
<1>5. \A q \in Procs : (q \in Live)' <=> q \in Live
  BY DEF Live
<1>6. \A q \in Procs : pc'[q] = pc[q] \/ {pc'[q], pc[q]} \cap Unregistered = {}
                      \/ {pc'[q], pc[q]} \subseteq Unregistered
  BY <1>4
<1>7. \A q \in idle : /\ prio'[q] = prio[q] /\ state'[q] # "UNUSED"
                      /\ pc'[q] \notin Setting
  BY <1>1, <1>2, <1>4 DEF Unregistered, Setting
<1>8. CurRuns' /\ QuantumBound' /\ NoTickWhileDying' /\ QuantumLeft'
  BY <1>1, <1>4 DEF CurRuns, QuantumBound, NoTickWhileDying, QuantumLeft, counters, Inv
<1>9. queues' = queues /\ idle' = idle
  BY DEF pids
<1> QED BY <1>3, <1>5, <1>6, <1>7, <1>8, <1>9, LocalStep

LEMMA SysReturnInv ==
  ASSUME Inv, NEW p \in Procs, SysReturn(p)
  PROVE  Inv'
<1>1. cur = p /\ irq = "none" /\ pc[p] = "sys" /\ pc' = [pc EXCEPT ![p] = "user"]
  BY DEF SysReturn, At
<1>2. UNCHANGED <<state, prio, timer, counters, pids, queues, cur, irq, updateTicks, damage>>
  BY DEF SysReturn
<1>3. timer' \in [Procs -> Timers \cup {0}]
  BY <1>2 DEF Inv, TypeOK
<1> QED BY <1>1, <1>2, <1>3, PlaceInv DEF Places, Unregistered

LEMMA SetCallInv ==
  ASSUME Inv, NEW p \in Procs, SetCall(p)
  PROVE  Inv'
<1>1. /\ cur = p /\ irq = "none" /\ pc[p] = "user" /\ p \notin idle
      /\ pc' = [pc EXCEPT ![p] = "pull"]
  BY DEF SetCall, At
<1>2. UNCHANGED <<state, prio, timer, counters, pids, queues, cur, irq, updateTicks, damage>>
  BY DEF SetCall
<1>3. timer' \in [Procs -> Timers \cup {0}]
  BY <1>2 DEF Inv, TypeOK
<1> QED BY <1>1, <1>2, <1>3, PlaceInv DEF Places, Unregistered

LEMMA SetTimerInv ==
  ASSUME Inv, NEW p \in Procs, SetTimer(p)
  PROVE  Inv'
<1>1. cur = p /\ irq = "none" /\ pc[p] = "put" /\ pc' = [pc EXCEPT ![p] = "user"]
  BY DEF SetTimer, At
<1>2. UNCHANGED <<state, prio, counters, pids, queues, cur, irq, updateTicks, damage>>
  BY DEF SetTimer
<1>3. timer' \in [Procs -> Timers \cup {0}]
  BY DEF SetTimer, Inv, TypeOK
<1> QED BY <1>1, <1>2, <1>3, PlaceInv DEF Places, Unregistered

LEMMA ExitInv ==
  ASSUME Inv, NEW p \in Procs, Exit(p)
  PROVE  Inv'
<1>1. cur = p /\ irq = "none" /\ pc[p] = "user" /\ pc' = [pc EXCEPT ![p] = "exit"]
  BY DEF Exit, At
<1>2. UNCHANGED <<state, prio, timer, counters, pids, queues, cur, irq, updateTicks, damage>>
  BY DEF Exit
<1>3. timer' \in [Procs -> Timers \cup {0}]
  BY <1>2 DEF Inv, TypeOK
<1> QED BY <1>1, <1>2, <1>3, PlaceInv DEF Places, Unregistered

(* Who panics had been pulled: its exit() cut its update_priority().        *)
LEMMA ExitPanicInv ==
  ASSUME Inv, NEW p \in Procs, ExitPanic(p)
  PROVE  Inv'
<1>1. /\ cur = p /\ irq = "none" /\ pc[p] \in {"exit", "dying", "cut"} /\ p \notin Queued
      /\ pc' = [pc EXCEPT ![p] = "panic"]
  BY DEF ExitPanic
<1>2. UNCHANGED <<state, prio, timer, counters, pids, queues, cur, irq, updateTicks, damage>>
  BY DEF ExitPanic
<1>3. timer' \in [Procs -> Timers \cup {0}]
  BY <1>2 DEF Inv, TypeOK
<1>4. p \in Live /\ Filed
  BY <1>1, Running
<1>5. pc[p] \in {"pulled", "cut", "panic"}
  BY <1>1, <1>4 DEF Filed
<1>6. pc[p] = "cut"
  BY <1>1, <1>5
<1> QED BY <1>1, <1>2, <1>3, <1>6, PlaceInv DEF Places, Unregistered

(* A wakeup, of any sleepers, and whatever priority they are given.        *)
LEMMA WakeInv ==
  ASSUME Inv, state' \in [Procs -> States], prio' \in [Procs -> InQueues],
         \A q \in Procs : state'[q] = state[q] \/ (state[q] = "SLEEPING" /\ state'[q] = "RUNNABLE"),
         \A q \in idle : prio'[q] = prio[q],
         UNCHANGED <<timer, counters, pids, queues, cur, pc, irq, updateTicks, damage>>
  PROVE  Inv'
<1>1. TypeOK /\ QuantumBound /\ CurRuns /\ IdleStays /\ NoTickWhileDying /\ QuantumLeft
  BY DEF Inv
<1>2. idle \subseteq Procs
  BY <1>1, TypesAre
<1>3. TypeOK'
  BY <1>1 DEF TypeOK, States, counters, pids, damage
<1>4. \A q \in Procs : (q \in Live)' <=> q \in Live
  BY DEF Live
<1>5. \A q \in idle : prio'[q] = prio[q] /\ state'[q] # "UNUSED"
                      /\ pc'[q] \notin Setting
  BY <1>1, <1>2 DEF IdleStays
<1>6. CurRuns'
  BY <1>1 DEF CurRuns
<1>7. QuantumBound' /\ NoTickWhileDying' /\ QuantumLeft'
  BY <1>1 DEF QuantumBound, NoTickWhileDying, QuantumLeft, counters
<1>8. queues' = queues /\ idle' = idle /\ pc' = pc
  BY DEF pids
<1> QED BY <1>3, <1>4, <1>5, <1>6, <1>7, <1>8, LocalStep

LEMMA WakeupInv == Inv /\ Wakeup => Inv'
<1> SUFFICES ASSUME Inv, Wakeup PROVE Inv'
  OBVIOUS
<1>1. PICK S \in SUBSET Sleepers : state' = Woken(S) /\ prio' = WokenPrio(S)
  BY DEF Wakeup
<1>2. UNCHANGED <<timer, counters, pids, queues, cur, pc, irq, updateTicks, damage>>
  BY DEF Wakeup
<1>3. TypeOK
  BY DEF Inv
<1> QED BY <1>1, <1>2, <1>3, WokenIs, WakeInv

LEMMA KillInv ==
  ASSUME Inv, NEW p \in Procs, Kill(p)
  PROVE  Inv'
<1>1. PICK q \in Sleepers : state' = [state EXCEPT ![q] = "RUNNABLE"]
  BY DEF Kill
<1>2. UNCHANGED <<prio, timer, counters, pids, queues, cur, pc, irq, updateTicks, damage>>
  BY DEF Kill
<1>3. state \in [Procs -> States] /\ prio \in [Procs -> InQueues]
  BY TypesAre DEF Inv
<1>4. q \in Procs /\ state[q] = "SLEEPING"
  BY DEF Sleepers
<1>5. state' \in [Procs -> States]
  BY <1>1, <1>3 DEF States
<1>6. \A r \in Procs : state'[r] = state[r] \/ (state[r] = "SLEEPING" /\ state'[r] = "RUNNABLE")
  BY <1>1, <1>3, <1>4
<1> QED BY <1>2, <1>3, <1>5, <1>6, WakeInv

(* The next registration, from the lists and who belongs there.            *)
LEMMA RegisteredNext ==
  ASSUME TypeOK', (Once(queues))',
         \A q \in Procs : (\E i \in Queues : Contains(queues'[i], q))
           <=> (q \in Live)' /\ pc'[q] \notin Unregistered,
         \A q \in idle' : (q \in Live)' => prio'[q] = MAXPRIOR /\ Contains(queues'[LastQueue], q)
  PROVE  Filed'
<1>1. (Filed <=>
           /\ \A p \in Procs : (\E i \in Queues : Contains(queues[i], p))
                <=> p \in Live /\ pc[p] \notin Unregistered
           /\ Once(queues)
           /\ \A p \in idle \cap Live : prio[p] = MAXPRIOR /\ Contains(queues[LastQueue], p))'
  BY RegisteredIs, PTL
<1> QED BY <1>1

(* The new process is in the queue of its priority and nowhere else; only   *)
(* the shell is idle, and it goes to the last queue.                       *)
LEMMA ForkInv ==
  ASSUME Inv, NEW p \in Procs, Fork(p)
  PROVE  Inv'
<1> DEFINE n == IF shell THEN BestPriority ELSE MAXPRIOR
           c == QueueOf(n)
<1>1. cur = p /\ irq = "none" /\ pc[p] = "user"
  BY DEF Fork, At
<1>2. PICK q \in Procs :
        /\ state[q] = "UNUSED"
        /\ state' = [state EXCEPT ![q] = "RUNNABLE"]
        /\ prio' = [prio EXCEPT ![q] = n]
        /\ queues' = Put(queues, q, n)
        /\ idle' = IF shell THEN idle ELSE idle \cup {q}
        /\ pc' = [pc EXCEPT ![q] = "user"]
  BY DEF Fork
<1>3. /\ shell' = TRUE /\ Disturbs(p)
      /\ UNCHANGED <<timer, counters, cur, irq, updateTicks, wild>>
  BY DEF Fork
<1>4. /\ TypeOK /\ Filed /\ state[p] = "RUNNING"
      /\ (\A r \in Procs : state[r] = "RUNNING" <=> r = p)
      /\ procTick[p] < TIMEQUANTUM
      /\ (\A r \in idle : state[r] # "UNUSED" /\ pc[r] \notin Setting)
  BY <1>1, Running
<1>5. n \in InQueues /\ (~shell => n = MAXPRIOR)
  BY <1>4, BestIs, PriorNamesQueue
<1> HIDE DEF n
<1>6. /\ state \in [Procs -> States] /\ prio \in [Procs -> InQueues] /\ pc \in [Procs -> Places]
      /\ queues \in Lists /\ idle \subseteq Procs
  BY <1>4, TypesAre
<1>7. /\ \A r \in Procs : (\E i \in Queues : Contains(queues[i], r))
           <=> r \in Live /\ pc[r] \notin Unregistered
      /\ Once(queues)
      /\ \A r \in idle \cap Live : prio[r] = MAXPRIOR /\ Contains(queues[LastQueue], r)
  BY <1>4, RegisteredIs
<1>8. q \notin Live /\ q \notin Entries(queues) /\ q # p /\ q \notin idle
  BY <1>2, <1>4, <1>6, <1>7, EntriesAre DEF Live
<1>9. c \in Queues /\ c = QueueOf(n)
  BY <1>5, PriorNamesQueue
<1> HIDE DEF c
<1>10. Placed(queues', queues, q, c)
  BY <1>2, <1>5, <1>6, <1>7, <1>8, <1>9, PutIs
<1>11. \A r \in Procs : /\ state'[r] = IF r = q THEN "RUNNABLE" ELSE state[r]
                        /\ prio'[r] = IF r = q THEN n ELSE prio[r]
                        /\ pc'[r] = IF r = q THEN "user" ELSE pc[r]
  BY <1>2, <1>6
<1>12. TypeOK'
  <2>1. state' \in [Procs -> States] /\ prio' \in [Procs -> InQueues] /\ pc' \in [Procs -> Places]
    BY <1>2, <1>5, <1>6 DEF States, Places
  <2>2. queues' \in [Queues -> Seq(Procs)]
    BY <1>10 DEF Placed, Lists
  <2>3. idle' \subseteq Procs
    BY <1>2, <1>6
  <2>4. stale' \subseteq Procs
    BY <1>3, <1>4, Disturbed
  <2> QED BY <2>1, <2>2, <2>3, <2>4, <1>3, <1>4 DEF TypeOK, States, Places, counters
<1>13. \A r \in Procs : (r \in Live)' <=> r \in Live \/ r = q
  BY <1>11 DEF Live
<1>14. Filed'
  <2>1. (Once(queues))'
    BY <1>10 DEF Placed, Once
  <2>2. \A i \in Queues : \A r : Contains(queues'[i], r) <=> (Contains(queues[i], r) \/ (r = q /\ i = c))
    BY <1>10 DEF Placed
  <2>3. \A r \in Procs : (\E i \in Queues : Contains(queues'[i], r))
          <=> (r \in Live)' /\ pc'[r] \notin Unregistered
    <3> TAKE r \in Procs
    <3>1. CASE r = q
      BY <3>1, <2>2, <1>9, <1>11, <1>13 DEF Unregistered
    <3>2. CASE r # q
      BY <3>2, <2>2, <1>7, <1>11, <1>13
    <3> QED BY <3>1, <3>2
  <2>4. ASSUME NEW r \in idle', (r \in Live)'
        PROVE  prio'[r] = MAXPRIOR /\ Contains(queues'[LastQueue], r)
    <3>1. CASE r = q
      <4>1. ~shell
        BY <3>1, <2>4, <1>2, <1>8
      <4>2. n = MAXPRIOR /\ c = LastQueue
        BY <4>1, <1>5, <1>9, LastIsQueue
      <4> QED BY <3>1, <4>2, <2>2, <1>9, <1>11
    <3>2. CASE r # q
      <4>1. r \in idle /\ r \in Procs
        BY <3>2, <2>4, <1>2, <1>6
      <4>2. r \in Live
        BY <3>2, <4>1, <2>4, <1>13
      <4> QED BY <3>2, <4>1, <4>2, <2>2, <1>7, <1>11, LastIsQueue
    <3> QED BY <3>1, <3>2
  <2> QED BY <1>12, <2>1, <2>3, <2>4, RegisteredNext
<1>15. CurRuns'
  BY <1>1, <1>3, <1>4, <1>8, <1>11 DEF CurRuns
<1>16. IdleStays'
  BY <1>2, <1>4, <1>6, <1>11 DEF IdleStays, Setting
<1>17. QuantumBound' /\ NoTickWhileDying' /\ QuantumLeft'
  BY <1>1, <1>3, <1>4 DEF QuantumBound, NoTickWhileDying, QuantumLeft, counters, Inv
<1> QED BY <1>12, <1>14, <1>15, <1>16, <1>17 DEF Inv

LEMMA ReapInv ==
  ASSUME Inv, NEW p \in Procs, Reap(p)
  PROVE  Inv'
<1>1. cur = p /\ irq = "none" /\ pc[p] = "user"
  BY DEF Reap, At
<1>2. PICK q \in Procs :
        /\ state[q] = "ZOMBIE"
        /\ state' = [state EXCEPT ![q] = "UNUSED"]
        /\ prio' = [prio EXCEPT ![q] = MAXPRIOR]
        /\ timer' = [timer EXCEPT ![q] = 0]
        /\ cpuUsed' = [cpuUsed EXCEPT ![q] = 0]
        /\ procTick' = [procTick EXCEPT ![q] = 0]
        /\ priorityTick' = [priorityTick EXCEPT ![q] = 0]
        /\ idle' = idle \ {q}
  BY DEF Reap
<1>3. UNCHANGED <<shell, queues, cur, pc, irq, updateTicks, damage>>
  BY DEF Reap
<1>4. /\ TypeOK /\ Filed /\ state[p] = "RUNNING"
      /\ (\A r \in Procs : state[r] = "RUNNING" <=> r = p)
      /\ procTick[p] < TIMEQUANTUM
      /\ (\A r \in idle : state[r] # "UNUSED" /\ pc[r] \notin Setting)
  BY <1>1, Running
<1>5. /\ state \in [Procs -> States] /\ prio \in [Procs -> InQueues]
      /\ timer \in [Procs -> Timers \cup {0}]
      /\ cpuUsed \in [Procs -> Nat] /\ procTick \in [Procs -> Nat] /\ priorityTick \in [Procs -> Nat]
      /\ idle \subseteq Procs
  BY <1>4, TypesAre
<1>6. \A r \in Procs : /\ state'[r] = IF r = q THEN "UNUSED" ELSE state[r]
                       /\ r # q => prio'[r] = prio[r] /\ procTick'[r] = procTick[r]
  BY <1>2, <1>5
<1>7. procTick'[q] = 0 /\ q # p
  BY <1>2, <1>4, <1>5
<1>8. TypeOK'
  <2>1. state' \in [Procs -> States] /\ prio' \in [Procs -> InQueues]
    BY <1>2, <1>5, PriorNamesQueue DEF States
  <2>2. timer' \in [Procs -> Timers \cup {0}]
    BY <1>2, <1>5
  <2>3. cpuUsed' \in [Procs -> Nat] /\ procTick' \in [Procs -> Nat] /\ priorityTick' \in [Procs -> Nat]
    BY <1>2, <1>5
  <2>4. idle' \subseteq Procs
    BY <1>2, <1>5
  <2> QED BY <2>1, <2>2, <2>3, <2>4, <1>3, <1>4 DEF TypeOK, States, damage
<1>9. \A r \in Procs : (r \in Live)' <=> r \in Live
  BY <1>2, <1>6 DEF Live
<1>10. Filed'
  <2>1. \A r \in idle' \cap Live : prio'[r] = prio[r]
    BY <1>2, <1>5, <1>6
  <2>2. idle' \subseteq idle /\ queues' = queues /\ pc' = pc
    BY <1>2, <1>3
  <2> QED BY <1>4, <1>8, <1>9, <2>1, <2>2, RegisteredStays
<1>11. CurRuns'
  BY <1>1, <1>3, <1>4, <1>6, <1>7 DEF CurRuns
<1>12. IdleStays'
  BY <1>2, <1>3, <1>4, <1>5, <1>6 DEF IdleStays
<1>13. QuantumBound'
  <2>1. \A r \in Procs : procTick[r] <= TIMEQUANTUM /\ (procTick[r] > 0 => cur = r)
    BY DEF Inv, QuantumBound
  <2> QED BY <2>1, <1>3, <1>6, <1>7 DEF QuantumBound
<1>14. NoTickWhileDying' /\ QuantumLeft'
  BY <1>1, <1>3, <1>4, <1>6, <1>7 DEF NoTickWhileDying, QuantumLeft
<1> QED BY <1>8, <1>10, <1>11, <1>12, <1>13, <1>14 DEF Inv

(* Steps of the running process that rearrange the queues and move it on,   *)
(* still running: what they keep beside the registration.                  *)
LEMMA QueueStep ==
  ASSUME Inv, NEW p \in Procs, cur = p, irq = "none", p \notin idle,
         pc[p] \notin {"dying", "cut", "panic"}, NEW l \in Places, pc' = [pc EXCEPT ![p] = l],
         UNCHANGED <<state, counters, pids, cur, irq>>
  PROVE  CurRuns' /\ IdleStays' /\ QuantumBound' /\ NoTickWhileDying' /\ QuantumLeft'
<1>1. /\ TypeOK /\ procTick[p] < TIMEQUANTUM
      /\ (\A r \in idle : state[r] # "UNUSED" /\ pc[r] \notin Setting)
  BY Running
<1>2. idle \subseteq Procs /\ pc \in [Procs -> Places]
  BY <1>1, TypesAre
<1>3. IdleStays'
  BY <1>1, <1>2 DEF IdleStays, pids
<1> QED BY <1>1, <1>3 DEF Inv, CurRuns, QuantumBound, NoTickWhileDying, QuantumLeft, counters

LEMMA SetPullInv ==
  ASSUME Inv, NEW p \in Procs, SetPull(p)
  PROVE  Inv'
<1>1. /\ cur = p /\ irq = "none" /\ pc[p] = "pull"
      /\ queues' = Pull(queues, p) /\ pc' = [pc EXCEPT ![p] = "pulled"] /\ Disturbs(p)
  BY DEF SetPull, At
<1>2. UNCHANGED <<state, prio, timer, counters, pids, cur, irq, updateTicks, wild>>
  BY DEF SetPull
<1>3. TypeOK /\ Filed /\ p \in Live /\ p \notin idle
  BY <1>1, Running DEF Setting
<1>4. queues \in Lists /\ pc \in [Procs -> Places] /\ idle \subseteq Procs
  BY <1>3, TypesAre
<1>5. /\ \A r \in Procs : (\E i \in Queues : Contains(queues[i], r))
           <=> r \in Live /\ pc[r] \notin Unregistered
      /\ Once(queues)
      /\ \A r \in idle \cap Live : prio[r] = MAXPRIOR /\ Contains(queues[LastQueue], r)
  BY <1>3, RegisteredIs
<1>6. Pulled(queues', queues, p)
  BY <1>1, <1>4, <1>5, PullIs
<1>7. \A r \in Procs : pc'[r] = IF r = p THEN "pulled" ELSE pc[r]
  BY <1>1, <1>4
<1>8. TypeOK'
  <2>1. pc' \in [Procs -> Places]
    BY <1>1, <1>4 DEF Places
  <2>2. queues' \in [Queues -> Seq(Procs)]
    BY <1>6 DEF Pulled, Lists
  <2>3. stale' \subseteq Procs
    BY <1>1, <1>3, Disturbed
  <2> QED BY <2>1, <2>2, <2>3, <1>2, <1>3 DEF TypeOK, Places, counters, pids
<1>9. Filed'
  <2>1. (Once(queues))'
    BY <1>6 DEF Pulled, Once
  <2>2. \A i \in Queues : \A r : Contains(queues'[i], r) <=> Contains(queues[i], r) /\ r # p
    BY <1>6 DEF Pulled
  <2>3. \A r : (r \in Live)' <=> r \in Live
    BY <1>2 DEF Live
  <2>4. \A r \in Procs : (\E i \in Queues : Contains(queues'[i], r))
          <=> (r \in Live)' /\ pc'[r] \notin Unregistered
    BY <2>2, <2>3, <1>5, <1>7 DEF Unregistered
  <2>5. \A r \in idle' : (r \in Live)' => prio'[r] = MAXPRIOR /\ Contains(queues'[LastQueue], r)
    BY <2>2, <2>3, <1>2, <1>3, <1>5, LastIsQueue DEF pids
  <2> QED BY <1>8, <2>1, <2>4, <2>5, RegisteredNext
<1>10. CurRuns' /\ IdleStays' /\ QuantumBound' /\ NoTickWhileDying' /\ QuantumLeft'
  BY <1>1, <1>2, <1>3, QueueStep DEF Places
<1> QED BY <1>8, <1>9, <1>10 DEF Inv

LEMMA SetPutInv ==
  ASSUME Inv, NEW p \in Procs, SetPut(p)
  PROVE  Inv'
<1>1. /\ cur = p /\ irq = "none" /\ pc[p] = "pulled" /\ pc' = [pc EXCEPT ![p] = "put"]
  BY DEF SetPut, At
<1>2. PICK n \in Priors : /\ HasQueue(n)
                          /\ prio' = [prio EXCEPT ![p] = n] /\ queues' = Put(queues, p, n)
  BY DEF SetPut
<1>3. Disturbs(p) /\ UNCHANGED <<state, timer, counters, pids, cur, irq, updateTicks, wild>>
  BY DEF SetPut
<1>4. /\ TypeOK /\ Filed /\ p \in Live
      /\ (\A r \in idle : state[r] # "UNUSED" /\ pc[r] \notin Setting)
  BY <1>1, Running
<1>5. queues \in Lists /\ pc \in [Procs -> Places] /\ idle \subseteq Procs /\ prio \in [Procs -> InQueues]
  BY <1>4, TypesAre
<1>6. /\ \A r \in Procs : (\E i \in Queues : Contains(queues[i], r))
           <=> r \in Live /\ pc[r] \notin Unregistered
      /\ Once(queues)
      /\ \A r \in idle \cap Live : prio[r] = MAXPRIOR /\ Contains(queues[LastQueue], r)
  BY <1>4, RegisteredIs
<1>7. p \notin Entries(queues) /\ p \notin idle
  BY <1>1, <1>4, <1>5, <1>6, EntriesAre DEF Unregistered, Setting
<1> DEFINE c == QueueOf(n)
<1>8. n \in InQueues /\ c \in Queues /\ c = QueueOf(n)
  <2>1. n \in InQueues
    BY <1>2, RunQueueAssumption DEF InQueues
  <2> QED BY <2>1, PriorNamesQueue
<1> HIDE DEF c
<1>9. Placed(queues', queues, p, c)
  BY <1>2, <1>5, <1>6, <1>7, <1>8, PutIs
<1>10. \A r \in Procs : /\ pc'[r] = IF r = p THEN "put" ELSE pc[r]
                        /\ prio'[r] = IF r = p THEN n ELSE prio[r]
  BY <1>1, <1>2, <1>5
<1>11. TypeOK'
  <2>1. pc' \in [Procs -> Places] /\ prio' \in [Procs -> InQueues]
    BY <1>1, <1>2, <1>5, <1>8 DEF Places
  <2>2. queues' \in [Queues -> Seq(Procs)]
    BY <1>9 DEF Placed, Lists
  <2>3. stale' \subseteq Procs
    BY <1>3, <1>4, Disturbed
  <2> QED BY <2>1, <2>2, <2>3, <1>3, <1>4 DEF TypeOK, Places, counters, pids
<1>12. Filed'
  <2>1. (Once(queues))'
    BY <1>9 DEF Placed, Once
  <2>2. \A i \in Queues : \A r : Contains(queues'[i], r) <=> (Contains(queues[i], r) \/ (r = p /\ i = c))
    BY <1>9 DEF Placed
  <2>3. \A r : (r \in Live)' <=> r \in Live
    BY <1>3 DEF Live
  <2>4. \A r \in Procs : (\E i \in Queues : Contains(queues'[i], r))
          <=> (r \in Live)' /\ pc'[r] \notin Unregistered
    <3> TAKE r \in Procs
    <3>1. CASE r = p
      BY <3>1, <2>2, <2>3, <1>4, <1>8, <1>10 DEF Unregistered
    <3>2. CASE r # p
      BY <3>2, <2>2, <2>3, <1>6, <1>10
    <3> QED BY <3>1, <3>2
  <2>5. \A r \in idle' : (r \in Live)' => prio'[r] = MAXPRIOR /\ Contains(queues'[LastQueue], r)
    BY <2>2, <2>3, <1>3, <1>5, <1>6, <1>7, <1>10, LastIsQueue DEF pids
  <2> QED BY <1>11, <2>1, <2>4, <2>5, RegisteredNext
<1>13. CurRuns' /\ IdleStays' /\ QuantumBound' /\ NoTickWhileDying' /\ QuantumLeft'
  BY <1>1, <1>3, <1>7, QueueStep DEF Places
<1> QED BY <1>11, <1>12, <1>13 DEF Inv

(* Out of the queues and not alive any more, in one step.                  *)
LEMMA ExitZombieInv ==
  ASSUME Inv, NEW p \in Procs, ExitZombie(p)
  PROVE  Inv'
<1>1. /\ cur = p /\ irq = "none" /\ queues' = Pull(queues, p)
      /\ cur' = NoProc /\ procTick' = [procTick EXCEPT ![p] = 0]
      /\ Disturbs(p)
      /\ UNCHANGED <<timer, cpuUsed, priorityTick, pids, pc, irq, updateTicks, wild>>
  BY DEF ExitZombie, Leave
<1>2. PICK S \in SUBSET Sleepers : state' = [Woken(S) EXCEPT ![p] = "ZOMBIE"] /\ prio' = WokenPrio(S)
  BY DEF ExitZombie
<1>3. /\ TypeOK /\ Filed
      /\ (\A r \in Procs : state[r] = "RUNNING" <=> r = p)
      /\ (\A r \in Procs : r # p => procTick[r] = 0)
      /\ (\A r \in idle : state[r] # "UNUSED" /\ pc[r] \notin Setting)
  BY <1>1, Running
<1>4. /\ Woken(S) \in [Procs -> States] /\ WokenPrio(S) \in [Procs -> InQueues]
      /\ \A q \in idle : WokenPrio(S)[q] = prio[q]
      /\ \A q \in Procs : Woken(S)[q] = state[q] \/ (state[q] = "SLEEPING" /\ Woken(S)[q] = "RUNNABLE")
  BY <1>3, WokenIs
<1>5. queues \in Lists /\ idle \subseteq Procs /\ procTick \in [Procs -> Nat]
  BY <1>3, TypesAre
<1>6. /\ \A r \in Procs : (\E i \in Queues : Contains(queues[i], r))
           <=> r \in Live /\ pc[r] \notin Unregistered
      /\ Once(queues)
      /\ \A r \in idle \cap Live : prio[r] = MAXPRIOR /\ Contains(queues[LastQueue], r)
  BY <1>3, RegisteredIs
<1>7. Pulled(queues', queues, p)
  BY <1>1, <1>5, <1>6, PullIs
<1>8. /\ state'[p] = "ZOMBIE"
      /\ \A r \in Procs \ {p} : state'[r] = state[r] \/ (state[r] = "SLEEPING" /\ state'[r] = "RUNNABLE")
  BY <1>2, <1>4
<1>9. TypeOK'
  <2>1. state' \in [Procs -> States] /\ prio' \in [Procs -> InQueues]
    BY <1>2, <1>4 DEF States
  <2>2. procTick' \in [Procs -> Nat]
    BY <1>1, <1>5
  <2>3. queues' \in [Queues -> Seq(Procs)]
    BY <1>7 DEF Pulled, Lists
  <2>4. stale' \subseteq Procs
    BY <1>1, <1>3, Disturbed
  <2> QED BY <2>1, <2>2, <2>3, <2>4, <1>1, <1>3 DEF TypeOK, States, pids
<1>10. \A r \in Procs : (r \in Live)' <=> r \in Live /\ r # p
  BY <1>8 DEF Live
<1>11. Filed'
  <2>1. (Once(queues))'
    BY <1>7 DEF Pulled, Once
  <2>2. \A i \in Queues : \A r : Contains(queues'[i], r) <=> Contains(queues[i], r) /\ r # p
    BY <1>7 DEF Pulled
  <2>3. \A r \in Procs : (\E i \in Queues : Contains(queues'[i], r))
          <=> (r \in Live)' /\ pc'[r] \notin Unregistered
    BY <2>2, <1>1, <1>6, <1>10
  <2>4. \A r \in idle' : (r \in Live)' => prio'[r] = MAXPRIOR /\ Contains(queues'[LastQueue], r)
    BY <2>2, <1>1, <1>2, <1>4, <1>5, <1>6, <1>10, LastIsQueue DEF pids
  <2> QED BY <1>9, <2>1, <2>3, <2>4, RegisteredNext
<1>12. CurRuns'
  BY <1>1, <1>3, <1>8, InitIsProc DEF CurRuns
<1>13. IdleStays'
  BY <1>1, <1>3, <1>5, <1>8 DEF IdleStays, pids
<1>14. \A r \in Procs : procTick'[r] = 0
  BY <1>1, <1>3, <1>5
<1>15. QuantumBound' /\ NoTickWhileDying' /\ QuantumLeft'
  BY <1>1, <1>14 DEF QuantumBound, NoTickWhileDying, QuantumLeft
<1> QED BY <1>9, <1>11, <1>12, <1>13, <1>15 DEF Inv

-----------------------------------------------------------------------------
(* The timer interrupt *)

(* The tick is charged to a process that had one left.                     *)
LEMMA TickInv == Inv /\ Tick => Inv'
<1> SUFFICES ASSUME Inv, Tick PROVE Inv'
  OBVIOUS
<1>1. PICK S \in SUBSET Sleepers : state' = Woken(S) /\ prio' = WokenPrio(S)
  BY DEF Tick
<1>2. /\ irq = "none" /\ irq' = "age"
      /\ cur # NoProc => pc[cur] \notin {"dying", "cut", "panic"}
      /\ cpuUsed' = Charged(cpuUsed) /\ procTick' = Charged(procTick)
      /\ priorityTick' = Charged(priorityTick)
      /\ updateTicks' = IF cur = NoProc THEN updateTicks ELSE updateTicks + 1
  BY DEF Tick
<1>3. UNCHANGED <<timer, pids, queues, cur, pc, damage>>
  BY DEF Tick
<1>4. TypeOK /\ CurRuns /\ QuantumBound /\ IdleStays /\ QuantumLeft
  BY DEF Inv
<1>5. /\ idle \subseteq Procs /\ cur \in Procs \cup {NoProc} /\ updateTicks \in Nat
      /\ cpuUsed \in [Procs -> Nat] /\ procTick \in [Procs -> Nat] /\ priorityTick \in [Procs -> Nat]
  BY <1>4, TypesAre
<1>6. /\ state' \in [Procs -> States] /\ prio' \in [Procs -> InQueues]
      /\ (\A q \in idle : prio'[q] = prio[q])
      /\ \A q \in Procs : state'[q] = state[q] \/ (state[q] = "SLEEPING" /\ state'[q] = "RUNNABLE")
  BY <1>1, <1>4, WokenIs
<1>7. \A f \in [Procs -> Nat] :
        /\ Charged(f) \in [Procs -> Nat]
        /\ \A q \in Procs : Charged(f)[q] = IF q = cur THEN f[q] + 1 ELSE f[q]
  BY <1>5, InitIsProc DEF Charged
<1>8. TypeOK'
  <2>1. cpuUsed' \in [Procs -> Nat] /\ procTick' \in [Procs -> Nat] /\ priorityTick' \in [Procs -> Nat]
    BY <1>2, <1>5, <1>7
  <2>2. updateTicks' \in Nat /\ irq' \in {"none", "age", "end"}
    BY <1>2, <1>5
  <2> QED BY <2>1, <2>2, <1>3, <1>4, <1>6 DEF TypeOK, States, pids, damage
<1>9. \A q \in Procs : (q \in Live)' <=> q \in Live
  BY <1>6 DEF Live
<1>10. \A q \in idle : /\ prio'[q] = prio[q] /\ state'[q] # "UNUSED"
                       /\ pc'[q] \notin Setting
  BY <1>3, <1>4, <1>5, <1>6 DEF IdleStays
<1>11. CurRuns'
  BY <1>3, <1>4, <1>6 DEF CurRuns
<1>12. QuantumBound'
  <2> SUFFICES ASSUME NEW q \in Procs
               PROVE  procTick'[q] <= TIMEQUANTUM /\ (procTick'[q] > 0 => cur' = q)
    BY DEF QuantumBound
  <2>1. procTick'[q] = IF q = cur THEN procTick[q] + 1 ELSE procTick[q]
    BY <1>2, <1>5, <1>7
  <2>2. procTick[q] \in Nat /\ procTick[q] <= TIMEQUANTUM /\ (procTick[q] > 0 => cur = q)
    BY <1>4, <1>5 DEF QuantumBound
  <2>3. q = cur => procTick[q] < TIMEQUANTUM
    BY <1>2, <1>4, InitIsProc DEF QuantumLeft
  <2> QED BY <2>1, <2>2, <2>3, <1>3
<1>13. NoTickWhileDying' /\ QuantumLeft'
  BY <1>2, <1>3 DEF NoTickWhileDying, QuantumLeft
<1>14. queues' = queues /\ idle' = idle /\ pc' = pc
  BY <1>3 DEF pids
<1> QED BY <1>8, <1>9, <1>10, <1>11, <1>12, <1>13, <1>14, LocalStep

(* What the parts of the handler start from, when a process runs.          *)
LEMMA Interrupted ==
  ASSUME Inv, irq # "none", cur # NoProc
  PROVE  /\ cur \in Procs /\ pc[cur] \notin {"dying", "cut", "panic"}
         /\ \A q \in Procs : state[q] = "RUNNING" <=> q = cur
         /\ \A q \in Procs : q # cur => procTick[q] = 0
         /\ procTick[cur] \in Nat /\ procTick[cur] <= TIMEQUANTUM
<1>1. TypeOK /\ CurRuns /\ QuantumBound /\ NoTickWhileDying
  BY DEF Inv
<1>2. cur \in Procs /\ procTick \in [Procs -> Nat]
  BY <1>1, TypesAre
<1>3. \A q \in Procs : q # cur => procTick[q] = 0
  BY <1>1, <1>2 DEF QuantumBound
<1>4. procTick[cur] \in Nat /\ procTick[cur] <= TIMEQUANTUM
  BY <1>1, <1>2 DEF QuantumBound
<1> QED BY <1>1, <1>2, <1>3, <1>4 DEF CurRuns, NoTickWhileDying

(* The handler calls exit(): from there on no timer interrupt comes.       *)
LEMMA DyingInv ==
  ASSUME Inv, irq # "none", cur # NoProc, irq' = "none", NEW l \in {"dying", "cut"},
         pc' = [pc EXCEPT ![cur] = l], l = "cut" <=> pc[cur] = "pulled",
         UNCHANGED <<state, prio, timer, counters, pids, queues, cur, updateTicks, damage>>
  PROVE  Inv'
<1>1. TypeOK /\ IdleStays /\ CurRuns /\ QuantumBound
  BY DEF Inv
<1>2. pc \in [Procs -> Places] /\ idle \subseteq Procs
  BY <1>1, TypesAre
<1>3. cur \in Procs /\ pc[cur] \notin {"dying", "cut", "panic"}
  BY Interrupted
<1>4. \A q \in Procs : pc'[q] = IF q = cur THEN l ELSE pc[q]
  BY <1>2, <1>3
<1>5. TypeOK'
  <2>1. pc' \in [Procs -> Places]
    BY <1>2, <1>3 DEF Places
  <2> QED BY <2>1, <1>1 DEF TypeOK, Places, counters, pids, damage
<1>6. \A q \in Procs : (q \in Live)' <=> q \in Live
  BY DEF Live
<1>7. \A q \in Procs : pc'[q] = pc[q] \/ {pc'[q], pc[q]} \cap Unregistered = {}
                      \/ {pc'[q], pc[q]} \subseteq Unregistered
  BY <1>3, <1>4 DEF Unregistered
<1>8. \A q \in idle : /\ prio'[q] = prio[q] /\ state'[q] # "UNUSED"
                      /\ pc'[q] \notin Setting
  BY <1>1, <1>2, <1>4 DEF IdleStays, Setting
<1>9. CurRuns' /\ QuantumBound'
  BY <1>1 DEF CurRuns, QuantumBound, counters
<1>10. NoTickWhileDying' /\ QuantumLeft'
  BY <1>3, <1>4 DEF NoTickWhileDying, QuantumLeft
<1>11. queues' = queues /\ idle' = idle
  BY DEF pids
<1> QED BY <1>5, <1>6, <1>7, <1>8, <1>9, <1>10, <1>11, LocalStep

LEMMA TickKilledInv == Inv /\ TickKilled => Inv'
<1> SUFFICES ASSUME Inv, TickKilled PROVE Inv'
  OBVIOUS
<1>1. /\ irq = "age" /\ irq' = "none" /\ cur # NoProc /\ pc[cur] = "user"
      /\ pc' = [pc EXCEPT ![cur] = "dying"]
      /\ UNCHANGED <<state, prio, timer, counters, pids, queues, cur, updateTicks, damage>>
  BY DEF TickKilled
<1> QED BY <1>1, DyingInv

LEMMA TickExpireInv == Inv /\ TickExpire => Inv'
<1> SUFFICES ASSUME Inv, TickExpire PROVE Inv'
  OBVIOUS
<1> DEFINE l == IF pc[cur] = "pulled" THEN "cut" ELSE "dying"
<1>1. /\ irq = "end" /\ irq' = "none" /\ cur # NoProc
      /\ pc' = [pc EXCEPT ![cur] = l]
      /\ UNCHANGED <<state, prio, timer, counters, pids, queues, cur, updateTicks, damage>>
  BY DEF TickExpire
<1>2. l \in {"dying", "cut"} /\ (l = "cut" <=> pc[cur] = "pulled")
  OBVIOUS
<1> HIDE DEF l
<1> QED BY <1>1, <1>2, DyingInv

LEMMA TickYieldInv == Inv /\ TickYield => Inv'
<1> SUFFICES ASSUME Inv, TickYield PROVE Inv'
  OBVIOUS
<1>1. /\ irq = "end" /\ irq' = "none" /\ cur # NoProc /\ cur' = NoProc
      /\ state' = [state EXCEPT ![cur] = "RUNNABLE"]
      /\ procTick' = [procTick EXCEPT ![cur] = 0]
      /\ UNCHANGED <<prio, timer, cpuUsed, priorityTick, pids, queues, pc, updateTicks, damage>>
  BY DEF TickYield, Leave
<1>2. TypeOK /\ IdleStays
  BY DEF Inv
<1>3. /\ state \in [Procs -> States] /\ procTick \in [Procs -> Nat] /\ idle \subseteq Procs
  BY <1>2, TypesAre
<1>4. /\ cur \in Procs
      /\ (\A q \in Procs : state[q] = "RUNNING" <=> q = cur)
      /\ \A q \in Procs : q # cur => procTick[q] = 0
  BY <1>1, Interrupted
<1>5. \A q \in Procs : state'[q] = (IF q = cur THEN "RUNNABLE" ELSE state[q]) /\ procTick'[q] = 0
  BY <1>1, <1>3, <1>4
<1>6. TypeOK'
  <2>1. state' \in [Procs -> States] /\ procTick' \in [Procs -> Nat]
    BY <1>1, <1>3, <1>4 DEF States
  <2> QED BY <2>1, <1>1, <1>2 DEF TypeOK, States, pids, damage
<1>7. \A q \in Procs : (q \in Live)' <=> q \in Live
  BY <1>4, <1>5 DEF Live
<1>8. \A q \in idle : /\ prio'[q] = prio[q] /\ state'[q] # "UNUSED"
                      /\ pc'[q] \notin Setting
  BY <1>1, <1>2, <1>3, <1>5 DEF IdleStays
<1>9. CurRuns' /\ QuantumBound' /\ NoTickWhileDying' /\ QuantumLeft'
  BY <1>1, <1>4, <1>5, InitIsProc DEF CurRuns, QuantumBound, NoTickWhileDying, QuantumLeft
<1>10. queues' = queues /\ idle' = idle /\ pc' = pc
  BY <1>1 DEF pids
<1> QED BY <1>6, <1>7, <1>8, <1>9, <1>10, LocalStep

(* A full quantum is divisible by itself: who returns has ticks left.      *)
LEMMA TickReturnInv == Inv /\ TickReturn => Inv'
<1> SUFFICES ASSUME Inv, TickReturn PROVE Inv'
  OBVIOUS
<1>1. /\ irq = "end" /\ irq' = "none" /\ (cur # NoProc => ~QuantumOver(cur))
      /\ UNCHANGED <<state, prio, timer, counters, pids, queues, cur, pc, updateTicks, damage>>
  BY DEF TickReturn
<1>2. TypeOK /\ IdleStays /\ CurRuns /\ QuantumBound
  BY DEF Inv
<1>3. TypeOK'
  BY <1>1, <1>2 DEF TypeOK, counters, pids, damage
<1>4. \A q \in Procs : (q \in Live)' <=> q \in Live
  BY <1>1 DEF Live
<1>5. \A q \in idle : /\ prio'[q] = prio[q] /\ state'[q] # "UNUSED"
                      /\ pc'[q] \notin Setting
  BY <1>1, <1>2 DEF IdleStays
<1>6. CurRuns' /\ QuantumBound' /\ NoTickWhileDying'
  BY <1>1, <1>2 DEF CurRuns, QuantumBound, NoTickWhileDying, counters
<1>7. QuantumLeft'
  <2>1. cur # NoProc => procTick[cur] < TIMEQUANTUM
    <3> SUFFICES ASSUME cur # NoProc PROVE procTick[cur] < TIMEQUANTUM
      OBVIOUS
    <3>1. procTick[cur] \in Nat /\ procTick[cur] <= TIMEQUANTUM
      BY <1>1, Interrupted
    <3>2. TIMEQUANTUM % TIMEQUANTUM = 0
      OBVIOUS
    <3>3. procTick[cur] # TIMEQUANTUM
      BY <3>2, <1>1 DEF QuantumOver
    <3> QED BY <3>1, <3>3
  <2> QED BY <2>1, <1>1 DEF QuantumLeft, counters
<1>8. queues' = queues /\ idle' = idle /\ pc' = pc
  BY <1>1 DEF pids
<1> QED BY <1>3, <1>4, <1>5, <1>6, <1>7, <1>8, LocalStep

(* What the ageing makes of the state, when it is due.                     *)
LEMMA Aging ==
  ASSUME Inv, TickAge, Due
  PROVE  /\ queues' \in Lists /\ (Once(queues))'
         /\ \A p \in Procs : (\E i \in Queues : Contains(queues'[i], p)) <=> p \in Queued
         /\ Queued' = Queued
         /\ \A p \in Procs : /\ prio'[p] = IF p \in Queued THEN AgedPrio(p) ELSE prio[p]
                             /\ priorityTick'[p] = IF p \in Queued THEN 0 ELSE priorityTick[p]
         /\ prio' \in [Procs -> InQueues] /\ priorityTick' \in [Procs -> Nat]
         /\ \A p \in Queued : Contains(queues'[QueueOf(AgedPrio(p))], p)
<1> DEFINE r == Aged[LastQueue + 1]
<1>1. TypeOK /\ Filed
  BY DEF Inv
<1>2. /\ queues' = r.qs
      /\ prio' = [p \in Procs |-> IF p \in r.updated THEN AgedPrio(p) ELSE prio[p]]
      /\ priorityTick' = [p \in Procs |-> IF p \in r.updated THEN 0 ELSE priorityTick[p]]
  BY DEF TickAge
<1>3. r = Aged[LastQueue + 1]
  OBVIOUS
<1> HIDE DEF r
<1>4. /\ r.qs \in Lists /\ Once(r.qs)
      /\ Entries(r.qs) = Queued /\ r.updated = Queued
      /\ \A p \in Queued : Contains(r.qs[QueueOf(AgedPrio(p))], p)
  BY <1>1, <1>3, AgeingEnds
<1>5. queues' \in Lists /\ Entries(queues') = Queued
  BY <1>2, <1>4
<1>6. (Once(queues))'
  BY <1>2, <1>4 DEF Once
<1>7. Queued' = Queued
  BY <1>5 DEF Queued, Entries
<1>8. \A p \in Procs : (\E i \in Queues : Contains(queues'[i], p)) <=> p \in Queued
  BY <1>5, EntriesAre
<1>9. prio \in [Procs -> InQueues] /\ priorityTick \in [Procs -> Nat]
  BY <1>1, TypesAre
<1>10. prio' \in [Procs -> InQueues] /\ priorityTick' \in [Procs -> Nat]
  BY <1>1, <1>2, <1>9, AgedPrioIs
<1>11. \A p \in Procs : /\ prio'[p] = IF p \in Queued THEN AgedPrio(p) ELSE prio[p]
                        /\ priorityTick'[p] = IF p \in Queued THEN 0 ELSE priorityTick[p]
  BY <1>2, <1>4
<1>12. \A p \in Queued : Contains(queues'[QueueOf(AgedPrio(p))], p)
  BY <1>2, <1>4
<1> QED BY <1>5, <1>6, <1>7, <1>8, <1>10, <1>11, <1>12

(* init and the shell are sent back to where they came from.               *)
LEMMA TickAgeInv == Inv /\ TickAge => Inv'
<1> SUFFICES ASSUME Inv, TickAge PROVE Inv'
  OBVIOUS
<1>1. irq = "age" /\ irq' = "end" /\ UNCHANGED <<state, timer, cpuUsed, procTick, pids, cur, pc, updateTicks, wild>>
  BY DEF TickAge
<1>2. TypeOK /\ Filed /\ CurRuns /\ QuantumBound /\ IdleStays /\ NoTickWhileDying
  BY DEF Inv
<1>3. idle \subseteq Procs
  BY <1>2, TypesAre
<1>4. CurRuns' /\ QuantumBound' /\ IdleStays' /\ NoTickWhileDying' /\ QuantumLeft'
  BY <1>1, <1>2 DEF CurRuns, QuantumBound, IdleStays, NoTickWhileDying, QuantumLeft, pids
<1>5. \A p \in Procs : (p \in Live)' <=> p \in Live
  BY <1>1 DEF Live
<1>6. CASE Due
  <2>1. /\ queues' \in Lists /\ (Once(queues))'
        /\ \A p \in Procs : (\E i \in Queues : Contains(queues'[i], p)) <=> p \in Queued
        /\ \A p \in Procs : prio'[p] = IF p \in Queued THEN AgedPrio(p) ELSE prio[p]
        /\ prio' \in [Procs -> InQueues] /\ priorityTick' \in [Procs -> Nat]
        /\ \A p \in Queued : Contains(queues'[QueueOf(AgedPrio(p))], p)
    BY <1>6, Aging
  <2>2. TypeOK'
    <3>1. stale' \subseteq Procs
      BY <1>6, <1>2, Disturbed DEF TickAge
    <3> QED BY <3>1, <2>1, <1>1, <1>2 DEF TypeOK, Lists, pids
  <2>3. \A p \in Procs : p \in Queued <=> p \in Live /\ pc[p] \notin Unregistered
    BY <1>2 DEF Filed, Unregistered
  <2>4. \A p \in Procs : (\E i \in Queues : Contains(queues'[i], p))
          <=> (p \in Live)' /\ pc'[p] \notin Unregistered
    BY <2>1, <2>3, <1>1, <1>5
  <2>5. ASSUME NEW p \in idle', (p \in Live)'
        PROVE  prio'[p] = MAXPRIOR /\ Contains(queues'[LastQueue], p)
    <3>1. p \in idle /\ p \in Procs /\ p \in Live /\ pc[p] \notin Unregistered
      BY <2>5, <1>1, <1>2, <1>3, <1>5 DEF pids, IdleStays, Unregistered, Setting
    <3>2. p \in Queued
      BY <3>1, <2>3
    <3>3. AgedPrio(p) = MAXPRIOR
      BY <3>1, <1>2, AgedPrioIs
    <3> QED BY <3>1, <3>2, <3>3, <2>1, LastIsQueue
  <2>6. Filed'
    BY <2>1, <2>2, <2>4, <2>5, RegisteredNext
  <2> QED BY <2>2, <2>6, <1>4 DEF Inv
<1>7. CASE ~Due
  <2>1. UNCHANGED <<queues, prio, priorityTick, stale>>
    BY <1>7 DEF TickAge
  <2>2. TypeOK'
    BY <2>1, <1>1, <1>2 DEF TypeOK, pids
  <2>3. Filed'
    BY <2>1, <2>2, <1>1, <1>2, <1>5, RegisteredStays DEF pids
  <2> QED BY <2>2, <2>3, <1>4 DEF Inv
<1> QED BY <1>6, <1>7

-----------------------------------------------------------------------------
(* The theorems *)

LEMMA SyscallInv ==
  ASSUME Inv, NEW p \in Procs, Syscall(p)
  PROVE  Inv'
<1>1. CASE Fork(p) \/ ForkFail(p) \/ Reap(p) \/ Sleep(p) \/ SysReturn(p)
  BY <1>1, ForkInv, ForkFailInv, ReapInv, SleepInv, SysReturnInv
<1>2. CASE Kill(p) \/ SetCall(p) \/ SetPull(p) \/ SetPut(p) \/ SetTorn(p) \/ SetWild(p) \/ SetTimer(p)
  BY <1>2, KillInv, SetCallInv, SetPullInv, SetPutInv, WildInv, SetTimerInv
<1>3. CASE Exit(p) \/ ExitZombie(p) \/ ExitPanic(p)
  BY <1>3, ExitInv, ExitZombieInv, ExitPanicInv
<1> QED BY <1>1, <1>2, <1>3 DEF Syscall

LEMMA InvNext == Inv /\ [Next]_vars => Inv'
<1> SUFFICES ASSUME Inv, [Next]_vars PROVE Inv'
  OBVIOUS
<1>1. CASE Schedule \/ Wakeup
  BY <1>1, ScheduleInv, WakeupInv
<1>2. CASE Tick \/ TickKilled \/ TickAge
  BY <1>2, TickInv, TickKilledInv, TickAgeInv
<1>3. CASE TickExpire \/ TickYield \/ TickReturn
  BY <1>3, TickExpireInv, TickYieldInv, TickReturnInv
<1>4. CASE \E p \in Procs : Syscall(p)
  BY <1>4, SyscallInv
<1>5. CASE UNCHANGED vars
  <2>1. UNCHANGED <<state, prio, timer, cpuUsed, procTick, priorityTick, idle, shell,
                    queues, cur, pc, irq, updateTicks, stale, wild>>
    BY <1>5 DEF vars, counters, pids, damage
  <2>2. Live' = Live /\ Queued' = Queued
    BY <2>1 DEF Live, Queued, Entries
  <2>3. TypeOK' /\ Filed' /\ QuantumBound'
    BY <2>1, <2>2 DEF Inv, TypeOK, Filed, QuantumBound
  <2>4. CurRuns' /\ IdleStays' /\ NoTickWhileDying' /\ QuantumLeft'
    BY <2>1 DEF Inv, CurRuns, IdleStays, NoTickWhileDying, QuantumLeft
  <2> QED BY <2>3, <2>4 DEF Inv
<1> QED BY <1>1, <1>2, <1>3, <1>4, <1>5 DEF Next

(* The inductive invariant holds in every reachable state of the scheduler. *)
THEOREM Invariance == Spec => []Inv
BY InvInit, InvNext, PTL DEF Spec

(* run_queues[priority / 4] is never out of bounds by what fork(), wakeups  *)
(* and the ageing compute, whatever a process is charged: an index that is  *)
(* no queue comes from the argument of set_sche_info alone, as SetWild.    *)
THEOREM TypeCorrect == Spec => []TypeOK
<1>1. Inv => TypeOK
  BY DEF Inv
<1> QED BY <1>1, Invariance, PTL

(* As long as no walk of update_priority() was torn by an interrupt and no  *)
(* priority was out of range, every live process has exactly one entry in   *)
(* the run queues and nobody else has one, but for who was interrupted      *)
(* between its own pull and put; init and the shell are in the last queue.  *)
THEOREM RegisteredOnce == Spec => []Registered
<1>1. Inv => Registered
  BY DEF Inv, Registered
<1> QED BY <1>1, Invariance, PTL

(* Nobody computes for more than TIMEQUANTUM ticks without the scheduler    *)
(* having had the choice: proc_tick is zero off the CPU and bounded on it.  *)
THEOREM QuantumKept == Spec => []QuantumBound
<1>1. Inv => QuantumBound
  BY DEF Inv
<1> QED BY <1>1, Invariance, PTL

(* ssu_update_priority(), walking lists it rearranges as it goes, charges   *)
(* every queued process once, leaves it in the queue of its new priority    *)
(* and loses nobody, for any number of processes and queues.               *)
THEOREM AgingReachesEverybody == Spec => AgingReachesAll
<1> DEFINE A == irq = "age" /\ irq' = "end" /\ Due =>
                  /\ \A p \in Queued :
                       /\ prio'[p] = AgedPrio(p)
                       /\ priorityTick'[p] = 0
                       /\ Contains(queues'[QueueOf(prio'[p])], p)
                  /\ Queued' = Queued
<1>1. Inv /\ [Next]_vars => [A]_vars
  <2> SUFFICES ASSUME Inv, Next, irq = "age", irq' = "end", Due
               PROVE  A
    OBVIOUS
  <2>1. TickAge
    BY DEF Next, Schedule, Wakeup, Tick, TickKilled, TickExpire, TickYield, TickReturn, Syscall,
           At, Fork, Reap, Sleep, SysReturn, Kill, SetCall, SetPull, SetPut, SetTorn, SetWild, SetTimer, Exit, ForkFail, ExitZombie, ExitPanic
  <2>2. Queued \subseteq Procs
    <3>1. TypeOK /\ Filed
      BY DEF Inv
    <3> QED BY <3>1 DEF Filed, Live
  <2>3. /\ Queued' = Queued
        /\ \A p \in Procs : /\ prio'[p] = IF p \in Queued THEN AgedPrio(p) ELSE prio[p]
                            /\ priorityTick'[p] = IF p \in Queued THEN 0 ELSE priorityTick[p]
        /\ \A p \in Queued : Contains(queues'[QueueOf(AgedPrio(p))], p)
    BY <2>1, Aging
  <2> QED BY <2>2, <2>3
<1>2. AgingReachesAll <=> [][A]_vars
  BY DEF AgingReachesAll
<1> HIDE DEF A
<1> QED BY <1>1, <1>2, Invariance, PTL DEF Spec

=============================================================================
