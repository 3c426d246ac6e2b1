---------------------------- MODULE LevelProofs -----------------------------
(***************************************************************************)
(* What TLAPS proves of MultiLevel, for every number of layers, pointers   *)
(* and blocks.                                                             *)
(***************************************************************************)
EXTENDS LevelInv, FiniteSetTheorems, WellFoundedInduction, TLAPS

-----------------------------------------------------------------------------
(* Induction and recursion over an initial interval of the naturals *)

(* The natural numbers are well ordered. *)
LEMMA LeastElement ==
  ASSUME NEW S, S \subseteq Nat, S # {}
  PROVE  \E n \in S : \A m \in S : n <= m
<1> DEFINE R == OpToRel(<, Nat)
<1>1. IsWellFoundedOn(R, Nat)
  BY NatLessThanWellFounded
<1>2. \A x, y \in Nat : <<x, y>> \in R <=> x < y
  BY DEF OpToRel
<1> HIDE DEF R
<1>3. PICK x \in S : \A y \in S : ~ (<<y, x>> \in R)
  BY <1>1, WFMin
<1>4. \A y \in S : x <= y
  <2> TAKE y \in S
  <2>1. ~ (y < x)
    BY <1>2, <1>3
  <2>2. x \in Int /\ y \in Int
    OBVIOUS
  <2> QED BY <2>1, <2>2
<1> QED BY <1>4

(* Induction: what holds of 0 and passes from k to k + 1 holds up to n. *)
LEMMA UpTo ==
  ASSUME NEW S, NEW n \in Nat, 0 \in S,
         \A k \in 0 .. n - 1 : k \in S => k + 1 \in S
  PROVE  \A k \in 0 .. n : k \in S
<1> DEFINE F == {k \in 0 .. n : k \notin S}
<1> SUFFICES ASSUME F # {} PROVE FALSE
  OBVIOUS
<1>1. F \subseteq Nat
  OBVIOUS
<1>2. PICK k \in F : \A m \in F : k <= m
  <2> HIDE DEF F
  <2> QED BY LeastElement, <1>1
<1>3. k # 0 /\ k - 1 \in 0 .. n - 1 /\ k - 1 \notin F
  BY <1>2
<1> QED BY <1>3

(* A function defined by recursion from 0 to n exists: it is what its       *)
(* definition says, and its values have the type of the steps.             *)
Unfolds(f, n, a, step) ==
  f = [k \in 0 .. n |-> IF k = 0 THEN a ELSE step[<<f[k - 1], k>>]]

LEMMA RecursionExists ==
  ASSUME NEW n \in Nat, NEW T, NEW a \in T, NEW step \in [T \X (1 .. n) -> T]
  PROVE  \E f \in [0 .. n -> T] : Unfolds(f, n, a, step)
<1> DEFINE S == {m \in 0 .. n : \E f \in [0 .. m -> T] :
                   f = [k \in 0 .. m |-> IF k = 0 THEN a ELSE step[<<f[k - 1], k>>]]}
<1>1. 0 \in S
  <2> DEFINE f == [k \in 0 .. 0 |-> a]
  <2>1. f = [k \in 0 .. 0 |-> IF k = 0 THEN a ELSE step[<<f[k - 1], k>>]]
    <3>1. \A k \in 0 .. 0 : a = IF k = 0 THEN a ELSE step[<<f[k - 1], k>>]
      OBVIOUS
    <3> QED BY <3>1
  <2>2. f \in [0 .. 0 -> T]
    OBVIOUS
  <2>3. 0 \in 0 .. n
    OBVIOUS
  <2>4. \E f1 \in [0 .. 0 -> T] :
          f1 = [k \in 0 .. 0 |-> IF k = 0 THEN a ELSE step[<<f1[k - 1], k>>]]
    <3> HIDE DEF f
    <3> QED BY <2>1, <2>2
  <2> QED BY <2>3, <2>4
<1>2. ASSUME NEW m \in 0 .. n - 1, m \in S
      PROVE  m + 1 \in S
  <2>1. PICK f \in [0 .. m -> T] :
          f = [k \in 0 .. m |-> IF k = 0 THEN a ELSE step[<<f[k - 1], k>>]]
    BY <1>2
  <2>2. \A k \in 0 .. m : f[k] = IF k = 0 THEN a ELSE step[<<f[k - 1], k>>]
    BY <2>1
  <2> DEFINE g == [k \in 0 .. m + 1 |-> IF k <= m THEN f[k] ELSE step[<<f[m], m + 1>>]]
             h == [k \in 0 .. m + 1 |-> IF k = 0 THEN a ELSE step[<<g[k - 1], k>>]]
  <2>3. <<f[m], m + 1>> \in T \X (1 .. n)
    OBVIOUS
  <2>4. step[<<f[m], m + 1>>] \in T
    BY <2>3
  <2>5. g \in [0 .. m + 1 -> T]
    BY <2>4
  <2>6. ASSUME NEW k \in 0 .. m + 1
        PROVE  g[k] = h[k]
    <3>0. h[k] = IF k = 0 THEN a ELSE step[<<g[k - 1], k>>]
      OBVIOUS
    <3> HIDE DEF h
    <3>1. CASE k = 0
      <4>1. 0 \in 0 .. m /\ g[0] = f[0]
        OBVIOUS
      <4>2. f[0] = a
        BY <2>2, <4>1
      <4> QED BY <3>0, <3>1, <4>1, <4>2
    <3>2. CASE k \in 1 .. m
      <4>1. g[k] = f[k] /\ g[k - 1] = f[k - 1] /\ k \in 0 .. m /\ k # 0
        BY <3>2
      <4> QED BY <4>1, <2>2, <3>0
    <3>3. CASE k = m + 1
      <4>1. g[k - 1] = f[m] /\ g[k] = step[<<f[m], m + 1>>] /\ k # 0
        BY <3>3
      <4> QED BY <4>1, <3>0, <3>3
    <3> QED BY <3>1, <3>2, <3>3
  <2>7. g = h
    <3> HIDE DEF g
    <3>1. g = [k \in 0 .. m + 1 |-> g[k]]
      BY <2>5
    <3> QED BY <3>1, <2>6
  <2>8. m + 1 \in 0 .. n
    OBVIOUS
  <2>9. \E f1 \in [0 .. m + 1 -> T] :
          f1 = [k \in 0 .. m + 1 |-> IF k = 0 THEN a ELSE step[<<f1[k - 1], k>>]]
    <3> HIDE DEF g
    <3> QED BY <2>5, <2>7
  <2> QED BY <2>8, <2>9
<1>3. n \in S
  <2> HIDE DEF S
  <2>1. \A k \in 0 .. n : k \in S
    BY <1>1, <1>2, UpTo
  <2> QED BY <2>1
<1> QED BY <1>3 DEF Unfolds

-----------------------------------------------------------------------------
(* Division *)

LEMMA DivIs ==
  ASSUME NEW a \in Nat, NEW n \in Nat \ {0}
  PROVE  /\ a \div n \in Nat /\ a % n \in 0 .. n - 1
         /\ a = n * (a \div n) + (a % n)
OBVIOUS

LEMMA Product ==
  ASSUME NEW a \in Nat, NEW b \in Nat, NEW n \in Nat, a <= b
  PROVE  n * a \in Nat /\ n * a <= n * b
OBVIOUS

LEMMA DivUnique ==
  ASSUME NEW n \in Nat \ {0}, NEW p \in Nat, NEW i \in 0 .. n - 1, NEW a, a = n * p + i
  PROVE  a \div n = p /\ a % n = i
OBVIOUS

LEMMA DivPlus ==
  ASSUME NEW n \in Nat \ {0}, NEW p \in Nat, NEW i \in 0 .. n - 1
  PROVE  (n * p + i) \div n = p /\ (n * p + i) % n = i
<1>1. n * p \in Nat
  BY Product
<1> DEFINE a == n * p + i
<1>2. a = n * p + i
  OBVIOUS
<1> HIDE DEF a
<1>3. a \div n = p /\ a % n = i
  BY <1>2, DivUnique
<1> QED BY <1>2, <1>3

LEMMA DivDiv ==
  ASSUME NEW a \in Nat, NEW m \in Nat \ {0}, NEW n \in Nat \ {0}
  PROVE  a \div (m * n) = (a \div m) \div n
OBVIOUS

LEMMA DivLess ==
  ASSUME NEW a \in Nat, NEW m \in Nat, NEW n \in Nat \ {0}, a < m * n
  PROVE  a \div n < m
OBVIOUS

LEMMA DivGrows ==
  ASSUME NEW a \in Nat, NEW b \in Nat, NEW n \in Nat \ {0}, a <= b
  PROVE  a \div n <= b \div n
OBVIOUS

-----------------------------------------------------------------------------
(* The layout of a file *)

USE LevelAssumption

LEMMA LayersIs ==
  /\ NLAYER \in Nat
  /\ \A l \in 0 .. NLAYER - 1 : Layers[l + 1] \in Nat \ {0}
  /\ \A l \in 1 .. NLAYER : Layers[l] \in Nat \ {0}
BY DEF NLAYER

LEMMA FanIs ==
  /\ Fan[0] = 1
  /\ \A l \in 0 .. NLAYER : Fan[l] \in Nat \ {0}
  /\ \A l \in 1 .. NLAYER : Fan[l] = Fan[l - 1] * NINDIRECT
<1> DEFINE step == [x \in (Nat \ {0}) \X (1 .. NLAYER) |-> x[1] * NINDIRECT]
           Def(f) == f = [l \in 0 .. NLAYER |-> IF l = 0 THEN 1 ELSE f[l - 1] * NINDIRECT]
<1>1. NLAYER \in Nat /\ NINDIRECT \in Nat \ {0}
  BY LayersIs
<1>2. step \in [(Nat \ {0}) \X (1 .. NLAYER) -> Nat \ {0}]
  <2>1. \A a \in Nat \ {0} : a * NINDIRECT \in Nat \ {0}
    BY <1>1
  <2> QED BY <2>1
<1>3. PICK f \in [0 .. NLAYER -> Nat \ {0}] : Unfolds(f, NLAYER, 1, step)
  <2> DEFINE T == Nat \ {0}
  <2>1. 1 \in T /\ step \in [T \X (1 .. NLAYER) -> T]
    BY <1>2
  <2> HIDE DEF step, T
  <2>2. \E f \in [0 .. NLAYER -> T] : Unfolds(f, NLAYER, 1, step)
    BY <1>1, <2>1, RecursionExists
  <2> QED BY <2>2 DEF T
<1>4. Def(f)
  <2>1. ASSUME NEW l \in 0 .. NLAYER
        PROVE  f[l] = IF l = 0 THEN 1 ELSE f[l - 1] * NINDIRECT
    <3>1. f[l] = IF l = 0 THEN 1 ELSE step[<<f[l - 1], l>>]
      BY <1>3 DEF Unfolds
    <3>2. l # 0 => l \in 1 .. NLAYER /\ f[l - 1] \in Nat \ {0}
      BY <1>1
    <3> QED BY <3>1, <3>2
  <2> QED BY <2>1
<1>5. Def(Fan)
  <2>1. Fan = CHOOSE g : Def(g)
    BY DEF Fan
  <2> HIDE DEF Def
  <2> QED BY <1>4, <2>1
<1>6. \A l \in 0 .. NLAYER : Fan[l] = IF l = 0 THEN 1 ELSE Fan[l - 1] * NINDIRECT
  BY <1>5
<1> DEFINE S == {l \in 0 .. NLAYER : Fan[l] \in Nat \ {0}}
<1>7. 0 \in S /\ Fan[0] = 1
  BY <1>1, <1>6
<1>8. \A l \in 0 .. NLAYER - 1 : l \in S => l + 1 \in S
  <2>1. ASSUME NEW l \in 0 .. NLAYER - 1, Fan[l] \in Nat \ {0}
        PROVE  Fan[l + 1] \in Nat \ {0}
    <3>1. l + 1 \in 0 .. NLAYER /\ l + 1 # 0 /\ (l + 1) - 1 = l
      BY <1>1
    <3>2. Fan[l + 1] = Fan[l] * NINDIRECT
      BY <1>6, <3>1
    <3> QED BY <1>1, <2>1, <3>2
  <2> QED BY <2>1, <1>1
<1>9. \A l \in 0 .. NLAYER : l \in S
  <2> HIDE DEF S
  <2> QED BY <1>1, <1>7, <1>8, UpTo
<1>10. \A l \in 1 .. NLAYER : l \in 0 .. NLAYER /\ l # 0
  OBVIOUS
<1> QED BY <1>6, <1>7, <1>9, <1>10

(* Where the layers begin, in the inode and in the file.                   *)
Begins(first, width) ==
  /\ first \in [0 .. NLAYER -> Nat] /\ first[0] = 0
  /\ \A l \in 0 .. NLAYER - 1 : first[l + 1] = first[l] + width[l + 1] /\ width[l + 1] \in Nat \ {0}

LEMMA BeginsIs ==
  ASSUME NEW width \in [1 .. NLAYER -> Nat \ {0}],
         NEW first,
         first = CHOOSE f : f = [l \in 0 .. NLAYER |-> IF l = 0 THEN 0 ELSE f[l - 1] + width[l]]
  PROVE  Begins(first, width)
<1> DEFINE step == [x \in Nat \X (1 .. NLAYER) |-> x[1] + width[x[2]]]
           Def(f) == f = [l \in 0 .. NLAYER |-> IF l = 0 THEN 0 ELSE f[l - 1] + width[l]]
<1>1. NLAYER \in Nat
  BY LayersIs
<1>2. step \in [Nat \X (1 .. NLAYER) -> Nat]
  OBVIOUS
<1>3. PICK f \in [0 .. NLAYER -> Nat] : Unfolds(f, NLAYER, 0, step)
  <2> HIDE DEF step
  <2> QED BY <1>1, <1>2, RecursionExists
<1>4. Def(f)
  <2>1. ASSUME NEW l \in 0 .. NLAYER
        PROVE  f[l] = IF l = 0 THEN 0 ELSE f[l - 1] + width[l]
    <3>1. f[l] = IF l = 0 THEN 0 ELSE step[<<f[l - 1], l>>]
      BY <1>3 DEF Unfolds
    <3>2. l # 0 => l \in 1 .. NLAYER /\ f[l - 1] \in Nat
      BY <1>1
    <3> QED BY <3>1, <3>2
  <2> QED BY <2>1
<1>5. Def(first)
  <2>1. first = CHOOSE g : Def(g)
    OBVIOUS
  <2> HIDE DEF Def
  <2> QED BY <1>4, <2>1
<1>6. \A l \in 0 .. NLAYER : first[l] = IF l = 0 THEN 0 ELSE first[l - 1] + width[l]
  BY <1>5
<1> DEFINE S == {l \in 0 .. NLAYER : first[l] \in Nat}
<1>7. 0 \in S /\ first[0] = 0
  <2>1. 0 \in 0 .. NLAYER
    BY <1>1
  <2>2. first[0] = 0
    BY <1>6, <2>1
  <2> QED BY <2>1, <2>2
<1>8. \A l \in 0 .. NLAYER - 1 : first[l + 1] = first[l] + width[l + 1] /\ width[l + 1] \in Nat \ {0}
  <2> TAKE l \in 0 .. NLAYER - 1
  <2>1. l + 1 \in 0 .. NLAYER /\ l + 1 # 0 /\ (l + 1) - 1 = l /\ l + 1 \in 1 .. NLAYER
    BY <1>1
  <2> QED BY <1>6, <2>1
<1>9. \A l \in 0 .. NLAYER - 1 : l \in S => l + 1 \in S
  <2>1. ASSUME NEW l \in 0 .. NLAYER - 1, first[l] \in Nat
        PROVE  l + 1 \in 0 .. NLAYER /\ first[l + 1] \in Nat
    <3>1. l + 1 \in 0 .. NLAYER
      BY <1>1
    <3>2. first[l + 1] = first[l] + width[l + 1] /\ width[l + 1] \in Nat
      BY <1>8
    <3> QED BY <2>1, <3>1, <3>2
  <2> QED BY <2>1
<1>10. \A l \in 0 .. NLAYER : l \in S
  <2> HIDE DEF S
  <2> QED BY <1>1, <1>7, <1>9, UpTo
<1>11. first \in [0 .. NLAYER -> Nat]
  <2>1. first = [l \in 0 .. NLAYER |-> first[l]]
    BY <1>5
  <2> QED BY <1>10, <2>1
<1> QED BY <1>7, <1>8, <1>11 DEF Begins

\* The l-th of these intervals is where n is.
In(first, l, n) == l \in 0 .. NLAYER - 1 /\ first[l] <= n /\ n < first[l + 1]

LEMMA Increasing ==
  ASSUME NEW first, NEW width, Begins(first, width),
         NEW l \in 0 .. NLAYER, NEW m \in 0 .. NLAYER, l <= m
  PROVE  first[l] <= first[m]
<1> DEFINE S == {k \in 0 .. NLAYER : k < l \/ first[l] <= first[k]}
<1>1. NLAYER \in Nat /\ \A k \in 0 .. NLAYER : first[k] \in Nat
  BY LayersIs DEF Begins
<1>2. 0 \in S
  BY <1>1
<1>3. \A k \in 0 .. NLAYER - 1 : k \in S => k + 1 \in S
  <2>1. ASSUME NEW k \in 0 .. NLAYER - 1, k < l \/ first[l] <= first[k]
        PROVE  k + 1 < l \/ first[l] <= first[k + 1]
    <3>0. k \in 0 .. NLAYER /\ k + 1 \in 0 .. NLAYER
      BY <1>1
    <3>1. first[k + 1] \in Nat /\ first[k] \in Nat /\ first[l] \in Nat /\ first[k] <= first[k + 1]
      <4>1. first[k + 1] = first[k] + width[k + 1] /\ width[k + 1] \in Nat
        BY DEF Begins
      <4>2. first[k] \in Nat /\ first[l] \in Nat
        BY <1>1, <3>0
      <4> QED BY <4>1, <4>2
    <3>2. k + 1 = l => first[l] <= first[k + 1]
      BY <3>1
    <3> QED BY <2>1, <3>1, <3>2
  <2> QED BY <1>1, <2>1
<1>4. \A k \in 0 .. NLAYER : k \in S
  <2> HIDE DEF S
  <2> QED BY <1>1, <1>2, <1>3, UpTo
<1> QED BY <1>4

LEMMA InOne ==
  ASSUME NEW first, NEW width, Begins(first, width), NEW n \in Nat,
         NEW l, NEW m, In(first, l, n), In(first, m, n)
  PROVE  l = m
<1>1. \A k \in 0 .. NLAYER : first[k] \in Nat
  BY DEF Begins
<1>2. l \in 0 .. NLAYER - 1 /\ m \in 0 .. NLAYER - 1 /\ NLAYER \in Nat
  BY LayersIs DEF In
<1>3. ~(l < m)
  <2> SUFFICES ASSUME l < m PROVE FALSE
    OBVIOUS
  <2>1. first[l + 1] <= first[m]
    BY <1>2, Increasing
  <2> QED BY <1>1, <1>2, <2>1 DEF In
<1>4. ~(m < l)
  <2> SUFFICES ASSUME m < l PROVE FALSE
    OBVIOUS
  <2>1. first[m + 1] <= first[l]
    BY <1>2, Increasing
  <2> QED BY <1>1, <1>2, <2>1 DEF In
<1> QED BY <1>2, <1>3, <1>4

LEMMA LayerIs ==
  ASSUME NEW first, NEW width, Begins(first, width), NEW n \in Nat, n < first[NLAYER]
  PROVE  In(first, LayerOf(first, n), n)
<1>1. NLAYER \in Nat /\ \A k \in 0 .. NLAYER : first[k] \in Nat
  BY LayersIs DEF Begins
<1>2. \E l \in 0 .. NLAYER - 1 : first[l] <= n /\ n < first[l + 1]
  <2> SUFFICES ASSUME \A l \in 0 .. NLAYER - 1 : first[l] <= n => first[l + 1] <= n
               PROVE  FALSE
    BY <1>1
  <2> DEFINE S == {k \in 0 .. NLAYER : first[k] <= n}
  <2>1. 0 \in S
    BY <1>1 DEF Begins
  <2>2. \A k \in 0 .. NLAYER - 1 : k \in S => k + 1 \in S
    BY <1>1
  <2>3. \A k \in 0 .. NLAYER : k \in S
    <3> HIDE DEF S
    <3> QED BY <1>1, <2>1, <2>2, UpTo
  <2>4. first[NLAYER] <= n
    BY <1>1, <2>3
  <2> QED BY <1>1, <2>4
<1> QED BY <1>2 DEF LayerOf, In

LEMMA LayerIn ==
  ASSUME NEW first, NEW width, Begins(first, width), NEW n \in Nat, NEW l, In(first, l, n)
  PROVE  n < first[NLAYER] /\ LayerOf(first, n) = l
<1>1. NLAYER \in Nat /\ l \in 0 .. NLAYER - 1 /\ \A k \in 0 .. NLAYER : first[k] \in Nat
  BY LayersIs DEF Begins, In
<1>2. first[l + 1] <= first[NLAYER]
  BY <1>1, Increasing
<1>3. n < first[NLAYER]
  BY <1>1, <1>2 DEF In
<1> QED BY <1>3, LayerIs, InOne

\* The widths of the layers, in the inode and in the file.
InInode == [l \in 1 .. NLAYER |-> Layers[l]]
InFile  == [l \in 1 .. NLAYER |-> Layers[l] * Fan[l - 1]]

LEMMA AddrsBegin == Begins(FirstAddr, InInode)
<1>1. InInode \in [1 .. NLAYER -> Nat \ {0}]
  BY LayersIs DEF InInode
<1>2. \A l \in 1 .. NLAYER : InInode[l] = Layers[l]
  BY DEF InInode
<1> DEFINE body(f) == [l \in 0 .. NLAYER |-> IF l = 0 THEN 0 ELSE f[l - 1] + InInode[l]]
<1>3. FirstAddr = CHOOSE f : f = [l \in 0 .. NLAYER |-> IF l = 0 THEN 0 ELSE f[l - 1] + Layers[l]]
  BY DEF FirstAddr
<1>4. ASSUME NEW f
      PROVE  [l \in 0 .. NLAYER |-> IF l = 0 THEN 0 ELSE f[l - 1] + Layers[l]] = body(f)
  <2>1. \A l \in 0 .. NLAYER : l = 0 \/ l \in 1 .. NLAYER
    BY LayersIs
  <2> QED BY <1>2, <2>1
<1>5. FirstAddr = CHOOSE f : f = body(f)
  <2> HIDE DEF body
  <2> QED BY <1>3, <1>4
<1> QED BY <1>1, <1>5, BeginsIs

LEMMA BlocksBegin == Begins(FirstBlock, InFile)
<1>1. InFile \in [1 .. NLAYER -> Nat \ {0}]
  <2>1. \A l \in 1 .. NLAYER : Layers[l] \in Nat \ {0} /\ l - 1 \in 0 .. NLAYER
    BY LayersIs
  <2>2. \A l \in 1 .. NLAYER : Fan[l - 1] \in Nat \ {0}
    BY <2>1, FanIs
  <2>3. \A a, b \in Nat \ {0} : a * b \in Nat \ {0}
    OBVIOUS
  <2> QED BY <2>1, <2>2, <2>3 DEF InFile
<1>2. \A l \in 1 .. NLAYER : InFile[l] = Layers[l] * Fan[l - 1]
  BY DEF InFile
<1> DEFINE body(f) == [l \in 0 .. NLAYER |-> IF l = 0 THEN 0 ELSE f[l - 1] + InFile[l]]
<1>3. FirstBlock = CHOOSE f : f = [l \in 0 .. NLAYER |-> IF l = 0 THEN 0
                                                        ELSE f[l - 1] + Layers[l] * Fan[l - 1]]
  BY DEF FirstBlock
<1>4. ASSUME NEW f
      PROVE  [l \in 0 .. NLAYER |-> IF l = 0 THEN 0 ELSE f[l - 1] + Layers[l] * Fan[l - 1]] = body(f)
  <2>1. \A l \in 0 .. NLAYER : l = 0 \/ l \in 1 .. NLAYER
    BY LayersIs
  <2> QED BY <1>2, <2>1
<1>5. FirstBlock = CHOOSE f : f = body(f)
  <2> HIDE DEF body
  <2> QED BY <1>3, <1>4
<1> QED BY <1>1, <1>5, BeginsIs

LEMMA FirstIs ==
  /\ \A l \in 0 .. NLAYER : FirstAddr[l] \in Nat /\ FirstBlock[l] \in Nat
  /\ \A l, m \in 0 .. NLAYER : l <= m => FirstAddr[l] <= FirstAddr[m] /\ FirstBlock[l] <= FirstBlock[m]
<1>1. \A l \in 0 .. NLAYER : FirstAddr[l] \in Nat
  BY AddrsBegin DEF Begins
<1>2. \A l \in 0 .. NLAYER : FirstBlock[l] \in Nat
  BY BlocksBegin DEF Begins
<1>3. \A l, m \in 0 .. NLAYER : l <= m => FirstAddr[l] <= FirstAddr[m]
  BY AddrsBegin, Increasing
<1>4. \A l, m \in 0 .. NLAYER : l <= m => FirstBlock[l] <= FirstBlock[m]
  BY BlocksBegin, Increasing
<1> QED BY <1>1, <1>2, <1>3, <1>4

-----------------------------------------------------------------------------
(* The way to a block *)

\* What a way is, of a block bn of layer l.
LEMMA WayIs ==
  ASSUME NEW bn \in 0 .. MAXFILE - 1, NEW l, l = LayerOf(FirstBlock, bn)
  PROVE  /\ In(FirstBlock, l, bn) /\ l \in 0 .. NLAYER - 1 /\ l \in Nat
         /\ \A k \in 0 .. l : Rank(bn, k) \in Nat /\ Step(bn, k) = <<l, k, Rank(bn, k)>>
         /\ Rank(bn, 0) < Layers[l + 1]
         /\ Rank(bn, l) = bn - FirstBlock[l]
         /\ \A k \in 1 .. l : Rank(bn, k - 1) = Rank(bn, k) \div NINDIRECT
         /\ Leaf(bn) = Step(bn, l)
         /\ Way(bn) = {Step(bn, k) : k \in 0 .. l}
<1> DEFINE off == bn - FirstBlock[l]
<1>1. In(FirstBlock, l, bn)
  <2>1. bn \in Nat /\ bn < FirstBlock[NLAYER]
    BY BlocksBegin, LayersIs DEF MAXFILE, Begins
  <2> QED BY <2>1, BlocksBegin, LayerIs
<1>2. l \in 0 .. NLAYER - 1 /\ l \in Nat /\ NLAYER \in Nat /\ NINDIRECT \in Nat \ {0}
  BY <1>1, LayersIs DEF In
<1>3. off \in Nat /\ off < Layers[l + 1] * Fan[l]
  <2>1. FirstBlock[l] \in Nat
    BY <1>2, BlocksBegin DEF Begins
  <2>2. FirstBlock[l + 1] = FirstBlock[l] + Layers[l + 1] * Fan[l]
    <3>1. FirstBlock[l + 1] = FirstBlock[l] + InFile[l + 1]
      BY <1>2, BlocksBegin DEF Begins
    <3>2. l + 1 \in 1 .. NLAYER /\ (l + 1) - 1 = l
      BY <1>2
    <3> QED BY <3>1, <3>2 DEF InFile
  <2>3. Layers[l + 1] * Fan[l] \in Nat
    <3>1. Layers[l + 1] \in Nat /\ Fan[l] \in Nat
      BY <1>2, LayersIs, FanIs
    <3> QED BY <3>1
  <2>4. FirstBlock[l] <= bn /\ bn < FirstBlock[l] + Layers[l + 1] * Fan[l]
    BY <1>1, <2>2 DEF In
  <2> QED BY <2>1, <2>3, <2>4
<1>4. \A k : Rank(bn, k) = off \div Fan[l - k]
  BY DEF Rank
<1> HIDE DEF off
<1>5. \A k \in 0 .. l : l - k \in 0 .. NLAYER /\ Fan[l - k] \in Nat \ {0}
  BY <1>2, FanIs
<1>6. \A k \in 0 .. l : Rank(bn, k) \in Nat
  <2>1. \A n \in Nat \ {0} : off \div n \in Nat
    BY <1>3
  <2> QED BY <1>4, <1>5, <2>1
<1>7. Rank(bn, 0) < Layers[l + 1]
  <2>1. l - 0 = l /\ Fan[l] \in Nat \ {0} /\ Layers[l + 1] \in Nat
    BY <1>2, FanIs, LayersIs
  <2>2. off \div Fan[l] < Layers[l + 1]
    BY <1>3, <2>1, DivLess
  <2> QED BY <1>4, <2>1, <2>2
<1>8. Rank(bn, l) = off
  <2>1. l - l = 0 /\ off \div 1 = off
    BY <1>2, <1>3
  <2> QED BY <1>4, <2>1, FanIs
<1>9. ASSUME NEW k \in 1 .. l
      PROVE  Rank(bn, k - 1) = Rank(bn, k) \div NINDIRECT
  <2>1. l - k \in 0 .. NLAYER /\ l - (k - 1) \in 1 .. NLAYER /\ (l - (k - 1)) - 1 = l - k
    BY <1>2
  <2>2. Fan[l - (k - 1)] = Fan[l - k] * NINDIRECT /\ Fan[l - k] \in Nat \ {0}
    BY <2>1, FanIs
  <2>3. \A m \in Nat \ {0} : off \div (m * NINDIRECT) = (off \div m) \div NINDIRECT
    <3>1. NINDIRECT \in Nat \ {0} /\ off \in Nat
      BY <1>2, <1>3
    <3> QED BY ONLY <3>1, DivDiv
  <2> DEFINE m == Fan[l - k]
  <2>4. Rank(bn, k - 1) = off \div (m * NINDIRECT) /\ Rank(bn, k) = off \div m /\ m \in Nat \ {0}
    BY <1>4, <2>2
  <2> HIDE DEF m
  <2>5. off \div (m * NINDIRECT) = (off \div m) \div NINDIRECT
    BY <2>3, <2>4
  <2> QED BY ONLY <2>4, <2>5
<1>10. Way(bn) = {Step(bn, k) : k \in 0 .. l} /\ \A k : Step(bn, k) = <<l, k, Rank(bn, k)>>
  BY DEF Way, Step
<1>11. Leaf(bn) = Step(bn, l)
  BY DEF Leaf
<1> QED BY <1>1, <1>2, <1>6, <1>7, <1>8, <1>9, <1>10, <1>11 DEF off

LEMMA StepIs ==
  ASSUME NEW bn \in 0 .. MAXFILE - 1, NEW k \in 0 .. LayerOf(FirstBlock, bn),
         NEW x, x = Step(bn, k)
  PROVE  /\ x \in Node /\ x[1] = LayerOf(FirstBlock, bn) /\ x[2] = k /\ x[3] = Rank(bn, k)
         /\ k # 0 => Up(x) = Step(bn, k - 1)
         /\ Path[bn][k] = IF k = 0 THEN FirstAddr[x[1]] + x[3] ELSE Slot(x)
<1> DEFINE l == LayerOf(FirstBlock, bn)
<1>1. /\ l \in 0 .. NLAYER - 1 /\ l \in Nat /\ k \in 0 .. l
      /\ Rank(bn, k) \in Nat /\ x = <<l, k, Rank(bn, k)>>
      /\ Rank(bn, 0) < Layers[l + 1]
      /\ k # 0 => Rank(bn, k - 1) = Rank(bn, k) \div NINDIRECT
      /\ k # 0 => Step(bn, k - 1) = <<l, k - 1, Rank(bn, k - 1)>>
  <2>1. l \in Nat /\ k \in 0 .. l /\ (k # 0 => k \in 1 .. l /\ k - 1 \in 0 .. l)
    BY WayIs
  <2> HIDE DEF l
  <2> QED BY <2>1, WayIs DEF l
<1>2. Path[bn][k] = IF k = 0 THEN FirstAddr[l] + Rank(bn, 0) ELSE Rank(bn, k) % NINDIRECT
  BY DEF Path
<1> HIDE DEF l
<1>3. x[1] = l /\ x[2] = k /\ x[3] = Rank(bn, k)
  BY <1>1
<1>4. x \in Node
  BY <1>1 DEF Node
<1>5. k # 0 => Up(x) = Step(bn, k - 1)
  BY <1>1, <1>3 DEF Up
<1>6. Path[bn][k] = IF k = 0 THEN FirstAddr[x[1]] + x[3] ELSE Slot(x)
  BY <1>2, <1>3 DEF Slot
<1> QED BY <1>3, <1>4, <1>5, <1>6 DEF l

(* The last pointer of a way is on no other.                               *)
LEMMA LeafIsNew ==
  ASSUME NEW bn \in 0 .. MAXFILE - 1, NEW n \in 0 .. MAXFILE
  PROVE  Leaf(bn) \in Ways(n) <=> bn < n
<1>0. MAXFILE \in Nat /\ bn \in Nat
  BY LayersIs, BlocksBegin DEF MAXFILE, Begins
<1>1. ASSUME bn < n
      PROVE  Leaf(bn) \in Ways(n)
  <2>1. Leaf(bn) \in Way(bn)
    BY WayIs
  <2> QED BY <1>0, <1>1, <2>1 DEF Ways
<1>2. ASSUME Leaf(bn) \in Ways(n)
      PROVE  bn < n
  <2>1. PICK b \in 0 .. n - 1 : Leaf(bn) \in Way(b)
    BY <1>2 DEF Ways
  <2>2. b \in 0 .. MAXFILE - 1
    BY <1>0
  <2> DEFINE l == LayerOf(FirstBlock, bn)
             m == LayerOf(FirstBlock, b)
  <2>3. PICK k \in 0 .. m : Leaf(bn) = <<m, k, Rank(b, k)>>
    BY <2>1, <2>2, WayIs
  <2>4. Leaf(bn) = <<l, l, Rank(bn, l)>> /\ Rank(bn, l) = bn - FirstBlock[l] /\ l \in 0 .. NLAYER
    <3> HIDE DEF l
    <3>1. l \in Nat /\ l \in 0 .. NLAYER - 1
      BY WayIs DEF l
    <3>2. \A j \in 0 .. l : Step(bn, j) = <<l, j, Rank(bn, j)>>
      BY WayIs DEF l
    <3>3. Leaf(bn) = Step(bn, l) /\ Rank(bn, l) = bn - FirstBlock[l]
      BY WayIs DEF l
    <3> QED BY <3>1, <3>2, <3>3, LayersIs
  <2>5. m = l /\ k = m
    BY <2>3, <2>4
  <2>6. Rank(b, m) = b - FirstBlock[m]
    BY <2>2, WayIs
  <2>7. b - FirstBlock[l] = bn - FirstBlock[l]
    BY <2>3, <2>4, <2>5, <2>6
  <2>8. FirstBlock[l] \in Nat
    BY <2>4, BlocksBegin DEF Begins
  <2> QED BY <1>0, <2>2, <2>7, <2>8
<1> QED BY <1>1, <1>2

-----------------------------------------------------------------------------
(* The tree of a file on a disk *)

LEMMA NodeIs ==
  ASSUME NEW x \in Node
  PROVE  /\ x = <<x[1], x[2], x[3]>>
         /\ x[1] \in 0 .. NLAYER - 1 /\ x[2] \in 0 .. x[1] /\ x[3] \in Nat
         /\ Slot(x) \in 0 .. NINDIRECT - 1
         /\ x[2] = 0 => /\ x[3] < Layers[x[1] + 1]
                        /\ FirstAddr[x[1]] + x[3] \in 0 .. NADDRS - 1
                        /\ LayerOf(FirstAddr, FirstAddr[x[1]] + x[3]) = x[1]
<1>1. /\ x = <<x[1], x[2], x[3]>> /\ x[1] \in 0 .. NLAYER - 1 /\ x[2] \in Nat /\ x[3] \in Nat
      /\ x[2] <= x[1] /\ (x[2] = 0 => x[3] < Layers[x[1] + 1])
  BY DEF Node
<1>2. Slot(x) \in 0 .. NINDIRECT - 1
  <2>1. NINDIRECT \in Nat \ {0}
    OBVIOUS
  <2> QED BY <1>1, <2>1, DivIs DEF Slot
<1>3. ASSUME x[2] = 0
      PROVE  /\ FirstAddr[x[1]] + x[3] \in 0 .. NADDRS - 1
             /\ LayerOf(FirstAddr, FirstAddr[x[1]] + x[3]) = x[1]
  <2> DEFINE l == x[1]
             i == FirstAddr[l] + x[3]
  <2>1. /\ FirstAddr[l] \in Nat /\ FirstAddr[l + 1] = FirstAddr[l] + Layers[l + 1]
        /\ Layers[l + 1] \in Nat /\ l \in 0 .. NLAYER - 1
    <3>1. l \in 0 .. NLAYER /\ l + 1 \in 1 .. NLAYER
      BY <1>1, LayersIs
    <3>2. FirstAddr[l + 1] = FirstAddr[l] + InInode[l + 1] /\ FirstAddr[l] \in Nat
      BY <1>1, <3>1, AddrsBegin DEF Begins
    <3> QED BY <1>1, <3>1, <3>2, LayersIs DEF InInode
  <2>2. In(FirstAddr, l, i) /\ i \in Nat
    <3>1. x[3] \in Nat /\ x[3] < Layers[l + 1]
      BY <1>1, <1>3
    <3> HIDE DEF l
    <3>2. FirstAddr[l] <= i /\ i < FirstAddr[l + 1] /\ i \in Nat
      BY <2>1, <3>1
    <3> QED BY <2>1, <3>2 DEF In
  <2> HIDE DEF i
  <2>3. i < FirstAddr[NLAYER] /\ LayerOf(FirstAddr, i) = l
    BY <2>2, AddrsBegin, LayerIn
  <2>4. FirstAddr[NLAYER] \in Nat
    BY AddrsBegin, LayersIs DEF Begins
  <2>5. i \in 0 .. NADDRS - 1
    BY <2>2, <2>3, <2>4 DEF NADDRS
  <2> QED BY <2>3, <2>5 DEF i
<1> QED BY <1>1, <1>2, <1>3

(* Two pointers in one place are the same.                                 *)
LEMMA RootIs ==
  ASSUME NEW x \in Node, NEW y \in Node, x[2] = 0, y[2] = 0,
         FirstAddr[x[1]] + x[3] = FirstAddr[y[1]] + y[3]
  PROVE  x = y
<1>1. x[1] = y[1]
  BY NodeIs
<1>2. FirstAddr[x[1]] \in Nat /\ x[3] \in Nat /\ y[3] \in Nat
  <2>1. x[1] \in 0 .. NLAYER /\ x[3] \in Nat /\ y[3] \in Nat
    BY NodeIs, LayersIs
  <2> QED BY <2>1, FirstIs
<1>3. x[3] = y[3]
  BY <1>1, <1>2
<1> QED BY <1>1, <1>3, NodeIs

LEMMA ChildIs ==
  ASSUME NEW x \in Node, NEW y \in Node, Up(x) = Up(y), Slot(x) = Slot(y)
  PROVE  x = y
<1>1. x[1] = y[1] /\ x[2] - 1 = y[2] - 1 /\ x[3] \div NINDIRECT = y[3] \div NINDIRECT
  BY DEF Up
<1>2. x[2] \in Int /\ y[2] \in Int /\ x[3] \in Nat /\ y[3] \in Nat /\ NINDIRECT \in Nat \ {0}
  BY NodeIs
<1>3. x[3] % NINDIRECT = y[3] % NINDIRECT
  BY DEF Slot
<1>4. x[3] = y[3]
  <2>1. /\ x[3] = NINDIRECT * (x[3] \div NINDIRECT) + (x[3] % NINDIRECT)
        /\ y[3] = NINDIRECT * (y[3] \div NINDIRECT) + (y[3] % NINDIRECT)
    BY <1>2, DivIs
  <2> QED BY <1>1, <1>3, <2>1
<1>5. x[2] = y[2]
  BY <1>1, <1>2
<1> QED BY <1>1, <1>4, <1>5, NodeIs

LEMMA FreeIs ==
  ASSUME NEW d
  PROVE  FirstFree(d) = Null \/ FirstFree(d) \in Blocks \ d.bitmap
<1> SUFFICES ASSUME ~(Blocks \subseteq d.bitmap)
             PROVE  FirstFree(d) \in Blocks \ d.bitmap
  BY DEF FirstFree
<1> DEFINE F == Blocks \ d.bitmap
<1>1. F \subseteq Nat /\ F # {}
  BY DEF Blocks
<1>2. \E b \in F : \A c \in F : b <= c
  <2> HIDE DEF F
  <2> QED BY <1>1, LeastElement
<1> QED BY <1>2 DEF FirstFree

LEMMA NullIs == Null \notin Blocks
BY DEF Null, Blocks

\* The blocks of the bitmap.
Bits == {"bitmap"} \X (0 .. FSSIZE \div BPB)

\* The bitmap blocks that have been logged from disk d to disk e are those of
\* blocks that have been taken.
Booked(e, d) ==
  /\ d.bitmap \subseteq e.bitmap
  /\ e.log \cap Bits \subseteq d.log \cup {BitmapBlock(b) : b \in e.bitmap \ d.bitmap}

LEMMA BookedTwice ==
  ASSUME NEW d, NEW e, NEW g, Booked(e, d), Booked(g, e)
  PROVE  Booked(g, d)
<1>1. d.bitmap \subseteq g.bitmap
  BY DEF Booked
<1>2. ASSUME NEW x \in g.log \cap Bits
      PROVE  x \in d.log \cup {BitmapBlock(b) : b \in g.bitmap \ d.bitmap}
  <2>1. CASE x \in e.log
    <3>1. x \in d.log \cup {BitmapBlock(b) : b \in e.bitmap \ d.bitmap}
      BY <2>1 DEF Booked
    <3>2. e.bitmap \ d.bitmap \subseteq g.bitmap \ d.bitmap
      BY DEF Booked
    <3> QED BY <3>1, <3>2
  <2>2. CASE x \notin e.log
    <3>1. x \in {BitmapBlock(b) : b \in g.bitmap \ e.bitmap}
      BY <2>2 DEF Booked
    <3>2. g.bitmap \ e.bitmap \subseteq g.bitmap \ d.bitmap
      BY DEF Booked
    <3> QED BY <3>1, <3>2
  <2> QED BY <2>1, <2>2
<1> QED BY <1>1, <1>2 DEF Booked

\* Logging a block of the data, or pointers, books none.
LEMMA BookedSame ==
  ASSUME NEW d, NEW e, NEW g, Booked(e, d), NEW a, g.bitmap = e.bitmap,
         g.log \subseteq e.log \cup {<<"block", a>>}
  PROVE  Booked(g, d)
<1>1. <<"block", a>> \notin Bits
  BY DEF Bits
<1> QED BY <1>1 DEF Booked

\* balloc() has given block b.
Given(e, d, b) ==
  /\ e \in Disks /\ e.panic = d.panic
  /\ e.bitmap = d.bitmap \cup {b} /\ e.addrs = d.addrs
  /\ e.ptrs = [d.ptrs EXCEPT ![b] = [i \in 0 .. NINDIRECT - 1 |-> Null]]
  /\ e.data = [d.data EXCEPT ![b] = Nothing]
  /\ e.log \subseteq d.log \cup Bits \cup {<<"block", b>>}

LEMMA BallocIs ==
  ASSUME NEW d \in Disks, NEW b, b = FirstFree(d), NEW e, e = Balloc(d)
  PROVE  /\ e \in Disks /\ Booked(e, d)
         /\ b = Null => e.panic /\ e = [d EXCEPT !.panic = TRUE]
         /\ b # Null => b \in Blocks \ d.bitmap /\ Given(e, d, b)
<1>1. CASE b = Null
  <2>1. e = [d EXCEPT !.panic = TRUE]
    BY <1>1 DEF Balloc
  <2>2. e \in Disks /\ e.panic /\ e.bitmap = d.bitmap /\ e.log = d.log
    BY <2>1 DEF Disks
  <2>3. Booked(e, d)
    BY <2>2 DEF Booked
  <2> QED BY <1>1, <2>1, <2>2, <2>3
<1>2. CASE b # Null
  <2>1. b \in Blocks \ d.bitmap
    BY <1>2, FreeIs
  <2>2. BitmapBlock(b) \in Items /\ <<"block", b>> \in Items /\ BitmapBlock(b) \in Bits
    <3>1. b \in Nat /\ FSSIZE \in Nat /\ b <= FSSIZE /\ BPB \in Nat \ {0}
      BY <2>1 DEF Blocks
    <3>2. b \div BPB \in Nat /\ FSSIZE \div BPB \in Nat /\ b \div BPB <= FSSIZE \div BPB
      BY <3>1, DivIs, DivGrows
    <3> QED BY <2>1, <3>2 DEF Items, BitmapBlock, Bits
  <2> DEFINE zero == [i \in 0 .. NINDIRECT - 1 |-> Null]
  <2>3. e = [d EXCEPT !.bitmap = @ \cup {b}, !.log = @ \cup {BitmapBlock(b), <<"block", b>>},
                      !.ptrs[b] = zero, !.data[b] = Nothing]
    BY <1>2 DEF Balloc
  <2>4. zero \in [0 .. NINDIRECT - 1 -> Blocks \cup {Null}] /\ Nothing \in Places
    BY DEF Places
  <2> HIDE DEF zero
  <2>5. /\ e.panic = d.panic /\ e.bitmap = d.bitmap \cup {b} /\ e.addrs = d.addrs
        /\ e.ptrs = [d.ptrs EXCEPT ![b] = zero]
        /\ e.data = [d.data EXCEPT ![b] = Nothing]
        /\ e.log = d.log \cup {BitmapBlock(b), <<"block", b>>}
        /\ e = [bitmap |-> e.bitmap, addrs |-> e.addrs, ptrs |-> e.ptrs,
                data |-> e.data, log |-> e.log, panic |-> e.panic]
    BY <2>3 DEF Disks
  <2>6. e \in Disks
    <3>1. /\ d.bitmap \subseteq Blocks /\ d.log \subseteq Items /\ d.panic \in BOOLEAN
          /\ d.addrs \in [Files -> [0 .. NADDRS - 1 -> Blocks \cup {Null}]]
          /\ d.ptrs \in [Blocks -> [0 .. NINDIRECT - 1 -> Blocks \cup {Null}]]
          /\ d.data \in [Blocks -> Places]
      BY DEF Disks
    <3>2. /\ e.bitmap \subseteq Blocks /\ e.log \subseteq Items
      BY <2>1, <2>2, <2>5, <3>1
    <3>3. e.ptrs \in [Blocks -> [0 .. NINDIRECT - 1 -> Blocks \cup {Null}]]
      BY <2>4, <2>5, <3>1
    <3>4. e.data \in [Blocks -> Places]
      BY <2>4, <2>5, <3>1
    <3>5. e.panic \in BOOLEAN /\ e.addrs \in [Files -> [0 .. NADDRS - 1 -> Blocks \cup {Null}]]
      BY <2>5, <3>1
    <3> HIDE <2>3
    <3> QED BY <2>5, <3>2, <3>3, <3>4, <3>5 DEF Disks
  <2>7. e.log \subseteq d.log \cup Bits \cup {<<"block", b>>}
    BY <2>2, <2>5
  <2>8. Booked(e, d)
    <3>1. b \in e.bitmap \ d.bitmap /\ <<"block", b>> \notin Bits
      BY <2>1, <2>5 DEF Bits
    <3>2. BitmapBlock(b) \in {BitmapBlock(c) : c \in e.bitmap \ d.bitmap}
      BY <3>1
    <3> QED BY <2>5, <3>1, <3>2 DEF Booked
  <2> QED BY <1>2, <2>1, <2>5, <2>6, <2>7, <2>8 DEF Given, zero
<1> QED BY <1>1, <1>2

-----------------------------------------------------------------------------
(* A new pointer in the tree *)

With(at, v, b) == [u \in DOMAIN at \cup {v} |-> IF u = v THEN b ELSE at[u]]

\* Block b is behind pointer x of file f now, and was free.
Placed(e, d, at, f, x, b) ==
  /\ e \in Disks /\ e.panic = d.panic
  /\ e.bitmap = d.bitmap \cup {b} /\ e.data = [d.data EXCEPT ![b] = Nothing]
  /\ \A g \in Files : \A i \in 0 .. NADDRS - 1 :
       e.addrs[g][i] = IF x[2] = 0 /\ g = f /\ i = FirstAddr[x[1]] + x[3] THEN b ELSE d.addrs[g][i]
  /\ \A c \in Blocks : \A i \in 0 .. NINDIRECT - 1 :
       e.ptrs[c][i] = IF x[2] # 0 /\ c = at[<<f, Up(x)>>] /\ i = Slot(x) THEN b
                      ELSE IF c = b THEN Null ELSE d.ptrs[c][i]

LEMMA SoundIs ==
  ASSUME NEW d, NEW V, NEW at, Sound(d, V, at)
  PROVE  /\ d \in Disks /\ V \subseteq Files \X Node /\ at \in [V -> Blocks] /\ DOMAIN at = V
         /\ \A u, v \in V : at[u] = at[v] => u = v
         /\ \A v \in V : at[v] \in d.bitmap /\ at[v] \in Blocks
         /\ \A f \in Files, x \in Node : <<f, x>> \in V /\ x[2] # 0 => <<f, Up(x)>> \in V
         /\ \A f \in Files, x \in Node : x[2] = 0 \/ <<f, Up(x)>> \in V =>
              Pointer(d, at, f, x) = IF <<f, x>> \in V THEN at[<<f, x>>] ELSE Null
BY DEF Sound

LEMMA PointerIs ==
  ASSUME NEW d, NEW V, NEW at, Sound(d, V, at), NEW f \in Files, NEW x \in Node,
         x[2] = 0 \/ <<f, Up(x)>> \in V
  PROVE  Pointer(d, at, f, x) = IF <<f, x>> \in V THEN at[<<f, x>>] ELSE Null
<1> DEFINE P(g, y) == Pointer(d, at, g, y) = IF <<g, y>> \in V THEN at[<<g, y>>] ELSE Null
<1>1. \A g \in Files, y \in Node : y[2] = 0 \/ <<g, Up(y)>> \in V => P(g, y)
  BY DEF Sound
<1>2. P(f, x)
  <2> HIDE DEF P
  <2> QED BY <1>1
<1> QED BY <1>2

LEMMA PlaceSound ==
  ASSUME NEW d, NEW V, NEW at, Sound(d, V, at), NEW f \in Files, NEW x \in Node,
         <<f, x>> \notin V, x[2] = 0 \/ <<f, Up(x)>> \in V,
         NEW b \in Blocks \ d.bitmap, NEW e, Placed(e, d, at, f, x, b)
  PROVE  Sound(e, V \cup {<<f, x>>}, With(at, <<f, x>>, b))
<1> DEFINE v0 == <<f, x>>
           W == V \cup {v0}
           to == With(at, v0, b)
<1>1. to \in [W -> Blocks] /\ to[v0] = b /\ \A v \in V : to[v] = at[v] /\ v # v0
  <2>1. DOMAIN at = V /\ \A v \in V : at[v] \in Blocks
    BY SoundIs
  <2> QED BY <2>1 DEF With
<1>2. \A v \in V : at[v] # b
  BY SoundIs
<1>3. \A u, v \in V : at[u] = at[v] => u = v
  BY SoundIs
<1> HIDE DEF to, v0
<1>4. ASSUME NEW u \in W, NEW v \in W, to[u] = to[v]
      PROVE  u = v
  BY <1>1, <1>2, <1>3, <1>4
<1>5. e.bitmap = {to[v] : v \in W}
  <2>1. e.bitmap = {at[v] : v \in V} \cup {b}
    BY DEF Placed, Sound
  <2>2. \A v \in V : to[v] = at[v]
    BY <1>1, <1>2
  <2>3. {to[v] : v \in V} = {at[v] : v \in V}
    BY <2>2
  <2>4. {to[v] : v \in W} = {to[v] : v \in V} \cup {b}
    BY <1>1 DEF W
  <2> QED BY <2>1, <2>3, <2>4
<1>6. W \subseteq Files \X Node
  BY SoundIs DEF v0
<1>7. \A v \in W : v[2][2] # 0 => <<v[1], Up(v[2])>> \in W
  <2>1. \A v \in V : v[2][2] # 0 => <<v[1], Up(v[2])>> \in V
    BY DEF Sound
  <2>2. v0[2][2] # 0 => <<v0[1], Up(v0[2])>> \in V
    <3>1. v0[1] = f /\ v0[2] = x
      BY DEF v0
    <3> QED BY <3>1
  <2> QED BY <2>1, <2>2
<1>8. ASSUME NEW g \in Files, NEW y \in Node, y[2] = 0
      PROVE  Pointer(e, to, g, y) = IF <<g, y>> \in W THEN to[<<g, y>>] ELSE Null
  <2> DEFINE i == FirstAddr[y[1]] + y[3]
  <2>1. i \in 0 .. NADDRS - 1
    BY <1>8, NodeIs
  <2>2. d.addrs[g][i] = IF <<g, y>> \in V THEN at[<<g, y>>] ELSE Null
    <3>1. Pointer(d, at, g, y) = IF <<g, y>> \in V THEN at[<<g, y>>] ELSE Null
      BY <1>8, PointerIs
    <3>2. Pointer(d, at, g, y) = d.addrs[g][i]
      BY <1>8 DEF Pointer
    <3> QED BY <3>1, <3>2
  <2>3. Pointer(e, to, g, y) = e.addrs[g][i]
    BY <1>8 DEF Pointer
  <2>4. (x[2] = 0 /\ g = f /\ i = FirstAddr[x[1]] + x[3]) <=> <<g, y>> = v0
    BY <1>8, RootIs DEF v0
  <2>5. e.addrs[g][i] = IF <<g, y>> = v0 THEN b ELSE d.addrs[g][i]
    BY <2>1, <2>4 DEF Placed
  <2> QED BY <1>1, <2>2, <2>3, <2>5
<1>9. ASSUME NEW g \in Files, NEW y \in Node, y[2] # 0, <<g, Up(y)>> \in W
      PROVE  Pointer(e, to, g, y) = IF <<g, y>> \in W THEN to[<<g, y>>] ELSE Null
  <2> DEFINE u == <<g, Up(y)>>
             i == Slot(y)
  <2>1. i \in 0 .. NINDIRECT - 1 /\ to[u] \in Blocks
    BY <1>1, <1>9, NodeIs
  <2>2. Pointer(e, to, g, y) = e.ptrs[to[u]][i]
    BY <1>9 DEF Pointer
  <2>3. CASE u = v0
    <3>1. to[u] = b
      BY <1>1, <2>3
    <3>2. ~ (x[2] # 0 /\ b = at[<<f, Up(x)>>])
      BY <1>2
    <3>3. e.ptrs[b][i] = Null
      BY <2>1, <3>1, <3>2 DEF Placed
    <3>4. <<g, y>> \notin V
      <4>1. <<g, Up(y)>> \notin V
        BY <2>3 DEF v0
      <4> QED BY <1>9, <4>1, SoundIs
    <3>5. <<g, y>> # v0
      <4>1. Up(y) = x
        BY <2>3 DEF v0
      <4>2. Up(y)[2] = y[2] - 1 /\ y[2] \in Int
        BY NodeIs DEF Up
      <4> QED BY <4>1, <4>2 DEF v0
    <3> QED BY <2>2, <3>1, <3>3, <3>4, <3>5
  <2>4. CASE u # v0
    <3>1. u \in V /\ to[u] = at[u] /\ at[u] # b
      BY <1>1, <1>2, <1>9, <2>4
    <3>2. d.ptrs[at[u]][i] = IF <<g, y>> \in V THEN at[<<g, y>>] ELSE Null
      <4>1. Pointer(d, at, g, y) = IF <<g, y>> \in V THEN at[<<g, y>>] ELSE Null
        BY <3>1, PointerIs
      <4>2. Pointer(d, at, g, y) = d.ptrs[at[u]][i]
        BY <1>9 DEF Pointer
      <4> QED BY <4>1, <4>2
    <3>3. (x[2] # 0 /\ at[u] = at[<<f, Up(x)>>] /\ i = Slot(x)) <=> <<g, y>> = v0
      <4>1. ASSUME x[2] # 0, at[u] = at[<<f, Up(x)>>], i = Slot(x)
            PROVE  <<g, y>> = v0
        <5>1. u = <<f, Up(x)>>
          BY <1>3, <3>1, <4>1
        <5> QED BY <4>1, <5>1, ChildIs DEF v0
      <4>2. ASSUME <<g, y>> = v0
            PROVE  x[2] # 0 /\ at[u] = at[<<f, Up(x)>>] /\ i = Slot(x)
        BY <1>9, <4>2 DEF v0
      <4> QED BY <4>1, <4>2
    <3>4. e.ptrs[at[u]][i] = IF <<g, y>> = v0 THEN b ELSE d.ptrs[at[u]][i]
      <4>1. at[u] \in Blocks
        BY <2>1, <3>1
      <4> QED BY <2>1, <3>1, <3>3, <4>1 DEF Placed
    <3> QED BY <1>1, <2>2, <3>1, <3>2, <3>4
  <2> QED BY <2>3, <2>4
<1>10. e \in Disks
  BY DEF Placed
<1>11. \A g \in Files, y \in Node : y[2] = 0 \/ <<g, Up(y)>> \in W =>
         Pointer(e, to, g, y) = IF <<g, y>> \in W THEN to[<<g, y>>] ELSE Null
  BY <1>8, <1>9
<1>12. Sound(e, W, to)
  BY <1>1, <1>4, <1>5, <1>6, <1>7, <1>10, <1>11 DEF Sound
<1> QED BY <1>12 DEF v0, to

-----------------------------------------------------------------------------
(* bmap(), one pointer after the other *)

\* Where bmap() may be that has begun on disk d.
Walks(d) ==
  {w \in [at : Blocks \cup {Null}, d : Disks] :
     (w.d.panic \/ w.at \in Blocks) /\ (d.panic => w.d.panic) /\ Booked(w.d, d)}

LEMMA DiskIs ==
  ASSUME NEW e
  PROVE  e \in Disks <=>
           /\ e = [bitmap |-> e.bitmap, addrs |-> e.addrs, ptrs |-> e.ptrs,
                   data |-> e.data, log |-> e.log, panic |-> e.panic]
           /\ e.bitmap \subseteq Blocks /\ e.log \subseteq Items /\ e.panic \in BOOLEAN
           /\ e.addrs \in [Files -> [0 .. NADDRS - 1 -> Blocks \cup {Null}]]
           /\ e.ptrs \in [Blocks -> [0 .. NINDIRECT - 1 -> Blocks \cup {Null}]]
           /\ e.data \in [Blocks -> Places]
BY DEF Disks

\* Block b behind pointer i of the inode,
PutRoot(e, f, i, b) == [e EXCEPT !.addrs[f][i] = b]

\* and behind pointer i of block a.
PutChild(e, a, i, b) == [e EXCEPT !.ptrs[a][i] = b, !.log = @ \cup {<<"block", a>>}]

RootIn(g, e, f, i, b) ==
  /\ g \in Disks
  /\ g.bitmap = e.bitmap /\ g.ptrs = e.ptrs /\ g.data = e.data /\ g.log = e.log
  /\ g.panic = e.panic
  /\ \A h \in Files : \A j \in 0 .. NADDRS - 1 :
       g.addrs[h][j] = IF h = f /\ j = i THEN b ELSE e.addrs[h][j]

ChildIn(g, e, a, i, b) ==
  /\ g \in Disks
  /\ g.bitmap = e.bitmap /\ g.addrs = e.addrs /\ g.data = e.data
  /\ g.log = e.log \cup {<<"block", a>>}
  /\ g.panic = e.panic
  /\ \A c \in Blocks : \A j \in 0 .. NINDIRECT - 1 :
       g.ptrs[c][j] = IF c = a /\ j = i THEN b ELSE e.ptrs[c][j]

LEMMA RootSet ==
  ASSUME NEW e \in Disks, NEW f \in Files, NEW i \in 0 .. NADDRS - 1, NEW b \in Blocks \cup {Null},
         NEW g, g = PutRoot(e, f, i, b)
  PROVE  RootIn(g, e, f, i, b)
<1>1. e.addrs \in [Files -> [0 .. NADDRS - 1 -> Blocks \cup {Null}]]
  BY DiskIs
<1>2. /\ g.bitmap = e.bitmap /\ g.ptrs = e.ptrs /\ g.data = e.data /\ g.log = e.log
      /\ g.panic = e.panic /\ g.addrs = [e.addrs EXCEPT ![f][i] = b]
      /\ g = [bitmap |-> g.bitmap, addrs |-> g.addrs, ptrs |-> g.ptrs,
              data |-> g.data, log |-> g.log, panic |-> g.panic]
  BY DEF Disks, PutRoot
<1>3. [e.addrs EXCEPT ![f][i] = b] \in [Files -> [0 .. NADDRS - 1 -> Blocks \cup {Null}]]
  BY <1>1
<1>4. e.bitmap \subseteq Blocks /\ e.log \subseteq Items /\ e.panic \in BOOLEAN
  BY DiskIs
<1>5. e.ptrs \in [Blocks -> [0 .. NINDIRECT - 1 -> Blocks \cup {Null}]] /\ e.data \in [Blocks -> Places]
  BY DiskIs
<1>6. g \in Disks
  <2>1. g.addrs \in [Files -> [0 .. NADDRS - 1 -> Blocks \cup {Null}]]
    BY <1>2, <1>3
  <2>2. g.ptrs \in [Blocks -> [0 .. NINDIRECT - 1 -> Blocks \cup {Null}]]
    BY <1>2, <1>5
  <2> QED BY <1>2, <1>4, <1>5, <2>1, <2>2, DiskIs
<1>7. \A h \in Files : \A j \in 0 .. NADDRS - 1 :
        g.addrs[h][j] = IF h = f /\ j = i THEN b ELSE e.addrs[h][j]
  <2>1. g.addrs = [e.addrs EXCEPT ![f][i] = b]
    BY <1>2
  <2>2. \A h \in Files : g.addrs[h] = IF h = f THEN [e.addrs[f] EXCEPT ![i] = b] ELSE e.addrs[h]
    BY <1>1, <2>1
  <2>3. e.addrs[f] \in [0 .. NADDRS - 1 -> Blocks \cup {Null}]
    BY <1>1
  <2> QED BY ONLY <2>2, <2>3
<1> QED BY <1>2, <1>6, <1>7 DEF RootIn

LEMMA ChildSet ==
  ASSUME NEW e \in Disks, NEW a \in Blocks, NEW i \in 0 .. NINDIRECT - 1, NEW b \in Blocks \cup {Null},
         NEW g, g = PutChild(e, a, i, b)
  PROVE  ChildIn(g, e, a, i, b)
<1>1. e.ptrs \in [Blocks -> [0 .. NINDIRECT - 1 -> Blocks \cup {Null}]]
  BY DiskIs
<1>2. /\ g.bitmap = e.bitmap /\ g.addrs = e.addrs /\ g.data = e.data
      /\ g.log = e.log \cup {<<"block", a>>}
      /\ g.panic = e.panic /\ g.ptrs = [e.ptrs EXCEPT ![a][i] = b]
      /\ g = [bitmap |-> g.bitmap, addrs |-> g.addrs, ptrs |-> g.ptrs,
              data |-> g.data, log |-> g.log, panic |-> g.panic]
  BY DEF Disks, PutChild
<1>3. [e.ptrs EXCEPT ![a][i] = b] \in [Blocks -> [0 .. NINDIRECT - 1 -> Blocks \cup {Null}]]
  BY <1>1
<1>4. e.bitmap \subseteq Blocks /\ e.log \subseteq Items /\ e.panic \in BOOLEAN
  BY DiskIs
<1>5. e.addrs \in [Files -> [0 .. NADDRS - 1 -> Blocks \cup {Null}]] /\ e.data \in [Blocks -> Places]
  BY DiskIs
<1>6. <<"block", a>> \in Items
  BY DEF Items
<1>7. g \in Disks
  <2>1. g.addrs \in [Files -> [0 .. NADDRS - 1 -> Blocks \cup {Null}]]
    BY <1>2, <1>5
  <2>2. g.ptrs \in [Blocks -> [0 .. NINDIRECT - 1 -> Blocks \cup {Null}]]
    BY <1>2, <1>3
  <2>3. g.log \subseteq Items
    BY <1>2, <1>4, <1>6
  <2> QED BY <1>2, <1>4, <1>5, <2>1, <2>2, <2>3, DiskIs
<1>8. \A c \in Blocks : \A j \in 0 .. NINDIRECT - 1 :
        g.ptrs[c][j] = IF c = a /\ j = i THEN b ELSE e.ptrs[c][j]
  BY <1>1, <1>2
<1> QED BY <1>2, <1>7, <1>8 DEF ChildIn

LEMMA EnterIs ==
  ASSUME NEW d \in Disks, NEW f \in Files, NEW i \in 0 .. NADDRS - 1, NEW w, w = Enter(d, f, i)
  PROVE  /\ w \in Walks(d)
         /\ d.addrs[f][i] # Null => w = [at |-> d.addrs[f][i], d |-> d]
         /\ d.addrs[f][i] = Null /\ ~w.d.panic =>
              \E e : /\ w.at \in Blocks \ d.bitmap /\ Given(e, d, w.at)
                     /\ w.d \in Disks /\ w.d = PutRoot(e, f, i, w.at)
<1>1. d.addrs \in [Files -> [0 .. NADDRS - 1 -> Blocks \cup {Null}]]
  BY DEF Disks
<1>2. CASE d.addrs[f][i] # Null
  <2>1. w = [at |-> d.addrs[f][i], d |-> d]
    BY <1>2 DEF Enter
  <2>2. w.at \in Blocks /\ w.d = d
    <3>1. d.addrs[f][i] \in Blocks
      BY <1>1, <1>2
    <3> QED BY <2>1, <3>1
  <2>3. w \in [at : Blocks \cup {Null}, d : Disks]
    BY <2>1, <2>2
  <2>4. Booked(w.d, d)
    BY <2>2 DEF Booked
  <2> QED BY <1>2, <2>1, <2>2, <2>3, <2>4 DEF Walks
<1>3. CASE d.addrs[f][i] = Null
  <2> DEFINE b == FirstFree(d)
             e == Balloc(d)
             g == PutRoot(e, f, i, b)
  <2>1. w = [at |-> b, d |-> g]
    BY <1>3 DEF Enter, PutRoot
  <2>2. /\ e \in Disks /\ Booked(e, d)
        /\ b = Null => e.panic
        /\ b # Null => b \in Blocks \ d.bitmap /\ Given(e, d, b)
    BY BallocIs
  <2> HIDE DEF b, e
  <2>3. b \in Blocks \cup {Null} /\ (b = Null \/ b \in Blocks)
    BY <2>2
  <2>4. w.at = b /\ w.d = g /\ g \in Disks /\ g.panic = e.panic /\ g.bitmap = e.bitmap /\ g.log = e.log
    <3>0. g = PutRoot(e, f, i, b)
      OBVIOUS
    <3> HIDE DEF g
    <3>1. g \in Disks /\ g.panic = e.panic /\ g.bitmap = e.bitmap /\ g.log = e.log
      <4>1. e \in Disks /\ b \in Blocks \cup {Null}
        BY <2>2, <2>3
      <4>2. f \in Files /\ i \in 0 .. NADDRS - 1
        OBVIOUS
      <4> QED BY ONLY <3>0, <4>1, <4>2, RootSet DEF RootIn
    <3> QED BY <2>1, <3>1
  <2> HIDE DEF g
  <2>5. w \in [at : Blocks \cup {Null}, d : Disks]
    BY <2>1, <2>3, <2>4
  <2>6. (w.d.panic \/ w.at \in Blocks) /\ (d.panic => w.d.panic)
    <3>1. b = Null \/ e.panic = d.panic
      BY <2>2 DEF Given
    <3> QED BY <2>2, <2>4, <3>1
  <2>7. w \in Walks(d)
    <3>1. Booked(w.d, d)
      BY <2>2, <2>4, BookedSame
    <3> QED BY <2>5, <2>6, <3>1 DEF Walks
  <2>8. ~w.d.panic => w.at \in Blocks \ d.bitmap /\ Given(e, d, w.at)
    BY <2>2, <2>4
  <2>9. w.d \in Disks /\ w.d = PutRoot(e, f, i, w.at)
    <3>1. w.d = PutRoot(e, f, i, b)
      BY <2>4 DEF g
    <3> QED BY <2>4, <3>1
  <2> QED BY <1>3, <2>7, <2>8, <2>9
<1> QED BY <1>2, <1>3

\* A new block is behind pointer i of block u.at.
Made(w, u, i) ==
  \E e : /\ w.at \in Blocks \ u.d.bitmap /\ Given(e, u.d, w.at) /\ w.d \in Disks
         /\ w.d = PutChild(e, u.at, i, w.at)

LEMMA FollowIs ==
  ASSUME NEW d, NEW u \in Walks(d), NEW i \in 0 .. NINDIRECT - 1, NEW w, w = Follow(u, i)
  PROVE  /\ w \in Walks(d)
         /\ u.d.panic => w.d.panic
         /\ ~u.d.panic /\ u.d.ptrs[u.at][i] # Null => w = [at |-> u.d.ptrs[u.at][i], d |-> u.d]
         /\ ~u.d.panic /\ u.d.ptrs[u.at][i] = Null /\ ~w.d.panic => Made(w, u, i)
<1>1. /\ u = [at |-> u.at, d |-> u.d] /\ u.d \in Disks /\ (u.d.panic \/ u.at \in Blocks)
      /\ (d.panic => u.d.panic) /\ Booked(u.d, d)
  BY DEF Walks
<1>2. u.d.ptrs \in [Blocks -> [0 .. NINDIRECT - 1 -> Blocks \cup {Null}]]
  BY <1>1 DEF Disks
<1>3. CASE u.d.panic
  <2>1. w = u
    BY <1>3 DEF Follow
  <2> QED BY <1>3, <2>1
<1>4. CASE ~u.d.panic /\ u.d.ptrs[u.at][i] # Null
  <2> DEFINE c == u.d.ptrs[u.at][i]
  <2>1. w = [at |-> c, d |-> u.d]
    BY <1>1, <1>4 DEF Follow
  <2>2. c \in Blocks
    BY <1>1, <1>2, <1>4
  <2> HIDE DEF c
  <2>3. w.at = c /\ w.d = u.d /\ w \in [at : Blocks \cup {Null}, d : Disks]
    BY <1>1, <2>1, <2>2
  <2>4. w \in Walks(d)
    BY <1>1, <2>2, <2>3 DEF Walks
  <2> QED BY <1>4, <2>1, <2>4 DEF c
<1>5. CASE ~u.d.panic /\ u.d.ptrs[u.at][i] = Null
  <2> DEFINE b == FirstFree(u.d)
             e == Balloc(u.d)
             g == PutChild(e, u.at, i, b)
  <2>1. w = [at |-> b, d |-> g]
    BY <1>5 DEF Follow, PutChild
  <2>2. /\ e \in Disks /\ Booked(e, u.d)
        /\ b = Null => e.panic
        /\ b # Null => b \in Blocks \ u.d.bitmap /\ Given(e, u.d, b)
    BY <1>1, BallocIs
  <2> HIDE DEF b, e
  <2>3. b \in Blocks \cup {Null} /\ (b = Null \/ b \in Blocks) /\ <<"block", u.at>> \in Items
    BY <1>1, <1>5, <2>2 DEF Items
  <2>4. /\ w.at = b /\ w.d = g /\ g \in Disks /\ g.panic = e.panic
        /\ g.bitmap = e.bitmap /\ g.log = e.log \cup {<<"block", u.at>>}
    <3>0. g = PutChild(e, u.at, i, b)
      OBVIOUS
    <3> HIDE DEF g
    <3>1. /\ g \in Disks /\ g.panic = e.panic
          /\ g.bitmap = e.bitmap /\ g.log = e.log \cup {<<"block", u.at>>}
      <4>1. e \in Disks /\ b \in Blocks \cup {Null} /\ u.at \in Blocks
        BY <1>1, <1>5, <2>2, <2>3
      <4>2. i \in 0 .. NINDIRECT - 1
        OBVIOUS
      <4> QED BY ONLY <3>0, <4>1, <4>2, ChildSet DEF ChildIn
    <3> QED BY <2>1, <3>1
  <2> HIDE DEF g
  <2>5. w \in [at : Blocks \cup {Null}, d : Disks]
    BY <2>1, <2>3, <2>4
  <2>6. w.d.panic \/ w.at \in Blocks
    BY <2>2, <2>4
  <2>7. ~d.panic
    BY <1>1, <1>5
  <2>8. w \in Walks(d)
    <3>1. Booked(e, d)
      BY <1>1, <2>2, BookedTwice
    <3>2. Booked(w.d, d)
      BY <2>4, <3>1, BookedSame
    <3> QED BY <2>5, <2>6, <2>7, <3>2 DEF Walks
  <2>9. ~w.d.panic => w.at \in Blocks \ u.d.bitmap /\ Given(e, u.d, w.at)
    BY <2>2, <2>4
  <2>10. ~w.d.panic => Made(w, u, i)
    <3>1. w.d = PutChild(e, u.at, i, b)
      BY <2>4 DEF g
    <3> QED BY <2>4, <2>9, <3>1 DEF Made
  <2> QED BY <1>5, <2>8, <2>10
<1> QED BY <1>3, <1>4, <1>5

\* One more pointer of the way to a block has been followed or made.
Arrived(w, d, V, at, f, x) ==
  /\ <<f, x>> \in V => w = [at |-> at[<<f, x>>], d |-> d]
  /\ <<f, x>> \notin V /\ ~w.d.panic =>
       /\ w.at \in Blocks \ d.bitmap /\ Placed(w.d, d, at, f, x, w.at)
       /\ w.d.log \subseteq d.log \cup Bits \cup {<<"block", w.at>>}
                              \cup {<<"block", at[<<f, y>>]>> : y \in {z \in {Up(x)} : x[2] # 0}}

LEMMA GivenIs ==
  ASSUME NEW d \in Disks, NEW b \in Blocks, NEW e, Given(e, d, b)
  PROVE  /\ e \in Disks /\ e.panic = d.panic /\ e.addrs = d.addrs
         /\ e.bitmap = d.bitmap \cup {b}
         /\ \A c \in Blocks : \A i \in 0 .. NINDIRECT - 1 :
              e.ptrs[c][i] = IF c = b THEN Null ELSE d.ptrs[c][i]
         /\ e.log \subseteq d.log \cup Bits \cup {<<"block", b>>}
<1>1. d.ptrs \in [Blocks -> [0 .. NINDIRECT - 1 -> Blocks \cup {Null}]]
  BY DiskIs
<1> QED BY <1>1 DEF Given

LEMMA EnterArrives ==
  ASSUME NEW d, NEW V, NEW at, Sound(d, V, at), NEW f \in Files, NEW x \in Node, x[2] = 0,
         NEW w, w = Enter(d, f, FirstAddr[x[1]] + x[3])
  PROVE  w \in Walks(d) /\ Arrived(w, d, V, at, f, x)
<1> DEFINE i == FirstAddr[x[1]] + x[3]
<1>1. i \in 0 .. NADDRS - 1 /\ d \in Disks
  BY NodeIs, SoundIs
<1>2. d.addrs[f][i] = IF <<f, x>> \in V THEN at[<<f, x>>] ELSE Null
  <2>1. Pointer(d, at, f, x) = IF <<f, x>> \in V THEN at[<<f, x>>] ELSE Null
    <3>1. x[2] = 0 \/ <<f, Up(x)>> \in V
      OBVIOUS
    <3>2. Sound(d, V, at) /\ f \in Files /\ x \in Node
      OBVIOUS
    <3> QED BY ONLY <3>1, <3>2, PointerIs
  <2>2. Pointer(d, at, f, x) = d.addrs[f][i]
    BY DEF Pointer
  <2> QED BY <2>1, <2>2
<1> HIDE DEF i
<1>3. w = Enter(d, f, i)
  BY DEF i
<1>4. w \in Walks(d)
  BY <1>1, <1>3, EnterIs
<1>5. CASE <<f, x>> \in V
  <2>1. at[<<f, x>>] # Null
    BY <1>5, SoundIs, NullIs
  <2>2. w = [at |-> at[<<f, x>>], d |-> d]
    BY <1>1, <1>2, <1>3, <1>5, <2>1, EnterIs
  <2> QED BY <1>4, <1>5, <2>2 DEF Arrived
<1>6. CASE <<f, x>> \notin V /\ ~w.d.panic
  <2>1. PICK e : /\ w.at \in Blocks \ d.bitmap /\ Given(e, d, w.at)
                 /\ w.d \in Disks /\ w.d = PutRoot(e, f, i, w.at)
    BY <1>1, <1>2, <1>3, <1>6, EnterIs
  <2>2. /\ e \in Disks /\ e.panic = d.panic /\ e.addrs = d.addrs
        /\ e.bitmap = d.bitmap \cup {w.at}
        /\ \A c \in Blocks : \A j \in 0 .. NINDIRECT - 1 :
             e.ptrs[c][j] = IF c = w.at THEN Null ELSE d.ptrs[c][j]
        /\ e.log \subseteq d.log \cup Bits \cup {<<"block", w.at>>}
    BY <1>1, <2>1, GivenIs
  <2>3. e.data = [d.data EXCEPT ![w.at] = Nothing]
    BY <2>1 DEF Given
  <2>4. /\ w.d.bitmap = e.bitmap /\ w.d.ptrs = e.ptrs /\ w.d.data = e.data /\ w.d.log = e.log
        /\ w.d.panic = e.panic
        /\ \A h \in Files : \A j \in 0 .. NADDRS - 1 :
              w.d.addrs[h][j] = IF h = f /\ j = i THEN w.at ELSE e.addrs[h][j]
    <3>1. w.at \in Blocks \cup {Null} /\ f \in Files /\ w.d = PutRoot(e, f, i, w.at)
      BY <2>1
    <3>2. RootIn(w.d, e, f, i, w.at)
      BY ONLY <1>1, <2>2, <3>1, RootSet
    <3> QED BY <3>2 DEF RootIn
  <2>5. w.d.data = [d.data EXCEPT ![w.at] = Nothing]
    BY <2>3, <2>4
  <2>6. Placed(w.d, d, at, f, x, w.at)
    <3>1. w.d \in Disks /\ w.d.panic = d.panic /\ w.d.bitmap = d.bitmap \cup {w.at}
      BY <2>1, <2>2, <2>4
    <3>2. \A g \in Files : \A j \in 0 .. NADDRS - 1 :
            w.d.addrs[g][j] = IF x[2] = 0 /\ g = f /\ j = FirstAddr[x[1]] + x[3]
                              THEN w.at ELSE d.addrs[g][j]
      BY <2>2, <2>4 DEF i
    <3>3. \A c \in Blocks : \A j \in 0 .. NINDIRECT - 1 :
            w.d.ptrs[c][j] = IF x[2] # 0 /\ c = at[<<f, Up(x)>>] /\ j = Slot(x) THEN w.at
                             ELSE IF c = w.at THEN Null ELSE d.ptrs[c][j]
      BY <2>2, <2>4
    <3> QED BY <2>5, <3>1, <3>2, <3>3 DEF Placed
  <2>7. w.d.log \subseteq d.log \cup Bits \cup {<<"block", w.at>>}
    BY <2>2, <2>4
  <2> QED BY <1>4, <1>6, <2>1, <2>6, <2>7 DEF Arrived
<1>7. CASE <<f, x>> \notin V /\ w.d.panic
  BY <1>4, <1>7 DEF Arrived
<1> QED BY <1>5, <1>6, <1>7

LEMMA FollowArrives ==
  ASSUME NEW d, NEW V, NEW at, Sound(d, V, at), ~d.panic, NEW f \in Files, NEW x \in Node,
         x[2] # 0, <<f, Up(x)>> \in V,
         NEW u, u.at = at[<<f, Up(x)>>], u.d = d, NEW c, u \in Walks(c),
         NEW w, w = Follow(u, Slot(x))
  PROVE  w \in Walks(c) /\ Arrived(w, d, V, at, f, x)
<1> DEFINE i == Slot(x)
           a == at[<<f, Up(x)>>]
<1>1. i \in 0 .. NINDIRECT - 1 /\ d \in Disks /\ a \in Blocks
  BY NodeIs, SoundIs
<1>2. d.ptrs[a][i] = IF <<f, x>> \in V THEN at[<<f, x>>] ELSE Null
  <2>1. Pointer(d, at, f, x) = IF <<f, x>> \in V THEN at[<<f, x>>] ELSE Null
    BY PointerIs
  <2>2. Pointer(d, at, f, x) = d.ptrs[a][i]
    BY DEF Pointer
  <2> QED BY <2>1, <2>2
<1> HIDE DEF i
<1>3. w = Follow(u, i) /\ u.at = a
  BY DEF i
<1> HIDE DEF a
<1>4. w \in Walks(c)
  BY <1>1, <1>3, FollowIs
<1>5. CASE <<f, x>> \in V
  <2>1. at[<<f, x>>] # Null
    BY <1>5, SoundIs, NullIs
  <2>2. w = [at |-> at[<<f, x>>], d |-> d]
    BY <1>1, <1>2, <1>3, <1>5, <2>1, FollowIs
  <2> QED BY <1>4, <1>5, <2>2 DEF Arrived
<1>6. CASE <<f, x>> \notin V /\ ~w.d.panic
  <2>1. PICK e : /\ w.at \in Blocks \ d.bitmap /\ Given(e, d, w.at)
                 /\ w.d \in Disks /\ w.d = PutChild(e, a, i, w.at)
    <3>1. d.ptrs[u.at][i] = Null
      BY <1>2, <1>3, <1>6
    <3>2. Made(w, u, i)
      BY <1>1, <1>3, <1>6, <3>1, FollowIs
    <3> QED BY <1>3, <3>2 DEF Made
  <2>2. /\ e \in Disks /\ e.panic = d.panic /\ e.addrs = d.addrs
        /\ e.bitmap = d.bitmap \cup {w.at}
        /\ \A b \in Blocks : \A j \in 0 .. NINDIRECT - 1 :
             e.ptrs[b][j] = IF b = w.at THEN Null ELSE d.ptrs[b][j]
        /\ e.log \subseteq d.log \cup Bits \cup {<<"block", w.at>>}
    BY <1>1, <2>1, GivenIs
  <2>3. e.data = [d.data EXCEPT ![w.at] = Nothing]
    BY <2>1 DEF Given
  <2>4. /\ w.d.bitmap = e.bitmap /\ w.d.addrs = e.addrs /\ w.d.data = e.data
        /\ w.d.log = e.log \cup {<<"block", a>>}
        /\ w.d.panic = e.panic
        /\ \A b \in Blocks : \A j \in 0 .. NINDIRECT - 1 :
              w.d.ptrs[b][j] = IF b = a /\ j = i THEN w.at ELSE e.ptrs[b][j]
    <3>1. w.at \in Blocks \cup {Null}
      BY <2>1
    <3>2. w.d = PutChild(e, a, i, w.at)
      BY <2>1
    <3>3. e \in Disks /\ a \in Blocks /\ i \in 0 .. NINDIRECT - 1
      BY <1>1, <2>2
    <3>4. ChildIn(w.d, e, a, i, w.at)
      BY ONLY <3>1, <3>2, <3>3, ChildSet
    <3> QED BY <3>4 DEF ChildIn
  <2>5. w.d.data = [d.data EXCEPT ![w.at] = Nothing]
    BY <2>3, <2>4
  <2>6. Placed(w.d, d, at, f, x, w.at)
    <3>1. w.d \in Disks /\ w.d.panic = d.panic /\ w.d.bitmap = d.bitmap \cup {w.at}
      BY <2>1, <2>2, <2>4
    <3>2. \A g \in Files : \A j \in 0 .. NADDRS - 1 :
            w.d.addrs[g][j] = IF x[2] = 0 /\ g = f /\ j = FirstAddr[x[1]] + x[3] THEN w.at
                              ELSE d.addrs[g][j]
      BY <2>2, <2>4
    <3>3. \A b \in Blocks : \A j \in 0 .. NINDIRECT - 1 :
            w.d.ptrs[b][j] = IF x[2] # 0 /\ b = at[<<f, Up(x)>>] /\ j = Slot(x) THEN w.at
                             ELSE IF b = w.at THEN Null ELSE d.ptrs[b][j]
      <4>1. x[2] # 0 /\ a = at[<<f, Up(x)>>] /\ i = Slot(x)
        BY DEF i, a
      <4> QED BY ONLY <2>2, <2>4, <4>1
    <3> HIDE <2>4
    <3> QED BY <2>5, <3>1, <3>2, <3>3 DEF Placed
  <2>7. w.d.log \subseteq d.log \cup Bits \cup {<<"block", w.at>>} \cup {<<"block", a>>}
    BY <2>2, <2>4
  <2>8. <<"block", a>> \in {<<"block", at[<<f, y>>]>> : y \in {z \in {Up(x)} : x[2] # 0}}
    BY DEF a
  <2> QED BY <1>4, <1>6, <2>1, <2>6, <2>7, <2>8 DEF Arrived
<1>7. CASE <<f, x>> \notin V /\ w.d.panic
  BY <1>4, <1>7 DEF Arrived
<1> QED BY <1>5, <1>6, <1>7

\* The pointers V of disk d are those of W on disk e, with the data behind them.
Extended(e, W, to, d, V, at) ==
  /\ Sound(e, W, to)
  /\ \A v \in V : to[v] = at[v] /\ e.data[at[v]] = d.data[at[v]]

\* With pointer x, and what that has logged.
Moved(w, to, d, V, at, f, x) ==
  /\ Extended(w.d, V \cup {<<f, x>>}, to, d, V, at) /\ w.at = to[<<f, x>>]
  /\ \/ <<f, x>> \in V /\ w.d = d
     \/ /\ <<f, x>> \notin V
        /\ w.d.log \subseteq
             d.log \cup Bits \cup {<<"block", to[<<f, x>>]>>}
                   \cup {<<"block", to[<<f, y>>]>> : y \in {z \in {Up(x)} : x[2] # 0}}

LEMMA ArrivedSound ==
  ASSUME NEW d, NEW V, NEW at, Sound(d, V, at), NEW f \in Files, NEW x \in Node,
         x[2] = 0 \/ <<f, Up(x)>> \in V, NEW w, Arrived(w, d, V, at, f, x), ~w.d.panic
  PROVE  \E to : Moved(w, to, d, V, at, f, x)
<1>1. CASE <<f, x>> \in V
  <2>1. w.at = at[<<f, x>>] /\ w.d = d
    BY <1>1 DEF Arrived
  <2>2. V \cup {<<f, x>>} = V
    BY <1>1
  <2>3. Extended(w.d, V \cup {<<f, x>>}, at, d, V, at)
    BY <2>1, <2>2 DEF Extended
  <2> QED BY <1>1, <2>1, <2>3 DEF Moved
<1>2. CASE <<f, x>> \notin V
  <2> DEFINE to == With(at, <<f, x>>, w.at)
             W == V \cup {<<f, x>>}
  <2>1. /\ w.at \in Blocks \ d.bitmap /\ Placed(w.d, d, at, f, x, w.at)
        /\ w.d.log \subseteq d.log \cup Bits \cup {<<"block", w.at>>}
                              \cup {<<"block", at[<<f, y>>]>> : y \in {z \in {Up(x)} : x[2] # 0}}
    BY <1>2 DEF Arrived
  <2>2. Sound(w.d, W, to)
    BY <1>2, <2>1, PlaceSound
  <2>3. to[<<f, x>>] = w.at /\ \A v \in V : to[v] = at[v]
    <3>1. DOMAIN at = V
      BY SoundIs
    <3> QED BY <1>2, <3>1 DEF With
  <2> HIDE DEF to
  <2>4. \A v \in V : w.d.data[at[v]] = d.data[at[v]]
    <3>1. w.d.data = [d.data EXCEPT ![w.at] = Nothing]
      BY <2>1 DEF Placed
    <3>2. \A v \in V : at[v] # w.at
      BY <2>1, SoundIs
    <3> QED BY <3>1, <3>2
  <2>5. Extended(w.d, W, to, d, V, at)
    BY <2>2, <2>3, <2>4 DEF Extended
  <2>6. {<<"block", at[<<f, y>>]>> : y \in {z \in {Up(x)} : x[2] # 0}}
          = {<<"block", to[<<f, y>>]>> : y \in {z \in {Up(x)} : x[2] # 0}}
    <3>1. CASE x[2] = 0
      BY <3>1
    <3>2. CASE x[2] # 0
      <4>1. to[<<f, Up(x)>>] = at[<<f, Up(x)>>]
        BY <2>3, <3>2
      <4> QED BY <4>1
    <3> QED BY <3>1, <3>2
  <2>7. w.d.log \subseteq d.log \cup Bits \cup {<<"block", to[<<f, x>>]>>}
                              \cup {<<"block", to[<<f, y>>]>> : y \in {z \in {Up(x)} : x[2] # 0}}
    BY <2>1, <2>3, <2>6
  <2> QED BY <1>2, <2>3, <2>5, <2>7 DEF Moved
<1> QED BY <1>1, <1>2

(* The turns of the loop of bmap().                                        *)
Trail(trail, d, f, bn) ==
  /\ trail \in [0 .. LayerOf(FirstBlock, bn) -> Walks(d)]
  /\ Bmap(d, f, bn) = trail[LayerOf(FirstBlock, bn)]
  /\ trail[0] = Enter(d, f, Path[bn][0])
  /\ \A k \in 1 .. LayerOf(FirstBlock, bn) : trail[k] = Follow(trail[k - 1], Path[bn][k])

LEMMA TrailExists ==
  ASSUME NEW d \in Disks, NEW f \in Files, NEW bn \in 0 .. MAXFILE - 1
  PROVE  \E trail : Trail(trail, d, f, bn)
<1> DEFINE l == LayerOf(FirstBlock, bn)
           a == Enter(d, f, Path[bn][0])
           T == Walks(d)
           step == [z \in T \X (1 .. l) |-> Follow(z[1], Path[bn][z[2]])]
           Def(t) == t = [k \in 0 .. l |-> IF k = 0 THEN a ELSE Follow(t[k - 1], Path[bn][k])]
<1>1. l \in Nat
  BY WayIs
<1>2. \A k \in 0 .. l : Path[bn][k] \in IF k = 0 THEN 0 .. NADDRS - 1 ELSE 0 .. NINDIRECT - 1
  <2> TAKE k \in 0 .. l
  <2> DEFINE x == Step(bn, k)
  <2>1. x \in Node /\ x[2] = k /\ Path[bn][k] = IF k = 0 THEN FirstAddr[x[1]] + x[3] ELSE Slot(x)
    BY StepIs
  <2> HIDE DEF x
  <2>2. Slot(x) \in 0 .. NINDIRECT - 1 /\ (k = 0 => FirstAddr[x[1]] + x[3] \in 0 .. NADDRS - 1)
    BY <2>1, NodeIs
  <2> QED BY <2>1, <2>2
<1> HIDE DEF l
<1>3. a \in T
  <2>1. Path[bn][0] \in 0 .. NADDRS - 1
    <3>1. 0 \in 0 .. l
      BY <1>1
    <3>2. Path[bn][0] \in IF 0 = 0 THEN 0 .. NADDRS - 1 ELSE 0 .. NINDIRECT - 1
      BY <1>2, <3>1
    <3> QED BY <3>2
  <2> QED BY <2>1, EnterIs
<1>4. \A u \in T, k \in 1 .. l : Follow(u, Path[bn][k]) \in T
  <2> TAKE u \in T, k \in 1 .. l
  <2>1. Path[bn][k] \in 0 .. NINDIRECT - 1
    BY <1>1, <1>2
  <2> HIDE DEF T
  <2>2. \A i \in 0 .. NINDIRECT - 1 : Follow(u, i) \in T
    BY FollowIs DEF T
  <2> QED BY <2>1, <2>2
<1> HIDE DEF a, T
<1>5. PICK t \in [0 .. l -> T] : Unfolds(t, l, a, step)
  <2>1. step \in [T \X (1 .. l) -> T]
    BY <1>4
  <2> HIDE DEF step
  <2> QED BY <1>1, <1>3, <2>1, RecursionExists
<1>6. Def(t)
  <2>1. ASSUME NEW k \in 0 .. l
        PROVE  t[k] = IF k = 0 THEN a ELSE Follow(t[k - 1], Path[bn][k])
    <3>1. t[k] = IF k = 0 THEN a ELSE step[<<t[k - 1], k>>]
      BY <1>5 DEF Unfolds
    <3>2. k # 0 => k \in 1 .. l /\ t[k - 1] \in T
      BY <1>1
    <3>3. k # 0 => step[<<t[k - 1], k>>] = Follow(t[k - 1], Path[bn][k])
      BY <3>2
    <3> QED BY <3>1, <3>3
  <2> QED BY <2>1
<1> DEFINE trail == CHOOSE t1 : Def(t1)
<1>7. Bmap(d, f, bn) = trail[l]
  BY DEF Bmap, l, a
<1>8. Def(trail)
  <2> HIDE DEF Def
  <2> QED BY <1>6
<1> HIDE DEF trail
<1>9. trail[0] = a /\ \A k \in 1 .. l : trail[k] = Follow(trail[k - 1], Path[bn][k])
  BY <1>1, <1>8
<1> DEFINE S == {k \in 0 .. l : trail[k] \in T}
<1>10. 0 \in S
  BY <1>1, <1>3, <1>9
<1>11. \A k \in 0 .. l - 1 : k \in S => k + 1 \in S
  <2> TAKE k \in 0 .. l - 1
  <2>1. k + 1 \in 1 .. l /\ k + 1 \in 0 .. l /\ (k + 1) - 1 = k
    BY <1>1
  <2>2. trail[k + 1] = Follow(trail[k], Path[bn][k + 1])
    BY <1>9, <2>1
  <2> QED BY <1>4, <2>1, <2>2
<1>12. \A k \in 0 .. l : k \in S
  <2> HIDE DEF S
  <2> QED BY <1>1, <1>10, <1>11, UpTo
<1>13. trail \in [0 .. l -> T]
  <2>1. trail = [k \in 0 .. l |-> trail[k]]
    BY <1>8
  <2> QED BY <1>12, <2>1
<1>14. Trail(trail, d, f, bn)
  BY <1>7, <1>9, <1>13 DEF Trail, l, a, T
<1> QED BY <1>14

-----------------------------------------------------------------------------
(* bmap() as a whole *)

\* The pointers of file f on the way to block bn, up to depth k; and those
\* that are new, or above a new one.
Upto(f, bn, k) == {<<f, Step(bn, j)>> : j \in 0 .. k}
Touched(V, f, bn, k) ==
  {j \in 0 .. k : <<f, Step(bn, j)>> \notin V \/ (j < k /\ <<f, Step(bn, j + 1)>> \notin V)}

Reached(w, d, V, at, f, bn, k) ==
  w.d.panic \/
  \E to : /\ Extended(w.d, V \cup Upto(f, bn, k), to, d, V, at)
          /\ w.at = to[<<f, Step(bn, k)>>]
          /\ w.d.log \subseteq d.log \cup Bits
               \cup {<<"block", to[<<f, Step(bn, j)>>]>> : j \in Touched(V, f, bn, k)}

\* The first turn,
LEMMA ReachedRoot ==
  ASSUME NEW d, NEW V, NEW at, Sound(d, V, at), NEW f \in Files, NEW bn \in 0 .. MAXFILE - 1,
         NEW w, w = Enter(d, f, Path[bn][0])
  PROVE  Reached(w, d, V, at, f, bn, 0)
<1> DEFINE x == Step(bn, 0)
<1>1. x \in Node /\ x[2] = 0 /\ Path[bn][0] = FirstAddr[x[1]] + x[3]
  <2>1. 0 \in 0 .. LayerOf(FirstBlock, bn)
    BY WayIs
  <2> QED BY <2>1, StepIs
<1>2. Upto(f, bn, 0) = {<<f, x>>} /\ 0 \in 0 .. 0
  BY DEF Upto
<1> HIDE DEF x
<1>3. Arrived(w, d, V, at, f, x)
  BY <1>1, EnterArrives
<1> SUFFICES ASSUME ~w.d.panic PROVE Reached(w, d, V, at, f, bn, 0)
  BY DEF Reached
<1>4. PICK to : Moved(w, to, d, V, at, f, x)
  BY <1>1, <1>3, ArrivedSound
<1> DEFINE L == {<<"block", to[<<f, Step(bn, j)>>]>> : j \in Touched(V, f, bn, 0)}
<1>5. w.d.log \subseteq d.log \cup Bits \cup L
  <2>1. CASE <<f, x>> \in V
    BY <1>4, <2>1 DEF Moved
  <2>2. CASE <<f, x>> \notin V
    <3>1. 0 \in Touched(V, f, bn, 0)
      BY <1>2, <2>2 DEF Touched, x
    <3>2. <<"block", to[<<f, x>>]>> \in L
      BY <3>1 DEF x
    <3>3. {<<"block", to[<<f, y>>]>> : y \in {z \in {Up(x)} : x[2] # 0}} = {}
      BY <1>1
    <3> HIDE DEF L
    <3> QED BY <1>4, <2>2, <3>2, <3>3 DEF Moved
  <2> QED BY <2>1, <2>2
<1>6. w.at = to[<<f, Step(bn, 0)>>] /\ Extended(w.d, V \cup {<<f, x>>}, to, d, V, at)
  BY <1>4 DEF x, Moved
<1> QED BY <1>2, <1>5, <1>6 DEF Reached

\* and any other.
LEMMA ReachedChild ==
  ASSUME NEW d, NEW V, NEW at, Sound(d, V, at), NEW f \in Files, NEW bn \in 0 .. MAXFILE - 1,
         NEW k \in 0 .. LayerOf(FirstBlock, bn) - 1, NEW c,
         NEW u \in Walks(c), Reached(u, d, V, at, f, bn, k),
         NEW w, w = Follow(u, Path[bn][k + 1])
  PROVE  Reached(w, d, V, at, f, bn, k + 1)
<1> DEFINE x == Step(bn, k + 1)
           W == V \cup Upto(f, bn, k)
           y == Step(bn, k)
<1>0. k \in Nat /\ k + 1 \in 0 .. LayerOf(FirstBlock, bn) /\ k + 1 # 0 /\ (k + 1) - 1 = k
  <2>1. LayerOf(FirstBlock, bn) \in Nat
    BY WayIs
  <2> QED BY <2>1
<1>1. x \in Node /\ x[2] # 0 /\ Up(x) = y /\ Path[bn][k + 1] = Slot(x)
  BY <1>0, StepIs
<1>2. Upto(f, bn, k + 1) = Upto(f, bn, k) \cup {<<f, x>>} /\ <<f, y>> \in W
  <2>1. 0 .. k + 1 = 0 .. k \cup {k + 1} /\ k \in 0 .. k
    BY <1>0
  <2> QED BY <2>1 DEF Upto
<1> HIDE DEF x, y
<1> SUFFICES ASSUME ~w.d.panic PROVE Reached(w, d, V, at, f, bn, k + 1)
  BY DEF Reached
<1>3. ~u.d.panic
  BY DEF Follow
<1>4. PICK to : /\ Extended(u.d, W, to, d, V, at)
                /\ u.at = to[<<f, y>>]
                /\ u.d.log \subseteq d.log \cup Bits
                     \cup {<<"block", to[<<f, Step(bn, j)>>]>> : j \in Touched(V, f, bn, k)}
  BY <1>3 DEF Reached, y
<1> HIDE DEF W
<1>5. Sound(u.d, W, to)
  BY <1>4 DEF Extended
<1>6. Arrived(w, u.d, W, to, f, x)
  <2>1. w = Follow(u, Slot(x)) /\ u.at = to[<<f, Up(x)>>] /\ <<f, Up(x)>> \in W
    BY <1>1, <1>2, <1>4
  <2> QED BY <1>1, <1>3, <1>5, <2>1, FollowArrives
<1>7. PICK on : Moved(w, on, u.d, W, to, f, x)
  BY <1>1, <1>2, <1>5, <1>6, ArrivedSound
<1>8. Extended(w.d, V \cup Upto(f, bn, k + 1), on, d, V, at)
  <2>1. V \cup Upto(f, bn, k + 1) = W \cup {<<f, x>>} /\ V \subseteq W
    BY <1>2 DEF W
  <2>2. Extended(w.d, W \cup {<<f, x>>}, on, u.d, W, to)
    BY <1>7 DEF Moved
  <2>3. Extended(w.d, W \cup {<<f, x>>}, on, d, V, at)
    <3>1. Extended(u.d, W, to, d, V, at)
      BY <1>4
    <3> QED BY ONLY <2>1, <2>2, <3>1 DEF Extended
  <2> QED BY <2>1, <2>3
<1> DEFINE Marks(s, n) == {<<"block", s[<<f, Step(bn, j)>>]>> : j \in Touched(V, f, bn, n)}
<1>9. Marks(to, k) \subseteq Marks(on, k + 1)
  <2> SUFFICES ASSUME NEW j \in Touched(V, f, bn, k)
               PROVE  <<"block", to[<<f, Step(bn, j)>>]>> \in Marks(on, k + 1)
    OBVIOUS
  <2>1. j \in 0 .. k
    BY DEF Touched
  <2>2. j \in Touched(V, f, bn, k + 1)
    BY <1>0, <2>1 DEF Touched
  <2>3. <<f, Step(bn, j)>> \in W
    BY <2>1 DEF W, Upto
  <2>4. to[<<f, Step(bn, j)>>] = on[<<f, Step(bn, j)>>]
    BY <1>7, <2>3 DEF Extended, Moved
  <2> QED BY <2>2, <2>4
<1>10. w.d.log \subseteq d.log \cup Bits \cup Marks(on, k + 1)
  <2>1. CASE <<f, x>> \in W
    <3>1. w.d = u.d
      BY <1>7, <2>1 DEF Moved
    <3>2. u.d.log \subseteq d.log \cup Bits \cup Marks(to, k)
      BY <1>4
    <3> HIDE DEF Marks
    <3> QED BY <1>9, <3>1, <3>2
  <2>2. CASE <<f, x>> \notin W
    <3>1. <<f, x>> \notin V
      BY <2>2 DEF W
    <3>2. k + 1 \in Touched(V, f, bn, k + 1) /\ k \in Touched(V, f, bn, k + 1)
      BY <1>0, <3>1 DEF Touched, x
    <3>3. <<"block", on[<<f, x>>]>> \in Marks(on, k + 1) /\ <<"block", on[<<f, y>>]>> \in Marks(on, k + 1)
      BY <3>2 DEF x, y
    <3>4. {<<"block", on[<<f, z>>]>> : z \in {r \in {Up(x)} : x[2] # 0}} = {<<"block", on[<<f, y>>]>>}
      BY <1>1
    <3>5. u.d.log \subseteq d.log \cup Bits \cup Marks(to, k)
      BY <1>4
    <3> HIDE DEF Marks
    <3> QED BY <1>7, <1>9, <2>2, <3>3, <3>4, <3>5 DEF Moved
  <2> QED BY <2>1, <2>2
<1>11. w.at = on[<<f, Step(bn, k + 1)>>]
  BY <1>7 DEF x, Moved
<1> QED BY <1>8, <1>10, <1>11 DEF Reached

LEMMA BmapReaches ==
  ASSUME NEW d, NEW V, NEW at, Sound(d, V, at), NEW f \in Files, NEW bn \in 0 .. MAXFILE - 1,
         NEW w, w = Bmap(d, f, bn)
  PROVE  w \in Walks(d) /\ Reached(w, d, V, at, f, bn, LayerOf(FirstBlock, bn))
<1> DEFINE l == LayerOf(FirstBlock, bn)
<1>1. d \in Disks
  BY SoundIs
<1>2. l \in Nat
  BY WayIs
<1>3. PICK trail : Trail(trail, d, f, bn)
  BY <1>1, TrailExists
<1>4. /\ trail \in [0 .. l -> Walks(d)] /\ w = trail[l] /\ trail[0] = Enter(d, f, Path[bn][0])
      /\ \A k \in 1 .. l : trail[k] = Follow(trail[k - 1], Path[bn][k])
  BY <1>3 DEF Trail
<1> DEFINE S == {k \in 0 .. l : Reached(trail[k], d, V, at, f, bn, k)}
<1>5. 0 \in S
  BY <1>2, <1>4, ReachedRoot
<1>6. \A k \in 0 .. l - 1 : k \in S => k + 1 \in S
  <2> SUFFICES ASSUME NEW k \in 0 .. l - 1, Reached(trail[k], d, V, at, f, bn, k)
               PROVE  k + 1 \in 0 .. l /\ Reached(trail[k + 1], d, V, at, f, bn, k + 1)
    OBVIOUS
  <2>1. k + 1 \in 1 .. l /\ k + 1 \in 0 .. l /\ k \in 0 .. l /\ (k + 1) - 1 = k
    BY <1>2
  <2>2. trail[k + 1] = Follow(trail[k], Path[bn][k + 1]) /\ trail[k] \in Walks(d)
    BY <1>4, <2>1
  <2> QED BY <2>1, <2>2, ReachedChild
<1>7. \A k \in 0 .. l : k \in S
  <2> HIDE DEF S, l
  <2> QED BY <1>2, <1>5, <1>6, UpTo
<1> QED BY <1>2, <1>4, <1>7

\* Where the way to the block is there, bmap() only follows it.
LEMMA BmapSettles ==
  ASSUME NEW d, NEW V, NEW at, Sound(d, V, at), ~d.panic, NEW f \in Files, NEW bn \in 0 .. MAXFILE - 1,
         \A y \in Way(bn) : <<f, y>> \in V, NEW w, w = Bmap(d, f, bn)
  PROVE  w = [at |-> at[<<f, Leaf(bn)>>], d |-> d]
<1> DEFINE l == LayerOf(FirstBlock, bn)
<1>1. d \in Disks /\ l \in Nat /\ Leaf(bn) = Step(bn, l)
  BY SoundIs, WayIs
<1>2. PICK trail : Trail(trail, d, f, bn)
  BY <1>1, TrailExists
<1>3. /\ trail \in [0 .. l -> Walks(d)] /\ w = trail[l] /\ trail[0] = Enter(d, f, Path[bn][0])
      /\ \A k \in 1 .. l : trail[k] = Follow(trail[k - 1], Path[bn][k])
  BY <1>2 DEF Trail
<1>4. \A k \in 0 .. l : <<f, Step(bn, k)>> \in V
  BY WayIs
<1>5. \A k \in 0 .. l : /\ Step(bn, k) \in Node /\ Step(bn, k)[2] = k
                        /\ k # 0 => Up(Step(bn, k)) = Step(bn, k - 1)
                        /\ Path[bn][k] = IF k = 0 THEN FirstAddr[Step(bn, k)[1]] + Step(bn, k)[3]
                                         ELSE Slot(Step(bn, k))
  BY StepIs
<1> HIDE DEF l
<1> DEFINE S == {k \in 0 .. l : trail[k] = [at |-> at[<<f, Step(bn, k)>>], d |-> d]}
<1>6. 0 \in S
  <2>0. 0 \in 0 .. l
    BY <1>1
  <2> DEFINE x == Step(bn, 0)
  <2>1. x \in Node /\ x[2] = 0 /\ Path[bn][0] = FirstAddr[x[1]] + x[3] /\ <<f, x>> \in V
    BY <1>4, <1>5, <2>0
  <2> HIDE DEF x
  <2>2. Arrived(trail[0], d, V, at, f, x)
    BY <1>3, <2>1, EnterArrives
  <2>3. trail[0] = [at |-> at[<<f, x>>], d |-> d]
    BY <2>1, <2>2 DEF Arrived
  <2> QED BY <2>0, <2>3 DEF x
<1>7. ASSUME NEW k \in 0 .. l - 1, k \in S
      PROVE  k + 1 \in S
  <2> DEFINE x == Step(bn, k + 1)
  <2>1. k + 1 \in 1 .. l /\ k + 1 \in 0 .. l /\ k \in 0 .. l /\ (k + 1) - 1 = k /\ k + 1 # 0
    BY <1>1
  <2>2. x \in Node /\ x[2] # 0 /\ Up(x) = Step(bn, k) /\ Path[bn][k + 1] = Slot(x) /\ <<f, x>> \in V
    BY <1>4, <1>5, <2>1
  <2>3. trail[k + 1] = Follow(trail[k], Path[bn][k + 1]) /\ trail[k] \in Walks(d)
    BY <1>3, <2>1
  <2> HIDE DEF x
  <2>4. trail[k].at = at[<<f, Up(x)>>] /\ trail[k].d = d /\ <<f, Up(x)>> \in V
    BY <1>4, <1>7, <2>1, <2>2
  <2>5. Arrived(trail[k + 1], d, V, at, f, x)
    <3>1. trail[k + 1] = Follow(trail[k], Slot(x))
      BY <2>2, <2>3
    <3> QED BY <2>2, <2>3, <2>4, <3>1, FollowArrives
  <2>6. trail[k + 1] = [at |-> at[<<f, x>>], d |-> d]
    BY <2>2, <2>5 DEF Arrived
  <2> QED BY <2>1, <2>6 DEF x
<1>8. \A k \in 0 .. l : k \in S
  <2> HIDE DEF S
  <2> QED BY <1>1, <1>6, <1>7, UpTo
<1> QED BY <1>1, <1>3, <1>8

-----------------------------------------------------------------------------
(* The blocks of a part *)

\* Disk d has files of n[f] blocks, with what was written in them.
Good(d, n, at) ==
  /\ n \in [Files -> 0 .. MAXFILE]
  /\ Sound(d, Needed(n), at) /\ Filled(d, at, n)

Grown(n, f, m) == [n EXCEPT ![f] = Larger(n[f], m)]

LEMMA MaxFileIs == MAXFILE \in Nat /\ NADDRS \in Nat
BY LayersIs, BlocksBegin, AddrsBegin DEF MAXFILE, NADDRS, Begins

LEMMA WaysGrow ==
  ASSUME NEW m \in Nat
  PROVE  Ways(m + 1) = Ways(m) \cup Way(m) /\ \A b \in 0 .. m - 1 : Way(b) \subseteq Ways(m)
<1>1. (m + 1) - 1 = m /\ 0 .. m = 0 .. m - 1 \cup {m}
  OBVIOUS
<1> QED BY <1>1 DEF Ways

LEMMA WayNodes ==
  ASSUME NEW bn \in 0 .. MAXFILE - 1
  PROVE  Way(bn) \subseteq Node
<1>1. \A k \in 0 .. LayerOf(FirstBlock, bn) : Step(bn, k) \in Node
  BY StepIs
<1>2. Way(bn) = {Step(bn, k) : k \in 0 .. LayerOf(FirstBlock, bn)}
  BY WayIs
<1> QED BY <1>1, <1>2

\* What one more block needs.
LEMMA NeededGrows ==
  ASSUME NEW n \in [Files -> 0 .. MAXFILE], NEW f \in Files, NEW bn \in 0 .. MAXFILE - 1, bn <= n[f]
  PROVE  /\ Needed(n) \cup Upto(f, bn, LayerOf(FirstBlock, bn)) = Needed(Grown(n, f, bn + 1))
         /\ Grown(n, f, bn + 1) \in [Files -> 0 .. MAXFILE]
<1> DEFINE g == Grown(n, f, bn + 1)
           U == {<<f, y>> : y \in Way(bn)}
<1>1. Upto(f, bn, LayerOf(FirstBlock, bn)) = U
  <2>1. Way(bn) = {Step(bn, k) : k \in 0 .. LayerOf(FirstBlock, bn)}
    BY WayIs
  <2> QED BY <2>1 DEF Upto
<1>2. /\ n[f] \in Nat /\ bn \in Nat /\ MAXFILE \in Nat /\ n[f] <= MAXFILE /\ bn + 1 <= MAXFILE
      /\ \A h \in Files : g[h] = IF h = f THEN Larger(n[f], bn + 1) ELSE n[h]
      /\ g = [h \in Files |-> g[h]]
  <2>1. n[f] \in 0 .. MAXFILE /\ MAXFILE \in Nat
    BY MaxFileIs
  <2>2. g = [n EXCEPT ![f] = Larger(n[f], bn + 1)]
    BY DEF Grown
  <2>3. n[f] \in Nat /\ bn \in Nat /\ n[f] <= MAXFILE /\ bn + 1 <= MAXFILE
    BY <2>1
  <2> HIDE DEF g
  <2>4. (\A h \in Files : g[h] = IF h = f THEN Larger(n[f], bn + 1) ELSE n[h]) /\ g = [h \in Files |-> g[h]]
    BY <2>2
  <2> QED BY <2>1, <2>3, <2>4
<1> HIDE DEF g
<1>3. Larger(n[f], bn + 1) \in 0 .. MAXFILE
  BY <1>2 DEF Larger
<1>4. g \in [Files -> 0 .. MAXFILE]
  BY <1>2, <1>3
<1>5. Ways(Larger(n[f], bn + 1)) = Ways(n[f]) \cup Way(bn)
  <2>1. CASE bn = n[f]
    <3>1. Larger(n[f], bn + 1) = n[f] + 1
      BY <1>2, <2>1 DEF Larger
    <3> QED BY <1>2, <2>1, <3>1, WaysGrow
  <2>2. CASE bn < n[f]
    <3>1. Larger(n[f], bn + 1) = n[f] /\ bn \in 0 .. n[f] - 1
      BY <1>2, <2>2 DEF Larger
    <3> QED BY <1>2, <3>1, WaysGrow
  <2> QED BY <1>2, <2>1, <2>2
<1>6. \A h \in Files : Ways(g[h]) = IF h = f THEN Ways(n[f]) \cup Way(bn) ELSE Ways(n[h])
  BY <1>2, <1>5
<1>7. Needed(n) \cup U = Needed(g)
  <2>1. Way(bn) \subseteq Node
    BY WayNodes
  <2> QED BY <1>6, <2>1 DEF Needed
<1> QED BY <1>1, <1>4, <1>7 DEF g

LEMMA LeavesDiffer ==
  ASSUME NEW a \in 0 .. MAXFILE - 1, NEW b \in 0 .. MAXFILE - 1, Leaf(a) = Leaf(b)
  PROVE  a = b
<1>1. a \in Nat /\ b \in Nat /\ a + 1 \in 0 .. MAXFILE /\ b + 1 \in 0 .. MAXFILE
  BY MaxFileIs
<1>2. a < b + 1 /\ b < a + 1
  BY <1>1, LeafIsNew
<1> QED BY <1>1, <1>2

LEMMA SoundSame ==
  ASSUME NEW d, NEW V, NEW at, Sound(d, V, at), NEW e \in Disks,
         e.bitmap = d.bitmap, e.addrs = d.addrs, e.ptrs = d.ptrs
  PROVE  Sound(e, V, at)
<1>1. \A f \in Files, x \in Node : Pointer(e, at, f, x) = Pointer(d, at, f, x)
  BY DEF Pointer
<1>2. \A f \in Files, x \in Node : x[2] = 0 \/ <<f, Up(x)>> \in V =>
        Pointer(e, at, f, x) = IF <<f, x>> \in V THEN at[<<f, x>>] ELSE Null
  <2> TAKE f \in Files, x \in Node
  <2> HAVE x[2] = 0 \/ <<f, Up(x)>> \in V
  <2>1. Pointer(d, at, f, x) = IF <<f, x>> \in V THEN at[<<f, x>>] ELSE Null
    BY PointerIs
  <2> QED BY <1>1, <2>1
<1>3. e.bitmap = {at[v] : v \in V}
  BY DEF Sound
<1> QED BY <1>2, <1>3 DEF Sound

\* What it has logged: bitmap blocks, the blocks of the way and that of the data.
Logged(e, d, to, f, bn, J) ==
  e.log \subseteq d.log \cup Bits \cup {<<"block", to[<<f, Step(bn, j)>>]>> : j \in J}

NewOn(n, f, bn) ==
  Touched(Needed(n), f, bn, LayerOf(FirstBlock, bn)) \cup {LayerOf(FirstBlock, bn)}

Put(w, f, bn) == [w.d EXCEPT !.data[w.at] = <<f, bn>>, !.log = @ \cup {<<"block", w.at>>}]

Laid(e, w, f, bn) ==
  /\ e \in Disks /\ ~e.panic
  /\ e.bitmap = w.d.bitmap /\ e.addrs = w.d.addrs /\ e.ptrs = w.d.ptrs
  /\ e.log = w.d.log \cup {<<"block", w.at>>}
  /\ e.data[w.at] = <<f, bn>>
  /\ \A c \in Blocks : c # w.at => e.data[c] = w.d.data[c]

LEMMA PutIs ==
  ASSUME NEW d, NEW w \in Walks(d), ~w.d.panic, NEW f \in Files, NEW bn \in Nat, NEW e, e = Put(w, f, bn)
  PROVE  Laid(e, w, f, bn)
<1>1. w.d \in Disks /\ w.at \in Blocks
  BY DEF Walks
<1>2. w.d.data \in [Blocks -> Places] /\ <<"block", w.at>> \in Items /\ <<f, bn>> \in Places
  BY <1>1, DiskIs DEF Items, Places
<1>3. /\ e.bitmap = w.d.bitmap /\ e.addrs = w.d.addrs /\ e.ptrs = w.d.ptrs
      /\ e.log = w.d.log \cup {<<"block", w.at>>} /\ e.panic = w.d.panic
      /\ e.data = [w.d.data EXCEPT ![w.at] = <<f, bn>>]
      /\ e = [bitmap |-> e.bitmap, addrs |-> e.addrs, ptrs |-> e.ptrs,
              data |-> e.data, log |-> e.log, panic |-> e.panic]
  BY <1>1 DEF Disks, Put
<1>4. e \in Disks
  <2>1. e.data \in [Blocks -> Places]
    BY <1>1, <1>2, <1>3
  <2>2. /\ w.d.bitmap \subseteq Blocks /\ w.d.log \subseteq Items /\ w.d.panic \in BOOLEAN
        /\ w.d.addrs \in [Files -> [0 .. NADDRS - 1 -> Blocks \cup {Null}]]
        /\ w.d.ptrs \in [Blocks -> [0 .. NINDIRECT - 1 -> Blocks \cup {Null}]]
    BY <1>1, DiskIs
  <2>3. /\ e.bitmap \subseteq Blocks /\ e.log \subseteq Items /\ e.panic \in BOOLEAN
    BY <1>2, <1>3, <2>2
  <2>4. e.addrs \in [Files -> [0 .. NADDRS - 1 -> Blocks \cup {Null}]]
    BY <1>3, <2>2
  <2>5. e.ptrs \in [Blocks -> [0 .. NINDIRECT - 1 -> Blocks \cup {Null}]]
    BY <1>3, <2>2
  <2> QED BY <1>3, <2>1, <2>3, <2>4, <2>5, DiskIs
<1>5. e.data[w.at] = <<f, bn>> /\ \A c \in Blocks : c # w.at => e.data[c] = w.d.data[c]
  BY <1>1, <1>2, <1>3
<1> QED BY <1>3, <1>4, <1>5 DEF Laid

\* One block is written.
Wrote(e, to, d, n, at, f, bn) ==
  /\ ~e.panic /\ Good(e, Grown(n, f, bn + 1), to)
  /\ \A v \in Needed(n) : to[v] = at[v]
  /\ Logged(e, d, to, f, bn, NewOn(n, f, bn))

LEMMA WriteBlockIs ==
  ASSUME NEW d, NEW n, NEW at, Good(d, n, at), NEW f \in Files, NEW bn \in 0 .. MAXFILE - 1, bn <= n[f],
         NEW e, e = WriteBlock(f, d, bn), ~e.panic
  PROVE  \E to : Wrote(e, to, d, n, at, f, bn)
<1> DEFINE w == Bmap(d, f, bn)
           l == LayerOf(FirstBlock, bn)
           V == Needed(n)
           m == Grown(n, f, bn + 1)
<1>1. n \in [Files -> 0 .. MAXFILE] /\ Sound(d, V, at) /\ Filled(d, at, n) /\ bn \in Nat
  BY DEF Good
<1>2. w \in Walks(d) /\ Reached(w, d, V, at, f, bn, l)
  BY <1>1, BmapReaches
<1>3. e = IF w.d.panic THEN w.d ELSE Put(w, f, bn)
  BY DEF WriteBlock, Put
<1>4. V \cup Upto(f, bn, l) = Needed(m) /\ m \in [Files -> 0 .. MAXFILE]
  BY <1>1, NeededGrows
<1>5. Leaf(bn) = Step(bn, l) /\ l \in Nat /\ Leaf(bn) \in Way(bn)
  <2>1. Leaf(bn) = Step(bn, l) /\ l \in Nat /\ Way(bn) = {Step(bn, k) : k \in 0 .. l}
    BY WayIs
  <2> HIDE DEF l
  <2> QED BY <2>1
<1>6. \A h \in Files : m[h] = IF h = f THEN Larger(n[f], bn + 1) ELSE n[h]
  BY <1>1 DEF Grown
<1> HIDE DEF w, V, m, l
<1>7. ~w.d.panic /\ e = Put(w, f, bn)
  BY <1>3
<1>8. PICK to : /\ Extended(w.d, Needed(m), to, d, V, at)
                /\ w.at = to[<<f, Leaf(bn)>>]
                /\ w.d.log \subseteq d.log \cup Bits
                     \cup {<<"block", to[<<f, Step(bn, j)>>]>> : j \in Touched(V, f, bn, l)}
  BY <1>2, <1>4, <1>5, <1>7 DEF Reached
<1>9. /\ e \in Disks /\ ~e.panic
      /\ e.bitmap = w.d.bitmap /\ e.addrs = w.d.addrs /\ e.ptrs = w.d.ptrs
      /\ e.log = w.d.log \cup {<<"block", w.at>>}
      /\ e.data[w.at] = <<f, bn>>
      /\ \A c \in Blocks : c # w.at => e.data[c] = w.d.data[c]
  <2>1. Laid(e, w, f, bn)
    BY <1>1, <1>2, <1>7, PutIs
  <2> QED BY <2>1 DEF Laid
<1>10. Sound(w.d, Needed(m), to) /\ \A v \in V : to[v] = at[v] /\ w.d.data[at[v]] = d.data[at[v]]
  BY <1>8 DEF Extended
<1>11. Sound(e, Needed(m), to)
  BY <1>9, <1>10, SoundSame
<1>12. Filled(e, to, m)
  <2> SUFFICES ASSUME NEW h \in Files, NEW b \in 0 .. m[h] - 1
               PROVE  e.data[to[<<h, Leaf(b)>>]] = <<h, b>>
    BY DEF Filled
  <2>1. CASE h = f /\ b = bn
    BY <1>8, <1>9, <2>1
  <2>2. CASE ~ (h = f /\ b = bn)
    <3>1. n[h] \in 0 .. MAXFILE /\ MAXFILE \in Nat /\ m[h] \in 0 .. MAXFILE
      BY <1>1, <1>4, MaxFileIs
    <3>2. b \in 0 .. n[h] - 1
      <4>1. CASE h # f
        BY <1>6, <4>1
      <4>2. CASE h = f
        <5>1. m[h] = n[h] \/ m[h] = bn + 1
          BY <1>6, <4>2 DEF Larger
        <5> QED BY <2>2, <3>1, <4>2, <5>1
      <4> QED BY <4>1, <4>2
    <3>3. b \in 0 .. MAXFILE - 1 /\ b \in Nat
      BY <3>1
    <3>4. Leaf(b) \in Ways(n[h]) /\ Leaf(b) \in Node
      <4>1. Leaf(b) \in Ways(n[h])
        BY <3>1, <3>2, <3>3, LeafIsNew
      <4>2. Leaf(b) \in Way(b)
        BY <3>3, WayIs
      <4> QED BY <3>3, <4>1, <4>2, WayNodes
    <3>5. <<h, Leaf(b)>> \in V
      BY <3>4 DEF V, Needed
    <3>6. d.data[at[<<h, Leaf(b)>>]] = <<h, b>>
      BY <1>1, <3>2 DEF Filled
    <3>7. <<h, Leaf(b)>> # <<f, Leaf(bn)>>
      BY <2>2, <3>3, LeavesDiffer
    <3>8. <<f, Leaf(bn)>> \in Needed(m) /\ <<h, Leaf(b)>> \in Needed(m)
      <4>1. <<f, Step(bn, l)>> \in Upto(f, bn, l)
        BY <1>5 DEF Upto
      <4> QED BY <1>4, <1>5, <3>5, <4>1
    <3>9. to[<<h, Leaf(b)>>] # w.at /\ to[<<h, Leaf(b)>>] \in Blocks
      <4>1. \A u, v \in Needed(m) : to[u] = to[v] => u = v
        BY <1>10 DEF Sound
      <4>2. to[<<h, Leaf(b)>>] \in Blocks
        BY <1>10, <3>8, SoundIs
      <4> QED BY <1>8, <3>7, <3>8, <4>1, <4>2
    <3>10. e.data[to[<<h, Leaf(b)>>]] = w.d.data[to[<<h, Leaf(b)>>]]
      BY <1>9, <3>9
    <3> QED BY <1>10, <3>5, <3>6, <3>10
  <2> QED BY <2>1, <2>2
<1>13. Logged(e, d, to, f, bn, NewOn(n, f, bn))
  <2>1. e.log \subseteq d.log \cup Bits
               \cup {<<"block", to[<<f, Step(bn, j)>>]>> : j \in Touched(V, f, bn, l)}
               \cup {<<"block", to[<<f, Step(bn, l)>>]>>}
    BY <1>5, <1>8, <1>9
  <2> QED BY <2>1 DEF Logged, NewOn, V, l
<1> QED BY <1>4, <1>9, <1>10, <1>11, <1>12, <1>13 DEF Wrote, Good, m, V

LEMMA WriteBlockType ==
  ASSUME NEW d \in Disks, NEW f \in Files, NEW bn \in 0 .. MAXFILE - 1, NEW e, e = WriteBlock(f, d, bn)
  PROVE  e \in Disks /\ (d.panic => e.panic) /\ Booked(e, d)
<1> DEFINE w == Bmap(d, f, bn)
<1>1. bn \in Nat
  BY MaxFileIs
<1>2. w \in Walks(d)
  <2>1. PICK trail : Trail(trail, d, f, bn)
    BY TrailExists
  <2>2. LayerOf(FirstBlock, bn) \in 0 .. LayerOf(FirstBlock, bn)
    BY WayIs
  <2> QED BY <2>1, <2>2 DEF Trail
<1>3. e = IF w.d.panic THEN w.d ELSE Put(w, f, bn)
  BY DEF WriteBlock, Put
<1> HIDE DEF w
<1>4. CASE w.d.panic
  <2>1. e = w.d
    BY <1>3, <1>4
  <2>2. w.d \in Disks /\ Booked(w.d, d)
    BY <1>2 DEF Walks
  <2> QED BY <1>4, <2>1, <2>2
<1>5. CASE ~w.d.panic
  <2>1. Laid(e, w, f, bn)
    BY <1>1, <1>2, <1>3, <1>5, PutIs
  <2>2. ~d.panic /\ Booked(w.d, d)
    BY <1>2, <1>5 DEF Walks
  <2>3. e.bitmap = w.d.bitmap /\ e.log = w.d.log \cup {<<"block", w.at>>}
    BY <2>1 DEF Laid
  <2>4. Booked(e, d)
    BY <2>2, <2>3, BookedSame
  <2> QED BY <2>1, <2>2, <2>4 DEF Laid
<1> QED BY <1>4, <1>5

\* The turns of the loop of writei(), from disk d.
Turns(part, d, f, first, n) ==
  /\ part \in [0 .. n -> Disks] /\ part[0] = d
  /\ \A k \in 1 .. n : part[k] = WriteBlock(f, part[k - 1], first + k - 1)

LEMMA DiskType ==
  ASSUME NEW V, NEW at, Sound(Disk, V, at)
  PROVE  Disk \in Disks /\ ~Disk.panic /\ Disk.log = {}
BY SoundIs DEF Disk

LEMMA TurnsExist ==
  ASSUME Disk \in Disks, NEW f \in Files, NEW first \in Nat, NEW n \in Nat, first + n <= MAXFILE
  PROVE  \E part : Turns(part, Disk, f, first, n) /\ Written(f, first, n) = part[n]
<1> DEFINE T == Disks
           a == Disk
           step == [z \in T \X (1 .. n) |-> WriteBlock(f, z[1], first + z[2] - 1)]
           Def(t) == t = [k \in 0 .. n |-> IF k = 0 THEN a ELSE WriteBlock(f, t[k - 1], first + k - 1)]
<1>1. \A d \in T, k \in 1 .. n : WriteBlock(f, d, first + k - 1) \in T
  <2> TAKE d \in T, k \in 1 .. n
  <2>1. first + k - 1 \in 0 .. MAXFILE - 1
    BY MaxFileIs
  <2> QED BY <2>1, WriteBlockType
<1>2. a \in T
  OBVIOUS
<1> HIDE DEF a, T
<1>3. PICK t \in [0 .. n -> T] : Unfolds(t, n, a, step)
  <2>1. step \in [T \X (1 .. n) -> T]
    BY <1>1
  <2> HIDE DEF step
  <2> QED BY <1>2, <2>1, RecursionExists
<1>4. Def(t)
  <2>1. ASSUME NEW k \in 0 .. n
        PROVE  t[k] = IF k = 0 THEN a ELSE WriteBlock(f, t[k - 1], first + k - 1)
    <3>1. t[k] = IF k = 0 THEN a ELSE step[<<t[k - 1], k>>]
      BY <1>3 DEF Unfolds
    <3>2. k # 0 => k \in 1 .. n /\ t[k - 1] \in T
      OBVIOUS
    <3>3. k # 0 => step[<<t[k - 1], k>>] = WriteBlock(f, t[k - 1], first + k - 1)
      BY <3>2
    <3> QED BY <3>1, <3>3
  <2> QED BY <2>1
<1> DEFINE part == CHOOSE t1 : Def(t1)
<1>5. Written(f, first, n) = part[n]
  BY DEF Written, a
<1>6. Def(part)
  <2> HIDE DEF Def
  <2> QED BY <1>4
<1> HIDE DEF part
<1>7. part[0] = a /\ \A k \in 1 .. n : part[k] = WriteBlock(f, part[k - 1], first + k - 1)
  BY <1>6
<1> DEFINE S == {k \in 0 .. n : part[k] \in T}
<1>8. 0 \in S
  BY <1>2, <1>7
<1>9. \A k \in 0 .. n - 1 : k \in S => k + 1 \in S
  <2> TAKE k \in 0 .. n - 1
  <2>1. k + 1 \in 1 .. n /\ k + 1 \in 0 .. n /\ (k + 1) - 1 = k
    OBVIOUS
  <2>2. part[k + 1] = WriteBlock(f, part[k], first + (k + 1) - 1)
    BY <1>7, <2>1
  <2> QED BY <1>1, <2>1, <2>2
<1>10. \A k \in 0 .. n : k \in S
  <2> HIDE DEF S
  <2> QED BY <1>8, <1>9, UpTo
<1>11. part \in [0 .. n -> T]
  <2>1. part = [k \in 0 .. n |-> part[k]]
    BY <1>6
  <2> QED BY <1>10, <2>1
<1>12. Turns(part, Disk, f, first, n)
  BY <1>7, <1>11 DEF Turns, a, T
<1> QED BY <1>5, <1>12

\* The pointers that a part has logged a block for, before it writes block m.
Marked(n, f, first, m) ==
  UNION {{<<f, Step(bn, j)>> : j \in NewOn(Grown(n, f, bn), f, bn)} : bn \in first .. m - 1}

\* A part has written the blocks up to m.
Parted(e, at, n, f, first, m) ==
  /\ ~e.panic /\ Good(e, Grown(n, f, m), at)
  /\ e.log \subseteq Bits \cup {<<"block", at[v]>> : v \in Marked(n, f, first, m)}

LEMMA GrownAt ==
  ASSUME NEW n \in [Files -> 0 .. MAXFILE], NEW f \in Files, NEW m \in Nat
  PROVE  n[f] \in Nat /\ Grown(n, f, m)[f] \in Nat /\ m <= Grown(n, f, m)[f]
<1>1. n[f] \in Nat
  BY MaxFileIs
<1>2. Grown(n, f, m)[f] = Larger(n[f], m)
  BY DEF Grown
<1> HIDE DEF Grown
<1> QED BY <1>1, <1>2 DEF Larger

LEMMA GrownSame ==
  ASSUME NEW n \in [Files -> 0 .. MAXFILE], NEW f \in Files, NEW m \in Nat, m <= n[f]
  PROVE  Grown(n, f, m) = n
<1>1. n[f] \in Nat
  BY MaxFileIs
<1>2. Larger(n[f], m) = n[f]
  BY <1>1 DEF Larger
<1> QED BY <1>2 DEF Grown

LEMMA GrownTwice ==
  ASSUME NEW n \in [Files -> 0 .. MAXFILE], NEW f \in Files, NEW m \in Nat
  PROVE  Grown(Grown(n, f, m), f, m + 1) = Grown(n, f, m + 1)
<1>1. n[f] \in Nat
  BY MaxFileIs
<1>2. Grown(n, f, m)[f] = Larger(n[f], m)
  BY DEF Grown
<1>3. Larger(Larger(n[f], m), m + 1) = Larger(n[f], m + 1)
  BY <1>1 DEF Larger
<1>4. Grown(Grown(n, f, m), f, m + 1) = [Grown(n, f, m) EXCEPT ![f] = Larger(n[f], m + 1)]
  BY <1>2, <1>3 DEF Grown
<1> QED BY <1>4 DEF Grown

LEMMA MarkedIs ==
  ASSUME NEW n \in [Files -> 0 .. MAXFILE], NEW f \in Files, NEW first \in Nat, NEW m \in Nat,
         m <= MAXFILE, first <= m
  PROVE  /\ Marked(n, f, first, m) \subseteq Needed(Grown(n, f, m))
         /\ Marked(n, f, first, m + 1)
              = Marked(n, f, first, m) \cup {<<f, Step(m, j)>> : j \in NewOn(Grown(n, f, m), f, m)}
<1>1. Marked(n, f, first, m + 1)
        = Marked(n, f, first, m) \cup {<<f, Step(m, j)>> : j \in NewOn(Grown(n, f, m), f, m)}
  <2>1. first .. (m + 1) - 1 = first .. m - 1 \cup {m}
    OBVIOUS
  <2> QED BY <2>1 DEF Marked
<1>2. ASSUME NEW bn \in first .. m - 1, NEW j \in NewOn(Grown(n, f, bn), f, bn)
      PROVE  <<f, Step(bn, j)>> \in Needed(Grown(n, f, m))
  <2> DEFINE l == LayerOf(FirstBlock, bn)
  <2>1. bn \in 0 .. MAXFILE - 1 /\ bn \in Nat
    BY MaxFileIs
  <2>2. l \in Nat /\ Way(bn) = {Step(bn, k) : k \in 0 .. l}
    BY <2>1, WayIs
  <2>3. j \in 0 .. l
    BY <2>2 DEF NewOn, Touched
  <2>4. Step(bn, j) \in Way(bn)
    BY <2>2, <2>3
  <2>5. bn \in 0 .. Grown(n, f, m)[f] - 1
    <3>1. m <= Grown(n, f, m)[f] /\ Grown(n, f, m)[f] \in Nat
      BY GrownAt
    <3> HIDE DEF l
    <3> QED BY <2>1, <3>1
  <2>6. Step(bn, j) \in Ways(Grown(n, f, m)[f]) /\ Step(bn, j) \in Node
    BY <2>1, <2>4, <2>5, WayNodes DEF Ways
  <2> QED BY <2>6 DEF Needed
<1> QED BY <1>1, <1>2 DEF Marked

LEMMA NeededKept ==
  ASSUME NEW n \in [Files -> 0 .. MAXFILE], NEW f \in Files, NEW m \in Nat
  PROVE  Needed(n) \subseteq Needed(Grown(n, f, m))
<1>1. n[f] \in Nat /\ \A g \in Files : Grown(n, f, m)[g] = IF g = f THEN Larger(n[f], m) ELSE n[g]
  BY MaxFileIs DEF Grown
<1>2. 0 .. n[f] - 1 \subseteq 0 .. Larger(n[f], m) - 1
  BY <1>1 DEF Larger
<1>3. \A g \in Files : Ways(n[g]) \subseteq Ways(Grown(n, f, m)[g])
  BY <1>1, <1>2 DEF Ways
<1> QED BY <1>3 DEF Needed

LEMMA WrittenIs ==
  ASSUME NEW n, NEW at, Good(Disk, n, at),
         NEW f \in Files, NEW first \in Nat, NEW c \in Nat, first + c <= MAXFILE, first <= n[f],
         NEW e, e = Written(f, first, c), ~e.panic
  PROVE  e \in Disks /\ \E to : /\ Parted(e, to, n, f, first, first + c)
                                /\ \A v \in Needed(n) : to[v] = at[v]
<1>1. Disk \in Disks /\ ~Disk.panic /\ Disk.log = {} /\ n \in [Files -> 0 .. MAXFILE]
  BY DiskType DEF Good
<1>2. PICK part : Turns(part, Disk, f, first, c) /\ e = part[c]
  BY <1>1, TurnsExist
<1>3. /\ part \in [0 .. c -> Disks] /\ part[0] = Disk
      /\ \A k \in 1 .. c : part[k] = WriteBlock(f, part[k - 1], first + k - 1)
  BY <1>2 DEF Turns
<1> DEFINE Kept(to) == \A v \in Needed(n) : to[v] = at[v]
           S == {k \in 0 .. c : part[k].panic \/ \E to : Parted(part[k], to, n, f, first, first + k) /\ Kept(to)}
<1>4. 0 \in S
  <2>1. Grown(n, f, first + 0) = n /\ first + 0 = first
    BY <1>1, GrownSame
  <2>2. Parted(part[0], at, n, f, first, first + 0)
    BY <1>1, <1>3, <2>1 DEF Parted
  <2> QED BY <2>2
<1>5. ASSUME NEW k \in 0 .. c - 1, k \in S
      PROVE  k + 1 \in S
  <2> DEFINE bn == first + k
  <2>0. CASE part[k + 1].panic
    <3>1. k + 1 \in 0 .. c
      OBVIOUS
    <3> QED BY <2>0, <3>1
  <2> SUFFICES ASSUME ~part[k + 1].panic PROVE k + 1 \in S
    BY <2>0
  <2>1. /\ k + 1 \in 1 .. c /\ k + 1 \in 0 .. c /\ k \in 0 .. c /\ (k + 1) - 1 = k
        /\ first + (k + 1) - 1 = bn /\ first + (k + 1) = bn + 1
        /\ bn \in 0 .. MAXFILE - 1 /\ bn \in Nat /\ first <= bn /\ bn <= MAXFILE
    BY MaxFileIs
  <2> HIDE DEF bn
  <2>2. part[k + 1] = WriteBlock(f, part[k], bn) /\ part[k] \in Disks
    BY <1>3, <2>1
  <2>3. ~part[k].panic
    BY <2>1, <2>2, WriteBlockType
  <2>4. PICK on : Parted(part[k], on, n, f, first, bn) /\ Kept(on)
    BY <1>5, <2>3 DEF bn
  <2> DEFINE g == Grown(n, f, bn)
             W == Needed(g)
             M == Marked(n, f, first, bn)
  <2>5. /\ Good(part[k], g, on)
        /\ part[k].log \subseteq Bits \cup {<<"block", on[v]>> : v \in M}
    BY <2>4 DEF Parted
  <2>6. bn <= g[f]
    BY <1>1, <2>1, GrownAt
  <2>7. PICK to : Wrote(part[k + 1], to, part[k], g, on, f, bn)
    <3> HIDE DEF g
    <3> QED BY <2>1, <2>2, <2>5, <2>6, WriteBlockIs
  <2>8. Good(part[k + 1], Grown(n, f, bn + 1), to)
    <3>1. Grown(g, f, bn + 1) = Grown(n, f, bn + 1)
      BY <1>1, <2>1, GrownTwice
    <3> QED BY <2>7, <3>1 DEF Wrote
  <2>9. /\ M \subseteq W
        /\ Marked(n, f, first, bn + 1) = M \cup {<<f, Step(bn, j)>> : j \in NewOn(g, f, bn)}
    <3>1. n \in [Files -> 0 .. MAXFILE] /\ f \in Files /\ first \in Nat
      BY <1>1
    <3>2. bn \in Nat /\ bn <= MAXFILE /\ first <= bn
      BY <2>1
    <3> QED BY ONLY <3>1, <3>2, MarkedIs
  <2>10. \A v \in M : to[v] = on[v]
    BY <2>7, <2>9 DEF Wrote
  <2>11. part[k + 1].log \subseteq part[k].log \cup Bits
                            \cup {<<"block", to[<<f, Step(bn, j)>>]>> : j \in NewOn(g, f, bn)}
    BY <2>7 DEF Wrote, Logged
  <2>12. part[k + 1].log \subseteq Bits \cup {<<"block", to[v]>> : v \in Marked(n, f, first, bn + 1)}
    <3> HIDE DEF g, W, M
    <3>1. {<<"block", on[v]>> : v \in M} = {<<"block", to[v]>> : v \in M}
      BY <2>10
    <3>2. {<<"block", to[<<f, Step(bn, j)>>]>> : j \in NewOn(g, f, bn)}
            = {<<"block", to[v]>> : v \in {<<f, Step(bn, j)>> : j \in NewOn(g, f, bn)}}
      OBVIOUS
    <3> DEFINE D == {<<f, Step(bn, j)>> : j \in NewOn(g, f, bn)}
               L(X) == {<<"block", to[v]>> : v \in X}
    <3>3. part[k].log \subseteq Bits \cup L(M)
      BY <2>5, <3>1
    <3>4. part[k + 1].log \subseteq part[k].log \cup Bits \cup L(D)
      BY <2>11, <3>2
    <3>5. L(M \cup D) = L(M) \cup L(D) /\ Marked(n, f, first, bn + 1) = M \cup D
      BY <2>9
    <3> HIDE DEF D, L
    <3>6. part[k + 1].log \subseteq Bits \cup L(Marked(n, f, first, bn + 1))
      BY ONLY <3>3, <3>4, <3>5
    <3> QED BY <3>6 DEF L
  <2>13. Parted(part[k + 1], to, n, f, first, bn + 1)
    BY <2>8, <2>12 DEF Parted
  <2>14. Kept(to)
    <3>1. Needed(n) \subseteq W
      BY <1>1, <2>1, NeededKept
    <3> QED BY <2>4, <2>7, <3>1 DEF Wrote
  <2> QED BY <2>1, <2>13, <2>14
<1>6. \A k \in 0 .. c : k \in S
  <2> HIDE DEF S
  <2> QED BY <1>4, <1>5, UpTo
<1>7. c \in S /\ e \in Disks
  BY <1>2, <1>3, <1>6
<1> QED BY <1>2, <1>7

\* The bitmap blocks that a part logs are those of the blocks it has taken.
LEMMA WrittenBooks ==
  ASSUME Disk \in Disks, NEW f \in Files, NEW first \in Nat, NEW c \in Nat, first + c <= MAXFILE,
         NEW e, e = Written(f, first, c)
  PROVE  Booked(e, Disk)
<1>1. PICK part : Turns(part, Disk, f, first, c) /\ e = part[c]
  BY TurnsExist
<1>2. /\ part \in [0 .. c -> Disks] /\ part[0] = Disk
      /\ \A k \in 1 .. c : part[k] = WriteBlock(f, part[k - 1], first + k - 1)
  BY <1>1 DEF Turns
<1> DEFINE S == {k \in 0 .. c : Booked(part[k], Disk)}
<1>3. 0 \in S
  <2>1. Booked(Disk, Disk)
    BY DEF Booked
  <2> QED BY <1>2, <2>1
<1>4. ASSUME NEW k \in 0 .. c - 1, k \in S
      PROVE  k + 1 \in S
  <2>1. /\ k + 1 \in 1 .. c /\ k + 1 \in 0 .. c /\ k \in 0 .. c /\ (k + 1) - 1 = k
        /\ first + (k + 1) - 1 \in 0 .. MAXFILE - 1
    BY MaxFileIs
  <2>2. part[k + 1] = WriteBlock(f, part[k], first + (k + 1) - 1) /\ part[k] \in Disks
    BY <1>2, <2>1
  <2>3. Booked(part[k + 1], part[k])
    BY <2>1, <2>2, WriteBlockType
  <2>4. Booked(part[k + 1], Disk)
    BY <1>4, <2>3, BookedTwice
  <2> QED BY <2>1, <2>4
<1>5. \A k \in 0 .. c : k \in S
  <2> HIDE DEF S
  <2> QED BY <1>3, <1>4, UpTo
<1> QED BY <1>1, <1>5

-----------------------------------------------------------------------------
(* itrunc_layer() *)

\* The blocks that the pointers of block b lead to.
Kids(b) == {ptrs[b][i] : i \in 0 .. NINDIRECT - 1} \ {Null}
Sons(g, b) == UNION {{c} \cup g[c] : c \in Kids(b)}

LEMMA ItruncLayerIs ==
  ASSUME ptrs \in [Blocks -> [0 .. NINDIRECT - 1 -> Blocks \cup {Null}]]
  PROVE  \A j \in 0 .. NLAYER : \A b \in Blocks :
           ItruncLayer[j][b] = IF j = 0 THEN {} ELSE Sons(ItruncLayer[j - 1], b)
<1> DEFINE T == [Blocks -> SUBSET Blocks]
           a == [b \in Blocks |-> {}]
           Fill(g) == [b \in Blocks |-> Sons(g, b)]
           step == [z \in T \X (1 .. NLAYER) |-> Fill(z[1])]
           Body(g, j) == [b \in Blocks |->
                           IF j = 0 THEN {}
                           ELSE UNION {{c} \cup g[j - 1][c] : c \in {ptrs[b][i] : i \in 0 .. NINDIRECT - 1} \ {Null}}]
           Def(g) == g = [j \in 0 .. NLAYER |-> Body(g, j)]
<1>1. NLAYER \in Nat
  BY LayersIs
<1>2. \A b \in Blocks : Kids(b) \subseteq Blocks
  BY DEF Kids
<1>3. ASSUME NEW g \in T
      PROVE  Fill(g) \in T
  <2>1. \A b \in Blocks : Sons(g, b) \subseteq Blocks
    BY <1>2 DEF Sons
  <2> QED BY <2>1
<1>4. a \in T
  OBVIOUS
<1>5. ASSUME NEW g, NEW j \in 0 .. NLAYER
      PROVE  Body(g, j) = IF j = 0 THEN a ELSE Fill(g[j - 1])
  BY DEF Sons, Kids
<1> HIDE DEF Fill, a, T, Body
<1>6. PICK t \in [0 .. NLAYER -> T] : Unfolds(t, NLAYER, a, step)
  <2>1. step \in [T \X (1 .. NLAYER) -> T]
    BY <1>3
  <2> HIDE DEF step
  <2> QED BY <1>1, <1>4, <2>1, RecursionExists
<1>7. Def(t)
  <2>1. ASSUME NEW j \in 0 .. NLAYER
        PROVE  t[j] = Body(t, j)
    <3>1. t[j] = IF j = 0 THEN a ELSE step[<<t[j - 1], j>>]
      BY <1>6 DEF Unfolds
    <3>2. j # 0 => j \in 1 .. NLAYER /\ t[j - 1] \in T
      BY <1>1
    <3>3. j # 0 => step[<<t[j - 1], j>>] = Fill(t[j - 1])
      BY <3>2
    <3> QED BY <1>5, <3>1, <3>3
  <2> QED BY <2>1
<1>8. Def(ItruncLayer)
  <2>1. ItruncLayer = CHOOSE g : Def(g)
    BY DEF ItruncLayer, Body
  <2> HIDE DEF Def
  <2> QED BY <1>7, <2>1
<1>9. \A j \in 0 .. NLAYER : ItruncLayer[j] = IF j = 0 THEN a ELSE Fill(ItruncLayer[j - 1])
  BY <1>5, <1>8
<1> HIDE DEF Def
<1>10. \A b \in Blocks : a[b] = {} /\ \A g : Fill(g)[b] = Sons(g, b)
  BY DEF a, Fill
<1> QED BY <1>9, <1>10

\* The blocks that the pointers of file f lead to.
Owned(at, V, f) == {at[v] : v \in {u \in V : u[1] = f}}

\* What is under a pointer of the inode, with the block that it leads to.
Under(f, i) == {addrs[f][i]} \cup ItruncLayer[LayerOf(FirstAddr, i)][addrs[f][i]]

LEMMA TreeOf ==
  ASSUME NEW f
  PROVE  Tree(f) = UNION {Under(f, i) : i \in {j \in DOMAIN addrs[f] : addrs[f][j] # Null}}
BY DEF Tree, Under

LEMMA DiskFields ==
  ASSUME NEW V, NEW at, Sound(Disk, V, at)
  PROVE  /\ bitmap \subseteq Blocks
         /\ addrs \in [Files -> [0 .. NADDRS - 1 -> Blocks \cup {Null}]]
         /\ ptrs \in [Blocks -> [0 .. NINDIRECT - 1 -> Blocks \cup {Null}]]
         /\ data \in [Blocks -> Places]
BY SoundIs DEF Disk, Disks

\* The pointers in an indirect block are those below its own.
KidsBelow(V, at, f, x) ==
  Kids(at[<<f, x>>]) = {at[<<f, y>>] : y \in {z \in Node : <<f, z>> \in V /\ z[2] # 0 /\ Up(z) = x}}

LEMMA KidsAre ==
  ASSUME NEW V, NEW at, Sound(Disk, V, at), NEW f \in Files, NEW x \in Node, <<f, x>> \in V,
         x[2] < x[1]
  PROVE  KidsBelow(V, at, f, x)
<1> DEFINE b == at[<<f, x>>]
<1>1. x = <<x[1], x[2], x[3]>> /\ x[1] \in 0 .. NLAYER - 1 /\ x[2] \in Nat /\ x[3] \in Nat
  BY NodeIs
<1>2. ASSUME NEW z \in Node, z[2] # 0, Up(z) = x
      PROVE  ptrs[b][Slot(z)] = IF <<f, z>> \in V THEN at[<<f, z>>] ELSE Null
  <2>1. Pointer(Disk, at, f, z) = IF <<f, z>> \in V THEN at[<<f, z>>] ELSE Null
    BY <1>2, PointerIs
  <2>2. Pointer(Disk, at, f, z) = ptrs[b][Slot(z)]
    BY <1>2 DEF Pointer, Disk
  <2> QED BY <2>1, <2>2
<1>3. ASSUME NEW i \in 0 .. NINDIRECT - 1
      PROVE  \E z \in Node : z[2] # 0 /\ Up(z) = x /\ Slot(z) = i
  <2> DEFINE q == NINDIRECT * x[3] + i
             z == <<x[1], x[2] + 1, q>>
  <2>1. q \in Nat /\ q \div NINDIRECT = x[3] /\ q % NINDIRECT = i
    <3>1. NINDIRECT \in Nat \ {0} /\ NINDIRECT * x[3] \in Nat
      BY <1>1, Product
    <3>2. \A n \in Nat \ {0} : \A p \in Nat : \A j \in 0 .. n - 1 :
            (n * p + j) \div n = p /\ (n * p + j) % n = j
      BY DivPlus
    <3>3. (NINDIRECT * x[3] + i) \div NINDIRECT = x[3] /\ (NINDIRECT * x[3] + i) % NINDIRECT = i
      BY <1>1, <3>1, <3>2, Zenon
    <3>4. NINDIRECT * x[3] + i \in Nat
      <4> DEFINE m == NINDIRECT * x[3]
      <4>1. m \in Nat
        BY <3>1
      <4> HIDE DEF m
      <4>2. m + i \in Nat
        BY <3>1, <4>1
      <4> QED BY <4>2 DEF m
    <3> QED BY <3>3, <3>4, Zenon
  <2> HIDE DEF q
  <2>2. z[1] = x[1] /\ z[2] = x[2] + 1 /\ z[3] = q /\ z[2] # 0 /\ z[2] <= z[1] /\ z[2] \in Nat /\ z[2] - 1 = x[2]
    BY <1>1
  <2>3. z \in Node
    BY <1>1, <2>1, <2>2 DEF Node
  <2>4. Up(z) = x /\ Slot(z) = i
    BY <1>1, <2>1, <2>2 DEF Up, Slot
  <2> QED BY <2>2, <2>3, <2>4
<1> HIDE DEF b
<1> DEFINE R == {at[<<f, y>>] : y \in {z \in Node : <<f, z>> \in V /\ z[2] # 0 /\ Up(z) = x}}
<1>4. ASSUME NEW i \in 0 .. NINDIRECT - 1, ptrs[b][i] # Null
      PROVE  ptrs[b][i] \in R
  <2>1. PICK z \in Node : z[2] # 0 /\ Up(z) = x /\ Slot(z) = i
    BY <1>3
  <2>2. <<f, z>> \in V /\ ptrs[b][i] = at[<<f, z>>]
    BY <1>2, <1>4, <2>1
  <2> QED BY <2>1, <2>2
<1>5. ASSUME NEW y \in Node, <<f, y>> \in V, y[2] # 0, Up(y) = x
      PROVE  at[<<f, y>>] \in Kids(b)
  <2>1. ptrs[b][Slot(y)] = at[<<f, y>>] /\ Slot(y) \in 0 .. NINDIRECT - 1
    BY <1>2, <1>5, NodeIs
  <2>2. at[<<f, y>>] # Null
    BY <1>5, SoundIs, NullIs
  <2> QED BY <2>1, <2>2 DEF Kids
<1>6. Kids(b) \subseteq R
  <2> HIDE DEF R
  <2> QED BY <1>4 DEF Kids
<1> QED BY <1>5, <1>6 DEF b, KidsBelow

\* Nothing is under a pointer that the file does not own,
LEMMA UnderOwned ==
  ASSUME NEW V, NEW at, Sound(Disk, V, at), NEW f \in Files, NEW x \in Node, <<f, x>> \in V
  PROVE  ItruncLayer[x[1] - x[2]][at[<<f, x>>]] \subseteq Owned(at, V, f)
<1> DEFINE O == Owned(at, V, f)
           P(j) == \A y \in Node : <<f, y>> \in V /\ y[1] - y[2] = j =>
                     ItruncLayer[j][at[<<f, y>>]] \subseteq O
           S == {j \in 0 .. NLAYER : P(j)}
<1>1. NLAYER \in Nat
  BY LayersIs
<1>2. \A j \in 0 .. NLAYER : \A b \in Blocks :
        ItruncLayer[j][b] = IF j = 0 THEN {} ELSE Sons(ItruncLayer[j - 1], b)
  BY DiskFields, ItruncLayerIs
<1>3. \A y \in Node : <<f, y>> \in V => at[<<f, y>>] \in Blocks /\ at[<<f, y>>] \in O
  <2> SUFFICES ASSUME NEW y \in Node, <<f, y>> \in V
               PROVE  at[<<f, y>>] \in Blocks /\ at[<<f, y>>] \in O
    OBVIOUS
  <2>1. at[<<f, y>>] \in Blocks
    BY SoundIs
  <2>2. <<f, y>>[1] = f
    OBVIOUS
  <2> QED BY <2>1, <2>2 DEF Owned
<1> HIDE DEF O
<1>4. P(0)
  <2> SUFFICES ASSUME NEW y \in Node, <<f, y>> \in V
               PROVE  ItruncLayer[0][at[<<f, y>>]] = {}
    OBVIOUS
  <2> QED BY <1>1, <1>2, <1>3
<1>5. ASSUME NEW j \in 0 .. NLAYER - 1, P(j)
      PROVE  P(j + 1)
  <2> SUFFICES ASSUME NEW y \in Node, <<f, y>> \in V, y[1] - y[2] = j + 1
               PROVE  ItruncLayer[j + 1][at[<<f, y>>]] \subseteq O
    OBVIOUS
  <2> DEFINE b == at[<<f, y>>]
  <2>1. j + 1 \in 0 .. NLAYER /\ j + 1 # 0 /\ (j + 1) - 1 = j
    BY <1>1
  <2>2. ItruncLayer[j + 1][b] = Sons(ItruncLayer[j], b)
    BY <1>2, <1>3, <2>1
  <2>3. y[1] \in Int /\ y[2] \in Int /\ y[2] < y[1]
    <3>1. y[1] \in Int /\ y[2] \in Int
      BY NodeIs
    <3> QED BY <1>1, <3>1
  <2>4. Kids(b) = {at[<<f, z>>] : z \in {u \in Node : <<f, u>> \in V /\ u[2] # 0 /\ Up(u) = y}}
    <3>1. KidsBelow(V, at, f, y)
      BY <2>3, KidsAre
    <3> QED BY <3>1 DEF KidsBelow
  <2>5. ASSUME NEW c \in Kids(b)
        PROVE  {c} \cup ItruncLayer[j][c] \subseteq O
    <3>1. PICK z \in Node : <<f, z>> \in V /\ z[2] # 0 /\ Up(z) = y /\ c = at[<<f, z>>]
      BY <2>4
    <3>2. z[1] = y[1] /\ z[2] - 1 = y[2] /\ z[2] \in Int
      BY <3>1, NodeIs DEF Up
    <3>3. z[1] - z[2] = j
      <4>1. \A p, q, r \in Int : p - q = j + 1 /\ r - 1 = q => p - r = j
        BY <1>1
      <4>2. z[1] \in Int /\ z[1] - y[2] = j + 1
        BY <2>3, <3>2
      <4> QED BY ONLY <2>3, <3>2, <4>1, <4>2
    <3> QED BY <1>3, <1>5, <3>1, <3>3
  <2> QED BY <2>2, <2>5 DEF Sons
<1>6. \A j \in 0 .. NLAYER - 1 : j \in S => j + 1 \in S
  <2>1. \A m \in 0 .. NLAYER - 1 : m + 1 \in 0 .. NLAYER
    BY <1>1
  <2> HIDE DEF P
  <2> QED BY <1>5, <2>1
<1>7. \A j \in 0 .. NLAYER : j \in S
  <2>1. 0 \in S
    BY <1>1, <1>4
  <2> HIDE DEF S
  <2> QED BY <1>1, <1>6, <2>1, UpTo
<1>8. x[1] - x[2] \in 0 .. NLAYER
  <2>1. x[1] \in 0 .. NLAYER - 1 /\ x[2] \in 0 .. x[1]
    BY NodeIs
  <2> QED BY <1>1, <2>1
<1> QED BY <1>7, <1>8 DEF O

\* and what it owns is under a pointer of the inode.
LEMMA OwnedUnder ==
  ASSUME NEW V, NEW at, Sound(Disk, V, at), NEW f \in Files, NEW x \in Node, <<f, x>> \in V
  PROVE  at[<<f, x>>] \in Tree(f)
<1> DEFINE P(k) == \A y \in Node : <<f, y>> \in V /\ y[2] = k =>
                     {at[<<f, y>>]} \cup ItruncLayer[y[1] - k][at[<<f, y>>]] \subseteq Tree(f)
           S == {k \in 0 .. NLAYER : P(k)}
<1>1. NLAYER \in Nat
  BY LayersIs
<1>2. \A j \in 0 .. NLAYER : \A b \in Blocks :
        ItruncLayer[j][b] = IF j = 0 THEN {} ELSE Sons(ItruncLayer[j - 1], b)
  BY DiskFields, ItruncLayerIs
<1>3. P(0)
  <2> SUFFICES ASSUME NEW y \in Node, <<f, y>> \in V, y[2] = 0
               PROVE  {at[<<f, y>>]} \cup ItruncLayer[y[1] - 0][at[<<f, y>>]] \subseteq Tree(f)
    OBVIOUS
  <2> DEFINE i == FirstAddr[y[1]] + y[3]
  <2>1. i \in 0 .. NADDRS - 1 /\ LayerOf(FirstAddr, i) = y[1] /\ y[1] - 0 = y[1]
    BY NodeIs
  <2>2. addrs[f][i] = at[<<f, y>>]
    <3>1. Pointer(Disk, at, f, y) = IF <<f, y>> \in V THEN at[<<f, y>>] ELSE Null
      BY PointerIs
    <3>2. Pointer(Disk, at, f, y) = addrs[f][i]
      BY DEF Pointer, Disk
    <3> QED BY <3>1, <3>2
  <2>3. at[<<f, y>>] # Null
    BY SoundIs, NullIs
  <2>4. i \in DOMAIN addrs[f]
    BY <2>1, DiskFields
  <2> HIDE DEF i
  <2>5. Under(f, i) = {at[<<f, y>>]} \cup ItruncLayer[y[1] - 0][at[<<f, y>>]]
    BY <2>1, <2>2 DEF Under
  <2> QED BY <2>2, <2>3, <2>4, <2>5, TreeOf
<1>4. ASSUME NEW k \in 0 .. NLAYER - 1, P(k)
      PROVE  P(k + 1)
  <2> SUFFICES ASSUME NEW y \in Node, <<f, y>> \in V, y[2] = k + 1
               PROVE  {at[<<f, y>>]} \cup ItruncLayer[y[1] - (k + 1)][at[<<f, y>>]] \subseteq Tree(f)
    OBVIOUS
  <2> DEFINE u == Up(y)
  <2>1. /\ u = <<y[1], y[2] - 1, y[3] \div NINDIRECT>> /\ y[2] # 0 /\ y[2] - 1 = k /\ k \in Nat
        /\ y[1] \in 0 .. NLAYER - 1 /\ k < y[1] /\ y[3] \in Nat
    <3>1. y[1] \in 0 .. NLAYER - 1 /\ y[2] \in 0 .. y[1] /\ y[3] \in Nat
      BY NodeIs
    <3> QED BY <3>1 DEF Up
  <2>2. <<f, u>> \in V
    BY <2>1, SoundIs
  <2>3. u \in Node
    BY <2>2, SoundIs
  <2>4. u[1] = y[1] /\ u[2] = k
    BY <2>1
  <2> HIDE DEF u
  <2>5. ItruncLayer[y[1] - k][at[<<f, u>>]] \subseteq Tree(f)
    BY <1>4, <2>2, <2>3, <2>4
  <2>6. y[1] - k \in 0 .. NLAYER /\ y[1] - k # 0 /\ (y[1] - k) - 1 = y[1] - (k + 1)
    <3> DEFINE m == y[1]
    <3>1. m \in 0 .. NLAYER - 1 /\ k \in 0 .. m - 1 /\ NLAYER \in Nat
      BY <1>1, <2>1
    <3> HIDE DEF m
    <3>2. m - k \in 0 .. NLAYER /\ m - k # 0 /\ (m - k) - 1 = m - (k + 1)
      BY ONLY <3>1
    <3> QED BY <3>2 DEF m
  <2>7. ItruncLayer[y[1] - k][at[<<f, u>>]] = Sons(ItruncLayer[y[1] - (k + 1)], at[<<f, u>>])
    <3>1. at[<<f, u>>] \in Blocks
      BY <2>2, SoundIs
    <3> QED BY <1>2, <2>6, <3>1
  <2>8. at[<<f, y>>] \in Kids(at[<<f, u>>])
    <3>1. Kids(at[<<f, u>>]) = {at[<<f, z>>] : z \in {r \in Node : <<f, r>> \in V /\ r[2] # 0 /\ Up(r) = u}}
      <4>1. u[2] < u[1]
        BY <2>1, <2>4
      <4>2. KidsBelow(V, at, f, u)
        BY <2>2, <2>3, <4>1, KidsAre
      <4> QED BY <4>2 DEF KidsBelow
    <3> QED BY <2>1, <3>1 DEF u
  <2>9. {at[<<f, y>>]} \cup ItruncLayer[y[1] - (k + 1)][at[<<f, y>>]]
          \subseteq Sons(ItruncLayer[y[1] - (k + 1)], at[<<f, u>>])
    BY <2>8 DEF Sons
  <2> QED BY <2>5, <2>7, <2>9
<1>5. \A k \in 0 .. NLAYER - 1 : k \in S => k + 1 \in S
  <2>1. \A m \in 0 .. NLAYER - 1 : m + 1 \in 0 .. NLAYER
    BY <1>1
  <2> HIDE DEF P
  <2> QED BY <1>4, <2>1
<1>6. \A k \in 0 .. NLAYER : k \in S
  <2>1. 0 \in S
    BY <1>1, <1>3
  <2> HIDE DEF S
  <2> QED BY <1>1, <1>5, <2>1, UpTo
<1>7. x[2] \in 0 .. NLAYER
  <2>1. x[1] \in 0 .. NLAYER - 1 /\ x[2] \in 0 .. x[1]
    BY NodeIs
  <2> QED BY <1>1, <2>1
<1> QED BY <1>6, <1>7

\* Every pointer of the inode is one of a layer.
LEMMA RootFor ==
  ASSUME NEW i \in 0 .. NADDRS - 1
  PROVE  \E x \in Node : x[2] = 0 /\ FirstAddr[x[1]] + x[3] = i /\ LayerOf(FirstAddr, i) = x[1]
<1> DEFINE l == LayerOf(FirstAddr, i)
           q == i - FirstAddr[l]
           x == <<l, 0, q>>
<1>1. In(FirstAddr, l, i)
  <2>1. i \in Nat /\ i < FirstAddr[NLAYER]
    BY MaxFileIs DEF NADDRS
  <2> QED BY <2>1, AddrsBegin, LayerIs
<1> HIDE DEF l
<1>2. /\ FirstAddr[l] \in Nat /\ FirstAddr[l + 1] = FirstAddr[l] + Layers[l + 1]
      /\ Layers[l + 1] \in Nat /\ l \in 0 .. NLAYER - 1 /\ i \in Int
  <2>1. l \in 0 .. NLAYER /\ l + 1 \in 1 .. NLAYER /\ l \in 0 .. NLAYER - 1
    BY <1>1, LayersIs DEF In
  <2>2. FirstAddr[l + 1] = FirstAddr[l] + InInode[l + 1] /\ FirstAddr[l] \in Nat
    BY <2>1, AddrsBegin DEF Begins
  <2> QED BY <2>1, <2>2, LayersIs DEF InInode
<1>3. q \in Nat /\ q < Layers[l + 1] /\ FirstAddr[l] + q = i
  BY <1>1, <1>2 DEF In
<1> HIDE DEF q
<1>4. x[1] = l /\ x[2] = 0 /\ x[3] = q
  OBVIOUS
<1>5. x \in Node
  BY <1>2, <1>3, <1>4 DEF Node
<1> QED BY <1>3, <1>4, <1>5 DEF l

LEMMA TreeIs ==
  ASSUME NEW V, NEW at, Sound(Disk, V, at), NEW f \in Files
  PROVE  Tree(f) = Owned(at, V, f)
<1>1. ASSUME NEW i \in 0 .. NADDRS - 1, addrs[f][i] # Null
      PROVE  Under(f, i) \subseteq Owned(at, V, f)
  <2>1. PICK x \in Node : x[2] = 0 /\ FirstAddr[x[1]] + x[3] = i /\ LayerOf(FirstAddr, i) = x[1]
    BY RootFor
  <2>2. addrs[f][i] = IF <<f, x>> \in V THEN at[<<f, x>>] ELSE Null
    <3>1. Pointer(Disk, at, f, x) = IF <<f, x>> \in V THEN at[<<f, x>>] ELSE Null
      <4>1. x[2] = 0 \/ <<f, Up(x)>> \in V
        BY <2>1
      <4> QED BY ONLY <4>1, Sound(Disk, V, at), f \in Files, x \in Node, PointerIs
    <3>2. Pointer(Disk, at, f, x) = addrs[f][i]
      BY <2>1 DEF Pointer, Disk
    <3> QED BY <3>1, <3>2
  <2>3. <<f, x>> \in V /\ addrs[f][i] = at[<<f, x>>]
    BY <1>1, <2>2
  <2>4. ItruncLayer[x[1] - x[2]][at[<<f, x>>]] \subseteq Owned(at, V, f)
    BY <2>3, UnderOwned
  <2>5. x[1] - x[2] = LayerOf(FirstAddr, i)
    BY <2>1, NodeIs
  <2>6. at[<<f, x>>] \in Owned(at, V, f)
    BY <2>3 DEF Owned
  <2> QED BY <2>3, <2>4, <2>5, <2>6 DEF Under
<1>2. Tree(f) \subseteq Owned(at, V, f)
  <2>1. DOMAIN addrs[f] = 0 .. NADDRS - 1
    BY DiskFields
  <2> QED BY <1>1, <2>1, TreeOf
<1>3. Owned(at, V, f) \subseteq Tree(f)
  <2> SUFFICES ASSUME NEW v \in V, v[1] = f PROVE at[v] \in Tree(f)
    BY DEF Owned
  <2>1. V \subseteq Files \X Node
    BY SoundIs
  <2>2. v = <<f, v[2]>> /\ v[2] \in Node
    BY <2>1
  <2> QED BY <2>2, OwnedUnder
<1> QED BY <1>2, <1>3

-----------------------------------------------------------------------------
(* itrunc(): the pointers of the inode that are not null come first *)

\* The first block under a pointer of the inode.
Pos(x) == FirstBlock[x[1]] + x[3] * Fan[x[1]]

LEMMA PosIs ==
  ASSUME NEW x \in Node, x[2] = 0
  PROVE  /\ Pos(x) \in Nat /\ In(FirstBlock, x[1], Pos(x))
         /\ (Pos(x) - FirstBlock[x[1]]) \div Fan[x[1]] = x[3]
<1> DEFINE l == x[1]
           q == x[3]
           n == Fan[l]
           m == Layers[l + 1]
<1>1. l \in 0 .. NLAYER - 1 /\ q \in Nat /\ q < m /\ m \in Nat
  BY NodeIs, LayersIs
<1>2. l \in 0 .. NLAYER /\ l + 1 \in 1 .. NLAYER /\ (l + 1) - 1 = l /\ n \in Nat \ {0}
  <2>1. l \in 0 .. NLAYER /\ l + 1 \in 1 .. NLAYER /\ (l + 1) - 1 = l
    <3>1. l \in 0 .. NLAYER - 1 /\ NLAYER \in Nat
      BY <1>1, LayersIs
    <3> HIDE DEF l
    <3> QED BY <3>1
  <2>2. Fan[l] \in Nat \ {0}
    BY <2>1, FanIs
  <2> QED BY <2>1, <2>2
<1>3. FirstBlock[l] \in Nat /\ FirstBlock[l + 1] = FirstBlock[l] + m * n
  <2>1. FirstBlock[l + 1] = FirstBlock[l] + InFile[l + 1] /\ FirstBlock[l] \in Nat
    BY <1>1, <1>2, BlocksBegin DEF Begins
  <2> QED BY <1>2, <2>1 DEF InFile
<1>4. Pos(x) = FirstBlock[l] + q * n
  BY DEF Pos
<1> HIDE DEF l, q, n, m
<1>5. q * n \in Nat /\ q * n < m * n /\ (q * n) \div n = q /\ m * n \in Nat
  <2>1. \A a, b \in Nat : \A c \in Nat \ {0} : a < b => a * c < b * c
    OBVIOUS
  <2>2. \A a \in Nat : \A c \in Nat \ {0} : a * c \in Nat /\ (a * c) \div c = a
    OBVIOUS
  <2> QED BY <1>1, <1>2, <2>1, <2>2
<1> DEFINE p == q * n
           r == m * n
<1>6. p \in Nat /\ p < r /\ r \in Nat /\ Pos(x) = FirstBlock[l] + p /\ FirstBlock[l + 1] = FirstBlock[l] + r
  BY <1>3, <1>4, <1>5
<1> HIDE DEF p, r
<1>7. Pos(x) \in Nat /\ FirstBlock[l] <= Pos(x) /\ Pos(x) < FirstBlock[l + 1] /\ Pos(x) - FirstBlock[l] = p
  BY <1>3, <1>6
<1>8. In(FirstBlock, l, Pos(x))
  BY <1>1, <1>7 DEF In
<1>9. (Pos(x) - FirstBlock[l]) \div n = q
  BY <1>5, <1>7 DEF p
<1> QED BY <1>7, <1>8, <1>9 DEF l, q, n

LEMMA RootNeeded ==
  ASSUME NEW n \in 0 .. MAXFILE, NEW x \in Node, x[2] = 0
  PROVE  x \in Ways(n) <=> Pos(x) < n
<1>0. n \in Nat /\ MAXFILE \in Nat /\ \A bn \in 0 .. n - 1 : bn \in 0 .. MAXFILE - 1 /\ bn \in Nat
  BY MaxFileIs
<1>1. ASSUME x \in Ways(n)
      PROVE  Pos(x) < n
  <2>1. PICK bn \in 0 .. n - 1 : x \in Way(bn)
    BY <1>1 DEF Ways
  <2> DEFINE l == LayerOf(FirstBlock, bn)
  <2>2. bn \in 0 .. MAXFILE - 1 /\ bn \in Nat /\ bn < n
    BY <1>0
  <2>3. PICK k \in 0 .. l : x = <<l, k, Rank(bn, k)>>
    BY <2>1, <2>2, WayIs
  <2>4. x[1] = l /\ x[3] = Rank(bn, 0)
    BY <2>3
  <2>5. Rank(bn, 0) = (bn - FirstBlock[l]) \div Fan[l - 0] /\ l \in 0 .. NLAYER - 1 /\ In(FirstBlock, l, bn)
    BY <2>2, WayIs DEF Rank
  <2> HIDE DEF l
  <2>6. Fan[l] \in Nat \ {0} /\ FirstBlock[l] \in Nat /\ l - 0 = l /\ l \in 0 .. NLAYER
    <3>1. l \in 0 .. NLAYER /\ l - 0 = l
      BY <2>5, LayersIs
    <3> QED BY <3>1, FanIs, BlocksBegin DEF Begins
  <2>7. bn - FirstBlock[l] \in Nat
    BY <2>2, <2>5, <2>6 DEF In
  <2>8. x[3] * Fan[l] <= bn - FirstBlock[l] /\ x[3] * Fan[l] \in Int
    <3>1. \A a \in Nat : \A c \in Nat \ {0} : (a \div c) * c <= a /\ (a \div c) * c \in Int
      OBVIOUS
    <3> QED BY <2>4, <2>5, <2>6, <2>7, <3>1
  <2>9. Pos(x) = FirstBlock[l] + x[3] * Fan[l]
    BY <2>4 DEF Pos
  <2> DEFINE p == x[3] * Fan[l]
  <2>10. p <= bn - FirstBlock[l] /\ p \in Int /\ Pos(x) = FirstBlock[l] + p
    BY <2>8, <2>9
  <2> HIDE DEF p
  <2> QED BY <1>0, <2>2, <2>6, <2>10
<1>2. ASSUME Pos(x) < n
      PROVE  x \in Ways(n)
  <2> DEFINE bn == Pos(x)
             l == x[1]
  <2>1. bn \in Nat /\ In(FirstBlock, l, bn) /\ (bn - FirstBlock[l]) \div Fan[l] = x[3]
    BY PosIs
  <2>2. bn \in 0 .. n - 1 /\ bn \in 0 .. MAXFILE - 1
    BY <1>0, <1>2, <2>1
  <2>3. LayerOf(FirstBlock, bn) = l
    <3> HIDE DEF bn, l
    <3> QED BY <2>1, BlocksBegin, LayerIn
  <2>4. x = <<l, 0, x[3]>> /\ l \in 0 .. NLAYER - 1
    BY NodeIs
  <2> HIDE DEF bn
  <2>5. Rank(bn, 0) = x[3]
    <3>1. l - 0 = l
      BY <2>4
    <3> HIDE DEF l
    <3> QED BY <2>1, <2>3, <3>1 DEF Rank
  <2>6. x \in Way(bn)
    <3> HIDE DEF l
    <3>1. 0 \in 0 .. l
      BY <2>4
    <3> QED BY <2>3, <2>4, <2>5, <3>1 DEF Way
  <2> QED BY <2>2, <2>6 DEF Ways
<1> QED BY <1>1, <1>2

LEMMA PosGrows ==
  ASSUME NEW x \in Node, NEW y \in Node, x[2] = 0, y[2] = 0,
         FirstAddr[y[1]] + y[3] <= FirstAddr[x[1]] + x[3]
  PROVE  Pos(y) <= Pos(x)
<1>1. /\ x[1] \in 0 .. NLAYER - 1 /\ y[1] \in 0 .. NLAYER - 1 /\ NLAYER \in Nat
      /\ x[3] \in Nat /\ y[3] \in Nat /\ x[3] < Layers[x[1] + 1] /\ y[3] < Layers[y[1] + 1]
  BY NodeIs, LayersIs
<1>2. x[1] \in 0 .. NLAYER /\ y[1] \in 0 .. NLAYER /\ x[1] + 1 \in 0 .. NLAYER /\ y[1] + 1 \in 0 .. NLAYER
  <2>1. \A l \in 0 .. NLAYER - 1 : l \in 0 .. NLAYER /\ l + 1 \in 0 .. NLAYER
    BY LayersIs
  <2> QED BY ONLY <1>1, <2>1
<1>3. \A l \in 0 .. NLAYER : FirstAddr[l] \in Nat /\ FirstBlock[l] \in Nat
  BY FirstIs
<1>4. Pos(x) \in Nat /\ In(FirstBlock, x[1], Pos(x)) /\ Pos(y) \in Nat /\ In(FirstBlock, y[1], Pos(y))
  BY PosIs
<1>5. CASE y[1] < x[1]
  <2>1. FirstBlock[y[1] + 1] <= FirstBlock[x[1]]
    <3>1. y[1] + 1 <= x[1]
      BY <1>1, <1>5
    <3> QED BY <1>2, <3>1, FirstIs
  <2> QED BY <1>2, <1>3, <1>4, <2>1 DEF In
<1>6. CASE y[1] = x[1]
  <2>1. y[3] <= x[3]
    BY <1>1, <1>2, <1>3, <1>6
  <2>2. Fan[x[1]] \in Nat \ {0}
    BY <1>2, FanIs
  <2>3. \A a, b \in Nat : \A c \in Nat \ {0} : a <= b => a * c <= b * c /\ a * c \in Nat /\ b * c \in Nat
    OBVIOUS
  <2> DEFINE p == x[3] * Fan[x[1]]
             q == y[3] * Fan[x[1]]
  <2>4. q <= p /\ p \in Nat /\ q \in Nat
    BY <1>1, <2>1, <2>2, <2>3
  <2>5. Pos(x) = FirstBlock[x[1]] + p /\ Pos(y) = FirstBlock[x[1]] + q
    BY <1>6 DEF Pos
  <2> HIDE DEF p, q
  <2> QED BY <1>2, <1>3, <2>4, <2>5
<1>7. CASE x[1] < y[1]
  <2>1. FirstAddr[x[1] + 1] <= FirstAddr[y[1]]
    <3>1. x[1] + 1 <= y[1]
      BY <1>1, <1>7
    <3> QED BY <1>2, <3>1, FirstIs
  <2>2. FirstAddr[x[1] + 1] = FirstAddr[x[1]] + Layers[x[1] + 1] /\ Layers[x[1] + 1] \in Nat
    <3>1. x[1] + 1 \in 1 .. NLAYER
      <4>1. \A l \in 0 .. NLAYER - 1 : l + 1 \in 1 .. NLAYER
        BY LayersIs
      <4> QED BY ONLY <1>1, <4>1
    <3>2. FirstAddr[x[1] + 1] = FirstAddr[x[1]] + InInode[x[1] + 1]
      BY <1>1, AddrsBegin DEF Begins
    <3> QED BY <3>1, <3>2, LayersIs DEF InInode
  <2>3. FirstAddr[x[1]] \in Nat /\ FirstAddr[y[1]] \in Nat /\ FirstAddr[x[1] + 1] \in Nat
    BY <1>2, <1>3
  <2>4. FirstAddr[y[1]] + y[3] <= FirstAddr[x[1]] + x[3]
    OBVIOUS
  <2>5. x[3] \in Nat /\ y[3] \in Nat /\ x[3] < Layers[x[1] + 1]
    BY <1>1
  <2>6. FALSE
    BY ONLY <2>1, <2>2, <2>3, <2>4, <2>5
  <2> QED BY <2>6
<1> QED BY <1>1, <1>5, <1>6, <1>7

\* The pointers of the inode that are not null are its first.
LEMMA PrefixIs ==
  ASSUME NEW n \in [Files -> 0 .. MAXFILE], NEW at, Sound(Disk, Needed(n), at), NEW f \in Files,
         NEW i \in 0 .. NADDRS - 1, NEW j \in 0 .. NADDRS - 1, j <= i, addrs[f][i] # Null
  PROVE  addrs[f][j] # Null
<1>1. PICK x \in Node : x[2] = 0 /\ FirstAddr[x[1]] + x[3] = i
  BY RootFor
<1>2. PICK y \in Node : y[2] = 0 /\ FirstAddr[y[1]] + y[3] = j
  BY RootFor
<1>3. ASSUME NEW z \in Node, z[2] = 0
      PROVE  addrs[f][FirstAddr[z[1]] + z[3]] # Null <=> Pos(z) < n[f]
  <2>1. Pointer(Disk, at, f, z) = IF <<f, z>> \in Needed(n) THEN at[<<f, z>>] ELSE Null
    <3>1. z[2] = 0 \/ <<f, Up(z)>> \in Needed(n)
      BY <1>3
    <3> QED BY <3>1, PointerIs
  <2>2. Pointer(Disk, at, f, z) = addrs[f][FirstAddr[z[1]] + z[3]]
    BY <1>3 DEF Pointer, Disk
  <2>3. <<f, z>> \in Needed(n) => at[<<f, z>>] # Null
    BY SoundIs, NullIs
  <2>4. <<f, z>> \in Needed(n) <=> z \in Ways(n[f])
    BY DEF Needed
  <2>5. z \in Ways(n[f]) <=> Pos(z) < n[f]
    BY <1>3, RootNeeded
  <2> QED BY <2>1, <2>2, <2>3, <2>4, <2>5
<1>4. Pos(x) < n[f] /\ Pos(y) <= Pos(x)
  <2>1. Pos(y) <= Pos(x)
    BY <1>1, <1>2, PosGrows
  <2> QED BY <1>1, <1>3, <2>1
<1>5. Pos(x) \in Nat /\ Pos(y) \in Nat /\ n[f] \in Nat
  BY <1>1, <1>2, PosIs, MaxFileIs
<1>6. Pos(y) < n[f]
  BY <1>4, <1>5
<1> QED BY <1>2, <1>3, <1>6

\* The blocks that itrunc() has seen when it comes to pointer i.
Seen(f, i) == UNION {Under(f, j) : j \in {k \in 0 .. i - 1 : addrs[f][k] # Null}}

\* Where the loop of itrunc() is at pointer i, as long as there was no null one.
Standing(t, i) ==
  /\ t.depth \in 0 .. NLAYER - 1 /\ t.cnt = i - FirstAddr[t.depth]
  /\ FirstAddr[t.depth] <= i /\ i <= FirstAddr[t.depth + 1]

LEMMA LayerStep ==
  ASSUME NEW i \in 0 .. NADDRS - 1, NEW t, Standing(t, i), NEW u, u = Layer(t),
         t = [cnt |-> t.cnt, depth |-> t.depth, freed |-> t.freed]
  PROVE  /\ u = [cnt |-> i - FirstAddr[u.depth], depth |-> u.depth, freed |-> t.freed]
         /\ In(FirstAddr, u.depth, i) /\ LayerOf(FirstAddr, i) = u.depth
<1> DEFINE l == t.depth
<1>1. l \in 0 .. NLAYER - 1 /\ t.cnt = i - FirstAddr[l] /\ FirstAddr[l] <= i /\ i <= FirstAddr[l + 1]
  BY DEF Standing
<1>2. \A k \in 0 .. NLAYER : FirstAddr[k] \in Nat
  BY FirstIs
<1>3. i \in Nat /\ i < FirstAddr[NLAYER] /\ NLAYER \in Nat
  BY MaxFileIs, LayersIs DEF NADDRS
<1>4. \A k \in 0 .. NLAYER - 1 : FirstAddr[k + 1] = FirstAddr[k] + Layers[k + 1] /\ Layers[k + 1] \in Nat \ {0}
  <2> TAKE k \in 0 .. NLAYER - 1
  <2>1. FirstAddr[k + 1] = FirstAddr[k] + InInode[k + 1] /\ k + 1 \in 1 .. NLAYER
    BY <1>3, AddrsBegin DEF Begins
  <2> QED BY <2>1, LayersIs DEF InInode
<1>5. u = IF t.cnt = Layers[l + 1] THEN [t EXCEPT !.cnt = 0, !.depth = l + 1] ELSE t
  BY DEF Layer
<1> HIDE DEF l
<1>6. FirstAddr[l] \in Nat /\ FirstAddr[l + 1] = FirstAddr[l] + Layers[l + 1] /\ Layers[l + 1] \in Nat
  BY <1>1, <1>2, <1>3, <1>4
<1>7. CASE t.cnt = Layers[l + 1]
  <2>1. i = FirstAddr[l + 1]
    <3> DEFINE c == t.cnt
               a == FirstAddr[l]
               m == Layers[l + 1]
    <3>1. c = i - a /\ c = m /\ FirstAddr[l + 1] = a + m /\ a \in Nat /\ m \in Nat /\ i \in Nat
      BY <1>1, <1>3, <1>6, <1>7
    <3> HIDE DEF c, a, m
    <3> QED BY <3>1
  <2>2. l + 1 # NLAYER
    BY <1>3, <2>1
  <2>3. l + 1 \in 0 .. NLAYER - 1
    BY <1>1, <1>3, <2>2
  <2>4. u.depth = l + 1 /\ u = [cnt |-> 0, depth |-> l + 1, freed |-> t.freed]
    BY <1>5, <1>7
  <2>5. i < FirstAddr[(l + 1) + 1] /\ i - FirstAddr[l + 1] = 0
    BY <1>3, <1>4, <2>1, <2>3
  <2>6. In(FirstAddr, l + 1, i)
    BY <1>3, <2>1, <2>3, <2>5 DEF In
  <2>7. LayerOf(FirstAddr, i) = l + 1
    BY <1>3, <2>6, AddrsBegin, LayerIn
  <2> QED BY <2>4, <2>5, <2>6, <2>7
<1>8. CASE t.cnt # Layers[l + 1]
  <2>1. u = t /\ u.depth = l
    BY <1>5, <1>8 DEF l
  <2>2. i < FirstAddr[l + 1]
    <3>1. i # FirstAddr[l + 1]
      <4> SUFFICES ASSUME i = FirstAddr[l + 1] PROVE FALSE
        OBVIOUS
      <4>1. i - FirstAddr[l] = Layers[l + 1]
        BY <1>6
      <4>2. t.cnt = i - FirstAddr[l]
        BY <1>1
      <4> QED BY <1>8, <4>1, <4>2
    <3>2. i <= FirstAddr[l + 1] /\ i \in Nat /\ FirstAddr[l + 1] \in Nat
      <4>1. l + 1 \in 0 .. NLAYER
        BY <1>1, <1>3
      <4> QED BY <1>1, <1>2, <1>3, <4>1
    <3> DEFINE z == FirstAddr[l + 1]
    <3>3. i # z /\ i <= z /\ i \in Nat /\ z \in Nat
      BY <3>1, <3>2
    <3> HIDE DEF z
    <3>4. i < z
      BY ONLY <3>3
    <3> QED BY <3>4 DEF z
  <2>3. In(FirstAddr, l, i)
    BY <1>1, <2>2 DEF In
  <2>4. LayerOf(FirstAddr, i) = l
    BY <1>3, <2>3, AddrsBegin, LayerIn
  <2>5. u = [cnt |-> i - FirstAddr[l], depth |-> l, freed |-> t.freed]
    BY <1>1, <2>1 DEF l
  <2> QED BY <2>1, <2>3, <2>4, <2>5
<1> QED BY <1>7, <1>8

\* One turn of the loop.
LEMMA AddrStep ==
  ASSUME NEW f \in Files, NEW i \in 0 .. NADDRS - 1, NEW t, Standing(t, i),
         t = [cnt |-> t.cnt, depth |-> t.depth, freed |-> t.freed],
         addrs[f][i] # Null, NEW w, w = ItruncAddr(f, t, i)
  PROVE  Standing(w, i + 1) /\ w.freed = t.freed \cup Under(f, i)
<1> DEFINE u == Layer(t)
           b == addrs[f][i]
           l == u.depth
<1>1. /\ u = [cnt |-> i - FirstAddr[l], depth |-> l, freed |-> t.freed]
      /\ In(FirstAddr, l, i) /\ LayerOf(FirstAddr, i) = l
  BY LayerStep
<1>2. w = [u EXCEPT !.cnt = @ + 1, !.freed = @ \cup {b} \cup ItruncLayer[u.depth][b]]
  BY DEF ItruncAddr
<1>3. Under(f, i) = {b} \cup ItruncLayer[l][b]
  BY <1>1 DEF Under
<1> HIDE DEF u, b
<1>4. /\ w.depth = l /\ w.cnt = (i - FirstAddr[l]) + 1
      /\ w.freed = t.freed \cup {b} \cup ItruncLayer[l][b]
  BY <1>1, <1>2
<1>5. w.freed = t.freed \cup Under(f, i)
  BY <1>3, <1>4
<1> HIDE DEF l
<1>6. Standing(w, i + 1)
  <2>1. l \in 0 .. NLAYER - 1 /\ FirstAddr[l] <= i /\ i < FirstAddr[l + 1]
    BY <1>1 DEF In
  <2>2. FirstAddr[l] \in Nat /\ FirstAddr[l + 1] \in Nat /\ i \in Nat
    <3>1. l \in 0 .. NLAYER /\ l + 1 \in 0 .. NLAYER
      BY <2>1, LayersIs
    <3> QED BY <3>1, FirstIs
  <2>3. (i - FirstAddr[l]) + 1 = (i + 1) - FirstAddr[l] /\ FirstAddr[l] <= i + 1 /\ i + 1 <= FirstAddr[l + 1]
    <3> DEFINE a == FirstAddr[l]
               z == FirstAddr[l + 1]
    <3>1. a <= i /\ i < z /\ a \in Nat /\ z \in Nat /\ i \in Nat
      BY <2>1, <2>2
    <3> HIDE DEF a, z
    <3>2. (i - a) + 1 = (i + 1) - a /\ a <= i + 1 /\ i + 1 <= z
      BY ONLY <3>1
    <3> QED BY <3>2 DEF a, z
  <2> QED BY <1>4, <2>1, <2>3 DEF Standing
<1> QED BY <1>5, <1>6

\* The turns of the loop exist.
LEMMA SeenExists ==
  ASSUME NEW f \in Files, addrs \in [Files -> [0 .. NADDRS - 1 -> Blocks \cup {Null}]]
  PROVE  \E seen : /\ seen[0] = [cnt |-> 0, depth |-> 0, freed |-> {}]
                   /\ \A i \in 1 .. NADDRS : seen[i] = ItruncAddr(f, seen[i - 1], i - 1)
                   /\ \A i \in 0 .. NADDRS :
                        seen[i] = [cnt |-> seen[i].cnt, depth |-> seen[i].depth, freed |-> seen[i].freed]
                   /\ Freed(f) = seen[NADDRS].freed
<1> DEFINE X == Blocks \cup UNION {ItruncLayer[n][b] : n \in Nat, b \in Blocks}
           T == [cnt : Nat, depth : Nat, freed : SUBSET X]
           a == [cnt |-> 0, depth |-> 0, freed |-> {}]
           step == [z \in T \X (1 .. NADDRS) |-> ItruncAddr(f, z[1], z[2] - 1)]
           Def(t) == t = [i \in 0 .. NADDRS |-> IF i = 0 THEN a ELSE ItruncAddr(f, t[i - 1], i - 1)]
<1>1. NADDRS \in Nat
  BY MaxFileIs
<1>2. a \in T
  OBVIOUS
<1> HIDE DEF X
<1>3. \A i \in 0 .. NADDRS - 1 : addrs[f][i] \in Blocks \cup {Null}
  OBVIOUS
<1>4. \A n \in Nat, b \in Blocks : ItruncLayer[n][b] \subseteq X /\ b \in X
  BY DEF X
<1>5. ASSUME NEW t \in T, NEW i \in 0 .. NADDRS - 1
      PROVE  ItruncAddr(f, t, i) \in T
  <2> DEFINE b == addrs[f][i]
             u == Layer(t)
  <2>0. b \in Blocks \cup {Null}
    BY <1>3
  <2>1. CASE b = Null
    <3>1. ItruncAddr(f, t, i) = t
      BY <2>1 DEF ItruncAddr
    <3> HIDE DEF b, T
    <3> QED BY <3>1
  <2>2. CASE b # Null
    <3>1. b \in Blocks
      BY <2>0, <2>2
    <3>2. u \in T
      <4>1. t \in [cnt : Nat, depth : Nat, freed : SUBSET X]
        OBVIOUS
      <4>2. u = t \/ u = [t EXCEPT !.cnt = 0, !.depth = @ + 1]
        BY DEF Layer
      <4> HIDE DEF u, b
      <4>3. t = [cnt |-> t.cnt, depth |-> t.depth, freed |-> t.freed]
            /\ t.cnt \in Nat /\ t.depth \in Nat /\ t.freed \subseteq X
        BY <4>1
      <4>4. u = t \/ u = [cnt |-> 0, depth |-> t.depth + 1, freed |-> t.freed]
        BY <4>2, <4>3
      <4>5. t.depth + 1 \in Nat
        BY <4>3
      <4>6. t \in T
        OBVIOUS
      <4>7. [cnt |-> 0, depth |-> t.depth + 1, freed |-> t.freed] \in T
        BY <4>3, <4>5
      <4> HIDE DEF T
      <4> QED BY <4>4, <4>6, <4>7
    <3>3. ItruncAddr(f, t, i) = [u EXCEPT !.cnt = @ + 1, !.freed = @ \cup {b} \cup ItruncLayer[u.depth][b]]
      BY <2>2 DEF ItruncAddr
    <3>4. u = [cnt |-> u.cnt, depth |-> u.depth, freed |-> u.freed]
          /\ u.cnt \in Nat /\ u.depth \in Nat /\ u.freed \subseteq X
      BY <3>2
    <3> HIDE DEF b, u
    <3>5. {b} \cup ItruncLayer[u.depth][b] \subseteq X
      BY <1>4, <3>1, <3>4
    <3> DEFINE more == {b} \cup ItruncLayer[u.depth][b]
    <3>6. ItruncAddr(f, t, i) = [u EXCEPT !.cnt = @ + 1, !.freed = @ \cup more]
      BY <3>3
    <3> HIDE DEF more
    <3>7. more \subseteq X
      BY <3>5 DEF more
    <3>8. ItruncAddr(f, t, i) = [cnt |-> u.cnt + 1, depth |-> u.depth, freed |-> u.freed \cup more]
      BY <3>4, <3>6
    <3> QED BY <3>4, <3>7, <3>8
  <2> QED BY <2>1, <2>2
<1> HIDE DEF T
<1>6. PICK t \in [0 .. NADDRS -> T] : Unfolds(t, NADDRS, a, step)
  <2>1. step \in [T \X (1 .. NADDRS) -> T]
    <3>1. \A t \in T, i \in 1 .. NADDRS : ItruncAddr(f, t, i - 1) \in T
      BY <1>1, <1>5
    <3> QED BY <3>1
  <2> HIDE DEF step, a
  <2> QED BY <1>1, <1>2, <2>1, RecursionExists
<1> HIDE DEF a
<1>7. Def(t)
  <2>1. ASSUME NEW k \in 0 .. NADDRS
        PROVE  t[k] = IF k = 0 THEN a ELSE ItruncAddr(f, t[k - 1], k - 1)
    <3>1. t[k] = IF k = 0 THEN a ELSE step[<<t[k - 1], k>>]
      BY <1>6 DEF Unfolds
    <3>2. k # 0 => k \in 1 .. NADDRS /\ t[k - 1] \in T
      BY <1>1
    <3>3. k # 0 => step[<<t[k - 1], k>>] = ItruncAddr(f, t[k - 1], k - 1)
      BY <3>2
    <3> QED BY <3>1, <3>3
  <2> QED BY <2>1
<1> DEFINE seen == CHOOSE t1 : Def(t1)
<1>8. Freed(f) = seen[NADDRS].freed
  BY DEF Freed, a
<1>9. Def(seen)
  <2> HIDE DEF Def
  <2> QED BY <1>7
<1> HIDE DEF seen
<1>10. seen[0] = a /\ \A i \in 1 .. NADDRS : seen[i] = ItruncAddr(f, seen[i - 1], i - 1)
  BY <1>1, <1>9
<1> DEFINE S == {i \in 0 .. NADDRS : seen[i] \in T}
<1>11. 0 \in S
  BY <1>1, <1>2, <1>10
<1>12. \A i \in 0 .. NADDRS - 1 : i \in S => i + 1 \in S
  <2> TAKE i \in 0 .. NADDRS - 1
  <2>1. i + 1 \in 1 .. NADDRS /\ i + 1 \in 0 .. NADDRS /\ (i + 1) - 1 = i
    BY <1>1
  <2>2. seen[i + 1] = ItruncAddr(f, seen[i], i)
    BY <1>10, <2>1
  <2> QED BY <1>5, <2>1, <2>2
<1>13. \A i \in 0 .. NADDRS : seen[i] \in T
  <2>1. \A i \in 0 .. NADDRS : i \in S
    <3> HIDE DEF S
    <3> QED BY <1>1, <1>11, <1>12, UpTo
  <2> QED BY <2>1
<1>14. \A i \in 0 .. NADDRS :
         seen[i] = [cnt |-> seen[i].cnt, depth |-> seen[i].depth, freed |-> seen[i].freed]
  <2>1. \A r \in T : r = [cnt |-> r.cnt, depth |-> r.depth, freed |-> r.freed]
    BY DEF T
  <2> QED BY <1>13, <2>1
<1> QED BY <1>8, <1>10, <1>14 DEF a

\* itrunc() frees what the file owns.
LEMMA FreedIs ==
  ASSUME NEW n \in [Files -> 0 .. MAXFILE], NEW at, Sound(Disk, Needed(n), at), NEW f \in Files
  PROVE  Freed(f) = Tree(f)
<1>1. NADDRS \in Nat /\ addrs \in [Files -> [0 .. NADDRS - 1 -> Blocks \cup {Null}]]
  BY MaxFileIs, DiskFields
<1>2. PICK seen : /\ seen[0] = [cnt |-> 0, depth |-> 0, freed |-> {}]
                  /\ \A i \in 1 .. NADDRS : seen[i] = ItruncAddr(f, seen[i - 1], i - 1)
                  /\ \A i \in 0 .. NADDRS :
                       seen[i] = [cnt |-> seen[i].cnt, depth |-> seen[i].depth, freed |-> seen[i].freed]
                  /\ Freed(f) = seen[NADDRS].freed
  BY <1>1, SeenExists
<1> DEFINE Whole(i) == \A j \in 0 .. i - 1 : addrs[f][j] # Null
           P(i) == /\ seen[i].freed = Seen(f, i)
                   /\ Whole(i) /\ NADDRS # 0 => Standing(seen[i], i)
           S == {i \in 0 .. NADDRS : P(i)}
<1>3. P(0)
  <2>1. seen[0].cnt = 0 /\ seen[0].depth = 0 /\ seen[0].freed = {}
    BY <1>2
  <2>2. Seen(f, 0) = {}
    BY DEF Seen
  <2>3. NADDRS # 0 => Standing(seen[0], 0)
    <3>1. FirstAddr[0] = 0 /\ NADDRS = FirstAddr[NLAYER] /\ NLAYER \in Nat
      BY AddrsBegin, LayersIs DEF Begins, NADDRS
    <3>2. NADDRS # 0 => 0 \in 0 .. NLAYER - 1 /\ 0 + 1 \in 0 .. NLAYER
      BY <3>1
    <3>3. NADDRS # 0 => FirstAddr[0 + 1] \in Nat
      BY <3>2, AddrsBegin DEF Begins
    <3> QED BY <2>1, <3>1, <3>2, <3>3 DEF Standing
  <2> QED BY <2>1, <2>2, <2>3
<1>4. ASSUME NEW i \in 0 .. NADDRS - 1, P(i)
      PROVE  P(i + 1)
  <2>1. i + 1 \in 1 .. NADDRS /\ (i + 1) - 1 = i /\ i \in 0 .. NADDRS /\ NADDRS # 0 /\ i \in Nat
    BY <1>1
  <2>2. seen[i + 1] = ItruncAddr(f, seen[i], i)
    BY <1>2, <2>1
  <2>3. 0 .. (i + 1) - 1 = 0 .. i - 1 \cup {i}
    BY <2>1
  <2>4. CASE addrs[f][i] = Null
    <3>1. seen[i + 1] = seen[i]
      BY <2>2, <2>4 DEF ItruncAddr
    <3>2. Seen(f, i + 1) = Seen(f, i)
      BY <2>3, <2>4 DEF Seen
    <3>3. ~Whole(i + 1)
      BY <2>3, <2>4
    <3> HIDE DEF Whole
    <3> QED BY <1>4, <3>1, <3>2, <3>3
  <2>5. CASE addrs[f][i] # Null
    <3>1. Whole(i)
      <4> SUFFICES ASSUME NEW j \in 0 .. i - 1 PROVE addrs[f][j] # Null
        OBVIOUS
      <4>1. j \in 0 .. NADDRS - 1 /\ j <= i
        BY <1>1
      <4> QED BY <2>5, <4>1, PrefixIs
    <3>2. Standing(seen[i], i)
      BY <1>4, <2>1, <3>1
    <3>3. seen[i] = [cnt |-> seen[i].cnt, depth |-> seen[i].depth, freed |-> seen[i].freed]
      BY <1>2, <2>1
    <3> HIDE DEF Whole
    <3>4. Standing(seen[i + 1], i + 1) /\ seen[i + 1].freed = seen[i].freed \cup Under(f, i)
      BY <2>2, <2>5, <3>2, <3>3, AddrStep
    <3>5. Seen(f, i + 1) = Seen(f, i) \cup Under(f, i)
      BY <2>3, <2>5 DEF Seen
    <3> QED BY <1>4, <3>4, <3>5
  <2> QED BY <2>4, <2>5
<1>5. \A i \in 0 .. NADDRS - 1 : i \in S => i + 1 \in S
  <2>1. \A m \in 0 .. NADDRS - 1 : m + 1 \in 0 .. NADDRS
    BY <1>1
  <2> HIDE DEF P
  <2> QED BY <1>4, <2>1
<1>6. \A i \in 0 .. NADDRS : i \in S
  <2>1. 0 \in S
    BY <1>1, <1>3
  <2> HIDE DEF S
  <2> QED BY <1>1, <1>5, <2>1, UpTo
<1>7. seen[NADDRS].freed = Seen(f, NADDRS)
  BY <1>1, <1>6
<1>8. DOMAIN addrs[f] = 0 .. NADDRS - 1
  BY <1>1
<1> QED BY <1>2, <1>7, <1>8, TreeOf DEF Seen

-----------------------------------------------------------------------------
(* The invariant *)

LEMMA ImageSize ==
  ASSUME NEW S, NEW g, \A u, v \in S : g[u] = g[v] => u = v,
         NEW T, T = {g[s] : s \in S}, IsFiniteSet(T)
  PROVE  IsFiniteSet(S) /\ Cardinality(T) = Cardinality(S)
<1> DEFINE h == [s \in S |-> g[s]]
<1>1. h \in Injection(S, T) /\ h \in Surjection(S, T)
  BY DEF Injection, Surjection, IsInjective
<1> HIDE DEF h
<1>2. IsFiniteSet(S)
  BY <1>1, FS_Injection
<1>3. ExistsBijection(S, T)
  BY <1>1 DEF ExistsBijection, Bijection
<1> QED BY <1>2, <1>3, FS_Bijection

LEMMA CountsAre ==
  ASSUME size \in [Files -> 0 .. 2 * MAXFILE]
  PROVE  /\ Counts \in [Files -> 0 .. MAXFILE]
         /\ \A f \in Files : Counts[f] = NBlocks(f) /\ Counts[f] = (size[f] + 1) \div 2
<1>1. \A f \in Files : size[f] \in 0 .. 2 * MAXFILE /\ (size[f] + 1) \div 2 \in 0 .. MAXFILE
  BY MaxFileIs
<1> QED BY <1>1 DEF Counts, NBlocks

LEMMA WaysZero == Ways(0) = {}
<1>1. 0 .. 0 - 1 = {}
  OBVIOUS
<1> QED BY <1>1 DEF Ways

LEMMA InitInv == Init => LInv
<1> SUFFICES ASSUME Init PROVE LInv
  OBVIOUS
<1> DEFINE at == [v \in {} |-> Null]
<1>1. /\ bitmap = {} /\ addrs = [f \in Files |-> [i \in 0 .. NADDRS - 1 |-> Null]]
      /\ ptrs = [b \in Blocks |-> [i \in 0 .. NINDIRECT - 1 |-> Null]]
      /\ data = [b \in Blocks |-> Nothing] /\ size = [f \in Files |-> 0]
      /\ truncs = 0 /\ panic = FALSE
  BY DEF Init
<1>2. size \in [Files -> 0 .. 2 * MAXFILE] /\ truncs \in Nat /\ panic \in BOOLEAN
  <2>1. 0 \in 0 .. 2 * MAXFILE
    BY MaxFileIs
  <2>2. size \in [Files -> 0 .. 2 * MAXFILE]
    BY <1>1, <2>1
  <2> QED BY <1>1, <2>2
<1>3. \A f \in Files : Counts[f] = 0
  BY <1>1 DEF Counts, NBlocks
<1>4. Needed(Counts) = {}
  BY <1>3, WaysZero DEF Needed
<1>5. Disk \in Disks
  <2>1. /\ Disk = [bitmap |-> Disk.bitmap, addrs |-> Disk.addrs, ptrs |-> Disk.ptrs,
                   data |-> Disk.data, log |-> Disk.log, panic |-> Disk.panic]
        /\ Disk.bitmap = bitmap /\ Disk.addrs = addrs /\ Disk.ptrs = ptrs /\ Disk.data = data
        /\ Disk.log = {} /\ Disk.panic = FALSE
    BY DEF Disk
  <2>2. Disk.addrs \in [Files -> [0 .. NADDRS - 1 -> Blocks \cup {Null}]]
    BY <1>1, <2>1
  <2>3. Disk.ptrs \in [Blocks -> [0 .. NINDIRECT - 1 -> Blocks \cup {Null}]]
    BY <1>1, <2>1
  <2>4. Disk.data \in [Blocks -> Places]
    BY <1>1, <2>1 DEF Places
  <2> QED BY <1>1, <2>1, <2>2, <2>3, <2>4, DiskIs
<1>6. ASSUME NEW f \in Files, NEW x \in Node, x[2] = 0
      PROVE  Pointer(Disk, at, f, x) = Null
  <2>1. Pointer(Disk, at, f, x) = addrs[f][FirstAddr[x[1]] + x[3]]
    BY <1>6 DEF Pointer, Disk
  <2>2. FirstAddr[x[1]] + x[3] \in 0 .. NADDRS - 1
    BY <1>6, NodeIs
  <2> QED BY <1>1, <2>1, <2>2
<1>7. at \in [{} -> Blocks] /\ Disk.bitmap = {at[v] : v \in {}}
  BY <1>1 DEF Disk
<1> HIDE DEF at
<1>8. Sound(Disk, {}, at)
  BY <1>5, <1>6, <1>7 DEF Sound
<1>9. Filled(Disk, at, Counts)
  <2>1. \A f \in Files : 0 .. Counts[f] - 1 = {}
    BY <1>3
  <2> QED BY <2>1 DEF Filled
<1> QED BY <1>2, <1>4, <1>8, <1>9 DEF LInv

\* The blocks of a part.
First(off)   == off \div 2
Last(off, n) == (off + n - 1) \div 2
Span(off, n) == Last(off, n) - First(off) + 1

LEMMA SpanIs ==
  ASSUME NEW s \in 0 .. 2 * MAXFILE, NEW off \in Nat, NEW n \in Nat \ {0},
         off <= s, off + n <= 2 * MAXFILE
  PROVE  /\ First(off) \in Nat /\ Span(off, n) \in Nat \ {0}
         /\ First(off) + Span(off, n) = Last(off, n) + 1
         /\ First(off) + Span(off, n) <= MAXFILE /\ First(off) <= (s + 1) \div 2
         /\ (s + 1) \div 2 \in 0 .. MAXFILE
         /\ ((IF off + n > s THEN off + n ELSE s) + 1) \div 2 = Larger((s + 1) \div 2, Last(off, n) + 1)
BY MaxFileIs DEF First, Last, Span, Larger

\* What a part does that finds the blocks it needs.
Parts(f, off, n, w) ==
  /\ bitmap' = w.bitmap /\ addrs' = w.addrs /\ ptrs' = w.ptrs /\ data' = w.data
  /\ size' = [size EXCEPT ![f] = IF off + n > size[f] THEN off + n ELSE @]
  /\ most' = Larger(most, Cardinality(w.log) + IF off + n > size[f] THEN 1 ELSE 0)
  /\ panic' = panic /\ truncs' = truncs

LEMMA WritePartIs ==
  ASSUME NEW f \in Files, NEW off, NEW n, WritePart(f, off, n)
  PROVE  /\ off <= size[f] /\ n <= MaxPart /\ off + n <= 2 * MAXFILE
         /\ \E w : /\ w = Written(f, First(off), Span(off, n))
                   /\ \/ /\ panic' = TRUE
                         /\ UNCHANGED <<bitmap, addrs, ptrs, data, size, most, truncs>>
                      \/ ~w.panic /\ Parts(f, off, n, w)
BY DEF WritePart, First, Last, Span, Parts

LEMMA WritePartInv ==
  ASSUME LInv, NEW f \in Files, NEW off \in Nat, NEW n \in Nat \ {0}, WritePart(f, off, n)
  PROVE  LInv'
<1>1. size \in [Files -> 0 .. 2 * MAXFILE] /\ truncs \in Nat /\ panic \in BOOLEAN
  BY DEF LInv
<1>2. PICK at : Sound(Disk, Needed(Counts), at) /\ Filled(Disk, at, Counts)
  BY DEF LInv
<1>3. Good(Disk, Counts, at)
  BY <1>1, <1>2, CountsAre DEF Good
<1>4. PICK w : /\ w = Written(f, First(off), Span(off, n))
               /\ \/ /\ panic' = TRUE
                     /\ UNCHANGED <<bitmap, addrs, ptrs, data, size, most, truncs>>
                  \/ ~w.panic /\ Parts(f, off, n, w)
  BY WritePartIs
<1>5. CASE /\ panic' = TRUE
           /\ UNCHANGED <<bitmap, addrs, ptrs, data, size, most, truncs>>
  <2>1. Disk' = Disk /\ Counts' = Counts
    BY <1>5 DEF Disk, Counts, NBlocks
  <2> QED BY <1>1, <1>2, <1>5, <2>1 DEF LInv
<1>6. CASE ~w.panic /\ Parts(f, off, n, w)
  <2> DEFINE g == Grown(Counts, f, First(off) + Span(off, n))
             s == size[f]
  <2>1. s \in 0 .. 2 * MAXFILE /\ off <= s /\ off + n <= 2 * MAXFILE /\ Counts[f] = (s + 1) \div 2
    BY <1>1, WritePartIs, CountsAre
  <2>2. /\ First(off) \in Nat /\ Span(off, n) \in Nat \ {0}
        /\ First(off) + Span(off, n) = Last(off, n) + 1
        /\ First(off) + Span(off, n) <= MAXFILE /\ First(off) <= Counts[f]
        /\ ((IF off + n > s THEN off + n ELSE s) + 1) \div 2 = Larger(Counts[f], Last(off, n) + 1)
    <3> HIDE DEF s
    <3>1. /\ First(off) \in Nat /\ Span(off, n) \in Nat \ {0}
          /\ First(off) + Span(off, n) = Last(off, n) + 1
          /\ First(off) + Span(off, n) <= MAXFILE /\ First(off) <= (s + 1) \div 2
          /\ ((IF off + n > s THEN off + n ELSE s) + 1) \div 2 = Larger((s + 1) \div 2, Last(off, n) + 1)
      BY <2>1, SpanIs
    <3> QED BY <2>1, <3>1
  <2>3. w \in Disks /\ \E to : Parted(w, to, Counts, f, First(off), First(off) + Span(off, n))
    BY <1>3, <1>4, <1>6, <2>2, WrittenIs
  <2>4. PICK to : Parted(w, to, Counts, f, First(off), First(off) + Span(off, n))
    BY <2>3
  <2>5. g \in [Files -> 0 .. MAXFILE] /\ Sound(w, Needed(g), to) /\ Filled(w, to, g)
    BY <2>4 DEF Parted, Good
  <2>6. size' = [size EXCEPT ![f] = IF off + n > s THEN off + n ELSE s]
    BY <1>6 DEF Parts
  <2>7. size' \in [Files -> 0 .. 2 * MAXFILE]
    BY <1>1, <2>1, <2>6, MaxFileIs
  <2>8. Counts' = g
    <3>1. Counts' = [h \in Files |-> (size'[h] + 1) \div 2]
      BY DEF Counts, NBlocks
    <3>2. \A h \in Files : (size'[h] + 1) \div 2 = IF h = f THEN Larger(Counts[f], Last(off, n) + 1) ELSE Counts[h]
      BY <1>1, <2>2, <2>6, CountsAre
    <3>3. g = [h \in Files |-> IF h = f THEN Larger(Counts[f], Last(off, n) + 1) ELSE Counts[h]]
      BY <1>1, <2>2, CountsAre DEF Grown
    <3> HIDE DEF g
    <3> QED BY <3>1, <3>2, <3>3
  <2> HIDE DEF g
  <2>9. /\ Disk' \in Disks /\ Disk'.bitmap = w.bitmap /\ Disk'.addrs = w.addrs
        /\ Disk'.ptrs = w.ptrs /\ Disk'.data = w.data
    <3>1. Disk' = [bitmap |-> w.bitmap, addrs |-> w.addrs, ptrs |-> w.ptrs, data |-> w.data,
                   log |-> {}, panic |-> FALSE]
      BY <1>6 DEF Parts, Disk
    <3>2. /\ w.bitmap \subseteq Blocks
          /\ w.addrs \in [Files -> [0 .. NADDRS - 1 -> Blocks \cup {Null}]]
          /\ w.ptrs \in [Blocks -> [0 .. NINDIRECT - 1 -> Blocks \cup {Null}]]
          /\ w.data \in [Blocks -> Places]
      BY <2>3, DiskIs
    <3> QED BY <3>1, <3>2 DEF Disks
  <2>10. Sound(Disk', Needed(g), to)
    <3> DEFINE e == Disk'
    <3>1. e \in Disks /\ e.bitmap = w.bitmap /\ e.addrs = w.addrs /\ e.ptrs = w.ptrs
      BY <2>9
    <3> HIDE DEF e
    <3>2. Sound(e, Needed(g), to)
      BY <2>5, <3>1, SoundSame
    <3> QED BY <3>2 DEF e
  <2>11. Filled(Disk', to, g)
    BY <2>5, <2>9 DEF Filled
  <2>12. truncs' \in Nat /\ panic' \in BOOLEAN
    BY <1>1, <1>6 DEF Parts
  <2> QED BY <2>7, <2>8, <2>10, <2>11, <2>12 DEF LInv
<1> QED BY <1>4, <1>5, <1>6

\* A file without its blocks.
LEMMA CutSound ==
  ASSUME NEW d, NEW V, NEW at, Sound(d, V, at), NEW f \in Files, NEW W, W = {v \in V : v[1] # f},
         NEW to, to = [v \in W |-> at[v]], NEW e \in Disks,
         e.bitmap = d.bitmap \ Owned(at, V, f), e.ptrs = d.ptrs,
         \A h \in Files : \A i \in 0 .. NADDRS - 1 :
           e.addrs[h][i] = IF h = f THEN Null ELSE d.addrs[h][i]
  PROVE  Sound(e, W, to)
<1>1. /\ V \subseteq Files \X Node /\ at \in [V -> Blocks]
      /\ \A u, v \in V : at[u] = at[v] => u = v
      /\ d.bitmap = {at[v] : v \in V}
      /\ \A v \in V : v[2][2] # 0 => <<v[1], Up(v[2])>> \in V
  BY DEF Sound
<1>2. W \subseteq V /\ W \subseteq Files \X Node /\ (\A v \in W : to[v] = at[v]) /\ to \in [W -> Blocks]
  BY <1>1
<1>3. \A u, v \in W : to[u] = to[v] => u = v
  BY <1>1, <1>2
<1>4. e.bitmap = {to[v] : v \in W}
  <2>1. {to[v] : v \in W} = {at[v] : v \in W}
    BY <1>2
  <2>2. \A v \in V : at[v] \in Owned(at, V, f) <=> v[1] = f
    BY <1>1 DEF Owned
  <2>3. e.bitmap = {at[v] : v \in V} \ Owned(at, V, f)
    BY <1>1
  <2>4. \A b : b \in e.bitmap <=> b \in {at[v] : v \in W}
    BY ONLY <2>2, <2>3, W = {v \in V : v[1] # f}
  <2> QED BY <2>1, <2>4
<1>5. \A v \in W : v[2][2] # 0 => <<v[1], Up(v[2])>> \in W
  BY <1>1, <1>2
<1>6. ASSUME NEW h \in Files, NEW x \in Node, x[2] = 0 \/ <<h, Up(x)>> \in W
      PROVE  Pointer(e, to, h, x) = IF <<h, x>> \in W THEN to[<<h, x>>] ELSE Null
  <2>1. Pointer(d, at, h, x) = IF <<h, x>> \in V THEN at[<<h, x>>] ELSE Null
    <3>1. x[2] = 0 \/ <<h, Up(x)>> \in V
      BY <1>2, <1>6
    <3> QED BY ONLY <3>1, Sound(d, V, at), h \in Files, x \in Node, PointerIs
  <2>2. CASE h = f
    <3>1. x[2] = 0 /\ <<h, x>> \notin W
      BY <1>6, <2>2
    <3>2. FirstAddr[x[1]] + x[3] \in 0 .. NADDRS - 1
      BY <3>1, NodeIs
    <3>3. e.addrs[h][FirstAddr[x[1]] + x[3]] = Null
      BY <2>2, <3>2
    <3> QED BY <3>1, <3>3 DEF Pointer
  <2>3. CASE h # f
    <3>1. <<h, x>> \in W <=> <<h, x>> \in V
      BY <2>3
    <3>2. <<h, x>> \in W => to[<<h, x>>] = at[<<h, x>>]
      BY <1>2
    <3>3. Pointer(e, to, h, x) = Pointer(d, at, h, x)
      <4>1. CASE x[2] = 0
        <5>1. FirstAddr[x[1]] + x[3] \in 0 .. NADDRS - 1
          BY <4>1, NodeIs
        <5>2. e.addrs[h][FirstAddr[x[1]] + x[3]] = d.addrs[h][FirstAddr[x[1]] + x[3]]
          BY <2>3, <5>1
        <5> QED BY <4>1, <5>2 DEF Pointer
      <4>2. CASE x[2] # 0
        <5>1. to[<<h, Up(x)>>] = at[<<h, Up(x)>>]
          BY <1>2, <1>6, <4>2
        <5> QED BY <4>2, <5>1 DEF Pointer
      <4> QED BY <4>1, <4>2
    <3> QED BY <2>1, <3>1, <3>2, <3>3
  <2> QED BY <2>2, <2>3
<1> QED BY <1>2, <1>3, <1>4, <1>5, <1>6 DEF Sound

\* All that itrunc() frees is in use.
LEMMA FreesOwn ==
  ASSUME LInv, NEW f \in Files
  PROVE  ~FreesFree(Freed(f))
<1>1. PICK at : Sound(Disk, Needed(Counts), at)
  BY DEF LInv
<1>2. Counts \in [Files -> 0 .. MAXFILE]
  BY CountsAre DEF LInv
<1>3. Freed(f) = Owned(at, Needed(Counts), f)
  BY <1>1, <1>2, FreedIs, TreeIs
<1>4. \A v \in Needed(Counts) : at[v] \in Disk.bitmap
  BY <1>1, SoundIs
<1>5. Disk.bitmap = bitmap
  BY DEF Disk
<1> QED BY <1>3, <1>4, <1>5 DEF FreesFree, Owned

\* itrunc() takes the blocks of one file and leaves the others theirs.
LEMMA ItruncInv ==
  ASSUME LInv, NEW f \in Files, Itrunc(f)
  PROVE  LInv'
<1>1. size \in [Files -> 0 .. 2 * MAXFILE] /\ truncs \in Nat /\ panic \in BOOLEAN
  BY DEF LInv
<1>2. PICK at : Sound(Disk, Needed(Counts), at) /\ Filled(Disk, at, Counts)
  BY DEF LInv
<1>3. /\ bitmap' = bitmap \ Freed(f) /\ size' = [size EXCEPT ![f] = 0]
      /\ addrs' = [addrs EXCEPT ![f] = [i \in 0 .. NADDRS - 1 |-> Null]]
      /\ ptrs' = ptrs /\ data' = data /\ panic' = panic /\ truncs' = truncs + 1
  BY FreesOwn DEF Itrunc
<1> DEFINE V == Needed(Counts)
           W == {v \in V : v[1] # f}
           to == [v \in W |-> at[v]]
<1>4. Counts \in [Files -> 0 .. MAXFILE]
  BY <1>1, CountsAre
<1>5. size' \in [Files -> 0 .. 2 * MAXFILE] /\ truncs' \in Nat /\ panic' \in BOOLEAN
  <2>1. 0 \in 0 .. 2 * MAXFILE
    BY MaxFileIs
  <2> QED BY <1>1, <1>3, <2>1
<1>6. \A h \in Files : Counts'[h] = IF h = f THEN 0 ELSE Counts[h]
  BY <1>1, <1>3 DEF Counts, NBlocks
<1>7. Needed(Counts)' = W
  <2>1. \A h \in Files : Ways(Counts'[h]) = IF h = f THEN {} ELSE Ways(Counts[h])
    BY <1>6, WaysZero
  <2>2. Needed(Counts)' = {v \in Files \X Node : v[2] \in Ways(Counts'[v[1]])}
    BY DEF Needed
  <2>3. \A v \in Files \X Node : v[2] \in Ways(Counts'[v[1]]) <=> v[1] # f /\ v[2] \in Ways(Counts[v[1]])
    BY <2>1
  <2>4. W = {v \in Files \X Node : v[1] # f /\ v[2] \in Ways(Counts[v[1]])}
    BY DEF Needed
  <2> QED BY <2>2, <2>3, <2>4
<1>8. Freed(f) = Owned(at, V, f)
  BY <1>2, <1>4, FreedIs, TreeIs
<1>9. Disk' \in Disks /\ Disk'.bitmap = Disk.bitmap \ Owned(at, V, f) /\ Disk'.ptrs = Disk.ptrs
      /\ Disk'.data = Disk.data
      /\ \A h \in Files : \A i \in 0 .. NADDRS - 1 :
           Disk'.addrs[h][i] = IF h = f THEN Null ELSE Disk.addrs[h][i]
  <2>1. /\ bitmap \subseteq Blocks
        /\ addrs \in [Files -> [0 .. NADDRS - 1 -> Blocks \cup {Null}]]
        /\ ptrs \in [Blocks -> [0 .. NINDIRECT - 1 -> Blocks \cup {Null}]]
        /\ data \in [Blocks -> Places]
    BY <1>2, DiskFields
  <2>2. Disk' = [bitmap |-> bitmap', addrs |-> addrs', ptrs |-> ptrs, data |-> data,
                 log |-> {}, panic |-> FALSE]
    BY <1>3 DEF Disk
  <2>3. addrs' \in [Files -> [0 .. NADDRS - 1 -> Blocks \cup {Null}]]
    BY <1>3, <2>1
  <2>4. bitmap' \subseteq Blocks /\ bitmap' = bitmap \ Owned(at, V, f)
    BY <1>3, <1>8, <2>1
  <2>5. Disk' \in Disks
    BY <2>1, <2>2, <2>3, <2>4 DEF Disks
  <2>6. \A h \in Files : \A i \in 0 .. NADDRS - 1 : addrs'[h][i] = IF h = f THEN Null ELSE addrs[h][i]
    BY <1>3, <2>1
  <2>7. Disk.bitmap = bitmap /\ Disk.addrs = addrs /\ Disk.ptrs = ptrs /\ Disk.data = data
    BY DEF Disk
  <2> QED BY <2>2, <2>4, <2>5, <2>6, <2>7
<1>10. Sound(Disk', W, to)
  <2> DEFINE e == Disk'
  <2>1. /\ e \in Disks /\ e.bitmap = Disk.bitmap \ Owned(at, V, f) /\ e.ptrs = Disk.ptrs
        /\ \A h \in Files : \A i \in 0 .. NADDRS - 1 :
             e.addrs[h][i] = IF h = f THEN Null ELSE Disk.addrs[h][i]
    BY <1>9
  <2>2. W = {v \in V : v[1] # f} /\ to = [v \in W |-> at[v]] /\ Sound(Disk, V, at)
    BY <1>2
  <2> HIDE DEF e, V, W, to
  <2>3. Sound(e, W, to)
    BY ONLY <2>1, <2>2, f \in Files, CutSound
  <2> QED BY <2>3 DEF e
<1>11. Filled(Disk', to, Counts')
  <2> SUFFICES ASSUME NEW h \in Files, NEW bn \in 0 .. Counts'[h] - 1
               PROVE  Disk'.data[to[<<h, Leaf(bn)>>]] = <<h, bn>>
    BY DEF Filled
  <2>1. h # f /\ Counts'[h] = Counts[h] /\ bn \in 0 .. Counts[h] - 1
    BY <1>6
  <2>2. <<h, Leaf(bn)>> \in W
    <3>1. bn \in 0 .. MAXFILE - 1 /\ Counts[h] \in Nat
      BY <1>4, <2>1, MaxFileIs
    <3>2. Leaf(bn) \in Way(bn)
      <4> DEFINE l == LayerOf(FirstBlock, bn)
      <4>1. Leaf(bn) = Step(bn, l) /\ l \in Nat /\ Way(bn) = {Step(bn, k) : k \in 0 .. l}
        BY <3>1, WayIs
      <4> HIDE DEF l
      <4> QED BY <4>1
    <3>3. Leaf(bn) \in Ways(Counts[h]) /\ Leaf(bn) \in Node
      BY <2>1, <3>1, <3>2, WayNodes DEF Ways
    <3> QED BY <2>1, <3>3 DEF Needed
  <2>3. to[<<h, Leaf(bn)>>] = at[<<h, Leaf(bn)>>]
    BY <2>2
  <2> HIDE DEF to
  <2>4. Disk.data[at[<<h, Leaf(bn)>>]] = <<h, bn>>
    BY <1>2, <2>1 DEF Filled
  <2> QED BY <1>9, <2>3, <2>4
<1> HIDE DEF V, W, to
<1>12. Sound(Disk', Needed(Counts'), to) /\ Filled(Disk', to, Counts')
  <2>1. Needed(Counts') = W
    BY <1>7
  <2> QED BY <1>10, <1>11, <2>1
<1> QED BY <1>5, <1>12 DEF LInv

LEMMA NextInv == LInv /\ [Next]_vars => LInv'
<1> SUFFICES ASSUME LInv, [Next]_vars PROVE LInv'
  OBVIOUS
<1>1. ASSUME NEW f \in Files, NEW k \in Backs, size[f] - k \in Nat, NEW n \in Lengths,
             WritePart(f, size[f] - k, n)
      PROVE  LInv'
  <2>1. n \in Nat \ {0}
    OBVIOUS
  <2> QED BY <1>1, <2>1, WritePartInv
<1>2. ASSUME NEW f \in Files, Itrunc(f)
      PROVE  LInv'
  BY <1>2, ItruncInv
<1>3. CASE UNCHANGED vars
  <2>1. Disk' = Disk /\ Counts' = Counts /\ size' = size /\ truncs' = truncs /\ panic' = panic
    BY <1>3 DEF vars, Disk, Counts, NBlocks
  <2> QED BY <2>1 DEF LInv
<1> QED BY <1>1, <1>2, <1>3 DEF Next

\* Every file is the tree of blocks that its size asks for, and shares none.
THEOREM Invariance == Spec => []LInv
<1>1. Init => LInv
  BY InitInv
<1>2. LInv /\ [Next]_vars => LInv'
  BY NextInv
<1> QED BY <1>1, <1>2, PTL DEF Spec

\* A file of m blocks has as many as there are ways to them.
LEMMA TreeSize ==
  ASSUME NEW n \in [Files -> 0 .. MAXFILE], NEW at, Sound(Disk, Needed(n), at), NEW f \in Files
  PROVE  Cardinality(Tree(f)) = Cardinality(Ways(n[f]))
<1> DEFINE V == Needed(n)
           g == [x \in Ways(n[f]) |-> at[<<f, x>>]]
<1>1. /\ \A u, v \in V : at[u] = at[v] => u = v
      /\ \A v \in V : at[v] \in Blocks
  BY SoundIs
<1>2. Ways(n[f]) \subseteq Node
  <2>1. \A bn \in 0 .. n[f] - 1 : Way(bn) \subseteq Node
    <3>1. \A bn \in 0 .. n[f] - 1 : bn \in 0 .. MAXFILE - 1
      BY MaxFileIs
    <3> QED BY <3>1, WayNodes
  <2> QED BY <2>1 DEF Ways
<1>3. \A x : <<f, x>> \in V <=> x \in Ways(n[f])
  BY <1>2 DEF Needed
<1>4. Tree(f) = {g[x] : x \in Ways(n[f])}
  <2>1. Tree(f) = {at[v] : v \in {u \in V : u[1] = f}}
    BY TreeIs DEF Owned
  <2>2. V \subseteq Files \X Node
    BY DEF Needed
  <2> HIDE DEF V
  <2>3. \A v \in V : v[1] = f => v = <<f, v[2]>> /\ v[2] \in Ways(n[f])
    BY <1>3, <2>2
  <2>4. \A x \in Ways(n[f]) : <<f, x>> \in V /\ g[x] = at[<<f, x>>]
    BY <1>3
  <2> HIDE DEF g
  <2>5. \A b \in Tree(f) : \E x \in Ways(n[f]) : b = g[x]
    <3> SUFFICES ASSUME NEW v \in V, v[1] = f PROVE \E x \in Ways(n[f]) : at[v] = g[x]
      BY <2>1
    <3> QED BY <2>3, <2>4
  <2>6. \A x \in Ways(n[f]) : g[x] \in Tree(f)
    <3> TAKE x \in Ways(n[f])
    <3>1. <<f, x>> \in {u \in V : u[1] = f}
      BY <2>4
    <3> QED BY <2>1, <2>4, <3>1
  <2> QED BY <2>5, <2>6
<1>5. \A u, v \in Ways(n[f]) : g[u] = g[v] => u = v
  BY <1>1, <1>3
<1>6. IsFiniteSet(Tree(f))
  <2>1. Tree(f) \subseteq Blocks
    <3>1. \A x \in Ways(n[f]) : g[x] \in Blocks
      BY <1>1, <1>3
    <3> HIDE DEF g
    <3> QED BY <1>4, <3>1
  <2>2. IsFiniteSet(Blocks)
    <3>1. 1 \in Int /\ FSSIZE \in Int
      OBVIOUS
    <3> QED BY <3>1, FS_Interval DEF Blocks
  <2> QED BY <2>1, <2>2, FS_Subset
<1> HIDE DEF g
<1> QED BY ONLY <1>4, <1>5, <1>6, ImageSize

(* OneOwner: in every state the blocks in use are those of the files' trees, *)
(* no block is in two of them, and a file has the blocks its size asks for:  *)
(* balloc() under bmap() gives no block away twice, and itrunc() frees all   *)
(* that the file has and nothing else.                                       *)
THEOREM Owners == Spec => []OneOwner
<1>1. LInv => OneOwner
  <2> SUFFICES ASSUME LInv PROVE OneOwner
    OBVIOUS
  <2>1. Counts \in [Files -> 0 .. MAXFILE] /\ \A f \in Files : Counts[f] = NBlocks(f)
    BY CountsAre DEF LInv
  <2> DEFINE V == Needed(Counts)
  <2>2. PICK at : Sound(Disk, V, at)
    BY DEF LInv
  <2>3. /\ V \subseteq Files \X Node /\ \A u, v \in V : at[u] = at[v] => u = v
        /\ bitmap = {at[v] : v \in V}
    BY <2>2 DEF Sound, Disk
  <2>4. \A f \in Files : Tree(f) = Owned(at, V, f)
    BY <2>2, TreeIs
  <2>5. \A f \in Files : Cardinality(Tree(f)) = Cardinality(Ways(NBlocks(f)))
    BY <2>1, <2>2, TreeSize
  <2> HIDE DEF V
  <2>6. bitmap = UNION {Tree(f) : f \in Files}
    <3>1. bitmap = UNION {Owned(at, V, f) : f \in Files}
      <4>1. \A v \in V : v[1] \in Files
        BY <2>3
      <4>2. \A b \in bitmap : \E f \in Files : b \in Owned(at, V, f)
        BY <2>3, <4>1 DEF Owned
      <4>3. \A f \in Files : Owned(at, V, f) \subseteq bitmap
        BY <2>3 DEF Owned
      <4> QED BY <4>2, <4>3
    <3> QED BY <2>4, <3>1
  <2>7. \A f, g \in Files : f # g => Tree(f) \cap Tree(g) = {}
    BY <2>3, <2>4 DEF Owned
  <2> QED BY <2>5, <2>6, <2>7 DEF OneOwner
<1> QED BY <1>1, Invariance, PTL

(* bfree() never finds a block free that itrunc() gives back: each file      *)
(* returns blocks that it has got from balloc() and still holds.             *)
THEOREM NeverFreesFree == Spec => [][\A f \in Files : Itrunc(f) => panic' = panic]_vars
<1>1. LInv => [\A f \in Files : Itrunc(f) => panic' = panic]_vars
  BY FreesOwn DEF Itrunc
<1> QED BY <1>1, Invariance, PTL

(* ReadsBack: in every state bmap() finds each block of a file without       *)
(* allocating one, and the block holds what writei() last put in that place  *)
(* of that file: no other file, indirect block or truncation has taken it.   *)
THEOREM Readable == Spec => []ReadsBack
<1>1. LInv => ReadsBack
  <2> SUFFICES ASSUME LInv, NEW f \in Files, NEW bn \in 0 .. NBlocks(f) - 1,
                      NEW r, r = Bmap(Disk, f, bn)
               PROVE  r.d = Disk /\ data[r.at] = <<f, bn>>
    BY DEF ReadsBack
  <2>1. Counts \in [Files -> 0 .. MAXFILE] /\ Counts[f] = NBlocks(f)
    BY CountsAre DEF LInv
  <2>2. PICK at : Sound(Disk, Needed(Counts), at) /\ Filled(Disk, at, Counts)
    BY DEF LInv
  <2>3. Disk \in Disks /\ ~Disk.panic
    BY <2>2, DiskType
  <2>4. bn \in 0 .. MAXFILE - 1 /\ bn \in 0 .. Counts[f] - 1 /\ Counts[f] \in Nat
    BY <2>1, MaxFileIs
  <2>5. \A y \in Way(bn) : <<f, y>> \in Needed(Counts)
    <3>1. Way(bn) \subseteq Ways(Counts[f]) /\ Way(bn) \subseteq Node
      BY <2>4, WaysGrow, WayNodes
    <3> QED BY <3>1 DEF Needed
  <2>6. r = [at |-> at[<<f, Leaf(bn)>>], d |-> Disk]
    BY <2>2, <2>3, <2>4, <2>5, BmapSettles
  <2>7. Disk.data[at[<<f, Leaf(bn)>>]] = <<f, bn>> /\ Disk.data = data
    BY <2>2, <2>4 DEF Filled, Disk
  <2>8. r.at = at[<<f, Leaf(bn)>>] /\ r.d = Disk
    BY ONLY <2>6
  <2> QED BY ONLY <2>7, <2>8
<1> QED BY <1>1, Invariance, PTL

-----------------------------------------------------------------------------
(* What a part logs *)

\* The first of the blocks whose pointers are where that of bn is.
Top(bn) ==
  LET l == LayerOf(FirstBlock, bn)
  IN FirstBlock[l] + NINDIRECT * ((bn - FirstBlock[l]) \div NINDIRECT)

LEMMA LayerEnds ==
  ASSUME NEW l \in 0 .. NLAYER - 1, l # 0
  PROVE  \E m \in Nat : FirstBlock[l + 1] = FirstBlock[l] + m * NINDIRECT
<1>1. l \in 1 .. NLAYER /\ l + 1 \in 1 .. NLAYER /\ l - 1 \in 0 .. NLAYER /\ (l + 1) - 1 = l
  BY LayersIs
<1>2. FirstBlock[l + 1] = FirstBlock[l] + InFile[l + 1]
  BY BlocksBegin DEF Begins
<1>3. InFile[l + 1] = Layers[l + 1] * Fan[l]
  BY <1>1 DEF InFile
<1>4. Layers[l + 1] \in Nat /\ Fan[l - 1] \in Nat /\ Fan[l] = Fan[l - 1] * NINDIRECT
  BY <1>1, LayersIs, FanIs
<1>5. \A a, b, c \in Nat : a * (b * c) = (a * b) * c /\ a * b \in Nat
  OBVIOUS
<1>6. Layers[l + 1] * Fan[l] = (Layers[l + 1] * Fan[l - 1]) * NINDIRECT /\ Layers[l + 1] * Fan[l - 1] \in Nat
  <2> DEFINE a == Layers[l + 1]
             b == Fan[l - 1]
  <2>1. a \in Nat /\ b \in Nat /\ NINDIRECT \in Nat /\ Fan[l] = b * NINDIRECT
    BY <1>4
  <2> HIDE DEF a, b
  <2>2. a * Fan[l] = (a * b) * NINDIRECT /\ a * b \in Nat
    BY ONLY <1>5, <2>1
  <2> QED BY <2>2 DEF a, b
<1> QED BY <1>2, <1>3, <1>6

LEMMA TopIs ==
  ASSUME NEW bn \in 0 .. MAXFILE - 1
  PROVE  /\ Top(bn) \in Nat /\ Top(bn) <= bn /\ bn < Top(bn) + NINDIRECT
<1> DEFINE l == LayerOf(FirstBlock, bn)
           o == bn - FirstBlock[l]
<1>1. FirstBlock[l] \in Nat /\ bn \in Nat /\ FirstBlock[l] <= bn /\ NINDIRECT \in Nat \ {0}
  <2>1. In(FirstBlock, l, bn) /\ l \in 0 .. NLAYER
    BY WayIs, LayersIs
  <2> HIDE DEF l
  <2> QED BY <2>1, BlocksBegin, MaxFileIs DEF In, Begins
<1>2. Top(bn) = FirstBlock[l] + NINDIRECT * (o \div NINDIRECT)
  BY DEF Top
<1> HIDE DEF l
<1>3. o \in Nat /\ bn = FirstBlock[l] + o
  BY <1>1
<1> HIDE DEF o
<1>4. /\ o \div NINDIRECT \in Nat /\ o % NINDIRECT \in 0 .. NINDIRECT - 1
      /\ o = NINDIRECT * (o \div NINDIRECT) + (o % NINDIRECT)
  BY <1>1, <1>3, DivIs
<1>5. NINDIRECT * (o \div NINDIRECT) \in Nat
  <2>1. \A a \in Nat : NINDIRECT * a \in Nat
    BY <1>1
  <2> QED BY <1>4, <2>1
<1> DEFINE t == NINDIRECT * (o \div NINDIRECT)
           r == o % NINDIRECT
<1>6. t \in Nat /\ r \in 0 .. NINDIRECT - 1 /\ o = t + r /\ Top(bn) = FirstBlock[l] + t
  BY <1>2, <1>4, <1>5
<1> HIDE DEF t, r
<1> QED BY <1>1, <1>3, <1>6

\* Ranks above the last come from the place of the indirect block.
LEMMA RankAbove ==
  ASSUME NEW bn \in 0 .. MAXFILE - 1, NEW l, l = LayerOf(FirstBlock, bn), NEW k \in 0 .. l - 1
  PROVE  Rank(bn, k) = ((bn - FirstBlock[l]) \div NINDIRECT) \div Fan[(l - k) - 1]
<1>1. l \in 0 .. NLAYER - 1 /\ l \in Nat /\ In(FirstBlock, l, bn)
  BY WayIs
<1>2. bn - FirstBlock[l] \in Nat
  <2>1. FirstBlock[l] \in Nat /\ FirstBlock[l] <= bn /\ bn \in Nat
    BY <1>1, LayersIs, BlocksBegin, MaxFileIs DEF In, Begins
  <2> QED BY <2>1
<1>3. l - k \in 1 .. NLAYER /\ (l - k) - 1 \in 0 .. NLAYER
  BY <1>1, LayersIs
<1>4. Fan[l - k] = Fan[(l - k) - 1] * NINDIRECT /\ Fan[(l - k) - 1] \in Nat \ {0}
  BY <1>3, FanIs
<1>5. Rank(bn, k) = (bn - FirstBlock[l]) \div Fan[l - k]
  BY DEF Rank
<1> DEFINE o == bn - FirstBlock[l]
           n == Fan[(l - k) - 1]
<1>6. Rank(bn, k) = o \div (n * NINDIRECT) /\ o \in Nat /\ n \in Nat \ {0}
  BY <1>2, <1>4, <1>5
<1> HIDE DEF o, n
<1>7. n * NINDIRECT = NINDIRECT * n
  BY <1>6
<1>8. o \div (NINDIRECT * n) = (o \div NINDIRECT) \div n
  BY <1>6, DivDiv
<1>9. Rank(bn, k) = (o \div NINDIRECT) \div n
  BY ONLY <1>6, <1>7, <1>8
<1> QED BY <1>9 DEF o, n

\* These blocks have the same way, but for their own pointer.
LEMMA GroupIs ==
  ASSUME NEW bn \in 0 .. MAXFILE - 1, NEW l, l = LayerOf(FirstBlock, bn), l # 0,
         NEW c \in Nat, Top(bn) <= c, c < Top(bn) + NINDIRECT
  PROVE  /\ c \in 0 .. MAXFILE - 1 /\ LayerOf(FirstBlock, c) = l /\ Top(c) = Top(bn)
         /\ \A k \in 0 .. l - 1 : Step(c, k) = Step(bn, k)
<1> DEFINE F == FirstBlock[l]
           o == bn - F
           q == o \div NINDIRECT
           i == c - Top(bn)
<1>1. l \in 0 .. NLAYER - 1 /\ l \in Nat /\ In(FirstBlock, l, bn) /\ l + 1 \in 0 .. NLAYER
  BY WayIs, LayersIs
<1>2. F \in Nat /\ bn \in Nat /\ F <= bn /\ bn < FirstBlock[l + 1]
  BY <1>1, LayersIs, BlocksBegin, MaxFileIs DEF In, Begins
<1>3. Top(bn) = F + NINDIRECT * q
  BY DEF Top
<1>4. PICK m \in Nat : FirstBlock[l + 1] = F + m * NINDIRECT
  BY <1>1, LayerEnds
<1> HIDE DEF F
<1>5. o \in Nat /\ o < m * NINDIRECT /\ bn = F + o
  <2>1. m * NINDIRECT \in Nat
    OBVIOUS
  <2> QED BY <1>2, <1>4, <2>1
<1> HIDE DEF o
<1>6. q \in Nat /\ q < m
  BY <1>5, DivIs, DivLess
<1> HIDE DEF q
<1>7. NINDIRECT * q \in Nat /\ NINDIRECT * (q + 1) <= NINDIRECT * m
  BY <1>6, Product
<1>8. NINDIRECT * (q + 1) = NINDIRECT * q + NINDIRECT /\ NINDIRECT * m = m * NINDIRECT
  BY <1>6
<1>9. i \in 0 .. NINDIRECT - 1 /\ c = F + (NINDIRECT * q + i)
  <2> DEFINE t == NINDIRECT * q
  <2>1. t \in Nat /\ Top(bn) = F + t
    BY <1>3, <1>7
  <2> HIDE DEF t
  <2>2. i \in 0 .. NINDIRECT - 1 /\ c = F + (t + i)
    BY <1>2, <2>1
  <2> QED BY <2>2 DEF t
<1> HIDE DEF i
<1>10. (c - F) \div NINDIRECT = q /\ F <= c /\ c < FirstBlock[l + 1]
  <2> DEFINE t == NINDIRECT * q
             e == m * NINDIRECT
  <2>1. t \in Nat /\ c = F + (t + i) /\ t + NINDIRECT <= e /\ FirstBlock[l + 1] = F + e /\ e \in Nat
    BY <1>4, <1>7, <1>8, <1>9
  <2>2. (t + i) \div NINDIRECT = q
    BY <1>6, <1>9, DivPlus
  <2> HIDE DEF t, e
  <2>3. c - F = t + i /\ F <= c /\ c < FirstBlock[l + 1]
    BY <1>2, <1>9, <2>1
  <2> QED BY <2>2, <2>3
<1>11. In(FirstBlock, l, c)
  BY <1>1, <1>10 DEF In, F
<1>12. c < FirstBlock[NLAYER] /\ LayerOf(FirstBlock, c) = l
  BY <1>11, BlocksBegin, LayerIn
<1>13. c \in 0 .. MAXFILE - 1
  BY <1>12, MaxFileIs DEF MAXFILE
<1>14. Top(c) = Top(bn)
  <2>1. Top(c) = F + NINDIRECT * ((c - F) \div NINDIRECT)
    BY <1>12 DEF Top, F
  <2> QED BY <1>3, <1>10, <2>1
<1>15. \A k \in 0 .. l - 1 : Step(c, k) = Step(bn, k)
  <2> TAKE k \in 0 .. l - 1
  <2>1. Rank(bn, k) = ((bn - F) \div NINDIRECT) \div Fan[(l - k) - 1]
    BY RankAbove DEF F
  <2>2. Rank(c, k) = ((c - F) \div NINDIRECT) \div Fan[(l - k) - 1]
    BY <1>12, <1>13, RankAbove DEF F
  <2>3. (bn - F) \div NINDIRECT = q
    BY DEF q, o
  <2>4. Rank(c, k) = Rank(bn, k)
    BY ONLY <1>10, <2>1, <2>2, <2>3
  <2> QED BY <1>12, <2>4 DEF Step
<1> QED BY <1>12, <1>13, <1>14, <1>15

\* The first block of such a group opens an indirect block: its pointers are new.
Opens(b) == LayerOf(FirstBlock, b) # 0 /\ Top(b) = b

LEMMA OpensApart ==
  ASSUME NEW a \in 0 .. MAXFILE - 1, NEW b \in 0 .. MAXFILE - 1, Opens(a), Opens(b), a <= b, b < a + NINDIRECT
  PROVE  a = b
<1>1. a \in Nat /\ b \in Nat
  BY MaxFileIs
<1>2. Top(a) = a /\ Top(b) = b /\ LayerOf(FirstBlock, a) # 0
  BY DEF Opens
<1>3. Top(b) = Top(a)
  BY <1>1, <1>2, GroupIs
<1> QED BY <1>2, <1>3

\* What is marked above block bn, which is new to a file of m <= bn blocks.
LEMMA MarkedAbove ==
  ASSUME NEW n \in [Files -> 0 .. MAXFILE], NEW f \in Files, NEW bn \in 0 .. MAXFILE - 1,
         NEW l, l = LayerOf(FirstBlock, bn), NEW j \in NewOn(Grown(n, f, bn), f, bn), j # l
  PROVE  /\ l # 0 /\ j \in 0 .. l - 1 /\ n[f] <= bn
         /\ ~Opens(bn) => j = l - 1
<1> DEFINE V == Needed(Grown(n, f, bn))
           N == Grown(n, f, bn)[f]
<1>1. l \in Nat /\ bn \in Nat /\ n[f] \in Nat
  BY WayIs, MaxFileIs
<1>2. j \in Touched(V, f, bn, l)
  BY DEF NewOn
<1>3. j \in 0 .. l - 1 /\ (<<f, Step(bn, j)>> \notin V \/ <<f, Step(bn, j + 1)>> \notin V)
  BY <1>1, <1>2 DEF Touched
<1>4. l # 0 /\ j \in 0 .. l /\ j + 1 \in 0 .. l
  BY <1>1, <1>3
<1>5. \A k \in 0 .. l : Step(bn, k) \in Node /\ Step(bn, k) \in Way(bn)
  BY WayIs, StepIs
<1>6. N = Larger(n[f], bn) /\ N \in Nat
  <2>1. N = Larger(n[f], bn)
    BY DEF Grown
  <2> HIDE DEF N
  <2> QED BY <1>1, <2>1 DEF Larger
<1>7. \A x \in Node : <<f, x>> \in V <=> x \in Ways(N)
  BY DEF Needed
<1> HIDE DEF V, N
<1>8. N = bn /\ n[f] <= bn
  <2>1. ~(bn < N)
    <3> SUFFICES ASSUME bn < N PROVE FALSE
      OBVIOUS
    <3>1. bn \in 0 .. N - 1
      BY <1>1, <1>6
    <3>2. \A k \in 0 .. l : Step(bn, k) \in Ways(N)
      BY <1>5, <3>1 DEF Ways
    <3> QED BY <1>3, <1>4, <1>5, <1>7, <3>2
  <2> QED BY <1>1, <1>6, <2>1 DEF Larger
<1>9. ASSUME ~Opens(bn)
      PROVE  j = l - 1
  <2>1. Top(bn) # bn /\ Top(bn) \in Nat /\ Top(bn) <= bn /\ bn < Top(bn) + NINDIRECT
    BY <1>4, <1>9, TopIs DEF Opens
  <2>2. bn - 1 \in Nat /\ Top(bn) <= bn - 1 /\ bn - 1 < Top(bn) + NINDIRECT
    BY <1>1, <2>1
  <2>3. /\ bn - 1 \in 0 .. MAXFILE - 1 /\ LayerOf(FirstBlock, bn - 1) = l
        /\ \A k \in 0 .. l - 1 : Step(bn - 1, k) = Step(bn, k)
    BY <1>4, <2>2, GroupIs
  <2>4. \A k \in 0 .. l - 1 : Step(bn, k) \in Ways(N)
    <3> TAKE k \in 0 .. l - 1
    <3>1. k \in 0 .. l
      BY <1>1
    <3>2. Step(bn - 1, k) \in Way(bn - 1)
      BY <2>3, <3>1, WayIs
    <3>3. bn - 1 \in 0 .. N - 1
      BY <1>8, <2>2
    <3>4. Step(bn, k) \in Way(bn - 1)
      BY <2>3, <3>2
    <3> QED BY <3>3, <3>4 DEF Ways
  <2>5. \A k \in 0 .. l - 1 : <<f, Step(bn, k)>> \in V
    <3>1. \A k \in 0 .. l - 1 : k \in 0 .. l
      BY <1>1
    <3> QED BY <1>5, <1>7, <2>4, <3>1
  <2>6. j + 1 \notin 0 .. l - 1
    BY <1>3, <2>5
  <2> QED BY <1>1, <1>3, <2>6
<1> QED BY <1>3, <1>4, <1>8, <1>9

\* Of the pointers above blocks, a part marks those on the way to one block h,
\* and one more.
MarkedFew(M, f, first, m, p, h) ==
  M \subseteq {<<f, Leaf(b)>> : b \in first .. m - 1} \cup {p}
                \cup {<<f, Step(h, j)>> : j \in 0 .. LayerOf(FirstBlock, h) - 1}

LEMMA MarkedIsFew ==
  ASSUME NEW n \in [Files -> 0 .. MAXFILE], NEW f \in Files, NEW first \in Nat, NEW m \in Nat,
         m <= MAXFILE, first <= n[f], first < m, m <= first + NINDIRECT
  PROVE  \E p : \E h \in 0 .. MAXFILE - 1 : MarkedFew(Marked(n, f, first, m), f, first, m, p, h)
<1> DEFINE start == IF n[f] < m THEN n[f] ELSE first
           Q(b) == n[f] <= b /\ Opens(b)
           h == IF \E b \in first .. m - 1 : Q(b) THEN CHOOSE b \in first .. m - 1 : Q(b) ELSE start
           p == <<f, Step(start, LayerOf(FirstBlock, start) - 1)>>
           M == {<<f, Leaf(b)>> : b \in first .. m - 1} \cup {p}
                  \cup {<<f, Step(h, j)>> : j \in 0 .. LayerOf(FirstBlock, h) - 1}
<1>1. n[f] \in Nat /\ MAXFILE \in Nat /\ \A b \in first .. m - 1 : b \in 0 .. MAXFILE - 1 /\ b \in Nat
  BY MaxFileIs
<1>2. start \in first .. m - 1 /\ (n[f] < m => start = n[f])
  BY <1>1
<1> HIDE DEF start
<1>3. h \in first .. m - 1
  <2> HIDE DEF Q
  <2> QED BY <1>2
<1>4. ASSUME NEW b \in first .. m - 1, Q(b)
      PROVE  h = b
  <2>1. h \in first .. m - 1 /\ Q(h)
    <3> HIDE DEF Q
    <3> QED BY <1>4
  <2>2. h \in 0 .. MAXFILE - 1 /\ b \in 0 .. MAXFILE - 1 /\ Opens(h) /\ Opens(b)
    BY <1>1, <1>4, <2>1
  <2> HIDE DEF h
  <2>3. h < b + NINDIRECT /\ b < h + NINDIRECT /\ h \in Nat /\ b \in Nat
    BY <1>1, <2>1
  <2>4. h <= b \/ b <= h
    BY <2>3
  <2> QED BY <2>2, <2>3, <2>4, OpensApart
<1> HIDE DEF h
<1>5. ASSUME NEW bn \in first .. m - 1, NEW j \in NewOn(Grown(n, f, bn), f, bn)
      PROVE  <<f, Step(bn, j)>> \in M
  <2> DEFINE l == LayerOf(FirstBlock, bn)
  <2>1. bn \in 0 .. MAXFILE - 1 /\ l \in Nat /\ Leaf(bn) = Step(bn, l) /\ bn \in Nat
    BY <1>1, WayIs
  <2>2. CASE j = l
    <3>1. Step(bn, j) = Leaf(bn)
      BY <2>1, <2>2
    <3> QED BY <3>1
  <2>3. CASE j # l
    <3>1. l # 0 /\ j \in 0 .. l - 1 /\ n[f] <= bn /\ (~Opens(bn) => j = l - 1)
      BY <2>1, <2>3, MarkedAbove
    <3>2. CASE Opens(bn)
      <4>1. h = bn
        BY <1>4, <3>1, <3>2
      <4>2. j \in 0 .. LayerOf(FirstBlock, h) - 1 /\ Step(bn, j) = Step(h, j)
        BY <3>1, <4>1
      <4> QED BY <4>2
    <3>3. CASE ~Opens(bn)
      <4>1. j = l - 1 /\ l - 1 \in 0 .. l - 1
        BY <2>1, <3>1, <3>3
      <4>2. Top(bn) \in Nat /\ Top(bn) <= bn /\ bn < Top(bn) + NINDIRECT /\ NINDIRECT \in Nat \ {0}
        BY <2>1, TopIs
      <4>3. CASE n[f] <= Top(bn)
        <5> DEFINE c == Top(bn)
        <5>1. c \in Nat /\ Top(bn) <= c /\ c < Top(bn) + NINDIRECT
          BY <4>2
        <5>2. LayerOf(FirstBlock, c) = l /\ Top(c) = c /\ Step(c, l - 1) = Step(bn, l - 1)
          BY <2>1, <3>1, <4>1, <5>1, GroupIs
        <5>3. c \in first .. m - 1
          BY <1>1, <2>1, <4>2, <4>3
        <5>4. h = c
          BY <1>4, <3>1, <4>3, <5>2, <5>3 DEF Opens
        <5>5. j \in 0 .. LayerOf(FirstBlock, h) - 1 /\ Step(bn, j) = Step(h, j)
          BY <4>1, <5>2, <5>4
        <5> QED BY <5>5
      <4>4. CASE ~(n[f] <= Top(bn))
        <5>1. start = n[f] /\ Top(bn) <= start /\ start < Top(bn) + NINDIRECT /\ start \in Nat
          BY <1>1, <1>2, <2>1, <3>1, <4>2, <4>4
        <5>2. LayerOf(FirstBlock, start) = l /\ Step(start, l - 1) = Step(bn, l - 1)
          BY <2>1, <3>1, <4>1, <5>1, GroupIs
        <5>3. <<f, Step(bn, j)>> = p
          BY <4>1, <5>2
        <5> QED BY <5>3
      <4> QED BY <4>3, <4>4
    <3> QED BY <3>2, <3>3
  <2> QED BY <2>2, <2>3
<1>6. Marked(n, f, first, m) \subseteq M
  <2> HIDE DEF M
  <2> QED BY <1>5 DEF Marked
<1> QED BY <1>1, <1>3, <1>6 DEF MarkedFew

\* Of the pointers that a part makes, those above blocks are on the way to the
\* block h with which it enters a new indirect block.
NewFew(X, f, from, to, h) ==
  X \subseteq {<<f, Leaf(b)>> : b \in from .. to} \cup {<<f, Step(h, j)>> : j \in 0 .. LayerOf(FirstBlock, h) - 1}

LEMMA NewIsFew ==
  ASSUME NEW n \in [Files -> 0 .. MAXFILE], NEW f \in Files, NEW first \in Nat, NEW m \in Nat,
         m <= MAXFILE, first <= n[f], first < m, m <= first + NINDIRECT
  PROVE  \E h \in 0 .. MAXFILE - 1 : NewFew(Needed(Grown(n, f, m)) \ Needed(n), f, n[f], m - 1, h)
<1> DEFINE Q(b) == n[f] <= b /\ Opens(b)
           h == IF \E b \in first .. m - 1 : Q(b) THEN CHOOSE b \in first .. m - 1 : Q(b) ELSE first
           R == {<<f, Leaf(b)>> : b \in n[f] .. m - 1}
                  \cup {<<f, Step(h, j)>> : j \in 0 .. LayerOf(FirstBlock, h) - 1}
<1>1. n[f] \in Nat /\ MAXFILE \in Nat /\ \A b \in first .. m - 1 : b \in 0 .. MAXFILE - 1 /\ b \in Nat
  BY MaxFileIs
<1>2. h \in first .. m - 1
  <2>1. first \in first .. m - 1
    OBVIOUS
  <2> HIDE DEF Q
  <2> QED BY <2>1
<1>3. ASSUME NEW b \in first .. m - 1, Q(b)
      PROVE  h = b
  <2>1. h \in first .. m - 1 /\ Q(h)
    <3> HIDE DEF Q
    <3> QED BY <1>3
  <2>2. h \in 0 .. MAXFILE - 1 /\ b \in 0 .. MAXFILE - 1 /\ Opens(h) /\ Opens(b)
    BY <1>1, <1>3, <2>1
  <2> HIDE DEF h
  <2>3. h < b + NINDIRECT /\ b < h + NINDIRECT /\ h \in Nat /\ b \in Nat
    BY <1>1, <2>1
  <2>4. h <= b \/ b <= h
    BY <2>3
  <2> QED BY <2>2, <2>3, <2>4, OpensApart
<1> HIDE DEF h
<1>4. /\ \A g \in Files : Grown(n, f, m)[g] = IF g = f THEN Larger(n[f], m) ELSE n[g]
      /\ Larger(n[f], m) \in Nat /\ \A b \in 0 .. Larger(n[f], m) - 1 : b \in 0 .. n[f] - 1 \/ b \in n[f] .. m - 1
  <2>1. \A g \in Files : Grown(n, f, m)[g] = IF g = f THEN Larger(n[f], m) ELSE n[g]
    BY DEF Grown
  <2> QED BY <1>1, <2>1 DEF Larger
<1>5. ASSUME NEW x \in Node, x \in Ways(Larger(n[f], m)), x \notin Ways(n[f])
      PROVE  <<f, x>> \in R
  <2>1. PICK bn \in 0 .. Larger(n[f], m) - 1 : x \in Way(bn)
    BY <1>5 DEF Ways
  <2>2. bn \notin 0 .. n[f] - 1
    BY <1>5, <2>1 DEF Ways
  <2>3. bn \in n[f] .. m - 1 /\ bn \in first .. m - 1
    BY <1>1, <1>4, <2>1, <2>2
  <2> DEFINE l == LayerOf(FirstBlock, bn)
  <2>4. bn \in 0 .. MAXFILE - 1 /\ bn \in Nat /\ l \in Nat /\ Leaf(bn) = Step(bn, l)
        /\ Way(bn) = {Step(bn, k) : k \in 0 .. l}
    BY <1>1, <2>3, WayIs
  <2>5. PICK k \in 0 .. l : x = Step(bn, k)
    BY <2>1, <2>4
  <2>6. CASE k = l
    BY <2>3, <2>4, <2>5, <2>6
  <2>7. CASE k # l
    <3>1. l # 0 /\ k \in 0 .. l - 1
      BY <2>4, <2>5, <2>7
    <3> DEFINE c == Top(bn)
    <3>2. c \in Nat /\ c <= bn /\ bn < c + NINDIRECT /\ NINDIRECT \in Nat \ {0}
      BY <2>4, <3>1, TopIs
    <3>3. c \in 0 .. MAXFILE - 1 /\ LayerOf(FirstBlock, c) = l /\ Top(c) = c /\ Step(c, k) = Step(bn, k)
      <4>1. Top(bn) <= c /\ c < Top(bn) + NINDIRECT
        BY <3>2
      <4> QED BY <2>4, <3>1, <3>2, <4>1, GroupIs
    <3> HIDE DEF c, l
    <3>4. ~(c < n[f])
      <4> SUFFICES ASSUME c < n[f] PROVE FALSE
        OBVIOUS
      <4>1. Step(c, k) \in Way(c)
        <5>1. k \in 0 .. l
          OBVIOUS
        <5> QED BY <3>3, <5>1, WayIs
      <4>2. c \in 0 .. n[f] - 1
        BY <1>1, <3>2
      <4> QED BY <1>5, <2>5, <3>3, <4>1, <4>2 DEF Ways
    <3>5. c \in first .. m - 1 /\ n[f] <= c
      BY <1>1, <2>3, <2>4, <3>2, <3>4
    <3>6. Opens(c)
      BY <3>1, <3>3 DEF Opens
    <3>7. h = c
      BY <1>3, <3>5, <3>6
    <3>8. x = Step(h, k) /\ k \in 0 .. LayerOf(FirstBlock, h) - 1
      BY <2>5, <3>1, <3>3, <3>7
    <3> QED BY <3>8
  <2> QED BY <2>6, <2>7
<1>6. Needed(Grown(n, f, m)) \ Needed(n) \subseteq R
  <2> SUFFICES ASSUME NEW v \in Needed(Grown(n, f, m)), v \notin Needed(n)
               PROVE  v \in R
    OBVIOUS
  <2>1. v \in Files \X Node /\ v[2] \in Ways(Grown(n, f, m)[v[1]]) /\ v[2] \notin Ways(n[v[1]])
    BY DEF Needed
  <2>2. v = <<v[1], v[2]>> /\ v[1] \in Files /\ v[2] \in Node
    BY <2>1
  <2>3. v[1] = f
    BY <1>4, <2>1, <2>2
  <2>4. v[2] \in Ways(Larger(n[f], m))
    BY <1>4, <2>1, <2>3
  <2> HIDE DEF R
  <2>5. <<f, v[2]>> \in R
    BY <1>5, <2>1, <2>2, <2>3, <2>4
  <2> QED BY <2>2, <2>3, <2>5
<1> QED BY <1>1, <1>2, <1>6 DEF NewFew

LEMMA ImageBound ==
  ASSUME NEW g, NEW a \in Int, NEW b \in Int, a <= b + 1
  PROVE  /\ IsFiniteSet({g[i] : i \in a .. b}) /\ Cardinality({g[i] : i \in a .. b}) \in Nat
         /\ Cardinality({g[i] : i \in a .. b}) <= (b - a) + 1
<1> DEFINE T == {g[i] : i \in a .. b}
           h == [i \in a .. b |-> g[i]]
<1>1. h \in Surjection(a .. b, T)
  BY DEF Surjection
<1>2. IsFiniteSet(a .. b) /\ Cardinality(a .. b) = (b - a) + 1
  <2>1. IsFiniteSet(a .. b) /\ Cardinality(a .. b) = IF a > b THEN 0 ELSE b - a + 1
    BY FS_Interval
  <2> QED BY <2>1
<1> HIDE DEF T, h
<1>3. IsFiniteSet(T) /\ Cardinality(T) <= Cardinality(a .. b)
  BY <1>1, <1>2, FS_Surjection
<1>4. Cardinality(T) \in Nat
  BY <1>3, FS_CardinalityType
<1>5. Cardinality(T) <= (b - a) + 1
  BY <1>2, <1>3
<1> QED BY <1>3, <1>4, <1>5 DEF T

LEMMA UnionBound ==
  ASSUME NEW S, NEW T, NEW s \in Nat, NEW t \in Nat, IsFiniteSet(S), IsFiniteSet(T),
         Cardinality(S) <= s, Cardinality(T) <= t
  PROVE  IsFiniteSet(S \cup T) /\ Cardinality(S \cup T) <= s + t
<1>1. IsFiniteSet(S \cup T) /\ IsFiniteSet(S \cap T)
      /\ Cardinality(S \cup T) = Cardinality(S) + Cardinality(T) - Cardinality(S \cap T)
  <2>1. S \cap T \in SUBSET S
    OBVIOUS
  <2> QED BY <2>1, FS_Union, FS_Subset
<1>2. Cardinality(S) \in Nat /\ Cardinality(T) \in Nat /\ Cardinality(S \cap T) \in Nat
  BY <1>1, FS_CardinalityType
<1> QED BY <1>1, <1>2

LEMMA Within ==
  ASSUME NEW S, NEW W, S \subseteq W, IsFiniteSet(W), NEW k \in Int, Cardinality(W) <= k
  PROVE  IsFiniteSet(S) /\ Cardinality(S) \in Nat /\ Cardinality(S) <= k
<1>1. S \in SUBSET W
  OBVIOUS
<1>2. IsFiniteSet(S) /\ Cardinality(S) <= Cardinality(W)
  BY <1>1, FS_Subset
<1>3. Cardinality(S) \in Nat /\ Cardinality(W) \in Nat
  BY <1>2, FS_CardinalityType
<1> QED BY <1>2, <1>3

\* The blocks behind the marked pointers,
LEMMA BlocksBound ==
  ASSUME NEW log, NEW M, NEW at, NEW f, NEW first \in Nat, NEW c \in Nat, NEW p, NEW h \in 0 .. MAXFILE - 1,
         MarkedFew(M, f, first, first + c, p, h), log \subseteq {<<"block", at[v]>> : v \in M}
  PROVE  IsFiniteSet(log) /\ Cardinality(log) <= c + NLAYER
<1> DEFINE l == LayerOf(FirstBlock, h)
           Block(v) == <<"block", at[v]>>
           gb == [i \in first .. (first + c) - 1 |-> Block(<<f, Leaf(i)>>)]
           gc == [i \in 0 .. l - 1 |-> Block(<<f, Step(h, i)>>)]
           B == {gb[i] : i \in first .. (first + c) - 1}
           C == {gc[i] : i \in 0 .. l - 1}
           P == {Block(p)}
<1>1. l \in Nat /\ NLAYER \in Nat /\ l + 1 <= NLAYER
  <2>1. l \in 0 .. NLAYER - 1
    BY WayIs
  <2> HIDE DEF l
  <2> QED BY <2>1, LayersIs
<1>2. log \subseteq (B \cup C) \cup P
  <2>1. M \subseteq {<<f, Leaf(b)>> : b \in first .. (first + c) - 1} \cup {p} \cup {<<f, Step(h, j)>> : j \in 0 .. l - 1}
    BY DEF MarkedFew
  <2> HIDE DEF l
  <2>2. \A b \in first .. (first + c) - 1 : Block(<<f, Leaf(b)>>) \in B
    BY DEF gb
  <2>3. \A j \in 0 .. l - 1 : Block(<<f, Step(h, j)>>) \in C
    BY DEF gc
  <2> HIDE DEF B, C
  <2>4. \A v \in M : Block(v) \in (B \cup C) \cup P
    BY <2>1, <2>2, <2>3
  <2>5. log \subseteq {Block(v) : v \in M}
    OBVIOUS
  <2> HIDE DEF P, Block
  <2> QED BY <2>4, <2>5
<1> HIDE DEF l, gb, gc
<1>3. IsFiniteSet(B) /\ Cardinality(B) <= c
  <2>1. first \in Int /\ (first + c) - 1 \in Int /\ first <= ((first + c) - 1) + 1
        /\ (((first + c) - 1) - first) + 1 = c
    OBVIOUS
  <2>2. IsFiniteSet(B) /\ Cardinality(B) <= (((first + c) - 1) - first) + 1
    BY <2>1, ImageBound
  <2> HIDE DEF B
  <2> QED BY <2>1, <2>2
<1>4. IsFiniteSet(C) /\ Cardinality(C) <= l
  <2>1. 0 \in Int /\ l - 1 \in Int /\ 0 <= (l - 1) + 1 /\ ((l - 1) - 0) + 1 = l
    BY <1>1
  <2>2. IsFiniteSet(C) /\ Cardinality(C) <= ((l - 1) - 0) + 1
    BY <2>1, ImageBound
  <2> HIDE DEF C
  <2> QED BY <2>1, <2>2
<1>5. IsFiniteSet(P) /\ Cardinality(P) <= 1
  <2> HIDE DEF Block
  <2>1. IsFiniteSet({Block(p)}) /\ Cardinality({Block(p)}) = 1
    BY FS_Singleton
  <2> QED BY <2>1
<1> HIDE DEF B, C, P
<1>6. IsFiniteSet(B \cup C) /\ Cardinality(B \cup C) <= c + l
  BY ONLY <1>1, <1>3, <1>4, c \in Nat, UnionBound
<1>7. IsFiniteSet((B \cup C) \cup P) /\ Cardinality((B \cup C) \cup P) <= (c + l) + 1
  <2>1. c + l \in Nat /\ 1 \in Nat
    BY <1>1
  <2> QED BY ONLY <1>5, <1>6, <2>1, UnionBound
<1>8. (c + l) + 1 \in Int /\ (c + l) + 1 <= c + NLAYER
  BY <1>1
<1>9. IsFiniteSet(log) /\ Cardinality(log) \in Nat /\ Cardinality(log) <= (c + l) + 1
  BY <1>2, <1>7, <1>8, Within
<1> QED BY <1>1, <1>8, <1>9

\* and the bitmap blocks of those that are new.
LEMMA BitsBound ==
  ASSUME NEW log, NEW X, NEW at, NEW f, NEW from \in Int, NEW K \in Nat, NEW h \in 0 .. MAXFILE - 1,
         NewFew(X, f, from, (from + K) - 1, h),
         log \subseteq {BitmapBlock(at[v]) : v \in X}
  PROVE  IsFiniteSet(log) /\ Cardinality(log) <= K + NLAYER - 1
<1> DEFINE l == LayerOf(FirstBlock, h)
           Bit(v) == BitmapBlock(at[v])
           gb == [i \in from .. (from + K) - 1 |-> Bit(<<f, Leaf(i)>>)]
           gc == [i \in 0 .. l - 1 |-> Bit(<<f, Step(h, i)>>)]
           B == {gb[i] : i \in from .. (from + K) - 1}
           C == {gc[i] : i \in 0 .. l - 1}
<1>1. l \in Nat /\ NLAYER \in Nat /\ l + 1 <= NLAYER
  <2>1. l \in 0 .. NLAYER - 1
    BY WayIs
  <2> HIDE DEF l
  <2> QED BY <2>1, LayersIs
<1>2. log \subseteq B \cup C
  <2>1. X \subseteq {<<f, Leaf(b)>> : b \in from .. (from + K) - 1} \cup {<<f, Step(h, j)>> : j \in 0 .. l - 1}
    BY DEF NewFew
  <2> HIDE DEF l
  <2>2. \A b \in from .. (from + K) - 1 : Bit(<<f, Leaf(b)>>) \in B
    BY DEF gb
  <2>3. \A j \in 0 .. l - 1 : Bit(<<f, Step(h, j)>>) \in C
    BY DEF gc
  <2> HIDE DEF B, C
  <2>4. \A v \in X : Bit(v) \in B \cup C
    BY <2>1, <2>2, <2>3
  <2>5. log \subseteq {Bit(v) : v \in X}
    OBVIOUS
  <2> HIDE DEF Bit
  <2> QED BY <2>4, <2>5
<1> HIDE DEF l, gb, gc
<1>3. IsFiniteSet(B) /\ Cardinality(B) <= K
  <2>1. (from + K) - 1 \in Int /\ from <= ((from + K) - 1) + 1 /\ (((from + K) - 1) - from) + 1 = K
    OBVIOUS
  <2>2. IsFiniteSet(B) /\ Cardinality(B) <= (((from + K) - 1) - from) + 1
    BY <2>1, ImageBound
  <2> HIDE DEF B
  <2> QED BY <2>1, <2>2
<1>4. IsFiniteSet(C) /\ Cardinality(C) <= l
  <2>1. 0 \in Int /\ l - 1 \in Int /\ 0 <= (l - 1) + 1 /\ ((l - 1) - 0) + 1 = l
    BY <1>1
  <2>2. IsFiniteSet(C) /\ Cardinality(C) <= ((l - 1) - 0) + 1
    BY <2>1, ImageBound
  <2> HIDE DEF C
  <2> QED BY <2>1, <2>2
<1> HIDE DEF B, C
<1>5. IsFiniteSet(B \cup C) /\ Cardinality(B \cup C) <= K + l
  BY ONLY <1>1, <1>3, <1>4, K \in Nat, UnionBound
<1>6. K + l \in Int /\ K + l <= K + NLAYER - 1
  BY <1>1
<1>7. IsFiniteSet(log) /\ Cardinality(log) \in Nat /\ Cardinality(log) <= K + l
  BY <1>2, <1>5, <1>6, Within
<1> QED BY <1>1, <1>6, <1>7

\* What a part takes from the bitmap is behind the pointers that it makes.
LEMMA TakenIs ==
  ASSUME NEW n, NEW at, Good(Disk, n, at), NEW f \in Files, NEW first \in Nat, NEW c \in Nat,
         first + c <= MAXFILE, first <= n[f], NEW e, e = Written(f, first, c), ~e.panic
  PROVE  \E to : /\ e.log \subseteq Bits \cup {<<"block", to[v]>> : v \in Marked(n, f, first, first + c)}
                 /\ e.log \cap Bits
                      \subseteq {BitmapBlock(to[v]) : v \in Needed(Grown(n, f, first + c)) \ Needed(n)}
<1> DEFINE N == Needed(n)
           G == Needed(Grown(n, f, first + c))
<1>1. PICK to : /\ Parted(e, to, n, f, first, first + c) /\ \A v \in N : to[v] = at[v]
  <2>1. \E to : /\ Parted(e, to, n, f, first, first + c) /\ \A v \in Needed(n) : to[v] = at[v]
    BY WrittenIs
  <2> QED BY <2>1
<1>2. Booked(e, Disk)
  <2>1. Disk \in Disks
    BY DiskType DEF Good
  <2> QED BY <2>1, WrittenBooks
<1>3. Disk.log = {} /\ Disk.bitmap = {at[v] : v \in N}
  <2>1. Sound(Disk, Needed(n), at)
    BY DEF Good
  <2>2. Disk.bitmap = {at[v] : v \in Needed(n)}
    BY <2>1 DEF Sound
  <2> QED BY <2>2 DEF Disk
<1>4. e.bitmap = {to[v] : v \in G} /\ e.log \subseteq Bits \cup {<<"block", to[v]>> : v \in Marked(n, f, first, first + c)}
  BY <1>1 DEF Parted, Good, Sound
<1> HIDE DEF N, G
<1>5. e.bitmap \ Disk.bitmap \subseteq {to[v] : v \in G \ N}
  BY <1>1, <1>3, <1>4
<1>6. e.log \cap Bits \subseteq {BitmapBlock(b) : b \in e.bitmap \ Disk.bitmap}
  BY <1>2, <1>3 DEF Booked
<1>7. e.log \cap Bits \subseteq {BitmapBlock(to[v]) : v \in G \ N}
  BY <1>5, <1>6
<1> QED BY <1>4, <1>7 DEF G, N

\* The most blocks that any part logs.
Capacity == MAXOPBLOCKS + 2 * NLAYER - 3

LEMMA PartCost ==
  ASSUME PartsFit, LInv, NEW f \in Files, NEW off \in Nat, NEW n \in Nat \ {0}, WritePart(f, off, n)
  PROVE  \/ most' = most
         \/ \E w : /\ Cardinality(w.log) \in Nat /\ Cardinality(w.log) + 1 <= Capacity
                   /\ most' = Larger(most, Cardinality(w.log) + IF off + n > size[f] THEN 1 ELSE 0)
<1>1. size \in [Files -> 0 .. 2 * MAXFILE]
  BY DEF LInv
<1>2. PICK at : Good(Disk, Counts, at)
  BY CountsAre DEF LInv, Good
<1>3. PICK w : /\ w = Written(f, First(off), Span(off, n))
               /\ \/ /\ panic' = TRUE
                     /\ UNCHANGED <<bitmap, addrs, ptrs, data, size, most, truncs>>
                  \/ ~w.panic /\ Parts(f, off, n, w)
  BY WritePartIs
<1>4. CASE UNCHANGED <<bitmap, addrs, ptrs, data, size, most, truncs>>
  BY <1>4
<1>5. CASE ~w.panic /\ Parts(f, off, n, w)
  <2> DEFINE a == First(off)
             c == Span(off, n)
             s == size[f]
             K == MaxPart \div 2
             N == Counts[f]
  <2>1. s \in 0 .. 2 * MAXFILE /\ off <= s /\ off + n <= 2 * MAXFILE /\ N = (s + 1) \div 2
        /\ n <= MaxPart
    BY <1>1, WritePartIs, CountsAre
  <2>2. a \in Nat /\ c \in Nat \ {0} /\ a + c <= MAXFILE /\ a <= N
    <3> HIDE DEF s, N
    <3>1. First(off) \in Nat /\ Span(off, n) \in Nat \ {0}
          /\ First(off) + Span(off, n) <= MAXFILE /\ First(off) <= (s + 1) \div 2
      BY <2>1, SpanIs
    <3> QED BY <2>1, <3>1
  <2>3. K \in Nat /\ c <= K + 1 /\ a + c <= N + K /\ 2 * K + 4 <= MAXOPBLOCKS /\ K < NINDIRECT
    <3>1. K = (MAXOPBLOCKS - 1 - 1 - 2) \div 2 /\ MaxPart = 2 * K /\ K \in 1 .. NINDIRECT - 1
      BY DEF MaxPart, PartsFit
    <3> HIDE DEF K, N, s
    <3> QED BY <2>1, <3>1 DEF Span, First, Last
  <2>4. Counts \in [Files -> 0 .. MAXFILE] /\ NLAYER \in Nat /\ MAXFILE \in Nat /\ N \in Nat
    BY <1>1, CountsAre, LayersIs, MaxFileIs
  <2> HIDE DEF a, c, K, s
  <2>5. PICK to : /\ w.log \subseteq Bits \cup {<<"block", to[v]>> : v \in Marked(Counts, f, a, a + c)}
                  /\ w.log \cap Bits
                       \subseteq {BitmapBlock(to[v]) : v \in Needed(Grown(Counts, f, a + c)) \ Needed(Counts)}
    <3> HIDE DEF N
    <3>1. w = Written(f, a, c) /\ ~w.panic
      BY <1>3, <1>5 DEF a, c
    <3>2. a \in Nat /\ c \in Nat /\ a + c <= MAXFILE /\ a <= Counts[f]
      BY <2>2 DEF N
    <3> QED BY ONLY <1>2, <3>1, <3>2, f \in Files, TakenIs
  <2>6. a < a + c /\ a + c <= a + NINDIRECT /\ a + c \in Nat
    BY <2>2, <2>3
  <2>7. PICK p : \E h \in 0 .. MAXFILE - 1 : MarkedFew(Marked(Counts, f, a, a + c), f, a, a + c, p, h)
    BY <2>2, <2>4, <2>6, MarkedIsFew
  <2>8. PICK h \in 0 .. MAXFILE - 1 : MarkedFew(Marked(Counts, f, a, a + c), f, a, a + c, p, h)
    BY <2>7
  <2>9. PICK i \in 0 .. MAXFILE - 1 : NewFew(Needed(Grown(Counts, f, a + c)) \ Needed(Counts), f, N, (a + c) - 1, i)
    <3>1. a \in Nat /\ a + c <= MAXFILE /\ a <= N
      BY <2>2
    <3> QED BY <2>4, <2>6, <3>1, NewIsFew
  <2> DEFINE log == w.log
             M == Marked(Counts, f, a, a + c)
             X == Needed(Grown(Counts, f, a + c)) \ Needed(Counts)
             from == (a + c) - K
             A == log \ Bits
             B == log \cap Bits
  <2>10. A \subseteq {<<"block", to[v]>> : v \in M} /\ B \subseteq {BitmapBlock(to[v]) : v \in X}
    BY <2>5
  <2>11. from \in Int /\ (from + K) - 1 = (a + c) - 1 /\ N .. (a + c) - 1 \subseteq from .. (a + c) - 1
    <3> HIDE DEF N
    <3> QED BY <2>2, <2>3, <2>4
  <2>12. NewFew(X, f, from, (from + K) - 1, i)
    <3>1. {<<f, Leaf(b)>> : b \in N .. (a + c) - 1} \subseteq {<<f, Leaf(b)>> : b \in from .. (from + K) - 1}
      BY <2>11
    <3>2. NewFew(X, f, N, (a + c) - 1, i)
      BY <2>9
    <3> HIDE DEF X, from, N
    <3> QED BY <3>1, <3>2 DEF NewFew
  <2>13. MarkedFew(M, f, a, a + c, p, h) /\ c \in Nat
    BY <2>2, <2>8
  <2> HIDE DEF log, M, X, from
  <2>14. IsFiniteSet(A) /\ Cardinality(A) <= c + NLAYER
    BY ONLY <2>2, <2>8, <2>10, <2>13, BlocksBound
  <2>15. IsFiniteSet(B) /\ Cardinality(B) <= K + NLAYER - 1
    <3>1. from \in Int /\ K \in Nat /\ i \in 0 .. MAXFILE - 1
      BY <2>3, <2>9, <2>11
    <3>2. B \subseteq {BitmapBlock(to[v]) : v \in X}
      BY <2>10
    <3> HIDE DEF B
    <3> QED BY ONLY <2>12, <3>1, <3>2, BitsBound
  <2>16. log = A \cup B /\ NLAYER # 0
    <3>1. h \in 0 .. MAXFILE - 1 /\ LayerOf(FirstBlock, h) \in 0 .. NLAYER - 1
      BY <2>8, WayIs
    <3> QED BY <2>4, <3>1
  <2> HIDE DEF A, B
  <2>17. IsFiniteSet(log) /\ Cardinality(log) <= (c + NLAYER) + (K + NLAYER - 1)
    <3>1. c + NLAYER \in Nat /\ K + NLAYER - 1 \in Nat
      BY <2>3, <2>4, <2>13, <2>16
    <3>2. IsFiniteSet(A \cup B) /\ Cardinality(A \cup B) <= (c + NLAYER) + (K + NLAYER - 1)
      BY ONLY <2>14, <2>15, <3>1, UnionBound
    <3> QED BY <2>16, <3>2
  <2>18. Cardinality(log) \in Nat
    BY <2>17, FS_CardinalityType
  <2>19. Cardinality(log) + 1 <= Capacity
    <3>1. MAXOPBLOCKS \in Nat
      BY LevelAssumption
    <3> QED BY <2>3, <2>4, <2>13, <2>17, <2>18, <3>1 DEF Capacity
  <2>20. most' = Larger(most, Cardinality(log) + IF off + n > size[f] THEN 1 ELSE 0)
    BY <1>5 DEF Parts, log
  <2> QED BY <2>18, <2>19, <2>20 DEF log
<1> QED BY <1>3, <1>4, <1>5

(* PartBound: a part of a write logs at most its blocks, the way that       *)
(* enters the deepest layer, the inode and a bitmap block for each new one   *)
(* of them, as long as half of a part is less than an indirect block has     *)
(* pointers (PartsFit, as in P4).  No disk is so large, and no bitmap so     *)
(* scattered, that a part logs more.                                         *)
THEOREM PartFits == PartsFit => (Spec => []PartBound)
<1> SUFFICES ASSUME PartsFit PROVE Spec => []PartBound
  OBVIOUS
<1> DEFINE Bounded == most \in Nat /\ most <= Capacity
<1>1. Init => Bounded
  <2>1. MAXOPBLOCKS >= 6 /\ MAXOPBLOCKS \in Nat /\ NLAYER \in Nat
    BY LevelAssumption, LayersIs DEF PartsFit, MaxPart
  <2>2. 0 <= Capacity
    BY <2>1 DEF Capacity
  <2> QED BY <2>2 DEF Init
<1>2. LInv /\ Bounded /\ [Next]_vars => Bounded'
  <2> SUFFICES ASSUME LInv, Bounded, [Next]_vars PROVE Bounded'
    OBVIOUS
  <2>1. ASSUME NEW f \in Files, NEW k \in Backs, size[f] - k \in Nat, NEW n \in Lengths,
               WritePart(f, size[f] - k, n)
        PROVE  Bounded'
    <3> DEFINE off == size[f] - k
    <3>1. n \in Nat \ {0} /\ off \in Nat /\ WritePart(f, off, n)
      BY <2>1
    <3> HIDE DEF off
    <3>2. \/ most' = most
          \/ \E w : /\ Cardinality(w.log) \in Nat /\ Cardinality(w.log) + 1 <= Capacity
                    /\ most' = Larger(most, Cardinality(w.log) + IF off + n > size[f] THEN 1 ELSE 0)
      BY <3>1, PartCost
    <3>3. Capacity \in Int
      BY LevelAssumption, LayersIs DEF Capacity
    <3>4. ASSUME NEW w, Cardinality(w.log) \in Nat, Cardinality(w.log) + 1 <= Capacity,
                 NEW e \in {0, 1}, most' = Larger(most, Cardinality(w.log) + e)
          PROVE  Bounded'
      BY <3>3, <3>4 DEF Larger
    <3>5. (IF off + n > size[f] THEN 1 ELSE 0) \in {0, 1}
      OBVIOUS
    <3> QED BY <3>2, <3>4, <3>5
  <2>2. ASSUME NEW f \in Files, Itrunc(f)
        PROVE  Bounded'
    BY <2>2 DEF Itrunc
  <2>3. CASE UNCHANGED vars
    BY <2>3 DEF vars
  <2> QED BY <2>1, <2>2, <2>3 DEF Next
<1>3. Bounded => PartBound
  BY DEF PartBound, Capacity
<1> QED BY <1>1, <1>2, <1>3, Invariance, PTL DEF Spec

=============================================================================
