---------------------------- MODULE MemoryProofs ----------------------------
(***************************************************************************)
(* Theorems about Memory, for any number of processes, frames and pages:   *)
(* whatever fails half way, a frame is free once or held once, and what    *)
(* lies below a size has an entry.                                         *)
(***************************************************************************)
EXTENDS MemoryInv, FiniteSetTheorems, WellFoundedInduction, TLAPS

-----------------------------------------------------------------------------
(* Induction and recursion over an initial interval of the naturals *)

(* The natural numbers are well ordered. *)
LEMMA LeastElement ==
  ASSUME NEW S, S \subseteq Nat, S # {}
  PROVE  \E n \in S : \A m \in S : n <= m
<1> DEFINE R == OpToRel(<, Nat)
<1>1. IsWellFoundedOn(R, Nat)
  BY NatLessThanWellFounded
<1>2. \A x, y \in Nat : <<x, y>> \in R <=> x < y
  BY DEF OpToRel
<1> HIDE DEF R
<1>3. PICK x \in S : \A y \in S : ~ (<<y, x>> \in R)
  BY <1>1, WFMin
<1>4. \A y \in S : x <= y
  <2> TAKE y \in S
  <2>1. ~ (y < x)
    BY <1>2, <1>3
  <2>2. x \in Int /\ y \in Int
    OBVIOUS
  <2> QED BY <2>1, <2>2
<1> QED BY <1>4

(* Induction: what holds of 0 and passes from k to k + 1 holds up to n. *)
LEMMA UpTo ==
  ASSUME NEW S, NEW n \in Nat, 0 \in S,
         \A k \in 0 .. n - 1 : k \in S => k + 1 \in S
  PROVE  \A k \in 0 .. n : k \in S
<1> DEFINE F == {k \in 0 .. n : k \notin S}
<1> SUFFICES ASSUME F # {} PROVE FALSE
  OBVIOUS
<1>1. F \subseteq Nat
  OBVIOUS
<1>2. PICK k \in F : \A m \in F : k <= m
  <2> HIDE DEF F
  <2> QED BY LeastElement, <1>1
<1>3. k # 0 /\ k - 1 \in 0 .. n - 1 /\ k - 1 \notin F
  BY <1>2
<1> QED BY <1>3

(* A function defined by recursion from 0 to n exists: it is what its       *)
(* definition says, and its values have the type of the steps.             *)
Unfolds(f, n, a, step) ==
  f = [k \in 0 .. n |-> IF k = 0 THEN a ELSE step[<<f[k - 1], k>>]]

LEMMA RecursionExists ==
  ASSUME NEW n \in Nat, NEW T, NEW a \in T, NEW step \in [T \X (1 .. n) -> T]
  PROVE  \E f \in [0 .. n -> T] : Unfolds(f, n, a, step)
<1> DEFINE S == {m \in 0 .. n : \E f \in [0 .. m -> T] :
                   f = [k \in 0 .. m |-> IF k = 0 THEN a ELSE step[<<f[k - 1], k>>]]}
<1>1. 0 \in S
  <2> DEFINE f == [k \in 0 .. 0 |-> a]
  <2>1. f = [k \in 0 .. 0 |-> IF k = 0 THEN a ELSE step[<<f[k - 1], k>>]]
    <3>1. \A k \in 0 .. 0 : a = IF k = 0 THEN a ELSE step[<<f[k - 1], k>>]
      OBVIOUS
    <3> QED BY <3>1
  <2>2. f \in [0 .. 0 -> T]
    OBVIOUS
  <2>3. 0 \in 0 .. n
    OBVIOUS
  <2>4. \E f1 \in [0 .. 0 -> T] :
          f1 = [k \in 0 .. 0 |-> IF k = 0 THEN a ELSE step[<<f1[k - 1], k>>]]
    <3> HIDE DEF f
    <3> QED BY <2>1, <2>2
  <2> QED BY <2>3, <2>4
<1>2. ASSUME NEW m \in 0 .. n - 1, m \in S
      PROVE  m + 1 \in S
  <2>1. PICK f \in [0 .. m -> T] :
          f = [k \in 0 .. m |-> IF k = 0 THEN a ELSE step[<<f[k - 1], k>>]]
    BY <1>2
  <2>2. \A k \in 0 .. m : f[k] = IF k = 0 THEN a ELSE step[<<f[k - 1], k>>]
    BY <2>1
  <2> DEFINE g == [k \in 0 .. m + 1 |-> IF k <= m THEN f[k] ELSE step[<<f[m], m + 1>>]]
             h == [k \in 0 .. m + 1 |-> IF k = 0 THEN a ELSE step[<<g[k - 1], k>>]]
  <2>3. <<f[m], m + 1>> \in T \X (1 .. n)
    OBVIOUS
  <2>4. step[<<f[m], m + 1>>] \in T
    BY <2>3
  <2>5. g \in [0 .. m + 1 -> T]
    BY <2>4
  <2>6. ASSUME NEW k \in 0 .. m + 1
        PROVE  g[k] = h[k]
    <3>0. h[k] = IF k = 0 THEN a ELSE step[<<g[k - 1], k>>]
      OBVIOUS
    <3> HIDE DEF h
    <3>1. CASE k = 0
      <4>1. 0 \in 0 .. m /\ g[0] = f[0]
        OBVIOUS
      <4>2. f[0] = a
        BY <2>2, <4>1
      <4> QED BY <3>0, <3>1, <4>1, <4>2
    <3>2. CASE k \in 1 .. m
      <4>1. g[k] = f[k] /\ g[k - 1] = f[k - 1] /\ k \in 0 .. m /\ k # 0
        BY <3>2
      <4> QED BY <4>1, <2>2, <3>0
    <3>3. CASE k = m + 1
      <4>1. g[k - 1] = f[m] /\ g[k] = step[<<f[m], m + 1>>] /\ k # 0
        BY <3>3
      <4> QED BY <4>1, <3>0, <3>3
    <3> QED BY <3>1, <3>2, <3>3
  <2>7. g = h
    <3> HIDE DEF g
    <3>1. g = [k \in 0 .. m + 1 |-> g[k]]
      BY <2>5
    <3> QED BY <3>1, <2>6
  <2>8. m + 1 \in 0 .. n
    OBVIOUS
  <2>9. \E f1 \in [0 .. m + 1 -> T] :
          f1 = [k \in 0 .. m + 1 |-> IF k = 0 THEN a ELSE step[<<f1[k - 1], k>>]]
    <3> HIDE DEF g
    <3> QED BY <2>5, <2>7
  <2> QED BY <2>8, <2>9
<1>3. n \in S
  <2> HIDE DEF S
  <2>1. \A k \in 0 .. n : k \in S
    BY <1>1, <1>2, UpTo
  <2> QED BY <2>1
<1> QED BY <1>3 DEF Unfolds

-----------------------------------------------------------------------------

USE MemoryAssumption

(* Sizes and pages. *)
LEMMA WordIs == WORD \in Nat /\ WORD = 4 * NPAGES /\ WORD >= 4 /\ NPAGES >= 1
BY DEF WORD

LEMMA WrapIs == \A n \in Int : Wrap(n) \in 0..(WORD - 1)
<1>1. \A n \in Int, w \in Nat \ {0} : n % w \in 0..(w - 1)
  OBVIOUS
<1> QED BY <1>1, WordIs DEF Wrap

LEMMA CountIs ==
  ASSUME NEW s \in Nat
  PROVE  /\ PageCount(s) \in Nat
         /\ 2 * PageCount(s) \in {s, s + 1}
         /\ \A a \in Nat : a < PageCount(s) <=> 2 * a < s
<1>1. (s + 1) \div 2 \in Nat /\ 2 * ((s + 1) \div 2) \in {s, s + 1}
  OBVIOUS
<1> QED BY <1>1 DEF PageCount

LEMMA UpPageIs ==
  ASSUME NEW s \in 0..(WORD - 1)
  PROVE  UpPage(s) = IF s = WORD - 1 THEN 0 ELSE PageCount(s)
<1> DEFINE W == WORD
<1>0. W \in Nat \ {0} /\ s \in 0..(W - 1)
  BY WordIs
<1> HIDE DEF W
<1>1. CASE s = W - 1
  <2>1. W % W = 0
    BY <1>0
  <2>2. s + 1 = W /\ 0 \div 2 = 0
    BY <1>0, <1>1
  <2> QED BY <1>1, <2>1, <2>2 DEF UpPage, Wrap, W
<1>2. CASE s # W - 1
  <2>1. \A n \in 0..(W - 1) : n % W = n
    BY <1>0
  <2>2. s + 1 \in 0..(W - 1)
    BY <1>0, <1>2
  <2> QED BY <1>2, <2>1, <2>2 DEF UpPage, Wrap, PageCount, W
<1> QED BY <1>1, <1>2 DEF W

LEMMA PageIs == \A a \in Pages : a \in Nat /\ a < NPAGES /\ a \div PERTABLE \in Tables
<1> SUFFICES ASSUME NEW a \in Pages PROVE a \in Nat /\ a < NPAGES /\ a \div PERTABLE \in Tables
  OBVIOUS
<1>1. a \in Nat /\ a <= NPAGES - 1 /\ NPAGES - 1 \in Nat
  BY DEF Pages
<1>2. a \div PERTABLE \in Nat /\ (NPAGES - 1) \div PERTABLE \in Nat
  BY <1>1
<1>3. a \div PERTABLE <= (NPAGES - 1) \div PERTABLE
  BY <1>1
<1> QED BY <1>1, <1>2, <1>3 DEF Tables

-----------------------------------------------------------------------------
(* The places of a page table *)

LEMMA SpotIs ==
  \A x : x \in Spots <=> \/ x = <<"dir", 0>> \/ x = <<"ktab", 0>>
                         \/ \E t \in Tables : x = <<"tab", t>>
                         \/ \E a \in Pages : x = <<"page", a>>
BY DEF Spots

LEMMA FrameAtIs ==
  ASSUME NEW pt
  PROVE  /\ FrameAt(pt, <<"dir", 0>>) = pt.dir
         /\ FrameAt(pt, <<"ktab", 0>>) = pt.ktab
         /\ \A t : FrameAt(pt, <<"tab", t>>) = pt.tabs[t]
         /\ \A a : FrameAt(pt, <<"page", a>>) = pt.pte[a].frame
BY DEF FrameAt

LEMMA FrameAtTyped ==
  ASSUME NEW pt \in PageTable, NEW x \in Spots
  PROVE  FrameAt(pt, x) \in 0..NFRAMES
<1>1. \A a \in Pages : pt.pte[a].frame \in 0..NFRAMES
  BY DEF PageTable, Entry
<1>2. \A t \in Tables : pt.tabs[t] \in 0..NFRAMES
  BY DEF PageTable
<1> QED BY <1>1, <1>2, SpotIs, FrameAtIs DEF PageTable

(* A place gets a new frame. *)
Put(r, pt, x, f) == \A y \in Spots : FrameAt(r, y) = IF y = x THEN f ELSE FrameAt(pt, y)

LEMMA NoTableIs ==
  /\ NoTable \in PageTable /\ Tidy(NoTable)
  /\ \A x \in Spots : FrameAt(NoTable, x) = 0
<1>1. NoTable \in PageTable
  BY DEF NoTable, PageTable, Entry, None
<1>2. Tidy(NoTable)
  BY DEF NoTable, Tidy, None, Present
<1>3. \A x \in Spots : FrameAt(NoTable, x) = 0
  BY SpotIs, FrameAtIs DEF NoTable, None
<1> QED BY <1>1, <1>2, <1>3

-----------------------------------------------------------------------------
(* The free list *)

(* kalloc() finds a frame as long as there is one.                         *)
LEMMA KallocIs ==
  ASSUME NEW m, m.free \in [Frames -> 0..1]
  PROVE  /\ Kalloc(m) # 0 => Kalloc(m) \in Frames /\ m.free[Kalloc(m)] = 1
         /\ Kalloc(m) \in 0..NFRAMES
         /\ Kalloc(m) = 0 => \A f \in Frames : m.free[f] = 0
<1>1. CASE \A f \in Frames : m.free[f] = 0
  BY <1>1 DEF Kalloc
<1>2. CASE ~ \A f \in Frames : m.free[f] = 0
  <2> DEFINE S == {f \in Frames : m.free[f] > 0}
  <2>1. S \subseteq Nat /\ S # {}
    BY <1>2 DEF Frames
  <2>2. PICK f \in S : \A g \in S : f <= g
    <3> HIDE DEF S
    <3> QED BY <2>1, LeastElement
  <2>3. \E f1 \in Frames : m.free[f1] > 0 /\ \A g \in Frames : m.free[g] > 0 => f1 <= g
    BY <2>2
  <2>4. Kalloc(m) = CHOOSE f1 \in Frames : m.free[f1] > 0 /\ \A g \in Frames : m.free[g] > 0 => f1 <= g
    BY <1>2 DEF Kalloc
  <2>5. Kalloc(m) \in Frames /\ m.free[Kalloc(m)] > 0
    BY <2>3, <2>4
  <2> QED BY <2>5 DEF Frames
<1> QED BY <1>1, <1>2

(* What kalloc() and kfree() do to a record, and that they keep its type.   *)
LEMMA TakenIs ==
  ASSUME NEW m \in Record, NEW f, NEW r, r = Taken(m, f)
  PROVE  /\ r \in Record /\ r.pt = m.pt /\ r.ok = m.ok /\ r.panic = m.panic
         /\ \A g \in Frames : r.free[g] = IF g = f THEN m.free[g] - 1 ELSE m.free[g]
<1>1. r = [m EXCEPT !.free = [m.free EXCEPT ![f] = m.free[f] - 1]]
  BY DEF Taken, Record
<1>2. [m.free EXCEPT ![f] = m.free[f] - 1] \in [Frames -> Int]
  <2>1. m.free \in [Frames -> Int]
    BY DEF Record
  <2>2. CASE f \in Frames
    BY <2>1, <2>2
  <2>3. CASE f \notin Frames
    BY <2>1, <2>3
  <2> QED BY <2>2, <2>3
<1> QED BY <1>1, <1>2 DEF Record

Gives(r, m, S) == r.free = [f \in Frames |-> m.free[f] + IF f \in S THEN 1 ELSE 0]

LEMMA KFreeIs ==
  ASSUME NEW m \in Record, NEW S, NEW r, r = KFree(m, S)
  PROVE  r \in Record /\ r.pt = m.pt /\ r.ok = m.ok /\ r.panic = m.panic /\ Gives(r, m, S)
<1>1. [f \in Frames |-> m.free[f] + IF f \in S THEN 1 ELSE 0] \in [Frames -> Int]
  <2>1. \A f \in Frames : m.free[f] + (IF f \in S THEN 1 ELSE 0) \in Int
    BY DEF Record
  <2> QED BY <2>1
<1> QED BY <1>1 DEF KFree, Record, Gives

-----------------------------------------------------------------------------
(* Sound records *)

(* Taking the frame that kalloc() found: from now on somebody holds it.     *)
LEMMA TakenSound ==
  ASSUME NEW m, NEW H, Sound(m, H), NEW f \in Frames, m.free[f] = 1
  PROVE  Sound(Taken(m, f), H \cup {f})
<1> DEFINE r == Taken(m, f)
<1>1. m \in Record /\ m.free \in [Frames -> 0..1]
  BY DEF Sound
<1>2. /\ r \in Record /\ r.pt = m.pt
      /\ \A g \in Frames : r.free[g] = IF g = f THEN m.free[g] - 1 ELSE m.free[g]
  BY <1>1, TakenIs
<1> HIDE DEF r
<1>3. r.free \in [Frames -> 0..1] /\ r.free[f] = 0
  <2>1. r.free \in [Frames -> Int]
    BY <1>2 DEF Record
  <2>2. \A g \in Frames : r.free[g] \in 0..1
    BY <1>1, <1>2
  <2> QED BY <2>1, <2>2, <1>2
<1>4. \A x \in Spots : FrameAt(m.pt, x) # 0 =>
        FrameAt(m.pt, x) \in Frames /\ m.free[FrameAt(m.pt, x)] = 0 /\ FrameAt(m.pt, x) \notin H
        /\ \A y \in Spots : FrameAt(m.pt, y) = FrameAt(m.pt, x) => y = x
  BY <1>1, FrameAtTyped DEF Sound, Record, Frames
<1>5. \A x \in Spots : FrameAt(r.pt, x) # 0 =>
        /\ r.free[FrameAt(r.pt, x)] = 0 /\ FrameAt(r.pt, x) \notin H \cup {f}
        /\ \A y \in Spots : FrameAt(r.pt, y) = FrameAt(r.pt, x) => y = x
  BY <1>2, <1>4
<1>6. \A g \in Frames : r.free[g] = 1 \/ g \in H \cup {f} \/ \E x \in Spots : FrameAt(r.pt, x) = g
  BY <1>2 DEF Sound
<1>7. H \cup {f} \subseteq Frames /\ \A g \in H \cup {f} : r.free[g] = 0
  BY <1>2, <1>3 DEF Sound
<1> QED BY <1>2, <1>3, <1>5, <1>6, <1>7 DEF Sound, r

(* Giving back frames that are held elsewhere.                             *)
LEMMA GivenSound ==
  ASSUME NEW m, NEW H, Sound(m, H), NEW S, S \subseteq H \cup {0}
  PROVE  Sound(KFree(m, S), H \ S)
<1> DEFINE r == KFree(m, S)
<1>1. m \in Record /\ m.free \in [Frames -> 0..1] /\ H \subseteq Frames
  BY DEF Sound
<1>2. r \in Record /\ r.pt = m.pt /\ Gives(r, m, S)
  BY <1>1, KFreeIs
<1> HIDE DEF r
<1>3. \A f \in Frames : f \in S => m.free[f] = 0 /\ f \in H
  BY DEF Sound, Frames
<1>4. r.free \in [Frames -> 0..1]
  <2>1. \A f \in Frames : m.free[f] + (IF f \in S THEN 1 ELSE 0) \in 0..1
    BY <1>1, <1>3
  <2> QED BY <1>2, <2>1 DEF Gives
<1>5. \A f \in Frames : r.free[f] = IF f \in S THEN 1 ELSE m.free[f]
  BY <1>1, <1>2, <1>3 DEF Gives
<1>6. \A x \in Spots : FrameAt(m.pt, x) # 0 =>
        FrameAt(m.pt, x) \in Frames /\ m.free[FrameAt(m.pt, x)] = 0 /\ FrameAt(m.pt, x) \notin H
        /\ \A y \in Spots : FrameAt(m.pt, y) = FrameAt(m.pt, x) => y = x
  BY <1>1, FrameAtTyped DEF Sound, Record, Frames
<1>7. \A x \in Spots : FrameAt(r.pt, x) # 0 =>
        /\ r.free[FrameAt(r.pt, x)] = 0 /\ FrameAt(r.pt, x) \notin H \ S
        /\ \A y \in Spots : FrameAt(r.pt, y) = FrameAt(r.pt, x) => y = x
  BY <1>2, <1>3, <1>5, <1>6
<1>8. \A g \in Frames : r.free[g] = 1 \/ g \in H \ S \/ \E x \in Spots : FrameAt(r.pt, x) = g
  BY <1>2, <1>5 DEF Sound
<1>9. H \ S \subseteq Frames /\ \A g \in H \ S : r.free[g] = 0
  BY <1>1, <1>5 DEF Sound
<1> QED BY <1>2, <1>4, <1>7, <1>8, <1>9 DEF Sound, r

(* A frame in hand is put in an empty place.                               *)
LEMMA PutSound ==
  ASSUME NEW m, NEW H, Sound(m, H), NEW f \in H, NEW x \in Spots, FrameAt(m.pt, x) = 0,
         NEW r \in Record, r.free = m.free, Put(r.pt, m.pt, x, f), Tidy(r.pt)
  PROVE  Sound(r, H \ {f})
<1>1. m \in Record /\ m.free \in [Frames -> 0..1] /\ H \subseteq Frames /\ f \in Frames /\ m.free[f] = 0
  BY DEF Sound
<1>2. \A y \in Spots : FrameAt(r.pt, y) = IF y = x THEN f ELSE FrameAt(m.pt, y)
  BY DEF Put
<1>3. \A y \in Spots : FrameAt(m.pt, y) # 0 =>
        m.free[FrameAt(m.pt, y)] = 0 /\ FrameAt(m.pt, y) \notin H
        /\ \A z \in Spots : FrameAt(m.pt, z) = FrameAt(m.pt, y) => z = y
  BY DEF Sound
<1>4. ASSUME NEW y \in Spots, FrameAt(r.pt, y) # 0
      PROVE  /\ r.free[FrameAt(r.pt, y)] = 0 /\ FrameAt(r.pt, y) \notin H \ {f}
             /\ \A z \in Spots : FrameAt(r.pt, z) = FrameAt(r.pt, y) => z = y
  BY <1>1, <1>2, <1>3, <1>4
<1>5. \A g \in Frames : r.free[g] = 1 \/ g \in H \ {f} \/ \E y \in Spots : FrameAt(r.pt, y) = g
  <2> TAKE g \in Frames
  <2>1. CASE g = f
    BY <2>1, <1>2
  <2>2. CASE g # f
    <3>1. m.free[g] = 1 \/ g \in H \/ \E y \in Spots : FrameAt(m.pt, y) = g
      BY DEF Sound
    <3>2. \A y \in Spots : FrameAt(m.pt, y) = g => FrameAt(r.pt, y) = g
      BY <1>2 DEF Frames
    <3> QED BY <2>2, <3>1, <3>2
  <2> QED BY <2>1, <2>2
<1>6. H \ {f} \subseteq Frames /\ \A g \in H \ {f} : r.free[g] = 0
  BY <1>1 DEF Sound
<1> QED BY <1>1, <1>4, <1>5, <1>6 DEF Sound

(* The same frames in the same places.                                     *)
LEMMA SameFrames ==
  ASSUME NEW m, NEW H, Sound(m, H), NEW r \in Record, r.free = m.free, Tidy(r.pt),
         \A x \in Spots : FrameAt(r.pt, x) = FrameAt(m.pt, x)
  PROVE  Sound(r, H)
BY DEF Sound

(* Nothing but the verdict changes.                                        *)
LEMMA SameSound ==
  ASSUME NEW m, NEW H, Sound(m, H), NEW r \in Record, r.free = m.free, r.pt = m.pt
  PROVE  Sound(r, H)
<1>1. Tidy(r.pt)
  BY DEF Sound
<1> QED BY <1>1, SameFrames

LEMMA FailIs ==
  ASSUME NEW m \in Record, NEW r, r = Fail(m)
  PROVE  r \in Record /\ r.free = m.free /\ r.pt = m.pt /\ ~r.ok /\ r.panic = m.panic
BY DEF Fail, Record

LEMMA PanicIs ==
  ASSUME NEW m \in Record, NEW why \in Panics, NEW r, r = Panic(m, why)
  PROVE  r \in Record /\ r.free = m.free /\ r.pt = m.pt /\ r.ok = m.ok /\ r.panic = why
BY DEF Panic, Record

(* A record with one place of its page table set.                          *)
LEMMA SetEntryIs ==
  ASSUME NEW m \in Record, NEW a \in Pages, NEW e \in Entry,
         NEW r, r = SetEntry(m, a, e)
  PROVE  /\ r \in Record /\ r.free = m.free /\ r.ok = m.ok /\ r.panic = m.panic
         /\ Put(r.pt, m.pt, <<"page", a>>, e.frame)
         /\ r.pt.dir = m.pt.dir /\ r.pt.ktab = m.pt.ktab /\ r.pt.tabs = m.pt.tabs
         /\ r.pt.pte = [m.pt.pte EXCEPT ![a] = e]
<1>1. /\ r \in Record /\ r.free = m.free /\ r.ok = m.ok /\ r.panic = m.panic
      /\ r.pt.dir = m.pt.dir /\ r.pt.ktab = m.pt.ktab /\ r.pt.tabs = m.pt.tabs
      /\ r.pt.pte = [m.pt.pte EXCEPT ![a] = e]
  BY DEF SetEntry, Record, PageTable
<1>2. \A b \in Pages : r.pt.pte[b] = IF b = a THEN e ELSE m.pt.pte[b]
  BY <1>1 DEF Record, PageTable
<1>3. ASSUME NEW y \in Spots
      PROVE  FrameAt(r.pt, y) = IF y = <<"page", a>> THEN e.frame ELSE FrameAt(m.pt, y)
  <2>1. CASE y = <<"dir", 0>> \/ y = <<"ktab", 0>>
    <3>1. y # <<"page", a>>
      BY <2>1
    <3>2. FrameAt(r.pt, y) = FrameAt(m.pt, y)
      BY <2>1, <1>1, FrameAtIs
    <3> QED BY <3>1, <3>2
  <2>2. ASSUME NEW t \in Tables, y = <<"tab", t>>
        PROVE  FrameAt(r.pt, y) = IF y = <<"page", a>> THEN e.frame ELSE FrameAt(m.pt, y)
    <3>1. FrameAt(r.pt, y) = r.pt.tabs[t] /\ FrameAt(m.pt, y) = m.pt.tabs[t]
      BY <2>2, FrameAtIs
    <3> QED BY <2>2, <3>1, <1>1
  <2>3. ASSUME NEW b \in Pages, y = <<"page", b>>
        PROVE  FrameAt(r.pt, y) = IF y = <<"page", a>> THEN e.frame ELSE FrameAt(m.pt, y)
    <3>1. FrameAt(r.pt, y) = r.pt.pte[b].frame /\ FrameAt(m.pt, y) = m.pt.pte[b].frame
      BY <2>3, FrameAtIs
    <3>2. y = <<"page", a>> <=> b = a
      BY <2>3
    <3> QED BY <3>1, <3>2, <1>2
  <2> QED BY <2>1, <2>2, <2>3, SpotIs
<1> QED BY <1>1, <1>3 DEF Put

LEMMA SetTableIs ==
  ASSUME NEW m \in Record, NEW t \in Tables, NEW f \in 0..NFRAMES,
         NEW r, r = SetTable(m, t, f)
  PROVE  /\ r \in Record /\ r.free = m.free /\ r.ok = m.ok /\ r.panic = m.panic
         /\ Put(r.pt, m.pt, <<"tab", t>>, f)
         /\ r.pt.pte = m.pt.pte /\ r.pt.tabs = [m.pt.tabs EXCEPT ![t] = f]
<1>1. /\ r \in Record /\ r.free = m.free /\ r.ok = m.ok /\ r.panic = m.panic
      /\ r.pt.dir = m.pt.dir /\ r.pt.ktab = m.pt.ktab /\ r.pt.pte = m.pt.pte
      /\ r.pt.tabs = [m.pt.tabs EXCEPT ![t] = f]
  BY DEF SetTable, Record, PageTable
<1>2. \A u \in Tables : r.pt.tabs[u] = IF u = t THEN f ELSE m.pt.tabs[u]
  BY <1>1 DEF Record, PageTable
<1>3. ASSUME NEW y \in Spots
      PROVE  FrameAt(r.pt, y) = IF y = <<"tab", t>> THEN f ELSE FrameAt(m.pt, y)
  <2>1. CASE y = <<"dir", 0>> \/ y = <<"ktab", 0>>
    <3>1. y # <<"tab", t>>
      BY <2>1
    <3>2. FrameAt(r.pt, y) = FrameAt(m.pt, y)
      BY <2>1, <1>1, FrameAtIs
    <3> QED BY <3>1, <3>2
  <2>2. ASSUME NEW a \in Pages, y = <<"page", a>>
        PROVE  FrameAt(r.pt, y) = IF y = <<"tab", t>> THEN f ELSE FrameAt(m.pt, y)
    <3>1. FrameAt(r.pt, y) = r.pt.pte[a].frame /\ FrameAt(m.pt, y) = m.pt.pte[a].frame
      BY <2>2, FrameAtIs
    <3> QED BY <2>2, <3>1, <1>1
  <2>3. ASSUME NEW u \in Tables, y = <<"tab", u>>
        PROVE  FrameAt(r.pt, y) = IF y = <<"tab", t>> THEN f ELSE FrameAt(m.pt, y)
    <3>1. FrameAt(r.pt, y) = r.pt.tabs[u] /\ FrameAt(m.pt, y) = m.pt.tabs[u]
      BY <2>3, FrameAtIs
    <3>2. y = <<"tab", t>> <=> u = t
      BY <2>3
    <3> QED BY <3>1, <3>2, <1>2
  <2> QED BY <2>1, <2>2, <2>3, SpotIs
<1> QED BY <1>1, <1>3 DEF Put

DirSet(r, m, x, f) ==
  /\ r \in Record /\ r.free = m.free /\ r.ok = m.ok /\ r.panic = m.panic
  /\ Put(r.pt, m.pt, x, f) /\ r.pt.pte = m.pt.pte /\ r.pt.tabs = m.pt.tabs

LEMMA SetDirIs ==
  ASSUME NEW m \in Record, NEW f \in 0..NFRAMES, NEW r, r = SetDir(m, f)
  PROVE  DirSet(r, m, <<"dir", 0>>, f)
<1>1. /\ r \in Record /\ r.free = m.free /\ r.ok = m.ok /\ r.panic = m.panic
      /\ r.pt.dir = f /\ r.pt.ktab = m.pt.ktab /\ r.pt.pte = m.pt.pte /\ r.pt.tabs = m.pt.tabs
  BY DEF SetDir, Record, PageTable
<1>2. Put(r.pt, m.pt, <<"dir", 0>>, f)
  BY <1>1, SpotIs, FrameAtIs DEF Put
<1> QED BY <1>1, <1>2 DEF DirSet

LEMMA SetKtabIs ==
  ASSUME NEW m \in Record, NEW f \in 0..NFRAMES, NEW r, r = SetKtab(m, f)
  PROVE  DirSet(r, m, <<"ktab", 0>>, f)
<1>1. /\ r \in Record /\ r.free = m.free /\ r.ok = m.ok /\ r.panic = m.panic
      /\ r.pt.ktab = f /\ r.pt.dir = m.pt.dir /\ r.pt.pte = m.pt.pte /\ r.pt.tabs = m.pt.tabs
  BY DEF SetKtab, Record, PageTable
<1>2. Put(r.pt, m.pt, <<"ktab", 0>>, f)
  BY <1>1, SpotIs, FrameAtIs DEF Put
<1> QED BY <1>1, <1>2 DEF DirSet

-----------------------------------------------------------------------------
(* One page *)

(* walkpgdir() makes a page table where there is none.                     *)
Walked(r, m, a, H) ==
  /\ Sound(r, H) /\ r.panic = m.panic /\ r.pt.pte = m.pt.pte
  /\ r.ok => m.ok /\ r.pt.tabs[a \div PERTABLE] # 0

LEMMA WalkIs ==
  ASSUME NEW m, NEW H, Sound(m, H), NEW a \in Pages, NEW r, r = Walk(m, a)
  PROVE  Walked(r, m, a, H)
<1> DEFINE t == a \div PERTABLE
           f == Kalloc(m)
           v == Taken(m, f)
<1>1. t \in Tables /\ m \in Record /\ m.free \in [Frames -> 0..1]
  BY PageIs DEF Sound
<1>2. f \in 0..NFRAMES /\ (f # 0 => f \in Frames /\ m.free[f] = 1)
  BY <1>1, KallocIs
<1>3. CASE m.pt.tabs[t] # 0
  <2>1. r = m
    BY <1>3 DEF Walk
  <2> QED BY <2>1, <1>3 DEF Walked
<1>4. CASE m.pt.tabs[t] = 0 /\ f = 0
  <2>1. r = Fail(m)
    BY <1>4 DEF Walk
  <2>2. r \in Record /\ r.free = m.free /\ r.pt = m.pt /\ ~r.ok /\ r.panic = m.panic
    BY <1>1, <2>1, FailIs
  <2> QED BY <2>2, SameSound DEF Walked
<1>5. CASE m.pt.tabs[t] = 0 /\ f # 0
  <2>1. r = SetTable(v, t, f)
    BY <1>5 DEF Walk
  <2>2. v \in Record /\ v.pt = m.pt /\ v.ok = m.ok /\ v.panic = m.panic
    BY <1>1, TakenIs
  <2>3. Sound(v, H \cup {f})
    BY <1>2, <1>5, TakenSound
  <2> HIDE DEF v, t, f
  <2>4. /\ r \in Record /\ r.free = v.free /\ r.ok = v.ok /\ r.panic = v.panic
        /\ Put(r.pt, v.pt, <<"tab", t>>, f)
        /\ r.pt.pte = v.pt.pte /\ r.pt.tabs = [v.pt.tabs EXCEPT ![t] = f]
    BY <1>1, <1>2, <2>1, <2>2, SetTableIs
  <2>5. v.pt.tabs \in [Tables -> 0..NFRAMES]
    BY <2>2 DEF Record, PageTable
  <2>6. Tidy(r.pt)
    <3>1. \A b \in Pages : v.pt.tabs[b \div PERTABLE] # 0 => r.pt.tabs[b \div PERTABLE] # 0
      BY <1>1, <1>5, <2>4, <2>5, PageIs
    <3>2. Tidy(v.pt)
      BY <2>3 DEF Sound
    <3> QED BY <2>4, <3>1, <3>2 DEF Tidy
  <2>7. <<"tab", t>> \in Spots /\ FrameAt(v.pt, <<"tab", t>>) = 0
    BY <1>1, <1>5, <2>2, SpotIs, FrameAtIs
  <2>8. Sound(r, (H \cup {f}) \ {f})
    BY <2>3, <2>4, <2>6, <2>7, PutSound
  <2>9. f \notin H
    BY <1>2, <1>5 DEF Sound
  <2>10. Sound(r, H)
    <3>1. (H \cup {f}) \ {f} = H
      BY <2>9
    <3> QED BY <2>8, <3>1
  <2>11. r.pt.tabs[t] # 0
    BY <1>1, <1>5, <2>4, <2>5
  <2> QED BY <2>2, <2>4, <2>10, <2>11 DEF Walked, t
<1> QED BY <1>3, <1>4, <1>5

(* mappages(): the frame is put in its place, or is still in hand.         *)
Mapped(r, m, a, f, kind, G) ==
  /\ r \in Record
  /\ ~r.ok => Sound(r, G) /\ r.panic = m.panic /\ r.pt.pte = m.pt.pte
  /\ r.ok => m.ok
  /\ r.ok /\ r.panic = "no" =>
       a \in Pages /\ Sound(r, G \ {f})
       /\ r.pt.pte = [m.pt.pte EXCEPT ![a] = [kind |-> kind, frame |-> f]]
  /\ r.ok /\ r.panic # "no" =>
       Sound(r, G) /\ (a \notin Pages \/ Present(m.pt.pte[a])) /\ r.pt.pte = m.pt.pte

LEMMA MapPageIs ==
  ASSUME NEW m, NEW G, Sound(m, G), m.panic = "no", NEW a, NEW f \in G,
         NEW kind \in {"user", "kernel"}, NEW r, r = MapPage(m, a, f, kind)
  PROVE  Mapped(r, m, a, f, kind, G)
<1> DEFINE w == IF a \in Pages THEN Walk(m, a) ELSE m
           e == [kind |-> kind, frame |-> f]
<1>1. /\ Sound(w, G) /\ w.panic = "no" /\ w.pt.pte = m.pt.pte /\ (w.ok => m.ok)
      /\ w.ok /\ a \in Pages => w.pt.tabs[a \div PERTABLE] # 0
  <2>1. CASE a \in Pages
    BY <2>1, WalkIs DEF Walked
  <2>2. CASE a \notin Pages
    BY <2>2
  <2> QED BY <2>1, <2>2
<1>2. r = IF ~w.ok THEN w
          ELSE IF a \notin Pages \/ Present(w.pt.pte[a]) THEN Panic(w, "remap")
          ELSE SetEntry(w, a, e)
  BY DEF MapPage
<1> HIDE DEF w
<1>3. w \in Record /\ f \in Frames /\ w.ok \in BOOLEAN
  BY <1>1 DEF Sound, Record
<1>4. CASE ~w.ok
  BY <1>1, <1>2, <1>3, <1>4 DEF Mapped
<1>5. CASE w.ok /\ (a \notin Pages \/ Present(w.pt.pte[a]))
  <2>1. r = Panic(w, "remap")
    BY <1>2, <1>5
  <2>2. r \in Record /\ r.free = w.free /\ r.pt = w.pt /\ r.ok = w.ok /\ r.panic = "remap"
    <3>1. "remap" \in Panics
      BY DEF Panics
    <3> QED BY <1>3, <2>1, <3>1, PanicIs
  <2>3. Sound(r, G)
    BY <1>1, <2>2, SameSound
  <2> QED BY <1>1, <1>5, <2>2, <2>3 DEF Mapped
<1>6. CASE w.ok /\ a \in Pages /\ ~Present(w.pt.pte[a])
  <2>0. e \in Entry /\ e.frame = f /\ f # 0 /\ Present(e) /\ e # None
    BY <1>3 DEF Entry, Frames, Present, None
  <2>1. r = SetEntry(w, a, e)
    BY <1>2, <1>6
  <2> HIDE DEF e
  <2>7. a \in Pages
    BY <1>6
  <2>2. /\ r \in Record /\ r.free = w.free /\ r.ok = w.ok /\ r.panic = w.panic
        /\ Put(r.pt, w.pt, <<"page", a>>, f)
        /\ r.pt.tabs = w.pt.tabs /\ r.pt.pte = [w.pt.pte EXCEPT ![a] = e]
    BY <1>3, <2>7, <2>0, <2>1, SetEntryIs
  <2>3. Tidy(w.pt) /\ w.pt.pte \in [Pages -> Entry]
    BY <1>1, <1>3 DEF Sound, Record, PageTable
  <2>4. Tidy(r.pt)
    BY <1>1, <1>6, <2>0, <2>2, <2>3 DEF Tidy
  <2>5. <<"page", a>> \in Spots /\ FrameAt(w.pt, <<"page", a>>) = 0
    BY <1>6, <2>3, SpotIs, FrameAtIs DEF Tidy
  <2>6. Sound(r, G \ {f})
    BY <1>1, <2>2, <2>4, <2>5, PutSound
  <2> QED BY <1>1, <1>6, <2>2, <2>6 DEF Mapped, e
<1> QED BY <1>4, <1>5, <1>6

(* A turn of the loops of allocuvm(), copyuvm() and ssu_valloc(): page a    *)
(* gets an entry of the given kind, or the turn fails, or the kernel stops, *)
(* which it does not over an empty entry of a page in Q.  When it stops, a  *)
(* frame may be in nobody's hands any more.                                *)
Stopped(r) == r.ok /\ \E G : Sound(r, G)
Turned(r, m, a, kind, Q, H) ==
  /\ r \in Record
  /\ r.panic = "no" => Sound(r, H)
  /\ r.panic # "no" => Stopped(r)
  /\ r.ok => m.ok
  /\ \A b \in Pages : b # a => r.pt.pte[b] = m.pt.pte[b]
  /\ Fine(r) => a \in Pages /\ r.pt.pte[a].kind = kind
  /\ ~Fine(r) => r.pt.pte = m.pt.pte
  /\ a \in Q /\ m.pt.pte[a] = None => r.panic = "no"

LEMMA NewPageIs ==
  ASSUME NEW m, NEW H, Sound(m, H), m.panic = "no", NEW a,
         NEW kind \in {"user", "kernel"}, NEW r, r = NewPage(m, a, kind)
  PROVE  Turned(r, m, a, kind, Pages, H)
<1> DEFINE f == Kalloc(m)
           v == Taken(m, f)
           w == MapPage(v, a, f, kind)
<1>1. m \in Record /\ m.free \in [Frames -> 0..1] /\ m.pt.pte \in [Pages -> Entry]
  BY DEF Sound, Record, PageTable
<1>2. f \in 0..NFRAMES /\ (f # 0 => f \in Frames /\ m.free[f] = 1)
  BY <1>1, KallocIs
<1>3. r = IF f = 0 THEN Fail(m) ELSE IF w.ok THEN w ELSE KFree(w, {f})
  BY DEF NewPage
<1>4. CASE f = 0
  <2>1. r \in Record /\ r.free = m.free /\ r.pt = m.pt /\ ~r.ok /\ r.panic = m.panic
    BY <1>1, <1>3, <1>4, FailIs
  <2>2. Sound(r, H)
    BY <2>1, SameSound
  <2> QED BY <2>1, <2>2 DEF Turned, Fine
<1>5. CASE f # 0
  <2>1. v \in Record /\ v.pt = m.pt /\ v.ok = m.ok /\ v.panic = m.panic
    BY <1>1, TakenIs
  <2>2. Sound(v, H \cup {f})
    BY <1>2, <1>5, TakenSound
  <2>3. f \notin H
    BY <1>2, <1>5 DEF Sound
  <2>4. w = MapPage(v, a, f, kind) /\ f \in H \cup {f}
    OBVIOUS
  <2> HIDE DEF f, v, w
  <2>5. Mapped(w, v, a, f, kind, H \cup {f})
    BY <2>1, <2>2, <2>4, MapPageIs
  <2>6. (H \cup {f}) \ {f} = H
    BY <2>3
  <2>7. CASE w.ok
    <3>1. r = w
      BY <1>3, <1>5, <2>7
    <3>2. CASE w.panic = "no"
      <4>1. /\ r \in Record /\ r.ok /\ m.ok /\ a \in Pages /\ Sound(r, H)
            /\ r.pt.pte = [m.pt.pte EXCEPT ![a] = [kind |-> kind, frame |-> f]]
        BY <3>1, <3>2, <2>1, <2>5, <2>6, <2>7 DEF Mapped
      <4>2. \A b \in Pages : r.pt.pte[b] = IF b = a THEN [kind |-> kind, frame |-> f] ELSE m.pt.pte[b]
        BY <4>1, <1>1
      <4> QED BY <3>1, <3>2, <4>1, <4>2 DEF Turned, Fine
    <3>3. CASE w.panic # "no"
      <4>1. /\ r \in Record /\ r.ok /\ m.ok /\ Sound(r, H \cup {f})
            /\ a \notin Pages \/ Present(m.pt.pte[a])
            /\ r.pt.pte = m.pt.pte
        BY <3>1, <3>3, <2>1, <2>5, <2>7 DEF Mapped
      <4>2. ~Present(None)
        BY DEF Present, None
      <4> QED BY <3>1, <3>3, <4>1, <4>2 DEF Turned, Stopped, Fine
    <3> QED BY <3>2, <3>3
  <2>8. CASE ~w.ok
    <3>1. w \in Record /\ Sound(w, H \cup {f}) /\ w.panic = "no" /\ w.pt.pte = m.pt.pte
      BY <2>1, <2>5, <2>8 DEF Mapped
    <3>2. r = KFree(w, {f})
      BY <1>3, <1>5, <2>8
    <3>3. r \in Record /\ r.pt = w.pt /\ r.ok = w.ok /\ r.panic = w.panic
      BY <3>1, <3>2, KFreeIs
    <3>4. Sound(r, H)
      <4>1. {f} \subseteq (H \cup {f}) \cup {0}
        OBVIOUS
      <4>2. Sound(r, (H \cup {f}) \ {f})
        BY <3>1, <3>2, <4>1, GivenSound
      <4> QED BY <4>2, <2>6
    <3> QED BY <3>1, <3>3, <3>4, <2>8 DEF Turned, Fine
  <2> QED BY <2>7, <2>8
<1> QED BY <1>4, <1>5

LEMMA CopyPageIs ==
  ASSUME NEW m, NEW H, Sound(m, H), m.ok, m.panic = "no", NEW a, NEW pt \in PageTable,
         NEW r, r = CopyPage(m, pt, a),
         NEW kind, kind = IF a \in Pages THEN pt.pte[a].kind ELSE "kernel"
  PROVE  Turned(r, m, a, kind, {}, H)
<1>0. m \in Record
  BY DEF Sound
<1>1. CASE a \in Pages /\ (pt.tabs[a \div PERTABLE] = 0 \/ ~Present(pt.pte[a]))
  <2>1. PICK why \in Panics \ {"no"} : r = Panic(m, why)
    <3>1. "copy_no_pte" \in Panics \ {"no"} /\ "copy_not_present" \in Panics \ {"no"}
      BY DEF Panics
    <3>2. r = Panic(m, "copy_no_pte") \/ r = Panic(m, "copy_not_present")
      BY <1>1 DEF CopyPage
    <3> QED BY <3>1, <3>2
  <2>2. r \in Record /\ r.free = m.free /\ r.pt = m.pt /\ r.ok = m.ok /\ r.panic = why
    <3>1. why \in Panics /\ r = Panic(m, why)
      BY <2>1
    <3> QED BY <1>0, <3>1 DEF Panic, Record
  <2>3. Sound(r, H)
    BY <2>2, SameSound
  <2> QED BY <2>2, <2>3 DEF Turned, Stopped, Fine
<1>2. CASE ~(a \in Pages /\ (pt.tabs[a \div PERTABLE] = 0 \/ ~Present(pt.pte[a])))
  <2>1. r = NewPage(m, a, kind) /\ kind \in {"user", "kernel"}
    BY <1>2 DEF CopyPage, Present
  <2>2. Turned(r, m, a, kind, Pages, H)
    BY <2>1, NewPageIs
  <2> QED BY <2>2 DEF Turned
<1> QED BY <1>1, <1>2

LEMMA LazyPageIs ==
  ASSUME NEW m, NEW H, Sound(m, H), m.ok, m.panic = "no", NEW a \in Pages,
         NEW r, r = LazyPage(m, a)
  PROVE  Turned(r, m, a, "lazy", Pages, H)
<1> DEFINE v == Walk(m, a)
           e == [kind |-> "lazy", frame |-> 0]
<1>1. Walked(v, m, a, H)
  BY WalkIs
<1>2. r = IF ~v.ok THEN v ELSE IF v.pt.pte[a] # None THEN Panic(v, "lazy_remap")
          ELSE SetEntry(v, a, e)
  BY DEF LazyPage
<1>3. e \in Entry /\ e.frame = 0 /\ e.kind = "lazy" /\ ~Present(e)
  BY DEF Entry, Present
<1> HIDE DEF v, e
<1>4. /\ Sound(v, H) /\ v \in Record /\ v.panic = "no" /\ v.pt.pte = m.pt.pte
      /\ v.ok => v.pt.tabs[a \div PERTABLE] # 0
  BY <1>1 DEF Walked, Sound
<1>5. CASE ~v.ok
  BY <1>2, <1>4, <1>5 DEF Turned, Fine
<1>6. CASE v.ok /\ v.pt.pte[a] # None
  <2>1. r = Panic(v, "lazy_remap") /\ "lazy_remap" \in Panics
    BY <1>2, <1>6 DEF Panics
  <2>2. r \in Record /\ r.free = v.free /\ r.pt = v.pt /\ r.ok = v.ok /\ r.panic = "lazy_remap"
    BY <1>4, <2>1, PanicIs
  <2>3. Sound(r, H)
    BY <1>4, <2>2, SameSound
  <2> QED BY <1>4, <1>6, <2>2, <2>3 DEF Turned, Stopped, Fine
<1>7. CASE v.ok /\ v.pt.pte[a] = None
  <2>1. r = SetEntry(v, a, e)
    BY <1>2, <1>7
  <2>2. /\ r \in Record /\ r.free = v.free /\ r.ok = v.ok /\ r.panic = v.panic
        /\ Put(r.pt, v.pt, <<"page", a>>, e.frame)
        /\ r.pt.tabs = v.pt.tabs /\ r.pt.pte = [v.pt.pte EXCEPT ![a] = e]
    BY <1>3, <1>4, <2>1, SetEntryIs
  <2>3. v.pt.pte \in [Pages -> Entry] /\ Tidy(v.pt)
    BY <1>4 DEF Sound, Record, PageTable
  <2>4. \A b \in Pages : r.pt.pte[b] = IF b = a THEN e ELSE v.pt.pte[b]
    BY <2>2, <2>3
  <2>5. FrameAt(v.pt, <<"page", a>>) = 0
    BY <1>7, FrameAtIs DEF None
  <2>6. \A x \in Spots : FrameAt(r.pt, x) = FrameAt(v.pt, x)
    BY <1>3, <2>2, <2>5 DEF Put
  <2>7. Tidy(r.pt)
    BY <1>3, <1>4, <1>7, <2>2, <2>3, <2>4 DEF Tidy
  <2>8. Sound(r, H)
    BY <1>4, <2>2, <2>6, <2>7, SameFrames
  <2> QED BY <1>3, <1>4, <1>7, <2>2, <2>4, <2>8 DEF Turned, Fine
<1> QED BY <1>5, <1>6, <1>7

-----------------------------------------------------------------------------
(* The loops over pages *)

(* The turns of a loop over the n pages from first on, page a to have an    *)
(* entry of kind kinds[a].                                                 *)
Looped(r, m, first, n, kinds, Q, H) ==
  /\ r \in Record
  /\ r.panic = "no" => Sound(r, H)
  /\ r.panic # "no" => Stopped(r)
  /\ r.ok => m.ok
  /\ \A b \in Pages : b \notin first .. first + n - 1 => r.pt.pte[b] = m.pt.pte[b]
  /\ Fine(r) => \A a \in first .. first + n - 1 : a \in Pages /\ r.pt.pte[a].kind = kinds[a]
  /\ (\A a \in first .. first + n - 1 : a \in Q /\ m.pt.pte[a] = None) => r.panic = "no"

LEMMA LoopKeeps ==
  ASSUME NEW m, NEW H, Sound(m, H), m.panic = "no", NEW first \in Nat, NEW n \in Nat,
         NEW kinds, NEW Q, Q \subseteq Pages, NEW w, w[0] = m,
         \A k \in 1 .. n : ~Fine(w[k - 1]) => w[k] = w[k - 1],
         \A k \in 1 .. n : Fine(w[k - 1]) /\ Sound(w[k - 1], H) =>
           Turned(w[k], w[k - 1], first + (k - 1), kinds[first + (k - 1)], Q, H)
  PROVE  Looped(w[n], m, first, n, kinds, Q, H)
<1> DEFINE S == {k \in 0 .. n : Looped(w[k], m, first, k, kinds, Q, H)}
<1>1. 0 \in S
  <2>1. m \in Record /\ first .. first + 0 - 1 = {}
    BY DEF Sound
  <2>2. Looped(m, m, first, 0, kinds, Q, H)
    BY <2>1 DEF Looped
  <2> QED BY <2>2
<1>2. ASSUME NEW k \in 0 .. n - 1, k \in S
      PROVE  k + 1 \in S
  <2> DEFINE r == w[k + 1]
             v == w[k]
             a == first + k
             R == first .. first + k - 1
             R1 == first .. first + (k + 1) - 1
  <2>1. Looped(v, m, first, k, kinds, Q, H)
    BY <1>2
  <2>2. k + 1 \in 1 .. n /\ (k + 1) - 1 = k /\ k + 1 \in 0 .. n /\ a \in Nat
    OBVIOUS
  <2>3. R1 = R \cup {a} /\ a \notin R
    OBVIOUS
  <2>4. ~Fine(v) => r = v
    BY <2>2
  <2>5. Fine(v) /\ Sound(v, H) => Turned(r, v, a, kinds[a], Q, H)
    BY <2>2
  <2>8. /\ v \in Record
        /\ v.panic = "no" => Sound(v, H)
        /\ v.panic # "no" => Stopped(v)
        /\ v.ok => m.ok
        /\ \A b \in Pages : b \notin R => v.pt.pte[b] = m.pt.pte[b]
        /\ Fine(v) => \A b \in R : b \in Pages /\ v.pt.pte[b].kind = kinds[b]
        /\ (\A b \in R : b \in Q /\ m.pt.pte[b] = None) => v.panic = "no"
    BY <2>1 DEF Looped
  <2>9. SUFFICES /\ r \in Record
                 /\ r.panic = "no" => Sound(r, H)
                 /\ r.panic # "no" => Stopped(r)
                 /\ r.ok => m.ok
                 /\ \A b \in Pages : b \notin R1 => r.pt.pte[b] = m.pt.pte[b]
                 /\ Fine(r) => \A b \in R1 : b \in Pages /\ r.pt.pte[b].kind = kinds[b]
                 /\ (\A b \in R1 : b \in Q /\ m.pt.pte[b] = None) => r.panic = "no"
    BY <2>2 DEF Looped
  <2> HIDE DEF r, v, a, R, R1
  <2>6. CASE ~Fine(v)
    BY <2>3, <2>4, <2>6, <2>8
  <2>7. CASE Fine(v)
    <3>1. Turned(r, v, a, kinds[a], Q, H) /\ v.panic = "no"
      BY <2>5, <2>7, <2>8 DEF Fine
    <3>2. /\ r \in Record /\ (r.panic = "no" => Sound(r, H)) /\ (r.panic # "no" => Stopped(r))
          /\ r.ok => m.ok
      BY <2>8, <3>1 DEF Turned
    <3>3. \A b \in Pages : b \notin R1 => r.pt.pte[b] = m.pt.pte[b]
      BY <2>3, <2>8, <3>1 DEF Turned
    <3>4. Fine(r) => \A b \in R1 : b \in Pages /\ r.pt.pte[b].kind = kinds[b]
      BY <2>3, <2>7, <2>8, <3>1 DEF Turned
    <3>5. (\A b \in R1 : b \in Q /\ m.pt.pte[b] = None) => r.panic = "no"
      <4>1. a \in Pages => v.pt.pte[a] = m.pt.pte[a]
        BY <2>3, <2>8
      <4> QED BY <2>3, <3>1, <4>1 DEF Turned
    <3> QED BY <3>2, <3>3, <3>4, <3>5
  <2> QED BY <2>6, <2>7
<1>3. \A k \in 0 .. n : k \in S
  <2> HIDE DEF S
  <2> QED BY <1>1, <1>2, UpTo
<1>4. n \in 0 .. n
  OBVIOUS
<1> QED BY <1>3, <1>4

(* What the turns are taken over: records that are sound until the kernel  *)
(* stops.                                                                  *)
Good(H) == {r \in Record : (r.panic = "no" => Sound(r, H)) /\ (r.panic # "no" => Stopped(r))}

(* The loop of allocuvm(), as Turns() writes it.                            *)
NewLoop(m, first, n) ==
  (CHOOSE f : f = [k \in 0 .. n |->
     IF k = 0 THEN m
     ELSE IF Fine(f[k - 1]) THEN NewPage(f[k - 1], first + k - 1, "user") ELSE f[k - 1]])[n]

LEMMA NewLoopIs ==
  ASSUME NEW m, NEW H, Sound(m, H), m.panic = "no", NEW first \in Nat, NEW n \in Nat,
         NEW r, r = NewLoop(m, first, n), NEW kinds, kinds = [a \in Nat |-> "user"]
  PROVE  Looped(r, m, first, n, kinds, Pages, H)
<1> DEFINE On(v, k) == IF Fine(v) THEN NewPage(v, first + k - 1, "user") ELSE v
           Def(f) == f = [k \in 0 .. n |-> IF k = 0 THEN m ELSE On(f[k - 1], k)]
           w == CHOOSE f : Def(f)
           T == Good(H)
           step == [x \in T \X (1 .. n) |-> On(x[1], x[2])]
<1>2. r = w[n]
  BY DEF NewLoop
<1>3. m \in T
  BY DEF Sound, Good
<1>4. ASSUME NEW v, Fine(v), Sound(v, H), NEW k \in 1 .. n
      PROVE  Turned(On(v, k), v, first + (k - 1), "user", Pages, H)
  <2> DEFINE u == NewPage(v, first + k - 1, "user")
  <2>0. u = NewPage(v, first + (k - 1), "user")
    <3>1. first + k - 1 = first + (k - 1)
      BY <1>4
    <3> QED BY <3>1
  <2> HIDE DEF u
  <2>1. v.panic = "no"
    BY <1>4 DEF Fine
  <2>2. Turned(u, v, first + (k - 1), "user", Pages, H)
    BY <1>4, <2>0, <2>1, NewPageIs
  <2> QED BY <1>4, <2>2 DEF u
<1>5. ASSUME NEW v \in T, NEW k \in 1 .. n
      PROVE  On(v, k) \in T
  <2>1. CASE Fine(v)
    <3>1. Sound(v, H)
      BY <2>1 DEF Good, Fine
    <3>2. Turned(On(v, k), v, first + (k - 1), "user", Pages, H)
      BY <1>4, <2>1, <3>1
    <3> HIDE DEF On
    <3> QED BY <3>2 DEF Turned, Good
  <2>2. CASE ~Fine(v)
    BY <2>2
  <2> QED BY <2>1, <2>2
<1>6. step \in [T \X (1 .. n) -> T] /\ \A v \in T : \A k \in 1 .. n : step[<<v, k>>] = On(v, k)
  <2> HIDE DEF On, T
  <2> QED BY <1>5
<1> HIDE DEF step, T, On
<1>7. PICK f \in [0 .. n -> T] : Unfolds(f, n, m, step)
  BY <1>3, <1>6, RecursionExists
<1>8. Def(f)
  <2>1. \A k \in 0 .. n : f[k] = IF k = 0 THEN m ELSE step[<<f[k - 1], k>>]
    BY <1>7 DEF Unfolds
  <2>2. ASSUME NEW k \in 0 .. n
        PROVE  f[k] = IF k = 0 THEN m ELSE On(f[k - 1], k)
    <3>1. CASE k = 0
      BY <2>1, <3>1
    <3>2. CASE k # 0
      <4>1. k \in 1 .. n /\ k - 1 \in 0 .. n
        BY <3>2
      <4>2. f[k - 1] \in T
        BY <4>1, <1>7
      <4> QED BY <2>1, <3>2, <4>1, <4>2, <1>6
    <3> QED BY <3>1, <3>2
  <2> QED BY <1>7, <2>2
<1>9. Def(w)
  <2> HIDE DEF Def
  <2> QED BY <1>8
<1> HIDE DEF w
<1>10. w[0] = m /\ \A k \in 1 .. n : w[k] = On(w[k - 1], k)
  <2>1. \A k \in 0 .. n : w[k] = IF k = 0 THEN m ELSE On(w[k - 1], k)
    BY <1>9
  <2>2. 0 \in 0 .. n /\ \A k \in 1 .. n : k \in 0 .. n /\ k # 0
    OBVIOUS
  <2> QED BY <2>1, <2>2
<1>11. \A k \in 1 .. n : ~Fine(w[k - 1]) => w[k] = w[k - 1]
  BY <1>10 DEF On
<1>12. \A k \in 1 .. n : Fine(w[k - 1]) /\ Sound(w[k - 1], H) =>
         Turned(w[k], w[k - 1], first + (k - 1), kinds[first + (k - 1)], Pages, H)
  <2> SUFFICES ASSUME NEW k \in 1 .. n, Fine(w[k - 1]), Sound(w[k - 1], H)
               PROVE  Turned(w[k], w[k - 1], first + (k - 1), kinds[first + (k - 1)], Pages, H)
    OBVIOUS
  <2>1. first + (k - 1) \in Nat
    OBVIOUS
  <2>2. kinds[first + (k - 1)] = "user"
    BY <2>1
  <2>3. Turned(On(w[k - 1], k), w[k - 1], first + (k - 1), "user", Pages, H)
    BY <1>4
  <2> QED BY <1>10, <2>2, <2>3
<1>13. Pages \subseteq Pages
  OBVIOUS
<1>14. Looped(w[n], m, first, n, kinds, Pages, H)
  BY <1>13, <1>10, <1>11, <1>12, LoopKeeps
<1> QED BY <1>2, <1>14

(* The loop of copyuvm(), as Turns() writes it.                             *)
CopyLoop(m, pt, n) ==
  (CHOOSE f : f = [k \in 0 .. n |->
     IF k = 0 THEN m
     ELSE IF Fine(f[k - 1]) THEN CopyPage(f[k - 1], pt, 0 + k - 1) ELSE f[k - 1]])[n]

LEMMA CopyLoopIs ==
  ASSUME NEW m, NEW H, Sound(m, H), m.panic = "no", NEW pt \in PageTable, NEW n \in Nat,
         NEW r, r = CopyLoop(m, pt, n), NEW kinds, 
         kinds = [a \in Nat |-> IF a \in Pages THEN pt.pte[a].kind ELSE "kernel"]
  PROVE  Looped(r, m, 0, n, kinds, {}, H)
<1> DEFINE On(v, k) == IF Fine(v) THEN CopyPage(v, pt, 0 + k - 1) ELSE v
           Def(f) == f = [k \in 0 .. n |-> IF k = 0 THEN m ELSE On(f[k - 1], k)]
           w == CHOOSE f : Def(f)
           T == Good(H)
           step == [x \in T \X (1 .. n) |-> On(x[1], x[2])]
<1>2. r = w[n]
  BY DEF CopyLoop
<1>3. m \in T
  BY DEF Sound, Good
<1>4. ASSUME NEW v, Fine(v), Sound(v, H), NEW k \in 1 .. n
      PROVE  Turned(On(v, k), v, 0 + (k - 1), kinds[0 + (k - 1)], {}, H)
  <2> DEFINE u == CopyPage(v, pt, 0 + k - 1)
  <2>0. u = CopyPage(v, pt, 0 + (k - 1))
    <3>1. 0 + k - 1 = 0 + (k - 1)
      BY <1>4
    <3> QED BY <3>1
  <2> HIDE DEF u
  <2>1. v.panic = "no" /\ v.ok
    BY <1>4 DEF Fine
  <2>3. kinds[0 + (k - 1)] = IF 0 + (k - 1) \in Pages THEN pt.pte[0 + (k - 1)].kind ELSE "kernel"
    OBVIOUS
  <2>2. Turned(u, v, 0 + (k - 1), kinds[0 + (k - 1)], {}, H)
    BY <1>4, <2>0, <2>1, <2>3, CopyPageIs
  <2> QED BY <1>4, <2>2 DEF u
<1>5. ASSUME NEW v \in T, NEW k \in 1 .. n
      PROVE  On(v, k) \in T
  <2>1. CASE Fine(v)
    <3>1. Sound(v, H)
      BY <2>1 DEF Good, Fine
    <3>2. Turned(On(v, k), v, 0 + (k - 1), kinds[0 + (k - 1)], {}, H)
      BY <1>4, <2>1, <3>1
    <3> HIDE DEF On
    <3> QED BY <3>2 DEF Turned, Good
  <2>2. CASE ~Fine(v)
    BY <2>2
  <2> QED BY <2>1, <2>2
<1>6. step \in [T \X (1 .. n) -> T] /\ \A v \in T : \A k \in 1 .. n : step[<<v, k>>] = On(v, k)
  <2> HIDE DEF On, T
  <2> QED BY <1>5
<1> HIDE DEF step, T, On
<1>7. PICK f \in [0 .. n -> T] : Unfolds(f, n, m, step)
  BY <1>3, <1>6, RecursionExists
<1>8. Def(f)
  <2>1. \A k \in 0 .. n : f[k] = IF k = 0 THEN m ELSE step[<<f[k - 1], k>>]
    BY <1>7 DEF Unfolds
  <2>2. ASSUME NEW k \in 0 .. n
        PROVE  f[k] = IF k = 0 THEN m ELSE On(f[k - 1], k)
    <3>1. CASE k = 0
      BY <2>1, <3>1
    <3>2. CASE k # 0
      <4>1. k \in 1 .. n /\ k - 1 \in 0 .. n
        BY <3>2
      <4>2. f[k - 1] \in T
        BY <4>1, <1>7
      <4> QED BY <2>1, <3>2, <4>1, <4>2, <1>6
    <3> QED BY <3>1, <3>2
  <2> QED BY <1>7, <2>2
<1>9. Def(w)
  <2> HIDE DEF Def
  <2> QED BY <1>8
<1> HIDE DEF w
<1>10. w[0] = m /\ \A k \in 1 .. n : w[k] = On(w[k - 1], k)
  <2>1. \A k \in 0 .. n : w[k] = IF k = 0 THEN m ELSE On(w[k - 1], k)
    BY <1>9
  <2>2. 0 \in 0 .. n /\ \A k \in 1 .. n : k \in 0 .. n /\ k # 0
    OBVIOUS
  <2> QED BY <2>1, <2>2
<1>11. \A k \in 1 .. n : ~Fine(w[k - 1]) => w[k] = w[k - 1]
  BY <1>10 DEF On
<1>12. \A k \in 1 .. n : Fine(w[k - 1]) /\ Sound(w[k - 1], H) =>
         Turned(w[k], w[k - 1], 0 + (k - 1), kinds[0 + (k - 1)], {}, H)
  <2> SUFFICES ASSUME NEW k \in 1 .. n, Fine(w[k - 1]), Sound(w[k - 1], H)
               PROVE  Turned(w[k], w[k - 1], 0 + (k - 1), kinds[0 + (k - 1)], {}, H)
    OBVIOUS
  <2>3. Turned(On(w[k - 1], k), w[k - 1], 0 + (k - 1), kinds[0 + (k - 1)], {}, H)
    BY <1>4
  <2> QED BY <1>10, <2>3
<1>13. {} \subseteq Pages /\ 0 \in Nat
  OBVIOUS
<1>14. Looped(w[n], m, 0, n, kinds, {}, H)
  BY <1>13, <1>10, <1>11, <1>12, LoopKeeps
<1> QED BY <1>2, <1>14

(* The loop of vm_ssualloc(), as Turns() writes it.                         *)
LazyLoop(m, first, n) ==
  (CHOOSE f : f = [k \in 0 .. n |->
     IF k = 0 THEN m
     ELSE IF Fine(f[k - 1]) THEN LazyPage(f[k - 1], first + k - 1) ELSE f[k - 1]])[n]

LEMMA LazyLoopIs ==
  ASSUME NEW m, NEW H, Sound(m, H), m.panic = "no", NEW first \in Nat, NEW n \in Nat,
         first + n <= NPAGES,
         NEW r, r = LazyLoop(m, first, n), NEW kinds, kinds = [a \in Nat |-> "lazy"]
  PROVE  Looped(r, m, first, n, kinds, Pages, H)
<1> DEFINE On(v, k) == IF Fine(v) THEN LazyPage(v, first + k - 1) ELSE v
           Def(f) == f = [k \in 0 .. n |-> IF k = 0 THEN m ELSE On(f[k - 1], k)]
           w == CHOOSE f : Def(f)
           T == Good(H)
           step == [x \in T \X (1 .. n) |-> On(x[1], x[2])]
<1>2. r = w[n]
  BY DEF LazyLoop
<1>3. m \in T
  BY DEF Sound, Good
<1>4. ASSUME NEW v, Fine(v), Sound(v, H), NEW k \in 1 .. n
      PROVE  Turned(On(v, k), v, first + (k - 1), "lazy", Pages, H)
  <2> DEFINE u == LazyPage(v, first + k - 1)
  <2>0. u = LazyPage(v, first + (k - 1))
    <3>1. first + k - 1 = first + (k - 1)
      BY <1>4
    <3> QED BY <3>1
  <2> HIDE DEF u
  <2>1. v.panic = "no" /\ v.ok /\ first + (k - 1) \in Pages
    BY <1>4 DEF Fine, Pages
  <2>2. Turned(u, v, first + (k - 1), "lazy", Pages, H)
    BY <1>4, <2>0, <2>1, LazyPageIs
  <2> QED BY <1>4, <2>2 DEF u
<1>5. ASSUME NEW v \in T, NEW k \in 1 .. n
      PROVE  On(v, k) \in T
  <2>1. CASE Fine(v)
    <3>1. Sound(v, H)
      BY <2>1 DEF Good, Fine
    <3>2. Turned(On(v, k), v, first + (k - 1), "lazy", Pages, H)
      BY <1>4, <2>1, <3>1
    <3> HIDE DEF On
    <3> QED BY <3>2 DEF Turned, Good
  <2>2. CASE ~Fine(v)
    BY <2>2
  <2> QED BY <2>1, <2>2
<1>6. step \in [T \X (1 .. n) -> T] /\ \A v \in T : \A k \in 1 .. n : step[<<v, k>>] = On(v, k)
  <2> HIDE DEF On, T
  <2> QED BY <1>5
<1> HIDE DEF step, T, On
<1>7. PICK f \in [0 .. n -> T] : Unfolds(f, n, m, step)
  BY <1>3, <1>6, RecursionExists
<1>8. Def(f)
  <2>1. \A k \in 0 .. n : f[k] = IF k = 0 THEN m ELSE step[<<f[k - 1], k>>]
    BY <1>7 DEF Unfolds
  <2>2. ASSUME NEW k \in 0 .. n
        PROVE  f[k] = IF k = 0 THEN m ELSE On(f[k - 1], k)
    <3>1. CASE k = 0
      BY <2>1, <3>1
    <3>2. CASE k # 0
      <4>1. k \in 1 .. n /\ k - 1 \in 0 .. n
        BY <3>2
      <4>2. f[k - 1] \in T
        BY <4>1, <1>7
      <4> QED BY <2>1, <3>2, <4>1, <4>2, <1>6
    <3> QED BY <3>1, <3>2
  <2> QED BY <1>7, <2>2
<1>9. Def(w)
  <2> HIDE DEF Def
  <2> QED BY <1>8
<1> HIDE DEF w
<1>10. w[0] = m /\ \A k \in 1 .. n : w[k] = On(w[k - 1], k)
  <2>1. \A k \in 0 .. n : w[k] = IF k = 0 THEN m ELSE On(w[k - 1], k)
    BY <1>9
  <2>2. 0 \in 0 .. n /\ \A k \in 1 .. n : k \in 0 .. n /\ k # 0
    OBVIOUS
  <2> QED BY <2>1, <2>2
<1>11. \A k \in 1 .. n : ~Fine(w[k - 1]) => w[k] = w[k - 1]
  BY <1>10 DEF On
<1>12. \A k \in 1 .. n : Fine(w[k - 1]) /\ Sound(w[k - 1], H) =>
         Turned(w[k], w[k - 1], first + (k - 1), kinds[first + (k - 1)], Pages, H)
  <2> SUFFICES ASSUME NEW k \in 1 .. n, Fine(w[k - 1]), Sound(w[k - 1], H)
               PROVE  Turned(w[k], w[k - 1], first + (k - 1), kinds[first + (k - 1)], Pages, H)
    OBVIOUS
  <2>1. first + (k - 1) \in Nat
    OBVIOUS
  <2>2. kinds[first + (k - 1)] = "lazy"
    BY <2>1
  <2>3. Turned(On(w[k - 1], k), w[k - 1], first + (k - 1), "lazy", Pages, H)
    BY <1>4
  <2> QED BY <1>10, <2>2, <2>3
<1>13. Pages \subseteq Pages
  OBVIOUS
<1>14. Looped(w[n], m, first, n, kinds, Pages, H)
  BY <1>13, <1>10, <1>11, <1>12, LoopKeeps
<1> QED BY <1>2, <1>14

-----------------------------------------------------------------------------
(* Giving pages and page tables back *)

(* Some places are emptied and their frames, S, go to the free list.       *)
FramesOf(S, pt, C) == \A f \in Frames : f \in S <=> \E x \in C : FrameAt(pt, x) = f
Emptied(r, pt, C) == \A x \in Spots : FrameAt(r, x) = IF x \in C THEN 0 ELSE FrameAt(pt, x)

LEMMA ClearSound ==
  ASSUME NEW m, NEW H, Sound(m, H), NEW C, C \subseteq Spots, NEW S, FramesOf(S, m.pt, C),
         NEW r \in Record, Gives(r, m, S), Tidy(r.pt), Emptied(r.pt, m.pt, C)
  PROVE  Sound(r, H)
<1>0. /\ r.free = [f \in Frames |-> m.free[f] + IF f \in S THEN 1 ELSE 0]
      /\ \A f \in Frames : f \in S <=> \E x \in C : FrameAt(m.pt, x) = f
      /\ \A x \in Spots : FrameAt(r.pt, x) = IF x \in C THEN 0 ELSE FrameAt(m.pt, x)
  BY DEF Gives, FramesOf, Emptied
<1>1. m \in Record /\ m.free \in [Frames -> 0..1] /\ H \subseteq Frames
  BY DEF Sound
<1>2. \A x \in Spots : FrameAt(m.pt, x) # 0 =>
        FrameAt(m.pt, x) \in Frames /\ m.free[FrameAt(m.pt, x)] = 0 /\ FrameAt(m.pt, x) \notin H
        /\ \A y \in Spots : FrameAt(m.pt, y) = FrameAt(m.pt, x) => y = x
  BY <1>1, FrameAtTyped DEF Sound, Record, Frames
<1>3. \A f \in Frames : f # 0 /\ (f \in S => m.free[f] = 0 /\ f \notin H)
  BY <1>0, <1>2 DEF Frames
<1>4. \A f \in Frames : r.free[f] = IF f \in S THEN 1 ELSE m.free[f]
  BY <1>0, <1>1, <1>3
<1>5. r.free \in [Frames -> 0..1]
  <2>1. \A f \in Frames : m.free[f] + (IF f \in S THEN 1 ELSE 0) \in 0..1
    BY <1>1, <1>3
  <2> QED BY <1>0, <2>1
<1>6. \A x \in Spots : FrameAt(r.pt, x) # 0 =>
        /\ r.free[FrameAt(r.pt, x)] = 0 /\ FrameAt(r.pt, x) \notin H
        /\ \A y \in Spots : FrameAt(r.pt, y) = FrameAt(r.pt, x) => y = x
  <2> SUFFICES ASSUME NEW x \in Spots, FrameAt(r.pt, x) # 0
               PROVE  /\ r.free[FrameAt(r.pt, x)] = 0 /\ FrameAt(r.pt, x) \notin H
                      /\ \A y \in Spots : FrameAt(r.pt, y) = FrameAt(r.pt, x) => y = x
    OBVIOUS
  <2>1. x \notin C /\ FrameAt(r.pt, x) = FrameAt(m.pt, x)
    BY <1>0
  <2>2. FrameAt(m.pt, x) \notin S
    BY <1>0, <1>2, <2>1
  <2>3. \A y \in Spots : FrameAt(r.pt, y) = FrameAt(r.pt, x) => FrameAt(m.pt, y) = FrameAt(m.pt, x)
    BY <1>0, <2>1
  <2> QED BY <1>2, <1>4, <2>1, <2>2, <2>3
<1>7. \A g \in Frames : r.free[g] = 1 \/ g \in H \/ \E x \in Spots : FrameAt(r.pt, x) = g
  <2> TAKE g \in Frames
  <2>1. CASE g \in S
    BY <1>4, <2>1
  <2>2. CASE g \notin S
    <3>1. m.free[g] = 1 \/ g \in H \/ \E x \in Spots : FrameAt(m.pt, x) = g
      BY DEF Sound
    <3>2. \A x \in Spots : FrameAt(m.pt, x) = g => FrameAt(r.pt, x) = g
      BY <1>0, <2>2
    <3> QED BY <1>4, <2>2, <3>1, <3>2
  <2> QED BY <2>1, <2>2
<1>8. \A f \in H : r.free[f] = 0
  BY <1>1, <1>3, <1>4 DEF Sound
<1> QED BY <1>1, <1>5, <1>6, <1>7, <1>8 DEF Sound

(* deallocuvm(): the present pages from newsz up to oldsz go.              *)
Dropped(r, m, oldsz, newsz, H) ==
  /\ r \in Record /\ Sound(r, H) /\ r.ok = m.ok
  /\ r.pt.dir = m.pt.dir /\ r.pt.ktab = m.pt.ktab /\ r.pt.tabs = m.pt.tabs
  /\ \A a \in Pages : \/ r.pt.pte[a] = m.pt.pte[a]
                      \/ a \in Below(oldsz) /\ a >= UpPage(newsz) /\ r.pt.pte[a] = None
  /\ newsz >= oldsz => r = m
  /\ Below(oldsz) \subseteq Pages => r.panic = m.panic
  /\ r.panic = "no" /\ newsz < oldsz =>
       /\ \A a \in Below(oldsz) : a >= UpPage(newsz) => a \in Pages
       /\ \A a \in Pages : a \in Below(oldsz) /\ a >= UpPage(newsz) => ~Present(r.pt.pte[a])

LEMMA DeallocuvmIs ==
  ASSUME NEW m, NEW H, Sound(m, H), NEW oldsz \in Nat, NEW newsz \in Nat,
         NEW r, r = Deallocuvm(m, oldsz, newsz)
  PROVE  Dropped(r, m, oldsz, newsz, H)
<1> DEFINE range == {a \in Below(oldsz) : a >= UpPage(newsz)}
           gone == {a \in range \cap Pages : Present(m.pt.pte[a])}
           S == {m.pt.pte[a].frame : a \in gone}
           k == KFree(m, S)
           ptes == [a \in Pages |-> IF a \in gone THEN None ELSE m.pt.pte[a]]
<1>1. m \in Record /\ Tidy(m.pt) /\ m.pt.pte \in [Pages -> Entry]
  BY DEF Sound, Record, PageTable
<1>2. CASE newsz >= oldsz
  <2>1. r = m
    BY <1>2 DEF Deallocuvm
  <2>2. ~(newsz < oldsz)
    BY <1>2
  <2> QED BY <1>1, <2>1, <2>2 DEF Dropped
<1>3. CASE newsz < oldsz /\ ~(range \subseteq Pages)
  <2>1. r = Panic(m, "kfree") /\ "kfree" \in Panics
    BY <1>3 DEF Deallocuvm, Panics
  <2>2. r \in Record /\ r.free = m.free /\ r.pt = m.pt /\ r.ok = m.ok /\ r.panic = "kfree"
    BY <1>1, <2>1, PanicIs
  <2>3. Sound(r, H)
    BY <2>2, SameSound
  <2>4. ~(newsz >= oldsz) /\ ~(Below(oldsz) \subseteq Pages)
    BY <1>3
  <2> QED BY <2>2, <2>3, <2>4 DEF Dropped
<1>4. CASE newsz < oldsz /\ range \subseteq Pages
  <2>1. r = [k EXCEPT !.pt.pte = ptes]
    BY <1>4 DEF Deallocuvm
  <2>2. k \in Record /\ k.pt = m.pt /\ k.ok = m.ok /\ k.panic = m.panic /\ Gives(k, m, S)
    BY <1>1, KFreeIs
  <2>3. ptes \in [Pages -> Entry]
    BY <1>1 DEF Entry, None
  <2>4. \A a \in Pages : ptes[a] = IF a \in gone THEN None ELSE m.pt.pte[a]
    OBVIOUS
  <2> HIDE DEF k, ptes
  <2>5. /\ r \in Record /\ r.free = k.free /\ r.ok = m.ok /\ r.panic = m.panic
        /\ r.pt.dir = m.pt.dir /\ r.pt.ktab = m.pt.ktab /\ r.pt.tabs = m.pt.tabs
        /\ r.pt.pte = ptes
    BY <2>1, <2>2, <2>3 DEF Record, PageTable
  <2> DEFINE C == {<<"page", a>> : a \in gone}
  <2>6. C \subseteq Spots
    BY SpotIs
  <2>7. FramesOf(S, m.pt, C)
    <3>1. ASSUME NEW a \in gone PROVE FrameAt(m.pt, <<"page", a>>) = m.pt.pte[a].frame
      <4> a \in Pages
        OBVIOUS
      <4> QED BY FrameAtIs
    <3> HIDE DEF gone
    <3> QED BY <3>1 DEF FramesOf
  <2>8. ~Present(None) /\ None.frame = 0
    BY DEF Present, None
  <2>9. Tidy(r.pt)
    BY <1>1, <2>4, <2>5, <2>8 DEF Tidy
  <2>10. ASSUME NEW x \in Spots
         PROVE  FrameAt(r.pt, x) = IF x \in C THEN 0 ELSE FrameAt(m.pt, x)
    <3>1. CASE x = <<"dir", 0>> \/ x = <<"ktab", 0>>
      <4>1. x \notin C
        BY <3>1
      <4>2. FrameAt(r.pt, x) = FrameAt(m.pt, x)
        BY <3>1, <2>5, FrameAtIs
      <4> QED BY <4>1, <4>2
    <3>2. ASSUME NEW t \in Tables, x = <<"tab", t>>
          PROVE  FrameAt(r.pt, x) = IF x \in C THEN 0 ELSE FrameAt(m.pt, x)
      <4>1. x \notin C
        BY <3>2
      <4>2. FrameAt(r.pt, x) = r.pt.tabs[t] /\ FrameAt(m.pt, x) = m.pt.tabs[t]
        BY <3>2, FrameAtIs
      <4> QED BY <4>1, <4>2, <2>5
    <3>3. ASSUME NEW a \in Pages, x = <<"page", a>>
          PROVE  FrameAt(r.pt, x) = IF x \in C THEN 0 ELSE FrameAt(m.pt, x)
      <4>1. x \in C <=> a \in gone
        BY <3>3
      <4>2. FrameAt(r.pt, x) = ptes[a].frame /\ FrameAt(m.pt, x) = m.pt.pte[a].frame
        BY <3>3, <2>5, FrameAtIs
      <4> QED BY <4>1, <4>2, <2>4, <2>8
    <3> QED BY <3>1, <3>2, <3>3, SpotIs
  <2>11. Gives(r, m, S)
    BY <2>2, <2>5 DEF Gives
  <2>12. Sound(r, H)
    <3>1. r \in Record /\ Emptied(r.pt, m.pt, C)
      BY <2>5, <2>10 DEF Emptied
    <3> HIDE DEF C, S, gone
    <3> QED BY <3>1, <2>6, <2>7, <2>9, <2>11, ClearSound
  <2>13. \A a \in Pages : \/ r.pt.pte[a] = m.pt.pte[a]
                          \/ a \in Below(oldsz) /\ a >= UpPage(newsz) /\ r.pt.pte[a] = None
    BY <2>4, <2>5
  <2>14. \A a \in Pages : a \in Below(oldsz) /\ a >= UpPage(newsz) => ~Present(r.pt.pte[a])
    BY <2>4, <2>5, <2>8
  <2>15. \A a \in Below(oldsz) : a >= UpPage(newsz) => a \in Pages
    BY <1>4
  <2>16. ~(newsz >= oldsz)
    BY <1>4
  <2> QED BY <2>5, <2>12, <2>13, <2>14, <2>15, <2>16 DEF Dropped
<1> QED BY <1>2, <1>3, <1>4

(* freevm(): nothing of the page table is left.                            *)
Freed(r, m, H) ==
  r \in Record /\ Sound(r, H) /\ r.pt = NoTable /\ r.ok = m.ok /\ r.panic = m.panic

LEMMA FreevmIs ==
  ASSUME NEW m, NEW H, Sound(m, H), m.panic = "no", NEW r, r = Freevm(m)
  PROVE  Freed(r, m, H)
<1> DEFINE d == Deallocuvm(m, 2 * NPAGES, 0)
           S == {d.pt.dir, d.pt.ktab} \cup {d.pt.tabs[t] : t \in Tables}
           k == KFree(d, S)
<1>1. 2 * NPAGES \in Nat /\ Below(2 * NPAGES) = Pages /\ UpPage(0) = 0
  <2>1. PageCount(2 * NPAGES) = NPAGES
    <3>1. 2 * NPAGES \in Nat /\ PageCount(2 * NPAGES) \in Nat
          /\ 2 * PageCount(2 * NPAGES) \in {2 * NPAGES, 2 * NPAGES + 1}
      BY WordIs, CountIs
    <3> QED BY <3>1, WordIs
  <2>2. PageCount(0) = 0 /\ 0 \in 0 .. WORD - 1 /\ 0 # WORD - 1
    <3>1. PageCount(0) \in Nat /\ 2 * PageCount(0) \in {0, 0 + 1}
      BY CountIs
    <3> QED BY <3>1, WordIs
  <2>3. UpPage(0) = 0
    BY <2>2, UpPageIs
  <2> QED BY <2>1, <2>3, WordIs DEF Below, Pages
<1>2. Dropped(d, m, 2 * NPAGES, 0, H)
  BY <1>1, DeallocuvmIs
<1>3. d.panic = m.panic /\ 0 < 2 * NPAGES
  BY <1>1, <1>2, WordIs DEF Dropped
<1>4. d \in Record /\ Sound(d, H) /\ d.ok = m.ok
  BY <1>2 DEF Dropped
<1>5. \A a \in Pages : d.pt.pte[a].frame = 0
  <2>1. \A a \in Pages : a \in Below(2 * NPAGES) /\ a >= UpPage(0)
    BY <1>1, PageIs
  <2>2. \A a \in Pages : ~Present(d.pt.pte[a])
    BY <1>2, <1>3, <2>1 DEF Dropped
  <2> QED BY <2>2, <1>4 DEF Sound, Tidy
<1>6. r = [k EXCEPT !.pt = NoTable]
  BY DEF Freevm
<1> HIDE DEF d, S
<1>7. k \in Record /\ k.ok = d.ok /\ k.panic = d.panic /\ Gives(k, d, S)
  BY <1>4, KFreeIs
<1> HIDE DEF k
<1>8. /\ r \in Record /\ r.pt = NoTable /\ r.ok = m.ok /\ r.panic = m.panic
      /\ r.free = k.free
  BY <1>3, <1>4, <1>6, <1>7, NoTableIs DEF Record
<1>9. ASSUME NEW f \in Frames
      PROVE  f \in S <=> \E x \in Spots : FrameAt(d.pt, x) = f
  <2>1. f # 0
    BY DEF Frames
  <2>2. f \in S <=> f = d.pt.dir \/ f = d.pt.ktab \/ \E t \in Tables : f = d.pt.tabs[t]
    BY DEF S
  <2>3. ASSUME NEW x \in Spots, FrameAt(d.pt, x) = f
        PROVE  f = d.pt.dir \/ f = d.pt.ktab \/ \E t \in Tables : f = d.pt.tabs[t]
    <3>1. \A a \in Pages : x # <<"page", a>>
      BY <2>1, <2>3, <1>5, FrameAtIs
    <3> QED BY <2>3, <3>1, SpotIs, FrameAtIs
  <2>4. <<"dir", 0>> \in Spots /\ <<"ktab", 0>> \in Spots /\ \A t \in Tables : <<"tab", t>> \in Spots
    BY SpotIs
  <2>5. ASSUME NEW t \in Tables PROVE FrameAt(d.pt, <<"tab", t>>) = d.pt.tabs[t]
    BY FrameAtIs
  <2>6. FrameAt(d.pt, <<"dir", 0>>) = d.pt.dir /\ FrameAt(d.pt, <<"ktab", 0>>) = d.pt.ktab
    BY FrameAtIs
  <2> QED BY <2>2, <2>3, <2>4, <2>5, <2>6
<1>10. Emptied(r.pt, d.pt, Spots)
  BY <1>8, NoTableIs DEF Emptied
<1>11. Tidy(r.pt) /\ r \in Record /\ Spots \subseteq Spots
  BY <1>8, NoTableIs
<1>12. FramesOf(S, d.pt, Spots)
  BY <1>9 DEF FramesOf
<1>13. Gives(r, d, S)
  BY <1>7, <1>8 DEF Gives
<1>14. Sound(r, H)
  BY <1>4, <1>10, <1>11, <1>12, <1>13, ClearSound
<1> QED BY <1>8, <1>14 DEF Freed

(* setupkvm(): an empty page table, or none.                               *)
Begun(r, m, H) ==
  /\ r \in Record /\ Sound(r, H) /\ r.panic = "no" /\ (r.ok => m.ok)
  /\ r.pt.pte = NoTable.pte /\ (r.ok \/ r.pt = NoTable)

LEMMA SetupkvmIs ==
  ASSUME NEW m, NEW H, Sound(m, H), m.ok, m.panic = "no", m.pt = NoTable, NEW r, r = Setupkvm(m)
  PROVE  Begun(r, m, H)
<1> DEFINE d == Kalloc(m)
           v == Taken(m, d)
           w == SetDir(v, d)
           k == Kalloc(w)
           u == Taken(w, k)
           z == Freevm(w)
<1>1. m \in Record /\ m.free \in [Frames -> 0..1]
  BY DEF Sound
<1>2. d \in 0..NFRAMES /\ (d # 0 => d \in Frames /\ m.free[d] = 1)
  BY <1>1, KallocIs
<1>3. r = IF d = 0 THEN Fail(m) ELSE IF k = 0 THEN Fail(z) ELSE SetKtab(u, k)
  BY DEF Setupkvm
<1>4. CASE d = 0
  <2>1. r \in Record /\ r.free = m.free /\ r.pt = m.pt /\ ~r.ok /\ r.panic = m.panic
    BY <1>1, <1>3, <1>4, FailIs
  <2>2. Sound(r, H)
    BY <2>1, SameSound
  <2> QED BY <2>1, <2>2 DEF Begun
<1>5. CASE d # 0
  <2>1. v \in Record /\ v.pt = m.pt /\ v.ok = m.ok /\ v.panic = m.panic
    BY <1>1, TakenIs
  <2>2. Sound(v, H \cup {d})
    BY <1>2, <1>5, TakenSound
  <2>3. (H \cup {d}) \ {d} = H
    BY <1>2, <1>5 DEF Sound
  <2>4. w = SetDir(v, d) /\ z = Freevm(w) /\ k = Kalloc(w) /\ u = Taken(w, k)
    OBVIOUS
  <2> HIDE DEF d, v, w, k, u, z
  <2>13. v \in Record /\ d \in 0..NFRAMES
    BY <1>2, <2>1
  <2>14. DirSet(w, v, <<"dir", 0>>, d)
    BY <2>4, <2>13, SetDirIs
  <2>5. /\ w \in Record /\ w.free = v.free /\ w.ok = v.ok /\ w.panic = v.panic
        /\ Put(w.pt, v.pt, <<"dir", 0>>, d)
        /\ w.pt.pte = v.pt.pte /\ w.pt.tabs = v.pt.tabs
    BY <2>14 DEF DirSet
  <2>6. Tidy(w.pt)
    BY <2>1, <2>5, NoTableIs DEF Tidy
  <2>7. <<"dir", 0>> \in Spots /\ FrameAt(v.pt, <<"dir", 0>>) = 0
    BY <2>1, SpotIs, NoTableIs
  <2>8. Sound(w, (H \cup {d}) \ {d})
    BY <2>2, <2>5, <2>6, <2>7, PutSound
  <2>9. Sound(w, H) /\ w.panic = "no" /\ w.free \in [Frames -> 0..1]
    <3>1. Sound(w, H)
      BY <2>3, <2>8
    <3> QED BY <2>1, <2>5, <3>1 DEF Sound
  <2>10. k \in 0..NFRAMES /\ (k # 0 => k \in Frames /\ w.free[k] = 1)
    BY <2>4, <2>9, KallocIs
  <2>11. CASE k = 0
    <3>1. Freed(z, w, H)
      BY <2>4, <2>9, FreevmIs
    <3>2. z \in Record
      BY <3>1 DEF Freed
    <3>3. r = Fail(z)
      BY <1>3, <1>5, <2>11
    <3>4. r \in Record /\ r.free = z.free /\ r.pt = z.pt /\ ~r.ok /\ r.panic = z.panic
      BY <3>2, <3>3, FailIs
    <3>5. Sound(z, H)
      BY <3>1 DEF Freed
    <3>6. Sound(r, H)
      BY <3>4, <3>5, SameSound
    <3> QED BY <2>9, <3>1, <3>4, <3>6 DEF Begun, Freed
  <2>12. CASE k # 0
    <3>1. u \in Record /\ u.pt = w.pt /\ u.ok = w.ok /\ u.panic = w.panic
      BY <2>4, <2>5, TakenIs
    <3>2. Sound(u, H \cup {k})
      BY <2>4, <2>9, <2>10, <2>12, TakenSound
    <3>3. (H \cup {k}) \ {k} = H
      BY <2>9, <2>10, <2>12 DEF Sound
    <3>4. r = SetKtab(u, k)
      BY <1>3, <1>5, <2>12
    <3>14. u \in Record /\ k \in 0..NFRAMES
      BY <2>10, <3>1
    <3>15. DirSet(r, u, <<"ktab", 0>>, k)
      BY <3>4, <3>14, SetKtabIs
    <3>5. /\ r \in Record /\ r.free = u.free /\ r.ok = u.ok /\ r.panic = u.panic
          /\ Put(r.pt, u.pt, <<"ktab", 0>>, k)
          /\ r.pt.pte = u.pt.pte /\ r.pt.tabs = u.pt.tabs
      BY <3>15 DEF DirSet
    <3>6. Tidy(r.pt)
      BY <2>6, <3>1, <3>5 DEF Tidy
    <3>7. <<"ktab", 0>> \in Spots
      BY SpotIs
    <3>8. FrameAt(u.pt, <<"ktab", 0>>) = 0
      <4>1. FrameAt(v.pt, <<"ktab", 0>>) = 0
        BY <2>1, <3>7, NoTableIs
      <4>2. FrameAt(w.pt, <<"ktab", 0>>) = FrameAt(v.pt, <<"ktab", 0>>)
        BY <2>5, <3>7 DEF Put
      <4> QED BY <3>1, <4>1, <4>2
    <3>9. k \in H \cup {k}
      OBVIOUS
    <3>10. Sound(r, (H \cup {k}) \ {k})
      BY <3>2, <3>5, <3>6, <3>7, <3>8, <3>9, PutSound
    <3>11. Sound(r, H)
      BY <3>3, <3>10
    <3>12. r.ok
      BY <2>1, <2>5, <3>1, <3>5
    <3> QED BY <2>1, <2>5, <2>9, <3>1, <3>5, <3>11, <3>12 DEF Begun
  <2> QED BY <2>11, <2>12
<1> QED BY <1>4, <1>5

-----------------------------------------------------------------------------
(* Growing and copying *)

LEMMA RangeIs ==
  ASSUME NEW s \in Nat, s <= 2 * NPAGES
  PROVE  /\ PageCount(s) \in 0..NPAGES /\ UpPage(s) = PageCount(s)
         /\ Below(s) = 0..(PageCount(s) - 1)
         /\ \A a \in 0..(PageCount(s) - 1) : a \in Pages
<1>1. PageCount(s) \in Nat /\ 2 * PageCount(s) \in {s, s + 1}
  BY CountIs
<1>2. PageCount(s) \in 0..NPAGES
  BY <1>1, WordIs
<1>3. s \in 0..(WORD - 1) /\ s # WORD - 1
  BY WordIs
<1>4. UpPage(s) = PageCount(s)
  BY <1>3, UpPageIs
<1>5. \A a \in 0..(PageCount(s) - 1) : a \in Pages
  BY <1>2, WordIs DEF Pages
<1> QED BY <1>2, <1>4, <1>5 DEF Below

LEMMA RangesGrow ==
  ASSUME NEW s \in Nat, NEW t \in Nat, s <= t
  PROVE  PageCount(s) <= PageCount(t)
BY CountIs

(* allocuvm(): the new pages are there, or as good as nothing happened.    *)
Grown(r, m, oldsz, newsz, H) ==
  LET range == UpPage(oldsz) .. PageCount(newsz) - 1 IN
  /\ r \in Record
  /\ r.panic = "no" => Sound(r, H)
  /\ r.panic # "no" => Stopped(r)
  /\ \A b \in Pages : b \notin range => r.pt.pte[b] = m.pt.pte[b]
  /\ newsz < oldsz \/ newsz >= 2 * NPAGES => r.pt = m.pt
  /\ newsz >= oldsz /\ r.ok => newsz < 2 * NPAGES
  /\ newsz >= oldsz /\ Fine(r) => \A a \in range : a \in Pages /\ r.pt.pte[a].kind = "user"
  /\ (\A a \in Pages : a \in range => m.pt.pte[a] = None) => r.panic = "no"

LEMMA AllocuvmIs ==
  ASSUME NEW m, NEW H, Sound(m, H), m.panic = "no", NEW oldsz \in Nat, NEW newsz \in Nat,
         NEW r, r = Allocuvm(m, oldsz, newsz)
  PROVE  Grown(r, m, oldsz, newsz, H)
<1> DEFINE first == UpPage(oldsz)
           n == PageCount(newsz) - UpPage(oldsz)
           g == NewLoop(m, first, n)
           range == UpPage(oldsz) .. PageCount(newsz) - 1
           kinds == [a \in Nat |-> "user"]
<1>1. r = IF newsz >= 2 * NPAGES THEN Fail(m)
          ELSE IF newsz < oldsz THEN m
          ELSE IF g.ok THEN g ELSE Deallocuvm(g, newsz, oldsz)
  BY DEF Allocuvm, Turns, NewLoop
<1>2. m \in Record
  BY DEF Sound
<1>3. CASE newsz >= 2 * NPAGES
  <2>1. r = Fail(m)
    BY <1>1, <1>3
  <2>2. r \in Record /\ r.free = m.free /\ r.pt = m.pt /\ ~r.ok /\ r.panic = m.panic
    BY <1>2, <2>1, FailIs
  <2>3. Sound(r, H)
    BY <2>2, SameSound
  <2> QED BY <2>2, <2>3 DEF Grown, Fine
<1>4. CASE newsz < 2 * NPAGES /\ newsz < oldsz
  <2>1. r = m
    BY <1>1, <1>4, WordIs
  <2>2. ~(newsz >= oldsz)
    BY <1>4
  <2> QED BY <1>2, <2>1, <2>2 DEF Grown
<1>5. CASE newsz < 2 * NPAGES /\ newsz >= oldsz
  <2>1. /\ first \in Nat /\ n \in Nat /\ first + n - 1 = PageCount(newsz) - 1
        /\ Below(newsz) = 0..(PageCount(newsz) - 1) /\ \A a \in range : a \in Pages
        /\ PageCount(newsz) \in Nat
    <3>1. oldsz <= 2 * NPAGES /\ newsz <= 2 * NPAGES
      BY <1>5, WordIs
    <3>2. first = PageCount(oldsz) /\ PageCount(oldsz) \in Nat /\ PageCount(newsz) \in Nat
      BY <3>1, RangeIs
    <3>3. PageCount(oldsz) <= PageCount(newsz)
      BY <1>5, RangesGrow
    <3>4. Below(newsz) = 0..(PageCount(newsz) - 1) /\ \A a \in 0..(PageCount(newsz) - 1) : a \in Pages
      BY <3>1, RangeIs
    <3> HIDE DEF first
    <3> QED BY <3>2, <3>3, <3>4 DEF first
  <2>2. Looped(g, m, first, n, kinds, Pages, H)
    <3> HIDE DEF first, n, kinds
    <3>1. kinds = [a \in Nat |-> "user"]
      BY DEF kinds
    <3> QED BY <2>1, <3>1, NewLoopIs
  <2>3. r = IF g.ok THEN g ELSE Deallocuvm(g, newsz, oldsz)
    BY <1>1, <1>5, WordIs
  <2>4. range = first .. first + n - 1
    BY <2>1
  <2> HIDE DEF g, range, n, first
  <2>5. /\ g \in Record
        /\ g.panic = "no" => Sound(g, H)
        /\ g.panic # "no" => Stopped(g)
        /\ \A b \in Pages : b \notin range => g.pt.pte[b] = m.pt.pte[b]
        /\ (\A a \in range : a \in Pages /\ m.pt.pte[a] = None) => g.panic = "no"
    BY <2>2, <2>4 DEF Looped
  <2>6. Fine(g) => \A a \in range : a \in Pages /\ g.pt.pte[a].kind = "user"
    <3>1. \A a \in range : kinds[a] = "user"
      <4>1. \A a \in range : a \in Nat
        BY <2>1, PageIs
      <4> QED BY <4>1
    <3> QED BY <2>2, <2>4, <3>1 DEF Looped
  <2>7. CASE g.ok
    <3>1. r = g
      BY <2>3, <2>7
    <3>2. (\A a \in Pages : a \in range => m.pt.pte[a] = None) => g.panic = "no"
      BY <2>1, <2>5
    <3>3. ~(newsz < oldsz)
      BY <1>5
    <3> QED BY <1>5, <2>5, <2>6, <2>7, <3>1, <3>2, <3>3 DEF Grown, range
  <2>8. CASE ~g.ok
    <3>1. g.panic = "no" /\ Sound(g, H)
      BY <2>5, <2>8 DEF Stopped
    <3>2. Dropped(r, g, newsz, oldsz, H)
      BY <2>3, <2>8, <3>1, DeallocuvmIs
    <3>3. Below(newsz) \subseteq Pages
      BY <2>1, <1>5, RangeIs, WordIs
    <3>4. r \in Record /\ Sound(r, H) /\ ~r.ok /\ r.panic = "no"
      BY <2>8, <3>1, <3>2, <3>3 DEF Dropped
    <3>5. \A b \in Pages : b \notin range => r.pt.pte[b] = m.pt.pte[b]
      <4>1. \A b \in Pages : b \in Below(newsz) /\ b >= UpPage(oldsz) => b \in range
        BY <2>1 DEF range, first
      <4>2. \A b \in Pages : r.pt.pte[b] = g.pt.pte[b] \/ (b \in Below(newsz) /\ b >= UpPage(oldsz))
        BY <3>2 DEF Dropped
      <4>3. \A b \in Pages : b \notin range => g.pt.pte[b] = m.pt.pte[b]
        BY <2>5
      <4> QED BY <4>1, <4>2, <4>3
    <3>6. ~Fine(r)
      BY <3>4 DEF Fine
    <3> QED BY <3>4, <3>5, <3>6, <1>5 DEF Grown, range
  <2> QED BY <2>7, <2>8
<1>6. newsz \in Int /\ oldsz \in Int /\ 2 * NPAGES \in Int
  BY WordIs
<1> QED BY <1>3, <1>4, <1>5, <1>6

(* copyuvm(): a page table with the same kinds of pages, or none.          *)
Copied(r, pt, size, H) ==
  /\ r \in Record
  /\ r.panic = "no" => Sound(r, H)
  /\ r.panic # "no" => Stopped(r)
  /\ ~r.ok => r.pt = NoTable
  /\ Fine(r) => \A a \in Below(size) : a \in Pages /\ r.pt.pte[a].kind = pt.pte[a].kind

LEMMA CopyuvmIs ==
  ASSUME NEW m, NEW H, Sound(m, H), m.ok, m.panic = "no", m.pt = NoTable,
         NEW pt \in PageTable, NEW size \in Nat, NEW r, r = Copyuvm(m, pt, size)
  PROVE  Copied(r, pt, size, H)
<1> DEFINE v == Setupkvm(m)
           n == PageCount(size) - 0
           g == CopyLoop(v, pt, n)
           kinds == [a \in Nat |-> IF a \in Pages THEN pt.pte[a].kind ELSE "kernel"]
<1>1. r = IF g.ok \/ g.pt = NoTable THEN g ELSE Freevm(g)
  BY DEF Copyuvm, Turns, CopyLoop
<1>2. n \in Nat /\ n = PageCount(size) /\ Below(size) = 0 .. 0 + n - 1
  BY CountIs DEF Below
<1>3. Begun(v, m, H)
  BY SetupkvmIs
<1>4. Looped(g, v, 0, n, kinds, {}, H)
  <2>1. kinds = [a \in Nat |-> IF a \in Pages THEN pt.pte[a].kind ELSE "kernel"]
    OBVIOUS
  <2>2. Sound(v, H) /\ v.panic = "no"
    BY <1>3 DEF Begun
  <2> HIDE DEF v, n, kinds
  <2> QED BY <1>2, <2>1, <2>2, CopyLoopIs
<1> HIDE DEF v, n, g
<1>5. /\ g \in Record
      /\ g.panic = "no" => Sound(g, H)
      /\ g.panic # "no" => Stopped(g)
      /\ Fine(g) => \A a \in 0 .. 0 + n - 1 : a \in Pages /\ g.pt.pte[a].kind = kinds[a]
  BY <1>4 DEF Looped
<1>6. CASE g.ok \/ g.pt = NoTable
  <2>1. r = g
    BY <1>1, <1>6
  <2>2. Fine(g) => \A a \in Below(size) : a \in Pages /\ g.pt.pte[a].kind = pt.pte[a].kind
    <3>1. \A a \in Pages : kinds[a] = pt.pte[a].kind
      BY PageIs
    <3> QED BY <1>2, <1>5, <3>1
  <2> QED BY <1>5, <1>6, <2>1, <2>2 DEF Copied
<1>7. CASE ~(g.ok \/ g.pt = NoTable)
  <2>1. g.panic = "no" /\ Sound(g, H)
    BY <1>5, <1>7 DEF Stopped
  <2>2. Freed(r, g, H)
    BY <1>1, <1>7, <2>1, FreevmIs
  <2> QED BY <1>7, <2>1, <2>2 DEF Freed, Copied, Fine
<1> QED BY <1>6, <1>7

(* vm_ssualloc(): lazy entries up to the new size, as far as it got.       *)
Reserved(r, m, oldsz, newsz, H) ==
  LET range == UpPage(oldsz) .. PageCount(newsz) - 1 IN
  /\ r \in Record
  /\ r.panic = "no" => Sound(r, H)
  /\ r.panic # "no" => Stopped(r)
  /\ \A b \in Pages : b \notin range => r.pt.pte[b] = m.pt.pte[b]
  /\ r.ok => oldsz <= newsz /\ newsz < 2 * NPAGES
  /\ newsz < oldsz \/ newsz >= 2 * NPAGES => r.pt = m.pt
  /\ Fine(r) => \A a \in range : a \in Pages /\ r.pt.pte[a].kind = "lazy"

LEMMA SsuvallocIs ==
  ASSUME NEW m, NEW H, Sound(m, H), m.panic = "no", NEW oldsz \in Nat, NEW newsz \in Nat,
         NEW r, r = Ssuvalloc(m, oldsz, newsz)
  PROVE  Reserved(r, m, oldsz, newsz, H)
<1> DEFINE first == UpPage(oldsz)
           n == PageCount(newsz) - UpPage(oldsz)
           g == LazyLoop(m, first, n)
           range == UpPage(oldsz) .. PageCount(newsz) - 1
           kinds == [a \in Nat |-> "lazy"]
<1>1. r = IF newsz >= 2 * NPAGES \/ newsz < oldsz THEN Fail(m) ELSE g
  BY DEF Ssuvalloc, Turns, LazyLoop
<1>2. m \in Record /\ newsz \in Int /\ oldsz \in Int /\ 2 * NPAGES \in Int
  BY WordIs DEF Sound
<1>3. CASE newsz >= 2 * NPAGES \/ newsz < oldsz
  <2>1. r = Fail(m)
    BY <1>1, <1>3
  <2>2. r \in Record /\ r.free = m.free /\ r.pt = m.pt /\ ~r.ok /\ r.panic = m.panic
    BY <1>2, <2>1, FailIs
  <2>3. Sound(r, H)
    BY <2>2, SameSound
  <2> QED BY <2>2, <2>3 DEF Reserved, Fine
<1>4. CASE newsz < 2 * NPAGES /\ newsz >= oldsz
  <2>1. /\ first \in Nat /\ n \in Nat /\ first + n - 1 = PageCount(newsz) - 1
        /\ first + n <= NPAGES /\ \A a \in range : a \in Nat
    <3>1. oldsz <= 2 * NPAGES /\ newsz <= 2 * NPAGES
      BY <1>2, <1>4
    <3>2. first = PageCount(oldsz) /\ PageCount(oldsz) \in Nat /\ PageCount(newsz) \in 0..NPAGES
      BY <3>1, RangeIs
    <3>3. PageCount(oldsz) <= PageCount(newsz)
      BY <1>4, RangesGrow
    <3> HIDE DEF first
    <3> QED BY <3>2, <3>3 DEF first
  <2>2. Looped(g, m, first, n, kinds, Pages, H)
    <3>1. kinds = [a \in Nat |-> "lazy"]
      OBVIOUS
    <3> HIDE DEF first, n, kinds
    <3> QED BY <2>1, <3>1, LazyLoopIs
  <2>3. r = g
    BY <1>1, <1>2, <1>4
  <2>4. range = first .. first + n - 1 /\ \A a \in range : kinds[a] = "lazy"
    BY <2>1
  <2> HIDE DEF g, range, n, first, kinds
  <2>5. /\ g \in Record
        /\ g.panic = "no" => Sound(g, H)
        /\ g.panic # "no" => Stopped(g)
        /\ \A b \in Pages : b \notin range => g.pt.pte[b] = m.pt.pte[b]
        /\ Fine(g) => \A a \in range : a \in Pages /\ g.pt.pte[a].kind = "lazy"
    BY <2>2, <2>4 DEF Looped
  <2> QED BY <1>2, <1>4, <2>3, <2>5 DEF Reserved, range
<1> QED BY <1>2, <1>3, <1>4

(* ssu_palloc(): the page has a frame, or the kernel stops.                *)
Faulted(r, m, a, H) ==
  /\ r \in Record
  /\ r.panic = "no" => Sound(r, H)
  /\ r.panic # "no" => Stopped(r)
  /\ r.panic = "no" =>
       /\ a \in Pages /\ ~Present(m.pt.pte[a])
       /\ \A b \in Pages : b # a => r.pt.pte[b] = m.pt.pte[b]
       /\ r.pt.pte[a].kind = IF m.pt.pte[a].kind = "lazy" THEN "user" ELSE "kernel"

LEMMA PageFaultIs ==
  ASSUME NEW m, NEW H, Sound(m, H), m.ok, m.panic = "no", NEW a, NEW r, r = PageFault(m, a)
  PROVE  Faulted(r, m, a, H)
<1> DEFINE f == Kalloc(m)
           w == Taken(m, f)
           kind == IF m.pt.pte[a].kind = "lazy" THEN "user" ELSE "kernel"
           e == [kind |-> kind, frame |-> f]
<1>1. m \in Record /\ m.free \in [Frames -> 0..1] /\ m.pt.pte \in [Pages -> Entry] /\ Tidy(m.pt)
  BY DEF Sound, Record, PageTable
<1>2. f \in 0..NFRAMES /\ (f # 0 => f \in Frames /\ m.free[f] = 1)
  BY <1>1, KallocIs
<1>3. r = IF f = 0 THEN Panic(m, "fault_no_memory")
          ELSE IF a \in Pages /\ m.pt.tabs[a \div PERTABLE] = 0 THEN Panic(w, "fault_no_pte")
          ELSE IF a \notin Pages \/ Present(m.pt.pte[a]) THEN Panic(w, "fault_remap")
          ELSE SetEntry(w, a, e)
  BY DEF PageFault
<1>4. /\ "fault_no_memory" \in Panics \ {"no"} /\ "fault_no_pte" \in Panics \ {"no"}
      /\ "fault_remap" \in Panics \ {"no"}
  BY DEF Panics
<1>5. CASE f = 0
  <2>1. r = Panic(m, "fault_no_memory")
    BY <1>3, <1>5
  <2>2. r \in Record /\ r.free = m.free /\ r.pt = m.pt /\ r.ok = m.ok /\ r.panic = "fault_no_memory"
    BY <1>1, <1>4, <2>1, PanicIs
  <2>3. Sound(r, H)
    BY <2>2, SameSound
  <2> QED BY <2>2, <2>3 DEF Faulted, Stopped
<1>6. CASE f # 0
  <2>1. w \in Record /\ w.pt = m.pt /\ w.ok = m.ok /\ w.panic = m.panic
    BY <1>1, TakenIs
  <2>2. Sound(w, H \cup {f})
    BY <1>2, <1>6, TakenSound
  <2>3. (H \cup {f}) \ {f} = H
    BY <1>2, <1>6 DEF Sound
  <2>4. e.frame = f /\ e.kind = kind /\ kind \in {"user", "kernel"} /\ e \in Entry
    BY <1>2 DEF Entry
  <2>5. Present(e) /\ e # None
    BY <2>4 DEF Present, None
  <2> HIDE DEF f, w, e, kind
  <2>6. CASE a \notin Pages \/ m.pt.tabs[a \div PERTABLE] = 0 \/ Present(m.pt.pte[a])
    <3>1. PICK why \in Panics \ {"no"} : r = Panic(w, why)
      BY <1>3, <1>4, <1>6, <2>6
    <3>2. r \in Record /\ r.free = w.free /\ r.pt = w.pt /\ r.ok = w.ok /\ r.panic = why
      BY <2>1, <3>1, PanicIs
    <3>3. Sound(r, H \cup {f})
      BY <2>2, <3>2, SameSound
    <3> QED BY <2>1, <3>2, <3>3 DEF Faulted, Stopped
  <2>7. CASE ~(a \notin Pages \/ m.pt.tabs[a \div PERTABLE] = 0 \/ Present(m.pt.pte[a]))
    <3>1. r = SetEntry(w, a, e) /\ a \in Pages
      BY <1>3, <1>6, <2>7
    <3>2. /\ r \in Record /\ r.free = w.free /\ r.ok = w.ok /\ r.panic = w.panic
          /\ Put(r.pt, w.pt, <<"page", a>>, f)
          /\ r.pt.tabs = w.pt.tabs /\ r.pt.pte = [w.pt.pte EXCEPT ![a] = e]
      <4>1. w \in Record /\ a \in Pages /\ e \in Entry
        BY <2>1, <2>4, <3>1
      <4>2. /\ r \in Record /\ r.free = w.free /\ r.ok = w.ok /\ r.panic = w.panic
            /\ Put(r.pt, w.pt, <<"page", a>>, e.frame)
            /\ r.pt.tabs = w.pt.tabs /\ r.pt.pte = [w.pt.pte EXCEPT ![a] = e]
        BY <4>1, <3>1, SetEntryIs
      <4> QED BY <2>4, <4>2
    <3>3. \A b \in Pages : r.pt.pte[b] = IF b = a THEN e ELSE m.pt.pte[b]
      BY <1>1, <2>1, <3>2
    <3>4. Tidy(r.pt)
      BY <1>1, <1>6, <2>1, <2>4, <2>5, <2>7, <3>2, <3>3 DEF Tidy
    <3>5. <<"page", a>> \in Spots /\ FrameAt(w.pt, <<"page", a>>) = 0
      BY <1>1, <2>1, <2>7, <3>1, SpotIs, FrameAtIs DEF Tidy
    <3>6. f \in H \cup {f}
      OBVIOUS
    <3>7. Sound(r, (H \cup {f}) \ {f})
      BY <2>2, <3>2, <3>4, <3>5, <3>6, PutSound
    <3>8. Sound(r, H)
      BY <2>3, <3>7
    <3> QED BY <2>1, <2>4, <2>7, <3>1, <3>2, <3>3, <3>8 DEF Faulted, kind
  <2> QED BY <2>6, <2>7
<1> QED BY <1>5, <1>6

-----------------------------------------------------------------------------
(* A page table on the shelf *)

Fr(pt) == {f \in Frames : \E x \in Spots : FrameAt(pt, x) = f}
Distinct(pt) == \A x, y \in Spots : FrameAt(pt, x) # 0 /\ FrameAt(pt, y) = FrameAt(pt, x) => y = x

LEMMA SoundTable ==
  ASSUME NEW m, NEW H, Sound(m, H)
  PROVE  Distinct(m.pt) /\ m.pt \in PageTable /\ Tidy(m.pt) /\ \A f \in Fr(m.pt) : f \notin H
<1>1. m.pt \in PageTable /\ Tidy(m.pt)
  BY DEF Sound, Record
<1>2. Distinct(m.pt)
  BY DEF Sound, Distinct
<1>3. \A f \in Fr(m.pt) : f \notin H
  BY DEF Sound, Fr, Frames
<1> QED BY <1>1, <1>2, <1>3

(* exec() works on a new page table while the old one keeps its frames.    *)
LEMMA SwapSound ==
  ASSUME NEW m, NEW G, NEW q \in PageTable, Sound(m, G \cup Fr(q)), Distinct(q), Tidy(q),
         \A f \in Fr(q) : f \notin G,
         NEW r \in Record, r.free = m.free, r.pt = q
  PROVE  Sound(r, G \cup Fr(m.pt))
<1>1. m \in Record /\ m.pt \in PageTable /\ m.free \in [Frames -> 0..1] /\ G \subseteq Frames
  BY DEF Sound, Record
<1>2. \A f \in G \cup Fr(q) : m.free[f] = 0
  BY DEF Sound
<1>3. \A f \in Fr(m.pt) : m.free[f] = 0 /\ f \notin G /\ f \notin Fr(q)
  BY DEF Sound, Fr, Frames
<1>4. \A x \in Spots : FrameAt(q, x) # 0 => FrameAt(q, x) \in Fr(q)
  BY FrameAtTyped DEF Fr, Frames
<1>5. \A x \in Spots : FrameAt(r.pt, x) # 0 =>
        /\ r.free[FrameAt(r.pt, x)] = 0 /\ FrameAt(r.pt, x) \notin G \cup Fr(m.pt)
        /\ \A y \in Spots : FrameAt(r.pt, y) = FrameAt(r.pt, x) => y = x
  BY <1>2, <1>3, <1>4 DEF Distinct
<1>6. \A f \in Frames : r.free[f] = 1 \/ f \in G \cup Fr(m.pt) \/ \E x \in Spots : FrameAt(r.pt, x) = f
  <2> TAKE f \in Frames
  <2>1. m.free[f] = 1 \/ f \in G \cup Fr(q) \/ \E x \in Spots : FrameAt(m.pt, x) = f
    BY DEF Sound
  <2> QED BY <2>1 DEF Fr
<1>7. G \cup Fr(m.pt) \subseteq Frames /\ \A f \in G \cup Fr(m.pt) : r.free[f] = 0
  BY <1>1, <1>2, <1>3 DEF Fr
<1> QED BY <1>1, <1>5, <1>6, <1>7 DEF Sound

-----------------------------------------------------------------------------
(* The state *)

LEMMA MemoryIs ==
  ASSUME free \in [Frames -> 0..1], NEW pt \in PageTable, NEW m, m = Memory(pt)
  PROVE  m \in Record /\ m.free = free /\ m.pt = pt /\ m.ok /\ m.panic = "no"
<1>1. free \in [Frames -> Int] /\ "no" \in Panics
  BY DEF Panics
<1> QED BY <1>1 DEF Memory, Record

(* A step changes the memory of one process, p: if that is apart from all   *)
(* the rest, then so is everybody's.                                       *)
LEMMA OthersApart ==
  ASSUME proc \in [Procs -> Slot], proc' \in [Procs -> Slot], free' \in [Frames -> 0..1],
         NEW p \in Procs, \A q \in Procs : Apart(q),
         \A q \in Procs \ {p} : proc'[q] = proc[q], Apart(p)'
  PROVE  \A q \in Procs : Apart(q)'
<1> SUFFICES ASSUME NEW q \in Procs, q # p PROVE Apart(q)'
  OBVIOUS
<1> DEFINE stackp == {proc'[p].kstack} \ {0}
           stackq == {proc[q].kstack} \ {0}
           op == Others(p)
           oq == Others(q)'
<1>1. /\ \A u \in Procs : proc[u] \in Slot /\ proc'[u] \in Slot
      /\ \A u \in Procs : proc[u].pt \in PageTable /\ proc'[u].pt \in PageTable
      /\ proc'[q] = proc[q]
  BY DEF Slot
<1>2. Others(p)' = op
  BY DEF Others, Holds
<1>3. /\ \A x \in Spots : FrameAt(proc'[p].pt, x) # 0 =>
           /\ free'[FrameAt(proc'[p].pt, x)] = 0 /\ FrameAt(proc'[p].pt, x) \notin op \cup stackp
           /\ \A y \in Spots : FrameAt(proc'[p].pt, y) = FrameAt(proc'[p].pt, x) => y = x
      /\ op \cup stackp \subseteq Frames /\ \A f \in op \cup stackp : free'[f] = 0
      /\ \A f \in Frames : free'[f] = 1 \/ f \in op \cup stackp
                           \/ \E x \in Spots : FrameAt(proc'[p].pt, x) = f
      /\ proc'[p].kstack \notin op
  BY <1>2 DEF Apart, Sound, Memory
<1>4. /\ \A x \in Spots : FrameAt(proc[q].pt, x) # 0 =>
           /\ FrameAt(proc[q].pt, x) \notin Others(q) \cup stackq
           /\ \A y \in Spots : FrameAt(proc[q].pt, y) = FrameAt(proc[q].pt, x) => y = x
      /\ stackq \subseteq Frames /\ Tidy(proc[q].pt)
      /\ proc[q].kstack \notin Others(q)
  <2>1. Sound(Memory(proc[q].pt), Others(q) \cup stackq) /\ proc[q].kstack \notin Others(q)
    BY DEF Apart
  <2>2. Memory(proc[q].pt).pt = proc[q].pt
    BY DEF Memory
  <2> HIDE DEF stackq
  <2>3. /\ Others(q) \cup stackq \subseteq Frames /\ Tidy(Memory(proc[q].pt).pt)
        /\ \A x \in Spots : FrameAt(Memory(proc[q].pt).pt, x) # 0 =>
             /\ FrameAt(Memory(proc[q].pt).pt, x) \notin Others(q) \cup stackq
             /\ \A y \in Spots : FrameAt(Memory(proc[q].pt).pt, y)
                                  = FrameAt(Memory(proc[q].pt).pt, x) => y = x
    BY <2>1 DEF Sound
  <2> QED BY <2>1, <2>2, <2>3
<1>5. \A f \in Frames : f \in op <=> \E u \in Procs \ {p} : Holds(proc[u], f)
  BY DEF Others
<1>6. \A f \in Frames : f \in oq <=> Holds(proc'[p], f) \/ \E u \in Procs \ {p, q} : Holds(proc[u], f)
  BY DEF Others, Holds
<1>7. \A f \in Frames : f \in Others(q) <=> Holds(proc[p], f) \/ \E u \in Procs \ {p, q} : Holds(proc[u], f)
  BY DEF Others
<1>8. oq \subseteq Frames
  BY DEF Others
<1>9. \A x \in Spots : FrameAt(proc[q].pt, x) # 0 =>
        FrameAt(proc[q].pt, x) \in Frames /\ FrameAt(proc[q].pt, x) \in op
  BY <1>1, <1>5, FrameAtTyped DEF Frames, Holds
<1>10. \A f \in stackq : f \in Frames /\ f \in op
  BY <1>4, <1>5 DEF Holds
<1>11. \A f \in Frames : Holds(proc'[p], f) => free'[f] = 0 /\ f \notin op
  BY <1>3 DEF Holds, Frames
<1> HIDE DEF op, oq
<1>12. \A f \in oq : free'[f] = 0
  BY <1>3, <1>5, <1>6, <1>8, <1>11
<1>13. \A x \in Spots : FrameAt(proc[q].pt, x) # 0 =>
        /\ free'[FrameAt(proc[q].pt, x)] = 0 /\ FrameAt(proc[q].pt, x) \notin oq \cup stackq
        /\ \A y \in Spots : FrameAt(proc[q].pt, y) = FrameAt(proc[q].pt, x) => y = x
  BY <1>3, <1>4, <1>6, <1>7, <1>9, <1>11
<1>14. \A f \in Frames : free'[f] = 1 \/ f \in oq \cup stackq \/ \E x \in Spots : FrameAt(proc[q].pt, x) = f
  <2> SUFFICES ASSUME NEW f \in Frames, free'[f] # 1
               PROVE  f \in oq \cup stackq \/ \E x \in Spots : FrameAt(proc[q].pt, x) = f
    OBVIOUS
  <2>1. f # 0
    BY DEF Frames
  <2>2. CASE Holds(proc'[p], f)
    BY <1>6, <2>2
  <2>3. CASE ~Holds(proc'[p], f)
    <3>1. f \in op
      BY <1>3, <2>3 DEF Holds
    <3>2. PICK u \in Procs \ {p} : Holds(proc[u], f)
      BY <1>5, <3>1
    <3>3. CASE u = q
      BY <2>1, <3>2, <3>3 DEF Holds
    <3>4. CASE u # q
      BY <1>6, <3>2, <3>4
    <3> QED BY <3>3, <3>4
  <2> QED BY <2>2, <2>3
<1>15. \A f \in stackq : free'[f] = 0
  BY <1>3, <1>10
<1>16. proc[q].kstack \notin oq
  BY <1>3, <1>4, <1>6, <1>7, <1>8, <1>10, <1>11 DEF Frames
<1>17. Memory(proc[q].pt)' \in Record
  <2>1. free' \in [Frames -> Int] /\ "no" \in Panics
    BY DEF Panics
  <2> QED BY <2>1, <1>1 DEF Memory, Record
<1>18. Sound(Memory(proc[q].pt), Others(q) \cup ({proc[q].kstack} \ {0}))'
  <2>1. oq \cup stackq \subseteq Frames /\ \A f \in oq \cup stackq : free'[f] = 0
    BY <1>4, <1>8, <1>12, <1>15
  <2> QED BY <1>1, <1>4, <1>13, <1>14, <1>17, <2>1 DEF Sound, Memory, oq
<1> QED BY <1>1, <1>16, <1>18 DEF Apart, oq

Backed(s) ==
  s.state = "used" /\ s.sz # WORD - 1 /\ s.pt.pte[0].kind = "user"
    => Below(s.sz) \subseteq {a \in Pages : s.pt.pte[a] # None}

(* A step replaces the slot of one process and leaves the memory r: what    *)
(* has to hold of the two for the invariant.                               *)
Kept(p, s, r) ==
  /\ proc' = [proc EXCEPT ![p] = s] /\ free' = r.free /\ panic' = r.panic
  /\ s \in Slot /\ Tidy(s.pt) /\ (s.state = "unused" => s = Unused)
  /\ r \in Record /\ r.free \in [Frames -> 0..1]
  /\ r.panic = "no" =>
       /\ r.pt = s.pt /\ Sound(r, Others(p) \cup ({s.kstack} \ {0})) /\ s.kstack \notin Others(p)
       /\ (s.state # "unused" => Sized(s)) /\ Backed(s)

LEMMA SlotKept ==
  ASSUME MInv, panic = "no", calls' \in 0..MaxCalls, NEW p \in Procs, NEW s, NEW r, Kept(p, s, r)
  PROVE  MInv'
<1>1. proc \in [Procs -> Slot] /\ s \in Slot /\ r \in Record /\ free' = r.free /\ panic' = r.panic
  BY DEF MInv, Shape, Kept
<1>2. /\ proc' \in [Procs -> Slot] /\ proc'[p] = s
      /\ \A q \in Procs \ {p} : proc'[q] = proc[q]
  BY <1>1 DEF Kept
<1>3. free' \in [Frames -> 0..1] /\ panic' \in Panics
  BY <1>1 DEF Kept, Record
<1>4. \A q \in Procs : Tidy(proc'[q].pt) /\ (proc'[q].state = "unused" => proc'[q] = Unused)
  BY <1>2 DEF Kept, MInv, Shape
<1>5. Shape'
  BY <1>2, <1>3, <1>4 DEF Shape
<1>6. SizeBacked'
  <2>1. panic' = "no" => Backed(s)
    BY <1>1 DEF Kept
  <2>2. ASSUME NEW q \in Procs, panic' = "no", q # p
        PROVE  Backed(proc'[q])
    BY <1>2, <2>2 DEF MInv, SizeBacked, Backed
  <2>3. panic' = "no" => \A q \in Procs : Backed(proc'[q])
    BY <1>2, <2>1, <2>2
  <2> QED BY <2>3 DEF SizeBacked, Backed
<1>7. ASSUME panic' = "no"
      PROVE  \A q \in Procs : Apart(q)' /\ (proc'[q].state # "unused" => Sized(proc'[q]))
  <2>1. /\ r.pt = s.pt /\ Sound(r, Others(p) \cup ({s.kstack} \ {0})) /\ s.kstack \notin Others(p)
        /\ (s.state # "unused" => Sized(s))
    BY <1>1, <1>7 DEF Kept
  <2> DEFINE m == [free |-> r.free, pt |-> s.pt, ok |-> TRUE, panic |-> "no"]
  <2>2. m \in Record /\ m.free = r.free /\ m.pt = r.pt
    <3>1. "no" \in Panics /\ s.pt \in PageTable /\ r.free \in [Frames -> Int]
      BY <1>1 DEF Panics, Slot, Record
    <3> QED BY <2>1, <3>1 DEF Record
  <2>3. Memory(proc[p].pt)' = m
    BY <1>1, <1>2 DEF Memory
  <2> HIDE DEF m
  <2>4. Sound(m, Others(p) \cup ({s.kstack} \ {0}))
    BY <2>1, <2>2, SameSound
  <2>5. Others(p)' = Others(p)
    BY <1>2 DEF Others, Holds
  <2>6. Sound(Memory(proc[p].pt), Others(p) \cup ({proc[p].kstack} \ {0}))'
    <3>1. Memory(proc[p].pt)' = m /\ (Others(p) \cup ({proc[p].kstack} \ {0}))' = Others(p) \cup ({s.kstack} \ {0})
      BY <1>2, <2>3, <2>5
    <3> QED BY <2>4, <3>1
  <2>7. Apart(p)'
    BY <1>2, <2>1, <2>5, <2>6 DEF Apart
  <2>8. \A q \in Procs : Apart(q)
    BY DEF MInv
  <2>9. \A q \in Procs : Apart(q)'
    BY <1>1, <1>2, <1>3, <2>7, <2>8, OthersApart
  <2>10. \A q \in Procs : proc'[q].state # "unused" => Sized(proc'[q])
    BY <1>2, <2>1 DEF MInv
  <2> QED BY <2>9, <2>10
<1>8. (panic = "no" => \A q \in Procs : Apart(q) /\ (proc[q].state # "unused" => Sized(proc[q])))'
  BY <1>7 DEF Sized
<1> QED BY <1>5, <1>6, <1>8 DEF MInv

-----------------------------------------------------------------------------
(* The calls *)

Mine(p) == Others(p) \cup ({proc[p].kstack} \ {0})

LEMMA SlotIs ==
  ASSUME MInv, panic = "no", NEW p \in Procs
  PROVE  /\ proc \in [Procs -> Slot] /\ proc[p] \in Slot /\ proc[p].pt \in PageTable
         /\ proc[p].kstack \in 0..NFRAMES /\ proc[p].sz \in 0..(WORD - 1) /\ Tidy(proc[p].pt)
         /\ free \in [Frames -> 0..1] /\ calls \in 0..MaxCalls
         /\ (proc[p].state = "unused" => proc[p] = Unused) /\ Backed(proc[p])
         /\ Apart(p) /\ (proc[p].state # "unused" => Sized(proc[p]))
<1>1. Shape /\ Apart(p) /\ (proc[p].state # "unused" => Sized(proc[p]))
  BY DEF MInv
<1>2. proc[p] \in Slot
  BY <1>1 DEF Shape
<1>3. Backed(proc[p])
  BY DEF MInv, SizeBacked, Backed
<1> QED BY <1>1, <1>2, <1>3 DEF Shape, Slot

LEMMA CallIs ==
  ASSUME MInv, panic = "no", NEW p \in Procs, NEW m, m = Memory(proc[p].pt)
  PROVE  /\ m \in Record /\ m.free = free /\ m.pt = proc[p].pt /\ m.ok /\ m.panic = "no"
         /\ Sound(m, Mine(p)) /\ proc[p].kstack \notin Others(p)
<1>1. proc[p].pt \in PageTable /\ free \in [Frames -> 0..1] /\ Apart(p)
  BY SlotIs
<1>2. m \in Record /\ m.free = free /\ m.pt = proc[p].pt /\ m.ok /\ m.panic = "no"
  BY <1>1, MemoryIs
<1>3. Sound(m, Mine(p)) /\ proc[p].kstack \notin Others(p)
  BY <1>1 DEF Apart, Mine
<1> QED BY <1>2, <1>3

LEMMA StoppedIs ==
  ASSUME NEW r, Stopped(r)
  PROVE  r \in Record /\ r.free \in [Frames -> 0..1] /\ Tidy(r.pt)
BY DEF Stopped, Sound

(* sbrk, ssualloc and the page fault: the caller's page table and size.    *)
LEMMA ResultKept ==
  ASSUME MInv, NEW p \in Procs, Call(p), NEW r \in Record, NEW sz \in 0..(WORD - 1),
         Result(p, r, sz),
         r.panic = "no" => /\ Sound(r, Mine(p))
                           /\ sz \in 1..(2 * NPAGES) \cup {WORD - 1}
                           /\ r.pt.pte[0].kind # "lazy"
                           /\ sz # WORD - 1 /\ r.pt.pte[0].kind = "user"
                                => Below(sz) \subseteq {a \in Pages : r.pt.pte[a] # None},
         r.panic # "no" => Stopped(r)
  PROVE  MInv'
<1> DEFINE s == [proc[p] EXCEPT !.pt = r.pt, !.sz = sz]
<1>1. /\ panic = "no" /\ proc[p].state = "used" /\ calls' \in 0..MaxCalls
  <2>1. calls \in 0..MaxCalls /\ calls < MaxCalls /\ calls' = calls + 1 /\ panic = "no" /\ proc[p].state = "used"
    BY SlotIs DEF Call
  <2> QED BY <2>1
<1>2. /\ proc \in [Procs -> Slot] /\ proc[p] \in Slot /\ proc[p].kstack \notin Others(p)
      /\ r.pt \in PageTable
  BY <1>1, SlotIs, CallIs DEF Record
<1>3. /\ s \in Slot /\ s.state = "used" /\ s.pt = r.pt /\ s.sz = sz
      /\ s.kstack = proc[p].kstack
  BY <1>1, <1>2 DEF Slot
<1>4. /\ proc' = [proc EXCEPT ![p] = s] /\ free' = r.free /\ panic' = r.panic
  BY <1>2 DEF Result
<1> HIDE DEF s
<1>5. Tidy(r.pt) /\ r.free \in [Frames -> 0..1]
  BY StoppedIs DEF Sound
<1>6. s.state # "unused"
  BY <1>3
<1>7. r.panic = "no" =>
       /\ r.pt = s.pt /\ Sound(r, Others(p) \cup ({s.kstack} \ {0})) /\ s.kstack \notin Others(p)
       /\ Sized(s) /\ Backed(s)
  BY <1>2, <1>3 DEF Mine, Sized, Backed
<1>8. Kept(p, s, r)
  BY <1>3, <1>4, <1>5, <1>6, <1>7 DEF Kept
<1> QED BY <1>1, <1>8, SlotKept

(* sbrk() upwards and downwards.                                           *)
LEMMA SbrkInv ==
  ASSUME MInv, NEW p \in Procs, NEW n \in Int, Sbrk(p, n)
  PROVE  MInv'
<1> DEFINE old == proc[p].sz
           new == Wrap(old + n)
           m == Memory(proc[p].pt)
           v == IF n > 0 THEN Allocuvm(m, old, new) ELSE Deallocuvm(m, old, new)
           ret == IF n > 0 THEN IF new < old THEN old ELSE new
                           ELSE IF new >= old THEN old ELSE new
           sz == IF v.ok /\ ret # 0 THEN ret ELSE old
           r == [v EXCEPT !.ok = TRUE]
           G == Mine(p)
<1>1. Call(p) /\ Result(p, r, sz) /\ panic = "no" /\ proc[p].state = "used"
  BY DEF Sbrk, Call
<1>2. /\ proc[p].sz \in 0..(WORD - 1) /\ Sized(proc[p]) /\ Backed(proc[p])
  BY <1>1, SlotIs
<1>3. /\ m \in Record /\ m.pt = proc[p].pt /\ m.ok /\ m.panic = "no"
      /\ Sound(m, G)
  BY <1>1, CallIs
<1>4. /\ old \in Nat /\ new \in Nat /\ new \in 0..(WORD - 1)
      /\ old \in 1..(2 * NPAGES) \cup {WORD - 1} /\ old \in 0..(WORD - 1)
      /\ m.pt.pte[0].kind # "lazy"
      /\ old # WORD - 1 /\ m.pt.pte[0].kind = "user"
           => Below(old) \subseteq {a \in Pages : m.pt.pte[a] # None}
  <2>1. new \in 0..(WORD - 1)
    BY <1>2, WrapIs, WordIs
  <2> HIDE DEF new, m
  <2>2. new \in Nat /\ old \in Nat
    BY <1>2, <2>1, WordIs
  <2>3. /\ old \in 1..(2 * NPAGES) \cup {WORD - 1}
        /\ m.pt.pte[0].kind # "lazy"
    BY <1>2, <1>3 DEF Sized
  <2>4. old # WORD - 1 /\ m.pt.pte[0].kind = "user"
          => Below(old) \subseteq {a \in Pages : m.pt.pte[a] # None}
    BY <1>1, <1>2, <1>3 DEF Backed
  <2> QED BY <1>2, <2>1, <2>2, <2>3, <2>4
<1> HIDE DEF m, G
<1>5. 0 \in Pages
  BY WordIs DEF Pages
<1>6. SUFFICES /\ v \in Record
               /\ v.panic = "no" => Sound(v, G)
               /\ v.panic # "no" => Stopped(v)
               /\ sz \in 0..(WORD - 1)
               /\ v.panic = "no" =>
                    /\ sz \in 1..(2 * NPAGES) \cup {WORD - 1}
                    /\ v.pt.pte[0].kind # "lazy"
                    /\ sz # WORD - 1 /\ v.pt.pte[0].kind = "user"
                         => Below(sz) \subseteq {a \in Pages : v.pt.pte[a] # None}
  <2> HIDE DEF v, sz
  <2>1. r \in Record /\ r.free = v.free /\ r.pt = v.pt /\ r.ok /\ r.panic = v.panic
    BY <1>6 DEF Record
  <2> HIDE DEF r
  <2>2. r.panic = "no" => Sound(r, G)
    BY <1>6, <2>1, SameSound
  <2>3. r.panic # "no" => Stopped(r)
    <3>1. ASSUME r.panic # "no" PROVE Stopped(r)
      <4>1. PICK F : Sound(v, F)
        BY <1>6, <2>1, <3>1 DEF Stopped
      <4>2. Sound(r, F)
        BY <2>1, <4>1, SameSound
      <4> QED BY <2>1, <4>2 DEF Stopped
    <3> QED BY <3>1
  <2> QED BY <1>1, <1>6, <2>1, <2>2, <2>3, ResultKept DEF G
<1> HIDE DEF r
<1>7. CASE n > 0
  <2>1. v = Allocuvm(m, old, new)
    BY <1>7
  <2>2. Grown(v, m, old, new, G)
    <3> HIDE DEF v, old, new
    <3> QED BY <1>3, <1>4, <2>1, AllocuvmIs
  <2>3. sz = IF v.ok /\ (IF new < old THEN old ELSE new) # 0 THEN (IF new < old THEN old ELSE new) ELSE old
    BY <1>7
  <2> HIDE DEF v, old, new, sz, ret
  <2>4. v \in Record /\ (v.panic = "no" => Sound(v, G)) /\ (v.panic # "no" => Stopped(v))
    BY <2>2 DEF Grown
  <2>5. CASE new < old \/ new >= 2 * NPAGES
    <3>1. v.pt = m.pt
      BY <2>2, <2>5 DEF Grown
    <3>2. sz = old
      <4>1. CASE new < old
        BY <2>3, <4>1
      <4>2. CASE ~(new < old)
        <5>1. ~v.ok
          BY <1>4, <2>2, <2>5, <4>2, WordIs DEF Grown
        <5> QED BY <2>3, <5>1
      <4> QED BY <4>1, <4>2
    <3> QED BY <1>4, <2>4, <3>1, <3>2
  <2>6. CASE new >= old /\ new < 2 * NPAGES
    <3>1. old # WORD - 1 /\ old \in 1..(2 * NPAGES) /\ old <= 2 * NPAGES /\ new <= 2 * NPAGES /\ new >= 1
      BY <1>4, <2>6, WordIs
    <3>2. /\ UpPage(old) = PageCount(old) /\ PageCount(old) \in Nat /\ PageCount(old) >= 1
          /\ Below(old) = 0..(PageCount(old) - 1)
          /\ Below(new) = 0..(PageCount(new) - 1) /\ PageCount(new) \in Nat
          /\ PageCount(new) >= PageCount(old)
      <4>1. UpPage(old) = PageCount(old) /\ PageCount(old) \in Nat /\ Below(old) = 0..(PageCount(old) - 1)
        BY <1>4, <3>1, RangeIs
      <4>2. Below(new) = 0..(PageCount(new) - 1) /\ PageCount(new) \in Nat
        BY <1>4, <3>1, RangeIs
      <4>3. 2 * PageCount(old) \in {old, old + 1}
        BY <1>4, CountIs
      <4>4. PageCount(old) >= 1
        BY <3>1, <4>1, <4>3
      <4>5. PageCount(new) >= PageCount(old)
        BY <1>4, <2>6, <4>1, <4>2, RangesGrow
      <4> QED BY <4>1, <4>2, <4>4, <4>5
    <3>3. \A b \in Pages : b \notin PageCount(old)..(PageCount(new) - 1) => v.pt.pte[b] = m.pt.pte[b]
      BY <2>2, <3>2 DEF Grown
    <3>4. v.pt.pte[0] = m.pt.pte[0]
      BY <1>5, <3>2, <3>3
    <3>5. m.pt.pte[0].kind = "user" => \A a \in 0..(PageCount(old) - 1) : a \in Pages /\ v.pt.pte[a] # None
      BY <1>4, <3>1, <3>2, <3>3
    <3>6. CASE ~v.ok
      <4>1. sz = old
        BY <2>3, <3>6
      <4> QED BY <1>4, <2>4, <3>1, <3>2, <3>4, <3>5, <4>1
    <3>7. CASE v.ok
      <4>1. sz = new /\ new \in 1..(2 * NPAGES)
        BY <1>4, <2>3, <2>6, <3>1, <3>7
      <4>2. v.panic = "no" => \A a \in PageCount(old)..(PageCount(new) - 1) : a \in Pages /\ v.pt.pte[a].kind = "user"
        BY <2>2, <2>6, <3>2, <3>7 DEF Grown, Fine
      <4>3. None.kind # "user"
        BY DEF None
      <4>4. v.panic = "no" /\ m.pt.pte[0].kind = "user" =>
              \A a \in 0..(PageCount(new) - 1) : a \in Pages /\ v.pt.pte[a] # None
        BY <3>2, <3>5, <4>2, <4>3
      <4> QED BY <1>4, <2>4, <3>2, <3>4, <4>1, <4>4
    <3> QED BY <3>6, <3>7
  <2> QED BY <1>4, <2>5, <2>6, WordIs
<1>8. CASE ~(n > 0)
  <2>1. v = Deallocuvm(m, old, new)
    BY <1>8
  <2>2. Dropped(v, m, old, new, G)
    <3> HIDE DEF v, old, new
    <3> QED BY <1>3, <1>4, <2>1, DeallocuvmIs
  <2>3. sz = IF v.ok /\ (IF new >= old THEN old ELSE new) # 0 THEN (IF new >= old THEN old ELSE new) ELSE old
    BY <1>8
  <2> HIDE DEF v, old, new, sz, ret
  <2>4. v \in Record /\ Sound(v, G) /\ v.ok
    BY <1>3, <2>2 DEF Dropped
  <2>5. Stopped(v)
    BY <2>4 DEF Stopped
  <2>6. CASE new >= old
    <3>1. v = m
      BY <2>2, <2>6 DEF Dropped
    <3>2. sz = old
      BY <2>3, <2>6
    <3> QED BY <1>4, <2>4, <2>5, <3>1, <3>2
  <2>7. CASE new < old
    <3>1. sz = IF new # 0 THEN new ELSE old
      BY <1>4, <2>3, <2>4, <2>7
    <3>2. sz \in 0..(WORD - 1)
      BY <1>4, <3>1
    <3> SUFFICES ASSUME v.panic = "no"
                 PROVE  /\ sz \in 1..(2 * NPAGES) \cup {WORD - 1}
                        /\ v.pt.pte[0].kind # "lazy"
                        /\ sz # WORD - 1 /\ v.pt.pte[0].kind = "user"
                             => Below(sz) \subseteq {a \in Pages : v.pt.pte[a] # None}
      BY <2>4, <2>5, <3>2
    <3>3. \A a \in Below(old) : a >= UpPage(new) => a \in Pages
      BY <2>2, <2>7 DEF Dropped
    <3>4. \A a \in Pages : a \in Below(old) /\ a >= UpPage(new) => ~Present(v.pt.pte[a])
      BY <2>2, <2>7 DEF Dropped
    <3>5. old # WORD - 1
      <4> SUFFICES ASSUME old = WORD - 1 PROVE FALSE
        OBVIOUS
      <4>1. UpPage(new) = PageCount(new) /\ PageCount(new) \in Nat /\ 2 * PageCount(new) \in {new, new + 1}
        BY <1>4, <2>7, UpPageIs, CountIs
      <4>2. PageCount(old) \in Nat /\ 2 * PageCount(old) \in {old, old + 1}
        BY <1>4, CountIs
      <4>3. 2 * NPAGES - 1 \in Below(old) /\ 2 * NPAGES - 1 >= UpPage(new)
        BY <1>4, <2>7, <4>1, <4>2, WordIs DEF Below
      <4>4. 2 * NPAGES - 1 \notin Pages
        BY WordIs DEF Pages
      <4> QED BY <3>3, <4>3, <4>4
    <3>6. old \in 1..(2 * NPAGES) /\ new < 2 * NPAGES /\ new <= 2 * NPAGES /\ old <= 2 * NPAGES
      BY <1>4, <2>7, <3>5, WordIs
    <3>7. /\ UpPage(new) = PageCount(new) /\ PageCount(new) \in Nat
          /\ Below(new) = 0..(PageCount(new) - 1) /\ 2 * PageCount(new) \in {new, new + 1}
      BY <1>4, <3>6, RangeIs, CountIs
    <3>8. /\ PageCount(old) \in Nat /\ PageCount(old) >= 1 /\ PageCount(new) <= PageCount(old)
          /\ Below(old) = 0..(PageCount(old) - 1)
      <4>1. PageCount(old) \in Nat /\ Below(old) = 0..(PageCount(old) - 1) /\ 2 * PageCount(old) \in {old, old + 1}
        BY <1>4, <3>6, RangeIs, CountIs
      <4>2. PageCount(old) >= 1
        BY <3>6, <4>1
      <4>3. PageCount(new) <= PageCount(old)
        BY <1>4, <2>7, RangesGrow
      <4> QED BY <4>1, <4>2, <4>3
    <3>9. \A a \in Pages : v.pt.pte[a] = m.pt.pte[a] \/ (a >= PageCount(new) /\ v.pt.pte[a] = None)
      BY <2>2, <3>7 DEF Dropped
    <3>10. v.pt.pte[0].kind # "lazy"
      BY <1>4, <1>5, <3>9 DEF None
    <3>11. CASE new = 0
      <4>1. 0 \in Below(old) /\ 0 >= UpPage(new)
        BY <3>7, <3>8, <3>11
      <4>2. ~Present(v.pt.pte[0])
        BY <1>5, <3>4, <4>1
      <4> QED BY <3>1, <3>6, <3>10, <3>11, <4>2 DEF Present
    <3>12. CASE new # 0
      <4>1. sz = new /\ new \in 1..(2 * NPAGES)
        BY <1>4, <3>1, <3>6, <3>12
      <4>2. PageCount(new) >= 1
        BY <3>7, <4>1
      <4>3. v.pt.pte[0] = m.pt.pte[0]
        BY <1>5, <3>7, <3>9, <4>2
      <4>4. m.pt.pte[0].kind = "user" => \A a \in 0..(PageCount(new) - 1) : a \in Pages /\ v.pt.pte[a] # None
        <5> SUFFICES ASSUME m.pt.pte[0].kind = "user", NEW a \in 0..(PageCount(new) - 1)
                     PROVE  a \in Pages /\ v.pt.pte[a] # None
          OBVIOUS
        <5>1. a \in Below(old) /\ ~(a >= PageCount(new))
          BY <3>7, <3>8
        <5>2. a \in Pages /\ m.pt.pte[a] # None
          BY <1>4, <3>5, <5>1
        <5> QED BY <3>9, <5>1, <5>2
      <4> QED BY <3>7, <3>10, <4>1, <4>3, <4>4
    <3> QED BY <3>11, <3>12
  <2> QED BY <1>4, <2>6, <2>7
<1> QED BY <1>7, <1>8

(* ssualloc(), whose failure becomes the size.                             *)
LEMMA SsuallocInv ==
  ASSUME MInv, NEW p \in Procs, NEW n \in Nat, Ssualloc(p, n)
  PROVE  MInv'
<1> DEFINE old == proc[p].sz
           new == Wrap(old + n)
           m == Memory(proc[p].pt)
           v == Ssuvalloc(m, old, new)
           sz == SsuallocSize(v, new)
           G == Mine(p)
<1>1. Call(p) /\ Result(p, v, sz) /\ panic = "no" /\ proc[p].state = "used"
  BY DEF Ssualloc, Call
<1>2. /\ proc[p].sz \in 0..(WORD - 1) /\ Sized(proc[p]) /\ Backed(proc[p])
  BY <1>1, SlotIs
<1>3. /\ m \in Record /\ m.pt = proc[p].pt /\ m.ok /\ m.panic = "no"
      /\ Sound(m, G)
  BY <1>1, CallIs
<1>4. /\ old \in Nat /\ new \in Nat /\ new \in 0..(WORD - 1)
      /\ old \in 1..(2 * NPAGES) \cup {WORD - 1} /\ old \in 0..(WORD - 1)
      /\ m.pt.pte[0].kind # "lazy"
      /\ old # WORD - 1 /\ m.pt.pte[0].kind = "user"
           => Below(old) \subseteq {a \in Pages : m.pt.pte[a] # None}
  <2>1. new \in 0..(WORD - 1)
    BY <1>2, WrapIs, WordIs
  <2> HIDE DEF new, m
  <2>2. new \in Nat /\ old \in Nat
    BY <1>2, <2>1, WordIs
  <2>3. /\ old \in 1..(2 * NPAGES) \cup {WORD - 1}
        /\ m.pt.pte[0].kind # "lazy"
    BY <1>2, <1>3 DEF Sized
  <2>4. old # WORD - 1 /\ m.pt.pte[0].kind = "user"
          => Below(old) \subseteq {a \in Pages : m.pt.pte[a] # None}
    BY <1>1, <1>2, <1>3 DEF Backed
  <2> QED BY <1>2, <2>1, <2>2, <2>3, <2>4
<1> HIDE DEF m, G
<1>5. 0 \in Pages
  BY WordIs DEF Pages
<1>6. Reserved(v, m, old, new, G)
  <2>1. v = Ssuvalloc(m, old, new)
    OBVIOUS
  <2> HIDE DEF v, old, new
  <2> QED BY <1>3, <1>4, <2>1, SsuvallocIs
<1>7. sz = IF v.ok THEN new ELSE WORD - 1
  BY DEF SsuallocSize
<1> HIDE DEF v, old, new, sz
<1>8. v \in Record /\ (v.panic = "no" => Sound(v, G)) /\ (v.panic # "no" => Stopped(v))
  BY <1>6 DEF Reserved
<1>9. WORD - 1 \in 0..(WORD - 1)
  BY WordIs
<1>10. sz \in 0..(WORD - 1)
  BY <1>4, <1>7, <1>9
<1>11. SUFFICES ASSUME v.panic = "no"
                PROVE  /\ sz \in 1..(2 * NPAGES) \cup {WORD - 1}
                       /\ v.pt.pte[0].kind # "lazy"
                       /\ sz # WORD - 1 /\ v.pt.pte[0].kind = "user"
                            => Below(sz) \subseteq {a \in Pages : v.pt.pte[a] # None}
  BY <1>1, <1>8, <1>10, ResultKept DEF G
<1>12. CASE new < old \/ new >= 2 * NPAGES
  <2>1. v.pt = m.pt
    BY <1>6, <1>12 DEF Reserved
  <2>2. ~v.ok
    BY <1>4, <1>6, <1>12, WordIs DEF Reserved
  <2> QED BY <1>4, <1>7, <2>1, <2>2
<1>13. CASE new >= old /\ new < 2 * NPAGES
  <2>1. old # WORD - 1 /\ old \in 1..(2 * NPAGES) /\ old <= 2 * NPAGES /\ new <= 2 * NPAGES /\ new >= 1
    BY <1>4, <1>13, WordIs
  <2>2. /\ UpPage(old) = PageCount(old) /\ PageCount(old) \in Nat /\ PageCount(old) >= 1
        /\ Below(old) = 0..(PageCount(old) - 1)
        /\ Below(new) = 0..(PageCount(new) - 1) /\ PageCount(new) \in Nat
        /\ PageCount(new) >= PageCount(old)
    <3>1. UpPage(old) = PageCount(old) /\ PageCount(old) \in Nat /\ Below(old) = 0..(PageCount(old) - 1)
      BY <1>4, <2>1, RangeIs
    <3>2. Below(new) = 0..(PageCount(new) - 1) /\ PageCount(new) \in Nat
      BY <1>4, <2>1, RangeIs
    <3>3. 2 * PageCount(old) \in {old, old + 1}
      BY <1>4, CountIs
    <3>4. PageCount(old) >= 1
      BY <2>1, <3>1, <3>3
    <3>5. PageCount(new) >= PageCount(old)
      BY <1>4, <1>13, <3>1, <3>2, RangesGrow
    <3> QED BY <3>1, <3>2, <3>4, <3>5
  <2>3. \A b \in Pages : b \notin PageCount(old)..(PageCount(new) - 1) => v.pt.pte[b] = m.pt.pte[b]
    BY <1>6, <2>2 DEF Reserved
  <2>4. v.pt.pte[0] = m.pt.pte[0]
    BY <1>5, <2>2, <2>3
  <2>5. CASE ~v.ok
    BY <1>4, <1>7, <2>4, <2>5
  <2>6. CASE v.ok
    <3>1. sz = new /\ new \in 1..(2 * NPAGES)
      BY <1>4, <1>7, <2>1, <2>6
    <3>2. \A a \in PageCount(old)..(PageCount(new) - 1) : a \in Pages /\ v.pt.pte[a].kind = "lazy"
      BY <1>6, <1>11, <2>2, <2>6 DEF Reserved, Fine
    <3>3. m.pt.pte[0].kind = "user" => \A a \in 0..(PageCount(old) - 1) : a \in Pages /\ v.pt.pte[a] # None
      BY <1>4, <2>1, <2>2, <2>3
    <3>4. m.pt.pte[0].kind = "user" => \A a \in 0..(PageCount(new) - 1) : a \in Pages /\ v.pt.pte[a] # None
      BY <2>2, <3>2, <3>3 DEF None
    <3> QED BY <1>4, <2>2, <2>4, <3>1, <3>4
  <2> QED BY <2>5, <2>6
<1> QED BY <1>4, <1>12, <1>13, WordIs

(* The page fault.                                                         *)
LEMMA AccessInv ==
  ASSUME MInv, NEW p \in Procs, NEW a, Access(p, a)
  PROVE  MInv'
<1> DEFINE m == Memory(proc[p].pt)
           v == PageFault(m, a)
           sz == proc[p].sz
           G == Mine(p)
<1>1. Call(p) /\ Result(p, v, sz) /\ panic = "no" /\ proc[p].state = "used"
  BY DEF Access, Call
<1>2. /\ proc[p].sz \in 0..(WORD - 1) /\ Sized(proc[p]) /\ Backed(proc[p])
  BY <1>1, SlotIs
<1>3. /\ m \in Record /\ m.pt = proc[p].pt /\ m.ok /\ m.panic = "no"
      /\ Sound(m, G)
  BY <1>1, CallIs
<1> HIDE DEF m, G
<1>4. Faulted(v, m, a, G)
  BY <1>3, PageFaultIs
<1> HIDE DEF v
<1>5. 0 \in Pages
  BY WordIs DEF Pages
<1>6. v \in Record /\ (v.panic = "no" => Sound(v, G)) /\ (v.panic # "no" => Stopped(v))
  BY <1>4 DEF Faulted
<1>7. SUFFICES ASSUME v.panic = "no"
               PROVE  /\ sz \in 1..(2 * NPAGES) \cup {WORD - 1}
                      /\ v.pt.pte[0].kind # "lazy"
                      /\ sz # WORD - 1 /\ v.pt.pte[0].kind = "user"
                           => Below(sz) \subseteq {b \in Pages : v.pt.pte[b] # None}
  BY <1>1, <1>2, <1>6, ResultKept DEF G
<1>8. /\ sz \in 1..(2 * NPAGES) \cup {WORD - 1} /\ m.pt.pte[0].kind # "lazy"
      /\ sz # WORD - 1 /\ m.pt.pte[0].kind = "user"
           => Below(sz) \subseteq {b \in Pages : m.pt.pte[b] # None}
  BY <1>1, <1>2, <1>3 DEF Sized, Backed
<1>9. /\ a \in Pages /\ \A b \in Pages : b # a => v.pt.pte[b] = m.pt.pte[b]
      /\ v.pt.pte[a].kind = IF m.pt.pte[a].kind = "lazy" THEN "user" ELSE "kernel"
  BY <1>4, <1>7 DEF Faulted
<1>10. v.pt.pte[a] # None
  BY <1>9 DEF None
<1>11. /\ v.pt.pte[0].kind # "lazy"
       /\ v.pt.pte[0].kind = "user" => m.pt.pte[0].kind = "user"
  BY <1>5, <1>8, <1>9
<1> QED BY <1>8, <1>9, <1>10, <1>11

(* exit() and wait().                                                      *)
LEMMA ExitInv ==
  ASSUME MInv, NEW p \in Procs, Exit(p)
  PROVE  MInv'
<1> DEFINE s == [proc[p] EXCEPT !.state = "zombie"]
           m == Memory(proc[p].pt)
<1>1. /\ panic = "no" /\ proc[p].state = "used" /\ calls' \in 0..MaxCalls
      /\ proc' = [proc EXCEPT ![p] = s] /\ free' = free /\ panic' = panic
  <2>1. calls \in 0..MaxCalls /\ calls < MaxCalls /\ calls' = calls + 1 /\ panic = "no" /\ proc[p].state = "used"
    BY SlotIs DEF Exit, Call
  <2> QED BY <2>1 DEF Exit
<1>2. proc[p] \in Slot /\ Sized(proc[p]) /\ Tidy(proc[p].pt) /\ free \in [Frames -> 0..1]
  BY <1>1, SlotIs
<1>3. /\ s \in Slot /\ s.state = "zombie" /\ s.pt = proc[p].pt /\ s.sz = proc[p].sz
      /\ s.kstack = proc[p].kstack
  BY <1>2 DEF Slot
<1>4. /\ m \in Record /\ m.free = free /\ m.pt = proc[p].pt /\ m.panic = "no"
      /\ Sound(m, Mine(p)) /\ proc[p].kstack \notin Others(p)
  BY <1>1, CallIs
<1> HIDE DEF s, m
<1>5. Sized(s) /\ Backed(s)
  BY <1>2, <1>3 DEF Sized, Backed
<1>6. Sound(m, Others(p) \cup ({s.kstack} \ {0})) /\ s.kstack \notin Others(p)
  BY <1>3, <1>4 DEF Mine
<1>7. s.state # "unused"
  BY <1>3
<1>8. Kept(p, s, m)
  BY <1>1, <1>2, <1>3, <1>4, <1>5, <1>6, <1>7 DEF Kept
<1> QED BY <1>1, <1>8, SlotKept

LEMMA UnusedIs == Unused \in Slot /\ Unused.pt = NoTable /\ Unused.kstack = 0 /\ Unused.state = "unused"
<1>1. 0 \in 0..NFRAMES /\ 0 \in 0..(WORD - 1)
  BY WordIs
<1> QED BY <1>1, NoTableIs DEF Unused, Slot

LEMMA ReapInv ==
  ASSUME MInv, NEW p \in Procs, Reap(p)
  PROVE  MInv'
<1> DEFINE m == Memory(proc[p].pt)
           v == Freevm(m)
           k == proc[p].kstack
           r == KFree(v, {k})
<1>1. /\ panic = "no" /\ proc[p].state = "zombie" /\ calls' = calls
      /\ proc' = [proc EXCEPT ![p] = Unused] /\ free' = r.free /\ panic' = panic
  BY DEF Reap
<1>2. /\ m \in Record /\ m.panic = "no" /\ Sound(m, Mine(p)) /\ k \notin Others(p)
  BY <1>1, CallIs
<1>3. calls' \in 0..MaxCalls
  BY <1>1, SlotIs
<1> HIDE DEF m
<1>4. Freed(v, m, Mine(p))
  BY <1>2, FreevmIs
<1> HIDE DEF v, k
<1>5. v \in Record /\ Sound(v, Mine(p)) /\ v.pt = NoTable /\ v.panic = "no"
  BY <1>2, <1>4 DEF Freed
<1>6. {k} \subseteq Mine(p) \cup {0} /\ Mine(p) \ {k} = Others(p)
  <2>1. 0 \notin Others(p)
    BY DEF Others, Frames
  <2> QED BY <1>2, <2>1 DEF Mine, k
<1>7. Sound(r, Others(p))
  <2>1. Sound(r, Mine(p) \ {k})
    BY <1>5, <1>6, GivenSound
  <2> QED BY <1>6, <2>1
<1>8. r \in Record /\ r.pt = NoTable /\ r.panic = "no"
  BY <1>5, KFreeIs
<1> HIDE DEF r
<1>9. Sound(r, Others(p) \cup ({Unused.kstack} \ {0})) /\ Unused.kstack \notin Others(p)
  <2>1. 0 \notin Others(p) /\ Others(p) \cup ({0} \ {0}) = Others(p)
    BY DEF Others, Frames
  <2> QED BY <1>7, <2>1, UnusedIs
<1>10. Backed(Unused) /\ Tidy(Unused.pt) /\ r.free \in [Frames -> 0..1]
  BY <1>7, UnusedIs, NoTableIs DEF Backed, Sound
<1>11. Kept(p, Unused, r)
  BY <1>1, <1>8, <1>9, <1>10, UnusedIs DEF Kept
<1> QED BY <1>1, <1>3, <1>11, SlotKept

(* fork(): the child's slot was unused.                                    *)
LEMMA ForkInv ==
  ASSUME MInv, NEW p \in Procs, NEW c \in Procs, Fork(p, c)
  PROVE  MInv'
<1> DEFINE m0 == Memory(NoTable)
           s == Kalloc(m0)
           v == Taken(m0, s)
           m == Copyuvm(v, proc[p].pt, proc[p].sz)
           new == [state |-> "used", kstack |-> s, pt |-> m.pt, sz |-> proc[p].sz]
           k == KFree(m, {s})
           H == Others(c) \cup {s}
<1>1. /\ panic = "no" /\ proc[p].state = "used" /\ proc[c].state = "unused" /\ s # 0
      /\ m.ok => free' = m.free /\ proc' = [proc EXCEPT ![c] = new]
      /\ ~m.ok => free' = k.free /\ proc' = proc
      /\ panic' = m.panic
  BY DEF Fork, Call
<1>2. calls' \in 0..MaxCalls
  <2>1. calls \in 0..MaxCalls /\ calls < MaxCalls /\ calls' = calls + 1
    BY <1>1, SlotIs DEF Fork, Call
  <2> QED BY <2>1
<1>3. /\ proc[c] = Unused /\ proc \in [Procs -> Slot]
      /\ proc[p].pt \in PageTable /\ proc[p].sz \in 0..(WORD - 1) /\ Tidy(proc[p].pt)
      /\ Sized(proc[p]) /\ Backed(proc[p]) /\ free \in [Frames -> 0..1]
  BY <1>1, SlotIs
<1>4. 0 \notin Others(c) /\ Others(c) \cup ({0} \ {0}) = Others(c)
  BY DEF Others, Frames
<1>5. /\ m0 \in Record /\ m0.free = free /\ m0.pt = NoTable /\ m0.ok /\ m0.panic = "no"
      /\ Sound(m0, Others(c))
  <2>1. m0 = Memory(proc[c].pt) /\ Mine(c) = Others(c)
    BY <1>3, <1>4, UnusedIs DEF Mine
  <2> HIDE DEF m0
  <2> QED BY <1>1, <1>3, <2>1, UnusedIs, CallIs
<1> HIDE DEF m0
<1>6. s \in Frames /\ m0.free[s] = 1 /\ s \notin Others(c) /\ s \in 0..NFRAMES
  <2>1. s \in Frames /\ m0.free[s] = 1
    BY <1>1, <1>3, <1>5, KallocIs
  <2> QED BY <1>5, <2>1 DEF Sound, Frames
<1> HIDE DEF s
<1>7. v \in Record /\ v.pt = NoTable /\ v.ok /\ v.panic = "no" /\ Sound(v, H)
  <2>1. v \in Record /\ v.pt = m0.pt /\ v.ok = m0.ok /\ v.panic = m0.panic
    BY <1>5, TakenIs
  <2>2. Sound(v, H)
    BY <1>5, <1>6, TakenSound
  <2> QED BY <1>5, <2>1, <2>2
<1> HIDE DEF v, H
<1>8. Copied(m, proc[p].pt, proc[p].sz, H)
  <2>1. proc[p].sz \in Nat
    BY <1>3, WordIs
  <2> QED BY <1>3, <1>7, <2>1, CopyuvmIs
<1> HIDE DEF m
<1>9. m \in Record /\ (m.panic = "no" => Sound(m, H)) /\ (m.panic # "no" => Stopped(m))
  BY <1>8 DEF Copied
<1>10. CASE m.ok
  <2>1. /\ new \in Slot /\ new.state = "used" /\ new.kstack = s /\ new.pt = m.pt
        /\ new.sz = proc[p].sz
    BY <1>3, <1>6, <1>9 DEF Slot, Record
  <2>2. proc' = [proc EXCEPT ![c] = new]
    BY <1>1, <1>10
  <2> HIDE DEF new
  <2>3. Tidy(m.pt) /\ m.free \in [Frames -> 0..1]
    BY <1>9, StoppedIs DEF Sound
  <2>4. ASSUME m.panic = "no"
        PROVE  /\ Sound(m, Others(c) \cup ({new.kstack} \ {0})) /\ new.kstack \notin Others(c)
               /\ Sized(new) /\ Backed(new)
    <3>1. \A a \in Below(proc[p].sz) : a \in Pages /\ m.pt.pte[a].kind = proc[p].pt.pte[a].kind
      BY <1>8, <1>10, <2>4 DEF Copied, Fine
    <3>2. 0 \in Below(proc[p].sz) /\ 0 \in Pages
      <4>1. PageCount(proc[p].sz) \in Nat /\ 2 * PageCount(proc[p].sz) \in {proc[p].sz, proc[p].sz + 1}
        BY <1>3, CountIs, WordIs
      <4>2. proc[p].sz >= 1
        BY <1>3, WordIs DEF Sized
      <4>3. PageCount(proc[p].sz) >= 1
        BY <1>3, <4>1, <4>2
      <4> QED BY <4>1, <4>3, WordIs DEF Below, Pages
    <3>3. m.pt.pte[0].kind = proc[p].pt.pte[0].kind
      BY <3>1, <3>2
    <3>4. Sized(new)
      BY <1>3, <2>1, <3>3 DEF Sized
    <3>5. \A a \in Pages : proc[p].pt.pte[a] # None => proc[p].pt.pte[a].kind # "none"
      <4>1. \A a \in Pages : proc[p].pt.pte[a] \in Entry
        BY <1>3 DEF PageTable
      <4> QED BY <1>3, <4>1 DEF Tidy, Entry, None, Present
    <3>6. Backed(new)
      <4> SUFFICES ASSUME proc[p].sz # WORD - 1, m.pt.pte[0].kind = "user",
                          NEW a \in Below(proc[p].sz)
                   PROVE  a \in Pages /\ m.pt.pte[a] # None
        BY <2>1 DEF Backed
      <4>1. proc[p].pt.pte[a] # None /\ a \in Pages
        BY <1>1, <1>3, <3>3 DEF Backed
      <4> QED BY <3>1, <3>5, <4>1 DEF None
    <3>7. Others(c) \cup ({s} \ {0}) = H
      BY <1>1 DEF H
    <3>8. Sound(m, Others(c) \cup ({s} \ {0}))
      BY <1>9, <2>4, <3>7
    <3> QED BY <1>6, <2>1, <3>4, <3>6, <3>8
  <2>5. free' = m.free /\ new.state # "unused"
    BY <1>1, <1>10, <2>1
  <2>6. Kept(c, new, m)
    BY <1>1, <1>9, <2>1, <2>2, <2>3, <2>4, <2>5 DEF Kept
  <2> QED BY <1>1, <1>2, <2>6, SlotKept
<1>11. CASE ~m.ok
  <2>1. m.panic = "no" /\ m.pt = NoTable /\ Sound(m, H)
    BY <1>8, <1>9, <1>11 DEF Stopped, Copied
  <2>2. k \in Record /\ k.pt = NoTable /\ k.panic = "no"
    BY <1>9, <2>1, KFreeIs
  <2>3. Sound(k, Others(c))
    <3>1. {s} \subseteq H \cup {0} /\ H \ {s} = Others(c)
      BY <1>6 DEF H
    <3>2. Sound(k, H \ {s})
      BY <2>1, <3>1, GivenSound
    <3> QED BY <3>1, <3>2
  <2>4. proc' = [proc EXCEPT ![c] = Unused] /\ free' = k.free
    BY <1>1, <1>3, <1>11
  <2> HIDE DEF k
  <2>5. Sound(k, Others(c) \cup ({Unused.kstack} \ {0})) /\ Unused.kstack \notin Others(c)
    BY <1>4, <2>3, UnusedIs
  <2>6. Backed(Unused) /\ Tidy(Unused.pt) /\ k.free \in [Frames -> 0..1]
    BY <2>3, UnusedIs, NoTableIs DEF Backed, Sound
  <2>7. Kept(c, Unused, k)
    BY <1>1, <2>1, <2>2, <2>4, <2>5, <2>6, UnusedIs DEF Kept
  <2> QED BY <1>1, <1>2, <2>7, SlotKept
<1> QED BY <1>10, <1>11

(* exec(): the table that is built, and whether it came to an end.         *)
LEMMA FreshTable ==
  ASSUME NEW m0, NEW H, Sound(m0, H), m0.ok, m0.panic = "no", m0.pt = NoTable,
         NEW image \in Nat, NEW m1, m1 = Setupkvm(m0),
         NEW m2, m2 = IF m1.ok THEN Allocuvm(m1, 0, image) ELSE m1,
         NEW m3, m3 = IF m2.ok THEN Allocuvm(m2, 2 * UpPage(image), 2 * UpPage(image) + 4) ELSE m2,
         image \in 0..(WORD - 1)
  PROVE  /\ Sound(m1, H) /\ m1.panic = "no" /\ Sound(m2, H) /\ m2.panic = "no"
         /\ Sound(m3, H) /\ m3.panic = "no"
         /\ ~m1.ok => m1.pt = NoTable /\ m2 = m1 /\ m3 = m1
         /\ m3.ok => /\ UpPage(image) \in Nat /\ UpPage(image) + 1 \in Pages
                     /\ \A a \in 0..(UpPage(image) + 1) : a \in Pages /\ m3.pt.pte[a].kind = "user"
<1> DEFINE g == UpPage(image)
<1>1. Begun(m1, m0, H)
  BY SetupkvmIs
<1>2. /\ Sound(m1, H) /\ m1.panic = "no" /\ (~m1.ok => m1.pt = NoTable)
      /\ \A a \in Pages : m1.pt.pte[a] = None
  BY <1>1 DEF Begun, NoTable
<1>3. CASE ~m1.ok
  BY <1>2, <1>3
<1>4. CASE m1.ok
  <2>1. m2 = Allocuvm(m1, 0, image)
    BY <1>4
  <2>2. Grown(m2, m1, 0, image, H)
    BY <1>2, <2>1, AllocuvmIs
  <2>3. m2 \in Record /\ m2.panic = "no" /\ Sound(m2, H)
    BY <1>2, <2>2 DEF Grown
  <2>4. CASE ~m2.ok
    BY <1>2, <1>4, <2>3, <2>4
  <2>5. CASE m2.ok
    <3>1. image < 2 * NPAGES /\ image <= 2 * NPAGES
      BY <2>2, <2>5, WordIs DEF Grown
    <3>2. g = PageCount(image) /\ g \in 0..NPAGES
      BY <3>1, RangeIs
    <3>3. UpPage(0) = 0
      <4>1. PageCount(0) \in Nat /\ 2 * PageCount(0) \in {0, 0 + 1}
        BY CountIs
      <4>2. UpPage(0) = PageCount(0)
        BY WordIs, RangeIs
      <4> QED BY <4>1, <4>2
    <3>4. \A a \in 0..(g - 1) : a \in Pages /\ m2.pt.pte[a].kind = "user"
      BY <2>2, <2>3, <2>5, <3>2, <3>3 DEF Grown, Fine
    <3>5. \A a \in Pages : a \notin 0..(g - 1) => m2.pt.pte[a] = None
      <4>1. \A b \in Pages : b \notin UpPage(0)..(PageCount(image) - 1) => m2.pt.pte[b] = m1.pt.pte[b]
        BY <2>2 DEF Grown
      <4> HIDE DEF g
      <4> QED BY <1>2, <3>2, <3>3, <4>1
    <3> HIDE DEF g
    <3>6. 2 * g \in Nat /\ 2 * g + 4 \in Nat
      BY <3>2
    <3>7. PageCount(2 * g) = g /\ PageCount(2 * g + 4) = g + 2 /\ UpPage(2 * g) = g
      <4>1. PageCount(2 * g) \in Nat /\ 2 * PageCount(2 * g) \in {2 * g, 2 * g + 1}
        BY <3>6, CountIs
      <4>2. PageCount(2 * g + 4) \in Nat /\ 2 * PageCount(2 * g + 4) \in {2 * g + 4, (2 * g + 4) + 1}
        BY <3>6, CountIs
      <4>3. 2 * g <= 2 * NPAGES
        BY <3>2, WordIs
      <4>4. UpPage(2 * g) = PageCount(2 * g)
        BY <3>6, <4>3, RangeIs
      <4> QED BY <3>2, <4>1, <4>2, <4>4
    <3>8. m3 = Allocuvm(m2, 2 * g, 2 * g + 4)
      BY <2>5 DEF g
    <3>9. Grown(m3, m2, 2 * g, 2 * g + 4, H)
      BY <2>3, <3>6, <3>8, AllocuvmIs
    <3>10. UpPage(2 * g)..(PageCount(2 * g + 4) - 1) = g..(g + 1)
      BY <3>2, <3>7
    <3>11. m3 \in Record /\ m3.panic = "no" /\ Sound(m3, H)
      <4>1. \A a \in Pages : a \in g..(g + 1) => m2.pt.pte[a] = None
        BY <3>2, <3>5
      <4> QED BY <3>9, <3>10, <4>1 DEF Grown
    <3>12. ASSUME m3.ok
           PROVE  \A a \in 0..(g + 1) : a \in Pages /\ m3.pt.pte[a].kind = "user"
      <4>1. \A a \in g..(g + 1) : a \in Pages /\ m3.pt.pte[a].kind = "user"
        <5>1. 2 * g + 4 >= 2 * g
          BY <3>2
        <5> QED BY <3>9, <3>10, <3>11, <3>12, <5>1 DEF Grown, Fine
      <4>2. \A a \in 0..(g - 1) : a \in Pages /\ m3.pt.pte[a].kind = "user"
        <5>1. \A b \in Pages : b \notin g..(g + 1) => m3.pt.pte[b] = m2.pt.pte[b]
          BY <3>9, <3>10 DEF Grown
        <5> QED BY <3>2, <3>4, <5>1
      <4>3. \A a \in 0..(g + 1) : a \in 0..(g - 1) \/ a \in g..(g + 1)
        BY <3>2
      <4> QED BY <4>1, <4>2, <4>3
    <3>13. m3.ok => g \in Nat /\ g + 1 \in Pages
      BY <3>2, <3>12
    <3> QED BY <1>2, <1>4, <2>3, <3>11, <3>12, <3>13 DEF g
  <2> QED BY <2>4, <2>5
<1> QED BY <1>3, <1>4

LEMMA NoFrames == Fr(NoTable) = {} /\ Distinct(NoTable)
BY NoTableIs DEF Fr, Frames, Distinct

(* The guard page of exec() keeps its frame.                               *)
Guarded(pt, g) == [pt EXCEPT !.pte[g].kind = "kernel"]

LEMMA GuardIs ==
  ASSUME NEW pt \in PageTable, Tidy(pt), NEW g \in Pages, pt.pte[g].kind = "user",
         NEW q, q = Guarded(pt, g)
  PROVE  /\ q \in PageTable /\ Tidy(q)
         /\ \A x \in Spots : FrameAt(q, x) = FrameAt(pt, x)
         /\ \A a \in Pages : q.pte[a].kind = IF a = g THEN "kernel" ELSE pt.pte[a].kind
<1> DEFINE e == [kind |-> "kernel", frame |-> pt.pte[g].frame]
<1>0. pt.pte \in [Pages -> Entry] /\ pt.pte[g] \in Entry
  BY DEF PageTable
<1>1. e \in Entry /\ [pt.pte[g] EXCEPT !.kind = "kernel"] = e
  BY <1>0 DEF Entry
<1>2. /\ q.dir = pt.dir /\ q.ktab = pt.ktab /\ q.tabs = pt.tabs
      /\ q.pte = [pt.pte EXCEPT ![g] = [pt.pte[g] EXCEPT !.kind = "kernel"]]
      /\ q = [dir |-> q.dir, ktab |-> q.ktab, tabs |-> q.tabs, pte |-> q.pte]
  BY DEF Guarded, PageTable
<1>3. q.pte = [pt.pte EXCEPT ![g] = e]
  BY <1>1, <1>2
<1>4. e.frame = pt.pte[g].frame /\ e.kind = "kernel"
  OBVIOUS
<1> HIDE DEF e
<1>5. \A a \in Pages : q.pte[a] = IF a = g THEN e ELSE pt.pte[a]
  BY <1>0, <1>3
<1>6. q.pte \in [Pages -> Entry]
  BY <1>0, <1>1, <1>3
<1>7. q \in PageTable
  BY <1>2, <1>6 DEF PageTable
<1>8. \A a \in Pages : q.pte[a].frame = pt.pte[a].frame
  BY <1>4, <1>5
<1>9. \A a \in Pages : q.pte[a].kind = IF a = g THEN "kernel" ELSE pt.pte[a].kind
  BY <1>4, <1>5
<1>10. Tidy(q)
  <2>1. \A a \in Pages : Present(q.pte[a]) <=> Present(pt.pte[a])
    BY <1>9 DEF Present
  <2>2. \A a \in Pages : q.pte[a] # None => pt.pte[a] # None
    BY <1>5 DEF None
  <2> QED BY <1>2, <1>8, <2>1, <2>2 DEF Tidy
<1>11. ASSUME NEW x \in Spots PROVE FrameAt(q, x) = FrameAt(pt, x)
  <2>1. CASE x = <<"dir", 0>> \/ x = <<"ktab", 0>>
    BY <1>2, <2>1, FrameAtIs
  <2>2. ASSUME NEW t \in Tables, x = <<"tab", t>> PROVE FrameAt(q, x) = FrameAt(pt, x)
    <3>1. FrameAt(q, x) = q.tabs[t] /\ FrameAt(pt, x) = pt.tabs[t]
      BY <2>2, FrameAtIs
    <3> QED BY <1>2, <3>1
  <2>3. ASSUME NEW a \in Pages, x = <<"page", a>> PROVE FrameAt(q, x) = FrameAt(pt, x)
    <3>1. FrameAt(q, x) = q.pte[a].frame /\ FrameAt(pt, x) = pt.pte[a].frame
      BY <2>3, FrameAtIs
    <3> QED BY <1>8, <3>1
  <2> QED BY <2>1, <2>2, <2>3, SpotIs
<1> QED BY <1>7, <1>9, <1>10, <1>11

(* exec(): whatever goes wrong, the old memory is as it was.               *)
LEMMA ExecInv ==
  ASSUME MInv, NEW p \in Procs, NEW image \in ImageSizes, NEW fault \in Faults, Exec(p, image, fault)
  PROVE  MInv'
<1> DEFINE g == UpPage(image)
           top == 2 * UpPage(image) + 4
           m0 == Memory(NoTable)
           m1 == Setupkvm(m0)
           m2 == IF m1.ok THEN Allocuvm(m1, 0, image) ELSE m1
           m3 == IF m2.ok THEN Allocuvm(m2, 2 * UpPage(image), top) ELSE m2
           m == IF fault = "image" THEN m2 ELSE m3
           x == [m3 EXCEPT !.pt = proc[p].pt]
           old == Freevm(x)
           q2 == Guarded(m3.pt, g)
           r == [old EXCEPT !.pt = q2]
           G == Mine(p)
           P == proc[p].pt
           H == G \cup Fr(P)
           here == Memory(P)
<1>1. /\ Call(p) /\ panic = "no" /\ proc[p].state = "used"
      /\ fault # "none" \/ ~m.ok => /\ free' = IF m1.ok THEN Freevm(m).free ELSE m.free
                         /\ proc' = proc /\ panic' = m.panic
      /\ ~(fault # "none" \/ ~m.ok) => Result(p, r, top)
  BY DEF Exec, Call, Guarded
<1>2. calls' \in 0..MaxCalls
  <2>1. calls \in 0..MaxCalls /\ calls < MaxCalls /\ calls' = calls + 1
    BY <1>1, SlotIs DEF Call
  <2> QED BY <2>1
<1>3. /\ proc \in [Procs -> Slot] /\ proc[p] \in Slot /\ P \in PageTable /\ Tidy(P)
      /\ free \in [Frames -> 0..1] /\ Sized(proc[p]) /\ Backed(proc[p])
  BY <1>1, SlotIs
<1>4. image \in Nat /\ image \in 0..(WORD - 1)
  <2>1. 4 * NPAGES - 1 = WORD - 1
    BY WordIs
  <2> QED BY <2>1
<1>5. /\ here \in Record /\ here.free = free /\ here.pt = P /\ Sound(here, G)
      /\ proc[p].kstack \notin Others(p)
  BY <1>1, CallIs
<1>6. Distinct(P) /\ \A f \in Fr(P) : f \notin G
  BY <1>5, SoundTable
<1>7. m0 \in Record /\ m0.free = free /\ m0.pt = NoTable /\ m0.ok /\ m0.panic = "no"
  BY <1>3, NoTableIs, MemoryIs
<1> HIDE DEF m0, G, here, P
<1>8. Sound(m0, H)
  <2>1. G \cup Fr(NoTable) = G /\ \A f \in Fr(NoTable) : f \notin G
    BY NoFrames
  <2>2. Sound(here, G \cup Fr(NoTable))
    BY <1>5, <2>1
  <2>3. m0.free = here.free
    BY <1>5, <1>7
  <2>4. Sound(m0, G \cup Fr(here.pt))
    BY <1>7, <2>1, <2>2, <2>3, NoTableIs, NoFrames, SwapSound
  <2> QED BY <1>5, <2>4
<1> HIDE DEF H
<1>9. /\ Sound(m1, H) /\ m1.panic = "no" /\ Sound(m2, H) /\ m2.panic = "no"
      /\ Sound(m3, H) /\ m3.panic = "no"
      /\ ~m1.ok => m1.pt = NoTable /\ m2 = m1 /\ m3 = m1
      /\ m3.ok => /\ g \in Nat /\ g + 1 \in Pages
                  /\ \A a \in 0..(g + 1) : a \in Pages /\ m3.pt.pte[a].kind = "user"
  <2>1. m1 = Setupkvm(m0)
    OBVIOUS
  <2>2. m2 = IF m1.ok THEN Allocuvm(m1, 0, image) ELSE m1
    OBVIOUS
  <2>3. m3 = IF m2.ok THEN Allocuvm(m2, 2 * UpPage(image), 2 * UpPage(image) + 4) ELSE m2
    OBVIOUS
  <2> HIDE DEF m, m1, m2, m3, top, x, old, q2, r
  <2>4. m0.ok /\ m0.panic = "no" /\ m0.pt = NoTable /\ image \in Nat /\ image \in 0..(WORD - 1)
    BY <1>4, <1>7
  <2> QED BY <1>8, <2>1, <2>2, <2>3, <2>4, FreshTable
<1> HIDE DEF m1, m2, m3
<1>10. CASE fault # "none" \/ ~m.ok
  <2> DEFINE z == IF m1.ok THEN Freevm(m) ELSE m
             y == [z EXCEPT !.pt = P]
  <2>1. Sound(m, H) /\ m.panic = "no" /\ (~m1.ok => m.pt = NoTable)
    BY <1>9
  <2>2. free' = z.free /\ proc' = proc /\ panic' = m.panic
    BY <1>1, <1>10
  <2> HIDE DEF m
  <2>3. z \in Record /\ Sound(z, H) /\ z.pt = NoTable /\ z.panic = "no"
    <3>1. CASE m1.ok
      <4>1. Freed(z, m, H)
        BY <2>1, <3>1, FreevmIs
      <4> QED BY <2>1, <4>1 DEF Freed
    <3>2. CASE ~m1.ok
      BY <2>1, <3>2 DEF Sound
    <3> QED BY <3>1, <3>2
  <2> HIDE DEF z
  <2>4. y \in Record /\ y.free = z.free /\ y.pt = P /\ y.panic = "no"
    BY <1>3, <2>3 DEF Record
  <2> HIDE DEF y
  <2>5. Sound(y, G \cup Fr(z.pt))
    BY <1>3, <1>6, <2>3, <2>4, SwapSound DEF H
  <2>6. Sound(y, G) /\ y.free \in [Frames -> 0..1]
    <3>1. G \cup Fr(z.pt) = G
      BY <2>3, NoFrames
    <3>2. Sound(y, G)
      BY <2>5, <3>1
    <3> QED BY <3>2 DEF Sound
  <2>7. proc' = [proc EXCEPT ![p] = proc[p]] /\ proc[p].state # "unused"
    BY <1>1, <1>3, <2>2
  <2>8. Sound(y, Others(p) \cup ({proc[p].kstack} \ {0}))
    BY <2>6 DEF G, Mine
  <2>9. y.pt = proc[p].pt /\ Tidy(proc[p].pt)
    BY <1>3, <2>4 DEF P
  <2>10. Kept(p, proc[p], y)
    BY <1>3, <1>5, <2>1, <2>2, <2>4, <2>6, <2>7, <2>8, <2>9 DEF Kept
  <2> QED BY <1>1, <1>2, <2>10, SlotKept
<1>11. CASE ~(fault # "none" \/ ~m.ok)
  <2>1. m3.ok /\ Result(p, r, top)
    BY <1>1, <1>11
  <2>2. m3 \in Record /\ m3.pt \in PageTable /\ Tidy(m3.pt)
    BY <1>9, SoundTable DEF Sound
  <2>3. g \in Pages /\ g \in Nat /\ m3.pt.pte[g].kind = "user"
    <3>1. g \in 0..(g + 1)
      BY <1>9, <2>1
    <3> QED BY <1>9, <2>1, <3>1
  <2>4. x \in Record /\ x.free = m3.free /\ x.pt = P /\ x.panic = "no"
    BY <1>3, <1>9, <2>2 DEF Record, P
  <2> HIDE DEF x
  <2>5. Sound(x, G \cup Fr(m3.pt))
    BY <1>3, <1>6, <1>9, <2>4, SwapSound DEF H
  <2>6. Freed(old, x, G \cup Fr(m3.pt))
    BY <2>4, <2>5, FreevmIs
  <2> HIDE DEF old
  <2>7. old \in Record /\ Sound(old, G \cup Fr(m3.pt)) /\ old.pt = NoTable /\ old.panic = "no"
    BY <2>4, <2>6 DEF Freed
  <2>8. /\ q2 \in PageTable /\ Tidy(q2)
        /\ \A s \in Spots : FrameAt(q2, s) = FrameAt(m3.pt, s)
        /\ \A a \in Pages : q2.pte[a].kind = IF a = g THEN "kernel" ELSE m3.pt.pte[a].kind
    <3>1. q2 = Guarded(m3.pt, g)
      OBVIOUS
    <3> HIDE DEF q2, g
    <3> QED BY <2>2, <2>3, <3>1, GuardIs
  <2> HIDE DEF q2
  <2>9. Fr(q2) = Fr(m3.pt) /\ Distinct(q2) /\ \A f \in Fr(q2) : f \notin G
    <3>1. Fr(q2) = Fr(m3.pt)
      BY <2>8 DEF Fr
    <3>2. Distinct(m3.pt) /\ \A f \in Fr(m3.pt) : f \notin H
      BY <1>9, SoundTable
    <3>3. Distinct(q2)
      BY <2>8, <3>2 DEF Distinct
    <3> QED BY <3>1, <3>2, <3>3 DEF H
  <2>10. r \in Record /\ r.free = old.free /\ r.pt = q2 /\ r.panic = "no"
    BY <2>7, <2>8 DEF Record
  <2> HIDE DEF r
  <2>11. Sound(r, G)
    <3>1. Sound(old, G \cup Fr(q2))
      BY <2>7, <2>9
    <3>2. Sound(r, G \cup Fr(old.pt))
      BY <2>8, <2>9, <2>10, <3>1, SwapSound
    <3>3. G \cup Fr(old.pt) = G
      BY <2>7, NoFrames
    <3> QED BY <3>2, <3>3
  <2>12. top \in Nat /\ top <= 2 * NPAGES /\ top >= 1 /\ PageCount(top) = g + 2
    <3>1. g + 1 \in Pages /\ top = 2 * g + 4
      BY <1>9, <2>1
    <3> HIDE DEF g, top
    <3>2. top \in Nat /\ top >= 1
      BY <2>3, <3>1
    <3>3. PageCount(top) \in Nat /\ 2 * PageCount(top) \in {top, top + 1}
      BY <3>2, CountIs
    <3>4. PageCount(top) = g + 2
      BY <2>3, <3>1, <3>2, <3>3
    <3>5. top <= 2 * NPAGES
      BY <2>3, <3>1, WordIs DEF Pages
    <3> QED BY <3>2, <3>4, <3>5
  <2>13. \A a \in 0..(g + 1) : a \in Pages /\ q2.pte[a].kind \in {"user", "kernel"}
    BY <1>9, <2>1, <2>8
  <2>14. q2.pte[0].kind # "lazy"
    <3>1. 0 \in 0..(g + 1)
      BY <2>3
    <3> QED BY <2>13, <3>1
  <2>15. Below(top) \subseteq {a \in Pages : q2.pte[a] # None}
    <3>1. Below(top) = 0..(g + 1)
      <4>1. (g + 2) - 1 = g + 1
        BY <2>3
      <4> QED BY <2>12, <4>1 DEF Below
    <3>2. None.kind \notin {"user", "kernel"}
      BY DEF None
    <3> QED BY <2>13, <3>1, <3>2
  <2>16. top \in 0..(WORD - 1) /\ top \in 1..(2 * NPAGES)
    BY <2>12, WordIs
  <2> HIDE DEF top
  <2>17. Sound(r, Mine(p))
    BY <2>11 DEF G
  <2> QED BY <1>1, <2>1, <2>10, <2>14, <2>15, <2>16, <2>17, ResultKept
<1> QED BY <1>10, <1>11

-----------------------------------------------------------------------------
(* The invariant *)

LEMMA InitInv == Init => MInv
<1> SUFFICES ASSUME Init PROVE MInv
  OBVIOUS
<1> DEFINE stack == [free |-> [f \in Frames |-> IF f = 1 THEN 0 ELSE 1],
                     pt |-> NoTable, ok |-> TRUE, panic |-> "no"]
           v == Setupkvm(stack)
           m == NewPage(v, 0, "user")
           own == [state |-> "used", kstack |-> 1, pt |-> m.pt, sz |-> 2]
<1>1. /\ free = m.free /\ panic = "no" /\ calls = 0
      /\ proc = [p \in Procs |-> IF p = InitProc THEN own ELSE Unused]
  BY DEF Init
<1>2. 1 \in Frames /\ 0 \in Pages /\ InitProc \in Procs /\ 1 \in 0..NFRAMES /\ 2 \in 0..(WORD - 1)
      /\ 2 # WORD - 1 /\ 2 \in 1..(2 * NPAGES)
  BY WordIs DEF Frames, Pages
<1>3. Sound(stack, {1})
  <2>1. "no" \in Panics /\ NoTable \in PageTable /\ Tidy(NoTable)
        /\ \A x \in Spots : FrameAt(NoTable, x) = 0
    BY NoTableIs DEF Panics
  <2>2. stack.free = [f \in Frames |-> IF f = 1 THEN 0 ELSE 1] /\ stack.pt = NoTable
    OBVIOUS
  <2>3. stack.free \in [Frames -> 0..1] /\ stack.free \in [Frames -> Int]
    OBVIOUS
  <2>4. stack \in Record
    BY <2>1, <2>3 DEF Record
  <2>5. \A f \in Frames : stack.free[f] = IF f = 1 THEN 0 ELSE 1
    OBVIOUS
  <2> HIDE DEF stack
  <2> QED BY <1>2, <2>1, <2>2, <2>3, <2>4, <2>5 DEF Sound
<1>4. stack.ok /\ stack.panic = "no" /\ stack.pt = NoTable
  OBVIOUS
<1> HIDE DEF stack
<1>5. /\ Sound(v, {1}) /\ v.panic = "no" /\ v.pt.pte[0] = None
  <2>1. Begun(v, stack, {1})
    BY <1>3, <1>4, SetupkvmIs
  <2>2. NoTable.pte[0] = None
    BY <1>2 DEF NoTable
  <2> QED BY <2>1, <2>2 DEF Begun
<1> HIDE DEF v
<1>6. Turned(m, v, 0, "user", Pages, {1})
  BY <1>5, NewPageIs
<1> HIDE DEF m
<1>7. m \in Record /\ m.panic = "no" /\ Sound(m, {1}) /\ m.pt.pte[0].kind \in {"none", "user"}
  <2>1. m.panic = "no"
    BY <1>2, <1>5, <1>6 DEF Turned
  <2>2. m.pt.pte[0].kind \in {"none", "user"}
    <3>1. CASE Fine(m)
      BY <1>6, <3>1 DEF Turned
    <3>2. CASE ~Fine(m)
      BY <1>5, <1>6, <3>2 DEF Turned, None
    <3> QED BY <3>1, <3>2
  <2> QED BY <1>6, <2>1, <2>2 DEF Turned
<1>8. /\ m.pt \in PageTable /\ Tidy(m.pt) /\ Distinct(m.pt)
      /\ \A f \in Fr(m.pt) : f \notin {1}
      /\ m.free \in [Frames -> 0..1]
  BY <1>7, SoundTable DEF Sound
<1>9. own \in Slot /\ own.state = "used" /\ own.kstack = 1 /\ own.pt = m.pt /\ own.sz = 2
  BY <1>2, <1>8 DEF Slot
<1> HIDE DEF own
<1>10. /\ proc \in [Procs -> Slot] /\ proc[InitProc] = own
       /\ \A q \in Procs \ {InitProc} : proc[q] = Unused
  BY <1>1, <1>2, <1>9, UnusedIs
<1>11. Shape
  <2>1. panic \in Panics /\ calls \in 0..MaxCalls
    BY <1>1 DEF Panics
  <2>2. \A q \in Procs : Tidy(proc[q].pt) /\ (proc[q].state = "unused" => proc[q] = Unused)
    BY <1>8, <1>9, <1>10, UnusedIs, NoTableIs
  <2> QED BY <1>1, <1>8, <1>10, <2>1, <2>2 DEF Shape
<1>12. Sized(own)
  BY <1>2, <1>7, <1>9 DEF Sized
<1>13. Backed(own)
  <2>1. Below(2) = 0..0
    <3>1. PageCount(2) \in Nat /\ 2 * PageCount(2) \in {2, 2 + 1}
      BY CountIs
    <3> QED BY <3>1 DEF Below
  <2>2. None.kind # "user"
    BY DEF None
  <2> QED BY <1>2, <1>9, <2>1, <2>2 DEF Backed
<1>14. SizeBacked
  <2>1. \A q \in Procs : Backed(proc[q])
    BY <1>10, <1>13, UnusedIs DEF Backed
  <2> QED BY <2>1 DEF SizeBacked, Backed
<1>15. \A f \in Frames : Holds(Unused, f) <=> FALSE
  BY UnusedIs, NoTableIs DEF Holds, Frames
<1>16. \A f \in Frames : Holds(own, f) <=> f \in {1} \cup Fr(m.pt)
  BY <1>9 DEF Holds, Fr
<1>17. Apart(InitProc)
  <2> DEFINE here == Memory(proc[InitProc].pt)
  <2>1. Others(InitProc) = {}
    BY <1>10, <1>15 DEF Others
  <2>2. here \in Record /\ here.free = m.free /\ here.pt = m.pt
    BY <1>1, <1>8, <1>9, <1>10, MemoryIs
  <2> HIDE DEF here
  <2>3. Sound(here, {1})
    BY <1>7, <2>2, SameSound
  <2>4. Others(InitProc) \cup ({proc[InitProc].kstack} \ {0}) = {1}
    BY <1>9, <1>10, <2>1
  <2>5. proc[InitProc].kstack \notin Others(InitProc)
    BY <2>1
  <2> QED BY <2>3, <2>4, <2>5 DEF Apart, here
<1>18. ASSUME NEW q \in Procs, q # InitProc
       PROVE  Apart(q)
  <2> DEFINE here == Memory(proc[q].pt)
  <2>1. Others(q) = {1} \cup Fr(m.pt)
    <3>1. \A f \in Frames : f \in Others(q) <=> Holds(own, f)
      <4>1. \A f \in Frames : (\E u \in Procs \ {q} : Holds(proc[u], f)) <=> Holds(own, f)
        BY <1>2, <1>10, <1>15, <1>18
      <4> QED BY <4>1 DEF Others
    <3>2. Others(q) \subseteq Frames /\ {1} \cup Fr(m.pt) \subseteq Frames
      BY <1>2 DEF Others, Fr
    <3> QED BY <1>16, <3>1, <3>2
  <2>2. proc[q].pt = NoTable /\ proc[q].kstack = 0
    BY <1>10, <1>18, UnusedIs
  <2>3. here \in Record /\ here.free = m.free /\ here.pt = NoTable
    BY <1>1, <1>8, <2>2, NoTableIs, MemoryIs
  <2> HIDE DEF here
  <2>4. Sound(here, {1} \cup Fr(m.pt))
    <3>1. {1} \cup Fr(NoTable) = {1} /\ \A f \in Fr(NoTable) : f \notin {1}
      BY NoFrames
    <3>2. Sound(m, {1} \cup Fr(NoTable))
      BY <1>7, <3>1
    <3> QED BY <2>3, <3>1, <3>2, NoFrames, NoTableIs, SwapSound
  <2>5. Others(q) \cup ({proc[q].kstack} \ {0}) = {1} \cup Fr(m.pt) /\ proc[q].kstack \notin Others(q)
    BY <2>1, <2>2 DEF Others, Frames
  <2> QED BY <2>4, <2>5 DEF Apart, here
<1>19. \A q \in Procs : Apart(q) /\ (proc[q].state # "unused" => Sized(proc[q]))
  BY <1>10, <1>12, <1>17, <1>18, UnusedIs
<1> QED BY <1>11, <1>14, <1>19 DEF MInv

LEMMA NextInv == MInv /\ [Next]_vars => MInv'
<1> SUFFICES ASSUME MInv, [Next]_vars PROVE MInv'
  OBVIOUS
<1>1. CASE UNCHANGED vars
  BY <1>1 DEF vars, MInv, Shape, SizeBacked, Apart, Others, Memory
<1>2. CASE Next
  <2>1. PICK p \in Procs :
          \/ \E n \in SbrkSizes : Sbrk(p, n)
          \/ \E n \in SsuSizes : Ssualloc(p, n)
          \/ \E a \in 0..NPAGES : Access(p, a)
          \/ \E c \in Procs : Fork(p, c)
          \/ \E image \in ImageSizes, fault \in Faults : Exec(p, image, fault)
          \/ Exit(p)
          \/ Reap(p)
    BY <1>2 DEF Next
  <2>2. CASE \E n \in SbrkSizes : Sbrk(p, n)
    BY <2>2, SbrkInv
  <2>3. CASE \E n \in SsuSizes : Ssualloc(p, n)
    BY <2>3, SsuallocInv
  <2>4. CASE \E a \in 0..NPAGES : Access(p, a)
    BY <2>4, AccessInv
  <2>5. CASE \E c \in Procs : Fork(p, c)
    BY <2>5, ForkInv
  <2>6. CASE \E image \in ImageSizes, fault \in Faults : Exec(p, image, fault)
    BY <2>6, ExecInv
  <2>7. CASE Exit(p) \/ Reap(p)
    BY <2>7, ExitInv, ReapInv
  <2> QED BY <2>1, <2>2, <2>3, <2>4, <2>5, <2>6, <2>7
<1> QED BY <1>1, <1>2

(* The invariant of Memory holds throughout, panics included.              *)
THEOREM Invariance == Spec => []MInv
BY InitInv, NextInv, PTL DEF Spec

(* No entry of a page table is torn: what is present has a frame and lies  *)
(* in a page table that is there, and the sizes stay 32-bit sizes.         *)
THEOREM TypeCorrect == Spec => []TypeOK
<1>1. MInv => TypeOK
  <2> SUFFICES ASSUME MInv PROVE TypeOK
    OBVIOUS
  <2>1. \A p \in Procs : proc[p] \in Slot /\ Tidy(proc[p].pt)
    BY DEF MInv, Shape
  <2>2. ASSUME NEW p \in Procs
        PROVE  /\ proc[p].state \in {"unused", "used", "zombie"}
               /\ proc[p].sz \in 0..(WORD - 1)
               /\ proc[p].kstack \in 0..NFRAMES
               /\ \A a \in Pages : Present(proc[p].pt.pte[a]) <=> proc[p].pt.pte[a].frame # 0
               /\ \A a \in Pages : proc[p].pt.pte[a] # None
                                     => proc[p].pt.tabs[a \div PERTABLE] # 0
    BY <2>1 DEF Slot, Tidy
  <2>3. free \in [Frames -> 0..1] /\ calls \in 0..MaxCalls
    BY DEF MInv, Shape
  <2> QED BY <2>2, <2>3 DEF TypeOK
<1> QED BY <1>1, Invariance, PTL

(* sbrk, ssualloc, fork and exec: every page below a process's size has an *)
(* entry, unless one of the two size bugs took it away.                    *)
THEOREM SizesBacked == Spec => []SizeBacked
<1>1. MInv => SizeBacked
  BY DEF MInv
<1> QED BY <1>1, Invariance, PTL

(* Whatever fails half way in kalloc.c, vm.c, fork(), exec() and wait(), a  *)
(* frame is free once or held once: none is lost, freed twice or shared.   *)
THEOREM FramesNeverLost == Spec => []FramesOnce
<1>1. MInv => FramesOnce
  <2> SUFFICES ASSUME MInv, panic = "no", NEW f \in Frames
               PROVE  free[f] + Cardinality(Holders(f)) = 1
    BY DEF FramesOnce
  <2>1. f # 0
    BY DEF Frames
  <2>2. ASSUME NEW p \in Procs
        PROVE  /\ \A x \in Spots : FrameAt(proc[p].pt, x) = f =>
                    /\ free[f] = 0 /\ f \notin Others(p) /\ f # proc[p].kstack
                    /\ \A y \in Spots : FrameAt(proc[p].pt, y) = f => y = x
               /\ proc[p].kstack = f => free[f] = 0 /\ f \notin Others(p)
               /\ free[f] = 1 \/ f \in Others(p) \/ proc[p].kstack = f
                    \/ \E x \in Spots : FrameAt(proc[p].pt, x) = f
    <3> DEFINE m == Memory(proc[p].pt)
    <3>1. /\ m.free = free /\ m.pt = proc[p].pt
          /\ Sound(m, Mine(p)) /\ proc[p].kstack \notin Others(p)
      BY CallIs
    <3> HIDE DEF m
    <3>2. /\ \A x \in Spots : FrameAt(proc[p].pt, x) # 0 =>
               /\ free[FrameAt(proc[p].pt, x)] = 0 /\ FrameAt(proc[p].pt, x) \notin Mine(p)
               /\ \A y \in Spots : FrameAt(proc[p].pt, y) = FrameAt(proc[p].pt, x) => y = x
          /\ \A g \in Mine(p) : free[g] = 0
          /\ \A g \in Frames : free[g] = 1 \/ g \in Mine(p) \/ \E x \in Spots : FrameAt(proc[p].pt, x) = g
      BY <3>1 DEF Sound
    <3> QED BY <2>1, <3>1, <3>2 DEF Mine
  <2>3. \A p \in Procs : f \in Others(p) <=> \E q \in Procs \ {p} : Holds(proc[q], f)
    BY DEF Others
  <2>4. free[f] \in 0..1 /\ InitProc \in Procs
    BY DEF MInv, Shape
  <2>5. \A h : h \in Holders(f) <=>
          \/ \E p \in Procs : proc[p].kstack = f /\ h = <<p, <<"stack", 0>>>>
          \/ \E p \in Procs, x \in Spots : FrameAt(proc[p].pt, x) = f /\ h = <<p, x>>
    BY DEF Holders
  <2>6. CASE free[f] = 1
    <3>1. \A p \in Procs : proc[p].kstack # f /\ \A x \in Spots : FrameAt(proc[p].pt, x) # f
      BY <2>2, <2>6
    <3>2. Holders(f) = {}
      BY <2>5, <3>1
    <3> QED BY <2>6, <3>2, FS_EmptySet
  <2>7. CASE free[f] = 0
    <3>1. \E h : h \in Holders(f)
      <4>1. \E p \in Procs : Holds(proc[p], f)
        <5>1. f \in Others(InitProc) \/ proc[InitProc].kstack = f
                 \/ \E x \in Spots : FrameAt(proc[InitProc].pt, x) = f
          BY <2>2, <2>4, <2>7
        <5> QED BY <2>3, <2>4, <5>1 DEF Holds
      <4> QED BY <2>5, <4>1 DEF Holds
    <3>2. \A p, q \in Procs : Holds(proc[p], f) /\ Holds(proc[q], f) => p = q
      <4> SUFFICES ASSUME NEW p \in Procs, NEW q \in Procs, Holds(proc[p], f), Holds(proc[q], f), p # q
                   PROVE  FALSE
        OBVIOUS
      <4>1. f \in Others(p)
        BY <2>3
      <4> QED BY <2>2, <4>1 DEF Holds
    <3>3. \A h, k \in Holders(f) : h = k
      <4>1. \A p \in Procs : proc[p].kstack = f => Holds(proc[p], f)
        BY DEF Holds
      <4>2. \A p \in Procs : \A x \in Spots : FrameAt(proc[p].pt, x) = f =>
              Holds(proc[p], f) /\ proc[p].kstack # f
              /\ \A y \in Spots : FrameAt(proc[p].pt, y) = f => y = x
        BY <2>2 DEF Holds
      <4> QED BY <2>5, <3>2, <4>1, <4>2
    <3>4. PICK h : h \in Holders(f)
      BY <3>1
    <3>5. Holders(f) = {h}
      BY <3>3, <3>4
    <3>6. Cardinality({h}) = 1
      BY FS_Singleton
    <3> QED BY <2>7, <3>5, <3>6
  <2> QED BY <2>4, <2>6, <2>7
<1> QED BY <1>1, Invariance, PTL

=============================================================================
