----------------------------- MODULE MultiLevel -----------------------------
(***************************************************************************)
(* Files of P4 with direct, single, double and triple indirect blocks:     *)
(* balloc, bfree, bmap, itrunc, readi and writei of P4_MAFS/fs.c under the *)
(* parts in which filewrite() of file.c writes.  A part and a truncation   *)
(* are transactions, and one step each: they hold ip->lock, and what files *)
(* share is the bitmap, whose blocks have a lock each.  Sizes and offsets  *)
(* are counted in half blocks.                                             *)
(***************************************************************************)
EXTENDS Integers, Sequences, FiniteSets

CONSTANTS
  Files,
  Layers,        \* l_addrs_max: pointers of the inode in layer 0, 1, ...
  NINDIRECT,     \* pointers in a block
  FSSIZE,        \* blocks of the disk for data
  BPB,           \* of them, how many a bitmap block is for
  MAXOPBLOCKS,   \* param.h:10
  MaxSize,       \* bound: how far each file grows
  MaxTruncs,     \* bound: how many files are removed
  Lengths, Backs \* bounds: how long parts are, and how far before the end they begin

ASSUME LevelAssumption ==
  /\ Layers \in Seq(Nat \ {0}) /\ NINDIRECT \in Nat \ {0}
  /\ FSSIZE \in Nat /\ BPB \in Nat \ {0} /\ MAXOPBLOCKS \in Nat /\ MaxTruncs \in Nat
  /\ Lengths \subseteq Nat \ {0} /\ Backs \subseteq Nat
  /\ MaxSize \in [Files -> Nat]

VARIABLES
  bitmap,        \* the blocks in use
  addrs,         \* ip->addrs of the files
  ptrs,          \* what a block holds, read as pointers,
  data,          \* and read as data: the place in a file it was written for
  size,          \* ip->size
  most,          \* the most blocks that a part of a write has logged
  truncs,
  panic          \* balloc() found no free block, or bfree() a free one

vars == <<bitmap, addrs, ptrs, data, size, most, truncs, panic>>

Blocks == 1 .. FSSIZE
Null   == 0
Nothing == <<>>
NLAYER == Len(Layers)

\* The blocks under a pointer of layer l: bs_p_b.
Fan[l \in 0 .. NLAYER] == IF l = 0 THEN 1 ELSE Fan[l - 1] * NINDIRECT

\* The first pointer of a layer in the inode, and the first block under it.
FirstAddr[l \in 0 .. NLAYER]  == IF l = 0 THEN 0 ELSE FirstAddr[l - 1] + Layers[l]
FirstBlock[l \in 0 .. NLAYER] == IF l = 0 THEN 0 ELSE FirstBlock[l - 1] + Layers[l] * Fan[l - 1]

NADDRS  == FirstAddr[NLAYER]
MAXFILE == FirstBlock[NLAYER]
NBlocks(f) == (size[f] + 1) \div 2

Init ==
  /\ bitmap = {}
  /\ addrs = [f \in Files |-> [i \in 0 .. NADDRS - 1 |-> Null]]
  /\ ptrs = [b \in Blocks |-> [i \in 0 .. NINDIRECT - 1 |-> Null]]
  /\ data = [b \in Blocks |-> Nothing]
  /\ size = [f \in Files |-> 0]
  /\ most = 0 /\ truncs = 0 /\ panic = FALSE

-----------------------------------------------------------------------------
(* The bitmap.  A disk is what a transaction has made of the variables so    *)
(* far, with the blocks it has logged.                                       *)

Disk == [bitmap |-> bitmap, addrs |-> addrs, ptrs |-> ptrs, data |-> data,
         log |-> {}, panic |-> FALSE]

BitmapBlock(b) == <<"bitmap", b \div BPB>>
FirstFree(d)   == IF Blocks \subseteq d.bitmap THEN Null
                  ELSE CHOOSE b \in Blocks \ d.bitmap : \A c \in Blocks \ d.bitmap : b <= c

\* Mutant of Balloc: the block keeps what it held.
BallocDirty(d) ==
  LET b == FirstFree(d) IN
  IF b = Null THEN [d EXCEPT !.panic = TRUE]
  ELSE [d EXCEPT !.bitmap = @ \cup {b}, !.log = @ \cup {BitmapBlock(b), <<"block", b>>}]

\* balloc(): the first free block, zeroed.  Without one the kernel panics.
Balloc(d) ==
  LET b == FirstFree(d) IN
  IF b = Null THEN [d EXCEPT !.panic = TRUE]
  ELSE [d EXCEPT !.bitmap = @ \cup {b}, !.log = @ \cup {BitmapBlock(b), <<"block", b>>},
                 !.ptrs[b] = [i \in 0 .. NINDIRECT - 1 |-> Null], !.data[b] = Nothing]

-----------------------------------------------------------------------------
(* bmap() *)

\* Which of the intervals that begin at first[0], first[1], ... n is in.
LayerOf(first, n) == CHOOSE l \in 0 .. NLAYER - 1 : first[l] <= n /\ n < first[l + 1]

\* The pointer on the way to block bn in depth k of its layer is the Rank-th
\* pointer that the layer has in this depth.
Rank(bn, k) == LET l == LayerOf(FirstBlock, bn) IN (bn - FirstBlock[l]) \div Fan[l - k]

\* Its place: among the pointers of the inode, or in an indirect block.
Path ==
  [bn \in 0 .. MAXFILE - 1 |->
    LET l == LayerOf(FirstBlock, bn)
    IN [k \in 0 .. l |-> IF k = 0 THEN FirstAddr[l] + Rank(bn, 0) ELSE Rank(bn, k) % NINDIRECT]]

\* Follow pointer i of the inode, with a new block behind it where it is null;
Enter(d, f, i) ==
  IF d.addrs[f][i] # Null THEN [at |-> d.addrs[f][i], d |-> d]
  ELSE LET b == FirstFree(d) IN [at |-> b, d |-> [Balloc(d) EXCEPT !.addrs[f][i] = b]]

\* then pointer i of the indirect block w.at.
Follow(w, i) ==
  IF w.d.panic THEN w
  ELSE IF w.d.ptrs[w.at][i] # Null THEN [w EXCEPT !.at = w.d.ptrs[w.at][i]]
  ELSE LET b == FirstFree(w.d) IN
       [at |-> b, d |-> [Balloc(w.d) EXCEPT !.ptrs[w.at][i] = b, !.log = @ \cup {<<"block", w.at>>}]]

Bmap(d, f, bn) ==
  LET l == LayerOf(FirstBlock, bn)
      trail[k \in 0 .. l] == IF k = 0 THEN Enter(d, f, Path[bn][0])
                             ELSE Follow(trail[k - 1], Path[bn][k])
  IN trail[l]

-----------------------------------------------------------------------------
(* filewrite() and writei() *)

\* Mutant of MaxPart: without the two blocks of slop.
MaxPartNoSlop == 2 * ((MAXOPBLOCKS - 1 - 1) \div 2)

\* filewrite()'s max, in half blocks.
MaxPart == 2 * ((MAXOPBLOCKS - 1 - 1 - 2) \div 2)

Larger(m, n) == IF m < n THEN n ELSE m

WriteBlock(f, d, bn) ==
  LET w == Bmap(d, f, bn)
  IN IF w.d.panic THEN w.d
     ELSE [w.d EXCEPT !.data[w.at] = <<f, bn>>, !.log = @ \cup {<<"block", w.at>>}]

\* The blocks first, ..., first + n - 1 of a part, written one after the other.
Written(f, first, n) ==
  LET part[k \in 0 .. n] == IF k = 0 THEN Disk ELSE WriteBlock(f, part[k - 1], first + k - 1)
  IN part[n]

WritePart(f, off, n) ==
  /\ ~panic
  /\ off <= size[f] /\ n <= MaxPart
  /\ off + n <= 2 * MAXFILE
  /\ off + n <= MaxSize[f]
  /\ LET first == off \div 2
         last  == (off + n - 1) \div 2
         w == Written(f, first, last - first + 1)
         grows == off + n > size[f]
     IN IF w.panic THEN panic' = TRUE /\ UNCHANGED <<bitmap, addrs, ptrs, data, size, most>>
        ELSE /\ bitmap' = w.bitmap /\ addrs' = w.addrs /\ ptrs' = w.ptrs /\ data' = w.data
             /\ size' = [size EXCEPT ![f] = IF grows THEN off + n ELSE @]
             /\ most' = Larger(most, Cardinality(w.log) + IF grows THEN 1 ELSE 0)
             /\ UNCHANGED panic
  /\ UNCHANGED truncs

-----------------------------------------------------------------------------
(* itrunc() *)

\* The blocks that itrunc_layer() frees under block b.
ItruncLayer[depth \in 0 .. NLAYER] ==
  [b \in Blocks |->
    IF depth = 0 THEN {}
    ELSE UNION {{c} \cup ItruncLayer[depth - 1][c] :
                c \in {ptrs[b][i] : i \in 0 .. NINDIRECT - 1} \ {Null}}]

\* Mutant of Layer: the count of a layer's pointers is not reset.
LayerOnce(t) == IF t.cnt = Layers[t.depth + 1] THEN [t EXCEPT !.depth = @ + 1] ELSE t

\* The depth goes up when all pointers of a layer have been seen.
Layer(t) == IF t.cnt = Layers[t.depth + 1] THEN [t EXCEPT !.cnt = 0, !.depth = @ + 1] ELSE t

\* One turn of the loop over ip->addrs: null pointers are not counted.
ItruncAddr(f, t, i) ==
  LET b == addrs[f][i]
      u == Layer(t)
  IN IF b = Null THEN t
     ELSE [u EXCEPT !.cnt = @ + 1, !.freed = @ \cup {b} \cup ItruncLayer[u.depth][b]]

Freed(f) ==
  LET seen[i \in 0 .. NADDRS] == IF i = 0 THEN [cnt |-> 0, depth |-> 0, freed |-> {}]
                                 ELSE ItruncAddr(f, seen[i - 1], i - 1)
  IN seen[NADDRS].freed

\* bfree() of a block that is free panics.  (A block freed twice would be one
\* that two pointers lead to: see OneOwner.)
FreesFree(blocks) == ~(blocks \subseteq bitmap)

\* The last iput() of a file without links; the next file may have its inode.
Itrunc(f) ==
  /\ ~panic
  /\ size[f] > 0 /\ truncs < MaxTruncs /\ truncs' = truncs + 1
  /\ IF FreesFree(Freed(f)) THEN panic' = TRUE /\ UNCHANGED <<bitmap, addrs, size>>
     ELSE /\ bitmap' = bitmap \ Freed(f)
          /\ addrs' = [addrs EXCEPT ![f] = [i \in 0 .. NADDRS - 1 |-> Null]]
          /\ size' = [size EXCEPT ![f] = 0]
          /\ UNCHANGED panic
  /\ UNCHANGED <<ptrs, data, most>>

-----------------------------------------------------------------------------

Next ==
  \E f \in Files :
    \/ \E off \in {size[f] - k : k \in Backs} \cap Nat, n \in Lengths : WritePart(f, off, n)
    \/ Itrunc(f)

Spec == Init /\ [][Next]_vars

-----------------------------------------------------------------------------
(* Safety *)

\* The blocks below a file's pointers, each in the depth of its layer.
Tree(f) ==
  UNION {{addrs[f][i]} \cup ItruncLayer[LayerOf(FirstAddr, i)][addrs[f][i]]
         : i \in {j \in DOMAIN addrs[f] : addrs[f][j] # Null}}

\* The pointers that a file of n blocks needs: in each layer and depth those
\* on the ways to its blocks.
Way(bn) == LET l == LayerOf(FirstBlock, bn) IN {<<l, k, Rank(bn, k)>> : k \in 0 .. l}
Ways(n) == UNION {Way(bn) : bn \in 0 .. n - 1}

\* Every block in use has one owner and one place there: no two pointers lead
\* to it, a file has the blocks that its size asks for, and what itrunc() frees
\* is what bmap() has allocated.
OneOwner ==
  /\ bitmap = UNION {Tree(f) : f \in Files}
  /\ \A f, g \in Files : f # g => Tree(f) \cap Tree(g) = {}
  /\ \A f \in Files : Cardinality(Tree(f)) = Cardinality(Ways(NBlocks(f)))

\* readi() finds in every place of a file what writei() put there.
ReadsBack ==
  \A f \in Files : \A bn \in 0 .. NBlocks(f) - 1 :
    LET r == Bmap(Disk, f, bn) IN r.d = Disk /\ data[r.at] = <<f, bn>>

\* A part logs no more than this, however large the disk and wherever its free
\* blocks are: its blocks, the pointers where it enters the deepest layer, the
\* inode, and a block of the bitmap for each of them that is new.  With the
\* sizes of P4 that is 15: more than the MAXOPBLOCKS = 10 that begin_op() of
\* the part has reserved (param.h:10, "max # of blocks any FS op writes"), and
\* half of the log.
PartBound == most <= MAXOPBLOCKS + 2 * NLAYER - 3

=============================================================================
