------------------------------ MODULE LevelInv ------------------------------
(***************************************************************************)
(* The inductive invariant of MultiLevel.  The pointers of a file are      *)
(* named by their place in its tree, and the invariant says that the disk  *)
(* is such a tree for every file, with a block of its own at each place.   *)
(***************************************************************************)
EXTENDS MultiLevel

\* Pointer <<l, k, q>> is the q-th of layer l in depth k; depth 0 is the inode.
Node == {x \in (0 .. NLAYER - 1) \X Nat \X Nat :
           x[2] <= x[1] /\ (x[2] = 0 => x[3] < Layers[x[1] + 1])}

\* The pointer to the block that x is in, and x's place there.
Up(x)   == <<x[1], x[2] - 1, x[3] \div NINDIRECT>>
Slot(x) == x[3] % NINDIRECT

Step(bn, k) == <<LayerOf(FirstBlock, bn), k, Rank(bn, k)>>
Leaf(bn)    == Step(bn, LayerOf(FirstBlock, bn))

Items  == ({"block"} \X Blocks) \cup ({"bitmap"} \X Nat)
Places == {Nothing} \cup (Files \X Nat)
Disks  == [bitmap : SUBSET Blocks,
           addrs : [Files -> [0 .. NADDRS - 1 -> Blocks \cup {Null}]],
           ptrs : [Blocks -> [0 .. NINDIRECT - 1 -> Blocks \cup {Null}]],
           data : [Blocks -> Places], log : SUBSET Items, panic : BOOLEAN]

\* Pointer x of file f, where at says which block is behind each pointer.
Pointer(d, at, f, x) ==
  IF x[2] = 0 THEN d.addrs[f][FirstAddr[x[1]] + x[3]]
  ELSE d.ptrs[at[<<f, Up(x)>>]][Slot(x)]

\* The pointers V of the files, each with the block at[v] behind it, make up
\* the disk: no block is behind two, and all others in these blocks are null.
Sound(d, V, at) ==
  /\ d \in Disks
  /\ V \subseteq Files \X Node
  /\ at \in [V -> Blocks] /\ \A u, v \in V : at[u] = at[v] => u = v
  /\ d.bitmap = {at[v] : v \in V}
  /\ \A v \in V : v[2][2] # 0 => <<v[1], Up(v[2])>> \in V
  /\ \A f \in Files, x \in Node : x[2] = 0 \/ <<f, Up(x)>> \in V =>
       Pointer(d, at, f, x) = IF <<f, x>> \in V THEN at[<<f, x>>] ELSE Null

\* What the files of n[f] blocks need.
Needed(n) == {v \in Files \X Node : v[2] \in Ways(n[v[1]])}

\* Each of these blocks holds what was written for its place.
Filled(d, at, n) ==
  \A f \in Files : \A bn \in 0 .. n[f] - 1 : d.data[at[<<f, Leaf(bn)>>]] = <<f, bn>>

Counts == [f \in Files |-> NBlocks(f)]

LInv ==
  /\ size \in [Files -> 0 .. 2 * MAXFILE] /\ truncs \in Nat /\ panic \in BOOLEAN
  /\ \E at : Sound(Disk, Needed(Counts), at) /\ Filled(Disk, at, Counts)

\* What PartBound rests on: half of a part is less than an indirect block has
\* pointers, so that it enters at most one new one; and filewrite() writes at all.
PartsFit == MaxPart \div 2 \in 1 .. NINDIRECT - 1

=============================================================================
