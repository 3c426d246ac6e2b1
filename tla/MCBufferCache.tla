--------------------------- MODULE MCBufferCache ---------------------------
(* BufferCache with one block more than buffers, interchangeable.          *)
EXTENDS BufferCache, TLC

CONSTANTS a, b, c, d, p1, p2

CacheSymmetry == Permutations({a, b, c, d}) \cup Permutations({p1, p2})

=============================================================================
