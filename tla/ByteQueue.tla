----------------------------- MODULE ByteQueue -----------------------------
(***************************************************************************)
(* What a pipe promises: a bounded queue of bytes.  A reader takes a       *)
(* prefix of it, a writer adds some of its bytes at a time at its end,     *)
(* never past the bound.  Module Pipe implements it.                       *)
(***************************************************************************)
EXTENDS Integers, Sequences

CONSTANTS Bytes, Size

VARIABLE contents   \* written and not yet read

QueueInit == contents = <<>>

Put ==
  \E s \in UNION {[1 .. k -> Bytes] : k \in 0 .. Size - Len(contents)} : contents' = contents \o s

Get == \E k \in 0 .. Len(contents) : contents' = SubSeq(contents, k + 1, Len(contents))

\* The last end is closed.
Discard == contents' = <<>>

QueueNext == Put \/ Get \/ Discard

QueueSpec == QueueInit /\ [][QueueNext]_contents

=============================================================================
