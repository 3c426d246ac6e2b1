----------------------------- MODULE BlockStore -----------------------------
(***************************************************************************)
(* What the buffer cache promises its users: a block has one holder at a   *)
(* time, the holder alone changes what the block holds and alone takes it  *)
(* to the disk, and nobody can tell which blocks are in memory.  Module    *)
(* BufferCache implements this; module Log is written against it.          *)
(***************************************************************************)
CONSTANTS Blocks, Vals, Procs, NoProc

VARIABLES
  mem,      \* what bread() returns
  home,     \* what the disk holds
  holder    \* who has the block between bread() and brelse()

storeVars == <<mem, home, holder>>

StoreInit ==
  /\ home \in [Blocks -> Vals] /\ mem = home
  /\ holder = [b \in Blocks |-> NoProc]

Hold(p, b) ==
  /\ holder[b] = NoProc
  /\ holder' = [holder EXCEPT ![b] = p]
  /\ UNCHANGED <<mem, home>>

Store(p, b, v) ==
  /\ holder[b] = p
  /\ mem' = [mem EXCEPT ![b] = v]
  /\ UNCHANGED <<home, holder>>

Flush(p, b) ==
  /\ holder[b] = p
  /\ home' = [home EXCEPT ![b] = mem[b]]
  /\ UNCHANGED <<mem, holder>>

LetGo(p, b) ==
  /\ holder[b] = p
  /\ holder' = [holder EXCEPT ![b] = NoProc]
  /\ UNCHANGED <<mem, home>>

StoreNext ==
  \E p \in Procs, b \in Blocks :
    Hold(p, b) \/ Flush(p, b) \/ LetGo(p, b) \/ \E v \in Vals : Store(p, b, v)

StoreSpec == StoreInit /\ [][StoreNext]_storeVars

=============================================================================
