------------------------------- MODULE LogInv -------------------------------
(***************************************************************************)
(* The inductive invariant of Log: at every point of commit() and of       *)
(* recovery, where the current contents of a block are to be found.        *)
(***************************************************************************)
EXTENDS Log

Distinct(s) == \A i, j \in 1 .. Len(s) : s[i] = s[j] => i = j

\* Slots whose copy is in the log, or at home.
InLog(n)  == \A i \in 1 .. Len(lh) : i < n => logdata[i] = cache[lh[i]]
AtHome(n) == \A i \in 1 .. Len(lh) : i < n => home[lh[i]] = logdata[i]

\* One process commits at a time, and which phases a mode can be in.
Modes ==
  /\ \A p, q \in Procs : pc[p] = "commit" /\ pc[q] = "commit" => p = q
  /\ ~up => phase \in {"boot", "inst", "clear"} /\ ~committing /\ dirty = {} /\ cached \subseteq Logged
         /\ \A p \in Procs : pc[p] = "idle"
  /\ up => IF committing THEN phase \in Phases \ {"boot", "none"} ELSE phase = "none"

\* No block has two slots, and the header on disk is the list in memory
\* exactly while the transaction is committed and not yet erased.
Headers ==
  /\ Distinct(lh) /\ Distinct(hdr)
  /\ phase \in {"none", "wlog", "whead", "done"} => hdr = <<>>
  /\ phase \in {"inst", "clear"} => hdr = lh
  /\ phase \in {"boot", "done"} => lh = <<>>
  /\ phase = "none" /\ outstanding = 0 => lh = <<>>
  /\ tail <= Len(lh) + 1 \/ phase \notin {"wlog", "inst"}

\* A clean buffer agrees with the disk; a dirty one is in the log's list and
\* stays dirty until it is installed.
Buffers ==
  /\ \A b \in cached \ dirty : cache[b] = home[b]
  /\ phase \in {"none", "wlog", "whead", "done"} => dirty = Logged
  /\ up /\ phase = "inst" => dirty = {lh[i] : i \in {j \in 1 .. Len(lh) : j >= tail}}
  /\ phase = "clear" => dirty = {}

\* How far the copy has come.
Copies ==
  /\ phase = "wlog" => InLog(tail)
  /\ phase = "whead" => InLog(Len(lh) + 1)
  /\ up /\ phase = "inst" => InLog(Len(lh) + 1)
  /\ phase = "inst" => AtHome(tail)
  /\ phase = "clear" => AtHome(Len(lh) + 1)

\* All of it: inductive, by LogProofs.
LInv == TypeOK /\ CommitIsAlone /\ Modes /\ Headers /\ Buffers /\ Copies

\* What the log has room for: the blocks a call has written are on the list,
\* and with what the calls in progress may still write the list fits.
Reservation ==
  /\ \A p \in Procs : IF pc[p] = "inop"
                     THEN wrote[p] \subseteq Logged /\ IsFiniteSet(wrote[p]) /\ Cardinality(wrote[p]) <= OpBlocks
                     ELSE wrote[p] = {}
  /\ InOp # {} => Len(lh) + Cardinality(Reserved) <= LOGSIZE

\* A call leaves enough of its reservation unused to make up for the header,
\* which mkfs counts among the blocks of the log and begin_op() does not.
Slack == OpBlocks < MAXOPBLOCKS /\ LOGSIZE - (MAXOPBLOCKS - OpBlocks) < NLOG - 1

=============================================================================
