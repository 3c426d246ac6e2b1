------------------------------ MODULE LogProofs ------------------------------
(***************************************************************************)
(* LInv is inductive and Log implements AtomicDisk, for any set of blocks  *)
(* and callers and any size of the log.                                    *)
(***************************************************************************)
EXTENDS LogInv, FiniteSetTheorems, TLAPS

\* Every step keeps every variable in its type.
LEMMA TypeInd ==
  TypeOK /\ [Next]_vars => TypeOK'
<1> SUFFICES ASSUME TypeOK, [Next]_vars PROVE TypeOK'
  OBVIOUS
<1> USE LogAssumption
    DEF TypeOK, Slots, Phases, vars, disk, logVars, buffers, callers
<1>1. ASSUME NEW p \in Procs, BeginOp(p) PROVE TypeOK'
  BY <1>1 DEF BeginOp, Room
<1>2. ASSUME NEW p \in Procs, BeginSleep(p) PROVE TypeOK'
  BY <1>2 DEF BeginSleep, Room
<1>3. ASSUME NEW p \in Procs, EndOp(p) PROVE TypeOK'
  BY <1>3 DEF EndOp, WakeAll
<1>4. ASSUME NEW p \in Procs, EndLast(p) PROVE TypeOK'
  BY <1>4 DEF EndLast
<1>5. ASSUME NEW p \in Procs, EndCommit(p) PROVE TypeOK'
  BY <1>5 DEF EndCommit, WakeAll
<1>6. ASSUME NEW p \in Procs, NEW b \in Blocks, LogWrite(p, b) PROVE TypeOK'
  BY <1>6 DEF LogWrite, MayWrite, Fits
<1>7. ASSUME NEW b \in Blocks, Read(b) PROVE TypeOK'
  BY <1>7 DEF Read
<1>8. ASSUME NEW b \in Blocks, Recycle(b) PROVE TypeOK'
  BY <1>8 DEF Recycle
<1>9. ASSUME WriteLog PROVE TypeOK'
  BY <1>9 DEF WriteLog
<1>10. ASSUME WriteHead PROVE TypeOK'
  BY <1>10 DEF WriteHead
<1>11. ASSUME Install PROVE TypeOK'
  <2>1. CASE tail <= Len(lh)
    <3>1. lh[tail] \in Blocks /\ tail \in Slots /\ tail + 1 \in 1 .. LOGSIZE + 1
      BY <2>1
    <3>2. cached' \subseteq Blocks /\ dirty' \subseteq cached'
      BY <1>11, <2>1, <3>1 DEF Install
    <3> QED
      BY <1>11, <2>1, <3>1, <3>2 DEF Install
  <2>2. CASE ~(tail <= Len(lh))
    BY <1>11, <2>2 DEF Install
  <2> QED
    BY <2>1, <2>2
<1>12. ASSUME Clear PROVE TypeOK'
  BY <1>12 DEF Clear
<1>13. ASSUME ReadHead PROVE TypeOK'
  BY <1>13 DEF ReadHead
<1>14. ASSUME Crash PROVE TypeOK'
  <2>1. wrote' \in [Procs -> SUBSET Blocks] /\ pc' \in [Procs -> {"idle", "begin", "sleep", "inop", "commit"}]
    BY <1>14 DEF Crash
  <2>2. cached' \in SUBSET Blocks /\ dirty' \in SUBSET cached'
    BY <1>14 DEF Crash
  <2>3. lh' \in Seq(Blocks) /\ Len(lh') <= LOGSIZE
    BY <1>14 DEF Crash
  <2>4. outstanding' = 0 /\ committing' = FALSE /\ up' = FALSE /\ phase' = "boot" /\ tail' = 1
        /\ UNCHANGED <<home, logdata, hdr, cache>>
    BY <1>14 DEF Crash
  <2>5. 0 \in Nat /\ 1 \in 1 .. LOGSIZE + 1
    OBVIOUS
  <2> QED
    BY <2>1, <2>2, <2>3, <2>4, <2>5
<1>15. CASE UNCHANGED vars
  BY <1>15
<1> QED
  BY <1>1, <1>2, <1>3, <1>4, <1>5, <1>6, <1>7, <1>8, <1>9, <1>10, <1>11, <1>12, <1>13, <1>14, <1>15
     DEF Next, LogStep

\* The calls in progress are finitely many, as the processes are.
LEMMA InOpFinite == IsFiniteSet(InOp)
  BY LogAssumption, FS_Subset DEF InOp

\* log.outstanding is 0 exactly when no call is in progress.
LEMMA InOpEmpty == ASSUME Counted PROVE outstanding = 0 <=> InOp = {}
  BY InOpFinite, FS_EmptySet DEF Counted

\* When log.outstanding is 1, the process in end_op() is the last one.
LEMMA InOpLast ==
  ASSUME Counted, outstanding = 1, NEW p \in Procs, pc[p] = "inop"
  PROVE  InOp = {p}
<1>1. p \in InOp
  BY DEF InOp
<1>2. Cardinality(InOp) = 1
  BY DEF Counted
<1>3. Cardinality(InOp \ {p}) = 1 - 1 /\ IsFiniteSet(InOp \ {p})
  BY <1>1, <1>2, InOpFinite, FS_RemoveElement
<1> QED
  BY <1>1, <1>3, FS_EmptySet

\* log.outstanding keeps counting the calls in progress.
LEMMA CountInd ==
  TypeOK /\ Counted /\ [Next]_vars => Counted'
<1> SUFFICES ASSUME TypeOK, Counted, [Next]_vars PROVE Counted'
  OBVIOUS
<1> USE LogAssumption
    DEF TypeOK, Slots, Phases, vars, disk, logVars, buffers, callers
<1>1. ASSUME NEW p \in Procs, BeginOp(p) PROVE Counted'
  <2>1. InOp' = InOp \cup {p} /\ p \notin InOp
    BY <1>1 DEF BeginOp, InOp
  <2> QED
    BY <1>1, <2>1, InOpFinite, FS_AddElement DEF BeginOp, Counted
<1>2. ASSUME NEW p \in Procs, BeginSleep(p) PROVE Counted'
  <2>1. InOp' = InOp /\ outstanding' = outstanding
    BY <1>2 DEF BeginSleep, InOp
  <2> QED
    BY <2>1 DEF Counted
<1>3. ASSUME NEW p \in Procs, EndOp(p) PROVE Counted'
  <2>1. InOp' = InOp \ {p} /\ p \in InOp
    BY <1>3 DEF EndOp, WakeAll, InOp
  <2> QED
    BY <1>3, <2>1, InOpFinite, FS_RemoveElement DEF EndOp, Counted
<1>4. ASSUME NEW p \in Procs, EndLast(p) PROVE Counted'
  <2>1. InOp = {p}
    BY <1>4, InOpLast DEF EndLast
  <2>2. InOp' = {}
    BY <1>4, <2>1 DEF EndLast, InOp
  <2> QED
    BY <1>4, <2>2, FS_EmptySet DEF EndLast, Counted
<1>5. ASSUME NEW p \in Procs, EndCommit(p) PROVE Counted'
  <2>1. InOp' = InOp /\ outstanding' = outstanding
    BY <1>5 DEF EndCommit, WakeAll, InOp
  <2> QED
    BY <2>1 DEF Counted
<1>6. ASSUME NEW p \in Procs, NEW b \in Blocks, LogWrite(p, b) PROVE Counted'
  <2>1. InOp' = InOp /\ outstanding' = outstanding
    BY <1>6 DEF LogWrite, InOp
  <2> QED
    BY <2>1 DEF Counted
<1>7. ASSUME NEW b \in Blocks, Read(b) PROVE Counted'
  <2>1. InOp' = InOp /\ outstanding' = outstanding
    BY <1>7 DEF Read, InOp
  <2> QED
    BY <2>1 DEF Counted
<1>8. ASSUME NEW b \in Blocks, Recycle(b) PROVE Counted'
  <2>1. InOp' = InOp /\ outstanding' = outstanding
    BY <1>8 DEF Recycle, InOp
  <2> QED
    BY <2>1 DEF Counted
<1>9. ASSUME WriteLog PROVE Counted'
  <2>1. InOp' = InOp /\ outstanding' = outstanding
    BY <1>9 DEF WriteLog, InOp
  <2> QED
    BY <2>1 DEF Counted
<1>10. ASSUME WriteHead PROVE Counted'
  <2>1. InOp' = InOp /\ outstanding' = outstanding
    BY <1>10 DEF WriteHead, InOp
  <2> QED
    BY <2>1 DEF Counted
<1>11. ASSUME Install PROVE Counted'
  <2>1. InOp' = InOp /\ outstanding' = outstanding
    BY <1>11 DEF Install, InOp
  <2> QED
    BY <2>1 DEF Counted
<1>12. ASSUME Clear PROVE Counted'
  <2>1. InOp' = InOp /\ outstanding' = outstanding
    BY <1>12 DEF Clear, InOp
  <2> QED
    BY <2>1 DEF Counted
<1>13. ASSUME ReadHead PROVE Counted'
  <2>1. InOp' = InOp /\ outstanding' = outstanding
    BY <1>13 DEF ReadHead, InOp
  <2> QED
    BY <2>1 DEF Counted
<1>14. ASSUME Crash PROVE Counted'
  <2>1. InOp' = {}
    BY <1>14 DEF Crash, InOp
  <2> QED
    BY <1>14, <2>1, FS_EmptySet DEF Crash, Counted
<1>15. CASE UNCHANGED vars
  <2>1. InOp' = InOp /\ outstanding' = outstanding
    BY <1>15 DEF InOp
  <2> QED
    BY <2>1 DEF Counted
<1> QED
  BY <1>1, <1>2, <1>3, <1>4, <1>5, <1>6, <1>7, <1>8, <1>9, <1>10, <1>11, <1>12, <1>13, <1>14, <1>15
     DEF Next, LogStep

\* The parts of CommitIsAlone that are about the commit in progress.
Committing == /\ committing <=> \E p \in Procs : pc[p] = "commit"
              /\ InOp # {} => phase = "none"

\* A commit in progress has one process, and no call beside it.
LEMMA CommitInd ==
  LInv /\ [Next]_vars => Committing'
<1> SUFFICES ASSUME LInv, [Next]_vars PROVE Committing'
  OBVIOUS
<1> USE LogAssumption
    DEF LInv, CommitIsAlone, Committing, Modes, InOp,
        TypeOK, Slots, Phases, vars, disk, logVars, buffers, callers
<1>1. ASSUME NEW p \in Procs, BeginOp(p) PROVE Committing'
  BY <1>1 DEF BeginOp, Room
<1>2. ASSUME NEW p \in Procs, BeginSleep(p) PROVE Committing'
  BY <1>2 DEF BeginSleep, Room
<1>3. ASSUME NEW p \in Procs, EndOp(p) PROVE Committing'
  BY <1>3 DEF EndOp, WakeAll
<1>4. ASSUME NEW p \in Procs, EndLast(p) PROVE Committing'
  <2>1. InOp = {p}
    BY <1>4, InOpLast DEF EndLast
  <2> QED
    BY <1>4, <2>1 DEF EndLast, InOp
<1>5. ASSUME NEW p \in Procs, EndCommit(p) PROVE Committing'
  BY <1>5 DEF EndCommit, WakeAll
<1>6. ASSUME NEW p \in Procs, NEW b \in Blocks, LogWrite(p, b) PROVE Committing'
  BY <1>6 DEF LogWrite, MayWrite, Fits
<1>7. ASSUME NEW b \in Blocks, Read(b) PROVE Committing'
  BY <1>7 DEF Read
<1>8. ASSUME NEW b \in Blocks, Recycle(b) PROVE Committing'
  BY <1>8 DEF Recycle
<1>9. ASSUME WriteLog PROVE Committing'
  BY <1>9 DEF WriteLog
<1>10. ASSUME WriteHead PROVE Committing'
  BY <1>10 DEF WriteHead
<1>11. ASSUME Install PROVE Committing'
  BY <1>11 DEF Install
<1>12. ASSUME Clear PROVE Committing'
  BY <1>12 DEF Clear
<1>13. ASSUME ReadHead PROVE Committing'
  BY <1>13 DEF ReadHead
<1>14. ASSUME Crash PROVE Committing'
  BY <1>14 DEF Crash
<1>15. CASE UNCHANGED vars
  BY <1>15
<1> QED
  BY <1>1, <1>2, <1>3, <1>4, <1>5, <1>6, <1>7, <1>8, <1>9, <1>10, <1>11, <1>12, <1>13, <1>14, <1>15
     DEF Next, LogStep

\* Inside a call nothing is committed and every logged block is pinned.
LEMMA InsideCall ==
  ASSUME LInv, NEW p \in Procs, pc[p] = "inop"
  PROVE  phase = "none" /\ up /\ ~committing /\ hdr = <<>> /\ dirty = Logged
  BY DEF LInv, CommitIsAlone, Modes, Headers, Buffers, InOp

\* What a sequence lists.
Elems(s) == {s[i] : i \in 1 .. Len(s)}

\* Appending a new element lists one more and repeats none.
LEMMA AppendList ==
  ASSUME NEW S, NEW s \in Seq(S), NEW x \in S, NEW t, t = Append(s, x)
  PROVE  /\ Elems(t) = Elems(s) \cup {x}
         /\ Distinct(s) /\ x \notin Elems(s) => Distinct(t)
<1>1. /\ Len(s) \in Nat /\ Len(t) = Len(s) + 1 /\ t[Len(s) + 1] = x
      /\ \A i \in 1 .. Len(s) : t[i] = s[i]
  OBVIOUS
<1>2. 1 .. Len(t) = (1 .. Len(s)) \cup {Len(s) + 1}
  BY ONLY <1>1
<1>3. \A i \in 1 .. Len(t) : i \in 1 .. Len(s) \/ i = Len(s) + 1
  BY ONLY <1>2
<1>4. Elems(t) \subseteq Elems(s) \cup {x}
  BY ONLY <1>1, <1>3 DEF Elems
<1>5. Elems(s) \cup {x} \subseteq Elems(t)
  <2>1. \A i \in 1 .. Len(s) : i \in 1 .. Len(t) /\ t[i] = s[i]
    BY ONLY <1>1, <1>2
  <2>2. Len(s) + 1 \in 1 .. Len(t) /\ t[Len(s) + 1] = x
    BY ONLY <1>1, <1>2
  <2> QED
    BY ONLY <2>1, <2>2 DEF Elems
<1>6. Distinct(s) /\ x \notin Elems(s) => Distinct(t)
  BY ONLY <1>1, <1>3 DEF Distinct, Elems
<1> QED
  BY ONLY <1>4, <1>5, <1>6

\* log_write() leaves its block on the list once (absorption).
LEMMA Listed ==
  ASSUME LInv, NEW p \in Procs, NEW b \in Blocks, LogWrite(p, b)
  PROVE  Logged' = Logged \cup {b} /\ Distinct(lh') /\ outstanding # 0
<1>1. outstanding # 0
  BY InOpEmpty DEF LogWrite, MayWrite, InOp, LInv, CommitIsAlone
<1>2. CASE b \in Logged
  BY <1>1, <1>2 DEF LogWrite, Logged, LInv, Headers, Distinct
<1>3. CASE b \notin Logged
  <2>1. b \in Blocks /\ lh' = Append(lh, b) /\ lh \in Seq(Blocks) /\ Distinct(lh)
    BY <1>3 DEF LogWrite, LInv, TypeOK, Headers
  <2>2. Logged = Elems(lh) /\ Logged' = Elems(lh')
    BY ONLY DEF Logged, Elems
  <2>3. b \notin Elems(lh)
    BY ONLY <1>3, <2>2
  <2>4. Elems(lh') = Elems(lh) \cup {b} /\ (Distinct(lh) /\ b \notin Elems(lh) => Distinct(lh'))
    BY ONLY <2>1, AppendList, Zenon
  <2> QED
    BY ONLY <1>1, <2>1, <2>2, <2>3, <2>4
<1> QED
  BY <1>2, <1>3

\* Every step keeps phase, committing and up in step with each other.
LEMMA ModesInd ==
  LInv /\ [Next]_vars => Modes'
<1> SUFFICES ASSUME LInv, [Next]_vars PROVE Modes'
  OBVIOUS
<1> USE LogAssumption
    DEF LInv, CommitIsAlone, Modes, Headers, Logged,
        TypeOK, Slots, Phases, vars, disk, logVars, buffers, callers
<1>1. ASSUME NEW p \in Procs, BeginOp(p) PROVE Modes'
  BY <1>1 DEF BeginOp, Room
<1>2. ASSUME NEW p \in Procs, BeginSleep(p) PROVE Modes'
  BY <1>2 DEF BeginSleep, Room
<1>3. ASSUME NEW p \in Procs, EndOp(p) PROVE Modes'
  BY <1>3 DEF EndOp, WakeAll
<1>4. ASSUME NEW p \in Procs, EndLast(p) PROVE Modes'
  BY <1>4, InsideCall DEF EndLast
<1>5. ASSUME NEW p \in Procs, EndCommit(p) PROVE Modes'
  BY <1>5 DEF EndCommit, WakeAll
<1>6. ASSUME NEW p \in Procs, NEW b \in Blocks, LogWrite(p, b) PROVE Modes'
  BY <1>6, InsideCall, Listed DEF LogWrite, MayWrite, Fits
<1>7. ASSUME NEW b \in Blocks, Read(b) PROVE Modes'
  BY <1>7 DEF Read
<1>8. ASSUME NEW b \in Blocks, Recycle(b) PROVE Modes'
  BY <1>8 DEF Recycle
<1>9. ASSUME WriteLog PROVE Modes'
  BY <1>9 DEF WriteLog
<1>10. ASSUME WriteHead PROVE Modes'
  BY <1>10 DEF WriteHead
<1>11. ASSUME Install PROVE Modes'
  BY <1>11 DEF Install
<1>12. ASSUME Clear PROVE Modes'
  BY <1>12 DEF Clear
<1>13. ASSUME ReadHead PROVE Modes'
  BY <1>13 DEF ReadHead
<1>14. ASSUME Crash PROVE Modes'
  BY <1>14 DEF Crash
<1>15. CASE UNCHANGED vars
  BY <1>15
<1> QED
  BY <1>1, <1>2, <1>3, <1>4, <1>5, <1>6, <1>7, <1>8, <1>9, <1>10, <1>11, <1>12, <1>13, <1>14, <1>15
     DEF Next, LogStep

\* Every step keeps the header on disk and the list in memory as Headers says.
LEMMA HeadersInd ==
  LInv /\ [Next]_vars => Headers'
<1> SUFFICES ASSUME LInv, [Next]_vars PROVE Headers'
  OBVIOUS
<1> USE LogAssumption
    DEF LInv, CommitIsAlone, Modes, Headers, Logged, Distinct,
        TypeOK, Slots, Phases, vars, disk, logVars, buffers, callers
<1>1. ASSUME NEW p \in Procs, BeginOp(p) PROVE Headers'
  BY <1>1 DEF BeginOp, Room
<1>2. ASSUME NEW p \in Procs, BeginSleep(p) PROVE Headers'
  BY <1>2 DEF BeginSleep, Room
<1>3. ASSUME NEW p \in Procs, EndOp(p) PROVE Headers'
  BY <1>3 DEF EndOp, WakeAll
<1>4. ASSUME NEW p \in Procs, EndLast(p) PROVE Headers'
  BY <1>4, InsideCall DEF EndLast
<1>5. ASSUME NEW p \in Procs, EndCommit(p) PROVE Headers'
  BY <1>5 DEF EndCommit, WakeAll
<1>6. ASSUME NEW p \in Procs, NEW b \in Blocks, LogWrite(p, b) PROVE Headers'
  <2>1. phase' = "none" /\ hdr' = <<>> /\ outstanding' # 0
    BY <1>6, InsideCall, Listed DEF LogWrite, MayWrite
  <2>2. Distinct(lh') /\ Distinct(hdr')
    BY <1>6, <2>1, Listed
  <2> QED
    BY ONLY <2>1, <2>2 DEF Headers
<1>7. ASSUME NEW b \in Blocks, Read(b) PROVE Headers'
  BY <1>7 DEF Read
<1>8. ASSUME NEW b \in Blocks, Recycle(b) PROVE Headers'
  BY <1>8 DEF Recycle
<1>9. ASSUME WriteLog PROVE Headers'
  BY <1>9 DEF WriteLog
<1>10. ASSUME WriteHead PROVE Headers'
  BY <1>10 DEF WriteHead
<1>11. ASSUME Install PROVE Headers'
  BY <1>11 DEF Install
<1>12. ASSUME Clear PROVE Headers'
  BY <1>12 DEF Clear
<1>13. ASSUME ReadHead PROVE Headers'
  BY <1>13 DEF ReadHead
<1>14. ASSUME Crash PROVE Headers'
  BY <1>14 DEF Crash
<1>15. CASE UNCHANGED vars
  BY <1>15
<1> QED
  BY <1>1, <1>2, <1>3, <1>4, <1>5, <1>6, <1>7, <1>8, <1>9, <1>10, <1>11, <1>12, <1>13, <1>14, <1>15
     DEF Next, LogStep

\* Every step keeps clean buffers equal to the disk and dirty ones logged.
LEMMA BuffersInd ==
  LInv /\ [Next]_vars => Buffers'
<1> SUFFICES ASSUME LInv, [Next]_vars PROVE Buffers'
  OBVIOUS
<1> USE LogAssumption
    DEF LInv, CommitIsAlone, Modes, Headers, Logged, Distinct, Buffers, Copies, InLog, AtHome,
        TypeOK, Slots, Phases, vars, disk, logVars, buffers, callers
<1>1. ASSUME NEW p \in Procs, BeginOp(p) PROVE Buffers'
  BY <1>1 DEF BeginOp, Room
<1>2. ASSUME NEW p \in Procs, BeginSleep(p) PROVE Buffers'
  BY <1>2 DEF BeginSleep, Room
<1>3. ASSUME NEW p \in Procs, EndOp(p) PROVE Buffers'
  BY <1>3 DEF EndOp, WakeAll
<1>4. ASSUME NEW p \in Procs, EndLast(p) PROVE Buffers'
  BY <1>4, InsideCall DEF EndLast
<1>5. ASSUME NEW p \in Procs, EndCommit(p) PROVE Buffers'
  BY <1>5 DEF EndCommit, WakeAll
<1>6. ASSUME NEW p \in Procs, NEW b \in Blocks, LogWrite(p, b) PROVE Buffers'
  <2>1. phase' = "none" /\ dirty' = dirty \cup {b} /\ dirty = Logged /\ Logged' = Logged \cup {b}
    BY ONLY <1>6, LInv, InsideCall, Listed DEF LogWrite, MayWrite
  <2>2. \A d \in cached' \ dirty' : cache'[d] = home'[d]
    BY <1>6, InsideCall, Listed DEF LogWrite
  <2> QED
    BY ONLY <2>1, <2>2 DEF Buffers
<1>7. ASSUME NEW b \in Blocks, Read(b) PROVE Buffers'
  BY <1>7 DEF Read
<1>8. ASSUME NEW b \in Blocks, Recycle(b) PROVE Buffers'
  BY <1>8 DEF Recycle
<1>9. ASSUME WriteLog PROVE Buffers'
  BY <1>9 DEF WriteLog
<1>10. ASSUME WriteHead PROVE Buffers'
  BY <1>10 DEF WriteHead
<1>11. ASSUME Install PROVE Buffers'
  BY <1>11 DEF Install
<1>12. ASSUME Clear PROVE Buffers'
  BY <1>12 DEF Clear
<1>13. ASSUME ReadHead PROVE Buffers'
  BY <1>13 DEF ReadHead
<1>14. ASSUME Crash PROVE Buffers'
  BY <1>14 DEF Crash
<1>15. CASE UNCHANGED vars
  BY <1>15
<1> QED
  BY <1>1, <1>2, <1>3, <1>4, <1>5, <1>6, <1>7, <1>8, <1>9, <1>10, <1>11, <1>12, <1>13, <1>14, <1>15
     DEF Next, LogStep

\* Every step keeps the copies of a block where Copies says they are.
LEMMA CopiesInd ==
  LInv /\ [Next]_vars => Copies'
<1> SUFFICES ASSUME LInv, [Next]_vars PROVE Copies'
  OBVIOUS
<1> USE LogAssumption
    DEF LInv, CommitIsAlone, Modes, Headers, Logged, Distinct, Buffers, Copies, InLog, AtHome,
        TypeOK, Slots, Phases, vars, disk, logVars, buffers, callers
<1>1. ASSUME NEW p \in Procs, BeginOp(p) PROVE Copies'
  BY <1>1 DEF BeginOp, Room
<1>2. ASSUME NEW p \in Procs, BeginSleep(p) PROVE Copies'
  BY <1>2 DEF BeginSleep, Room
<1>3. ASSUME NEW p \in Procs, EndOp(p) PROVE Copies'
  BY <1>3 DEF EndOp, WakeAll
<1>4. ASSUME NEW p \in Procs, EndLast(p) PROVE Copies'
  BY <1>4, InsideCall DEF EndLast
<1>5. ASSUME NEW p \in Procs, EndCommit(p) PROVE Copies'
  BY <1>5 DEF EndCommit, WakeAll
<1>6. ASSUME NEW p \in Procs, NEW b \in Blocks, LogWrite(p, b) PROVE Copies'
  BY <1>6, InsideCall, Listed DEF LogWrite, MayWrite, Fits
<1>7. ASSUME NEW b \in Blocks, Read(b) PROVE Copies'
  BY <1>7 DEF Read
<1>8. ASSUME NEW b \in Blocks, Recycle(b) PROVE Copies'
  BY <1>8 DEF Recycle
<1>9. ASSUME WriteLog PROVE Copies'
  BY <1>9 DEF WriteLog
<1>10. ASSUME WriteHead PROVE Copies'
  BY <1>10 DEF WriteHead
<1>11. ASSUME Install PROVE Copies'
  BY <1>11 DEF Install
<1>12. ASSUME Clear PROVE Copies'
  BY <1>12 DEF Clear
<1>13. ASSUME ReadHead PROVE Copies'
  BY <1>13 DEF ReadHead
<1>14. ASSUME Crash PROVE Copies'
  BY <1>14 DEF Crash
<1>15. CASE UNCHANGED vars
  BY <1>15
<1> QED
  BY <1>1, <1>2, <1>3, <1>4, <1>5, <1>6, <1>7, <1>8, <1>9, <1>10, <1>11, <1>12, <1>13, <1>14, <1>15
     DEF Next, LogStep

\* The invariant holds of a disk that mkfs made.
LEMMA LInvInit == Init => LInv
<1> SUFFICES ASSUME Init PROVE LInv
  OBVIOUS
<1> USE LogAssumption DEF Init, Slots, Phases
<1>1. InOp = {}
  BY DEF InOp
<1>2. TypeOK
  <2>1. logdata \in [Slots -> Vals] /\ cache \in [Blocks -> Vals] /\ home \in [Blocks -> Vals]
    OBVIOUS
  <2>2. hdr \in Seq(Blocks) /\ lh \in Seq(Blocks) /\ Len(hdr) <= LOGSIZE /\ Len(lh) <= LOGSIZE
    OBVIOUS
  <2>3. outstanding \in Nat /\ tail \in 1 .. LOGSIZE + 1
    OBVIOUS
  <2>5. committing \in BOOLEAN /\ up \in BOOLEAN
    OBVIOUS
  <2>6. phase \in Phases
    OBVIOUS
  <2>4. /\ cached \in SUBSET Blocks /\ dirty \in SUBSET cached
        /\ pc \in [Procs -> {"idle", "begin", "sleep", "inop", "commit"}]
        /\ wrote \in [Procs -> SUBSET Blocks]
    OBVIOUS
  <2> QED
    BY <2>1, <2>2, <2>3, <2>4, <2>5, <2>6 DEF TypeOK
<1>3. CommitIsAlone
  BY <1>1, FS_EmptySet DEF CommitIsAlone, Counted
<1>4. Modes /\ Headers /\ Buffers /\ Copies
  BY DEF Modes, Headers, Buffers, Copies, Distinct
<1> QED
  BY <1>2, <1>3, <1>4 DEF LInv

\* The invariant is inductive.
LEMMA LInvNext == LInv /\ [Next]_vars => LInv'
<1> SUFFICES ASSUME LInv, [Next]_vars PROVE LInv'
  OBVIOUS
<1>1. TypeOK' /\ Modes' /\ Headers' /\ Buffers' /\ Copies'
  BY TypeInd, ModesInd, HeadersInd, BuffersInd, CopiesInd DEF LInv
<1>2. CommitIsAlone'
  BY CountInd, CommitInd DEF LInv, CommitIsAlone, Committing
<1> QED
  BY <1>1, <1>2 DEF LInv

\* The inductive invariant holds in every reachable state, crashes included.
THEOREM Invariance == Spec => []LInv
  BY LInvInit, LInvNext, PTL DEF Spec

-----------------------------------------------------------------------------
(* What the invariant is for *)

\* Every variable of the log stays in its type: neither the list in memory
\* nor the header on disk outgrows the log.
THEOREM TypeCorrect == Spec => []TypeOK
  BY Invariance, PTL DEF LInv

\* commit() runs alone, and log_write and end_op are never called out of place.
THEOREM CommitsAlone == Spec => []CommitIsAlone
  BY Invariance, PTL DEF LInv

\* With no call and no commit, the log is empty and the cache clean.
LEMMA QuietDisk ==
  ASSUME LInv, up, outstanding = 0, ~committing
  PROVE  lh = <<>> /\ hdr = <<>> /\ dirty = {} /\ \A b \in cached : cache[b] = home[b]
<1>1. phase = "none" /\ lh = <<>> /\ hdr = <<>>
  BY DEF LInv, Modes, Headers
<1>2. dirty = {}
  BY <1>1 DEF LInv, Buffers, Logged
<1> QED
  BY <1>1, <1>2 DEF LInv, Buffers

\* With no call in progress and no commit running, everything is at home.
THEOREM QuietDurability == Spec => []QuietIsDurable
<1>1. LInv => QuietIsDurable
  BY QuietDisk DEF QuietIsDurable
<1> QED
  BY <1>1, Invariance, PTL

\* Whoever sleeps in begin_op() keeps somebody to wake it.
LEMMA SleepersInd ==
  LInv /\ NoStrandedCaller /\ [Next]_vars => NoStrandedCaller'
<1> SUFFICES ASSUME LInv, NoStrandedCaller, [Next]_vars PROVE NoStrandedCaller'
  OBVIOUS
<1> USE LogAssumption
    DEF LInv, NoStrandedCaller,
        TypeOK, Slots, Phases, vars, disk, logVars, buffers, callers
<1>1. ASSUME NEW p \in Procs, BeginOp(p) PROVE NoStrandedCaller'
  BY <1>1 DEF BeginOp, Room
<1>2. ASSUME NEW p \in Procs, BeginSleep(p) PROVE NoStrandedCaller'
  <2>1. CASE committing
    BY <1>2, <2>1 DEF BeginSleep
  <2>2. CASE ~committing
    <3>1. outstanding # 0
      BY <1>2, <2>2, QuietDisk DEF BeginSleep, Room
    <3> QED
      BY <1>2, <3>1 DEF BeginSleep
  <2> QED
    BY <2>1, <2>2
<1>3. ASSUME NEW p \in Procs, EndOp(p) PROVE NoStrandedCaller'
  BY <1>3 DEF EndOp, WakeAll
<1>4. ASSUME NEW p \in Procs, EndLast(p) PROVE NoStrandedCaller'
  BY <1>4 DEF EndLast
<1>5. ASSUME NEW p \in Procs, EndCommit(p) PROVE NoStrandedCaller'
  BY <1>5 DEF EndCommit, WakeAll
<1>6. ASSUME NEW p \in Procs, NEW b \in Blocks, LogWrite(p, b) PROVE NoStrandedCaller'
  BY <1>6 DEF LogWrite, MayWrite, Fits
<1>7. ASSUME NEW b \in Blocks, Read(b) PROVE NoStrandedCaller'
  BY <1>7 DEF Read
<1>8. ASSUME NEW b \in Blocks, Recycle(b) PROVE NoStrandedCaller'
  BY <1>8 DEF Recycle
<1>9. ASSUME WriteLog PROVE NoStrandedCaller'
  BY <1>9 DEF WriteLog
<1>10. ASSUME WriteHead PROVE NoStrandedCaller'
  BY <1>10 DEF WriteHead
<1>11. ASSUME Install PROVE NoStrandedCaller'
  BY <1>11 DEF Install
<1>12. ASSUME Clear PROVE NoStrandedCaller'
  BY <1>12 DEF Clear
<1>13. ASSUME ReadHead PROVE NoStrandedCaller'
  BY <1>13 DEF ReadHead
<1>14. ASSUME Crash PROVE NoStrandedCaller'
  BY <1>14 DEF Crash
<1>15. CASE UNCHANGED vars
  BY <1>15
<1> QED
  BY <1>1, <1>2, <1>3, <1>4, <1>5, <1>6, <1>7, <1>8, <1>9, <1>10, <1>11, <1>12, <1>13, <1>14, <1>15
     DEF Next, LogStep

\* Whoever sleeps in begin_op() sleeps on a call or a commit that will end.
THEOREM NobodyStranded == Spec => []NoStrandedCaller
<1>1. Init => NoStrandedCaller
  BY DEF Init, NoStrandedCaller
<1> QED
  BY <1>1, SleepersInd, Invariance, PTL DEF Spec

-----------------------------------------------------------------------------
(* The reservation *)

\* A reservation is finite, at most MAXOPBLOCKS for each of its calls.
LEMMA ReserveBound ==
  ASSUME NEW S, IsFiniteSet(S), NEW R \in SUBSET (S \X (1 .. MAXOPBLOCKS))
  PROVE  IsFiniteSet(R) /\ Cardinality(R) \in Nat /\ Cardinality(R) <= Cardinality(S) * MAXOPBLOCKS
<1>1. IsFiniteSet(1 .. MAXOPBLOCKS) /\ Cardinality(1 .. MAXOPBLOCKS) = MAXOPBLOCKS
  BY LogAssumption, FS_Interval
<1>2. /\ IsFiniteSet(S \X (1 .. MAXOPBLOCKS))
      /\ Cardinality(S \X (1 .. MAXOPBLOCKS)) = Cardinality(S) * Cardinality(1 .. MAXOPBLOCKS)
  BY <1>1, FS_Product
<1>3. IsFiniteSet(R) /\ Cardinality(R) <= Cardinality(S \X (1 .. MAXOPBLOCKS))
  BY ONLY <1>2, R \in SUBSET (S \X (1 .. MAXOPBLOCKS)), FS_Subset
<1>4. Cardinality(R) \in Nat
  BY <1>3, FS_CardinalityType
<1> QED
  BY ONLY <1>1, <1>2, <1>3, <1>4

\* The reserved blocks are finitely many.
LEMMA ReservedFinite == IsFiniteSet(Reserved) /\ Cardinality(Reserved) \in Nat
<1>1. Reserved \in SUBSET (InOp \X (1 .. MAXOPBLOCKS))
  BY DEF Reserved
<1> QED
  BY <1>1, InOpFinite, ReserveBound

\* A call in progress has the rest of its reservation left.
LEMMA ReservedOwn ==
  ASSUME NEW p \in InOp, Cardinality(wrote[p]) \in Nat, Cardinality(wrote[p]) <= MAXOPBLOCKS
  PROVE  MAXOPBLOCKS - Cardinality(wrote[p]) <= Cardinality(Reserved)
<1> DEFINE n == Cardinality(wrote[p])
<1>1. MAXOPBLOCKS \in Nat /\ n \in Nat /\ n <= MAXOPBLOCKS
  BY LogAssumption
<1>2. IsFiniteSet(n + 1 .. MAXOPBLOCKS) /\ Cardinality(n + 1 .. MAXOPBLOCKS) = MAXOPBLOCKS - n
  <2> HIDE DEF n
  <2> DEFINE k == n + 1
  <2>1. k \in Int /\ MAXOPBLOCKS \in Int /\ k = n + 1
    BY ONLY <1>1
  <2>2. IsFiniteSet(k .. MAXOPBLOCKS)
        /\ Cardinality(k .. MAXOPBLOCKS) = IF k > MAXOPBLOCKS THEN 0 ELSE MAXOPBLOCKS - k + 1
    <3> HIDE DEF k
    <3> QED
      BY ONLY <2>1, FS_Interval, Zenon
  <2>3. (IF k > MAXOPBLOCKS THEN 0 ELSE MAXOPBLOCKS - k + 1) = MAXOPBLOCKS - n
    BY ONLY <1>1, <2>1
  <2> QED
    BY ONLY <2>2, <2>3
<1>3. IsFiniteSet({p}) /\ Cardinality({p}) = 1
  BY FS_Singleton
<1>4. Cardinality({p} \X (n + 1 .. MAXOPBLOCKS)) = MAXOPBLOCKS - n
  <2> DEFINE T == n + 1 .. MAXOPBLOCKS
  <2>1. IsFiniteSet(T) /\ Cardinality(T) = MAXOPBLOCKS - n
    BY ONLY <1>2
  <2> HIDE DEF n, T
  <2>2. Cardinality({p} \X T) = Cardinality({p}) * Cardinality(T)
    BY ONLY <1>3, <2>1, FS_Product, Zenon
  <2>3. Cardinality({p} \X T) = 1 * (MAXOPBLOCKS - n)
    BY ONLY <1>3, <2>1, <2>2
  <2> QED
    BY ONLY <1>1, <2>3 DEF T
<1>5. {p} \X (n + 1 .. MAXOPBLOCKS) \in SUBSET Reserved
  BY <1>1 DEF Reserved
<1>6. Cardinality({p} \X (n + 1 .. MAXOPBLOCKS)) <= Cardinality(Reserved)
  BY <1>5, ReservedFinite, FS_Subset
<1> QED
  BY <1>1, <1>4, <1>6

\* Where no call starts, ends or writes, the reservation is as it was.
LEMMA ReservedSame ==
  ASSUME Reservation, UNCHANGED <<wrote, lh>>,
         \A p \in Procs : pc'[p] = "inop" <=> pc[p] = "inop"
  PROVE  Reservation'
<1>1. InOp' = InOp
  BY DEF InOp
<1>2. Reserved' = Reserved /\ Logged' = Logged
  BY <1>1 DEF Reserved, Logged
<1> QED
  BY <1>1, <1>2 DEF Reservation

\* Without calls nothing is reserved.
LEMMA ReservedNone ==
  ASSUME \A p \in Procs : pc'[p] # "inop" /\ wrote'[p] = {}
  PROVE  Reservation'
<1>1. InOp' = {}
  BY DEF InOp
<1> QED
  BY <1>1 DEF Reservation

\* begin_op() keeps the reservation within the log: that is Room.
LEMMA ReservedBegin ==
  ASSUME LInv, LInv', Reservation, NEW p \in Procs, BeginOp(p)
  PROVE  Reservation'
<1>1. /\ wrote' = wrote /\ lh' = lh /\ outstanding' = outstanding + 1 /\ Room
      /\ pc'[p] = "inop" /\ \A q \in Procs \ {p} : pc'[q] = pc[q]
  BY DEF BeginOp, LInv, TypeOK
<1>2. wrote[p] = {}
  BY DEF BeginOp, Reservation
<1>3. Len(lh') + Cardinality(Reserved') <= LOGSIZE
  <2> DEFINE m == outstanding' * MAXOPBLOCKS
  <2>1. Len(lh) + m <= LOGSIZE
    BY <1>1 DEF Room
  <2>2. Len(lh) \in Nat /\ outstanding' \in Nat /\ MAXOPBLOCKS \in Nat /\ LOGSIZE \in Nat
    BY <1>1, LogAssumption DEF LInv, TypeOK
  <2>3. m \in Int
    BY ONLY <2>2
  <2>4. IsFiniteSet(InOp') /\ Cardinality(InOp') = outstanding'
    BY LogAssumption, FS_Subset DEF InOp, LInv, CommitIsAlone, Counted
  <2>5. Reserved' \in SUBSET (InOp' \X (1 .. MAXOPBLOCKS))
    BY DEF Reserved
  <2>6. Cardinality(Reserved') \in Nat /\ Cardinality(Reserved') <= m
    BY ONLY <2>4, <2>5, ReserveBound, LogAssumption
  <2>7. Len(lh') = Len(lh)
    BY <1>1
  <2> HIDE DEF m
  <2> QED
    BY ONLY <2>1, <2>2, <2>3, <2>6, <2>7
<1>4. Logged' = Logged /\ IsFiniteSet({}) /\ Cardinality({}) = 0 /\ OpBlocks \in Nat
  BY <1>1, FS_EmptySet, LogAssumption DEF Logged
<1>5. wrote'[p] \subseteq Logged' /\ IsFiniteSet(wrote'[p]) /\ Cardinality(wrote'[p]) <= OpBlocks
  BY <1>1, <1>2, <1>4
<1> QED
  BY <1>1, <1>3, <1>4, <1>5 DEF Reservation

\* A call that ends gives its reservation back.
LEMMA ReservedEnd ==
  ASSUME LInv, Reservation, NEW p \in Procs, EndOp(p)
  PROVE  Reservation'
<1>1. /\ wrote' = [wrote EXCEPT ![p] = {}] /\ lh' = lh /\ pc'[p] = "idle"
      /\ \A q \in Procs \ {p} : pc'[q] = "inop" <=> pc[q] = "inop"
      /\ wrote \in [Procs -> SUBSET Blocks] /\ p \in InOp
  BY DEF EndOp, WakeAll, LInv, TypeOK, InOp
<1>2. Reserved' \in SUBSET Reserved /\ InOp' \subseteq InOp
  BY <1>1 DEF Reserved, InOp
<1>3. IsFiniteSet(Reserved)
  BY ReservedFinite
<1>4. Cardinality(Reserved') <= Cardinality(Reserved) /\ Cardinality(Reserved') \in Nat /\ Cardinality(Reserved) \in Nat
  BY <1>2, <1>3, FS_Subset, FS_CardinalityType
<1>5. Len(lh) \in Nat /\ LOGSIZE \in Nat
  BY LogAssumption DEF LInv, TypeOK
<1>6. Len(lh') + Cardinality(Reserved') <= LOGSIZE
  BY <1>1, <1>4, <1>5 DEF Reservation
<1>7. Logged' = Logged
  BY <1>1 DEF Logged
<1> QED
  BY <1>1, <1>6, <1>7 DEF Reservation

\* A block that is written takes a place that was reserved, unless its call or
\* another one had it on the list before.
LEMMA ReservedWrite ==
  ASSUME Slack, LInv, Reservation, NEW p \in Procs, NEW b \in Blocks, LogWrite(p, b)
  PROVE  Reservation'
<1>1. /\ wrote' = [wrote EXCEPT ![p] = @ \cup {b}] /\ pc' = pc /\ p \in InOp
      /\ wrote \in [Procs -> SUBSET Blocks]
      /\ lh' = IF b \in Logged THEN lh ELSE Append(lh, b)
      /\ b \in wrote[p] \/ Cardinality(wrote[p]) < OpBlocks
  BY DEF LogWrite, MayWrite, LInv, TypeOK, InOp
<1>2. Logged' = Logged \cup {b}
  BY Listed
<1>3. IsFiniteSet(wrote[p]) /\ Cardinality(wrote[p]) <= OpBlocks /\ wrote[p] \subseteq Logged
  BY <1>1 DEF Reservation, InOp
<1>4. Cardinality(wrote[p]) \in Nat /\ OpBlocks \in Nat /\ MAXOPBLOCKS \in Nat /\ OpBlocks < MAXOPBLOCKS
      /\ LOGSIZE \in Nat
  BY <1>3, FS_CardinalityType, LogAssumption DEF Slack
<1>5. IsFiniteSet(wrote'[p])
      /\ Cardinality(wrote'[p]) = IF b \in wrote[p] THEN Cardinality(wrote[p]) ELSE Cardinality(wrote[p]) + 1
  BY <1>1, <1>3, FS_AddElement
<1>6. Cardinality(wrote'[p]) <= OpBlocks
  BY <1>1, <1>3, <1>4, <1>5
<1>7. InOp' = InOp
  BY <1>1 DEF InOp
<1>8. IsFiniteSet(Reserved) /\ Cardinality(Reserved) \in Nat
  BY ReservedFinite
<1>9. Len(lh) \in Nat /\ Len(lh') \in Nat /\ Len(lh') = IF b \in Logged THEN Len(lh) ELSE Len(lh) + 1
  <2>1. lh \in Seq(Blocks)
    BY DEF LInv, TypeOK
  <2> QED
    BY ONLY <1>1, <2>1
<1>10. Len(lh') + Cardinality(Reserved') <= LOGSIZE
  <2>1. CASE b \in wrote[p]
    <3>1. wrote' = wrote
      BY <1>1, <2>1
    <3>2. Reserved' = Reserved /\ lh' = lh
      BY <1>1, <1>3, <1>7, <2>1, <3>1 DEF Reserved
    <3> QED
      BY <1>1, <3>2 DEF Reservation
  <2>2. CASE b \notin wrote[p]
    <3> DEFINE r == <<p, Cardinality(wrote[p]) + 1>>
    <3>1. r \in Reserved
      BY <1>1, <1>4, <2>2 DEF Reserved
    <3>2. Reserved' = Reserved \ {r}
      <4>1. \A x \in InOp \X (1 .. MAXOPBLOCKS) : x \in Reserved' <=> x \in Reserved /\ x # r
        <5> SUFFICES ASSUME NEW q \in InOp, NEW k \in 1 .. MAXOPBLOCKS
                     PROVE  <<q, k>> \in Reserved' <=> <<q, k>> \in Reserved /\ <<q, k>> # r
          OBVIOUS
        <5>1. <<q, k>> \in Reserved <=> k > Cardinality(wrote[q])
          BY DEF Reserved
        <5>2. <<q, k>> \in Reserved' <=> k > Cardinality(wrote'[q])
          BY <1>7 DEF Reserved
        <5>3. CASE q = p
          BY <1>4, <1>5, <2>2, <5>1, <5>2, <5>3
        <5>4. CASE q # p
          <6>1. wrote'[q] = wrote[q]
            BY <1>1, <5>4 DEF InOp
          <6> QED
            BY <5>1, <5>2, <5>4, <6>1
        <5> QED
          BY <5>3, <5>4
      <4>2. Reserved \subseteq InOp \X (1 .. MAXOPBLOCKS) /\ Reserved' \subseteq InOp \X (1 .. MAXOPBLOCKS)
        BY <1>7 DEF Reserved
      <4> QED
        BY ONLY <4>1, <4>2
    <3>3. Cardinality(Reserved') = Cardinality(Reserved) - 1
      BY <1>8, <3>1, <3>2, FS_RemoveElement
    <3>4. Len(lh) + Cardinality(Reserved) <= LOGSIZE
      BY <1>1 DEF Reservation
    <3> QED
      BY ONLY <1>4, <1>8, <1>9, <3>3, <3>4
  <2> QED
    BY <2>1, <2>2
<1>11. \A q \in Procs \ {p} : wrote'[q] = wrote[q]
  BY <1>1
<1>12. wrote'[p] = wrote[p] \cup {b}
  BY <1>1
<1> QED
  BY <1>1, <1>2, <1>3, <1>5, <1>6, <1>10, <1>11, <1>12 DEF Reservation, InOp

\* Every step keeps the reservation within the log.
LEMMA ReservationInd ==
  ASSUME Slack, LInv, LInv', Reservation, [Next]_vars
  PROVE  Reservation'
<1>1. ASSUME NEW p \in Procs, BeginOp(p) PROVE Reservation'
  BY <1>1, ReservedBegin
<1>2. ASSUME NEW p \in Procs, EndOp(p) PROVE Reservation'
  BY <1>2, ReservedEnd
<1>3. ASSUME NEW p \in Procs, NEW b \in Blocks, LogWrite(p, b) PROVE Reservation'
  BY <1>3, ReservedWrite
<1>4. ASSUME NEW p \in Procs, EndLast(p) PROVE Reservation'
  <2>1. InOp = {p}
    BY <1>4, InOpLast DEF EndLast, LInv, CommitIsAlone
  <2>2. \A q \in Procs : pc'[q] # "inop" /\ wrote'[q] = {}
    BY <1>4, <2>1 DEF EndLast, InOp, Reservation, LInv, TypeOK
  <2> QED
    BY <2>2, ReservedNone
<1>5. ASSUME Crash PROVE Reservation'
  <2>1. \A q \in Procs : pc'[q] # "inop" /\ wrote'[q] = {}
    BY <1>5 DEF Crash
  <2> QED
    BY <2>1, ReservedNone
<1>6. ASSUME Clear \/ ReadHead PROVE Reservation'
  <2>1. InOp = {} /\ UNCHANGED <<pc, wrote>>
    BY <1>6 DEF Clear, ReadHead, callers, LInv, CommitIsAlone
  <2>2. \A q \in Procs : pc'[q] # "inop" /\ wrote'[q] = {}
    BY <2>1 DEF InOp, Reservation
  <2> QED
    BY <2>2, ReservedNone
<1>7. ASSUME NEW p \in Procs, BeginSleep(p) \/ EndCommit(p) PROVE Reservation'
  <2>1. UNCHANGED <<wrote, lh>> /\ \A q \in Procs : pc'[q] = "inop" <=> pc[q] = "inop"
    BY <1>7 DEF BeginSleep, EndCommit, WakeAll, logVars, LInv, TypeOK
  <2> QED
    BY <2>1, ReservedSame
<1>8. ASSUME NEW b \in Blocks, Read(b) \/ Recycle(b) PROVE Reservation'
  <2>1. UNCHANGED <<wrote, lh, pc>>
    BY <1>8 DEF Read, Recycle, logVars, callers
  <2> QED
    BY <2>1, ReservedSame
<1>9. ASSUME WriteLog \/ WriteHead \/ Install PROVE Reservation'
  <2>1. UNCHANGED <<wrote, lh, pc>>
    BY <1>9 DEF WriteLog, WriteHead, Install, logVars, callers
  <2> QED
    BY <2>1, ReservedSame
<1>10. CASE UNCHANGED vars
  <2>1. UNCHANGED <<wrote, lh, pc>>
    BY <1>10 DEF vars, logVars, callers
  <2> QED
    BY <2>1, ReservedSame
<1> QED
  BY <1>1, <1>2, <1>3, <1>4, <1>5, <1>6, <1>7, <1>8, <1>9, <1>10 DEF Next, LogStep

\* The mkfs disk has no call in progress.
LEMMA ReservationInit == ASSUME Init PROVE Reservation
<1>1. InOp = {} /\ \A p \in Procs : pc[p] # "inop" /\ wrote[p] = {}
  BY DEF Init, InOp
<1> QED
  BY <1>1 DEF Reservation

\* With Slack the reservation leaves room for every block a call may write.
LEMMA ReservationFits == ASSUME Slack, LInv, Reservation PROVE NoOverflow
<1> SUFFICES ASSUME NEW p \in InOp PROVE Fits /\ Len(lh) + Cardinality(Reserved) <= LOGSIZE
  BY DEF NoOverflow
<1>1. Len(lh) + Cardinality(Reserved) <= LOGSIZE
  BY DEF Reservation
<1>2. IsFiniteSet(wrote[p]) /\ Cardinality(wrote[p]) <= OpBlocks
  BY DEF Reservation, InOp
<1>3. Cardinality(wrote[p]) \in Nat
  BY <1>2, FS_CardinalityType
<1>4. Cardinality(Reserved) \in Nat
  BY ReservedFinite
<1>5. /\ OpBlocks \in Nat /\ MAXOPBLOCKS \in Nat /\ LOGSIZE \in Nat /\ NLOG \in Nat /\ Len(lh) \in Nat
      /\ OpBlocks < MAXOPBLOCKS /\ LOGSIZE - (MAXOPBLOCKS - OpBlocks) < NLOG - 1
  BY LogAssumption DEF LInv, TypeOK, Slack
<1>6. MAXOPBLOCKS - Cardinality(wrote[p]) <= Cardinality(Reserved)
  BY <1>2, <1>3, <1>5, ReservedOwn
<1>7. Len(lh) < LOGSIZE /\ Len(lh) < NLOG - 1
  BY ONLY <1>1, <1>2, <1>3, <1>4, <1>5, <1>6
<1> QED
  BY <1>1, <1>7 DEF Fits

\* The log never overflows, and log_write() never panics, whatever the number
\* of callers and the sizes, as long as Slack holds: calls that write at most
\* eight of the ten blocks reserved for them, in a log of thirty.
THEOREM RoomForAll == ASSUME Slack PROVE Spec => []NoOverflow
<1>1. Init => Reservation
  BY ReservationInit
<1>2. LInv /\ LInv' /\ Reservation /\ [Next]_vars => Reservation'
  BY ReservationInd
<1>3. LInv /\ Reservation => NoOverflow
  BY ReservationFits
<1> QED
  BY <1>1, <1>2, <1>3, Invariance, PTL DEF Spec


-----------------------------------------------------------------------------
(* Log implements AtomicDisk: what the log's blocks lay over the disk.     *)

\* A block the header lists recovers to its copy in the log.
LEMMA OverAt ==
  ASSUME NEW h, NEW d, NEW s, Distinct(s), NEW i \in 1 .. Len(s), s[i] \in Blocks
  PROVE  Over(h, d, s)[s[i]] = d[i]
<1>1. (CHOOSE j \in 1 .. Len(s) : s[j] = s[i]) = i
  BY DEF Distinct
<1> QED
  BY <1>1 DEF Over

\* A block the header does not list recovers to its home.
LEMMA OverElse ==
  ASSUME NEW h, NEW d, NEW s, NEW b \in Blocks, b \notin Elems(s)
  PROVE  Over(h, d, s)[b] = h[b]
  BY DEF Over, Elems

\* With an empty header every block recovers to its home.
LEMMA OverNone ==
  ASSUME NEW h, NEW d, NEW b \in Blocks
  PROVE  Over(h, d, <<>>)[b] = h[b]
  BY OverElse DEF Elems

\* Two disks look the same if they agree on the listed slots and elsewhere.
LEMMA OverSame ==
  ASSUME NEW h, NEW d, NEW h2, NEW d2, NEW s,
         Distinct(s), \A i \in 1 .. Len(s) : s[i] \in Blocks /\ d2[i] = d[i],
         \A b \in Blocks \ Elems(s) : h2[b] = h[b]
  PROVE  Over(h2, d2, s) = Over(h, d, s)
<1>1. ASSUME NEW b \in Blocks PROVE Over(h2, d2, s)[b] = Over(h, d, s)[b]
  <2>1. CASE b \in Elems(s)
    <3>1. PICK i \in 1 .. Len(s) : s[i] = b
      BY <2>1 DEF Elems
    <3> QED
      BY <3>1, OverAt
  <2>2. CASE b \notin Elems(s)
    BY <2>2, OverElse
  <2> QED
    BY <2>1, <2>2
<1> QED
  BY <1>1 DEF Over

\* Two recovered disks that agree on every block are equal.
LEMMA OverEqual ==
  ASSUME NEW h, NEW d, NEW s, NEW h2, NEW d2, NEW s2,
         \A b \in Blocks : Over(h, d, s)[b] = Over(h2, d2, s2)[b]
  PROVE  Over(h, d, s) = Over(h2, d2, s2)
<1> DEFINE f == Over(h, d, s)
           g == Over(h2, d2, s2)
<1>1. f = [b \in Blocks |-> f[b]] /\ g = [b \in Blocks |-> g[b]]
  BY DEF Over
<1> HIDE DEF f, g
<1>2. f = g
  BY <1>1 DEF f, g
<1> QED
  BY <1>2 DEF f, g

\* A log that is installed everywhere adds nothing.
LEMMA OverHome ==
  ASSUME NEW h, NEW d, NEW s, Distinct(s), NEW b \in Blocks,
         \A i \in 1 .. Len(s) : s[i] \in Blocks /\ h[s[i]] = d[i]
  PROVE  Over(h, d, s)[b] = h[b]
<1>1. CASE b \in Elems(s)
  <2>1. PICK i \in 1 .. Len(s) : s[i] = b
    BY <1>1 DEF Elems
  <2> QED
    BY <2>1, OverAt
<1>2. CASE b \notin Elems(s)
  BY <1>2, OverElse
<1> QED
  BY <1>1, <1>2

\* Where no transaction is committed and not erased, the disk is home.
LEMMA RecoveredHome ==
  ASSUME LInv, hdr = <<>>, NEW b \in Blocks
  PROVE  Recovered[b] = home[b]
  BY OverNone DEF Recovered

\* A running system's reader of a block sees its buffer or its home.
LEMMA Seen ==
  ASSUME NEW b \in Blocks
  PROVE  Visible[b] = IF ~up THEN Recovered[b] ELSE IF b \in cached THEN cache[b] ELSE home[b]
  BY DEF Visible

\* An initial state maps to an initial state of AtomicDisk.
LEMMA MapInit == Init => Atomic!DiskInit
<1> SUFFICES ASSUME Init PROVE Atomic!DiskInit
  OBVIOUS
<1>1. \A b \in Blocks : Recovered[b] = home[b]
  BY OverNone DEF Init, Recovered
<1>2. Recovered \in [Blocks -> Vals] /\ Visible = Recovered
  <2>1. Recovered = [b \in Blocks |-> Recovered[b]] /\ Visible = [b \in Blocks |-> Recovered[b]]
    BY DEF Recovered, Over, Visible, Init
  <2> QED
    BY <1>1, <2>1 DEF Init
<1>3. InOp = {}
  BY DEF Init, InOp
<1> QED
  BY <1>2, <1>3 DEF Atomic!DiskInit

\* begin_op
LEMMA MapBegin ==
  ASSUME LInv, NEW p \in Procs, BeginOp(p)
  PROVE  Atomic!Begin(p)
<1>1. InOp' = InOp \cup {p} /\ p \notin InOp
  BY DEF BeginOp, InOp, LInv, TypeOK
<1>2. InOp = {} => Visible = Recovered
  <2> SUFFICES ASSUME InOp = {} PROVE Visible = Recovered
    OBVIOUS
  <2>1. hdr = <<>> /\ dirty = {} /\ \A b \in cached : cache[b] = home[b]
    BY InOpEmpty, QuietDisk DEF BeginOp, LInv, CommitIsAlone
  <2>2. \A b \in Blocks : Visible[b] = Recovered[b]
    BY <2>1, RecoveredHome, Seen
  <2> QED
    BY <2>2 DEF Visible, Recovered, Over
<1>3. Visible' = Visible /\ Recovered' = Recovered
  BY DEF BeginOp, Visible, Recovered, disk, buffers
<1> QED
  BY <1>1, <1>2, <1>3 DEF Atomic!Begin

\* end_op
LEMMA MapEnd ==
  ASSUME LInv, NEW p \in Procs, EndOp(p) \/ EndLast(p)
  PROVE  Atomic!End(p)
<1>1. InOp' = InOp \ {p} /\ p \in InOp
  BY DEF EndOp, EndLast, WakeAll, InOp, LInv, TypeOK
<1>2. Visible' = Visible /\ Recovered' = Recovered
  BY DEF EndOp, EndLast, Visible, Recovered, disk, buffers
<1> QED
  BY <1>1, <1>2 DEF Atomic!End

\* log_write
LEMMA MapWrite ==
  ASSUME LInv, NEW p \in Procs, NEW b \in Blocks, LogWrite(p, b)
  PROVE  \E v \in Vals : Atomic!Write(p, b, v)
<1>1. PICK v \in Vals : cache' = [cache EXCEPT ![b] = v]
  BY DEF LogWrite
<1>2. InOp' = InOp /\ p \in InOp
  BY DEF LogWrite, MayWrite, InOp
<1>3. up /\ up' /\ cached' = cached \cup {b} /\ home' = home
  BY InsideCall DEF LogWrite, MayWrite, disk
<1>4. Visible' = [Visible EXCEPT ![b] = v]
  BY <1>1, <1>3 DEF Visible, LInv, TypeOK
<1>5. Recovered' = Recovered
  BY DEF LogWrite, Recovered, disk
<1>6. Atomic!Write(p, b, v)
  BY <1>2, <1>4, <1>5 DEF Atomic!Write
<1> QED
  BY <1>6

\* write_head: "the true point at which the current transaction commits"
LEMMA MapCommit ==
  ASSUME LInv, WriteHead
  PROVE  Atomic!Commit
<1>1. InOp = {} /\ InOp' = InOp
  BY DEF LInv, CommitIsAlone, WriteHead, callers, InOp
<1>2. up /\ up' /\ Visible' = Visible
  BY DEF WriteHead, LInv, Modes, Visible, buffers
<1>3. \A i \in 1 .. Len(lh) : lh[i] \in Blocks /\ logdata[i] = cache[lh[i]]
  BY DEF WriteHead, LInv, Copies, InLog, TypeOK
<1>4. dirty = Elems(lh) /\ dirty \subseteq cached /\ Distinct(lh)
  BY DEF WriteHead, LInv, Buffers, Headers, TypeOK, Logged, Elems
<1>5. ASSUME NEW b \in Blocks PROVE Over(home, logdata, lh)[b] = Visible[b]
  <2>1. CASE b \in Elems(lh)
    <3>1. PICK i \in 1 .. Len(lh) : lh[i] = b
      BY <2>1 DEF Elems
    <3>2. Over(home, logdata, lh)[b] = cache[b]
      BY <1>3, <1>4, <3>1, OverAt
    <3> QED
      BY <1>2, <1>4, <2>1, <3>2, Seen
  <2>2. CASE b \notin Elems(lh)
    <3>1. b \in cached => cache[b] = home[b]
      BY <1>4, <2>2 DEF LInv, Buffers
    <3> QED
      BY <1>2, <2>2, <3>1, OverElse, Seen
  <2> QED
    BY <2>1, <2>2
<1>6. Recovered' = Over(home, logdata, lh)
  BY DEF WriteHead, Recovered
<1>7. Over(home, logdata, lh) = Visible
  BY <1>5 DEF Over, Visible
<1> QED
  BY <1>1, <1>2, <1>6, <1>7 DEF Atomic!Commit

\* A machine that stops
LEMMA MapCrash ==
  ASSUME LInv, Crash
  PROVE  Atomic!Crash
<1>1. InOp' = {}
  BY DEF Crash, InOp
<1>2. Recovered' = Recovered
  BY DEF Crash, Recovered, disk
<1>3. Visible' = Recovered'
  BY DEF Crash, Visible, Recovered, Over
<1> QED
  BY <1>1, <1>2, <1>3 DEF Atomic!Crash

\* bread and recycling: a clean buffer and the home block are the same.
LEMMA KeepsRead ==
  ASSUME LInv, NEW b \in Blocks, Read(b) \/ Recycle(b)
  PROVE  UNCHANGED Atomic!diskVars
<1>1. InOp' = InOp /\ Recovered' = Recovered /\ up' = up
  BY DEF Read, Recycle, InOp, Recovered, disk, callers, logVars
<1>2. b \in cached /\ b \notin dirty => cache[b] = home[b]
  BY DEF LInv, Buffers
<1>3. Visible' = Visible
  BY <1>1, <1>2 DEF Read, Recycle, Visible, disk, logVars, LInv, TypeOK
<1> QED
  BY <1>1, <1>3 DEF Atomic!diskVars

\* write_log: nobody reads the log before its header names it.
LEMMA KeepsWriteLog ==
  ASSUME LInv, WriteLog
  PROVE  UNCHANGED Atomic!diskVars
<1>1. InOp' = InOp /\ hdr = <<>> /\ hdr' = <<>> /\ home' = home /\ up /\ up'
  BY DEF WriteLog, InOp, callers, LInv, Headers, Modes
<1>2. Visible' = Visible
  BY <1>1 DEF WriteLog, Visible, buffers
<1>3. \A b \in Blocks : Over(home, logdata', <<>>)[b] = Over(home, logdata, <<>>)[b]
  BY OverNone
<1>4. Recovered' = Recovered
  BY <1>1, <1>3 DEF Recovered, Over
<1> QED
  BY <1>1, <1>2, <1>4 DEF Atomic!diskVars

\* install_trans: the home block gets what the log already says.
LEMMA KeepsInstall ==
  ASSUME LInv, Install
  PROVE  UNCHANGED Atomic!diskVars
<1>1. InOp' = InOp /\ hdr' = hdr /\ logdata' = logdata /\ up' = up /\ hdr = lh /\ Distinct(hdr)
  BY DEF Install, InOp, callers, LInv, Headers
<1>2. CASE tail <= Len(lh)
  <2>1. tail \in 1 .. Len(lh) /\ lh[tail] \in Blocks /\ \A i \in 1 .. Len(lh) : lh[i] \in Blocks
    BY <1>2 DEF LInv, TypeOK
  <2>2. home' = [home EXCEPT ![lh[tail]] = logdata[tail]]
    BY <1>2 DEF Install
  <2>3. \A b \in Blocks \ Elems(hdr) : home'[b] = home[b]
    BY <1>1, <2>1, <2>2 DEF Elems, LInv, TypeOK
  <2>4. Recovered' = Recovered
    BY <1>1, <2>1, <2>3, OverSame DEF Recovered
  <2>5. CASE up
    <3>1. logdata[tail] = cache[lh[tail]] /\ lh[tail] \in dirty
      BY <1>2, <2>1, <2>5 DEF Install, LInv, Copies, InLog, Buffers, TypeOK
    <3>2. cache \in [Blocks -> Vals] /\ lh[tail] \in cached
      BY <3>1 DEF LInv, TypeOK
    <3>3. cache' = [cache EXCEPT ![lh[tail]] = logdata[tail]] /\ cached' = cached \cup {lh[tail]}
      BY <1>2 DEF Install
    <3>4. cache' = cache
      BY <3>1, <3>2, <3>3
    <3>5. cached' = cached
      BY <3>2, <3>3
    <3>6. \A b \in Blocks \ cached : home'[b] = home[b]
      BY <2>1, <2>2, <3>2 DEF LInv, TypeOK
    <3>7. Visible' = Visible
      BY <1>1, <2>5, <3>4, <3>5, <3>6 DEF Visible
    <3> QED
      BY <1>1, <2>4, <3>7 DEF Atomic!diskVars
  <2>6. CASE ~up
    <3>1. Visible' = Visible
      BY <1>1, <2>4, <2>6 DEF Visible
    <3> QED
      BY <1>1, <2>4, <3>1 DEF Atomic!diskVars
  <2> QED
    BY <2>5, <2>6
<1>3. CASE ~(tail <= Len(lh))
  <2>1. Visible' = Visible /\ Recovered' = Recovered
    BY <1>1, <1>3 DEF Install, Visible, Recovered, buffers
  <2> QED
    BY <1>1, <2>1 DEF Atomic!diskVars
<1> QED
  BY <1>2, <1>3

\* Erasing an installed log, at the end of a commit or of recovery.
LEMMA KeepsClear ==
  ASSUME LInv, Clear
  PROVE  UNCHANGED Atomic!diskVars
<1>1. InOp' = InOp /\ hdr' = <<>> /\ logdata' = logdata /\ home' = home /\ up'
      /\ hdr = lh /\ Distinct(hdr) /\ cached' = cached /\ cache' = cache
  BY DEF Clear, InOp, callers, buffers, LInv, Headers
<1>2. \A i \in 1 .. Len(hdr) : hdr[i] \in Blocks /\ home[hdr[i]] = logdata[i]
  BY <1>1 DEF Clear, LInv, Copies, AtHome, TypeOK
<1>3. \A b \in cached : cache[b] = home[b]
  BY DEF Clear, LInv, Buffers
<1>4. \A b \in Blocks : Recovered[b] = home[b] /\ Over(home, logdata, <<>>)[b] = home[b]
  BY <1>1, <1>2, OverHome, OverNone DEF Recovered
<1>5. Recovered' = Over(home, logdata, <<>>)
  BY <1>1 DEF Recovered
<1>6. Recovered' = Recovered
  BY <1>4, <1>5, OverEqual DEF Recovered
<1>7. \A b \in Blocks : Visible'[b] = Visible[b]
  BY <1>1, <1>3, <1>4 DEF Visible
<1>8. Visible' = Visible
  BY <1>7 DEF Visible
<1> QED
  BY <1>1, <1>6, <1>8 DEF Atomic!diskVars

\* The remaining steps leave the abstract disk alone.
LEMMA KeepsRest ==
  ASSUME LInv, (\E p \in Procs : BeginSleep(p) \/ EndCommit(p)) \/ ReadHead \/ UNCHANGED vars
  PROVE  UNCHANGED Atomic!diskVars
<1>1. Recovered' = Recovered /\ InOp' = InOp
  BY DEF BeginSleep, EndCommit, ReadHead, WakeAll, Recovered, InOp, vars, disk, callers, LInv, TypeOK
<1>2. Visible' = Visible
  BY <1>1 DEF BeginSleep, EndCommit, ReadHead, Visible, vars, disk, buffers, logVars
<1> QED
  BY <1>1, <1>2 DEF Atomic!diskVars

\* Every step maps to a step of AtomicDisk or to a stutter.
LEMMA MapNext == LInv /\ [Next]_vars => [Atomic!DiskNext]_(Atomic!diskVars)
<1> SUFFICES ASSUME LInv, [Next]_vars PROVE Atomic!DiskNext \/ UNCHANGED Atomic!diskVars
  OBVIOUS
<1>1. ASSUME NEW p \in Procs, BeginOp(p) PROVE Atomic!DiskNext
  BY ONLY LInv, <1>1, MapBegin DEF Atomic!DiskNext
<1>2. ASSUME NEW p \in Procs, EndOp(p) \/ EndLast(p) PROVE Atomic!DiskNext
  BY ONLY LInv, <1>2, MapEnd DEF Atomic!DiskNext
<1>3. ASSUME NEW p \in Procs, NEW b \in Blocks, LogWrite(p, b) PROVE Atomic!DiskNext
  BY ONLY LInv, <1>3, MapWrite DEF Atomic!DiskNext
<1>4. ASSUME NEW b \in Blocks, Read(b) \/ Recycle(b) PROVE UNCHANGED Atomic!diskVars
  BY ONLY LInv, <1>4, KeepsRead
<1>5. ASSUME WriteLog PROVE UNCHANGED Atomic!diskVars
  BY ONLY LInv, <1>5, KeepsWriteLog
<1>6. ASSUME WriteHead PROVE Atomic!DiskNext
  BY ONLY LInv, <1>6, MapCommit DEF Atomic!DiskNext
<1>7. ASSUME Install PROVE UNCHANGED Atomic!diskVars
  BY ONLY LInv, <1>7, KeepsInstall
<1>8. ASSUME Clear PROVE UNCHANGED Atomic!diskVars
  BY ONLY LInv, <1>8, KeepsClear
<1>9. ASSUME Crash PROVE Atomic!DiskNext
  BY ONLY LInv, <1>9, MapCrash DEF Atomic!DiskNext
<1>10. ASSUME NEW p \in Procs, BeginSleep(p) \/ EndCommit(p) PROVE UNCHANGED Atomic!diskVars
  BY ONLY LInv, <1>10, KeepsRest
<1>11. ASSUME ReadHead \/ UNCHANGED vars PROVE UNCHANGED Atomic!diskVars
  BY ONLY LInv, <1>11, KeepsRest
<1> QED
  BY <1>1, <1>2, <1>3, <1>4, <1>5, <1>6, <1>7, <1>8, <1>9, <1>10, <1>11 DEF Next, LogStep

\* Log implements AtomicDisk: with any blocks, callers and log size, a crash
\* at any point leaves the disk as it was at the last commit, and nothing is
\* ever committed while a call is half done.
THEOREM Implementation == Spec => ImplementsAtomicDisk
  BY MapInit, MapNext, Invariance, PTL DEF Spec, ImplementsAtomicDisk, Atomic!DiskSpec

=============================================================================
