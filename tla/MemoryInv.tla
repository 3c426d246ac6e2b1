----------------------------- MODULE MemoryInv ------------------------------
(***************************************************************************)
(* The inductive invariant of Memory.  What the functions of vm.c promise  *)
(* is said of the record they pass along and of the frames that somebody   *)
(* else holds meanwhile.                                                   *)
(***************************************************************************)
EXTENDS Memory

Entry == [kind : {"none", "lazy", "user", "kernel"}, frame : 0..NFRAMES]
PageTable == [dir : 0..NFRAMES, ktab : 0..NFRAMES,
              tabs : [Tables -> 0..NFRAMES], pte : [Pages -> Entry]]
Panics == {"no", "kfree", "remap", "copy_no_pte", "copy_not_present",
           "lazy_remap", "fault_no_memory", "fault_no_pte", "fault_remap"}
Record == [free : [Frames -> Int], pt : PageTable, ok : BOOLEAN, panic : Panics]
Slot == [state : {"unused", "used", "zombie"}, kstack : 0..NFRAMES,
         pt : PageTable, sz : 0..(WORD - 1)]

\* Present entries have a frame, and an entry is in a page table that is there.
Tidy(pt) == \A a \in Pages :
  /\ Present(pt.pte[a]) <=> pt.pte[a].frame # 0
  /\ pt.pte[a] # None => pt.tabs[a \div PERTABLE] # 0

\* No frame is in two places, or in one and free, or nowhere; H are the frames
\* that are held elsewhere.
Sound(m, H) ==
  /\ m \in Record /\ m.free \in [Frames -> 0..1]
  /\ H \subseteq Frames /\ \A f \in H : m.free[f] = 0
  /\ Tidy(m.pt)
  /\ \A x \in Spots : FrameAt(m.pt, x) # 0 =>
       /\ m.free[FrameAt(m.pt, x)] = 0 /\ FrameAt(m.pt, x) \notin H
       /\ \A y \in Spots : FrameAt(m.pt, y) = FrameAt(m.pt, x) => y = x
  /\ \A f \in Frames : m.free[f] = 1 \/ f \in H \/ \E x \in Spots : FrameAt(m.pt, x) = f

-----------------------------------------------------------------------------
(* The state *)

Holds(q, f) == q.kstack = f \/ \E x \in Spots : FrameAt(q.pt, x) = f
Others(p) == {f \in Frames : \E q \in Procs \ {p} : Holds(proc[q], f)}

\* What p's page table, its stack and everybody else hold are three things.
Apart(p) ==
  /\ Sound(Memory(proc[p].pt), Others(p) \cup ({proc[p].kstack} \ {0}))
  /\ proc[p].kstack \notin Others(p)

\* A size is positive and in user space, or what a failed ssualloc leaves;
\* page 0 is there from the start and never lazy.
Sized(q) ==
  /\ q.sz \in 1..(2 * NPAGES) \cup {WORD - 1}
  /\ q.pt.pte[0].kind # "lazy"

Shape ==
  /\ proc \in [Procs -> Slot] /\ free \in [Frames -> 0..1]
  /\ \A p \in Procs : Tidy(proc[p].pt) /\ (proc[p].state = "unused" => proc[p] = Unused)
  /\ panic \in Panics /\ calls \in 0..MaxCalls

MInv ==
  /\ Shape /\ SizeBacked
  /\ panic = "no" => \A p \in Procs :
       Apart(p) /\ (proc[p].state # "unused" => Sized(proc[p]))

=============================================================================
