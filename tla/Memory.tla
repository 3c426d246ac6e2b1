------------------------------- MODULE Memory -------------------------------
(***************************************************************************)
(* User memory of the P4 kernel: the free list of kalloc.c, the page       *)
(* tables of vm.c, and the calls that grow, copy and drop them (sbrk,      *)
(* ssualloc, fork, exec, exit, wait, the page fault).                      *)
(*                                                                         *)
(* Sizes are counted in half pages, so that a size need not be page        *)
(* aligned, modulo WORD = 2^32 bytes.  NPAGES pages lie below KERNBASE;    *)
(* those above are mapped for the kernel.  A frame is a physical page.     *)
(***************************************************************************)
EXTENDS Integers, FiniteSets

CONSTANTS Procs, InitProc,  \* process slots, and the one of userinit()
          NFRAMES,          \* pages kinit1() and kinit2() put on the free list
          NPAGES,           \* user pages: KERNBASE / PGSIZE
          PERTABLE,         \* pages of one page table: NPTENTRIES
          SbrkSizes, SsuSizes, \* arguments of sbrk and ssualloc, in half pages
          ImageSizes,       \* sizes of the programs exec loads, in half pages
          MaxCalls          \* bound of the model: calls in a behaviour

ASSUME MemoryAssumption ==
  /\ InitProc \in Procs
  /\ NFRAMES \in Nat /\ NPAGES \in Nat \ {0} /\ PERTABLE \in Nat \ {0}
  /\ NFRAMES >= 5                  \* userinit() panics with less
  /\ SbrkSizes \subseteq Int /\ SsuSizes \subseteq Nat \ {0}
  /\ ImageSizes \subseteq 0..(4 * NPAGES - 1)      \* a uint
  /\ MaxCalls \in Nat

VARIABLES free,   \* how often each frame is on the free list
          proc,   \* slot -> state, kernel stack, page table and size
          panic,  \* why the kernel stopped, or "no"
          calls   \* calls made so far (bound only)

vars == <<free, proc, panic, calls>>

Frames == 1..NFRAMES
Pages == 0..(NPAGES - 1)
Tables == 0..((NPAGES - 1) \div PERTABLE)
WORD == 4 * NPAGES
WrapNever(n) == n                                            \* no 32-bit arithmetic
Wrap(n) == n % WORD
UpPage(size) == Wrap(size + 1) \div 2                        \* PGROUNDUP
PageCount(size) == (size + 1) \div 2                         \* pages begun below size
Below(size) == 0..(PageCount(size) - 1)

None == [kind |-> "none", frame |-> 0]
Present(pte) == pte.kind \in {"user", "kernel"}     \* PTE_P, with or without PTE_U
NoTable == [dir |-> 0, ktab |-> 0,
            tabs |-> [t \in Tables |-> 0], pte |-> [a \in Pages |-> None]]

(* Memory as the functions of vm.c pass it along: the free list, the page  *)
(* table they work on, whether they succeeded so far, and a panic.         *)
Memory(pt) == [free |-> free, pt |-> pt, ok |-> TRUE, panic |-> "no"]
Fine(m) == m.ok /\ m.panic = "no"
Fail(m) == [m EXCEPT !.ok = FALSE]
Panic(m, why) == [m EXCEPT !.panic = why]

Kalloc(m) == IF \A f \in Frames : m.free[f] = 0 THEN 0
             ELSE CHOOSE f \in Frames :
                    m.free[f] > 0 /\ \A g \in Frames : m.free[g] > 0 => f <= g
Taken(m, f) == [m EXCEPT !.free[f] = @ - 1]
KFree(m, S) ==
  [m EXCEPT !.free = [f \in Frames |-> m.free[f] + IF f \in S THEN 1 ELSE 0]]

SetEntry(m, a, pte) == [m EXCEPT !.pt.pte[a] = pte]
SetTable(m, t, f) == [m EXCEPT !.pt.tabs[t] = f]
SetDir(m, f) == [m EXCEPT !.pt.dir = f]
SetKtab(m, f) == [m EXCEPT !.pt.ktab = f]

(* walkpgdir with alloc = 1: the page table of page a, made if missing. *)
Walk(m, a) ==
  LET t == a \div PERTABLE
      f == Kalloc(m)
  IN IF m.pt.tabs[t] # 0 THEN m
     ELSE IF f = 0 THEN Fail(m)
     ELSE SetTable(Taken(m, f), t, f)

(* mappages for one page. *)
MapPage(m, a, f, kind) ==
  LET w == IF a \in Pages THEN Walk(m, a) ELSE m
  IN IF ~w.ok THEN w
     ELSE IF a \notin Pages \/ Present(w.pt.pte[a]) THEN Panic(w, "remap")
     ELSE SetEntry(w, a, [kind |-> kind, frame |-> f])

(* Mutant: the frame is not freed when it cannot be mapped. *)
NewPageLeaks(m, a, kind) ==
  LET f == Kalloc(m)
  IN IF f = 0 THEN Fail(m) ELSE MapPage(Taken(m, f), a, f, kind)

(* One turn of the loops of allocuvm and copyuvm: a frame, and its mapping. *)
NewPage(m, a, kind) ==
  LET f == Kalloc(m)
      w == MapPage(Taken(m, f), a, f, kind)
  IN IF f = 0 THEN Fail(m) ELSE IF w.ok THEN w ELSE KFree(w, {f})

(* Mutant: rounds the new size down. *)
DeallocuvmDown(m, oldsz, newsz) ==
  LET gone == {a \in Below(oldsz) \cap Pages :
                 a >= newsz \div 2 /\ Present(m.pt.pte[a])}
  IN IF newsz >= oldsz THEN m
     ELSE [KFree(m, {m.pt.pte[a].frame : a \in gone}) EXCEPT
             !.pt.pte = [a \in Pages |-> IF a \in gone THEN None ELSE @[a]]]

(* deallocuvm: what lies from newsz up to oldsz goes back to the free list; *)
(* an entry that is not present, a lazy one too, stays as it is.            *)
Deallocuvm(m, oldsz, newsz) ==
  LET range == {a \in Below(oldsz) : a >= UpPage(newsz)}
      gone  == {a \in range \cap Pages : Present(m.pt.pte[a])}
  IN IF newsz >= oldsz THEN m
     ELSE IF range \subseteq Pages
     THEN [KFree(m, {m.pt.pte[a].frame : a \in gone}) EXCEPT
             !.pt.pte = [a \in Pages |-> IF a \in gone THEN None ELSE m.pt.pte[a]]]
     ELSE Panic(m, "kfree")

(* freevm: the user pages, the tables, the directory. *)
Freevm(m) ==
  LET d == Deallocuvm(m, 2 * NPAGES, 0)
      tables == {d.pt.dir, d.pt.ktab} \cup {d.pt.tabs[t] : t \in Tables}
  IN [KFree(d, tables) EXCEPT !.pt = NoTable]

(* setupkvm: a directory and the tables of the kernel's part. *)
Setupkvm(m) ==
  LET d == Kalloc(m)
      md == SetDir(Taken(m, d), d)
      k == Kalloc(md)
  IN IF d = 0 THEN Fail(m)
     ELSE IF k = 0 THEN Fail(Freevm(md))
     ELSE SetKtab(Taken(md, k), k)

(* The loops of vm.c over the pages from first on that begin below size: a  *)
(* turn for each, up to the first that fails.                              *)
Turns(m, first, size, Turn(_, _)) ==
  LET n == PageCount(size) - first
      Onward(w, a) == IF Fine(w) THEN Turn(w, a) ELSE w
      loop[k \in 0..n] == IF k = 0 THEN m ELSE Onward(loop[k - 1], first + k - 1)
  IN loop[n]

(* allocuvm: all the pages or none, and "not ok" for its result 0. *)
Allocuvm(m, oldsz, newsz) ==
  LET grown == Turns(m, UpPage(oldsz), newsz, LAMBDA w, a : NewPage(w, a, "user"))
  IN IF newsz >= 2 * NPAGES THEN Fail(m)
     ELSE IF newsz < oldsz THEN m
     ELSE IF grown.ok THEN grown
     ELSE Deallocuvm(grown, newsz, oldsz)

(* copyuvm: a page table with a copy of every page of pt below size. *)
CopyPage(w, pt, a) ==
  IF a \in Pages /\ pt.tabs[a \div PERTABLE] = 0
  THEN Panic(w, "copy_no_pte")
  ELSE IF a \in Pages /\ ~Present(pt.pte[a])
  THEN Panic(w, "copy_not_present")
  ELSE NewPage(w, a, IF a \in Pages THEN pt.pte[a].kind ELSE "kernel")
Copyuvm(m, pt, size) ==
  LET made == Turns(Setupkvm(m), 0, size, LAMBDA w, a : CopyPage(w, pt, a))
  IN IF made.ok \/ made.pt = NoTable THEN made ELSE Freevm(made)

(* vm_ssualloc: entries without a frame; a failure keeps those it made. *)
LazyPage(w, a) ==
  LET v == Walk(w, a)
  IN IF ~v.ok THEN v
     ELSE IF v.pt.pte[a] # None THEN Panic(v, "lazy_remap")
     ELSE SetEntry(v, a, [kind |-> "lazy", frame |-> 0])
Ssuvalloc(m, oldsz, newsz) ==
  IF newsz >= 2 * NPAGES \/ newsz < oldsz THEN Fail(m)
  ELSE Turns(m, UpPage(oldsz), newsz, LazyPage)

-----------------------------------------------------------------------------
Unused == [state |-> "unused", kstack |-> 0, pt |-> NoTable, sz |-> 0]

(* userinit(): a kernel stack, a page table and one page. *)
Init ==
  LET stack == [free |-> [f \in Frames |-> IF f = 1 THEN 0 ELSE 1],
                pt |-> NoTable, ok |-> TRUE, panic |-> "no"]
      m == NewPage(Setupkvm(stack), 0, "user")
  IN /\ free = m.free
     /\ proc = [p \in Procs |-> IF p = InitProc
                  THEN [state |-> "used", kstack |-> 1, pt |-> m.pt, sz |-> 2]
                  ELSE Unused]
     /\ panic = "no"
     /\ calls = 0

Call(p) == panic = "no" /\ proc[p].state = "used" /\ calls < MaxCalls
           /\ calls' = calls + 1

(* What a call did to the memory of p; a panic stops the kernel. *)
Result(p, m, sz) ==
  /\ free' = m.free
  /\ proc' = [proc EXCEPT ![p].pt = m.pt, ![p].sz = sz]
  /\ panic' = m.panic

(* growproc() keeps the size when allocuvm or deallocuvm returns 0, though *)
(* deallocuvm then has freed every page.                                   *)
Sbrk(p, n) ==
  LET old == proc[p].sz
      new == Wrap(old + n)
      m   == IF n > 0 THEN Allocuvm(Memory(proc[p].pt), old, new)
                      ELSE Deallocuvm(Memory(proc[p].pt), old, new)
      ret == IF n > 0 THEN IF new < old THEN old ELSE new
                      ELSE IF new >= old THEN old ELSE new
  IN /\ Call(p)
     /\ Result(p, [m EXCEPT !.ok = TRUE],
               IF m.ok /\ ret # 0 THEN ret ELSE old)

(* The failure -1 of vm_ssualloc is stored in an unsigned and never < 0:   *)
(* it becomes the size.                                                    *)
SsuallocSize(m, new) == IF m.ok THEN new ELSE WORD - 1
Ssualloc(p, n) ==
  LET old == proc[p].sz
      m   == Ssuvalloc(Memory(proc[p].pt), old, Wrap(old + n))
  IN /\ Call(p)
     /\ n % 2 = 0
     /\ Result(p, m, SsuallocSize(m, Wrap(old + n)))

(* ssu_palloc(): the page fault of page a takes a frame and maps it there. *)
PageFault(m, a) ==
  LET f == Kalloc(m)
      w == Taken(m, f)
  IN IF f = 0 THEN Panic(m, "fault_no_memory")
     ELSE IF a \in Pages /\ m.pt.tabs[a \div PERTABLE] = 0 THEN Panic(w, "fault_no_pte")
     ELSE IF a \notin Pages \/ Present(m.pt.pte[a]) THEN Panic(w, "fault_remap")
     ELSE SetEntry(w, a, [kind |-> IF m.pt.pte[a].kind = "lazy" THEN "user" ELSE "kernel",
                          frame |-> f])

(* The program touches page a and the hardware finds no user mapping. *)
Access(p, a) ==
  /\ Call(p)
  /\ a \in Pages => proc[p].pt.pte[a].kind # "user"
  /\ Result(p, PageFault(Memory(proc[p].pt), a), proc[p].sz)

(* fork(): the stack of allocproc(), then copyuvm(), whose failure gives   *)
(* the stack back.                                                         *)
Fork(p, c) ==
  LET s == Kalloc(Memory(NoTable))
      m == Copyuvm(Taken(Memory(NoTable), s), proc[p].pt, proc[p].sz)
  IN /\ Call(p)
     /\ proc[c].state = "unused"
     /\ s # 0
     /\ IF m.ok
        THEN /\ free' = m.free
             /\ proc' = [proc EXCEPT ![c] = [state |-> "used", kstack |-> s,
                                             pt |-> m.pt, sz |-> proc[p].sz]]
        ELSE /\ free' = KFree(m, {s}).free
             /\ UNCHANGED proc
     /\ panic' = m.panic

(* exec(): a new page table with the image and two pages, the lower one    *)
(* out of reach; the old one is freed only when nothing failed.  A fault is  *)
(* found in the image, before or after its pages are there, or by copyout()  *)
(* in the arguments, when the stack is there too: the new table is freed     *)
(* with what it has by then.                                                 *)
Faults == {"none", "image", "args"}
Exec(p, image, fault) ==
  LET top   == 2 * UpPage(image) + 4
      guard == UpPage(image)
      m1 == Setupkvm(Memory(NoTable))
      m2 == IF m1.ok THEN Allocuvm(m1, 0, image) ELSE m1
      m3 == IF m2.ok THEN Allocuvm(m2, 2 * UpPage(image), top) ELSE m2
      m  == IF fault = "image" THEN m2 ELSE m3
      old == Freevm([m3 EXCEPT !.pt = proc[p].pt])
  IN /\ Call(p)
     /\ IF fault # "none" \/ ~m.ok
        THEN /\ free' = IF m1.ok THEN Freevm(m).free ELSE m.free
             /\ UNCHANGED proc
             /\ panic' = m.panic
        ELSE Result(p, [old EXCEPT !.pt = [m3.pt EXCEPT !.pte[guard].kind = "kernel"]],
                    top)

Exit(p) ==
  /\ Call(p)
  /\ p # InitProc
  /\ proc' = [proc EXCEPT ![p].state = "zombie"]
  /\ UNCHANGED <<free, panic>>

(* wait() by the parent, or by init for an orphan. *)
Reap(p) ==
  LET m == KFree(Freevm(Memory(proc[p].pt)), {proc[p].kstack})
  IN /\ panic = "no"
     /\ proc[p].state = "zombie"
     /\ free' = m.free
     /\ proc' = [proc EXCEPT ![p] = Unused]
     /\ UNCHANGED <<panic, calls>>

Next ==
  \E p \in Procs :
    \/ \E n \in SbrkSizes : Sbrk(p, n)
    \/ \E n \in SsuSizes : Ssualloc(p, n)
    \/ \E a \in 0..NPAGES : Access(p, a)
    \/ \E c \in Procs : Fork(p, c)
    \/ \E image \in ImageSizes, fault \in Faults : Exec(p, image, fault)
    \/ Exit(p)
    \/ Reap(p)

Spec == Init /\ [][Next]_vars

-----------------------------------------------------------------------------
(* The shape of the state. *)
TypeOK ==
  /\ free \in [Frames -> 0..1]
  /\ \A p \in Procs :
       /\ proc[p].state \in {"unused", "used", "zombie"}
       /\ proc[p].sz \in 0..(WORD - 1)
       /\ proc[p].kstack \in 0..NFRAMES
       /\ \A a \in Pages : Present(proc[p].pt.pte[a]) <=> proc[p].pt.pte[a].frame # 0
       /\ \A a \in Pages : proc[p].pt.pte[a] # None
                             => proc[p].pt.tabs[a \div PERTABLE] # 0
  /\ calls \in 0..MaxCalls

(* The places of a page table that hold a frame, and the frame there. *)
Spots == {<<"dir", 0>>, <<"ktab", 0>>} \cup ({"tab"} \X Tables) \cup ({"page"} \X Pages)
FrameAt(pt, x) == CASE x[1] = "dir"  -> pt.dir
                    [] x[1] = "ktab" -> pt.ktab
                    [] x[1] = "tab"  -> pt.tabs[x[2]]
                    [] x[1] = "page" -> pt.pte[x[2]].frame

(* The stacks and the places in page tables that hold frame f. *)
Holders(f) ==
  {<<p, <<"stack", 0>>>> : p \in {q \in Procs : proc[q].kstack = f}}
  \cup {h \in Procs \X Spots : FrameAt(proc[h[1]].pt, h[2]) = f}

(* kalloc.c and the failure paths of vm.c, fork() and exec(): whatever     *)
(* fails half way, a frame is on the free list once or held in one place   *)
(* of one process, so none is lost, freed twice or shared.                 *)
FramesOnce ==
  panic = "no" => \A f \in Frames : free[f] + Cardinality(Holders(f)) = 1

(* sbrk, ssualloc, fork and exec: every page below a process's size has an *)
(* entry with a frame or a lazy one.  It is lost only by the two size bugs *)
(* of the kernel: a failed ssualloc makes the size 2^32 - 1, and sbrk down *)
(* to zero frees page 0 with the rest and keeps the size.                  *)
SizeBacked ==
  \A p \in Procs :
    (panic = "no" /\ proc[p].state = "used" /\ proc[p].sz # WORD - 1
       /\ proc[p].pt.pte[0].kind = "user")
    => Below(proc[p].sz) \subseteq {a \in Pages : proc[p].pt.pte[a] # None}

(* P4_MAFS/trap.c:92, "In user space, assume process misbehaved", and      *)
(* usertests.c: a program that touches memory it has no right to is killed *)
(* and the kernel goes on.                                                 *)
StrayIsKilled == panic \notin {"fault_no_pte", "fault_remap"}
=============================================================================
