------------------------------- MODULE Memory -------------------------------
(***************************************************************************)
(* Physical pages, page tables and the memory of processes in the xv6      *)
(* kernel (kernel/kalloc.c, vm.c, exec.c and what proc.c and sysproc.c do  *)
(* with them).                                                             *)
(*                                                                         *)
(* Every page-table page, user page, trapframe and exec() argument is a    *)
(* page of its own, so that each allocation of each operation fails in     *)
(* some state.  Page tables have three levels of FAN entries.  A process   *)
(* changes only its own page table, and kalloc() and kfree() are atomic    *)
(* under kmem.lock, so an operation is one step: what other harts allocate *)
(* meanwhile only changes how many pages there are, as Grab does.          *)
(*                                                                         *)
(* Operations compute with a record m: the free pages, one page table, and *)
(* whether an allocation failed (ok) or the kernel panicked.               *)
(***************************************************************************)
EXTENDS Integers, Sequences, FiniteSets

CONSTANTS
    Proc,           \* slots of the process table
    NPAGE,          \* pages between end and PHYSTOP
    FAN,            \* entries of a page-table page
    PGSIZE,         \* bytes of a page
    USERSTACK,      \* pages of a user stack
    Programs,       \* what exec() loads: sequences of segments [end, w]
    Growth,         \* arguments of sbrk()
    MaxArgs,        \* most arguments of exec()
    MaxGrab         \* pages that others (pipes) may hold

\* Four pages are what the first process needs.
ASSUME MemoryAssumption ==
    /\ NPAGE \in Nat /\ NPAGE >= 4 /\ FAN \in Nat \ {0, 1} /\ PGSIZE \in Nat \ {0}
    /\ USERSTACK \in Nat \ {0} /\ MaxArgs \in Nat /\ MaxGrab \in Nat
    /\ Growth \subseteq Int /\ Proc # {}
    /\ Programs \subseteq Seq([end : Nat, w : BOOLEAN])

Page == 1 .. NPAGE
MAXVA == FAN * FAN * FAN                \* in pages
VA == 0 .. MAXVA - 1
TRAMPOLINE == MAXVA - 1
TRAPFRAME  == MAXVA - 2
Nodes == ({1} \X (0 .. FAN - 1)) \cup ({0} \X (0 .. FAN * FAN - 1))

\* Pages that n bytes take.
PGROUNDUP(n) == (n + PGSIZE - 1) \div PGSIZE

\* Programs fit below the trapframe, with their stacks: exec() does not check it, but
\* uvmalloc() takes a page for each page of the image before it maps it, and a machine has
\* far fewer pages than the address space.
Roomy(sz) == sz \in Nat /\ PGROUNDUP(sz) + USERSTACK + 1 <= TRAPFRAME
ASSUME ImagesFit ==
    Roomy(0) /\ \A prog \in Programs : \A i \in 1 .. Len(prog) : Roomy(prog[i].end)

VARIABLES
    free,           \* kmem.freelist
    proc,           \* sz, trapframe and pagetable of each process
    grabbed,        \* pages others have allocated
    panicked

mem_vars == <<free, proc, grabbed, panicked>>

NoLeaf  == [pa |-> 0, v |-> FALSE, u |-> FALSE, w |-> FALSE]
NoTable == [root |-> 0, node |-> [n \in Nodes |-> 0], leaf |-> [a \in VA |-> NoLeaf]]
Unused  == [sz |-> 0, tf |-> 0, pt |-> NoTable]

Leaf  == [pa : 0 .. NPAGE, v : BOOLEAN, u : BOOLEAN, w : BOOLEAN]
Table == [root : 0 .. NPAGE, node : [Nodes -> 0 .. NPAGE], leaf : [VA -> Leaf]]

MemTypeOK ==
    /\ free \subseteq Page /\ grabbed \subseteq Page
    /\ \A p \in Proc : /\ proc[p].sz \in 0 .. TRAPFRAME * PGSIZE
                       /\ proc[p].tf \in 0 .. NPAGE
                       /\ proc[p].pt \in Table
    /\ panicked \in BOOLEAN

----------------------------------------------------------------------------
(* kalloc.c: the free list; which free page kalloc() gives does not matter *)

Mem(fr, pt) == [free |-> fr, pt |-> pt, got |-> 0, ok |-> TRUE, panic |-> FALSE]
With(pt) == Mem(free, pt)

Kalloc(m) ==
    IF m.free = {} THEN [m EXCEPT !.ok = FALSE]
    ELSE LET pa == CHOOSE b \in m.free : \A c \in m.free : b <= c
         IN [m EXCEPT !.free = @ \ {pa}, !.got = pa]

Kfree(m, pages) == [m EXCEPT !.free = @ \cup pages]

----------------------------------------------------------------------------
(* vm.c: page tables                                                       *)

\* One level of walk() with alloc: the page-table page that holds the entry.
Attach(k, n) == IF k.ok THEN [k EXCEPT !.pt.node[n] = k.got] ELSE k
Level(m, n) == IF ~m.ok \/ m.pt.node[n] # 0 THEN m ELSE Attach(Kalloc(m), n)

Walk(m, a) == Level(Level(m, <<1, a \div (FAN * FAN)>>), <<0, a \div FAN>>)

\* mappages() of one page.
SetLeaf(k, a, leaf) ==
    IF ~k.ok THEN k ELSE [k EXCEPT !.pt.leaf[a] = leaf, !.panic = @ \/ k.pt.leaf[a].v]
Mappages(m, a, pa, u, w) == SetLeaf(Walk(m, a), a, [pa |-> pa, v |-> TRUE, u |-> u, w |-> w])

\* Mutant of OrKfree: the page is lost.
OrKfreeLeaks(r, pa) == r

\* A new page of user memory at a, given back if it cannot be mapped.
OrKfree(r, pa) == IF r.ok THEN r ELSE Kfree(r, {pa})
MapNew(k, a, u, w) == IF k.ok THEN OrKfree(Mappages(k, a, k.got, u, w), k.got) ELSE k
UserPage(m, a, u, w) == IF m.ok THEN MapNew(Kalloc(m), a, u, w) ELSE m

Mapped(m, as) == {a \in as : m.pt.leaf[a].v}

Uvmunmap(m, as, do_free) ==
    LET r == IF do_free THEN Kfree(m, {m.pt.leaf[a].pa : a \in Mapped(m, as)}) ELSE m
    IN [r EXCEPT !.pt.leaf = [a \in VA |-> IF a \in as THEN NoLeaf ELSE m.pt.leaf[a]]]

\* uvmdealloc() to newsz < oldsz.
Uvmdealloc(m, oldsz, newsz) ==
    Uvmunmap(m, PGROUNDUP(newsz) .. PGROUNDUP(oldsz) - 1, TRUE)

\* uvmalloc(): sz is the new size, 0 if there is no memory for it.
Grown(r, oldsz, newsz) ==
    IF r.ok THEN [m |-> r, sz |-> newsz]
    ELSE [m |-> [Uvmdealloc(r, newsz, oldsz) EXCEPT !.ok = TRUE], sz |-> 0]
Growing(m, first, n, w) ==
    LET grow[k \in 0 .. n] ==
            IF k = 0 THEN m ELSE UserPage(grow[k - 1], first + k - 1, TRUE, w)
    IN grow
Uvmalloc(m, oldsz, newsz, w) ==
    LET first == PGROUNDUP(oldsz)
        n == PGROUNDUP(newsz) - first
    IN IF newsz < oldsz THEN [m |-> m, sz |-> oldsz]
       ELSE Grown(Growing(m, first, n, w)[n], oldsz, newsz)

\* freewalk() wants all leaves gone.
Freewalk(m) ==
    LET pages == {m.pt.node[n] : n \in Nodes} \cup {m.pt.root} IN
    [Kfree(m, pages \ {0}) EXCEPT !.pt = NoTable, !.panic = @ \/ Mapped(m, VA) # {}]

Uvmfree(m, sz) == Freewalk(Uvmunmap(m, 0 .. PGROUNDUP(sz) - 1, TRUE))

\* Mutant of UserPages: a page that is not full is left out.
UserPagesShort(sz) == sz \div PGSIZE

\* The loops over user memory go up to sz, so the last page need not be full.
UserPages(sz) == PGROUNDUP(sz)

\* uvmcopy(): the pages that exist, with their permissions.
OrUnmap(c, as) == IF c.ok THEN c ELSE Uvmunmap(c, as, TRUE)
CopyLeaf(c, a, l) == IF l.v THEN UserPage(c, a, l.u, l.w) ELSE c
Copying(old, m, n) ==
    LET copy[k \in 0 .. n] ==
            IF k = 0 THEN m ELSE CopyLeaf(copy[k - 1], k - 1, old.leaf[k - 1])
    IN copy
Uvmcopy(old, m, sz) ==
    LET n == UserPages(sz) IN OrUnmap(Copying(old, m, n)[n], 0 .. n - 1)

\* uvmclear() of the stack's guard page.
Uvmclear(m, a) ==
    IF m.pt.node[<<0, a \div FAN>>] = 0 THEN [m EXCEPT !.panic = TRUE]
    ELSE [m EXCEPT !.pt.leaf[a].u = FALSE]

\* vmfault(): the page at a is mapped; ok is FALSE if it returns 0.
Vmfault(m, a, sz) ==
    IF a * PGSIZE >= sz \/ m.pt.leaf[a].v THEN [m EXCEPT !.ok = FALSE]
    ELSE UserPage(m, a, TRUE, TRUE)

----------------------------------------------------------------------------
(* proc.c: the page table of a process                                     *)

\* proc_pagetable(), from an empty table: the root, the trampoline and the trapframe.
Root(k) == IF k.ok THEN [k EXCEPT !.pt.root = k.got] ELSE k
OrUvmfree(t) == IF t.ok THEN t ELSE Uvmfree(Uvmunmap(t, {TRAMPOLINE}, FALSE), 0)
AddPage(m, a, pa, w) == IF m.ok THEN OrUvmfree(Mappages(m, a, pa, FALSE, w)) ELSE m
ProcPagetable(m, tf) ==
    AddPage(AddPage(Root(Kalloc(m)), TRAMPOLINE, 0, FALSE), TRAPFRAME, tf, TRUE)

\* Mutant of ProcFreepagetable: the trapframe stays mapped.
ProcFreepagetableHalf(m, sz) == Uvmfree(Uvmunmap(m, {TRAMPOLINE}, FALSE), sz)

ProcFreepagetable(m, sz) == Uvmfree(Uvmunmap(m, {TRAMPOLINE, TRAPFRAME}, FALSE), sz)

\* The state that an operation leaves for p.
Commit(p, m, sz) ==
    /\ free' = m.free
    /\ proc' = [proc EXCEPT ![p].pt = m.pt, ![p].sz = sz]
    /\ panicked' = m.panic
    /\ UNCHANGED grabbed

Running(p) == ~panicked /\ proc[p].tf # 0

\* sys_sbrk() that allocates or frees: growproc().
Grow(p, r) == Commit(p, r.m, IF r.sz = 0 THEN proc[p].sz ELSE r.sz)
Sbrk(p, n) ==
    LET sz == proc[p].sz
        m == With(proc[p].pt)
    IN
    /\ Running(p)
    /\ \/ /\ n > 0 /\ sz + n <= TRAPFRAME * PGSIZE
          /\ Grow(p, Uvmalloc(m, sz, sz + n, TRUE))
       \/ /\ n < 0 /\ sz + n >= 0       \* else sz + n wraps around and nothing is freed
          /\ Commit(p, Uvmdealloc(m, sz, sz + n), sz + n)

\* sys_sbrk() with SBRK_LAZY.
SbrkLazy(p, n) ==
    /\ Running(p)
    /\ n > 0 /\ proc[p].sz + n <= TRAPFRAME * PGSIZE
    /\ proc' = [proc EXCEPT ![p].sz = @ + n]
    /\ UNCHANGED <<free, grabbed, panicked>>

\* A page fault of the user program: usertrap() lets vmfault() map the page or kills p.
PageFault(p, a) ==
    LET m == With(proc[p].pt) IN
    /\ Running(p)
    /\ ~proc[p].pt.leaf[a].v
    /\ Commit(p, Vmfault(m, a, proc[p].sz), proc[p].sz)

\* copyout(), copyin() and copyinstr() of the pages first .. last: each maps what it finds
\* missing (copyinstr() does not) and stops where it may not read or write.
Touch(m, a, sz) == IF m.pt.leaf[a].v /\ m.pt.leaf[a].u THEN m ELSE Vmfault(m, a, sz)
CopyPage(m, kind, a, sz) ==
    CASE kind = "str" -> [m EXCEPT !.ok = @ /\ m.pt.leaf[a].v /\ m.pt.leaf[a].u]
      [] kind = "in"  -> Touch(m, a, sz)
      [] kind = "out" -> [Touch(m, a, sz) EXCEPT !.ok = @ /\ (m.pt.leaf[a].v => m.pt.leaf[a].w)]
Passed(m, kind, a, sz) == IF m.ok THEN CopyPage(m, kind, a, sz) ELSE m
Passing(m, kind, first, n, sz) ==
    LET pass[k \in 0 .. n] ==
            IF k = 0 THEN m ELSE Passed(pass[k - 1], kind, first + k - 1, sz)
    IN pass
Copy(p, kind, first, last) ==
    LET n == last - first + 1
        sz == proc[p].sz
    IN
    /\ Running(p)
    /\ Commit(p, Passing(With(proc[p].pt), kind, first, n, sz)[n], sz)

\* kfork(): allocproc() and uvmcopy(), freeproc() when one of them fails.
OrFreeproc(c, tf) ==
    IF c.ok THEN [c EXCEPT !.got = tf] ELSE ProcFreepagetable(Kfree(c, {tf}), 0)
CopyMemory(t, p, tf) ==
    IF t.ok THEN OrFreeproc(Uvmcopy(proc[p].pt, t, proc[p].sz), tf) ELSE Kfree(t, {tf})
NewProcess(k, p) == IF k.ok THEN CopyMemory(ProcPagetable(k, k.got), p, k.got) ELSE k
Forked(p, np, m) ==
    /\ free' = m.free
    /\ proc' = IF m.ok THEN [proc EXCEPT ![np] = [sz |-> proc[p].sz, tf |-> m.got, pt |-> m.pt]]
                       ELSE proc
    /\ panicked' = m.panic
    /\ UNCHANGED grabbed
Fork(p, np) ==
    /\ Running(p) /\ proc[np].tf = 0
    /\ Forked(p, np, NewProcess(Kalloc(With(NoTable)), p))

\* freeproc() of a child that has exited; init does not.
initproc == CHOOSE p \in Proc : TRUE
Freeproc(p) ==
    LET m == ProcFreepagetable(Kfree(With(proc[p].pt), {proc[p].tf}), proc[p].sz) IN
    /\ Running(p) /\ p # initproc
    /\ free' = m.free
    /\ proc' = [proc EXCEPT ![p] = Unused]
    /\ panicked' = m.panic
    /\ UNCHANGED grabbed

----------------------------------------------------------------------------
(* exec.c                                                                  *)

\* A segment: sz stays the last size that uvmalloc() gave.
LoadedSegment(sz, r) == [m |-> r.m, sz |-> IF r.sz = 0 THEN sz ELSE r.sz, ok |-> r.sz # 0]
Segment(s, seg) == IF s.ok THEN LoadedSegment(s.sz, Uvmalloc(s.m, s.sz, seg.end, seg.w)) ELSE s

\* loadseg() reads the segment from the file into its pages.
Loadseg(fails) == fails # "read"

\* The program; the file may not be readable, in the last segment.
Loading(m, prog) ==
    LET load[k \in 0 .. Len(prog)] ==
            IF k = 0 THEN [m |-> m, sz |-> 0, ok |-> m.ok]
            ELSE Segment(load[k - 1], prog[k])
    IN load
LoadSegments(m, prog, fails) == [Loading(m, prog)[Len(prog)] EXCEPT !.ok = @ /\ Loadseg(fails)]

\* The stack above the guard page; the arguments may not fit on it.
Stacked(base, r, fails) ==
    IF r.sz = 0 THEN [m |-> r.m, sz |-> base, ok |-> FALSE]
    ELSE [m |-> Uvmclear(r.m, PGROUNDUP(base)), sz |-> r.sz, ok |-> fails # "args"]
Stack(s, fails) ==
    LET base == PGROUNDUP(s.sz) * PGSIZE IN
    IF s.ok THEN Stacked(base, Uvmalloc(s.m, base, base + (USERSTACK + 1) * PGSIZE, TRUE), fails)
            ELSE s

\* kexec(): the new image takes the old one's place, or is freed.
Committed(p, s, args) ==
    LET old == ProcFreepagetable(Mem(s.m.free \cup args, proc[p].pt), proc[p].sz)
        new == ProcFreepagetable(s.m, s.sz)
    IN \/ /\ s.ok
          /\ Commit(p, [s.m EXCEPT !.free = old.free, !.panic = @ \/ old.panic], s.sz)
       \/ /\ ~s.ok /\ s.m.ok
          /\ Commit(p, [new EXCEPT !.free = @ \cup args, !.pt = proc[p].pt], proc[p].sz)
       \/ /\ ~s.m.ok            \* no page table, so nothing but the arguments to free
          /\ Commit(p, [s.m EXCEPT !.free = @ \cup args, !.pt = proc[p].pt], proc[p].sz)

\* A page table, the program and the stack, all of the new image.
Kexec(p, args, prog, fails) ==
    LET t == ProcPagetable(Mem(free \ args, NoTable), proc[p].tf) IN
    Committed(p, Stack(LoadSegments(t, prog, fails), fails), args)

\* sys_exec(): a page for each of the arguments, kexec(), and the pages given back.  What
\* fails before there is a page table (no file, no program, no page) leaves no trace.
Exec(p, nargs, prog, fails) ==
    LET args == {b \in free : Cardinality({c \in free : c < b}) < nargs} IN
    /\ Running(p)
    /\ Cardinality(args) = nargs
    /\ Kexec(p, args, prog, fails)

----------------------------------------------------------------------------
(* The system                                                              *)

\* kalloc() and kfree() for pipes.
Grab ==
    LET k == Kalloc(With(NoTable)) IN
    /\ ~panicked
    /\ k.ok /\ Cardinality(grabbed) < MaxGrab
    /\ free' = k.free
    /\ grabbed' = grabbed \cup {k.got}
    /\ UNCHANGED <<proc, panicked>>

Give(pa) ==
    /\ ~panicked
    /\ free' = free \cup {pa}
    /\ grabbed' = grabbed \ {pa}
    /\ UNCHANGED <<proc, panicked>>

\* kinit() and the first process of userinit().
MemInit ==
    LET k == Kalloc(Mem(Page, NoTable))
        t == ProcPagetable(k, k.got)
    IN
    /\ free = t.free
    /\ proc = [p \in Proc |-> IF p = initproc THEN [sz |-> 0, tf |-> k.got, pt |-> t.pt] ELSE Unused]
    /\ grabbed = {}
    /\ panicked = FALSE

MemNext ==
    \/ \E p \in Proc :
        \/ \E n \in Growth : Sbrk(p, n) \/ SbrkLazy(p, n)
        \/ \E a \in 0 .. TRAPFRAME - 1 : PageFault(p, a)
        \/ \E kind \in {"out", "in", "str"}, a \in 0 .. TRAPFRAME - 2 : Copy(p, kind, a, a + 1)
        \/ \E np \in Proc : Fork(p, np)
        \/ Freeproc(p)
        \/ \E n \in 0 .. MaxArgs, prog \in Programs, fails \in {"no", "read", "args"} :
              Exec(p, n, prog, fails)
    \/ Grab \/ \E pa \in grabbed : Give(pa)

MemSpec == MemInit /\ [][MemNext]_mem_vars

----------------------------------------------------------------------------
(* Properties                                                              *)

UserVA == 0 .. TRAPFRAME - 1

\* Where a process can have a page, and the page it has there, 0 if none.
Cell == {<<"tf", 0>>, <<"root", 0>>} \cup ({"node"} \X Nodes) \cup ({"leaf"} \X UserVA)
PageIn(p, c) ==
    CASE c[1] = "tf"   -> proc[p].tf
      [] c[1] = "root" -> proc[p].pt.root
      [] c[1] = "node" -> proc[p].pt.node[c[2]]
      [] c[1] = "leaf" -> proc[p].pt.leaf[c[2]].pa

\* Every page is in one place: on the free list, or with others, or one page-table page,
\* one user page or the trapframe of one process.  Whatever allocation of fork(), exec(),
\* sbrk() or a page fault fails, its error path gives every page back, once.
PagesExact ==
    /\ MemTypeOK
    /\ \A p \in Proc : \A a \in UserVA :
        proc[p].pt.leaf[a].v <=> proc[p].pt.leaf[a].pa # 0
    /\ \A b \in Page :
        LET holders == {x \in Proc \X Cell : PageIn(x[1], x[2]) = b} IN
        \/ b \in free /\ b \notin grabbed /\ holders = {}
        \/ b \notin free /\ b \in grabbed /\ holders = {}
        \/ b \notin free /\ b \notin grabbed /\ \E x \in holders : holders = {x}

\* A process has user pages only below its size, and besides them just the trampoline and
\* its own trapframe, out of the user's reach: what proc_freepagetable() will look for is
\* all there is, after lazy growth, shrinking, faults, fork() and exec() in any order.
MappedBelowSize ==
    \A p \in Proc : proc[p].tf # 0 =>
        LET pt == proc[p].pt IN
        /\ \A a \in VA : pt.leaf[a].v => a < PGROUNDUP(proc[p].sz) \/ a \in {TRAMPOLINE, TRAPFRAME}
        /\ pt.leaf[TRAMPOLINE].v /\ ~pt.leaf[TRAMPOLINE].u
        /\ pt.leaf[TRAPFRAME].pa = proc[p].tf /\ ~pt.leaf[TRAPFRAME].u

\* The kernel meets none of its panics: mappages() never remaps, freewalk() never finds a
\* leaf and uvmclear() always finds the guard page; nor will the process's exit.
NoPanic == ~panicked /\ MappedBelowSize

\* A new process has its parent's size and a copy of just the pages the parent has, with
\* their permissions; pages sbrk() has promised and nobody has touched stay promised.
ForkCopies ==
    [][\A np \in Proc : proc[np].tf = 0 /\ proc'[np].tf # 0 =>
          \E p \in Proc \ {np} :
              /\ proc'[np].sz = proc[p].sz
              /\ \A a \in UserVA : [proc'[np].pt.leaf[a] EXCEPT !.pa = 0] =
                                   [proc[p].pt.leaf[a] EXCEPT !.pa = 0]]_mem_vars
=============================================================================
