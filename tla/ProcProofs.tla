----------------------------- MODULE ProcProofs -----------------------------
(***************************************************************************)
(* Proofs about module Proc, for any number of slots, harts and pids: type *)
(* correctness, and that the wait_lock discipline of kfork, kexit and      *)
(* kwait loses no wakeup, orphans no process and frees no kernel stack in  *)
(* use.                                                                    *)
(***************************************************************************)
EXTENDS Proc, TLAPS

Alive == {"SLEEPING", "RUNNABLE", "RUNNING"}

ForkTailPCs == {"f_copy", "f_parent", "f_run"}

\* wait_lock is held exactly between its acquire and its release.
WaitLockInv == \A p \in Slots : waitlock = p <=> pc[p] \in WaitLockPCs

\* Control point and p->state agree.
PCInv ==
    /\ \A p \in Slots :
        /\ state[p] \in {"UNUSED", "USED"} => pc[p] \in {"user", "gone"}
        /\ state[p] = "ZOMBIE" => pc[p] = "gone"
        /\ state[p] \in Alive => pc[p] # "gone"
        /\ state[p] = "SLEEPING" => pc[p] = "w_enter" /\ chan[p] = p
        /\ pc[p] \in WaitLockPCs \cup {"f_copy"} =>
               state[p] = "RUNNING" /\ p \in onCpu /\ plock[p] # p
        /\ pc[p] \in {"f_alloc", "k_scan", "x_reparent", "x_wakeinit", "w_scan"} =>
               idx[p] \in Slots
        /\ pc[p] \in {"x_wakeinit", "x_wakeparent"} => widx[p] \in Slots
    /\ pc[initproc] \notin ExitPCs
    /\ state[initproc] \in Alive

\* Who keeps a p->lock: the process itself around a context switch, or a
\* parent that is still in allocproc() and the copy.
PLockInv ==
    \A i \in Slots :
        /\ i \in onCpu => plock[i] \in {NULL, i}
        /\ i \in onCpu => state[i] \in Alive \cup {"ZOMBIE"}
        /\ i \in onCpu /\ state[i] # "RUNNING" => plock[i] = i
        /\ state[i] = "RUNNING" => i \in onCpu
        /\ plock[i] # NULL =>
               \/ plock[i] = i /\ i \in onCpu
               \/ plock[i] # i /\ pc[plock[i]] = "f_copy" /\ arg[plock[i]] = i

\* A child between allocproc() and RUNNABLE belongs to one forking parent.
ForkInv ==
    /\ \A q \in Slots : pc[q] \in ForkTailPCs =>
        /\ arg[q] \in Slots
        /\ state[arg[q]] = "USED"
        /\ pc[arg[q]] = "user"
        /\ pc[q] = "f_copy" => plock[arg[q]] = q
        /\ pc[q] \in {"f_copy", "f_parent"} => parent[arg[q]] = NULL
        /\ pc[q] = "f_run" => parent[arg[q]] = q
    /\ \A q, r \in Slots :
        pc[q] \in ForkTailPCs /\ pc[r] \in ForkTailPCs /\ q # r => arg[q] # arg[r]

\* The parent relation: free slots have none, init has none, a parent is alive,
\* and a process past reparent() has no child left.
ParentInv ==
    /\ parent[initproc] = NULL
    /\ \A c \in Slots :
        /\ state[c] = "UNUSED" => parent[c] = NULL
        /\ parent[c] # NULL => state[parent[c]] \in Alive /\ parent[c] # c
        /\ c # initproc /\ state[c] \in Alive \cup {"ZOMBIE"} => parent[c] # NULL
    /\ \A p, c \in Slots :
        /\ pc[p] = "x_reparent" /\ c < idx[p] => parent[c] # p
        /\ pc[p] = "x_wakeinit" /\ c <= idx[p] => parent[c] # p
        /\ pc[p] \in {"x_wakeparent", "x_zombie", "gone"} => parent[c] # p

\* Who may sleep while whose child is a zombie.
WakeInv ==
    /\ \A p, c \in Slots :
        /\ pc[p] = "w_scan" /\ c < idx[p] /\ parent[c] = p => state[c] # "ZOMBIE"
        /\ pc[p] \in {"w_killed", "w_sleep"} /\ parent[c] = p => state[c] # "ZOMBIE"
        /\ state[p] = "SLEEPING" /\ parent[c] = p /\ state[c] = "ZOMBIE" =>
               /\ p = initproc
               /\ waitlock # NULL
               /\ pc[waitlock] = "x_wakeinit"
               /\ widx[waitlock] = 1
    /\ \A q \in Slots :
        /\ pc[q] = "x_wakeparent" /\ state[parent[q]] = "SLEEPING" => widx[q] <= parent[q]
        /\ pc[q] = "x_zombie" => state[parent[q]] # "SLEEPING"

\* A process that sleeps in kwait(), or is about to, has a child.
KidsInv ==
    \A p \in Slots :
        /\ pc[p] \in {"w_scan", "w_killed", "w_sleep"} /\ kids[p] =>
               \E c \in Slots : parent[c] = p
        /\ pc[p] = "w_sleep" => kids[p]
        /\ state[p] = "SLEEPING" => \E c \in Slots : parent[c] = p

\* The inductive invariant.
IInv ==
    /\ TypeOK
    /\ WaitLockInv
    /\ PCInv
    /\ PLockInv
    /\ ForkInv
    /\ ParentInv
    /\ WakeInv
    /\ KidsInv

\* Slots are the numbers 1 to NPROC, NULL is not one of them, and init has the
\* first.
LEMMA SlotFacts ==
    /\ NULL \notin Slots
    /\ initproc \in Slots /\ initproc = 1
    /\ NPROC \in Slots
    /\ Slots \subseteq Nat
    /\ \A i \in Slots : 1 <= i /\ i <= NPROC
    /\ \A i \in Slots : i < NPROC => i + 1 \in Slots
    /\ 0 .. NPROC = Slots \cup {0}
  BY NPROCAssumption DEF Slots, NULL, initproc

\* scheduler() switching to a runnable process keeps the invariant.
LEMMA Dispatch_Inv ==
    ASSUME IInv, NEW p \in Slots, Dispatch(p) PROVE IInv'
  <1> USE SlotFacts DEF IInv, Dispatch, locals
  <1>1. TypeOK' BY DEF TypeOK, procstate
  <1>2. WaitLockInv' BY DEF TypeOK, WaitLockInv
  <1>3. PCInv' BY DEF TypeOK, PCInv, Alive
  <1>4. PLockInv' BY DEF TypeOK, PLockInv, Alive
  <1>5. ForkInv' BY DEF TypeOK, ForkInv
  <1>6. ParentInv' BY DEF TypeOK, ParentInv, Alive
  <1>7. WakeInv' BY DEF TypeOK, WakeInv
  <1>8. KidsInv' BY DEF TypeOK, KidsInv
  <1> QED BY <1>1, <1>2, <1>3, <1>4, <1>5, <1>6, <1>7, <1>8

\* The release of p->lock after swtch() keeps the invariant.
LEMMA Resume_Inv ==
    ASSUME IInv, NEW p \in Slots, Resume(p) PROVE IInv'
  <1> USE SlotFacts DEF IInv, Resume, locals
  <1>1. TypeOK' BY DEF TypeOK
  <1>2. WaitLockInv' BY DEF TypeOK, WaitLockInv
  <1>3. PCInv' BY DEF TypeOK, PCInv
  <1>4. PLockInv' BY DEF TypeOK, PLockInv
  <1>5. ForkInv' BY DEF TypeOK, ForkInv
  <1>6. ParentInv' BY DEF TypeOK, ParentInv
  <1>7. WakeInv' BY DEF TypeOK, WakeInv
  <1>8. KidsInv' BY DEF TypeOK, KidsInv
  <1> QED BY <1>1, <1>2, <1>3, <1>4, <1>5, <1>6, <1>7, <1>8

\* The hart's scheduler dropping the lock of the thread that left keeps the
\* invariant: the thread is off the hart before anyone else gets its lock.
LEMMA SwitchOut_Inv ==
    ASSUME IInv, NEW p \in Slots, SwitchOut(p) PROVE IInv'
  <1> USE SlotFacts DEF IInv, SwitchOut, table, locals
  <1>1. TypeOK' BY DEF TypeOK
  <1>2. WaitLockInv' BY DEF TypeOK, WaitLockInv
  <1>3. PCInv' BY DEF TypeOK, PCInv
  <1>4. PLockInv' BY DEF TypeOK, PLockInv
  <1>5. ForkInv' BY DEF TypeOK, PLockInv, ForkInv
  <1>6. ParentInv' BY DEF TypeOK, ParentInv
  <1>7. WakeInv' BY DEF TypeOK, WakeInv
  <1>8. KidsInv' BY DEF TypeOK, KidsInv
  <1> QED BY <1>1, <1>2, <1>3, <1>4, <1>5, <1>6, <1>7, <1>8

\* yield() in a timer interrupt keeps the invariant.
LEMMA Yield_Inv ==
    ASSUME IInv, NEW p \in Slots, Yield(p) PROVE IInv'
  <1> USE SlotFacts DEF IInv, Yield, Running, locals
  <1>1. TypeOK' BY DEF TypeOK, procstate
  <1>2. WaitLockInv' BY DEF TypeOK, WaitLockInv
  <1>3. PCInv' BY DEF TypeOK, WaitLockInv, PCInv, ForkInv, ForkTailPCs, Alive
  <1>4. PLockInv' BY DEF TypeOK, PLockInv, Alive
  <1>5. ForkInv' BY DEF TypeOK, ForkInv
  <1>6. ParentInv' BY DEF TypeOK, ParentInv, Alive
  <1>7. WakeInv' BY DEF TypeOK, WakeInv
  <1>8. KidsInv' BY DEF TypeOK, KidsInv
  <1> QED BY <1>1, <1>2, <1>3, <1>4, <1>5, <1>6, <1>7, <1>8

\* setkilled() in usertrap() keeps the invariant.
LEMMA Fault_Inv ==
    ASSUME IInv, NEW p \in Slots, Fault(p) PROVE IInv'
  <1> USE SlotFacts DEF IInv, Fault, Running, locals
  <1>1. TypeOK' BY DEF TypeOK
  <1>2. WaitLockInv' BY DEF TypeOK, WaitLockInv
  <1>3. PCInv' BY DEF TypeOK, PCInv
  <1>4. PLockInv' BY DEF TypeOK, PLockInv
  <1>5. ForkInv' BY DEF TypeOK, ForkInv
  <1>6. ParentInv' BY DEF TypeOK, ParentInv
  <1>7. WakeInv' BY DEF TypeOK, WakeInv
  <1>8. KidsInv' BY DEF TypeOK, KidsInv
  <1> QED BY <1>1, <1>2, <1>3, <1>4, <1>5, <1>6, <1>7, <1>8

\* The call of kexit() keeps the invariant.
LEMMA Exit_Inv ==
    ASSUME IInv, NEW p \in Slots, Exit(p) PROVE IInv'
  <1> USE SlotFacts DEF IInv, Exit, Running, Goto, table
  <1>1. TypeOK' BY DEF TypeOK, PCs, ExitPCs
  <1>2. WaitLockInv' BY DEF TypeOK, WaitLockInv, WaitLockPCs
  <1>3. PCInv' BY DEF TypeOK, PCInv, ExitPCs
  <1>4. PLockInv' BY DEF TypeOK, PLockInv
  <1>5. ForkInv' BY DEF TypeOK, ForkInv, ForkTailPCs
  <1>6. ParentInv' BY DEF TypeOK, ParentInv
  <1>7. WakeInv' BY DEF TypeOK, WakeInv
  <1>8. KidsInv' BY DEF TypeOK, KidsInv
  <1> QED BY <1>1, <1>2, <1>3, <1>4, <1>5, <1>6, <1>7, <1>8

\* The call of kfork() keeps the invariant.
LEMMA Fork_Inv ==
    ASSUME IInv, NEW p \in Slots, Fork(p) PROVE IInv'
  <1> USE SlotFacts DEF IInv, Fork, Syscall, Running, GotoLoop, Goto, table
  <1>1. TypeOK' BY DEF TypeOK, PCs, ForkPCs
  <1>2. WaitLockInv' BY DEF TypeOK, WaitLockInv, WaitLockPCs
  <1>3. PCInv' BY DEF TypeOK, PCInv, ExitPCs
  <1>4. PLockInv' BY DEF TypeOK, PLockInv
  <1>5. ForkInv' BY DEF TypeOK, ForkInv, ForkTailPCs
  <1>6. ParentInv' BY DEF TypeOK, ParentInv
  <1>7. WakeInv' BY DEF TypeOK, WakeInv
  <1>8. KidsInv' BY DEF TypeOK, KidsInv
  <1> QED BY <1>1, <1>2, <1>3, <1>4, <1>5, <1>6, <1>7, <1>8

\* The call of kwait() keeps the invariant.
LEMMA Wait_Inv ==
    ASSUME IInv, NEW p \in Slots, Wait(p) PROVE IInv'
  <1> USE SlotFacts DEF IInv, Wait, Syscall, Running, Goto, table
  <1>1. TypeOK' BY DEF TypeOK, PCs, WaitPCs
  <1>2. WaitLockInv' BY DEF TypeOK, WaitLockInv, WaitLockPCs
  <1>3. PCInv' BY DEF TypeOK, PCInv, ExitPCs
  <1>4. PLockInv' BY DEF TypeOK, PLockInv
  <1>5. ForkInv' BY DEF TypeOK, ForkInv, ForkTailPCs
  <1>6. ParentInv' BY DEF TypeOK, ParentInv
  <1>7. WakeInv' BY DEF TypeOK, WakeInv
  <1>8. KidsInv' BY DEF TypeOK, KidsInv
  <1> QED BY <1>1, <1>2, <1>3, <1>4, <1>5, <1>6, <1>7, <1>8

\* The call of kkill() keeps the invariant.
LEMMA Kill_Inv ==
    ASSUME IInv, NEW p \in Slots, Kill(p) PROVE IInv'
  <1> USE SlotFacts DEF IInv, Kill, Syscall, Running, GotoLoop, Goto, table
  <1>1. TypeOK' BY KillPidsAssumption DEF TypeOK, PCs
  <1>2. WaitLockInv' BY DEF TypeOK, WaitLockInv, WaitLockPCs
  <1>3. PCInv' BY DEF TypeOK, PCInv, ExitPCs
  <1>4. PLockInv' BY DEF TypeOK, PLockInv
  <1>5. ForkInv' BY DEF TypeOK, ForkInv, ForkTailPCs
  <1>6. ParentInv' BY DEF TypeOK, ParentInv
  <1>7. WakeInv' BY DEF TypeOK, WakeInv
  <1>8. KidsInv' BY DEF TypeOK, KidsInv
  <1> QED BY <1>1, <1>2, <1>3, <1>4, <1>5, <1>6, <1>7, <1>8

\* allocproc() taking a free slot keeps the invariant: the slot is nobody's
\* child, and no other fork() has it.
LEMMA AllocTake_Inv ==
    ASSUME IInv, NEW p \in Slots, AllocTake(p) PROVE IInv'
  <1> USE SlotFacts DEF IInv, AllocTake, AllocSlot, Running, Goto
  <1>1. TypeOK' BY DEF TypeOK, PCInv, procstate, PCs, ForkPCs
  <1>2. WaitLockInv' BY DEF TypeOK, WaitLockInv, PCInv, WaitLockPCs
  <1>3. PCInv' BY DEF TypeOK, PCInv, Alive, WaitLockPCs, ExitPCs
  <1>4. PLockInv' BY DEF TypeOK, PCInv, PLockInv
  <1>5. ForkInv' BY DEF TypeOK, PCInv, ForkInv, ParentInv, ForkTailPCs
  <1>6. ParentInv' BY DEF TypeOK, ParentInv, Alive
  <1>7. WakeInv' BY DEF TypeOK, PCInv, WakeInv
  <1>8. KidsInv' BY DEF TypeOK, KidsInv
  <1> QED BY <1>1, <1>2, <1>3, <1>4, <1>5, <1>6, <1>7, <1>8

\* allocproc() passing over a slot keeps the invariant.
LEMMA AllocSkip_Inv ==
    ASSUME IInv, NEW p \in Slots, AllocSkip(p) PROVE IInv'
  <1> USE SlotFacts DEF IInv, AllocSkip, AllocSlot, Running, NextSlot, table
  <1>1. TypeOK' BY DEF TypeOK
  <1>2. WaitLockInv' BY DEF TypeOK, WaitLockInv
  <1>3. PCInv' BY DEF TypeOK, PCInv
  <1>4. PLockInv' BY DEF TypeOK, PLockInv
  <1>5. ForkInv' BY DEF TypeOK, ForkInv
  <1>6. ParentInv' BY DEF TypeOK, ParentInv
  <1>7. WakeInv' BY DEF TypeOK, WakeInv
  <1>8. KidsInv' BY DEF TypeOK, KidsInv
  <1> QED BY <1>1, <1>2, <1>3, <1>4, <1>5, <1>6, <1>7, <1>8

\* allocproc() finding no slot keeps the invariant.
LEMMA AllocFail_Inv ==
    ASSUME IInv, NEW p \in Slots, AllocFail(p) PROVE IInv'
  <1> USE SlotFacts DEF IInv, AllocFail, AllocSlot, Running, ReturnToUser,
        Goto, table
  <1>1. TypeOK' BY DEF TypeOK, PCs
  <1>2. WaitLockInv' BY DEF TypeOK, WaitLockInv, WaitLockPCs
  <1>3. PCInv' BY DEF TypeOK, PCInv, ExitPCs
  <1>4. PLockInv' BY DEF TypeOK, PLockInv
  <1>5. ForkInv' BY DEF TypeOK, ForkInv, ForkTailPCs
  <1>6. ParentInv' BY DEF TypeOK, ParentInv
  <1>7. WakeInv' BY DEF TypeOK, WakeInv
  <1>8. KidsInv' BY DEF TypeOK, KidsInv
  <1> QED BY <1>1, <1>2, <1>3, <1>4, <1>5, <1>6, <1>7, <1>8

\* The release of the child's lock in kfork() keeps the invariant.
LEMMA ForkCopy_Inv ==
    ASSUME IInv, NEW p \in Slots, ForkCopy(p) PROVE IInv'
  <1> USE SlotFacts DEF IInv, ForkCopy, Running, Goto, table
  <1>1. TypeOK' BY DEF TypeOK, PCs, ForkPCs
  <1>2. WaitLockInv' BY DEF TypeOK, WaitLockInv, WaitLockPCs
  <1>3. PCInv' BY DEF TypeOK, PCInv, ExitPCs
  <1>4. PLockInv' BY DEF TypeOK, PLockInv, ForkInv, ForkTailPCs
  <1>5. ForkInv' BY DEF TypeOK, ForkInv, ForkTailPCs
  <1>6. ParentInv' BY DEF TypeOK, ParentInv
  <1>7. WakeInv' BY DEF TypeOK, WakeInv
  <1>8. KidsInv' BY DEF TypeOK, KidsInv
  <1> QED BY <1>1, <1>2, <1>3, <1>4, <1>5, <1>6, <1>7, <1>8

\* freeproc() of a half-made child keeps the invariant.
LEMMA ForkFail_Inv ==
    ASSUME IInv, NEW p \in Slots, ForkFail(p) PROVE IInv'
  <1> USE SlotFacts DEF IInv, ForkFail, Running, FreeProc, ReturnToUser, Goto
  <1>1. TypeOK' BY DEF TypeOK, ForkInv, ForkTailPCs, procstate
  <1>2. WaitLockInv' BY DEF TypeOK, WaitLockInv, WaitLockPCs
  <1>3. PCInv' BY DEF TypeOK, PCInv, ForkInv, ForkTailPCs, Alive, ExitPCs
  <1>4. PLockInv' BY DEF TypeOK, PLockInv, ForkInv, ForkTailPCs
  <1>5. ForkInv' BY DEF TypeOK, ForkInv, ForkTailPCs
  <1>6. ParentInv' BY DEF TypeOK, ForkInv, ForkTailPCs, ParentInv, Alive
  <1>7. WakeInv' BY DEF TypeOK, ForkInv, ForkTailPCs, WakeInv
  <1>8. KidsInv' BY DEF TypeOK, ForkInv, ForkTailPCs, KidsInv
  <1> QED BY <1>1, <1>2, <1>3, <1>4, <1>5, <1>6, <1>7, <1>8

\* np->parent = p under wait_lock keeps the invariant: no exit() is scanning.
LEMMA ForkParent_Inv ==
    ASSUME IInv, NEW p \in Slots, ForkParent(p) PROVE IInv'
  <1> USE SlotFacts DEF IInv, ForkParent, Running, Goto
  <1>1. TypeOK' BY DEF TypeOK, PCs, ForkPCs
  <1>2. WaitLockInv' BY DEF TypeOK, WaitLockInv, WaitLockPCs
  <1>3. PCInv' BY DEF TypeOK, PCInv, ExitPCs
  <1>4. PLockInv' BY DEF TypeOK, PLockInv
  <1>5. ForkInv' BY DEF TypeOK, ForkInv, ForkTailPCs
  <1>6. ParentInv' BY DEF TypeOK, PCInv, ForkInv, ForkTailPCs, ParentInv, Alive
  <1>7. WakeInv' BY DEF TypeOK, WakeInv
  <1>8. KidsInv' BY DEF TypeOK, ForkInv, ForkTailPCs, KidsInv
  <1> QED BY <1>1, <1>2, <1>3, <1>4, <1>5, <1>6, <1>7, <1>8

\* The child becoming RUNNABLE keeps the invariant: it has its parent by now.
LEMMA ForkRun_Inv ==
    ASSUME IInv, NEW p \in Slots, ForkRun(p) PROVE IInv'
  <1> USE SlotFacts DEF IInv, ForkRun, Running, ReturnToUser, Goto
  <1>1. TypeOK' BY DEF TypeOK, ForkInv, ForkTailPCs, procstate
  <1>2. WaitLockInv' BY DEF TypeOK, WaitLockInv, WaitLockPCs
  <1>3. PCInv' BY DEF TypeOK, PCInv, ForkInv, ForkTailPCs, ParentInv, ExitPCs
  <1>4. PLockInv' BY DEF TypeOK, PLockInv, ForkInv, ForkTailPCs
  <1>5. ForkInv' BY DEF TypeOK, ForkInv, ForkTailPCs
  <1>6. ParentInv' BY DEF TypeOK, ForkInv, ForkTailPCs, ParentInv, Alive
  <1>7. WakeInv' BY DEF TypeOK, WakeInv
  <1>8. KidsInv' BY DEF TypeOK, KidsInv
  <1> QED BY <1>1, <1>2, <1>3, <1>4, <1>5, <1>6, <1>7, <1>8

\* kexit() taking wait_lock keeps the invariant.
LEMMA ExitEnter_Inv ==
    ASSUME IInv, NEW p \in Slots, ExitEnter(p) PROVE IInv'
  <1> USE SlotFacts DEF IInv, ExitEnter, Running, GotoLoop, Goto, table
  <1>1. TypeOK' BY DEF TypeOK, PCs, ExitPCs
  <1>2. WaitLockInv' BY DEF TypeOK, WaitLockInv, WaitLockPCs
  <1>3. PCInv' BY DEF TypeOK, PCInv, ExitPCs
  <1>4. PLockInv' BY DEF TypeOK, PLockInv
  <1>5. ForkInv' BY DEF TypeOK, ForkInv, ForkTailPCs
  <1>6. ParentInv' BY DEF TypeOK, ParentInv
  <1>7. WakeInv' BY DEF TypeOK, WakeInv
  <1>8. KidsInv' BY DEF TypeOK, KidsInv
  <1> QED BY <1>1, <1>2, <1>3, <1>4, <1>5, <1>6, <1>7, <1>8

\* reparent() handing a child to init keeps the invariant: if the child is a
\* zombie and init sleeps, p is about to wake init.
LEMMA ReparentChild_Inv ==
    ASSUME IInv, NEW p \in Slots, ReparentChild(p) PROVE IInv'
  <1> USE SlotFacts DEF IInv, ReparentChild, Running, Goto
  <1>1. TypeOK' BY DEF TypeOK, PCs, ExitPCs
  <1>2. WaitLockInv' BY DEF TypeOK, WaitLockInv, WaitLockPCs
  <1>3. PCInv' BY DEF TypeOK, PCInv, ExitPCs
  <1>4. PLockInv' BY DEF TypeOK, PLockInv
  <1>5. ForkInv' BY DEF TypeOK, ForkInv, ForkTailPCs
  <1>6. ParentInv' BY DEF TypeOK, PCInv, ParentInv, ExitPCs
  <1>7. WakeInv' BY DEF TypeOK, WaitLockInv, WakeInv, WaitLockPCs
  <1>8. KidsInv' BY DEF TypeOK, KidsInv
  <1> QED BY <1>1, <1>2, <1>3, <1>4, <1>5, <1>6, <1>7, <1>8

\* reparent() passing over a slot keeps the invariant.
LEMMA ReparentSkip_Inv ==
    ASSUME IInv, NEW p \in Slots, ReparentSkip(p) PROVE IInv'
  <1> USE SlotFacts DEF IInv, ReparentSkip, Running, ReparentNext, Goto, table
  <1>1. TypeOK'
    <2>1. idx[p] \in 0 .. NPROC /\ widx[p] \in 0 .. NPROC BY DEF TypeOK
    <2>2. idx' \in [Slots -> 0 .. NPROC] BY <2>1 DEF TypeOK
    <2>3. widx' \in [Slots -> 0 .. NPROC] BY <2>1 DEF TypeOK
    <2>4. pc' \in [Slots -> PCs] BY DEF TypeOK, PCs, ExitPCs
    <2>5. state' \in [Slots -> procstate] BY DEF TypeOK
    <2> QED BY <2>2, <2>3, <2>4, <2>5 DEF TypeOK
  <1>2. WaitLockInv' BY DEF TypeOK, WaitLockInv, WaitLockPCs
  <1>3. PCInv' BY DEF TypeOK, PCInv, ExitPCs
  <1>4. PLockInv' BY DEF TypeOK, PLockInv
  <1>5. ForkInv'
    <2>1. CASE idx[p] < NPROC
      BY <2>1 DEF TypeOK, PCInv, PLockInv, ForkInv, ForkTailPCs, Alive,
          WaitLockPCs
    <2>2. CASE idx[p] = NPROC
      BY <2>2 DEF TypeOK, PCInv, PLockInv, ForkInv, ParentInv, ForkTailPCs,
          Alive
    <2> QED BY <2>1, <2>2
  <1>6. ParentInv' BY DEF TypeOK, ParentInv
  <1>7. WakeInv'
    <2>1. p # initproc /\ state[p] \in Alive BY DEF PCInv, ExitPCs, Alive
    <2>2. parent[p] \in Slots /\ parent[p] # p BY <2>1 DEF TypeOK, ParentInv
    <2>3. CASE idx[p] < NPROC
      BY <2>3 DEF TypeOK, WaitLockInv, PCInv, ForkInv, ForkTailPCs, WakeInv
    <2>4. CASE idx[p] = NPROC
      <3>1. widx'[p] = 1 /\ widx'[p] <= parent'[p] BY <2>2, <2>4 DEF TypeOK
      <3> QED BY <2>4, <3>1 DEF TypeOK, WaitLockInv, PCInv, ForkInv,
            ForkTailPCs, WakeInv, WaitLockPCs
    <2> QED BY <2>3, <2>4
  <1>8. KidsInv' BY DEF TypeOK, KidsInv
  <1> QED BY <1>1, <1>2, <1>3, <1>4, <1>5, <1>6, <1>7, <1>8

\* wakeup(initproc) in reparent() keeps the invariant: after the slot of init,
\* which is the first, init does not sleep.
LEMMA WakeInit_Inv ==
    ASSUME IInv, NEW p \in Slots, WakeInit(p) PROVE IInv'
  <1> USE SlotFacts DEF IInv, WakeInit, Running, WakeSlot, ReparentNext, Goto
  <1>1. TypeOK'
    <2>1. idx[p] \in 0 .. NPROC /\ widx[p] \in 0 .. NPROC BY DEF TypeOK
    <2>2. idx' \in [Slots -> 0 .. NPROC] BY <2>1 DEF TypeOK
    <2>3. widx' \in [Slots -> 0 .. NPROC] BY <2>1 DEF TypeOK
    <2>4. pc' \in [Slots -> PCs] BY DEF TypeOK, PCs, ExitPCs
    <2>5. state' \in [Slots -> procstate] BY DEF TypeOK, procstate
    <2> QED BY <2>2, <2>3, <2>4, <2>5 DEF TypeOK
  <1>2. WaitLockInv' BY DEF TypeOK, WaitLockInv, WaitLockPCs
  <1>3. PCInv' BY DEF TypeOK, PCInv, Alive, ExitPCs
  <1>4. PLockInv' BY DEF TypeOK, PLockInv
  <1>5. ForkInv' BY DEF TypeOK, ForkInv, ForkTailPCs
  <1>6. ParentInv'
    <2>1. idx[p] \in Slots BY DEF PCInv
    <2>2. CASE widx[p] < NPROC
      BY <2>2 DEF TypeOK, WaitLockInv, PCInv, ForkInv, ForkTailPCs, ParentInv,
          Alive, WaitLockPCs, ExitPCs
    <2>3. CASE widx[p] = NPROC /\ idx[p] < NPROC
      BY <2>1, <2>3 DEF TypeOK, WaitLockInv, PCInv, ForkInv, ForkTailPCs,
          ParentInv
    <2>4. CASE widx[p] = NPROC /\ idx[p] = NPROC
      BY <2>1, <2>4 DEF TypeOK, WaitLockInv, PCInv, ForkInv, ForkTailPCs,
          ParentInv
    <2> QED BY <2>2, <2>3, <2>4
  <1>7. WakeInv'
    <2>1. p # initproc /\ state[p] \in Alive BY DEF PCInv, ExitPCs, Alive
    <2>2. parent[p] \in Slots /\ parent[p] # p BY <2>1 DEF TypeOK, ParentInv
    <2>3. \A c \in Slots : parent[c] = initproc /\ state[c] = "ZOMBIE" =>
              state'[initproc] # "SLEEPING"
      BY <2>1 DEF TypeOK, WaitLockInv, PCInv, ForkInv, ForkTailPCs, WakeInv
    <2>4. CASE widx[p] < NPROC
      BY <2>3, <2>4 DEF TypeOK, WaitLockInv, PCInv, ForkInv, ForkTailPCs,
          WakeInv, WaitLockPCs
    <2>5. CASE widx[p] = NPROC /\ idx[p] < NPROC
      BY <2>1, <2>3, <2>5 DEF TypeOK, WaitLockInv, PCInv, ForkInv, ForkTailPCs,
          WakeInv
    <2>6. CASE widx[p] = NPROC /\ idx[p] = NPROC
      <3>1. widx'[p] = 1 /\ widx'[p] <= parent'[p] BY <2>2, <2>6 DEF TypeOK
      <3> QED BY <2>1, <2>3, <2>6, <3>1 DEF TypeOK, WaitLockInv, PCInv,
            ForkInv, ForkTailPCs, WakeInv
    <2> QED BY <2>4, <2>5, <2>6 DEF PCInv
  <1>8. KidsInv' BY DEF TypeOK, KidsInv
  <1> QED BY <1>1, <1>2, <1>3, <1>4, <1>5, <1>6, <1>7, <1>8

\* wakeup(p->parent) keeps the invariant: past the parent's slot the parent does
\* not sleep, and cannot fall asleep while p holds wait_lock.
LEMMA WakeParent_Inv ==
    ASSUME IInv, NEW p \in Slots, WakeParent(p) PROVE IInv'
  <1> USE SlotFacts DEF IInv, WakeParent, Running, WakeSlot, Goto
  <1>1. TypeOK'
    <2>1. idx[p] \in 0 .. NPROC /\ widx[p] \in 0 .. NPROC BY DEF TypeOK
    <2>2. idx' \in [Slots -> 0 .. NPROC] BY <2>1 DEF TypeOK
    <2>3. widx' \in [Slots -> 0 .. NPROC] BY <2>1 DEF TypeOK
    <2>4. pc' \in [Slots -> PCs] BY DEF TypeOK, PCs, ExitPCs
    <2>5. state' \in [Slots -> procstate] BY DEF TypeOK, procstate
    <2> QED BY <2>2, <2>3, <2>4, <2>5 DEF TypeOK
  <1>2. WaitLockInv' BY DEF TypeOK, WaitLockInv, WaitLockPCs
  <1>3. PCInv' BY DEF TypeOK, PCInv, PLockInv, Alive, ExitPCs
  <1>4. PLockInv' BY DEF TypeOK, PLockInv
  <1>5. ForkInv' BY DEF TypeOK, ForkInv, ForkTailPCs
  <1>6. ParentInv' BY DEF TypeOK, ParentInv, Alive
  <1>7. WakeInv'
    <2>1. p # initproc /\ state[p] \in Alive BY DEF PCInv, ExitPCs, Alive
    <2>2. parent[p] \in Slots /\ parent[p] # p BY <2>1 DEF TypeOK, ParentInv
    <2>3. widx[p] = parent[p] => state'[parent[p]] # "SLEEPING"
      BY <2>2 DEF TypeOK, PCInv
    <2>4. CASE widx[p] < NPROC
      <3>1. state'[parent[p]] = "SLEEPING" => widx[p] + 1 <= parent[p]
        BY <2>2, <2>3 DEF TypeOK, WakeInv, PCInv
      <3> QED BY <2>4, <3>1 DEF TypeOK, WaitLockInv, PCInv, ForkInv,
            ForkTailPCs, WakeInv, WaitLockPCs
    <2>5. CASE widx[p] = NPROC
      <3>1. state'[parent[p]] # "SLEEPING"
        <4>1. SUFFICES ASSUME state[parent[p]] = "SLEEPING" PROVE widx[p] = parent[p]
          BY <2>2, <2>3 DEF TypeOK
        <4>2. widx[p] <= parent[p] BY <4>1 DEF WakeInv
        <4> QED BY <2>2, <2>5, <4>2
      <3> QED BY <2>5, <3>1 DEF TypeOK, WaitLockInv, PCInv, ForkInv,
            ForkTailPCs, WakeInv, WaitLockPCs
    <2> QED BY <2>4, <2>5
  <1>8. KidsInv' BY DEF TypeOK, KidsInv
  <1> QED BY <1>1, <1>2, <1>3, <1>4, <1>5, <1>6, <1>7, <1>8

\* p becoming a zombie keeps the invariant: its parent does not sleep, and it has
\* no child left.
LEMMA ExitZombie_Inv ==
    ASSUME IInv, NEW p \in Slots, ExitZombie(p) PROVE IInv'
  <1> USE SlotFacts DEF IInv, ExitZombie, Running, Goto
  <1>1. TypeOK' BY DEF TypeOK, procstate, PCs
  <1>2. WaitLockInv' BY DEF TypeOK, WaitLockInv, WaitLockPCs
  <1>3. PCInv' BY DEF TypeOK, PCInv, Alive, WaitLockPCs, ExitPCs
  <1>4. PLockInv' BY DEF TypeOK, PLockInv
  <1>5. ForkInv' BY DEF TypeOK, ForkInv, ForkTailPCs
  <1>6. ParentInv' BY DEF TypeOK, ParentInv, Alive
  <1>7. WakeInv' BY DEF TypeOK, WaitLockInv, WakeInv, WaitLockPCs
  <1>8. KidsInv' BY DEF TypeOK, KidsInv
  <1> QED BY <1>1, <1>2, <1>3, <1>4, <1>5, <1>6, <1>7, <1>8

\* kwait() taking wait_lock keeps the invariant.
LEMMA WaitEnter_Inv ==
    ASSUME IInv, NEW p \in Slots, WaitEnter(p) PROVE IInv'
  <1> USE SlotFacts DEF IInv, WaitEnter, Running, GotoLoop, Goto, table
  <1>1. TypeOK' BY DEF TypeOK, PCs, WaitPCs
  <1>2. WaitLockInv' BY DEF TypeOK, WaitLockInv, WaitLockPCs
  <1>3. PCInv' BY DEF TypeOK, PCInv, ExitPCs
  <1>4. PLockInv' BY DEF TypeOK, PLockInv
  <1>5. ForkInv' BY DEF TypeOK, ForkInv, ForkTailPCs
  <1>6. ParentInv' BY DEF TypeOK, ParentInv
  <1>7. WakeInv' BY DEF TypeOK, WakeInv
  <1>8. KidsInv' BY DEF TypeOK, KidsInv
  <1> QED BY <1>1, <1>2, <1>3, <1>4, <1>5, <1>6, <1>7, <1>8

\* freeproc() of a zombie in kwait() keeps the invariant: the zombie has no
\* children and is on no hart.
LEMMA WaitReap_Inv ==
    ASSUME IInv, NEW p \in Slots, WaitReap(p) PROVE IInv'
  <1> USE SlotFacts DEF IInv, WaitReap, FoundZombie, Running, FreeProc,
        ReturnToUser, Goto
  <1>1. TypeOK' BY DEF TypeOK, procstate, PCs
  <1>2. WaitLockInv' BY DEF TypeOK, WaitLockInv, WaitLockPCs
  <1>3. PCInv' BY DEF TypeOK, PCInv, Alive, ExitPCs
  <1>4. PLockInv' BY DEF TypeOK, PLockInv
  <1>5. ForkInv' BY DEF TypeOK, ForkInv, ForkTailPCs
  <1>6. ParentInv' BY DEF TypeOK, ParentInv, Alive
  <1>7. WakeInv' BY DEF TypeOK, WaitLockInv, WakeInv, WaitLockPCs
  <1>8. KidsInv' BY DEF TypeOK, KidsInv
  <1> QED BY <1>1, <1>2, <1>3, <1>4, <1>5, <1>6, <1>7, <1>8

\* kwait() failing to copy the status out keeps the invariant.
LEMMA WaitFault_Inv ==
    ASSUME IInv, NEW p \in Slots, WaitFault(p) PROVE IInv'
  <1> USE SlotFacts DEF IInv, WaitFault, FoundZombie, Running, ReturnToUser,
        Goto, table
  <1>1. TypeOK' BY DEF TypeOK, PCs
  <1>2. WaitLockInv' BY DEF TypeOK, WaitLockInv, WaitLockPCs
  <1>3. PCInv' BY DEF TypeOK, PCInv, ExitPCs
  <1>4. PLockInv' BY DEF TypeOK, PLockInv
  <1>5. ForkInv' BY DEF TypeOK, ForkInv, ForkTailPCs
  <1>6. ParentInv' BY DEF TypeOK, ParentInv
  <1>7. WakeInv' BY DEF TypeOK, WaitLockInv, WakeInv, WaitLockPCs
  <1>8. KidsInv' BY DEF TypeOK, KidsInv
  <1> QED BY <1>1, <1>2, <1>3, <1>4, <1>5, <1>6, <1>7, <1>8

\* kwait() passing over a slot keeps the invariant: no zombie child is behind it.
LEMMA WaitScan_Inv ==
    ASSUME IInv, NEW p \in Slots, WaitScan(p) PROVE IInv'
  <1> USE SlotFacts DEF IInv, WaitScan, Running, NextSlot, Goto, table
  <1>1. TypeOK'
    <2>1. idx[p] \in 0 .. NPROC /\ widx[p] \in 0 .. NPROC BY DEF TypeOK
    <2>2. idx' \in [Slots -> 0 .. NPROC] BY <2>1 DEF TypeOK
    <2>3. widx' \in [Slots -> 0 .. NPROC] BY <2>1 DEF TypeOK
    <2>4. pc' \in [Slots -> PCs] BY DEF TypeOK, PCs, WaitPCs
    <2>5. state' \in [Slots -> procstate] BY DEF TypeOK
    <2> QED BY <2>2, <2>3, <2>4, <2>5 DEF TypeOK
  <1>2. WaitLockInv' BY DEF TypeOK, WaitLockInv, WaitLockPCs
  <1>3. PCInv' BY DEF TypeOK, PCInv, PLockInv, ExitPCs
  <1>4. PLockInv' BY DEF TypeOK, PLockInv
  <1>5. ForkInv' BY DEF TypeOK, PCInv, ForkInv, ForkTailPCs
  <1>6. ParentInv' BY DEF TypeOK, PCInv, ParentInv
  <1>7. WakeInv'
    <2>1. CASE idx[p] < NPROC
      BY <2>1 DEF TypeOK, WaitLockInv, PCInv, ForkInv, ForkTailPCs, WakeInv
    <2>2. CASE idx[p] = NPROC
      BY <2>2 DEF TypeOK, WaitLockInv, PCInv, ForkInv, ForkTailPCs, WakeInv
    <2> QED BY <2>1, <2>2
  <1>8. KidsInv' BY DEF TypeOK, PCInv, KidsInv
  <1> QED BY <1>1, <1>2, <1>3, <1>4, <1>5, <1>6, <1>7, <1>8

\* kwait() returning -1 keeps the invariant.
LEMMA WaitFail_Inv ==
    ASSUME IInv, NEW p \in Slots, WaitFail(p) PROVE IInv'
  <1> USE SlotFacts DEF IInv, WaitFail, Running, ReturnToUser, Goto, table
  <1>1. TypeOK' BY DEF TypeOK, PCs
  <1>2. WaitLockInv' BY DEF TypeOK, WaitLockInv, WaitLockPCs
  <1>3. PCInv' BY DEF TypeOK, PCInv, ExitPCs
  <1>4. PLockInv' BY DEF TypeOK, PLockInv
  <1>5. ForkInv' BY DEF TypeOK, ForkInv, ForkTailPCs
  <1>6. ParentInv' BY DEF TypeOK, ParentInv
  <1>7. WakeInv' BY DEF TypeOK, WaitLockInv, WakeInv, WaitLockPCs
  <1>8. KidsInv' BY DEF TypeOK, KidsInv
  <1> QED BY <1>1, <1>2, <1>3, <1>4, <1>5, <1>6, <1>7, <1>8

\* kwait() deciding to sleep keeps the invariant: it has seen a child.
LEMMA WaitGo_Inv ==
    ASSUME IInv, NEW p \in Slots, WaitGo(p) PROVE IInv'
  <1> USE SlotFacts DEF IInv, WaitGo, Running, Goto, table
  <1>1. TypeOK' BY DEF TypeOK, PCs, WaitPCs
  <1>2. WaitLockInv' BY DEF TypeOK, WaitLockInv, WaitLockPCs
  <1>3. PCInv' BY DEF TypeOK, PCInv, ExitPCs
  <1>4. PLockInv' BY DEF TypeOK, PLockInv
  <1>5. ForkInv' BY DEF TypeOK, ForkInv, ForkTailPCs
  <1>6. ParentInv' BY DEF TypeOK, ParentInv
  <1>7. WakeInv' BY DEF TypeOK, WakeInv
  <1>8. KidsInv' BY DEF TypeOK, KidsInv
  <1> QED BY <1>1, <1>2, <1>3, <1>4, <1>5, <1>6, <1>7, <1>8

\* sleep() in kwait() keeps the invariant: no child is a zombie when wait_lock is
\* released.
LEMMA WaitSleep_Inv ==
    ASSUME IInv, NEW p \in Slots, WaitSleep(p) PROVE IInv'
  <1> USE SlotFacts DEF IInv, WaitSleep, Running, Goto
  <1>1. TypeOK' BY DEF TypeOK, procstate, PCs, WaitPCs
  <1>2. WaitLockInv' BY DEF TypeOK, WaitLockInv, WaitLockPCs
  <1>3. PCInv' BY DEF TypeOK, PCInv, Alive, WaitLockPCs, ExitPCs
  <1>4. PLockInv' BY DEF TypeOK, PLockInv, Alive
  <1>5. ForkInv' BY DEF TypeOK, ForkInv, ForkTailPCs
  <1>6. ParentInv' BY DEF TypeOK, ParentInv, Alive
  <1>7. WakeInv' BY DEF TypeOK, WaitLockInv, WakeInv, WaitLockPCs
  <1>8. KidsInv' BY DEF TypeOK, KidsInv
  <1> QED BY <1>1, <1>2, <1>3, <1>4, <1>5, <1>6, <1>7, <1>8

\* kkill() marking and waking a process keeps the invariant.
LEMMA KillHit_Inv ==
    ASSUME IInv, NEW p \in Slots, KillHit(p) PROVE IInv'
  <1> USE SlotFacts DEF IInv, KillHit, KillSlot, Running, ReturnToUser, Goto
  <1>1. TypeOK' BY DEF TypeOK, procstate, PCs
  <1>2. WaitLockInv' BY DEF TypeOK, WaitLockInv, WaitLockPCs
  <1>3. PCInv' BY DEF TypeOK, PCInv, Alive, ExitPCs
  <1>4. PLockInv' BY DEF TypeOK, PLockInv
  <1>5. ForkInv' BY DEF TypeOK, ForkInv, ForkTailPCs
  <1>6. ParentInv' BY DEF TypeOK, ParentInv, Alive
  <1>7. WakeInv' BY DEF TypeOK, WakeInv
  <1>8. KidsInv' BY DEF TypeOK, KidsInv
  <1> QED BY <1>1, <1>2, <1>3, <1>4, <1>5, <1>6, <1>7, <1>8

\* kkill() passing over a slot keeps the invariant.
LEMMA KillSkip_Inv ==
    ASSUME IInv, NEW p \in Slots, KillSkip(p) PROVE IInv'
  <1> USE SlotFacts DEF IInv, KillSkip, KillSlot, Running, NextSlot, table
  <1>1. TypeOK' BY DEF TypeOK
  <1>2. WaitLockInv' BY DEF TypeOK, WaitLockInv
  <1>3. PCInv' BY DEF TypeOK, PCInv
  <1>4. PLockInv' BY DEF TypeOK, PLockInv
  <1>5. ForkInv' BY DEF TypeOK, ForkInv
  <1>6. ParentInv' BY DEF TypeOK, ParentInv
  <1>7. WakeInv' BY DEF TypeOK, WakeInv
  <1>8. KidsInv' BY DEF TypeOK, KidsInv
  <1> QED BY <1>1, <1>2, <1>3, <1>4, <1>5, <1>6, <1>7, <1>8

\* kkill() finding no process keeps the invariant.
LEMMA KillMiss_Inv ==
    ASSUME IInv, NEW p \in Slots, KillMiss(p) PROVE IInv'
  <1> USE SlotFacts DEF IInv, KillMiss, KillSlot, Running, ReturnToUser, Goto,
        table
  <1>1. TypeOK' BY DEF TypeOK, PCs
  <1>2. WaitLockInv' BY DEF TypeOK, WaitLockInv, WaitLockPCs
  <1>3. PCInv' BY DEF TypeOK, PCInv, ExitPCs
  <1>4. PLockInv' BY DEF TypeOK, PLockInv
  <1>5. ForkInv' BY DEF TypeOK, ForkInv, ForkTailPCs
  <1>6. ParentInv' BY DEF TypeOK, ParentInv
  <1>7. WakeInv' BY DEF TypeOK, WakeInv
  <1>8. KidsInv' BY DEF TypeOK, KidsInv
  <1> QED BY <1>1, <1>2, <1>3, <1>4, <1>5, <1>6, <1>7, <1>8

\* A stuttering step changes nothing the invariant speaks about.
LEMMA Stutter_Inv ==
    ASSUME IInv, UNCHANGED vars PROVE IInv'
  <1> USE DEF IInv, vars
  <1>1. TypeOK' BY DEF TypeOK
  <1>2. WaitLockInv' BY DEF WaitLockInv
  <1>3. PCInv' BY DEF PCInv
  <1>4. PLockInv' BY DEF PLockInv
  <1>5. ForkInv' BY DEF ForkInv
  <1>6. ParentInv' BY DEF ParentInv
  <1>7. WakeInv' BY DEF WakeInv
  <1>8. KidsInv' BY DEF KidsInv
  <1> QED BY <1>1, <1>2, <1>3, <1>4, <1>5, <1>6, <1>7, <1>8

\* Init establishes the inductive invariant.
LEMMA Init_Inv ==
    ASSUME Init PROVE IInv
  <1> USE SlotFacts DEF Init, IInv
  <1>1. TypeOK BY DEF TypeOK, procstate, PCs
  <1>2. WaitLockInv BY DEF WaitLockInv, WaitLockPCs
  <1>3. PCInv BY DEF PCInv, Alive, WaitLockPCs, ExitPCs
  <1>4. PLockInv BY DEF PLockInv
  <1>5. ForkInv BY DEF ForkInv, ForkTailPCs
  <1>6. ParentInv BY DEF ParentInv, Alive
  <1>7. WakeInv BY DEF WakeInv
  <1>8. KidsInv BY DEF KidsInv
  <1> QED BY <1>1, <1>2, <1>3, <1>4, <1>5, <1>6, <1>7, <1>8

\* Every step of every thread preserves the inductive invariant.
LEMMA Next_Inv ==
    ASSUME IInv, [Next]_vars PROVE IInv'
  <1>1. ASSUME NEW p \in Slots, SwitchStep(p) PROVE IInv'
    BY <1>1, Dispatch_Inv, Resume_Inv, SwitchOut_Inv, Yield_Inv DEF SwitchStep
  <1>2. ASSUME NEW p \in Slots, UserStep(p) PROVE IInv'
    BY <1>2, Fault_Inv, Exit_Inv, Fork_Inv, Wait_Inv, Kill_Inv DEF UserStep
  <1>3. ASSUME NEW p \in Slots, KernelStep(p) PROVE IInv'
    <2>1. CASE AllocTake(p) \/ AllocSkip(p) \/ AllocFail(p)
      BY <2>1, AllocTake_Inv, AllocSkip_Inv, AllocFail_Inv
    <2>2. CASE ForkCopy(p) \/ ForkFail(p) \/ ForkParent(p) \/ ForkRun(p)
      BY <2>2, ForkCopy_Inv, ForkFail_Inv, ForkParent_Inv, ForkRun_Inv
    <2>3. CASE ExitEnter(p) \/ ReparentChild(p) \/ ReparentSkip(p)
      BY <2>3, ExitEnter_Inv, ReparentChild_Inv, ReparentSkip_Inv
    <2>4. CASE WakeInit(p) \/ WakeParent(p) \/ ExitZombie(p)
      BY <2>4, WakeInit_Inv, WakeParent_Inv, ExitZombie_Inv
    <2>5. CASE WaitEnter(p) \/ WaitReap(p) \/ WaitFault(p) \/ WaitScan(p)
      BY <2>5, WaitEnter_Inv, WaitReap_Inv, WaitFault_Inv, WaitScan_Inv
    <2>6. CASE WaitFail(p) \/ WaitGo(p) \/ WaitSleep(p)
      BY <2>6, WaitFail_Inv, WaitGo_Inv, WaitSleep_Inv
    <2>7. CASE KillHit(p) \/ KillSkip(p) \/ KillMiss(p)
      BY <2>7, KillHit_Inv, KillSkip_Inv, KillMiss_Inv
    <2>8. CASE Panic(p) BY <2>8, Stutter_Inv DEF Panic
    <2> QED BY <1>3, <2>1, <2>2, <2>3, <2>4, <2>5, <2>6, <2>7,
          <2>8 DEF KernelStep
  <1>4. CASE UNCHANGED vars BY <1>4, Stutter_Inv
  <1> QED BY <1>1, <1>2, <1>3, <1>4 DEF Next

\* The invariant holds in every reachable state of the process table.
THEOREM InvariantHolds == Spec => []IInv
  BY Init_Inv, Next_Inv, PTL DEF Spec

\* Every reachable state of the process table is type correct: the loop
\* indices of allocproc, reparent, wakeup, kwait and kkill stay inside proc[],
\* and np is a slot.
THEOREM TypeCorrect == Spec => []TypeOK
  <1>1. IInv => TypeOK BY DEF IInv
  <1> QED BY <1>1, InvariantHolds, PTL

\* kexit() and kwait() lose no wakeup, whatever the number of processes: while
\* wait_lock is free, no process sleeps in wait() with a zombie child.
THEOREM NoLostExitHolds == Spec => []NoLostExit
  <1>1. IInv => NoLostExit BY DEF IInv, WakeInv, NoLostExit
  <1> QED BY <1>1, InvariantHolds, PTL

\* A process that sleeps in wait() has a child.
THEOREM SleeperHasChildHolds == Spec => []SleeperHasChild
  <1>1. IInv => SleeperHasChild BY DEF IInv, KidsInv, SleeperHasChild
  <1> QED BY <1>1, InvariantHolds, PTL

\* Every process but init has a live parent to reap it.
THEOREM LiveParentHolds == Spec => []LiveParent
  <1>1. IInv => LiveParent BY DEF IInv, ParentInv, Alive, LiveParent
  <1> QED BY <1>1, InvariantHolds, PTL

\* A slot is never freed or reused while a hart runs on its kernel stack.
THEOREM NoReuseOnCpuHolds == Spec => []NoReuseOnCpu
  <1>1. IInv => NoReuseOnCpu BY DEF IInv, PLockInv, Alive, NoReuseOnCpu
  <1> QED BY <1>1, InvariantHolds, PTL

\* sched() never panics: a thread that gave up its hart holds its own p->lock
\* and no other spinlock.
THEOREM SchedLocksHolds == Spec => []SchedLocks
  <1>1. IInv => SchedLocks
    <2> SUFFICES ASSUME IInv, NEW p \in Slots, p \in onCpu, state[p] # "RUNNING"
                 PROVE  /\ plock[p] = p
                        /\ waitlock # p
                        /\ \A i \in Slots \ {p} : plock[i] # p
      BY DEF SchedLocks
    <2>1. plock[p] = p BY DEF IInv, PLockInv
    <2>2. waitlock # p BY DEF IInv, WaitLockInv, PCInv
    <2>3. \A i \in Slots \ {p} : plock[i] # p
      BY SlotFacts DEF IInv, PLockInv, PCInv
    <2> QED BY <2>1, <2>2, <2>3
  <1> QED BY <1>1, InvariantHolds, PTL
=============================================================================
