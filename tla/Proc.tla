-------------------------------- MODULE Proc --------------------------------
(***************************************************************************)
(* The xv6 process table (xv6-riscv/kernel/proc.c): fork, exit, wait, kill *)
(* and the sleep/wakeup pair they are built on, at the granularity of the  *)
(* spinlocks the kernel takes.  Every slot of proc[] has a kernel thread   *)
(* (pc and the locals of the system call it is in).  A section that holds  *)
(* one p->lock and touches nothing another thread can read without that   *)
(* lock is one step, guarded by the lock being free; wait_lock, and a      *)
(* p->lock that stays held across swtch() or across allocproc()'s return,  *)
(* are state.  The loops over proc[] (allocproc, reparent, wakeup, kwait,  *)
(* kkill) take one step per slot, because each iteration takes and drops   *)
(* that slot's lock.                                                       *)
(*                                                                         *)
(* Which runnable process a hart picks is left open here (Dispatch); the   *)
(* lottery that decides it is module Scheduler.  Exit status, memory, open *)
(* files and the trapframe are abstracted away: the outcomes of the calls  *)
(* that can fail because of them (uvmcopy, copyout) are free choices.      *)
(***************************************************************************)
EXTENDS Integers, FiniteSets

CONSTANTS
    NPROC,      \* slots of proc[]
    NCPU,       \* harts
    MAXPID,     \* bound: fork() is called until this pid is handed out
    KillPids    \* arguments user programs pass to kill()

ASSUME NPROCAssumption == NPROC \in Nat \ {0}
ASSUME NCPUAssumption == NCPU \in Nat \ {0}
ASSUME MAXPIDAssumption == MAXPID \in Nat \ {0}
ASSUME KillPidsAssumption == KillPids \subseteq Nat

Slots == 1 .. NPROC

initproc == 1       \* userinit() allocates the first slot

NULL == 0           \* no slot: a null proc pointer, a free lock

VARIABLES
    state,      \* p->state
    pid,        \* p->pid, 0 in a free slot
    parent,     \* p->parent, guarded by wait_lock
    chan,       \* p->chan
    killed,     \* p->killed
    nextpid,    \* the counter behind allocpid()
    waitlock,   \* the thread that holds wait_lock, or NULL
    plock,      \* plock[i]: the thread that keeps proc[i].lock, or NULL
    onCpu,      \* the slots whose kernel stack a hart is executing on
    pc,         \* where each kernel thread continues
    idx,        \* the slot its loop over proc[] is at
    widx,       \* the slot the loop of a wakeup() it called is at
    arg,        \* np in kfork(), the pid argument in kkill()
    kids        \* havekids in kwait()

table  == <<state, pid, parent, chan, killed, nextpid>>
locals == <<pc, idx, widx, arg, kids>>
vars   == <<state, pid, parent, chan, killed, nextpid, waitlock, plock,
            onCpu, pc, idx, widx, arg, kids>>

procstate == {"UNUSED", "USED", "SLEEPING", "RUNNABLE", "RUNNING", "ZOMBIE"}

\* Control points, by system call.  "user" is user space, "gone" is after
\* the last sched() of kexit(), "panic" is init calling exit.
ForkPCs == {"f_alloc", "f_copy", "f_parent", "f_run"}
ExitPCs == {"x_enter", "x_reparent", "x_wakeinit", "x_wakeparent", "x_zombie"}
WaitPCs == {"w_enter", "w_scan", "w_killed", "w_sleep"}
PCs     == {"user", "k_scan", "gone", "panic"} \cup ForkPCs \cup ExitPCs
           \cup WaitPCs

\* The control points at which the thread holds wait_lock.
WaitLockPCs == {"x_reparent", "x_wakeinit", "x_wakeparent", "x_zombie",
                "w_scan", "w_killed", "w_sleep"}

TypeOK ==
    /\ state \in [Slots -> procstate]
    /\ pid \in [Slots -> Nat]
    /\ parent \in [Slots -> Slots \cup {NULL}]
    /\ chan \in [Slots -> Slots \cup {NULL}]
    /\ killed \in [Slots -> BOOLEAN]
    /\ nextpid \in Nat
    /\ waitlock \in Slots \cup {NULL}
    /\ plock \in [Slots -> Slots \cup {NULL}]
    /\ onCpu \in SUBSET Slots
    /\ pc \in [Slots -> PCs]
    /\ idx \in [Slots -> 0 .. NPROC]
    /\ widx \in [Slots -> 0 .. NPROC]
    /\ arg \in [Slots -> Nat]
    /\ kids \in [Slots -> BOOLEAN]

----------------------------------------------------------------------------
(* Scheduling: what every thread does between kernel steps.                *)

\* Thread p executes kernel code: it is on a hart, and past the release of
\* the p->lock it was switched in with.
Running(p) == p \in onCpu /\ state[p] = "RUNNING" /\ plock[p] # p

\* scheduler() finds p runnable, under p->lock, and switches to it.
Dispatch(p) ==
    /\ state[p] = "RUNNABLE"
    /\ plock[p] = NULL
    /\ Cardinality(onCpu) < NCPU
    /\ state' = [state EXCEPT ![p] = "RUNNING"]
    /\ onCpu' = onCpu \cup {p}
    /\ plock' = [plock EXCEPT ![p] = p]
    /\ UNCHANGED <<pid, parent, chan, killed, nextpid, waitlock, locals>>

\* What follows swtch() in the thread that was switched in: sleep() clears
\* chan and releases p->lock, yield() and forkret() release it.
Resume(p) ==
    /\ p \in onCpu
    /\ state[p] = "RUNNING"
    /\ plock[p] = p
    /\ chan' = [chan EXCEPT ![p] = NULL]
    /\ plock' = [plock EXCEPT ![p] = NULL]
    /\ UNCHANGED <<state, pid, parent, killed, nextpid, waitlock, onCpu, locals>>

\* sched() switched from p to the hart's scheduler, which forgets p and
\* releases p->lock.
SwitchOut(p) ==
    /\ p \in onCpu
    /\ state[p] # "RUNNING"
    /\ onCpu' = onCpu \ {p}
    /\ plock' = [plock EXCEPT ![p] = NULL]
    /\ UNCHANGED <<table, waitlock, locals>>

\* A timer interrupt: usertrap() or kerneltrap() calls yield().  A thread that
\* holds a spinlock has interrupts off.
Yield(p) ==
    /\ Running(p)
    /\ pc[p] # "panic"
    /\ waitlock # p
    /\ \A i \in Slots : plock[i] # p
    /\ plock[p] = NULL
    /\ state' = [state EXCEPT ![p] = "RUNNABLE"]
    /\ plock' = [plock EXCEPT ![p] = p]
    /\ UNCHANGED <<pid, parent, chan, killed, nextpid, waitlock, onCpu, locals>>

----------------------------------------------------------------------------
(* Control flow of one thread.                                             *)

Goto(p, l) == pc' = [pc EXCEPT ![p] = l]

\* Enter the loop at label l with its index at the first slot.
GotoLoop(p, l) == Goto(p, l) /\ idx' = [idx EXCEPT ![p] = 1]

\* The system call returns; its locals are dead.
ReturnToUser(p) ==
    /\ Goto(p, "user")
    /\ idx' = [idx EXCEPT ![p] = 0]
    /\ widx' = [widx EXCEPT ![p] = 0]
    /\ arg' = [arg EXCEPT ![p] = 0]
    /\ kids' = [kids EXCEPT ![p] = FALSE]

\* One more iteration of the loop thread p is in.
NextSlot(p) ==
    /\ idx[p] < NPROC
    /\ idx' = [idx EXCEPT ![p] = @ + 1]
    /\ UNCHANGED pc

----------------------------------------------------------------------------
(* Traps from user space.  usertrap() kills the process on its way in and  *)
(* out when p->killed is set; user instructions are invisible, so both     *)
(* tests are the one made at control point "user".                         *)

\* An exception that is neither a system call, an interrupt nor a lazily
\* allocated page: setkilled(p).
Fault(p) ==
    /\ Running(p)
    /\ pc[p] = "user"
    /\ ~killed[p]
    /\ plock[p] = NULL
    /\ killed' = [killed EXCEPT ![p] = TRUE]
    /\ UNCHANGED <<state, pid, parent, chan, nextpid, waitlock, plock, onCpu, locals>>

\* Mutant of Exit: usertrap() does not look at p->killed.
ExitOnlyAsked(p) ==
    /\ Running(p)
    /\ pc[p] = "user"
    /\ ~killed[p]
    /\ Goto(p, IF p = initproc THEN "panic" ELSE "x_enter")
    /\ UNCHANGED <<table, waitlock, plock, onCpu, idx, widx, arg, kids>>

\* kexit(): called by sys_exit(), or by usertrap() when p was killed.  The open
\* files and the working directory are released before the process table
\* is touched.
Exit(p) ==
    /\ Running(p)
    /\ pc[p] = "user"
    /\ Goto(p, IF p = initproc THEN "panic" ELSE "x_enter")
    /\ UNCHANGED <<table, waitlock, plock, onCpu, idx, widx, arg, kids>>

\* panic() spins for ever.
Panic(p) == pc[p] = "panic" /\ UNCHANGED vars

\* usertrap() reaches syscall() only when p was not killed.
Syscall(p) ==
    /\ Running(p)
    /\ pc[p] = "user"
    /\ plock[p] = NULL
    /\ ~killed[p]

\* Bounded: no more calls than there are pids left below MAXPID.
Fork(p) ==
    /\ Syscall(p)
    /\ nextpid + Cardinality({q \in Slots : pc[q] = "f_alloc"}) <= MAXPID
    /\ GotoLoop(p, "f_alloc")
    /\ UNCHANGED <<table, waitlock, plock, onCpu, widx, arg, kids>>

Wait(p) ==
    /\ Syscall(p)
    /\ Goto(p, "w_enter")
    /\ UNCHANGED <<table, waitlock, plock, onCpu, idx, widx, arg, kids>>

Kill(p) ==
    /\ Syscall(p)
    /\ \E k \in KillPids : arg' = [arg EXCEPT ![p] = k]
    /\ GotoLoop(p, "k_scan")
    /\ UNCHANGED <<table, waitlock, plock, onCpu, widx, kids>>

----------------------------------------------------------------------------
(* kfork()                                                                 *)

\* allocproc() at slot idx[p].
AllocSlot(p) == Running(p) /\ pc[p] = "f_alloc" /\ plock[idx[p]] = NULL

\* The slot is free: it is taken, and its lock kept.  killed is not among the
\* fields allocproc() initialises.
AllocTake(p) ==
    LET i == idx[p] IN
    /\ AllocSlot(p)
    /\ state[i] = "UNUSED"
    /\ state' = [state EXCEPT ![i] = "USED"]
    /\ pid' = [pid EXCEPT ![i] = nextpid]
    /\ nextpid' = nextpid + 1
    /\ plock' = [plock EXCEPT ![i] = p]
    /\ arg' = [arg EXCEPT ![p] = i]
    /\ pc' = [pc EXCEPT ![p] = "f_copy", ![i] = "user"]
    /\ idx' = [idx EXCEPT ![p] = 0]
    /\ UNCHANGED <<parent, chan, killed, waitlock, onCpu, widx, kids>>

AllocSkip(p) ==
    /\ AllocSlot(p)
    /\ state[idx[p]] # "UNUSED"
    /\ NextSlot(p)
    /\ UNCHANGED <<table, waitlock, plock, onCpu, widx, arg, kids>>

\* No slot is free, and fork() fails.
AllocFail(p) ==
    /\ AllocSlot(p)
    /\ state[idx[p]] # "UNUSED"
    /\ idx[p] = NPROC
    /\ ReturnToUser(p)
    /\ UNCHANGED <<table, waitlock, plock, onCpu>>

\* freeproc(i), called with i's lock held.
FreeProc(i) ==
    /\ state' = [state EXCEPT ![i] = "UNUSED"]
    /\ pid' = [pid EXCEPT ![i] = 0]
    /\ parent' = [parent EXCEPT ![i] = NULL]
    /\ chan' = [chan EXCEPT ![i] = NULL]
    /\ killed' = [killed EXCEPT ![i] = FALSE]
    /\ UNCHANGED nextpid

\* The rest of allocproc() and the copy of the parent's memory and files: the
\* child's lock is released with the child still USED.
ForkCopy(p) ==
    /\ Running(p)
    /\ pc[p] = "f_copy"
    /\ plock' = [plock EXCEPT ![arg[p]] = NULL]
    /\ Goto(p, "f_parent")
    /\ UNCHANGED <<table, waitlock, onCpu, idx, widx, arg, kids>>

\* Out of memory in allocproc() or uvmcopy(): the slot is given back.
ForkFail(p) ==
    /\ Running(p)
    /\ pc[p] = "f_copy"
    /\ plock' = [plock EXCEPT ![arg[p]] = NULL]
    /\ FreeProc(arg[p])
    /\ ReturnToUser(p)
    /\ UNCHANGED <<waitlock, onCpu>>

\* acquire(&wait_lock); np->parent = p; release(&wait_lock)
ForkParent(p) ==
    /\ Running(p)
    /\ pc[p] = "f_parent"
    /\ waitlock = NULL
    /\ parent' = [parent EXCEPT ![arg[p]] = p]
    /\ Goto(p, "f_run")
    /\ UNCHANGED <<state, pid, chan, killed, nextpid, waitlock, plock, onCpu,
                   idx, widx, arg, kids>>

\* acquire(&np->lock); np->state = RUNNABLE; release(&np->lock); return pid
ForkRun(p) ==
    /\ Running(p)
    /\ pc[p] = "f_run"
    /\ plock[arg[p]] = NULL
    /\ state' = [state EXCEPT ![arg[p]] = "RUNNABLE"]
    /\ ReturnToUser(p)
    /\ UNCHANGED <<pid, parent, chan, killed, nextpid, waitlock, plock, onCpu>>

----------------------------------------------------------------------------
(* wakeup(c): slot widx[p] of the loop.                                    *)

WakeSlot(p, c) ==
    LET j == widx[p] IN
    \/ j = p /\ UNCHANGED state
    \/ /\ j # p
       /\ plock[j] = NULL
       /\ state' = [state EXCEPT
              ![j] = IF @ = "SLEEPING" /\ chan[j] = c THEN "RUNNABLE" ELSE @]

----------------------------------------------------------------------------
(* kexit(), after the files                                                *)

ExitEnter(p) ==
    /\ Running(p)
    /\ pc[p] = "x_enter"
    /\ waitlock = NULL
    /\ waitlock' = p
    /\ GotoLoop(p, "x_reparent")
    /\ UNCHANGED <<table, plock, onCpu, widx, arg, kids>>

\* Mutant of ReparentNext: reparent() leaves out the last slot.
ReparentNextShort(p) ==
    \/ /\ idx[p] < NPROC - 1
       /\ Goto(p, "x_reparent")
       /\ idx' = [idx EXCEPT ![p] = @ + 1]
       /\ widx' = [widx EXCEPT ![p] = 0]
    \/ /\ idx[p] = NPROC - 1
       /\ Goto(p, "x_wakeparent")
       /\ idx' = [idx EXCEPT ![p] = 0]
       /\ widx' = [widx EXCEPT ![p] = 1]

\* After slot idx[p], reparent() goes on to the next one or returns to kexit(),
\* which calls wakeup(p->parent).
ReparentNext(p) ==
    \/ /\ idx[p] < NPROC
       /\ Goto(p, "x_reparent")
       /\ idx' = [idx EXCEPT ![p] = @ + 1]
       /\ widx' = [widx EXCEPT ![p] = 0]
    \/ /\ idx[p] = NPROC
       /\ Goto(p, "x_wakeparent")
       /\ idx' = [idx EXCEPT ![p] = 0]
       /\ widx' = [widx EXCEPT ![p] = 1]

\* reparent() at slot idx[p]: a child is given to init, and init is woken,
\* since the child may be a zombie already.
ReparentChild(p) ==
    /\ Running(p)
    /\ pc[p] = "x_reparent"
    /\ parent[idx[p]] = p
    /\ parent' = [parent EXCEPT ![idx[p]] = initproc]
    /\ Goto(p, "x_wakeinit")
    /\ widx' = [widx EXCEPT ![p] = 1]
    /\ UNCHANGED <<state, pid, chan, killed, nextpid, waitlock, plock, onCpu,
                   idx, arg, kids>>

ReparentSkip(p) ==
    /\ Running(p)
    /\ pc[p] = "x_reparent"
    /\ parent[idx[p]] # p
    /\ ReparentNext(p)
    /\ UNCHANGED <<table, waitlock, plock, onCpu, arg, kids>>

WakeInit(p) ==
    /\ Running(p)
    /\ pc[p] = "x_wakeinit"
    /\ WakeSlot(p, initproc)
    /\ \/ /\ widx[p] < NPROC
          /\ widx' = [widx EXCEPT ![p] = @ + 1]
          /\ UNCHANGED <<pc, idx>>
       \/ /\ widx[p] = NPROC
          /\ ReparentNext(p)
    /\ UNCHANGED <<pid, parent, chan, killed, nextpid, waitlock, plock, onCpu, arg, kids>>

WakeParent(p) ==
    /\ Running(p)
    /\ pc[p] = "x_wakeparent"
    /\ WakeSlot(p, parent[p])
    /\ \/ /\ widx[p] < NPROC
          /\ widx' = [widx EXCEPT ![p] = @ + 1]
          /\ UNCHANGED pc
       \/ /\ widx[p] = NPROC
          /\ widx' = [widx EXCEPT ![p] = 0]
          /\ Goto(p, "x_zombie")
    /\ UNCHANGED <<pid, parent, chan, killed, nextpid, waitlock, plock, onCpu,
                   idx, arg, kids>>

\* Mutant of ExitZombie: wait_lock is still held in sched().
ExitZombieKeepsLock(p) ==
    /\ Running(p)
    /\ pc[p] = "x_zombie"
    /\ plock[p] = NULL
    /\ plock' = [plock EXCEPT ![p] = p]
    /\ state' = [state EXCEPT ![p] = "ZOMBIE"]
    /\ Goto(p, "gone")
    /\ UNCHANGED <<pid, parent, chan, killed, nextpid, waitlock, onCpu, idx, widx,
                   arg, kids>>

\* acquire(&p->lock); p->state = ZOMBIE; release(&wait_lock); sched()
ExitZombie(p) ==
    /\ Running(p)
    /\ pc[p] = "x_zombie"
    /\ plock[p] = NULL
    /\ plock' = [plock EXCEPT ![p] = p]
    /\ state' = [state EXCEPT ![p] = "ZOMBIE"]
    /\ waitlock' = NULL
    /\ Goto(p, "gone")
    /\ UNCHANGED <<pid, parent, chan, killed, nextpid, onCpu, idx, widx, arg, kids>>

----------------------------------------------------------------------------
(* kwait()                                                                 *)

\* acquire(&wait_lock), on entry and at the end of the sleep() below; then the
\* scan for exited children starts.
WaitEnter(p) ==
    /\ Running(p)
    /\ pc[p] = "w_enter"
    /\ waitlock = NULL
    /\ waitlock' = p
    /\ GotoLoop(p, "w_scan")
    /\ kids' = [kids EXCEPT ![p] = FALSE]
    /\ UNCHANGED <<table, plock, onCpu, widx, arg>>

\* Mutant of FoundZombie: kwait() looks at the child without its lock.
FoundZombieUnlocked(p) ==
    /\ Running(p)
    /\ pc[p] = "w_scan"
    /\ parent[idx[p]] = p
    /\ state[idx[p]] = "ZOMBIE"

\* Slot idx[p] holds an exited child.
FoundZombie(p) ==
    /\ Running(p)
    /\ pc[p] = "w_scan"
    /\ parent[idx[p]] = p
    /\ plock[idx[p]] = NULL
    /\ state[idx[p]] = "ZOMBIE"

\* It is freed and its pid returned.
WaitReap(p) ==
    /\ FoundZombie(p)
    /\ FreeProc(idx[p])
    /\ waitlock' = NULL
    /\ ReturnToUser(p)
    /\ UNCHANGED <<plock, onCpu>>

\* Mutant of WaitFault: kwait() tries again for ever.
WaitFaultRetries(p) ==
    /\ FoundZombie(p)
    /\ waitlock' = NULL
    /\ Goto(p, "w_enter")
    /\ UNCHANGED <<table, plock, onCpu, idx, widx, arg, kids>>

\* The copy of its status to user space fails: it stays a zombie.
WaitFault(p) ==
    /\ FoundZombie(p)
    /\ waitlock' = NULL
    /\ ReturnToUser(p)
    /\ UNCHANGED <<table, plock, onCpu>>

\* Slot idx[p] holds no child of p, or a live one.
WaitScan(p) ==
    LET i == idx[p] IN
    /\ Running(p)
    /\ pc[p] = "w_scan"
    /\ parent[i] = p => plock[i] = NULL /\ state[i] # "ZOMBIE"
    /\ kids' = [kids EXCEPT ![p] = @ \/ parent[i] = p]
    /\ \/ NextSlot(p)
       \/ /\ i = NPROC
          /\ idx' = [idx EXCEPT ![p] = 0]
          /\ Goto(p, "w_killed")
    /\ UNCHANGED <<table, waitlock, plock, onCpu, widx, arg>>

\* if(!havekids || killed(p)) return -1
WaitFail(p) ==
    /\ Running(p)
    /\ pc[p] = "w_killed"
    /\ plock[p] = NULL
    /\ ~kids[p] \/ killed[p]
    /\ waitlock' = NULL
    /\ ReturnToUser(p)
    /\ UNCHANGED <<table, plock, onCpu>>

\* Mutants of WaitGo: wait_lock is dropped before sleep() has p->lock; a process
\* without children sleeps.
WaitGoUnlocks(p) ==
    /\ Running(p)
    /\ pc[p] = "w_killed"
    /\ plock[p] = NULL
    /\ kids[p] /\ ~killed[p]
    /\ waitlock' = NULL
    /\ Goto(p, "w_sleep")
    /\ UNCHANGED <<table, plock, onCpu, idx, widx, arg, kids>>

WaitGoChildless(p) ==
    /\ Running(p)
    /\ pc[p] = "w_killed"
    /\ plock[p] = NULL
    /\ ~killed[p]
    /\ Goto(p, "w_sleep")
    /\ UNCHANGED <<table, waitlock, plock, onCpu, idx, widx, arg, kids>>

\* killed() took and dropped p->lock, so its answer may be old when p sleeps.
WaitGo(p) ==
    /\ Running(p)
    /\ pc[p] = "w_killed"
    /\ plock[p] = NULL
    /\ kids[p] /\ ~killed[p]
    /\ Goto(p, "w_sleep")
    /\ UNCHANGED <<table, waitlock, plock, onCpu, idx, widx, arg, kids>>

\* sleep(p, &wait_lock), up to its sched(): p->lock is taken before wait_lock
\* is released, and stays held until the hart is back in scheduler().
WaitSleep(p) ==
    /\ Running(p)
    /\ pc[p] = "w_sleep"
    /\ plock[p] = NULL
    /\ plock' = [plock EXCEPT ![p] = p]
    /\ waitlock' = NULL
    /\ chan' = [chan EXCEPT ![p] = p]
    /\ state' = [state EXCEPT ![p] = "SLEEPING"]
    /\ Goto(p, "w_enter")
    /\ UNCHANGED <<pid, parent, killed, nextpid, onCpu, idx, widx, arg, kids>>

----------------------------------------------------------------------------
(* kkill() at slot idx[p].                                                 *)

KillSlot(p) == Running(p) /\ pc[p] = "k_scan" /\ plock[idx[p]] = NULL

\* The slot has the pid: it is marked, and woken if it sleeps.
KillHit(p) ==
    LET i == idx[p] IN
    /\ KillSlot(p)
    /\ pid[i] = arg[p]
    /\ killed' = [killed EXCEPT ![i] = TRUE]
    /\ state' = [state EXCEPT ![i] = IF @ = "SLEEPING" THEN "RUNNABLE" ELSE @]
    /\ ReturnToUser(p)
    /\ UNCHANGED <<pid, parent, chan, nextpid, waitlock, plock, onCpu>>

KillSkip(p) ==
    /\ KillSlot(p)
    /\ pid[idx[p]] # arg[p]
    /\ NextSlot(p)
    /\ UNCHANGED <<table, waitlock, plock, onCpu, widx, arg, kids>>

\* No process has the pid.
KillMiss(p) ==
    /\ KillSlot(p)
    /\ pid[idx[p]] # arg[p]
    /\ idx[p] = NPROC
    /\ ReturnToUser(p)
    /\ UNCHANGED <<table, waitlock, plock, onCpu>>

----------------------------------------------------------------------------
(* The specification                                                       *)

\* After userinit(): only the first process exists, and no hart runs it yet.
Init ==
    /\ state = [i \in Slots |-> IF i = initproc THEN "RUNNABLE" ELSE "UNUSED"]
    /\ pid = [i \in Slots |-> IF i = initproc THEN 1 ELSE 0]
    /\ parent = [i \in Slots |-> NULL]
    /\ chan = [i \in Slots |-> NULL]
    /\ killed = [i \in Slots |-> FALSE]
    /\ nextpid = 2
    /\ waitlock = NULL
    /\ plock = [i \in Slots |-> NULL]
    /\ onCpu = {}
    /\ pc = [i \in Slots |-> "user"]
    /\ idx = [i \in Slots |-> 0]
    /\ widx = [i \in Slots |-> 0]
    /\ arg = [i \in Slots |-> 0]
    /\ kids = [i \in Slots |-> FALSE]

\* The steps a thread takes inside the kernel once it is there.
KernelStep(p) ==
    \/ AllocTake(p) \/ AllocSkip(p) \/ AllocFail(p)
    \/ ForkCopy(p) \/ ForkFail(p) \/ ForkParent(p) \/ ForkRun(p)
    \/ ExitEnter(p) \/ ReparentChild(p) \/ ReparentSkip(p)
    \/ WakeInit(p) \/ WakeParent(p) \/ ExitZombie(p)
    \/ WaitEnter(p) \/ WaitReap(p) \/ WaitFault(p) \/ WaitScan(p)
    \/ WaitFail(p) \/ WaitGo(p) \/ WaitSleep(p)
    \/ KillHit(p) \/ KillSkip(p) \/ KillMiss(p) \/ Panic(p)

\* What the user program and the devices decide.
UserStep(p) == Fault(p) \/ Exit(p) \/ Fork(p) \/ Wait(p) \/ Kill(p)

\* The context switches between threads and schedulers.
SwitchStep(p) == Dispatch(p) \/ Resume(p) \/ SwitchOut(p) \/ Yield(p)

Next == \E p \in Slots : SwitchStep(p) \/ UserStep(p) \/ KernelStep(p)

Spec == Init /\ [][Next]_vars

\* Harts keep executing, and the timer does not preempt a thread at the same
\* instruction for ever; a spinlock that is free again and again is taken (the
\* spinning amoswap wins some time); the lottery picks a process that is
\* runnable again and again with probability one; the timer interrupts user
\* code, and a killed process dies in that trap.
Fairness ==
    \A p \in Slots :
        /\ SF_vars(Dispatch(p) \/ Resume(p) \/ SwitchOut(p)
                   \/ (pc[p] = "user" /\ Yield(p)))
        /\ SF_vars(KernelStep(p) \/ (killed[p] /\ Exit(p)))

FairSpec == Spec /\ Fairness

----------------------------------------------------------------------------
(* Properties                                                              *)

\* No lost wakeup between kexit() and kwait(): once wait_lock is free, no
\* process sleeps in wait() while it has a zombie child, be it its own child
\* that exited while it scanned or, for init, one that reparent() handed over.
NoLostExit ==
    waitlock = NULL =>
        \A p, c \in Slots :
            state[p] = "SLEEPING" /\ parent[c] = p => state[c] # "ZOMBIE"

\* A process that sleeps in wait() has a child whose exit can wake it: nobody
\* takes its last child away behind its back.
SleeperHasChild ==
    \A p \in Slots : state[p] = "SLEEPING" => \E c \in Slots : parent[c] = p

\* Every process that can run or wait to be reaped, except init, has a parent
\* that is still there to reap it: exit hands its children to init before it
\* becomes a zombie, and fork makes a child runnable only after it is linked.
LiveParent ==
    \A c \in Slots \ {initproc} :
        state[c] \in {"SLEEPING", "RUNNABLE", "RUNNING", "ZOMBIE"} =>
            /\ parent[c] # NULL
            /\ state[parent[c]] \in {"SLEEPING", "RUNNABLE", "RUNNING"}

\* kwait() never frees, and allocproc() never reuses, a slot whose kernel
\* stack a hart still executes on ("make sure the child isn't still in exit()
\* or swtch()").
NoReuseOnCpu ==
    \A i \in Slots : state[i] \in {"UNUSED", "USED"} => i \notin onCpu

\* The panics of sched(): a thread that has given up the hart in sched() holds
\* its own lock, and no other spinlock.
SchedLocks ==
    \A p \in Slots : p \in onCpu /\ state[p] # "RUNNING" =>
        /\ plock[p] = p
        /\ waitlock # p
        /\ \A i \in Slots \ {p} : plock[i] # p

\* init has called exit(), and the hart it ran on spins in panic().
Panicked == pc[initproc] = "panic"

\* wait() returns once a child has exited: a process inside wait() that has a
\* zombie child gets back to user space.
WaitReturns ==
    \A p \in Slots :
        (pc[p] \in WaitPCs /\ \E c \in Slots : parent[c] = p /\ state[c] = "ZOMBIE")
            ~> (pc[p] = "user" \/ Panicked)

\* A process found killed in user space becomes a zombie.
KilledExits ==
    \A p \in Slots \ {initproc} :
        (killed[p] /\ state[p] \in {"RUNNABLE", "RUNNING"} /\ pc[p] = "user")
            ~> (state[p] = "ZOMBIE" \/ Panicked)

\* "Kill the process with the given pid" (kkill): a slot that allocproc()
\* hands out belongs to a process nobody can have killed yet.
FreshNotKilled ==
    [][\A i \in Slots : state[i] = "UNUSED" /\ state'[i] = "USED" => ~killed'[i]]_vars
=============================================================================
