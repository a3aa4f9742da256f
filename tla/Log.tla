-------------------------------- MODULE Log --------------------------------
(***************************************************************************)
(* The xv6 log (xv6-riscv/kernel/log.c) over the buffer cache and the      *)
(* disk: begin_op, log_write, end_op, the group commit one disk write at a *)
(* time, crashes at any moment and recovery, which may crash as well.      *)
(*                                                                         *)
(* log.lock is held over each of begin_op's tests, over log_write and over *)
(* the two critical sections of end_op, so each is one step; sleep() under *)
(* it is atomic (module Proc).  A buffer is locked from the modification   *)
(* of its data until after log_write(), so the two are one step.  A disk   *)
(* write of one block is atomic.  A panic in log_write() keeps log.lock    *)
(* until the machine restarts.                                             *)
(***************************************************************************)
EXTENDS Naturals, Sequences, FiniteSets

CONSTANTS
    Proc,           \* processes that make file-system calls
    Block,          \* blocks outside the log
    MAXOPBLOCKS,    \* blocks that a call writes at most, each any number of times
    LOGBLOCKS,      \* blocks of the on-disk log
    MaxOps,         \* bound: calls begun
    MaxCrashes      \* bound: crashes

ASSUME SizeAssumption ==
    /\ MAXOPBLOCKS \in Nat \ {0}
    /\ LOGBLOCKS \in Nat
    /\ LOGBLOCKS >= MAXOPBLOCKS
ASSUME ProcAssumption == IsFiniteSet(Proc)
ASSUME BoundAssumption == MaxOps \in Nat /\ MaxCrashes \in Nat

VARIABLES
    (* the disk *)
    home,           \* home locations
    logdata,        \* the log's data blocks
    head,           \* block numbers in the on-disk header
    (* memory *)
    cache,          \* what bread() returns for each block
    pins,           \* references of log_write() on each buffer
    lh,             \* log.lh.block[0 .. n-1]
    outstanding,    \* log.outstanding
    committing,     \* log.committing
    tail,           \* loop index of write_log() and install_trans()
    boot,           \* "up", or where recover_from_log() is
    pc,             \* where each process is
    wrote,          \* blocks the current call has passed to log_write()
    id,             \* which call a process is in: names what it writes
    (* bounds *)
    ops,            \* calls begun
    crashes

disk == <<home, logdata, head>>
vars == <<home, logdata, head, cache, pins, lh, outstanding, committing, tail,
          boot, pc, wrote, id, ops, crashes>>

Val == 0 .. MaxOps      \* the call that wrote a block last

CommitPCs == {"write_log", "write_head", "install", "clear", "finish"}

TypeOK ==
    /\ home \in [Block -> Val]
    /\ logdata \in [1 .. LOGBLOCKS -> Val]
    /\ head \in Seq(Block) /\ Len(head) <= LOGBLOCKS
    /\ cache \in [Block -> Val]
    /\ pins \in [Block -> Nat]
    /\ lh \in Seq(Block) /\ Len(lh) <= LOGBLOCKS
    /\ outstanding \in 0 .. Cardinality(Proc)
    /\ committing \in BOOLEAN
    /\ tail \in 1 .. LOGBLOCKS + 1
    /\ boot \in {"up", "read_head", "install", "clear"}
    /\ pc \in [Proc -> {"idle", "begin", "asleep", "op", "panic"} \cup CommitPCs]
    /\ wrote \in [Proc -> SUBSET Block]
    /\ id \in [Proc -> Val]
    /\ ops \in 0 .. MaxOps
    /\ crashes \in 0 .. MaxCrashes

\* A process that panicked in log_write() has log.lock.
Halted == \E p \in Proc : pc[p] = "panic"

Logged(b) == \E i \in 1 .. Len(lh) : lh[i] = b

Goto(p, l) == pc' = [pc EXCEPT ![p] = l]

\* wakeup(&log)
WakeLog(f) == [q \in Proc |-> IF f[q] = "asleep" THEN "begin" ELSE f[q]]

----------------------------------------------------------------------------
(* File-system calls                                                       *)

\* A call enters begin_op().
Call(p) ==
    /\ boot = "up"
    /\ pc[p] = "idle"
    /\ ops < MaxOps
    /\ ops' = ops + 1
    /\ id' = [id EXCEPT ![p] = ops + 1]
    /\ Goto(p, "begin")
    /\ UNCHANGED <<disk, cache, pins, lh, outstanding, committing, tail, boot,
                   wrote, crashes>>

\* Mutant of MustWait: the space of this call itself is not reserved.
MustWaitNoSelf ==
    \/ committing
    \/ Len(lh) + outstanding * MAXOPBLOCKS > LOGBLOCKS

\* begin_op() must wait: a commit is going on, or this call might exhaust the
\* space that is left in the log.
MustWait ==
    \/ committing
    \/ Len(lh) + (outstanding + 1) * MAXOPBLOCKS > LOGBLOCKS

BeginSleep(p) ==
    /\ pc[p] = "begin"
    /\ ~Halted
    /\ MustWait
    /\ Goto(p, "asleep")
    /\ UNCHANGED <<disk, cache, pins, lh, outstanding, committing, tail, boot,
                   wrote, id, ops, crashes>>

BeginOp(p) ==
    /\ pc[p] = "begin"
    /\ ~Halted
    /\ ~MustWait
    /\ outstanding' = outstanding + 1
    /\ Goto(p, "op")
    /\ UNCHANGED <<disk, cache, pins, lh, committing, tail, boot, wrote, id, ops, crashes>>

\* The next block of a call: one it has written before, or a new one.
MayWrite(p, b) ==
    /\ pc[p] = "op"
    /\ ~Halted
    /\ b \in wrote[p] \/ Cardinality(wrote[p]) < MAXOPBLOCKS

\* log_write() panics before it looks whether the block is logged already.
TooBig == Len(lh) >= LOGBLOCKS \/ outstanding < 1

\* Mutant of LogWrite: bpin() before the test for absorption.
LogWritePinsAgain(p, b) ==
    /\ MayWrite(p, b)
    /\ cache' = [cache EXCEPT ![b] = id[p]]
    /\ IF TooBig
       THEN Goto(p, "panic") /\ UNCHANGED <<lh, pins, wrote>>
       ELSE /\ lh' = IF Logged(b) THEN lh ELSE Append(lh, b)
            /\ pins' = [pins EXCEPT ![b] = @ + 1]
            /\ wrote' = [wrote EXCEPT ![p] = @ \cup {b}]
            /\ UNCHANGED pc
    /\ UNCHANGED <<disk, outstanding, committing, tail, boot, id, ops, crashes>>

\* The call modifies block b and passes it to log_write(): the block is logged
\* and pinned once per transaction (log absorption).
LogWrite(p, b) ==
    /\ MayWrite(p, b)
    /\ cache' = [cache EXCEPT ![b] = id[p]]
    /\ IF TooBig
       THEN Goto(p, "panic") /\ UNCHANGED <<lh, pins, wrote>>
       ELSE /\ IF Logged(b)
               THEN UNCHANGED <<lh, pins>>
               ELSE lh' = Append(lh, b) /\ pins' = [pins EXCEPT ![b] = @ + 1]
            /\ wrote' = [wrote EXCEPT ![p] = @ \cup {b}]
            /\ UNCHANGED pc
    /\ UNCHANGED <<disk, outstanding, committing, tail, boot, id, ops, crashes>>

\* end_op() of a call that is not the last one: waiters may fit in now.
EndOp(p) ==
    /\ pc[p] = "op"
    /\ ~Halted
    /\ outstanding > 1
    /\ outstanding' = outstanding - 1
    /\ wrote' = [wrote EXCEPT ![p] = {}]
    /\ id' = [id EXCEPT ![p] = 0]
    /\ pc' = WakeLog([pc EXCEPT ![p] = "idle"])
    /\ UNCHANGED <<disk, cache, pins, lh, committing, tail, boot, ops, crashes>>

\* end_op() of the last call, which commits for all; commit() has nothing to
\* do when nothing was logged.
EndLast(p) ==
    /\ pc[p] = "op"
    /\ ~Halted
    /\ outstanding = 1
    /\ outstanding' = 0
    /\ committing' = TRUE
    /\ wrote' = [wrote EXCEPT ![p] = {}]
    /\ id' = [id EXCEPT ![p] = 0]
    /\ tail' = 1
    /\ Goto(p, IF lh = << >> THEN "finish" ELSE "write_log")
    /\ UNCHANGED <<disk, cache, pins, lh, boot, ops, crashes>>

----------------------------------------------------------------------------
(* commit(), one disk write a step                                         *)

\* Mutant of WriteLog: blocks are installed before the header is written.
WriteLogThenInstall(p) ==
    /\ pc[p] = "write_log"
    /\ logdata' = [logdata EXCEPT ![tail] = cache[lh[tail]]]
    /\ tail' = IF tail < Len(lh) THEN tail + 1 ELSE 1
    /\ Goto(p, IF tail < Len(lh) THEN "write_log" ELSE "install")
    /\ UNCHANGED <<home, head, cache, pins, lh, outstanding, committing, boot,
                   wrote, id, ops, crashes>>

\* write_log(): copy a modified block from the cache to the log.
WriteLog(p) ==
    /\ pc[p] = "write_log"
    /\ logdata' = [logdata EXCEPT ![tail] = cache[lh[tail]]]
    /\ tail' = IF tail < Len(lh) THEN tail + 1 ELSE 1
    /\ Goto(p, IF tail < Len(lh) THEN "write_log" ELSE "write_head")
    /\ UNCHANGED <<home, head, cache, pins, lh, outstanding, committing, boot,
                   wrote, id, ops, crashes>>

\* write_head(): the real commit.
WriteHead(p) ==
    /\ pc[p] = "write_head"
    /\ head' = lh
    /\ Goto(p, "install")
    /\ UNCHANGED <<home, logdata, cache, pins, lh, outstanding, committing, tail,
                   boot, wrote, id, ops, crashes>>

\* install_trans(0): write a block home, and unpin its buffer.
InstallTrans(p) ==
    LET b == lh[tail] IN
    /\ pc[p] = "install"
    /\ home' = [home EXCEPT ![b] = logdata[tail]]
    /\ cache' = [cache EXCEPT ![b] = logdata[tail]]
    /\ pins' = [pins EXCEPT ![b] = @ - 1]
    /\ tail' = IF tail < Len(lh) THEN tail + 1 ELSE 1
    /\ Goto(p, IF tail < Len(lh) THEN "install" ELSE "clear")
    /\ UNCHANGED <<logdata, head, lh, outstanding, committing, boot, wrote, id, ops, crashes>>

\* log.lh.n = 0; write_head(): erase the transaction from the log.
ClearLog(p) ==
    /\ pc[p] = "clear"
    /\ lh' = << >>
    /\ head' = << >>
    /\ Goto(p, "finish")
    /\ UNCHANGED <<home, logdata, cache, pins, outstanding, committing, tail, boot,
                   wrote, id, ops, crashes>>

\* Mutant of FinishCommit: no wakeup(&log).
FinishCommitSilent(p) ==
    /\ pc[p] = "finish"
    /\ ~Halted
    /\ committing' = FALSE
    /\ Goto(p, "idle")
    /\ UNCHANGED <<disk, cache, pins, lh, outstanding, tail, boot, wrote, id, ops, crashes>>

\* Back in end_op(): log.committing = 0; wakeup(&log)
FinishCommit(p) ==
    /\ pc[p] = "finish"
    /\ ~Halted
    /\ committing' = FALSE
    /\ pc' = WakeLog([pc EXCEPT ![p] = "idle"])
    /\ UNCHANGED <<disk, cache, pins, lh, outstanding, tail, boot, wrote, id, ops, crashes>>

----------------------------------------------------------------------------
(* The buffer cache                                                        *)

\* bget() recycles a buffer nobody references; the next bread() of the block
\* goes to the disk.
Recycle(b) ==
    /\ pins[b] = 0
    /\ cache' = [cache EXCEPT ![b] = home[b]]
    /\ UNCHANGED <<disk, pins, lh, outstanding, committing, tail, boot, pc, wrote, id,
                   ops, crashes>>

----------------------------------------------------------------------------
(* Crashes and recovery                                                    *)

\* The machine stops and restarts: only the disk survives.
Crash ==
    /\ crashes < MaxCrashes
    /\ crashes' = crashes + 1
    /\ boot' = "read_head"
    /\ cache' = home
    /\ pins' = [b \in Block |-> 0]
    /\ lh' = << >>
    /\ outstanding' = 0
    /\ committing' = FALSE
    /\ tail' = 1
    /\ pc' = [p \in Proc |-> "idle"]
    /\ wrote' = [p \in Proc |-> {}]
    /\ id' = [p \in Proc |-> 0]
    /\ UNCHANGED <<disk, ops>>

\* initlog() calls recover_from_log(), in the first process, before any
\* file-system call.
ReadHead ==
    /\ boot = "read_head"
    /\ lh' = head
    /\ boot' = IF head = << >> THEN "clear" ELSE "install"
    /\ UNCHANGED <<disk, cache, pins, outstanding, committing, tail, pc, wrote, id,
                   ops, crashes>>

\* install_trans(1)
RecoverInstall ==
    LET b == lh[tail] IN
    /\ boot = "install"
    /\ home' = [home EXCEPT ![b] = logdata[tail]]
    /\ cache' = [cache EXCEPT ![b] = logdata[tail]]
    /\ tail' = IF tail < Len(lh) THEN tail + 1 ELSE 1
    /\ boot' = IF tail < Len(lh) THEN "install" ELSE "clear"
    /\ UNCHANGED <<logdata, head, pins, lh, outstanding, committing, pc, wrote, id,
                   ops, crashes>>

RecoverClear ==
    /\ boot = "clear"
    /\ lh' = << >>
    /\ head' = << >>
    /\ boot' = "up"
    /\ UNCHANGED <<home, logdata, cache, pins, outstanding, committing, tail, pc,
                   wrote, id, ops, crashes>>

----------------------------------------------------------------------------
(* The specification                                                       *)

\* A disk fresh from mkfs: the log is empty.
Init ==
    /\ home = [b \in Block |-> 0]
    /\ logdata = [i \in 1 .. LOGBLOCKS |-> 0]
    /\ head = << >>
    /\ cache = home
    /\ pins = [b \in Block |-> 0]
    /\ lh = << >>
    /\ outstanding = 0
    /\ committing = FALSE
    /\ tail = 1
    /\ boot = "read_head"
    /\ pc = [p \in Proc |-> "idle"]
    /\ wrote = [p \in Proc |-> {}]
    /\ id = [p \in Proc |-> 0]
    /\ ops = 0
    /\ crashes = 0

CommitStep(p) ==
    WriteLog(p) \/ WriteHead(p) \/ InstallTrans(p) \/ ClearLog(p) \/ FinishCommit(p)

EndStep(p) == EndOp(p) \/ EndLast(p)

Recover == ReadHead \/ RecoverInstall \/ RecoverClear

Next ==
    \/ \E p \in Proc :
        \/ Call(p) \/ BeginSleep(p) \/ BeginOp(p) \/ EndStep(p) \/ CommitStep(p)
        \/ \E b \in Block : LogWrite(p, b)
    \/ \E b \in Block : Recycle(b)
    \/ Crash
    \/ Recover

Spec == Init /\ [][Next]_vars

\* A process that runs goes on; every call reaches its end_op().  Nothing is
\* assumed about which of several waiters gets in.
FairSpec ==
    /\ Spec
    /\ WF_vars(Recover)
    /\ \A p \in Proc : WF_vars(BeginSleep(p) \/ BeginOp(p) \/ EndStep(p) \/ CommitStep(p))

----------------------------------------------------------------------------
(* Properties                                                              *)

\* Home blocks h overlaid by the log blocks d that the header n names.
Overlay(h, d, n) ==
    [b \in Block |->
        IF \E i \in 1 .. Len(n) : n[i] = b
        THEN d[CHOOSE i \in 1 .. Len(n) : n[i] = b]
        ELSE h[b]]

\* The disk as recover_from_log() would leave it: the logged blocks count when
\* the header says that a transaction is committed.
Recovered == Overlay(home, logdata, head)

\* Crash atomicity: the log implements the abstract disk on which a group of
\* calls commits in one step, no call in progress is ever part of a commit, a
\* group starts only when the one before is durable, and a crash (also one in
\* the middle of commit or of recovery) loses exactly what was not committed.
A == INSTANCE AtomicDisk WITH
        mem     <- IF boot = "up" THEN cache ELSE Recovered,
        durable <- Recovered,
        active  <- {p \in Proc : pc[p] \in {"op", "panic"}}

AtomicDiskSpec == A!Spec

\* The panic of end_op() cannot happen: no call is in progress during a commit
\* and only one process commits.
CommitAlone ==
    committing =>
        /\ \A p \in Proc : pc[p] # "op"
        /\ \A p, q \in Proc : pc[p] \in CommitPCs /\ pc[q] \in CommitPCs => p = q

\* A process that has not logged all the blocks that begin_op() reserved for it never
\* panics in log_write(), whatever is logged by the calls that were let in with it:
\* the log is not full when it writes a block, for the first time or again.  Nor can
\* the panic of end_op() happen.  A call that logs its last reserved block may fill
\* the log and then panic on a block that is in it (NeverPanics).
LogNeverFull ==
    /\ CommitAlone
    /\ \A p \in Proc : pc[p] = "panic" => Cardinality(wrote[p]) = MAXOPBLOCKS

\* "max # of blocks any FS op writes" (param.h): calls of so many blocks never make
\* log_write() panic.
NeverPanics == ~Halted

\* Pins balance: a buffer is pinned exactly once while its block is logged and
\* not installed, so none leaks and none is recycled too early.
PinsBalanced ==
    boot = "up" =>
        \A b \in Block :
            pins[b] = Cardinality({i \in 1 .. Len(lh) :
                /\ lh[i] = b
                /\ \A p \in Proc : pc[p] = "install" => tail <= i
                /\ \A p \in Proc : pc[p] # "clear"})

\* No lost wakeup in begin_op(): a process only sleeps while a commit runs, or
\* a call that will end, and each of them wakes it; or after a panic.
SleepersWoken ==
    \A p \in Proc : pc[p] = "asleep" =>
        \/ committing
        \/ Halted
        \/ outstanding > 0 /\ \E q \in Proc : pc[q] = "op"

\* Every process that sleeps in begin_op() is woken: by the end of a commit or
\* by an end_op() that gives reserved space back.
BeginWoken == \A p \in Proc : (pc[p] = "asleep") ~> (pc[p] # "asleep")

\* A commit that has begun ends, at the latest with a crash.
CommitEnds == committing ~> ~committing

=============================================================================
